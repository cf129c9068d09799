---------------------------- MODULE MarginProofs ----------------------------
(***************************************************************************)
(* The answers of the exchange keep the invariant of MarginInvariant, and  *)
(* what the invariant says of the properties of Margin: the theorems are   *)
(* at the end.                                                             *)
(*                                                                         *)
(* on_decrease_trade_return works on copies of the position and of its two *)
(* assets, which repay, top up and cover the debt one after the other and  *)
(* are then saved.  Each of these steps is shown to keep the same facts of *)
(* the copies (Midway, Settling), and saving them to keep the invariant.   *)
(***************************************************************************)
EXTENDS MarginInvariant

-----------------------------------------------------------------------------
(***************************************************************************)
(* The answer of an opening.                                               *)
(***************************************************************************)
\* An asset is saved as it is, if its supply is sound.
LEMMA SavedAsset ==
  ASSUME NEW ast \in AssetType, SupplySound(ast)
  PROVE  /\ PoolInvariant(Normalized(ast).supplied)
         /\ SupplyChange(ast, Normalized(ast), 0, 0)
<1>1. /\ ast.supplied \in PoolType /\ ast.supplied.shares \in Nat /\ ast.supplied.balance \in Nat
      /\ Worth(ast) \in Int /\ PoolInvariant(ast.supplied)
  BY AssetNumbers DEF SupplySound
<1>2. Normalized(ast).supplied = ast.supplied
  <2>1. CASE ast.supplied.shares # 0
    BY <2>1, NormalizedAsset
  <2>2. CASE ast.supplied.shares = 0
    <3>1. ast.supplied.balance = 0
      BY <2>2 DEF SupplySound
    <3>2. ast.supplied = EmptyPool
      BY <1>1, <2>2, <3>1 DEF PoolType, EmptyPool
    <3> QED BY <2>2, <3>2, NormalizedAsset
  <2> QED BY <2>1, <2>2
<1>3. /\ Normalized(ast) \in AssetType /\ SameDebt(ast, Normalized(ast))
      /\ Worth(Normalized(ast)) = Worth(ast) /\ SupplySound(Normalized(ast))
  BY <1>1, <1>2, NormalizedAsset
<1>4. PriceNotLower(ast.supplied, ast.supplied)
  BY NoSupplyChange DEF SupplyChange
<1> QED BY <1>1, <1>2, <1>3, <1>4 DEF SupplyChange

\* The open fee: shares burnt for the protocol, at the price of the pool or less.
LEMMA FeeTaken ==
  ASSUME NEW ast \in AssetType, SupplySound(ast), NEW n \in Nat, n <= ast.supplied.shares
  PROVE  /\ PoolInvariant(Normalized(WithFee(ast, n)).supplied)
         /\ SupplyChange(ast, Normalized(WithFee(ast, n)), 0 - n, 0)
<1> DEFINE amount == SharesToAmount(ast.supplied, n, FALSE)
           un     == Unsupplied(ast, n, amount)
           after  == WithFee(ast, n)
<1>1. /\ ast.supplied \in PoolType /\ ast.supplied.shares \in Nat /\ ast.supplied.balance \in Nat
      /\ Worth(ast) \in Int /\ PoolInvariant(ast.supplied) /\ ast.prot_fee \in Nat
  BY AssetNumbers DEF SupplySound
<1>2. amount \in Nat /\ CanWithdraw(ast.supplied, n, amount)
  BY <1>1, AmountDown DEF CanWithdraw
<1>3. PriceNotLower(ast.supplied, PoolWithdraw(ast.supplied, n, amount))
  BY <1>1, BurningKeepsPrice
<1>4. after = [un EXCEPT !.prot_fee = @ + amount]
  BY DEF WithFee
<1> HIDE DEF amount, after
<1>5. /\ un \in AssetType /\ SameDebt(ast, un)
      /\ un.supplied = PoolWithdraw(ast.supplied, n, amount)
      /\ un.supplied.shares = ast.supplied.shares - n
      /\ un.prot_fee = ast.prot_fee
      /\ Worth(un) = Worth(ast) + amount
  BY <1>2, SupplyTaken
<1> HIDE DEF un
<1>6. un.prot_fee + amount \in Nat
  BY <1>1, <1>2, <1>5
<1>7. /\ after \in AssetType /\ after.supplied = un.supplied
      /\ after.prot_fee = un.prot_fee + amount /\ after.reserved = un.reserved
      /\ after.pending = un.pending /\ after.margin_debt = un.margin_debt
      /\ after.position = un.position /\ after.hp = un.hp
  BY <1>4, <1>5, <1>6 DEF AssetType
<1>8. Worth(after) = Worth(ast)
  <2>1. /\ un.supplied.balance \in Nat /\ un.reserved \in Nat /\ un.prot_fee \in Nat
        /\ un.margin_debt.balance \in Nat /\ un.position \in Nat
    BY <1>5, AssetNumbers
  <2>2. Worth(after) = Worth(un) - amount
    BY <1>2, <1>7, <2>1 DEF Worth
  <2> QED BY <1>1, <1>2, <1>5, <2>2
<1>9. PoolInvariant(Normalized(after).supplied)
  <2>1. CASE after.supplied.shares = 0
    BY <1>7, <2>1, NormalizedAsset DEF PoolInvariant, EmptyPool
  <2>2. CASE after.supplied.shares # 0
    <3>1. /\ after.supplied.shares \in Nat /\ after.supplied.balance \in Nat
      BY <1>7, AssetNumbers
    <3>2. ast.supplied.shares > 0
      BY <1>1, <1>5, <1>7, <2>2, <3>1
    <3>3. PoolInvariant(after.supplied)
      BY <1>1, <1>3, <1>5, <1>7, <3>1, <3>2, PriceKeepsInvariant
    <3> QED BY <1>7, <2>2, <3>3, NormalizedAsset
  <2> QED BY <2>1, <2>2
<1>10. /\ Normalized(after) \in AssetType /\ SameDebt(after, Normalized(after))
       /\ Normalized(after).supplied.shares = after.supplied.shares
       /\ Worth(Normalized(after)) = Worth(after)
       /\ SupplySound(Normalized(after))
  BY <1>7, <1>9, NormalizedAsset
<1>11. PriceNotLower(ast.supplied, Normalized(after).supplied)
  BY <1>1, <1>3, <1>5, <1>7, NormalizedPrice
<1>12. SameDebt(ast, Normalized(after))
  BY <1>5, <1>7, <1>10 DEF SameDebt
<1>13. SupplyChange(ast, Normalized(after), 0 - n, 0)
  BY <1>1, <1>5, <1>7, <1>8, <1>10, <1>11, <1>12 DEF SupplyChange
<1> QED BY <1>9, <1>13 DEF after

\* What an opening does to one of its two assets, saved: the fee is taken
\* where the collateral is.
OpenedAsset(ast, isCollateral, fee) == IF isCollateral THEN WithFee(ast, fee) ELSE ast

\* One asset of an opening, saved: its supply loses the shares of the fee, if they are there.
LEMMA OpenedAssetChange ==
  ASSUME NEW ast \in AssetType, SupplySound(ast), NEW fee \in Nat, NEW isCollateral \in BOOLEAN,
         isCollateral => fee <= ast.supplied.shares
  PROVE  /\ PoolInvariant(Normalized(OpenedAsset(ast, isCollateral, fee)).supplied)
         /\ SupplyChange(ast, Normalized(OpenedAsset(ast, isCollateral, fee)),
                         IF isCollateral THEN 0 - fee ELSE 0, 0)
<1>1. CASE isCollateral
  BY <1>1, FeeTaken DEF OpenedAsset
<1>2. CASE ~isCollateral
  BY <1>2, SavedAsset DEF OpenedAsset
<1> QED BY <1>1, <1>2

\* The two assets of an opening, before the fee is taken.
Borrowed(i) ==
    [asset[position[i].d] EXCEPT !.pending = @ - trade[i].amount_in,
                                 !.margin_debt = PoolDeposit(@, DebtShares(i), trade[i].amount_in)]
Bought(i, out) == [asset[position[i].p] EXCEPT !.position = @ + out]

\* What on_open_trade_return changes in its two assets, and that both can be saved.
LEMMA OpenedAssets ==
  ASSUME Inv, NEW i \in PosIds, trade[i] # NoTrade, trade[i].op = "open", NEW out \in Nat,
         asset[position[i].d].pending >= trade[i].amount_in,
         OpenFee(position[i]) <= asset[position[i].c].supplied.shares
  PROVE  LET pos == position[i]
             d1 == Borrowed(i)
             p1 == Bought(i, out)
             d2 == Normalized(OpenedDebt(i))
             p2 == Normalized(OpenedPosition(i, out))
             fee == OpenFee(pos)
         IN  /\ fee \in Nat /\ fee <= pos.c_shares
             /\ DebtShares(i) \in Nat /\ DebtShares(i) > 0
             /\ d1.supplied = asset[pos.d].supplied /\ p1.supplied = asset[pos.p].supplied
             /\ d1.pending = asset[pos.d].pending - trade[i].amount_in
             /\ p1.pending = asset[pos.p].pending
             /\ d1.margin_debt.shares = asset[pos.d].margin_debt.shares + DebtShares(i)
             /\ SoundPool(d1.margin_debt) /\ p1.margin_debt = asset[pos.p].margin_debt
             /\ d1.position = asset[pos.d].position
             /\ p1.position = asset[pos.p].position + out
             /\ d1.hp = asset[pos.d].hp /\ p1.hp = asset[pos.p].hp
             /\ Worth(d1) = Worth(asset[pos.d]) + trade[i].amount_in
             /\ Worth(p1) = Worth(asset[pos.p]) - out
             /\ PoolInvariant(d2.supplied) /\ PoolInvariant(p2.supplied)
             /\ SupplyChange(d1, d2, IF pos.c = pos.d THEN 0 - fee ELSE 0, 0)
             /\ SupplyChange(p1, p2, IF pos.c = pos.p THEN 0 - fee ELSE 0, 0)
<1> DEFINE pos == position[i]
           d   == asset[pos.d]
           p   == asset[pos.p]
           fee == OpenFee(pos)
           n   == DebtShares(i)
           amount == trade[i].amount_in
           d1  == Borrowed(i)
           p1  == Bought(i, out)
<1>1. /\ amount \in Nat /\ amount > 0 /\ pos # NoPosition
  BY TradeFields DEF TradeFits
<1>2. /\ pos.c \in Tokens /\ pos.d \in Tokens /\ pos.p \in Tokens /\ pos.d # pos.p
      /\ pos.c = pos.d \/ pos.c = pos.p
      /\ pos.c_shares \in Nat
  BY <1>1, PositionFields
<1>3. /\ d \in AssetType /\ SupplySound(d) /\ SoundPool(d.margin_debt)
      /\ d.margin_debt \in PoolType /\ d.margin_debt.balance \in Nat /\ d.margin_debt.shares \in Nat
      /\ d.pending \in Nat /\ Worth(d) \in Int
      /\ d.supplied.balance \in Nat /\ d.reserved \in Nat /\ d.prot_fee \in Nat /\ d.position \in Nat
      /\ p \in AssetType /\ SupplySound(p) /\ p.position \in Nat /\ Worth(p) \in Int
      /\ p.supplied.balance \in Nat /\ p.reserved \in Nat /\ p.prot_fee \in Nat
      /\ p.margin_debt.balance \in Nat
  BY <1>2, InvFields, AssetNumbers
<1>4. fee \in Nat /\ fee <= pos.c_shares
  BY <1>2, PartBound, MarginRatioAssumption DEF OpenFee
<1>5. /\ n \in Nat /\ n > 0
      /\ PoolDeposit(d.margin_debt, n, amount) \in PoolType
      /\ SoundPool(PoolDeposit(d.margin_debt, n, amount))
  BY <1>1, <1>3, BorrowingKeepsSound DEF DebtShares
<1>6. d1 = [d EXCEPT !.pending = @ - amount, !.margin_debt = PoolDeposit(@, n, amount)]
  BY DEF Borrowed
<1>7. p1 = [p EXCEPT !.position = @ + out]
  BY DEF Bought
<1>8. d.pending >= amount /\ fee <= asset[pos.c].supplied.shares
  OBVIOUS
<1>9. OpenedDebt(i) = OpenedAsset(d1, pos.c = pos.d, fee)
  BY DEF OpenedDebt, OpenedAsset, Borrowed
<1>10. OpenedPosition(i, out) = OpenedAsset(p1, pos.c = pos.p, fee)
  BY DEF OpenedPosition, OpenedAsset, Bought
<1> HIDE DEF d1, p1, n, fee, amount
<1>11. d.pending - amount \in Nat /\ p.position + out \in Nat
  BY <1>1, <1>3, <1>8
<1>12. /\ d1 \in AssetType /\ d1.supplied = d.supplied
       /\ d1.pending = d.pending - amount /\ d1.margin_debt = PoolDeposit(d.margin_debt, n, amount)
       /\ d1.position = d.position /\ d1.hp = d.hp
       /\ d1.reserved = d.reserved /\ d1.prot_fee = d.prot_fee
  BY <1>3, <1>5, <1>6, <1>11 DEF AssetType
<1>13. /\ p1 \in AssetType /\ p1.supplied = p.supplied
       /\ p1.pending = p.pending /\ p1.margin_debt = p.margin_debt
       /\ p1.position = p.position + out /\ p1.hp = p.hp
       /\ p1.reserved = p.reserved /\ p1.prot_fee = p.prot_fee
  BY <1>3, <1>7, <1>11 DEF AssetType
<1>14. /\ d1.margin_debt.shares = d.margin_debt.shares + n
       /\ d1.margin_debt.balance = d.margin_debt.balance + amount
  BY <1>12 DEF PoolDeposit
<1>15. Worth(d1) = Worth(d) + amount
  <2>1. Worth(d1) = d.margin_debt.balance + amount - d.supplied.balance - d.reserved - d.prot_fee
                       - d.position
    <3>1. /\ d1.margin_debt.balance = d.margin_debt.balance + amount
          /\ d1.supplied = d.supplied /\ d1.reserved = d.reserved
          /\ d1.prot_fee = d.prot_fee /\ d1.position = d.position
      BY <1>12, <1>14
    <3>2. Worth(d1) = d1.margin_debt.balance - d1.supplied.balance - d1.reserved - d1.prot_fee
                         - d1.position
      BY DEF Worth
    <3>3. d1.margin_debt.balance - d1.supplied.balance - d1.reserved - d1.prot_fee - d1.position
             = (d.margin_debt.balance + amount) - d.supplied.balance - d.reserved - d.prot_fee
                  - d.position
      <4> HIDE DEF d
      <4> QED BY <3>1, Zenon
    <3>4. /\ d.margin_debt.balance \in Nat /\ amount \in Nat /\ d.supplied.balance \in Nat
          /\ d.reserved \in Nat /\ d.prot_fee \in Nat /\ d.position \in Nat
      BY <1>1, <1>3
    <3> HIDE DEF d, Worth
    <3> QED BY <3>2, <3>3, <3>4
  <2>2. Worth(d) = d.margin_debt.balance - d.supplied.balance - d.reserved - d.prot_fee
                      - d.position
    BY DEF Worth
  <2> HIDE DEF d
  <2> QED BY <1>1, <1>3, <2>1, <2>2
<1>16. Worth(p1) = Worth(p) - out
  <2>1. Worth(p1) = p.margin_debt.balance - p.supplied.balance - p.reserved - p.prot_fee
                       - (p.position + out)
    BY <1>13 DEF Worth
  <2>2. Worth(p) = p.margin_debt.balance - p.supplied.balance - p.reserved - p.prot_fee
                      - p.position
    BY DEF Worth
  <2> HIDE DEF p
  <2> QED BY <1>3, <2>1, <2>2
<1>17. SupplySound(d1) /\ SupplySound(p1)
  BY <1>3, <1>12, <1>13 DEF SupplySound
<1>18. pos.c = pos.d => fee <= d1.supplied.shares
  BY <1>8, <1>12
<1>19. pos.c = pos.p => fee <= p1.supplied.shares
  BY <1>8, <1>13
<1>20. /\ PoolInvariant(Normalized(OpenedDebt(i)).supplied)
       /\ SupplyChange(d1, Normalized(OpenedDebt(i)), IF pos.c = pos.d THEN 0 - fee ELSE 0, 0)
  BY <1>4, <1>9, <1>12, <1>17, <1>18, OpenedAssetChange
<1>21. /\ PoolInvariant(Normalized(OpenedPosition(i, out)).supplied)
       /\ SupplyChange(p1, Normalized(OpenedPosition(i, out)),
                       IF pos.c = pos.p THEN 0 - fee ELSE 0, 0)
  BY <1>4, <1>10, <1>13, <1>17, <1>19, OpenedAssetChange
<1> QED BY <1>4, <1>5, <1>12, <1>13, <1>14, <1>15, <1>16, <1>20, <1>21
        DEF d1, p1, n, fee, amount

\* on_open_trade_return keeps the invariant.
LEMMA OpenedInv ==
  ASSUME Inv, NEW i \in PosIds, trade[i] # NoTrade, trade[i].op = "open", NEW out \in Nat,
         CanOpen(i, out), Opened(i, out),
         acting' = acting \ {i}, trade' = [trade EXCEPT ![i] = NoTrade],
         cash' = [cash EXCEPT ![position[i].p] = @ + out],
         UNCHANGED <<supplied, opened, price>>
  PROVE  Stepped /\ SuppliersKept
<1> DEFINE pos == position[i]
           tr  == trade[i]
           c   == pos.c
           d   == pos.d
           p   == pos.p
           fee == OpenFee(pos)
           n   == DebtShares(i)
           d2  == Normalized(OpenedDebt(i))
           p2  == Normalized(OpenedPosition(i, out))
           new == [pos EXCEPT !.c_shares = pos.c_shares - fee, !.d_shares = pos.d_shares + n,
                              !.p_amount = pos.p_amount + out, !.debt_cap = tr.amount_in,
                              !.uahpi_at_open = asset[d].hp, !.is_locking = FALSE]
<1>1. /\ tr \in TradeType /\ tr.amount_in \in Nat /\ tr.amount_in > 0 /\ pos # NoPosition
      /\ pos.d_shares = 0 /\ pos.p_amount = 0
  BY TradeFields DEF TradeFits
<1>2. /\ pos \in PositionType /\ c \in Tokens /\ d \in Tokens /\ p \in Tokens /\ d # p
      /\ c = d \/ c = p
      /\ pos.c_shares \in Nat /\ Fits(i) /\ PositionFits(i)
  BY <1>1, PositionFields
<1>3. TypeOK /\ AllSound /\ asset \in [Tokens -> AssetType] /\ cash \in [Tokens -> Nat]
  BY DEF Inv, TypeOK
<1>4. /\ asset' = [asset EXCEPT ![d] = d2, ![p] = p2]
      /\ position' = [position EXCEPT ![i] = new]
      /\ UNCHANGED <<margin, stop, debts>>
  <2>1. position' = [position EXCEPT ![i] = new]
    BY <1>2 DEF Opened, PositionType
  <2> QED BY <2>1 DEF Opened
<1>5. /\ asset[d].pending >= tr.amount_in /\ fee <= asset[c].supplied.shares
  BY DEF CanOpen
<1>6. /\ fee \in Nat /\ fee <= pos.c_shares /\ n \in Nat /\ n > 0
      /\ Borrowed(i).supplied = asset[d].supplied /\ Bought(i, out).supplied = asset[p].supplied
      /\ Borrowed(i).pending = asset[d].pending - tr.amount_in
      /\ Bought(i, out).pending = asset[p].pending
      /\ Borrowed(i).margin_debt.shares = asset[d].margin_debt.shares + n
      /\ SoundPool(Borrowed(i).margin_debt) /\ Bought(i, out).margin_debt = asset[p].margin_debt
      /\ Borrowed(i).position = asset[d].position
      /\ Bought(i, out).position = asset[p].position + out
      /\ Borrowed(i).hp = asset[d].hp /\ Bought(i, out).hp = asset[p].hp
      /\ Worth(Borrowed(i)) = Worth(asset[d]) + tr.amount_in
      /\ Worth(Bought(i, out)) = Worth(asset[p]) - out
      /\ SupplyChange(Borrowed(i), d2, IF c = d THEN 0 - fee ELSE 0, 0)
      /\ SupplyChange(Bought(i, out), p2, IF c = p THEN 0 - fee ELSE 0, 0)
  BY <1>5, OpenedAssets
<1> HIDE DEF fee, n, d2, p2
<1>7. /\ asset[d].margin_debt.shares \in Nat /\ asset[d].pending \in Nat
      /\ asset[d].supplied.shares \in Nat /\ asset[d].hp \in Nat /\ Worth(asset[d]) \in Int
      /\ asset[p].supplied.shares \in Nat /\ asset[p].position \in Nat
      /\ Worth(asset[p]) \in Int /\ SoundPool(asset[p].margin_debt)
  BY <1>2, InvFields, AssetNumbers
<1>8. /\ d2 \in AssetType /\ SupplySound(d2)
      /\ d2.supplied.shares = asset[d].supplied.shares + (IF c = d THEN 0 - fee ELSE 0)
      /\ d2.pending = asset[d].pending - tr.amount_in
      /\ d2.margin_debt.shares = asset[d].margin_debt.shares + n
      /\ SoundPool(d2.margin_debt)
      /\ d2.position = asset[d].position /\ d2.hp = asset[d].hp
      /\ Worth(d2) = Worth(asset[d]) + tr.amount_in
      /\ PriceNotLower(asset[d].supplied, d2.supplied)
  <2>1. Worth(asset[d]) + tr.amount_in + 0 = Worth(asset[d]) + tr.amount_in
    BY <1>1, <1>7
  <2> QED BY <1>6, <2>1 DEF SupplyChange, SameDebt
<1>9. /\ p2 \in AssetType /\ SupplySound(p2)
      /\ p2.supplied.shares = asset[p].supplied.shares + (IF c = p THEN 0 - fee ELSE 0)
      /\ p2.pending = asset[p].pending
      /\ p2.margin_debt = asset[p].margin_debt
      /\ p2.position = asset[p].position + out /\ p2.hp = asset[p].hp
      /\ Worth(p2) = Worth(asset[p]) - out
      /\ PriceNotLower(asset[p].supplied, p2.supplied)
  <2>1. Worth(asset[p]) - out + 0 = Worth(asset[p]) - out
    BY <1>7
  <2> QED BY <1>6, <2>1 DEF SupplyChange, SameDebt
<1>10. /\ new \in PositionType
       /\ new.account = pos.account /\ new.c = c /\ new.d = d /\ new.p = p
       /\ new.c_shares = pos.c_shares - fee /\ new.d_shares = n
       /\ new.p_amount = out
       /\ new.uahpi_at_open = asset[d].hp /\ ~new.is_locking
  <2>1. pos.c_shares - fee \in Nat /\ pos.d_shares + n = n /\ pos.p_amount + out = out
    BY <1>1, <1>2, <1>6
  <2> QED BY <1>1, <1>2, <1>6, <1>7, <2>1 DEF PositionType
<1>11. new # NoPosition
  BY <1>10, NoRecordsAssumption
<1> HIDE DEF new
<1>12. /\ asset'[d] = d2 /\ asset'[p] = p2 /\ \A t \in Tokens \ {d, p} : asset'[t] = asset[t]
       /\ position'[i] = new /\ trade'[i] = NoTrade /\ stop'[i] = stop[i]
       /\ OnlyPosition(i)
  BY <1>2, <1>3, <1>4 DEF TypeOK, OnlyPosition
<1>13. /\ cash' \in [Tokens -> Nat] /\ cash'[p] = cash[p] + out
       /\ \A t \in Tokens \ {p} : cash'[t] = cash[t]
  <2>1. cash[p] + out \in Nat
    BY <1>2, <1>3
  <2> HIDE DEF p
  <2>2. cash' = [cash EXCEPT ![p] = cash[p] + out]
    BY DEF p
  <2> QED BY <1>2, <1>3, <2>1, <2>2
<1>14. TypeOK'
  <2>1. asset' \in [Tokens -> AssetType] /\ acting' \subseteq PosIds
    BY <1>3, <1>4, <1>8, <1>9 DEF TypeOK
  <2>2. /\ position' \in [PosIds -> PositionType \cup {NoPosition}]
        /\ trade' \in [PosIds -> TradeType \cup {NoTrade}]
    BY <1>3, <1>4, <1>10 DEF TypeOK
  <2> QED BY <1>3, <1>4, <1>13, <2>1, <2>2 DEF TypeOK
<1>15. \A t \in Tokens : /\ asset[t] \in AssetType /\ asset[t].hp \in Nat
                         /\ SupplySound(asset[t]) /\ SoundPool(asset[t].margin_debt)
                         /\ PriceNotLower(asset[t].supplied, asset[t].supplied)
  BY InvFields, AssetNumbers, NoSupplyChange DEF SupplyChange
<1>16. \A t \in Tokens : /\ SupplySound(asset'[t]) /\ SoundPool(asset'[t].margin_debt)
                         /\ asset'[t].hp = asset[t].hp
                         /\ PriceNotLower(asset[t].supplied, asset'[t].supplied)
  <2> TAKE t \in Tokens
  <2>1. CASE t = d
    BY <1>8, <1>12, <2>1
  <2>2. CASE t = p
    BY <1>7, <1>9, <1>12, <2>2
  <2>3. CASE t # d /\ t # p
    BY <1>12, <1>15, <2>3
  <2> QED BY <2>1, <2>2, <2>3
<1>17. AllSound' /\ SuppliersKept
  BY <1>16 DEF AllSound, SuppliersKept
<1>18. Touches(i)
  BY <1>12, <1>15, <1>16 DEF Touches
<1>19. Fits(i)'
  <2>1. asset'[d].hp \in Nat /\ new.uahpi_at_open <= asset'[d].hp
    BY <1>2, <1>7, <1>10, <1>16
  <2>2. PositionFits(i)'
    BY <1>2, <1>6, <1>10, <1>12, <2>1 DEF PositionFits
  <2> QED BY <1>2, <1>10, <1>11, <1>12, <2>2 DEF Fits
<1>20. ASSUME NEW t \in Tokens
       PROVE  Balanced(i, t) /\ SharesStay(i, t) /\ TokensStay(i, t)
  <2>1. /\ asset[t].pending \in Nat /\ asset[t].margin_debt.shares \in Nat
        /\ asset[t].position \in Nat /\ asset[t].supplied.shares \in Nat
        /\ Worth(asset[t]) \in Int /\ cash[t] \in Nat /\ debts[t] \in Nat
        /\ Entries(supplied, margin, t) \in Nat
    BY <1>15, InvFields, AssetNumbers
  <2>2. /\ AskedIn(pos, tr, t) = (IF t = d THEN tr.amount_in ELSE 0)
        /\ OnSaleIn(pos, tr, t) = 0
        /\ AskedIn(new, NoTrade, t) = 0 /\ AwayIn(new, NoTrade, t) = 0
        /\ OnSaleIn(new, NoTrade, t) = 0
    BY DEF AskedIn, AwayIn, OnSaleIn
  <2>3. AwayIn(pos, tr, t) \in Nat /\ AwayIn(pos, tr, t) <= IF t = d THEN tr.amount_in ELSE 0
    BY <1>1, <2>2 DEF AwayIn
  <2>4. /\ PledgedIn(pos, t) = (IF t = c THEN pos.c_shares ELSE 0)
        /\ PledgedIn(new, t) = (IF t = c THEN pos.c_shares - fee ELSE 0)
        /\ OwedIn(pos, t) = 0 /\ OwedIn(new, t) = (IF t = d THEN n ELSE 0)
        /\ BoughtIn(pos, t) = 0 /\ BoughtIn(new, t) = (IF t = p THEN out ELSE 0)
    BY <1>1, <1>10, <1>11 DEF OwedIn, PledgedIn, BoughtIn
  <2>5. Records(pos, tr, stop[i])
    BY <1>3 DEF TypeOK, Records
  <2>6. FeeIn(stop[i], t) \in Nat
    BY <2>5, EntryTypes
  <2> HIDE DEF c, d, p
  <2>7. Balanced(i, t)
    <3>1. CASE t = d
      BY <1>1, <1>2, <1>6, <1>8, <1>12, <2>1, <2>2, <2>4, <3>1 DEF Balanced
    <3>2. CASE t = p
      BY <1>2, <1>9, <1>12, <2>1, <2>2, <2>4, <3>2 DEF Balanced
    <3>3. CASE t # d /\ t # p
      BY <1>12, <2>1, <2>2, <2>4, <3>3 DEF Balanced
    <3> QED BY <3>1, <3>2, <3>3
  <2>8. NewShares(t) = IF t = c THEN 0 - fee ELSE 0
    <3>1. CASE t = d
      BY <1>6, <1>8, <1>12, <2>1, <3>1 DEF NewShares
    <3>2. CASE t = p
      BY <1>6, <1>9, <1>12, <2>1, <3>2 DEF NewShares
    <3>3. CASE t # d /\ t # p
      BY <1>2, <1>12, <2>1, <3>3 DEF NewShares
    <3> QED BY <3>1, <3>2, <3>3
  <2>9. Gained(t) = 0
    BY <1>4, <2>1 DEF Gained
  <2>10. SharesStay(i, t)
    BY <1>2, <1>6, <1>12, <2>4, <2>8, <2>9 DEF SharesStay
  <2>11. Came(t) = IF t = d THEN tr.amount_in ELSE 0
    <3>1. CASE t = d
      BY <1>1, <1>2, <1>4, <1>8, <1>12, <1>13, <2>1, <3>1 DEF Came
    <3>2. CASE t = p
      BY <1>2, <1>4, <1>9, <1>12, <1>13, <2>1, <3>2 DEF Came
    <3>3. CASE t # d /\ t # p
      <4>1. asset'[t] = asset[t] /\ cash'[t] = cash[t] /\ debts'[t] = debts[t]
        BY <1>4, <1>12, <1>13, <3>3
      <4> QED BY <2>1, <3>3, <4>1 DEF Came
    <3> QED BY <3>1, <3>2, <3>3
  <2>12. TokensStay(i, t)
    BY <1>1, <1>12, <2>2, <2>3, <2>6, <2>11 DEF TokensStay
  <2> QED BY <2>7, <2>10, <2>12
<1>21. Stepped
  BY <1>14, <1>17, <1>18, <1>19, <1>20, StepInv
<1> QED BY <1>17, <1>21

-----------------------------------------------------------------------------
(***************************************************************************)
(* The answer of any other trade, on the handler's copies.                 *)
(***************************************************************************)
\* What a position in debt owes and holds is part of what the assets say.
LEMMA DebtorNumbers ==
  ASSUME Inv, NEW i \in PosIds, position[i] # NoPosition,
         trade[i] # NoTrade => trade[i].op # "open"
  PROVE  LET pos == position[i]
         IN  /\ pos.d_shares \in Nat /\ pos.d_shares > 0
             /\ pos.d_shares <= asset[pos.d].margin_debt.shares
             /\ pos.c_shares \in Nat /\ pos.c_shares <= asset[pos.c].supplied.shares
             /\ pos.p_amount \in Nat /\ pos.p_amount <= asset[pos.p].position
             /\ pos.debt_cap \in Nat
             /\ DebtAmount(pos) \in Nat /\ DebtAmount(pos) > 0
             /\ DebtAmount(pos) <= asset[pos.d].margin_debt.balance
             /\ HoldingFee(pos) \in Nat
<1> DEFINE pos == position[i]
           d == pos.d
           c == pos.c
           p == pos.p
<1>1. /\ pos \in PositionType /\ c \in Tokens /\ d \in Tokens /\ p \in Tokens
      /\ pos.c_shares \in Nat /\ pos.d_shares \in Nat /\ pos.p_amount \in Nat
      /\ pos.debt_cap \in Nat /\ pos.uahpi_at_open \in Nat
      /\ pos.uahpi_at_open <= asset[d].hp /\ PositionFits(i)
  BY PositionFields
<1>2. pos.d_shares > 0
  BY <1>1 DEF PositionFits
<1>3. /\ PledgedIn(pos, c) = pos.c_shares /\ OwedIn(pos, d) = pos.d_shares
      /\ BoughtIn(pos, p) = pos.p_amount
  BY DEF PledgedIn, OwedIn, BoughtIn
<1>4. TypeOK /\ \A t \in Tokens : Matched(t) /\ Kept(t)
  BY DEF Inv, Books
<1>5. /\ asset[d].margin_debt \in PoolType /\ SoundPool(asset[d].margin_debt)
      /\ asset[d].margin_debt.shares \in Nat /\ asset[d].hp \in Nat
      /\ asset[c].supplied.shares \in Nat /\ asset[p].position \in Nat
      /\ Entries(supplied, margin, c) \in Nat
  BY <1>1, InvFields, AssetNumbers
<1> HIDE DEF c, d, p
<1>6. pos.d_shares <= asset[d].margin_debt.shares
  <2>1. OwedIn(pos, d) <= AllOwed(d) /\ AllOwed(d) \in Nat
    BY <1>1, <1>4, TotalBounds
  <2> QED BY <1>1, <1>3, <1>4, <2>1 DEF Matched
<1>7. pos.p_amount <= asset[p].position
  <2>1. BoughtIn(pos, p) <= AllBought(p) /\ AllBought(p) \in Nat
    BY <1>1, <1>4, TotalBounds
  <2> QED BY <1>1, <1>3, <1>4, <2>1 DEF Matched
<1>8. pos.c_shares <= asset[c].supplied.shares
  <2>1. PledgedIn(pos, c) <= AllPledged(c) /\ AllPledged(c) \in Nat
    BY <1>1, <1>4, TotalBounds
  <2>2. Entries(supplied, margin, c) + AllPledged(c) <= asset[c].supplied.shares
    BY <1>1, <1>4 DEF Kept, Held
  <2> QED BY <1>1, <1>3, <1>5, <2>1, <2>2
<1>9. /\ DebtAmount(pos) \in Nat /\ DebtAmount(pos) > 0
      /\ DebtAmount(pos) <= asset[d].margin_debt.balance
  <2>1. DebtAmount(pos) = SharesToAmount(asset[d].margin_debt, pos.d_shares, TRUE)
    BY DEF DebtAmount, d
  <2>2. /\ DebtAmount(pos) \in Nat /\ pos.d_shares <= DebtAmount(pos)
        /\ DebtAmount(pos) <= asset[d].margin_debt.balance
    BY <1>1, <1>5, <1>6, <2>1, ClearingKeepsSound
  <2> QED BY <1>1, <1>2, <2>2
<1>10. HoldingFee(pos) \in Nat
  <2> DEFINE k == asset[d].hp - pos.uahpi_at_open
             m == pos.debt_cap * k
  <2>1. k \in Nat
    BY <1>1, <1>5 DEF d
  <2>2. m \in Nat
    BY <1>1, <2>1, ProductType
  <2>3. HoldingFee(pos) = m \div Unit
    BY DEF HoldingFee, d
  <2> HIDE DEF k, m
  <2> QED BY <2>2, <2>3, Quotient, MarginRatioAssumption
<1> QED BY <1>1, <1>2, <1>6, <1>7, <1>8, <1>9, <1>10 DEF c, d, p

SettlingType == [pos : PositionType, d : AssetType, p : AssetType, uncovered : Nat,
                 benefits : [c : Nat, d : Nat, p : Nat]]

\* What the handler has settled of position pos with out tokens: what the pools
\* have lost, the position or the benefits have, and nothing is lost but what the
\* protocol will owe.
Midway(pos, out, st) ==
    LET before == asset[pos.d]
    IN  /\ st \in SettlingType
        /\ st.pos.account = pos.account /\ st.pos.c = pos.c /\ st.pos.d = pos.d
        /\ st.pos.p = pos.p /\ st.pos.p_amount = pos.p_amount
        /\ st.pos.uahpi_at_open = pos.uahpi_at_open /\ ~st.pos.is_locking
        /\ pos.c # pos.d => st.pos.c_shares = pos.c_shares
        /\ st.p = asset[pos.p] /\ st.benefits.c = 0 /\ st.benefits.p = 0
        /\ SoundPool(st.d.margin_debt)
        /\ st.d.pending = before.pending /\ st.d.position = before.position
        /\ st.d.hp = before.hp
        /\ st.d.margin_debt.shares - st.pos.d_shares = before.margin_debt.shares - pos.d_shares
        /\ st.d.supplied.shares - st.benefits.d - st.pos.c_shares
              = before.supplied.shares - pos.c_shares
        /\ Worth(st.d) + st.uncovered >= Worth(before) - out
        /\ PriceNotLower(before.supplied, st.d.supplied)

\* while something is owed, only the repayment was settled
Untouched(pos, st) ==
    st.pos.d_shares # 0 => /\ st.d.supplied = asset[pos.d].supplied
                           /\ st.uncovered = 0 /\ st.benefits.d = 0
                           /\ st.pos.c_shares = pos.c_shares

\* calculate_debt_repayment splits the tokens, all of them: what pays debt, what
\* pays holding fee and what is left over.
LEMMA RepaymentSplit ==
  ASSUME NEW cap \in Nat, NEW debt \in Nat, NEW fee \in Nat, NEW out \in Nat, NEW all \in Nat \ {0},
         debt + fee = all, (cap * out) \div all < cap
  PROVE  /\ (fee * ((cap * out) \div all)) \div cap \in Nat
         /\ (fee * ((cap * out) \div all)) \div cap <= out
         /\ cap - (cap * out) \div all \in Nat
<1> DEFINE q == (cap * out) \div all
           r == (fee * q) \div cap
<1>1. cap * out \in Nat
  BY ProductType
<1>2. q \in Nat /\ q * all <= cap * out /\ q < cap
  <2> DEFINE m == cap * out
  <2>1. m \in Nat /\ q = m \div all
    BY <1>1
  <2> HIDE DEF m
  <2>2. m \div all \in Nat /\ (m \div all) * all <= m
    BY <2>1, Quotient
  <2> QED BY <2>1, <2>2 DEF m
<1> HIDE DEF q
<1>3. cap \in Nat \ {0}
  BY <1>2
<1>4. fee * q \in Nat
  BY <1>2, ProductType
<1>5. r \in Nat
  <2> DEFINE m == fee * q
  <2>1. m \in Nat /\ r = m \div cap
    BY <1>4
  <2> HIDE DEF m, r
  <2> QED BY <1>3, <2>1, Quotient
<1>6. fee * q <= out * cap
  <2>1. fee <= all
    OBVIOUS
  <2>2. fee * q <= all * q
    BY <1>2, <2>1, ProductMonotone
  <2>3. all * q = q * all /\ cap * out = out * cap
    BY <1>2
  <2>4. all * q \in Nat /\ out * cap \in Nat
    BY <1>2, ProductType
  <2> QED BY <1>1, <1>2, <1>4, <2>2, <2>3, <2>4
<1>7. r <= out
  <2> DEFINE m == fee * q
  <2>1. m \in Nat /\ r = m \div cap /\ m <= out * cap
    BY <1>4, <1>6
  <2> HIDE DEF m, r
  <2> QED BY <1>3, <2>1, QuotientBound
<1>8. cap - q \in Nat
  BY <1>2
<1> QED BY <1>5, <1>7, <1>8 DEF r, q

\* calculate_debt_repayment divides the tokens that came between the debt, the fee and what is left,
\* and the debt it leaves is sound.
LEMMA RepaymentNumbers ==
  ASSUME Inv, NEW i \in PosIds, position[i] # NoPosition,
         trade[i] # NoTrade => trade[i].op # "open",
         NEW out \in Nat, Repayment(position[i], out).left >= 0
  PROVE  LET pos == position[i]
             r   == Repayment(pos, out)
             pool == asset[pos.d].margin_debt
         IN  /\ r.shares \in Nat /\ r.amount \in Nat /\ r.fee \in Nat
             /\ r.left \in Nat /\ r.cap \in Nat
             /\ r.amount + r.fee + r.left = out
             /\ r.left > 0 => r.shares = pos.d_shares
             /\ r.amount <= pool.balance =>
                   /\ PoolWithdraw(pool, r.shares, r.amount) \in PoolType
                   /\ SoundPool(PoolWithdraw(pool, r.shares, r.amount))
<1> DEFINE pos  == position[i]
           pool == asset[pos.d].margin_debt
           debt == DebtAmount(pos)
           fee  == HoldingFee(pos)
           cap  == (pos.debt_cap * out) \div (debt + fee)
           part == (fee * cap) \div pos.debt_cap
           r    == Repayment(pos, out)
<1>1. /\ pos.d_shares \in Nat /\ pos.d_shares <= pool.shares
      /\ pos.debt_cap \in Nat /\ debt \in Nat /\ debt > 0 /\ fee \in Nat
  BY DebtorNumbers
<1>2. pool \in PoolType /\ SoundPool(pool)
  BY PositionFields, InvFields, AssetNumbers
<1>3. debt = SharesToAmount(pool, pos.d_shares, TRUE)
  BY DEF DebtAmount
<1>4. debt + fee \in Nat \ {0}
  BY <1>1
<1>5. r = IF cap >= pos.debt_cap
          THEN [shares |-> pos.d_shares, amount |-> debt, fee |-> fee,
                left |-> out - debt - fee, cap |-> 0]
          ELSE [shares |-> AmountToShares(pool, out - part, FALSE),
                amount |-> out - part, fee |-> part, left |-> 0, cap |-> pos.debt_cap - cap]
  BY DEF Repayment
<1>6. r.left >= 0
  OBVIOUS
<1>7. CASE cap >= pos.debt_cap
  <2> HIDE DEF cap, part, r, pool, debt, fee
  <2>1. /\ r.shares = pos.d_shares /\ r.amount = debt /\ r.fee = fee
        /\ r.left = out - debt - fee /\ r.cap = 0
    BY <1>5, <1>7
  <2>2. /\ PoolWithdraw(pool, pos.d_shares, debt) \in PoolType
        /\ SoundPool(PoolWithdraw(pool, pos.d_shares, debt))
    BY <1>1, <1>2, <1>3, ClearingKeepsSound
  <2>3. out - debt - fee \in Nat
    BY <1>1, <1>6, <2>1
  <2> QED BY <1>1, <2>1, <2>2, <2>3 DEF r, pool
<1>8. CASE ~(cap >= pos.debt_cap)
  <2>1. cap \in Nat
    <3> DEFINE m == pos.debt_cap * out
               k == debt + fee
    <3>1. m \in Nat /\ k \in Nat \ {0} /\ cap = m \div k
      BY <1>1, <1>4, ProductType
    <3> HIDE DEF m, k, cap
    <3> QED BY <3>1, Quotient
  <2>2. cap < pos.debt_cap
    BY <1>1, <1>8, <2>1
  <2>3. part \in Nat /\ part <= out /\ pos.debt_cap - cap \in Nat
    <3> DEFINE k == debt + fee
               c == pos.debt_cap
    <3>1. k \in Nat \ {0} /\ debt + fee = k /\ c \in Nat
      BY <1>1, <1>4
    <3>2. (c * out) \div k < c
      BY <2>2
    <3> HIDE DEF k, c, debt, fee
    <3>3. /\ (fee * ((c * out) \div k)) \div c \in Nat
          /\ (fee * ((c * out) \div k)) \div c <= out
          /\ c - (c * out) \div k \in Nat
      BY <1>1, <3>1, <3>2, RepaymentSplit
    <3> QED BY <3>3 DEF k, c
  <2> HIDE DEF cap, part, r, pool, debt, fee
  <2>4. /\ r.shares = AmountToShares(pool, out - part, FALSE) /\ r.amount = out - part
        /\ r.fee = part /\ r.left = 0 /\ r.cap = pos.debt_cap - cap
    BY <1>5, <1>8
  <2>5. out - part \in Nat /\ (out - part) + part + 0 = out
    BY <2>3
  <2>6. AmountToShares(pool, out - part, FALSE) \in Nat
    BY <1>2, <2>5, AmountToSharesType
  <2>7. out - part <= pool.balance =>
           /\ PoolWithdraw(pool, AmountToShares(pool, out - part, FALSE), out - part) \in PoolType
           /\ SoundPool(PoolWithdraw(pool, AmountToShares(pool, out - part, FALSE), out - part))
    BY <1>2, <2>5, RepaymentKeepsSound
  <2>8. /\ r.shares \in Nat /\ r.amount \in Nat /\ r.fee \in Nat /\ r.left \in Nat /\ r.cap \in Nat
    <3>1. r.shares \in Nat
      BY <2>4, <2>6
    <3>2. r.amount \in Nat
      BY <2>4, <2>5
    <3>3. r.fee \in Nat
      BY <2>3, <2>4
    <3>4. r.left \in Nat
      <4>1. r.left = 0
        BY <2>4
      <4> QED BY <4>1
    <3>5. r.cap \in Nat
      BY <2>3, <2>4
    <3> QED BY <3>1, <3>2, <3>3, <3>4, <3>5
  <2>9. r.amount + r.fee + r.left = out
    BY <2>4, <2>5
  <2>10. r.left > 0 => r.shares = pos.d_shares
    BY <2>4
  <2>11. r.amount <= pool.balance =>
            /\ PoolWithdraw(pool, r.shares, r.amount) \in PoolType
            /\ SoundPool(PoolWithdraw(pool, r.shares, r.amount))
    BY <2>4, <2>7
  <2> QED BY <2>8, <2>9, <2>10, <2>11 DEF r, pool
<1> QED BY <1>7, <1>8

\* The first step: the repayment.
LEMMA RepaidMidway ==
  ASSUME Inv, NEW i \in PosIds, position[i] # NoPosition,
         trade[i] # NoTrade => trade[i].op # "open",
         NEW out \in Nat, Repayment(position[i], out).left >= 0,
         Sound(Repaid(position[i], Repayment(position[i], out)))
  PROVE  /\ Midway(position[i], out, Repaid(position[i], Repayment(position[i], out)))
         /\ Untouched(position[i], Repaid(position[i], Repayment(position[i], out)))
<1> DEFINE pos  == position[i]
           d    == asset[pos.d]
           pool == asset[pos.d].margin_debt
           r    == Repayment(pos, out)
           paid == [d EXCEPT !.margin_debt = PoolWithdraw(pool, r.shares, r.amount),
                             !.prot_fee = @ + r.fee]
           gained == AmountToShares(paid.supplied, r.left, FALSE)
           d2   == IF gained > 0 THEN Supplied(paid, gained, r.left) ELSE paid
           new  == [pos EXCEPT !.d_shares = @ - r.shares, !.debt_cap = r.cap, !.is_locking = FALSE]
           st   == Repaid(pos, r)
<1>1. st = [pos |-> new, d |-> d2, p |-> asset[pos.p], uncovered |-> 0,
            benefits |-> [c |-> 0, d |-> gained, p |-> 0]]
  BY DEF Repaid
<1>2. /\ r.shares \in Nat /\ r.amount \in Nat /\ r.fee \in Nat /\ r.left \in Nat /\ r.cap \in Nat
      /\ r.amount + r.fee + r.left = out
      /\ r.left > 0 => r.shares = pos.d_shares
      /\ r.amount <= pool.balance =>
            /\ PoolWithdraw(pool, r.shares, r.amount) \in PoolType
            /\ SoundPool(PoolWithdraw(pool, r.shares, r.amount))
  BY RepaymentNumbers
<1>3. /\ pos \in PositionType /\ pos.d_shares \in Nat /\ pos.c_shares \in Nat
      /\ pos.d \in Tokens /\ pos.p \in Tokens
  BY PositionFields
<1>4. /\ d \in AssetType /\ SupplySound(d) /\ pool \in PoolType /\ SoundPool(pool)
      /\ pool.shares \in Nat /\ pool.balance \in Nat /\ d.prot_fee \in Nat
      /\ d.supplied \in PoolType /\ PoolInvariant(d.supplied)
      /\ d.supplied.shares \in Nat /\ d.supplied.balance \in Nat /\ d.reserved \in Nat
      /\ d.position \in Nat /\ Worth(d) \in Int
      /\ asset[pos.p] \in AssetType
  BY <1>3, InvFields, AssetNumbers DEF SupplySound
<1>5. st.pos.d_shares >= 0 /\ st.d.margin_debt \in PoolType
  BY DEF Sound
<1>6. PriceNotLower(d.supplied, d.supplied)
  BY <1>4, NoSupplyChange DEF SupplyChange
<1>a. /\ paid = [d EXCEPT !.margin_debt = PoolWithdraw(pool, r.shares, r.amount),
                          !.prot_fee = @ + r.fee]
      /\ gained = AmountToShares(paid.supplied, r.left, FALSE)
      /\ new = [pos EXCEPT !.d_shares = @ - r.shares, !.debt_cap = r.cap, !.is_locking = FALSE]
      /\ gained > 0 => d2 = Supplied(paid, gained, r.left)
      /\ ~(gained > 0) => d2 = paid
  OBVIOUS
<1> HIDE DEF r, gained, paid, d2, new, st, d, pool
<1>7. r.amount <= pool.balance
  <2>1. st.d = d2
    BY <1>1
  <2>2. d2.margin_debt = paid.margin_debt
    <3>1. paid.margin_debt = PoolWithdraw(pool, r.shares, r.amount)
      BY <1>4, <1>a DEF AssetType
    <3>2. Supplied(paid, gained, r.left).margin_debt = paid.margin_debt
      BY <1>4, <1>a DEF Supplied, AssetType
    <3> QED BY <1>a, <3>2
  <2>3. d2.margin_debt = PoolWithdraw(pool, r.shares, r.amount)
    BY <1>4, <1>a, <2>2 DEF AssetType
  <2>4. PoolWithdraw(pool, r.shares, r.amount) \in PoolType
    BY <1>5, <2>1, <2>3
  <2>5. pool.balance - r.amount \in Nat
    BY <2>4 DEF PoolWithdraw, PoolType
  <2> QED BY <1>2, <1>4, <2>5
<1>8. /\ paid \in AssetType /\ paid.supplied = d.supplied
      /\ paid.margin_debt = PoolWithdraw(pool, r.shares, r.amount) /\ SoundPool(paid.margin_debt)
      /\ paid.prot_fee = d.prot_fee + r.fee /\ paid.reserved = d.reserved
      /\ paid.pending = d.pending /\ paid.position = d.position /\ paid.hp = d.hp
  <2>1. d.prot_fee + r.fee \in Nat
    BY <1>2, <1>4
  <2> QED BY <1>2, <1>4, <1>7, <1>a, <2>1 DEF AssetType
<1>9. /\ paid.margin_debt.shares = pool.shares - r.shares
      /\ paid.margin_debt.balance = pool.balance - r.amount
  BY <1>8 DEF PoolWithdraw
<1>10. Worth(paid) = Worth(d) - r.amount - r.fee
  <2>1. d.margin_debt.balance = pool.balance
    BY DEF d, pool
  <2> QED BY <1>2, <1>4, <1>8, <1>9, <2>1 DEF Worth
<1>11. gained \in Nat /\ gained <= r.left
  BY <1>2, <1>4, <1>8, <1>a, SharesDown
<1>12. /\ d2 \in AssetType /\ d2.margin_debt = paid.margin_debt
       /\ d2.pending = d.pending /\ d2.position = d.position /\ d2.hp = d.hp
       /\ d2.supplied.shares = d.supplied.shares + gained
       /\ Worth(d2) >= Worth(d) - out
       /\ PriceNotLower(d.supplied, d2.supplied)
       /\ gained = 0 => d2.supplied = d.supplied
  <2>1. CASE gained > 0
    <3>0. d2 = Supplied(paid, gained, r.left)
      BY <1>a, <2>1
    <3>1. /\ d2 \in AssetType /\ SameDebt(paid, d2)
          /\ d2.supplied = PoolDeposit(paid.supplied, gained, r.left)
          /\ d2.supplied.shares = paid.supplied.shares + gained
          /\ Worth(d2) = Worth(paid) - r.left
      BY <1>2, <1>8, <1>11, <3>0, SupplyAdded, ZenonT(30)
    <3>2. PriceNotLower(d.supplied, d2.supplied)
      BY <1>2, <1>4, <1>8, <1>a, <3>1, DepositKeepsPrice, ZenonT(30)
    <3>3. Worth(d2) = Worth(d) - out
      BY <1>2, <1>4, <1>10, <3>1
    <3>4. Worth(d2) >= Worth(d) - out
      BY <1>2, <1>4, <3>3
    <3>5. ~(gained = 0)
      BY <2>1, <1>11
    <3> QED BY <1>8, <3>1, <3>2, <3>4, <3>5 DEF SameDebt
  <2>2. CASE gained = 0
    <3>0. ~(gained > 0)
      BY <2>2
    <3>1. d2 = paid
      BY <1>a, <3>0
    <3>2. Worth(d2) >= Worth(d) - out
      BY <1>2, <1>4, <1>10, <3>1
    <3>3. d2.supplied.shares = d.supplied.shares + gained
      BY <1>4, <1>8, <2>2, <3>1
    <3> QED BY <1>6, <1>8, <3>1, <3>2, <3>3
  <2> QED BY <1>11, <2>1, <2>2
<1>13. /\ st.pos = new /\ st.d = d2 /\ st.p = asset[pos.p] /\ st.uncovered = 0
       /\ st.benefits = [c |-> 0, d |-> gained, p |-> 0]
  BY <1>1
<1>14. /\ new \in PositionType /\ new.d_shares = pos.d_shares - r.shares
       /\ new.account = pos.account /\ new.c = pos.c /\ new.d = pos.d /\ new.p = pos.p
       /\ new.c_shares = pos.c_shares /\ new.p_amount = pos.p_amount
       /\ new.uahpi_at_open = pos.uahpi_at_open /\ ~new.is_locking
  <2>1. new.d_shares = pos.d_shares - r.shares
    BY <1>3, <1>a DEF PositionType
  <2>2. pos.d_shares - r.shares \in Nat
    BY <1>2, <1>3, <1>5, <1>13, <2>1
  <2> QED BY <1>2, <1>3, <1>a, <2>2 DEF PositionType
<1>15. st \in SettlingType
  BY <1>1, <1>4, <1>11, <1>12, <1>14 DEF SettlingType
<1>16. st.benefits.c = 0 /\ st.benefits.p = 0 /\ st.benefits.d = gained
  BY <1>13
<1>17. /\ st.d.margin_debt.shares - st.pos.d_shares = d.margin_debt.shares - pos.d_shares
       /\ st.d.supplied.shares - st.benefits.d - st.pos.c_shares = d.supplied.shares - pos.c_shares
       /\ Worth(st.d) + st.uncovered >= Worth(d) - out
  <2>1. /\ Worth(d2) \in Int /\ d.margin_debt.shares = pool.shares
    BY <1>12, AssetNumbers DEF pool, d
  <2> QED BY <1>2, <1>3, <1>4, <1>9, <1>11, <1>12, <1>13, <1>14, <1>16, <2>1
<1>18. Midway(pos, out, st)
  BY <1>8, <1>12, <1>13, <1>14, <1>15, <1>16, <1>17 DEF Midway, d
<1>19. Untouched(pos, st)
  <2> SUFFICES ASSUME st.pos.d_shares # 0
               PROVE  /\ st.d.supplied = d.supplied
                      /\ st.uncovered = 0 /\ st.benefits.d = 0
                      /\ st.pos.c_shares = pos.c_shares
    BY DEF Untouched, d
  <2>1. r.shares # pos.d_shares
    BY <1>2, <1>3, <1>13, <1>14
  <2>2. r.left = 0
    BY <1>2, <2>1
  <2>3. gained = 0
    BY <1>11, <2>2
  <2> QED BY <1>12, <1>13, <1>14, <1>16, <2>3
<1> QED BY <1>18, <1>19 DEF st, r

\* Collateral that pays debt leaves the supply and the debt by as many tokens.
LEMMA CollateralPays ==
  ASSUME NEW ast \in AssetType, NEW s \in Nat, NEW k \in Nat, NEW n \in Nat,
         PoolWithdraw(ast.supplied, s, n) \in PoolType,
         PoolWithdraw(ast.margin_debt, k, n) \in PoolType
  PROVE  LET after == [Unsupplied(ast, s, n) EXCEPT !.margin_debt = PoolWithdraw(@, k, n)]
         IN  /\ after \in AssetType
             /\ after.supplied = PoolWithdraw(ast.supplied, s, n)
             /\ after.margin_debt = PoolWithdraw(ast.margin_debt, k, n)
             /\ after.pending = ast.pending /\ after.position = ast.position
             /\ after.hp = ast.hp
             /\ after.supplied.shares = ast.supplied.shares - s
             /\ after.margin_debt.shares = ast.margin_debt.shares - k
             /\ Worth(after) = Worth(ast)
<1> DEFINE mid   == Unsupplied(ast, s, n)
           after == [mid EXCEPT !.margin_debt = PoolWithdraw(@, k, n)]
           sp    == PoolWithdraw(ast.supplied, s, n)
           dp    == PoolWithdraw(ast.margin_debt, k, n)
<1>1. mid = [ast EXCEPT !.supplied = sp]
  BY DEF Unsupplied
<1>2. /\ sp.shares = ast.supplied.shares - s /\ sp.balance = ast.supplied.balance - n
      /\ dp.shares = ast.margin_debt.shares - k /\ dp.balance = ast.margin_debt.balance - n
  BY DEF PoolWithdraw
<1>3. /\ ast.supplied.balance \in Nat /\ ast.margin_debt.balance \in Nat /\ ast.reserved \in Nat
      /\ ast.prot_fee \in Nat /\ ast.position \in Nat
  BY AssetNumbers
<1>4. mid \in AssetType /\ mid.margin_debt = ast.margin_debt
  BY <1>1 DEF AssetType
<1> HIDE DEF mid
<1>5. after = [mid EXCEPT !.margin_debt = dp]
  BY <1>4
<1> HIDE DEF after, dp
<1>6. /\ after \in AssetType /\ after.margin_debt = dp
      /\ after.supplied = mid.supplied /\ after.reserved = mid.reserved
      /\ after.prot_fee = mid.prot_fee /\ after.pending = mid.pending
      /\ after.position = mid.position /\ after.hp = mid.hp
  BY <1>4, <1>5 DEF AssetType, dp
<1> HIDE DEF sp
<1>7. /\ mid.supplied = sp /\ mid.reserved = ast.reserved
      /\ mid.prot_fee = ast.prot_fee /\ mid.pending = ast.pending
      /\ mid.position = ast.position /\ mid.hp = ast.hp
  BY <1>1 DEF AssetType
<1>8. Worth(after) = Worth(ast)
  BY <1>2, <1>3, <1>6, <1>7 DEF Worth
<1> QED BY <1>2, <1>6, <1>7, <1>8 DEF after, mid, sp, dp

\* repay_debt_from_collateral does nothing, or burns shares m.c of the collateral
\* for debt shares m.d, both worth m.amount.
LEMMA CollateralMove ==
  ASSUME NEW st, st.pos.d_shares \in Nat, st.pos.c_shares \in Nat,
         st.d.supplied \in PoolType, PoolInvariant(st.d.supplied),
         st.d.margin_debt \in PoolType, SoundPool(st.d.margin_debt),
         st.pos.d_shares <= st.d.margin_debt.shares,
         st.pos.c_shares <= st.d.supplied.shares,
         NEW m,
         m = IF AmountToShares(st.d.supplied,
                               SharesToAmount(st.d.margin_debt, st.pos.d_shares, TRUE), TRUE)
                   <= st.pos.c_shares
             THEN [d |-> st.pos.d_shares,
                   c |-> AmountToShares(st.d.supplied,
                               SharesToAmount(st.d.margin_debt, st.pos.d_shares, TRUE), TRUE),
                   amount |-> SharesToAmount(st.d.margin_debt, st.pos.d_shares, TRUE)]
             ELSE [d |-> AmountToShares(st.d.margin_debt,
                               SharesToAmount(st.d.supplied, st.pos.c_shares, FALSE), FALSE),
                   c |-> st.pos.c_shares,
                   amount |-> SharesToAmount(st.d.supplied, st.pos.c_shares, FALSE)],
         PoolWithdraw(st.d.supplied, m.c, m.amount) \in PoolType,
         PoolWithdraw(st.d.margin_debt, m.d, m.amount) \in PoolType
  PROVE  /\ m.c \in Nat /\ m.d \in Nat /\ m.amount \in Nat /\ m.c <= st.pos.c_shares
         /\ PriceNotLower(st.d.supplied, PoolWithdraw(st.d.supplied, m.c, m.amount))
         /\ SoundPool(PoolWithdraw(st.d.margin_debt, m.d, m.amount))
<1> DEFINE sp == st.d.supplied
           dp == st.d.margin_debt
           c == st.pos.c_shares
           k == st.pos.d_shares
           owed == SharesToAmount(dp, k, TRUE)
           needed == AmountToShares(sp, owed, TRUE)
           all == SharesToAmount(sp, c, FALSE)
<1>1. /\ sp \in PoolType /\ PoolInvariant(sp) /\ dp \in PoolType /\ SoundPool(dp)
      /\ c \in Nat /\ k \in Nat /\ k <= dp.shares /\ c <= sp.shares
      /\ sp.shares \in Nat /\ sp.balance \in Nat /\ dp.shares \in Nat /\ dp.balance \in Nat
  BY DEF PoolType
<1>2. m = IF needed <= c THEN [d |-> k, c |-> needed, amount |-> owed]
          ELSE [d |-> AmountToShares(dp, all, FALSE), c |-> c, amount |-> all]
  OBVIOUS
<1>3. PoolWithdraw(sp, m.c, m.amount) \in PoolType /\ PoolWithdraw(dp, m.d, m.amount) \in PoolType
  OBVIOUS
<1> SUFFICES /\ m.c \in Nat /\ m.d \in Nat /\ m.amount \in Nat /\ m.c <= c
             /\ PriceNotLower(sp, PoolWithdraw(sp, m.c, m.amount))
             /\ SoundPool(PoolWithdraw(dp, m.d, m.amount))
  OBVIOUS
<1>4. /\ owed \in Nat /\ SoundPool(PoolWithdraw(dp, k, owed))
  <2> HIDE DEF sp, dp, c, k
  <2> QED BY <1>1, ClearingKeepsSound
<1>5. needed \in Nat
  <2> HIDE DEF sp, dp, c, k, owed
  <2> QED BY <1>1, <1>4, SharesUp
<1>6. all \in Nat /\ PriceNotLower(sp, PoolWithdraw(sp, c, all))
  <2> HIDE DEF sp, dp, c, k
  <2> QED BY <1>1, AmountDown, BurningKeepsPrice
<1> HIDE DEF sp, dp, c, k
<1>7. owed <= sp.balance /\ needed <= sp.shares => PriceNotLower(sp, PoolWithdraw(sp, needed, owed))
  <2> HIDE DEF owed
  <2> QED BY <1>1, <1>4, PaymentKeepsPrice DEF CanWithdraw
<1> HIDE DEF owed, needed, all
<1>8. CASE needed <= c
  <2>0. m = [d |-> k, c |-> needed, amount |-> owed]
    BY ONLY <1>2, <1>8
  <2>1. m.d = k /\ m.c = needed /\ m.amount = owed
    BY ONLY <2>0
  <2>2. sp.balance - owed \in Nat
    BY <1>3, <2>1 DEF PoolWithdraw, PoolType
  <2>3. PriceNotLower(sp, PoolWithdraw(sp, needed, owed))
    BY <1>1, <1>4, <1>5, <1>7, <1>8, <2>2
  <2> QED BY <1>1, <1>4, <1>5, <1>8, <2>1, <2>3
<1>9. CASE ~(needed <= c)
  <2>0. m = [d |-> AmountToShares(dp, all, FALSE), c |-> c, amount |-> all]
    BY ONLY <1>2, <1>9
  <2>1. m.d = AmountToShares(dp, all, FALSE) /\ m.c = c /\ m.amount = all
    BY ONLY <2>0
  <2>2. dp.balance - all \in Nat
    BY <1>3, <2>1 DEF PoolWithdraw, PoolType
  <2>3. all <= dp.balance
    BY <1>1, <1>6, <2>2
  <2>4. AmountToShares(dp, all, FALSE) \in Nat /\ SoundPool(PoolWithdraw(dp, AmountToShares(dp, all, FALSE), all))
    BY <1>1, <1>6, <2>3, RepaymentKeepsSound
  <2>5. m.c \in Nat /\ m.c <= c
    BY ONLY <1>1, <2>1
  <2>6. m.amount \in Nat /\ m.d \in Nat
    BY ONLY <1>6, <2>1, <2>4
  <2>7. PriceNotLower(sp, PoolWithdraw(sp, m.c, m.amount))
    BY ONLY <1>6, <2>1
  <2>8. SoundPool(PoolWithdraw(dp, m.d, m.amount))
    BY ONLY <2>1, <2>4
  <2> QED BY ONLY <2>5, <2>6, <2>7, <2>8
<1> QED BY <1>8, <1>9

\* An update of the asset and of two numbers of the position.
LEMMA SettlingUpdate ==
  ASSUME NEW st \in SettlingType, NEW m
  PROVE  [st EXCEPT !.d = PaidFrom(@, m), !.pos.d_shares = @ - m.d, !.pos.c_shares = @ - m.c]
         = [st EXCEPT !.d = PaidFrom(st.d, m),
                      !.pos = [st.pos EXCEPT !.d_shares = @ - m.d, !.c_shares = @ - m.c]]
BY DEF SettlingType, PositionType

\* while something is owed, the protocol owes nothing for it yet
Owing(st) == st.pos.d_shares # 0 => st.uncovered = 0

\* What the copies hold, as the later steps need it.
LEMMA MidwayNumbers ==
  ASSUME Inv, NEW i \in PosIds, position[i] # NoPosition,
         trade[i] # NoTrade => trade[i].op # "open",
         NEW out \in Nat, NEW st, Midway(position[i], out, st)
  PROVE  /\ st.pos \in PositionType /\ st.pos.d_shares \in Nat /\ st.pos.c_shares \in Nat
         /\ st.d \in AssetType /\ st.d.margin_debt \in PoolType /\ SoundPool(st.d.margin_debt)
         /\ st.d.supplied \in PoolType /\ Worth(st.d) \in Int /\ st.uncovered \in Nat
         /\ st.d.reserved \in Nat /\ st.benefits.d \in Nat
         /\ st.pos.d_shares <= st.d.margin_debt.shares
         /\ Worth(asset[position[i].d]) \in Int
<1>1. /\ st \in SettlingType
      /\ st.d.margin_debt.shares - st.pos.d_shares
            = asset[position[i].d].margin_debt.shares - position[i].d_shares
      /\ SoundPool(st.d.margin_debt)
  BY DEF Midway
<1>2. /\ st.pos \in PositionType /\ st.d \in AssetType /\ st.uncovered \in Nat
      /\ st.benefits.d \in Nat
  BY <1>1 DEF SettlingType
<1>3. st.pos.d_shares \in Nat /\ st.pos.c_shares \in Nat
  BY <1>2 DEF PositionType
<1>4. /\ st.d.margin_debt \in PoolType /\ st.d.supplied \in PoolType /\ Worth(st.d) \in Int
      /\ st.d.reserved \in Nat /\ st.d.margin_debt.shares \in Nat
  BY <1>2, AssetNumbers
<1>5. position[i].d_shares \in Nat /\ position[i].d_shares <= asset[position[i].d].margin_debt.shares
  BY DebtorNumbers
<1>6. /\ asset[position[i].d].margin_debt.shares \in Nat
      /\ Worth(asset[position[i].d]) \in Int
  BY PositionFields, InvFields, AssetNumbers
<1>7. st.pos.d_shares <= st.d.margin_debt.shares
  BY <1>1, <1>3, <1>4, <1>5, <1>6
<1> QED BY <1>1, <1>2, <1>3, <1>4, <1>6, <1>7

\* The second step: the collateral.
LEMMA CollateralMidway ==
  ASSUME Inv, NEW i \in PosIds, position[i] # NoPosition,
         trade[i] # NoTrade => trade[i].op # "open",
         NEW out \in Nat, NEW st, Midway(position[i], out, st), Untouched(position[i], st),
         Sound(FromCollateral(st))
  PROVE  Midway(position[i], out, FromCollateral(st)) /\ Owing(FromCollateral(st))
<1> DEFINE pos == position[i]
           before == asset[pos.d]
           sp == st.d.supplied
           dp == st.d.margin_debt
           owed == SharesToAmount(dp, st.pos.d_shares, TRUE)
           needed == AmountToShares(sp, owed, TRUE)
           all == SharesToAmount(sp, st.pos.c_shares, FALSE)
           m == IF needed <= st.pos.c_shares
                THEN [d |-> st.pos.d_shares, c |-> needed, amount |-> owed]
                ELSE [d |-> AmountToShares(dp, all, FALSE), c |-> st.pos.c_shares, amount |-> all]
           s == m.c
           k == m.d
           n == m.amount
           d2 == PaidFrom(st.d, m)
           pos2 == [st.pos EXCEPT !.d_shares = @ - k, !.c_shares = @ - s]
           new == [st EXCEPT !.d = PaidFrom(@, m), !.pos.d_shares = @ - m.d,
                             !.pos.c_shares = @ - m.c]
<1>1. FromCollateral(st) = IF st.pos.d_shares = 0 \/ st.pos.c # st.pos.d \/ m.amount = 0
                           THEN st ELSE new
  BY DEF FromCollateral
<1>2. Midway(pos, out, st) /\ Untouched(pos, st)
  OBVIOUS
<1>3. CASE st.pos.d_shares = 0 \/ st.pos.c # st.pos.d \/ m.amount = 0
  <2>1. FromCollateral(st) = st
    BY <1>1, <1>3
  <2>2. Owing(st)
    BY <1>2 DEF Untouched, Owing
  <2> QED BY <1>2, <2>1, <2>2
<1>4. CASE ~(st.pos.d_shares = 0 \/ st.pos.c # st.pos.d \/ m.amount = 0)
  <2>1. FromCollateral(st) = new /\ st.pos.d_shares # 0 /\ st.pos.c = st.pos.d
    BY <1>1, <1>4
  <2>2. /\ sp = before.supplied /\ st.uncovered = 0 /\ st.benefits.d = 0
        /\ st.pos.c_shares = pos.c_shares
    BY <1>2, <2>1 DEF Untouched
  <2>3. /\ st.pos \in PositionType /\ st.pos.d_shares \in Nat /\ st.pos.c_shares \in Nat
        /\ st.d \in AssetType /\ dp \in PoolType /\ SoundPool(dp) /\ sp \in PoolType
        /\ Worth(st.d) \in Int /\ st.pos.d_shares <= dp.shares /\ st.uncovered \in Nat
    BY <1>2, MidwayNumbers
  <2>4. st \in SettlingType /\ st.pos.c = pos.c /\ st.pos.d = pos.d
    BY <1>2 DEF Midway
  <2>5. PoolInvariant(sp) /\ st.pos.c_shares <= sp.shares
    <3>1. PoolInvariant(before.supplied)
      BY PositionFields, InvFields DEF SupplySound
    <3>2. pos.c_shares <= asset[pos.c].supplied.shares
      BY DebtorNumbers
    <3>3. pos.c = pos.d
      BY <2>1, <2>4
    <3> QED BY <2>2, <3>1, <3>2, <3>3
  <2>a. new = [st EXCEPT !.d = d2, !.pos = pos2]
    <3> HIDE DEF m
    <3> QED BY <2>4, SettlingUpdate
  <2>6. /\ new.pos = pos2 /\ new.d = d2 /\ new.p = st.p /\ new.uncovered = st.uncovered
        /\ new.benefits = st.benefits
    <3> HIDE DEF pos2, d2, new
    <3> QED BY <2>4, <2>a DEF SettlingType
  <2>b. pos2 = [st.pos EXCEPT !.d_shares = @ - k, !.c_shares = @ - s]
    OBVIOUS
  <2> HIDE DEF pos2, new
  <2>7. /\ new.pos.d_shares = st.pos.d_shares - k
        /\ new.pos.c_shares = st.pos.c_shares - s
        /\ new.pos.account = st.pos.account /\ new.pos.c = st.pos.c /\ new.pos.d = st.pos.d
        /\ new.pos.p = st.pos.p /\ new.pos.p_amount = st.pos.p_amount
        /\ new.pos.uahpi_at_open = st.pos.uahpi_at_open
        /\ new.pos.is_locking = st.pos.is_locking /\ new.pos.debt_cap = st.pos.debt_cap
    <3> HIDE DEF s, k
    <3>1. pos2.d_shares = st.pos.d_shares - k /\ pos2.c_shares = st.pos.c_shares - s
      BY <2>3, <2>b DEF PositionType
    <3>2. /\ pos2.account = st.pos.account /\ pos2.c = st.pos.c /\ pos2.d = st.pos.d
          /\ pos2.p = st.pos.p /\ pos2.p_amount = st.pos.p_amount
      BY <2>3, <2>b DEF PositionType
    <3>3. /\ pos2.uahpi_at_open = st.pos.uahpi_at_open
          /\ pos2.is_locking = st.pos.is_locking /\ pos2.debt_cap = st.pos.debt_cap
      BY <2>3, <2>b DEF PositionType
    <3> QED BY <2>6, <3>1, <3>2, <3>3
  <2>8. /\ new.pos.d_shares >= 0 /\ new.pos.c_shares >= 0
        /\ new.d.margin_debt \in PoolType /\ new.d.supplied \in PoolType
    BY <2>1 DEF Sound
  <2>9. d2.supplied = PoolWithdraw(sp, m.c, m.amount) /\ d2.margin_debt = PoolWithdraw(dp, m.d, m.amount)
    BY <2>3 DEF PaidFrom, Unsupplied, AssetType
  <2>10. /\ PoolWithdraw(sp, m.c, m.amount) \in PoolType
         /\ PoolWithdraw(dp, m.d, m.amount) \in PoolType
    BY <2>6, <2>8, <2>9
  <2>11. /\ m.c \in Nat /\ m.d \in Nat /\ m.amount \in Nat /\ m.c <= st.pos.c_shares
         /\ PriceNotLower(sp, PoolWithdraw(sp, m.c, m.amount))
         /\ SoundPool(PoolWithdraw(dp, m.d, m.amount))
    BY <2>3, <2>5, <2>10, CollateralMove
  <2>12. d2 = [Unsupplied(st.d, s, n) EXCEPT !.margin_debt = PoolWithdraw(@, k, n)]
    BY DEF PaidFrom
  <2> HIDE DEF m, d2, owed, needed, all, sp, dp
  <2>13. s \in Nat /\ k \in Nat /\ n \in Nat /\ s <= st.pos.c_shares
    BY <2>11
  <2>14. /\ PoolWithdraw(st.d.supplied, s, n) \in PoolType
         /\ PoolWithdraw(st.d.margin_debt, k, n) \in PoolType
    BY <2>10 DEF sp, dp
  <2> HIDE DEF s, k, n
  <2>15. /\ d2 \in AssetType
         /\ d2.supplied = PoolWithdraw(st.d.supplied, s, n)
         /\ d2.margin_debt = PoolWithdraw(st.d.margin_debt, k, n)
         /\ d2.pending = st.d.pending /\ d2.position = st.d.position
         /\ d2.hp = st.d.hp
         /\ d2.supplied.shares = st.d.supplied.shares - s
         /\ d2.margin_debt.shares = st.d.margin_debt.shares - k
         /\ Worth(d2) = Worth(st.d)
    BY <2>3, <2>12, <2>13, <2>14, CollateralPays
  <2>16. PriceNotLower(before.supplied, d2.supplied) /\ SoundPool(d2.margin_debt)
    BY <2>2, <2>9, <2>11
  <2>17. /\ st.p = asset[pos.p] /\ st.benefits.c = 0 /\ st.benefits.p = 0
         /\ st.pos.account = pos.account /\ st.pos.c = pos.c /\ st.pos.d = pos.d
         /\ st.pos.p = pos.p /\ st.pos.p_amount = pos.p_amount
         /\ st.pos.uahpi_at_open = pos.uahpi_at_open /\ ~st.pos.is_locking
         /\ st.d.pending = before.pending /\ st.d.position = before.position
         /\ st.d.hp = before.hp
         /\ st.d.margin_debt.shares - st.pos.d_shares = before.margin_debt.shares - pos.d_shares
         /\ st.d.supplied.shares - st.benefits.d - st.pos.c_shares
               = before.supplied.shares - pos.c_shares
         /\ Worth(st.d) + st.uncovered >= Worth(before) - out
    BY <1>2 DEF Midway
  <2>18. new.pos \in PositionType
    <3>1. new.pos.d_shares \in Nat /\ new.pos.c_shares \in Nat
      BY <2>3, <2>7, <2>8, <2>13
    <3> QED BY <2>3, <2>6, <2>7, <2>b, <3>1 DEF PositionType
  <2>19. new \in SettlingType
    <3>1. new.uncovered \in Nat /\ new.benefits \in [c : Nat, d : Nat, p : Nat] /\ new.p \in AssetType
      BY <2>4, <2>6 DEF SettlingType
    <3> QED BY <2>4, <2>6, <2>15, <2>18, <2>a, <3>1 DEF SettlingType
  <2>20. /\ d2.margin_debt.shares - new.pos.d_shares = before.margin_debt.shares - pos.d_shares
    <3>1. /\ st.d.margin_debt.shares \in Nat
      BY <2>3, AssetNumbers
    <3>2. new.pos.d_shares = st.pos.d_shares - k
      BY <2>7
    <3> QED BY <2>3, <2>13, <2>15, <2>17, <3>1, <3>2
  <2>21. d2.supplied.shares - st.benefits.d - new.pos.c_shares = before.supplied.shares - pos.c_shares
    <3>1. /\ st.d.supplied.shares \in Nat
      BY <2>3, AssetNumbers
    <3>2. new.pos.c_shares = st.pos.c_shares - s
      BY <2>7
    <3> QED BY <2>2, <2>3, <2>13, <2>15, <2>17, <3>1, <3>2
  <2>22. Midway(pos, out, new)
    <3>1. pos.c = pos.d
      BY <2>1, <2>4
    <3> HIDE DEF pos
    <3> QED BY <2>6, <2>7, <2>15, <2>16, <2>17, <2>19, <2>20, <2>21, <3>1 DEF Midway, before
  <2>23. Owing(new)
    BY <2>2, <2>6 DEF Owing
  <2> QED BY <2>1, <2>22, <2>23
<1> QED BY <1>3, <1>4

\* The third step: the reserve, and the protocol's debt for what it lacks.
LEMMA ReserveMidway ==
  ASSUME Inv, NEW i \in PosIds, position[i] # NoPosition,
         trade[i] # NoTrade => trade[i].op # "open",
         NEW out \in Nat, NEW st, Midway(position[i], out, st), Owing(st)
  PROVE  Midway(position[i], out, FromReserve(st))
<1> DEFINE pos == position[i]
           before == asset[pos.d]
           dp == st.d.margin_debt
           k == st.pos.d_shares
           owed == SharesToAmount(dp, k, TRUE)
           covered == Least(owed, st.d.reserved)
           r == st.d.reserved - covered
           q == PoolWithdraw(dp, k, owed)
           u == owed - covered
           new == [st EXCEPT !.d.reserved = r, !.d.margin_debt = q,
                             !.pos.d_shares = 0, !.uncovered = u]
<1>1. FromReserve(st) = IF k = 0 THEN st
                        ELSE [st EXCEPT !.d.reserved = @ - covered,
                                        !.d.margin_debt = PoolWithdraw(@, k, owed),
                                        !.pos.d_shares = 0,
                                        !.uncovered = owed - covered]
  BY DEF FromReserve
<1>2. Midway(pos, out, st)
  OBVIOUS
<1>3. /\ st.pos \in PositionType /\ k \in Nat /\ st.pos.c_shares \in Nat
      /\ st.d \in AssetType /\ dp \in PoolType /\ SoundPool(dp)
      /\ st.d.supplied \in PoolType /\ Worth(st.d) \in Int /\ st.uncovered \in Nat
      /\ st.d.reserved \in Nat /\ k <= dp.shares
  BY MidwayNumbers
<1>4. CASE k = 0
  BY <1>1, <1>2, <1>4
<1>5. CASE k # 0
  <2>0. st \in SettlingType
    BY <1>2 DEF Midway
  <2>1. FromReserve(st) = new
    <3>1. [st EXCEPT !.d.reserved = @ - covered, !.d.margin_debt = PoolWithdraw(@, k, owed),
                     !.pos.d_shares = 0, !.uncovered = owed - covered] = new
      <4> HIDE DEF k, owed, covered
      <4> QED BY <2>0 DEF SettlingType
    <3> HIDE DEF new, owed, covered
    <3> QED BY <1>1, <1>5, <3>1
  <2>2. /\ owed \in Nat /\ q \in PoolType /\ SoundPool(q)
        /\ q.shares = dp.shares - k /\ q.balance = dp.balance - owed
    <3>1. q.shares = dp.shares - k /\ q.balance = dp.balance - owed
      BY DEF PoolWithdraw
    <3> HIDE DEF dp, k
    <3> QED BY <1>3, <3>1, ClearingKeepsSound
  <2> DEFINE d2 == [st.d EXCEPT !.reserved = r, !.margin_debt = q]
             pos2 == [st.pos EXCEPT !.d_shares = 0]
  <2>3. /\ new.d = d2 /\ new.pos = pos2 /\ new.p = st.p /\ new.uncovered = u
        /\ new.benefits = st.benefits /\ new = [st EXCEPT !.d = d2, !.pos = pos2, !.uncovered = u]
    <3> HIDE DEF r, q, u
    <3>1. new = [st EXCEPT !.d.reserved = r, !.d.margin_debt = q,
                           !.pos.d_shares = 0, !.uncovered = u]
      OBVIOUS
    <3>2. d2 = [st.d EXCEPT !.reserved = r, !.margin_debt = q] /\ pos2 = [st.pos EXCEPT !.d_shares = 0]
      OBVIOUS
    <3> HIDE DEF new, d2, pos2
    <3> QED BY ONLY <2>0, <3>1, <3>2 DEF SettlingType, PositionType, AssetType
  <2> HIDE DEF new, owed, q, dp
  <2>4. covered \in Nat /\ covered <= owed /\ covered <= st.d.reserved
    BY <1>3, <2>2, LeastBound
  <2> HIDE DEF covered
  <2>5. r \in Nat /\ u \in Nat
    BY <1>3, <2>2, <2>4
  <2>a. r = st.d.reserved - covered /\ u = owed - covered
    OBVIOUS
  <2>b. /\ d2 = [st.d EXCEPT !.reserved = r, !.margin_debt = q]
        /\ pos2 = [st.pos EXCEPT !.d_shares = 0]
    OBVIOUS
  <2> HIDE DEF r, u, d2, pos2
  <2>6. /\ d2 \in AssetType /\ d2.margin_debt = q /\ d2.reserved = r
        /\ d2.supplied = st.d.supplied /\ d2.pending = st.d.pending
        /\ d2.position = st.d.position /\ d2.hp = st.d.hp /\ d2.prot_fee = st.d.prot_fee
    BY <1>3, <2>2, <2>5, <2>b DEF AssetType
  <2>7. /\ pos2 \in PositionType /\ pos2.d_shares = 0
        /\ pos2.account = st.pos.account /\ pos2.c = st.pos.c /\ pos2.d = st.pos.d
        /\ pos2.p = st.pos.p /\ pos2.p_amount = st.pos.p_amount /\ pos2.c_shares = st.pos.c_shares
        /\ pos2.uahpi_at_open = st.pos.uahpi_at_open /\ pos2.is_locking = st.pos.is_locking
    BY <1>3, <2>b DEF PositionType
  <2>8. new \in SettlingType
    BY <2>0, <2>3, <2>5, <2>6, <2>7 DEF SettlingType
  <2>9. Worth(d2) = Worth(st.d) - owed + covered
    <3>1. /\ st.d.supplied.balance \in Nat /\ st.d.prot_fee \in Nat /\ st.d.position \in Nat
          /\ st.d.margin_debt.balance \in Nat
      BY <1>3, AssetNumbers
    <3>2. d2.margin_debt.balance = st.d.margin_debt.balance - owed
      BY <2>2, <2>6 DEF dp
    <3>3. d2.reserved = st.d.reserved - covered
      BY <2>6, <2>a
    <3> QED BY <1>3, <2>2, <2>4, <2>6, <3>1, <3>2, <3>3 DEF Worth
  <2>10. /\ st.p = asset[pos.p] /\ st.benefits.c = 0 /\ st.benefits.p = 0
         /\ st.pos.account = pos.account /\ st.pos.c = pos.c /\ st.pos.d = pos.d
         /\ st.pos.p = pos.p /\ st.pos.p_amount = pos.p_amount
         /\ pos.c # pos.d => st.pos.c_shares = pos.c_shares
         /\ st.pos.uahpi_at_open = pos.uahpi_at_open /\ ~st.pos.is_locking
         /\ st.d.pending = before.pending /\ st.d.position = before.position
         /\ st.d.hp = before.hp
         /\ st.d.margin_debt.shares - st.pos.d_shares = before.margin_debt.shares - pos.d_shares
         /\ st.d.supplied.shares - st.benefits.d - st.pos.c_shares
               = before.supplied.shares - pos.c_shares
         /\ Worth(st.d) + st.uncovered >= Worth(before) - out
         /\ PriceNotLower(before.supplied, st.d.supplied)
    BY <1>2 DEF Midway
  <2>11. st.uncovered = 0
    BY <1>5 DEF Owing
  <2>12. Worth(d2) + u >= Worth(before) - out
    <3>1. Worth(before) \in Int
      BY MidwayNumbers
    <3> QED BY <1>3, <2>2, <2>4, <2>9, <2>10, <2>11, <2>a, <3>1
  <2>13. d2.margin_debt.shares - 0 = before.margin_debt.shares - pos.d_shares
    <3>1. dp.shares \in Nat /\ d2.margin_debt.shares = dp.shares - k
      BY <1>3, <2>2, <2>6 DEF PoolType
    <3>2. dp.shares - k = before.margin_debt.shares - pos.d_shares
      BY <2>10 DEF dp
    <3>3. (dp.shares - k) - 0 = dp.shares - k
      BY <1>3, <3>1
    <3> QED BY <3>1, <3>2, <3>3
  <2>14. Midway(pos, out, new)
    <3> HIDE DEF pos
    <3> QED BY <2>2, <2>3, <2>6, <2>7, <2>8, <2>10, <2>12, <2>13 DEF Midway, before
  <2> QED BY <2>1, <2>14
<1> QED BY <1>4, <1>5

\* Every step of a settlement that the handler completes.
LEMMA SettledMidway ==
  ASSUME Inv, NEW i \in PosIds, position[i] # NoPosition,
         trade[i] # NoTrade => trade[i].op # "open",
         NEW op, NEW out \in Nat, CanSettle(position[i], op, out)
  PROVE  LET pos == position[i]
         IN  Midway(pos, out, Covered(op, Topped(op, Repaid(pos, Repayment(pos, out)))))
<1> DEFINE pos == position[i]
           repaid == Repaid(pos, Repayment(pos, out))
           topped == Topped(op, repaid)
<1>1. Repayment(pos, out).left >= 0 /\ Sound(repaid) /\ Sound(topped)
  BY DEF CanSettle
<1>2. Midway(pos, out, repaid) /\ Untouched(pos, repaid)
  BY <1>1, RepaidMidway
<1> HIDE DEF repaid
<1>3. Midway(pos, out, topped) /\ Owing(topped)
  <2>1. CASE op \in FullClose
    <3>1. topped = FromCollateral(repaid)
      BY <2>1 DEF Topped
    <3> QED BY <1>1, <1>2, <3>1, CollateralMidway
  <2>2. CASE op \notin FullClose
    <3>1. topped = repaid
      BY <2>2 DEF Topped
    <3>2. Owing(repaid)
      BY <1>2 DEF Untouched, Owing
    <3> QED BY <1>2, <3>1, <3>2
  <2> QED BY <2>1, <2>2
<1> HIDE DEF topped
<1>4. Midway(pos, out, Covered(op, topped))
  <2>1. CASE op = "forceclose"
    <3>1. Covered(op, topped) = FromReserve(topped)
      BY <2>1 DEF Covered
    <3> QED BY <1>3, <3>1, ReserveMidway
  <2>2. CASE op # "forceclose"
    <3>1. Covered(op, topped) = topped
      BY <2>2 DEF Covered
    <3> QED BY <1>3, <3>1
  <2> QED BY <2>1, <2>2
<1> QED BY <1>4 DEF topped, repaid

\* What an ended position holds becomes supply; its shares are handed out.
HandsBack(ast, after, shares, held) ==
    /\ shares \in Nat /\ after \in AssetType
    /\ after.pending = ast.pending /\ after.margin_debt = ast.margin_debt
    /\ after.hp = ast.hp /\ after.position = ast.position - held
    /\ after.supplied.shares = ast.supplied.shares + shares
    /\ Worth(after) = Worth(ast)
    /\ PriceNotLower(ast.supplied, after.supplied)

\* The asset of a position after its tokens are supplied for the trader.
LEMMA HandedBackAsset ==
  ASSUME NEW ast \in AssetType, PoolInvariant(ast.supplied), NEW held \in Nat, held <= ast.position,
         NEW shares, held > 0 => shares = AmountToShares(ast.supplied, held, FALSE),
         held = 0 => shares = 0,
         NEW after, after = HandedBack(ast, shares, held)
  PROVE  HandsBack(ast, after, shares, held)
<1> DEFINE mid    == Supplied(ast, shares, held)
<1>1. /\ ast.supplied \in PoolType /\ ast.supplied.shares \in Nat /\ ast.supplied.balance \in Nat
      /\ ast.reserved \in Nat /\ ast.prot_fee \in Nat /\ ast.position \in Nat
      /\ ast.margin_debt.balance \in Nat /\ Worth(ast) \in Int
  BY AssetNumbers
<1>2. /\ shares \in Nat
      /\ PriceNotLower(ast.supplied, PoolDeposit(ast.supplied, shares, held))
  <2>1. CASE held > 0
    BY <1>1, <2>1, SharesDown, DepositKeepsPrice
  <2>2. CASE held = 0
    <3>1. shares = 0
      BY <2>2
    <3>2. PoolDeposit(ast.supplied, 0, 0) = ast.supplied
      BY <1>1 DEF PoolDeposit, PoolType
    <3>3. PriceNotLower(ast.supplied, ast.supplied)
      BY <1>1 DEF PriceNotLower
    <3> QED BY <2>2, <3>1, <3>2, <3>3
  <2>3. held > 0 \/ held = 0
    OBVIOUS
  <2> QED BY <2>1, <2>2, <2>3
<1>a. after = [mid EXCEPT !.position = @ - held]
  BY DEF HandedBack
<1>b. mid = Supplied(ast, shares, held)
  OBVIOUS
<1> HIDE DEF mid
<1>3. /\ mid \in AssetType /\ SameDebt(ast, mid)
      /\ mid.supplied = PoolDeposit(ast.supplied, shares, held)
      /\ mid.supplied.shares = ast.supplied.shares + shares
      /\ mid.reserved = ast.reserved /\ mid.prot_fee = ast.prot_fee
      /\ Worth(mid) = Worth(ast) - held
  BY <1>2, <1>b, SupplyAdded
<1>4. ast.position - held \in Nat
  BY <1>1
<1>5. mid.position = ast.position /\ mid.pending = ast.pending /\ mid.margin_debt = ast.margin_debt
      /\ mid.hp = ast.hp
  BY <1>3 DEF SameDebt
<1>6. /\ after \in AssetType /\ after.supplied = mid.supplied /\ after.reserved = mid.reserved
      /\ after.prot_fee = mid.prot_fee /\ after.margin_debt = mid.margin_debt
      /\ after.pending = mid.pending /\ after.hp = mid.hp /\ after.position = ast.position - held
  BY <1>3, <1>4, <1>5, <1>a DEF AssetType
<1>7. Worth(after) = Worth(ast)
  <2>0. held \in Nat
    OBVIOUS
  <2>1. mid.supplied.balance \in Nat /\ mid.prot_fee \in Nat /\ mid.margin_debt.balance \in Nat
        /\ mid.reserved \in Nat
    BY <1>3, AssetNumbers
  <2>2. Worth(after) = Worth(mid) + held
    BY ONLY <1>1, <1>5, <1>6, <2>0, <2>1 DEF Worth
  <2> QED BY ONLY <1>1, <1>3, <2>0, <2>2
<1> QED BY <1>2, <1>3, <1>5, <1>6, <1>7 DEF HandsBack

Benefits == [c : Nat, d : Nat, p : Nat]

\* The last step, settle_closed_position, if nothing is owed any more.
LEMMA ClosedFacts ==
  ASSUME Inv, NEW i \in PosIds, position[i] # NoPosition,
         trade[i] # NoTrade => trade[i].op # "open",
         NEW out \in Nat, NEW st, Midway(position[i], out, st)
  PROVE  LET pos   == position[i]
             ast   == asset[pos.p]
             st2   == Closed(st)
             ended == st.pos.d_shares = 0
         IN  /\ st2.pos = st.pos /\ st2.d = st.d /\ st2.uncovered = st.uncovered
             /\ st2.benefits \in Benefits /\ st2.benefits.d = st.benefits.d
             /\ st2.benefits.c = IF ended THEN st.pos.c_shares ELSE 0
             /\ st2.p \in AssetType
             /\ st2.p.pending = ast.pending /\ st2.p.margin_debt = ast.margin_debt
             /\ st2.p.hp = ast.hp
             /\ st2.p.position = ast.position - (IF ended THEN pos.p_amount ELSE 0)
             /\ st2.p.supplied.shares = ast.supplied.shares + st2.benefits.p
             /\ Worth(st2.p) = Worth(ast)
             /\ PriceNotLower(ast.supplied, st2.p.supplied)
<1> DEFINE pos   == position[i]
           ast   == asset[pos.p]
           st2   == Closed(st)
           held  == st.pos.p_amount
           shares == IF held > 0 THEN AmountToShares(st.p.supplied, held, FALSE) ELSE 0
           new   == [st EXCEPT !.p = HandedBack(@, shares, held),
                               !.benefits.c = st.pos.c_shares, !.benefits.p = shares]
<1>1. st2 = IF st.pos.d_shares # 0 THEN st ELSE new
  BY DEF Closed
<1>2. /\ st \in SettlingType /\ st.pos.p_amount = pos.p_amount /\ st.p = ast
      /\ st.benefits.c = 0 /\ st.benefits.p = 0
  BY DEF Midway
<1>3. st.pos.c_shares \in Nat /\ st.pos.d_shares \in Nat /\ st.benefits \in Benefits
  BY <1>2 DEF SettlingType, PositionType, Benefits
<1>4. /\ ast \in AssetType /\ PoolInvariant(ast.supplied) /\ ast.supplied \in PoolType
      /\ ast.supplied.shares \in Nat /\ ast.supplied.balance \in Nat /\ ast.position \in Nat
  BY PositionFields, InvFields, AssetNumbers DEF SupplySound
<1>5. pos.p_amount \in Nat /\ pos.p_amount <= ast.position
  BY DebtorNumbers
<1> HIDE DEF pos, ast
<1>6. CASE st.pos.d_shares # 0
  <2>1. st2 = st
    BY <1>1, <1>6
  <2>2. PriceNotLower(ast.supplied, ast.supplied)
    BY <1>4 DEF PriceNotLower
  <2>3. ast.supplied.shares = ast.supplied.shares + 0 /\ ast.position = ast.position - 0
    BY <1>4
  <2> HIDE DEF st2
  <2> QED BY <1>2, <1>3, <1>4, <1>6, <2>1, <2>2, <2>3 DEF pos, ast, st2
<1>7. CASE st.pos.d_shares = 0
  <2>1. st2 = new
    BY <1>1, <1>7
  <2>2. held = pos.p_amount /\ held \in Nat /\ held <= ast.position
    BY <1>2, <1>5
  <2>3. shares = IF held > 0 THEN AmountToShares(ast.supplied, held, FALSE) ELSE 0
    BY <1>2
  <2> DEFINE after == HandedBack(ast, shares, held)
  <2> HIDE DEF held, shares
  <2>d. HandsBack(ast, after, shares, held)
    <3>1. after = HandedBack(ast, shares, held)
      OBVIOUS
    <3>2. held > 0 => shares = AmountToShares(ast.supplied, held, FALSE)
      BY <2>3
    <3>3. held = 0 => shares = 0
      BY <2>2, <2>3
    <3> HIDE DEF after
    <3> QED BY ONLY <1>4, <2>2, <3>1, <3>2, <3>3, HandedBackAsset
  <2>4. /\ shares \in Nat /\ after \in AssetType
        /\ after.pending = ast.pending /\ after.margin_debt = ast.margin_debt
        /\ after.hp = ast.hp /\ after.position = ast.position - held
        /\ after.supplied.shares = ast.supplied.shares + shares
        /\ Worth(after) = Worth(ast)
        /\ PriceNotLower(ast.supplied, after.supplied)
    <3> HIDE DEF after
    <3> QED BY <2>d DEF HandsBack
  <2>5. new = [st EXCEPT !.p = HandedBack(@, shares, held),
                         !.benefits.c = st.pos.c_shares, !.benefits.p = shares]
    OBVIOUS
  <2>6. /\ new.pos = st.pos /\ new.d = st.d /\ new.uncovered = st.uncovered
        /\ new.p = after
        /\ new.benefits = [st.benefits EXCEPT !.c = st.pos.c_shares, !.p = shares]
    BY ONLY <1>2, <2>5 DEF SettlingType
  <2> HIDE DEF new, after
  <2>7. /\ new.benefits \in Benefits /\ new.benefits.d = st.benefits.d
        /\ new.benefits.c = st.pos.c_shares /\ new.benefits.p = shares
    BY <1>3, <2>4, <2>6 DEF Benefits
  <2> HIDE DEF st2
  <2> QED BY <1>7, <2>1, <2>2, <2>4, <2>6, <2>7 DEF pos, ast, st2
<1> QED BY <1>3, <1>6, <1>7

-----------------------------------------------------------------------------
(***************************************************************************)
(* Handing out.                                                            *)
(***************************************************************************)
\* the shares of token t among the benefits of a position
Gift(pos, g, t) == (IF t = pos.c THEN g.c ELSE 0) + (IF t = pos.d THEN g.d ELSE 0)
                   + (IF t = pos.p THEN g.p ELSE 0)

\* The shares of one token among the benefits are a number.
LEMMA GiftType ==
  ASSUME NEW pos, NEW g \in Benefits, NEW t
  PROVE  Gift(pos, g, t) \in Nat
BY DEF Gift, Benefits

\* An account is saved as it was read, with x more shares of token t, whatever
\* was saved for it since.
LEMMA HandOver ==
  ASSUME NEW f \in SharesTable, NEW now \in SharesTable, NEW new \in SharesTable,
         NEW a \in Accounts, NEW t \in Tokens, NEW y \in Nat, NEW x \in Nat,
         \A b \in Accounts \ {a} : new[b] = now[b],
         new[a][t] = y + x, y <= now[a][t]
  PROVE  /\ Entries(f, new, t) <= Entries(f, now, t) + x
         /\ now[a][t] = y => Entries(f, new, t) = Entries(f, now, t) + x
<1>1. now[a][t] \in Nat /\ new[a][t] \in Nat
  BY DEF SharesTable
<1>2. Entries(f, new, t) = Entries(f, now, t) - now[a][t] + new[a][t]
  <2>1. \A b \in Accounts \ {a} : new[b][t] = now[b][t]
    OBVIOUS
  <2>2. /\ f \in SharesTable /\ now \in SharesTable /\ new \in SharesTable
        /\ a \in Accounts /\ t \in Tokens
    OBVIOUS
  <2> QED BY ONLY <2>1, <2>2, EntriesChange
<1>3. Entries(f, now, t) \in Nat
  BY EntriesType DEF SharesTable
<1> QED BY <1>1, <1>2, <1>3

\* What is saved for an account is no less than what it had.
LEMMA WithType ==
  ASSUME margin \in SharesTable, NEW a \in Accounts, NEW pos, NEW g \in Benefits
  PROVE  /\ With(a, pos, g) \in [Tokens -> Nat]
         /\ \A t \in Tokens : With(a, pos, g)[t] = margin[a][t] + Gift(pos, g, t)
<1>1. \A t \in Tokens : margin[a][t] \in Nat /\ Gift(pos, g, t) \in Nat
  BY GiftType DEF SharesTable
<1>2. \A t \in Tokens : With(a, pos, g)[t] = margin[a][t] + Gift(pos, g, t)
  <2> SUFFICES ASSUME NEW t \in Tokens PROVE With(a, pos, g)[t] = margin[a][t] + Gift(pos, g, t)
    OBVIOUS
  <2>1. /\ margin[a][t] \in Nat
        /\ (IF t = pos.c THEN g.c ELSE 0) \in Nat /\ (IF t = pos.d THEN g.d ELSE 0) \in Nat
        /\ (IF t = pos.p THEN g.p ELSE 0) \in Nat
    BY <1>1 DEF Benefits
  <2> QED BY <2>1 DEF With, Gift
<1>3. With(a, pos, g) \in [Tokens -> Nat]
  <2>1. \A t \in Tokens : With(a, pos, g)[t] \in Nat
    BY <1>1, <1>2
  <2> QED BY <2>1 DEF With
<1> QED BY <1>2, <1>3

\* A record of three numbers, as ToOwner and its like make it.
LEMMA TableOfBenefits ==
  ASSUME NEW f, f = [k \in {"c", "d", "p"} |-> f[k]],
         \A k \in {"c", "d", "p"} : f[k] \in Nat
  PROVE  f \in Benefits
<1>1. DOMAIN f = {"c", "d", "p"} /\ f.c \in Nat /\ f.d \in Nat /\ f.p \in Nat
  OBVIOUS
<1>2. f = [c |-> f.c, d |-> f.d, p |-> f.p]
  BY <1>1
<1> QED BY ONLY <1>1, <1>2 DEF Benefits

\* The parts of the owner, of the liquidator and of the trader add up.
LEMMA SplitBenefits ==
  ASSUME NEW g \in Benefits
  PROVE  /\ ToOwner(g) \in Benefits /\ ToLiquidator(g) \in Benefits /\ ToTrader(g) \in Benefits
         /\ \A pos, t : Gift(pos, ToOwner(g), t) + Gift(pos, ToLiquidator(g), t)
                        + Gift(pos, ToTrader(g), t) = Gift(pos, g, t)
<1>1. DOMAIN g = {"c", "d", "p"} /\ g.c \in Nat /\ g.d \in Nat /\ g.p \in Nat
  BY DEF Benefits
<1>2. ASSUME NEW k \in {"c", "d", "p"}
      PROVE  /\ ToOwner(g)[k] \in Nat /\ ToLiquidator(g)[k] \in Nat /\ ToTrader(g)[k] \in Nat
             /\ ToOwner(g)[k] + ToLiquidator(g)[k] + ToTrader(g)[k] = g[k]
  <2>1. g[k] \in Nat
    BY <1>1
  <2>2. /\ ToOwner(g)[k] = Part(g[k], ProtocolRate)
        /\ ToLiquidator(g)[k] = IF ProtocolRate + LiquidatorRate = MaxRatio
                                THEN g[k] - ToOwner(g)[k] ELSE Part(g[k], LiquidatorRate)
        /\ ToTrader(g)[k] = g[k] - ToOwner(g)[k] - ToLiquidator(g)[k]
    BY <1>1 DEF ToOwner, ToLiquidator, ToTrader
  <2>3. /\ ProtocolRate \in 0 .. MaxRatio /\ LiquidatorRate \in 0 .. MaxRatio
        /\ MaxRatio \in Nat \ {0} /\ ProtocolRate + LiquidatorRate <= MaxRatio
    BY MarginRatioAssumption
  <2> DEFINE n == g[k]
             x == Part(n, ProtocolRate)
             y == Part(n, LiquidatorRate)
  <2>4. x \in Nat /\ x <= n /\ y \in Nat /\ y <= n
    <3> HIDE DEF n
    <3>1. n \in Nat
      BY <2>1 DEF n
    <3> QED BY <2>3, <3>1, PartBound
  <2>5. x + y <= n
    <3>1. n \in Nat
      BY <2>1
    <3> HIDE DEF n, x, y
    <3>2. n * ProtocolRate \in Nat /\ n * LiquidatorRate \in Nat
      BY <2>3, <3>1, ProductType
    <3>3. x * MaxRatio <= n * ProtocolRate /\ y * MaxRatio <= n * LiquidatorRate
      <4> DEFINE u == n * ProtocolRate
                 v == n * LiquidatorRate
      <4>1. u \in Nat /\ v \in Nat /\ x = u \div MaxRatio /\ y = v \div MaxRatio
        BY <3>2 DEF x, y, Part
      <4> HIDE DEF u, v
      <4>2. x * MaxRatio <= u /\ y * MaxRatio <= v
        BY <2>3, <4>1, Quotient
      <4> QED BY <4>2 DEF u, v
    <3>4. n * ProtocolRate + n * LiquidatorRate = n * (ProtocolRate + LiquidatorRate)
      BY <2>3, <3>1
    <3>5. n * (ProtocolRate + LiquidatorRate) <= n * MaxRatio
      <4> DEFINE w == ProtocolRate + LiquidatorRate
      <4>1. w \in Nat /\ w <= MaxRatio
        BY <2>3
      <4> HIDE DEF w
      <4>2. w * n <= MaxRatio * n
        BY <2>3, <3>1, <4>1, ProductMonotone
      <4>3. w * n = n * w /\ MaxRatio * n = n * MaxRatio
        BY <2>3, <3>1, <4>1
      <4> QED BY <4>2, <4>3 DEF w
    <3>6. (x + y) * MaxRatio = x * MaxRatio + y * MaxRatio
      BY <2>3, <2>4
    <3>7. x * MaxRatio \in Nat /\ y * MaxRatio \in Nat /\ n * MaxRatio \in Nat
      BY <2>3, <2>4, <3>1, ProductType
    <3>8. (x + y) * MaxRatio <= n * MaxRatio
      BY <3>2, <3>3, <3>4, <3>5, <3>6, <3>7
    <3>9. x + y \in Nat
      BY <2>4
    <3> DEFINE z == x + y
    <3>10. z \in Nat /\ z * MaxRatio <= n * MaxRatio
      BY <3>8, <3>9
    <3> HIDE DEF z
    <3>11. z <= n
      BY <2>3, <3>1, <3>10, ProductCancel
    <3> QED BY <3>11 DEF z
  <2>6. ToOwner(g)[k] = x
    BY <2>2
  <2>7. ToLiquidator(g)[k] = n - x \/ ToLiquidator(g)[k] = y
    BY <2>2
  <2>8. ToTrader(g)[k] = n - ToOwner(g)[k] - ToLiquidator(g)[k] /\ n \in Nat /\ n = g[k]
    BY <2>1, <2>2
  <2> HIDE DEF n, x, y
  <2> QED BY <2>4, <2>5, <2>6, <2>7, <2>8
<1>3. ToOwner(g) \in Benefits /\ ToLiquidator(g) \in Benefits /\ ToTrader(g) \in Benefits
  <2>1. /\ ToOwner(g) = [k \in {"c", "d", "p"} |-> ToOwner(g)[k]]
        /\ ToLiquidator(g) = [k \in {"c", "d", "p"} |-> ToLiquidator(g)[k]]
        /\ ToTrader(g) = [k \in {"c", "d", "p"} |-> ToTrader(g)[k]]
    BY <1>1 DEF ToOwner, ToLiquidator, ToTrader
  <2> QED BY <1>2, <2>1, TableOfBenefits
<1>4. ASSUME NEW pos, NEW t
      PROVE  Gift(pos, ToOwner(g), t) + Gift(pos, ToLiquidator(g), t)
                 + Gift(pos, ToTrader(g), t) = Gift(pos, g, t)
  <2> DEFINE o == ToOwner(g)
             l == ToLiquidator(g)
             r == ToTrader(g)
  <2>1. /\ o.c \in Nat /\ o.d \in Nat /\ o.p \in Nat /\ l.c \in Nat /\ l.d \in Nat /\ l.p \in Nat
        /\ r.c \in Nat /\ r.d \in Nat /\ r.p \in Nat
        /\ o.c + l.c + r.c = g.c /\ o.d + l.d + r.d = g.d /\ o.p + l.p + r.p = g.p
    BY <1>2
  <2> HIDE DEF o, l, r
  <2>2. Gift(pos, o, t) + Gift(pos, l, t) + Gift(pos, r, t) = Gift(pos, g, t)
    BY <1>1, <2>1 DEF Gift
  <2> QED BY <2>2 DEF o, l, r
<1> QED BY <1>3, <1>4

\* Nobody is handed more than the benefits, and they are handed out whole unless
\* an account that is saved twice loses the first part.
LEMMA HandedOutEntries ==
  ASSUME Inv, NEW pos, pos.account \in Traders, NEW op, NEW by \in Traders \cup Keepers,
         op = "liquidate" => by # pos.account,
         NEW g \in Benefits
  PROVE  /\ HandedOut(pos, op, by, g) \in SharesTable
         /\ \A t \in Tokens :
               /\ Entries(supplied, HandedOut(pos, op, by, g), t)
                     <= Entries(supplied, margin, t) + Gift(pos, g, t)
               /\ ~MeetsItself(pos, op, by) =>
                     Entries(supplied, HandedOut(pos, op, by, g), t)
                        = Entries(supplied, margin, t) + Gift(pos, g, t)
<1> DEFINE a == pos.account
           out == HandedOut(pos, op, by, g)
           Apart == ~MeetsItself(pos, op, by)
<1>1. /\ a \in Accounts /\ by \in Accounts /\ Owner \in Accounts
      /\ op = "liquidate" /\ Apart => Owner # a /\ Owner # by
      /\ op = "forceclose" /\ Apart => Owner # a
  BY MarginAccountsAssumption DEF MeetsItself
<1> HIDE DEF Apart
<1>2. supplied \in SharesTable /\ margin \in SharesTable
  BY InvFields
<1>3. \A t \in Tokens : \A b \in Accounts : margin[b][t] \in Nat
  BY <1>2 DEF SharesTable
<1>4. CASE op = "liquidate"
  <2> DEFINE o  == ToOwner(g)
             l  == ToLiquidator(g)
             tr == ToTrader(g)
             m1 == [margin EXCEPT ![Owner] = With(Owner, pos, o)]
             m2 == [m1 EXCEPT ![by] = With(by, pos, l)]
             m3 == [m2 EXCEPT ![a] = With(a, pos, tr)]
  <2>1. out = m3
    BY <1>4 DEF HandedOut
  <2>2. o \in Benefits /\ l \in Benefits /\ tr \in Benefits
    BY SplitBenefits
  <2>3. \A t \in Tokens : Gift(pos, o, t) + Gift(pos, l, t) + Gift(pos, tr, t) = Gift(pos, g, t)
    BY SplitBenefits
  <2> HIDE DEF o, l, tr
  <2>4. /\ With(Owner, pos, o) \in [Tokens -> Nat] /\ With(by, pos, l) \in [Tokens -> Nat]
        /\ With(a, pos, tr) \in [Tokens -> Nat]
        /\ \A t \in Tokens : /\ With(Owner, pos, o)[t] = margin[Owner][t] + Gift(pos, o, t)
                             /\ With(by, pos, l)[t] = margin[by][t] + Gift(pos, l, t)
                             /\ With(a, pos, tr)[t] = margin[a][t] + Gift(pos, tr, t)
    BY <1>1, <1>2, <2>2, WithType
  <2> DEFINE r1 == With(Owner, pos, o)
             r2 == With(by, pos, l)
             r3 == With(a, pos, tr)
  <2> HIDE DEF r1, r2, r3, a
  <2>5. /\ m1 = [margin EXCEPT ![Owner] = r1] /\ m2 = [m1 EXCEPT ![by] = r2]
        /\ m3 = [m2 EXCEPT ![a] = r3]
    BY DEF r1, r2, r3
  <2> HIDE DEF m1, m2, m3
  <2>6. /\ r1 \in [Tokens -> Nat] /\ r2 \in [Tokens -> Nat] /\ r3 \in [Tokens -> Nat]
    BY <2>4 DEF r1, r2, r3
  <2>7. m1 \in SharesTable /\ m2 \in SharesTable /\ m3 \in SharesTable
    BY ONLY <1>1, <1>2, <2>5, <2>6 DEF SharesTable
  <2>9. /\ m1[Owner] = r1 /\ \A b \in Accounts \ {Owner} : m1[b] = margin[b]
        /\ m2[by] = r2 /\ \A b \in Accounts \ {by} : m2[b] = m1[b]
        /\ m3[a] = r3 /\ \A b \in Accounts \ {a} : m3[b] = m2[b]
    BY ONLY <1>1, <1>2, <2>5, <2>7 DEF SharesTable, a
  <2>8. ASSUME NEW t \in Tokens
        PROVE  /\ Entries(supplied, m3, t) <= Entries(supplied, margin, t) + Gift(pos, g, t)
               /\ Apart => Entries(supplied, m3, t)
                                   = Entries(supplied, margin, t) + Gift(pos, g, t)
    <3>0. t \in Tokens
      OBVIOUS
    <3> DEFINE x == Gift(pos, o, t)
               y == Gift(pos, l, t)
               z == Gift(pos, tr, t)
    <3>1. x \in Nat /\ y \in Nat /\ z \in Nat /\ x + y + z = Gift(pos, g, t)
      BY <2>2, <2>3, GiftType
    <3>2. /\ r1[t] = margin[Owner][t] + x /\ r2[t] = margin[by][t] + y /\ r3[t] = margin[a][t] + z
      BY <2>4 DEF r1, r2, r3
    <3> HIDE DEF x, y, z
    <3>3. \A b \in Accounts : margin[b][t] <= m1[b][t]
      <4> SUFFICES ASSUME NEW b \in Accounts PROVE margin[b][t] <= m1[b][t]
        OBVIOUS
      <4>1. margin[b][t] \in Nat /\ margin[Owner][t] \in Nat
        BY <1>1, <1>3
      <4>2. m1[b] = IF b = Owner THEN r1 ELSE margin[b]
        BY <1>1, <1>2, <2>5 DEF SharesTable
      <4> QED BY <3>1, <3>2, <4>1, <4>2
    <3>4. \A b \in Accounts : m1[b][t] \in Nat /\ m2[b][t] \in Nat
      BY <2>7 DEF SharesTable
    <3>5. \A b \in Accounts : margin[b][t] <= m2[b][t]
      <4> SUFFICES ASSUME NEW b \in Accounts PROVE margin[b][t] <= m2[b][t]
        OBVIOUS
      <4>1. margin[b][t] \in Nat /\ margin[by][t] \in Nat /\ margin[b][t] <= m1[b][t]
        BY <1>1, <1>3, <3>3
      <4>2. m2[b] = IF b = by THEN r2 ELSE m1[b]
        BY <1>1, <2>5, <2>7 DEF SharesTable
      <4> QED BY <3>1, <3>2, <4>1, <4>2
    <3>6. /\ margin[Owner][t] <= margin[Owner][t] /\ margin[by][t] <= m1[by][t]
          /\ margin[a][t] <= m2[a][t]
      BY <1>1, <1>3, <3>3, <3>5 DEF a
    <3>12. margin[Owner][t] \in Nat /\ margin[by][t] \in Nat /\ margin[a][t] \in Nat
      BY <1>1, <1>3 DEF a
    <3>7. a \in Accounts
      BY <1>1 DEF a
    <3>a. /\ m1[Owner][t] = margin[Owner][t] + x
          /\ m2[by][t] = margin[by][t] + y
      BY ONLY <2>9, <3>2
    <3>b. /\ \A b \in Accounts \ {Owner} : m1[b] = margin[b]
          /\ Owner \in Accounts /\ margin[Owner][t] <= margin[Owner][t]
      BY ONLY <1>1, <2>9, <3>6
    <3>8. Entries(supplied, m1, t) = Entries(supplied, margin, t) + x
      BY ONLY <1>2, <2>7, <3>1, <3>12, <3>0, <3>a, <3>b, HandOver
    <3>c. /\ \A b \in Accounts \ {by} : m2[b] = m1[b]
          /\ by \in Accounts /\ margin[by][t] <= m1[by][t]
      BY ONLY <1>1, <2>9, <3>6
    <3>9. /\ Entries(supplied, m2, t) <= Entries(supplied, m1, t) + y
          /\ m1[by][t] = margin[by][t] => Entries(supplied, m2, t) = Entries(supplied, m1, t) + y
      BY ONLY <1>2, <2>7, <3>1, <3>12, <3>0, <3>a, <3>c, HandOver
    <3>10. /\ Entries(supplied, m3, t) <= Entries(supplied, m2, t) + z
           /\ m2[a][t] = margin[a][t] => Entries(supplied, m3, t) = Entries(supplied, m2, t) + z
      <4>1. m3[a][t] = margin[a][t] + z
        BY ONLY <2>9, <3>2
      <4>2. \A b \in Accounts \ {a} : m3[b] = m2[b]
        BY ONLY <2>9
      <4>3. margin[a][t] <= m2[a][t]
        BY ONLY <3>6
      <4> QED BY ONLY <3>7, <1>2, <2>7, <3>1, <3>12, <3>0, <4>1, <4>2, <4>3, HandOver
    <3>11. Apart => m1[by] = margin[by] /\ m2[a] = margin[a]
      <4>1. by # a /\ (Apart => Owner # a /\ Owner # by)
        BY <1>1, <1>4 DEF a
      <4>2. m2[a] = m1[a]
        BY <3>7, <2>5, <2>7, <4>1 DEF SharesTable
      <4>3. Apart => m1[by] = margin[by] /\ m1[a] = margin[a]
        BY <1>1, <1>2, <3>7, <2>5, <4>1 DEF SharesTable
      <4> QED BY <4>2, <4>3
    <3>13. /\ Entries(supplied, m1, t) \in Nat /\ Entries(supplied, m2, t) \in Nat
           /\ Entries(supplied, m3, t) \in Nat /\ Entries(supplied, margin, t) \in Nat
      BY <1>2, <2>7, EntriesType DEF SharesTable
    <3> QED BY ONLY <3>1, <3>8, <3>9, <3>10, <3>11, <3>13
  <2> QED BY <2>1, <2>7, <2>8 DEF Apart
<1>5. CASE op = "forceclose"
  <2> DEFINE m1 == [margin EXCEPT ![Owner] = With(Owner, pos, g)]
             m2 == [m1 EXCEPT ![a] = With(a, pos, Nothing)]
  <2>1. out = m2
    BY <1>5 DEF HandedOut
  <2>2. Nothing \in Benefits
    BY DEF Nothing, Benefits
  <2>3. \A t \in Tokens : Gift(pos, Nothing, t) = 0
    BY DEF Gift, Nothing
  <2>4. /\ With(Owner, pos, g) \in [Tokens -> Nat] /\ With(a, pos, Nothing) \in [Tokens -> Nat]
        /\ \A t \in Tokens : /\ With(Owner, pos, g)[t] = margin[Owner][t] + Gift(pos, g, t)
                             /\ With(a, pos, Nothing)[t] = margin[a][t] + Gift(pos, Nothing, t)
    BY <1>1, <1>2, <2>2, WithType
  <2> DEFINE r1 == With(Owner, pos, g)
             r2 == With(a, pos, Nothing)
  <2> HIDE DEF r1, r2, a
  <2>5. m1 = [margin EXCEPT ![Owner] = r1] /\ m2 = [m1 EXCEPT ![a] = r2]
    BY DEF r1, r2
  <2> HIDE DEF m1, m2
  <2>6. r1 \in [Tokens -> Nat] /\ r2 \in [Tokens -> Nat]
    BY <2>4 DEF r1, r2
  <2>a. a \in Accounts
    BY <1>1 DEF a
  <2>7. m1 \in SharesTable /\ m2 \in SharesTable
    BY ONLY <1>1, <1>2, <2>5, <2>6, <2>a DEF SharesTable
  <2>9. /\ m1[Owner] = r1 /\ \A b \in Accounts \ {Owner} : m1[b] = margin[b]
        /\ m2[a] = r2 /\ \A b \in Accounts \ {a} : m2[b] = m1[b]
    BY ONLY <1>1, <1>2, <2>5, <2>7 DEF SharesTable, a
  <2>8. ASSUME NEW t \in Tokens
        PROVE  /\ Entries(supplied, m2, t) <= Entries(supplied, margin, t) + Gift(pos, g, t)
               /\ Apart => Entries(supplied, m2, t)
                                   = Entries(supplied, margin, t) + Gift(pos, g, t)
    <3>0. t \in Tokens
      OBVIOUS
    <3> DEFINE x == Gift(pos, g, t)
    <3>1. x \in Nat /\ 0 \in Nat
      BY GiftType
    <3>2. r1[t] = margin[Owner][t] + x /\ r2[t] = margin[a][t] + 0
      BY <2>3, <2>4 DEF r1, r2
    <3>3. margin[a][t] \in Nat /\ margin[Owner][t] \in Nat
      BY <1>1, <1>3, <2>a
    <3>4. m1[a] = IF a = Owner THEN r1 ELSE margin[a]
      BY <1>2, <2>5, <2>a DEF SharesTable
    <3> HIDE DEF x
    <3>5. /\ margin[Owner][t] <= margin[Owner][t] /\ margin[a][t] <= m1[a][t]
          /\ Apart => m1[a][t] = margin[a][t]
      <4>1. Apart => Owner # a
        BY <1>1, <1>5 DEF a
      <4> QED BY <3>1, <3>2, <3>3, <3>4, <4>1
    <3>8. Entries(supplied, m1, t) = Entries(supplied, margin, t) + x
      BY ONLY <1>1, <1>2, <2>7, <2>9, <3>1, <3>2, <3>3, <3>5, <3>0, HandOver
    <3>9. /\ Entries(supplied, m2, t) <= Entries(supplied, m1, t) + 0
          /\ m1[a][t] = margin[a][t] => Entries(supplied, m2, t) = Entries(supplied, m1, t) + 0
      BY ONLY <1>2, <2>a, <2>7, <2>9, <3>1, <3>2, <3>3, <3>5, <3>0, HandOver
    <3>12. /\ Entries(supplied, m1, t) \in Nat /\ Entries(supplied, m2, t) \in Nat
           /\ Entries(supplied, margin, t) \in Nat
      BY <1>2, <2>7, EntriesType DEF SharesTable
    <3>13. /\ Entries(supplied, m2, t) <= Entries(supplied, margin, t) + x
           /\ Apart => Entries(supplied, m2, t) = Entries(supplied, margin, t) + x
      BY ONLY <3>1, <3>5, <3>8, <3>9, <3>12
    <3> QED BY <3>13 DEF x
  <2> QED BY <2>1, <2>7, <2>8 DEF Apart
<1>6. CASE op # "liquidate" /\ op # "forceclose"
  <2> DEFINE m1 == [margin EXCEPT ![a] = With(a, pos, g)]
  <2>1. out = m1
    BY <1>6 DEF HandedOut
  <2>4. /\ With(a, pos, g) \in [Tokens -> Nat]
        /\ \A t \in Tokens : With(a, pos, g)[t] = margin[a][t] + Gift(pos, g, t)
    BY <1>1, <1>2, WithType
  <2> DEFINE r1 == With(a, pos, g)
  <2> HIDE DEF r1, a
  <2>5. m1 = [margin EXCEPT ![a] = r1]
    BY DEF r1
  <2> HIDE DEF m1
  <2>6. r1 \in [Tokens -> Nat]
    BY <2>4 DEF r1
  <2>a. a \in Accounts
    BY <1>1 DEF a
  <2>7. m1 \in SharesTable
    BY ONLY <1>2, <2>5, <2>6, <2>a DEF SharesTable
  <2>b. m1[a] = r1 /\ \A b \in Accounts \ {a} : m1[b] = margin[b]
    BY ONLY <2>a, <1>2, <2>5, <2>7 DEF SharesTable, a
  <2>8. ASSUME NEW t \in Tokens
        PROVE  Entries(supplied, m1, t) = Entries(supplied, margin, t) + Gift(pos, g, t)
    <3>0. t \in Tokens
      OBVIOUS
    <3> DEFINE x == Gift(pos, g, t)
    <3>1. x \in Nat
      BY GiftType
    <3>2. r1[t] = margin[a][t] + x
      BY <2>4 DEF r1
    <3>3. margin[a][t] \in Nat /\ margin[a][t] <= margin[a][t]
      BY <1>3, <2>a
    <3> HIDE DEF x
    <3>8. Entries(supplied, m1, t) = Entries(supplied, margin, t) + x
      BY ONLY <1>2, <2>a, <2>7, <2>b, <3>1, <3>2, <3>3, <3>0, HandOver
    <3> QED BY <3>8 DEF x
  <2>9. \A t \in Tokens : Entries(supplied, margin, t) \in Nat /\ Gift(pos, g, t) \in Nat
    BY <1>2, EntriesType, GiftType DEF SharesTable
  <2> QED BY <2>1, <2>7, <2>8, <2>9
<1> QED BY <1>4, <1>5, <1>6 DEF Apart

-----------------------------------------------------------------------------
(***************************************************************************)
(* The handler's copies, saved.                                            *)
(***************************************************************************)
\* What settling the debt with `out` tokens leaves of the position and of its
\* two assets.
SettledSo(pos, out, st) ==
    LET d     == asset[pos.d]
        p     == asset[pos.p]
        d2    == Normalized(st.d)
        p2    == Normalized(st.p)
        ended == st.pos.d_shares = 0
    IN  /\ st.pos \in PositionType
        /\ st.pos.account = pos.account /\ st.pos.c = pos.c /\ st.pos.d = pos.d
        /\ st.pos.p = pos.p /\ st.pos.p_amount = pos.p_amount
        /\ st.pos.uahpi_at_open = pos.uahpi_at_open /\ ~st.pos.is_locking
        /\ pos.c # pos.d => st.pos.c_shares = pos.c_shares
        /\ st.uncovered \in Nat
        /\ st.benefits \in Benefits
        /\ ended => st.benefits.c = st.pos.c_shares
        /\ ~ended => st.benefits.c = 0
        /\ d2 \in AssetType /\ SupplySound(d2) /\ SoundPool(d2.margin_debt)
        /\ d2.pending = d.pending /\ d2.position = d.position /\ d2.hp = d.hp
        /\ d2.margin_debt.shares = d.margin_debt.shares - pos.d_shares + st.pos.d_shares
        /\ d2.supplied.shares
              = d.supplied.shares + st.benefits.d + st.pos.c_shares - pos.c_shares
        /\ Worth(d2) + st.uncovered >= Worth(d) - out
        /\ PriceNotLower(d.supplied, d2.supplied)
        /\ p2 \in AssetType /\ SupplySound(p2) /\ p2.margin_debt = p.margin_debt
        /\ p2.pending = p.pending /\ p2.hp = p.hp
        /\ ended => p2.position = p.position - pos.p_amount
        /\ ~ended => p2.position = p.position
        /\ p2.supplied.shares = p.supplied.shares + st.benefits.p
        /\ Worth(p2) = Worth(p)
        /\ PriceNotLower(p.supplied, p2.supplied)

\* The handler of an exchange's output settles so (on_decrease_trade_return).
LEMMA SettledAssets ==
  ASSUME Inv, NEW i \in PosIds, position[i] # NoPosition,
         trade[i] # NoTrade => trade[i].op # "open",
         NEW op, NEW out \in Nat, CanSettle(position[i], op, out)
  PROVE  SettledSo(position[i], out, Settling(position[i], op, out))
<1> DEFINE pos == position[i]
           d   == asset[pos.d]
           p   == asset[pos.p]
           st1 == Covered(op, Topped(op, Repaid(pos, Repayment(pos, out))))
           st  == Closed(st1)
           d2  == Normalized(st.d)
           p2  == Normalized(st.p)
<1>1. Midway(pos, out, st1)
  BY SettledMidway
<1>2. Settling(pos, op, out) = st
  BY DEF Settling
<1>3. PoolInvariant(d2.supplied) /\ PoolInvariant(p2.supplied)
  BY <1>2 DEF CanSettle, CanSaveAll, CanSave
<1> HIDE DEF st1
<1>4. /\ st.pos = st1.pos /\ st.d = st1.d /\ st.uncovered = st1.uncovered
      /\ st.benefits \in Benefits /\ st.benefits.d = st1.benefits.d
      /\ st.benefits.c = IF st1.pos.d_shares = 0 THEN st1.pos.c_shares ELSE 0
      /\ st.p \in AssetType
      /\ st.p.pending = p.pending /\ st.p.margin_debt = p.margin_debt
      /\ st.p.hp = p.hp
      /\ st.p.position = p.position - (IF st1.pos.d_shares = 0 THEN pos.p_amount ELSE 0)
      /\ st.p.supplied.shares = p.supplied.shares + st.benefits.p
      /\ Worth(st.p) = Worth(p)
      /\ PriceNotLower(p.supplied, st.p.supplied)
  BY <1>1, ClosedFacts
<1> HIDE DEF st
<1>5. /\ st1 \in SettlingType
      /\ st1.pos.account = pos.account /\ st1.pos.c = pos.c /\ st1.pos.d = pos.d
      /\ st1.pos.p = pos.p /\ st1.pos.p_amount = pos.p_amount
      /\ st1.pos.uahpi_at_open = pos.uahpi_at_open /\ ~st1.pos.is_locking
      /\ pos.c # pos.d => st1.pos.c_shares = pos.c_shares
      /\ SoundPool(st1.d.margin_debt)
      /\ st1.d.pending = d.pending /\ st1.d.position = d.position
      /\ st1.d.hp = d.hp
      /\ st1.d.margin_debt.shares - st1.pos.d_shares = d.margin_debt.shares - pos.d_shares
      /\ st1.d.supplied.shares - st1.benefits.d - st1.pos.c_shares
            = d.supplied.shares - pos.c_shares
      /\ Worth(st1.d) + st1.uncovered >= Worth(d) - out
      /\ PriceNotLower(d.supplied, st1.d.supplied)
  BY <1>1 DEF Midway
<1>6. /\ d \in AssetType /\ p \in AssetType
      /\ d.supplied \in PoolType /\ p.supplied \in PoolType
      /\ d.supplied.shares \in Nat /\ d.margin_debt.shares \in Nat /\ p.position \in Nat
      /\ pos.c_shares \in Nat /\ pos.d_shares \in Nat
  BY PositionFields, InvFields, AssetNumbers
<1>7. /\ st.pos \in PositionType /\ st.d \in AssetType /\ st.uncovered \in Nat
      /\ st.pos.c_shares \in Nat /\ st.pos.d_shares \in Nat
  BY <1>4, <1>5 DEF SettlingType, PositionType
<1> HIDE DEF pos, d, p
<1>8. /\ d2 \in AssetType /\ SupplySound(d2) /\ SameDebt(st.d, d2)
      /\ d2.supplied.shares = st.d.supplied.shares /\ Worth(d2) = Worth(st.d)
      /\ PriceNotLower(d.supplied, d2.supplied)
  BY <1>3, <1>4, <1>5, <1>6, <1>7, NormalizedAsset, NormalizedPrice
<1>9. /\ p2 \in AssetType /\ SupplySound(p2) /\ SameDebt(st.p, p2)
      /\ p2.supplied.shares = st.p.supplied.shares /\ Worth(p2) = Worth(st.p)
      /\ PriceNotLower(p.supplied, p2.supplied)
  BY <1>3, <1>4, <1>6, NormalizedAsset, NormalizedPrice
<1>10. /\ st.d.supplied.shares \in Nat /\ st.d.margin_debt.shares \in Nat
       /\ st.benefits.d \in Nat
  BY <1>4, <1>7, AssetNumbers DEF Benefits
<1> HIDE DEF d2, p2
<1>11. /\ d2.margin_debt.shares = d.margin_debt.shares - pos.d_shares + st.pos.d_shares
       /\ d2.supplied.shares = d.supplied.shares + st.benefits.d + st.pos.c_shares - pos.c_shares
  BY <1>4, <1>5, <1>6, <1>7, <1>8, <1>10 DEF SameDebt
<1>12. /\ d2.pending = d.pending /\ d2.position = d.position /\ d2.hp = d.hp
       /\ SoundPool(d2.margin_debt) /\ Worth(d2) + st.uncovered >= Worth(d) - out
  BY <1>4, <1>5, <1>8 DEF SameDebt
<1>13. /\ p2.margin_debt = p.margin_debt /\ p2.pending = p.pending /\ p2.hp = p.hp
       /\ st.pos.d_shares = 0 => p2.position = p.position - pos.p_amount
       /\ st.pos.d_shares # 0 => p2.position = p.position
       /\ p2.supplied.shares = p.supplied.shares + st.benefits.p
       /\ Worth(p2) = Worth(p)
  BY <1>4, <1>6, <1>9 DEF SameDebt
<1>14. /\ st.pos.d_shares = 0 => st.benefits.c = st.pos.c_shares
       /\ st.pos.d_shares # 0 => st.benefits.c = 0
  BY <1>4
<1>15. /\ st.pos.account = pos.account /\ st.pos.c = pos.c /\ st.pos.d = pos.d
       /\ st.pos.p = pos.p /\ st.pos.p_amount = pos.p_amount
       /\ st.pos.uahpi_at_open = pos.uahpi_at_open /\ ~st.pos.is_locking
       /\ pos.c # pos.d => st.pos.c_shares = pos.c_shares
  BY <1>4, <1>5
<1>16. SettledSo(pos, out, st)
  BY <1>4, <1>7, <1>8, <1>9, <1>11, <1>12, <1>13, <1>14, <1>15 DEF SettledSo, d2, p2, d, p
<1> QED BY <1>2, <1>16 DEF pos

\* The record that remains of a position whose debt is not all paid fits.
LEMMA SettledFits ==
  ASSUME Inv, NEW i \in PosIds, trade[i] # NoTrade,
         NEW out, NEW st, SettledSo(position[i], out, st),
         position'[i] = IF st.pos.d_shares = 0 THEN NoPosition ELSE st.pos,
         trade'[i] = NoTrade, i \notin acting',
         stop'[i] # NoStop => i \in opened', opened' = opened,
         \A t \in Tokens : asset'[t].hp = asset[t].hp
  PROVE  Fits(i)'
<1> DEFINE pos == position[i]
<1>1. pos # NoPosition /\ i \in opened
  BY TradeFields
<1>2. /\ pos.account \in Traders /\ pos.d \in Tokens /\ pos.d # pos.p
      /\ pos.c \in {pos.d, pos.p} /\ pos.uahpi_at_open <= asset[pos.d].hp
      /\ \E pair \in Pairs : pos.d = pair.d
  BY <1>1, PositionFields DEF PositionFits
<1>3. /\ st.pos \in PositionType
      /\ st.pos.account = pos.account /\ st.pos.c = pos.c /\ st.pos.d = pos.d
      /\ st.pos.p = pos.p /\ st.pos.uahpi_at_open = pos.uahpi_at_open /\ ~st.pos.is_locking
  BY DEF SettledSo
<1> HIDE DEF pos
<1>4. CASE st.pos.d_shares = 0
  BY <1>4 DEF Fits
<1>5. CASE st.pos.d_shares # 0
  <2>1. position'[i] = st.pos
    BY <1>5
  <2>2. st.pos.d_shares > 0
    BY <1>3, <1>5 DEF PositionType
  <2>3. asset'[pos.d].hp = asset[pos.d].hp
    BY <1>2
  <2>4. PositionFits(i)'
    BY <1>1, <1>2, <1>3, <2>1, <2>2, <2>3 DEF PositionFits
  <2> QED BY <1>3, <2>1, <2>4 DEF Fits
<1> QED BY <1>4, <1>5

\* The output of the exchange pays debt; what is left over of a position that
\* ends, and the fee of its stop, is handed out.
LEMMA SettledInv ==
  ASSUME Inv, NEW i \in PosIds, trade[i] # NoTrade, trade[i].op # "open",
         trade[i].stage # "sent", NEW out \in Nat,
         CanSettle(position[i], trade[i].op, out), Returned(i, out),
         acting' = acting \ {i}, trade' = [trade EXCEPT ![i] = NoTrade],
         cash' = [cash EXCEPT ![position[i].d] = @ + out],
         UNCHANGED <<supplied, opened, price>>
  PROVE  Stepped /\ (FeeApart => SuppliersKept)
<1> DEFINE pos == position[i]
           tr  == trade[i]
           st  == Settling(pos, tr.op, out)
           d   == pos.d
           p   == pos.p
           c   == pos.c
           d2  == Normalized(st.d)
           p2  == Normalized(st.p)
           ended  == st.pos.d_shares = 0
           fee    == IF ended THEN stop[i] ELSE NoStop
           new    == IF ended THEN NoPosition ELSE st.pos
           assets == [asset EXCEPT ![d] = d2, ![p] = p2]
<1>1. /\ tr \in TradeType /\ pos # NoPosition /\ i \in opened /\ TradeFits(i)
      /\ tr.by \in Accounts
  BY TradeFields
<1>2. /\ pos.account \in Accounts /\ pos.account \in Traders
      /\ c \in Tokens /\ d \in Tokens /\ p \in Tokens /\ d # p /\ (c = d \/ c = p)
      /\ pos.c_shares \in Nat /\ pos.d_shares \in Nat /\ pos.p_amount \in Nat
      /\ \E pair \in Pairs : d = pair.d
  BY <1>1, PositionFields DEF PositionFits
<1>3. /\ tr.by \in Traders \cup Keepers /\ (tr.op = "liquidate" => tr.by # pos.account)
  BY <1>1 DEF TradeFits
<1>4. TypeOK /\ AllSound /\ stop[i] \in StopType \cup {NoStop} /\ asset \in [Tokens -> AssetType]
  BY DEF Inv, TypeOK
<1>5. SettledSo(pos, out, st)
  BY <1>1, SettledAssets
<1>0. PICK left \in BOOLEAN : SaveAll(i, st, left)
  BY DEF Returned
<1> DEFINE how    == IF left /\ tr.op = "liquidate" THEN "forceclose" ELSE tr.op
           shares == HandedOut(pos, how, tr.by, st.benefits)
           a      == IF tr.op = "stop" /\ ~left THEN tr.by ELSE pos.account
<1>6. /\ asset' = FeeBackAssets(assets, fee)
      /\ margin' = FeeBackShares(assets, shares, a, fee)
      /\ position' = [position EXCEPT ![i] = new]
      /\ stop' = [stop EXCEPT ![i] = StopAfter(i, ended)]
      /\ debts' = [debts EXCEPT ![d] = @ + st.uncovered]
  BY <1>0 DEF SaveAll, FeeBackAssets, FeeBackShares
<1>7. StopAfter(i, ended) = IF ended THEN NoStop ELSE stop[i]
  BY DEF StopAfter
<1> HIDE DEF st
<1>8. /\ st.pos \in PositionType
      /\ st.pos.account = pos.account /\ st.pos.c = c /\ st.pos.d = d
      /\ st.pos.p = p /\ st.pos.p_amount = pos.p_amount
      /\ c # d => st.pos.c_shares = pos.c_shares
      /\ st.uncovered \in Nat
      /\ st.benefits \in Benefits
      /\ ended => st.benefits.c = st.pos.c_shares
      /\ ~ended => st.benefits.c = 0
  BY <1>5 DEF SettledSo
<1>9. /\ d2 \in AssetType /\ SupplySound(d2) /\ SoundPool(d2.margin_debt)
      /\ d2.pending = asset[d].pending /\ d2.position = asset[d].position
      /\ d2.hp = asset[d].hp
      /\ d2.margin_debt.shares = asset[d].margin_debt.shares - pos.d_shares + st.pos.d_shares
      /\ d2.supplied.shares
            = asset[d].supplied.shares + st.benefits.d + st.pos.c_shares - pos.c_shares
      /\ Worth(d2) + st.uncovered >= Worth(asset[d]) - out
      /\ PriceNotLower(asset[d].supplied, d2.supplied)
  BY <1>5 DEF SettledSo
<1>10. /\ p2 \in AssetType /\ SupplySound(p2) /\ p2.margin_debt = asset[p].margin_debt
       /\ p2.pending = asset[p].pending /\ p2.hp = asset[p].hp
       /\ ended => p2.position = asset[p].position - pos.p_amount
       /\ ~ended => p2.position = asset[p].position
       /\ p2.supplied.shares = asset[p].supplied.shares + st.benefits.p
       /\ Worth(p2) = Worth(asset[p])
       /\ PriceNotLower(asset[p].supplied, p2.supplied)
  BY <1>5 DEF SettledSo
<1>11. /\ st.pos.c_shares \in Nat /\ st.pos.d_shares \in Nat
       /\ st.benefits.c \in Nat /\ st.benefits.d \in Nat /\ st.benefits.p \in Nat
  BY <1>8 DEF PositionType, Benefits
<1>12. st.pos # NoPosition
  BY <1>8, NoRecordsAssumption
<1> HIDE DEF d2, p2
<1>13. /\ assets \in [Tokens -> AssetType] /\ assets[d] = d2 /\ assets[p] = p2
       /\ \A t \in Tokens \ {d, p} : assets[t] = asset[t]
  BY <1>2, <1>4, <1>9, <1>10
<1>14. \A t \in Tokens : /\ asset[t] \in AssetType /\ asset[t].hp \in Nat
                         /\ SupplySound(asset[t]) /\ SoundPool(asset[t].margin_debt)
                         /\ PriceNotLower(asset[t].supplied, asset[t].supplied)
  BY InvFields, AssetNumbers, NoSupplyChange DEF SupplyChange
<1>15. /\ shares \in SharesTable
       /\ \A t \in Tokens :
             /\ Entries(supplied, shares, t)
                   <= Entries(supplied, margin, t) + Gift(pos, st.benefits, t)
             /\ ~OwnerMeetsItself => Entries(supplied, shares, t)
                                        = Entries(supplied, margin, t) + Gift(pos, st.benefits, t)
  <2>1. how = "liquidate" => tr.by # pos.account
    BY <1>3
  <2>2. MeetsItself(pos, how, tr.by) => OwnerMeetsItself
    <3>1. i \in Traded /\ trade'[i] = NoTrade
      BY <1>4 DEF Traded, TypeOK
    <3>2. MeetsItself(pos, how, tr.by) => MeetsItself(pos, tr.op, tr.by)
      BY DEF MeetsItself
    <3> QED BY <3>1, <3>2 DEF OwnerMeetsItself
  <2> HIDE DEF how
  <2>3. /\ shares \in SharesTable
        /\ \A t \in Tokens :
              /\ Entries(supplied, shares, t)
                    <= Entries(supplied, margin, t) + Gift(pos, st.benefits, t)
              /\ ~MeetsItself(pos, how, tr.by) =>
                    Entries(supplied, shares, t)
                       = Entries(supplied, margin, t) + Gift(pos, st.benefits, t)
    BY <1>2, <1>3, <1>8, <2>1, HandedOutEntries
  <2> QED BY <2>2, <2>3
<1> HIDE DEF assets, shares
<1>16. \A t \in Tokens : SupplySound(assets[t])
  BY <1>9, <1>10, <1>13, <1>14
<1>17. a \in Accounts /\ fee \in StopType \cup {NoStop}
  BY <1>1, <1>2, <1>4
<1>18. /\ asset' \in [Tokens -> AssetType]
       /\ margin' \in SharesTable
       /\ \A t \in Tokens :
             /\ SupplySound(asset'[t]) /\ SameDebt(assets[t], asset'[t])
             /\ asset'[t].supplied.shares - assets[t].supplied.shares
                   = Entries(supplied, margin', t) - Entries(supplied, shares, t)
             /\ Worth(asset'[t]) = Worth(assets[t]) - FeeIn(fee, t)
             /\ t # StopFee.token => asset'[t] = assets[t]
             /\ PriceNotLower(assets[t].supplied, asset'[t].supplied)
  <2>1. supplied \in SharesTable
    BY InvFields
  <2> HIDE DEF a, fee
  <2> QED BY <1>6, <1>13, <1>15, <1>16, <1>17, <2>1, FeeBack
<1>19. /\ position'[i] = new /\ trade'[i] = NoTrade
       /\ stop'[i] = (IF ended THEN NoStop ELSE stop[i])
       /\ OnlyPosition(i)
  BY <1>4, <1>6, <1>7 DEF TypeOK, OnlyPosition
<1>20. /\ cash' \in [Tokens -> Nat] /\ cash'[d] = cash[d] + out
       /\ \A t \in Tokens \ {d} : cash'[t] = cash[t]
       /\ debts' \in [Tokens -> Nat] /\ debts'[d] = debts[d] + st.uncovered
       /\ \A t \in Tokens \ {d} : debts'[t] = debts[t]
  <2>1. cash \in [Tokens -> Nat] /\ debts \in [Tokens -> Nat]
    BY InvFields
  <2>2. cash[d] + out \in Nat /\ debts[d] + st.uncovered \in Nat
    BY <1>2, <1>8, <2>1
  <2> DEFINE u == st.uncovered
  <2> HIDE DEF d, u
  <2>3. cash' = [cash EXCEPT ![d] = cash[d] + out] /\ debts' = [debts EXCEPT ![d] = debts[d] + u]
    BY <1>6 DEF d, u
  <2> QED BY <1>2, <2>1, <2>2, <2>3 DEF u
<1>21. TypeOK'
  <2>1. acting' \subseteq PosIds /\ trade' \in [PosIds -> TradeType \cup {NoTrade}]
    BY <1>4 DEF TypeOK
  <2>2. new \in PositionType \cup {NoPosition}
    BY <1>8
  <2>3. position' \in [PosIds -> PositionType \cup {NoPosition}]
    <3> HIDE DEF new
    <3> QED BY <1>4, <1>6, <2>2 DEF TypeOK
  <2>4. stop' \in [PosIds -> StopType \cup {NoStop}]
    BY <1>4, <1>6, <1>7 DEF TypeOK
  <2> QED BY <1>4, <1>18, <1>20, <2>1, <2>3, <2>4 DEF TypeOK, SharesTable
<1>22. \A t \in Tokens : asset'[t].hp = asset[t].hp /\ SoundPool(asset'[t].margin_debt)
  <2> TAKE t \in Tokens
  <2>1. asset'[t].hp = assets[t].hp /\ asset'[t].margin_debt = assets[t].margin_debt
    BY <1>18 DEF SameDebt
  <2>2. assets[t].hp = asset[t].hp /\ SoundPool(assets[t].margin_debt)
    BY <1>2, <1>9, <1>10, <1>13, <1>14
  <2> QED BY <2>1, <2>2
<1>23. AllSound'
  BY <1>18, <1>22 DEF AllSound
<1>24. Touches(i)
  BY <1>14, <1>19, <1>22 DEF Touches
<1>25. Fits(i)'
  <2>1. position'[i] = IF st.pos.d_shares = 0 THEN NoPosition ELSE st.pos
    BY <1>19
  <2>2. i \notin acting' /\ i \in opened'
    BY <1>1
  <2> QED BY <1>5, <1>19, <1>22, <2>1, <2>2, SettledFits
<1>26. ASSUME NEW t \in Tokens
       PROVE  /\ assets[t].pending = asset[t].pending
              /\ assets[t].margin_debt.shares - asset[t].margin_debt.shares
                    = IF t = d THEN st.pos.d_shares - pos.d_shares ELSE 0
              /\ assets[t].position - asset[t].position
                    = IF t = p /\ ended THEN 0 - pos.p_amount ELSE 0
              /\ Gift(pos, st.benefits, t)
                    + (IF t = c /\ ~ended THEN st.pos.c_shares ELSE 0)
                    - (IF t = c THEN pos.c_shares ELSE 0)
                    = assets[t].supplied.shares - asset[t].supplied.shares
              /\ Worth(assets[t]) - Worth(asset[t]) + debts'[t] - debts[t] + cash'[t] - cash[t] >= 0
  <2>1. /\ asset[t].margin_debt.shares \in Nat /\ asset[t].position \in Nat
        /\ asset[t].supplied.shares \in Nat /\ Worth(asset[t]) \in Int
        /\ Worth(assets[t]) \in Int
        /\ cash[t] \in Nat /\ debts[t] \in Nat
    BY <1>13, <1>14, InvFields, AssetNumbers
  <2>2. /\ t # c /\ t # d /\ t # p => Gift(pos, st.benefits, t) = 0
        /\ t = d /\ c = d => Gift(pos, st.benefits, t) = st.benefits.c + st.benefits.d
        /\ t = d /\ c # d => Gift(pos, st.benefits, t) = st.benefits.d
        /\ t = p /\ c = p => Gift(pos, st.benefits, t) = st.benefits.c + st.benefits.p
        /\ t = p /\ c # p => Gift(pos, st.benefits, t) = st.benefits.p
    BY <1>2, <1>11 DEF Gift
  <2> HIDE DEF d, p, c, pos
  <2>3. CASE t = d
    <3>1. assets[t] = d2 /\ cash'[t] = cash[t] + out /\ debts'[t] = debts[t] + st.uncovered
      BY <1>13, <1>20, <2>3
    <3>2. Worth(d2) + st.uncovered >= Worth(asset[t]) - out
      BY <1>9, <2>3
    <3>3. Worth(assets[t]) - Worth(asset[t]) + debts'[t] - debts[t] + cash'[t] - cash[t] >= 0
      BY <1>8, <2>1, <3>1, <3>2
    <3>4. /\ assets[t].pending = asset[t].pending /\ assets[t].position - asset[t].position = 0
          /\ assets[t].margin_debt.shares - asset[t].margin_debt.shares
                = st.pos.d_shares - pos.d_shares
          /\ assets[t].supplied.shares - asset[t].supplied.shares
                = st.benefits.d + st.pos.c_shares - pos.c_shares
      BY <1>2, <1>9, <1>11, <2>1, <2>3, <3>1
    <3>5. Gift(pos, st.benefits, t)
                    + (IF t = c /\ ~ended THEN st.pos.c_shares ELSE 0)
                    - (IF t = c THEN pos.c_shares ELSE 0)
                    = st.benefits.d + st.pos.c_shares - pos.c_shares
      <4>1. CASE c = d
        BY <1>2, <1>8, <1>11, <2>2, <2>3, <4>1
      <4>2. CASE c # d
        BY <1>2, <1>8, <1>11, <2>2, <2>3, <4>2
      <4> QED BY <4>1, <4>2
    <3> QED BY <1>2, <2>3, <3>3, <3>4, <3>5
  <2>4. CASE t = p
    <3>1. assets[t] = p2 /\ cash'[t] = cash[t] /\ debts'[t] = debts[t]
      BY <1>2, <1>13, <1>20, <2>4
    <3>2. Worth(assets[t]) - Worth(asset[t]) + debts'[t] - debts[t] + cash'[t] - cash[t] >= 0
      BY <1>10, <2>1, <2>4, <3>1
    <3>3. /\ assets[t].pending = asset[t].pending
          /\ assets[t].position - asset[t].position = IF ended THEN 0 - pos.p_amount ELSE 0
          /\ assets[t].margin_debt.shares - asset[t].margin_debt.shares = 0
          /\ assets[t].supplied.shares - asset[t].supplied.shares = st.benefits.p
      BY <1>2, <1>10, <1>11, <2>1, <2>4, <3>1
    <3>4. Gift(pos, st.benefits, t)
                    + (IF t = c /\ ~ended THEN st.pos.c_shares ELSE 0)
                    - (IF t = c THEN pos.c_shares ELSE 0)
                    = st.benefits.p
      <4>1. CASE c = p
        BY <1>2, <1>8, <1>11, <2>2, <2>4, <4>1
      <4>2. CASE c # p
        BY <1>2, <1>8, <1>11, <2>2, <2>4, <4>2
      <4> QED BY <4>1, <4>2
    <3> QED BY <1>2, <2>4, <3>2, <3>3, <3>4
  <2>5. CASE t # d /\ t # p
    <3>1. assets[t] = asset[t] /\ cash'[t] = cash[t] /\ debts'[t] = debts[t] /\ t # c
      BY <1>2, <1>13, <1>20, <2>5
    <3> QED BY <2>1, <2>2, <2>5, <3>1
  <2> QED BY <2>3, <2>4, <2>5
<1>27. ASSUME NEW t \in Tokens
       PROVE  Balanced(i, t) /\ SharesStay(i, t) /\ TokensStay(i, t)
  <2>1. /\ asset[t].pending \in Nat /\ asset[t].margin_debt.shares \in Nat
        /\ asset[t].position \in Nat /\ asset[t].supplied.shares \in Nat
        /\ Worth(asset[t]) \in Int /\ cash[t] \in Nat /\ debts[t] \in Nat
        /\ Entries(supplied, margin, t) \in Nat
        /\ assets[t].supplied.shares \in Nat /\ Worth(assets[t]) \in Int
        /\ assets[t].margin_debt.shares \in Nat /\ assets[t].position \in Nat
        /\ asset'[t].supplied.shares \in Nat
        /\ cash'[t] \in Nat /\ debts'[t] \in Nat
        /\ Entries(supplied, margin', t) \in Nat /\ Entries(supplied, shares, t) \in Nat
    BY <1>13, <1>14, <1>15, <1>18, <1>20, InvFields, AssetNumbers, EntriesType DEF SharesTable
  <2>2. /\ AskedIn(pos, tr, t) = 0 /\ AwayIn(pos, tr, t) = 0 /\ OnSaleIn(pos, tr, t) = 0
        /\ AskedIn(new, NoTrade, t) = 0 /\ AwayIn(new, NoTrade, t) = 0
        /\ OnSaleIn(new, NoTrade, t) = 0
    BY DEF AskedIn, AwayIn, OnSaleIn
  <2>3. /\ PledgedIn(pos, t) = (IF t = c THEN pos.c_shares ELSE 0)
        /\ PledgedIn(new, t) = (IF t = c /\ ~ended THEN st.pos.c_shares ELSE 0)
        /\ OwedIn(pos, t) = (IF t = d THEN pos.d_shares ELSE 0)
        /\ OwedIn(new, t) = (IF t = d THEN st.pos.d_shares ELSE 0)
        /\ BoughtIn(pos, t) = (IF t = p THEN pos.p_amount ELSE 0)
        /\ BoughtIn(new, t) = (IF t = p /\ ~ended THEN pos.p_amount ELSE 0)
    BY <1>1, <1>8, <1>12 DEF PledgedIn, OwedIn, BoughtIn
  <2>4. FeeIn(stop[i], t) \in Nat /\ FeeIn(fee, t) \in Nat
    BY <1>4, <1>17 DEF FeeIn, StopType
  <2>5. FeeIn(stop'[i], t) - FeeIn(stop[i], t) = 0 - FeeIn(fee, t)
    <3>1. FeeIn(NoStop, t) = 0
      BY DEF FeeIn
    <3> QED BY <1>19, <2>4, <3>1
  <2>6. /\ asset'[t].pending = assets[t].pending /\ asset'[t].position = assets[t].position
        /\ asset'[t].margin_debt = assets[t].margin_debt
    BY <1>18 DEF SameDebt
  <2> DEFINE gift == Gift(pos, st.benefits, t)
  <2>7. gift \in Nat
    BY <1>8, GiftType
  <2>8. /\ assets[t].pending = asset[t].pending
        /\ assets[t].margin_debt.shares - asset[t].margin_debt.shares
              = IF t = d THEN st.pos.d_shares - pos.d_shares ELSE 0
        /\ assets[t].position - asset[t].position
              = IF t = p /\ ended THEN 0 - pos.p_amount ELSE 0
        /\ gift + (IF t = c /\ ~ended THEN st.pos.c_shares ELSE 0)
                - (IF t = c THEN pos.c_shares ELSE 0)
              = assets[t].supplied.shares - asset[t].supplied.shares
        /\ Worth(assets[t]) - Worth(asset[t]) + debts'[t] - debts[t] + cash'[t] - cash[t] >= 0
    BY <1>26
  <2>9. /\ Entries(supplied, shares, t) <= Entries(supplied, margin, t) + gift
        /\ ~OwnerMeetsItself => Entries(supplied, shares, t) = Entries(supplied, margin, t) + gift
        /\ asset'[t].supplied.shares - assets[t].supplied.shares
              = Entries(supplied, margin', t) - Entries(supplied, shares, t)
        /\ Worth(asset'[t]) = Worth(assets[t]) - FeeIn(fee, t)
    BY <1>15, <1>18
  <2> HIDE DEF gift, d, p, c, pos, tr, new, fee, ended
  <2>10. Balanced(i, t)
    <3>1. OwedIn(new, t) - OwedIn(pos, t) = IF t = d THEN st.pos.d_shares - pos.d_shares ELSE 0
      BY <1>2, <1>11, <2>3
    <3>2. BoughtIn(new, t) - BoughtIn(pos, t) = IF t = p /\ ended THEN 0 - pos.p_amount ELSE 0
      BY <1>2, <2>3
    <3> QED BY <1>19, <2>1, <2>2, <2>6, <2>8, <3>1, <3>2 DEF Balanced, pos, tr
  <2>11. SharesStay(i, t)
    <3>1. /\ PledgedIn(position'[i], t) = PledgedIn(new, t)
          /\ PledgedIn(position[i], t) = PledgedIn(pos, t)
          /\ PledgedIn(pos, t) \in Nat /\ PledgedIn(new, t) \in Nat
      BY <1>2, <1>11, <1>19, <2>3 DEF pos
    <3>2. /\ Gained(t) = Entries(supplied, margin', t) - Entries(supplied, margin, t)
          /\ NewShares(t) = asset'[t].supplied.shares - asset[t].supplied.shares
      BY DEF Gained, NewShares
    <3>3. gift + PledgedIn(new, t) - PledgedIn(pos, t)
             = assets[t].supplied.shares - asset[t].supplied.shares
      BY <2>3, <2>8
    <3>4. Gained(t) + (PledgedIn(new, t) - PledgedIn(pos, t)) <= NewShares(t)
      BY <2>1, <2>7, <2>9, <3>1, <3>2, <3>3
    <3>5. ~OwnerMeetsItself => Gained(t) + (PledgedIn(new, t) - PledgedIn(pos, t)) = NewShares(t)
      BY <2>1, <2>7, <2>9, <3>1, <3>2, <3>3
    <3> QED BY <3>1, <3>4, <3>5 DEF SharesStay
  <2>12. TokensStay(i, t)
    <3>1. Came(t) >= 0 - FeeIn(fee, t)
      BY <2>1, <2>4, <2>8, <2>9 DEF Came
    <3>2. Came(t) \in Int
      BY <2>1, <2>4, <2>9 DEF Came
    <3> QED BY <1>19, <2>2, <2>4, <2>5, <3>1, <3>2 DEF TokensStay, pos, tr
  <2> QED BY <2>10, <2>11, <2>12
<1>28. Stepped
  BY <1>21, <1>23, <1>24, <1>25, <1>27, StepInv
<1>29. ASSUME FeeApart PROVE SuppliersKept
  <2> SUFFICES ASSUME NEW t \in Tokens PROVE PriceNotLower(asset[t].supplied, asset'[t].supplied)
    BY DEF SuppliersKept
  <2>1. d # StopFee.token
    BY <1>2, <1>29 DEF FeeApart
  <2>2. /\ PriceNotLower(assets[t].supplied, asset'[t].supplied)
        /\ t # StopFee.token => asset'[t] = assets[t]
    BY <1>18
  <2> HIDE DEF d, p, c, pos
  <2>3. CASE t = d
    BY <1>9, <1>13, <2>1, <2>2, <2>3
  <2>4. CASE t = p
    <3>1. PriceNotLower(asset[t].supplied, assets[t].supplied)
      BY <1>10, <1>13, <2>4
    <3>2. /\ asset[t].supplied \in PoolType /\ assets[t].supplied \in PoolType
          /\ asset'[t].supplied \in PoolType
      BY <1>13, <1>14, <1>18, AssetNumbers
    <3>3. CASE assets[t].supplied.shares > 0
      BY <2>2, <3>1, <3>2, <3>3, PriceTransitive
    <3>4. CASE assets[t].supplied.shares = 0
      <4>1. asset[t].supplied.shares = 0
        BY <1>10, <1>11, <1>13, <2>4, <3>2, <3>4 DEF PoolType
      <4>2. asset[t].supplied.balance = 0
        BY <1>14, <4>1 DEF SupplySound
      <4> QED BY <3>2, <4>1, <4>2 DEF PriceNotLower, PoolType
    <3> QED BY <3>2, <3>3, <3>4 DEF PoolType
  <2>5. CASE t # d /\ t # p
    BY <1>13, <2>2, <2>5
  <2> QED BY <2>3, <2>4, <2>5
<1> QED BY <1>28, <1>29

-----------------------------------------------------------------------------
(***************************************************************************)
(* The tokens that come for a trade: from the exchange or from the owner.  *)
(***************************************************************************)
\* The handler of an answer keeps the invariant, whoever sends the tokens.
LEMMA ReturnInv ==
  ASSUME Inv, NEW i \in PosIds, trade[i] # NoTrade, trade[i].stage # "sent",
         NEW out \in Nat, CanReturn(i, out), Return(i, out),
         cash' = [cash EXCEPT ![TokenOut(i)] = @ + out],
         UNCHANGED <<supplied, opened, price>>
  PROVE  Stepped /\ (FeeApart => SuppliersKept)
<1>1. acting' = acting \ {i} /\ trade' = [trade EXCEPT ![i] = NoTrade]
  BY DEF Return
<1>2. CASE trade[i].op = "open"
  <2>1. CanOpen(i, out) /\ Opened(i, out) /\ TokenOut(i) = position[i].p
    BY <1>2 DEF CanReturn, Return, TokenOut
  <2> QED BY <1>1, <1>2, <2>1, OpenedInv
<1>3. CASE trade[i].op # "open"
  <2>1. /\ CanSettle(position[i], trade[i].op, out) /\ Returned(i, out)
        /\ TokenOut(i) = position[i].d
    BY <1>3 DEF CanReturn, Return, TokenOut
  <2> QED BY <1>1, <1>3, <2>1, SettledInv
<1> QED BY <1>2, <1>3

\* ft_on_transfer of the exchange's output.
LEMMA TradeReturnedInv ==
  ASSUME Inv, NEW i \in PosIds, TradeReturned(i)
  PROVE  Stepped /\ (FeeApart => SuppliersKept)
<1> DEFINE out == trade[i].out
<1>1. trade[i] # NoTrade /\ trade[i].stage = "swapped"
  BY DEF TradeReturned, At
<1>2. out \in Nat
  BY <1>1, TradeFields
<1>3. UNCHANGED <<supplied, opened, price>>
  BY DEF TradeReturned
<1>4. CASE CanReturn(i, out) /\ i \in acting
  <2>1. Return(i, out) /\ cash' = [cash EXCEPT ![TokenOut(i)] = @ + out]
    BY <1>4 DEF TradeReturned
  <2> QED BY <1>1, <1>2, <1>3, <1>4, <2>1, ReturnInv
<1>5. CASE ~(CanReturn(i, out) /\ i \in acting)
  <2>1. /\ trade' = [trade EXCEPT ![i].stage = "blocked"]
        /\ UNCHANGED <<asset, margin, position, stop, acting, debts, cash>>
    BY <1>5 DEF TradeReturned, Moved
  <2>2. Stepped
    BY <1>1, <1>3, <2>1, StageOnlyInv
  <2>3. SuppliersKept
    BY <2>1, InvFields, NoSupplyChange DEF SuppliersKept, SupplyChange
  <2> QED BY <2>2, <2>3
<1> QED BY <1>4, <1>5

\* The exchange's own transfer fails.
LEMMA TradeLostInv ==
  ASSUME Inv, NEW i \in PosIds, TradeLost(i)
  PROVE  Stepped /\ SuppliersKept
BY StageOnlyInv DEF TradeLost, Moved, At

\* The owner sends tokens in place of the exchange.
LEMMA ResumeInv ==
  ASSUME Inv, NEW i \in PosIds, NEW n \in Nat, Resume(i, n)
  PROVE  Stepped /\ (FeeApart => SuppliersKept)
<1>1. /\ trade[i] # NoTrade /\ trade[i].stage # "sent"
      /\ CanReturn(i, n) /\ Return(i, n)
      /\ cash' = [cash EXCEPT ![TokenOut(i)] = @ + n]
      /\ UNCHANGED <<supplied, opened, price>>
  BY DEF Resume, At
<1> QED BY <1>1, ReturnInv

-----------------------------------------------------------------------------
(***************************************************************************)
(* Liquidation without an exchange.                                        *)
(***************************************************************************)
\* saved is ast without the k shares of debt and the shares that paid for them
ClearsDebt(ast, saved, needs, k) ==
    /\ saved \in AssetType /\ SupplySound(saved) /\ SoundPool(saved.margin_debt)
    /\ saved.supplied.shares = ast.supplied.shares - needs
    /\ saved.margin_debt.shares = ast.margin_debt.shares - k
    /\ saved.pending = ast.pending /\ saved.position = ast.position
    /\ saved.hp = ast.hp
    /\ Worth(saved) >= Worth(ast)
    /\ PriceNotLower(ast.supplied, saved.supplied)

\* The debt is cleared with shares worth at least as much.
LEMMA DirectDebt ==
  ASSUME NEW ast \in AssetType, SupplySound(ast), SoundPool(ast.margin_debt),
         NEW k \in Nat, k <= ast.margin_debt.shares, NEW needs \in Nat,
         NEW debt, debt = SharesToAmount(ast.margin_debt, k, TRUE),
         NEW owed \in Nat, debt <= owed,
         needs = AmountToShares(ast.supplied, owed, TRUE),
         CanWithdraw(ast.supplied, needs, owed),
         NEW after, after = [Unsupplied(ast, needs, owed) EXCEPT
                                !.margin_debt = PoolWithdraw(@, k, debt)],
         CanSave(after, TRUE)
  PROVE  ClearsDebt(ast, Normalized(after), needs, k)
<1> DEFINE mid == Unsupplied(ast, needs, owed)
           q == PoolWithdraw(ast.margin_debt, k, debt)
           saved == Normalized(after)
<1>1. /\ ast.supplied \in PoolType /\ PoolInvariant(ast.supplied)
      /\ ast.margin_debt \in PoolType /\ ast.margin_debt.balance \in Nat
      /\ ast.margin_debt.shares \in Nat /\ ast.supplied.shares \in Nat
      /\ ast.supplied.balance \in Nat /\ ast.reserved \in Nat /\ ast.prot_fee \in Nat
      /\ ast.position \in Nat /\ Worth(ast) \in Int
  BY AssetNumbers DEF SupplySound
<1>2. /\ debt \in Nat /\ q \in PoolType /\ SoundPool(q)
      /\ q.shares = ast.margin_debt.shares - k /\ q.balance = ast.margin_debt.balance - debt
  <2>1. q.shares = ast.margin_debt.shares - k /\ q.balance = ast.margin_debt.balance - debt
    BY DEF PoolWithdraw
  <2> QED BY <1>1, <2>1, ClearingKeepsSound
<1>3. /\ mid \in AssetType /\ SameDebt(ast, mid)
      /\ mid.supplied = PoolWithdraw(ast.supplied, needs, owed)
      /\ mid.supplied.shares = ast.supplied.shares - needs
      /\ mid.reserved = ast.reserved /\ mid.prot_fee = ast.prot_fee
      /\ Worth(mid) = Worth(ast) + owed
  BY SupplyTaken
<1>4. PriceNotLower(ast.supplied, mid.supplied)
  BY <1>1, <1>3, PaymentKeepsPrice
<1>5. after = [mid EXCEPT !.margin_debt = PoolWithdraw(mid.margin_debt, k, debt)]
  OBVIOUS
<1> HIDE DEF mid
<1>6. after = [mid EXCEPT !.margin_debt = q]
  BY <1>3, <1>5 DEF SameDebt
<1> HIDE DEF q
<1>7. /\ after \in AssetType /\ after.margin_debt = q
      /\ after.supplied = mid.supplied /\ after.reserved = mid.reserved
      /\ after.prot_fee = mid.prot_fee /\ after.pending = mid.pending
      /\ after.position = mid.position /\ after.hp = mid.hp
  BY ONLY <1>2, <1>3, <1>6 DEF AssetType
<1>8. Worth(after) = Worth(ast) + owed - debt
  <2>1. /\ mid.supplied.balance \in Nat /\ mid.reserved \in Nat /\ mid.prot_fee \in Nat
        /\ mid.position \in Nat /\ mid.margin_debt = ast.margin_debt
    BY <1>3, AssetNumbers DEF SameDebt
  <2>2. after.margin_debt.balance = mid.margin_debt.balance - debt
    BY <1>2, <1>7, <2>1
  <2>3. mid.margin_debt.balance \in Nat
    BY <1>1, <2>1
  <2>4. Worth(after) = Worth(mid) - debt
    BY ONLY <1>2, <1>7, <2>1, <2>2, <2>3 DEF Worth
  <2> QED BY ONLY <1>1, <1>2, <1>3, <2>4
<1>9. PoolInvariant(saved.supplied)
  BY DEF CanSave
<1>10. /\ saved \in AssetType /\ SupplySound(saved) /\ SameDebt(after, saved)
       /\ saved.supplied.shares = after.supplied.shares /\ Worth(saved) = Worth(after)
  BY <1>7, <1>9, NormalizedAsset
<1>11. PriceNotLower(ast.supplied, saved.supplied)
  BY <1>1, <1>4, <1>7, NormalizedPrice
<1> HIDE DEF saved
<1>12. Worth(saved) >= Worth(ast)
  <2>1. owed \in Nat /\ debt <= owed
    OBVIOUS
  <2> QED BY ONLY <1>1, <1>2, <1>8, <1>10, <2>1
<1>13. /\ SoundPool(saved.margin_debt)
       /\ saved.margin_debt.shares = ast.margin_debt.shares - k
       /\ saved.pending = ast.pending /\ saved.position = ast.position
       /\ saved.hp = ast.hp
  BY <1>2, <1>3, <1>7, <1>10 DEF SameDebt
<1>14. saved.supplied.shares = ast.supplied.shares - needs
  BY <1>3, <1>7, <1>10
<1> QED BY <1>10, <1>11, <1>12, <1>13, <1>14 DEF ClearsDebt, saved

\* An account that liquidates from its regular supply takes the position's
\* collateral and tokens over and clears its debt (process_margin_liquidate_direct).
LEMMA LiquidateDirectInv ==
  ASSUME Inv, NEW b \in Traders \cup Keepers, NEW i \in PosIds, LiquidateDirect(b, i)
  PROVE  Stepped /\ SuppliersKept
<1> DEFINE pos  == position[i]
           d    == pos.d
           p    == pos.p
           c    == pos.c
           debt == DebtAmount(pos)
           owed == debt + HoldingFee(pos)
           needs == AmountToShares(asset[d].supplied, owed, TRUE)
           gets  == AmountToShares(asset[p].supplied, pos.p_amount, FALSE)
           d1   == [Unsupplied(asset[d], needs, owed) EXCEPT
                       !.margin_debt = PoolWithdraw(@, pos.d_shares, debt)]
           p1   == HandedBack(asset[p], gets, pos.p_amount)
           d2   == Normalized(d1)
           p2   == Normalized(p1)
           now(t) == supplied[b][t] + (IF t = c THEN pos.c_shares ELSE 0)
                     + (IF t = p THEN gets ELSE 0) - (IF t = d THEN needs ELSE 0)
<1>1. /\ pos # NoPosition /\ ~pos.is_locking
      /\ needs <= supplied[b][d] + (IF c = d THEN pos.c_shares ELSE 0)
      /\ CanWithdraw(asset[d].supplied, needs, owed)
      /\ CanSave(d1, TRUE) /\ CanSave(p1, TRUE)
      /\ asset' = [asset EXCEPT ![d] = d2, ![p] = p2]
      /\ position' = [position EXCEPT ![i] = NoPosition]
      /\ UNCHANGED <<margin, opened, stop, acting, trade, debts, price, cash>>
  BY DEF LiquidateDirect, HandedBack
<1>2. supplied' = [supplied EXCEPT ![b] = [t \in Tokens |-> now(t)]]
  BY DEF LiquidateDirect
<1>3. /\ c \in Tokens /\ d \in Tokens /\ p \in Tokens /\ d # p /\ (c = d \/ c = p)
      /\ pos.c_shares \in Nat /\ pos.d_shares \in Nat /\ pos.p_amount \in Nat
      /\ Fits(i)
  BY <1>1, PositionFields
<1>4. trade[i] = NoTrade
  BY <1>1, <1>3 DEF Fits
<1>5. /\ pos.d_shares <= asset[d].margin_debt.shares
      /\ pos.p_amount <= asset[p].position
      /\ debt \in Nat /\ HoldingFee(pos) \in Nat
  BY <1>1, <1>4, DebtorNumbers
<1>6. /\ TypeOK /\ AllSound /\ asset \in [Tokens -> AssetType]
      /\ stop[i] \in StopType \cup {NoStop} /\ b \in Accounts
      /\ supplied \in SharesTable /\ margin \in SharesTable
  BY MarginAccountsAssumption, InvFields DEF Inv, TypeOK
<1>7. \A t \in Tokens : /\ asset[t] \in AssetType /\ asset[t].hp \in Nat
                        /\ asset[t].supplied \in PoolType /\ PoolInvariant(asset[t].supplied)
                        /\ SupplySound(asset[t]) /\ SoundPool(asset[t].margin_debt)
                        /\ PriceNotLower(asset[t].supplied, asset[t].supplied)
  BY InvFields, AssetNumbers, NoSupplyChange DEF SupplyChange, SupplySound
<1>8. owed \in Nat /\ debt <= owed /\ debt = SharesToAmount(asset[d].margin_debt, pos.d_shares, TRUE)
  <2>1. debt = SharesToAmount(asset[d].margin_debt, pos.d_shares, TRUE)
    BY DEF DebtAmount
  <2>2. debt \in Nat /\ HoldingFee(pos) \in Nat
    BY <1>5
  <2> DEFINE fee == HoldingFee(pos)
  <2>3. owed = debt + fee
    OBVIOUS
  <2> HIDE DEF debt, owed, fee
  <2>4. owed \in Nat /\ debt <= owed
    BY <2>2, <2>3 DEF fee
  <2> QED BY <2>1, <2>4
<1> HIDE DEF debt, owed
<1>9. needs \in Nat /\ gets \in Nat /\ (pos.p_amount = 0 => gets = 0)
  <2>1. needs \in Nat
    BY <1>3, <1>7, <1>8, SharesUp
  <2>2. gets \in Nat /\ gets <= pos.p_amount
    BY <1>3, <1>7, SharesDown
  <2> HIDE DEF gets, needs
  <2> QED BY <1>3, <2>1, <2>2
<1>10. /\ d2 \in AssetType /\ SupplySound(d2) /\ SoundPool(d2.margin_debt)
       /\ d2.supplied.shares = asset[d].supplied.shares - needs
       /\ d2.margin_debt.shares = asset[d].margin_debt.shares - pos.d_shares
       /\ d2.pending = asset[d].pending /\ d2.position = asset[d].position
       /\ d2.hp = asset[d].hp
       /\ Worth(d2) >= Worth(asset[d])
       /\ PriceNotLower(asset[d].supplied, d2.supplied)
  <2> DEFINE ast == asset[d]
             k == pos.d_shares
  <2>1. needs = AmountToShares(ast.supplied, owed, TRUE)
    OBVIOUS
  <2>2. d1 = [Unsupplied(ast, needs, owed) EXCEPT !.margin_debt = PoolWithdraw(@, k, debt)]
    OBVIOUS
  <2>3. /\ ast \in AssetType /\ SupplySound(ast) /\ SoundPool(ast.margin_debt)
        /\ k \in Nat /\ k <= ast.margin_debt.shares
        /\ debt = SharesToAmount(ast.margin_debt, k, TRUE)
        /\ CanWithdraw(ast.supplied, needs, owed) /\ CanSave(d1, TRUE)
    BY <1>1, <1>3, <1>5, <1>7, <1>8
  <2>a. d2 = Normalized(d1)
    OBVIOUS
  <2> HIDE DEF d1, d2, needs, ast, k
  <2>4. ClearsDebt(ast, d2, needs, k)
    BY ONLY <1>8, <1>9, <2>a, <2>1, <2>2, <2>3, DirectDebt
  <2> QED BY <2>4 DEF ClearsDebt, ast, k
<1>11. HandsBack(asset[p], p1, gets, pos.p_amount)
  <2> DEFINE ast == asset[p]
             held == pos.p_amount
  <2>1. /\ ast \in AssetType /\ PoolInvariant(ast.supplied) /\ held \in Nat /\ held <= ast.position
        /\ held > 0 => gets = AmountToShares(ast.supplied, held, FALSE)
        /\ held = 0 => gets = 0
    BY <1>3, <1>5, <1>7, <1>9
  <2>2. p1 = HandedBack(ast, gets, held)
    OBVIOUS
  <2> HIDE DEF p1, gets, ast, held
  <2>3. HandsBack(ast, p1, gets, held)
    BY ONLY <2>1, <2>2, HandedBackAsset
  <2> QED BY <2>3 DEF ast, held
<1> HIDE DEF d1, d2, p1, needs, gets
<1>12. /\ p1 \in AssetType
       /\ p1.pending = asset[p].pending /\ p1.margin_debt = asset[p].margin_debt
       /\ p1.hp = asset[p].hp /\ p1.position = asset[p].position - pos.p_amount
       /\ p1.supplied.shares = asset[p].supplied.shares + gets
       /\ Worth(p1) = Worth(asset[p])
       /\ PriceNotLower(asset[p].supplied, p1.supplied)
  BY <1>11 DEF HandsBack
<1>13. /\ p2 \in AssetType /\ SupplySound(p2) /\ p2.margin_debt = asset[p].margin_debt
       /\ p2.pending = asset[p].pending /\ p2.hp = asset[p].hp
       /\ p2.position = asset[p].position - pos.p_amount
       /\ p2.supplied.shares = asset[p].supplied.shares + gets
       /\ Worth(p2) = Worth(asset[p])
       /\ PriceNotLower(asset[p].supplied, p2.supplied)
  <2>1. PoolInvariant(p2.supplied)
    BY <1>1 DEF CanSave
  <2>2. /\ p2 \in AssetType /\ SameDebt(p1, p2) /\ SupplySound(p2)
        /\ p2.supplied.shares = p1.supplied.shares /\ Worth(p2) = Worth(p1)
    BY <1>12, <2>1, NormalizedAsset
  <2>3. PriceNotLower(asset[p].supplied, p2.supplied)
    BY <1>3, <1>7, <1>12, NormalizedPrice
  <2> QED BY <1>12, <2>2, <2>3 DEF SameDebt
<1> HIDE DEF p2
<1>14. /\ asset' \in [Tokens -> AssetType] /\ asset'[d] = d2 /\ asset'[p] = p2
       /\ \A t \in Tokens \ {d, p} : asset'[t] = asset[t]
       /\ position'[i] = NoPosition /\ OnlyPosition(i)
  BY <1>1, <1>3, <1>6, <1>10, <1>13 DEF TypeOK, OnlyPosition
<1>15. \A t \in Tokens : now(t) \in Nat
  <2> TAKE t \in Tokens
  <2>1. supplied[b][t] \in Nat
    BY <1>6 DEF SharesTable
  <2> HIDE DEF c, d, p, pos
  <2>2. CASE t = d
    BY <1>1, <1>3, <1>9, <2>1, <2>2
  <2>3. CASE t # d
    BY <1>1, <1>3, <1>9, <2>1, <2>3
  <2> QED BY <2>2, <2>3
<1>16. /\ supplied' \in SharesTable
       /\ \A t \in Tokens : supplied'[b][t] = now(t)
       /\ \A e \in Accounts \ {b} : supplied'[e] = supplied[e]
  <2> HIDE DEF now
  <2> QED BY <1>2, <1>6, <1>15 DEF SharesTable
<1>17. TypeOK'
  BY <1>1, <1>6, <1>14, <1>16 DEF TypeOK, SharesTable
<1>18. \A t \in Tokens : /\ SupplySound(asset'[t]) /\ SoundPool(asset'[t].margin_debt)
                         /\ asset'[t].hp = asset[t].hp
                         /\ PriceNotLower(asset[t].supplied, asset'[t].supplied)
  <2> TAKE t \in Tokens
  <2>1. CASE t = d
    BY <1>10, <1>14, <2>1
  <2>2. CASE t = p
    BY <1>3, <1>7, <1>13, <1>14, <2>2
  <2>3. CASE t # d /\ t # p
    BY <1>7, <1>14, <2>3
  <2> QED BY <2>1, <2>2, <2>3
<1>19. AllSound' /\ SuppliersKept
  BY <1>18 DEF AllSound, SuppliersKept
<1>20. Touches(i)
  BY <1>1, <1>7, <1>14, <1>18 DEF Touches
<1>21. Fits(i)'
  BY <1>1, <1>3, <1>4, <1>14 DEF Fits
<1>22. ASSUME NEW t \in Tokens
       PROVE  Balanced(i, t) /\ SharesStay(i, t) /\ TokensStay(i, t)
  <2>1. /\ asset[t].pending \in Nat /\ asset[t].margin_debt.shares \in Nat
        /\ asset[t].position \in Nat /\ asset[t].supplied.shares \in Nat
        /\ Worth(asset[t]) \in Int /\ cash[t] \in Nat /\ debts[t] \in Nat
        /\ Entries(supplied, margin, t) \in Nat /\ Worth(asset'[t]) \in Int
        /\ supplied[b][t] \in Nat
    BY <1>6, <1>7, <1>14, InvFields, AssetNumbers DEF SharesTable
  <2>2. /\ AskedIn(pos, trade[i], t) = 0 /\ AwayIn(pos, trade[i], t) = 0
        /\ OnSaleIn(pos, trade[i], t) = 0
        /\ AskedIn(NoPosition, trade'[i], t) = 0 /\ AwayIn(NoPosition, trade'[i], t) = 0
        /\ OnSaleIn(NoPosition, trade'[i], t) = 0
    BY <1>1, <1>4 DEF AskedIn, AwayIn, OnSaleIn
  <2>3. /\ PledgedIn(pos, t) = (IF t = c THEN pos.c_shares ELSE 0)
        /\ OwedIn(pos, t) = (IF t = d THEN pos.d_shares ELSE 0)
        /\ BoughtIn(pos, t) = (IF t = p THEN pos.p_amount ELSE 0)
        /\ PledgedIn(NoPosition, t) = 0 /\ OwedIn(NoPosition, t) = 0
        /\ BoughtIn(NoPosition, t) = 0
    BY <1>1 DEF PledgedIn, OwedIn, BoughtIn
  <2>4. Entries(supplied', margin, t) = Entries(supplied, margin, t) - supplied[b][t] + now(t)
    BY <1>6, <1>16, EntriesChange
  <2>5. Gained(t) = now(t) - supplied[b][t]
    BY <1>1, <1>15, <2>1, <2>4 DEF Gained
  <2>6. FeeIn(stop[i], t) \in Nat /\ stop'[i] = stop[i]
    BY <1>1, <1>6 DEF FeeIn, StopType
  <2>7. now(t) - supplied[b][t] = (IF t = c THEN pos.c_shares ELSE 0)
                     + (IF t = p THEN gets ELSE 0) - (IF t = d THEN needs ELSE 0)
    BY <1>3, <1>9, <2>1
  <2>8. position'[i] = NoPosition /\ position[i] = pos
    BY <1>14
  <2> HIDE DEF c, d, p, pos, now
  <2>9. Balanced(i, t)
    <3>1. CASE t = d
      BY <1>3, <1>10, <1>14, <2>1, <2>2, <2>3, <2>8, <3>1 DEF Balanced
    <3>2. CASE t = p
      BY <1>3, <1>13, <1>14, <2>1, <2>2, <2>3, <2>8, <3>2 DEF Balanced
    <3>3. CASE t # d /\ t # p
      BY <1>14, <2>1, <2>2, <2>3, <2>8, <3>3 DEF Balanced
    <3> QED BY <3>1, <3>2, <3>3
  <2>10. NewShares(t) = (IF t = p THEN gets ELSE 0) - (IF t = d THEN needs ELSE 0)
    <3>1. CASE t = d
      BY <1>3, <1>9, <1>10, <1>14, <2>1, <3>1 DEF NewShares
    <3>2. CASE t = p
      BY <1>3, <1>9, <1>13, <1>14, <2>1, <3>2 DEF NewShares
    <3>3. CASE t # d /\ t # p
      BY <1>14, <2>1, <3>3 DEF NewShares
    <3> QED BY <3>1, <3>2, <3>3
  <2>11. Gained(t) + (0 - (IF t = c THEN pos.c_shares ELSE 0)) = NewShares(t)
    BY <1>3, <1>9, <2>5, <2>7, <2>10
  <2>12. SharesStay(i, t)
    <3>1. /\ PledgedIn(position'[i], t) = 0
          /\ PledgedIn(position[i], t) = (IF t = c THEN pos.c_shares ELSE 0)
      BY <2>3, <2>8
    <3>2. NewShares(t) \in Int
      BY <1>9, <2>10
    <3> QED BY <1>3, <2>11, <3>1, <3>2 DEF SharesStay
  <2>13. Came(t) >= 0 /\ Came(t) \in Int
    <3>1. Worth(asset'[t]) >= Worth(asset[t])
      <4>1. CASE t = d
        BY <1>10, <1>14, <4>1
      <4>2. CASE t = p
        BY <1>13, <1>14, <2>1, <4>2
      <4>3. CASE t # d /\ t # p
        BY <1>14, <2>1, <4>3
      <4> QED BY <4>1, <4>2, <4>3
    <3>2. cash'[t] = cash[t] /\ debts'[t] = debts[t]
      BY <1>1
    <3> QED BY <2>1, <3>1, <3>2 DEF Came
  <2>14. TokensStay(i, t)
    BY <2>2, <2>6, <2>8, <2>13 DEF TokensStay
  <2> QED BY <2>9, <2>12, <2>14
<1>23. Stepped
  BY <1>17, <1>19, <1>20, <1>21, <1>22, StepInv
<1> QED BY <1>19, <1>23

-----------------------------------------------------------------------------
(***************************************************************************)
(* The invariant of every behaviour.                                       *)
(***************************************************************************)
\* Accounts that have only deposited.
LEMMA InitInv == Init => Inv
<1> SUFFICES ASSUME Init PROVE Inv
  OBVIOUS
<1>1. \A t \in Tokens : /\ InitialShares(t) \in Nat /\ InitialReserve[t] \in Nat
                        /\ Entries(supplied, margin, t) = InitialShares(t)
  <2> TAKE t \in Tokens
  <2>1. Entries(supplied, margin, t) = InitialShares(t)
    BY DEF Entries, InitialShares, Init
  <2>2. supplied \in [Accounts -> [Tokens -> Nat]] /\ margin \in [Accounts -> [Tokens -> Nat]]
    BY MarginInitialAssumption DEF Init
  <2>3. InitialReserve[t] \in Nat
    BY MarginInitialAssumption
  <2> QED BY <2>1, <2>2, <2>3, EntriesType
<1>2. EmptyPool \in PoolType /\ EmptyPool.shares = 0 /\ EmptyPool.balance = 0
  BY DEF EmptyPool, PoolType
<1>3. ASSUME NEW t \in Tokens
      PROVE  /\ asset[t] \in AssetType
             /\ asset[t].supplied.shares = InitialShares(t)
             /\ asset[t].supplied.balance = InitialShares(t)
             /\ asset[t].reserved = InitialReserve[t] /\ asset[t].prot_fee = 0
             /\ asset[t].margin_debt = EmptyPool /\ asset[t].pending = 0
             /\ asset[t].position = 0 /\ asset[t].hp = 0
             /\ cash[t] = InitialShares(t) + InitialReserve[t] /\ debts[t] = 0
  <2> DEFINE new == [supplied |-> [shares |-> InitialShares(t), balance |-> InitialShares(t)],
           reserved |-> InitialReserve[t], prot_fee |-> 0, margin_debt |-> EmptyPool,
           pending |-> 0, position |-> 0, hp |-> 0]
  <2>1. asset[t] = new /\ cash[t] = InitialShares(t) + InitialReserve[t] /\ debts[t] = 0
    BY DEF Init
  <2>2. new \in AssetType
    BY <1>1, <1>2 DEF AssetType, PoolType
  <2> QED BY <2>1, <2>2
<1>4. TypeOK
  <2>1. asset \in [Tokens -> AssetType]
    <3>1. asset = [t \in Tokens |-> asset[t]]
      BY DEF Init
    <3> QED BY <1>3, <3>1
  <2>2. cash \in [Tokens -> Nat] /\ debts \in [Tokens -> Nat]
    <3>1. cash = [t \in Tokens |-> cash[t]] /\ debts = [t \in Tokens |-> debts[t]]
      BY DEF Init
    <3>2. \A t \in Tokens : cash[t] \in Nat /\ debts[t] \in Nat
      BY <1>1, <1>3
    <3> QED BY <3>1, <3>2
  <2>3. price \in [Tokens -> Nat]
    <3>1. price \in [Tokens -> UNION Range(Prices)] /\ \A t \in Tokens : price[t] \in Prices[t]
      BY DEF Init
    <3>2. \A t \in Tokens : Prices[t] \subseteq Nat
      BY MarginNumbersAssumption
    <3> QED BY <3>1, <3>2
  <2>4. /\ supplied \in [Accounts -> [Tokens -> Nat]] /\ margin \in [Accounts -> [Tokens -> Nat]]
        /\ position \in [PosIds -> PositionType \cup {NoPosition}]
        /\ opened \subseteq PosIds /\ acting \subseteq PosIds
        /\ stop \in [PosIds -> StopType \cup {NoStop}]
        /\ trade \in [PosIds -> TradeType \cup {NoTrade}]
    BY MarginInitialAssumption DEF Init
  <2> QED BY <2>1, <2>2, <2>3, <2>4 DEF TypeOK
<1>5. \A i \in PosIds : /\ position[i] = NoPosition /\ trade[i] = NoTrade /\ stop[i] = NoStop
                        /\ i \notin acting
  BY DEF Init
<1>6. AllFit
  BY <1>5 DEF AllFit, Fits
<1>7. AllSound
  <2> SUFFICES ASSUME NEW t \in Tokens
               PROVE  SupplySound(asset[t]) /\ SoundPool(asset[t].margin_debt)
    BY DEF AllSound
  <2>1. InitialShares(t) \in Nat
    BY <1>1
  <2>2. SupplySound(asset[t])
    BY <1>3, <2>1 DEF SupplySound, PoolInvariant
  <2>3. SoundPool(asset[t].margin_debt)
    BY <1>2, <1>3 DEF SoundPool, PoolInvariant
  <2> QED BY <2>2, <2>3
<1>8. ASSUME NEW t \in Tokens
      PROVE  Matched(t) /\ Kept(t) /\ Covers(t)
  <2>0. IsFiniteSet(PosIds)
    BY MarginAccountsAssumption
  <2>1. AllPledged(t) = 0
    <3> DEFINE f == [i \in PosIds |-> PledgedIn(position[i], t)]
    <3>1. \A i \in PosIds : f[i] = 0
      BY <1>5 DEF PledgedIn
    <3>2. AllPledged(t) = SumFunctionOnSet(f, PosIds)
      BY DEF AllPledged, SumFunction
    <3> HIDE DEF f
    <3> QED BY <2>0, <3>1, <3>2, SumZero
  <2>2. AllOwed(t) = 0
    <3> DEFINE f == [i \in PosIds |-> OwedIn(position[i], t)]
    <3>1. \A i \in PosIds : f[i] = 0
      BY <1>5 DEF OwedIn
    <3>2. AllOwed(t) = SumFunctionOnSet(f, PosIds)
      BY DEF AllOwed, SumFunction
    <3> HIDE DEF f
    <3> QED BY <2>0, <3>1, <3>2, SumZero
  <2>3. AllBought(t) = 0
    <3> DEFINE f == [i \in PosIds |-> BoughtIn(position[i], t)]
    <3>1. \A i \in PosIds : f[i] = 0
      BY <1>5 DEF BoughtIn
    <3>2. AllBought(t) = SumFunctionOnSet(f, PosIds)
      BY DEF AllBought, SumFunction
    <3> HIDE DEF f
    <3> QED BY <2>0, <3>1, <3>2, SumZero
  <2>4. AllAsked(t) = 0
    <3> DEFINE f == [i \in PosIds |-> AskedIn(position[i], trade[i], t)]
    <3>1. \A i \in PosIds : f[i] = 0
      BY <1>5 DEF AskedIn
    <3>2. AllAsked(t) = SumFunctionOnSet(f, PosIds)
      BY DEF AllAsked, SumFunction
    <3> HIDE DEF f
    <3> QED BY <2>0, <3>1, <3>2, SumZero
  <2>5. AllAway(t) = 0
    <3> DEFINE f == [i \in PosIds |-> AwayIn(position[i], trade[i], t)]
    <3>1. \A i \in PosIds : f[i] = 0
      BY <1>5 DEF AwayIn
    <3>2. AllAway(t) = SumFunctionOnSet(f, PosIds)
      BY DEF AllAway, SumFunction
    <3> HIDE DEF f
    <3> QED BY <2>0, <3>1, <3>2, SumZero
  <2>6. AllOnSale(t) = 0
    <3> DEFINE f == [i \in PosIds |-> OnSaleIn(position[i], trade[i], t)]
    <3>1. \A i \in PosIds : f[i] = 0
      BY <1>5 DEF OnSaleIn
    <3>2. AllOnSale(t) = SumFunctionOnSet(f, PosIds)
      BY DEF AllOnSale, SumFunction
    <3> HIDE DEF f
    <3> QED BY <2>0, <3>1, <3>2, SumZero
  <2>7. AllFees(t) = 0
    <3> DEFINE f == [i \in PosIds |-> FeeIn(stop[i], t)]
    <3>1. \A i \in PosIds : f[i] = 0
      BY <1>5 DEF FeeIn
    <3>2. AllFees(t) = SumFunctionOnSet(f, PosIds)
      BY DEF AllFees, SumFunction
    <3> HIDE DEF f
    <3> QED BY <2>0, <3>1, <3>2, SumZero
  <2>8. Matched(t)
    BY <1>2, <1>3, <2>2, <2>3, <2>4 DEF Matched
  <2>9. Kept(t)
    BY <1>1, <1>3, <2>1 DEF Kept, Held
  <2>10. Covers(t)
    BY <1>1, <1>2, <1>3, <2>5, <2>6, <2>7 DEF Covers, Worth
  <2> QED BY <2>8, <2>9, <2>10
<1> QED BY <1>4, <1>6, <1>7, <1>8 DEF Inv, Books

\* Nothing happens.
LEMMA StutterInv ==
  ASSUME Inv, UNCHANGED vars
  PROVE  Stepped /\ SuppliersKept
<1>1. UNCHANGED <<asset, supplied, margin, position, opened, stop, acting, trade, debts, price, cash>>
  BY DEF vars
<1>2. \A t \in Tokens : /\ asset[t] \in AssetType /\ asset[t].hp \in Nat
                        /\ asset[t].supplied.shares \in Nat /\ Worth(asset[t]) \in Int
                        /\ cash[t] \in Nat /\ debts[t] \in Nat
                        /\ Entries(supplied, margin, t) \in Nat
                        /\ PriceNotLower(asset[t].supplied, asset[t].supplied)
  BY InvFields, AssetNumbers, NoSupplyChange DEF SupplyChange
<1>3. TypeOK' /\ AllSound'
  BY <1>1 DEF Inv, TypeOK, AllSound
<1>4. \A t \in Tokens : /\ Gained(t) = NewShares(t) /\ Came(t) >= 0
                        /\ asset[t].hp <= asset'[t].hp
  BY <1>1, <1>2 DEF Gained, NewShares, Came
<1>5. Stepped
  BY <1>1, <1>3, <1>4, StillInv
<1>6. SuppliersKept
  BY <1>1, <1>2 DEF SuppliersKept
<1> QED BY <1>5, <1>6

-----------------------------------------------------------------------------
(***************************************************************************)
(* The invariant, and the price of supplied shares.                        *)
(***************************************************************************)
\* The amounts a step takes are numbers.
LEMMA StepInputs ==
  /\ Traders \subseteq Accounts /\ Keepers \subseteq Accounts
  /\ Transfers \subseteq Nat /\ ReserveDeposits \subseteq Nat /\ Amounts \subseteq Nat
  /\ Outputs \subseteq Nat /\ PartsUsed \subseteq Nat
  /\ Interests \subseteq Nat /\ HoldingFees \subseteq Nat
  /\ \A t \in Tokens : Prices[t] \subseteq Nat
BY MarginNumbersAssumption, MarginAccountsAssumption

\* What a step keeps: the invariant and, unless a fee of a stop may be
\* overwritten, the shares in nobody's name and the price of the supplies.
Keeps == Stepped /\ (FeeApart => SuppliersKept)

\* Interest, holding fees and prices.
LEMMA MarketKeeps ==
  ASSUME Inv, Market
  PROVE  Keeps
<1>1. PICK t \in Tokens : \/ \E n \in Interests : Accrue(t, n)
                          \/ \E n \in HoldingFees : HoldingFeeGrows(t, n)
                          \/ \E p \in Prices[t] : UpdatePrice(t, p)
  BY DEF Market
<1>2. CASE \E n \in Interests : Accrue(t, n)
  BY <1>2, StepInputs, AccrueInv DEF Keeps
<1>3. CASE \E n \in HoldingFees : HoldingFeeGrows(t, n)
  BY <1>3, StepInputs, HoldingFeeGrowsInv DEF Keeps
<1>4. CASE \E p \in Prices[t] : UpdatePrice(t, p)
  BY <1>4, StepInputs, UpdatePriceInv DEF Keeps
<1> QED BY <1>1, <1>2, <1>3, <1>4

\* Deposits and withdrawals.
LEMMA SupplyingKeeps ==
  ASSUME Inv, NEW a \in Traders \cup Keepers, NEW t \in Tokens, Supplying(a, t)
  PROVE  Keeps
<1>1. PICK n \in Transfers : \/ DepositToMargin(a, t, n)
                             \/ Withdraw(a, t, n)
                             \/ WithdrawAll(a, t)
                             \/ WithdrawRegular(a, t, n)
  BY DEF Supplying
<1>2. n \in Nat /\ a \in Accounts
  BY StepInputs
<1>3. CASE DepositToMargin(a, t, n)
  BY <1>2, <1>3, DepositToMarginInv DEF Keeps
<1>4. CASE Withdraw(a, t, n)
  BY <1>2, <1>4, WithdrawInv DEF Keeps
<1>5. CASE WithdrawRegular(a, t, n)
  BY <1>2, <1>5, WithdrawRegularInv DEF Keeps
<1>6. CASE WithdrawAll(a, t)
  BY <1>2, <1>6, WithdrawAllInv DEF Keeps
<1> QED BY <1>1, <1>3, <1>4, <1>5, <1>6

\* A position is opened.
LEMMA OpeningKeeps ==
  ASSUME Inv, NEW a \in Traders, Opening(a)
  PROVE  Keeps
<1>1. PICK i \in PosIds, pair \in Pairs, s \in StopChoices,
           pledged \in Amounts, borrowed \in Amounts, bought \in Amounts :
               Open(a, i, pair, pledged, borrowed, bought, s)
  BY DEF Opening
<1>2. pledged \in Nat /\ borrowed \in Nat /\ bought \in Nat
  BY StepInputs
<1> QED BY <1>1, <1>2, OpenInv DEF Keeps

\* Collateral is moved, or a stop is set.
LEMMA HoldingKeeps ==
  ASSUME Inv, NEW i \in PosIds, Holding(i)
  PROVE  Keeps
<1>1. CASE \E n \in Amounts : IncreaseCollateral(i, n) \/ DecreaseCollateral(i, n)
  BY <1>1, StepInputs, IncreaseCollateralInv, DecreaseCollateralInv DEF Keeps
<1>2. CASE \E s \in StopChoices : SetStop(i, s)
  BY <1>2, SetStopInv DEF Keeps
<1> QED BY <1>1, <1>2 DEF Holding

\* A position is decreased or ended.
LEMMA EndingKeeps ==
  ASSUME Inv, NEW b \in Traders \cup Keepers, NEW i \in PosIds, Ending(b, i)
  PROVE  Keeps
<1>1. CASE LiquidateDirect(b, i)
  BY <1>1, LiquidateDirectInv DEF Keeps
<1>2. CASE \E op \in FullClose \cup {"decrease"}, amount, minOut \in Amounts :
              Decrease(b, i, op, amount, minOut)
  <2>1. PICK op \in FullClose \cup {"decrease"}, amount \in Amounts, minOut \in Amounts :
                Decrease(b, i, op, amount, minOut)
    BY <1>2
  <2>2. amount \in Nat /\ minOut \in Nat
    BY StepInputs
  <2> QED BY <2>1, <2>2, DecreaseInv DEF Keeps
<1> QED BY <1>1, <1>2 DEF Ending

\* The exchange answers, or the owner in its place.
LEMMA TradingKeeps ==
  ASSUME Inv, NEW i \in PosIds, Trading(i)
  PROVE  Keeps
<1>1. CASE \E used \in Uses(i), out \in Outputs : TradeSwapped(i, used, out)
  <2>1. PICK used \in Uses(i), out \in Outputs : TradeSwapped(i, used, out)
    BY <1>1
  <2>2. trade[i] # NoTrade
    BY <2>1 DEF TradeSwapped, At
  <2>3. used \in Nat /\ out \in Nat
    BY <2>2, StepInputs, TradeFields DEF Uses
  <2> QED BY <2>1, <2>3, TradeSwappedInv DEF Keeps
<1>2. CASE TradeFailed(i)
  BY <1>2, TradeFailedInv DEF Keeps
<1>3. CASE TradeReturned(i)
  BY <1>3, TradeReturnedInv DEF Keeps
<1>4. CASE TradeLost(i)
  BY <1>4, TradeLostInv DEF Keeps
<1>5. CASE \E n \in Outputs : Resume(i, n)
  BY <1>5, StepInputs, ResumeInv DEF Keeps
<1> QED BY <1>1, <1>2, <1>3, <1>4, <1>5 DEF Trading

\* Every step keeps the invariant.
LEMMA NextKeeps ==
  ASSUME Inv, [Next]_vars
  PROVE  Keeps
<1>1. CASE UNCHANGED vars
  BY <1>1, StutterInv DEF Keeps
<1>2. CASE \E a \in Traders : Opening(a)
  BY <1>2, OpeningKeeps
<1>3. CASE \E a \in Traders \cup Keepers, t \in Tokens : Supplying(a, t)
  BY <1>3, SupplyingKeeps
<1>4. CASE \E t \in Tokens, n \in ReserveDeposits : DepositToReserve(t, n)
  BY <1>4, StepInputs, DepositToReserveInv DEF Keeps
<1>5. CASE \E i \in PosIds : Holding(i) \/ Trading(i)
  BY <1>5, HoldingKeeps, TradingKeeps
<1>6. CASE \E b \in Traders \cup Keepers, i \in PosIds : Ending(b, i)
  BY <1>6, EndingKeeps
<1>7. CASE Market
  BY <1>7, MarketKeeps
<1> QED BY <1>1, <1>2, <1>3, <1>4, <1>5, <1>6, <1>7 DEF Next

\* Inv holds of every state that is reached.
THEOREM MarginInvariant == Spec => []Inv
<1>1. Init => Inv
  BY InitInv
<1>2. Inv /\ [Next]_vars => Inv'
  BY NextKeeps DEF Keeps, Stepped
<1> QED BY <1>1, <1>2, PTL DEF Spec

-----------------------------------------------------------------------------
(***************************************************************************)
(* The owner can resume a trade whose answer was lost.                     *)
(***************************************************************************)
\* An asset whose supply has no more shares than tokens can be saved.
LEMMA SoundCanSave ==
  ASSUME NEW ast \in AssetType, PoolInvariant(ast.supplied)
  PROVE  CanSave(ast, FALSE)
<1>1. CASE ast.supplied.shares # 0
  BY <1>1, NormalizedAsset DEF CanSave
<1>2. CASE ast.supplied.shares = 0
  <2>1. Normalized(ast).supplied = EmptyPool
    BY <1>2, NormalizedAsset
  <2>2. PoolInvariant(EmptyPool)
    BY DEF PoolInvariant, EmptyPool
  <2> QED BY <2>1, <2>2 DEF CanSave
<1> QED BY <1>1, <1>2

\* An opening can always be ended: what it borrowed is still pending, and the
\* collateral its fee is taken from is still supplied.
LEMMA OpeningResumes ==
  ASSUME Inv, NEW i \in PosIds, trade[i] # NoTrade, trade[i].op = "open"
  PROVE  CanOpen(i, 1)
<1> DEFINE pos == position[i]
           d == pos.d
           c == pos.c
<1>1. /\ pos # NoPosition /\ trade[i].amount_in \in Nat
  BY TradeFields
<1>2. /\ d \in Tokens /\ c \in Tokens /\ pos.c_shares \in Nat
  BY <1>1, PositionFields
<1>3. TypeOK /\ \A t \in Tokens : Matched(t) /\ Kept(t)
  BY DEF Inv, Books
<1>4. /\ asset[d].pending \in Nat /\ asset[c].supplied.shares \in Nat
      /\ Entries(supplied, margin, c) \in Nat
  BY <1>2, InvFields, AssetNumbers
<1>5. asset[d].pending >= trade[i].amount_in
  <2>1. AskedIn(pos, trade[i], d) = trade[i].amount_in
    BY DEF AskedIn
  <2> HIDE DEF d
  <2>2. AskedIn(pos, trade[i], d) <= AllAsked(d) /\ AllAsked(d) \in Nat
    BY <1>2, <1>3, TotalBounds
  <2> QED BY <1>1, <1>2, <1>3, <2>1, <2>2 DEF Matched
<1>6. pos.c_shares <= asset[c].supplied.shares
  <2>1. PledgedIn(pos, c) = pos.c_shares
    BY <1>1 DEF PledgedIn
  <2> HIDE DEF c
  <2>2. PledgedIn(pos, c) <= AllPledged(c) /\ AllPledged(c) \in Nat
    BY <1>2, <1>3, TotalBounds
  <2>3. Entries(supplied, margin, c) + AllPledged(c) <= asset[c].supplied.shares
    BY <1>2, <1>3 DEF Kept, Held
  <2> QED BY <1>2, <1>4, <2>1, <2>2, <2>3
<1>7. OpenFee(pos) <= asset[c].supplied.shares
  <2>1. OpenFeeRate \in 0 .. MaxRatio
    BY MarginRatioAssumption
  <2>2. OpenFee(pos) \in Nat /\ OpenFee(pos) <= pos.c_shares
    BY <1>2, <2>1, PartBound DEF OpenFee
  <2> QED BY <1>2, <1>4, <1>6, <2>2
<1>8. 1 \in Nat
  OBVIOUS
<1>9. /\ PoolInvariant(Normalized(OpenedDebt(i)).supplied)
      /\ PoolInvariant(Normalized(OpenedPosition(i, 1)).supplied)
  BY <1>5, <1>7, <1>8, OpenedAssets
<1> QED BY <1>5, <1>7, <1>9 DEF CanOpen, CanSave

\* A product divided by one of its factors is no less than the other.
LEMMA QuotientExact ==
  ASSUME NEW c \in Nat, NEW b \in Nat \ {0}
  PROVE  (c * b) \div b >= c
<1> DEFINE a == c * b
           q == a \div b
<1>1. a \in Nat
  BY ProductType
<1>2. q \in Nat /\ a < q * b + b
  BY <1>1, Quotient
<1>3. a = c * b
  OBVIOUS
<1> HIDE DEF a
<1>4. q = a \div b
  OBVIOUS
<1> HIDE DEF q
<1> SUFFICES ASSUME q + 1 <= c PROVE FALSE
  BY ONLY <1>2, <1>3, <1>4, c \in Nat DEF a
<1>5. (q + 1) * b <= c * b
  BY <1>2, ProductMonotone
<1>6. (q + 1) * b = q * b + b /\ q * b \in Nat
  BY <1>2, ProductType
<1> QED BY ONLY <1>1, <1>2, <1>3, <1>5, <1>6, b \in Nat

\* Enough tokens for the debt and the holding fee pay all of it, and leave
\* nothing (calculate_debt_repayment).
LEMMA FullRepayment ==
  ASSUME Inv, NEW i \in PosIds, position[i] # NoPosition,
         trade[i] # NoTrade => trade[i].op # "open"
  PROVE  LET pos == position[i]
         IN  Repayment(pos, DebtAmount(pos) + HoldingFee(pos))
                = [shares |-> pos.d_shares, amount |-> DebtAmount(pos),
                   fee |-> HoldingFee(pos), left |-> 0, cap |-> 0]
<1> DEFINE pos  == position[i]
           debt == DebtAmount(pos)
           fee  == HoldingFee(pos)
           cap  == pos.debt_cap
           out  == debt + fee
           all  == (cap * out) \div (debt + fee)
<1>1. debt \in Nat /\ debt > 0 /\ fee \in Nat /\ cap \in Nat
  BY DebtorNumbers
<1>2. Repayment(pos, out)
         = IF all >= cap
           THEN [shares |-> pos.d_shares, amount |-> debt, fee |-> fee,
                 left |-> out - debt - fee, cap |-> 0]
           ELSE [shares |-> AmountToShares(asset[pos.d].margin_debt,
                                           out - (fee * all) \div pos.debt_cap, FALSE),
                 amount |-> out - (fee * all) \div pos.debt_cap,
                 fee |-> (fee * all) \div pos.debt_cap, left |-> 0, cap |-> pos.debt_cap - all]
  BY DEF Repayment
<1> HIDE DEF debt, fee, cap
<1>3. out \in Nat \ {0} /\ cap * out \in Nat
  BY <1>1, ProductType
<1>4. all >= cap
  <2> DEFINE q == all
  <2>1. q = (cap * out) \div out
    OBVIOUS
  <2> HIDE DEF out, q
  <2>2. q >= cap
    BY <1>1, <1>3, <2>1, QuotientExact
  <2> QED BY <2>2 DEF q, out
<1>5. out - debt - fee = 0
  BY <1>1
<1> QED BY <1>2, <1>4, <1>5 DEF debt, fee, cap

\* Enough tokens end the trade of a position, whichever it was.
LEMMA ClosingResumes ==
  ASSUME Inv, NEW i \in PosIds, trade[i] # NoTrade, trade[i].op # "open"
  PROVE  CanSettle(position[i], trade[i].op, DebtAmount(position[i]) + HoldingFee(position[i]))
<1> DEFINE pos  == position[i]
           op   == trade[i].op
           debt == DebtAmount(pos)
           fee  == HoldingFee(pos)
           out  == debt + fee
           d    == asset[pos.d]
           p    == asset[pos.p]
           pool == d.margin_debt
           r    == Repayment(pos, out)
           paid == [d EXCEPT !.margin_debt = PoolWithdraw(@, r.shares, r.amount),
                             !.prot_fee = @ + r.fee]
           gained == AmountToShares(paid.supplied, r.left, FALSE)
           st   == Repaid(pos, r)
           end  == Closed(st)
<1>1. pos # NoPosition
  BY TradeFields
<1>2. /\ pos \in PositionType /\ pos.d \in Tokens /\ pos.p \in Tokens
  BY <1>1, PositionFields
<1>3. /\ d \in AssetType /\ SupplySound(d) /\ p \in AssetType /\ SupplySound(p)
      /\ d.supplied \in PoolType /\ PoolInvariant(d.supplied)
      /\ p.supplied \in PoolType /\ PoolInvariant(p.supplied)
      /\ pool \in PoolType /\ pool.shares \in Nat /\ pool.balance \in Nat /\ d.prot_fee \in Nat
  BY <1>2, InvFields, AssetNumbers DEF SupplySound
<1>4. /\ pos.d_shares \in Nat /\ pos.d_shares <= pool.shares
      /\ pos.c_shares \in Nat /\ pos.p_amount \in Nat /\ pos.p_amount <= p.position
      /\ debt \in Nat /\ debt > 0 /\ debt <= pool.balance /\ fee \in Nat
  BY <1>1, DebtorNumbers
<1>5. r = [shares |-> pos.d_shares, amount |-> debt, fee |-> fee, left |-> 0, cap |-> 0]
  BY <1>1, FullRepayment
<1>6. /\ r.shares = pos.d_shares /\ r.amount = debt /\ r.fee = fee
      /\ r.left = 0 /\ r.cap = 0
  BY <1>5
<1> HIDE DEF debt, fee, r
<1>7. PoolWithdraw(pool, r.shares, r.amount) \in PoolType
  <2>1. pool.shares - pos.d_shares \in Nat /\ pool.balance - debt \in Nat
    BY <1>3, <1>4
  <2> QED BY <1>6, <2>1 DEF PoolWithdraw, PoolType
<1>8. /\ paid \in AssetType /\ paid.supplied = d.supplied
      /\ paid.margin_debt = PoolWithdraw(pool, r.shares, r.amount)
  <2>1. d.prot_fee + r.fee \in Nat
    BY <1>3, <1>4, <1>6
  <2> QED BY <1>3, <1>7, <2>1 DEF AssetType
<1>9. gained = 0
  <2>1. paid.supplied \in PoolType /\ PoolInvariant(paid.supplied) /\ 0 \in Nat
    BY <1>3, <1>8
  <2>3. gained = AmountToShares(paid.supplied, 0, FALSE)
    BY <1>6
  <2> DEFINE g == AmountToShares(paid.supplied, 0, FALSE)
  <2> HIDE DEF paid
  <2>2. g \in Nat /\ g <= 0
    BY <2>1, SharesDown
  <2>4. gained = g
    BY <2>3
  <2> HIDE DEF gained, g
  <2> QED BY ONLY <2>2, <2>4
<1>10. st = [pos |-> [pos EXCEPT !.d_shares = @ - r.shares, !.debt_cap = r.cap,
                                 !.is_locking = FALSE],
             d |-> IF gained > 0 THEN Supplied(paid, gained, r.left) ELSE paid,
             p |-> p, uncovered |-> 0, benefits |-> [c |-> 0, d |-> gained, p |-> 0]]
  BY DEF Repaid
<1> HIDE DEF paid, gained, st
<1>11. /\ st.pos.d_shares = 0 /\ st.pos.c_shares = pos.c_shares
       /\ st.pos.p_amount = pos.p_amount /\ st.d = paid /\ st.p = p
  <2>1. pos.d_shares - r.shares = 0
    BY <1>4, <1>6
  <2>2. ~(gained > 0)
    BY <1>9
  <2>3. st.pos = [pos EXCEPT !.d_shares = pos.d_shares - r.shares, !.debt_cap = r.cap,
                             !.is_locking = FALSE]
    BY <1>10
  <2> QED BY <1>2, <1>10, <2>1, <2>2, <2>3 DEF PositionType
<1>12. Topped(op, st) = st /\ Covered(op, st) = st
  BY <1>11 DEF Topped, Covered, FromCollateral, FromReserve
<1>13. Sound(st)
  BY <1>3, <1>4, <1>7, <1>8, <1>11 DEF Sound
<1> DEFINE held   == st.pos.p_amount
           shares == IF held > 0 THEN AmountToShares(st.p.supplied, held, FALSE) ELSE 0
           after  == HandedBack(p, shares, held)
<1>14. end.d = paid /\ end.p = after
  <2>1. end = [st EXCEPT !.p = HandedBack(@, shares, held),
                         !.benefits.c = st.pos.c_shares, !.benefits.p = shares]
    BY <1>11 DEF Closed
  <2> HIDE DEF end, shares, held
  <2>2. st = [pos |-> st.pos, d |-> st.d, p |-> st.p, uncovered |-> st.uncovered,
              benefits |-> st.benefits]
    BY <1>10
  <2> QED BY <1>11, <2>1, <2>2
<1> HIDE DEF end
<1>15. after \in AssetType /\ PoolInvariant(after.supplied)
  <2>1. held \in Nat /\ held <= p.position /\ held = pos.p_amount
    BY <1>4, <1>11
  <2>9. shares = IF held > 0 THEN AmountToShares(st.p.supplied, held, FALSE) ELSE 0
    OBVIOUS
  <2>2. /\ held > 0 => shares = AmountToShares(p.supplied, held, FALSE)
        /\ held = 0 => shares = 0
    <3> DEFINE g == AmountToShares(st.p.supplied, held, FALSE)
    <3>1. g = AmountToShares(p.supplied, held, FALSE)
      BY <1>11
    <3>2. shares = IF held > 0 THEN g ELSE 0
      BY <2>9
    <3> HIDE DEF shares, held, p, g
    <3>3. (held > 0 => shares = g) /\ (held = 0 => shares = 0)
      BY ONLY <3>2, <2>1
    <3> QED BY ONLY <3>1, <3>3
  <2>3. after = HandedBack(p, shares, held)
    OBVIOUS
  <2> HIDE DEF held, shares, after
  <2>4. HandsBack(p, after, shares, held)
    BY <1>3, <2>1, <2>2, <2>3, HandedBackAsset
  <2>5. shares \in Nat /\ after \in AssetType
    BY <2>4 DEF HandsBack
  <2>6. after.supplied = PoolDeposit(p.supplied, shares, held)
    BY <1>3, <2>3 DEF HandedBack, Supplied, AssetType
  <2>7. CASE held > 0
    BY <1>3, <2>1, <2>2, <2>5, <2>6, <2>7, DepositKeepsPrice
  <2>8. CASE held = 0
    <3>1. shares = 0
      BY <2>2, <2>8
    <3>2. p.supplied.shares \in Nat /\ p.supplied.balance \in Nat
      BY <1>3, AssetNumbers
    <3>3. after.supplied = p.supplied
      BY <1>3, <2>6, <2>8, <3>1, <3>2 DEF PoolDeposit, PoolType
    <3> QED BY <1>3, <2>5, <3>3
  <2> QED BY <2>1, <2>7, <2>8
<1> HIDE DEF after, held, shares
<1>16. CanSave(end.d, FALSE) /\ CanSave(end.p, FALSE)
  <2>1. PoolInvariant(paid.supplied)
    BY <1>3, <1>8
  <2> QED BY <1>8, <1>14, <1>15, <2>1, SoundCanSave
<1>17. Settling(pos, op, out) = end
  BY <1>12 DEF Settling, st, r, end
<1>18. DebtAmount(pos) + HoldingFee(pos) > 0
  BY <1>4 DEF debt, fee
<1>19. Repayment(pos, out) = r /\ Repaid(pos, r) = st
  BY DEF r, st
<1>20. 0 >= 0
  OBVIOUS
<1>21. CanSettle(pos, op, out)
  <2> HIDE DEF pos, op, out
  <2> QED BY <1>6, <1>12, <1>13, <1>16, <1>17, <1>18, <1>19, <1>20 DEF CanSettle, CanSaveAll
<1> QED BY <1>21 DEF debt, fee

-----------------------------------------------------------------------------
(***************************************************************************)
(* What the invariant says of the properties of Margin.                    *)
(***************************************************************************)
\* Two tables of the positions with the same numbers have the same sum.
LEMMA SamePositionSum ==
  ASSUME NEW f, NEW g, DOMAIN f = PosIds, DOMAIN g = PosIds, \A i \in PosIds : f[i] = g[i]
  PROVE  SumFunction(f) = SumFunction(g)
<1>1. IsFiniteSet(PosIds)
  BY MarginAccountsAssumption
<1>2. SumFunctionOnSet(f, PosIds) = SumFunctionOnSet(g, PosIds)
  BY <1>1, SumSame
<1> QED BY <1>2 DEF SumFunction

\* A position is locked while it is traded, and found by the handlers.
LEMMA InvLocks == Inv => LockedWhileTraded
<1> SUFFICES ASSUME Inv PROVE LockedWhileTraded
  OBVIOUS
<1>1. acting \subseteq PosIds /\ \A i \in PosIds : Fits(i)
  BY DEF Inv, TypeOK, AllFit
<1>2. \A i \in PosIds : /\ i \in acting <=> trade[i] # NoTrade
                        /\ trade[i] # NoTrade <=> position[i] # NoPosition /\ position[i].is_locking
  BY <1>1 DEF Fits
<1> QED BY <1>1, <1>2 DEF LockedWhileTraded, Traded

\* The openings give away the token they have borrowed.
LEMMA AskedForOpenings ==
  ASSUME NEW t
  PROVE  AmountIn(Openings, t) = AllAsked(t)
<1> DEFINE f == [i \in PosIds |-> IF i \in Openings /\ TokenIn(i) = t THEN trade[i].amount_in ELSE 0]
           g == [i \in PosIds |-> AskedIn(position[i], trade[i], t)]
<1>1. \A i \in PosIds : f[i] = g[i]
  BY DEF Openings, Traded, TokenIn, AskedIn
<1>2. DOMAIN f = PosIds /\ DOMAIN g = PosIds
  OBVIOUS
<1>3. AmountIn(Openings, t) = SumFunction(f) /\ AllAsked(t) = SumFunction(g)
  BY DEF AmountIn, AllAsked
<1> HIDE DEF f, g
<1> QED BY <1>1, <1>2, <1>3, SamePositionSum

\* The totals of an asset are those of the positions.
LEMMA InvBooks == Inv => BooksMatchPositions
<1> SUFFICES ASSUME Inv, NEW t \in Tokens
             PROVE  /\ asset[t].pending = AmountIn(Openings, t)
                    /\ asset[t].margin_debt.shares = SumFunction([i \in PosIds |->
                          IF i \in Live /\ position[i].d = t THEN position[i].d_shares ELSE 0])
                    /\ asset[t].position = SumFunction([i \in PosIds |->
                          IF i \in Live /\ position[i].p = t THEN position[i].p_amount ELSE 0])
  BY DEF BooksMatchPositions
<1>1. Matched(t)
  BY DEF Inv, Books
<1>2. AllOwed(t) = SumFunction([i \in PosIds |->
          IF i \in Live /\ position[i].d = t THEN position[i].d_shares ELSE 0])
  <2> DEFINE f == [i \in PosIds |-> IF i \in Live /\ position[i].d = t
                                    THEN position[i].d_shares ELSE 0]
             g == [i \in PosIds |-> OwedIn(position[i], t)]
  <2>1. \A i \in PosIds : f[i] = g[i]
    BY DEF Live, OwedIn
  <2>2. DOMAIN f = PosIds /\ DOMAIN g = PosIds
    OBVIOUS
  <2>3. AllOwed(t) = SumFunction(g)
    BY DEF AllOwed
  <2> HIDE DEF g
  <2>4. SumFunction(f) = SumFunction(g)
    <3> HIDE DEF f
    <3> QED BY <2>1, <2>2, SamePositionSum
  <2> QED BY <2>3, <2>4
<1>3. AllBought(t) = SumFunction([i \in PosIds |->
          IF i \in Live /\ position[i].p = t THEN position[i].p_amount ELSE 0])
  <2> DEFINE f == [i \in PosIds |-> IF i \in Live /\ position[i].p = t
                                    THEN position[i].p_amount ELSE 0]
             g == [i \in PosIds |-> BoughtIn(position[i], t)]
  <2>1. \A i \in PosIds : f[i] = g[i]
    BY DEF Live, BoughtIn
  <2>2. DOMAIN f = PosIds /\ DOMAIN g = PosIds
    OBVIOUS
  <2>3. AllBought(t) = SumFunction(g)
    BY DEF AllBought
  <2> HIDE DEF g
  <2>4. SumFunction(f) = SumFunction(g)
    <3> HIDE DEF f
    <3> QED BY <2>1, <2>2, SamePositionSum
  <2> QED BY <2>3, <2>4
<1> QED BY <1>1, <1>2, <1>3, AskedForOpenings DEF Matched

\* The debt of the positions is sound.
LEMMA InvDebt == Inv => MarginDebtSound
BY DEF Inv, AllSound, SoundPool, MarginDebtSound

\* The collateral of the positions, as SharesConserved adds it up.
LEMMA PledgedOfPositions ==
  ASSUME NEW t
  PROVE  AllPledged(t) = SumFunction([i \in PosIds |->
             IF i \in Live /\ position[i].c = t THEN position[i].c_shares ELSE 0])
<1> DEFINE f == [i \in PosIds |-> IF i \in Live /\ position[i].c = t
                                  THEN position[i].c_shares ELSE 0]
           g == [i \in PosIds |-> PledgedIn(position[i], t)]
<1>1. \A i \in PosIds : f[i] = g[i]
  BY DEF Live, PledgedIn
<1>2. DOMAIN f = PosIds /\ DOMAIN g = PosIds
  OBVIOUS
<1>3. AllPledged(t) = SumFunction(g)
  BY DEF AllPledged
<1> HIDE DEF g
<1>4. SumFunction(f) = SumFunction(g)
  <2> HIDE DEF f
  <2> QED BY <1>1, <1>2, SamePositionSum
<1> QED BY <1>3, <1>4

\* Nobody holds a share the pools do not have.
SharesExist ==
    \A t \in Tokens :
        SumFunction([a \in Accounts |-> supplied[a][t] + margin[a][t]])
        + SumFunction([i \in PosIds |->
              IF i \in Live /\ position[i].c = t THEN position[i].c_shares ELSE 0])
        <= asset[t].supplied.shares

\* The shares of the accounts and positions, as the properties add them up.
LEMMA SpareShares == \A t \in Tokens : Unheld(t) = Spare(t)
<1> TAKE t \in Tokens
<1>1. Held(t) = SumFunction([a \in Accounts |-> supplied[a][t] + margin[a][t]])
  BY DEF Held, Entries
<1> QED BY <1>1, PledgedOfPositions DEF Unheld, Spare

\* Nobody has a share the pools do not have.
LEMMA InvShares == Inv => SharesExist
<1> SUFFICES ASSUME Inv, NEW t \in Tokens
             PROVE  SumFunction([a \in Accounts |-> supplied[a][t] + margin[a][t]])
                    + SumFunction([i \in PosIds |->
                          IF i \in Live /\ position[i].c = t THEN position[i].c_shares ELSE 0])
                    <= asset[t].supplied.shares
  BY DEF SharesExist
<1>1. Kept(t)
  BY DEF Inv, Books
<1>2. Held(t) = SumFunction([a \in Accounts |-> supplied[a][t] + margin[a][t]])
  BY DEF Held, Entries
<1> QED BY <1>1, <1>2, PledgedOfPositions DEF Kept

\* At first every share is in an account.
LEMMA InitShares == Init => \A t \in Tokens : Unheld(t) = 0
<1> SUFFICES ASSUME Init, NEW t \in Tokens PROVE Unheld(t) = 0
  OBVIOUS
<1>1. TypeOK
  BY InitInv DEF Inv
<1>2. Entries(supplied, margin, t) = InitialShares(t) /\ Entries(supplied, margin, t) \in Nat
  BY <1>1, EntriesType DEF Entries, InitialShares, Init, TypeOK
<1>3. asset[t].supplied.shares = InitialShares(t)
  BY DEF Init
<1>4. AllPledged(t) = 0
  <2> DEFINE f == [i \in PosIds |-> PledgedIn(position[i], t)]
  <2>1. \A i \in PosIds : f[i] = 0
    BY DEF PledgedIn, Init
  <2>2. AllPledged(t) = SumFunctionOnSet(f, PosIds)
    BY DEF AllPledged, SumFunction
  <2> HIDE DEF f
  <2> QED BY <2>1, <2>2, MarginAccountsAssumption, SumZero
<1> QED BY <1>2, <1>3, <1>4, SpareShares DEF Spare, Held

\* The same of the next state.
LEMMA SpareSharesNext == \A t \in Tokens : Unheld(t)' = Spare(t)'
<1>1. (\A t \in Tokens : Unheld(t) = Spare(t))'
  BY SpareShares, PTL
<1> QED BY <1>1

\* A step, as the property says it.
LEMMA StepShares ==
  ASSUME FeeApart, Inv, [Next]_vars
  PROVE  [\A t \in Tokens : \/ Unheld(t)' = Unheld(t)
                            \/ OwnerMeetsItself /\ Unheld(t)' > Unheld(t)]_vars
<1>1. SharesMove
  BY NextKeeps DEF Keeps, Stepped
<1>2. \A t \in Tokens : Unheld(t) = Spare(t)
  BY SpareShares
<1>3. \A t \in Tokens : Unheld(t)' = Spare(t)'
  BY SpareSharesNext
<1> QED BY <1>1, <1>2, <1>3 DEF SharesMove

\* The claims, as ClaimsCovered adds them up.
LEMMA ClaimsOfPositions ==
  ASSUME NEW t
  PROVE  /\ AmountIn(Openings \cap (Stage("swapped") \cup Stage("blocked")), t) = AllAway(t)
         /\ Inv => AmountIn(Stage("sent") \ Openings, t) = AllOnSale(t)
         /\ StopFees(t) = AllFees(t)
<1>1. AmountIn(Openings \cap (Stage("swapped") \cup Stage("blocked")), t) = AllAway(t)
  <2> DEFINE S == Openings \cap (Stage("swapped") \cup Stage("blocked"))
             f == [i \in PosIds |-> IF i \in S /\ TokenIn(i) = t THEN trade[i].amount_in ELSE 0]
             g == [i \in PosIds |-> AwayIn(position[i], trade[i], t)]
  <2>1. \A i \in PosIds : f[i] = g[i]
    BY DEF Openings, Traded, Stage, TokenIn, AwayIn, AskedIn
  <2>2. DOMAIN f = PosIds /\ DOMAIN g = PosIds
    OBVIOUS
  <2>3. AmountIn(S, t) = SumFunction(f) /\ AllAway(t) = SumFunction(g)
    BY DEF AmountIn, AllAway
  <2> HIDE DEF f, g
  <2>4. AmountIn(S, t) = AllAway(t)
    <3> HIDE DEF S
    <3> QED BY <2>1, <2>2, <2>3, SamePositionSum
  <2> QED BY <2>4
<1>2. AmountIn(Stage("sent") \ Openings, t) = AllOnSale(t)
  <2> DEFINE S == Stage("sent") \ Openings
             f == [i \in PosIds |-> IF i \in S /\ TokenIn(i) = t THEN trade[i].amount_in ELSE 0]
             g == [i \in PosIds |-> OnSaleIn(position[i], trade[i], t)]
  <2>1. \A i \in PosIds : f[i] = g[i]
    BY DEF Openings, Traded, Stage, TokenIn, OnSaleIn
  <2>2. DOMAIN f = PosIds /\ DOMAIN g = PosIds
    OBVIOUS
  <2>3. AmountIn(S, t) = SumFunction(f) /\ AllOnSale(t) = SumFunction(g)
    BY DEF AmountIn, AllOnSale
  <2> HIDE DEF f, g
  <2>4. AmountIn(S, t) = AllOnSale(t)
    <3> HIDE DEF S
    <3> QED BY <2>1, <2>2, <2>3, SamePositionSum
  <2> QED BY <2>4
<1>3. StopFees(t) = AllFees(t)
  <2> DEFINE f == [i \in PosIds |-> IF stop[i] = NoStop THEN 0 ELSE stop[i].amount]
             g == [i \in PosIds |-> FeeIn(stop[i], t)]
  <2>1. DOMAIN f = PosIds /\ DOMAIN g = PosIds /\ AllFees(t) = SumFunction(g)
    BY DEF AllFees
  <2>2. CASE t = StopFee.token
    <3>1. \A i \in PosIds : f[i] = g[i]
      BY <2>2 DEF FeeIn
    <3>2. StopFees(t) = SumFunction(f)
      BY <2>2 DEF StopFees
    <3> HIDE DEF f, g
    <3> QED BY <2>1, <3>1, <3>2, SamePositionSum
  <2>3. CASE t # StopFee.token
    <3>1. \A i \in PosIds : g[i] = 0
      BY <2>3 DEF FeeIn
    <3>2. StopFees(t) = 0
      BY <2>3 DEF StopFees
    <3>3. SumFunction(g) = SumFunctionOnSet(g, PosIds)
      BY <2>1 DEF SumFunction
    <3>4. IsFiniteSet(PosIds)
      BY MarginAccountsAssumption
    <3> HIDE DEF f, g
    <3> QED BY <2>1, <3>1, <3>2, <3>3, <3>4, SumZero
  <2> QED BY <2>2, <2>3
<1> QED BY <1>1, <1>2, <1>3

\* What the contract has covers what it owes.
LEMMA InvClaims == Inv /\ FeeApart => ClaimsCovered
<1> SUFFICES ASSUME Inv, FeeApart, NEW t \in Tokens
             PROVE  cash[t] + asset[t].margin_debt.balance + debts[t]
                    + AmountIn(Openings \cap (Stage("swapped") \cup Stage("blocked")), t)
                    >= asset[t].supplied.balance + asset[t].reserved + asset[t].prot_fee
                       + asset[t].position + StopFees(t)
                       + AmountIn(Stage("sent") \ Openings, t)
  BY DEF ClaimsCovered
<1>1. cash[t] + debts[t] + Worth(asset[t]) + AllAway(t) >= AllOnSale(t) + AllFees(t)
  BY DEF Inv, Books, Covers
<1>2. /\ AllAway(t) \in Nat /\ AllOnSale(t) \in Nat /\ AllFees(t) \in Nat
  BY TotalBounds DEF Inv
<1>3. cash[t] \in Nat /\ debts[t] \in Nat /\ asset[t] \in AssetType
  BY InvFields
<1>4. /\ asset[t].supplied.balance \in Nat /\ asset[t].margin_debt.balance \in Nat
      /\ asset[t].reserved \in Nat /\ asset[t].prot_fee \in Nat /\ asset[t].position \in Nat
  BY <1>3, AssetNumbers
<1>5. /\ AmountIn(Openings \cap (Stage("swapped") \cup Stage("blocked")), t) = AllAway(t)
      /\ AmountIn(Stage("sent") \ Openings, t) = AllOnSale(t)
      /\ StopFees(t) = AllFees(t)
  BY ClaimsOfPositions
<1> QED BY <1>1, <1>2, <1>3, <1>4, <1>5 DEF Worth

\* Enough tokens end every trade whose answer was lost.
LEMMA InvResumes == Inv => OwnerCanResume
<1> SUFFICES ASSUME Inv, NEW i \in Stage("blocked") \cup Stage("unreverted")
             PROVE  IF trade[i].op = "open"
                    THEN CanReturn(i, 1)
                    ELSE CanReturn(i, DebtAmount(position[i]) + HoldingFee(position[i]))
  BY DEF OwnerCanResume
<1>1. i \in PosIds /\ trade[i] # NoTrade
  BY DEF Stage, Traded
<1>2. CASE trade[i].op = "open"
  <2>1. CanOpen(i, 1)
    BY <1>1, <1>2, OpeningResumes
  <2> QED BY <1>2, <2>1 DEF CanReturn
<1>3. CASE trade[i].op # "open"
  <2>1. CanSettle(position[i], trade[i].op, DebtAmount(position[i]) + HoldingFee(position[i]))
    BY <1>1, <1>3, ClosingResumes
  <2> QED BY <1>3, <2>1 DEF CanReturn
<1> QED BY <1>2, <1>3

-----------------------------------------------------------------------------
(***************************************************************************)
(* The theorems.                                                           *)
(***************************************************************************)
\* The fields of the state keep their types, whatever the handlers subtract:
\* no balance, total or entry goes below zero.
THEOREM TypeCorrect == Spec => []TypeOK
<1>1. Inv => TypeOK
  BY DEF Inv
<1> QED BY <1>1, MarginInvariant, PTL

\* A position is locked exactly while its trade is unanswered, and whoever
\* answers finds it.
THEOREM LocksAreTrades == Spec => []LockedWhileTraded
BY MarginInvariant, InvLocks, PTL

\* margin_pending_debt, margin_debt and margin_position of every asset are
\* the sums over the positions, whatever was traded, undone or settled.
THEOREM BooksAreKept == Spec => []BooksMatchPositions
BY MarginInvariant, InvBooks, PTL

\* A share of margin debt is worth a token or more, and no debt is left that
\* no position owes: saving an asset asserts this of loans, not of margin debt.
THEOREM DebtIsSound == Spec => []MarginDebtSound
BY MarginInvariant, InvDebt, PTL

\* No account or position ever holds a share that its pool does not have.
THEOREM NoShareFromNothing == Spec => []SharesExist
<1>1. Inv => SharesExist
  BY InvShares
<1> QED BY <1>1, MarginInvariant, PTL

\* Every share of a pool is in an account or in a position, and no share is in
\* two, when no opening borrows the token of the stop fee: only an answer where
\* the owner shares benefits with itself may leave shares in nobody's name.
THEOREM SharesAreConserved ==
  ASSUME FeeApart
  PROVE  Spec => SharesConserved
<1>1. Init => \A t \in Tokens : Unheld(t) = 0
  BY InitShares
<1>2. Inv /\ [Next]_vars =>
        [\A t \in Tokens : \/ Unheld(t)' = Unheld(t)
                           \/ OwnerMeetsItself /\ Unheld(t)' > Unheld(t)]_vars
  BY StepShares
<1> QED BY <1>1, <1>2, MarginInvariant, PTL DEF Spec, SharesConserved

\* The contract's tokens and what it is owed cover what it owes, when no
\* opening borrows the token of the stop fee.
THEOREM ClaimsAreCovered ==
  ASSUME FeeApart
  PROVE  Spec => []ClaimsCovered
<1>1. Inv => ClaimsCovered
  BY InvClaims
<1> QED BY <1>1, MarginInvariant, PTL

\* Whatever happens while a trade is stuck, the owner can end it: the handler
\* does not abort on enough tokens.
THEOREM StuckTradesResume == Spec => []OwnerCanResume
BY MarginInvariant, InvResumes, PTL

\* No step lowers what a supplied share stands for: trades that end with a
\* loss take it from the reserve and the protocol's debt.
THEOREM SuppliersAreSafe ==
  ASSUME FeeApart
  PROVE  Spec => SuppliersNeverPay
<1>1. Inv /\ [Next]_vars => [SuppliersKept]_vars
  BY NextKeeps DEF Keeps
<1>2. SuppliersKept => \A t \in Tokens : PriceNotLower(asset[t].supplied, asset'[t].supplied)
  BY DEF SuppliersKept
<1>3. Inv /\ [Next]_vars =>
        [\A t \in Tokens : PriceNotLower(asset[t].supplied, asset'[t].supplied)]_vars
  BY <1>1, <1>2
<1> QED BY <1>3, MarginInvariant, PTL DEF Spec, SuppliersNeverPay
=============================================================================
