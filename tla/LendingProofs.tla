---------------------------- MODULE LendingProofs ----------------------------
(***************************************************************************)
(* Theorems of Lending, for every set of accounts and of tokens, every     *)
(* rate and weight, and amounts, interest and slots without bound.         *)
(*                                                                         *)
(* The types and the conservation of shares are one inductive invariant:   *)
(* a handler that burns an account's shares takes them from the pool too,  *)
(* which stays a natural number only because the pool holds the shares of  *)
(* all the accounts; and shares_to_amount is only defined for shares that  *)
(* are part of the pool.                                                   *)
(***************************************************************************)
EXTENDS Lending, PoolProofs

Inv == TypeOK /\ SharesConserved

\* the shares a holds of the supply of t
Held(a, t) == supplied[a][t] + collateral[a][t]

-----------------------------------------------------------------------------
\* No account holds more of a pool than there is: each share an account has
\* can be converted by shares_to_amount.
LEMMA SharesBound ==
  ASSUME Inv, NEW a \in Accounts, NEW t \in Tokens
  PROVE  /\ Held(a, t) \in Nat
         /\ Held(a, t) <= asset[t].supplied.shares
         /\ borrowed[a][t] <= asset[t].borrowed.shares
<1> USE AccountsAssumption DEF Inv, TypeOK
<1> DEFINE held == [b \in Accounts |-> supplied[b][t] + collateral[b][t]]
           owed == [b \in Accounts |-> borrowed[b][t]]
<1>1. /\ \A b \in Accounts : held[b] \in Nat
      /\ \A b \in Accounts : owed[b] \in Nat
  OBVIOUS
<1>2. /\ asset[t].supplied.shares = SumFunctionOnSet(held, Accounts)
      /\ asset[t].borrowed.shares = SumFunctionOnSet(owed, Accounts)
  BY DEF SharesConserved, SumFunction
<1>3. held[a] = Held(a, t) /\ owed[a] = borrowed[a][t]
  BY DEF Held
<1> HIDE DEF held, owed
<1>4. held[a] <= SumFunctionOnSet(held, Accounts) /\ owed[a] <= SumFunctionOnSet(owed, Accounts)
  BY <1>1, SumBound
<1> QED BY <1>1, <1>2, <1>3, <1>4

\* The part of SharesBound about the shares outside of the position, and the
\* part about the collateral.
LEMMA PartsBound ==
  ASSUME Inv, NEW a \in Accounts, NEW t \in Tokens
  PROVE  /\ supplied[a][t] \in Nat /\ supplied[a][t] <= asset[t].supplied.shares
         /\ collateral[a][t] \in Nat /\ collateral[a][t] <= asset[t].supplied.shares
         /\ borrowed[a][t] \in Nat /\ borrowed[a][t] <= asset[t].borrowed.shares
         /\ asset[t].supplied \in PoolType /\ asset[t].borrowed \in PoolType
<1>1. /\ supplied[a][t] \in Nat /\ collateral[a][t] \in Nat /\ borrowed[a][t] \in Nat
      /\ asset[t] \in AssetType
  BY DEF Inv, TypeOK
<1>2. asset[t].supplied \in PoolType /\ asset[t].borrowed \in PoolType
  BY <1>1 DEF AssetType
<1>3. asset[t].supplied.shares \in Nat
  BY <1>2 DEF PoolType
<1> QED BY <1>1, <1>2, <1>3, SharesBound DEF Held

\* SumChange for a table of accounts.
LEMMA TableSum ==
  ASSUME NEW f, NEW g, NEW a \in Accounts,
         \A b \in Accounts : f[b] \in Nat /\ g[b] \in Nat,
         \A b \in Accounts \ {a} : f[b] = g[b]
  PROVE  SumFunctionOnSet(g, Accounts) = SumFunctionOnSet(f, Accounts) - f[a] + g[a]
BY AccountsAssumption, SumChange

\* A step changes the pools by what it changes in the account a.
Balanced(a) ==
    /\ \A b \in Accounts \ {a}, t \in Tokens :
          Held(b, t)' = Held(b, t) /\ borrowed'[b][t] = borrowed[b][t]
    /\ \A t \in Tokens :
          /\ asset'[t].supplied.shares = asset[t].supplied.shares - Held(a, t) + Held(a, t)'
          /\ asset'[t].borrowed.shares
                = asset[t].borrowed.shares - borrowed[a][t] + borrowed'[a][t]

\* Such a step conserves the shares.
LEMMA OneAccountChanges ==
  ASSUME Inv, TypeOK', NEW a \in Accounts, Balanced(a)
  PROVE  SharesConserved'
<1> USE AccountsAssumption
<1> SUFFICES ASSUME NEW t \in Tokens
             PROVE  /\ asset'[t].supplied.shares =
                          SumFunction([b \in Accounts |-> supplied'[b][t] + collateral'[b][t]])
                    /\ asset'[t].borrowed.shares =
                          SumFunction([b \in Accounts |-> borrowed'[b][t]])
  BY DEF SharesConserved
<1> DEFINE held  == [b \in Accounts |-> supplied[b][t] + collateral[b][t]]
           held2 == [b \in Accounts |-> supplied'[b][t] + collateral'[b][t]]
           owed  == [b \in Accounts |-> borrowed[b][t]]
           owed2 == [b \in Accounts |-> borrowed'[b][t]]
<1>1. /\ \A b \in Accounts : held[b] \in Nat /\ held2[b] \in Nat
      /\ \A b \in Accounts : owed[b] \in Nat /\ owed2[b] \in Nat
  BY DEF Inv, TypeOK
<1>2. /\ \A b \in Accounts \ {a} : held[b] = held2[b]
      /\ \A b \in Accounts \ {a} : owed[b] = owed2[b]
  BY DEF Balanced, Held
<1>3. /\ asset[t].supplied.shares = SumFunctionOnSet(held, Accounts)
      /\ asset[t].borrowed.shares = SumFunctionOnSet(owed, Accounts)
  BY DEF Inv, SharesConserved, SumFunction
<1>4. /\ held[a] = Held(a, t) /\ held2[a] = Held(a, t)'
      /\ owed[a] = borrowed[a][t] /\ owed2[a] = borrowed'[a][t]
  BY DEF Held
<1>5. /\ SumFunction(held2) = SumFunctionOnSet(held2, Accounts)
      /\ SumFunction(owed2) = SumFunctionOnSet(owed2, Accounts)
  BY DEF SumFunction
<1> HIDE DEF held, held2, owed, owed2
<1>6. SumFunctionOnSet(held2, Accounts) = SumFunctionOnSet(held, Accounts) - held[a] + held2[a]
  BY <1>1, <1>2, TableSum
<1>7. SumFunctionOnSet(owed2, Accounts) = SumFunctionOnSet(owed, Accounts) - owed[a] + owed2[a]
  BY <1>1, <1>2, TableSum
<1>8. SumFunction(held2) = asset'[t].supplied.shares /\ SumFunction(owed2) = asset'[t].borrowed.shares
  BY <1>3, <1>4, <1>5, <1>6, <1>7 DEF Balanced
<1> QED BY <1>8 DEF held2, owed2

-----------------------------------------------------------------------------
\* g is f but for a's entry for t
OtherEntries(f, g, a, t) ==
    \A b \in Accounts, u \in Tokens : b # a \/ u # t => g[b][u] = f[b][u]

\* A table is unchanged outside of any entry when it is unchanged.
LEMMA SameEntries ==
  ASSUME NEW f, NEW a, NEW t
  PROVE  OtherEntries(f, f, a, t)
BY DEF OtherEntries

\* Adding to one entry of a table.
LEMMA AddType ==
  ASSUME NEW f \in [Accounts -> [Tokens -> Nat]], NEW a \in Accounts, NEW t \in Tokens,
         NEW n \in Nat
  PROVE  /\ Add(f, a, t, n) \in [Accounts -> [Tokens -> Nat]]
         /\ Add(f, a, t, n)[a][t] = f[a][t] + n
         /\ OtherEntries(f, Add(f, a, t, n), a, t)
BY DEF Add, OtherEntries

\* Taking from one entry of a table that has as much.
LEMMA SubType ==
  ASSUME NEW f \in [Accounts -> [Tokens -> Nat]], NEW a \in Accounts, NEW t \in Tokens,
         NEW n \in Nat, n <= f[a][t]
  PROVE  /\ Sub(f, a, t, n) \in [Accounts -> [Tokens -> Nat]]
         /\ Sub(f, a, t, n)[a][t] = f[a][t] - n
         /\ OtherEntries(f, Sub(f, a, t, n), a, t)
BY DEF Sub, OtherEntries

\* Normalizing keeps the shares of both pools and the tokens of the asset: it
\* only moves an orphaned supply to the reserve.
LEMMA NormalizedType ==
  ASSUME NEW as \in AssetType
  PROVE  /\ Normalized(as) \in AssetType
         /\ Normalized(as).supplied.shares = as.supplied.shares
         /\ Normalized(as).borrowed = as.borrowed
         /\ Normalized(as).supplied.balance + Normalized(as).reserved
               = as.supplied.balance + as.reserved
         /\ Normalized(as).beneficiary_fees = as.beneficiary_fees
<1> DEFINE all == as.reserved + as.supplied.balance
<1>0. /\ as.supplied \in PoolType
      /\ as.reserved \in Nat
  BY DEF AssetType
<1>1. CASE as.supplied.shares = 0
  <2>1. EmptyPool \in PoolType /\ EmptyPool.shares = 0 /\ EmptyPool.balance = 0
    BY DEF EmptyPool, PoolType
  <2>2. as.supplied.balance \in Nat
    BY <1>0 DEF PoolType
  <2>3. all \in Nat /\ as.supplied.balance + as.reserved = all /\ 0 + all = all
    <3>1. ASSUME NEW x \in Nat, NEW y \in Nat
          PROVE  x + y \in Nat /\ y + x = x + y /\ 0 + (x + y) = x + y
      OBVIOUS
    <3> QED BY <1>0, <2>2, <3>1
  <2>4. Normalized(as) = [as EXCEPT !.reserved = all, !.supplied = EmptyPool]
    BY <1>1 DEF Normalized
  <2> HIDE DEF all
  <2>5. /\ [as EXCEPT !.reserved = all, !.supplied = EmptyPool] \in AssetType
        /\ [as EXCEPT !.reserved = all, !.supplied = EmptyPool].supplied = EmptyPool
        /\ [as EXCEPT !.reserved = all, !.supplied = EmptyPool].borrowed = as.borrowed
        /\ [as EXCEPT !.reserved = all, !.supplied = EmptyPool].reserved = all
        /\ [as EXCEPT !.reserved = all, !.supplied = EmptyPool].beneficiary_fees
              = as.beneficiary_fees
    BY <2>1, <2>3 DEF AssetType
  <2> QED BY <1>1, <2>1, <2>3, <2>4, <2>5
<1>2. CASE as.supplied.shares # 0
  BY <1>2 DEF Normalized
<1> QED BY <1>1, <1>2

OtherAssets(t) == \A u \in Tokens \ {t} : asset'[u] = asset[u]

\* Saving an asset changes that asset, to its normalized form.
LEMMA SetAssetType ==
  ASSUME TypeOK, NEW t \in Tokens, NEW as \in AssetType, NEW checked,
         SetAsset(t, as, checked)
  PROVE  /\ asset' \in [Tokens -> AssetType]
         /\ asset'[t] = Normalized(as)
         /\ asset'[t].supplied.shares = as.supplied.shares
         /\ asset'[t].borrowed = as.borrowed
         /\ OtherAssets(t)
BY NormalizedType DEF TypeOK, SetAsset, OtherAssets

\* The pools after a deposit, and after a withdrawal.
LEMMA SupplyType ==
  ASSUME NEW as \in AssetType, NEW shares \in Nat, NEW amount \in Nat
  PROVE  /\ Supplied(as, shares, amount) \in AssetType
         /\ Supplied(as, shares, amount).supplied.shares = as.supplied.shares + shares
         /\ Supplied(as, shares, amount).borrowed = as.borrowed
         /\ CanWithdraw(as.supplied, shares, amount) =>
               /\ Unsupplied(as, shares, amount) \in AssetType
               /\ Unsupplied(as, shares, amount).supplied.shares = as.supplied.shares - shares
               /\ Unsupplied(as, shares, amount).borrowed = as.borrowed
<1> DEFINE more == PoolDeposit(as.supplied, shares, amount)
           less == PoolWithdraw(as.supplied, shares, amount)
<1>1. as.supplied \in PoolType
  BY DEF AssetType
<1>2. more \in PoolType /\ more.shares = as.supplied.shares + shares
  BY <1>1, PoolOperations DEF PoolDeposit
<1>3. CanWithdraw(as.supplied, shares, amount) =>
         less \in PoolType /\ less.shares = as.supplied.shares - shares
  BY <1>1, PoolOperations DEF PoolWithdraw
<1>4. Supplied(as, shares, amount) = [as EXCEPT !.supplied = more]
  BY DEF Supplied
<1>5. Unsupplied(as, shares, amount) = [as EXCEPT !.supplied = less]
  BY DEF Unsupplied
<1> HIDE DEF more, less
<1>6. ASSUME NEW pool \in PoolType
      PROVE  /\ [as EXCEPT !.supplied = pool] \in AssetType
             /\ [as EXCEPT !.supplied = pool].supplied = pool
             /\ [as EXCEPT !.supplied = pool].borrowed = as.borrowed
  BY DEF AssetType
<1>7. /\ [as EXCEPT !.supplied = more] \in AssetType
      /\ [as EXCEPT !.supplied = more].supplied = more
      /\ [as EXCEPT !.supplied = more].borrowed = as.borrowed
  BY <1>2, <1>6
<1>8. CanWithdraw(as.supplied, shares, amount) =>
         /\ [as EXCEPT !.supplied = less] \in AssetType
         /\ [as EXCEPT !.supplied = less].supplied = less
         /\ [as EXCEPT !.supplied = less].borrowed = as.borrowed
  BY <1>3, <1>6
<1> QED BY <1>2, <1>3, <1>4, <1>5, <1>7, <1>8

-----------------------------------------------------------------------------
\* What TypeOK says of one asset and of one entry.
LEMMA EntryType ==
  ASSUME TypeOK, NEW a \in Accounts, NEW t \in Tokens
  PROVE  /\ asset[t] \in AssetType
         /\ asset[t].supplied \in PoolType /\ asset[t].borrowed \in PoolType
         /\ asset[t].supplied.shares \in Nat /\ asset[t].supplied.balance \in Nat
         /\ asset[t].borrowed.shares \in Nat /\ asset[t].borrowed.balance \in Nat
         /\ asset[t].reserved \in Nat /\ asset[t].beneficiary_fees \in Nat
         /\ supplied[a][t] \in Nat /\ collateral[a][t] \in Nat /\ borrowed[a][t] \in Nat
<1>1. /\ asset[t] \in AssetType
      /\ supplied[a][t] \in Nat /\ collateral[a][t] \in Nat /\ borrowed[a][t] \in Nat
  BY DEF TypeOK
<1>2. /\ asset[t].supplied \in PoolType /\ asset[t].borrowed \in PoolType
      /\ asset[t].reserved \in Nat /\ asset[t].beneficiary_fees \in Nat
  BY <1>1 DEF AssetType
<1>3. /\ asset[t].supplied.shares \in Nat /\ asset[t].supplied.balance \in Nat
      /\ asset[t].borrowed.shares \in Nat /\ asset[t].borrowed.balance \in Nat
  BY <1>2 DEF PoolType
<1> QED BY <1>1, <1>2, <1>3

\* The step leaves alone what is not a's entry for t.
Elsewhere(a, t) ==
    /\ OtherEntries(supplied, supplied', a, t)
    /\ OtherEntries(collateral, collateral', a, t)
    /\ OtherEntries(borrowed, borrowed', a, t)
    /\ OtherAssets(t)

\* Such a step conserves the shares if it changes a's entry and the pools of t
\* by the same amount.
LEMMA OneEntryChanges ==
  ASSUME Inv, TypeOK', NEW a \in Accounts, NEW t \in Tokens, Elsewhere(a, t),
         asset'[t].supplied.shares + (supplied[a][t] + collateral[a][t])
            = asset[t].supplied.shares + (supplied'[a][t] + collateral'[a][t]),
         asset'[t].borrowed.shares + borrowed[a][t]
            = asset[t].borrowed.shares + borrowed'[a][t]
  PROVE  Inv'
<1>1. ASSUME NEW b \in Accounts \ {a}, NEW u \in Tokens
      PROVE  Held(b, u)' = Held(b, u) /\ borrowed'[b][u] = borrowed[b][u]
  BY DEF Elsewhere, Held, OtherEntries
<1>2. ASSUME NEW u \in Tokens
      PROVE  /\ asset'[u].supplied.shares = asset[u].supplied.shares - Held(a, u) + Held(a, u)'
             /\ asset'[u].borrowed.shares
                   = asset[u].borrowed.shares - borrowed[a][u] + borrowed'[a][u]
  <2>1. /\ asset[u].supplied.shares \in Nat /\ asset[u].borrowed.shares \in Nat
        /\ supplied[a][u] \in Nat /\ collateral[a][u] \in Nat /\ borrowed[a][u] \in Nat
    BY EntryType DEF Inv
  <2>2. /\ asset'[u].supplied.shares \in Nat /\ asset'[u].borrowed.shares \in Nat
        /\ supplied'[a][u] \in Nat /\ collateral'[a][u] \in Nat /\ borrowed'[a][u] \in Nat
    <3>1. /\ asset'[u] \in AssetType
          /\ supplied'[a][u] \in Nat /\ collateral'[a][u] \in Nat /\ borrowed'[a][u] \in Nat
      BY DEF TypeOK
    <3> QED BY <3>1 DEF AssetType, PoolType
  <2>3. Held(a, u) = supplied[a][u] + collateral[a][u]
        /\ Held(a, u)' = supplied'[a][u] + collateral'[a][u]
    BY DEF Held
  <2>4. CASE u = t
    BY <2>1, <2>2, <2>3, <2>4
  <2>5. CASE u # t
    <3>1. /\ asset'[u] = asset[u]
          /\ supplied'[a][u] = supplied[a][u]
          /\ collateral'[a][u] = collateral[a][u]
          /\ borrowed'[a][u] = borrowed[a][u]
      BY <2>5 DEF Elsewhere, OtherEntries, OtherAssets
    <3> QED BY <2>1, <2>3, <3>1
  <2> QED BY <2>4, <2>5
<1>3. Balanced(a)
  BY <1>1, <1>2 DEF Balanced
<1>4. SharesConserved'
  BY <1>3, OneAccountChanges
<1> QED BY <1>4 DEF Inv

-----------------------------------------------------------------------------
\* Tokens that arrive.
LEMMA ArriveType ==
  ASSUME TypeOK, NEW a \in Accounts, NEW t \in Tokens, NEW n \in Amounts, Arrive(a, t, n)
  PROVE  /\ n * Scale \in Nat
         /\ wallet' \in [Accounts -> [Tokens -> Nat]]
         /\ cash' \in [Tokens -> Nat]
<1>1. n \in Nat /\ Scale \in Nat
  BY AmountAssumption, ScaleAssumption
<1>2. n * Scale \in Nat
  BY <1>1, ProductType
<1> DEFINE m == n * Scale
<1>3. m \in Nat /\ m <= wallet[a][t] /\ wallet' = Sub(wallet, a, t, m)
         /\ cash' = [cash EXCEPT ![t] = @ + m]
  BY <1>2 DEF Arrive, TypeOK
<1> HIDE DEF m
<1>4. wallet' \in [Accounts -> [Tokens -> Nat]]
  BY <1>3, SubType DEF TypeOK
<1>5. cash' \in [Tokens -> Nat]
  BY <1>3 DEF TypeOK
<1> QED BY <1>2, <1>4, <1>5

\* Deposit keeps the types and the shares of the pool with their holders.
LEMMA DepositInv ==
  ASSUME Inv, NEW a \in Accounts, NEW t \in Tokens, NEW n \in Amounts, Deposit(a, t, n)
  PROVE  Inv'
<1> DEFINE amount == n * Scale
           shares == AmountToShares(asset[t].supplied, amount, FALSE)
           as     == Supplied(asset[t], shares, amount)
<1>1. TypeOK /\ Arrive(a, t, n) /\ amount \in Nat
  BY ArriveType DEF Inv, Deposit
<1>2. shares \in Nat
  BY <1>1, EntryType, AmountToSharesType
<1>3. /\ SetAsset(t, as, Checked(a))
      /\ supplied' = Add(supplied, a, t, shares)
      /\ UNCHANGED <<registered, collateral, pledged, borrowed, transfer, request, price>>
  BY DEF Deposit
<1> HIDE DEF amount, shares
<1>4. as \in AssetType /\ as.supplied.shares = asset[t].supplied.shares + shares
         /\ as.borrowed = asset[t].borrowed
  BY <1>1, <1>2, EntryType, SupplyType
<1> HIDE DEF as
<1>5. /\ asset' \in [Tokens -> AssetType]
      /\ asset'[t].supplied.shares = as.supplied.shares
      /\ asset'[t].borrowed = as.borrowed
      /\ OtherAssets(t)
  BY <1>1, <1>3, <1>4, SetAssetType
<1>6. /\ supplied' \in [Accounts -> [Tokens -> Nat]]
      /\ supplied'[a][t] = supplied[a][t] + shares
      /\ OtherEntries(supplied, supplied', a, t)
  <2>1. supplied \in [Accounts -> [Tokens -> Nat]]
    BY <1>1 DEF TypeOK
  <2> QED BY <1>2, <1>3, <2>1, AddType
<1>7. TypeOK'
  BY <1>1, <1>3, <1>5, <1>6, ArriveType DEF TypeOK
<1>8. Elsewhere(a, t)
  BY <1>3, <1>5, <1>6, SameEntries DEF Elsewhere
<1>9. /\ asset'[t].supplied.shares + (supplied[a][t] + collateral[a][t])
            = asset[t].supplied.shares + (supplied'[a][t] + collateral'[a][t])
      /\ asset'[t].borrowed.shares + borrowed[a][t]
            = asset[t].borrowed.shares + borrowed'[a][t]
  <2>1. /\ supplied[a][t] \in Nat /\ collateral[a][t] \in Nat /\ borrowed[a][t] \in Nat
        /\ asset[t].supplied.shares \in Nat /\ asset[t].borrowed.shares \in Nat
    BY <1>1, EntryType
  <2> QED BY <1>2, <1>3, <1>4, <1>5, <1>6, <2>1
<1> QED BY <1>7, <1>8, <1>9, OneEntryChanges

\* A pool that has been emptied is a pool.
LEMMA EmptyPoolType == EmptyPool \in PoolType
BY DEF EmptyPool, PoolType

\* The types of the fields of a changed asset.
LEMMA FieldType ==
  ASSUME NEW as \in AssetType, NEW pool \in PoolType, NEW n \in Nat
  PROVE  /\ [as EXCEPT !.supplied = pool] \in AssetType
         /\ [as EXCEPT !.supplied = pool].supplied = pool
         /\ [as EXCEPT !.supplied = pool].borrowed = as.borrowed
         /\ [as EXCEPT !.borrowed = pool] \in AssetType
         /\ [as EXCEPT !.borrowed = pool].supplied = as.supplied
         /\ [as EXCEPT !.borrowed = pool].borrowed = pool
         /\ [as EXCEPT !.reserved = n] \in AssetType
         /\ [as EXCEPT !.reserved = n].supplied = as.supplied
         /\ [as EXCEPT !.reserved = n].borrowed = as.borrowed
         /\ [as EXCEPT !.beneficiary_fees = n] \in AssetType
         /\ [as EXCEPT !.beneficiary_fees = n].supplied = as.supplied
         /\ [as EXCEPT !.beneficiary_fees = n].borrowed = as.borrowed
BY DEF AssetType

\* A change of the collateral and of the list of collateral.
LEMMA PledgeType ==
  ASSUME TypeOK, NEW a \in Accounts, NEW t \in Tokens, NEW n \in Nat, Pledge(a, t, n)
  PROVE  /\ collateral' \in [Accounts -> [Tokens -> Nat]]
         /\ pledged' \in [Accounts -> SUBSET Tokens]
         /\ collateral'[a][t] = collateral[a][t] + n
         /\ OtherEntries(collateral, collateral', a, t)
<1>1. /\ collateral \in [Accounts -> [Tokens -> Nat]]
      /\ pledged \in [Accounts -> SUBSET Tokens]
  BY DEF TypeOK
<1>2. collateral' = Add(collateral, a, t, n) /\ pledged' = [pledged EXCEPT ![a] = @ \cup {t}]
  BY DEF Pledge
<1>3. pledged' \in [Accounts -> SUBSET Tokens]
  BY <1>1, <1>2
<1> QED BY <1>1, <1>2, <1>3, AddType

\* Taking collateral that is there; position.rs decrease_collateral aborts on more.
LEMMA UnpledgeType ==
  ASSUME TypeOK, NEW a \in Accounts, NEW t \in Tokens, NEW n \in Nat, Unpledge(a, t, n)
  PROVE  /\ collateral' \in [Accounts -> [Tokens -> Nat]]
         /\ pledged' \in [Accounts -> SUBSET Tokens]
         /\ n <= collateral[a][t]
         /\ collateral'[a][t] = collateral[a][t] - n
         /\ OtherEntries(collateral, collateral', a, t)
<1>1. /\ collateral \in [Accounts -> [Tokens -> Nat]]
      /\ pledged \in [Accounts -> SUBSET Tokens]
  BY DEF TypeOK
<1>2. /\ n <= collateral[a][t]
      /\ collateral' = Sub(collateral, a, t, n)
      /\ pledged' = [pledged EXCEPT ![a] = IF n = collateral[a][t] THEN @ \ {t} ELSE @]
  BY DEF Unpledge
<1>3. pledged' \in [Accounts -> SUBSET Tokens]
  BY <1>1, <1>2
<1> QED BY <1>1, <1>2, <1>3, SubType

-----------------------------------------------------------------------------
\* only_increase_collateral gives the pool and the position the same shares.
LEMMA OnlyIncreaseCollateralInv ==
  ASSUME Inv, NEW a \in Accounts, NEW t \in Tokens, NEW n \in Amounts,
         OnlyIncreaseCollateral(a, t, n)
  PROVE  Inv'
<1> DEFINE amount == n * Scale
           shares == AmountToShares(asset[t].supplied, amount, FALSE)
           as     == Supplied(asset[t], shares, amount)
<1>1. TypeOK /\ Arrive(a, t, n) /\ amount \in Nat
  BY ArriveType DEF Inv, OnlyIncreaseCollateral
<1>2. shares \in Nat
  BY <1>1, EntryType, AmountToSharesType
<1>3. /\ SetAsset(t, as, Checked(a))
      /\ Pledge(a, t, shares)
      /\ UNCHANGED <<registered, supplied, borrowed, transfer, request, price>>
  BY DEF OnlyIncreaseCollateral
<1> HIDE DEF amount, shares
<1>4. as \in AssetType /\ as.supplied.shares = asset[t].supplied.shares + shares
         /\ as.borrowed = asset[t].borrowed
  BY <1>1, <1>2, EntryType, SupplyType
<1> HIDE DEF as
<1>5. /\ asset' \in [Tokens -> AssetType]
      /\ asset'[t].supplied.shares = as.supplied.shares
      /\ asset'[t].borrowed = as.borrowed
      /\ OtherAssets(t)
  BY <1>1, <1>3, <1>4, SetAssetType
<1>6. /\ collateral' \in [Accounts -> [Tokens -> Nat]]
      /\ pledged' \in [Accounts -> SUBSET Tokens]
      /\ collateral'[a][t] = collateral[a][t] + shares
      /\ OtherEntries(collateral, collateral', a, t)
  BY <1>1, <1>2, <1>3, PledgeType
<1>7. TypeOK'
  BY <1>1, <1>3, <1>5, <1>6, ArriveType DEF TypeOK
<1>8. Elsewhere(a, t)
  BY <1>3, <1>5, <1>6, SameEntries DEF Elsewhere
<1>9. /\ asset'[t].supplied.shares + (supplied[a][t] + collateral[a][t])
            = asset[t].supplied.shares + (supplied'[a][t] + collateral'[a][t])
      /\ asset'[t].borrowed.shares + borrowed[a][t]
            = asset[t].borrowed.shares + borrowed'[a][t]
  <2>1. /\ supplied[a][t] \in Nat /\ collateral[a][t] \in Nat /\ borrowed[a][t] \in Nat
        /\ asset[t].supplied.shares \in Nat /\ asset[t].borrowed.shares \in Nat
    BY <1>1, EntryType
  <2> QED BY <1>2, <1>3, <1>4, <1>5, <1>6, <2>1, SMTT(30)
<1> QED BY <1>7, <1>8, <1>9, OneEntryChanges

\* A deposit to the reserve has no shares.
LEMMA DepositToReserveInv ==
  ASSUME Inv, NEW a \in Accounts, NEW t \in Tokens, NEW n \in Amounts,
         DepositToReserve(a, t, n)
  PROVE  Inv'
<1> DEFINE r  == asset[t].reserved + n * Scale
           as == [asset[t] EXCEPT !.reserved = r]
<1>1. TypeOK /\ Arrive(a, t, n) /\ n * Scale \in Nat
  BY ArriveType DEF Inv, DepositToReserve
<1>2. asset[t] \in AssetType /\ r \in Nat
  BY <1>1, EntryType
<1>3. /\ SetAsset(t, as, Checked(a))
      /\ UNCHANGED <<registered, supplied, collateral, pledged, borrowed, transfer, request,
                     price>>
  BY DEF DepositToReserve
<1> HIDE DEF r
<1>4. as \in AssetType /\ as.supplied = asset[t].supplied /\ as.borrowed = asset[t].borrowed
  BY <1>2, EmptyPoolType, FieldType
<1> HIDE DEF as
<1>5. /\ asset' \in [Tokens -> AssetType]
      /\ asset'[t].supplied.shares = as.supplied.shares
      /\ asset'[t].borrowed = as.borrowed
      /\ OtherAssets(t)
  BY <1>1, <1>3, <1>4, SetAssetType
<1>6. TypeOK'
  BY <1>1, <1>3, <1>5, ArriveType DEF TypeOK
<1>7. Elsewhere(a, t)
  BY <1>3, <1>5, SameEntries DEF Elsewhere
<1> QED BY <1>3, <1>4, <1>5, <1>6, <1>7, OneEntryChanges

-----------------------------------------------------------------------------
\* only_repay takes the debt from the pool and from the account alike, and what
\* is left becomes supply of both.
LEMMA OnlyRepayInv ==
  ASSUME Inv, NEW a \in Accounts, NEW t \in Tokens, NEW n \in Amounts, OnlyRepay(a, t, n)
  PROVE  Inv'
<1> DEFINE amount  == n * Scale
           debt    == borrowed[a][t]
           owed    == SharesToAmount(asset[t].borrowed, debt, TRUE)
           paid    == Least(amount, owed)
           repaid  == IF amount >= owed THEN debt
                      ELSE AmountToShares(asset[t].borrowed, amount, FALSE)
           remain  == amount - paid
           shares  == IF remain > 0 THEN AmountToShares(asset[t].supplied, remain, FALSE) ELSE 0
           pool    == PoolWithdraw(asset[t].borrowed, repaid, paid)
           cleared == [asset[t] EXCEPT !.borrowed = pool]
           as      == Supplied(cleared, shares, remain)
<1>1. TypeOK /\ Arrive(a, t, n) /\ amount \in Nat
  BY ArriveType DEF Inv, OnlyRepay
<1>2. /\ debt \in Nat /\ debt <= asset[t].borrowed.shares
      /\ asset[t] \in AssetType
      /\ asset[t].borrowed \in PoolType /\ asset[t].supplied \in PoolType
  BY <1>1, PartsBound, EntryType
<1>3. owed \in Nat
  <2>1. Convertible(asset[t].borrowed, debt)
    BY <1>2 DEF Convertible
  <2> QED BY <1>2, <2>1, SharesToAmountType
<1>4. /\ repaid <= debt
      /\ CanWithdraw(asset[t].borrowed, repaid, paid)
      /\ SetAsset(t, as, Checked(a))
      /\ supplied' = Add(supplied, a, t, shares)
      /\ borrowed' = Sub(borrowed, a, t, repaid)
      /\ UNCHANGED <<registered, collateral, pledged, transfer, request, price>>
  BY DEF OnlyRepay
<1> HIDE DEF amount, debt, owed
<1>5. repaid \in Nat
  BY <1>1, <1>2, AmountToSharesType
<1>6. paid \in Nat /\ remain \in Nat
  BY <1>1, <1>3 DEF Least
<1> HIDE DEF paid, remain, repaid
<1>7. shares \in Nat
  BY <1>2, <1>6, AmountToSharesType
<1> HIDE DEF shares
<1>8. pool \in PoolType /\ pool.shares = asset[t].borrowed.shares - repaid
  BY <1>2, <1>4, <1>5, <1>6, PoolOperations DEF PoolWithdraw
<1> HIDE DEF pool
<1>9. cleared \in AssetType /\ cleared.supplied = asset[t].supplied /\ cleared.borrowed = pool
  BY <1>2, <1>8, FieldType
<1> HIDE DEF cleared
<1>10. as \in AssetType /\ as.supplied.shares = asset[t].supplied.shares + shares
         /\ as.borrowed = pool
  BY <1>6, <1>7, <1>9, SupplyType
<1> HIDE DEF as
<1>11. /\ asset' \in [Tokens -> AssetType]
       /\ asset'[t].supplied.shares = as.supplied.shares
       /\ asset'[t].borrowed = as.borrowed
       /\ OtherAssets(t)
  BY <1>1, <1>4, <1>10, SetAssetType
<1>12. /\ supplied' \in [Accounts -> [Tokens -> Nat]]
       /\ supplied'[a][t] = supplied[a][t] + shares
       /\ OtherEntries(supplied, supplied', a, t)
  <2>1. supplied \in [Accounts -> [Tokens -> Nat]]
    BY <1>1 DEF TypeOK
  <2> QED BY <1>4, <1>7, <2>1, AddType
<1>13. /\ borrowed' \in [Accounts -> [Tokens -> Nat]]
       /\ borrowed'[a][t] = borrowed[a][t] - repaid
       /\ OtherEntries(borrowed, borrowed', a, t)
  <2>1. borrowed \in [Accounts -> [Tokens -> Nat]]
    BY <1>1 DEF TypeOK
  <2> QED BY <1>4, <1>5, <2>1, SubType DEF debt
<1>14. TypeOK'
  BY <1>1, <1>4, <1>11, <1>12, <1>13, ArriveType DEF TypeOK
<1>15. Elsewhere(a, t)
  BY <1>4, <1>11, <1>12, <1>13, SameEntries DEF Elsewhere
<1>16. /\ asset'[t].supplied.shares + (supplied[a][t] + collateral[a][t])
             = asset[t].supplied.shares + (supplied'[a][t] + collateral'[a][t])
       /\ asset'[t].borrowed.shares + borrowed[a][t]
             = asset[t].borrowed.shares + borrowed'[a][t]
  <2>1. /\ supplied[a][t] \in Nat /\ collateral[a][t] \in Nat /\ borrowed[a][t] \in Nat
        /\ asset[t].supplied.shares \in Nat /\ asset[t].borrowed.shares \in Nat
    BY <1>1, EntryType
  <2>2. /\ asset'[t].supplied.shares = asset[t].supplied.shares + shares
        /\ asset'[t].borrowed.shares = asset[t].borrowed.shares - repaid
        /\ supplied'[a][t] = supplied[a][t] + shares
        /\ collateral'[a][t] = collateral[a][t]
        /\ borrowed'[a][t] = borrowed[a][t] - repaid
    BY <1>4, <1>8, <1>10, <1>11, <1>12, <1>13
  <2> QED BY <1>5, <1>7, <2>1, <2>2
<1> QED BY <1>14, <1>15, <1>16, OneEntryChanges

\* What moves of an account's supply, collateral or debt.
LEMMA HeldMove ==
  ASSUME Inv, NEW a \in Accounts, NEW t \in Tokens, NEW req \in Requests,
         NEW inverse \in BOOLEAN
  PROVE  LET s == AssetAmountToShares(asset[t].supplied, supplied[a][t], req, inverse)
             c == AssetAmountToShares(asset[t].supplied, collateral[a][t], req, inverse)
             b == AssetAmountToShares(asset[t].borrowed, borrowed[a][t], req, inverse)
         IN  /\ s.shares \in Nat /\ s.amount \in Nat
             /\ c.shares \in Nat /\ c.amount \in Nat
             /\ b.shares \in Nat /\ b.amount \in Nat
<1>1. Amounts \in SUBSET Nat /\ req \in RequestsOver(Amounts)
  BY AmountAssumption DEF Requests
<1> QED BY <1>1, PartsBound, HeldMoveType

\* Pledging moves shares of one account from its supply to its collateral.
LEMMA IncreaseCollateralInv ==
  ASSUME Inv, NEW a \in Accounts, NEW t \in Tokens, NEW req \in Requests,
         IncreaseCollateral(a, t, req)
  PROVE  Inv'
<1> DEFINE shares == AssetAmountToShares(asset[t].supplied, supplied[a][t], req, FALSE).shares
<1>1. TypeOK /\ shares \in Nat
  BY HeldMove DEF Inv
<1>2. /\ shares <= supplied[a][t]
      /\ supplied' = Sub(supplied, a, t, shares)
      /\ Pledge(a, t, shares)
      /\ UNCHANGED <<asset, registered, borrowed, transfer, request, price, cash, wallet>>
  BY DEF IncreaseCollateral
<1> HIDE DEF shares
<1>3. /\ supplied' \in [Accounts -> [Tokens -> Nat]]
      /\ supplied'[a][t] = supplied[a][t] - shares
      /\ OtherEntries(supplied, supplied', a, t)
  <2>1. supplied \in [Accounts -> [Tokens -> Nat]]
    BY <1>1 DEF TypeOK
  <2> QED BY <1>1, <1>2, <2>1, SubType
<1>4. /\ collateral' \in [Accounts -> [Tokens -> Nat]]
      /\ pledged' \in [Accounts -> SUBSET Tokens]
      /\ collateral'[a][t] = collateral[a][t] + shares
      /\ OtherEntries(collateral, collateral', a, t)
  BY <1>1, <1>2, PledgeType
<1>5. TypeOK'
  BY <1>1, <1>2, <1>3, <1>4 DEF TypeOK
<1>6. Elsewhere(a, t)
  BY <1>2, <1>3, <1>4, SameEntries DEF Elsewhere, OtherAssets
<1>7. /\ asset'[t].supplied.shares + (supplied[a][t] + collateral[a][t])
            = asset[t].supplied.shares + (supplied'[a][t] + collateral'[a][t])
      /\ asset'[t].borrowed.shares + borrowed[a][t]
            = asset[t].borrowed.shares + borrowed'[a][t]
  <2>1. /\ supplied[a][t] \in Nat /\ collateral[a][t] \in Nat /\ borrowed[a][t] \in Nat
        /\ asset[t].supplied.shares \in Nat /\ asset[t].borrowed.shares \in Nat
    BY <1>1, EntryType
  <2>2. /\ asset' = asset /\ borrowed' = borrowed
        /\ supplied'[a][t] = supplied[a][t] - shares
        /\ collateral'[a][t] = collateral[a][t] + shares
    BY <1>2, <1>3, <1>4
  <2> QED BY <1>1, <2>1, <2>2
<1> QED BY <1>5, <1>6, <1>7, OneEntryChanges

\* Freeing collateral moves them back.
LEMMA DecreaseCollateralInv ==
  ASSUME Inv, NEW a \in Accounts, NEW t \in Tokens, NEW req \in Requests,
         DecreaseCollateral(a, t, req)
  PROVE  Inv'
<1> DEFINE shares == AssetAmountToShares(asset[t].supplied, collateral[a][t], req, FALSE).shares
<1>1. TypeOK /\ shares \in Nat
  BY HeldMove DEF Inv
<1>2. /\ Unpledge(a, t, shares)
      /\ supplied' = Add(supplied, a, t, shares)
      /\ UNCHANGED <<asset, registered, borrowed, transfer, request, price, cash, wallet>>
  BY DEF DecreaseCollateral
<1> HIDE DEF shares
<1>3. /\ supplied' \in [Accounts -> [Tokens -> Nat]]
      /\ supplied'[a][t] = supplied[a][t] + shares
      /\ OtherEntries(supplied, supplied', a, t)
  <2>1. supplied \in [Accounts -> [Tokens -> Nat]]
    BY <1>1 DEF TypeOK
  <2> QED BY <1>1, <1>2, <2>1, AddType
<1>4. /\ collateral' \in [Accounts -> [Tokens -> Nat]]
      /\ pledged' \in [Accounts -> SUBSET Tokens]
      /\ shares <= collateral[a][t]
      /\ collateral'[a][t] = collateral[a][t] - shares
      /\ OtherEntries(collateral, collateral', a, t)
  BY <1>1, <1>2, UnpledgeType
<1>5. TypeOK'
  BY <1>1, <1>2, <1>3, <1>4 DEF TypeOK
<1>6. Elsewhere(a, t)
  BY <1>2, <1>3, <1>4, SameEntries DEF Elsewhere, OtherAssets
<1>7. /\ asset'[t].supplied.shares + (supplied[a][t] + collateral[a][t])
            = asset[t].supplied.shares + (supplied'[a][t] + collateral'[a][t])
      /\ asset'[t].borrowed.shares + borrowed[a][t]
            = asset[t].borrowed.shares + borrowed'[a][t]
  <2>1. /\ supplied[a][t] \in Nat /\ collateral[a][t] \in Nat /\ borrowed[a][t] \in Nat
        /\ asset[t].supplied.shares \in Nat /\ asset[t].borrowed.shares \in Nat
    BY <1>1, EntryType
  <2>2. /\ asset' = asset /\ borrowed' = borrowed
        /\ supplied'[a][t] = supplied[a][t] + shares
        /\ collateral'[a][t] = collateral[a][t] - shares
    BY <1>2, <1>3, <1>4
  <2> QED BY <1>1, <2>1, <2>2
<1> QED BY <1>5, <1>6, <1>7, OneEntryChanges

-----------------------------------------------------------------------------
\* What internal_borrow lends, when shares_to_amount accepts it.
LEMMA BorrowMoveType ==
  ASSUME TypeOK, NEW t \in Tokens, NEW req \in Requests, AvailableAmount(asset[t]) >= 0,
         req.kind # "amount" => Convertible(asset[t].borrowed, BorrowMove(t, req).shares)
  PROVE  BorrowMove(t, req).shares \in Nat /\ BorrowMove(t, req).amount \in Nat
<1> DEFINE free == AmountToShares(asset[t].borrowed, AvailableAmount(asset[t]), FALSE)
<1>1. Amounts \in SUBSET Nat /\ req \in RequestsOver(Amounts)
  BY AmountAssumption DEF Requests
<1>2. /\ asset[t].borrowed \in PoolType
      /\ asset[t].supplied.balance \in Nat /\ asset[t].borrowed.balance \in Nat
      /\ asset[t].reserved \in Nat
  BY DEF TypeOK, AssetType, PoolType
<1>3. AvailableAmount(asset[t]) \in Nat
  BY <1>2 DEF AvailableAmount
<1>4. free \in Nat
  BY <1>2, <1>3, AmountToSharesType
<1>5. BorrowMove(t, req) = AssetAmountToShares(asset[t].borrowed, free, req, FALSE)
  BY DEF BorrowMove
<1> HIDE DEF free
<1> QED BY <1>1, <1>2, <1>4, <1>5, MoveType

\* A loan adds the same debt shares to the pool and the position, and the tokens
\* lent become supply of the borrower.
LEMMA BorrowInv ==
  ASSUME Inv, NEW a \in Accounts, NEW t \in Tokens, NEW req \in Requests, Borrow(a, t, req)
  PROVE  Inv'
<1> DEFINE move   == BorrowMove(t, req)
           ds     == move.shares
           amount == move.amount
           shares == AmountToShares(asset[t].supplied, amount, FALSE)
           pool   == PoolDeposit(asset[t].borrowed, ds, amount)
           lent   == [asset[t] EXCEPT !.borrowed = pool]
           as     == Supplied(lent, shares, amount)
<1>1. /\ TypeOK /\ AvailableAmount(asset[t]) >= 0
      /\ req.kind # "amount" => Convertible(asset[t].borrowed, ds)
  BY DEF Inv, Borrow
<1>2. ds \in Nat /\ amount \in Nat
  BY <1>1, BorrowMoveType
<1>3. /\ SetAsset(t, as, Checked(a))
      /\ borrowed' = Add(borrowed, a, t, ds)
      /\ supplied' = Add(supplied, a, t, shares)
      /\ UNCHANGED <<registered, collateral, pledged, transfer, request, price, cash, wallet>>
  BY DEF Borrow
<1> HIDE DEF move, ds, amount
<1>4. /\ asset[t] \in AssetType
      /\ asset[t].borrowed \in PoolType /\ asset[t].supplied \in PoolType
  BY <1>1, EntryType
<1>5. shares \in Nat
  BY <1>2, <1>4, AmountToSharesType
<1> HIDE DEF shares
<1>6. pool \in PoolType /\ pool.shares = asset[t].borrowed.shares + ds
  BY <1>2, <1>4, PoolOperations DEF PoolDeposit
<1> HIDE DEF pool
<1>7. lent \in AssetType /\ lent.supplied = asset[t].supplied /\ lent.borrowed = pool
  BY <1>4, <1>6, FieldType
<1> HIDE DEF lent
<1>8. as \in AssetType /\ as.supplied.shares = asset[t].supplied.shares + shares
         /\ as.borrowed = pool
  BY <1>2, <1>5, <1>7, SupplyType
<1> HIDE DEF as
<1>9. /\ asset' \in [Tokens -> AssetType]
      /\ asset'[t].supplied.shares = as.supplied.shares
      /\ asset'[t].borrowed = as.borrowed
      /\ OtherAssets(t)
  BY <1>1, <1>3, <1>8, SetAssetType
<1>10. /\ supplied \in [Accounts -> [Tokens -> Nat]]
       /\ borrowed \in [Accounts -> [Tokens -> Nat]]
  BY <1>1 DEF TypeOK
<1>11. /\ supplied' \in [Accounts -> [Tokens -> Nat]]
       /\ supplied'[a][t] = supplied[a][t] + shares
       /\ OtherEntries(supplied, supplied', a, t)
  BY <1>3, <1>5, <1>10, AddType
<1>12. /\ borrowed' \in [Accounts -> [Tokens -> Nat]]
       /\ borrowed'[a][t] = borrowed[a][t] + ds
       /\ OtherEntries(borrowed, borrowed', a, t)
  BY <1>2, <1>3, <1>10, AddType
<1>13. TypeOK'
  BY <1>1, <1>3, <1>9, <1>11, <1>12 DEF TypeOK
<1>14. Elsewhere(a, t)
  BY <1>3, <1>9, <1>11, <1>12, SameEntries DEF Elsewhere
<1>15. /\ asset'[t].supplied.shares + (supplied[a][t] + collateral[a][t])
             = asset[t].supplied.shares + (supplied'[a][t] + collateral'[a][t])
       /\ asset'[t].borrowed.shares + borrowed[a][t]
             = asset[t].borrowed.shares + borrowed'[a][t]
  <2>1. /\ supplied[a][t] \in Nat /\ collateral[a][t] \in Nat /\ borrowed[a][t] \in Nat
        /\ asset[t].supplied.shares \in Nat /\ asset[t].borrowed.shares \in Nat
    BY <1>1, EntryType
  <2>2. /\ asset'[t].supplied.shares = asset[t].supplied.shares + shares
        /\ asset'[t].borrowed.shares = asset[t].borrowed.shares + ds
        /\ supplied'[a][t] = supplied[a][t] + shares
        /\ collateral'[a][t] = collateral[a][t]
        /\ borrowed'[a][t] = borrowed[a][t] + ds
    BY <1>3, <1>6, <1>8, <1>9, <1>11, <1>12
  <2> QED BY <1>2, <1>5, <2>1, <2>2
<1> QED BY <1>13, <1>14, <1>15, OneEntryChanges

\* What a repayment takes from the payer, who holds it, and from the debt.
LEMMA RepayMoveType ==
  ASSUME Inv, NEW payer \in Accounts, NEW debtor \in Accounts, NEW t \in Tokens,
         NEW req \in Requests
  PROVE  LET move == RepayMove(payer, debtor, t, req)
         IN  /\ move.burnt \in Nat /\ move.burnt <= supplied[payer][t]
             /\ move.repaid \in Nat
             /\ move.amount \in Nat
<1> DEFINE whole == AssetAmountToShares(asset[t].borrowed, borrowed[debtor][t], req, TRUE)
           cost  == AmountToShares(asset[t].supplied, whole.amount, TRUE)
           all   == SharesToAmount(asset[t].supplied, supplied[payer][t], FALSE)
           part  == AmountToShares(asset[t].borrowed, all, FALSE)
<1>1. whole.shares \in Nat /\ whole.amount \in Nat
  BY HeldMove
<1>2. /\ asset[t].borrowed \in PoolType /\ asset[t].supplied \in PoolType
      /\ supplied[payer][t] \in Nat
      /\ Convertible(asset[t].supplied, supplied[payer][t])
  BY PartsBound DEF Convertible
<1>3. all \in Nat
  BY <1>2, SharesToAmountType
<1>4. cost \in Nat
  BY <1>1, <1>2, AmountToSharesType
<1>5. part \in Nat
  BY <1>2, <1>3, AmountToSharesType
<1>6. RepayMove(payer, debtor, t, req) =
        IF cost <= supplied[payer][t]
        THEN [burnt |-> cost, repaid |-> whole.shares, amount |-> whole.amount]
        ELSE [burnt |-> supplied[payer][t], repaid |-> part, amount |-> all]
  BY DEF RepayMove
<1> HIDE DEF whole, cost, all, part
<1>7. CASE cost <= supplied[payer][t]
  <2>1. RepayMove(payer, debtor, t, req) =
          [burnt |-> cost, repaid |-> whole.shares, amount |-> whole.amount]
    BY <1>6, <1>7
  <2> QED BY <1>1, <1>4, <1>7, <2>1
<1>8. CASE ~ (cost <= supplied[payer][t])
  <2>1. RepayMove(payer, debtor, t, req) =
          [burnt |-> supplied[payer][t], repaid |-> part, amount |-> all]
    BY <1>6, <1>8
  <2> QED BY <1>2, <1>3, <1>5, <2>1
<1> QED BY <1>7, <1>8

\* The asset after a repayment.
LEMMA RepaidType ==
  ASSUME NEW as \in AssetType, NEW move, move.burnt \in Nat, move.repaid \in Nat,
         move.amount \in Nat,
         CanWithdraw(as.supplied, move.burnt, move.amount),
         CanWithdraw(as.borrowed, move.repaid, move.amount)
  PROVE  /\ Repaid(as, move) \in AssetType
         /\ Repaid(as, move).supplied.shares = as.supplied.shares - move.burnt
         /\ Repaid(as, move).borrowed.shares = as.borrowed.shares - move.repaid
<1> DEFINE less == Unsupplied(as, move.burnt, move.amount)
           pool == PoolWithdraw(as.borrowed, move.repaid, move.amount)
<1>1. as.borrowed \in PoolType
  BY DEF AssetType
<1>2. less \in AssetType /\ less.supplied.shares = as.supplied.shares - move.burnt
         /\ less.borrowed = as.borrowed
  BY SupplyType
<1>3. pool \in PoolType /\ pool.shares = as.borrowed.shares - move.repaid
  BY <1>1, PoolOperations DEF PoolWithdraw
<1>4. Repaid(as, move) = [less EXCEPT !.borrowed = pool]
  BY <1>2 DEF Repaid
<1> HIDE DEF less, pool
<1>5. /\ [less EXCEPT !.borrowed = pool] \in AssetType
      /\ [less EXCEPT !.borrowed = pool].supplied = less.supplied
      /\ [less EXCEPT !.borrowed = pool].borrowed = pool
  BY <1>2, <1>3, FieldType
<1> QED BY <1>2, <1>3, <1>4, <1>5

\* A repayment burns supply and debt shares of one account and of both pools.
LEMMA RepayInv ==
  ASSUME Inv, NEW a \in Accounts, NEW t \in Tokens, NEW req \in Requests, Repay(a, t, req)
  PROVE  Inv'
<1> DEFINE move == RepayMove(a, a, t, req)
           as   == Repaid(asset[t], move)
<1>1. TypeOK /\ asset[t] \in AssetType
  BY EntryType DEF Inv
<1>2. /\ move.burnt \in Nat /\ move.burnt <= supplied[a][t]
      /\ move.repaid \in Nat /\ move.amount \in Nat
  BY RepayMoveType
<1>3. /\ move.repaid <= borrowed[a][t]
      /\ CanWithdraw(asset[t].supplied, move.burnt, move.amount)
      /\ CanWithdraw(asset[t].borrowed, move.repaid, move.amount)
      /\ SetAsset(t, as, Checked(a))
      /\ supplied' = Sub(supplied, a, t, move.burnt)
      /\ borrowed' = Sub(borrowed, a, t, move.repaid)
      /\ UNCHANGED <<registered, collateral, pledged, transfer, request, price, cash, wallet>>
  BY DEF Repay, CanRepay
<1> HIDE DEF move
<1>4. as \in AssetType /\ as.supplied.shares = asset[t].supplied.shares - move.burnt
         /\ as.borrowed.shares = asset[t].borrowed.shares - move.repaid
  BY <1>1, <1>2, <1>3, RepaidType
<1> HIDE DEF as
<1>5. /\ asset' \in [Tokens -> AssetType]
      /\ asset'[t].supplied.shares = as.supplied.shares
      /\ asset'[t].borrowed = as.borrowed
      /\ OtherAssets(t)
  BY <1>1, <1>3, <1>4, SetAssetType
<1>6. /\ supplied \in [Accounts -> [Tokens -> Nat]]
      /\ borrowed \in [Accounts -> [Tokens -> Nat]]
  BY <1>1 DEF TypeOK
<1>7. /\ supplied' \in [Accounts -> [Tokens -> Nat]]
      /\ supplied'[a][t] = supplied[a][t] - move.burnt
      /\ OtherEntries(supplied, supplied', a, t)
  BY <1>2, <1>3, <1>6, SubType, ZenonT(30)
<1>8. /\ borrowed' \in [Accounts -> [Tokens -> Nat]]
      /\ borrowed'[a][t] = borrowed[a][t] - move.repaid
      /\ OtherEntries(borrowed, borrowed', a, t)
  BY <1>2, <1>3, <1>6, SubType
<1>9. TypeOK'
  BY <1>1, <1>3, <1>5, <1>7, <1>8 DEF TypeOK
<1>10. Elsewhere(a, t)
  BY <1>3, <1>5, <1>7, <1>8, SameEntries DEF Elsewhere
<1>11. /\ asset'[t].supplied.shares + (supplied[a][t] + collateral[a][t])
             = asset[t].supplied.shares + (supplied'[a][t] + collateral'[a][t])
       /\ asset'[t].borrowed.shares + borrowed[a][t]
             = asset[t].borrowed.shares + borrowed'[a][t]
  <2>1. /\ supplied[a][t] \in Nat /\ collateral[a][t] \in Nat /\ borrowed[a][t] \in Nat
        /\ asset[t].supplied.shares \in Nat /\ asset[t].borrowed.shares \in Nat
    BY <1>1, EntryType
  <2>2. /\ asset'[t].supplied.shares = asset[t].supplied.shares - move.burnt
        /\ asset'[t].borrowed.shares = asset[t].borrowed.shares - move.repaid
        /\ supplied'[a][t] = supplied[a][t] - move.burnt
        /\ collateral'[a][t] = collateral[a][t]
        /\ borrowed'[a][t] = borrowed[a][t] - move.repaid
    BY <1>3, <1>4, <1>5, <1>7, <1>8
  <2> QED BY <1>2, <2>1, <2>2
<1> QED BY <1>9, <1>10, <1>11, OneEntryChanges

-----------------------------------------------------------------------------
\* A transfer that starts fits in its slot.
LEMMA StartType ==
  ASSUME TypeOK, NEW a \in Accounts, NEW recipient \in Accounts, NEW t \in Tokens,
         NEW amount \in Nat,
         NEW kind \in {"after_ft_transfer", "after_ft_transfer_call",
                       "after_beneficiary_withdraw"},
         Start(kind, a, recipient, t, amount)
  PROVE  transfer' \in [Slots -> TransferType \cup {NoTransfer}]
<1> DEFINE ft == amount \div Scale
           tr == [kind |-> kind, account |-> a, recipient |-> recipient, token |-> t,
                  amount |-> amount, ft_amount |-> ft]
<1>1. ft \in Nat
  BY ScaleAssumption, Quotient
<1>2. PICK s \in Slots : transfer' = [transfer EXCEPT ![s] = tr]
  BY DEF Start
<1> HIDE DEF ft
<1>3. tr \in TransferType
  BY <1>1 DEF TransferType
<1> HIDE DEF tr
<1> QED BY <1>2, <1>3 DEF TypeOK

\* A step that burns shares of an account's supply and saves the asset.
LEMMA BurnInv ==
  ASSUME Inv, NEW a \in Accounts, NEW t \in Tokens, NEW shares \in Nat, NEW amount \in Nat,
         NEW checked,
         shares <= supplied[a][t],
         CanWithdraw(asset[t].supplied, shares, amount),
         SetAsset(t, Unsupplied(asset[t], shares, amount), checked),
         supplied' = Sub(supplied, a, t, shares),
         transfer' \in [Slots -> TransferType \cup {NoTransfer}],
         UNCHANGED <<registered, collateral, pledged, borrowed, request, price, cash, wallet>>
  PROVE  Inv'
<1> DEFINE as == Unsupplied(asset[t], shares, amount)
<1>1. TypeOK /\ asset[t] \in AssetType
  BY EntryType DEF Inv
<1>2. as \in AssetType /\ as.supplied.shares = asset[t].supplied.shares - shares
         /\ as.borrowed = asset[t].borrowed
  BY <1>1, SupplyType
<1>3. SetAsset(t, as, checked)
  OBVIOUS
<1> HIDE DEF as
<1>4. /\ asset' \in [Tokens -> AssetType]
      /\ asset'[t].supplied.shares = as.supplied.shares
      /\ asset'[t].borrowed = as.borrowed
      /\ OtherAssets(t)
  BY <1>1, <1>2, <1>3, SetAssetType
<1>5. supplied \in [Accounts -> [Tokens -> Nat]]
  BY <1>1 DEF TypeOK
<1>6. /\ supplied' \in [Accounts -> [Tokens -> Nat]]
      /\ supplied'[a][t] = supplied[a][t] - shares
      /\ OtherEntries(supplied, supplied', a, t)
  BY <1>5, SubType
<1>7. TypeOK'
  BY <1>1, <1>4, <1>6 DEF TypeOK
<1>8. Elsewhere(a, t)
  BY <1>4, <1>6, SameEntries DEF Elsewhere
<1>9. /\ asset'[t].supplied.shares + (supplied[a][t] + collateral[a][t])
            = asset[t].supplied.shares + (supplied'[a][t] + collateral'[a][t])
      /\ asset'[t].borrowed.shares + borrowed[a][t]
            = asset[t].borrowed.shares + borrowed'[a][t]
  <2>1. /\ supplied[a][t] \in Nat /\ collateral[a][t] \in Nat /\ borrowed[a][t] \in Nat
        /\ asset[t].supplied.shares \in Nat /\ asset[t].borrowed.shares \in Nat
    BY <1>1, EntryType
  <2>2. /\ asset'[t].supplied.shares = asset[t].supplied.shares - shares
        /\ asset'[t].borrowed = asset[t].borrowed
        /\ supplied'[a][t] = supplied[a][t] - shares
        /\ collateral' = collateral /\ borrowed' = borrowed
    BY <1>2, <1>4, <1>6
  <2> QED BY <2>1, <2>2
<1> QED BY <1>7, <1>8, <1>9, OneEntryChanges

\* A withdrawal burns what internal_withdraw computes from the supply.
LEMMA WithdrawInv ==
  ASSUME Inv, NEW a \in Accounts, NEW t \in Tokens, NEW req \in Requests,
         NEW kind \in {"after_ft_transfer", "after_ft_transfer_call"},
         Withdraw(a, t, req, kind)
  PROVE  Inv'
<1> DEFINE move == AssetAmountToShares(asset[t].supplied, supplied[a][t], req, FALSE)
           shares == move.shares
           amount == move.amount
<1>1. shares \in Nat /\ amount \in Nat
  BY HeldMove
<1>2. /\ shares <= supplied[a][t]
      /\ CanWithdraw(asset[t].supplied, shares, amount)
      /\ SetAsset(t, Unsupplied(asset[t], shares, amount), Checked(a))
      /\ supplied' = Sub(supplied, a, t, shares)
      /\ Start(kind, a, a, t, amount)
      /\ UNCHANGED <<registered, collateral, pledged, borrowed, request, price, cash, wallet>>
  BY DEF Withdraw, CanBurn
<1> HIDE DEF move, shares, amount
<1>3. transfer' \in [Slots -> TransferType \cup {NoTransfer}]
  BY <1>1, <1>2, StartType DEF Inv
<1> QED BY <1>1, <1>2, <1>3, BurnInv

\* client_echo_withdraw_by_shares burns the shares its caller names.
LEMMA WithdrawBySharesInv ==
  ASSUME Inv, NEW a \in Accounts, NEW t \in Tokens, NEW shares \in Amounts,
         WithdrawByShares(a, t, shares)
  PROVE  Inv'
<1> DEFINE amount == SharesToAmount(asset[t].supplied, shares, FALSE)
<1>1. /\ shares \in Nat /\ supplied[a][t] \in Nat
      /\ asset[t].supplied \in PoolType /\ asset[t].supplied.shares \in Nat
      /\ supplied[a][t] <= asset[t].supplied.shares
  BY AmountAssumption, PartsBound DEF PoolType
<1>2. /\ shares <= supplied[a][t]
      /\ CanWithdraw(asset[t].supplied, shares, amount)
      /\ SetAsset(t, Unsupplied(asset[t], shares, amount), TRUE)
      /\ supplied' = Sub(supplied, a, t, shares)
      /\ Start("after_ft_transfer_call", a, a, t, amount) \/ UNCHANGED transfer
      /\ UNCHANGED <<registered, collateral, pledged, borrowed, request, price, cash, wallet>>
  BY DEF WithdrawByShares
<1>3. amount \in Nat
  <2>1. Convertible(asset[t].supplied, shares)
    BY <1>1, <1>2 DEF Convertible
  <2> QED BY <1>1, <2>1, SharesToAmountType
<1> HIDE DEF amount
<1>4. transfer' \in [Slots -> TransferType \cup {NoTransfer}]
  <2>1. CASE Start("after_ft_transfer_call", a, a, t, amount)
    BY <1>3, <2>1, StartType DEF Inv
  <2>2. CASE UNCHANGED transfer
    BY <2>2 DEF Inv, TypeOK
  <2> QED BY <1>2, <2>1, <2>2
<1> QED BY <1>1, <1>2, <1>3, <1>4, BurnInv

\* What an exact amount is worth in shares of the supply.
LEMMA ExactMove ==
  ASSUME TypeOK, NEW t \in Tokens, NEW n \in Nat, NEW held
  PROVE  LET move == AssetAmountToShares(asset[t].supplied, held, Exactly(n), FALSE)
         IN  move.shares \in Nat /\ move.amount = n
<1> DEFINE wanted == AmountToShares(asset[t].supplied, n, TRUE)
<1>1. asset[t].supplied \in PoolType
  BY DEF TypeOK, AssetType
<1>2. wanted \in Nat
  BY <1>1, AmountToSharesType
<1>3. Exactly(n).kind = "amount" /\ Exactly(n).value = n
  BY DEF Exactly
<1>4. ~FALSE = TRUE
  OBVIOUS
<1> DEFINE move == AssetAmountToShares(asset[t].supplied, held, Exactly(n), FALSE)
<1>5. move.shares = wanted /\ move.amount = n
  BY <1>3, <1>4 DEF AssetAmountToShares
<1> QED BY <1>2, <1>5

\* simple_withdraw without a gap burns supply alone.
LEMMA SimpleWithdrawInv ==
  ASSUME Inv, NEW a \in Accounts, NEW t \in Tokens, NEW total \in SimpleAmounts,
         NEW recipient \in Accounts, SimpleWithdraw(a, t, total, recipient)
  PROVE  Inv'
<1> DEFINE move == AssetAmountToShares(asset[t].supplied, supplied[a][t], Exactly(total), FALSE)
           shares == move.shares
<1>1. total \in Nat
  BY AmountAssumption
<1>2. shares \in Nat /\ move.amount = total
  BY <1>1, ExactMove DEF Inv
<1>3. /\ shares <= supplied[a][t]
      /\ CanWithdraw(asset[t].supplied, shares, move.amount)
      /\ SetAsset(t, Unsupplied(asset[t], shares, total), TRUE)
      /\ supplied' = Sub(supplied, a, t, shares)
      /\ Start("after_ft_transfer", a, recipient, t, total)
      /\ UNCHANGED <<registered, collateral, pledged, borrowed, request, price, cash, wallet>>
  BY DEF SimpleWithdraw, CanBurn
<1> HIDE DEF move, shares
<1>4. transfer' \in [Slots -> TransferType \cup {NoTransfer}]
  BY <1>1, <1>3, StartType DEF Inv
<1> QED BY <1>1, <1>2, <1>3, <1>4, BurnInv

-----------------------------------------------------------------------------
\* simple_withdraw with a gap: the collateral freed is withdrawn as well.
LEMMA WithdrawWithGapInv ==
  ASSUME Inv, NEW a \in Accounts, NEW t \in Tokens, NEW total \in Nat, NEW gap \in Nat,
         NEW recipient \in Accounts, WithdrawWithGap(a, t, total, gap, recipient),
         request' \in [Accounts -> RequestType \cup {NoRequest}]
  PROVE  Inv'
<1> DEFINE freed  == AssetAmountToShares(asset[t].supplied, collateral[a][t], Exactly(gap), FALSE)
           move   == AssetAmountToShares(asset[t].supplied, 0, Exactly(total), FALSE)
           back   == freed.shares
           shares == move.shares
           as     == Unsupplied(asset[t], shares, total)
<1>1. /\ TypeOK /\ asset[t] \in AssetType
      /\ supplied \in [Accounts -> [Tokens -> Nat]]
      /\ back \in Nat /\ shares \in Nat /\ move.amount = total
  BY ExactMove, EntryType DEF Inv, TypeOK
<1>2. /\ Unpledge(a, t, back)
      /\ shares <= supplied[a][t] + back
      /\ CanWithdraw(asset[t].supplied, shares, move.amount)
      /\ SetAsset(t, as, TRUE)
      /\ supplied' = [supplied EXCEPT ![a][t] = @ + back - shares]
      /\ Start("after_ft_transfer", a, recipient, t, total)
      /\ UNCHANGED <<registered, borrowed, price, cash, wallet>>
  BY DEF WithdrawWithGap, CanBurn
<1> HIDE DEF freed, move, back, shares
<1>3. as \in AssetType /\ as.supplied.shares = asset[t].supplied.shares - shares
         /\ as.borrowed = asset[t].borrowed
  <2>1. CanWithdraw(asset[t].supplied, shares, total)
    BY <1>1, <1>2
  <2>2. asset[t] \in AssetType /\ shares \in Nat
    BY <1>1
  <2> QED BY <2>1, <2>2, SupplyType
<1> HIDE DEF as
<1>4. /\ asset' \in [Tokens -> AssetType]
      /\ asset'[t].supplied.shares = as.supplied.shares
      /\ asset'[t].borrowed = as.borrowed
      /\ OtherAssets(t)
  BY <1>1, <1>2, <1>3, SetAssetType
<1>5. /\ collateral' \in [Accounts -> [Tokens -> Nat]]
      /\ pledged' \in [Accounts -> SUBSET Tokens]
      /\ back <= collateral[a][t]
      /\ collateral'[a][t] = collateral[a][t] - back
      /\ OtherEntries(collateral, collateral', a, t)
  BY <1>1, <1>2, UnpledgeType
<1>6. /\ supplied' \in [Accounts -> [Tokens -> Nat]]
      /\ supplied'[a][t] = supplied[a][t] + back - shares
      /\ OtherEntries(supplied, supplied', a, t)
  BY <1>1, <1>2 DEF OtherEntries
<1>7. transfer' \in [Slots -> TransferType \cup {NoTransfer}]
  BY <1>1, <1>2, StartType
<1>8. TypeOK'
  BY <1>1, <1>2, <1>4, <1>5, <1>6, <1>7 DEF TypeOK
<1>9. Elsewhere(a, t)
  BY <1>2, <1>4, <1>5, <1>6, SameEntries DEF Elsewhere
<1>10. /\ asset'[t].supplied.shares + (supplied[a][t] + collateral[a][t])
             = asset[t].supplied.shares + (supplied'[a][t] + collateral'[a][t])
       /\ asset'[t].borrowed.shares + borrowed[a][t]
             = asset[t].borrowed.shares + borrowed'[a][t]
  <2>1. /\ supplied[a][t] \in Nat /\ collateral[a][t] \in Nat /\ borrowed[a][t] \in Nat
        /\ asset[t].supplied.shares \in Nat /\ asset[t].borrowed.shares \in Nat
    BY <1>1, EntryType
  <2>2. /\ asset'[t].supplied.shares = asset[t].supplied.shares - shares
        /\ asset'[t].borrowed = asset[t].borrowed /\ borrowed' = borrowed
        /\ supplied'[a][t] = supplied[a][t] + back - shares
        /\ collateral'[a][t] = collateral[a][t] - back
    BY <1>2, <1>3, <1>4, <1>5, <1>6
  <2> QED BY <1>1, <2>1, <2>2
<1> QED BY <1>8, <1>9, <1>10, OneEntryChanges

\* The gap of a withdrawal is a number of tokens.
LEMMA GapType ==
  ASSUME Inv, NEW a \in Accounts, NEW t \in Tokens, NEW total \in Nat
  PROVE  Gap(a, t, total) \in Nat
<1> DEFINE held == SharesToAmount(asset[t].supplied, supplied[a][t], FALSE)
<1>1. /\ asset[t].supplied \in PoolType /\ supplied[a][t] \in Nat
      /\ Convertible(asset[t].supplied, supplied[a][t])
  BY PartsBound DEF Convertible
<1>2. held \in Nat
  BY <1>1, SharesToAmountType
<1>3. Gap(a, t, total) = IF supplied[a][t] = 0 THEN total
                         ELSE IF held >= total THEN 0 ELSE total - held
  BY DEF Gap
<1> HIDE DEF held
<1> QED BY <1>2, <1>3

\* simple_withdraw with a gap and known prices.
LEMMA SimpleWithdrawNowInv ==
  ASSUME Inv, NEW a \in Accounts, NEW t \in Tokens, NEW total \in SimpleAmounts,
         NEW recipient \in Accounts, SimpleWithdrawNow(a, t, total, recipient)
  PROVE  Inv'
<1> DEFINE gap == Gap(a, t, total)
<1>1. total \in Nat /\ gap \in Nat
  BY AmountAssumption, GapType
<1>2. WithdrawWithGap(a, t, total, gap, recipient) /\ UNCHANGED request
  BY DEF SimpleWithdrawNow
<1>3. request' \in [Accounts -> RequestType \cup {NoRequest}]
  BY <1>2 DEF Inv, TypeOK
<1> HIDE DEF gap
<1> QED BY <1>1, <1>2, <1>3, WithdrawWithGapInv

\* A step that leaves the shares alone conserves them.
LEMMA SharesUntouched ==
  ASSUME SharesConserved, UNCHANGED <<supplied, collateral, borrowed>>,
         \A t \in Tokens : /\ asset'[t].supplied.shares = asset[t].supplied.shares
                           /\ asset'[t].borrowed.shares = asset[t].borrowed.shares
  PROVE  SharesConserved'
BY DEF SharesConserved

\* Waiting for the oracle changes the request of one account.
LEMMA RequestInv ==
  ASSUME Inv, NEW a \in Accounts, NEW r \in RequestType \cup {NoRequest},
         request' = [request EXCEPT ![a] = r],
         UNCHANGED <<asset, registered, supplied, collateral, pledged, borrowed, transfer,
                     price, cash, wallet>>
  PROVE  Inv'
<1>1. request' \in [Accounts -> RequestType \cup {NoRequest}]
  BY DEF Inv, TypeOK
<1>2. TypeOK'
  BY <1>1 DEF Inv, TypeOK
<1>3. SharesConserved'
  BY SharesUntouched DEF Inv
<1> QED BY <1>2, <1>3 DEF Inv

\* simple_withdraw that asks the oracle remembers a request and moves nothing.
LEMMA SimpleWithdrawAskInv ==
  ASSUME Inv, NEW a \in Accounts, NEW t \in Tokens, NEW total \in SimpleAmounts,
         NEW recipient \in Accounts, SimpleWithdrawAsk(a, t, total, recipient)
  PROVE  Inv'
<1> DEFINE gap == Gap(a, t, total)
           r   == [token |-> t, total |-> total, gap |-> gap, recipient |-> recipient]
<1>1. total \in Nat /\ gap \in Nat
  BY AmountAssumption, GapType
<1>2. /\ request' = [request EXCEPT ![a] = r]
      /\ UNCHANGED <<asset, registered, supplied, collateral, pledged, borrowed, transfer,
                     price, cash, wallet>>
  BY DEF SimpleWithdrawAsk
<1> HIDE DEF gap
<1>3. r \in RequestType \cup {NoRequest}
  BY <1>1 DEF RequestType
<1> HIDE DEF r
<1> QED BY <1>2, <1>3, RequestInv

\* A request that is dropped moves nothing.
LEMMA SimpleWithdrawAbortInv ==
  ASSUME Inv, NEW a \in Accounts, SimpleWithdrawAbort(a)
  PROVE  Inv'
<1>1. /\ request' = [request EXCEPT ![a] = NoRequest]
      /\ UNCHANGED <<asset, registered, supplied, collateral, pledged, borrowed, transfer,
                     price, cash, wallet>>
  BY DEF SimpleWithdrawAbort
<1> QED BY <1>1, RequestInv

\* The oracle's answer resumes the withdrawal with the remembered gap: the
\* shares are checked against the account and the pool of now.
LEMMA SimpleWithdrawResumeInv ==
  ASSUME Inv, NEW a \in Accounts, SimpleWithdrawResume(a)
  PROVE  Inv'
<1> DEFINE r == request[a]
<1>1. /\ r # NoRequest
      /\ WithdrawWithGap(a, r.token, r.total, r.gap, r.recipient)
      /\ request' = [request EXCEPT ![a] = NoRequest]
  BY DEF SimpleWithdrawResume
<1>2. request \in [Accounts -> RequestType \cup {NoRequest}]
  BY DEF Inv, TypeOK
<1>3. r \in RequestType
  BY <1>1, <1>2
<1>4. request' \in [Accounts -> RequestType \cup {NoRequest}]
  BY <1>1, <1>2
<1> HIDE DEF r
<1>5. r.token \in Tokens /\ r.total \in Nat /\ r.gap \in Nat /\ r.recipient \in Accounts
  BY <1>3 DEF RequestType
<1> QED BY <1>1, <1>4, <1>5, WithdrawWithGapInv

-----------------------------------------------------------------------------
\* A transfer under way, and what the token contract's answer changes.
LEMMA AnsweredType ==
  ASSUME TypeOK, NEW s \in Slots, NEW used \in 0 .. transfer[s].ft_amount, Answered(s, used)
  PROVE  /\ transfer[s] \in TransferType /\ used \in Nat
         /\ transfer[s].account \in Accounts /\ transfer[s].token \in Tokens
         /\ transfer[s].amount \in Nat /\ transfer[s].ft_amount \in Nat
         /\ cash' \in [Tokens -> Nat]
         /\ wallet' \in [Accounts -> [Tokens -> Nat]]
         /\ transfer' \in [Slots -> TransferType \cup {NoTransfer}]
         /\ UNCHANGED <<registered, collateral, pledged, borrowed, request, price>>
<1> DEFINE tr   == transfer[s]
           paid == used * Scale
<1>1. /\ transfer \in [Slots -> TransferType \cup {NoTransfer}]
      /\ cash \in [Tokens -> Nat]
      /\ wallet \in [Accounts -> [Tokens -> Nat]]
  BY DEF TypeOK
<1>2. /\ tr # NoTransfer
      /\ paid <= cash[tr.token]
      /\ cash' = [cash EXCEPT ![tr.token] = @ - paid]
      /\ wallet' = Add(wallet, tr.recipient, tr.token, paid)
      /\ transfer' = [transfer EXCEPT ![s] = NoTransfer]
      /\ UNCHANGED <<registered, collateral, pledged, borrowed, request, price>>
  <2>1. /\ cash[tr.token] >= paid
        /\ tr # NoTransfer
        /\ cash' = [cash EXCEPT ![tr.token] = @ - paid]
        /\ wallet' = Add(wallet, tr.recipient, tr.token, paid)
        /\ transfer' = [transfer EXCEPT ![s] = NoTransfer]
        /\ UNCHANGED <<registered, collateral, pledged, borrowed, request, price>>
    BY DEF Answered
  <2> HIDE DEF tr, paid
  <2>2. ASSUME NEW x, NEW y, x >= y PROVE y <= x
    BY <2>2
  <2> QED BY <2>1, <2>2
<1>3. tr \in TransferType
  BY <1>1, <1>2
<1>4. /\ tr.account \in Accounts /\ tr.recipient \in Accounts /\ tr.token \in Tokens
      /\ tr.amount \in Nat /\ tr.ft_amount \in Nat
  BY <1>3 DEF TransferType
<1>5. used \in Nat
  BY <1>4
<1>6. paid \in Nat
  BY <1>5, ScaleAssumption, ProductType
<1> HIDE DEF tr, paid
<1>7. cash' \in [Tokens -> Nat]
  BY <1>1, <1>2, <1>4, <1>6
<1>8. wallet' \in [Accounts -> [Tokens -> Nat]]
  BY <1>1, <1>2, <1>4, <1>6, AddType
<1>9. transfer' \in [Slots -> TransferType \cup {NoTransfer}]
  BY <1>1, <1>2
<1> QED BY <1>2, <1>3, <1>4, <1>5, <1>7, <1>8, <1>9 DEF tr

\* The same when the asset keeps its pools.
LEMMA AnsweredInv ==
  ASSUME Inv, NEW s \in Slots, NEW used \in 0 .. transfer[s].ft_amount, Answered(s, used),
         UNCHANGED supplied, asset' \in [Tokens -> AssetType],
         \A t \in Tokens : /\ asset'[t].supplied.shares = asset[t].supplied.shares
                           /\ asset'[t].borrowed.shares = asset[t].borrowed.shares
  PROVE  Inv'
<1>1. /\ cash' \in [Tokens -> Nat]
      /\ wallet' \in [Accounts -> [Tokens -> Nat]]
      /\ transfer' \in [Slots -> TransferType \cup {NoTransfer}]
      /\ UNCHANGED <<registered, collateral, pledged, borrowed, request, price>>
  BY AnsweredType DEF Inv
<1>2. TypeOK'
  BY <1>1 DEF Inv, TypeOK
<1>3. SharesConserved'
  BY <1>1, SharesUntouched DEF Inv
<1> QED BY <1>2, <1>3 DEF Inv

\* A transfer that succeeds leaves asset and account alone.
LEMMA TransferSucceedsInv ==
  ASSUME Inv, NEW s \in Slots, TransferSucceeds(s)
  PROVE  Inv'
<1>1. Answered(s, transfer[s].ft_amount) /\ UNCHANGED <<asset, supplied>>
  BY DEF TransferSucceeds
<1>2. transfer[s].ft_amount \in 0 .. transfer[s].ft_amount
  BY <1>1 DEF Answered
<1>3. asset' \in [Tokens -> AssetType]
  BY <1>1 DEF Inv, TypeOK
<1> QED BY <1>1, <1>2, <1>3, AnsweredInv

\* So does a callback that aborts,
LEMMA RefundLostInv ==
  ASSUME Inv, NEW s \in Slots, NEW used \in 0 .. transfer[s].ft_amount, RefundLost(s, used)
  PROVE  Inv'
<1>1. Answered(s, used) /\ UNCHANGED <<asset, supplied>>
  BY DEF RefundLost, ComesBack
<1>2. asset' \in [Tokens -> AssetType]
  BY <1>1 DEF Inv, TypeOK
<1> QED BY <1>1, <1>2, AnsweredInv

\* and one of a fee withdrawal that aborts.
LEMMA BeneficiaryRefundLostInv ==
  ASSUME Inv, NEW s \in Slots, BeneficiaryRefundLost(s)
  PROVE  Inv'
<1>1. Answered(s, 0) /\ UNCHANGED <<asset, supplied>>
  BY DEF BeneficiaryRefundLost
<1>2. asset' \in [Tokens -> AssetType]
  BY <1>1 DEF Inv, TypeOK
<1>3. 0 \in 0 .. transfer[s].ft_amount
  BY <1>1 DEF Answered
<1> QED BY <1>1, <1>2, <1>3, AnsweredInv

\* after_beneficiary_withdraw gives the fees back to the asset, not to a pool.
LEMMA BeneficiaryRefundInv ==
  ASSUME Inv, NEW s \in Slots, BeneficiaryRefund(s)
  PROVE  Inv'
<1> DEFINE tr == transfer[s]
           n  == asset[tr.token].beneficiary_fees + tr.amount
           as == [asset[tr.token] EXCEPT !.beneficiary_fees = n]
<1>1. /\ Answered(s, 0) /\ UNCHANGED supplied
      /\ SetAsset(tr.token, as, TRUE)
  BY DEF BeneficiaryRefund, FeesRestored
<1>2. 0 \in 0 .. transfer[s].ft_amount
  BY <1>1 DEF Answered
<1>3. tr.token \in Tokens /\ tr.amount \in Nat /\ TypeOK
  BY <1>1, <1>2, AnsweredType DEF Inv
<1> HIDE DEF tr
<1>4. asset[tr.token] \in AssetType /\ asset[tr.token].beneficiary_fees \in Nat
  BY <1>3 DEF TypeOK, AssetType
<1>5. n \in Nat
  BY <1>3, <1>4
<1> HIDE DEF n
<1>6. as \in AssetType /\ as.supplied = asset[tr.token].supplied
         /\ as.borrowed = asset[tr.token].borrowed
  BY <1>4, <1>5, EmptyPoolType, FieldType
<1> HIDE DEF as
<1>7. /\ asset' \in [Tokens -> AssetType]
      /\ asset'[tr.token].supplied.shares = as.supplied.shares
      /\ asset'[tr.token].borrowed = as.borrowed
      /\ OtherAssets(tr.token)
  BY <1>1, <1>3, <1>6, SetAssetType
<1>8. ASSUME NEW t \in Tokens
      PROVE  /\ asset'[t].supplied.shares = asset[t].supplied.shares
             /\ asset'[t].borrowed.shares = asset[t].borrowed.shares
  BY <1>6, <1>7 DEF OtherAssets
<1> QED BY <1>1, <1>2, <1>7, <1>8, AnsweredInv

\* A refund is a natural number of tokens and of shares.
LEMMA RefundType ==
  ASSUME NEW tr \in TransferType, NEW used \in Nat, used < tr.ft_amount, TypeOK
  PROVE  Remainder(tr, used) \in Nat /\ RefundShares(tr, used) \in Nat
<1>1. tr.amount \in Nat /\ tr.ft_amount \in Nat /\ tr.token \in Tokens
  BY DEF TransferType
<1>2. tr.ft_amount \in Nat \ {0} /\ tr.ft_amount - used \in Nat
  BY <1>1
<1>3. tr.amount * (tr.ft_amount - used) \in Nat
  BY <1>1, <1>2, ProductType
<1>4. Remainder(tr, used) \in Nat
  BY <1>2, <1>3, Quotient DEF Remainder
<1>5. asset[tr.token].supplied \in PoolType
  BY <1>1 DEF TypeOK, AssetType
<1> QED BY <1>4, <1>5, AmountToSharesType DEF RefundShares

\* A refund is a deposit at the rate of now, in the pool and in the account.
LEMMA RefundInv ==
  ASSUME Inv, NEW s \in Slots, NEW used \in 0 .. transfer[s].ft_amount, Refund(s, used)
  PROVE  Inv'
<1> DEFINE tr     == transfer[s]
           t      == tr.token
           a      == tr.account
           amount == Remainder(tr, used)
           shares == RefundShares(tr, used)
           as     == Supplied(asset[t], shares, amount)
<1>1. /\ Answered(s, used) /\ used < tr.ft_amount
      /\ SetAsset(t, as, FALSE)
      /\ supplied' = Add(supplied, a, t, shares)
  BY DEF Refund, ComesBack, CanRefund, Refunded, SetAsset
<1>2. /\ TypeOK /\ tr \in TransferType /\ used \in Nat
      /\ a \in Accounts /\ t \in Tokens
      /\ cash' \in [Tokens -> Nat]
      /\ wallet' \in [Accounts -> [Tokens -> Nat]]
      /\ transfer' \in [Slots -> TransferType \cup {NoTransfer}]
      /\ UNCHANGED <<registered, collateral, pledged, borrowed, request, price>>
  BY <1>1, AnsweredType DEF Inv
<1>3. amount \in Nat /\ shares \in Nat
  BY <1>1, <1>2, RefundType
<1> HIDE DEF tr, t, a, amount, shares
<1>4. asset[t] \in AssetType
  BY <1>2 DEF TypeOK
<1>5. as \in AssetType /\ as.supplied.shares = asset[t].supplied.shares + shares
         /\ as.borrowed = asset[t].borrowed
  BY <1>3, <1>4, SupplyType
<1> HIDE DEF as
<1>6. /\ asset' \in [Tokens -> AssetType]
      /\ asset'[t].supplied.shares = as.supplied.shares
      /\ asset'[t].borrowed = as.borrowed
      /\ OtherAssets(t)
  BY <1>1, <1>2, <1>5, SetAssetType
<1>7. /\ supplied' \in [Accounts -> [Tokens -> Nat]]
      /\ supplied'[a][t] = supplied[a][t] + shares
      /\ OtherEntries(supplied, supplied', a, t)
  <2>1. supplied \in [Accounts -> [Tokens -> Nat]]
    BY <1>2 DEF TypeOK
  <2> QED BY <1>1, <1>2, <1>3, <2>1, AddType
<1>8. TypeOK'
  BY <1>2, <1>6, <1>7 DEF TypeOK
<1>9. Elsewhere(a, t)
  BY <1>2, <1>6, <1>7, SameEntries DEF Elsewhere
<1>10. /\ asset'[t].supplied.shares + (supplied[a][t] + collateral[a][t])
             = asset[t].supplied.shares + (supplied'[a][t] + collateral'[a][t])
       /\ asset'[t].borrowed.shares + borrowed[a][t]
             = asset[t].borrowed.shares + borrowed'[a][t]
  <2>1. /\ supplied[a][t] \in Nat /\ collateral[a][t] \in Nat /\ borrowed[a][t] \in Nat
        /\ asset[t].supplied.shares \in Nat /\ asset[t].borrowed.shares \in Nat
    BY <1>2, EntryType
  <2>2. /\ asset'[t].supplied.shares = asset[t].supplied.shares + shares
        /\ asset'[t].borrowed = asset[t].borrowed
        /\ supplied'[a][t] = supplied[a][t] + shares
        /\ collateral' = collateral /\ borrowed' = borrowed
    BY <1>2, <1>5, <1>6, <1>7
  <2> QED BY <1>3, <2>1, <2>2
<1> QED BY <1>2, <1>8, <1>9, <1>10, OneEntryChanges

-----------------------------------------------------------------------------
\* withdraw_beneficiary_fee starts a transfer of the fees and clears them.
LEMMA WithdrawBeneficiaryFeeInv ==
  ASSUME Inv, NEW t \in Tokens, WithdrawBeneficiaryFee(t)
  PROVE  Inv'
<1> DEFINE amount == asset[t].beneficiary_fees
           as     == [asset[t] EXCEPT !.beneficiary_fees = 0]
<1>1. /\ SetAsset(t, as, TRUE)
      /\ Start("after_beneficiary_withdraw", Beneficiary, Beneficiary, t, amount)
      /\ UNCHANGED <<registered, supplied, collateral, pledged, borrowed, request, price, cash,
                     wallet>>
  BY DEF WithdrawBeneficiaryFee
<1>2. TypeOK /\ asset[t] \in AssetType /\ Beneficiary \in Accounts
  BY AccountsAssumption DEF Inv, TypeOK
<1>3. amount \in Nat
  BY <1>2 DEF AssetType
<1> HIDE DEF amount
<1>4. as \in AssetType /\ as.supplied = asset[t].supplied /\ as.borrowed = asset[t].borrowed
  BY <1>2, EmptyPoolType, FieldType
<1> HIDE DEF as
<1>5. /\ asset' \in [Tokens -> AssetType]
      /\ asset'[t].supplied.shares = as.supplied.shares
      /\ asset'[t].borrowed = as.borrowed
      /\ OtherAssets(t)
  BY <1>1, <1>2, <1>4, SetAssetType
<1>6. transfer' \in [Slots -> TransferType \cup {NoTransfer}]
  BY <1>1, <1>2, <1>3, StartType
<1>7. TypeOK'
  BY <1>1, <1>2, <1>5, <1>6 DEF TypeOK
<1>8. ASSUME NEW u \in Tokens
      PROVE  /\ asset'[u].supplied.shares = asset[u].supplied.shares
             /\ asset'[u].borrowed.shares = asset[u].borrowed.shares
  BY <1>4, <1>5 DEF OtherAssets
<1>9. SharesConserved'
  BY <1>1, <1>8, SharesUntouched DEF Inv
<1> QED BY <1>7, <1>9 DEF Inv

\* increase_reserved: the pool loses the owner's shares, the reserve gains.
LEMMA IncreaseReservedInv ==
  ASSUME Inv, NEW t \in Tokens, NEW req \in Requests, IncreaseReserved(t, req)
  PROVE  Inv'
<1> DEFINE move   == AssetAmountToShares(asset[t].supplied, supplied[Owner][t], req, FALSE)
           shares == move.shares
           amount == move.amount
           less   == Unsupplied(asset[t], shares, amount)
           n      == less.reserved + amount
           as     == [less EXCEPT !.reserved = n]
<1>0. Owner \in Accounts
  BY AccountsAssumption
<1>1. TypeOK /\ shares \in Nat /\ amount \in Nat
  BY <1>0, HeldMove DEF Inv
<1>2. /\ shares <= supplied[Owner][t]
      /\ CanWithdraw(asset[t].supplied, shares, amount)
      /\ SetAsset(t, as, TRUE)
      /\ supplied' = Sub(supplied, Owner, t, shares)
      /\ UNCHANGED <<registered, collateral, pledged, borrowed, transfer, request, price, cash,
                     wallet>>
  BY DEF IncreaseReserved
<1> HIDE DEF move, shares, amount
<1>3. asset[t] \in AssetType
  BY <1>1 DEF TypeOK
<1>4. less \in AssetType /\ less.supplied.shares = asset[t].supplied.shares - shares
         /\ less.borrowed = asset[t].borrowed
  BY <1>1, <1>2, <1>3, SupplyType
<1> HIDE DEF less
<1>5. n \in Nat
  BY <1>1, <1>4 DEF AssetType
<1> HIDE DEF n
<1>6. as \in AssetType /\ as.supplied = less.supplied /\ as.borrowed = less.borrowed
  BY <1>4, <1>5, EmptyPoolType, FieldType
<1> HIDE DEF as
<1>7. /\ asset' \in [Tokens -> AssetType]
      /\ asset'[t].supplied.shares = as.supplied.shares
      /\ asset'[t].borrowed = as.borrowed
      /\ OtherAssets(t)
  BY <1>1, <1>2, <1>6, SetAssetType
<1>8. /\ supplied' \in [Accounts -> [Tokens -> Nat]]
      /\ supplied'[Owner][t] = supplied[Owner][t] - shares
      /\ OtherEntries(supplied, supplied', Owner, t)
  <2>1. supplied \in [Accounts -> [Tokens -> Nat]]
    BY <1>1 DEF TypeOK
  <2> QED BY <1>0, <1>1, <1>2, <2>1, SubType
<1>9. TypeOK'
  BY <1>1, <1>2, <1>7, <1>8 DEF TypeOK
<1>10. Elsewhere(Owner, t)
  BY <1>2, <1>7, <1>8, SameEntries DEF Elsewhere
<1>11. /\ asset'[t].supplied.shares + (supplied[Owner][t] + collateral[Owner][t])
             = asset[t].supplied.shares + (supplied'[Owner][t] + collateral'[Owner][t])
       /\ asset'[t].borrowed.shares + borrowed[Owner][t]
             = asset[t].borrowed.shares + borrowed'[Owner][t]
  <2>1. /\ supplied[Owner][t] \in Nat /\ collateral[Owner][t] \in Nat
        /\ borrowed[Owner][t] \in Nat
        /\ asset[t].supplied.shares \in Nat /\ asset[t].borrowed.shares \in Nat
    BY <1>0, <1>1, EntryType
  <2>2. /\ asset'[t].supplied.shares = asset[t].supplied.shares - shares
        /\ asset'[t].borrowed = asset[t].borrowed
        /\ supplied'[Owner][t] = supplied[Owner][t] - shares
        /\ collateral' = collateral /\ borrowed' = borrowed
    BY <1>2, <1>4, <1>6, <1>7, <1>8
  <2> QED BY <1>1, <2>1, <2>2
<1> QED BY <1>0, <1>9, <1>10, <1>11, OneEntryChanges

\* decrease_reserved: the reserve becomes supply of the owner.
LEMMA DecreaseReservedInv ==
  ASSUME Inv, NEW t \in Tokens, NEW amount \in Amounts, DecreaseReserved(t, amount)
  PROVE  Inv'
<1> DEFINE n      == asset[t].reserved - amount
           taken  == [asset[t] EXCEPT !.reserved = n]
           saved  == Normalized(taken)
           shares == AmountToShares(saved.supplied, amount, FALSE)
           as     == Supplied(saved, shares, amount)
<1>0. Owner \in Accounts /\ amount \in Nat
  BY AccountsAssumption, AmountAssumption
<1>1. TypeOK /\ asset[t] \in AssetType /\ asset[t].reserved \in Nat
  BY DEF Inv, TypeOK, AssetType
<1>2. /\ amount <= asset[t].reserved
      /\ SetAsset(t, as, TRUE)
      /\ supplied' = Add(supplied, Owner, t, shares)
      /\ UNCHANGED <<registered, collateral, pledged, borrowed, transfer, request, price, cash,
                     wallet>>
  BY DEF DecreaseReserved
<1>3. n \in Nat
  BY <1>0, <1>1, <1>2
<1> HIDE DEF n
<1>4. taken \in AssetType /\ taken.supplied = asset[t].supplied
         /\ taken.borrowed = asset[t].borrowed
  BY <1>1, <1>3, EmptyPoolType, FieldType
<1> HIDE DEF taken
<1>5. saved \in AssetType /\ saved.supplied.shares = asset[t].supplied.shares
         /\ saved.borrowed = asset[t].borrowed
  BY <1>4, NormalizedType
<1> HIDE DEF saved
<1>6. shares \in Nat
  <2>1. saved.supplied \in PoolType
    BY <1>5 DEF AssetType
  <2> QED BY <1>0, <2>1, AmountToSharesType
<1> HIDE DEF shares
<1>7. as \in AssetType /\ as.supplied.shares = asset[t].supplied.shares + shares
         /\ as.borrowed = asset[t].borrowed
  BY <1>0, <1>5, <1>6, SupplyType
<1> HIDE DEF as
<1>8. /\ asset' \in [Tokens -> AssetType]
      /\ asset'[t].supplied.shares = as.supplied.shares
      /\ asset'[t].borrowed = as.borrowed
      /\ OtherAssets(t)
  BY <1>1, <1>2, <1>7, SetAssetType
<1>9. /\ supplied' \in [Accounts -> [Tokens -> Nat]]
      /\ supplied'[Owner][t] = supplied[Owner][t] + shares
      /\ OtherEntries(supplied, supplied', Owner, t)
  <2>1. supplied \in [Accounts -> [Tokens -> Nat]]
    BY <1>1 DEF TypeOK
  <2> QED BY <1>0, <1>2, <1>6, <2>1, AddType
<1>10. TypeOK'
  BY <1>1, <1>2, <1>8, <1>9 DEF TypeOK
<1>11. Elsewhere(Owner, t)
  BY <1>2, <1>8, <1>9, SameEntries DEF Elsewhere
<1>12. /\ asset'[t].supplied.shares + (supplied[Owner][t] + collateral[Owner][t])
             = asset[t].supplied.shares + (supplied'[Owner][t] + collateral'[Owner][t])
       /\ asset'[t].borrowed.shares + borrowed[Owner][t]
             = asset[t].borrowed.shares + borrowed'[Owner][t]
  <2>1. /\ supplied[Owner][t] \in Nat /\ collateral[Owner][t] \in Nat
        /\ borrowed[Owner][t] \in Nat
        /\ asset[t].supplied.shares \in Nat /\ asset[t].borrowed.shares \in Nat
    BY <1>0, <1>1, EntryType
  <2>2. /\ asset'[t].supplied.shares = asset[t].supplied.shares + shares
        /\ asset'[t].borrowed = asset[t].borrowed
        /\ supplied'[Owner][t] = supplied[Owner][t] + shares
        /\ collateral' = collateral /\ borrowed' = borrowed
    BY <1>2, <1>7, <1>8, <1>9
  <2> QED BY <1>6, <2>1, <2>2
<1> QED BY <1>0, <1>10, <1>11, <1>12, OneEntryChanges

\* Registration and prices touch no shares.
LEMMA RegistryInv ==
  ASSUME Inv, NEW a \in Accounts, Register(a) \/ Unregister(a)
  PROVE  Inv'
<1>1. /\ registered' \subseteq Accounts
      /\ UNCHANGED <<asset, supplied, collateral, pledged, borrowed, transfer, request, price,
                     cash, wallet>>
  BY DEF Inv, TypeOK, Register, Unregister
<1>2. TypeOK'
  BY <1>1 DEF Inv, TypeOK
<1>3. SharesConserved'
  BY <1>1, SharesUntouched DEF Inv
<1> QED BY <1>2, <1>3 DEF Inv

\* A price is no part of the shares.
LEMMA UpdatePriceInv ==
  ASSUME Inv, NEW t \in Tokens, NEW p \in Prices, UpdatePrice(t, p)
  PROVE  Inv'
<1>1. /\ price' \in [Tokens -> Nat]
      /\ UNCHANGED <<asset, registered, supplied, collateral, pledged, borrowed, transfer,
                     request, cash, wallet>>
  BY PriceAssumption DEF Inv, TypeOK, UpdatePrice
<1>2. TypeOK'
  BY <1>1 DEF Inv, TypeOK
<1>3. SharesConserved'
  BY <1>1, SharesUntouched DEF Inv
<1> QED BY <1>2, <1>3 DEF Inv

\* A part of an amount is no more than the amount.
LEMMA PartType ==
  ASSUME NEW amount \in Nat, NEW rate \in 0 .. MaxRatio
  PROVE  Part(amount, rate) \in Nat /\ Part(amount, rate) <= amount
<1>1. rate \in Nat /\ MaxRatio \in Nat \ {0} /\ rate <= MaxRatio
  BY RatioAssumption
<1>2. amount * rate \in Nat /\ amount * rate <= amount * MaxRatio
  <2>1. rate * amount <= MaxRatio * amount
    BY <1>1, ProductMonotone
  <2>2. rate * amount = amount * rate /\ MaxRatio * amount = amount * MaxRatio
    BY <1>1
  <2> QED BY <1>1, <2>1, <2>2, ProductType
<1> QED BY <1>1, <1>2, Quotient, QuotientBound DEF Part

\* The type of a pool whose balance changes.
LEMMA BalanceType ==
  ASSUME NEW pool \in PoolType, NEW n \in Nat
  PROVE  [pool EXCEPT !.balance = n] \in PoolType
         /\ [pool EXCEPT !.balance = n].shares = pool.shares
BY DEF PoolType

\* Interest leaves the shares of both pools alone.
LEMMA CompoundedType ==
  ASSUME NEW as \in AssetType, NEW interest \in Nat
  PROVE  /\ Compounded(as, interest) \in AssetType
         /\ Compounded(as, interest).supplied.shares = as.supplied.shares
         /\ Compounded(as, interest).borrowed.shares = as.borrowed.shares
<1> DEFINE kept == IF as.supplied.shares = 0 THEN interest ELSE Part(interest, ReserveRatio)
           fee  == Part(kept, BeneficiaryRate)
           sb   == as.supplied.balance + interest - kept
           bb   == as.borrowed.balance + interest
           sp   == [as.supplied EXCEPT !.balance = sb]
           bp   == [as.borrowed EXCEPT !.balance = bb]
           r    == as.reserved + kept - fee
           f    == as.beneficiary_fees + fee
<1>1. /\ as.supplied \in PoolType /\ as.borrowed \in PoolType
      /\ as.reserved \in Nat /\ as.beneficiary_fees \in Nat
  BY DEF AssetType
<1>2. as.supplied.balance \in Nat /\ as.borrowed.balance \in Nat
  BY <1>1 DEF PoolType
<1>3. kept \in Nat /\ kept <= interest
  <2>1. Part(interest, ReserveRatio) \in Nat /\ Part(interest, ReserveRatio) <= interest
    BY RatioAssumption, PartType
  <2>2. interest <= interest
    OBVIOUS
  <2> QED BY <2>1, <2>2
<1>4. fee \in Nat /\ fee <= kept
  <2> HIDE DEF kept
  <2> QED BY <1>3, RatioAssumption, PartType
<1>5. Compounded(as, interest) = [as EXCEPT !.supplied = sp, !.reserved = r,
                                            !.beneficiary_fees = f, !.borrowed = bp]
  BY DEF Compounded
<1> HIDE DEF kept, fee
<1>6. sb \in Nat /\ bb \in Nat
  <2>1. ASSUME NEW x \in Nat, NEW i \in Nat, NEW k \in Nat, k <= i
        PROVE  x + i - k \in Nat /\ x + i \in Nat
    BY <2>1
  <2> QED BY <1>2, <1>3, <2>1
<1>7. r \in Nat /\ f \in Nat
  <2>1. ASSUME NEW x \in Nat, NEW k \in Nat, NEW e \in Nat, e <= k
        PROVE  x + k - e \in Nat /\ x + e \in Nat
    BY <2>1
  <2> QED BY <1>1, <1>3, <1>4, <2>1
<1> HIDE DEF sb, bb, r, f
<1>8. sp \in PoolType /\ sp.shares = as.supplied.shares
  BY <1>1, <1>6, BalanceType
<1>9. bp \in PoolType /\ bp.shares = as.borrowed.shares
  BY <1>1, <1>6, BalanceType
<1> HIDE DEF sp, bp
<1> QED BY <1>5, <1>7, <1>8, <1>9 DEF AssetType

\* Interest changes balances, never shares.
LEMMA AccrueInv ==
  ASSUME Inv, NEW t \in Tokens, NEW i \in Interests, Accrue(t, i)
  PROVE  Inv'
<1> DEFINE as == Compounded(asset[t], i)
<1>1. TypeOK /\ asset[t] \in AssetType /\ i \in Nat /\ asset \in [Tokens -> AssetType]
  BY AmountAssumption DEF Inv, TypeOK
<1>2. /\ asset' = [asset EXCEPT ![t] = as]
      /\ UNCHANGED <<registered, supplied, collateral, pledged, borrowed, transfer, request,
                     price, cash, wallet>>
  BY DEF Accrue
<1>3. /\ as \in AssetType
      /\ as.supplied.shares = asset[t].supplied.shares
      /\ as.borrowed.shares = asset[t].borrowed.shares
  BY <1>1, CompoundedType
<1> HIDE DEF as
<1>4. asset' \in [Tokens -> AssetType]
  BY <1>1, <1>2, <1>3
<1>5. ASSUME NEW u \in Tokens
      PROVE  /\ asset'[u].supplied.shares = asset[u].supplied.shares
             /\ asset'[u].borrowed.shares = asset[u].borrowed.shares
  BY <1>1, <1>2, <1>3
<1>6. TypeOK'
  BY <1>1, <1>2, <1>4 DEF TypeOK
<1>7. SharesConserved'
  BY <1>2, <1>5, SharesUntouched DEF Inv
<1> QED BY <1>6, <1>7 DEF Inv

-----------------------------------------------------------------------------
\* What two accounts hold of a pool is part of it.
LEMMA TwoHoldersBound ==
  ASSUME Inv, NEW a \in Accounts, NEW v \in Accounts, a # v, NEW t \in Tokens
  PROVE  supplied[a][t] + collateral[v][t] <= asset[t].supplied.shares
<1> DEFINE held == [b \in Accounts |-> supplied[b][t] + collateral[b][t]]
<1>1. /\ supplied[a][t] \in Nat /\ collateral[a][t] \in Nat
      /\ supplied[v][t] \in Nat /\ collateral[v][t] \in Nat
      /\ asset[t].supplied.shares \in Nat
  BY EntryType DEF Inv
<1>2. \A b \in Accounts : held[b] \in Nat
  BY DEF Inv, TypeOK
<1>3. asset[t].supplied.shares = SumFunctionOnSet(held, Accounts)
  BY DEF Inv, SharesConserved, SumFunction
<1>4. held[a] = supplied[a][t] + collateral[a][t] /\ held[v] = supplied[v][t] + collateral[v][t]
  OBVIOUS
<1> HIDE DEF held
<1>5. held[a] + held[v] <= SumFunctionOnSet(held, Accounts)
  BY <1>2, SumBoundTwo, AccountsAssumption
<1> QED BY <1>1, <1>3, <1>4, <1>5

\* SumChange for a table of accounts of which two change.
LEMMA TableSumTwo ==
  ASSUME NEW f, NEW g, NEW a \in Accounts, NEW v \in Accounts, a # v,
         \A b \in Accounts : f[b] \in Nat /\ g[b] \in Nat,
         \A b \in Accounts \ {a, v} : f[b] = g[b]
  PROVE  SumFunctionOnSet(g, Accounts) + f[a] + f[v]
            = SumFunctionOnSet(f, Accounts) + g[a] + g[v]
<1> DEFINE m == [b \in Accounts |-> IF b = a THEN g[a] ELSE f[b]]
<1>1. /\ \A b \in Accounts : f[b] \in Nat /\ m[b] \in Nat
      /\ \A b \in Accounts : m[b] \in Nat /\ g[b] \in Nat
  OBVIOUS
<1>2. /\ \A b \in Accounts \ {a} : f[b] = m[b]
      /\ \A b \in Accounts \ {v} : m[b] = g[b]
      /\ m[a] = g[a] /\ m[v] = f[v]
  OBVIOUS
<1> HIDE DEF m
<1>3. SumFunctionOnSet(m, Accounts) = SumFunctionOnSet(f, Accounts) - f[a] + m[a]
  BY <1>1, <1>2, TableSum
<1>4. SumFunctionOnSet(g, Accounts) = SumFunctionOnSet(m, Accounts) - m[v] + g[v]
  BY <1>1, <1>2, TableSum
<1>5. /\ f[a] \in Nat /\ f[v] \in Nat /\ g[a] \in Nat /\ g[v] \in Nat
      /\ SumFunctionOnSet(f, Accounts) \in Nat
  BY SumType, AccountsAssumption
<1> QED BY <1>2, <1>3, <1>4, <1>5

\* A step changes the pools by what it changes in the accounts a and v.
BalancedTwo(a, v) ==
    /\ \A b \in Accounts \ {a, v}, t \in Tokens :
          Held(b, t)' = Held(b, t) /\ borrowed'[b][t] = borrowed[b][t]
    /\ \A t \in Tokens :
          /\ asset'[t].supplied.shares + Held(a, t) + Held(v, t)
                = asset[t].supplied.shares + Held(a, t)' + Held(v, t)'
          /\ asset'[t].borrowed.shares + borrowed[a][t] + borrowed[v][t]
                = asset[t].borrowed.shares + borrowed'[a][t] + borrowed'[v][t]

\* Such a step conserves the shares.
LEMMA TwoAccountsChange ==
  ASSUME Inv, TypeOK', NEW a \in Accounts, NEW v \in Accounts, a # v, BalancedTwo(a, v)
  PROVE  SharesConserved'
<1> SUFFICES ASSUME NEW t \in Tokens
             PROVE  /\ asset'[t].supplied.shares =
                          SumFunction([b \in Accounts |-> supplied'[b][t] + collateral'[b][t]])
                    /\ asset'[t].borrowed.shares =
                          SumFunction([b \in Accounts |-> borrowed'[b][t]])
  BY DEF SharesConserved
<1> DEFINE held  == [b \in Accounts |-> supplied[b][t] + collateral[b][t]]
           held2 == [b \in Accounts |-> supplied'[b][t] + collateral'[b][t]]
           owed  == [b \in Accounts |-> borrowed[b][t]]
           owed2 == [b \in Accounts |-> borrowed'[b][t]]
<1>1. /\ \A b \in Accounts : held[b] \in Nat /\ held2[b] \in Nat
      /\ \A b \in Accounts : owed[b] \in Nat /\ owed2[b] \in Nat
  BY DEF Inv, TypeOK
<1>2. /\ \A b \in Accounts \ {a, v} : held[b] = held2[b]
      /\ \A b \in Accounts \ {a, v} : owed[b] = owed2[b]
  BY DEF BalancedTwo, Held
<1>3. /\ asset[t].supplied.shares = SumFunctionOnSet(held, Accounts)
      /\ asset[t].borrowed.shares = SumFunctionOnSet(owed, Accounts)
  BY DEF Inv, SharesConserved, SumFunction
<1>4. /\ held[a] = Held(a, t) /\ held2[a] = Held(a, t)'
      /\ held[v] = Held(v, t) /\ held2[v] = Held(v, t)'
      /\ owed[a] = borrowed[a][t] /\ owed2[a] = borrowed'[a][t]
      /\ owed[v] = borrowed[v][t] /\ owed2[v] = borrowed'[v][t]
  BY DEF Held
<1>5. /\ SumFunction(held2) = SumFunctionOnSet(held2, Accounts)
      /\ SumFunction(owed2) = SumFunctionOnSet(owed2, Accounts)
  BY DEF SumFunction
<1> HIDE DEF held, held2, owed, owed2
<1>6. SumFunctionOnSet(held2, Accounts) + held[a] + held[v]
         = SumFunctionOnSet(held, Accounts) + held2[a] + held2[v]
  BY <1>1, <1>2, TableSumTwo, ZenonT(30)
<1>7. SumFunctionOnSet(owed2, Accounts) + owed[a] + owed[v]
         = SumFunctionOnSet(owed, Accounts) + owed2[a] + owed2[v]
  BY <1>1, <1>2, TableSumTwo, ZenonT(30)
<1>8. /\ SumFunctionOnSet(held2, Accounts) \in Nat /\ SumFunctionOnSet(owed2, Accounts) \in Nat
      /\ held[a] \in Nat /\ held[v] \in Nat /\ owed[a] \in Nat /\ owed[v] \in Nat
      /\ asset'[t].supplied.shares \in Nat /\ asset'[t].borrowed.shares \in Nat
  <2>1. asset'[t].supplied.shares \in Nat /\ asset'[t].borrowed.shares \in Nat
    BY DEF TypeOK, AssetType, PoolType
  <2>2. SumFunctionOnSet(held2, Accounts) \in Nat /\ SumFunctionOnSet(owed2, Accounts) \in Nat
    BY <1>1, SumType, AccountsAssumption
  <2> QED BY <1>1, <2>1, <2>2
<1>9. /\ asset'[t].supplied.shares + held[a] + held[v]
            = SumFunctionOnSet(held, Accounts) + held2[a] + held2[v]
      /\ asset'[t].borrowed.shares + owed[a] + owed[v]
            = SumFunctionOnSet(owed, Accounts) + owed2[a] + owed2[v]
  BY <1>3, <1>4 DEF BalancedTwo
<1>10. SumFunction(held2) = asset'[t].supplied.shares /\ SumFunction(owed2) = asset'[t].borrowed.shares
  BY <1>5, <1>6, <1>7, <1>8, <1>9
<1> QED BY <1>10 DEF held2, owed2

\* A liquidation: the liquidator burns shares for the victim's debt and gets
\* the victim's collateral, maybe of the same token.
LEMMA LiquidateInv ==
  ASSUME Inv, NEW a \in Accounts, NEW victim \in Accounts, NEW tin \in Tokens, NEW tout \in Tokens,
         NEW rin \in Requests, NEW rout \in Requests,
         Liquidate(a, victim, tin, rin, tout, rout)
  PROVE  Inv'
<1> DEFINE pay    == RepayMove(a, victim, tin, rin)
           burnt  == pay.burnt
           repaid == pay.repaid
           as     == Repaid(asset[tin], pay)
           assets == AfterRepay(tin, pay)
           move   == AssetAmountToShares(assets[tout].supplied, collateral[victim][tout], rout, FALSE)
           taken  == move.shares
           rest   == Sub(supplied, a, tin, burnt)
<1>1. /\ TypeOK /\ a # victim
      /\ supplied \in [Accounts -> [Tokens -> Nat]]
      /\ borrowed \in [Accounts -> [Tokens -> Nat]]
      /\ asset[tin] \in AssetType
  BY DEF Inv, TypeOK, Liquidate
<1>2. /\ burnt \in Nat /\ burnt <= supplied[a][tin]
      /\ repaid \in Nat /\ pay.amount \in Nat
  BY RepayMoveType
<1>3. /\ repaid <= borrowed[victim][tin]
      /\ CanWithdraw(asset[tin].supplied, burnt, pay.amount)
      /\ CanWithdraw(asset[tin].borrowed, repaid, pay.amount)
      /\ SetAsset(tin, as, Checked(a))
      /\ Unpledge(victim, tout, taken)
      /\ borrowed' = Sub(borrowed, victim, tin, repaid)
      /\ supplied' = [rest EXCEPT ![a][tout] = @ + taken]
      /\ UNCHANGED <<registered, transfer, request, price, cash, wallet>>
  BY DEF Liquidate, CanRepay
<1>4. assets = asset'
  BY <1>3 DEF AfterRepay, SetAsset
<1>5. /\ as \in AssetType
      /\ as.supplied.shares = asset[tin].supplied.shares - burnt
      /\ as.borrowed.shares = asset[tin].borrowed.shares - repaid
  <2> HIDE DEF pay
  <2> QED BY <1>1, <1>2, <1>3, RepaidType
<1>6. move = AssetAmountToShares(asset'[tout].supplied, collateral[victim][tout], rout, FALSE)
  BY <1>4
<1> HIDE DEF pay, burnt, repaid, as, assets, move
<1>7. /\ asset' \in [Tokens -> AssetType]
      /\ asset'[tin].supplied.shares = asset[tin].supplied.shares - burnt
      /\ asset'[tin].borrowed.shares = asset[tin].borrowed.shares - repaid
      /\ OtherAssets(tin)
  BY <1>1, <1>3, <1>5, SetAssetType
<1>8. taken \in Nat
  <2>1. /\ collateral[victim][tout] \in Nat
        /\ collateral[victim][tout] <= asset[tout].supplied.shares
        /\ supplied[a][tin] \in Nat /\ asset[tin].supplied.shares \in Nat
    BY <1>1, PartsBound, EntryType
  <2>2. collateral[victim][tout] <= asset'[tout].supplied.shares
    <3>1. CASE tout = tin
      <4>1. supplied[a][tin] + collateral[victim][tin] <= asset[tin].supplied.shares
        BY <1>1, TwoHoldersBound
      <4>2. asset'[tout].supplied.shares = asset[tin].supplied.shares - burnt
        BY <1>7, <3>1
      <4> QED BY <1>2, <2>1, <3>1, <4>1, <4>2
    <3>2. CASE tout # tin
      BY <1>7, <2>1, <3>2 DEF OtherAssets
    <3> QED BY <3>1, <3>2
  <2>3. asset'[tout].supplied \in PoolType
    BY <1>7 DEF AssetType
  <2>4. Amounts \in SUBSET Nat /\ rout \in RequestsOver(Amounts)
    BY AmountAssumption DEF Requests
  <2> QED BY <1>6, <2>1, <2>2, <2>3, <2>4, HeldMoveType
<1> HIDE DEF taken
<1>9. /\ collateral' \in [Accounts -> [Tokens -> Nat]]
      /\ pledged' \in [Accounts -> SUBSET Tokens]
      /\ taken <= collateral[victim][tout]
      /\ collateral'[victim][tout] = collateral[victim][tout] - taken
      /\ OtherEntries(collateral, collateral', victim, tout)
  BY <1>1, <1>3, <1>8, UnpledgeType
<1>10. /\ borrowed' \in [Accounts -> [Tokens -> Nat]]
       /\ borrowed'[victim][tin] = borrowed[victim][tin] - repaid
       /\ OtherEntries(borrowed, borrowed', victim, tin)
  BY <1>1, <1>2, <1>3, SubType
<1>11. /\ rest \in [Accounts -> [Tokens -> Nat]]
       /\ rest[a][tin] = supplied[a][tin] - burnt
       /\ OtherEntries(supplied, rest, a, tin)
  BY <1>1, <1>2, SubType
<1> HIDE DEF rest
<1>12. /\ supplied' \in [Accounts -> [Tokens -> Nat]]
       /\ supplied'[a][tout] = rest[a][tout] + taken
       /\ OtherEntries(rest, supplied', a, tout)
  <2>1. supplied' = Add(rest, a, tout, taken)
    BY <1>3 DEF Add
  <2> QED BY <1>8, <1>11, <2>1, AddType
<1>13. TypeOK'
  BY <1>1, <1>3, <1>7, <1>9, <1>10, <1>12 DEF TypeOK
<1>14. ASSUME NEW b \in Accounts \ {a, victim}, NEW u \in Tokens
       PROVE  Held(b, u)' = Held(b, u) /\ borrowed'[b][u] = borrowed[b][u]
  BY <1>9, <1>10, <1>11, <1>12 DEF OtherEntries, Held
<1>15. ASSUME NEW u \in Tokens
       PROVE  /\ asset'[u].supplied.shares + Held(a, u) + Held(victim, u)
                    = asset[u].supplied.shares + Held(a, u)' + Held(victim, u)'
              /\ asset'[u].borrowed.shares + borrowed[a][u] + borrowed[victim][u]
                    = asset[u].borrowed.shares + borrowed'[a][u] + borrowed'[victim][u]
  <2> DEFINE d == IF u = tin THEN burnt ELSE 0
             e == IF u = tin THEN repaid ELSE 0
             g == IF u = tout THEN taken ELSE 0
  <2>1. d \in Nat /\ e \in Nat /\ g \in Nat
    BY <1>2, <1>8
  <2>2. /\ supplied[a][u] \in Nat /\ collateral[a][u] \in Nat /\ borrowed[a][u] \in Nat
        /\ supplied[victim][u] \in Nat /\ collateral[victim][u] \in Nat
        /\ borrowed[victim][u] \in Nat
        /\ asset[u].supplied.shares \in Nat /\ asset[u].borrowed.shares \in Nat
    BY <1>1, EntryType
  <2>3. /\ asset'[u].supplied.shares = asset[u].supplied.shares - d
        /\ asset'[u].borrowed.shares = asset[u].borrowed.shares - e
    BY <1>7, <2>2 DEF OtherAssets
  <2>4. /\ borrowed'[victim][u] = borrowed[victim][u] - e
        /\ borrowed'[a][u] = borrowed[a][u]
    BY <1>1, <1>10, <2>2 DEF OtherEntries
  <2>5. /\ collateral'[victim][u] = collateral[victim][u] - g
        /\ collateral'[a][u] = collateral[a][u]
    BY <1>1, <1>9, <2>2 DEF OtherEntries
  <2>6. rest[a][u] = supplied[a][u] - d /\ rest[victim][u] = supplied[victim][u]
    BY <1>1, <1>11, <2>2 DEF OtherEntries
  <2>7. /\ supplied'[a][u] = supplied[a][u] - d + g
        /\ supplied'[victim][u] = supplied[victim][u]
    <3>1. rest[a][u] \in Nat
      BY <1>11
    <3>2. supplied'[a][u] = rest[a][u] + g /\ supplied'[victim][u] = rest[victim][u]
      BY <1>1, <1>12, <3>1 DEF OtherEntries
    <3> QED BY <2>6, <3>2
  <2>8. /\ Held(a, u) = supplied[a][u] + collateral[a][u]
        /\ Held(victim, u) = supplied[victim][u] + collateral[victim][u]
        /\ Held(a, u)' = supplied'[a][u] + collateral'[a][u]
        /\ Held(victim, u)' = supplied'[victim][u] + collateral'[victim][u]
    BY DEF Held
  <2> HIDE DEF d, e, g
  <2> QED BY <2>1, <2>2, <2>3, <2>4, <2>5, <2>7, <2>8
<1>16. BalancedTwo(a, victim)
  BY <1>14, <1>15 DEF BalancedTwo
<1>17. SharesConserved'
  BY <1>1, <1>13, <1>16, TwoAccountsChange
<1> QED BY <1>13, <1>17 DEF Inv

\* The asset after its collateral is seized, and after its debt is forgiven.
LEMMA SeizedType ==
  ASSUME NEW as \in AssetType, NEW shares \in Nat, shares <= as.supplied.shares
  PROVE  /\ Seized(as, shares) \in AssetType
         /\ Seized(as, shares).supplied.shares = as.supplied.shares - shares
         /\ Seized(as, shares).borrowed = as.borrowed
<1> DEFINE amount == SharesToAmount(as.supplied, shares, FALSE)
           less   == Unsupplied(as, shares, amount)
           n      == less.reserved + amount
           more   == [less EXCEPT !.reserved = n]
<1>1. as.supplied \in PoolType
  BY DEF AssetType
<1>2. amount \in Nat /\ amount <= as.supplied.balance
  <2>1. Convertible(as.supplied, shares)
    BY DEF Convertible
  <2> QED BY <1>1, <2>1, SharesToAmountType
<1>3. Seized(as, shares) = Normalized(more)
  BY DEF Seized
<1> HIDE DEF amount
<1>4. less \in AssetType /\ less.supplied.shares = as.supplied.shares - shares
         /\ less.borrowed = as.borrowed
  <2>1. CanWithdraw(as.supplied, shares, amount)
    BY <1>2 DEF CanWithdraw
  <2> QED BY <1>2, <2>1, SupplyType
<1> HIDE DEF less
<1>5. n \in Nat
  BY <1>2, <1>4 DEF AssetType
<1> HIDE DEF n
<1>6. more \in AssetType /\ more.supplied = less.supplied /\ more.borrowed = less.borrowed
  BY <1>4, <1>5, EmptyPoolType, FieldType
<1> HIDE DEF more
<1> QED BY <1>3, <1>4, <1>6, NormalizedType

\* The debt that a forced close forgives leaves the pool and is paid by the reserve.
LEMMA ForgivenType ==
  ASSUME NEW as \in AssetType, NEW shares \in Nat, shares <= as.borrowed.shares,
         Forgiven(as, shares).reserved >= 0
  PROVE  /\ Forgiven(as, shares) \in AssetType
         /\ Forgiven(as, shares).supplied = as.supplied
         /\ Forgiven(as, shares).borrowed.shares = as.borrowed.shares - shares
<1> DEFINE amount == SharesToAmount(as.borrowed, shares, TRUE)
           pool   == PoolWithdraw(as.borrowed, shares, amount)
           n      == as.reserved - amount
           less   == [as EXCEPT !.borrowed = pool]
<1>1. as.borrowed \in PoolType /\ as.reserved \in Nat
  BY DEF AssetType
<1>2. amount \in Nat /\ amount <= as.borrowed.balance
  <2>1. Convertible(as.borrowed, shares)
    BY DEF Convertible
  <2> QED BY <1>1, <2>1, SharesToAmountType
<1>3. Forgiven(as, shares) = [as EXCEPT !.borrowed = pool, !.reserved = n]
  BY DEF Forgiven
<1> HIDE DEF amount
<1>4. pool \in PoolType /\ pool.shares = as.borrowed.shares - shares
  <2>1. CanWithdraw(as.borrowed, shares, amount)
    BY <1>2 DEF CanWithdraw
  <2> QED BY <1>1, <1>2, <2>1, PoolOperations DEF PoolWithdraw
<1> HIDE DEF pool, n
<1>5. Forgiven(as, shares).reserved = n
  BY <1>3 DEF AssetType
<1>6. n \in Nat
  <2>1. n \in Int
    <3>1. ASSUME NEW x \in Nat, NEW y \in Nat PROVE x - y \in Int
      OBVIOUS
    <3> QED BY <1>1, <1>2, <3>1 DEF n
  <2> QED BY <1>5, <2>1
<1>7. less \in AssetType /\ less.supplied = as.supplied /\ less.borrowed = pool
  BY <1>4, FieldType, EmptyPoolType
<1>8. Forgiven(as, shares) = [less EXCEPT !.reserved = n]
  BY <1>3
<1> HIDE DEF less
<1>9. [less EXCEPT !.reserved = n] \in AssetType
         /\ [less EXCEPT !.reserved = n].supplied = less.supplied
         /\ [less EXCEPT !.reserved = n].borrowed = less.borrowed
  BY <1>6, <1>7, FieldType, EmptyPoolType
<1> QED BY <1>4, <1>7, <1>8, <1>9

\* A forced close takes all the shares of the victim's position from the pools of
\* every token it lists.
LEMMA ForceCloseInv ==
  ASSUME Inv, NEW a \in Accounts, NEW victim \in Accounts, ForceClose(a, victim)
  PROVE  Inv'
<1> DEFINE seized == [t \in Tokens |-> Seized(asset[t], collateral[victim][t])]
           closed == [t \in Tokens |->
                        IF borrowed[victim][t] > 0 THEN Forgiven(seized[t], borrowed[victim][t])
                        ELSE seized[t]]
<1>1. /\ \A t \in Tokens : borrowed[victim][t] > 0 => closed[t].reserved >= 0
      /\ asset' = closed
      /\ collateral' = [collateral EXCEPT ![victim] = [t \in Tokens |-> 0]]
      /\ pledged' = [pledged EXCEPT ![victim] = {}]
      /\ borrowed' = [borrowed EXCEPT ![victim] = [t \in Tokens |-> 0]]
      /\ UNCHANGED <<registered, supplied, transfer, request, price, cash, wallet>>
  BY DEF ForceClose
<1>2. /\ TypeOK
      /\ collateral \in [Accounts -> [Tokens -> Nat]]
      /\ borrowed \in [Accounts -> [Tokens -> Nat]]
      /\ pledged \in [Accounts -> SUBSET Tokens]
  BY DEF Inv, TypeOK
<1>3. ASSUME NEW t \in Tokens
      PROVE  /\ closed[t] \in AssetType
             /\ closed[t].supplied.shares = asset[t].supplied.shares - collateral[victim][t]
             /\ closed[t].borrowed.shares = asset[t].borrowed.shares - borrowed[victim][t]
  <2>1. /\ collateral[victim][t] \in Nat /\ collateral[victim][t] <= asset[t].supplied.shares
        /\ borrowed[victim][t] \in Nat /\ borrowed[victim][t] <= asset[t].borrowed.shares
        /\ asset[t] \in AssetType /\ asset[t].borrowed.shares \in Nat
    BY <1>2, PartsBound, EntryType
  <2>2. /\ seized[t] \in AssetType
        /\ seized[t].supplied.shares = asset[t].supplied.shares - collateral[victim][t]
        /\ seized[t].borrowed = asset[t].borrowed
    BY <2>1, SeizedType
  <2>3. CASE borrowed[victim][t] > 0
    <3>1. closed[t] = Forgiven(seized[t], borrowed[victim][t])
      BY <2>3
    <3>2. Forgiven(seized[t], borrowed[victim][t]).reserved >= 0
      BY <1>1, <2>3, <3>1
    <3> HIDE DEF seized, closed
    <3> QED BY <2>1, <2>2, <3>1, <3>2, ForgivenType
  <2>4. CASE ~ (borrowed[victim][t] > 0)
    <3>1. closed[t] = seized[t] /\ borrowed[victim][t] = 0
      BY <2>1, <2>4
    <3> HIDE DEF seized, closed
    <3> QED BY <2>1, <2>2, <3>1
  <2> QED BY <2>3, <2>4
<1>4. closed = [t \in Tokens |-> closed[t]]
  OBVIOUS
<1> HIDE DEF seized, closed
<1>5. asset' \in [Tokens -> AssetType]
  BY <1>1, <1>3, <1>4
<1>6. /\ collateral' \in [Accounts -> [Tokens -> Nat]]
      /\ borrowed' \in [Accounts -> [Tokens -> Nat]]
      /\ pledged' \in [Accounts -> SUBSET Tokens]
  BY <1>1, <1>2
<1>7. TypeOK'
  BY <1>1, <1>2, <1>5, <1>6 DEF TypeOK
<1>8. ASSUME NEW b \in Accounts \ {victim}, NEW t \in Tokens
      PROVE  Held(b, t)' = Held(b, t) /\ borrowed'[b][t] = borrowed[b][t]
  BY <1>1, <1>2 DEF Held
<1>9. ASSUME NEW t \in Tokens
      PROVE  /\ asset'[t].supplied.shares
                   = asset[t].supplied.shares - Held(victim, t) + Held(victim, t)'
             /\ asset'[t].borrowed.shares
                   = asset[t].borrowed.shares - borrowed[victim][t] + borrowed'[victim][t]
  <2>1. /\ supplied[victim][t] \in Nat /\ collateral[victim][t] \in Nat
        /\ borrowed[victim][t] \in Nat
        /\ asset[t].supplied.shares \in Nat /\ asset[t].borrowed.shares \in Nat
    BY <1>2, EntryType
  <2>2. /\ Held(victim, t) = supplied[victim][t] + collateral[victim][t]
        /\ Held(victim, t)' = supplied[victim][t] + 0
        /\ borrowed'[victim][t] = 0
    BY <1>1, <1>2 DEF Held
  <2>3. /\ asset'[t].supplied.shares = asset[t].supplied.shares - collateral[victim][t]
        /\ asset'[t].borrowed.shares = asset[t].borrowed.shares - borrowed[victim][t]
    BY <1>1, <1>3
  <2> QED BY <2>1, <2>2, <2>3
<1>10. Balanced(victim)
  BY <1>8, <1>9 DEF Balanced
<1>11. SharesConserved'
  BY <1>7, <1>10, OneAccountChanges
<1> QED BY <1>7, <1>11 DEF Inv

-----------------------------------------------------------------------------
\* The system starts without shares.
LEMMA InitInv == Init => Inv
<1> SUFFICES ASSUME Init PROVE Inv
  OBVIOUS
<1>1. NewAsset \in AssetType /\ NewAsset.supplied.shares = 0 /\ NewAsset.borrowed.shares = 0
  BY DEF NewAsset, AssetType, EmptyPool, PoolType
<1>2. /\ asset = [t \in Tokens |-> NewAsset]
      /\ supplied = [a \in Accounts |-> [t \in Tokens |-> 0]]
      /\ collateral = [a \in Accounts |-> [t \in Tokens |-> 0]]
      /\ borrowed = [a \in Accounts |-> [t \in Tokens |-> 0]]
  BY DEF Init
<1>3. TypeOK
  BY <1>1, AccountsAssumption, PriceAssumption, WalletAssumption DEF Init, TypeOK
<1>4. ASSUME NEW t \in Tokens
      PROVE  /\ asset[t].supplied.shares =
                   SumFunction([a \in Accounts |-> supplied[a][t] + collateral[a][t]])
             /\ asset[t].borrowed.shares = SumFunction([a \in Accounts |-> borrowed[a][t]])
  <2> DEFINE zero == [a \in Accounts |-> 0]
  <2>1. /\ [a \in Accounts |-> supplied[a][t] + collateral[a][t]] = zero
        /\ [a \in Accounts |-> borrowed[a][t]] = zero
    BY <1>2
  <2>2. SumFunction(zero) = SumFunctionOnSet(zero, Accounts)
    BY DEF SumFunction
  <2>3. \A a \in Accounts : zero[a] = 0
    OBVIOUS
  <2> HIDE DEF zero
  <2>4. SumFunctionOnSet(zero, Accounts) = 0
    BY <2>3, AccountsAssumption, SumZero
  <2> QED BY <1>1, <1>2, <2>1, <2>2, <2>4
<1> QED BY <1>3, <1>4 DEF Inv, SharesConserved

\* Every step keeps the invariant.
LEMMA NextInv == Inv /\ [Next]_vars => Inv'
<1> SUFFICES ASSUME Inv, [Next]_vars PROVE Inv'
  OBVIOUS
<1>1. ASSUME NEW a \in Accounts, NEW t \in Tokens, Transferred(a, t)
      PROVE  Inv'
  BY <1>1, DepositInv, OnlyIncreaseCollateralInv, OnlyRepayInv, DepositToReserveInv
  DEF Transferred
<1>2. ASSUME NEW a \in Accounts, NEW t \in Tokens, Execute(a, t)
      PROVE  Inv'
  BY <1>2, IncreaseCollateralInv, DecreaseCollateralInv, BorrowInv, RepayInv, WithdrawInv
  DEF Execute
<1>3. ASSUME NEW a \in Accounts, NEW t \in Tokens, WithdrawSimply(a, t)
      PROVE  Inv'
  BY <1>3, WithdrawBySharesInv, SimpleWithdrawInv, SimpleWithdrawNowInv, SimpleWithdrawAskInv
  DEF WithdrawSimply
<1>4. ASSUME NEW a \in Accounts, Close(a)
      PROVE  Inv'
  BY <1>4, ForceCloseInv, LiquidateInv DEF Close
<1>5. ASSUME NEW s \in Slots, Callback(s)
      PROVE  Inv'
  BY <1>5, TransferSucceedsInv, RefundInv, RefundLostInv, BeneficiaryRefundInv,
     BeneficiaryRefundLostInv
  DEF Callback
<1>6. CASE Administer
  BY <1>6, IncreaseReservedInv, DecreaseReservedInv, WithdrawBeneficiaryFeeInv DEF Administer
<1>7. CASE Market
  BY <1>7, AccrueInv, UpdatePriceInv DEF Market
<1>8. CASE UNCHANGED vars
  <2>1. TypeOK'
    BY <1>8 DEF Inv, TypeOK, vars
  <2>2. SharesConserved'
    BY <1>8, SharesUntouched DEF Inv, vars
  <2> QED BY <2>1, <2>2 DEF Inv
<1> QED
  BY <1>1, <1>2, <1>3, <1>4, <1>5, <1>6, <1>7, <1>8, RegistryInv, SimpleWithdrawResumeInv,
     SimpleWithdrawAbortInv
  DEF Next

\* The types and the conservation of the shares, in every reachable state.
THEOREM Invariance == Spec => []Inv
BY InitInv, NextInv, PTL DEF Spec

\* The state is of its type in every order of handlers and callbacks: the
\* amounts of pools, reserve, accounts, transfers and requests are natural
\* numbers, and what a failed call leaves behind is too.
THEOREM TypeCorrect == Spec => []TypeOK
BY Invariance, PTL DEF Inv

\* The shares of each pool are those of its accounts, for every number of
\* accounts, tokens and transfers under way.
THEOREM SharesAreConserved == Spec => []SharesConserved
BY Invariance, PTL DEF Inv

-----------------------------------------------------------------------------
(***************************************************************************)
(* What Lending promises its users: claims are covered, payments made or   *)
(* credited back, no supplied share loses value, no debt is left without   *)
(* collateral, no call puts a healthy position at risk and no caller gains *)
(* by rounding.  All of it follows from two facts of each step: which way  *)
(* it rounds, and what it adds to each book.                               *)
(***************************************************************************)

(***************************************************************************)
(* The price of a pool after an operation, by the price of what is moved.  *)
(***************************************************************************)
\* `amount` tokens are worth at least, and at most, `shares` shares of the pool.
Covering(pool, shares, amount) == pool.balance * shares <= amount * pool.shares
Covered(pool, shares, amount)  == amount * pool.shares <= pool.balance * shares

\* A deposit moves the price of a pool towards its own.
LEMMA PriceOfDeposit ==
  ASSUME NEW pool \in PoolType, NEW shares \in Nat, NEW amount \in Nat
  PROVE  LET after == PoolDeposit(pool, shares, amount)
         IN  /\ after \in PoolType
             /\ after.shares = pool.shares + shares /\ after.balance = pool.balance + amount
             /\ Covering(pool, shares, amount) => PriceNotLower(pool, after)
             /\ Covered(pool, shares, amount) => PriceNotLower(after, pool)
<1> DEFINE B == pool.balance
           S == pool.shares
           after == PoolDeposit(pool, shares, amount)
<1>1. B \in Nat /\ S \in Nat
  BY DEF PoolType
<1>2. after \in PoolType /\ after.balance = B + amount /\ after.shares = S + shares
  BY PoolOperations DEF PoolDeposit
<1> HIDE DEF B, S, after
<1>3. (B + amount) * S = B * S + amount * S /\ B * (S + shares) = B * S + B * shares
  BY <1>1
<1>4. B * S \in Nat /\ amount * S \in Nat /\ B * shares \in Nat
  BY <1>1, ProductType
<1>5. B * shares <= amount * S => B * (S + shares) <= (B + amount) * S
  BY <1>3, <1>4
<1>6. amount * S <= B * shares => (B + amount) * S <= B * (S + shares)
  BY <1>3, <1>4
<1> QED BY <1>2, <1>5, <1>6 DEF PriceNotLower, Covering, Covered, B, S, after

\* A withdrawal moves the price of a pool away from its own.
LEMMA PriceOfWithdrawal ==
  ASSUME NEW pool \in PoolType, NEW shares \in Nat, NEW amount \in Nat,
         CanWithdraw(pool, shares, amount)
  PROVE  LET after == PoolWithdraw(pool, shares, amount)
         IN  /\ after \in PoolType
             /\ after.shares = pool.shares - shares /\ after.balance = pool.balance - amount
             /\ Covered(pool, shares, amount) => PriceNotLower(pool, after)
             /\ Covering(pool, shares, amount) => PriceNotLower(after, pool)
<1> DEFINE B == pool.balance
           S == pool.shares
           after == PoolWithdraw(pool, shares, amount)
<1>1. B \in Nat /\ S \in Nat /\ shares <= S /\ amount <= B
  BY DEF PoolType, CanWithdraw
<1>2. after \in PoolType /\ after.balance = B - amount /\ after.shares = S - shares
  BY PoolOperations DEF PoolWithdraw
<1> HIDE DEF B, S, after
<1>3. (B - amount) * S = B * S - amount * S /\ B * (S - shares) = B * S - B * shares
  BY <1>1
<1>4. B * S \in Nat /\ amount * S \in Nat /\ B * shares \in Nat
  BY <1>1, ProductType
<1>5. amount * S <= B * shares => B * (S - shares) <= (B - amount) * S
  BY <1>3, <1>4
<1>6. B * shares <= amount * S => (B - amount) * S <= B * (S - shares)
  BY <1>3, <1>4
<1> QED BY <1>2, <1>5, <1>6 DEF PriceNotLower, Covering, Covered, B, S, after

-----------------------------------------------------------------------------
(***************************************************************************)
(* Which way the conversions round.                                        *)
(***************************************************************************)
\* Tokens that are turned into shares.
LEMMA SharesRounding ==
  ASSUME NEW pool \in PoolType, PoolInvariant(pool), NEW amount \in Nat
  PROVE  /\ AmountToShares(pool, amount, FALSE) \in Nat
         /\ Covering(pool, AmountToShares(pool, amount, FALSE), amount)
         /\ AmountToShares(pool, amount, TRUE) \in Nat
         /\ Covered(pool, AmountToShares(pool, amount, TRUE), amount)
<1> DEFINE down == AmountToShares(pool, amount, FALSE)
           up   == AmountToShares(pool, amount, TRUE)
           B == pool.balance
           S == pool.shares
<1>1. B \in Nat /\ S \in Nat
  BY DEF PoolType
<1>2. down \in Nat /\ down * B <= S * amount
  BY SharesDown
<1>3. up \in Nat /\ up * B >= S * amount
  BY SharesUp
<1> HIDE DEF down, up, B, S
<1>4. down * B = B * down /\ up * B = B * up /\ S * amount = amount * S
  BY <1>1, <1>2, <1>3
<1> QED BY <1>2, <1>3, <1>4 DEF Covering, Covered, down, up, B, S

\* Shares of a pool that are turned into tokens.
LEMMA AmountRounding ==
  ASSUME NEW pool \in PoolType, PoolInvariant(pool), NEW shares \in Nat, shares <= pool.shares
  PROVE  /\ SharesToAmount(pool, shares, FALSE) \in Nat
         /\ SharesToAmount(pool, shares, FALSE) <= pool.balance
         /\ Covered(pool, shares, SharesToAmount(pool, shares, FALSE))
         /\ SharesToAmount(pool, shares, TRUE) \in Nat
         /\ SharesToAmount(pool, shares, TRUE) <= pool.balance
         /\ Covering(pool, shares, SharesToAmount(pool, shares, TRUE))
BY AmountDown, AmountUp DEF Covered, Covering

\* Fewer tokens are covered by the same shares, and more tokens cover them.
LEMMA AmountMonotone ==
  ASSUME NEW pool \in PoolType, NEW shares \in Nat, NEW less \in Nat, NEW more \in Nat,
         less <= more
  PROVE  /\ Covered(pool, shares, more) => Covered(pool, shares, less)
         /\ Covering(pool, shares, less) => Covering(pool, shares, more)
<1> DEFINE B == pool.balance
           S == pool.shares
<1>1. B \in Nat /\ S \in Nat
  BY DEF PoolType
<1> HIDE DEF B, S
<1>2. less * S <= more * S
  BY <1>1, ProductMonotone
<1>3. less * S \in Nat /\ more * S \in Nat /\ B * shares \in Nat
  BY <1>1, ProductType
<1>4. /\ more * S <= B * shares => less * S <= B * shares
      /\ B * shares <= less * S => B * shares <= more * S
  BY <1>2, <1>3
<1> QED BY <1>4 DEF Covered, Covering, B, S

\* Fewer shares are covered by the same tokens.
LEMMA SharesMonotone ==
  ASSUME NEW pool \in PoolType, NEW amount \in Nat, NEW less \in Nat, NEW more \in Nat,
         less <= more, Covering(pool, more, amount)
  PROVE  Covering(pool, less, amount)
<1> DEFINE B == pool.balance
           S == pool.shares
<1>1. B \in Nat /\ S \in Nat /\ B * more <= amount * S
  BY DEF PoolType, Covering
<1> HIDE DEF B, S
<1>2. less * B <= more * B
  BY <1>1, ProductMonotone
<1>3. less * B = B * less /\ more * B = B * more
  BY <1>1
<1>4. B * less \in Nat /\ B * more \in Nat /\ amount * S \in Nat
  BY <1>1, ProductType
<1>5. B * less <= amount * S
  BY <1>1, <1>2, <1>3, <1>4
<1> QED BY <1>5 DEF Covering, B, S

\* What an action moves out of a supply, or borrows, its shares cover.
LEMMA MoveOut ==
  ASSUME NEW pool \in PoolType, PoolInvariant(pool), NEW available \in Nat,
         NEW req \in RequestsOver(Nat),
         LET move == AssetAmountToShares(pool, available, req, FALSE)
         IN  req.kind # "amount" => Convertible(pool, move.shares)
  PROVE  LET move == AssetAmountToShares(pool, available, req, FALSE)
         IN  /\ move.shares \in Nat /\ move.amount \in Nat
             /\ Covered(pool, move.shares, move.amount)
<1> DEFINE wanted == AmountToShares(pool, req.value, TRUE)
           capped == IF req.kind = "available" THEN available ELSE Least(available, wanted)
           amount == SharesToAmount(pool, capped, FALSE)
           move   == AssetAmountToShares(pool, available, req, FALSE)
<1>1. /\ req.value \in Nat
      /\ req.kind \in {"amount", "max_amount", "available"}
  BY DEF RequestsOver, Exactly, AtMost, Everything
<1>2. wanted \in Nat /\ Covered(pool, wanted, req.value)
  BY <1>1, SharesRounding
<1>3. move = [shares |-> IF req.kind = "amount" THEN wanted ELSE capped,
              amount |-> IF req.kind = "amount" THEN req.value
                         ELSE IF req.kind = "max_amount" THEN Least(amount, req.value)
                         ELSE amount]
  BY DEF AssetAmountToShares
<1>4. capped \in Nat
  <2> HIDE DEF wanted
  <2> QED BY <1>2, LeastBound
<1> HIDE DEF wanted, move
<1>5. CASE req.kind = "amount"
  <2>1. move.shares = wanted /\ move.amount = req.value
    BY <1>3, <1>5
  <2> QED BY <1>1, <1>2, <2>1 DEF move
<1>6. CASE req.kind # "amount"
  <2>1. move.shares = capped
    BY <1>3, <1>6
  <2>2. Convertible(pool, capped)
    BY <1>6, <2>1 DEF move
  <2> HIDE DEF capped
  <2>3. amount \in Nat /\ Covered(pool, capped, amount)
    <3>1. CASE capped <= pool.shares
      BY <1>4, <3>1, AmountRounding
    <3>2. CASE ~ capped <= pool.shares
      <4>1. pool.balance \in Nat /\ pool.shares \in Nat
        BY DEF PoolType
      <4>2. capped >= pool.balance
        BY <1>4, <2>2, <3>2, <4>1 DEF Convertible
      <4>3. amount = pool.balance
        BY <4>2 DEF SharesToAmount
      <4>4. pool.shares <= capped
        BY <1>4, <3>2, <4>1
      <4>5. pool.shares * pool.balance <= capped * pool.balance
        BY <1>4, <4>1, <4>4, ProductMonotone
      <4>6. pool.balance * pool.shares <= pool.balance * capped
        BY <1>4, <4>1, <4>5
      <4> HIDE DEF amount
      <4> QED BY <4>1, <4>3, <4>6 DEF Covered
    <3> QED BY <3>1, <3>2
  <2> HIDE DEF amount
  <2>4. move.amount \in Nat /\ move.amount <= amount
    BY <1>1, <1>3, <1>6, <2>3, LeastBound
  <2>5. Covered(pool, capped, move.amount)
    BY <1>4, <2>3, <2>4, AmountMonotone
  <2> QED BY <1>4, <2>1, <2>4, <2>5 DEF move
<1> QED BY <1>5, <1>6

\* What a repayment moves covers the shares of debt it takes.
LEMMA MoveIn ==
  ASSUME NEW pool \in PoolType, PoolInvariant(pool), NEW available \in Nat,
         available <= pool.shares, NEW req \in RequestsOver(Nat)
  PROVE  LET move == AssetAmountToShares(pool, available, req, TRUE)
         IN  /\ move.shares \in Nat /\ move.amount \in Nat
             /\ Covering(pool, move.shares, move.amount)
<1> DEFINE wanted == AmountToShares(pool, req.value, FALSE)
           capped == IF req.kind = "available" THEN available ELSE Least(available, wanted)
           amount == SharesToAmount(pool, capped, TRUE)
           move   == AssetAmountToShares(pool, available, req, TRUE)
<1>1. /\ req.value \in Nat
      /\ req.kind \in {"amount", "max_amount", "available"}
  BY DEF RequestsOver, Exactly, AtMost, Everything
<1>2. wanted \in Nat /\ Covering(pool, wanted, req.value)
  BY <1>1, SharesRounding
<1>3. move = [shares |-> IF req.kind = "amount" THEN wanted ELSE capped,
              amount |-> IF req.kind = "amount" THEN req.value
                         ELSE IF req.kind = "max_amount" THEN Least(amount, req.value)
                         ELSE amount]
  BY DEF AssetAmountToShares
<1>4. capped \in Nat /\ capped <= available /\ (req.kind # "available" => capped <= wanted)
  <2> HIDE DEF wanted
  <2> QED BY <1>2, LeastBound DEF Least
<1> HIDE DEF wanted, move, capped
<1>5. capped <= pool.shares
  BY <1>4 DEF PoolType
<1>6. amount \in Nat /\ Covering(pool, capped, amount)
  BY <1>4, <1>5, AmountRounding
<1> HIDE DEF amount
<1>7. CASE req.kind = "amount"
  <2>1. move.shares = wanted /\ move.amount = req.value
    BY <1>3, <1>7
  <2> QED BY <1>1, <1>2, <2>1 DEF move
<1>8. CASE req.kind = "max_amount"
  <2>1. move.shares = capped /\ move.amount = Least(amount, req.value)
    BY <1>3, <1>8
  <2>2. Covering(pool, capped, req.value)
    BY <1>1, <1>2, <1>4, <1>8, SharesMonotone
  <2>3. move.amount \in Nat /\ Covering(pool, capped, move.amount)
    BY <1>1, <1>6, <2>1, <2>2 DEF Least
  <2> QED BY <1>4, <2>1, <2>3 DEF move
<1>9. CASE req.kind = "available"
  <2>1. move.shares = capped /\ move.amount = amount
    BY <1>3, <1>9
  <2> QED BY <1>4, <1>6, <2>1 DEF move
<1> QED BY <1>1, <1>7, <1>8, <1>9

-----------------------------------------------------------------------------
(***************************************************************************)
(* What an account's shares are worth when the price of the pool moves.    *)
(***************************************************************************)
\* Of y tokens for o shares at one price, rounded down, and x at a price no
\* lower, y are not more.
LEMMA FloorBelow ==
  ASSUME NEW b1 \in Nat, NEW s1 \in Nat \ {0}, NEW b2 \in Nat, NEW s2 \in Nat \ {0},
         NEW o \in Nat, NEW y \in Nat, NEW x \in Nat,
         y * s1 <= b1 * o, b2 * o < x * s2 + s2, b1 * s2 <= b2 * s1
  PROVE  y <= x
<1>1. /\ y * s1 \in Nat /\ b1 * o \in Nat /\ b2 * o \in Nat /\ x * s2 \in Nat /\ y * s2 \in Nat
      /\ b1 * s2 \in Nat /\ b2 * s1 \in Nat
  BY ProductType
<1>2. (y * s1) * s2 <= (b1 * o) * s2
  BY <1>1, ProductMonotone
<1>3. (b1 * s2) * o <= (b2 * s1) * o
  BY <1>1, ProductMonotone
<1>4. (y * s1) * s2 = (y * s2) * s1
  OBVIOUS
<1>5. (b1 * o) * s2 = (b1 * s2) * o
  OBVIOUS
<1>6. (b2 * s1) * o = (b2 * o) * s1
  OBVIOUS
<1>7. (y * s2) * s1 <= (b2 * o) * s1
  <2>1. /\ (y * s2) * s1 \in Nat /\ (b1 * s2) * o \in Nat /\ (b2 * o) * s1 \in Nat
    BY <1>1, ProductType
  <2> QED BY <1>2, <1>3, <1>4, <1>5, <1>6, <2>1
<1>8. y * s2 <= b2 * o
  BY <1>1, <1>7, ProductCancel
<1>9. y * s2 < x * s2 + s2
  BY <1>1, <1>8
<1> QED BY <1>9, ProductBelow

\* Of y tokens for o shares at one price, rounded up, and x at a price no
\* lower, y are not more.
LEMMA CeilingBelow ==
  ASSUME NEW b1 \in Nat, NEW s1 \in Nat \ {0}, NEW b2 \in Nat, NEW s2 \in Nat \ {0},
         NEW o \in Nat, NEW y \in Nat, NEW x \in Nat,
         y * s1 < b1 * o + s1, b2 * o <= x * s2, b1 * s2 <= b2 * s1
  PROVE  y <= x
<1>1. /\ y * s1 \in Nat /\ b1 * o \in Nat /\ b2 * o \in Nat /\ x * s2 \in Nat /\ x * s1 \in Nat
      /\ b1 * s2 \in Nat /\ b2 * s1 \in Nat
  BY ProductType
<1>2. (b2 * o) * s1 <= (x * s2) * s1
  BY <1>1, ProductMonotone
<1>3. (b1 * s2) * o <= (b2 * s1) * o
  BY <1>1, ProductMonotone
<1>4. (x * s2) * s1 = (x * s1) * s2
  OBVIOUS
<1>5. (b1 * s2) * o = (b1 * o) * s2
  OBVIOUS
<1>6. (b2 * s1) * o = (b2 * o) * s1
  OBVIOUS
<1>7. (b1 * o) * s2 <= (x * s1) * s2
  <2>1. /\ (b1 * o) * s2 \in Nat /\ (b2 * o) * s1 \in Nat /\ (x * s1) * s2 \in Nat
    BY <1>1, ProductType
  <2> QED BY <1>2, <1>3, <1>4, <1>5, <1>6, <2>1
<1>8. b1 * o <= x * s1
  BY <1>1, <1>7, ProductCancel
<1>9. y * s1 < x * s1 + s1
  BY <1>1, <1>8
<1> QED BY <1>9, ProductBelow

\* The conversions of a sound pool are its quotients, and no share is worth
\* nothing.
LEMMA ExactAmount ==
  ASSUME NEW pool \in PoolType, SoundPool(pool), NEW shares \in Nat, shares <= pool.shares
  PROVE  LET down == SharesToAmount(pool, shares, FALSE)
             up   == SharesToAmount(pool, shares, TRUE)
         IN  /\ down \in Nat /\ down <= pool.balance
             /\ down * pool.shares <= pool.balance * shares
             /\ up \in Nat /\ up <= pool.balance
             /\ pool.balance * shares <= up * pool.shares
             /\ shares <= down /\ shares <= up
             /\ pool.shares > 0 =>
                   /\ pool.balance * shares < down * pool.shares + pool.shares
                   /\ up * pool.shares < pool.balance * shares + pool.shares
             /\ shares = 0 => down = 0 /\ up = 0
             /\ shares = pool.shares => down = pool.balance /\ up = pool.balance
<1> DEFINE B == pool.balance
           S == pool.shares
           down == SharesToAmount(pool, shares, FALSE)
           up   == SharesToAmount(pool, shares, TRUE)
<1>1. PoolInvariant(pool) /\ B \in Nat /\ S \in Nat /\ S <= B /\ (S = 0 => B = 0)
  BY DEF PoolType, SoundPool, PoolInvariant
<1>2. /\ down \in Nat /\ shares <= down /\ down <= B /\ down * S <= B * shares
      /\ shares = S => down = B
  BY <1>1, AmountDown
<1>3. /\ up \in Nat /\ shares <= up /\ up <= B /\ up * S >= B * shares
      /\ shares = S => up = B
  BY <1>1, AmountUp
<1>4. ASSUME S > 0 PROVE B * shares < down * S + S /\ up * S < B * shares + S
  <2>1. CASE shares >= B \/ shares = S
    <3>1. shares = S
      BY <1>1, <2>1
    <3>2. down = B /\ up = B
      BY <1>2, <1>3, <3>1
    <3> HIDE DEF down, up, B, S
    <3>3. B * S \in Nat
      BY <1>1, ProductType
    <3> QED BY <1>1, <1>4, <3>1, <3>2, <3>3
  <2>2. CASE ~ (shares >= B \/ shares = S)
    <3>1. down = DivRound(B * shares, S, FALSE) /\ up = DivRound(B * shares, S, TRUE)
      BY <2>2 DEF SharesToAmount
    <3> HIDE DEF down, up, B, S
    <3>2. B * shares \in Nat /\ S \in Nat \ {0}
      BY <1>1, <1>4, ProductType
    <3>3. /\ B * shares < DivRound(B * shares, S, FALSE) * S + S
          /\ DivRound(B * shares, S, TRUE) * S < B * shares + S
      BY <3>2, Rounding
    <3> QED BY <3>1, <3>3
  <2> QED BY <2>1, <2>2
<1>5. ASSUME shares = 0 PROVE down = 0 /\ up = 0
  <2>1. CASE S = 0
    <3>1. B = 0
      BY <1>1, <2>1
    <3> HIDE DEF down, up, B, S
    <3> QED BY <1>2, <1>3, <3>1
  <2>2. CASE S > 0
    <3>1. down * S <= B * 0 /\ up * S < B * 0 + S
      BY <1>2, <1>4, <1>5, <2>2
    <3> HIDE DEF down, up, B, S
    <3>2. B * 0 = 0
      BY <1>1
    <3>3. down * S <= 0 * S /\ up * S < 0 * S + S
      BY <1>1, <3>1, <3>2
    <3>4. down <= 0
      BY <1>1, <1>2, <2>2, <3>3, ProductCancel
    <3>5. up <= 0
      BY <1>1, <1>3, <2>2, <3>3, ProductBelow
    <3> QED BY <1>2, <1>3, <3>4, <3>5
  <2>3. S = 0 \/ S > 0
    BY <1>1
  <2> QED BY <2>1, <2>2, <2>3
<1> HIDE DEF down, up
<1> QED BY <1>2, <1>3, <1>4, <1>5 DEF down, up

\* Supplied shares are worth no less at a price that has not fallen.
LEMMA WorthNotLower ==
  ASSUME NEW before \in PoolType, SoundPool(before), NEW after \in PoolType, SoundPool(after),
         PriceNotLower(before, after),
         NEW less \in Nat, NEW more \in Nat, less <= more,
         less <= before.shares, more <= after.shares
  PROVE  SharesToAmount(before, less, FALSE) <= SharesToAmount(after, more, FALSE)
<1> DEFINE b1 == before.balance
           s1 == before.shares
           b2 == after.balance
           s2 == after.shares
           y == SharesToAmount(before, less, FALSE)
           x == SharesToAmount(after, more, FALSE)
<1>1. /\ b1 \in Nat /\ s1 \in Nat /\ b2 \in Nat /\ s2 \in Nat
      /\ b1 * s2 <= b2 * s1
  BY DEF PoolType, PriceNotLower
<1>2. /\ y \in Nat /\ y * s1 <= b1 * less
      /\ less = 0 => y = 0
  BY ExactAmount
<1>3. /\ x \in Nat
      /\ s2 > 0 => b2 * more < x * s2 + s2
  BY ExactAmount
<1> HIDE DEF b1, s1, b2, s2, x, y
<1>4. CASE less = 0
  <2>1. y <= x
    BY <1>2, <1>3, <1>4
  <2> QED BY <2>1 DEF x, y
<1>5. CASE less > 0
  <2>1. s1 \in Nat \ {0} /\ s2 \in Nat \ {0}
    BY <1>1, <1>5 DEF s1, s2
  <2>2. less * b2 <= more * b2
    BY <1>1, ProductMonotone
  <2>3. less * b2 = b2 * less /\ more * b2 = b2 * more /\ b2 * less \in Nat /\ b2 * more \in Nat
        /\ x * s2 \in Nat
    BY <1>1, <1>3, ProductType
  <2>4. b2 * less < x * s2 + s2
    BY <1>1, <1>3, <2>1, <2>2, <2>3
  <2>5. y <= x
    BY <1>1, <1>2, <1>3, <2>1, <2>4, FloorBelow
  <2> QED BY <2>5 DEF x, y
<1>6. less = 0 \/ less > 0
  OBVIOUS
<1> QED BY <1>4, <1>5, <1>6

\* Shares of debt are owed with no more at a price that has not risen.
LEMMA OwedNotHigher ==
  ASSUME NEW before \in PoolType, SoundPool(before), NEW after \in PoolType, SoundPool(after),
         PriceNotLower(after, before),
         NEW less \in Nat, NEW more \in Nat, less <= more,
         less <= after.shares, more <= before.shares
  PROVE  SharesToAmount(after, less, TRUE) <= SharesToAmount(before, more, TRUE)
<1> DEFINE b1 == after.balance
           s1 == after.shares
           b2 == before.balance
           s2 == before.shares
           y == SharesToAmount(after, less, TRUE)
           x == SharesToAmount(before, more, TRUE)
<1>1. /\ b1 \in Nat /\ s1 \in Nat /\ b2 \in Nat /\ s2 \in Nat
      /\ b1 * s2 <= b2 * s1
  BY DEF PoolType, PriceNotLower
<1>2. /\ y \in Nat
      /\ s1 > 0 => y * s1 < b1 * less + s1
      /\ less = 0 => y = 0
  BY ExactAmount
<1>3. x \in Nat /\ b2 * more <= x * s2
  BY ExactAmount
<1> HIDE DEF b1, s1, b2, s2, x, y
<1>4. CASE less = 0
  <2>1. y <= x
    BY <1>2, <1>3, <1>4
  <2> QED BY <2>1 DEF x, y
<1>5. CASE less > 0
  <2>1. s1 \in Nat \ {0} /\ s2 \in Nat \ {0}
    BY <1>1, <1>5 DEF s1, s2
  <2>2. less * b2 <= more * b2
    BY <1>1, ProductMonotone
  <2>3. less * b2 = b2 * less /\ more * b2 = b2 * more /\ b2 * less \in Nat /\ b2 * more \in Nat
        /\ x * s2 \in Nat
    BY <1>1, <1>3, ProductType
  <2>4. b2 * less <= x * s2
    BY <1>1, <1>3, <2>2, <2>3
  <2>5. y <= x
    BY <1>1, <1>2, <1>3, <2>1, <2>4, CeilingBelow
  <2> QED BY <2>5 DEF x, y
<1>6. less = 0 \/ less > 0
  OBVIOUS
<1> QED BY <1>4, <1>5, <1>6

\* When the price has not fallen and the others hold what they held, a holder
\* has gained no more than has come in.
LEMMA HolderGains ==
  ASSUME NEW before \in PoolType, SoundPool(before), NEW after \in PoolType, SoundPool(after),
         PriceNotLower(before, after),
         NEW held \in Nat, NEW holds \in Nat,
         held <= before.shares, holds <= after.shares,
         before.shares - held = after.shares - holds,
         NEW n \in Int, after.balance <= before.balance + n
  PROVE  SharesToAmount(after, holds, FALSE) <= SharesToAmount(before, held, FALSE) + n
<1> DEFINE b1 == before.balance
           s1 == before.shares
           b2 == after.balance
           s2 == after.shares
           v1 == SharesToAmount(before, held, FALSE)
           v2 == SharesToAmount(after, holds, FALSE)
           o == s1 - held
           y == b1 - v1
           x == b2 - v2
<1>1. /\ b1 \in Nat /\ s1 \in Nat /\ b2 \in Nat /\ s2 \in Nat
      /\ b1 * s2 <= b2 * s1
  BY DEF PoolType, PriceNotLower
<1>2. /\ v1 \in Nat /\ v1 <= b1
      /\ s1 > 0 => b1 * held < v1 * s1 + s1
      /\ held = s1 => v1 = b1
  BY ExactAmount
<1>3. /\ v2 \in Nat /\ v2 <= b2
      /\ v2 * s2 <= b2 * holds
      /\ holds = 0 => v2 = 0
  BY ExactAmount
<1>6. /\ b2 <= b1 + n
      /\ held <= s1 /\ holds <= s2 /\ s1 - held = s2 - holds
  OBVIOUS
<1> HIDE DEF b1, s1, b2, s2, v1, v2
<1>4. held <= s1 /\ holds <= s2 /\ o = s2 - holds /\ o \in Nat /\ y \in Nat /\ x \in Nat
  BY <1>1, <1>2, <1>3, <1>6
<1>5. s1 = o + held /\ s2 = o + holds /\ b1 = y + v1 /\ b2 = x + v2
  BY <1>1, <1>2, <1>3, <1>4
<1> HIDE DEF o, x, y
<1>7. CASE s1 = 0
  <2>1. held = s1
    BY <1>4, <1>7
  <2>2. v1 = b1
    BY <1>2, <2>1
  <2>8. v2 <= v1 + n
    BY <1>1, <1>3, <1>6, <2>2
  <2> QED BY <2>8 DEF v1, v2
<1>8. CASE s2 = 0
  <2>1. holds = 0 /\ o = 0
    BY <1>4, <1>5, <1>8
  <2>2. v2 = 0 /\ v1 = b1
    BY <1>2, <1>3, <1>4, <1>5, <2>1
  <2>8. v2 <= v1 + n
    BY <1>1, <1>6, <2>2
  <2> QED BY <2>8 DEF v1, v2
<1>9. CASE s1 > 0 /\ s2 > 0
  <2>1. y * s1 = b1 * s1 - v1 * s1
    BY <1>1, <1>2, <1>4, <1>5
  <2>2. b1 * o = b1 * s1 - b1 * held
    BY <1>1, <1>4, <1>5
  <2>3. x * s2 = b2 * s2 - v2 * s2
    BY <1>1, <1>3, <1>4, <1>5
  <2>4. b2 * o = b2 * s2 - b2 * holds
    BY <1>1, <1>4, <1>5
  <2>5. /\ b1 * s1 \in Nat /\ v1 * s1 \in Nat /\ b1 * held \in Nat
        /\ b2 * s2 \in Nat /\ v2 * s2 \in Nat /\ b2 * holds \in Nat
    BY <1>1, <1>2, <1>3, ProductType
  <2>6. y * s1 < b1 * o + s1
    BY <1>1, <1>2, <1>9, <2>1, <2>2, <2>5
  <2>7. b2 * o <= x * s2
    BY <1>3, <2>3, <2>4, <2>5
  <2>8. y <= x
    BY <1>1, <1>4, <1>9, <2>6, <2>7, CeilingBelow
  <2>9. v2 <= v1 + n
    BY <1>1, <1>2, <1>3, <1>4, <1>5, <1>6, <2>8
  <2> QED BY <2>9 DEF v1, v2
<1>10. \/ s1 = 0 \/ s2 = 0
       \/ s1 > 0 /\ s2 > 0
  BY <1>1
<1> QED BY <1>7, <1>8, <1>9, <1>10

\* When the price of debt has not risen and the others owe what they owed, a
\* debtor owes all that has been lent.
LEMMA DebtorOwes ==
  ASSUME NEW before \in PoolType, SoundPool(before), NEW after \in PoolType, SoundPool(after),
         PriceNotLower(after, before),
         NEW owed \in Nat, NEW owes \in Nat,
         owed <= before.shares, owes <= after.shares,
         before.shares - owed = after.shares - owes,
         NEW n \in Int, after.balance = before.balance + n
  PROVE  SharesToAmount(after, owes, TRUE) >= SharesToAmount(before, owed, TRUE) + n
<1> DEFINE b1 == before.balance
           s1 == before.shares
           b2 == after.balance
           s2 == after.shares
           v1 == SharesToAmount(before, owed, TRUE)
           v2 == SharesToAmount(after, owes, TRUE)
           o == s1 - owed
           x == b1 - v1
           y == b2 - v2
<1>1. /\ b1 \in Nat /\ s1 \in Nat /\ b2 \in Nat /\ s2 \in Nat
      /\ b2 * s1 <= b1 * s2
  BY DEF PoolType, PriceNotLower
<1>2. /\ v1 \in Nat /\ v1 <= b1
      /\ s1 > 0 => v1 * s1 < b1 * owed + s1
      /\ owed = s1 => v1 = b1
      /\ owed = 0 => v1 = 0
  BY ExactAmount
<1>3. /\ v2 \in Nat /\ v2 <= b2
      /\ b2 * owes <= v2 * s2
      /\ owes = s2 => v2 = b2
  BY ExactAmount
<1>6. /\ b2 = b1 + n
      /\ owed <= s1 /\ owes <= s2 /\ s1 - owed = s2 - owes
  OBVIOUS
<1> HIDE DEF b1, s1, b2, s2, v1, v2
<1>4. owed <= s1 /\ owes <= s2 /\ o = s2 - owes /\ o \in Nat /\ y \in Nat /\ x \in Nat
  BY <1>1, <1>2, <1>3, <1>6
<1>5. s1 = o + owed /\ s2 = o + owes /\ b1 = x + v1 /\ b2 = y + v2
  BY <1>1, <1>2, <1>3, <1>4
<1> HIDE DEF o, x, y
<1>7. CASE s2 = 0
  <2>1. o = 0
    BY <1>4, <1>5, <1>7
  <2>2. owes = s2
    BY <1>4, <1>7
  <2>3. v2 = b2 /\ v1 <= b1
    BY <1>2, <1>3, <2>2
  <2>8. v2 >= v1 + n
    BY <1>1, <1>2, <1>6, <2>3
  <2> QED BY <2>8 DEF v1, v2
<1>8. CASE s1 = 0
  <2>1. owed = 0 /\ o = 0
    BY <1>4, <1>5, <1>8
  <2>2. owes = s2
    BY <1>4, <1>5, <2>1
  <2>3. v1 = 0 /\ v1 = b1 /\ v2 = b2
    BY <1>2, <1>3, <1>8, <2>1, <2>2
  <2>8. v2 >= v1 + n
    BY <1>1, <1>6, <2>3
  <2> QED BY <2>8 DEF v1, v2
<1>9. CASE s1 > 0 /\ s2 > 0
  <2>1. x * s1 = b1 * s1 - v1 * s1
    BY <1>1, <1>2, <1>4, <1>5
  <2>2. b1 * o = b1 * s1 - b1 * owed
    BY <1>1, <1>4, <1>5
  <2>3. y * s2 = b2 * s2 - v2 * s2
    BY <1>1, <1>3, <1>4, <1>5
  <2>4. b2 * o = b2 * s2 - b2 * owes
    BY <1>1, <1>4, <1>5
  <2>5. /\ b1 * s1 \in Nat /\ v1 * s1 \in Nat /\ b1 * owed \in Nat
        /\ b2 * s2 \in Nat /\ v2 * s2 \in Nat /\ b2 * owes \in Nat
    BY <1>1, <1>2, <1>3, ProductType
  <2>6. b1 * o < x * s1 + s1
    BY <1>1, <1>2, <1>9, <2>1, <2>2, <2>5
  <2>7. y * s2 <= b2 * o
    BY <1>3, <2>3, <2>4, <2>5
  <2>8. y <= x
    BY <1>1, <1>4, <1>9, <2>6, <2>7, FloorBelow
  <2>9. v2 >= v1 + n
    BY <1>1, <1>2, <1>3, <1>4, <1>5, <1>6, <2>8
  <2> QED BY <2>9 DEF v1, v2
<1>10. \/ s1 = 0 \/ s2 = 0
       \/ s1 > 0 /\ s2 > 0
  BY <1>1
<1> QED BY <1>7, <1>8, <1>9, <1>10

-----------------------------------------------------------------------------
(***************************************************************************)
(* The invariant.  A pool without shares holds nothing and a share stands  *)
(* for a token at least; a payment under way is worth a unit of its token; *)
(* no price is zero.  With these the properties of Lending are inductive.  *)
(***************************************************************************)
SoundAsset(x) == SoundPool(x.supplied) /\ SoundPool(x.borrowed)
AllSound == \A t \in Tokens : SoundAsset(asset[t])

PaymentFits(tr) == tr.ft_amount = tr.amount \div Scale /\ tr.ft_amount > 0
PaymentsFit == \A s \in Slots : transfer[s] # NoTransfer => PaymentFits(transfer[s])

PricesPositive == price \in [Tokens -> Nat \ {0}]
AllAvailable   == \A t \in Tokens : AvailableAmount(asset[t]) >= 0

\* no part of the fees goes to a beneficiary
NoBeneficiary == BeneficiaryRate = 0

Safe ==
    /\ Inv
    /\ AllSound
    /\ PaymentsFit
    /\ PricesPositive
    /\ DebtIsBacked
    /\ CashCoversClaims
    /\ NoBeneficiary => AllAvailable

-----------------------------------------------------------------------------
(***************************************************************************)
(* How an operation moves the pools of one asset: m tokens come to the     *)
(* supply, n to the debt, r to the reserve and f to the fees, and neither  *)
(* the suppliers' nor the debtors' price moves against the others.         *)
(***************************************************************************)
SupplyMoves(before, after, m) ==
    after \in PoolType /\ PriceNotLower(before, after) /\ after.balance = before.balance + m

DebtMoves(before, after, n) ==
    after \in PoolType /\ PriceNotLower(after, before) /\ after.balance = before.balance + n

AssetMoves(x, y, m, n, r, f) ==
    /\ SoundAsset(y)
    /\ PriceNotLower(x.supplied, y.supplied)
    /\ PriceNotLower(y.borrowed, x.borrowed)
    /\ y.supplied.balance <= x.supplied.balance + m
    /\ y.supplied.balance + y.reserved = x.supplied.balance + x.reserved + m + r
    /\ y.borrowed.balance = x.borrowed.balance + n
    /\ y.beneficiary_fees = x.beneficiary_fees + f

\* A price is not lower than itself.
LEMMA PriceReflexive ==
  ASSUME NEW pool \in PoolType
  PROVE  PriceNotLower(pool, pool)
<1>1. pool.shares \in Nat /\ pool.balance \in Nat
  BY DEF PoolType
<1>2. pool.balance * pool.shares \in Nat
  BY <1>1, ProductType
<1> QED BY <1>2 DEF PriceNotLower

\* An untouched pool moves by nothing.
LEMMA PoolRests ==
  ASSUME NEW pool \in PoolType
  PROVE  SupplyMoves(pool, pool, 0) /\ DebtMoves(pool, pool, 0)
<1>1. pool.balance \in Nat /\ pool.balance = pool.balance + 0
  BY DEF PoolType
<1> QED BY <1>1, PriceReflexive DEF SupplyMoves, DebtMoves

\* A deposit for shares rounded down and a withdrawal for shares rounded up
\* move the supply.
LEMMA SupplyMove ==
  ASSUME NEW pool \in PoolType, NEW shares \in Nat, NEW amount \in Nat
  PROVE  /\ Covering(pool, shares, amount)
              => SupplyMoves(pool, PoolDeposit(pool, shares, amount), amount)
         /\ CanWithdraw(pool, shares, amount) /\ Covered(pool, shares, amount)
              => SupplyMoves(pool, PoolWithdraw(pool, shares, amount), - amount)
<1>1. pool.balance \in Nat /\ pool.balance - amount = pool.balance + (- amount)
  BY DEF PoolType
<1>2. ASSUME Covering(pool, shares, amount)
      PROVE  SupplyMoves(pool, PoolDeposit(pool, shares, amount), amount)
  <2>1. LET after == PoolDeposit(pool, shares, amount)
        IN  after \in PoolType /\ after.balance = pool.balance + amount /\ PriceNotLower(pool, after)
    BY <1>2, PriceOfDeposit
  <2> QED BY <2>1 DEF SupplyMoves
<1>3. ASSUME CanWithdraw(pool, shares, amount), Covered(pool, shares, amount)
      PROVE  SupplyMoves(pool, PoolWithdraw(pool, shares, amount), - amount)
  <2>1. LET after == PoolWithdraw(pool, shares, amount)
        IN  after \in PoolType /\ after.balance = pool.balance - amount /\ PriceNotLower(pool, after)
    BY <1>3, PriceOfWithdrawal
  <2> QED BY <1>1, <2>1 DEF SupplyMoves
<1> QED BY <1>2, <1>3

\* A loan and a repayment, rounded the other way, move the debt.
LEMMA DebtMove ==
  ASSUME NEW pool \in PoolType, NEW shares \in Nat, NEW amount \in Nat
  PROVE  /\ Covered(pool, shares, amount)
              => DebtMoves(pool, PoolDeposit(pool, shares, amount), amount)
         /\ CanWithdraw(pool, shares, amount) /\ Covering(pool, shares, amount)
              => DebtMoves(pool, PoolWithdraw(pool, shares, amount), - amount)
<1>1. pool.balance \in Nat /\ pool.balance - amount = pool.balance + (- amount)
  BY DEF PoolType
<1>2. ASSUME Covered(pool, shares, amount)
      PROVE  DebtMoves(pool, PoolDeposit(pool, shares, amount), amount)
  <2>1. LET after == PoolDeposit(pool, shares, amount)
        IN  after \in PoolType /\ after.balance = pool.balance + amount /\ PriceNotLower(after, pool)
    BY <1>2, PriceOfDeposit
  <2> QED BY <2>1 DEF DebtMoves
<1>3. ASSUME CanWithdraw(pool, shares, amount), Covering(pool, shares, amount)
      PROVE  DebtMoves(pool, PoolWithdraw(pool, shares, amount), - amount)
  <2>1. LET after == PoolWithdraw(pool, shares, amount)
        IN  after \in PoolType /\ after.balance = pool.balance - amount /\ PriceNotLower(after, pool)
    BY <1>3, PriceOfWithdrawal
  <2> QED BY <1>1, <2>1 DEF DebtMoves
<1> QED BY <1>2, <1>3

\* A supply of no shares that holds nothing is left as it is.
LEMMA NormalizedSound ==
  ASSUME NEW y \in AssetType, SoundPool(y.supplied)
  PROVE  Normalized(y) \in AssetType /\ Normalized(y).supplied = y.supplied
         /\ Normalized(y).borrowed = y.borrowed /\ Normalized(y).reserved = y.reserved
         /\ Normalized(y).beneficiary_fees = y.beneficiary_fees
<1>1. /\ Normalized(y) \in AssetType /\ Normalized(y).borrowed = y.borrowed
      /\ Normalized(y).beneficiary_fees = y.beneficiary_fees
  BY NormalizedType
<1>2. CASE y.supplied.shares = 0
  <2>1. y.supplied \in PoolType /\ y.supplied.balance = 0 /\ y.reserved \in Nat
    BY <1>2 DEF AssetType, SoundPool
  <2>2. y.supplied = EmptyPool
    BY <1>2, <2>1 DEF PoolType, EmptyPool
  <2>3. Normalized(y) = [y EXCEPT !.reserved = @ + y.supplied.balance, !.supplied = EmptyPool]
    BY <1>2 DEF Normalized
  <2>4. Normalized(y).supplied = EmptyPool /\ Normalized(y).reserved = y.reserved + 0
    BY <2>1, <2>3 DEF AssetType
  <2> QED BY <1>1, <2>1, <2>2, <2>4
<1>3. CASE y.supplied.shares # 0
  BY <1>3 DEF Normalized
<1> QED BY <1>1, <1>2, <1>3

\* Saving an asset: what its checks refuse is what is not sound, and an
\* orphaned supply goes to the reserve.
LEMMA SavedMoves ==
  ASSUME NEW x \in AssetType, NEW y \in AssetType, NEW checked, CanSave(y, checked),
         NEW m \in Int, NEW n \in Int, NEW r \in Int, NEW f \in Int,
         SupplyMoves(x.supplied, y.supplied, m), DebtMoves(x.borrowed, y.borrowed, n),
         y.reserved = x.reserved + r, y.beneficiary_fees = x.beneficiary_fees + f
  PROVE  AssetMoves(x, Normalized(y), m, n, r, f)
<1> DEFINE z == Normalized(y)
<1>1. /\ z \in AssetType /\ z.borrowed = y.borrowed
      /\ z.supplied.balance + z.reserved = y.supplied.balance + y.reserved
      /\ z.beneficiary_fees = y.beneficiary_fees /\ z.supplied.shares = y.supplied.shares
  BY NormalizedType
<1>2. PoolInvariant(z.supplied) /\ PoolInvariant(y.borrowed)
         /\ (y.borrowed.shares > 0 \/ y.borrowed.balance = 0)
  BY DEF CanSave
<1>3. /\ x.supplied \in PoolType /\ y.supplied \in PoolType
      /\ x.borrowed \in PoolType /\ y.borrowed \in PoolType
      /\ x.reserved \in Nat /\ y.reserved \in Nat
  BY DEF AssetType
<1>4. /\ x.supplied.balance \in Nat /\ x.supplied.shares \in Nat
      /\ y.supplied.balance \in Nat /\ y.supplied.shares \in Nat
      /\ y.borrowed.shares \in Nat
  BY <1>3 DEF PoolType
<1>5. /\ PriceNotLower(x.supplied, y.supplied) /\ y.supplied.balance = x.supplied.balance + m
      /\ PriceNotLower(y.borrowed, x.borrowed) /\ y.borrowed.balance = x.borrowed.balance + n
  BY DEF SupplyMoves, DebtMoves
<1>6. CASE y.supplied.shares = 0
  <2>1. z = [y EXCEPT !.reserved = @ + y.supplied.balance, !.supplied = EmptyPool]
    BY <1>6 DEF Normalized
  <2>2. z.supplied = EmptyPool
    BY <2>1 DEF AssetType
  <2>3. z.supplied.balance = 0 /\ z.supplied.shares = 0
    BY <2>2 DEF EmptyPool
  <2>4. PriceNotLower(x.supplied, z.supplied)
    BY <1>4, <2>3 DEF PriceNotLower
  <2>5. z.supplied.balance <= x.supplied.balance + m
    BY <1>4, <1>5, <2>3
  <2>6. z.supplied.balance + z.reserved = x.supplied.balance + x.reserved + m + r
    BY <1>1, <1>3, <1>4, <1>5
  <2>7. y.borrowed.shares = 0 => y.borrowed.balance = 0
    BY <1>2
  <2>8. SoundAsset(z)
    BY <1>1, <1>2, <2>3, <2>7 DEF SoundAsset, SoundPool
  <2>9. z.borrowed.balance = x.borrowed.balance + n /\ PriceNotLower(z.borrowed, x.borrowed)
           /\ z.beneficiary_fees = x.beneficiary_fees + f
    BY <1>1, <1>5
  <2> HIDE DEF z
  <2>10. AssetMoves(x, z, m, n, r, f)
    BY <2>4, <2>5, <2>6, <2>8, <2>9 DEF AssetMoves
  <2> QED BY <2>10 DEF z
<1>7. CASE y.supplied.shares # 0
  <2>1. z = y
    BY <1>7 DEF Normalized
  <2>2. SoundAsset(y)
    BY <1>2, <1>4, <1>7, <2>1 DEF SoundAsset, SoundPool
  <2>3. y.supplied.balance <= x.supplied.balance + m
    BY <1>4, <1>5
  <2>4. y.supplied.balance + y.reserved = x.supplied.balance + x.reserved + m + r
    BY <1>3, <1>4, <1>5
  <2> QED BY <1>5, <2>1, <2>2, <2>3, <2>4 DEF AssetMoves
<1> QED BY <1>6, <1>7

\* An asset that nobody touches moves by nothing.
LEMMA AssetRests ==
  ASSUME NEW x \in AssetType, SoundAsset(x)
  PROVE  AssetMoves(x, x, 0, 0, 0, 0)
<1>1. /\ x.supplied \in PoolType /\ x.borrowed \in PoolType
      /\ x.reserved \in Nat /\ x.beneficiary_fees \in Nat
  BY DEF AssetType
<1>2. x.supplied.balance \in Nat /\ x.borrowed.balance \in Nat
  BY <1>1 DEF PoolType
<1> QED BY <1>1, <1>2, PriceReflexive DEF AssetMoves

-----------------------------------------------------------------------------
(***************************************************************************)
(* The health of a position, when every share is worth no less and every   *)
(* debt no more.                                                           *)
(***************************************************************************)
\* Soundness makes every amount of a position a natural number.
LEMMA ValueType ==
  ASSUME NEW X \in [Tokens -> AssetType], \A t \in Tokens : SoundAsset(X[t]),
         NEW shares \in [Tokens -> Nat], NEW owed \in [Tokens -> Nat],
         \A t \in Tokens : shares[t] <= X[t].supplied.shares /\ owed[t] <= X[t].borrowed.shares,
         NEW prices \in [Tokens -> Nat], NEW t \in Tokens
  PROVE  /\ SharesToAmount(X[t].supplied, shares[t], FALSE) \in Nat
         /\ SharesToAmount(X[t].supplied, shares[t], FALSE) * prices[t] * CollateralWeight[t] \in Nat
         /\ shares[t] = 0 => SharesToAmount(X[t].supplied, shares[t], FALSE) = 0
         /\ SharesToAmount(X[t].borrowed, owed[t], TRUE) \in Nat
         /\ SharesToAmount(X[t].borrowed, owed[t], TRUE) * prices[t] * DebtWeight[t] \in Nat
         /\ SharesToAmount(X[t].borrowed, owed[t], TRUE) >= owed[t]
<1> DEFINE v == SharesToAmount(X[t].supplied, shares[t], FALSE)
           w == SharesToAmount(X[t].borrowed, owed[t], TRUE)
<1>1. /\ X[t].supplied \in PoolType /\ X[t].borrowed \in PoolType
      /\ SoundPool(X[t].supplied) /\ SoundPool(X[t].borrowed)
  BY DEF AssetType, SoundAsset
<1>2. v \in Nat /\ (shares[t] = 0 => v = 0)
  BY <1>1, ExactAmount
<1>3. w \in Nat /\ owed[t] <= w
  BY <1>1, ExactAmount
<1>4. prices[t] \in Nat /\ CollateralWeight[t] \in Nat /\ DebtWeight[t] \in Nat
  BY WeightAssumption
<1> HIDE DEF v, w
<1>5. v * prices[t] \in Nat /\ w * prices[t] \in Nat
  BY <1>2, <1>3, <1>4, ProductType
<1>6. v * prices[t] * CollateralWeight[t] \in Nat /\ w * prices[t] * DebtWeight[t] \in Nat
  BY <1>4, <1>5, ProductType
<1>7. w >= owed[t]
  BY <1>3
<1> QED BY <1>2, <1>3, <1>6, <1>7 DEF v, w

\* A weighted amount grows with the amount.
LEMMA WeightedMonotone ==
  ASSUME NEW a \in Nat, NEW b \in Nat, a <= b, NEW p \in Nat, NEW w \in Nat
  PROVE  a * p * w <= b * p * w
<1>1. a * p \in Nat /\ b * p \in Nat /\ a * p <= b * p
  BY ProductType, ProductMonotone
<1> QED BY <1>1, ProductMonotone

\* A position with no less collateral, in shares worth no less, and no more
\* debt, in shares worth no more, is not at risk if it was not.
LEMMA RiskFalls ==
  ASSUME NEW X \in [Tokens -> AssetType], \A t \in Tokens : SoundAsset(X[t]),
         NEW Y \in [Tokens -> AssetType], \A t \in Tokens : SoundAsset(Y[t]),
         \A t \in Tokens : /\ PriceNotLower(X[t].supplied, Y[t].supplied)
                           /\ PriceNotLower(Y[t].borrowed, X[t].borrowed),
         NEW less \in [Tokens -> Nat], NEW more \in [Tokens -> Nat],
         NEW owed \in [Tokens -> Nat], NEW owes \in [Tokens -> Nat],
         \A t \in Tokens : /\ less[t] <= more[t] /\ owes[t] <= owed[t]
                           /\ less[t] <= X[t].supplied.shares /\ more[t] <= Y[t].supplied.shares
                           /\ owed[t] <= X[t].borrowed.shares /\ owes[t] <= Y[t].borrowed.shares,
         NEW prices \in [Tokens -> Nat],
         ~ AtRisk(X, less, owed, prices)
  PROVE  ~ AtRisk(Y, more, owes, prices)
<1> DEFINE cx == [t \in Tokens |->
                    SharesToAmount(X[t].supplied, less[t], FALSE) * prices[t] * CollateralWeight[t]]
           cy == [t \in Tokens |->
                    SharesToAmount(Y[t].supplied, more[t], FALSE) * prices[t] * CollateralWeight[t]]
           bx == [t \in Tokens |->
                    SharesToAmount(X[t].borrowed, owed[t], TRUE) * prices[t] * DebtWeight[t]]
           by == [t \in Tokens |->
                    SharesToAmount(Y[t].borrowed, owes[t], TRUE) * prices[t] * DebtWeight[t]]
<1>1. ASSUME NEW t \in Tokens
      PROVE  /\ cx[t] \in Nat /\ cy[t] \in Nat /\ bx[t] \in Nat /\ by[t] \in Nat
             /\ cx[t] <= cy[t] /\ by[t] <= bx[t]
  <2> DEFINE vx == SharesToAmount(X[t].supplied, less[t], FALSE)
             vy == SharesToAmount(Y[t].supplied, more[t], FALSE)
             wx == SharesToAmount(X[t].borrowed, owed[t], TRUE)
             wy == SharesToAmount(Y[t].borrowed, owes[t], TRUE)
  <2>1. /\ vx \in Nat /\ vx * prices[t] * CollateralWeight[t] \in Nat
        /\ wx \in Nat /\ wx * prices[t] * DebtWeight[t] \in Nat
    BY ValueType
  <2>2. /\ vy \in Nat /\ vy * prices[t] * CollateralWeight[t] \in Nat
        /\ wy \in Nat /\ wy * prices[t] * DebtWeight[t] \in Nat
    BY ValueType
  <2>3. /\ X[t].supplied \in PoolType /\ X[t].borrowed \in PoolType
        /\ Y[t].supplied \in PoolType /\ Y[t].borrowed \in PoolType
        /\ SoundPool(X[t].supplied) /\ SoundPool(X[t].borrowed)
        /\ SoundPool(Y[t].supplied) /\ SoundPool(Y[t].borrowed)
    BY DEF AssetType, SoundAsset
  <2>4. vx <= vy
    BY <2>3, WorthNotLower
  <2>5. wy <= wx
    BY <2>3, OwedNotHigher
  <2>6. prices[t] \in Nat /\ CollateralWeight[t] \in Nat /\ DebtWeight[t] \in Nat
    BY WeightAssumption
  <2>7. /\ cx[t] = vx * prices[t] * CollateralWeight[t]
        /\ cy[t] = vy * prices[t] * CollateralWeight[t]
        /\ bx[t] = wx * prices[t] * DebtWeight[t]
        /\ by[t] = wy * prices[t] * DebtWeight[t]
    OBVIOUS
  <2> HIDE DEF vx, vy, wx, wy, cx, cy, bx, by
  <2>8. vx * prices[t] * CollateralWeight[t] <= vy * prices[t] * CollateralWeight[t]
    BY <2>1, <2>2, <2>4, <2>6, WeightedMonotone
  <2>9. wy * prices[t] * DebtWeight[t] <= wx * prices[t] * DebtWeight[t]
    BY <2>1, <2>2, <2>5, <2>6, WeightedMonotone
  <2> QED BY <2>1, <2>2, <2>7, <2>8, <2>9
<1>2. /\ CollateralSum(X, less, prices) = SumFunctionOnSet(cx, Tokens)
      /\ CollateralSum(Y, more, prices) = SumFunctionOnSet(cy, Tokens)
      /\ BorrowedSum(X, owed, prices) = SumFunctionOnSet(bx, Tokens)
      /\ BorrowedSum(Y, owes, prices) = SumFunctionOnSet(by, Tokens)
  BY DEF CollateralSum, BorrowedSum, SumFunction
<1> HIDE DEF cx, cy, bx, by
<1>3. /\ SumFunctionOnSet(cx, Tokens) <= SumFunctionOnSet(cy, Tokens)
      /\ SumFunctionOnSet(by, Tokens) <= SumFunctionOnSet(bx, Tokens)
  BY <1>1, TokensAssumption, SumMonotone
<1>4. /\ SumFunctionOnSet(cx, Tokens) \in Nat /\ SumFunctionOnSet(cy, Tokens) \in Nat
      /\ SumFunctionOnSet(bx, Tokens) \in Nat /\ SumFunctionOnSet(by, Tokens) \in Nat
  BY <1>1, TokensAssumption, SumType
<1>5. CASE \E t \in Tokens : owes[t] > 0
  <2>1. \E t \in Tokens : owed[t] > 0
    BY <1>5
  <2>2. ~ (SumFunctionOnSet(bx, Tokens) > SumFunctionOnSet(cx, Tokens))
    BY <1>2, <2>1 DEF AtRisk
  <2>3. ~ (SumFunctionOnSet(by, Tokens) > SumFunctionOnSet(cy, Tokens))
    BY <1>3, <1>4, <2>2
  <2> QED BY <1>2, <2>3 DEF AtRisk
<1>6. CASE ~ \E t \in Tokens : owes[t] > 0
  BY <1>6 DEF AtRisk
<1> QED BY <1>5, <1>6

\* The sums of a position: no collateral is worth nothing, and a debt at a
\* price is worth something.
LEMMA SumsOfPosition ==
  ASSUME NEW X \in [Tokens -> AssetType], \A t \in Tokens : SoundAsset(X[t]),
         NEW shares \in [Tokens -> Nat], NEW owed \in [Tokens -> Nat],
         \A t \in Tokens : shares[t] <= X[t].supplied.shares /\ owed[t] <= X[t].borrowed.shares,
         NEW prices \in [Tokens -> Nat \ {0}]
  PROVE  /\ CollateralSum(X, shares, prices) \in Nat
         /\ BorrowedSum(X, owed, prices) \in Nat
         /\ CollateralSum(X, shares, prices) > 0 => \E t \in Tokens : shares[t] > 0
         /\ (\E t \in Tokens : owed[t] > 0) => BorrowedSum(X, owed, prices) > 0
<1> DEFINE c == [t \in Tokens |->
                   SharesToAmount(X[t].supplied, shares[t], FALSE) * prices[t] * CollateralWeight[t]]
           b == [t \in Tokens |->
                   SharesToAmount(X[t].borrowed, owed[t], TRUE) * prices[t] * DebtWeight[t]]
<1>0. prices \in [Tokens -> Nat]
  OBVIOUS
<1>1. ASSUME NEW t \in Tokens
      PROVE  /\ c[t] \in Nat /\ b[t] \in Nat
             /\ shares[t] = 0 => c[t] = 0
             /\ owed[t] > 0 => b[t] > 0
  <2> DEFINE v == SharesToAmount(X[t].supplied, shares[t], FALSE)
             w == SharesToAmount(X[t].borrowed, owed[t], TRUE)
  <2>1. /\ v \in Nat /\ v * prices[t] * CollateralWeight[t] \in Nat /\ (shares[t] = 0 => v = 0)
        /\ w \in Nat /\ w * prices[t] * DebtWeight[t] \in Nat /\ w >= owed[t]
    BY <1>0, ValueType
  <2>2. prices[t] \in Nat \ {0} /\ CollateralWeight[t] \in Nat /\ DebtWeight[t] \in Nat \ {0}
           /\ owed[t] \in Nat
    BY WeightAssumption
  <2>3. c[t] = v * prices[t] * CollateralWeight[t] /\ b[t] = w * prices[t] * DebtWeight[t]
    OBVIOUS
  <2> HIDE DEF v, w, c, b
  <2>4. v = 0 => v * prices[t] * CollateralWeight[t] = 0
    BY <2>2
  <2>5. ASSUME w > 0 PROVE w * prices[t] * DebtWeight[t] > 0
    <3>1. w \in Nat \ {0}
      BY <2>1, <2>5
    <3>2. w * prices[t] \in Nat \ {0}
      BY <2>2, <3>1
    <3> QED BY <2>2, <3>2
  <2>6. owed[t] > 0 => w > 0
    BY <2>1, <2>2
  <2> QED BY <2>1, <2>3, <2>4, <2>5, <2>6
<1>2. /\ CollateralSum(X, shares, prices) = SumFunctionOnSet(c, Tokens)
      /\ BorrowedSum(X, owed, prices) = SumFunctionOnSet(b, Tokens)
  BY DEF CollateralSum, BorrowedSum, SumFunction
<1> HIDE DEF c, b
<1>3. SumFunctionOnSet(c, Tokens) \in Nat /\ SumFunctionOnSet(b, Tokens) \in Nat
  BY <1>1, TokensAssumption, SumType
<1>4. ASSUME ~ \E t \in Tokens : shares[t] > 0 PROVE SumFunctionOnSet(c, Tokens) = 0
  <2>1. \A t \in Tokens : shares[t] = 0
    BY <1>4
  <2>2. \A t \in Tokens : c[t] = 0
    BY <1>1, <2>1
  <2> QED BY <2>2, TokensAssumption, SumZero
<1>5. ASSUME NEW t \in Tokens, owed[t] > 0 PROVE SumFunctionOnSet(b, Tokens) > 0
  <2>1. b[t] <= SumFunctionOnSet(b, Tokens)
    BY <1>1, TokensAssumption, SumBound
  <2> QED BY <1>1, <1>3, <1>5, <2>1
<1> QED BY <1>2, <1>3, <1>4, <1>5

\* A debt that is not at risk is backed by a share.
LEMMA HealthyIsBacked ==
  ASSUME NEW X \in [Tokens -> AssetType], \A t \in Tokens : SoundAsset(X[t]),
         NEW shares \in [Tokens -> Nat], NEW owed \in [Tokens -> Nat],
         \A t \in Tokens : shares[t] <= X[t].supplied.shares /\ owed[t] <= X[t].borrowed.shares,
         NEW prices \in [Tokens -> Nat \ {0}],
         ~ AtRisk(X, shares, owed, prices), \E t \in Tokens : owed[t] > 0
  PROVE  \E t \in Tokens : shares[t] > 0
<1>1. /\ CollateralSum(X, shares, prices) \in Nat /\ BorrowedSum(X, owed, prices) \in Nat
      /\ CollateralSum(X, shares, prices) > 0 => \E t \in Tokens : shares[t] > 0
      /\ BorrowedSum(X, owed, prices) > 0
  BY SumsOfPosition
<1>2. ~ (BorrowedSum(X, owed, prices) > CollateralSum(X, shares, prices))
  BY DEF AtRisk
<1> QED BY <1>1, <1>2

-----------------------------------------------------------------------------
(***************************************************************************)
(* The payments under way.                                                 *)
(***************************************************************************)
\* what the slot s holds of the payments of t, and of those of a
OfToken(s, t) ==
    IF transfer[s] # NoTransfer /\ transfer[s].token = t THEN transfer[s].amount ELSE 0

OfAccount(s, a, t) ==
    IF transfer[s] # NoTransfer /\ transfer[s].account = a /\ transfer[s].token = t
    THEN transfer[s].amount ELSE 0

\* Both are natural numbers, and so are their sums.
LEMMA PaymentTypes ==
  ASSUME TypeOK, NEW a \in Accounts, NEW t \in Tokens
  PROVE  /\ \A s \in Slots : OfToken(s, t) \in Nat /\ OfAccount(s, a, t) \in Nat
         /\ InFlight(t) = SumFunctionOnSet([s \in Slots |-> OfToken(s, t)], Slots)
         /\ Payments(a, t) = SumFunctionOnSet([s \in Slots |-> OfAccount(s, a, t)], Slots)
         /\ InFlight(t) \in Nat /\ Payments(a, t) \in Nat
<1> DEFINE f == [s \in Slots |-> OfToken(s, t)]
           g == [s \in Slots |-> OfAccount(s, a, t)]
<1>1. ASSUME NEW s \in Slots PROVE OfToken(s, t) \in Nat /\ OfAccount(s, a, t) \in Nat
  <2>1. transfer[s] \in TransferType \cup {NoTransfer}
    BY DEF TypeOK
  <2>2. transfer[s] # NoTransfer => transfer[s].amount \in Nat
    BY <2>1 DEF TransferType
  <2> QED BY <2>2 DEF OfToken, OfAccount
<1>2. InFlight(t) = SumFunctionOnSet(f, Slots)
  BY DEF InFlight, OfToken, SumFunction
<1>3. Payments(a, t) = SumFunctionOnSet(g, Slots)
  BY DEF Payments, OfAccount, SumFunction
<1>4. /\ \A s \in Slots : f[s] \in Nat
      /\ \A s \in Slots : g[s] \in Nat
  BY <1>1
<1> HIDE DEF f, g
<1>5. SumFunctionOnSet(f, Slots) \in Nat /\ SumFunctionOnSet(g, Slots) \in Nat
  BY <1>4, SlotsAssumption, SumType
<1> QED BY <1>1, <1>2, <1>3, <1>5 DEF f, g

\* Two counts of the payments that differ in one slot.
ButFor(f, g, s) ==
    /\ \A z \in Slots : f[z] \in Nat /\ g[z] \in Nat
    /\ \A z \in Slots \ {s} : f[z] = g[z]

\* Their sums differ by as much.
LEMMA SlotSums ==
  ASSUME NEW f, NEW g, NEW s \in Slots, ButFor(f, g, s)
  PROVE  SumFunctionOnSet(g, Slots) = SumFunctionOnSet(f, Slots) - f[s] + g[s]
BY SlotsAssumption, SumChange DEF ButFor

\* One slot changes: the sums change by what it held and holds.
LEMMA SlotChanges ==
  ASSUME TypeOK, TypeOK', NEW s \in Slots, \A z \in Slots \ {s} : transfer'[z] = transfer[z],
         NEW a \in Accounts, NEW t \in Tokens
  PROVE  /\ InFlight(t)' = InFlight(t) - OfToken(s, t) + OfToken(s, t)'
         /\ Payments(a, t)' = Payments(a, t) - OfAccount(s, a, t) + OfAccount(s, a, t)'
<1> DEFINE f == [z \in Slots |-> OfToken(z, t)]
           g == [z \in Slots |-> OfToken(z, t)']
           h == [z \in Slots |-> OfAccount(z, a, t)]
           k == [z \in Slots |-> OfAccount(z, a, t)']
<1>1. /\ \A z \in Slots : OfToken(z, t) \in Nat /\ OfAccount(z, a, t) \in Nat
      /\ InFlight(t) = SumFunctionOnSet(f, Slots)
      /\ Payments(a, t) = SumFunctionOnSet(h, Slots)
  BY PaymentTypes
<1>2. ASSUME NEW z \in Slots
      PROVE  OfToken(z, t)' \in Nat /\ OfAccount(z, a, t)' \in Nat
  <2>1. transfer'[z] \in TransferType \cup {NoTransfer}
    BY DEF TypeOK
  <2>2. transfer'[z] # NoTransfer => transfer'[z].amount \in Nat
    BY <2>1 DEF TransferType
  <2> QED BY <2>2 DEF OfToken, OfAccount
<1>3. InFlight(t)' = SumFunctionOnSet(g, Slots) /\ Payments(a, t)' = SumFunctionOnSet(k, Slots)
  BY DEF InFlight, OfToken, Payments, OfAccount, SumFunction
<1>4. \A z \in Slots \ {s} : OfToken(z, t)' = OfToken(z, t)
                             /\ OfAccount(z, a, t)' = OfAccount(z, a, t)
  BY DEF OfToken, OfAccount
<1>5. /\ \A z \in Slots : f[z] \in Nat /\ g[z] \in Nat
      /\ \A z \in Slots \ {s} : f[z] = g[z]
  BY <1>1, <1>2, <1>4
<1>6. /\ \A z \in Slots : h[z] \in Nat /\ k[z] \in Nat
      /\ \A z \in Slots \ {s} : h[z] = k[z]
  BY <1>1, <1>2, <1>4
<1>7. /\ f[s] = OfToken(s, t) /\ g[s] = OfToken(s, t)'
      /\ h[s] = OfAccount(s, a, t) /\ k[s] = OfAccount(s, a, t)'
  OBVIOUS
<1> HIDE DEF f, g, h, k
<1>8. SumFunctionOnSet(g, Slots) = SumFunctionOnSet(f, Slots) - f[s] + g[s]
  <2>1. ButFor(f, g, s)
    BY <1>5 DEF ButFor
  <2> QED BY <2>1, SlotSums
<1>9. SumFunctionOnSet(k, Slots) = SumFunctionOnSet(h, Slots) - h[s] + k[s]
  <2>1. ButFor(h, k, s)
    BY <1>6 DEF ButFor
  <2> QED BY <2>1, SlotSums
<1> QED BY <1>1, <1>3, <1>7, <1>8, <1>9

\* What a step does to the tokens held and to the payments of t: c come in
\* and p more are to be paid.
Cash(t, c, p) ==
    /\ cash'[t] = cash[t] + c
    /\ \A u \in Tokens \ {t} : cash'[u] = cash[u]
    /\ InFlight(t)' = InFlight(t) + p
    /\ \A u \in Tokens \ {t} : InFlight(u)' = InFlight(u)

\* The same for one account, which may lose tokens besides.
Purse(a, t, w, p) ==
    /\ wallet'[a][t] <= wallet[a][t] + w
    /\ \A u \in Tokens \ {t} : wallet'[a][u] <= wallet[a][u]
    /\ Payments(a, t)' = Payments(a, t) + p
    /\ \A u \in Tokens \ {t} : Payments(a, u)' = Payments(a, u)

\* A step that starts and ends no payment.
LEMMA NoPayment ==
  ASSUME TypeOK, TypeOK', UNCHANGED transfer
  PROVE  /\ \A t \in Tokens : InFlight(t)' = InFlight(t) /\ InFlight(t) \in Nat
         /\ \A a \in Accounts, t \in Tokens :
               Payments(a, t)' = Payments(a, t) /\ Payments(a, t) \in Nat
         /\ PaymentsFit => PaymentsFit'
<1>1. \A t \in Tokens : InFlight(t)' = InFlight(t)
  BY DEF InFlight
<1>2. \A a \in Accounts, t \in Tokens : Payments(a, t)' = Payments(a, t)
  BY DEF Payments
<1>3. \A a \in Accounts, t \in Tokens : InFlight(t) \in Nat /\ Payments(a, t) \in Nat
  BY PaymentTypes
<1>4. Owner \in Accounts
  BY AccountsAssumption
<1>5. PaymentsFit => PaymentsFit'
  BY DEF PaymentsFit
<1> QED BY <1>1, <1>2, <1>3, <1>4, <1>5

\* A payment starts, from a free slot.
LEMMA StartEffect ==
  ASSUME TypeOK, TypeOK', PaymentsFit, NEW a \in Accounts, NEW recipient \in Accounts,
         NEW t \in Tokens, NEW amount \in Nat, amount \div Scale > 0,
         NEW kind \in {"after_ft_transfer", "after_ft_transfer_call",
                       "after_beneficiary_withdraw"},
         Start(kind, a, recipient, t, amount), UNCHANGED <<cash, wallet>>
  PROVE  PaymentsFit' /\ Cash(t, 0, amount) /\ Purse(a, t, 0, amount)
<1> DEFINE ft == amount \div Scale
           tr == [kind |-> kind, account |-> a, recipient |-> recipient, token |-> t,
                  amount |-> amount, ft_amount |-> ft]
<1>1. PICK s \in Slots : transfer[s] = NoTransfer /\ transfer' = [transfer EXCEPT ![s] = tr]
  BY DEF Start
<1>2. /\ tr.account = a /\ tr.token = t /\ tr.amount = amount /\ tr.ft_amount = ft
  OBVIOUS
<1>3. /\ transfer'[s] = tr
      /\ \A z \in Slots \ {s} : transfer'[z] = transfer[z]
  BY <1>1 DEF TypeOK
<1>4. tr # NoTransfer
  <2>1. ft \in Nat
    BY ScaleAssumption, Quotient
  <2>2. tr \in TransferType
    BY <2>1 DEF TransferType
  <2> QED BY <2>2, MarkAssumption
<1> HIDE DEF tr, ft
<1>5. ASSUME NEW u \in Tokens
      PROVE  /\ OfToken(s, u) = 0 /\ OfAccount(s, a, u) = 0
             /\ OfToken(s, u)' = IF u = t THEN amount ELSE 0
             /\ OfAccount(s, a, u)' = IF u = t THEN amount ELSE 0
  BY <1>1, <1>2, <1>3, <1>4 DEF OfToken, OfAccount
<1>6. ASSUME NEW u \in Tokens
      PROVE  /\ InFlight(u)' = InFlight(u) - OfToken(s, u) + OfToken(s, u)'
             /\ Payments(a, u)' = Payments(a, u) - OfAccount(s, a, u) + OfAccount(s, a, u)'
             /\ InFlight(u) \in Nat /\ Payments(a, u) \in Nat
  BY <1>3, SlotChanges, PaymentTypes
<1>7. ASSUME NEW u \in Tokens
      PROVE  /\ InFlight(u)' = InFlight(u) + (IF u = t THEN amount ELSE 0)
             /\ Payments(a, u)' = Payments(a, u) + (IF u = t THEN amount ELSE 0)
             /\ InFlight(u) \in Nat /\ Payments(a, u) \in Nat
  BY <1>5, <1>6
<1>8. /\ InFlight(t)' = InFlight(t) + amount /\ Payments(a, t)' = Payments(a, t) + amount
      /\ \A u \in Tokens \ {t} : InFlight(u)' = InFlight(u) /\ Payments(a, u)' = Payments(a, u)
  BY <1>7
<1>9. \A u \in Tokens : cash[u] \in Nat /\ wallet[a][u] \in Nat
  BY DEF TypeOK
<1>10. Cash(t, 0, amount) /\ Purse(a, t, 0, amount)
  BY <1>8, <1>9 DEF Cash, Purse
<1>11. PaymentsFit'
  <2>1. PaymentFits(tr)
    BY <1>2 DEF PaymentFits, ft
  <2> SUFFICES ASSUME NEW z \in Slots, transfer'[z] # NoTransfer
               PROVE  PaymentFits(transfer'[z])
    BY DEF PaymentsFit, PaymentFits
  <2> QED BY <1>3, <2>1 DEF PaymentsFit
<1> QED BY <1>10, <1>11

\* A payment ends, of which the token contract moved n tokens.
LEMMA AnswerEffect ==
  ASSUME TypeOK, TypeOK', PaymentsFit, NEW s \in Slots,
         NEW used \in 0 .. transfer[s].ft_amount, Answered(s, used),
         NEW a \in Accounts, a = transfer[s].account, NEW t \in Tokens, t = transfer[s].token,
         NEW amount \in Nat, amount = transfer[s].amount, NEW n \in Nat, n = used * Scale
  PROVE  PaymentsFit' /\ Cash(t, - n, - amount) /\ Purse(a, t, n, - amount)
<1>1. transfer[s] \in TransferType
  BY AnsweredType
<1>2. /\ transfer[s] # NoTransfer
      /\ cash[t] >= n
      /\ cash' = [cash EXCEPT ![t] = @ - n]
      /\ wallet' = Add(wallet, transfer[s].recipient, t, n)
      /\ transfer' = [transfer EXCEPT ![s] = NoTransfer]
  BY DEF Answered
<1>3. PICK r \in Accounts : r = transfer[s].recipient
  BY <1>1 DEF TransferType
<1>5. /\ transfer'[s] = NoTransfer
      /\ \A z \in Slots \ {s} : transfer'[z] = transfer[z]
  BY <1>2 DEF TypeOK
<1>6. ASSUME NEW u \in Tokens
      PROVE  /\ OfToken(s, u)' = 0 /\ OfAccount(s, a, u)' = 0
             /\ OfToken(s, u) = IF u = t THEN amount ELSE 0
             /\ OfAccount(s, a, u) = IF u = t THEN amount ELSE 0
  BY <1>2, <1>5 DEF OfToken, OfAccount
<1>7. ASSUME NEW u \in Tokens
      PROVE  /\ InFlight(u)' = InFlight(u) - OfToken(s, u) + OfToken(s, u)'
             /\ Payments(a, u)' = Payments(a, u) - OfAccount(s, a, u) + OfAccount(s, a, u)'
             /\ InFlight(u) \in Nat /\ Payments(a, u) \in Nat
  BY <1>5, SlotChanges, PaymentTypes
<1>8. /\ InFlight(t)' = InFlight(t) + (- amount)
      /\ Payments(a, t)' = Payments(a, t) + (- amount)
      /\ \A u \in Tokens \ {t} : InFlight(u)' = InFlight(u) /\ Payments(a, u)' = Payments(a, u)
  BY <1>6, <1>7
<1>9. /\ cash'[t] = cash[t] + (- n)
      /\ \A u \in Tokens \ {t} : cash'[u] = cash[u]
  BY <1>2 DEF TypeOK
<1>10. /\ wallet'[a][t] <= wallet[a][t] + n
       /\ \A u \in Tokens \ {t} : wallet'[a][u] <= wallet[a][u]
  <2>1. wallet \in [Accounts -> [Tokens -> Nat]]
    BY DEF TypeOK
  <2>2. /\ Add(wallet, r, t, n)[r][t] = wallet[r][t] + n
        /\ OtherEntries(wallet, Add(wallet, r, t, n), r, t)
    BY <2>1 DEF Add, OtherEntries
  <2>3. /\ wallet'[r][t] = wallet[r][t] + n
        /\ \A b \in Accounts, u \in Tokens : b # r \/ u # t => wallet'[b][u] = wallet[b][u]
    BY <1>2, <1>3, <2>2 DEF OtherEntries
  <2>4. \A b \in Accounts, u \in Tokens : wallet[b][u] \in Nat
    BY <2>1
  <2> QED BY <2>3, <2>4
<1>11. PaymentsFit'
  <2> SUFFICES ASSUME NEW z \in Slots, transfer'[z] # NoTransfer
               PROVE  PaymentFits(transfer'[z])
    BY DEF PaymentsFit, PaymentFits
  <2> QED BY <1>5 DEF PaymentsFit
<1>12. Cash(t, - n, - amount) /\ Purse(a, t, n, - amount)
  BY <1>8, <1>9, <1>10 DEF Cash, Purse
<1> QED BY <1>11, <1>12

-----------------------------------------------------------------------------
(***************************************************************************)
(* What every step of the users, of the callbacks and of the owner keeps.  *)
(***************************************************************************)
PricesKept ==
    \A t \in Tokens :
        asset'[t].supplied.shares > 0 => PriceNotLower(asset[t].supplied, asset'[t].supplied)

DustOnly ==
    \A t \in Tokens :
        /\ Unclaimed(t)' >= Unclaimed(t)
        /\ Unclaimed(t)' - Unclaimed(t) < Scale \/ \E s \in Slots : Abandoned(s)

NobodyHurt ==
    \A a \in Accounts : Healthy(a) => ~ AtRisk(asset', collateral'[a], borrowed'[a], price')

NoGain(a) == \A t \in Tokens : Worth(a, t)' <= Worth(a, t)

StepOK == Safe' /\ PricesKept /\ DustOnly /\ NobodyHurt

\* no price has moved against those who hold the shares
PricesFavour ==
    \A t \in Tokens : /\ PriceNotLower(asset[t].supplied, asset'[t].supplied)
                      /\ PriceNotLower(asset'[t].borrowed, asset[t].borrowed)

Books(t, m, n, r, f) == AssetMoves(asset[t], asset'[t], m, n, r, f) /\ OtherAssets(t)

\* The types the sums are made of.
LEMMA TallyType ==
  ASSUME TypeOK, NEW t \in Tokens
  PROVE  /\ asset[t] \in AssetType
         /\ asset[t].supplied \in PoolType /\ asset[t].borrowed \in PoolType
         /\ asset[t].supplied.balance \in Nat /\ asset[t].borrowed.balance \in Nat
         /\ asset[t].reserved \in Nat /\ asset[t].beneficiary_fees \in Nat
         /\ cash[t] \in Nat /\ InFlight(t) \in Nat
         /\ Unclaimed(t) \in Int /\ AvailableAmount(asset[t]) \in Int
<1>1. Owner \in Accounts
  BY AccountsAssumption
<1>2. /\ asset[t] \in AssetType
      /\ asset[t].supplied \in PoolType /\ asset[t].borrowed \in PoolType
      /\ asset[t].supplied.balance \in Nat /\ asset[t].borrowed.balance \in Nat
      /\ asset[t].reserved \in Nat /\ asset[t].beneficiary_fees \in Nat
  BY <1>1, EntryType
<1>3. cash[t] \in Nat
  BY DEF TypeOK
<1>4. InFlight(t) \in Nat
  BY <1>1, PaymentTypes
<1>5. Unclaimed(t) \in Int
  BY <1>2, <1>3, <1>4 DEF Unclaimed
<1>6. AvailableAmount(asset[t]) \in Int
  BY <1>2 DEF AvailableAmount
<1> QED BY <1>2, <1>3, <1>4, <1>5, <1>6

\* The balance of a step on one asset: what it leaves unclaimed is what came
\* in and was lent, less what is owed for it.
LEMMA Tally ==
  ASSUME Safe, Inv', NEW t \in Tokens,
         NEW m \in Int, NEW n \in Int, NEW r \in Int, NEW f \in Int, NEW c \in Int, NEW p \in Int,
         Books(t, m, n, r, f), Cash(t, c, p), c + n - m - r - f - p >= 0
  PROVE  /\ AllSound' /\ PricesFavour /\ CashCoversClaims'
         /\ Unclaimed(t)' = Unclaimed(t) + (c + n - m - r - f - p)
         /\ \A u \in Tokens \ {t} : Unclaimed(u)' = Unclaimed(u)
         /\ \A u \in Tokens : Unclaimed(u) \in Int
<1>1. TypeOK /\ AllSound /\ CashCoversClaims
  BY DEF Safe, Inv
<1>2. /\ SoundAsset(asset'[t])
      /\ PriceNotLower(asset[t].supplied, asset'[t].supplied)
      /\ PriceNotLower(asset'[t].borrowed, asset[t].borrowed)
      /\ asset'[t].supplied.balance + asset'[t].reserved
            = asset[t].supplied.balance + asset[t].reserved + m + r
      /\ asset'[t].borrowed.balance = asset[t].borrowed.balance + n
      /\ asset'[t].beneficiary_fees = asset[t].beneficiary_fees + f
      /\ \A u \in Tokens \ {t} : asset'[u] = asset[u]
  BY DEF Books, AssetMoves, OtherAssets
<1>3. \A u \in Tokens : SoundAsset(asset[u])
  BY <1>1 DEF AllSound
<1>4. AllSound'
  <2> SUFFICES ASSUME NEW u \in Tokens PROVE SoundAsset(asset'[u])
    BY DEF AllSound, SoundAsset
  <2> QED BY <1>2, <1>3
<1>5. PricesFavour
  <2> SUFFICES ASSUME NEW u \in Tokens
               PROVE  /\ PriceNotLower(asset[u].supplied, asset'[u].supplied)
                      /\ PriceNotLower(asset'[u].borrowed, asset[u].borrowed)
    BY DEF PricesFavour
  <2>1. asset[u].supplied \in PoolType /\ asset[u].borrowed \in PoolType
    BY <1>1, TallyType
  <2> QED BY <1>2, <2>1, PriceReflexive
<1>6. Unclaimed(t)' = Unclaimed(t) + (c + n - m - r - f - p)
  <2>1. /\ asset[t].supplied.balance \in Nat /\ asset[t].borrowed.balance \in Nat
        /\ asset[t].reserved \in Nat /\ asset[t].beneficiary_fees \in Nat
        /\ cash[t] \in Nat /\ InFlight(t) \in Nat
    BY <1>1, TallyType
  <2>2. asset'[t].supplied.balance \in Nat /\ asset'[t].reserved \in Nat
    <3>1. asset'[t] \in AssetType
      BY DEF Inv, TypeOK
    <3> QED BY <3>1 DEF AssetType, PoolType
  <2>3. cash'[t] = cash[t] + c /\ InFlight(t)' = InFlight(t) + p
    BY DEF Cash
  <2>4. Unclaimed(t)' = cash'[t] + asset'[t].borrowed.balance
                          - asset'[t].supplied.balance - asset'[t].reserved
                          - asset'[t].beneficiary_fees - InFlight(t)'
    BY DEF Unclaimed
  <2>5. Unclaimed(t) = cash[t] + asset[t].borrowed.balance
                          - asset[t].supplied.balance - asset[t].reserved
                          - asset[t].beneficiary_fees - InFlight(t)
    BY DEF Unclaimed
  <2> QED BY <1>2, <2>1, <2>2, <2>3, <2>4, <2>5
<1>7. \A u \in Tokens \ {t} : Unclaimed(u)' = Unclaimed(u)
  BY <1>2 DEF Cash, Unclaimed
<1>8. \A u \in Tokens : Unclaimed(u) \in Int /\ Unclaimed(u) >= 0
  BY <1>1, TallyType DEF CashCoversClaims
<1>9. CashCoversClaims'
  <2> SUFFICES ASSUME NEW u \in Tokens PROVE Unclaimed(u)' >= 0
    BY DEF CashCoversClaims
  <2>1. CASE u = t
    BY <1>6, <1>8, <2>1
  <2>2. CASE u # t
    BY <1>7, <1>8, <2>2
  <2> QED BY <2>1, <2>2
<1> QED BY <1>4, <1>5, <1>6, <1>7, <1>8, <1>9

\* The tokens that are not lent out.
LEMMA Availability ==
  ASSUME Safe, Inv', NEW t \in Tokens,
         NEW m \in Int, NEW n \in Int, NEW r \in Int, NEW f \in Int,
         Books(t, m, n, r, f),
         NoBeneficiary => AvailableAmount(asset[t]) + m + r - n >= 0
  PROVE  NoBeneficiary => AllAvailable'
<1> SUFFICES ASSUME NoBeneficiary, NEW u \in Tokens PROVE AvailableAmount(asset'[u]) >= 0
  BY DEF AllAvailable, AvailableAmount
<1>1. CASE u = t
  <2>1. /\ asset[t].supplied.balance \in Nat /\ asset[t].borrowed.balance \in Nat
        /\ asset[t].reserved \in Nat
    BY TallyType DEF Safe, Inv
  <2>2. asset'[t].supplied.balance \in Nat /\ asset'[t].reserved \in Nat
    <3>1. asset'[t] \in AssetType
      BY DEF Inv, TypeOK
    <3> QED BY <3>1 DEF AssetType, PoolType
  <2>3. /\ asset'[t].supplied.balance + asset'[t].reserved
              = asset[t].supplied.balance + asset[t].reserved + m + r
        /\ asset'[t].borrowed.balance = asset[t].borrowed.balance + n
    BY DEF Books, AssetMoves
  <2>4. AvailableAmount(asset[t]) + m + r - n >= 0
    OBVIOUS
  <2> QED BY <1>1, <2>1, <2>2, <2>3, <2>4 DEF AvailableAmount
<1>2. CASE u # t
  BY <1>2 DEF Books, OtherAssets, Safe, AllAvailable
<1> QED BY <1>1, <1>2

\* How the step leaves the position of the account whose position it changes:
\* with no less pledged and no more owed, or not at risk, or, when it was at
\* risk before, with some collateral left.
SafeFor(a) ==
    \/ \A t \in Tokens : collateral[a][t] <= collateral'[a][t] /\ borrowed'[a][t] <= borrowed[a][t]
    \/ ~ AtRisk(asset', collateral'[a], borrowed'[a], price)
    \/ ~ Healthy(a) /\ \E t \in Tokens : collateral'[a][t] > 0

OtherPositions(a) ==
    \A b \in Accounts \ {a}, t \in Tokens :
        collateral'[b][t] = collateral[b][t] /\ borrowed'[b][t] = borrowed[b][t]

\* The shares of an account are part of the pool, in every state and so in the
\* state a step leads to.
LEMMA PositionBound ==
  ASSUME NEW a \in Accounts, NEW t \in Tokens
  PROVE  Inv => /\ collateral[a][t] <= asset[t].supplied.shares
                /\ borrowed[a][t] <= asset[t].borrowed.shares
BY PartsBound

\* The same of the state the step leads to.
LEMMA NextPositionBound ==
  ASSUME NEW a \in Accounts, NEW t \in Tokens
  PROVE  Inv' => /\ collateral'[a][t] <= asset'[t].supplied.shares
                 /\ borrowed'[a][t] <= asset'[t].borrowed.shares
<1>1. Inv => /\ collateral[a][t] <= asset[t].supplied.shares
             /\ borrowed[a][t] <= asset[t].borrowed.shares
  BY PositionBound
<1>2. (Inv => /\ collateral[a][t] <= asset[t].supplied.shares
              /\ borrowed[a][t] <= asset[t].borrowed.shares)'
  BY <1>1, PTL
<1> QED BY <1>2

\* What an account holds of a pool, supplied and pledged together, is part of it.
LEMMA HeldBound ==
  ASSUME NEW a \in Accounts, NEW t \in Tokens
  PROVE  Inv => /\ Held(a, t) \in Nat /\ Held(a, t) <= asset[t].supplied.shares
                /\ borrowed[a][t] \in Nat
BY SharesBound, PartsBound

\* The same of the state the step leads to.
LEMMA NextHeld ==
  ASSUME NEW a \in Accounts, NEW t \in Tokens
  PROVE  Inv' => /\ Held(a, t)' \in Nat /\ Held(a, t)' <= asset'[t].supplied.shares
                 /\ borrowed'[a][t] \in Nat
<1>1. Inv => /\ Held(a, t) \in Nat /\ Held(a, t) <= asset[t].supplied.shares
             /\ borrowed[a][t] \in Nat
  BY HeldBound
<1>2. (Inv => /\ Held(a, t) \in Nat /\ Held(a, t) <= asset[t].supplied.shares
              /\ borrowed[a][t] \in Nat)'
  BY <1>1, PTL
<1> QED BY <1>2

\* The bounds of the next state together, where its invariant is at hand.
LEMMA NextHeldBound ==
  ASSUME NEW a \in Accounts, NEW t \in Tokens, Inv'
  PROVE  /\ Held(a, t)' \in Nat /\ Held(a, t)' <= asset'[t].supplied.shares
         /\ borrowed'[a][t] \in Nat /\ borrowed'[a][t] <= asset'[t].borrowed.shares
<1>1. Inv' => Held(a, t)' \in Nat /\ Held(a, t)' <= asset'[t].supplied.shares
              /\ borrowed'[a][t] \in Nat
  BY NextHeld
<1> QED BY <1>1, NextPositionBound

\* Then no healthy position is hurt and every debt is backed.
LEMMA PositionsKept ==
  ASSUME Safe, Inv', AllSound', PricesFavour, UNCHANGED price,
         NEW a \in Accounts, SafeFor(a), OtherPositions(a)
  PROVE  NobodyHurt /\ DebtIsBacked' /\ PricesPositive'
<1>1. /\ Inv /\ TypeOK /\ AllSound /\ DebtIsBacked /\ price \in [Tokens -> Nat \ {0}]
      /\ TypeOK'
  BY DEF Safe, Inv, PricesPositive
<1>2. /\ asset \in [Tokens -> AssetType] /\ \A t \in Tokens : SoundAsset(asset[t])
      /\ asset' \in [Tokens -> AssetType] /\ \A t \in Tokens : SoundAsset(asset'[t])
      /\ price \in [Tokens -> Nat]
  <2>1. \A t \in Tokens : SoundAsset(asset[t])
    BY <1>1 DEF AllSound
  <2>2. \A t \in Tokens : SoundAsset(asset'[t])
    BY DEF AllSound, SoundAsset
  <2> QED BY <1>1, <2>1, <2>2 DEF TypeOK
<1>3. ASSUME NEW b \in Accounts
      PROVE  /\ collateral[b] \in [Tokens -> Nat] /\ collateral'[b] \in [Tokens -> Nat]
             /\ borrowed[b] \in [Tokens -> Nat] /\ borrowed'[b] \in [Tokens -> Nat]
  BY <1>1 DEF TypeOK
<1>4. ASSUME NEW b \in Accounts, NEW t \in Tokens
      PROVE  /\ collateral[b][t] <= asset[t].supplied.shares
             /\ borrowed[b][t] <= asset[t].borrowed.shares
             /\ collateral'[b][t] <= asset'[t].supplied.shares
             /\ borrowed'[b][t] <= asset'[t].borrowed.shares
  BY <1>1, PositionBound, NextPositionBound
<1>5. ASSUME NEW b \in Accounts,
             \A t \in Tokens : collateral[b][t] <= collateral'[b][t]
                               /\ borrowed'[b][t] <= borrowed[b][t]
      PROVE  /\ Healthy(b) => ~ AtRisk(asset', collateral'[b], borrowed'[b], price')
             /\ (\E t \in Tokens : borrowed'[b][t] > 0) => \E t \in Tokens : collateral'[b][t] > 0
  <2>1. ASSUME Healthy(b) PROVE ~ AtRisk(asset', collateral'[b], borrowed'[b], price')
    <3>1. ~ AtRisk(asset, collateral[b], borrowed[b], price)
      BY <2>1 DEF Healthy
    <3>2. \A t \in Tokens : /\ PriceNotLower(asset[t].supplied, asset'[t].supplied)
                            /\ PriceNotLower(asset'[t].borrowed, asset[t].borrowed)
      BY DEF PricesFavour
    <3>3. \A t \in Tokens :
             /\ collateral[b][t] <= collateral'[b][t] /\ borrowed'[b][t] <= borrowed[b][t]
             /\ collateral[b][t] <= asset[t].supplied.shares
             /\ collateral'[b][t] <= asset'[t].supplied.shares
             /\ borrowed[b][t] <= asset[t].borrowed.shares
             /\ borrowed'[b][t] <= asset'[t].borrowed.shares
      BY <1>4, <1>5
    <3>4. ~ AtRisk(asset', collateral'[b], borrowed'[b], price)
      BY <1>2, <1>3, <3>1, <3>2, <3>3, RiskFalls
    <3> QED BY <3>4
  <2>2. ASSUME NEW t \in Tokens, borrowed'[b][t] > 0
        PROVE  \E u \in Tokens : collateral'[b][u] > 0
    <3>1. \A u \in Tokens : /\ borrowed[b][u] \in Nat /\ borrowed'[b][u] \in Nat
                            /\ collateral[b][u] \in Nat /\ collateral'[b][u] \in Nat
      BY <1>3
    <3>2. borrowed[b][t] > 0
      BY <1>5, <2>2, <3>1
    <3>3. PICK u \in Tokens : collateral[b][u] > 0
      BY <1>1, <3>2 DEF DebtIsBacked
    <3>4. collateral'[b][u] > 0
      BY <1>5, <3>1, <3>3
    <3> QED BY <3>4
  <2> QED BY <2>1, <2>2
<1>6. ASSUME ~ AtRisk(asset', collateral'[a], borrowed'[a], price)
      PROVE  /\ ~ AtRisk(asset', collateral'[a], borrowed'[a], price')
             /\ (\E t \in Tokens : borrowed'[a][t] > 0) => \E t \in Tokens : collateral'[a][t] > 0
  BY <1>1, <1>2, <1>3, <1>4, <1>6, HealthyIsBacked
<1>7. ASSUME NEW b \in Accounts \ {a}
      PROVE  \A t \in Tokens : collateral[b][t] <= collateral'[b][t]
                               /\ borrowed'[b][t] <= borrowed[b][t]
  BY <1>3 DEF OtherPositions
<1>8. ASSUME NEW b \in Accounts
      PROVE  /\ Healthy(b) => ~ AtRisk(asset', collateral'[b], borrowed'[b], price')
             /\ (\E t \in Tokens : borrowed'[b][t] > 0) => \E t \in Tokens : collateral'[b][t] > 0
  <2>1. CASE b # a
    BY <1>5, <1>7, <2>1
  <2>2. CASE b = a /\ \A t \in Tokens : collateral[a][t] <= collateral'[a][t]
                                        /\ borrowed'[a][t] <= borrowed[a][t]
    BY <1>5, <2>2
  <2>3. CASE b = a /\ ~ AtRisk(asset', collateral'[a], borrowed'[a], price)
    BY <1>6, <2>3
  <2>4. CASE b = a /\ ~ Healthy(a) /\ \E t \in Tokens : collateral'[a][t] > 0
    BY <2>4
  <2> QED BY <2>1, <2>2, <2>3, <2>4 DEF SafeFor
<1>9. NobodyHurt
  BY <1>8 DEF NobodyHurt
<1>10. DebtIsBacked'
  BY <1>8 DEF DebtIsBacked
<1>11. PricesPositive'
  BY <1>1 DEF PricesPositive
<1> QED BY <1>9, <1>10, <1>11

\* What the other accounts hold of the pools of u stays the same.
LEMMA OthersHold ==
  ASSUME Inv, Inv', NEW a \in Accounts, NEW u \in Tokens,
         \A b \in Accounts \ {a} : Held(b, u)' = Held(b, u) /\ borrowed'[b][u] = borrowed[b][u]
  PROVE  /\ asset[u].supplied.shares - Held(a, u) = asset'[u].supplied.shares - Held(a, u)'
         /\ asset[u].borrowed.shares - borrowed[a][u] = asset'[u].borrowed.shares - borrowed'[a][u]
<1> DEFINE held  == [b \in Accounts |-> supplied[b][u] + collateral[b][u]]
           held2 == [b \in Accounts |-> supplied'[b][u] + collateral'[b][u]]
           owed  == [b \in Accounts |-> borrowed[b][u]]
           owed2 == [b \in Accounts |-> borrowed'[b][u]]
<1>1. TypeOK /\ TypeOK' /\ SharesConserved /\ SharesConserved'
  BY DEF Inv
<1>2. /\ \A b \in Accounts : supplied[b][u] \in Nat /\ collateral[b][u] \in Nat
                             /\ borrowed[b][u] \in Nat
      /\ \A b \in Accounts : supplied'[b][u] \in Nat /\ collateral'[b][u] \in Nat
                             /\ borrowed'[b][u] \in Nat
  BY <1>1 DEF TypeOK
<1>3. /\ \A b \in Accounts : held[b] \in Nat /\ held2[b] \in Nat
      /\ \A b \in Accounts : owed[b] \in Nat /\ owed2[b] \in Nat
  BY <1>2
<1>4. /\ \A b \in Accounts \ {a} : held[b] = held2[b]
      /\ \A b \in Accounts \ {a} : owed[b] = owed2[b]
  BY DEF Held
<1>5. /\ asset[u].supplied.shares = SumFunctionOnSet(held, Accounts)
      /\ asset[u].borrowed.shares = SumFunctionOnSet(owed, Accounts)
      /\ asset'[u].supplied.shares = SumFunctionOnSet(held2, Accounts)
      /\ asset'[u].borrowed.shares = SumFunctionOnSet(owed2, Accounts)
  BY <1>1 DEF SharesConserved, SumFunction
<1>6. /\ held[a] = Held(a, u) /\ held2[a] = Held(a, u)'
      /\ owed[a] = borrowed[a][u] /\ owed2[a] = borrowed'[a][u]
  BY DEF Held
<1>7. held[a] \in Nat /\ held2[a] \in Nat /\ owed[a] \in Nat /\ owed2[a] \in Nat
  BY <1>3
<1> HIDE DEF held, held2, owed, owed2
<1>8. SumFunctionOnSet(held2, Accounts) = SumFunctionOnSet(held, Accounts) - held[a] + held2[a]
  BY <1>3, <1>4, TableSum
<1>9. SumFunctionOnSet(owed2, Accounts) = SumFunctionOnSet(owed, Accounts) - owed[a] + owed2[a]
  BY <1>3, <1>4, TableSum
<1>10. SumFunctionOnSet(held, Accounts) \in Nat /\ SumFunctionOnSet(owed, Accounts) \in Nat
  BY <1>3, AccountsAssumption, SumType
<1> QED BY <1>5, <1>6, <1>7, <1>8, <1>9, <1>10

\* What the account holds and owes is worth, in one token: it gains no more
\* than m from the supply that grew by m, and owes n more of a debt that grew
\* by n.
LEMMA HoldingsGain ==
  ASSUME Safe, Inv', AllSound', NEW a \in Accounts, NEW u \in Tokens,
         NEW m \in Int, NEW n \in Int, NEW r \in Int, NEW f \in Int,
         AssetMoves(asset[u], asset'[u], m, n, r, f),
         \A b \in Accounts \ {a} : Held(b, u)' = Held(b, u) /\ borrowed'[b][u] = borrowed[b][u]
  PROVE  /\ SharesToAmount(asset'[u].supplied, Held(a, u)', FALSE)
               <= SharesToAmount(asset[u].supplied, Held(a, u), FALSE) + m
         /\ SharesToAmount(asset'[u].borrowed, borrowed'[a][u], TRUE)
               >= SharesToAmount(asset[u].borrowed, borrowed[a][u], TRUE) + n
         /\ SharesToAmount(asset'[u].supplied, Held(a, u)', FALSE) \in Nat
         /\ SharesToAmount(asset[u].supplied, Held(a, u), FALSE) \in Nat
         /\ SharesToAmount(asset'[u].borrowed, borrowed'[a][u], TRUE) \in Nat
         /\ SharesToAmount(asset[u].borrowed, borrowed[a][u], TRUE) \in Nat
<1>1. Inv /\ AllSound /\ asset[u] \in AssetType /\ asset'[u] \in AssetType
  BY DEF Safe, Inv, TypeOK
<1>2. /\ asset[u].supplied \in PoolType /\ asset[u].borrowed \in PoolType
      /\ asset'[u].supplied \in PoolType /\ asset'[u].borrowed \in PoolType
      /\ SoundPool(asset[u].supplied) /\ SoundPool(asset[u].borrowed)
      /\ SoundPool(asset'[u].supplied) /\ SoundPool(asset'[u].borrowed)
  BY <1>1 DEF AssetType, AllSound, SoundAsset
<1>3. /\ Held(a, u) \in Nat /\ Held(a, u) <= asset[u].supplied.shares
      /\ borrowed[a][u] \in Nat /\ borrowed[a][u] <= asset[u].borrowed.shares
  BY <1>1, SharesBound, PartsBound
<1>4. /\ Held(a, u)' \in Nat /\ Held(a, u)' <= asset'[u].supplied.shares
      /\ borrowed'[a][u] \in Nat /\ borrowed'[a][u] <= asset'[u].borrowed.shares
  BY NextHeldBound
<1>5. /\ asset[u].supplied.shares - Held(a, u) = asset'[u].supplied.shares - Held(a, u)'
      /\ asset[u].borrowed.shares - borrowed[a][u] = asset'[u].borrowed.shares - borrowed'[a][u]
  BY <1>1, OthersHold
<1>6. /\ PriceNotLower(asset[u].supplied, asset'[u].supplied)
      /\ PriceNotLower(asset'[u].borrowed, asset[u].borrowed)
      /\ asset'[u].supplied.balance <= asset[u].supplied.balance + m
      /\ asset'[u].borrowed.balance = asset[u].borrowed.balance + n
  BY DEF AssetMoves
<1>7. SharesToAmount(asset'[u].supplied, Held(a, u)', FALSE)
         <= SharesToAmount(asset[u].supplied, Held(a, u), FALSE) + m
  BY <1>2, <1>3, <1>4, <1>5, <1>6, HolderGains
<1>8. SharesToAmount(asset'[u].borrowed, borrowed'[a][u], TRUE)
         >= SharesToAmount(asset[u].borrowed, borrowed[a][u], TRUE) + n
  BY <1>2, <1>3, <1>4, <1>5, <1>6, DebtorOwes
<1>9. /\ SharesToAmount(asset'[u].supplied, Held(a, u)', FALSE) \in Nat
      /\ SharesToAmount(asset[u].supplied, Held(a, u), FALSE) \in Nat
  BY <1>2, <1>3, <1>4, ExactAmount
<1>10. /\ SharesToAmount(asset'[u].borrowed, borrowed'[a][u], TRUE) \in Nat
       /\ SharesToAmount(asset[u].borrowed, borrowed[a][u], TRUE) \in Nat
  BY <1>2, <1>3, <1>4, ExactAmount
<1> QED BY <1>7, <1>8, <1>9, <1>10

\* The account is not better off by such a step if what it gets, in its wallet,
\* in payments and in the supply, is no more than what it comes to owe.
LEMMA Gains ==
  ASSUME Safe, Inv', AllSound', NEW a \in Accounts, NEW t \in Tokens,
         NEW m \in Int, NEW n \in Int, NEW r \in Int, NEW f \in Int, NEW w \in Int, NEW p \in Int,
         AssetMoves(asset[t], asset'[t], m, n, r, f), Elsewhere(a, t), Purse(a, t, w, p),
         w + p + m - n <= 0
  PROVE  NoGain(a)
<1> SUFFICES ASSUME NEW u \in Tokens PROVE Worth(a, u)' <= Worth(a, u)
  BY DEF NoGain
<1> DEFINE s1 == SharesToAmount(asset[u].supplied, Held(a, u), FALSE)
           s2 == SharesToAmount(asset'[u].supplied, Held(a, u)', FALSE)
           b1 == SharesToAmount(asset[u].borrowed, borrowed[a][u], TRUE)
           b2 == SharesToAmount(asset'[u].borrowed, borrowed'[a][u], TRUE)
           w1 == wallet[a][u]
           w2 == wallet'[a][u]
           p1 == Payments(a, u)
           p2 == Payments(a, u)'
<1>1. Worth(a, u) = w1 + p1 + s1 - b1
  BY DEF Worth, Held
<1>2. Worth(a, u)' = w2 + p2 + s2 - b2
  BY DEF Worth, Held
<1>3. \A b \in Accounts \ {a} : Held(b, u)' = Held(b, u) /\ borrowed'[b][u] = borrowed[b][u]
  BY DEF Elsewhere, OtherEntries, Held
<1>4. /\ TypeOK /\ w1 \in Nat /\ w2 \in Nat
  BY DEF Safe, Inv, TypeOK
<1>5. p1 \in Nat
  BY <1>4, PaymentTypes
<1>6. CASE u = t
  <2>1. /\ s2 <= s1 + m /\ b2 >= b1 + n
        /\ s1 \in Nat /\ s2 \in Nat /\ b1 \in Nat /\ b2 \in Nat
    BY <1>3, <1>6, HoldingsGain
  <2>2. w2 <= w1 + w /\ p2 = p1 + p
    BY <1>6 DEF Purse
  <2> HIDE DEF s1, s2, b1, b2, w1, w2, p1, p2
  <2>3. w2 + p2 + s2 - b2 <= w1 + p1 + s1 - b1
    BY <1>4, <1>5, <2>1, <2>2
  <2> QED BY <1>1, <1>2, <2>3
<1>7. CASE u # t
  <2>1. asset'[u] = asset[u] /\ asset[u] \in AssetType /\ SoundAsset(asset[u])
    BY <1>4, <1>7 DEF Elsewhere, OtherAssets, TypeOK, Safe, AllSound
  <2>2. PICK z \in Int : z = 0 /\ AssetMoves(asset[u], asset'[u], z, z, z, z)
    BY <2>1, AssetRests
  <2>3. /\ s2 <= s1 + z /\ b2 >= b1 + z
        /\ s1 \in Nat /\ s2 \in Nat /\ b1 \in Nat /\ b2 \in Nat
    BY <1>3, <2>2, HoldingsGain
  <2>4. w2 <= w1 /\ p2 = p1
    BY <1>7 DEF Purse
  <2> HIDE DEF s1, s2, b1, b2, w1, w2, p1, p2
  <2>5. w2 + p2 + s2 - b2 <= w1 + p1 + s1 - b1
    BY <1>4, <1>5, <2>2, <2>3, <2>4
  <2> QED BY <1>1, <1>2, <2>5
<1> QED BY <1>6, <1>7

\* A step on the asset t that changes the position of one account: its
\* accounts balance.
LEMMA StepKeeps ==
  ASSUME Safe, Inv', PaymentsFit', UNCHANGED price, NEW a \in Accounts, NEW t \in Tokens,
         NEW m \in Int, NEW n \in Int, NEW r \in Int, NEW f \in Int, NEW c \in Int, NEW p \in Int,
         Books(t, m, n, r, f), Cash(t, c, p), OtherPositions(a), SafeFor(a),
         c + n - m - r - f - p >= 0,
         c + n - m - r - f - p < Scale \/ \E s \in Slots : Abandoned(s),
         NoBeneficiary => AvailableAmount(asset[t]) + m + r - n >= 0
  PROVE  StepOK
<1>1. /\ AllSound' /\ PricesFavour /\ CashCoversClaims'
      /\ Unclaimed(t)' = Unclaimed(t) + (c + n - m - r - f - p)
      /\ \A u \in Tokens \ {t} : Unclaimed(u)' = Unclaimed(u)
      /\ \A u \in Tokens : Unclaimed(u) \in Int
  BY Tally
<1>2. NoBeneficiary => AllAvailable'
  BY Availability
<1>3. NobodyHurt /\ DebtIsBacked' /\ PricesPositive'
  BY <1>1, PositionsKept
<1>4. Safe'
  BY <1>1, <1>2, <1>3 DEF Safe
<1>5. PricesKept
  BY <1>1 DEF PricesFavour, PricesKept
<1>6. DustOnly
  <2> SUFFICES ASSUME NEW u \in Tokens
               PROVE  /\ Unclaimed(u)' >= Unclaimed(u)
                      /\ Unclaimed(u)' - Unclaimed(u) < Scale \/ \E s \in Slots : Abandoned(s)
    BY DEF DustOnly
  <2>1. Scale \in Nat \ {0}
    BY ScaleAssumption
  <2>2. CASE u = t
    BY <1>1, <2>1, <2>2
  <2>3. CASE u # t
    BY <1>1, <2>1, <2>3
  <2> QED BY <2>2, <2>3
<1> QED BY <1>3, <1>4, <1>5, <1>6 DEF StepOK

-----------------------------------------------------------------------------
(***************************************************************************)
(* The handlers, one by one.  Each names what it moves; the rest follows   *)
(* from StepKeeps and Gains.                                               *)
(***************************************************************************)
\* What Safe says of one asset.
LEMMA SafeAsset ==
  ASSUME Safe, NEW t \in Tokens
  PROVE  /\ Inv /\ TypeOK /\ PaymentsFit
         /\ asset[t] \in AssetType /\ SoundAsset(asset[t])
         /\ asset[t].supplied \in PoolType /\ asset[t].borrowed \in PoolType
         /\ SoundPool(asset[t].supplied) /\ SoundPool(asset[t].borrowed)
         /\ PoolInvariant(asset[t].supplied) /\ PoolInvariant(asset[t].borrowed)
         /\ asset[t].reserved \in Nat /\ asset[t].beneficiary_fees \in Nat
         /\ AvailableAmount(asset[t]) \in Int
         /\ NoBeneficiary => AvailableAmount(asset[t]) >= 0
<1>1. Inv /\ TypeOK /\ PaymentsFit /\ AllSound /\ (NoBeneficiary => AllAvailable)
  BY DEF Safe, Inv
<1>2. /\ asset[t] \in AssetType
      /\ asset[t].supplied \in PoolType /\ asset[t].borrowed \in PoolType
      /\ asset[t].reserved \in Nat /\ asset[t].beneficiary_fees \in Nat
      /\ AvailableAmount(asset[t]) \in Int
  BY <1>1, TallyType
<1>3. SoundAsset(asset[t])
  BY <1>1 DEF AllSound
<1>4. SoundPool(asset[t].supplied) /\ SoundPool(asset[t].borrowed)
  BY <1>3 DEF SoundAsset
<1>5. PoolInvariant(asset[t].supplied) /\ PoolInvariant(asset[t].borrowed)
  BY <1>4 DEF SoundPool
<1>6. NoBeneficiary => AvailableAmount(asset[t]) >= 0
  BY <1>1 DEF AllAvailable
<1> QED BY <1>1, <1>2, <1>3, <1>4, <1>5, <1>6

\* A step on one entry of the tables and one asset.
LEMMA UserStep ==
  ASSUME Safe, Inv', PaymentsFit', UNCHANGED price, NEW a \in Accounts, NEW t \in Tokens,
         NEW m \in Int, NEW n \in Int, NEW r \in Int, NEW f \in Int, NEW c \in Int, NEW p \in Int,
         NEW w \in Int,
         AssetMoves(asset[t], asset'[t], m, n, r, f), Elsewhere(a, t),
         Cash(t, c, p), Purse(a, t, w, p), SafeFor(a),
         c + n - m - r - f - p >= 0,
         c + n - m - r - f - p < Scale \/ \E s \in Slots : Abandoned(s),
         w + p + m - n <= 0,
         NoBeneficiary => AvailableAmount(asset[t]) + m + r - n >= 0
  PROVE  StepOK /\ NoGain(a)
<1>1. Books(t, m, n, r, f)
  BY DEF Books, Elsewhere
<1>2. OtherPositions(a)
  BY DEF OtherPositions, Elsewhere, OtherEntries
<1>3. StepOK
  BY <1>1, <1>2, StepKeeps
<1>4. AllSound'
  BY <1>3 DEF StepOK, Safe
<1>5. NoGain(a)
  BY <1>4, Gains
<1> QED BY <1>3, <1>5

\* All that a step moves, and that it comes out even.
Transaction(a, t, m, n, r, f, c, p, w) ==
    /\ AssetMoves(asset[t], asset'[t], m, n, r, f) /\ Elsewhere(a, t)
    /\ Cash(t, c, p) /\ Purse(a, t, w, p)
    /\ c + n - m - r - f - p >= 0
    /\ c + n - m - r - f - p < Scale \/ \E s \in Slots : Abandoned(s)
    /\ w + p + m - n <= 0
    /\ NoBeneficiary => AvailableAmount(asset[t]) + m + r - n >= 0

\* Such a step keeps the invariant and costs its caller.
LEMMA TransactionStep ==
  ASSUME Safe, Inv', PaymentsFit', UNCHANGED price, NEW a \in Accounts, NEW t \in Tokens,
         NEW m \in Int, NEW n \in Int, NEW r \in Int, NEW f \in Int, NEW c \in Int, NEW p \in Int,
         NEW w \in Int, Transaction(a, t, m, n, r, f, c, p, w), SafeFor(a)
  PROVE  StepOK /\ NoGain(a)
BY UserStep DEF Transaction

\* Saving an asset moves its pools.
LEMMA SavedAsset ==
  ASSUME Safe, NEW t \in Tokens, NEW y \in AssetType, NEW checked, SetAsset(t, y, checked),
         NEW m \in Int, NEW n \in Int, NEW r \in Int, NEW f \in Int,
         SupplyMoves(asset[t].supplied, y.supplied, m), DebtMoves(asset[t].borrowed, y.borrowed, n),
         y.reserved = asset[t].reserved + r, y.beneficiary_fees = asset[t].beneficiary_fees + f
  PROVE  AssetMoves(asset[t], asset'[t], m, n, r, f) /\ OtherAssets(t)
<1>1. TypeOK /\ asset[t] \in AssetType
  BY SafeAsset
<1>2. asset'[t] = Normalized(y) /\ OtherAssets(t)
  BY <1>1, SetAssetType
<1>3. CanSave(y, checked)
  BY DEF SetAsset
<1>4. AssetMoves(asset[t], Normalized(y), m, n, r, f)
  BY <1>1, <1>3, SavedMoves
<1> QED BY <1>2, <1>4

\* What a handler makes of an asset before it saves it.
Becomes(x, y, m, n, r, f) ==
    /\ y \in AssetType
    /\ SupplyMoves(x.supplied, y.supplied, m)
    /\ DebtMoves(x.borrowed, y.borrowed, n)
    /\ y.reserved = x.reserved + r
    /\ y.beneficiary_fees = x.beneficiary_fees + f

\* The same of what a handler makes of the asset.
LEMMA SavedAs ==
  ASSUME Safe, NEW t \in Tokens, NEW y, NEW checked, SetAsset(t, y, checked),
         NEW m \in Int, NEW n \in Int, NEW r \in Int, NEW f \in Int,
         Becomes(asset[t], y, m, n, r, f)
  PROVE  AssetMoves(asset[t], asset'[t], m, n, r, f) /\ OtherAssets(t)
BY SavedAsset DEF Becomes

\* The fields of an asset after a deposit and after a withdrawal.
LEMMA SupplyFields ==
  ASSUME NEW x \in AssetType, NEW shares \in Nat, NEW amount \in Nat
  PROVE  /\ LET y == Supplied(x, shares, amount)
            IN  /\ y \in AssetType /\ y.supplied = PoolDeposit(x.supplied, shares, amount)
                /\ y.borrowed = x.borrowed /\ y.reserved = x.reserved + 0
                /\ y.beneficiary_fees = x.beneficiary_fees + 0
         /\ CanWithdraw(x.supplied, shares, amount) =>
            LET y == Unsupplied(x, shares, amount)
            IN  /\ y \in AssetType /\ y.supplied = PoolWithdraw(x.supplied, shares, amount)
                /\ y.borrowed = x.borrowed /\ y.reserved = x.reserved + 0
                /\ y.beneficiary_fees = x.beneficiary_fees + 0
<1> DEFINE more == PoolDeposit(x.supplied, shares, amount)
           less == PoolWithdraw(x.supplied, shares, amount)
<1>1. x.supplied \in PoolType /\ x.reserved \in Nat /\ x.beneficiary_fees \in Nat
  BY DEF AssetType
<1>2. /\ more \in PoolType
      /\ CanWithdraw(x.supplied, shares, amount) => less \in PoolType
  BY <1>1, PoolOperations
<1>3. x.reserved = x.reserved + 0 /\ x.beneficiary_fees = x.beneficiary_fees + 0
  BY <1>1
<1>4. /\ Supplied(x, shares, amount) = [x EXCEPT !.supplied = more]
      /\ Unsupplied(x, shares, amount) = [x EXCEPT !.supplied = less]
  BY DEF Supplied, Unsupplied
<1> HIDE DEF more, less
<1>5. ASSUME NEW pool \in PoolType
      PROVE  /\ [x EXCEPT !.supplied = pool] \in AssetType
             /\ [x EXCEPT !.supplied = pool].supplied = pool
             /\ [x EXCEPT !.supplied = pool].borrowed = x.borrowed
             /\ [x EXCEPT !.supplied = pool].reserved = x.reserved
             /\ [x EXCEPT !.supplied = pool].beneficiary_fees = x.beneficiary_fees
  BY DEF AssetType
<1>6. LET y == Supplied(x, shares, amount)
      IN  /\ y \in AssetType /\ y.supplied = more
          /\ y.borrowed = x.borrowed /\ y.reserved = x.reserved + 0
          /\ y.beneficiary_fees = x.beneficiary_fees + 0
  BY <1>2, <1>3, <1>4, <1>5
<1>7. ASSUME CanWithdraw(x.supplied, shares, amount)
      PROVE  LET y == Unsupplied(x, shares, amount)
             IN  /\ y \in AssetType /\ y.supplied = less
                 /\ y.borrowed = x.borrowed /\ y.reserved = x.reserved + 0
                 /\ y.beneficiary_fees = x.beneficiary_fees + 0
  BY <1>2, <1>3, <1>4, <1>5, <1>7
<1> QED BY <1>6, <1>7 DEF more, less

\* The asset after a deposit and after a withdrawal, in a word.
Resupplied(x, y, pool) ==
    /\ y \in AssetType /\ y.supplied = pool
    /\ y.borrowed = x.borrowed /\ y.reserved = x.reserved + 0
    /\ y.beneficiary_fees = x.beneficiary_fees + 0

\* A deposit changes the supplied pool alone, and so does a withdrawal.
LEMMA SupplyChanges ==
  ASSUME NEW x \in AssetType, NEW shares \in Nat, NEW amount \in Nat
  PROVE  /\ Resupplied(x, Supplied(x, shares, amount), PoolDeposit(x.supplied, shares, amount))
         /\ CanWithdraw(x.supplied, shares, amount) =>
            Resupplied(x, Unsupplied(x, shares, amount), PoolWithdraw(x.supplied, shares, amount))
BY SupplyFields DEF Resupplied

\* Tokens arrive: the wallet pays what the contract comes to hold.
LEMMA Arrival ==
  ASSUME TypeOK, TypeOK', NEW a \in Accounts, NEW t \in Tokens, NEW n \in Amounts,
         Arrive(a, t, n), UNCHANGED transfer, NEW amount \in Nat, amount = n * Scale, PaymentsFit
  PROVE  Cash(t, amount, 0) /\ Purse(a, t, - amount, 0) /\ PaymentsFit'
<1>1. /\ wallet[a][t] >= amount
      /\ wallet' = Sub(wallet, a, t, amount)
      /\ cash' = [cash EXCEPT ![t] = @ + amount]
  BY DEF Arrive
<1>2. /\ wallet \in [Accounts -> [Tokens -> Nat]]
      /\ cash \in [Tokens -> Nat]
  BY DEF TypeOK
<1>3. /\ cash'[t] = cash[t] + amount
      /\ \A u \in Tokens \ {t} : cash'[u] = cash[u]
  BY <1>1, <1>2
<1>4. /\ wallet'[a][t] = wallet[a][t] - amount
      /\ OtherEntries(wallet, wallet', a, t)
  <2>1. amount <= wallet[a][t]
    BY <1>1, <1>2
  <2> QED BY <1>1, <1>2, <2>1, SubType
<1>5. /\ wallet'[a][t] <= wallet[a][t] + (- amount)
      /\ \A u \in Tokens \ {t} : wallet'[a][u] <= wallet[a][u]
  <2>1. \A u \in Tokens : wallet[a][u] \in Nat
    BY <1>2
  <2> QED BY <1>4, <2>1 DEF OtherEntries
<1>6. /\ InFlight(t)' = InFlight(t) + 0
      /\ \A u \in Tokens \ {t} : InFlight(u)' = InFlight(u)
      /\ Payments(a, t)' = Payments(a, t) + 0
      /\ \A u \in Tokens \ {t} : Payments(a, u)' = Payments(a, u)
      /\ PaymentsFit'
  BY NoPayment
<1> QED BY <1>3, <1>5, <1>6 DEF Cash, Purse

\* A step that leaves the token contract alone.
LEMMA NoTokensMove ==
  ASSUME TypeOK, TypeOK', PaymentsFit, NEW a \in Accounts, NEW t \in Tokens,
         UNCHANGED <<transfer, cash, wallet>>
  PROVE  Cash(t, 0, 0) /\ Purse(a, t, 0, 0) /\ PaymentsFit'
<1>1. /\ cash[t] \in Nat /\ wallet[a] \in [Tokens -> Nat]
  BY DEF TypeOK
<1>2. \A u \in Tokens : wallet[a][u] \in Nat
  BY <1>1
<1>3. /\ cash'[t] = cash[t] + 0
      /\ \A u \in Tokens \ {t} : cash'[u] = cash[u]
      /\ wallet'[a][t] <= wallet[a][t] + 0
      /\ \A u \in Tokens \ {t} : wallet'[a][u] <= wallet[a][u]
  BY <1>1, <1>2
<1>4. /\ InFlight(t)' = InFlight(t) + 0
      /\ \A u \in Tokens \ {t} : InFlight(u)' = InFlight(u)
      /\ Payments(a, t)' = Payments(a, t) + 0
      /\ \A u \in Tokens \ {t} : Payments(a, u)' = Payments(a, u)
      /\ PaymentsFit'
  BY NoPayment
<1> QED BY <1>3, <1>4 DEF Cash, Purse

\* An account whose position the step does not touch, or betters in t.
LEMMA PositionBetter ==
  ASSUME TypeOK, TypeOK', NEW a \in Accounts, NEW t \in Tokens, Elsewhere(a, t),
         collateral[a][t] <= collateral'[a][t], borrowed'[a][t] <= borrowed[a][t]
  PROVE  SafeFor(a)
<1>1. \A u \in Tokens : collateral[a][u] \in Nat /\ borrowed[a][u] \in Nat
  BY DEF TypeOK
<1>2. \A u \in Tokens : collateral[a][u] <= collateral'[a][u] /\ borrowed'[a][u] <= borrowed[a][u]
  BY <1>1 DEF Elsewhere, OtherEntries
<1> QED BY <1>2 DEF SafeFor

\* A step that changes no position leaves every one as safe as it was.
LEMMA PositionSame ==
  ASSUME TypeOK, NEW a \in Accounts, UNCHANGED <<collateral, borrowed>>
  PROVE  SafeFor(a)
<1>1. \A u \in Tokens : collateral[a][u] \in Nat /\ borrowed[a][u] \in Nat
  BY DEF TypeOK
<1>2. \A u \in Tokens : collateral[a][u] <= collateral'[a][u] /\ borrowed'[a][u] <= borrowed[a][u]
  BY <1>1
<1> QED BY <1>2 DEF SafeFor

\* ft_on_transfer, a deposit.
LEMMA DepositStep ==
  ASSUME Safe, NEW a \in Accounts, NEW t \in Tokens, NEW n \in Amounts, Deposit(a, t, n)
  PROVE  StepOK /\ NoGain(a)
<1> DEFINE amount == n * Scale
           shares == AmountToShares(asset[t].supplied, amount, FALSE)
           y      == Supplied(asset[t], shares, amount)
<1>1. Inv /\ TypeOK /\ PaymentsFit /\ Inv' /\ TypeOK'
  BY DepositInv DEF Safe, Inv
<1>2. /\ Arrive(a, t, n) /\ SetAsset(t, y, Checked(a))
      /\ supplied' = Add(supplied, a, t, shares)
      /\ UNCHANGED <<collateral, borrowed, transfer, price>>
  BY DEF Deposit
<1>3. amount \in Nat
  BY <1>1, <1>2, ArriveType
<1>4. Cash(t, amount, 0) /\ Purse(a, t, - amount, 0) /\ PaymentsFit'
  BY <1>1, <1>2, <1>3, Arrival
<1> HIDE DEF amount
<1>5. shares \in Nat /\ Covering(asset[t].supplied, shares, amount)
  BY <1>3, SafeAsset, SharesRounding
<1> HIDE DEF shares
<1>6. /\ y \in AssetType /\ y.supplied = PoolDeposit(asset[t].supplied, shares, amount)
      /\ y.borrowed = asset[t].borrowed /\ y.reserved = asset[t].reserved + 0
      /\ y.beneficiary_fees = asset[t].beneficiary_fees + 0
  <2>1. asset[t] \in AssetType
    BY SafeAsset
  <2>2. Resupplied(asset[t], y, PoolDeposit(asset[t].supplied, shares, amount))
    BY <1>3, <1>5, <2>1, SupplyChanges
  <2> QED BY <2>2 DEF Resupplied
<1> HIDE DEF y
<1>7. SupplyMoves(asset[t].supplied, y.supplied, amount) /\ DebtMoves(asset[t].borrowed, y.borrowed, 0)
  BY <1>3, <1>5, <1>6, SafeAsset, SupplyMove, PoolRests
<1>8. AssetMoves(asset[t], asset'[t], amount, 0, 0, 0) /\ OtherAssets(t)
  <2>1. Becomes(asset[t], y, amount, 0, 0, 0)
    BY <1>6, <1>7 DEF Becomes
  <2>2. SetAsset(t, y, Checked(a)) /\ amount \in Int /\ 0 \in Int
    BY <1>2, <1>3
  <2> QED BY <2>1, <2>2, SavedAs
<1>9. Elsewhere(a, t)
  BY <1>1, <1>2, <1>5, <1>8, AddType, SameEntries DEF Elsewhere, TypeOK
<1>10. SafeFor(a)
  BY <1>1, <1>2, PositionSame
<1>11. /\ - amount \in Int /\ amount + 0 - amount - 0 - 0 - 0 = 0
       /\ - amount + 0 + amount - 0 = 0
       /\ NoBeneficiary => AvailableAmount(asset[t]) + amount + 0 - 0 >= 0
  BY <1>3, SafeAsset
<1>12. 0 < Scale
  BY ScaleAssumption
<1>13. Transaction(a, t, amount, 0, 0, 0, amount, 0, - amount)
  BY <1>4, <1>8, <1>9, <1>11, <1>12 DEF Transaction
<1>14. amount \in Int /\ 0 \in Int /\ - amount \in Int
  BY <1>3
<1> QED BY <1>1, <1>2, <1>4, <1>10, <1>13, <1>14, TransactionStep

\* OnlyIncreaseCollateral: the shares go to the position.
LEMMA OnlyIncreaseCollateralStep ==
  ASSUME Safe, NEW a \in Accounts, NEW t \in Tokens, NEW n \in Amounts,
         OnlyIncreaseCollateral(a, t, n)
  PROVE  StepOK /\ NoGain(a)
<1> DEFINE amount == n * Scale
           shares == AmountToShares(asset[t].supplied, amount, FALSE)
           y      == Supplied(asset[t], shares, amount)
<1>1. Inv /\ TypeOK /\ PaymentsFit /\ Inv' /\ TypeOK'
  BY OnlyIncreaseCollateralInv DEF Safe, Inv
<1>2. /\ Arrive(a, t, n) /\ SetAsset(t, y, Checked(a)) /\ Pledge(a, t, shares)
      /\ UNCHANGED <<supplied, borrowed, transfer, price>>
  BY DEF OnlyIncreaseCollateral
<1>3. amount \in Nat
  BY <1>1, <1>2, ArriveType
<1>4. Cash(t, amount, 0) /\ Purse(a, t, - amount, 0) /\ PaymentsFit'
  BY <1>1, <1>2, <1>3, Arrival
<1> HIDE DEF amount
<1>5. shares \in Nat /\ Covering(asset[t].supplied, shares, amount)
  BY <1>3, SafeAsset, SharesRounding
<1> HIDE DEF shares
<1>6. /\ y \in AssetType /\ y.supplied = PoolDeposit(asset[t].supplied, shares, amount)
      /\ y.borrowed = asset[t].borrowed /\ y.reserved = asset[t].reserved + 0
      /\ y.beneficiary_fees = asset[t].beneficiary_fees + 0
  <2>1. asset[t] \in AssetType
    BY SafeAsset
  <2>2. Resupplied(asset[t], y, PoolDeposit(asset[t].supplied, shares, amount))
    BY <1>3, <1>5, <2>1, SupplyChanges
  <2> QED BY <2>2 DEF Resupplied
<1> HIDE DEF y
<1>7. SupplyMoves(asset[t].supplied, y.supplied, amount) /\ DebtMoves(asset[t].borrowed, y.borrowed, 0)
  BY <1>3, <1>5, <1>6, SafeAsset, SupplyMove, PoolRests
<1>8. AssetMoves(asset[t], asset'[t], amount, 0, 0, 0) /\ OtherAssets(t)
  <2>1. Becomes(asset[t], y, amount, 0, 0, 0)
    BY <1>6, <1>7 DEF Becomes
  <2>2. SetAsset(t, y, Checked(a)) /\ amount \in Int /\ 0 \in Int
    BY <1>2, <1>3
  <2> QED BY <2>1, <2>2, SavedAs
<1>9. /\ collateral'[a][t] = collateral[a][t] + shares
      /\ OtherEntries(collateral, collateral', a, t)
  BY <1>1, <1>2, <1>5, PledgeType
<1>10. Elsewhere(a, t)
  BY <1>2, <1>8, <1>9, SameEntries DEF Elsewhere
<1>11. SafeFor(a)
  <2>1. collateral[a][t] \in Nat /\ borrowed[a][t] \in Nat
    BY <1>1 DEF TypeOK
  <2>2. collateral[a][t] <= collateral'[a][t] /\ borrowed'[a][t] <= borrowed[a][t]
    BY <1>2, <1>5, <1>9, <2>1
  <2> QED BY <1>1, <1>10, <2>2, PositionBetter
<1>12. /\ - amount \in Int /\ amount + 0 - amount - 0 - 0 - 0 = 0
       /\ - amount + 0 + amount - 0 = 0
       /\ NoBeneficiary => AvailableAmount(asset[t]) + amount + 0 - 0 >= 0
  BY <1>3, SafeAsset
<1>13. 0 < Scale
  BY ScaleAssumption
<1>14. Transaction(a, t, amount, 0, 0, 0, amount, 0, - amount)
  BY <1>4, <1>8, <1>10, <1>12, <1>13 DEF Transaction
<1>15. amount \in Int /\ 0 \in Int /\ - amount \in Int
  BY <1>3
<1> QED BY <1>1, <1>2, <1>4, <1>11, <1>14, <1>15, TransactionStep

\* DepositToReserve: the tokens go to the reserve.
LEMMA DepositToReserveStep ==
  ASSUME Safe, NEW a \in Accounts, NEW t \in Tokens, NEW n \in Amounts,
         DepositToReserve(a, t, n)
  PROVE  StepOK /\ NoGain(a)
<1> DEFINE amount == n * Scale
           r      == asset[t].reserved + amount
           y      == [asset[t] EXCEPT !.reserved = r]
<1>1. Inv /\ TypeOK /\ PaymentsFit /\ Inv' /\ TypeOK'
  BY DepositToReserveInv DEF Safe, Inv
<1>2. /\ Arrive(a, t, n) /\ SetAsset(t, y, Checked(a))
      /\ UNCHANGED <<supplied, collateral, borrowed, transfer, price>>
  BY DEF DepositToReserve
<1>3. amount \in Nat
  BY <1>1, <1>2, ArriveType
<1>4. Cash(t, amount, 0) /\ Purse(a, t, - amount, 0) /\ PaymentsFit'
  BY <1>1, <1>2, <1>3, Arrival
<1> HIDE DEF amount
<1>5. /\ asset[t] \in AssetType /\ r \in Nat /\ r = asset[t].reserved + amount
      /\ asset[t].beneficiary_fees \in Nat
  BY <1>3, SafeAsset
<1> HIDE DEF r
<1>6. /\ y \in AssetType /\ y.supplied = asset[t].supplied /\ y.borrowed = asset[t].borrowed
      /\ y.reserved = asset[t].reserved + amount
      /\ y.beneficiary_fees = asset[t].beneficiary_fees + 0
  BY <1>5 DEF AssetType
<1> HIDE DEF y
<1>7. SupplyMoves(asset[t].supplied, y.supplied, 0) /\ DebtMoves(asset[t].borrowed, y.borrowed, 0)
  BY <1>6, SafeAsset, PoolRests
<1>8. AssetMoves(asset[t], asset'[t], 0, 0, amount, 0) /\ OtherAssets(t)
  <2>1. SetAsset(t, y, Checked(a)) /\ amount \in Int
    BY <1>2, <1>3
  <2>2. Becomes(asset[t], y, 0, 0, amount, 0)
    BY <1>6, <1>7 DEF Becomes
  <2>3. 0 \in Int
    OBVIOUS
  <2> QED BY <2>1, <2>2, <2>3, SavedAs
<1>9. Elsewhere(a, t)
  BY <1>2, <1>8, SameEntries DEF Elsewhere
<1>10. SafeFor(a)
  BY <1>1, <1>2, PositionSame
<1>11. /\ - amount \in Int /\ amount + 0 - 0 - amount - 0 - 0 = 0
       /\ - amount + 0 + 0 - 0 <= 0
       /\ NoBeneficiary => AvailableAmount(asset[t]) + 0 + amount - 0 >= 0
  BY <1>3, SafeAsset
<1>12. 0 < Scale
  BY ScaleAssumption
<1>13. Transaction(a, t, 0, 0, amount, 0, amount, 0, - amount)
  BY <1>4, <1>8, <1>9, <1>11, <1>12 DEF Transaction
<1>14. amount \in Int /\ 0 \in Int /\ - amount \in Int
  BY <1>3
<1> QED BY <1>1, <1>2, <1>4, <1>10, <1>13, <1>14, TransactionStep

\* OnlyRepay: the tokens pay the debt, for debt shares rounded down unless all
\* is paid, and the rest becomes supply.
LEMMA OnlyRepayStep ==
  ASSUME Safe, NEW a \in Accounts, NEW t \in Tokens, NEW n \in Amounts, OnlyRepay(a, t, n)
  PROVE  StepOK /\ NoGain(a)
<1> DEFINE amount  == n * Scale
           debt    == borrowed[a][t]
           owed    == SharesToAmount(asset[t].borrowed, debt, TRUE)
           part    == AmountToShares(asset[t].borrowed, amount, FALSE)
           paid    == Least(amount, owed)
           repaid  == IF amount >= owed THEN debt ELSE part
           remain  == amount - paid
           more    == AmountToShares(asset[t].supplied, remain, FALSE)
           shares  == IF remain > 0 THEN more ELSE 0
           pool    == PoolWithdraw(asset[t].borrowed, repaid, paid)
           cleared == [asset[t] EXCEPT !.borrowed = pool]
           y       == Supplied(cleared, shares, remain)
<1>1. Inv /\ TypeOK /\ PaymentsFit /\ Inv' /\ TypeOK'
  BY OnlyRepayInv DEF Safe, Inv
<1>2. /\ Arrive(a, t, n) /\ SetAsset(t, y, Checked(a))
      /\ repaid <= debt /\ CanWithdraw(asset[t].borrowed, repaid, paid)
      /\ supplied' = Add(supplied, a, t, shares)
      /\ borrowed' = Sub(borrowed, a, t, repaid)
      /\ UNCHANGED <<collateral, transfer, price>>
  BY DEF OnlyRepay
<1>3. amount \in Nat
  BY <1>1, <1>2, ArriveType
<1>4. Cash(t, amount, 0) /\ Purse(a, t, - amount, 0) /\ PaymentsFit'
  BY <1>1, <1>2, <1>3, Arrival
<1> HIDE DEF amount
<1>5. debt \in Nat /\ debt <= asset[t].borrowed.shares
  BY <1>1, PartsBound
<1> HIDE DEF debt
<1>6. owed \in Nat /\ Covering(asset[t].borrowed, debt, owed)
  BY <1>5, SafeAsset, AmountRounding
<1> HIDE DEF owed
<1>7. part \in Nat /\ Covering(asset[t].borrowed, part, amount)
  BY <1>3, SafeAsset, SharesRounding
<1> HIDE DEF part
<1>8. /\ paid \in Nat /\ paid <= amount
      /\ amount >= owed => paid = owed
      /\ ~ (amount >= owed) => paid = amount
  BY <1>3, <1>6 DEF Least
<1> HIDE DEF paid
<1>9. repaid \in Nat /\ Covering(asset[t].borrowed, repaid, paid)
  <2>1. CASE amount >= owed
    BY <1>5, <1>6, <1>8, <2>1
  <2>2. CASE ~ (amount >= owed)
    BY <1>7, <1>8, <2>2
  <2> QED BY <2>1, <2>2
<1> HIDE DEF repaid
<1>10. remain \in Nat /\ amount = paid + remain
  BY <1>3, <1>8
<1> HIDE DEF remain
<1>11. more \in Nat /\ Covering(asset[t].supplied, more, remain)
  BY <1>10, SafeAsset, SharesRounding
<1> HIDE DEF more
<1>12. shares \in Nat /\ Covering(asset[t].supplied, shares, remain)
  <2>1. CASE remain > 0
    BY <1>11, <2>1
  <2>2. CASE ~ (remain > 0)
    <3>1. shares = 0 /\ remain = 0
      BY <1>10, <2>2
    <3>2. asset[t].supplied.balance \in Nat /\ asset[t].supplied.shares \in Nat
      BY SafeAsset DEF PoolType
    <3> QED BY <3>1, <3>2 DEF Covering
  <2> QED BY <2>1, <2>2
<1> HIDE DEF shares
<1>13. /\ DebtMoves(asset[t].borrowed, pool, - paid) /\ pool \in PoolType
  <2>1. DebtMoves(asset[t].borrowed, pool, - paid)
    BY <1>2, <1>8, <1>9, SafeAsset, DebtMove
  <2> QED BY <2>1 DEF DebtMoves
<1> HIDE DEF pool
<1>14. /\ cleared \in AssetType /\ cleared.supplied = asset[t].supplied
       /\ cleared.borrowed = pool /\ cleared.reserved = asset[t].reserved
       /\ cleared.beneficiary_fees = asset[t].beneficiary_fees
  <2>1. asset[t] \in AssetType
    BY SafeAsset
  <2> QED BY <1>13, <2>1 DEF AssetType
<1> HIDE DEF cleared
<1>15. /\ y \in AssetType /\ y.supplied = PoolDeposit(asset[t].supplied, shares, remain)
       /\ y.borrowed = pool /\ y.reserved = asset[t].reserved + 0
       /\ y.beneficiary_fees = asset[t].beneficiary_fees + 0
  <2>1. Resupplied(cleared, y, PoolDeposit(cleared.supplied, shares, remain))
    BY <1>10, <1>12, <1>14, SupplyChanges
  <2> QED BY <1>14, <2>1 DEF Resupplied
<1> HIDE DEF y
<1>16. SupplyMoves(asset[t].supplied, y.supplied, remain)
  BY <1>10, <1>12, <1>15, SafeAsset, SupplyMove
<1>17. - paid \in Int /\ remain \in Int
  BY <1>8, <1>10
<1>18. AssetMoves(asset[t], asset'[t], remain, - paid, 0, 0) /\ OtherAssets(t)
  <2>1. Becomes(asset[t], y, remain, - paid, 0, 0)
    BY <1>13, <1>15, <1>16 DEF Becomes
  <2>2. SetAsset(t, y, Checked(a)) /\ 0 \in Int
    BY <1>2
  <2> QED BY <1>17, <2>1, <2>2, SavedAs
<1>19. /\ borrowed'[a][t] = borrowed[a][t] - repaid
       /\ OtherEntries(borrowed, borrowed', a, t)
  <2>1. borrowed \in [Accounts -> [Tokens -> Nat]]
    BY <1>1 DEF TypeOK
  <2>2. borrowed' = Sub(borrowed, a, t, repaid)
    BY <1>2
  <2>3. repaid \in Nat /\ repaid <= borrowed[a][t]
    BY <1>2, <1>9 DEF debt
  <2> QED BY <2>1, <2>2, <2>3, SubType
<1>20. Elsewhere(a, t)
  BY <1>1, <1>2, <1>12, <1>18, <1>19, AddType, SameEntries DEF Elsewhere, TypeOK
<1>21. SafeFor(a)
  <2>1. collateral[a][t] \in Nat /\ borrowed[a][t] \in Nat
    BY <1>1 DEF TypeOK
  <2>2. collateral[a][t] <= collateral'[a][t] /\ borrowed'[a][t] <= borrowed[a][t]
    BY <1>2, <1>9, <1>19, <2>1
  <2> QED BY <1>1, <1>20, <2>2, PositionBetter
<1>22. /\ amount + (- paid) - remain - 0 - 0 - 0 >= 0
       /\ amount + (- paid) - remain - 0 - 0 - 0 < Scale
       /\ - amount + 0 + remain - (- paid) <= 0
       /\ NoBeneficiary => AvailableAmount(asset[t]) + remain + 0 - (- paid) >= 0
  BY <1>3, <1>8, <1>10, SafeAsset, ScaleAssumption
<1>23. Transaction(a, t, remain, - paid, 0, 0, amount, 0, - amount)
  BY <1>4, <1>18, <1>20, <1>22 DEF Transaction
<1>24. amount \in Int /\ 0 \in Int /\ - amount \in Int
  BY <1>3
<1> QED BY <1>1, <1>2, <1>4, <1>17, <1>21, <1>23, <1>24, TransactionStep

\* IncreaseCollateral: shares of the supply go to the position.
LEMMA IncreaseCollateralStep ==
  ASSUME Safe, NEW a \in Accounts, NEW t \in Tokens, NEW req \in Requests,
         IncreaseCollateral(a, t, req)
  PROVE  StepOK /\ NoGain(a)
<1> DEFINE shares == AssetAmountToShares(asset[t].supplied, supplied[a][t], req, FALSE).shares
<1>1. Inv /\ TypeOK /\ PaymentsFit /\ Inv' /\ TypeOK'
  BY IncreaseCollateralInv DEF Safe, Inv
<1>2. /\ shares <= supplied[a][t]
      /\ supplied' = Sub(supplied, a, t, shares)
      /\ Pledge(a, t, shares)
      /\ UNCHANGED <<asset, borrowed, transfer, price, cash, wallet>>
  BY DEF IncreaseCollateral
<1>3. shares \in Nat
  BY <1>1, HeldMove
<1> HIDE DEF shares
<1>4. Cash(t, 0, 0) /\ Purse(a, t, 0, 0) /\ PaymentsFit'
  BY <1>1, <1>2, NoTokensMove
<1>5. AssetMoves(asset[t], asset'[t], 0, 0, 0, 0) /\ OtherAssets(t)
  BY <1>2, SafeAsset, AssetRests DEF OtherAssets
<1>6. /\ collateral'[a][t] = collateral[a][t] + shares
      /\ OtherEntries(collateral, collateral', a, t)
  BY <1>1, <1>2, <1>3, PledgeType
<1>7. Elsewhere(a, t)
  BY <1>1, <1>2, <1>3, <1>5, <1>6, SubType, SameEntries DEF Elsewhere, TypeOK
<1>8. SafeFor(a)
  <2>1. collateral[a][t] \in Nat /\ borrowed[a][t] \in Nat
    BY <1>1 DEF TypeOK
  <2>2. collateral[a][t] <= collateral'[a][t] /\ borrowed'[a][t] <= borrowed[a][t]
    BY <1>2, <1>3, <1>6, <2>1
  <2> QED BY <1>1, <1>7, <2>2, PositionBetter
<1>9. /\ 0 + 0 - 0 - 0 - 0 - 0 = 0 /\ 0 + 0 + 0 - 0 = 0 /\ 0 \in Int
      /\ NoBeneficiary => AvailableAmount(asset[t]) + 0 + 0 - 0 >= 0
  BY SafeAsset
<1>10. 0 < Scale
  BY ScaleAssumption
<1>11. Transaction(a, t, 0, 0, 0, 0, 0, 0, 0)
  BY <1>4, <1>5, <1>7, <1>9, <1>10 DEF Transaction
<1> QED BY <1>1, <1>2, <1>4, <1>8, <1>9, <1>11, TransactionStep

\* DecreaseCollateral: they come back, and the position stays healthy.
LEMMA DecreaseCollateralStep ==
  ASSUME Safe, NEW a \in Accounts, NEW t \in Tokens, NEW req \in Requests,
         DecreaseCollateral(a, t, req)
  PROVE  StepOK /\ NoGain(a)
<1> DEFINE shares == AssetAmountToShares(asset[t].supplied, collateral[a][t], req, FALSE).shares
<1>1. Inv /\ TypeOK /\ PaymentsFit /\ Inv' /\ TypeOK'
  BY DecreaseCollateralInv DEF Safe, Inv
<1>2. /\ Unpledge(a, t, shares)
      /\ supplied' = Add(supplied, a, t, shares)
      /\ UNCHANGED <<asset, borrowed, transfer, price, cash, wallet>>
      /\ StaysHealthy(a)
  BY DEF DecreaseCollateral
<1>3. shares \in Nat
  BY <1>1, HeldMove
<1> HIDE DEF shares
<1>4. Cash(t, 0, 0) /\ Purse(a, t, 0, 0) /\ PaymentsFit'
  BY <1>1, <1>2, NoTokensMove
<1>5. AssetMoves(asset[t], asset'[t], 0, 0, 0, 0) /\ OtherAssets(t)
  BY <1>2, SafeAsset, AssetRests DEF OtherAssets
<1>6. OtherEntries(collateral, collateral', a, t)
  BY <1>1, <1>2, <1>3, UnpledgeType
<1>7. Elsewhere(a, t)
  BY <1>1, <1>2, <1>3, <1>5, <1>6, AddType, SameEntries DEF Elsewhere, TypeOK
<1>8. SafeFor(a)
  BY <1>2 DEF StaysHealthy, SafeFor
<1>9. /\ 0 + 0 - 0 - 0 - 0 - 0 >= 0 /\ 0 + 0 - 0 - 0 - 0 - 0 < Scale /\ 0 + 0 + 0 - 0 <= 0
      /\ NoBeneficiary => AvailableAmount(asset[t]) + 0 + 0 - 0 >= 0
  BY SafeAsset, ScaleAssumption
<1>10. Transaction(a, t, 0, 0, 0, 0, 0, 0, 0)
  BY <1>4, <1>5, <1>7, <1>9 DEF Transaction
<1>11. 0 \in Int
  OBVIOUS
<1> QED BY <1>1, <1>2, <1>4, <1>8, <1>10, <1>11, TransactionStep

\* What an action moves out of a pool is covered by the shares it moves.
LEMMA HeldOut ==
  ASSUME Safe, NEW t \in Tokens, NEW held \in Nat, held <= asset[t].supplied.shares,
         NEW req \in Requests
  PROVE  LET move == AssetAmountToShares(asset[t].supplied, held, req, FALSE)
         IN  /\ move.shares \in Nat /\ move.amount \in Nat
             /\ Covered(asset[t].supplied, move.shares, move.amount)
<1> DEFINE move == AssetAmountToShares(asset[t].supplied, held, req, FALSE)
<1>1. asset[t].supplied \in PoolType /\ PoolInvariant(asset[t].supplied)
  BY SafeAsset
<1>2. req \in RequestsOver(Nat)
  BY AmountAssumption DEF Requests, RequestsOver
<1> DEFINE wanted == AmountToShares(asset[t].supplied, req.value, TRUE)
           capped == IF req.kind = "available" THEN held ELSE Least(held, wanted)
<1>3. wanted \in Nat
  <2>1. req.value \in Nat
    BY <1>2 DEF RequestsOver, Exactly, AtMost, Everything
  <2> QED BY <1>1, <2>1, SharesRounding
<1>4. move.shares = IF req.kind = "amount" THEN wanted ELSE capped
  BY DEF AssetAmountToShares
<1> HIDE DEF wanted, move
<1>5. capped \in Nat /\ capped <= held
  BY <1>3, LeastBound
<1> HIDE DEF capped
<1>6. req.kind # "amount" => Convertible(asset[t].supplied, move.shares)
  <2>1. req.kind # "amount" => move.shares = capped
    BY <1>4
  <2>2. asset[t].supplied.shares \in Nat
    BY <1>1 DEF PoolType
  <2>3. capped <= asset[t].supplied.shares
    BY <1>5, <2>2
  <2> QED BY <2>1, <2>3 DEF Convertible
<1> QED BY <1>1, <1>2, <1>6, MoveOut DEF move

\* Borrow: debt shares rounded up, supply shares rounded down, and a position
\* that stays healthy.
LEMMA BorrowStep ==
  ASSUME Safe, NEW a \in Accounts, NEW t \in Tokens, NEW req \in Requests, Borrow(a, t, req)
  PROVE  StepOK /\ NoGain(a)
<1> DEFINE move   == BorrowMove(t, req)
           ds     == move.shares
           amount == move.amount
           shares == AmountToShares(asset[t].supplied, amount, FALSE)
           pool   == PoolDeposit(asset[t].borrowed, ds, amount)
           lent   == [asset[t] EXCEPT !.borrowed = pool]
           y      == Supplied(lent, shares, amount)
<1>1. Inv /\ TypeOK /\ PaymentsFit /\ Inv' /\ TypeOK'
  BY BorrowInv DEF Safe, Inv
<1>2. /\ AvailableAmount(asset[t]) >= 0
      /\ req.kind # "amount" => Convertible(asset[t].borrowed, ds)
      /\ SetAsset(t, y, Checked(a))
      /\ supplied' = Add(supplied, a, t, shares)
      /\ borrowed' = Add(borrowed, a, t, ds)
      /\ UNCHANGED <<collateral, transfer, price, cash, wallet>>
      /\ StaysHealthy(a)
  BY DEF Borrow
<1>3. ds \in Nat /\ amount \in Nat /\ Covered(asset[t].borrowed, ds, amount)
  <2> DEFINE free == AmountToShares(asset[t].borrowed, AvailableAmount(asset[t]), FALSE)
  <2>1. AvailableAmount(asset[t]) \in Nat
    BY <1>2, SafeAsset
  <2>2. free \in Nat
    BY <2>1, SafeAsset, SharesRounding
  <2>3. req \in RequestsOver(Nat)
    BY AmountAssumption DEF Requests, RequestsOver
  <2>4. move = AssetAmountToShares(asset[t].borrowed, free, req, FALSE)
    BY DEF BorrowMove
  <2> HIDE DEF free, move
  <2>5. LET mv == AssetAmountToShares(asset[t].borrowed, free, req, FALSE)
        IN  req.kind # "amount" => Convertible(asset[t].borrowed, mv.shares)
    BY <1>2, <2>4
  <2>6. asset[t].borrowed \in PoolType /\ PoolInvariant(asset[t].borrowed)
    BY SafeAsset
  <2>7. LET mv == AssetAmountToShares(asset[t].borrowed, free, req, FALSE)
        IN  /\ mv.shares \in Nat /\ mv.amount \in Nat
            /\ Covered(asset[t].borrowed, mv.shares, mv.amount)
    BY <2>2, <2>3, <2>5, <2>6, MoveOut
  <2> QED BY <2>4, <2>7
<1> HIDE DEF move, ds, amount
<1>4. shares \in Nat /\ Covering(asset[t].supplied, shares, amount)
  BY <1>3, SafeAsset, SharesRounding
<1> HIDE DEF shares
<1>5. /\ DebtMoves(asset[t].borrowed, pool, amount) /\ pool \in PoolType
  <2>1. DebtMoves(asset[t].borrowed, pool, amount)
    BY <1>3, SafeAsset, DebtMove
  <2> QED BY <2>1 DEF DebtMoves
<1> HIDE DEF pool
<1>6. /\ lent \in AssetType /\ lent.supplied = asset[t].supplied
      /\ lent.borrowed = pool /\ lent.reserved = asset[t].reserved
      /\ lent.beneficiary_fees = asset[t].beneficiary_fees
  <2>1. asset[t] \in AssetType
    BY SafeAsset
  <2> QED BY <1>5, <2>1 DEF AssetType
<1> HIDE DEF lent
<1>7. /\ y \in AssetType /\ y.supplied = PoolDeposit(asset[t].supplied, shares, amount)
      /\ y.borrowed = pool /\ y.reserved = asset[t].reserved + 0
      /\ y.beneficiary_fees = asset[t].beneficiary_fees + 0
  <2>1. /\ y \in AssetType /\ y.supplied = PoolDeposit(lent.supplied, shares, amount)
        /\ y.borrowed = lent.borrowed /\ y.reserved = lent.reserved + 0
        /\ y.beneficiary_fees = lent.beneficiary_fees + 0
    BY <1>3, <1>4, <1>6, SupplyFields
  <2> HIDE DEF y
  <2> QED BY <1>6, <2>1
<1> HIDE DEF y
<1>8. SupplyMoves(asset[t].supplied, y.supplied, amount)
  BY <1>3, <1>4, <1>7, SafeAsset, SupplyMove
<1>9. AssetMoves(asset[t], asset'[t], amount, amount, 0, 0) /\ OtherAssets(t)
  <2>1. SetAsset(t, y, Checked(a)) /\ amount \in Int
    BY <1>2, <1>3
  <2>2. Becomes(asset[t], y, amount, amount, 0, 0) /\ 0 \in Int
    BY <1>5, <1>7, <1>8 DEF Becomes
  <2> QED BY <2>1, <2>2, SavedAs
<1>10. Cash(t, 0, 0) /\ Purse(a, t, 0, 0) /\ PaymentsFit'
  BY <1>1, <1>2, NoTokensMove
<1>11. Elsewhere(a, t)
  BY <1>1, <1>2, <1>3, <1>4, <1>9, AddType, SameEntries DEF Elsewhere, TypeOK
<1>12. SafeFor(a)
  BY <1>2 DEF StaysHealthy, SafeFor
<1>13. /\ 0 + amount - amount - 0 - 0 - 0 = 0 /\ 0 < Scale
       /\ 0 + 0 + amount - amount = 0
       /\ AvailableAmount(asset[t]) + amount + 0 - amount >= 0
  BY <1>2, <1>3, SafeAsset, ScaleAssumption
<1>14. Transaction(a, t, amount, amount, 0, 0, 0, 0, 0)
  BY <1>9, <1>10, <1>11, <1>13 DEF Transaction
<1>15. amount \in Int /\ 0 \in Int
  BY <1>3
<1> QED BY <1>1, <1>2, <1>10, <1>12, <1>14, <1>15, TransactionStep

\* A repayment: the payer's shares are rounded up and the debt's down.
LEMMA RepayMoveCovers ==
  ASSUME Safe, NEW payer \in Accounts, NEW debtor \in Accounts, NEW t \in Tokens,
         NEW req \in Requests
  PROVE  LET move == RepayMove(payer, debtor, t, req)
         IN  /\ move.burnt \in Nat /\ move.burnt <= supplied[payer][t]
             /\ move.repaid \in Nat /\ move.amount \in Nat
             /\ Covered(asset[t].supplied, move.burnt, move.amount)
             /\ Covering(asset[t].borrowed, move.repaid, move.amount)
<1> DEFINE whole == AssetAmountToShares(asset[t].borrowed, borrowed[debtor][t], req, TRUE)
           cost  == AmountToShares(asset[t].supplied, whole.amount, TRUE)
           all   == SharesToAmount(asset[t].supplied, supplied[payer][t], FALSE)
           part  == AmountToShares(asset[t].borrowed, all, FALSE)
           move  == RepayMove(payer, debtor, t, req)
<1>1. /\ move.burnt \in Nat /\ move.burnt <= supplied[payer][t]
      /\ move.repaid \in Nat /\ move.amount \in Nat
  BY RepayMoveType, SafeAsset
<1>2. /\ asset[t].supplied \in PoolType /\ PoolInvariant(asset[t].supplied)
      /\ asset[t].borrowed \in PoolType /\ PoolInvariant(asset[t].borrowed)
      /\ supplied[payer][t] \in Nat /\ supplied[payer][t] <= asset[t].supplied.shares
      /\ borrowed[debtor][t] \in Nat /\ borrowed[debtor][t] <= asset[t].borrowed.shares
  BY SafeAsset, PartsBound
<1>3. req \in RequestsOver(Nat)
  BY AmountAssumption DEF Requests, RequestsOver
<1>4. whole.shares \in Nat /\ whole.amount \in Nat
         /\ Covering(asset[t].borrowed, whole.shares, whole.amount)
  BY <1>2, <1>3, MoveIn
<1>5. /\ move = IF cost <= supplied[payer][t]
                THEN [burnt |-> cost, repaid |-> whole.shares, amount |-> whole.amount]
                ELSE [burnt |-> supplied[payer][t], repaid |-> part, amount |-> all]
  BY DEF RepayMove
<1> HIDE DEF whole, move
<1>6. cost \in Nat /\ Covered(asset[t].supplied, cost, whole.amount)
  BY <1>2, <1>4, SharesRounding
<1>7. all \in Nat /\ Covered(asset[t].supplied, supplied[payer][t], all)
  BY <1>2, AmountRounding
<1> HIDE DEF cost, all
<1>8. part \in Nat /\ Covering(asset[t].borrowed, part, all)
  BY <1>2, <1>7, SharesRounding
<1> HIDE DEF part
<1>9. /\ Covered(asset[t].supplied, move.burnt, move.amount)
      /\ Covering(asset[t].borrowed, move.repaid, move.amount)
  <2>1. CASE cost <= supplied[payer][t]
    BY <1>4, <1>5, <1>6, <2>1
  <2>2. CASE ~ (cost <= supplied[payer][t])
    BY <1>5, <1>7, <1>8, <2>2
  <2> QED BY <2>1, <2>2
<1> QED BY <1>1, <1>9 DEF move

\* The asset after a repayment moves by what was repaid.
LEMMA RepaidMoves ==
  ASSUME Safe, NEW t \in Tokens, NEW move, NEW amount \in Nat, amount = move.amount,
         move.burnt \in Nat, move.repaid \in Nat,
         CanWithdraw(asset[t].supplied, move.burnt, amount),
         CanWithdraw(asset[t].borrowed, move.repaid, amount),
         Covered(asset[t].supplied, move.burnt, amount),
         Covering(asset[t].borrowed, move.repaid, amount),
         NEW checked, SetAsset(t, Repaid(asset[t], move), checked)
  PROVE  AssetMoves(asset[t], asset'[t], - amount, - amount, 0, 0) /\ OtherAssets(t)
<1> DEFINE less == Unsupplied(asset[t], move.burnt, amount)
           pool == PoolWithdraw(asset[t].borrowed, move.repaid, amount)
           y    == Repaid(asset[t], move)
<1>1. /\ less \in AssetType /\ less.supplied = PoolWithdraw(asset[t].supplied, move.burnt, amount)
      /\ less.borrowed = asset[t].borrowed /\ less.reserved = asset[t].reserved + 0
      /\ less.beneficiary_fees = asset[t].beneficiary_fees + 0
  <2>1. PICK x \in AssetType : x = asset[t]
    BY SafeAsset
  <2>2. PICK burnt \in Nat : burnt = move.burnt
    OBVIOUS
  <2>3. CanWithdraw(x.supplied, burnt, amount)
    BY <2>1, <2>2
  <2>4. Resupplied(x, Unsupplied(x, burnt, amount), PoolWithdraw(x.supplied, burnt, amount))
    BY <2>3, SupplyChanges
  <2> QED BY <2>1, <2>2, <2>4 DEF Resupplied
<1>2. SupplyMoves(asset[t].supplied, less.supplied, - amount)
  BY <1>1, SafeAsset, SupplyMove
<1>3. DebtMoves(asset[t].borrowed, pool, - amount) /\ pool \in PoolType
  <2>1. DebtMoves(asset[t].borrowed, pool, - amount)
    BY SafeAsset, DebtMove
  <2> QED BY <2>1 DEF DebtMoves
<1>4. y = [less EXCEPT !.borrowed = pool]
  BY <1>1 DEF Repaid
<1> HIDE DEF less, pool
<1>5. /\ y \in AssetType /\ y.supplied = less.supplied /\ y.borrowed = pool
      /\ y.reserved = less.reserved /\ y.beneficiary_fees = less.beneficiary_fees
  BY <1>1, <1>3, <1>4 DEF AssetType
<1> HIDE DEF y
<1>6. - amount \in Int
  OBVIOUS
<1>7. SetAsset(t, y, checked)
  BY DEF y
<1> QED BY <1>1, <1>2, <1>3, <1>5, <1>6, <1>7, SavedAsset

\* Repay: an account pays its debt from its supply.
LEMMA RepayStep ==
  ASSUME Safe, NEW a \in Accounts, NEW t \in Tokens, NEW req \in Requests, Repay(a, t, req)
  PROVE  StepOK /\ NoGain(a)
<1> DEFINE move == RepayMove(a, a, t, req)
<1>1. Inv /\ TypeOK /\ PaymentsFit /\ Inv' /\ TypeOK'
  BY RepayInv DEF Safe, Inv
<1>2. /\ move.burnt \in Nat /\ move.burnt <= supplied[a][t]
      /\ move.repaid \in Nat /\ move.amount \in Nat
      /\ Covered(asset[t].supplied, move.burnt, move.amount)
      /\ Covering(asset[t].borrowed, move.repaid, move.amount)
  BY RepayMoveCovers
<1>3. /\ move.repaid <= borrowed[a][t]
      /\ CanWithdraw(asset[t].supplied, move.burnt, move.amount)
      /\ CanWithdraw(asset[t].borrowed, move.repaid, move.amount)
      /\ SetAsset(t, Repaid(asset[t], move), Checked(a))
      /\ supplied' = Sub(supplied, a, t, move.burnt)
      /\ borrowed' = Sub(borrowed, a, t, move.repaid)
      /\ UNCHANGED <<collateral, transfer, price, cash, wallet>>
  BY DEF Repay, CanRepay
<1> HIDE DEF move
<1>4. PICK amount \in Nat : amount = move.amount
  BY <1>2
<1>5. AssetMoves(asset[t], asset'[t], - amount, - amount, 0, 0) /\ OtherAssets(t)
  BY <1>2, <1>3, <1>4, RepaidMoves
<1>6. Cash(t, 0, 0) /\ Purse(a, t, 0, 0) /\ PaymentsFit'
  BY <1>1, <1>3, NoTokensMove
<1>7. /\ borrowed'[a][t] = borrowed[a][t] - move.repaid
      /\ OtherEntries(borrowed, borrowed', a, t)
  <2>1. borrowed \in [Accounts -> [Tokens -> Nat]] /\ move.repaid \in Nat
        /\ move.repaid <= borrowed[a][t]
    BY <1>1, <1>2, <1>3 DEF TypeOK
  <2> QED BY <1>3, <2>1, SubType
<1>8. Elsewhere(a, t)
  BY <1>1, <1>2, <1>3, <1>5, <1>7, SubType, SameEntries DEF Elsewhere, TypeOK
<1>9. SafeFor(a)
  <2>1. collateral[a][t] \in Nat /\ borrowed[a][t] \in Nat
    BY <1>1 DEF TypeOK
  <2>2. collateral[a][t] <= collateral'[a][t] /\ borrowed'[a][t] <= borrowed[a][t]
    BY <1>2, <1>3, <1>7, <2>1
  <2> QED BY <1>1, <1>8, <2>2, PositionBetter
<1>10. - amount \in Int
  BY <1>4
<1>11. /\ 0 + (- amount) - (- amount) - 0 - 0 - 0 = 0 /\ 0 < Scale
       /\ 0 + 0 + (- amount) - (- amount) = 0
       /\ NoBeneficiary => AvailableAmount(asset[t]) + (- amount) + 0 - (- amount) >= 0
  BY <1>4, SafeAsset, ScaleAssumption
<1>12. Transaction(a, t, - amount, - amount, 0, 0, 0, 0, 0)
  BY <1>5, <1>6, <1>8, <1>11 DEF Transaction
<1>13. 0 \in Int
  OBVIOUS
<1> QED BY <1>1, <1>3, <1>6, <1>9, <1>10, <1>12, <1>13, TransactionStep

\* Shares are burnt for tokens that are paid out, in whole or up to dust.
LEMMA BurnMoves ==
  ASSUME Safe, NEW t \in Tokens, NEW shares \in Nat, NEW amount \in Nat, NEW checked,
         CanWithdraw(asset[t].supplied, shares, amount),
         Covered(asset[t].supplied, shares, amount),
         SetAsset(t, Unsupplied(asset[t], shares, amount), checked)
  PROVE  AssetMoves(asset[t], asset'[t], - amount, 0, 0, 0) /\ OtherAssets(t)
<1> DEFINE y == Unsupplied(asset[t], shares, amount)
<1>1. PICK x \in AssetType : x = asset[t]
  BY SafeAsset
<1>2. LET z == Unsupplied(x, shares, amount)
      IN  /\ z \in AssetType /\ z.supplied = PoolWithdraw(x.supplied, shares, amount)
          /\ z.borrowed = x.borrowed /\ z.reserved = x.reserved + 0
          /\ z.beneficiary_fees = x.beneficiary_fees + 0
  BY <1>1, SupplyFields
<1>3. /\ y \in AssetType /\ y.supplied = PoolWithdraw(asset[t].supplied, shares, amount)
      /\ y.borrowed = asset[t].borrowed /\ y.reserved = asset[t].reserved + 0
      /\ y.beneficiary_fees = asset[t].beneficiary_fees + 0
  BY <1>1, <1>2
<1>4. SetAsset(t, y, checked)
  OBVIOUS
<1> HIDE DEF y
<1>5. SupplyMoves(asset[t].supplied, y.supplied, - amount) /\ DebtMoves(asset[t].borrowed, y.borrowed, 0)
  BY <1>3, SafeAsset, SupplyMove, PoolRests
<1>6. PICK m \in Int : m = - amount
  OBVIOUS
<1>7. AssetMoves(asset[t], asset'[t], m, 0, 0, 0) /\ OtherAssets(t)
  BY <1>3, <1>4, <1>5, <1>6, SavedAsset, SMTT(30)
<1> QED BY <1>6, <1>7

\* A withdrawal that starts a payment.
LEMMA PaidOut ==
  ASSUME Safe, Inv', NEW a \in Accounts, NEW recipient \in Accounts, NEW t \in Tokens,
         NEW shares \in Nat, NEW amount \in Nat, NEW checked,
         NEW kind \in {"after_ft_transfer", "after_ft_transfer_call"},
         CanWithdraw(asset[t].supplied, shares, amount),
         Covered(asset[t].supplied, shares, amount),
         AvailableAmount(asset[t]) >= amount, amount \div Scale > 0,
         SetAsset(t, Unsupplied(asset[t], shares, amount), checked),
         Start(kind, a, recipient, t, amount), UNCHANGED <<price, cash, wallet>>,
         OtherEntries(supplied, supplied', a, t), OtherEntries(collateral, collateral', a, t),
         UNCHANGED borrowed, AllSound' /\ PricesFavour => SafeFor(a)
  PROVE  StepOK /\ NoGain(a)
<1>1. TypeOK /\ TypeOK' /\ PaymentsFit /\ AvailableAmount(asset[t]) \in Int
  BY SafeAsset DEF Inv
<1>2. AssetMoves(asset[t], asset'[t], - amount, 0, 0, 0) /\ OtherAssets(t)
  BY BurnMoves
<1>3. PaymentsFit' /\ Cash(t, 0, amount) /\ Purse(a, t, 0, amount)
  BY <1>1, StartEffect
<1>4. Elsewhere(a, t)
  BY <1>2, SameEntries DEF Elsewhere
<1>5. PICK m \in Int : m = - amount
  OBVIOUS
<1>6. AssetMoves(asset[t], asset'[t], m, 0, 0, 0)
  BY <1>2, <1>5
<1>7. /\ 0 + 0 - m - 0 - 0 - amount >= 0
      /\ 0 + 0 - m - 0 - 0 - amount < Scale
      /\ 0 + amount + m - 0 <= 0
      /\ NoBeneficiary => AvailableAmount(asset[t]) + m + 0 - 0 >= 0
  BY <1>1, <1>5, ScaleAssumption
<1>8. SafeFor(a)
  <2>1. Books(t, m, 0, 0, 0)
    BY <1>2, <1>6 DEF Books
  <2>2. AllSound' /\ PricesFavour
    BY <1>3, <1>7, <2>1, Tally
  <2> QED BY <2>2
<1> QED BY <1>3, <1>4, <1>6, <1>7, <1>8, UserStep

\* Withdraw: of the supply.
LEMMA WithdrawStep ==
  ASSUME Safe, NEW a \in Accounts, NEW t \in Tokens, NEW req \in Requests,
         NEW kind \in {"after_ft_transfer", "after_ft_transfer_call"},
         Withdraw(a, t, req, kind)
  PROVE  StepOK /\ NoGain(a)
<1> DEFINE move   == AssetAmountToShares(asset[t].supplied, supplied[a][t], req, FALSE)
           shares == move.shares
           amount == move.amount
<1>1. Inv /\ TypeOK /\ Inv' /\ TypeOK'
  BY WithdrawInv DEF Safe, Inv
<1>2. /\ CanBurn(t, supplied[a][t], move)
      /\ SetAsset(t, Unsupplied(asset[t], shares, amount), Checked(a))
      /\ supplied' = Sub(supplied, a, t, shares)
      /\ Start(kind, a, a, t, amount)
      /\ UNCHANGED <<collateral, borrowed, price, cash, wallet>>
  BY DEF Withdraw
<1>3. /\ amount <= AvailableAmount(asset[t]) /\ amount \div Scale > 0
      /\ shares <= supplied[a][t]
      /\ CanWithdraw(asset[t].supplied, shares, amount)
  BY <1>2 DEF CanBurn
<1>4. supplied[a][t] \in Nat /\ supplied[a][t] <= asset[t].supplied.shares
  BY <1>1, PartsBound
<1>5. shares \in Nat /\ amount \in Nat /\ Covered(asset[t].supplied, shares, amount)
  BY <1>4, HeldOut
<1> HIDE DEF move, shares, amount
<1>6. AvailableAmount(asset[t]) >= amount
  BY <1>3, <1>5, SafeAsset
<1>7. OtherEntries(supplied, supplied', a, t) /\ OtherEntries(collateral, collateral', a, t)
  BY <1>1, <1>2, <1>3, <1>5, SubType, SameEntries DEF TypeOK
<1>8. SafeFor(a)
  BY <1>1, <1>2, PositionSame
<1> QED BY <1>1, <1>2, <1>3, <1>5, <1>6, <1>7, <1>8, PaidOut

\* client_echo_withdraw_by_shares: shares that are worth less than a unit of
\* the token are burnt and nothing is paid.
LEMMA WithdrawBySharesStep ==
  ASSUME Safe, NEW a \in Accounts, NEW t \in Tokens, NEW shares \in Amounts,
         WithdrawByShares(a, t, shares)
  PROVE  StepOK /\ NoGain(a)
<1> DEFINE amount == SharesToAmount(asset[t].supplied, shares, FALSE)
<1>1. Inv /\ TypeOK /\ PaymentsFit /\ Inv' /\ TypeOK'
  BY WithdrawBySharesInv DEF Safe, Inv
<1>2. /\ shares <= supplied[a][t]
      /\ amount <= AvailableAmount(asset[t])
      /\ CanWithdraw(asset[t].supplied, shares, amount)
      /\ SetAsset(t, Unsupplied(asset[t], shares, amount), TRUE)
      /\ supplied' = Sub(supplied, a, t, shares)
      /\ IF amount \div Scale > 0
         THEN Start("after_ft_transfer_call", a, a, t, amount)
         ELSE UNCHANGED transfer
      /\ UNCHANGED <<collateral, borrowed, price, cash, wallet>>
  BY DEF WithdrawByShares
<1>3. /\ shares \in Nat /\ shares <= asset[t].supplied.shares
  <2>1. /\ supplied[a][t] \in Nat /\ supplied[a][t] <= asset[t].supplied.shares
        /\ asset[t].supplied.shares \in Nat /\ shares \in Nat
    BY <1>1, PartsBound, AmountAssumption DEF PoolType
  <2> QED BY <1>2, <2>1
<1>4. amount \in Nat /\ Covered(asset[t].supplied, shares, amount)
  BY <1>3, SafeAsset, AmountRounding
<1> HIDE DEF amount
<1>5. AvailableAmount(asset[t]) >= amount /\ AvailableAmount(asset[t]) \in Int
  BY <1>2, <1>4, SafeAsset
<1>6. OtherEntries(supplied, supplied', a, t) /\ OtherEntries(collateral, collateral', a, t)
  BY <1>1, <1>2, <1>3, SubType, SameEntries DEF TypeOK
<1>7. SafeFor(a)
  BY <1>1, <1>2, PositionSame
<1>8. CASE amount \div Scale > 0
  <2>1. Start("after_ft_transfer_call", a, a, t, amount)
    BY <1>2, <1>8
  <2> QED BY <1>1, <1>2, <1>3, <1>4, <1>5, <1>6, <1>7, <1>8, <2>1, PaidOut
<1>9. CASE ~ (amount \div Scale > 0)
  <2>1. UNCHANGED transfer
    BY <1>2, <1>9
  <2>2. amount < Scale
    <3>1. /\ amount \div Scale \in Nat /\ amount < (amount \div Scale) * Scale + Scale
      BY <1>4, ScaleAssumption, Quotient
    <3>2. amount \div Scale = 0
      BY <1>9, <3>1
    <3> QED BY <1>4, <3>1, <3>2, ScaleAssumption
  <2>3. AssetMoves(asset[t], asset'[t], - amount, 0, 0, 0) /\ OtherAssets(t)
    BY <1>2, <1>3, <1>4, BurnMoves
  <2>4. Cash(t, 0, 0) /\ Purse(a, t, 0, 0) /\ PaymentsFit'
    BY <1>1, <1>2, <2>1, NoTokensMove
  <2>5. Elsewhere(a, t)
    BY <1>2, <1>6, <2>3, SameEntries DEF Elsewhere
  <2>6. PICK m \in Int : m = - amount
    BY <1>4
  <2>7. /\ 0 + 0 - m - 0 - 0 - 0 >= 0
        /\ 0 + 0 - m - 0 - 0 - 0 < Scale
        /\ 0 + 0 + m - 0 <= 0
        /\ NoBeneficiary => AvailableAmount(asset[t]) + m + 0 - 0 >= 0
    BY <1>4, <1>5, <2>2, <2>6, ScaleAssumption
  <2> QED BY <1>1, <1>2, <1>7, <2>3, <2>4, <2>5, <2>6, <2>7, UserStep
<1> QED BY <1>8, <1>9

\* The shares of an exact amount are rounded up.
LEMMA ExactOut ==
  ASSUME Safe, NEW t \in Tokens, NEW n \in Nat, NEW held \in Nat
  PROVE  LET move == AssetAmountToShares(asset[t].supplied, held, Exactly(n), FALSE)
         IN  /\ move.shares \in Nat /\ move.amount = n
             /\ Covered(asset[t].supplied, move.shares, n)
<1> DEFINE wanted == AmountToShares(asset[t].supplied, n, TRUE)
<1>1. wanted \in Nat /\ Covered(asset[t].supplied, wanted, n)
  BY SafeAsset, SharesRounding
<1>2. Exactly(n).kind = "amount" /\ Exactly(n).value = n
  BY DEF Exactly
<1>3. /\ AssetAmountToShares(asset[t].supplied, held, Exactly(n), FALSE).shares = wanted
      /\ AssetAmountToShares(asset[t].supplied, held, Exactly(n), FALSE).amount = n
  BY <1>2 DEF AssetAmountToShares
<1> HIDE DEF wanted
<1> QED BY <1>1, <1>3

\* simple_withdraw from the supply alone.
LEMMA SimpleWithdrawStep ==
  ASSUME Safe, NEW a \in Accounts, NEW t \in Tokens, NEW total \in SimpleAmounts,
         NEW recipient \in Accounts, SimpleWithdraw(a, t, total, recipient)
  PROVE  StepOK /\ NoGain(a)
<1> DEFINE move   == AssetAmountToShares(asset[t].supplied, supplied[a][t], Exactly(total), FALSE)
           shares == move.shares
<1>1. Inv /\ TypeOK /\ Inv' /\ TypeOK' /\ total \in Nat
  BY SimpleWithdrawInv, AmountAssumption DEF Safe, Inv
<1>2. /\ CanBurn(t, supplied[a][t], move)
      /\ SetAsset(t, Unsupplied(asset[t], shares, total), TRUE)
      /\ supplied' = Sub(supplied, a, t, shares)
      /\ Start("after_ft_transfer", a, recipient, t, total)
      /\ UNCHANGED <<collateral, borrowed, price, cash, wallet>>
  BY DEF SimpleWithdraw
<1>3. supplied[a][t] \in Nat
  BY <1>1, PartsBound
<1>4. shares \in Nat /\ move.amount = total /\ Covered(asset[t].supplied, shares, total)
  BY <1>1, <1>3, ExactOut
<1>5. /\ move.amount <= AvailableAmount(asset[t]) /\ move.amount \div Scale > 0
      /\ shares <= supplied[a][t]
      /\ CanWithdraw(asset[t].supplied, shares, move.amount)
  BY <1>2 DEF CanBurn
<1> HIDE DEF move, shares
<1>6. AvailableAmount(asset[t]) >= total
  BY <1>1, <1>4, <1>5, SafeAsset
<1>7. OtherEntries(supplied, supplied', a, t) /\ OtherEntries(collateral, collateral', a, t)
  BY <1>1, <1>2, <1>4, <1>5, SubType, SameEntries DEF TypeOK
<1>8. SafeFor(a)
  BY <1>1, <1>2, PositionSame
<1> QED BY <1>1, <1>2, <1>4, <1>5, <1>6, <1>7, <1>8, PaidOut

\* simple_withdraw with a gap: the position is healthy after it has given up
\* the collateral, in the pools of before, and the pools of after are no worse.
LEMMA WithdrawWithGapStep ==
  ASSUME Safe, Inv', NEW a \in Accounts, NEW t \in Tokens, NEW total \in Nat, NEW gap \in Nat,
         NEW recipient \in Accounts, WithdrawWithGap(a, t, total, gap, recipient)
  PROVE  StepOK /\ NoGain(a)
<1> DEFINE freed  == AssetAmountToShares(asset[t].supplied, collateral[a][t], Exactly(gap), FALSE)
           move   == AssetAmountToShares(asset[t].supplied, 0, Exactly(total), FALSE)
           back   == freed.shares
           shares == move.shares
<1>1. Inv /\ TypeOK /\ TypeOK'
  BY DEF Safe, Inv
<1>2. /\ Unpledge(a, t, back)
      /\ LeavesHealthy(a)
      /\ CanBurn(t, supplied[a][t] + back, move)
      /\ SetAsset(t, Unsupplied(asset[t], shares, total), TRUE)
      /\ supplied' = [supplied EXCEPT ![a][t] = @ + back - shares]
      /\ Start("after_ft_transfer", a, recipient, t, total)
      /\ UNCHANGED <<borrowed, price, cash, wallet>>
  BY DEF WithdrawWithGap
<1>3. collateral[a][t] \in Nat /\ 0 \in Nat
  BY <1>1, PartsBound
<1>4. back \in Nat
  BY <1>3, ExactOut
<1>5. shares \in Nat /\ move.amount = total /\ Covered(asset[t].supplied, shares, total)
  BY <1>3, ExactOut
<1>6. /\ move.amount <= AvailableAmount(asset[t]) /\ move.amount \div Scale > 0
      /\ CanWithdraw(asset[t].supplied, shares, move.amount)
  BY <1>2 DEF CanBurn
<1> HIDE DEF freed, move, back, shares
<1>7. AvailableAmount(asset[t]) >= total
  BY <1>5, <1>6, SafeAsset
<1>8. OtherEntries(supplied, supplied', a, t)
  <2>1. supplied \in [Accounts -> [Tokens -> Nat]]
    BY <1>1 DEF TypeOK
  <2> QED BY <1>2, <2>1 DEF OtherEntries
<1>9. OtherEntries(collateral, collateral', a, t)
  BY <1>1, <1>2, <1>4, UnpledgeType
<1>10. ASSUME AllSound', PricesFavour PROVE SafeFor(a)
  <2>1. ~ AtRisk(asset, collateral'[a], borrowed[a], price)
    BY <1>2 DEF LeavesHealthy
  <2>2. /\ asset \in [Tokens -> AssetType] /\ asset' \in [Tokens -> AssetType]
        /\ collateral'[a] \in [Tokens -> Nat] /\ borrowed[a] \in [Tokens -> Nat]
        /\ borrowed'[a] = borrowed[a] /\ price \in [Tokens -> Nat]
    BY <1>1, <1>2 DEF TypeOK
  <2>3. /\ \A u \in Tokens : SoundAsset(asset[u])
        /\ \A u \in Tokens : SoundAsset(asset'[u])
        /\ \A u \in Tokens : /\ PriceNotLower(asset[u].supplied, asset'[u].supplied)
                             /\ PriceNotLower(asset'[u].borrowed, asset[u].borrowed)
    BY <1>10 DEF Safe, AllSound, SoundAsset, PricesFavour
  <2>4. ASSUME NEW u \in Tokens
        PROVE  /\ collateral'[a][u] <= collateral'[a][u] /\ borrowed[a][u] <= borrowed[a][u]
               /\ collateral'[a][u] <= asset[u].supplied.shares
               /\ collateral'[a][u] <= asset'[u].supplied.shares
               /\ borrowed[a][u] <= asset[u].borrowed.shares
               /\ borrowed[a][u] <= asset'[u].borrowed.shares
    <3>1. /\ collateral[a][u] \in Nat /\ collateral'[a][u] \in Nat /\ borrowed[a][u] \in Nat
          /\ asset[u].supplied.shares \in Nat
      BY <1>1, <2>2, EntryType
    <3>2. /\ collateral[a][u] <= asset[u].supplied.shares
          /\ borrowed[a][u] <= asset[u].borrowed.shares
      BY <1>1, PositionBound
    <3>3. /\ collateral'[a][u] <= asset'[u].supplied.shares
          /\ borrowed[a][u] <= asset'[u].borrowed.shares
      BY <2>2, NextPositionBound
    <3>4. collateral'[a][u] <= collateral[a][u]
      <4>1. CASE u = t
        BY <1>1, <1>2, <1>4, <3>1, <4>1, UnpledgeType
      <4>2. CASE u # t
        BY <1>9, <3>1, <4>2 DEF OtherEntries
      <4> QED BY <4>1, <4>2
    <3> QED BY <3>1, <3>2, <3>3, <3>4
  <2>5. ~ AtRisk(asset', collateral'[a], borrowed[a], price)
    BY <2>1, <2>2, <2>3, <2>4, RiskFalls
  <2> QED BY <2>2, <2>5 DEF SafeFor
<1> QED BY <1>2, <1>5, <1>6, <1>7, <1>8, <1>9, <1>10, PaidOut

\* simple_withdraw with a gap, at once and when the oracle has answered.
LEMMA SimpleWithdrawNowStep ==
  ASSUME Safe, NEW a \in Accounts, NEW t \in Tokens, NEW total \in SimpleAmounts,
         NEW recipient \in Accounts, SimpleWithdrawNow(a, t, total, recipient)
  PROVE  StepOK /\ NoGain(a)
<1> DEFINE gap == Gap(a, t, total)
<1>1. Inv /\ Inv' /\ total \in Nat
  BY SimpleWithdrawNowInv, AmountAssumption DEF Safe
<1>2. gap \in Nat
  BY <1>1, GapType
<1>3. WithdrawWithGap(a, t, total, gap, recipient)
  BY DEF SimpleWithdrawNow
<1> HIDE DEF gap
<1> QED BY <1>1, <1>2, <1>3, WithdrawWithGapStep

\* The call of the oracle that resumes the withdrawal, for the request it stored.
LEMMA SimpleWithdrawResumeStep ==
  ASSUME Safe, NEW a \in Accounts, SimpleWithdrawResume(a)
  PROVE  StepOK /\ NoGain(a)
<1>1. Inv /\ Inv'
  BY SimpleWithdrawResumeInv DEF Safe
<1>2. request[a] \in RequestType
  BY <1>1 DEF Inv, TypeOK, SimpleWithdrawResume
<1>3. PICK r \in RequestType : r = request[a]
  BY <1>2
<1>4. WithdrawWithGap(a, r.token, r.total, r.gap, r.recipient)
  BY <1>3 DEF SimpleWithdrawResume
<1>5. r.token \in Tokens /\ r.total \in Nat /\ r.gap \in Nat /\ r.recipient \in Accounts
  BY DEF RequestType
<1> QED BY <1>1, <1>4, <1>5, WithdrawWithGapStep

\* A step that moves nothing leaves all as it is.
LEMMA NothingMoves ==
  ASSUME Safe, Inv',
         UNCHANGED <<asset, supplied, collateral, borrowed, transfer, price, cash, wallet>>
  PROVE  StepOK /\ \A a \in Accounts : NoGain(a)
<1>1. TypeOK /\ PaymentsFit /\ Inv /\ AllSound
  BY DEF Safe, Inv
<1>2. \A t \in Tokens : InFlight(t)' = InFlight(t)
  BY DEF InFlight
<1>3. \A t \in Tokens : Unclaimed(t)' = Unclaimed(t) /\ Unclaimed(t) \in Int
  BY <1>1, <1>2, TallyType DEF Unclaimed
<1>4. \A t \in Tokens : PriceNotLower(asset[t].supplied, asset'[t].supplied)
  BY SafeAsset, PriceReflexive
<1>5. Safe'
  <2>1. AllSound' /\ PricesPositive' /\ DebtIsBacked' /\ AllAvailable' = AllAvailable
    BY DEF Safe, AllSound, SoundAsset, PricesPositive, DebtIsBacked, AllAvailable, AvailableAmount
  <2>2. PaymentsFit'
    BY <1>1 DEF PaymentsFit, PaymentFits
  <2>3. CashCoversClaims'
    BY <1>3 DEF Safe, CashCoversClaims
  <2> QED BY <2>1, <2>2, <2>3 DEF Safe, NoBeneficiary
<1>6. PricesKept
  BY <1>4 DEF PricesKept
<1>7. DustOnly
  BY <1>3, ScaleAssumption DEF DustOnly
<1>8. NobodyHurt
  BY DEF NobodyHurt, Healthy
<1>9. ASSUME NEW a \in Accounts PROVE NoGain(a)
  <2> SUFFICES ASSUME NEW t \in Tokens PROVE Worth(a, t)' <= Worth(a, t)
    BY DEF NoGain
  <2> DEFINE s == SharesToAmount(asset[t].supplied, Held(a, t), FALSE)
             b == SharesToAmount(asset[t].borrowed, borrowed[a][t], TRUE)
             w == wallet[a][t]
             p == Payments(a, t)
  <2>1. Worth(a, t)' = Worth(a, t)
    BY DEF Worth, Payments
  <2>2. /\ Held(a, t) \in Nat /\ Held(a, t) <= asset[t].supplied.shares
        /\ borrowed[a][t] \in Nat /\ borrowed[a][t] <= asset[t].borrowed.shares
    BY <1>1, SharesBound, PartsBound
  <2>3. s \in Nat /\ b \in Nat
    BY <2>2, SafeAsset, ExactAmount
  <2>4. w \in Nat /\ p \in Nat
    BY <1>1, PaymentTypes DEF TypeOK
  <2>5. Worth(a, t) = w + p + s - b
    BY DEF Worth, Held
  <2> HIDE DEF s, b, w, p
  <2> QED BY <2>1, <2>3, <2>4, <2>5
<1> QED BY <1>5, <1>6, <1>7, <1>8, <1>9 DEF StepOK

\* simple_withdraw that asks the oracle, and a request that is dropped.
LEMMA SimpleWithdrawAskStep ==
  ASSUME Safe, NEW a \in Accounts, NEW t \in Tokens, NEW total \in SimpleAmounts,
         NEW recipient \in Accounts, SimpleWithdrawAsk(a, t, total, recipient)
  PROVE  StepOK /\ NoGain(a)
<1>1. Inv'
  BY SimpleWithdrawAskInv DEF Safe
<1>2. UNCHANGED <<asset, supplied, collateral, borrowed, transfer, price, cash, wallet>>
  BY DEF SimpleWithdrawAsk
<1> QED BY <1>1, <1>2, NothingMoves

\* The callback that finds no request changes no balance.
LEMMA SimpleWithdrawAbortStep ==
  ASSUME Safe, NEW a \in Accounts, SimpleWithdrawAbort(a)
  PROVE  StepOK
<1>1. Inv'
  BY SimpleWithdrawAbortInv DEF Safe
<1>2. UNCHANGED <<asset, supplied, collateral, borrowed, transfer, price, cash, wallet>>
  BY DEF SimpleWithdrawAbort
<1> QED BY <1>1, <1>2, NothingMoves

\* storage_deposit and storage_unregister.
LEMMA RegistryStep ==
  ASSUME Safe, NEW a \in Accounts, Register(a) \/ Unregister(a)
  PROVE  StepOK
<1>1. Inv'
  BY RegistryInv DEF Safe
<1>2. UNCHANGED <<asset, supplied, collateral, borrowed, transfer, price, cash, wallet>>
  BY DEF Register, Unregister
<1> QED BY <1>1, <1>2, NothingMoves

-----------------------------------------------------------------------------
(***************************************************************************)
(* The answers of the token contract.                                      *)
(***************************************************************************)
\* What a refund leaves of a payment: the part the recipient kept and the part
\* that comes back add up to the payment, but for less than one unit.
LEMMA RefundDust ==
  ASSUME NEW amount \in Nat, NEW ft \in Nat, ft = amount \div Scale, ft > 0,
         NEW used \in Nat, used <= ft,
         NEW back \in Nat, back = (amount * (ft - used)) \div ft
  PROVE  /\ used * Scale \in Nat
         /\ amount - used * Scale - back >= 0
         /\ amount - used * Scale - back < Scale
<1> DEFINE left == ft - used
           kept == used * Scale
           whole == ft * Scale
           part == amount * left
<1>0. Scale \in Nat \ {0} /\ ft \in Nat \ {0}
  BY ScaleAssumption
<1>1. left \in Nat /\ ft = used + left
  OBVIOUS
<1>2. whole <= amount /\ amount < whole + Scale /\ whole \in Nat
  BY <1>0, Quotient, ProductType
<1>3. kept \in Nat /\ part \in Nat
  BY <1>0, <1>1, ProductType
<1>4. back * ft <= part /\ part < back * ft + ft /\ back * ft \in Nat
  BY <1>0, <1>3, Quotient, ProductType
<1>5. left * Scale \in Nat /\ whole = kept + left * Scale
  <2> HIDE DEF left
  <2>1. left * Scale \in Nat
    BY <1>0, <1>1, ProductType
  <2>2. (used + left) * Scale = used * Scale + left * Scale
    BY <1>0, <1>1
  <2> QED BY <1>1, <2>1, <2>2
<1> DEFINE e == amount - whole
<1>6. e \in Nat /\ e < Scale /\ amount = kept + left * Scale + e
  <2> DEFINE units == left * Scale
  <2>1. units \in Nat /\ whole = kept + units
    BY <1>5
  <2> HIDE DEF units, kept, whole
  <2>2. e \in Nat /\ e < Scale /\ amount = kept + units + e
    BY <1>0, <1>2, <1>3, <2>1
  <2> QED BY <2>2 DEF units
<1> HIDE DEF left, kept, whole, e
\* no more comes back than was not kept
<1>7. back <= left * Scale + e
  <2> DEFINE rest == left * Scale + e
  <2>1. rest \in Nat /\ amount = kept + rest
    BY <1>3, <1>5, <1>6
  <2>2. part = kept * left + rest * left
    BY <1>1, <1>3, <2>1
  <2>3. kept * left <= rest * used
    <3>1. kept * left = (left * Scale) * used
      BY <1>0, <1>1 DEF kept
    <3>2. (left * Scale) * used <= rest * used
      BY <1>5, <1>6, <2>1, ProductMonotone
    <3> QED BY <3>1, <3>2
  <2>4. rest * ft = rest * used + rest * left
    BY <1>1, <2>1
  <2>5. rest * used \in Nat /\ rest * left \in Nat /\ kept * left \in Nat /\ rest * ft \in Nat
    BY <1>1, <1>3, <2>1, ProductType
  <2> HIDE DEF rest, part
  <2>6. back * ft <= rest * ft
    BY <1>3, <1>4, <2>2, <2>3, <2>4, <2>5
  <2>7. back <= rest
    BY <1>0, <2>1, <2>6, ProductCancel
  <2> QED BY <2>7 DEF rest
\* and no less than what was not kept of the units that were sent
<1>8. left * Scale <= back
  <2> DEFINE units == left * Scale
  <2>1. units * ft <= part
    <3>1. units * ft = whole * left
      BY <1>0, <1>1 DEF whole
    <3>2. whole * left <= amount * left
      BY <1>1, <1>2, ProductMonotone
    <3> QED BY <3>1, <3>2
  <2>2. units \in Nat /\ units * ft \in Nat
    BY <1>5, ProductType
  <2> HIDE DEF units, part
  <2>3. units * ft < back * ft + ft
    BY <1>3, <1>4, <2>1, <2>2
  <2>4. units <= back
    BY <1>0, <2>2, <2>3, ProductBelow
  <2> QED BY <2>4 DEF units
<1>9. amount - kept - back >= 0 /\ amount - kept - back < Scale
  BY <1>0, <1>3, <1>5, <1>6, <1>7, <1>8
<1> QED BY <1>3, <1>9 DEF kept

\* The answer of the token contract: what it leaves of the position and of the
\* tables.
LEMMA AnsweredRest ==
  ASSUME Safe, NEW s \in Slots, NEW used, Answered(s, used)
  PROVE  /\ UNCHANGED <<registered, collateral, borrowed, price>>
         /\ transfer[s] \in TransferType /\ PaymentFits(transfer[s])
<1>1. TypeOK /\ PaymentsFit
  BY DEF Safe, Inv
<1>2. transfer[s] # NoTransfer /\ UNCHANGED <<registered, collateral, borrowed, price>>
  BY DEF Answered
<1>3. transfer[s] \in TransferType
  BY <1>1, <1>2 DEF TypeOK
<1> QED BY <1>1, <1>2, <1>3 DEF PaymentsFit

\* after_ft_transfer, when the recipient has all of it.
LEMMA TransferSucceedsStep ==
  ASSUME Safe, NEW s \in Slots, TransferSucceeds(s),
         NEW a \in Accounts, a = transfer[s].account
  PROVE  StepOK /\ NoGain(a)
<1>1. Inv /\ TypeOK /\ PaymentsFit /\ Inv' /\ TypeOK'
  BY TransferSucceedsInv DEF Safe, Inv
<1>2. Answered(s, transfer[s].ft_amount) /\ UNCHANGED <<asset, supplied>>
  BY DEF TransferSucceeds
<1>3. /\ UNCHANGED <<registered, collateral, borrowed, price>>
      /\ transfer[s] \in TransferType /\ PaymentFits(transfer[s])
  BY <1>2, AnsweredRest
<1>4. /\ transfer[s].token \in Tokens /\ transfer[s].amount \in Nat
      /\ transfer[s].ft_amount \in Nat
  BY <1>3 DEF TransferType
<1>5. PICK t \in Tokens : t = transfer[s].token
  BY <1>4
<1>6. PICK amount \in Nat : amount = transfer[s].amount
  BY <1>4
<1>7. PICK ft \in Nat : ft = transfer[s].ft_amount
  BY <1>4
<1>8. ft = amount \div Scale
  BY <1>3, <1>6, <1>7 DEF PaymentFits
<1>9. ft * Scale \in Nat /\ ft * Scale <= amount /\ amount < ft * Scale + Scale
  BY <1>8, ScaleAssumption, Quotient, ProductType
<1>10. PICK n \in Nat : n = ft * Scale
  BY <1>9
<1>11. transfer[s].ft_amount \in 0 .. transfer[s].ft_amount
  BY <1>4
<1>12. PaymentsFit' /\ Cash(t, - n, - amount) /\ Purse(a, t, n, - amount)
  BY <1>1, <1>2, <1>5, <1>6, <1>7, <1>10, <1>11, AnswerEffect
<1>13. AssetMoves(asset[t], asset'[t], 0, 0, 0, 0) /\ OtherAssets(t)
  BY <1>2, SafeAsset, AssetRests DEF OtherAssets
<1>14. Elsewhere(a, t)
  BY <1>2, <1>3, <1>13, SameEntries DEF Elsewhere
<1>15. SafeFor(a)
  BY <1>1, <1>3, PositionSame
<1>16. PICK c \in Int : c = - n
  OBVIOUS
<1>17. PICK p \in Int : p = - amount
  OBVIOUS
<1>18. /\ c + 0 - 0 - 0 - 0 - p >= 0
       /\ c + 0 - 0 - 0 - 0 - p < Scale
       /\ n + p + 0 - 0 <= 0
       /\ NoBeneficiary => AvailableAmount(asset[t]) + 0 + 0 - 0 >= 0
  BY <1>9, <1>10, <1>16, <1>17, SafeAsset, ScaleAssumption
<1>19. Cash(t, c, p) /\ Purse(a, t, n, p) /\ n \in Int
  BY <1>12, <1>16, <1>17
<1> QED BY <1>1, <1>3, <1>12, <1>13, <1>14, <1>15, <1>18, <1>19, UserStep

\* A refund is a deposit at the rate of now, and a sound pool takes it: the
\* callback does not abort while the account is registered.
LEMMA RefundedSaves ==
  ASSUME Safe, NEW t \in Tokens, NEW amount \in Nat
  PROVE  LET shares == AmountToShares(asset[t].supplied, amount, FALSE)
             y      == Supplied(asset[t], shares, amount)
         IN  /\ shares \in Nat /\ y \in AssetType
             /\ y.supplied = PoolDeposit(asset[t].supplied, shares, amount)
             /\ y.borrowed = asset[t].borrowed /\ y.reserved = asset[t].reserved + 0
             /\ y.beneficiary_fees = asset[t].beneficiary_fees + 0
             /\ SupplyMoves(asset[t].supplied, y.supplied, amount)
             /\ DebtMoves(asset[t].borrowed, y.borrowed, 0)
             /\ CanSave(y, FALSE)
<1> DEFINE shares == AmountToShares(asset[t].supplied, amount, FALSE)
           y      == Supplied(asset[t], shares, amount)
<1>1. shares \in Nat /\ Covering(asset[t].supplied, shares, amount)
  BY SafeAsset, SharesRounding
<1>2. LET after == PoolDeposit(asset[t].supplied, AmountToShares(asset[t].supplied, amount, FALSE),
                               amount)
      IN  after \in PoolType /\ PoolInvariant(after) /\ PriceNotLower(asset[t].supplied, after)
  BY SafeAsset, DepositKeepsPrice
<1>3. PoolInvariant(PoolDeposit(asset[t].supplied, shares, amount))
  BY <1>2
<1> HIDE DEF shares
<1>4. /\ y \in AssetType /\ y.supplied = PoolDeposit(asset[t].supplied, shares, amount)
      /\ y.borrowed = asset[t].borrowed /\ y.reserved = asset[t].reserved + 0
      /\ y.beneficiary_fees = asset[t].beneficiary_fees + 0
  <2>1. asset[t] \in AssetType
    BY SafeAsset
  <2>2. Resupplied(asset[t], y, PoolDeposit(asset[t].supplied, shares, amount))
    BY <1>1, <2>1, SupplyChanges
  <2> QED BY <2>2 DEF Resupplied
<1> HIDE DEF y
<1>5. SupplyMoves(asset[t].supplied, y.supplied, amount) /\ DebtMoves(asset[t].borrowed, y.borrowed, 0)
  BY <1>1, <1>4, SafeAsset, SupplyMove, PoolRests
<1>6. CanSave(y, FALSE)
  <2>1. PoolInvariant(y.borrowed) /\ (y.borrowed.shares > 0 \/ y.borrowed.balance = 0)
    <3>1. SoundPool(asset[t].borrowed) /\ asset[t].borrowed \in PoolType
      BY SafeAsset
    <3>2. asset[t].borrowed.shares \in Nat
      BY <3>1 DEF PoolType
    <3> QED BY <1>4, <3>1, <3>2 DEF SoundPool
  <2>2. PoolInvariant(Normalized(y).supplied)
    <3>1. CASE y.supplied.shares = 0
      <4>1. Normalized(y).supplied = EmptyPool
        BY <1>4, <3>1 DEF Normalized, AssetType
      <4> QED BY <4>1 DEF EmptyPool, PoolInvariant
    <3>2. CASE y.supplied.shares # 0
      <4>1. Normalized(y) = y
        BY <3>2 DEF Normalized
      <4> QED BY <1>3, <1>4, <4>1
    <3> QED BY <3>1, <3>2
  <2> QED BY <2>1, <2>2 DEF CanSave
<1> QED BY <1>1, <1>4, <1>5, <1>6 DEF shares, y

\* What comes back of a payment can be credited.
LEMMA Refundable ==
  ASSUME Safe, NEW tr \in TransferType, PaymentFits(tr), NEW used \in 0 .. tr.ft_amount
  PROVE  /\ Remainder(tr, used) \in Nat
         /\ Remainder(tr, used) = (tr.amount * (tr.ft_amount - used)) \div tr.ft_amount
         /\ CanSave(Refunded(tr, used), FALSE)
<1>1. tr.token \in Tokens /\ tr.amount \in Nat /\ tr.ft_amount \in Nat
  BY DEF TransferType
<1>2. tr.ft_amount \in Nat \ {0} /\ tr.ft_amount - used \in Nat
  BY <1>1 DEF PaymentFits
<1>3. tr.amount * (tr.ft_amount - used) \in Nat
  BY <1>1, <1>2, ProductType
<1>4. Remainder(tr, used) = (tr.amount * (tr.ft_amount - used)) \div tr.ft_amount
  BY DEF Remainder
<1>5. Remainder(tr, used) \in Nat
  BY <1>2, <1>3, <1>4, Quotient
<1>6. PICK t \in Tokens : t = tr.token
  BY <1>1
<1>7. PICK back \in Nat : back = Remainder(tr, used)
  BY <1>5
<1>8. CanSave(Supplied(asset[t], AmountToShares(asset[t].supplied, back, FALSE), back), FALSE)
  BY RefundedSaves
<1>9. CanSave(Refunded(tr, used), FALSE)
  BY <1>6, <1>7, <1>8 DEF Refunded, RefundShares
<1> QED BY <1>4, <1>5, <1>9

\* after_ft_transfer and after_ft_transfer_call, when something comes back and
\* is deposited at the rate of now.
LEMMA RefundStep ==
  ASSUME Safe, NEW s \in Slots, NEW used \in 0 .. transfer[s].ft_amount, Refund(s, used),
         NEW a \in Accounts, a = transfer[s].account
  PROVE  StepOK /\ NoGain(a)
<1>1. Inv /\ TypeOK /\ PaymentsFit /\ Inv' /\ TypeOK'
  BY RefundInv DEF Safe, Inv
<1>2. Answered(s, used) /\ used < transfer[s].ft_amount
  BY DEF Refund, ComesBack
<1>3. /\ UNCHANGED <<registered, collateral, borrowed, price>>
      /\ transfer[s] \in TransferType /\ PaymentFits(transfer[s])
  BY <1>2, AnsweredRest
<1>4. PICK tr \in TransferType : tr = transfer[s]
  BY <1>3
<1>5. /\ tr.token \in Tokens /\ tr.amount \in Nat /\ tr.ft_amount \in Nat
      /\ used \in Nat /\ used <= tr.ft_amount
  BY <1>4 DEF TransferType
<1>6. PICK t \in Tokens : t = tr.token
  BY <1>5
<1>7. PICK amount \in Nat : amount = tr.amount
  BY <1>5
<1>8. PICK ft \in Nat : ft = tr.ft_amount
  BY <1>5
<1>9. PICK back \in Nat : back = Remainder(tr, used)
  BY <1>3, <1>4, Refundable
<1>10. /\ back = (amount * (ft - used)) \div ft
       /\ ft = amount \div Scale /\ ft > 0 /\ used <= ft
  BY <1>3, <1>4, <1>5, <1>7, <1>8, <1>9 DEF PaymentFits, Remainder
<1>11. /\ used * Scale \in Nat
       /\ amount - used * Scale - back >= 0
       /\ amount - used * Scale - back < Scale
  BY <1>5, <1>10, RefundDust
<1>12. PICK n \in Nat : n = used * Scale
  BY <1>11
<1>13. PaymentsFit' /\ Cash(t, - n, - amount) /\ Purse(a, t, n, - amount)
  BY <1>1, <1>2, <1>4, <1>6, <1>7, <1>12, AnswerEffect
<1> DEFINE shares == AmountToShares(asset[t].supplied, back, FALSE)
           y      == Supplied(asset[t], shares, back)
<1>14. /\ shares \in Nat /\ y \in AssetType
       /\ y.borrowed = asset[t].borrowed /\ y.reserved = asset[t].reserved + 0
       /\ y.beneficiary_fees = asset[t].beneficiary_fees + 0
       /\ SupplyMoves(asset[t].supplied, y.supplied, back)
       /\ DebtMoves(asset[t].borrowed, y.borrowed, 0)
       /\ CanSave(y, FALSE)
  BY RefundedSaves
<1>15. asset' = [asset EXCEPT ![t] = Normalized(y)] /\ supplied' = Add(supplied, a, t, shares)
  <2>1. Refunded(tr, used) = y /\ RefundShares(tr, used) = shares
    BY <1>6, <1>9 DEF Refunded, RefundShares
  <2>2. /\ asset' = [asset EXCEPT ![tr.token] = Normalized(Refunded(tr, used))]
        /\ supplied' = Add(supplied, tr.account, tr.token, RefundShares(tr, used))
    BY <1>4 DEF Refund
  <2> HIDE DEF y, shares
  <2> QED BY <1>4, <1>6, <2>1, <2>2
<1> HIDE DEF shares, y
<1>16. SetAsset(t, y, FALSE)
  BY <1>14, <1>15 DEF SetAsset
<1>25. PICK m \in Int : m = back
  BY <1>9
<1>17. AssetMoves(asset[t], asset'[t], m, 0, 0, 0) /\ OtherAssets(t)
  <2>1. /\ y \in AssetType /\ y.reserved = asset[t].reserved + 0
        /\ y.beneficiary_fees = asset[t].beneficiary_fees + 0
        /\ SupplyMoves(asset[t].supplied, y.supplied, m)
        /\ DebtMoves(asset[t].borrowed, y.borrowed, 0)
    BY <1>14, <1>25
  <2>2. PICK checked \in BOOLEAN : SetAsset(t, y, checked)
    BY <1>16
  <2> QED BY <2>1, <2>2, SavedAsset, SMTT(30)
<1>18. Elsewhere(a, t)
  BY <1>1, <1>3, <1>14, <1>15, <1>17, AddType, SameEntries DEF Elsewhere, TypeOK
<1>19. SafeFor(a)
  BY <1>1, <1>3, PositionSame
<1>20. PICK c \in Int : c = - n
  OBVIOUS
<1>21. PICK p \in Int : p = - amount
  OBVIOUS
<1>22. PICK d \in Int : d = amount - n - back /\ d >= 0 /\ d < Scale
  BY <1>11, <1>12
<1>26. PICK w \in Int : w = n
  BY <1>12
<1>23. /\ c + 0 - m - 0 - 0 - p >= 0
       /\ c + 0 - m - 0 - 0 - p < Scale
       /\ w + p + m - 0 <= 0
       /\ NoBeneficiary => AvailableAmount(asset[t]) + m + 0 - 0 >= 0
  BY <1>9, <1>20, <1>21, <1>22, <1>25, <1>26, SafeAsset, ScaleAssumption
<1>24. Cash(t, c, p) /\ Purse(a, t, w, p) /\ PaymentsFit'
  BY <1>13, <1>20, <1>21, <1>26
<1>27. Inv' /\ UNCHANGED price
  BY <1>1, <1>3
<1> QED BY <1>17, <1>18, <1>19, <1>23, <1>24, <1>27, UserStep, SMTT(60)

\* A callback that credits nobody: the asset is what it was, and the payment is
\* abandoned with whatever has come back of it.
LEMMA AbandonedStep ==
  ASSUME Safe, Inv', NEW s \in Slots, NEW used \in 0 .. transfer[s].ft_amount, Answered(s, used),
         NEW a \in Accounts, a = transfer[s].account,
         UNCHANGED <<asset, supplied>>, Abandoned(s)
  PROVE  StepOK /\ NoGain(a)
<1>1. Inv /\ TypeOK /\ PaymentsFit /\ TypeOK'
  BY DEF Safe, Inv
<1>2. /\ UNCHANGED <<registered, collateral, borrowed, price>>
      /\ transfer[s] \in TransferType /\ PaymentFits(transfer[s])
  BY AnsweredRest
<1>3. PICK tr \in TransferType : tr = transfer[s]
  BY <1>2
<1>4. /\ tr.token \in Tokens /\ tr.amount \in Nat /\ tr.ft_amount \in Nat
      /\ used \in Nat /\ used <= tr.ft_amount
  BY <1>3 DEF TransferType
<1>5. PICK t \in Tokens : t = tr.token
  BY <1>4
<1>6. PICK amount \in Nat : amount = tr.amount
  BY <1>4
<1>7. PICK ft \in Nat : ft = tr.ft_amount
  BY <1>4
<1>8. ft = amount \div Scale /\ used <= ft
  BY <1>2, <1>3, <1>4, <1>6, <1>7 DEF PaymentFits
<1>9. used * Scale \in Nat /\ used * Scale <= amount
  <2>1. ft * Scale <= amount /\ ft * Scale \in Nat
    BY <1>8, ScaleAssumption, Quotient, ProductType
  <2>2. used * Scale <= ft * Scale /\ used * Scale \in Nat
    BY <1>4, <1>8, ScaleAssumption, ProductMonotone, ProductType
  <2> QED BY <2>1, <2>2
<1>10. PICK n \in Nat : n = used * Scale
  BY <1>9
<1>11. PaymentsFit' /\ Cash(t, - n, - amount) /\ Purse(a, t, n, - amount)
  BY <1>1, <1>3, <1>5, <1>6, <1>10, AnswerEffect
<1>12. AssetMoves(asset[t], asset'[t], 0, 0, 0, 0) /\ OtherAssets(t)
  BY SafeAsset, AssetRests DEF OtherAssets
<1>13. Elsewhere(a, t)
  BY <1>2, <1>12, SameEntries DEF Elsewhere
<1>14. SafeFor(a)
  BY <1>1, <1>2, PositionSame
<1>15. PICK c \in Int : c = - n
  OBVIOUS
<1>16. PICK p \in Int : p = - amount
  OBVIOUS
<1>17. /\ c + 0 - 0 - 0 - 0 - p >= 0
       /\ n + p + 0 - 0 <= 0
       /\ NoBeneficiary => AvailableAmount(asset[t]) + 0 + 0 - 0 >= 0
  BY <1>9, <1>10, <1>15, <1>16, SafeAsset
<1>18. Cash(t, c, p) /\ Purse(a, t, n, p) /\ n \in Int
  BY <1>11, <1>15, <1>16
<1> QED BY <1>1, <1>2, <1>11, <1>12, <1>13, <1>14, <1>17, <1>18, UserStep

\* Only the callback of an account that has gone credits nobody,
LEMMA RefundLostStep ==
  ASSUME Safe, NEW s \in Slots, NEW used \in 0 .. transfer[s].ft_amount, RefundLost(s, used),
         NEW a \in Accounts, a = transfer[s].account
  PROVE  StepOK /\ NoGain(a)
<1>1. Inv'
  BY RefundLostInv DEF Safe
<1>2. /\ Answered(s, used) /\ UNCHANGED <<asset, supplied>>
      /\ ~ CanRefund(transfer[s], used)
  BY DEF RefundLost, ComesBack
<1>3. transfer[s] \in TransferType /\ PaymentFits(transfer[s])
  BY <1>2, AnsweredRest
<1>4. CanSave(Refunded(transfer[s], used), FALSE)
  BY <1>3, Refundable
<1>5. transfer[s].account \notin registered
  BY <1>2, <1>4 DEF CanRefund
<1>6. transfer[s] # NoTransfer /\ transfer'[s] = NoTransfer
  BY <1>2 DEF Answered, Safe, Inv, TypeOK
<1>7. Abandoned(s)
  BY <1>5, <1>6 DEF Abandoned
<1> QED BY <1>1, <1>2, <1>7, AbandonedStep

\* or one of a fee withdrawal whose asset does not pass the checks.
LEMMA BeneficiaryRefundLostStep ==
  ASSUME Safe, NEW s \in Slots, BeneficiaryRefundLost(s),
         NEW a \in Accounts, a = transfer[s].account
  PROVE  StepOK /\ NoGain(a)
<1>1. Inv'
  BY BeneficiaryRefundLostInv DEF Safe
<1>2. /\ Answered(s, 0) /\ UNCHANGED <<asset, supplied>>
      /\ transfer[s].kind = "after_beneficiary_withdraw"
  BY DEF BeneficiaryRefundLost
<1>3. transfer[s] # NoTransfer /\ transfer'[s] = NoTransfer /\ 0 \in 0 .. transfer[s].ft_amount
  BY <1>2 DEF Answered, Safe, Inv, TypeOK
<1>4. Abandoned(s)
  BY <1>2, <1>3 DEF Abandoned
<1> QED BY <1>1, <1>2, <1>3, <1>4, AbandonedStep

\* after_beneficiary_withdraw gives the fees back to the asset.
LEMMA BeneficiaryRefundStep ==
  ASSUME Safe, NEW s \in Slots, BeneficiaryRefund(s),
         NEW a \in Accounts, a = transfer[s].account
  PROVE  StepOK /\ NoGain(a)
<1>1. Inv /\ TypeOK /\ PaymentsFit /\ Inv' /\ TypeOK'
  BY BeneficiaryRefundInv DEF Safe, Inv
<1>2. Answered(s, 0) /\ UNCHANGED supplied
  BY DEF BeneficiaryRefund
<1>3. /\ UNCHANGED <<registered, collateral, borrowed, price>>
      /\ transfer[s] \in TransferType
  BY <1>2, AnsweredRest
<1>4. PICK tr \in TransferType : tr = transfer[s]
  BY <1>3
<1>5. tr.token \in Tokens /\ tr.amount \in Nat
  BY DEF TransferType
<1>6. PICK t \in Tokens : t = tr.token
  BY <1>5
<1>7. PICK amount \in Nat : amount = tr.amount
  BY <1>5
<1>8. 0 \in 0 .. transfer[s].ft_amount /\ 0 = 0 * Scale
  BY <1>2, ScaleAssumption DEF Answered
<1>9. PaymentsFit' /\ Cash(t, - 0, - amount) /\ Purse(a, t, 0, - amount)
  BY <1>1, <1>2, <1>4, <1>6, <1>7, <1>8, AnswerEffect
<1> DEFINE f == asset[t].beneficiary_fees + amount
           y == [asset[t] EXCEPT !.beneficiary_fees = f]
<1>10. SetAsset(t, y, TRUE)
  BY <1>4, <1>6, <1>7 DEF BeneficiaryRefund, FeesRestored
<1>11. f \in Nat /\ f = asset[t].beneficiary_fees + amount
  BY SafeAsset
<1> HIDE DEF f
<1>12. /\ y \in AssetType /\ y.supplied = asset[t].supplied /\ y.borrowed = asset[t].borrowed
       /\ y.reserved = asset[t].reserved + 0
       /\ y.beneficiary_fees = asset[t].beneficiary_fees + amount
  BY <1>11, SafeAsset DEF AssetType
<1> HIDE DEF y
<1>13. SupplyMoves(asset[t].supplied, y.supplied, 0) /\ DebtMoves(asset[t].borrowed, y.borrowed, 0)
  BY <1>12, SafeAsset, PoolRests
<1>20. PICK g \in Int : g = amount
  BY <1>7
<1>14. AssetMoves(asset[t], asset'[t], 0, 0, 0, g) /\ OtherAssets(t)
  <2>1. /\ y \in AssetType /\ y.reserved = asset[t].reserved + 0
        /\ y.beneficiary_fees = asset[t].beneficiary_fees + g
    BY <1>12, <1>20
  <2>2. PICK checked \in BOOLEAN : SetAsset(t, y, checked)
    BY <1>10
  <2> QED BY <1>13, <2>1, <2>2, SavedAsset, SMTT(30)
<1>15. Elsewhere(a, t)
  BY <1>2, <1>3, <1>14, SameEntries DEF Elsewhere
<1>16. SafeFor(a)
  BY <1>1, <1>3, PositionSame
<1>17. PICK p \in Int : p = - amount
  OBVIOUS
<1>18. /\ 0 + 0 - 0 - 0 - g - p >= 0
       /\ 0 + 0 - 0 - 0 - g - p < Scale
       /\ 0 + p + 0 - 0 <= 0
       /\ NoBeneficiary => AvailableAmount(asset[t]) + 0 + 0 - 0 >= 0
  BY <1>7, <1>17, <1>20, SafeAsset, ScaleAssumption
<1>19. Cash(t, 0, p) /\ Purse(a, t, 0, p) /\ PaymentsFit'
  BY <1>9, <1>17
<1>21. Inv' /\ UNCHANGED price
  BY <1>1, <1>3
<1> QED BY <1>14, <1>15, <1>16, <1>18, <1>19, <1>21, UserStep, SMTT(60)

\* withdraw_beneficiary_fee: the fees leave the asset to be paid.
LEMMA WithdrawBeneficiaryFeeStep ==
  ASSUME Safe, NEW t \in Tokens, WithdrawBeneficiaryFee(t)
  PROVE  StepOK
<1> DEFINE y == [asset[t] EXCEPT !.beneficiary_fees = 0]
<1>1. Inv /\ TypeOK /\ PaymentsFit /\ Inv' /\ TypeOK'
  BY WithdrawBeneficiaryFeeInv DEF Safe, Inv
<1>2. PICK amount \in Nat : amount = asset[t].beneficiary_fees
  BY SafeAsset
<1>3. /\ amount \div Scale > 0
      /\ Start("after_beneficiary_withdraw", Beneficiary, Beneficiary, t, amount)
      /\ UNCHANGED <<supplied, collateral, borrowed, price, cash, wallet>>
  BY <1>2 DEF WithdrawBeneficiaryFee
<1>4. PICK checked \in BOOLEAN : SetAsset(t, y, checked)
  BY DEF WithdrawBeneficiaryFee
<1>5. PICK a \in Accounts : a = Beneficiary
  BY AccountsAssumption
<1>6. PaymentsFit' /\ Cash(t, 0, amount)
  BY <1>1, <1>3, <1>5, StartEffect
<1>7. PICK g \in Int : g = - amount
  OBVIOUS
<1>8. /\ y \in AssetType /\ y.supplied = asset[t].supplied /\ y.borrowed = asset[t].borrowed
      /\ y.reserved = asset[t].reserved + 0
      /\ y.beneficiary_fees = asset[t].beneficiary_fees + g
  BY <1>2, <1>7, SafeAsset DEF AssetType
<1> HIDE DEF y
<1>9. SupplyMoves(asset[t].supplied, y.supplied, 0) /\ DebtMoves(asset[t].borrowed, y.borrowed, 0)
  BY <1>8, SafeAsset, PoolRests
<1>10. AssetMoves(asset[t], asset'[t], 0, 0, 0, g) /\ OtherAssets(t)
  BY <1>4, <1>8, <1>9, SavedAsset, SMTT(30)
<1>11. Books(t, 0, 0, 0, g)
  BY <1>10 DEF Books
<1>12. OtherPositions(a)
  BY <1>3 DEF OtherPositions
<1>13. SafeFor(a)
  BY <1>1, <1>3, PositionSame
<1>14. /\ 0 + 0 - 0 - 0 - g - amount >= 0
       /\ 0 + 0 - 0 - 0 - g - amount < Scale
       /\ NoBeneficiary => AvailableAmount(asset[t]) + 0 + 0 - 0 >= 0
  BY <1>7, SafeAsset, ScaleAssumption
<1>15. Inv' /\ UNCHANGED price
  BY <1>1, <1>3
<1> QED BY <1>6, <1>11, <1>12, <1>13, <1>14, <1>15, StepKeeps, SMTT(30)

\* increase_reserved: tokens of the owner's supply go to the reserve.
LEMMA IncreaseReservedStep ==
  ASSUME Safe, NEW t \in Tokens, NEW req \in Requests, IncreaseReserved(t, req)
  PROVE  StepOK
<1> DEFINE move   == AssetAmountToShares(asset[t].supplied, supplied[Owner][t], req, FALSE)
           shares == move.shares
           amount == move.amount
           less   == Unsupplied(asset[t], shares, amount)
           y      == [less EXCEPT !.reserved = @ + amount]
<1>1. Inv /\ TypeOK /\ PaymentsFit /\ Inv' /\ TypeOK'
  BY IncreaseReservedInv DEF Safe, Inv
<1>2. PICK a \in Accounts : a = Owner
  BY AccountsAssumption
<1>3. supplied[a][t] \in Nat /\ supplied[a][t] <= asset[t].supplied.shares
  BY <1>1, PartsBound
<1>4. shares \in Nat /\ amount \in Nat /\ Covered(asset[t].supplied, shares, amount)
  BY <1>2, <1>3, HeldOut
<1>5. /\ CanWithdraw(asset[t].supplied, shares, amount)
      /\ UNCHANGED <<collateral, borrowed, transfer, price, cash, wallet>>
  BY DEF IncreaseReserved
<1>6. PICK checked \in BOOLEAN : SetAsset(t, y, checked)
  BY DEF IncreaseReserved
<1> HIDE DEF move, shares, amount
<1>7. /\ less \in AssetType /\ less.supplied = PoolWithdraw(asset[t].supplied, shares, amount)
      /\ less.borrowed = asset[t].borrowed /\ less.reserved = asset[t].reserved + 0
      /\ less.beneficiary_fees = asset[t].beneficiary_fees + 0
  BY <1>4, <1>5, SafeAsset, SupplyFields
<1> HIDE DEF less
<1>8. /\ y \in AssetType /\ y.supplied = less.supplied /\ y.borrowed = less.borrowed
      /\ y.reserved = less.reserved + amount /\ y.beneficiary_fees = less.beneficiary_fees
  BY <1>4, <1>7 DEF AssetType
<1> HIDE DEF y
<1>9. PICK m \in Int : m = - amount
  BY <1>4
<1>10. PICK r \in Int : r = amount
  BY <1>4
<1>11. SupplyMoves(asset[t].supplied, y.supplied, m) /\ DebtMoves(asset[t].borrowed, y.borrowed, 0)
  BY <1>4, <1>5, <1>7, <1>8, <1>9, SafeAsset, SupplyMove, PoolRests
<1>12. /\ y \in AssetType /\ y.reserved = asset[t].reserved + r
       /\ y.beneficiary_fees = asset[t].beneficiary_fees + 0
  BY <1>7, <1>8, <1>10, SafeAsset
<1>13. AssetMoves(asset[t], asset'[t], m, 0, r, 0) /\ OtherAssets(t)
  BY <1>6, <1>11, <1>12, SavedAsset, SMTT(30)
<1>14. Books(t, m, 0, r, 0)
  BY <1>13 DEF Books
<1>15. OtherPositions(a)
  BY <1>5 DEF OtherPositions
<1>16. SafeFor(a)
  BY <1>1, <1>5, PositionSame
<1>17. /\ 0 + 0 - m - r - 0 - 0 >= 0
       /\ 0 + 0 - m - r - 0 - 0 < Scale
       /\ NoBeneficiary => AvailableAmount(asset[t]) + m + r - 0 >= 0
  BY <1>4, <1>9, <1>10, SafeAsset, ScaleAssumption
<1>18. Cash(t, 0, 0) /\ PaymentsFit'
  BY <1>1, <1>5, NoTokensMove
<1>19. Inv' /\ UNCHANGED price
  BY <1>1, <1>5
<1> QED BY <1>14, <1>15, <1>16, <1>17, <1>18, <1>19, StepKeeps, SMTT(30)

\* decrease_reserved: tokens of the reserve become supply of the owner.
LEMMA DecreaseReservedStep ==
  ASSUME Safe, NEW t \in Tokens, NEW amount \in Amounts, DecreaseReserved(t, amount)
  PROVE  StepOK
<1> DEFINE rest   == asset[t].reserved - amount
           taken  == [asset[t] EXCEPT !.reserved = rest]
           saved  == Normalized(taken)
           shares == AmountToShares(saved.supplied, amount, FALSE)
           y      == Supplied(saved, shares, amount)
<1>1. Inv /\ TypeOK /\ PaymentsFit /\ Inv' /\ TypeOK'
  BY DecreaseReservedInv DEF Safe, Inv
<1>2. amount \in Nat /\ amount <= asset[t].reserved
  BY AmountAssumption DEF DecreaseReserved
<1>3. UNCHANGED <<collateral, borrowed, transfer, price, cash, wallet>>
  BY DEF DecreaseReserved
<1>4. PICK checked \in BOOLEAN : SetAsset(t, y, checked)
  BY DEF DecreaseReserved
<1>5. rest \in Nat /\ rest + amount = asset[t].reserved
  BY <1>2, SafeAsset
<1> HIDE DEF rest
<1>6. /\ taken \in AssetType /\ taken.supplied = asset[t].supplied
      /\ taken.borrowed = asset[t].borrowed /\ taken.reserved = rest
      /\ taken.beneficiary_fees = asset[t].beneficiary_fees
  BY <1>5, SafeAsset DEF AssetType
<1> HIDE DEF taken
<1>7. /\ saved \in AssetType /\ saved.supplied = asset[t].supplied
      /\ saved.borrowed = asset[t].borrowed /\ saved.reserved = rest
      /\ saved.beneficiary_fees = asset[t].beneficiary_fees
  BY <1>6, SafeAsset, NormalizedSound
<1> HIDE DEF saved
<1>8. shares \in Nat /\ Covering(asset[t].supplied, shares, amount)
  BY <1>2, <1>7, SafeAsset, SharesRounding
<1> HIDE DEF shares
<1>9. /\ y \in AssetType /\ y.supplied = PoolDeposit(saved.supplied, shares, amount)
      /\ y.borrowed = saved.borrowed /\ y.reserved = saved.reserved + 0
      /\ y.beneficiary_fees = saved.beneficiary_fees + 0
  BY <1>2, <1>7, <1>8, SupplyFields
<1> HIDE DEF y
<1>10. PICK a \in Accounts : a = Owner
  BY AccountsAssumption
<1>11. PICK m \in Int : m = amount
  BY <1>2
<1>12. PICK r \in Int : r = - amount
  BY <1>2
<1>13. SupplyMoves(asset[t].supplied, y.supplied, m) /\ DebtMoves(asset[t].borrowed, y.borrowed, 0)
  BY <1>2, <1>7, <1>8, <1>9, <1>11, SafeAsset, SupplyMove, PoolRests
<1>14. /\ y \in AssetType /\ y.reserved = asset[t].reserved + r
       /\ y.beneficiary_fees = asset[t].beneficiary_fees + 0
  BY <1>2, <1>5, <1>7, <1>9, <1>12, SafeAsset
<1>15. AssetMoves(asset[t], asset'[t], m, 0, r, 0) /\ OtherAssets(t)
  <2>1. Becomes(asset[t], y, m, 0, r, 0)
    BY <1>13, <1>14 DEF Becomes
  <2>2. 0 \in Int /\ SetAsset(t, y, checked)
    BY <1>4
  <2> QED BY <2>1, <2>2, SavedAs
<1>16. Books(t, m, 0, r, 0)
  BY <1>15 DEF Books
<1>17. OtherPositions(a)
  BY <1>3 DEF OtherPositions
<1>18. SafeFor(a)
  BY <1>1, <1>3, PositionSame
<1>19. /\ 0 + 0 - m - r - 0 - 0 >= 0
       /\ 0 + 0 - m - r - 0 - 0 < Scale
       /\ NoBeneficiary => AvailableAmount(asset[t]) + m + r - 0 >= 0
  BY <1>2, <1>11, <1>12, SafeAsset, ScaleAssumption
<1>20. Cash(t, 0, 0) /\ PaymentsFit'
  BY <1>1, <1>3, NoTokensMove
<1>21. Inv' /\ UNCHANGED price
  BY <1>1, <1>3
<1> QED BY <1>16, <1>17, <1>18, <1>19, <1>20, <1>21, StepKeeps, SMTT(30)

\* Liquidate: the victim pays with collateral for a debt that the liquidator
\* repays, and a position that stays at risk keeps some of it.
LEMMA LiquidateStep ==
  ASSUME Safe, NEW a \in Accounts, NEW victim \in Accounts, NEW tin \in Tokens, NEW tout \in Tokens,
         NEW rin \in Requests, NEW rout \in Requests,
         Liquidate(a, victim, tin, rin, tout, rout)
  PROVE  StepOK
<1> DEFINE pay    == RepayMove(a, victim, tin, rin)
           assets == AfterRepay(tin, pay)
           taken  == AssetAmountToShares(assets[tout].supplied, collateral[victim][tout],
                                         rout, FALSE).shares
           debt   == Sub(borrowed, victim, tin, pay.repaid)
           B      == BorrowedSum(asset, borrowed[victim], price)
           C      == CollateralSum(asset, collateral[victim], price)
           newB   == BorrowedSum(asset', borrowed'[victim], price)
           newC   == CollateralSum(asset', collateral'[victim], price)
<1>1. Inv /\ TypeOK /\ PaymentsFit /\ Inv' /\ TypeOK'
  BY LiquidateInv DEF Safe, Inv
<1>2. /\ pay.burnt \in Nat /\ pay.repaid \in Nat /\ pay.amount \in Nat
      /\ Covered(asset[tin].supplied, pay.burnt, pay.amount)
      /\ Covering(asset[tin].borrowed, pay.repaid, pay.amount)
  BY RepayMoveCovers
<1>3. /\ pay.repaid > 0 /\ pay.repaid <= borrowed[victim][tin]
      /\ CanWithdraw(asset[tin].supplied, pay.burnt, pay.amount)
      /\ CanWithdraw(asset[tin].borrowed, pay.repaid, pay.amount)
      /\ SetAsset(tin, Repaid(asset[tin], pay), Checked(a))
      /\ Unpledge(victim, tout, taken)
      /\ B > C
      /\ borrowed' = debt
      /\ UNCHANGED <<transfer, price, cash, wallet>>
      /\ LessAtRisk(B, C, BorrowedSum(assets, debt[victim], price),
                    CollateralSum(assets, collateral'[victim], price))
  BY DEF Liquidate, CanRepay
<1>4. assets = asset'
  BY <1>3 DEF AfterRepay, SetAsset
<1>5. LessAtRisk(B, C, newB, newC)
  BY <1>3, <1>4
<1> HIDE DEF pay, assets, taken, B, C, newB, newC
<1>6. PICK amount \in Nat : amount = pay.amount
  BY <1>2
<1>7. PICK m \in Int : m = - amount
  OBVIOUS
<1>8. AssetMoves(asset[tin], asset'[tin], - amount, - amount, 0, 0) /\ OtherAssets(tin)
  BY <1>2, <1>3, <1>6, RepaidMoves
<1>9. Books(tin, m, m, 0, 0)
  BY <1>7, <1>8 DEF Books
<1>10. Cash(tin, 0, 0) /\ PaymentsFit'
  BY <1>1, <1>3, NoTokensMove
<1>11. /\ 0 + m - m - 0 - 0 - 0 >= 0
       /\ 0 + m - m - 0 - 0 - 0 < Scale
       /\ NoBeneficiary => AvailableAmount(asset[tin]) + m + 0 - m >= 0
  BY <1>7, SafeAsset, ScaleAssumption
<1>12. AllSound' /\ PricesFavour
  BY <1>1, <1>9, <1>10, <1>11, Tally
<1>13. OtherPositions(victim)
  <2>1. /\ collateral' = Sub(collateral, victim, tout, taken)
        /\ borrowed' = Sub(borrowed, victim, tin, pay.repaid)
    BY <1>3 DEF Unpledge
  <2> QED BY <1>1, <2>1 DEF OtherPositions, Sub, TypeOK
<1>14. /\ asset \in [Tokens -> AssetType] /\ asset' \in [Tokens -> AssetType]
       /\ collateral[victim] \in [Tokens -> Nat] /\ collateral'[victim] \in [Tokens -> Nat]
       /\ borrowed[victim] \in [Tokens -> Nat] /\ borrowed'[victim] \in [Tokens -> Nat]
       /\ price \in [Tokens -> Nat \ {0}]
  BY <1>1 DEF TypeOK, Safe, PricesPositive
<1>15. /\ \A t \in Tokens : SoundAsset(asset[t])
       /\ \A t \in Tokens : SoundAsset(asset'[t])
  BY <1>12 DEF Safe, AllSound, SoundAsset
<1>16. ASSUME NEW t \in Tokens
       PROVE  /\ collateral[victim][t] <= asset[t].supplied.shares
              /\ borrowed[victim][t] <= asset[t].borrowed.shares
              /\ collateral'[victim][t] <= asset'[t].supplied.shares
              /\ borrowed'[victim][t] <= asset'[t].borrowed.shares
  BY <1>1, PositionBound, NextPositionBound
<1>17. C \in Nat /\ B \in Nat
  BY <1>14, <1>15, <1>16, SumsOfPosition DEF B, C
<1>18. newC \in Nat /\ newB \in Nat /\ (newC > 0 => \E t \in Tokens : collateral'[victim][t] > 0)
  BY <1>14, <1>15, <1>16, SumsOfPosition DEF newB, newC
<1>19. newC > 0
  <2> SUFFICES ASSUME newC = 0 PROVE FALSE
    BY <1>18
  <2>1. (newB - newC) * B < (B - C) * newB
    BY <1>5 DEF LessAtRisk
  <2>2. newB - newC = newB
    BY <1>18
  <2>3. B - C \in Nat /\ B - C <= B
    BY <1>3, <1>17
  <2>4. (B - C) * newB <= B * newB
    BY <1>17, <1>18, <2>3, ProductMonotone
  <2>5. newB * B = B * newB /\ B * newB \in Nat /\ (B - C) * newB \in Nat
    BY <1>17, <1>18, <2>3, ProductType
  <2>6. newB * B < (B - C) * newB
    BY <2>1, <2>2
  <2> QED BY <2>4, <2>5, <2>6
<1>20. ~ Healthy(victim)
  <2>1. borrowed[victim][tin] \in Nat
    BY <1>14
  <2>2. borrowed[victim][tin] > 0
    BY <1>2, <1>3, <2>1
  <2> QED BY <1>3, <2>2 DEF Healthy, AtRisk, B, C
<1>21. SafeFor(victim)
  BY <1>18, <1>19, <1>20 DEF SafeFor
<1>22. Inv' /\ UNCHANGED price
  BY <1>1, <1>3
<1> QED BY <1>9, <1>10, <1>11, <1>13, <1>21, <1>22, StepKeeps, SMTT(30)

\* the tokens shares are worth, and those that clear shares of a debt
PaidFor(pool, shares) == SharesToAmount(pool, shares, FALSE)
ClearedBy(pool, shares) == SharesToAmount(pool, shares, TRUE)

\* The collateral that a forced close seizes goes from the supply to the reserve.
LEMMA SeizedMoves ==
  ASSUME NEW x \in AssetType, SoundAsset(x), NEW shares \in Nat, shares <= x.supplied.shares,
         NEW amount \in Nat, amount = PaidFor(x.supplied, shares),
         NEW m \in Int, m = - amount, NEW r \in Int, r = amount
  PROVE  AssetMoves(x, Seized(x, shares), m, 0, r, 0)
<1> DEFINE less == Unsupplied(x, shares, amount)
           n    == less.reserved + amount
           more == [less EXCEPT !.reserved = n]
<1>1. /\ x.supplied \in PoolType /\ x.borrowed \in PoolType
      /\ SoundPool(x.supplied) /\ SoundPool(x.borrowed)
      /\ PoolInvariant(x.supplied) /\ PoolInvariant(x.borrowed)
      /\ x.reserved \in Nat /\ x.beneficiary_fees \in Nat
  BY DEF AssetType, SoundAsset, SoundPool
<1>2. amount <= x.supplied.balance /\ Covered(x.supplied, shares, amount)
  BY <1>1, AmountRounding DEF PaidFor
<1>3. Seized(x, shares) = Normalized(more)
  BY DEF Seized, PaidFor
<1>4. CanWithdraw(x.supplied, shares, amount)
  BY <1>2 DEF CanWithdraw
<1>5. /\ less \in AssetType /\ less.supplied = PoolWithdraw(x.supplied, shares, amount)
      /\ less.borrowed = x.borrowed /\ less.reserved = x.reserved + 0
      /\ less.beneficiary_fees = x.beneficiary_fees + 0
  BY <1>4, SupplyFields
<1> HIDE DEF less
<1>12. n \in Nat /\ n = x.reserved + r
  <2>1. less.reserved = x.reserved
    BY <1>1, <1>5
  <2> QED BY <1>1, <2>1
<1> HIDE DEF n
<1>6. /\ more \in AssetType /\ more.supplied = less.supplied /\ more.borrowed = less.borrowed
      /\ more.reserved = n /\ more.beneficiary_fees = less.beneficiary_fees
  BY <1>5, <1>12 DEF AssetType
<1> HIDE DEF more
<1>7. SupplyMoves(x.supplied, more.supplied, m) /\ DebtMoves(x.borrowed, more.borrowed, 0)
  BY <1>1, <1>2, <1>4, <1>5, <1>6, SupplyMove, PoolRests
<1>8. more.reserved = x.reserved + r /\ more.beneficiary_fees = x.beneficiary_fees + 0
  BY <1>5, <1>6, <1>12
<1>9. \E checked \in BOOLEAN : CanSave(more, checked)
  <2>1. PoolInvariant(Normalized(more).supplied)
    <3>1. CASE more.supplied.shares = 0
      <4>1. Normalized(more) = [more EXCEPT !.reserved = @ + more.supplied.balance,
                                            !.supplied = EmptyPool]
        BY <3>1 DEF Normalized
      <4>2. Normalized(more).supplied = EmptyPool
        BY <1>6, <4>1 DEF AssetType
      <4> QED BY <4>2 DEF EmptyPool, PoolInvariant
    <3>2. CASE more.supplied.shares # 0
      <4>1. Normalized(more) = more
        BY <3>2 DEF Normalized
      <4>2. more.supplied \in PoolType /\ PriceNotLower(x.supplied, more.supplied)
        BY <1>7 DEF SupplyMoves
      <4>3. more.supplied.shares = x.supplied.shares - shares
        BY <1>5, <1>6 DEF PoolWithdraw
      <4>4. x.supplied.shares \in Nat /\ x.supplied.balance \in Nat
            /\ more.supplied.shares \in Nat /\ more.supplied.balance \in Nat
        BY <1>1, <4>2 DEF PoolType
      <4>5. x.supplied.shares > 0
        BY <3>2, <4>3, <4>4
      <4> QED BY <1>1, <4>1, <4>2, <4>4, <4>5, PriceKeepsInvariant
    <3> QED BY <3>1, <3>2
  <2>2. /\ more.borrowed.shares > 0 \/ more.borrowed.balance = 0
        /\ PoolInvariant(more.borrowed)
    BY <1>1, <1>5, <1>6 DEF SoundPool, PoolType
  <2>3. PICK checked \in BOOLEAN : ~ checked
    OBVIOUS
  <2>4. CanSave(more, checked)
    BY <2>1, <2>2, <2>3 DEF CanSave
  <2> QED BY <2>4
<1>10. PICK checked \in BOOLEAN : CanSave(more, checked)
  BY <1>9
<1>11. AssetMoves(x, Normalized(more), m, 0, r, 0)
  <2>1. PICK z \in AssetType : z = more
    BY <1>6
  <2>2. /\ z.reserved = x.reserved + r /\ z.beneficiary_fees = x.beneficiary_fees + 0
        /\ SupplyMoves(x.supplied, z.supplied, m) /\ DebtMoves(x.borrowed, z.borrowed, 0)
        /\ CanSave(z, checked)
    BY <1>7, <1>8, <1>10, <2>1
  <2>3. AssetMoves(x, Normalized(z), m, 0, r, 0)
    BY <2>2, SavedMoves, SMTT(30)
  <2> QED BY <2>1, <2>3
<1> QED BY <1>3, <1>11

\* The debt that it forgives is paid by the reserve.
LEMMA ForgivenMoves ==
  ASSUME NEW x \in AssetType, NEW y \in AssetType, NEW z \in AssetType,
         SoundAsset(x), y.borrowed = x.borrowed,
         NEW m \in Int, NEW r \in Int, AssetMoves(x, y, m, 0, r, 0),
         NEW shares \in Nat, shares <= x.borrowed.shares, z = Forgiven(y, shares),
         NEW amount \in Nat, amount = ClearedBy(x.borrowed, shares),
         NEW n \in Int, n = - amount, NEW s \in Int, s = r - amount
  PROVE  AssetMoves(x, z, m, n, s, 0)
<1> DEFINE pool == PoolWithdraw(x.borrowed, shares, amount)
           rest == y.reserved - amount
<1>1. /\ x.borrowed \in PoolType /\ SoundPool(x.borrowed) /\ PoolInvariant(x.borrowed)
      /\ x.supplied \in PoolType /\ y.supplied \in PoolType
      /\ x.reserved \in Nat /\ y.reserved \in Nat /\ x.beneficiary_fees \in Nat
  BY DEF AssetType, SoundAsset, SoundPool
<1>2. /\ amount <= x.borrowed.balance /\ Covering(x.borrowed, shares, amount)
      /\ SoundPool(pool) /\ pool \in PoolType
  BY <1>1, AmountRounding, ClearingKeepsSound DEF ClearedBy
<1>3. CanWithdraw(x.borrowed, shares, amount)
  BY <1>2 DEF CanWithdraw
<1>4. DebtMoves(x.borrowed, pool, n)
  BY <1>1, <1>2, <1>3, DebtMove
<1>5. z = [y EXCEPT !.borrowed = pool, !.reserved = rest]
  BY DEF Forgiven, ClearedBy
<1> HIDE DEF pool, rest
<1>6. /\ z.supplied = y.supplied /\ z.borrowed = pool /\ z.reserved = rest
      /\ z.beneficiary_fees = y.beneficiary_fees
  BY <1>5 DEF AssetType
<1>7. /\ SoundPool(y.supplied) /\ PriceNotLower(x.supplied, y.supplied)
      /\ y.supplied.balance <= x.supplied.balance + m
      /\ y.supplied.balance + y.reserved = x.supplied.balance + x.reserved + m + r
      /\ y.beneficiary_fees = x.beneficiary_fees + 0
  BY DEF AssetMoves, SoundAsset
<1>8. /\ PriceNotLower(z.borrowed, x.borrowed) /\ z.borrowed.balance = x.borrowed.balance + n
  BY <1>4, <1>6 DEF DebtMoves
<1>9. z.supplied.balance + z.reserved = x.supplied.balance + x.reserved + m + s
  <2>1. x.supplied.balance \in Nat /\ y.supplied.balance \in Nat
    BY <1>1 DEF PoolType
  <2>2. z.reserved = y.reserved - amount /\ z.supplied.balance = y.supplied.balance
    BY <1>6 DEF rest
  <2>3. y.supplied.balance + y.reserved = x.supplied.balance + x.reserved + m + r
    BY <1>7
  <2>4. x.reserved \in Nat /\ y.reserved \in Nat
    BY <1>1
  <2> QED BY <2>1, <2>2, <2>3, <2>4
<1>10. SoundAsset(z)
  BY <1>2, <1>6, <1>7 DEF SoundAsset
<1> QED BY <1>6, <1>7, <1>8, <1>9, <1>10 DEF AssetMoves

\* What a step does that gives the supply, in all, what it takes from the debt,
\* and moves no token.
LEMMA BalancedBooks ==
  ASSUME Safe, Inv', UNCHANGED <<transfer, cash>>,
         \A t \in Tokens : \E m \in Int, n \in Int, r \in Int :
             AssetMoves(asset[t], asset'[t], m, n, r, 0) /\ n = m + r
  PROVE  /\ AllSound' /\ PricesFavour /\ CashCoversClaims' /\ DustOnly /\ PaymentsFit'
         /\ NoBeneficiary => AllAvailable'
<1>1. TypeOK /\ TypeOK' /\ PaymentsFit /\ CashCoversClaims
  BY DEF Safe, Inv
<1>2. /\ PaymentsFit' /\ \A t \in Tokens : InFlight(t)' = InFlight(t)
  BY <1>1, NoPayment
<1>3. ASSUME NEW t \in Tokens
      PROVE  /\ SoundAsset(asset'[t])
             /\ PriceNotLower(asset[t].supplied, asset'[t].supplied)
             /\ PriceNotLower(asset'[t].borrowed, asset[t].borrowed)
             /\ Unclaimed(t)' = Unclaimed(t) /\ Unclaimed(t) \in Int
             /\ AvailableAmount(asset'[t]) = AvailableAmount(asset[t])
  <2>1. PICK m \in Int, n \in Int, r \in Int :
           AssetMoves(asset[t], asset'[t], m, n, r, 0) /\ n = m + r
    OBVIOUS
  <2>2. /\ SoundAsset(asset'[t])
        /\ PriceNotLower(asset[t].supplied, asset'[t].supplied)
        /\ PriceNotLower(asset'[t].borrowed, asset[t].borrowed)
        /\ asset'[t].supplied.balance + asset'[t].reserved
              = asset[t].supplied.balance + asset[t].reserved + m + r
        /\ asset'[t].borrowed.balance = asset[t].borrowed.balance + n
        /\ asset'[t].beneficiary_fees = asset[t].beneficiary_fees + 0
    BY <2>1 DEF AssetMoves
  <2>3. /\ asset[t].supplied.balance \in Nat /\ asset[t].borrowed.balance \in Nat
        /\ asset[t].reserved \in Nat /\ asset[t].beneficiary_fees \in Nat
        /\ cash[t] \in Nat /\ InFlight(t) \in Nat /\ Unclaimed(t) \in Int
    BY <1>1, TallyType
  <2>4. asset'[t].supplied.balance \in Nat /\ asset'[t].reserved \in Nat
    <3>1. asset'[t] \in AssetType
      BY <1>1 DEF TypeOK
    <3> QED BY <3>1 DEF AssetType, PoolType
  <2>5. cash'[t] = cash[t] /\ InFlight(t)' = InFlight(t)
    BY <1>2
  <2>6. /\ Unclaimed(t)' = cash'[t] + asset'[t].borrowed.balance
                             - asset'[t].supplied.balance - asset'[t].reserved
                             - asset'[t].beneficiary_fees - InFlight(t)'
        /\ Unclaimed(t) = cash[t] + asset[t].borrowed.balance
                             - asset[t].supplied.balance - asset[t].reserved
                             - asset[t].beneficiary_fees - InFlight(t)
    BY DEF Unclaimed
  <2>9. n = m + r
    BY <2>1
  <2>7. Unclaimed(t)' = Unclaimed(t)
    <3> DEFINE s1 == asset[t].supplied.balance
               s2 == asset'[t].supplied.balance
               b1 == asset[t].borrowed.balance
               b2 == asset'[t].borrowed.balance
               r1 == asset[t].reserved
               r2 == asset'[t].reserved
               f1 == asset[t].beneficiary_fees
               f2 == asset'[t].beneficiary_fees
    <3>1. /\ s2 + r2 = s1 + r1 + m + r /\ b2 = b1 + n /\ f2 = f1 + 0
          /\ s1 \in Nat /\ s2 \in Nat /\ b1 \in Nat /\ r1 \in Nat /\ r2 \in Nat /\ f1 \in Nat
      BY <2>2, <2>3, <2>4
    <3>2. /\ Unclaimed(t)' = cash[t] + b2 - s2 - r2 - f2 - InFlight(t)
          /\ Unclaimed(t) = cash[t] + b1 - s1 - r1 - f1 - InFlight(t)
      BY <2>5, <2>6
    <3>3. cash[t] \in Nat /\ InFlight(t) \in Nat
      BY <2>3
    <3> HIDE DEF s1, s2, b1, b2, r1, r2, f1, f2
    <3> QED BY <2>9, <3>1, <3>2, <3>3
  <2>8. AvailableAmount(asset'[t]) = AvailableAmount(asset[t])
    BY <2>2, <2>3, <2>4, <2>9 DEF AvailableAmount
  <2> QED BY <2>2, <2>3, <2>7, <2>8
<1>4. AllSound'
  BY <1>3 DEF AllSound, SoundAsset
<1>5. PricesFavour
  BY <1>3 DEF PricesFavour
<1>6. CashCoversClaims'
  BY <1>1, <1>3 DEF CashCoversClaims
<1>7. DustOnly
  BY <1>3, ScaleAssumption DEF DustOnly
<1>8. NoBeneficiary => AllAvailable'
  <2> SUFFICES ASSUME NoBeneficiary, NEW t \in Tokens PROVE AvailableAmount(asset'[t]) >= 0
    BY DEF AllAvailable, AvailableAmount
  <2> QED BY <1>3, SafeAsset
<1> QED BY <1>2, <1>4, <1>5, <1>6, <1>7, <1>8

\* ForceClose: the position is gone, and the reserve has paid its debt and has
\* its collateral.
LEMMA ForceCloseStep ==
  ASSUME Safe, NEW a \in Accounts, NEW victim \in Accounts, ForceClose(a, victim)
  PROVE  StepOK
<1> DEFINE seized == [t \in Tokens |-> Seized(asset[t], collateral[victim][t])]
           closed == [t \in Tokens |->
                        IF borrowed[victim][t] > 0 THEN Forgiven(seized[t], borrowed[victim][t])
                        ELSE seized[t]]
<1>1. Inv /\ TypeOK /\ Inv' /\ TypeOK'
  BY ForceCloseInv DEF Safe, Inv
<1>2. /\ asset' = closed
      /\ collateral' = [collateral EXCEPT ![victim] = [t \in Tokens |-> 0]]
      /\ borrowed' = [borrowed EXCEPT ![victim] = [t \in Tokens |-> 0]]
      /\ UNCHANGED <<transfer, price, cash>>
  BY DEF ForceClose
<1>3. ASSUME NEW t \in Tokens
      PROVE  \E m \in Int, n \in Int, r \in Int :
                AssetMoves(asset[t], asset'[t], m, n, r, 0) /\ n = m + r
  <2>1. /\ collateral[victim][t] \in Nat /\ collateral[victim][t] <= asset[t].supplied.shares
        /\ borrowed[victim][t] \in Nat /\ borrowed[victim][t] <= asset[t].borrowed.shares
        /\ asset'[t] \in AssetType
    BY <1>1, PartsBound, EntryType DEF TypeOK
  <2>2. PICK x \in AssetType : x = asset[t] /\ SoundAsset(x) /\ x.supplied \in PoolType
                               /\ x.borrowed \in PoolType /\ PoolInvariant(x.supplied)
                               /\ PoolInvariant(x.borrowed)
    BY SafeAsset
  <2>3. PICK c \in Nat : c = collateral[victim][t] /\ c <= x.supplied.shares
    BY <2>1, <2>2
  <2>4. PICK d \in Nat : d = borrowed[victim][t] /\ d <= x.borrowed.shares
    BY <2>1, <2>2
  <2>5. PICK amount \in Nat : amount = PaidFor(x.supplied, c)
    BY <2>2, <2>3, AmountRounding DEF PaidFor
  <2>6. PICK m \in Int : m = - amount
    OBVIOUS
  <2>7. PICK r \in Int : r = amount
    OBVIOUS
  <2>8. AssetMoves(x, Seized(x, c), m, 0, r, 0)
    BY <2>2, <2>3, <2>5, <2>6, <2>7, SeizedMoves, SMTT(30)
  <2>9. PICK y \in AssetType : y = Seized(x, c) /\ y.borrowed = x.borrowed
    BY <2>2, <2>3, SeizedType
  <2>10. PICK z \in AssetType : z = asset'[t]
    BY <2>1
  <2>11. z = IF d > 0 THEN Forgiven(y, d) ELSE y
    BY <1>2, <2>2, <2>3, <2>4, <2>9, <2>10
  <2>12. CASE d > 0
    <3>1. PICK debt \in Nat : debt = ClearedBy(x.borrowed, d)
      BY <2>2, <2>4, AmountRounding DEF ClearedBy
    <3>2. PICK n \in Int : n = - debt
      OBVIOUS
    <3>3. PICK s \in Int : s = r - debt
      OBVIOUS
    <3>4. z = Forgiven(y, d) /\ AssetMoves(x, y, m, 0, r, 0)
      BY <2>8, <2>9, <2>11, <2>12
    <3>5. AssetMoves(x, z, m, n, s, 0)
      BY <2>2, <2>4, <2>9, <3>1, <3>2, <3>3, <3>4, ForgivenMoves, SMTT(30)
    <3>6. n = m + s
      BY <2>6, <2>7, <3>2, <3>3
    <3> QED BY <2>2, <2>10, <3>5, <3>6
  <2>13. CASE ~ (d > 0)
    <3>1. z = y
      BY <2>11, <2>13
    <3>2. AssetMoves(x, z, m, 0, r, 0) /\ 0 = m + r
      BY <2>6, <2>7, <2>8, <2>9, <3>1
    <3> QED BY <2>2, <2>10, <3>2
  <2> QED BY <2>12, <2>13
<1> HIDE DEF seized, closed
<1>4. /\ AllSound' /\ PricesFavour /\ CashCoversClaims' /\ DustOnly /\ PaymentsFit'
      /\ NoBeneficiary => AllAvailable'
  BY <1>1, <1>2, <1>3, BalancedBooks
<1>5. OtherPositions(victim)
  BY <1>1, <1>2 DEF OtherPositions, TypeOK
<1>6. SafeFor(victim)
  <2>1. \A t \in Tokens : borrowed'[victim][t] = 0
    BY <1>1, <1>2 DEF TypeOK
  <2>2. ~ AtRisk(asset', collateral'[victim], borrowed'[victim], price)
    BY <2>1 DEF AtRisk
  <2> QED BY <2>2 DEF SafeFor
<1>7. NobodyHurt /\ DebtIsBacked' /\ PricesPositive'
  BY <1>1, <1>2, <1>4, <1>5, <1>6, PositionsKept
<1>8. Safe'
  BY <1>1, <1>4, <1>7 DEF Safe
<1>9. PricesKept
  BY <1>4 DEF PricesFavour, PricesKept
<1> QED BY <1>4, <1>7, <1>8, <1>9 DEF StepOK

-----------------------------------------------------------------------------
(***************************************************************************)
(* Time: interest and prices.                                              *)
(***************************************************************************)
\* What interest adds to an asset: a part is kept in the reserve, and of that a
\* fee for the beneficiary.
Accrued(x, y, interest, kept, fee) ==
    /\ kept <= interest /\ fee <= kept
    /\ x.supplied.shares = 0 => kept = interest
    /\ NoBeneficiary => fee = 0
    /\ y.supplied.balance = x.supplied.balance + interest - kept
    /\ y.reserved = x.reserved + kept - fee
    /\ y.beneficiary_fees = x.beneficiary_fees + fee
    /\ y.borrowed.balance = x.borrowed.balance + interest

\* Interest is divided up so.
LEMMA CompoundedFields ==
  ASSUME NEW x \in AssetType, NEW interest \in Nat, NEW y, y = Compounded(x, interest)
  PROVE  \E kept \in Nat, fee \in Nat : Accrued(x, y, interest, kept, fee)
<1> DEFINE kept == IF x.supplied.shares = 0 THEN interest ELSE Part(interest, ReserveRatio)
           fee  == Part(kept, BeneficiaryRate)
           sb   == x.supplied.balance + interest - kept
           bb   == x.borrowed.balance + interest
           sp   == [x.supplied EXCEPT !.balance = sb]
           bp   == [x.borrowed EXCEPT !.balance = bb]
           r    == x.reserved + kept - fee
           f    == x.beneficiary_fees + fee
<1>1. x.supplied \in PoolType /\ x.borrowed \in PoolType
  BY DEF AssetType
<1>2. kept \in Nat /\ kept <= interest /\ (x.supplied.shares = 0 => kept = interest)
  <2>1. Part(interest, ReserveRatio) \in Nat /\ Part(interest, ReserveRatio) <= interest
    BY RatioAssumption, PartType
  <2>2. interest <= interest
    OBVIOUS
  <2> QED BY <2>1, <2>2
<1> HIDE DEF kept
<1>3. fee \in Nat /\ fee <= kept
  BY <1>2, RatioAssumption, PartType
<1>4. NoBeneficiary => fee = 0
  <2> SUFFICES ASSUME BeneficiaryRate = 0 PROVE fee = 0
    BY DEF NoBeneficiary
  <2>1. fee = (kept * 0) \div MaxRatio
    BY DEF Part
  <2>2. kept * 0 = 0 /\ MaxRatio \in Nat \ {0}
    BY <1>2, RatioAssumption
  <2> QED BY <2>1, <2>2
<1>5. y = [x EXCEPT !.supplied = sp, !.reserved = r, !.beneficiary_fees = f, !.borrowed = bp]
  BY DEF Compounded, kept
<1> HIDE DEF fee, sb, bb, r, f
<1>6. sp.balance = sb /\ bp.balance = bb
  BY <1>1 DEF PoolType
<1> HIDE DEF sp, bp
<1>7. y.supplied = sp /\ y.borrowed = bp /\ y.reserved = r /\ y.beneficiary_fees = f
  BY <1>5 DEF AssetType
<1>8. /\ y.supplied.balance = x.supplied.balance + interest - kept
      /\ y.reserved = x.reserved + kept - fee
      /\ y.beneficiary_fees = x.beneficiary_fees + fee
      /\ y.borrowed.balance = x.borrowed.balance + interest
  BY <1>6, <1>7 DEF sb, bb, r, f
<1>9. Accrued(x, y, interest, kept, fee)
  BY <1>2, <1>3, <1>4, <1>8 DEF Accrued
<1> QED BY <1>2, <1>3, <1>9

\* Asset::update: interest is owed by the debtors to the suppliers, the reserve
\* and the beneficiary, who get it to the last token.
LEMMA AccrueStep ==
  ASSUME Safe, NEW t \in Tokens, NEW i \in Interests, Accrue(t, i)
  PROVE  Safe' /\ PricesKept /\ DustOnly
<1>1. Inv /\ TypeOK /\ Inv' /\ TypeOK' /\ PaymentsFit /\ CashCoversClaims /\ PricesPositive
         /\ DebtIsBacked
  BY AccrueInv DEF Safe, Inv
<1>2. /\ asset[t].borrowed.balance > 0
      /\ asset' = [asset EXCEPT ![t] = Compounded(asset[t], i)]
      /\ UNCHANGED <<collateral, borrowed, transfer, price, cash>>
  BY DEF Accrue
<1>3. i \in Nat
  BY AmountAssumption
<1>4. PICK x \in AssetType : x = asset[t]
  BY SafeAsset
<1>5. /\ asset'[t] = Compounded(x, i)
      /\ \A u \in Tokens \ {t} : asset'[u] = asset[u]
  BY <1>1, <1>2, <1>4 DEF TypeOK
<1>6. PICK y \in AssetType : /\ y = asset'[t] /\ y = Compounded(x, i)
                             /\ y.supplied.shares = x.supplied.shares
                             /\ y.borrowed.shares = x.borrowed.shares
  BY <1>3, <1>5, CompoundedType
<1>7. PICK kept \in Nat, fee \in Nat :
         /\ kept <= i /\ fee <= kept
         /\ x.supplied.shares = 0 => kept = i
         /\ NoBeneficiary => fee = 0
         /\ y.supplied.balance = x.supplied.balance + i - kept
         /\ y.reserved = x.reserved + kept - fee
         /\ y.beneficiary_fees = x.beneficiary_fees + fee
         /\ y.borrowed.balance = x.borrowed.balance + i
  <2>1. PICK kept \in Nat, fee \in Nat : Accrued(x, y, i, kept, fee)
    BY <1>3, <1>6, CompoundedFields
  <2> QED BY <2>1 DEF Accrued
<1>8. /\ x.supplied \in PoolType /\ x.borrowed \in PoolType /\ x.reserved \in Nat
      /\ x.beneficiary_fees \in Nat /\ SoundPool(x.supplied) /\ SoundPool(x.borrowed)
      /\ x.supplied.balance \in Nat /\ x.supplied.shares \in Nat
      /\ x.borrowed.balance \in Nat /\ x.borrowed.shares \in Nat
      /\ x.borrowed.balance > 0
  BY <1>2, <1>4, SafeAsset DEF PoolType
<1>9. SoundPool(y.supplied) /\ SoundPool(y.borrowed)
  BY <1>3, <1>6, <1>7, <1>8 DEF SoundPool, PoolInvariant
<1>10. PriceNotLower(x.supplied, y.supplied)
  <2> DEFINE b == x.supplied.balance
             c == y.supplied.balance
             s == x.supplied.shares
  <2>1. b \in Nat /\ c \in Nat /\ s \in Nat /\ b <= c
    BY <1>3, <1>7, <1>8
  <2> HIDE DEF b, c, s
  <2>2. b * s <= c * s
    BY <2>1, ProductMonotone
  <2> QED BY <1>6, <2>2 DEF PriceNotLower, b, c, s
<1>11. PaymentsFit' /\ \A u \in Tokens : InFlight(u)' = InFlight(u)
  BY <1>1, <1>2, NoPayment
<1>12. ASSUME NEW u \in Tokens
       PROVE  Unclaimed(u)' = Unclaimed(u) /\ Unclaimed(u) \in Int
  <2>1. /\ cash[u] \in Nat /\ InFlight(u) \in Nat /\ Unclaimed(u) \in Int
        /\ cash'[u] = cash[u] /\ InFlight(u)' = InFlight(u)
    BY <1>1, <1>2, <1>11, TallyType
  <2>2. CASE u = t
    <3>1. /\ Unclaimed(u)' = cash[u] + y.borrowed.balance - y.supplied.balance - y.reserved
                               - y.beneficiary_fees - InFlight(u)
          /\ Unclaimed(u) = cash[u] + x.borrowed.balance - x.supplied.balance - x.reserved
                               - x.beneficiary_fees - InFlight(u)
      BY <1>4, <1>6, <2>1, <2>2 DEF Unclaimed
    <3> QED BY <1>3, <1>7, <1>8, <2>1, <3>1
  <2>3. CASE u # t
    BY <1>5, <2>1, <2>3 DEF Unclaimed
  <2> QED BY <2>1, <2>2, <2>3
<1>13. AllSound'
  <2> SUFFICES ASSUME NEW u \in Tokens PROVE SoundAsset(asset'[u])
    BY DEF AllSound, SoundAsset
  <2>1. CASE u = t
    BY <1>6, <1>9, <2>1 DEF SoundAsset
  <2>2. CASE u # t
    BY <1>5, <2>2, SafeAsset
  <2> QED BY <2>1, <2>2
<1>14. NoBeneficiary => AllAvailable'
  <2> SUFFICES ASSUME NoBeneficiary, NEW u \in Tokens PROVE AvailableAmount(asset'[u]) >= 0
    BY DEF AllAvailable, AvailableAmount
  <2>1. AvailableAmount(asset[u]) >= 0
    BY SafeAsset
  <2>2. CASE u = t
    <3>1. x.supplied.balance + x.reserved - x.borrowed.balance >= 0
      BY <1>4, <2>1, <2>2 DEF AvailableAmount
    <3>2. y.supplied.balance + y.reserved - y.borrowed.balance >= 0
      BY <1>3, <1>7, <1>8, <3>1
    <3> QED BY <1>6, <2>2, <3>2 DEF AvailableAmount
  <2>3. CASE u # t
    BY <1>5, <2>1, <2>3
  <2> QED BY <2>2, <2>3
<1>15. DebtIsBacked' /\ PricesPositive'
  BY <1>1, <1>2 DEF DebtIsBacked, PricesPositive
<1>16. CashCoversClaims'
  BY <1>1, <1>12 DEF CashCoversClaims
<1>17. Safe'
  BY <1>1, <1>11, <1>13, <1>14, <1>15, <1>16 DEF Safe, NoBeneficiary
<1>18. PricesKept
  <2> SUFFICES ASSUME NEW u \in Tokens
               PROVE  PriceNotLower(asset[u].supplied, asset'[u].supplied)
    BY DEF PricesKept
  <2>1. CASE u = t
    BY <1>4, <1>6, <1>10, <2>1
  <2>2. CASE u # t
    BY <1>5, <2>2, SafeAsset, PriceReflexive
  <2> QED BY <2>1, <2>2
<1>19. DustOnly
  BY <1>12, ScaleAssumption DEF DustOnly
<1> QED BY <1>17, <1>18, <1>19

\* A price changes what a position is worth and nothing else.
LEMMA UpdatePriceStep ==
  ASSUME Safe, NEW t \in Tokens, NEW p \in Prices, UpdatePrice(t, p)
  PROVE  Safe' /\ PricesKept /\ DustOnly
<1>1. Inv /\ TypeOK /\ Inv' /\ TypeOK' /\ PaymentsFit /\ CashCoversClaims /\ PricesPositive
  BY UpdatePriceInv DEF Safe, Inv
<1>2. /\ price' = [price EXCEPT ![t] = p]
      /\ UNCHANGED <<asset, collateral, borrowed, transfer, cash>>
  BY DEF UpdatePrice
<1>3. PricesPositive'
  <2>1. p \in Nat \ {0}
    BY PriceAssumption
  <2> QED BY <1>1, <1>2, <2>1 DEF PricesPositive
<1>4. PaymentsFit' /\ \A u \in Tokens : InFlight(u)' = InFlight(u)
  BY <1>1, <1>2, NoPayment
<1>5. \A u \in Tokens : Unclaimed(u)' = Unclaimed(u) /\ Unclaimed(u) \in Int
  BY <1>1, <1>2, <1>4, TallyType DEF Unclaimed
<1>6. AllSound' /\ DebtIsBacked' /\ AllAvailable' = AllAvailable
  BY <1>2 DEF Safe, AllSound, SoundAsset, DebtIsBacked, AllAvailable, AvailableAmount
<1>7. CashCoversClaims'
  BY <1>1, <1>5 DEF CashCoversClaims
<1>8. Safe'
  BY <1>1, <1>3, <1>4, <1>6, <1>7 DEF Safe, NoBeneficiary
<1>9. PricesKept
  BY <1>2, SafeAsset, PriceReflexive DEF PricesKept
<1>10. DustOnly
  BY <1>5, ScaleAssumption DEF DustOnly
<1> QED BY <1>8, <1>9, <1>10

-----------------------------------------------------------------------------
(***************************************************************************)
(* Every step, and what the users can rely on.                             *)
(***************************************************************************)
\* The contract starts with nothing.
LEMMA InitSafe == Init => Safe
<1> SUFFICES ASSUME Init PROVE Safe
  OBVIOUS
<1>1. Inv
  BY InitInv
<1>2. /\ asset = [t \in Tokens |-> NewAsset]
      /\ borrowed = [a \in Accounts |-> [t \in Tokens |-> 0]]
      /\ transfer = [s \in Slots |-> NoTransfer]
      /\ price \in [Tokens -> Prices] /\ cash = [t \in Tokens |-> 0]
  BY DEF Init
<1>3. /\ NewAsset.supplied = EmptyPool /\ NewAsset.borrowed = EmptyPool
      /\ NewAsset.reserved = 0 /\ NewAsset.beneficiary_fees = 0
      /\ EmptyPool.shares = 0 /\ EmptyPool.balance = 0
  BY DEF NewAsset, EmptyPool
<1>4. AllSound
  BY <1>2, <1>3 DEF AllSound, SoundAsset, SoundPool, PoolInvariant
<1>5. PaymentsFit
  BY <1>2 DEF PaymentsFit
<1>6. PricesPositive
  BY <1>2, PriceAssumption DEF PricesPositive
<1>7. DebtIsBacked
  BY <1>2 DEF DebtIsBacked
<1>8. ASSUME NEW t \in Tokens PROVE InFlight(t) = 0
  <2> DEFINE f == [s \in Slots |-> OfToken(s, t)]
  <2>1. Owner \in Accounts /\ TypeOK
    BY <1>1, AccountsAssumption DEF Inv
  <2>2. InFlight(t) = SumFunctionOnSet(f, Slots)
    BY <2>1, PaymentTypes
  <2>3. \A s \in Slots : f[s] = 0
    BY <1>2 DEF OfToken
  <2> HIDE DEF f
  <2> QED BY <2>2, <2>3, SlotsAssumption, SumZero
<1>9. CashCoversClaims
  BY <1>2, <1>3, <1>8 DEF CashCoversClaims, Unclaimed
<1>10. AllAvailable
  BY <1>2, <1>3 DEF AllAvailable, AvailableAmount
<1> QED BY <1>1, <1>4, <1>5, <1>6, <1>7, <1>9, <1>10 DEF Safe

\* What every step keeps, and what only the market may do.
LEMMA NextSafe ==
  Safe /\ [Next]_vars => Safe' /\ PricesKept /\ DustOnly /\ (Market \/ NobodyHurt)
<1> SUFFICES ASSUME Safe, [Next]_vars
             PROVE  Safe' /\ PricesKept /\ DustOnly /\ (Market \/ NobodyHurt)
  OBVIOUS
<1>1. ASSUME NEW a \in Accounts, NEW t \in Tokens, Transferred(a, t)
      PROVE  StepOK
  BY <1>1, DepositStep, OnlyIncreaseCollateralStep, OnlyRepayStep, DepositToReserveStep
  DEF Transferred
<1>2. ASSUME NEW a \in Accounts, NEW t \in Tokens, Execute(a, t)
      PROVE  StepOK
  BY <1>2, IncreaseCollateralStep, DecreaseCollateralStep, BorrowStep, RepayStep, WithdrawStep
  DEF Execute
<1>3. ASSUME NEW a \in Accounts, NEW t \in Tokens, WithdrawSimply(a, t)
      PROVE  StepOK
  BY <1>3, WithdrawBySharesStep, SimpleWithdrawStep, SimpleWithdrawNowStep,
     SimpleWithdrawAskStep
  DEF WithdrawSimply
<1>4. ASSUME NEW a \in Accounts, Close(a)
      PROVE  StepOK
  BY <1>4, ForceCloseStep, LiquidateStep DEF Close
<1>5. ASSUME NEW s \in Slots, Callback(s)
      PROVE  StepOK
  <2>1. transfer[s] \in TransferType
    BY <1>5 DEF Safe, Inv, TypeOK, Callback
  <2>2. PICK a \in Accounts : a = transfer[s].account
    BY <2>1 DEF TransferType
  <2> QED
    BY <1>5, <2>2, TransferSucceedsStep, RefundStep, RefundLostStep, BeneficiaryRefundStep,
       BeneficiaryRefundLostStep
    DEF Callback
<1>6. ASSUME Administer PROVE StepOK
  BY <1>6, IncreaseReservedStep, DecreaseReservedStep, WithdrawBeneficiaryFeeStep
  DEF Administer
<1>7. ASSUME NEW a \in Accounts, Register(a) \/ Unregister(a)
      PROVE  StepOK
  BY <1>7, RegistryStep
<1>8. ASSUME NEW a \in Accounts, SimpleWithdrawResume(a) \/ SimpleWithdrawAbort(a)
      PROVE  StepOK
  BY <1>8, SimpleWithdrawResumeStep, SimpleWithdrawAbortStep
<1>9. ASSUME Market PROVE Safe' /\ PricesKept /\ DustOnly
  BY <1>9, AccrueStep, UpdatePriceStep DEF Market
<1>10. ASSUME UNCHANGED vars PROVE StepOK
  <2>1. Inv'
    BY NextInv DEF Safe
  <2>2. UNCHANGED <<asset, supplied, collateral, borrowed, transfer, price, cash, wallet>>
    BY <1>10 DEF vars
  <2> QED BY <2>1, <2>2, NothingMoves
<1>11. CASE Market
  BY <1>9, <1>11
<1>12. CASE ~ Market
  <2>1. StepOK
    BY <1>1, <1>2, <1>3, <1>4, <1>5, <1>6, <1>7, <1>8, <1>10, <1>12 DEF Next
  <2> QED BY <2>1 DEF StepOK
<1> QED BY <1>11, <1>12

\* What a caller starts, and the callback of it, leaves the caller no better off.
LEMMA CallsCost ==
  ASSUME Safe, NEW a \in Accounts, CallOf(a)
  PROVE  NoGain(a)
<1>1. ASSUME NEW t \in Tokens, Transferred(a, t)
      PROVE  NoGain(a)
  BY <1>1, DepositStep, OnlyIncreaseCollateralStep, OnlyRepayStep, DepositToReserveStep
  DEF Transferred
<1>2. ASSUME NEW t \in Tokens, Execute(a, t)
      PROVE  NoGain(a)
  BY <1>2, IncreaseCollateralStep, DecreaseCollateralStep, BorrowStep, RepayStep, WithdrawStep
  DEF Execute
<1>3. ASSUME NEW t \in Tokens, WithdrawSimply(a, t)
      PROVE  NoGain(a)
  BY <1>3, WithdrawBySharesStep, SimpleWithdrawStep, SimpleWithdrawNowStep,
     SimpleWithdrawAskStep
  DEF WithdrawSimply
<1>4. ASSUME SimpleWithdrawResume(a) PROVE NoGain(a)
  BY <1>4, SimpleWithdrawResumeStep
<1>5. ASSUME NEW s \in Slots, transfer[s].account = a, Callback(s)
      PROVE  NoGain(a)
  BY <1>5, TransferSucceedsStep, RefundStep, RefundLostStep, BeneficiaryRefundStep,
     BeneficiaryRefundLostStep
  DEF Callback
<1> QED BY <1>1, <1>2, <1>3, <1>4, <1>5 DEF CallOf

\* What an account is worth is a number, in a state and in the one a step leads to.
LEMMA WorthType ==
  ASSUME NEW a \in Accounts, NEW t \in Tokens
  PROVE  (Safe => Worth(a, t) \in Int) /\ (Safe' => Worth(a, t)' \in Int)
<1>1. Safe => Worth(a, t) \in Int
  <2> SUFFICES ASSUME Safe PROVE Worth(a, t) \in Int
    OBVIOUS
  <2> DEFINE s == SharesToAmount(asset[t].supplied, Held(a, t), FALSE)
             b == SharesToAmount(asset[t].borrowed, borrowed[a][t], TRUE)
             w == wallet[a][t]
             p == Payments(a, t)
  <2>1. /\ Held(a, t) \in Nat /\ Held(a, t) <= asset[t].supplied.shares
        /\ borrowed[a][t] \in Nat /\ borrowed[a][t] <= asset[t].borrowed.shares
    BY SafeAsset, SharesBound, PartsBound
  <2>2. s \in Nat /\ b \in Nat
    BY <2>1, SafeAsset, ExactAmount
  <2>3. w \in Nat /\ p \in Nat
    BY SafeAsset, PaymentTypes DEF TypeOK
  <2>4. Worth(a, t) = w + p + s - b
    BY DEF Worth, Held
  <2> HIDE DEF s, b, w, p
  <2> QED BY <2>2, <2>3, <2>4
<1>2. (Safe => Worth(a, t) \in Int)'
  BY <1>1, PTL
<1> QED BY <1>1, <1>2

\* The invariant in every reachable state.
THEOREM Safety == Spec => []Safe
BY InitSafe, NextSafe, PTL DEF Spec

\* Solvency, for every number of accounts, tokens and payments under way: the
\* tokens held and lent out cover what suppliers, reserve, beneficiary and
\* payments are owed.
THEOREM ClaimsAreCovered == Spec => []CashCoversClaims
BY Safety, PTL DEF Safe

\* Nobody owes anything without a share in pledge.
THEOREM DebtsAreBacked == Spec => []DebtIsBacked
BY Safety, PTL DEF Safe

\* A payment that fails is credited again if its account is still there,
\* whatever was called between.
THEOREM RefundsSucceed == Spec => []RefundsCanBeSaved
<1>1. ASSUME Safe PROVE RefundsCanBeSaved
  <2> SUFFICES ASSUME NEW s \in Slots, transfer[s] # NoTransfer,
                      transfer[s].account \in registered,
                      NEW used \in 0 .. transfer[s].ft_amount
               PROVE  CanRefund(transfer[s], used)
    BY DEF RefundsCanBeSaved
  <2>1. transfer[s] \in TransferType /\ PaymentFits(transfer[s])
    BY <1>1 DEF Safe, Inv, TypeOK, PaymentsFit
  <2>2. CanSave(Refunded(transfer[s], used), FALSE)
    BY <1>1, <2>1, Refundable
  <2> QED BY <2>2 DEF CanRefund
<1> QED BY <1>1, Safety, PTL

\* Where no beneficiary shares in the fees, the contract holds the tokens of
\* every payment it has started.
THEOREM PaymentsAreFunded ==
  ASSUME NoBeneficiary PROVE Spec => []PaymentsFunded
<1>1. ASSUME Safe PROVE PaymentsFunded
  <2> SUFFICES ASSUME NEW t \in Tokens PROVE cash[t] >= InFlight(t)
    BY DEF PaymentsFunded
  <2>1. /\ asset[t].supplied.balance \in Nat /\ asset[t].borrowed.balance \in Nat
        /\ asset[t].reserved \in Nat /\ asset[t].beneficiary_fees \in Nat
        /\ cash[t] \in Nat /\ InFlight(t) \in Nat
    BY <1>1, TallyType DEF Safe, Inv
  <2>2. Unclaimed(t) >= 0
    BY <1>1 DEF Safe, CashCoversClaims
  <2>3. AvailableAmount(asset[t]) >= 0
    BY <1>1 DEF Safe, AllAvailable
  <2> QED BY <2>1, <2>2, <2>3 DEF Unclaimed, AvailableAmount
<1> QED BY <1>1, Safety, PTL

\* No share of a supply loses value in any step.
THEOREM SuppliersKeepValue == Spec => SupplyPriceNeverFalls
<1>1. Safe /\ [Next]_vars =>
         [\A t \in Tokens :
             asset'[t].supplied.shares > 0
                => PriceNotLower(asset[t].supplied, asset'[t].supplied)]_vars
  BY NextSafe DEF PricesKept
<1> QED BY <1>1, Safety, PTL DEF Spec, SupplyPriceNeverFalls

\* No call puts a healthy position at risk; only interest and prices do.
THEOREM HealthIsTheMarkets == Spec => OnlyMarketHurts
<1>1. Safe /\ [Next]_vars =>
         [Market \/ \A a \in Accounts :
             Healthy(a) => ~ AtRisk(asset', collateral'[a], borrowed'[a], price')]_vars
  BY NextSafe DEF NobodyHurt
<1> QED BY <1>1, Safety, PTL DEF Spec, OnlyMarketHurts

\* What is lost of the tokens in a step is less than one unit of the token
\* contract, unless a callback aborts.
THEOREM LossIsDust == Spec => OnlyDustIsLost
<1>1. Safe /\ [Next]_vars =>
         [\A t \in Tokens :
             /\ Unclaimed(t)' >= Unclaimed(t)
             /\ \/ Unclaimed(t)' - Unclaimed(t) < Scale
                \/ \E s \in Slots : Abandoned(s)]_vars
  BY NextSafe DEF DustOnly
<1> QED BY <1>1, Safety, PTL DEF Spec, OnlyDustIsLost

\* No caller gains by rounding, in any of the calls it makes or of the callbacks
\* that end them.
THEOREM RoundingNeverPays == Spec => CallerNeverGains
<1>1. Safe /\ [Next]_vars =>
         [\A a \in Accounts :
             (\E t \in Tokens : Worth(a, t)' > Worth(a, t)) => ~ CallOf(a)]_vars
  <2> SUFFICES ASSUME Safe, Next, NEW a \in Accounts, NEW t \in Tokens,
                      Worth(a, t)' > Worth(a, t), CallOf(a)
               PROVE  FALSE
    OBVIOUS
  <2>1. Worth(a, t)' <= Worth(a, t)
    BY CallsCost DEF NoGain
  <2>2. Worth(a, t) \in Int /\ Worth(a, t)' \in Int
    BY NextSafe, WorthType
  <2> QED BY <2>1, <2>2
<1> QED BY <1>1, Safety, PTL DEF Spec, CallerNeverGains
=============================================================================
