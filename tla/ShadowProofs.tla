----------------------------- MODULE ShadowProofs -----------------------------
(***************************************************************************)
(* What holds of LP tokens as collateral in every instance of Shadow, for  *)
(* any accounts, any values of an LP token and any number of calls under   *)
(* way.                                                                    *)
(*                                                                         *)
(* The proofs build on one another: the types together with the            *)
(* conservation of shares (TypedInvariant), then what the exchange keeps   *)
(* by itself (SharesCover), then who is locked while a settlement is under *)
(* way, and with it that the exchange's record agrees with the lending     *)
(* contract's books but for the calls between the two (MatchingInvariant,  *)
(* ShadowsMatch).  Each has a step for every action.                       *)
(***************************************************************************)
EXTENDS Shadow, PoolProofs, SequenceTheorems

-----------------------------------------------------------------------------
(***************************************************************************)
(* Sums over accounts, and calls in a sequence.                            *)
(***************************************************************************)

\* A balance that grows adds as much to the total.
LEMMA PlusTotal ==
  ASSUME NEW f \in [Accounts -> Nat], NEW a \in Accounts, NEW n \in Nat
  PROVE  /\ Plus(f, a, n) \in [Accounts -> Nat]
         /\ Total(Plus(f, a, n)) = Total(f) + n
<1> DEFINE g == Plus(f, a, n)
<1>0. IsFiniteSet(Accounts) BY ShadowAccounts
<1>1. g \in [Accounts -> Nat] BY DEF Plus
<1>2. g[a] = f[a] + n BY DEF Plus
<1>a. \A b \in Accounts \ {a} : f[b] = g[b] BY DEF Plus
<1> HIDE DEF g
<1>3. \A b \in Accounts : f[b] \in Nat /\ g[b] \in Nat BY <1>1
<1>4. SumFunctionOnSet(g, Accounts) = SumFunctionOnSet(f, Accounts) - f[a] + g[a]
  BY <1>0, <1>a, <1>3, SumChange
<1>5. SumFunctionOnSet(f, Accounts) \in Nat BY <1>3, SumType, ShadowAccounts
<1>6. Total(f) = SumFunctionOnSet(f, Accounts) /\ Total(g) = SumFunctionOnSet(g, Accounts)
  BY <1>1 DEF Total, SumFunction
<1>7. f[a] \in Nat OBVIOUS
<1>8. Total(g) = Total(f) + n BY <1>2, <1>4, <1>5, <1>6, <1>7
<1> QED BY <1>1, <1>8 DEF g

\* A balance that shrinks takes as much from the total, which held it.
LEMMA MinusTotal ==
  ASSUME NEW f \in [Accounts -> Nat], NEW a \in Accounts, NEW n \in Nat, n <= f[a]
  PROVE  /\ Minus(f, a, n) \in [Accounts -> Nat]
         /\ Total(Minus(f, a, n)) = Total(f) - n
         /\ n <= Total(f)
<1> DEFINE g == Minus(f, a, n)
<1>0. IsFiniteSet(Accounts) BY ShadowAccounts
<1>1. g \in [Accounts -> Nat] BY DEF Minus
<1>2. g[a] = f[a] - n BY DEF Minus
<1>a. \A b \in Accounts \ {a} : f[b] = g[b] BY DEF Minus
<1> HIDE DEF g
<1>3. \A b \in Accounts : f[b] \in Nat /\ g[b] \in Nat BY <1>1
<1>4. SumFunctionOnSet(g, Accounts) = SumFunctionOnSet(f, Accounts) - f[a] + g[a]
  BY <1>0, <1>a, <1>3, SumChange
<1>5. SumFunctionOnSet(f, Accounts) \in Nat /\ f[a] <= SumFunctionOnSet(f, Accounts)
  BY <1>3, SumType, SumBound, ShadowAccounts
<1>6. Total(f) = SumFunctionOnSet(f, Accounts) /\ Total(g) = SumFunctionOnSet(g, Accounts)
  BY <1>1 DEF Total, SumFunction
<1>7. f[a] \in Nat OBVIOUS
<1>8. Total(g) = Total(f) - n /\ n <= Total(f) BY <1>2, <1>4, <1>5, <1>6, <1>7
<1> QED BY <1>1, <1>8 DEF g

\* A total is a number that no account's balance exceeds.
LEMMA TotalBound ==
  ASSUME NEW f \in [Accounts -> Nat]
  PROVE  Total(f) \in Nat /\ \A a \in Accounts : f[a] <= Total(f)
<1>1. \A b \in Accounts : f[b] \in Nat OBVIOUS
<1>2. Total(f) = SumFunctionOnSet(f, Accounts) BY DEF Total, SumFunction
<1>3. SumFunctionOnSet(f, Accounts) \in Nat BY <1>1, SumType, ShadowAccounts
<1>4. \A a \in Accounts : f[a] <= SumFunctionOnSet(f, Accounts)
  BY <1>1, SumBound, ShadowAccounts
<1> QED BY <1>2, <1>3, <1>4

\* What two balances hold together.
LEMMA TotalOfBoth ==
  ASSUME NEW f \in [Accounts -> Nat], NEW g \in [Accounts -> Nat]
  PROVE  Total([a \in Accounts |-> f[a] + g[a]]) = Total(f) + Total(g)
<1> DEFINE h == [a \in Accounts |-> f[a] + g[a]]
<1>1. \A a \in Accounts : f[a] \in Nat /\ g[a] \in Nat /\ h[a] = f[a] + g[a] OBVIOUS
<1>2. DOMAIN h = Accounts OBVIOUS
<1> HIDE DEF h
<1>3. SumFunctionOnSet(h, Accounts) = SumFunctionOnSet(f, Accounts) + SumFunctionOnSet(g, Accounts)
  BY <1>1, SumPlus, ShadowAccounts
<1>4. /\ Total(f) = SumFunctionOnSet(f, Accounts) /\ Total(g) = SumFunctionOnSet(g, Accounts)
      /\ Total(h) = SumFunctionOnSet(h, Accounts)
  BY <1>2 DEF Total, SumFunction
<1>5. Total(h) = Total(f) + Total(g) BY <1>3, <1>4
<1> QED BY <1>5 DEF h

\* Nothing is held in all.
LEMMA TotalOfNothing ==
  Total([a \in Accounts |-> 0]) = 0
<1> DEFINE z == [a \in Accounts |-> 0]
<1>1. DOMAIN z = Accounts /\ \A a \in Accounts : z[a] = 0 OBVIOUS
<1> HIDE DEF z
<1>2. SumFunctionOnSet(z, Accounts) = 0 BY <1>1, SumZero, ShadowAccounts
<1>3. Total(z) = 0 BY <1>1, <1>2 DEF Total, SumFunction
<1> QED BY <1>3 DEF z

\* where the entry j of a sequence without its i-th was before
Before(i, j) == IF j < i THEN j ELSE j + 1

\* What is left of a sequence without one of its entries.
LEMMA Removed ==
  ASSUME NEW S, NEW cs \in Seq(S), NEW i \in DOMAIN cs
  PROVE  /\ RemoveAt(cs, i) \in Seq(S)
         /\ Len(cs) \in Nat \ {0} /\ i \in 1 .. Len(cs)
         /\ Len(RemoveAt(cs, i)) = Len(cs) - 1
         /\ DOMAIN RemoveAt(cs, i) = 1 .. Len(cs) - 1
         /\ \A j \in 1 .. Len(cs) - 1 : /\ Before(i, j) \in DOMAIN cs \ {i}
                                        /\ RemoveAt(cs, i)[j] = cs[Before(i, j)]
<1> DEFINE s1 == SubSeq(cs, 1, i - 1)
           s2 == SubSeq(cs, i + 1, Len(cs))
<1>1. Len(cs) \in Nat /\ DOMAIN cs = 1 .. Len(cs) BY LenProperties
<1>2. i \in 1 .. Len(cs) BY <1>1
<1>3. \A j \in 1 .. Len(cs) : cs[j] \in S BY <1>1, ElementOfSeq
<1>4. /\ s1 \in Seq(S) /\ Len(s1) = i - 1
      /\ \A j \in 1 .. i - 1 : s1[j] = cs[j]
  <2>1. \A j \in 1 .. i - 1 : cs[j] \in S BY <1>1, <1>2, <1>3
  <2>2. 1 \in Int /\ i - 1 \in Int BY <1>1, <1>2
  <2>3. /\ s1 \in Seq(S)
        /\ Len(s1) = IF 1 <= i - 1 THEN i - 1 - 1 + 1 ELSE 0
        /\ \A j \in 1 .. i - 1 - 1 + 1 : s1[j] = cs[1 + j - 1]
    BY <2>1, <2>2, SubSeqProperties
  <2>4. i - 1 - 1 + 1 = i - 1 /\ (~ 1 <= i - 1 => i - 1 = 0) BY <1>1, <1>2
  <2>5. \A j \in 1 .. i - 1 : 1 + j - 1 = j BY <1>1, <1>2
  <2> HIDE DEF s1
  <2> QED BY <2>3, <2>4, <2>5
<1>5. /\ s2 \in Seq(S) /\ Len(s2) = Len(cs) - i
      /\ \A j \in 1 .. Len(cs) - i : s2[j] = cs[i + j]
  <2>1. \A j \in i + 1 .. Len(cs) : cs[j] \in S BY <1>1, <1>2, <1>3
  <2>2. i + 1 \in Int /\ Len(cs) \in Int BY <1>1, <1>2
  <2>3. /\ s2 \in Seq(S)
        /\ Len(s2) = IF i + 1 <= Len(cs) THEN Len(cs) - (i + 1) + 1 ELSE 0
        /\ \A j \in 1 .. Len(cs) - (i + 1) + 1 : s2[j] = cs[i + 1 + j - 1]
    BY <2>1, <2>2, SubSeqProperties
  <2>4. /\ Len(cs) - (i + 1) + 1 = Len(cs) - i
        /\ ~ i + 1 <= Len(cs) => Len(cs) - i = 0
    BY <1>1, <1>2
  <2>5. \A j \in 1 .. Len(cs) - i : i + 1 + j - 1 = i + j BY <1>1, <1>2
  <2> HIDE DEF s2
  <2> QED BY <2>3, <2>4, <2>5
<1>6. RemoveAt(cs, i) = s1 \o s2 BY DEF RemoveAt
<1> HIDE DEF s1, s2
<1>7. /\ s1 \o s2 \in Seq(S)
      /\ Len(s1 \o s2) = Len(s1) + Len(s2)
      /\ \A j \in 1 .. Len(s1) + Len(s2) :
            (s1 \o s2)[j] = IF j <= Len(s1) THEN s1[j] ELSE s2[j - Len(s1)]
  BY <1>4, <1>5, ConcatProperties
<1>8. Len(s1) + Len(s2) = Len(cs) - 1 BY <1>1, <1>2, <1>4, <1>5
<1>9. DOMAIN (s1 \o s2) = 1 .. Len(cs) - 1 BY <1>7, <1>8, LenProperties
<1>10. \A j \in 1 .. Len(cs) - 1 :
          /\ Before(i, j) \in DOMAIN cs \ {i}
          /\ (s1 \o s2)[j] = cs[Before(i, j)]
  <2> TAKE j \in 1 .. Len(cs) - 1
  <2>1. CASE j < i
    <3>1. j \in 1 .. i - 1 /\ j <= Len(s1) /\ j \in DOMAIN cs \ {i} BY <1>1, <1>2, <1>4, <2>1
    <3>2. (s1 \o s2)[j] = s1[j] BY <1>7, <1>8, <3>1
    <3> QED BY <1>4, <2>1, <3>1, <3>2 DEF Before
  <2>2. CASE ~ j < i
    <3>1. /\ j - (i - 1) \in 1 .. Len(cs) - i /\ ~ j <= Len(s1) /\ j + 1 \in DOMAIN cs \ {i}
          /\ i + (j - (i - 1)) = j + 1
      BY <1>1, <1>2, <1>4, <2>2
    <3>2. (s1 \o s2)[j] = s2[j - (i - 1)] BY <1>4, <1>7, <1>8, <3>1
    <3>3. s2[j - (i - 1)] = cs[j + 1] BY <1>5, <3>1
    <3> QED BY <2>2, <3>1, <3>2, <3>3 DEF Before
  <2> QED BY <2>1, <2>2
<1>a. Len(cs) \in Nat \ {0} BY <1>1, <1>2
<1>b. Len(s1 \o s2) = Len(cs) - 1 BY <1>7, <1>8
<1>11. Len(cs) \in Nat \ {0} /\ Len(RemoveAt(cs, i)) = Len(cs) - 1 BY <1>a, <1>b, <1>6
<1> QED BY <1>2, <1>6, <1>7, <1>9, <1>10, <1>11

-----------------------------------------------------------------------------
(***************************************************************************)
(* The calls under way.                                                    *)
(***************************************************************************)

\* An answer changes the stage of a call, and nothing else of it.
LEMMA AnsweredCall ==
  ASSUME NEW c \in CallType, NEW s \in Stages
  PROVE  LET d == [c EXCEPT !.stage = s]
         IN  /\ d \in CallType
             /\ d.stage = s /\ d.kind = c.kind /\ d.account = c.account /\ d.amount = c.amount
             /\ c.kind = "Liquidate" => d.liquidator = c.liquidator /\ d.in = c.in
<1>1. CASE c \in ShadowCalls
  BY <1>1 DEF CallType, ShadowCalls, ToSteps, FromSteps
<1>2. CASE c \in SeedCalls
  BY <1>2 DEF CallType, SeedCalls
<1>3. CASE c \in Liquidations
  BY <1>3 DEF CallType, Liquidations
<1>4. CASE c \in ForcedCalls
  BY <1>4 DEF CallType, ForcedCalls
<1> QED BY <1>1, <1>2, <1>3, <1>4 DEF CallType

\* What is common to calls.
LEMMA CallFields ==
  ASSUME NEW c \in CallType
  PROVE  /\ c.account \in Accounts /\ c.amount \in Nat /\ c.stage \in Stages
         /\ c.kind \in ToSteps \cup FromSteps \cup {"Unstake", "Liquidate", "ForceClose"}
         /\ c.kind \in ToSteps \cup FromSteps => c.execute \in BOOLEAN
         /\ c.kind = "Liquidate" => c.liquidator \in Accounts /\ c.in \in RequestType
<1>1. CASE c \in ShadowCalls
  BY <1>1 DEF ShadowCalls, ToSteps, FromSteps
<1>2. CASE c \in SeedCalls
  BY <1>2 DEF SeedCalls, ToSteps, FromSteps
<1>3. CASE c \in Liquidations
  BY <1>3 DEF Liquidations, ToSteps, FromSteps
<1>4. CASE c \in ForcedCalls
  BY <1>4 DEF ForcedCalls, ToSteps, FromSteps
<1> QED BY <1>1, <1>2, <1>3, <1>4 DEF CallType

\* An answer leaves the other calls where they are.
LEMMA Answer ==
  ASSUME NEW cs \in Seq(CallType), NEW i \in DOMAIN cs, NEW s \in Stages
  PROVE  LET after == [cs EXCEPT ![i].stage = s]
         IN  /\ after \in Seq(CallType)
             /\ Len(after) = Len(cs) /\ DOMAIN after = DOMAIN cs
             /\ \A j \in DOMAIN cs \ {i} : after[j] = cs[j]
             /\ after[i] = [cs[i] EXCEPT !.stage = s]
<1> DEFINE after == [cs EXCEPT ![i].stage = s]
           d == [cs[i] EXCEPT !.stage = s]
<1>1. Len(cs) \in Nat /\ DOMAIN cs = 1 .. Len(cs)
  BY LenProperties
<1>2. cs[i] \in CallType
  BY <1>1, ElementOfSeq
<1>3. d \in CallType
  BY <1>2, AnsweredCall
<1>4. after = [cs EXCEPT ![i] = d]
  OBVIOUS
<1> HIDE DEF d
<1>5. /\ [cs EXCEPT ![i] = d] \in Seq(CallType)
      /\ Len([cs EXCEPT ![i] = d]) = Len(cs)
      /\ \A j \in 1 .. Len(cs) : [cs EXCEPT ![i] = d][j] = IF j = i THEN d ELSE cs[j]
  BY <1>1, <1>3, ExceptSeq
<1>6. DOMAIN after = DOMAIN cs
  BY <1>4
<1> HIDE DEF after
<1>7. /\ \A j \in DOMAIN cs \ {i} : after[j] = cs[j]
      /\ after[i] = d
  BY <1>1, <1>4, <1>5
<1> QED BY <1>4, <1>5, <1>6, <1>7 DEF d, after

-----------------------------------------------------------------------------
(***************************************************************************)
(* Types, and the conservation of shares.                                  *)
(***************************************************************************)

\* every share of the dollar's pools is some account's, and the asset's supply
\* holds the LP tokens of the accounts
Books ==
    /\ usd.supplied.shares = Total(dollars)
    /\ usd.borrowed.shares = Total(debt)
    /\ lpSupply >= Total(lp) + Total(collateral)

Typed == TypeOK /\ Books

\* Saving an asset sweeps a supply nobody has a share of into the reserve.
LEMMA NormalizedType ==
  ASSUME NEW asset \in UsdType
  PROVE  /\ Normalized(asset) \in UsdType
         /\ Normalized(asset).supplied.shares = asset.supplied.shares
         /\ Normalized(asset).borrowed = asset.borrowed
<1>1. /\ asset.supplied \in PoolType /\ asset.borrowed \in PoolType /\ asset.reserved \in Nat
  BY DEF UsdType
<1>a. asset.supplied.shares \in Nat /\ asset.supplied.balance \in Nat
  BY <1>1 DEF PoolType
<1>2. EmptyPool \in PoolType /\ EmptyPool.shares = 0
  BY DEF EmptyPool, PoolType
<1>3. CASE asset.supplied.shares = 0
  <2>1. Normalized(asset) = [asset EXCEPT !.reserved = @ + asset.supplied.balance, !.supplied = EmptyPool]
    BY <1>3 DEF Normalized
  <2> DEFINE swept == asset.supplied.balance
             kept  == asset.reserved
  <2>2. kept + swept \in Nat
    <3>1. kept \in Nat /\ swept \in Nat BY <1>1, <1>a
    <3> HIDE DEF kept, swept
    <3> QED BY <3>1
  <2> HIDE DEF Normalized
  <2> QED BY <1>1, <1>2, <1>3, <2>1, <2>2 DEF UsdType
<1>4. CASE asset.supplied.shares # 0
  BY <1>4 DEF Normalized
<1> QED BY <1>3, <1>4

\* What a repayment moves, for a debt that is part of the pool.
LEMMA InverseMoveType ==
  ASSUME NEW pool \in PoolType, NEW available \in Nat, available <= pool.shares,
         NEW req \in RequestType
  PROVE  LET move == AssetAmountToShares(pool, available, req, TRUE)
         IN  move.shares \in Nat /\ move.amount \in Nat
<1>1. \E r \in RequestsOver(Nat) :
         AssetAmountToShares(pool, available, req, TRUE)
            = AssetAmountToShares(pool, available, r, TRUE)
  <2>1. CASE req.kind = "available"
    <3>1. Everything \in RequestsOver(Nat) /\ Everything.kind = "available"
      BY DEF RequestsOver, Everything
    <3>2. AssetAmountToShares(pool, available, req, TRUE)
             = AssetAmountToShares(pool, available, Everything, TRUE)
      BY <2>1, <3>1 DEF AssetAmountToShares
    <3> QED BY <3>1, <3>2
  <2>2. CASE req.kind = "amount"
    BY <2>2 DEF RequestType, RequestsOver, Exactly
  <2>3. CASE req.kind = "max_amount"
    BY <2>3 DEF RequestType, RequestsOver, AtMost
  <2> QED BY <2>1, <2>2, <2>3 DEF RequestType
<1>2. PICK r \in RequestsOver(Nat) :
         AssetAmountToShares(pool, available, req, TRUE)
            = AssetAmountToShares(pool, available, r, TRUE)
  BY <1>1
<1> QED BY <1>2, HeldMoveType

\* A repayment takes from its payer what it has, and moves natural numbers.
LEMMA RepaidMove ==
  ASSUME Typed, NEW payer \in Accounts, NEW debtor \in Accounts, NEW req \in RequestType
  PROVE  LET move == RepayMove(payer, debtor, req)
         IN  /\ move.burnt \in Nat /\ move.burnt <= dollars[payer]
             /\ move.repaid \in Nat /\ move.amount \in Nat
<1> DEFINE whole == AssetAmountToShares(usd.borrowed, debt[debtor], req, TRUE)
           cost  == AmountToShares(usd.supplied, whole.amount, TRUE)
           all   == SharesToAmount(usd.supplied, dollars[payer], FALSE)
           part  == AmountToShares(usd.borrowed, all, FALSE)
           move  == RepayMove(payer, debtor, req)
<1>1. /\ usd.supplied \in PoolType /\ usd.borrowed \in PoolType
      /\ dollars \in [Accounts -> Nat] /\ debt \in [Accounts -> Nat]
      /\ dollars[payer] \in Nat /\ debt[debtor] \in Nat
  BY DEF Typed, TypeOK, UsdType
<1>2. dollars[payer] <= usd.supplied.shares /\ debt[debtor] <= usd.borrowed.shares
  BY <1>1, TotalBound DEF Typed, Books
<1>3. whole.shares \in Nat /\ whole.amount \in Nat
  BY <1>1, <1>2, InverseMoveType
<1>4. move = IF cost <= dollars[payer]
             THEN [burnt |-> cost, repaid |-> whole.shares, amount |-> whole.amount]
             ELSE [burnt |-> dollars[payer], repaid |-> part, amount |-> all]
  BY DEF RepayMove
<1> HIDE DEF whole, move
<1>5. cost \in Nat
  BY <1>1, <1>3, AmountToSharesType
<1>6. all \in Nat
  BY <1>1, <1>2, SharesToAmountType DEF Convertible
<1> HIDE DEF all, cost
<1>7. part \in Nat
  BY <1>1, <1>6, AmountToSharesType
<1> HIDE DEF part
<1>8. /\ move.burnt \in Nat /\ move.burnt <= dollars[payer]
      /\ move.repaid \in Nat /\ move.amount \in Nat
  <2>1. CASE cost <= dollars[payer]
    BY <1>1, <1>3, <1>4, <1>5, <2>1
  <2>2. CASE ~ cost <= dollars[payer]
    BY <1>1, <1>4, <1>6, <1>7, <2>2
  <2> QED BY <2>1, <2>2
<1> QED BY <1>8 DEF move

\* What a repayment leaves of the pools.
LEMMA Repaid ==
  ASSUME Typed, NEW move, NEW checked, CanSaveRepaid(move, checked),
         move.burnt \in Nat, move.repaid \in Nat, move.amount \in Nat
  PROVE  LET asset == Normalized(AfterRepay(move))
         IN  /\ asset \in UsdType
             /\ asset.supplied.shares = usd.supplied.shares - move.burnt
             /\ asset.borrowed.shares = usd.borrowed.shares - move.repaid
<1> DEFINE s == PoolWithdraw(usd.supplied, move.burnt, move.amount)
           b == PoolWithdraw(usd.borrowed, move.repaid, move.amount)
           asset == AfterRepay(move)
<1>1. usd \in UsdType /\ usd.supplied \in PoolType /\ usd.borrowed \in PoolType
  BY DEF Typed, TypeOK, UsdType
<1>2. s \in PoolType /\ b \in PoolType
  BY <1>1, PoolOperations DEF CanSaveRepaid
<1>3. s.shares = usd.supplied.shares - move.burnt /\ b.shares = usd.borrowed.shares - move.repaid
  BY DEF PoolWithdraw
<1>4. asset = [usd EXCEPT !.supplied = s, !.borrowed = b]
  BY DEF AfterRepay
<1> HIDE DEF s, b, asset
<1>5. asset \in UsdType /\ asset.supplied = s /\ asset.borrowed = b
  BY <1>1, <1>2, <1>4 DEF UsdType
<1>6. /\ Normalized(asset) \in UsdType
      /\ Normalized(asset).supplied.shares = asset.supplied.shares
      /\ Normalized(asset).borrowed = asset.borrowed
  BY <1>5, NormalizedType
<1> QED BY <1>3, <1>5, <1>6 DEF asset

\* Calls that are answered, sent or heard stay calls.
LEMMA CallsAfter ==
  ASSUME calls \in Seq(CallType),
         \/ \E c \in CallType : Send(c)
         \/ (\E i \in DOMAIN calls : Drop(i))
         \/ (\E i \in DOMAIN calls, s \in Stages : calls' = Answered(i, s))
         \/ UNCHANGED calls
  PROVE  calls' \in Seq(CallType)
<1>1. CASE \E c \in CallType : Send(c)
  BY <1>1, AppendProperties DEF Send
<1>2. CASE \E i \in DOMAIN calls : Drop(i)
  BY <1>2, Removed DEF Drop
<1>3. CASE \E i \in DOMAIN calls, s \in Stages : calls' = Answered(i, s)
  BY <1>3, Answer DEF Answered
<1> QED BY <1>1, <1>2, <1>3

\* An entry of the calls is a call.
LEMMA CallAt ==
  ASSUME Typed, NEW i \in DOMAIN calls
  PROVE  calls[i] \in CallType
<1>1. calls \in Seq(CallType) BY DEF Typed, TypeOK
<1>2. i \in 1 .. Len(calls) BY <1>1, LenProperties
<1> QED BY <1>1, <1>2, ElementOfSeq

\* the part of the state the exchange keeps, the farm's, and the lending
\* contract's
ExchangeTyped == shares \in [Accounts -> Nat] /\ record \in [Accounts -> RecordType]
SeedTyped == seed \in [Accounts -> Nat]
LendingTyped ==
    /\ lpSupply \in Nat /\ usd \in UsdType
    /\ lp \in [Accounts -> Nat] /\ dollars \in [Accounts -> Nat]
    /\ collateral \in [Accounts -> Nat] /\ debt \in [Accounts -> Nat]
    /\ locked \subseteq Accounts /\ value \in Nat
    /\ Books

\* The types, put together.
LEMMA TypedParts ==
  ASSUME ExchangeTyped', SeedTyped', LendingTyped', (calls \in Seq(CallType))'
  PROVE  Typed'
BY DEF Typed, TypeOK, ExchangeTyped, SeedTyped, LendingTyped

\* What an action does not touch keeps its type.
LEMMA PartsKept ==
  ASSUME Typed
  PROVE  /\ UNCHANGED exchangeVars => ExchangeTyped'
         /\ UNCHANGED seed => SeedTyped'
         /\ UNCHANGED lendingVars => LendingTyped'
<1>1. UNCHANGED exchangeVars => ExchangeTyped'
  BY DEF exchangeVars, ExchangeTyped, Typed, TypeOK
<1>2. UNCHANGED seed => SeedTyped'
  BY DEF SeedTyped, Typed, TypeOK
<1>3. UNCHANGED lendingVars => LendingTyped'
  BY DEF lendingVars, supplyVars, positionVars, LendingTyped, Books, Typed, TypeOK
<1> QED BY <1>1, <1>2, <1>3

\* The initial state has the types, and its books add up.
LEMMA InitTyped ==
  Init => Typed
<1> SUFFICES ASSUME Init PROVE Typed
  OBVIOUS
<1>1. Total(InitialDollars) \in Nat
  BY ShadowWealth, TotalBound
<1>2. InitialReserve \in Nat
  BY ShadowNumbers
<1>3. usd \in UsdType /\ usd.supplied.shares = Total(InitialDollars) /\ usd.borrowed.shares = 0
  BY <1>1, <1>2 DEF Init, UsdType, PoolType, EmptyPool
<1>4. calls \in Seq(CallType)
  BY EmptySeq DEF Init
<1>5. value \in Nat
  BY ShadowValues DEF Init
<1>6. /\ Total(lp) = 0 /\ Total(collateral) = 0 /\ Total(debt) = 0
  BY TotalOfNothing DEF Init
<1>7. Books
  BY <1>3, <1>6 DEF Books, Init
<1>8. TypeOK
  BY <1>3, <1>4, <1>5, ShadowWealth DEF Init, TypeOK, RecordType
<1> QED BY <1>7, <1>8 DEF Typed

\* A record of shadows that grows, or shrinks within itself, stays one.
LEMMA RecordAfter ==
  ASSUME record \in [Accounts -> RecordType], NEW a \in Accounts, NEW kind,
         NEW n \in Nat,
         \/ AddShadow(a, Field(kind), n)
         \/ CanSubShadow(a, Field(kind), n) /\ SubShadow(a, Field(kind), n)
  PROVE  record' \in [Accounts -> RecordType]
<1>1. record[a] \in RecordType /\ record[a].farm \in Nat /\ record[a].burrow \in Nat
  BY DEF RecordType
<1>2. CASE Field(kind) = "farm"
  BY <1>1, <1>2 DEF AddShadow, CanSubShadow, SubShadow, RecordType
<1>3. CASE Field(kind) = "burrow"
  BY <1>1, <1>3 DEF AddShadow, CanSubShadow, SubShadow, RecordType
<1> QED BY <1>2, <1>3 DEF Field

\* What the exchange's own calls do to the types.
LEMMA ExchangeTypes ==
  ASSUME Typed, NEW a \in Accounts, NEW n \in Nat,
         \/ AddLiquidity(a, n)
         \/ RemoveLiquidity(a, n)
         \/ \E b \in Accounts : TransferShares(a, b, n)
         \/ \E kind \in ToSteps, execute \in BOOLEAN : CastShadow(kind, a, n, execute)
         \/ \E kind \in FromSteps, execute \in BOOLEAN : RemoveShadow(kind, a, n, execute)
  PROVE  Typed'
<1>1. /\ shares \in [Accounts -> Nat] /\ record \in [Accounts -> RecordType]
      /\ calls \in Seq(CallType) /\ shares[a] \in Nat
      /\ record[a] \in RecordType /\ record[a].farm \in Nat /\ record[a].burrow \in Nat
  BY DEF Typed, TypeOK, RecordType
<1>2. FreeShares(record[a], shares[a]) <= shares[a]
  BY <1>1 DEF FreeShares, Most
<1>3. SeedTyped' /\ LendingTyped'
  BY PartsKept DEF AddLiquidity, RemoveLiquidity, TransferShares, CastShadow, RemoveShadow
<1>4. CASE AddLiquidity(a, n)
  <2>1. ExchangeTyped'
    BY <1>1, <1>4, PlusTotal DEF AddLiquidity, ExchangeTyped
  <2>2. calls' \in Seq(CallType)
    BY <1>1, <1>4 DEF AddLiquidity
  <2> QED BY <1>3, <2>1, <2>2, TypedParts
<1>5. CASE RemoveLiquidity(a, n)
  <2>1. n <= shares[a]
    BY <1>1, <1>2, <1>5 DEF RemoveLiquidity, FreeShares, Most
  <2>2. ExchangeTyped'
    BY <1>1, <1>5, <2>1, MinusTotal DEF RemoveLiquidity, ExchangeTyped
  <2>3. calls' \in Seq(CallType)
    BY <1>1, <1>5 DEF RemoveLiquidity
  <2> QED BY <1>3, <2>2, <2>3, TypedParts
<1>6. ASSUME NEW b \in Accounts, TransferShares(a, b, n) PROVE Typed'
  <2>1. n <= shares[a] /\ shares[b] \in Nat
    BY <1>1, <1>2, <1>6 DEF TransferShares, FreeShares, Most
  <2>2. ExchangeTyped'
    BY <1>1, <1>6, <2>1 DEF TransferShares, ExchangeTyped
  <2>3. calls' \in Seq(CallType)
    BY <1>1, <1>6 DEF TransferShares
  <2> QED BY <1>3, <2>2, <2>3, TypedParts
<1>7. ASSUME NEW kind \in ToSteps, NEW execute \in BOOLEAN, CastShadow(kind, a, n, execute)
      PROVE  Typed'
  <2>1. record' \in [Accounts -> RecordType]
    BY <1>1, <1>7, RecordAfter DEF CastShadow
  <2>2. ExchangeTyped'
    BY <1>1, <1>7, <2>1 DEF CastShadow, ExchangeTyped
  <2>3. ShadowCall(kind, a, n, execute) \in CallType
    BY DEF ShadowCall, CallType, ShadowCalls, Stages
  <2>4. calls' \in Seq(CallType)
    BY <1>1, <1>7, <2>3, CallsAfter DEF CastShadow
  <2> QED BY <1>3, <2>2, <2>4, TypedParts
<1>8. ASSUME NEW kind \in FromSteps, NEW execute \in BOOLEAN, RemoveShadow(kind, a, n, execute)
      PROVE  Typed'
  <2>1. ExchangeTyped'
    BY <1>1, <1>8 DEF RemoveShadow, ExchangeTyped
  <2>2. ShadowCall(kind, a, n, execute) \in CallType
    BY DEF ShadowCall, CallType, ShadowCalls, Stages
  <2>3. calls' \in Seq(CallType)
    BY <1>1, <1>8, <2>2, CallsAfter DEF RemoveShadow
  <2> QED BY <1>3, <2>1, <2>3, TypedParts
<1> QED BY <1>4, <1>5, <1>6, <1>7, <1>8

\* What the farm must give back is a number.
LEMMA SeedNumber ==
  ASSUME NEW rec \in RecordType, NEW total \in Nat, NEW n \in Nat
  PROVE  SeedToWithdraw(rec, total, n) \in Nat
BY DEF RecordType, SeedToWithdraw, FreeShares, Most

\* A field of a record that shrinks within itself, the other kept.
LEMMA RecordLess ==
  ASSUME NEW rec \in RecordType, NEW n \in Nat
  PROVE  /\ n <= rec.burrow =>
               LET less == [rec EXCEPT !.burrow = @ - n]
               IN  less \in RecordType /\ less.burrow = rec.burrow - n /\ less.farm = rec.farm
         /\ n <= rec.farm =>
               LET less == [rec EXCEPT !.farm = @ - n]
               IN  less \in RecordType /\ less.farm = rec.farm - n /\ less.burrow = rec.burrow
<1>1. rec.farm \in Nat /\ rec.burrow \in Nat
  BY DEF RecordType
<1>2. ASSUME n <= rec.burrow PROVE rec.burrow - n \in Nat
  BY <1>1, <1>2
<1>3. ASSUME n <= rec.farm PROVE rec.farm - n \in Nat
  BY <1>1, <1>3
<1> QED BY <1>1, <1>2, <1>3 DEF RecordType

\* What the exchange does with calls of the lending contract and with the
\* outcomes of its own, to the types.
LEMMA ExchangeReceivesTypes ==
  ASSUME Typed, NEW i \in DOMAIN calls,
         BurnForBurrow(i) \/ RefuseBurrow(i) \/ ShadowOutcome(i)
  PROVE  Typed'
<1> DEFINE c == calls[i]
           a == c.account
<1>1. c \in CallType
  BY CallAt
<1>2. a \in Accounts /\ c.amount \in Nat /\ c.stage \in Stages
  BY <1>1, CallFields
<1> HIDE DEF c, a
<1>3. /\ shares \in [Accounts -> Nat] /\ record \in [Accounts -> RecordType]
      /\ calls \in Seq(CallType) /\ shares[a] \in Nat
      /\ record[a] \in RecordType /\ record[a].farm \in Nat /\ record[a].burrow \in Nat
  BY <1>2 DEF Typed, TypeOK, RecordType
<1>4. SeedTyped' /\ LendingTyped'
  BY PartsKept DEF BurnForBurrow, RefuseBurrow, ShadowOutcome
<1>5. CASE BurnForBurrow(i)
  <2> DEFINE uncast   == [record[a] EXCEPT !.burrow = @ - c.amount]
             withdraw == SeedToWithdraw(uncast, shares[a], c.amount)
             told     == [kind |-> "Unstake", account |-> a, amount |-> withdraw,
                          stage |-> "sent"]
  <2>1. c.amount <= record[a].burrow /\ withdraw <= record[a].farm /\ c.amount <= shares[a]
    BY <1>5 DEF BurnForBurrow, c, a
  <2>2. uncast \in RecordType /\ uncast.farm = record[a].farm
    BY <1>2, <1>3, <2>1, RecordLess
  <2>3. withdraw \in Nat
    BY <1>2, <1>3, <2>2, SeedNumber
  <2>4. record' = [record EXCEPT ![a] = [uncast EXCEPT !.farm = @ - withdraw]]
    BY <1>5 DEF BurnForBurrow, c, a
  <2>5. shares' = Minus(shares, a, c.amount)
    BY <1>5 DEF BurnForBurrow, c, a
  <2>6. calls' = IF withdraw > 0 THEN Append(Answered(i, "done"), told) ELSE Answered(i, "done")
    BY <1>5 DEF BurnForBurrow, c, a
  <2>7. told \in CallType
    BY <1>2, <2>3 DEF CallType, SeedCalls, Stages
  <2> HIDE DEF withdraw, told
  <2>8. [uncast EXCEPT !.farm = @ - withdraw] \in RecordType
    BY <2>1, <2>2, <2>3, RecordLess
  <2> HIDE DEF uncast
  <2>9. ExchangeTyped'
    BY <1>2, <1>3, <2>1, <2>4, <2>5, <2>8, MinusTotal DEF ExchangeTyped
  <2>10. Answered(i, "done") \in Seq(CallType)
    BY <1>3, Answer DEF Answered, Stages
  <2>11. calls' \in Seq(CallType)
    BY <2>6, <2>7, <2>10, AppendProperties
  <2> QED BY <1>4, <2>9, <2>11, TypedParts
<1>6. CASE RefuseBurrow(i)
  <2>1. calls' \in Seq(CallType)
    BY <1>3, <1>6, CallsAfter DEF RefuseBurrow, Stages
  <2>2. ExchangeTyped'
    BY <1>3, <1>6 DEF RefuseBurrow, ExchangeTyped
  <2> QED BY <1>4, <2>1, <2>2, TypedParts
<1>7. CASE ShadowOutcome(i)
  <2>1. calls' \in Seq(CallType)
    BY <1>3, <1>7, CallsAfter DEF ShadowOutcome
  <2>2. \/ CanSubShadow(a, Field(c.kind), c.amount) /\ SubShadow(a, Field(c.kind), c.amount)
        \/ UNCHANGED record
    BY <1>7 DEF ShadowOutcome, c, a
  <2>3. record' \in [Accounts -> RecordType]
    BY <1>2, <1>3, <2>2, RecordAfter
  <2>4. ExchangeTyped'
    BY <1>3, <1>7, <2>3 DEF ShadowOutcome, ExchangeTyped
  <2> QED BY <1>4, <2>1, <2>4, TypedParts
<1> QED BY <1>5, <1>6, <1>7

\* What the farm does, to the types.
LEMMA FarmTypes ==
  ASSUME Typed, NEW i \in DOMAIN calls,
         StakeSeed(i) \/ UnstakeSeed(i) \/ RefuseSeed(i)
  PROVE  Typed'
<1>1. /\ calls[i].account \in Accounts /\ calls[i].amount \in Nat
  BY CallAt, CallFields
<1>2. calls \in Seq(CallType) /\ seed \in [Accounts -> Nat]
  BY DEF Typed, TypeOK
<1>3. ExchangeTyped' /\ LendingTyped'
  BY PartsKept DEF StakeSeed, UnstakeSeed, RefuseSeed
<1>4. SeedTyped'
  <2>1. CASE StakeSeed(i)
    BY <1>1, <1>2, <2>1, PlusTotal DEF StakeSeed, SeedTyped
  <2>2. CASE UnstakeSeed(i)
    BY <1>1, <1>2, <2>2, MinusTotal DEF UnstakeSeed, SeedTyped
  <2>3. CASE RefuseSeed(i)
    BY <1>2, <2>3 DEF RefuseSeed, SeedTyped
  <2> QED BY <2>1, <2>2, <2>3
<1>5. Drop(i) \/ calls' = Answered(i, "done") \/ calls' = Answered(i, "failed")
  BY DEF StakeSeed, UnstakeSeed, RefuseSeed
<1>6. calls' \in Seq(CallType)
  BY <1>2, <1>5, CallsAfter DEF Stages
<1> QED BY <1>3, <1>4, <1>6, TypedParts

\* What the arrival and the departure of a shadow do to the types.
LEMMA BurrowTypes ==
  ASSUME Typed, NEW i \in DOMAIN calls,
         LpDeposited(i) \/ LpWithdrawn(i) \/ RefuseShadow(i)
  PROVE  Typed'
<1> DEFINE c == calls[i]
           a == c.account
<1>1. c \in CallType
  BY CallAt
<1>2. a \in Accounts /\ c.amount \in Nat
  BY <1>1, CallFields
<1>3. /\ calls \in Seq(CallType) /\ lp \in [Accounts -> Nat] /\ collateral \in [Accounts -> Nat]
      /\ lpSupply \in Nat /\ lpSupply >= Total(lp) + Total(collateral)
  BY DEF Typed, TypeOK, Books
<1>4. Total(lp) \in Nat /\ Total(collateral) \in Nat
  BY <1>3, TotalBound
<1>5. CASE RefuseShadow(i)
  <2>1. calls' \in Seq(CallType)
    BY <1>3, <1>5, CallsAfter DEF RefuseShadow, Stages
  <2>2. ExchangeTyped' /\ SeedTyped' /\ LendingTyped'
    BY <1>5, PartsKept DEF RefuseShadow
  <2> QED BY <2>1, <2>2, TypedParts
<1>6. ASSUME LpDeposited(i) \/ LpWithdrawn(i),
             lpSupply' \in Nat, lp' \in [Accounts -> Nat], collateral' \in [Accounts -> Nat],
             lpSupply' >= Total(lp') + Total(collateral')
      PROVE  Typed'
  <2>1. calls' \in Seq(CallType)
    BY <1>3, <1>6, CallsAfter DEF LpDeposited, LpWithdrawn, Stages
  <2>2. ExchangeTyped' /\ SeedTyped'
    BY <1>6, PartsKept DEF LpDeposited, LpWithdrawn
  <2>3. UNCHANGED <<usd, dollars, debt, locked, value>>
    BY <1>6 DEF LpDeposited, LpWithdrawn
  <2>4. LendingTyped'
    BY <1>6, <2>3 DEF LendingTyped, Books, Typed, TypeOK
  <2> QED BY <2>1, <2>2, <2>4, TypedParts
<1> HIDE DEF c, a
<1>7. CASE LpDeposited(i)
  <2>1. lpSupply' = lpSupply + c.amount
    BY <1>7 DEF LpDeposited, c
  <2>2. \/ collateral' = Plus(collateral, a, c.amount) /\ lp' = lp
        \/ lp' = Plus(lp, a, c.amount) /\ collateral' = collateral
    BY <1>7 DEF LpDeposited, c, a
  <2>3. /\ lp' \in [Accounts -> Nat] /\ collateral' \in [Accounts -> Nat]
        /\ Total(lp') + Total(collateral') = Total(lp) + Total(collateral) + c.amount
    <3>1. CASE collateral' = Plus(collateral, a, c.amount) /\ lp' = lp
      <4>1. /\ Plus(collateral, a, c.amount) \in [Accounts -> Nat]
            /\ Total(Plus(collateral, a, c.amount)) = Total(collateral) + c.amount
        BY <1>2, <1>3, PlusTotal
      <4>2. collateral' = Plus(collateral, a, c.amount) /\ lp' = lp
        BY <3>1
      <4>3. Total(collateral') = Total(collateral) + c.amount /\ Total(lp') = Total(lp)
        BY <4>1, <4>2
      <4>4. Total(lp') + Total(collateral') = Total(lp) + Total(collateral) + c.amount
        BY <1>2, <1>4, <4>3
      <4> QED BY <1>3, <4>1, <4>2, <4>4
    <3>2. CASE lp' = Plus(lp, a, c.amount) /\ collateral' = collateral
      <4>1. /\ Plus(lp, a, c.amount) \in [Accounts -> Nat]
            /\ Total(Plus(lp, a, c.amount)) = Total(lp) + c.amount
        BY <1>2, <1>3, PlusTotal
      <4>2. lp' = Plus(lp, a, c.amount) /\ collateral' = collateral
        BY <3>2
      <4>3. Total(lp') = Total(lp) + c.amount /\ Total(collateral') = Total(collateral)
        BY <4>1, <4>2
      <4>4. Total(lp') + Total(collateral') = Total(lp) + Total(collateral) + c.amount
        BY <1>2, <1>4, <4>3
      <4> QED BY <1>3, <4>1, <4>2, <4>4
    <3> QED BY <2>2, <3>1, <3>2
  <2>4. lpSupply' \in Nat /\ lpSupply' >= Total(lp') + Total(collateral')
    <3> DEFINE m == c.amount
               s == Total(lp) + Total(collateral)
               s2 == Total(lp') + Total(collateral')
    <3>1. m \in Nat /\ s \in Nat /\ lpSupply \in Nat /\ lpSupply >= s
      BY <1>2, <1>3, <1>4
    <3>2. s2 = s + m /\ lpSupply' = lpSupply + m
      BY <1>2, <1>3, <1>4, <2>1, <2>3, <3>1
    <3> HIDE DEF m, s, s2
    <3>3. lpSupply' \in Nat /\ lpSupply' >= s2
      BY <3>1, <3>2
    <3> QED BY <3>3 DEF s2
  <2> QED BY <1>6, <1>7, <2>3, <2>4
<1>8. CASE LpWithdrawn(i)
  <2>1. lpSupply' = lpSupply - c.amount
    BY <1>8 DEF LpWithdrawn, c
  <2>2. \/ collateral' = Minus(collateral, a, c.amount) /\ lp' = lp /\ c.amount <= collateral[a]
        \/ lp' = Minus(lp, a, c.amount) /\ collateral' = collateral /\ c.amount <= lp[a]
    BY <1>8 DEF LpWithdrawn, Owns, c, a
  <2>3. /\ lp' \in [Accounts -> Nat] /\ collateral' \in [Accounts -> Nat]
        /\ Total(lp') + Total(collateral') = Total(lp) + Total(collateral) - c.amount
        /\ c.amount <= Total(lp) + Total(collateral)
    <3>1. CASE collateral' = Minus(collateral, a, c.amount) /\ lp' = lp /\ c.amount <= collateral[a]
      <4>1. /\ Minus(collateral, a, c.amount) \in [Accounts -> Nat]
            /\ Total(Minus(collateral, a, c.amount)) = Total(collateral) - c.amount
            /\ c.amount <= Total(collateral)
        BY <1>2, <1>3, <3>1, MinusTotal
      <4>2. collateral' = Minus(collateral, a, c.amount) /\ lp' = lp
        BY <3>1
      <4>3. Total(collateral') = Total(collateral) - c.amount /\ Total(lp') = Total(lp)
        BY <4>1, <4>2
      <4>4. /\ Total(lp') + Total(collateral') = Total(lp) + Total(collateral) - c.amount
            /\ c.amount <= Total(lp) + Total(collateral)
        BY <1>2, <1>4, <4>1, <4>3
      <4> QED BY <1>3, <4>1, <4>2, <4>4
    <3>2. CASE lp' = Minus(lp, a, c.amount) /\ collateral' = collateral /\ c.amount <= lp[a]
      <4>1. /\ Minus(lp, a, c.amount) \in [Accounts -> Nat]
            /\ Total(Minus(lp, a, c.amount)) = Total(lp) - c.amount
            /\ c.amount <= Total(lp)
        BY <1>2, <1>3, <3>2, MinusTotal
      <4>2. lp' = Minus(lp, a, c.amount) /\ collateral' = collateral
        BY <3>2
      <4>3. Total(lp') = Total(lp) - c.amount /\ Total(collateral') = Total(collateral)
        BY <4>1, <4>2
      <4>4. /\ Total(lp') + Total(collateral') = Total(lp) + Total(collateral) - c.amount
            /\ c.amount <= Total(lp) + Total(collateral)
        BY <1>2, <1>4, <4>1, <4>3
      <4> QED BY <1>3, <4>1, <4>2, <4>4
    <3> QED BY <2>2, <3>1, <3>2
  <2>4. lpSupply' \in Nat /\ lpSupply' >= Total(lp') + Total(collateral')
    <3> DEFINE m == c.amount
               s == Total(lp) + Total(collateral)
               s2 == Total(lp') + Total(collateral')
    <3>1. m \in Nat /\ s \in Nat /\ lpSupply \in Nat /\ lpSupply >= s
      BY <1>2, <1>3, <1>4
    <3>2. s2 = s - m /\ lpSupply' = lpSupply - m /\ m <= s
      BY <1>2, <1>3, <1>4, <2>1, <2>3, <3>1
    <3> HIDE DEF m, s, s2
    <3>3. lpSupply' \in Nat /\ lpSupply' >= s2
      BY <3>1, <3>2
    <3> QED BY <3>3 DEF s2
  <2> QED BY <1>6, <1>8, <2>3, <2>4
<1> QED BY <1>5, <1>7, <1>8

\* What an owner of an LP position does with its collateral, to the types.
LEMMA CollateralTypes ==
  ASSUME Typed, NEW a \in Accounts, NEW n \in Nat,
         IncreaseCollateral(a, n) \/ DecreaseCollateral(a, n)
  PROVE  Typed'
<1>1. /\ lp \in [Accounts -> Nat] /\ collateral \in [Accounts -> Nat] /\ lpSupply \in Nat
      /\ lpSupply >= Total(lp) + Total(collateral) /\ calls \in Seq(CallType)
  BY DEF Typed, TypeOK, Books
<1>2. Total(lp) \in Nat /\ Total(collateral) \in Nat
  BY <1>1, TotalBound
<1>3. /\ lp' \in [Accounts -> Nat] /\ collateral' \in [Accounts -> Nat]
      /\ Total(lp') + Total(collateral') = Total(lp) + Total(collateral)
  <2>1. CASE IncreaseCollateral(a, n)
    <3>1. n <= lp[a] /\ lp' = Minus(lp, a, n) /\ collateral' = Plus(collateral, a, n)
      BY <2>1 DEF IncreaseCollateral
    <3>2. Minus(lp, a, n) \in [Accounts -> Nat] /\ Total(Minus(lp, a, n)) = Total(lp) - n
      BY <1>1, <3>1, MinusTotal
    <3>3. /\ Plus(collateral, a, n) \in [Accounts -> Nat]
          /\ Total(Plus(collateral, a, n)) = Total(collateral) + n
      BY <1>1, PlusTotal
    <3> QED BY <1>2, <3>1, <3>2, <3>3
  <2>2. CASE DecreaseCollateral(a, n)
    <3>1. n <= collateral[a] /\ lp' = Plus(lp, a, n) /\ collateral' = Minus(collateral, a, n)
      BY <2>2 DEF DecreaseCollateral
    <3>2. /\ Minus(collateral, a, n) \in [Accounts -> Nat]
          /\ Total(Minus(collateral, a, n)) = Total(collateral) - n
      BY <1>1, <3>1, MinusTotal
    <3>3. /\ Plus(lp, a, n) \in [Accounts -> Nat]
          /\ Total(Plus(lp, a, n)) = Total(lp) + n
      BY <1>1, PlusTotal
    <3> QED BY <1>2, <3>1, <3>2, <3>3
  <2> QED BY <2>1, <2>2
<1>4. UNCHANGED <<exchangeVars, seed, lpSupply, usd, dollars, debt, locked, value, calls>>
  BY DEF IncreaseCollateral, DecreaseCollateral
<1>5. LendingTyped'
  BY <1>1, <1>3, <1>4 DEF LendingTyped, Books, Typed, TypeOK
<1> QED BY <1>1, <1>4, <1>5, PartsKept, TypedParts

\* What a loan does to the types.
LEMMA BorrowTypes ==
  ASSUME Typed, NEW a \in Accounts, NEW n \in Nat, Borrow(a, n)
  PROVE  Typed'
<1> DEFINE move   == AssetAmountToShares(usd.borrowed, 0, Exactly(n), FALSE)
           minted == AmountToShares(usd.supplied, n, FALSE)
           b      == PoolDeposit(usd.borrowed, move.shares, n)
           s      == PoolDeposit(usd.supplied, minted, n)
           lent   == [usd EXCEPT !.borrowed = b, !.supplied = s]
<1>1. /\ usd \in UsdType /\ usd.supplied \in PoolType /\ usd.borrowed \in PoolType
      /\ dollars \in [Accounts -> Nat] /\ debt \in [Accounts -> Nat]
  BY DEF Typed, TypeOK, UsdType
<1>2. minted \in Nat
  BY <1>1, AmountToSharesType
<1>3. move.shares \in Nat
  <2>1. Exactly(n) \in RequestType /\ Exactly(n).kind = "amount" /\ Exactly(n).value = n
    BY DEF Exactly, RequestType
  <2>2. move.shares = AmountToShares(usd.borrowed, n, TRUE)
    BY <2>1 DEF AssetAmountToShares
  <2> QED BY <1>1, <2>2, AmountToSharesType
<1>4. b \in PoolType /\ s \in PoolType
  BY <1>1, <1>2, <1>3, PoolOperations
<1>5. b.shares = usd.borrowed.shares + move.shares /\ s.shares = usd.supplied.shares + minted
  BY DEF PoolDeposit
<1>6. /\ usd' = Normalized(lent)
      /\ debt' = Plus(debt, a, move.shares) /\ dollars' = Plus(dollars, a, minted)
      /\ UNCHANGED <<exchangeVars, seed, lpSupply, lp, collateral, locked, value, calls>>
  BY DEF Borrow
<1> HIDE DEF b, s, move, minted
<1>7. lent \in UsdType /\ lent.borrowed = b /\ lent.supplied = s
  BY <1>1, <1>4 DEF UsdType
<1> HIDE DEF lent
<1>8. usd' \in UsdType /\ usd'.supplied.shares = s.shares /\ usd'.borrowed.shares = b.shares
  BY <1>6, <1>7, NormalizedType
<1>9. /\ debt' \in [Accounts -> Nat] /\ Total(debt') = Total(debt) + move.shares
      /\ dollars' \in [Accounts -> Nat] /\ Total(dollars') = Total(dollars) + minted
  BY <1>1, <1>2, <1>3, <1>6, PlusTotal
<1>10. usd'.supplied.shares = Total(dollars') /\ usd'.borrowed.shares = Total(debt')
  BY <1>5, <1>8, <1>9 DEF Typed, Books
<1>11. LendingTyped'
  BY <1>6, <1>8, <1>9, <1>10 DEF LendingTyped, Books, Typed, TypeOK
<1>12. calls' \in Seq(CallType)
  BY <1>6 DEF Typed, TypeOK
<1> QED BY <1>6, <1>11, <1>12, PartsKept, TypedParts

\* What a repayment that is saved does to the dollar's side of the books.
LEMMA RepaidBooks ==
  ASSUME Typed, NEW payer \in Accounts, NEW debtor \in Accounts, NEW req \in RequestType,
         NEW checked,
         LET move == RepayMove(payer, debtor, req)
         IN  /\ MayRepay(payer, debtor, req, move)
             /\ CanSaveRepaid(move, checked)
             /\ usd' = Normalized(AfterRepay(move))
             /\ dollars' = Minus(dollars, payer, move.burnt)
             /\ debt' = Minus(debt, debtor, move.repaid)
  PROVE  /\ usd' \in UsdType /\ dollars' \in [Accounts -> Nat] /\ debt' \in [Accounts -> Nat]
         /\ usd'.supplied.shares = Total(dollars') /\ usd'.borrowed.shares = Total(debt')
<1> DEFINE move == RepayMove(payer, debtor, req)
<1>1. /\ dollars \in [Accounts -> Nat] /\ debt \in [Accounts -> Nat]
      /\ usd.supplied.shares = Total(dollars) /\ usd.borrowed.shares = Total(debt)
  BY DEF Typed, TypeOK, Books
<1>2. /\ move.burnt \in Nat /\ move.burnt <= dollars[payer]
      /\ move.repaid \in Nat /\ move.amount \in Nat
  BY RepaidMove
<1>3. move.repaid <= debt[debtor]
  BY DEF MayRepay
<1>4. /\ usd' \in UsdType
      /\ usd'.supplied.shares = usd.supplied.shares - move.burnt
      /\ usd'.borrowed.shares = usd.borrowed.shares - move.repaid
  BY <1>2, Repaid
<1>5. dollars' = Minus(dollars, payer, move.burnt) /\ debt' = Minus(debt, debtor, move.repaid)
  OBVIOUS
<1> HIDE DEF move
<1>6. /\ dollars' \in [Accounts -> Nat] /\ Total(dollars') = Total(dollars) - move.burnt
      /\ debt' \in [Accounts -> Nat] /\ Total(debt') = Total(debt) - move.repaid
  BY <1>1, <1>2, <1>3, <1>5, MinusTotal
<1> QED BY <1>1, <1>4, <1>6

\* What a repayment does to the types.
LEMMA RepayTypes ==
  ASSUME Typed, NEW a \in Accounts, NEW req \in RequestsOver(Loans), Repay(a, req)
  PROVE  Typed'
<1>1. req \in RequestType
  BY ShadowBounds DEF RequestsOver, Exactly, AtMost, Everything, RequestType
<1>2. /\ usd' \in UsdType /\ dollars' \in [Accounts -> Nat] /\ debt' \in [Accounts -> Nat]
      /\ usd'.supplied.shares = Total(dollars') /\ usd'.borrowed.shares = Total(debt')
  BY <1>1, RepaidBooks DEF Repay
<1>3. UNCHANGED <<exchangeVars, seed, lpSupply, lp, collateral, locked, value, calls>>
  BY DEF Repay
<1>4. LendingTyped'
  BY <1>2, <1>3 DEF LendingTyped, Books, Typed, TypeOK
<1>5. calls' \in Seq(CallType)
  BY <1>3 DEF Typed, TypeOK
<1> QED BY <1>3, <1>4, <1>5, PartsKept, TypedParts

\* What the request of a liquidation or of a forced closing does to the types.
LEMMA AskTypes ==
  ASSUME Typed, NEW k \in Accounts, NEW a \in Accounts,
         \/ \E req \in RequestsOver(Loans), n \in Amounts : Liquidate(k, a, req, n)
         \/ ForceClose(k, a)
  PROVE  Typed'
<1>1. calls \in Seq(CallType) /\ locked \subseteq Accounts /\ collateral[a] \in Nat
  BY DEF Typed, TypeOK
<1>2. /\ UNCHANGED <<exchangeVars, seed, supplyVars, positionVars, value>>
      /\ locked' \subseteq Accounts
  BY <1>1 DEF Liquidate, ForceClose
<1>3. LendingTyped'
  BY <1>2 DEF LendingTyped, Books, supplyVars, positionVars, Typed, TypeOK
<1>4. calls' \in Seq(CallType)
  <2>1. ASSUME NEW req \in RequestsOver(Loans), NEW n \in Amounts, Liquidate(k, a, req, n)
        PROVE  calls' \in Seq(CallType)
    <3> DEFINE asked == [kind |-> "Liquidate", account |-> a, liquidator |-> k, in |-> req,
                         amount |-> n, stage |-> "sent"]
    <3>1. req \in RequestType /\ n \in Nat
      BY ShadowBounds DEF RequestsOver, Exactly, AtMost, Everything, RequestType
    <3>2. asked \in CallType
      BY <3>1 DEF CallType, Liquidations, Stages
    <3>3. Send(asked)
      BY <2>1 DEF Liquidate
    <3> HIDE DEF asked
    <3> QED BY <1>1, <3>2, <3>3, CallsAfter
  <2>2. CASE ForceClose(k, a)
    <3> DEFINE asked == [kind |-> "ForceClose", account |-> a, amount |-> collateral[a],
                         stage |-> "sent"]
    <3>1. asked \in CallType
      BY <1>1 DEF CallType, ForcedCalls, Stages
    <3>2. Send(asked)
      BY <2>2 DEF ForceClose
    <3> HIDE DEF asked
    <3> QED BY <1>1, <3>1, <3>2, CallsAfter
  <2> QED BY <2>1, <2>2
<1> QED BY <1>2, <1>3, <1>4, PartsKept, TypedParts

\* What the callback of a liquidation does to the types.
LEMMA LiquidateOutcomeTypes ==
  ASSUME Typed, NEW i \in DOMAIN calls, LiquidateOutcome(i)
  PROVE  Typed'
<1> DEFINE c    == calls[i]
           a    == c.account
           k    == c.liquidator
           move == RepayMove(k, a, c.in)
<1>1. c \in CallType /\ c.kind = "Liquidate"
  BY CallAt DEF LiquidateOutcome
<1>2. a \in Accounts /\ k \in Accounts /\ c.amount \in Nat /\ c.in \in RequestType
  BY <1>1, CallFields
<1>3. /\ calls \in Seq(CallType) /\ locked \subseteq Accounts /\ lpSupply \in Nat
      /\ lp \in [Accounts -> Nat] /\ collateral \in [Accounts -> Nat]
      /\ lpSupply >= Total(lp) + Total(collateral)
  BY DEF Typed, TypeOK, Books
<1>4. Total(lp) \in Nat /\ Total(collateral) \in Nat
  BY <1>3, TotalBound
<1>5. UNCHANGED <<exchangeVars, seed, value>> /\ Drop(i) /\ locked' \subseteq Accounts
  BY <1>3 DEF LiquidateOutcome
<1>6. calls' \in Seq(CallType)
  BY <1>3, <1>5, CallsAfter
<1>7. LendingTyped'
  <2>1. CASE UNCHANGED <<supplyVars, positionVars>>
    BY <1>5, <2>1 DEF LendingTyped, Books, supplyVars, positionVars, Typed, TypeOK
  <2>2. CASE /\ CanLiquidate(c, move)
             /\ usd' = Normalized(AfterRepay(move))
             /\ dollars' = Minus(dollars, k, move.burnt)
             /\ debt' = Minus(debt, a, move.repaid)
             /\ collateral' = TakesCollateral(a, c.amount)
             /\ lpSupply' = lpSupply - c.amount
             /\ UNCHANGED lp
    <3>1. MayRepay(k, a, c.in, move) /\ CanSaveRepaid(move, TRUE) /\ c.amount <= collateral[a]
      BY <2>2 DEF CanLiquidate
    <3>2. /\ usd' \in UsdType /\ dollars' \in [Accounts -> Nat] /\ debt' \in [Accounts -> Nat]
          /\ usd'.supplied.shares = Total(dollars') /\ usd'.borrowed.shares = Total(debt')
      BY <1>2, <2>2, <3>1, RepaidBooks
    <3>3. collateral' = Minus(collateral, a, c.amount) /\ lpSupply' = lpSupply - c.amount
          /\ lp' = lp
      BY <2>2 DEF TakesCollateral
    <3> HIDE DEF c, a, k, move
    <3>4. /\ collateral' \in [Accounts -> Nat] /\ Total(collateral') = Total(collateral) - c.amount
          /\ c.amount <= Total(collateral)
      BY <1>2, <1>3, <3>1, <3>3, MinusTotal
    <3>5. lpSupply' \in Nat /\ lpSupply' >= Total(lp') + Total(collateral')
      <4> DEFINE n == c.amount
      <4>1. n \in Nat /\ lpSupply' = lpSupply - n
        BY <1>2, <3>3
      <4>2. Total(lp') = Total(lp)
        BY <3>3
      <4>3. Total(collateral') = Total(collateral) - n /\ n <= Total(collateral)
        BY <3>4
      <4>4. lpSupply \in Nat /\ lpSupply >= Total(lp) + Total(collateral)
        BY <1>3
      <4> HIDE DEF n
      <4> QED BY <1>4, <4>1, <4>2, <4>3, <4>4
    <3> QED BY <1>3, <1>5, <3>2, <3>3, <3>4, <3>5 DEF LendingTyped, Books, Typed, TypeOK
  <2>3. \/ UNCHANGED <<supplyVars, positionVars>>
        \/ /\ CanLiquidate(c, move)
           /\ usd' = Normalized(AfterRepay(move))
           /\ dollars' = Minus(dollars, k, move.burnt)
           /\ debt' = Minus(debt, a, move.repaid)
           /\ collateral' = TakesCollateral(a, c.amount)
           /\ lpSupply' = lpSupply - c.amount
           /\ UNCHANGED lp
    BY DEF LiquidateOutcome
  <2> QED BY <2>1, <2>2, <2>3
<1> QED BY <1>5, <1>6, <1>7, PartsKept, TypedParts

\* What the callback of a forced closing does to the types.
LEMMA ForceCloseOutcomeTypes ==
  ASSUME Typed, NEW i \in DOMAIN calls, ForceCloseOutcome(i)
  PROVE  Typed'
<1> DEFINE a    == calls[i].account
           owed == Owed(usd, debt[a])
           less == [usd EXCEPT !.reserved = @ - owed,
                               !.borrowed = PoolWithdraw(@, debt[a], owed)]
<1>1. a \in Accounts
  BY CallAt, CallFields
<1>2. /\ calls \in Seq(CallType) /\ locked \subseteq Accounts /\ lpSupply \in Nat
      /\ lp \in [Accounts -> Nat] /\ collateral \in [Accounts -> Nat]
      /\ dollars \in [Accounts -> Nat] /\ debt \in [Accounts -> Nat]
      /\ usd \in UsdType /\ usd.borrowed \in PoolType /\ usd.reserved \in Nat
      /\ usd.borrowed.balance \in Nat
      /\ collateral[a] \in Nat /\ debt[a] \in Nat
  BY <1>1 DEF Typed, TypeOK, UsdType, PoolType
<1>3. /\ usd.supplied.shares = Total(dollars) /\ usd.borrowed.shares = Total(debt)
      /\ lpSupply >= Total(lp) + Total(collateral)
  BY DEF Typed, Books
<1>4. Total(lp) \in Nat /\ Total(collateral) \in Nat /\ debt[a] <= usd.borrowed.shares
  BY <1>1, <1>2, <1>3, TotalBound
<1>5. UNCHANGED <<exchangeVars, seed, lpSupply, lp, dollars, value>> /\ Drop(i)
      /\ locked' \subseteq Accounts
  BY <1>2 DEF ForceCloseOutcome
<1>6. calls' \in Seq(CallType)
  BY <1>2, <1>5, CallsAfter
<1>7. \/ collateral' = [collateral EXCEPT ![a] = 0]
      \/ collateral' = collateral
  BY DEF ForceCloseOutcome
<1>8. \/ /\ owed <= usd.reserved
         /\ usd' = less /\ debt' = [debt EXCEPT ![a] = 0]
      \/ usd' = usd /\ debt' = debt
  BY DEF ForceCloseOutcome
<1>9. owed \in Nat /\ owed <= usd.borrowed.balance
  BY <1>2, <1>4, SharesToAmountType DEF Owed, Convertible
<1> HIDE DEF owed, a
<1>10. collateral' \in [Accounts -> Nat] /\ Total(collateral') <= Total(collateral)
       /\ Total(collateral') \in Nat
  <2>1. CASE collateral' = [collateral EXCEPT ![a] = 0]
    <3>1. collateral[a] - collateral[a] = 0 /\ collateral[a] <= collateral[a]
      BY <1>2
    <3>2. collateral' = Minus(collateral, a, collateral[a])
      BY <1>2, <2>1, <3>1 DEF Minus
    <3>3. /\ collateral' \in [Accounts -> Nat]
          /\ Total(collateral') = Total(collateral) - collateral[a]
          /\ collateral[a] <= Total(collateral)
      BY <1>1, <1>2, <3>1, <3>2, MinusTotal
    <3> QED BY <1>2, <1>4, <3>3
  <2>2. CASE collateral' = collateral
    BY <1>2, <1>4, <2>2
  <2> QED BY <1>7, <2>1, <2>2
<1>11. /\ usd' \in UsdType /\ debt' \in [Accounts -> Nat]
       /\ usd'.supplied.shares = Total(dollars') /\ usd'.borrowed.shares = Total(debt')
  <2>1. dollars' = dollars
    BY <1>5
  <2>2. CASE usd' = usd /\ debt' = debt
    BY <1>2, <1>3, <2>1, <2>2
  <2>3. CASE owed <= usd.reserved /\ usd' = less /\ debt' = [debt EXCEPT ![a] = 0]
    <3>1. debt[a] - debt[a] = 0 /\ debt[a] <= debt[a]
      BY <1>2
    <3>2. debt' = Minus(debt, a, debt[a])
      BY <1>2, <2>3, <3>1 DEF Minus
    <3>3. debt' \in [Accounts -> Nat] /\ Total(debt') = Total(debt) - debt[a]
      BY <1>1, <1>2, <3>1, <3>2, MinusTotal
    <3> DEFINE b == PoolWithdraw(usd.borrowed, debt[a], owed)
               r == usd.reserved - owed
    <3>4. b \in PoolType
      BY <1>2, <1>4, <1>9, PoolOperations DEF CanWithdraw
    <3>5. b.shares = usd.borrowed.shares - debt[a]
      BY DEF PoolWithdraw
    <3>6. r \in Nat
      BY <1>2, <1>9, <2>3
    <3>7. less = [usd EXCEPT !.reserved = r, !.borrowed = b]
      OBVIOUS
    <3> HIDE DEF b, r, less
    <3>8. less \in UsdType /\ less.supplied = usd.supplied /\ less.borrowed = b
      BY <1>2, <3>4, <3>6, <3>7 DEF UsdType
    <3> QED BY <1>3, <2>1, <2>3, <3>3, <3>5, <3>8
  <2> QED BY <1>8, <2>2, <2>3
<1>12. lpSupply' \in Nat /\ lp' \in [Accounts -> Nat]
       /\ lpSupply' >= Total(lp') + Total(collateral')
  <2>1. lpSupply' = lpSupply /\ lp' = lp
    BY <1>5
  <2> QED BY <1>2, <1>3, <1>4, <1>10, <2>1
<1>13. dollars' \in [Accounts -> Nat] /\ value' \in Nat
  BY <1>5 DEF Typed, TypeOK
<1>14. LendingTyped'
  BY <1>5, <1>10, <1>11, <1>12, <1>13 DEF LendingTyped, Books
<1> QED BY <1>5, <1>6, <1>14, PartsKept, TypedParts

\* What the market does to the types.
LEMMA MarketTypes ==
  ASSUME Typed, Market
  PROVE  Typed'
<1>1. UNCHANGED <<exchangeVars, seed, supplyVars, positionVars, locked, calls>>
  BY DEF Market, SyncLpInfos, InfoExpires
<1>2. value' \in Nat
  BY ShadowValues DEF Market, SyncLpInfos, InfoExpires, Stale
<1>3. LendingTyped'
  BY <1>1, <1>2 DEF LendingTyped, Books, supplyVars, positionVars, Typed, TypeOK
<1>4. calls' \in Seq(CallType)
  BY <1>1 DEF Typed, TypeOK
<1> QED BY <1>1, <1>3, <1>4, PartsKept, TypedParts

\* Every state has the types, and its books add up: every share of the
\* dollar's pools is some account's, and the supply of the LP token holds what
\* the accounts count (Asset::supplied, asset.rs), through every call between
\* the contracts.
THEOREM TypedInvariant == Spec => []Typed
<1>1. Init => Typed
  BY InitTyped
<1>2. Typed /\ [Next]_vars => Typed'
  <2> SUFFICES ASSUME Typed, [Next]_vars PROVE Typed'
    OBVIOUS
  <2>1. ASSUME NEW a \in Providers, Exchange(a) PROVE Typed'
    <3>1. a \in Accounts
      BY ShadowAccounts
    <3>2. PICK n \in Amounts :
             \/ AddLiquidity(a, n)
             \/ RemoveLiquidity(a, n)
             \/ \E b \in Accounts : TransferShares(a, b, n)
             \/ CastShadow("ToFarming", a, n, FALSE)
             \/ RemoveShadow("FromFarming", a, n, FALSE)
             \/ \E execute \in BOOLEAN : \/ CastShadow("ToBurrowland", a, n, execute)
                                         \/ RemoveShadow("FromBurrowland", a, n, execute)
      BY <2>1 DEF Exchange
    <3>3. n \in Nat
      BY ShadowBounds
    <3>4. \/ AddLiquidity(a, n)
          \/ RemoveLiquidity(a, n)
          \/ \E b \in Accounts : TransferShares(a, b, n)
          \/ \E kind \in ToSteps, execute \in BOOLEAN : CastShadow(kind, a, n, execute)
          \/ \E kind \in FromSteps, execute \in BOOLEAN : RemoveShadow(kind, a, n, execute)
      BY <3>2 DEF ToSteps, FromSteps
    <3> QED BY <3>1, <3>3, <3>4, ExchangeTypes
  <2>2. ASSUME NEW a \in Accounts, Lend(a) PROVE Typed'
    <3>1. ASSUME NEW n \in Amounts, IncreaseCollateral(a, n) \/ DecreaseCollateral(a, n)
          PROVE  Typed'
      BY <3>1, CollateralTypes, ShadowBounds
    <3>2. ASSUME NEW n \in Loans, Borrow(a, n) PROVE Typed'
      BY <3>2, BorrowTypes, ShadowBounds
    <3>3. ASSUME NEW req \in RequestsOver(Loans), Repay(a, req) PROVE Typed'
      BY <3>3, RepayTypes
    <3>4. ASSUME NEW v \in Accounts,
                 \/ ForceClose(a, v)
                 \/ \E req \in RequestsOver(Loans), n \in Amounts : Liquidate(a, v, req, n)
          PROVE  Typed'
      BY <3>4, AskTypes
    <3> QED BY <2>2, <3>1, <3>2, <3>3, <3>4 DEF Lend
  <2>3. ASSUME NEW a \in Accounts, Settles(a) PROVE Typed'
    BY <2>3, LiquidateOutcomeTypes, ForceCloseOutcomeTypes DEF Settles
  <2>4. CASE ExchangeReceives
    BY <2>4, ExchangeReceivesTypes DEF ExchangeReceives
  <2>5. CASE FarmReceives
    BY <2>5, FarmTypes DEF FarmReceives
  <2>6. CASE BurrowReceives
    BY <2>6, BurrowTypes DEF BurrowReceives
  <2>7. CASE ExchangeHears
    BY <2>7, ExchangeReceivesTypes DEF ExchangeHears
  <2>8. CASE Market
    BY <2>8, MarketTypes
  <2>9. CASE UNCHANGED vars
    <3>1. UNCHANGED <<exchangeVars, seed, lendingVars, calls>>
      BY <2>9 DEF vars
    <3>2. calls' \in Seq(CallType)
      BY <3>1 DEF Typed, TypeOK
    <3> QED BY <3>1, <3>2, PartsKept, TypedParts
  <2> QED BY <2>1, <2>2, <2>3, <2>4, <2>5, <2>6, <2>7, <2>8, <2>9 DEF Next
<1> QED BY <1>1, <1>2, PTL DEF Spec


\* No share of the dollar's pools is minted or burnt but for an account, by a
\* loan, a repayment or a settlement, and the supply of the LP token holds what
\* the accounts count of it (SharesConserved).
THEOREM SharesAreConserved == Spec => []SharesConserved
<1>1. Typed => SharesConserved
  <2> SUFFICES ASSUME Typed PROVE SharesConserved
    OBVIOUS
  <2>1. Total([a \in Accounts |-> lp[a] + collateral[a]]) = Total(lp) + Total(collateral)
    BY TotalOfBoth DEF Typed, TypeOK
  <2> QED BY <2>1 DEF Typed, Books, SharesConserved
<1> QED BY <1>1, TypedInvariant, PTL
-----------------------------------------------------------------------------
(***************************************************************************)
(* What the exchange keeps by itself.                                      *)
(***************************************************************************)

\* the account has the shares either shadow of it stands for
Backed(rec, total) == total >= rec.farm /\ total >= rec.burrow

\* What is burnt is uncast: from burrow, and from the farm what the shares
\* that are left do not back.
LEMMA BurningBacks ==
  ASSUME NEW rec \in RecordType, NEW total \in Nat, NEW n \in Nat, Backed(rec, total),
         n <= rec.burrow,
         LET uncast == [rec EXCEPT !.burrow = @ - n]
         IN  SeedToWithdraw(uncast, total, n) <= rec.farm
  PROVE  LET uncast == [rec EXCEPT !.burrow = @ - n]
             left   == [uncast EXCEPT !.farm = @ - SeedToWithdraw(uncast, total, n)]
         IN  Backed(left, total - n)
<1> DEFINE uncast == [rec EXCEPT !.burrow = @ - n]
           w      == SeedToWithdraw(uncast, total, n)
           left   == [uncast EXCEPT !.farm = @ - w]
<1>1. /\ uncast \in RecordType /\ uncast.burrow = rec.burrow - n /\ uncast.farm = rec.farm
      /\ rec.farm \in Nat /\ rec.burrow \in Nat
  BY RecordLess DEF RecordType
<1>2. w \in Nat /\ w <= rec.farm
  BY <1>1, SeedNumber
<1>3. left.farm = rec.farm - w /\ left.burrow = rec.burrow - n
  <2> HIDE DEF uncast, w
  <2> QED BY <1>1, <1>2, RecordLess
<1>4. LET m    == Most(rec.farm, rec.burrow - n)
          free == total - m
      IN  w = IF free > n THEN 0 ELSE n - free
  <2> HIDE DEF uncast
  <2> QED BY <1>1 DEF SeedToWithdraw, FreeShares
<1> HIDE DEF left, w
<1>5. total - n >= rec.farm - w /\ total - n >= rec.burrow - n
  BY <1>1, <1>2, <1>4 DEF Most, Backed
<1> QED BY <1>3, <1>5 DEF Backed, left, w

\* What shadows are backed by, account by account.
LEMMA BackedEverywhere ==
  ASSUME Typed
  PROVE  SharesCoverShadows <=> \A a \in Accounts : Backed(record[a], shares[a])
<1>1. \A a \in Accounts : shares[a] \in Nat /\ record[a].farm \in Nat /\ record[a].burrow \in Nat
  BY DEF Typed, TypeOK, RecordType
<1> QED BY <1>1 DEF SharesCoverShadows, Backed, Most

\* The same, of the next state.
LEMMA BackedNext ==
  ASSUME Typed', (\A a \in Accounts : Backed(record[a], shares[a]))'
  PROVE  SharesCoverShadows'
<1>1. \A a \in Accounts : shares'[a] \in Nat /\ record'[a].farm \in Nat /\ record'[a].burrow \in Nat
  BY DEF Typed, TypeOK, RecordType
<1> QED BY <1>1 DEF SharesCoverShadows, Backed, Most

\* A record that shrinks is backed by what backed it, one that grows by what
\* the shares leave room for.
LEMMA RecordBacked ==
  ASSUME Typed, SharesCoverShadows, NEW a \in Accounts, NEW kind, NEW n \in Nat,
         \/ AddShadow(a, Field(kind), n) /\ n <= shares[a] - record[a][Field(kind)]
         \/ CanSubShadow(a, Field(kind), n) /\ SubShadow(a, Field(kind), n),
         UNCHANGED shares
  PROVE  \A b \in Accounts : Backed(record'[b], shares'[b])
<1>1. /\ record \in [Accounts -> RecordType] /\ shares \in [Accounts -> Nat]
      /\ record[a] \in RecordType
      /\ record[a].farm \in Nat /\ record[a].burrow \in Nat /\ shares[a] \in Nat
  BY DEF Typed, TypeOK, RecordType
<1>2. \A b \in Accounts : Backed(record[b], shares[b])
  BY BackedEverywhere
<1>3. \A b \in Accounts \ {a} : record'[b] = record[b]
  BY <1>1 DEF AddShadow, SubShadow
<1>4. Backed(record'[a], shares[a])
  <2>1. CASE Field(kind) = "farm"
    BY <1>1, <1>2, <2>1 DEF AddShadow, CanSubShadow, SubShadow, Backed, RecordType
  <2>2. CASE Field(kind) = "burrow"
    BY <1>1, <1>2, <2>2 DEF AddShadow, CanSubShadow, SubShadow, Backed, RecordType
  <2> QED BY <2>1, <2>2 DEF Field
<1>5. shares' = shares
  OBVIOUS
<1> QED BY <1>2, <1>3, <1>4, <1>5

\* The exchange's own calls leave every shadow backed.
LEMMA ExchangeBacks ==
  ASSUME Typed, SharesCoverShadows, NEW a \in Accounts, NEW n \in Nat,
         \/ AddLiquidity(a, n)
         \/ RemoveLiquidity(a, n)
         \/ \E b \in Accounts : TransferShares(a, b, n)
         \/ \E kind \in ToSteps, execute \in BOOLEAN : CastShadow(kind, a, n, execute)
         \/ \E kind \in FromSteps, execute \in BOOLEAN : RemoveShadow(kind, a, n, execute)
  PROVE  \A b \in Accounts : Backed(record'[b], shares'[b])
<1>1. /\ record \in [Accounts -> RecordType] /\ shares \in [Accounts -> Nat]
      /\ \A b \in Accounts : record[b].farm \in Nat /\ record[b].burrow \in Nat /\ shares[b] \in Nat
  BY DEF Typed, TypeOK, RecordType
<1>2. \A b \in Accounts : Backed(record[b], shares[b])
  BY BackedEverywhere
<1>3. n <= FreeShares(record[a], shares[a]) =>
         n <= shares[a] /\ Backed(record[a], shares[a] - n)
  BY <1>1 DEF FreeShares, Most, Backed
<1>4. CASE AddLiquidity(a, n)
  <2>1. record' = record /\ shares' = [shares EXCEPT ![a] = @ + n]
    BY <1>4 DEF AddLiquidity, exchangeVars, Plus
  <2> QED BY <1>1, <1>2, <2>1 DEF Backed
<1>5. CASE RemoveLiquidity(a, n)
  <2>1. /\ record' = record /\ shares' = [shares EXCEPT ![a] = @ - n]
        /\ Backed(record[a], shares[a] - n)
    BY <1>3, <1>5 DEF RemoveLiquidity, exchangeVars, Minus
  <2> QED BY <1>1, <1>2, <2>1
<1>6. ASSUME NEW b \in Accounts, TransferShares(a, b, n)
      PROVE  \A d \in Accounts : Backed(record'[d], shares'[d])
  <2>1. /\ record' = record /\ shares' = [shares EXCEPT ![a] = @ - n, ![b] = @ + n]
        /\ a # b /\ Backed(record[a], shares[a] - n)
    BY <1>3, <1>6 DEF TransferShares
  <2>2. Backed(record[b], shares[b] + n)
    BY <1>1, <1>2 DEF Backed
  <2>3. shares'[a] = shares[a] - n /\ shares'[b] = shares[b] + n
    BY <1>1, <2>1
  <2>4. \A d \in Accounts \ {a, b} : shares'[d] = shares[d]
    BY <1>1, <2>1
  <2> QED BY <1>2, <2>1, <2>2, <2>3, <2>4
<1>7. ASSUME NEW kind \in ToSteps, NEW execute \in BOOLEAN, CastShadow(kind, a, n, execute)
      PROVE  \A b \in Accounts : Backed(record'[b], shares'[b])
  BY <1>7, RecordBacked DEF CastShadow
<1>8. ASSUME NEW kind \in FromSteps, NEW execute \in BOOLEAN, RemoveShadow(kind, a, n, execute)
      PROVE  \A b \in Accounts : Backed(record'[b], shares'[b])
  BY <1>2, <1>8 DEF RemoveShadow
<1> QED BY <1>4, <1>5, <1>6, <1>7, <1>8

\* So do burning, and the outcomes of casting and removing.
LEMMA OutcomesBack ==
  ASSUME Typed, SharesCoverShadows, NEW i \in DOMAIN calls,
         BurnForBurrow(i) \/ RefuseBurrow(i) \/ ShadowOutcome(i)
  PROVE  \A b \in Accounts : Backed(record'[b], shares'[b])
<1> DEFINE c == calls[i]
           a == c.account
<1>1. a \in Accounts /\ c.amount \in Nat
  BY CallAt, CallFields
<1>2. /\ record \in [Accounts -> RecordType] /\ shares \in [Accounts -> Nat]
      /\ record[a] \in RecordType /\ shares[a] \in Nat
  BY <1>1 DEF Typed, TypeOK
<1>3. \A b \in Accounts : Backed(record[b], shares[b])
  BY BackedEverywhere
<1>4. CASE RefuseBurrow(i)
  BY <1>3, <1>4 DEF RefuseBurrow
<1>5. CASE ShadowOutcome(i)
  <2>1. /\ UNCHANGED shares
        /\ \/ CanSubShadow(a, Field(c.kind), c.amount) /\ SubShadow(a, Field(c.kind), c.amount)
           \/ UNCHANGED record
    BY <1>5 DEF ShadowOutcome
  <2> HIDE DEF c, a
  <2> QED BY <1>1, <1>3, <2>1, RecordBacked
<1>6. CASE BurnForBurrow(i)
  <2> DEFINE uncast   == [record[a] EXCEPT !.burrow = @ - c.amount]
             withdraw == SeedToWithdraw(uncast, shares[a], c.amount)
             left     == [uncast EXCEPT !.farm = @ - withdraw]
  <2>1. /\ c.amount <= record[a].burrow /\ withdraw <= record[a].farm
        /\ record' = [record EXCEPT ![a] = left]
        /\ shares' = [shares EXCEPT ![a] = @ - c.amount]
    BY <1>6 DEF BurnForBurrow, Minus
  <2> HIDE DEF c, a
  <2>2. Backed(left, shares[a] - c.amount)
    BY <1>1, <1>2, <1>3, <2>1, BurningBacks
  <2> HIDE DEF left
  <2> QED BY <1>1, <1>2, <1>3, <2>1, <2>2
<1> QED BY <1>4, <1>5, <1>6

\* No share is moved or burnt while a shadow of it is cast (SharesCoverShadows):
\* not by a transfer or the removal of liquidity, not by burning for a
\* liquidation, and not by an outcome that arrives late
\* (mock-ref-exchange, update_shadow_record and assert_no_shadow_in).
THEOREM SharesCover == Spec => []SharesCoverShadows
<1>1. Init => SharesCoverShadows
  BY ShadowWealth DEF Init, SharesCoverShadows, Most
<1>2. Typed /\ Typed' /\ SharesCoverShadows /\ [Next]_vars => SharesCoverShadows'
  <2> SUFFICES ASSUME Typed, Typed', SharesCoverShadows, [Next]_vars
               PROVE  SharesCoverShadows'
    OBVIOUS
  <2>0. \A b \in Accounts : Backed(record[b], shares[b])
    BY BackedEverywhere
  <2> SUFFICES \A b \in Accounts : Backed(record'[b], shares'[b])
    BY BackedNext
  <2>1. ASSUME NEW a \in Providers, Exchange(a)
        PROVE  \A b \in Accounts : Backed(record'[b], shares'[b])
    <3>1. a \in Accounts
      BY ShadowAccounts
    <3>2. PICK n \in Amounts :
             \/ AddLiquidity(a, n)
             \/ RemoveLiquidity(a, n)
             \/ \E b \in Accounts : TransferShares(a, b, n)
             \/ CastShadow("ToFarming", a, n, FALSE)
             \/ RemoveShadow("FromFarming", a, n, FALSE)
             \/ \E execute \in BOOLEAN : \/ CastShadow("ToBurrowland", a, n, execute)
                                         \/ RemoveShadow("FromBurrowland", a, n, execute)
      BY <2>1 DEF Exchange
    <3>3. n \in Nat
      BY ShadowBounds
    <3>4. \/ AddLiquidity(a, n)
          \/ RemoveLiquidity(a, n)
          \/ \E b \in Accounts : TransferShares(a, b, n)
          \/ \E kind \in ToSteps, execute \in BOOLEAN : CastShadow(kind, a, n, execute)
          \/ \E kind \in FromSteps, execute \in BOOLEAN : RemoveShadow(kind, a, n, execute)
      BY <3>2 DEF ToSteps, FromSteps
    <3> QED BY <3>1, <3>3, <3>4, ExchangeBacks
  <2>2. CASE ExchangeReceives \/ ExchangeHears
    BY <2>2, OutcomesBack DEF ExchangeReceives, ExchangeHears
  <2>3. CASE UNCHANGED exchangeVars
    BY <2>0, <2>3 DEF exchangeVars
  <2>4. ASSUME NEW a \in Accounts, Lend(a) \/ Settles(a) PROVE UNCHANGED exchangeVars
    <3>1. ASSUME Lend(a) PROVE UNCHANGED exchangeVars
      <4>1. ASSUME NEW n, IncreaseCollateral(a, n) \/ DecreaseCollateral(a, n) \/ Borrow(a, n)
            PROVE  UNCHANGED exchangeVars
        BY <4>1 DEF IncreaseCollateral, DecreaseCollateral, Borrow
      <4>2. ASSUME NEW req, Repay(a, req) PROVE UNCHANGED exchangeVars
        BY <4>2 DEF Repay
      <4>3. ASSUME NEW v, ForceClose(a, v) PROVE UNCHANGED exchangeVars
        BY <4>3 DEF ForceClose
      <4>4. ASSUME NEW v, NEW req, NEW n, Liquidate(a, v, req, n) PROVE UNCHANGED exchangeVars
        BY <4>4 DEF Liquidate
      <4> HIDE DEF exchangeVars
      <4> QED BY <3>1, <4>1, <4>2, <4>3, <4>4 DEF Lend
    <3>2. ASSUME Settles(a) PROVE UNCHANGED exchangeVars
      BY <3>2 DEF Settles, LiquidateOutcome, ForceCloseOutcome, exchangeVars
    <3> QED BY <2>4, <3>1, <3>2
  <2>5. FarmReceives \/ BurrowReceives \/ Market \/ UNCHANGED vars => UNCHANGED exchangeVars
    BY DEF FarmReceives, StakeSeed, UnstakeSeed, RefuseSeed,
           BurrowReceives, LpDeposited, LpWithdrawn, RefuseShadow,
           Market, SyncLpInfos, InfoExpires, vars
  <2> QED BY <2>1, <2>2, <2>3, <2>4, <2>5 DEF Next
<1> QED BY <1>1, <1>2, TypedInvariant, PTL DEF Spec

-----------------------------------------------------------------------------
(***************************************************************************)
(* Who is locked while a settlement is under way.  The predicates take the *)
(* calls, the locks and the collateral as parameters, so that each lemma   *)
(* speaks of one change to the calls.                                      *)
(***************************************************************************)
IsSettlement(c) == c.kind \in {"Liquidate", "ForceClose"}

\* whom a settlement locks
PartiesOf(c) == {c.account} \cup (IF c.kind = "Liquidate" THEN {c.liquidator} ELSE {})

\* a forced closing takes all the collateral, a liquidation some of it
Claims(c, n) == IF c.kind = "ForceClose" THEN c.amount = n ELSE c.amount <= n

\* every party of a settlement is locked, no account is a party of two, and the
\* collateral that is asked for is still there
Locking(cs, l, coll) ==
    /\ \A i \in DOMAIN cs : IsSettlement(cs[i]) => PartiesOf(cs[i]) \subseteq l
    /\ \A i, j \in DOMAIN cs :
          IsSettlement(cs[i]) /\ IsSettlement(cs[j]) /\ i # j => PartiesOf(cs[i]) \cap PartiesOf(cs[j]) = {}
    /\ \A i \in DOMAIN cs : IsSettlement(cs[i]) => Claims(cs[i], coll[cs[i].account])

\* locked for ever: no settlement is left that would release the account
Stuck(cs, l, b) ==
    b \in l /\ \A i \in DOMAIN cs : IsSettlement(cs[i]) => b \notin PartiesOf(cs[i])

\* A call that is sent, and locks none.
LEMMA LockingSent ==
  ASSUME NEW cs \in Seq(CallType), NEW c \in CallType, ~ IsSettlement(c), NEW l, NEW coll,
         Locking(cs, l, coll)
  PROVE  /\ Locking(Append(cs, c), l, coll)
         /\ \A b \in Accounts : Stuck(cs, l, b) => Stuck(Append(cs, c), l, b)
<1> DEFINE after == Append(cs, c)
<1>1. Len(cs) \in Nat /\ DOMAIN cs = 1 .. Len(cs)
  BY LenProperties
<1>2. /\ after \in Seq(CallType) /\ Len(after) = Len(cs) + 1
      /\ \A i \in 1 .. Len(cs) : after[i] = cs[i]
      /\ after[Len(cs) + 1] = c
  BY AppendProperties
<1>3. DOMAIN after = 1 .. Len(cs) + 1
  BY <1>2, LenProperties
<1> HIDE DEF after
<1>4. \A i \in DOMAIN after : \/ i \in DOMAIN cs /\ after[i] = cs[i]
                              \/ after[i] = c
  BY <1>1, <1>2, <1>3
<1>6. Locking(after, l, coll)
  BY <1>4 DEF Locking
<1>7. \A b \in Accounts : Stuck(cs, l, b) => Stuck(after, l, b)
  BY <1>4 DEF Stuck
<1> QED BY <1>6, <1>7 DEF after

\* A settlement that is asked for, of accounts that were not locked.
LEMMA LockingAsked ==
  ASSUME NEW cs \in Seq(CallType), NEW c \in CallType, IsSettlement(c), NEW l, NEW coll,
         Locking(cs, l, coll), PartiesOf(c) \cap l = {},
         Claims(c, coll[c.account])
  PROVE  /\ Locking(Append(cs, c), l \cup PartiesOf(c), coll)
         /\ \A b \in Accounts : Stuck(cs, l, b) => Stuck(Append(cs, c), l \cup PartiesOf(c), b)
<1> DEFINE after == Append(cs, c)
           p == PartiesOf(c)
<1>1. Len(cs) \in Nat /\ DOMAIN cs = 1 .. Len(cs)
  BY LenProperties
<1>2. /\ after \in Seq(CallType) /\ Len(after) = Len(cs) + 1
      /\ \A i \in 1 .. Len(cs) : after[i] = cs[i]
      /\ after[Len(cs) + 1] = c
  BY AppendProperties
<1>3. DOMAIN after = 1 .. Len(cs) + 1
  BY <1>2, LenProperties
<1> HIDE DEF after
<1>4. \A i \in DOMAIN after : \/ i \in DOMAIN cs /\ after[i] = cs[i]
                              \/ i = Len(cs) + 1 /\ after[i] = c
  BY <1>1, <1>2, <1>3
<1>5. \A i \in DOMAIN cs : IsSettlement(cs[i]) => PartiesOf(cs[i]) \cap p = {}
  BY DEF Locking
<1>6. \A i \in DOMAIN after : IsSettlement(after[i]) => PartiesOf(after[i]) \subseteq l \cup p
  BY <1>4 DEF Locking
<1>7. ASSUME NEW i \in DOMAIN after, NEW j \in DOMAIN after,
             IsSettlement(after[i]), IsSettlement(after[j]), i # j
      PROVE  PartiesOf(after[i]) \cap PartiesOf(after[j]) = {}
  <2>1. CASE i \in DOMAIN cs /\ after[i] = cs[i] /\ j \in DOMAIN cs /\ after[j] = cs[j]
    BY <1>7, <2>1 DEF Locking
  <2>2. CASE i \in DOMAIN cs /\ after[i] = cs[i] /\ after[j] = c
    BY <1>5, <1>7, <2>2
  <2>3. CASE after[i] = c /\ j \in DOMAIN cs /\ after[j] = cs[j]
    BY <1>5, <1>7, <2>3
  <2> QED BY <1>4, <1>7, <2>1, <2>2, <2>3
<1>8. \A i \in DOMAIN after : IsSettlement(after[i]) => Claims(after[i], coll[after[i].account])
  BY <1>4 DEF Locking
<1>9. Locking(after, l \cup p, coll)
  <2> HIDE DEF p
  <2> QED BY <1>6, <1>7, <1>8 DEF Locking
<1>10. ASSUME NEW b \in Accounts, Stuck(cs, l, b)
       PROVE  Stuck(after, l \cup p, b)
  <2>1. b \in l /\ b \notin p
    BY <1>10 DEF Stuck
  <2>2. \A i \in DOMAIN after : IsSettlement(after[i]) => b \notin PartiesOf(after[i])
    BY <1>4, <1>10, <2>1 DEF Stuck
  <2> QED BY <2>1, <2>2 DEF Stuck
<1> QED BY <1>9, <1>10 DEF after, p

\* An answer.
LEMMA LockingAnswered ==
  ASSUME NEW cs \in Seq(CallType), NEW i \in DOMAIN cs, NEW s \in Stages, NEW l, NEW coll,
         Locking(cs, l, coll)
  PROVE  LET after == [cs EXCEPT ![i].stage = s]
         IN  /\ Locking(after, l, coll)
             /\ \A b \in Accounts : Stuck(cs, l, b) => Stuck(after, l, b)
<1> DEFINE after == [cs EXCEPT ![i].stage = s]
<1>1. /\ DOMAIN after = DOMAIN cs
      /\ \A j \in DOMAIN cs \ {i} : after[j] = cs[j]
      /\ after[i] = [cs[i] EXCEPT !.stage = s]
  BY Answer
<1>2. cs[i] \in CallType
  BY LenProperties, ElementOfSeq
<1> HIDE DEF after
<1>3. /\ after[i].kind = cs[i].kind /\ after[i].account = cs[i].account
      /\ after[i].amount = cs[i].amount
      /\ cs[i].kind = "Liquidate" => after[i].liquidator = cs[i].liquidator
  BY <1>1, <1>2, AnsweredCall
<1>4. \A j \in DOMAIN after :
         /\ j \in DOMAIN cs
         /\ IsSettlement(after[j]) <=> IsSettlement(cs[j])
         /\ PartiesOf(after[j]) = PartiesOf(cs[j])
         /\ after[j].account = cs[j].account
         /\ \A n : Claims(after[j], n) <=> Claims(cs[j], n)
  BY <1>1, <1>3 DEF IsSettlement, PartiesOf, Claims
<1>5. Locking(after, l, coll)
  BY <1>1, <1>4 DEF Locking
<1>6. \A b \in Accounts : Stuck(cs, l, b) => Stuck(after, l, b)
  BY <1>1, <1>4 DEF Stuck
<1> QED BY <1>5, <1>6 DEF after

\* A call that is heard of: a settlement releases its parties or, when its
\* callback aborts, leaves its own account stuck.  The collateral of its
\* account may change, but of no other that is locked.
LEMMA LockingHeard ==
  ASSUME NEW cs \in Seq(CallType), NEW i \in DOMAIN cs, NEW l, NEW r, NEW coll, NEW coll2,
         Locking(cs, l, coll),
         \A b \in l : coll2[b] # coll[b] => IsSettlement(cs[i]) /\ b = cs[i].account,
         r = l \/ (IsSettlement(cs[i]) /\ r = l \ PartiesOf(cs[i]))
  PROVE  /\ Locking(RemoveAt(cs, i), r, coll2)
         /\ \A b \in Accounts : Stuck(cs, l, b) => Stuck(RemoveAt(cs, i), r, b)
         /\ IsSettlement(cs[i]) /\ r = l => Stuck(RemoveAt(cs, i), r, cs[i].account)
<1> DEFINE after == RemoveAt(cs, i)
           at(j) == Before(i, j)
<1>1. /\ Len(cs) \in Nat /\ DOMAIN after = 1 .. Len(cs) - 1
      /\ \A j \in DOMAIN after : at(j) \in DOMAIN cs \ {i} /\ after[j] = cs[at(j)]
  BY Removed
<1>2. \A j, k \in DOMAIN after : j # k => at(j) # at(k)
  BY <1>1 DEF Before
<1> HIDE DEF after, at
<1>3. \A j \in DOMAIN cs \ {i} : IsSettlement(cs[j]) => PartiesOf(cs[j]) \subseteq r
  BY DEF Locking
<1>4. \A j \in DOMAIN after : IsSettlement(after[j]) => PartiesOf(after[j]) \subseteq r
  BY <1>1, <1>3
<1>5. \A j, k \in DOMAIN after :
         IsSettlement(after[j]) /\ IsSettlement(after[k]) /\ j # k =>
            PartiesOf(after[j]) \cap PartiesOf(after[k]) = {}
  BY <1>1, <1>2 DEF Locking
<1>6. ASSUME NEW j \in DOMAIN cs \ {i}, IsSettlement(cs[j])
      PROVE  Claims(cs[j], coll2[cs[j].account])
  <2>1. cs[j].account \in PartiesOf(cs[j])
    BY DEF PartiesOf
  <2>2. cs[j].account \in l
    BY <1>6, <2>1 DEF Locking
  <2>3. IsSettlement(cs[i]) => cs[j].account # cs[i].account
    BY <1>6, <2>1 DEF Locking, PartiesOf
  <2>4. coll2[cs[j].account] = coll[cs[j].account]
    BY <2>2, <2>3
  <2> QED BY <1>6, <2>4 DEF Locking
<1>7. \A j \in DOMAIN after : IsSettlement(after[j]) => Claims(after[j], coll2[after[j].account])
  BY <1>1, <1>6
<1>8. Locking(after, r, coll2)
  BY <1>4, <1>5, <1>7 DEF Locking
<1>9. \A b \in Accounts : Stuck(cs, l, b) => Stuck(after, r, b)
  BY <1>1 DEF Stuck
<1>10. ASSUME IsSettlement(cs[i]), r = l PROVE Stuck(after, r, cs[i].account)
  <2>1. cs[i].account \in PartiesOf(cs[i])
    BY DEF PartiesOf
  <2>2. cs[i].account \in l
    BY <1>10, <2>1 DEF Locking
  <2>3. \A j \in DOMAIN cs \ {i} : IsSettlement(cs[j]) => cs[i].account \notin PartiesOf(cs[j])
    BY <1>10, <2>1 DEF Locking
  <2> QED BY <1>1, <1>10, <2>2, <2>3 DEF Stuck
<1> QED BY <1>8, <1>9, <1>10 DEF after

-----------------------------------------------------------------------------
(***************************************************************************)
(* What the calls under way add to one side of the books and not yet to    *)
(* the other.                                                              *)
(***************************************************************************)
AheadOf(c, a) ==
    IF c.account # a THEN 0
    ELSE IF c.kind = "ToBurrowland" /\ c.stage # "done" THEN c.amount
    ELSE IF c.kind = "FromBurrowland" /\ c.stage = "done" THEN c.amount
    ELSE IF c.kind \in {"Liquidate", "ForceClose"} /\ c.stage = "done" THEN -c.amount
    ELSE 0

AheadIn(cs, a) == [i \in DOMAIN cs |-> AheadOf(cs[i], a)]

Pending(cs, a) == Total(AheadIn(cs, a))

\* Each is an integer.
LEMMA AheadType ==
  ASSUME NEW cs \in Seq(CallType), NEW a
  PROVE  /\ Len(cs) \in Nat /\ DOMAIN cs = 1 .. Len(cs) /\ IsFiniteSet(DOMAIN cs)
         /\ \A i \in DOMAIN cs : AheadOf(cs[i], a) \in Int /\ AheadIn(cs, a)[i] = AheadOf(cs[i], a)
         /\ Pending(cs, a) = SumFunctionOnSet(AheadIn(cs, a), DOMAIN cs)
         /\ Pending(cs, a) \in Int
<1>1. Len(cs) \in Nat /\ DOMAIN cs = 1 .. Len(cs)
  BY LenProperties
<1>2. IsFiniteSet(1 .. Len(cs))
  BY <1>1, FS_Interval
<1>3. \A i \in DOMAIN cs : AheadOf(cs[i], a) \in Int
  <2> TAKE i \in DOMAIN cs
  <2>1. cs[i] \in CallType
    BY <1>1, ElementOfSeq
  <2>2. cs[i].amount \in Nat
    BY <2>1, CallFields
  <2> QED BY <2>2 DEF AheadOf
<1>4. \A i \in DOMAIN cs : AheadIn(cs, a)[i] = AheadOf(cs[i], a)
  BY DEF AheadIn
<1>5. Pending(cs, a) = SumFunctionOnSet(AheadIn(cs, a), DOMAIN cs)
  BY DEF Pending, AheadIn, Total, SumFunction
<1>6. SumFunctionOnSet(AheadIn(cs, a), DOMAIN cs) \in Int
  BY <1>1, <1>2, <1>3, <1>4, SumInteger
<1> QED BY <1>1, <1>2, <1>3, <1>4, <1>5, <1>6

\* Nothing is pending at first.
LEMMA PendingNothing ==
  ASSUME NEW a
  PROVE  Pending(<< >>, a) = 0
<1>1. << >> \in Seq(CallType) /\ DOMAIN << >> = {}
  BY EmptySeq
<1>2. Pending(<< >>, a) = SumFunctionOnSet(AheadIn(<< >>, a), {})
  BY <1>1, AheadType
<1> QED BY <1>2, SumEmpty

\* A call that is sent.
LEMMA PendingSent ==
  ASSUME NEW cs \in Seq(CallType), NEW c \in CallType, NEW a
  PROVE  Pending(Append(cs, c), a) = Pending(cs, a) + AheadOf(c, a)
<1> DEFINE after == Append(cs, c)
           n == Len(cs) + 1
           f == AheadIn(cs, a)
           g == AheadIn(after, a)
<1>1. /\ Len(cs) \in Nat /\ DOMAIN cs = 1 .. Len(cs) /\ IsFiniteSet(DOMAIN cs)
      /\ \A i \in DOMAIN cs : f[i] = AheadOf(cs[i], a)
      /\ Pending(cs, a) = SumFunctionOnSet(f, DOMAIN cs) /\ Pending(cs, a) \in Int
  BY AheadType
<1>2. /\ after \in Seq(CallType) /\ Len(after) = n
      /\ \A i \in 1 .. Len(cs) : after[i] = cs[i]
      /\ after[n] = c
  BY AppendProperties
<1> HIDE DEF after, f
<1>3. /\ DOMAIN after = 1 .. n /\ IsFiniteSet(DOMAIN after)
      /\ \A i \in DOMAIN after : g[i] = AheadOf(after[i], a) /\ AheadOf(after[i], a) \in Int
      /\ Pending(after, a) = SumFunctionOnSet(g, DOMAIN after)
  BY <1>2, AheadType
<1> HIDE DEF g
<1>4. n \in 1 .. n /\ 1 .. n \ {n} = DOMAIN cs
  BY <1>1
<1> HIDE DEF n
<1>5. SumFunctionOnSet(g, 1 .. n) = g[n] + SumFunctionOnSet(g, DOMAIN cs)
  <2>1. \A i \in 1 .. n : g[i] \in Int
    BY <1>3
  <2>2. SumFunctionOnSet(g, 1 .. n) = g[n] + SumFunctionOnSet(g, (1 .. n) \ {n})
    BY <1>3, <1>4, <2>1, SumRemoveInteger
  <2> QED BY <1>4, <2>2
<1>6. \A i \in DOMAIN cs : g[i] = f[i]
  BY <1>1, <1>2, <1>3, <1>4
<1>7. SumFunctionOnSet(g, DOMAIN cs) = SumFunctionOnSet(f, DOMAIN cs)
  BY <1>1, <1>6, SumSame
<1>8. g[n] = AheadOf(c, a) /\ AheadOf(c, a) \in Int
  BY <1>2, <1>3, <1>4
<1>9. Pending(after, a) = AheadOf(c, a) + Pending(cs, a)
  BY <1>1, <1>3, <1>5, <1>7, <1>8
<1>10. AheadOf(c, a) + Pending(cs, a) = Pending(cs, a) + AheadOf(c, a)
  BY <1>1, <1>8
<1> QED BY <1>9, <1>10 DEF after

\* An answer.
LEMMA PendingAnswered ==
  ASSUME NEW cs \in Seq(CallType), NEW i \in DOMAIN cs, NEW s \in Stages, NEW a
  PROVE  Pending([cs EXCEPT ![i].stage = s], a)
            = Pending(cs, a) - AheadOf(cs[i], a) + AheadOf([cs[i] EXCEPT !.stage = s], a)
<1> DEFINE after == [cs EXCEPT ![i].stage = s]
           d == [cs[i] EXCEPT !.stage = s]
           f == AheadIn(cs, a)
           g == AheadIn(after, a)
<1>1. /\ IsFiniteSet(DOMAIN cs)
      /\ \A j \in DOMAIN cs : f[j] = AheadOf(cs[j], a) /\ AheadOf(cs[j], a) \in Int
      /\ Pending(cs, a) = SumFunctionOnSet(f, DOMAIN cs)
  BY AheadType
<1>2. /\ after \in Seq(CallType) /\ DOMAIN after = DOMAIN cs
      /\ \A j \in DOMAIN cs \ {i} : after[j] = cs[j]
      /\ after[i] = d
  BY Answer
<1> HIDE DEF after, f, d
<1>3. /\ \A j \in DOMAIN cs : g[j] = AheadOf(after[j], a) /\ AheadOf(after[j], a) \in Int
      /\ Pending(after, a) = SumFunctionOnSet(g, DOMAIN cs)
  BY <1>2, AheadType
<1> HIDE DEF g
<1>4. \A j \in DOMAIN cs : f[j] \in Int /\ g[j] \in Int
  BY <1>1, <1>3
<1>5. \A j \in DOMAIN cs \ {i} : f[j] = g[j]
  BY <1>1, <1>2, <1>3
<1>6. SumFunctionOnSet(g, DOMAIN cs) = SumFunctionOnSet(f, DOMAIN cs) - f[i] + g[i]
  BY <1>1, <1>4, <1>5, SumChangeInteger
<1>7. f[i] = AheadOf(cs[i], a) /\ g[i] = AheadOf(d, a)
  BY <1>1, <1>2, <1>3
<1>8. Pending(after, a) = Pending(cs, a) - AheadOf(cs[i], a) + AheadOf(d, a)
  BY <1>1, <1>3, <1>6, <1>7
<1> QED BY <1>8 DEF after, d

\* A call that is heard of.
LEMMA PendingHeard ==
  ASSUME NEW cs \in Seq(CallType), NEW i \in DOMAIN cs, NEW a
  PROVE  Pending(RemoveAt(cs, i), a) = Pending(cs, a) - AheadOf(cs[i], a)
<1> DEFINE after == RemoveAt(cs, i)
           n == Len(cs)
           f == AheadIn(cs, a)
           g == AheadIn(after, a)
           h == [j \in 1 .. n - 1 |-> Before(i, j)]
<1>1. /\ n \in Nat /\ DOMAIN cs = 1 .. n /\ IsFiniteSet(DOMAIN cs)
      /\ \A j \in DOMAIN cs : f[j] = AheadOf(cs[j], a) /\ AheadOf(cs[j], a) \in Int
      /\ Pending(cs, a) = SumFunctionOnSet(f, DOMAIN cs)
  BY AheadType
<1>2. /\ after \in Seq(CallType) /\ DOMAIN after = 1 .. n - 1 /\ i \in 1 .. n
      /\ \A j \in 1 .. n - 1 : Before(i, j) \in DOMAIN cs \ {i} /\ after[j] = cs[Before(i, j)]
  BY Removed
<1> HIDE DEF after, f
<1>3. /\ IsFiniteSet(1 .. n - 1)
      /\ \A j \in 1 .. n - 1 : g[j] = AheadOf(after[j], a) /\ AheadOf(after[j], a) \in Int
      /\ Pending(after, a) = SumFunctionOnSet(g, 1 .. n - 1)
  BY <1>2, AheadType
<1> HIDE DEF g
<1>4. \A j, k \in 1 .. n - 1 : h[j] = h[k] => j = k
  BY <1>1, <1>2 DEF Before
<1>5. {h[j] : j \in 1 .. n - 1} = DOMAIN cs \ {i}
  <2>1. \A j \in 1 .. n - 1 : h[j] \in DOMAIN cs \ {i}
    BY <1>2
  <2>2. ASSUME NEW k \in DOMAIN cs \ {i}
        PROVE  \E j \in 1 .. n - 1 : h[j] = k
    <3>1. CASE k < i
      <4>1. k \in 1 .. n - 1 /\ h[k] = k
        BY <1>1, <1>2, <3>1 DEF Before
      <4> QED BY <4>1
    <3>2. CASE ~ k < i
      <4>1. k - 1 \in 1 .. n - 1 /\ ~ k - 1 < i /\ k - 1 + 1 = k
        BY <1>1, <1>2, <3>2
      <4>2. h[k - 1] = k
        BY <4>1 DEF Before
      <4> QED BY <4>1, <4>2
    <3> QED BY <3>1, <3>2
  <2> HIDE DEF h
  <2> QED BY <2>1, <2>2
<1>6. h \in [1 .. n - 1 -> DOMAIN cs]
  BY <1>2
<1>7. \A j \in 1 .. n - 1 : g[j] \in Int /\ f[h[j]] = g[j]
  BY <1>1, <1>2, <1>3
<1> HIDE DEF h, n
<1>8. SumFunctionOnSet(g, 1 .. n - 1) = SumFunctionOnSet(f, DOMAIN cs \ {i})
  <2> DEFINE s == 1 .. n - 1
             t == DOMAIN cs
  <2>a. IsFiniteSet(s) /\ IsFiniteSet(t) /\ h \in [s -> t]
    BY <1>1, <1>3, <1>6
  <2>b. \A j \in s : g[j] \in Int /\ f[h[j]] = g[j]
    BY <1>7
  <2>c. \A j, k \in s : h[j] = h[k] => j = k
    BY <1>4
  <2>1. SumFunctionOnSet(g, 1 .. n - 1) = SumFunctionOnSet(f, {h[j] : j \in 1 .. n - 1})
    <3> HIDE DEF s, t
    <3>1. SumFunctionOnSet(g, s) = SumFunctionOnSet(f, {h[j] : j \in s})
      BY <2>a, <2>b, <2>c, SumReindexed
    <3> QED BY <3>1 DEF s
  <2> QED BY <1>5, <2>1
<1>9. SumFunctionOnSet(f, DOMAIN cs) = f[i] + SumFunctionOnSet(f, DOMAIN cs \ {i})
  <2>1. \A j \in DOMAIN cs : f[j] \in Int
    BY <1>1
  <2> QED BY <1>1, <2>1, SumRemoveInteger
<1>10. SumFunctionOnSet(f, DOMAIN cs \ {i}) \in Int
  <2>1. IsFiniteSet(DOMAIN cs \ {i})
    BY <1>1, FS_Subset
  <2> QED BY <1>1, <2>1, SumInteger
<1>11. f[i] \in Int /\ f[i] = AheadOf(cs[i], a)
  BY <1>1
<1>12. Pending(after, a) = Pending(cs, a) - AheadOf(cs[i], a)
  <2> DEFINE x == SumFunctionOnSet(f, DOMAIN cs \ {i})
             y == AheadOf(cs[i], a)
  <2>1. Pending(after, a) = x /\ Pending(cs, a) = y + x /\ x \in Int /\ y \in Int
    BY <1>1, <1>3, <1>8, <1>9, <1>10, <1>11
  <2> HIDE DEF x, y
  <2>2. Pending(after, a) = Pending(cs, a) - y
    BY <2>1
  <2> QED BY <2>2 DEF y
<1> QED BY <1>12 DEF after

-----------------------------------------------------------------------------
(***************************************************************************)
(* The invariant of the two sides of the books: what a step must keep, and *)
(* the ways in which steps change the calls.                               *)
(***************************************************************************)

\* what the exchange's record holds beyond what the lending contract and the
\* calls under way account for
Gap(b) == record[b].burrow - (lp[b] + collateral[b]) - Pending(calls, b)

LocksHeld == Locking(calls, locked, collateral)

Matching ==
    /\ LocksHeld
    /\ \A b \in Accounts : Stuck(calls, locked, b) \/ Gap(b) = 0

\* what every step does: no lock is lost, an account that is stuck remains so,
\* and of the others nothing goes missing
Kept ==
    /\ LocksHeld'
    /\ \A b \in Accounts :
          /\ Stuck(calls, locked, b) => Stuck(calls', locked', b)
          /\ Stuck(calls', locked', b)
             \/ record'[b].burrow - (lp'[b] + collateral'[b]) - Pending(calls', b) = Gap(b)

\* What is kept still matches.
LEMMA KeptMatches ==
  ASSUME Matching, Kept
  PROVE  Matching'
<1>1. \A b \in Accounts : Stuck(calls', locked', b) \/ Gap(b)' = 0
  BY DEF Matching, Kept, Gap
<1> QED BY <1>1 DEF Matching, Kept

\* The terms of the gap are numbers.
LEMMA GapNumbers ==
  ASSUME Typed, NEW b \in Accounts
  PROVE  /\ record[b] \in RecordType /\ record[b].burrow \in Nat /\ record[b].farm \in Nat
         /\ lp[b] \in Nat /\ collateral[b] \in Nat
         /\ calls \in Seq(CallType) /\ Pending(calls, b) \in Int
<1>1. calls \in Seq(CallType)
  BY DEF Typed, TypeOK
<1>2. Pending(calls, b) \in Int
  BY <1>1, AheadType
<1> QED BY <1>1, <1>2 DEF Typed, TypeOK, RecordType

\* Locks do not look at the collateral of accounts that are not locked.
LEMMA LockingCollateral ==
  ASSUME NEW cs, NEW l, NEW coll, NEW coll2, Locking(cs, l, coll),
         \A b \in l : coll2[b] = coll[b]
  PROVE  Locking(cs, l, coll2)
<1>1. ASSUME NEW i \in DOMAIN cs, IsSettlement(cs[i])
      PROVE  coll2[cs[i].account] = coll[cs[i].account]
  BY <1>1 DEF Locking, PartiesOf
<1> QED BY <1>1 DEF Locking

\* A step without a call.
LEMMA StillKept ==
  ASSUME Typed, Matching, UNCHANGED <<locked, calls>>,
         \A b \in locked : collateral'[b] = collateral[b],
         \A b \in Accounts : record'[b].burrow - (lp'[b] + collateral'[b])
                                = record[b].burrow - (lp[b] + collateral[b])
  PROVE  Kept
<1>1. Locking(calls, locked, collateral')
  BY LockingCollateral DEF Matching, LocksHeld
<1>2. LocksHeld'
  BY <1>1 DEF LocksHeld
<1>3. \A b \in Accounts : /\ Stuck(calls, locked, b) => Stuck(calls', locked', b)
                          /\ record'[b].burrow - (lp'[b] + collateral'[b]) - Pending(calls', b)
                                = Gap(b)
  BY DEF Gap
<1> QED BY <1>2, <1>3 DEF Kept

\* A step that sends a call which locks no one.
LEMMA SendKeeps ==
  ASSUME Typed, Matching, NEW c \in CallType, ~ IsSettlement(c), Send(c),
         UNCHANGED <<lp, collateral, locked>>,
         \A b \in Accounts : record'[b].burrow = record[b].burrow + AheadOf(c, b)
  PROVE  Kept
<1>1. calls \in Seq(CallType) /\ calls' = Append(calls, c)
  BY DEF Typed, TypeOK, Send
<1>2. /\ Locking(calls', locked', collateral')
      /\ \A b \in Accounts : Stuck(calls, locked, b) => Stuck(calls', locked', b)
  BY <1>1, LockingSent DEF Matching, LocksHeld
<1>3. ASSUME NEW b \in Accounts
      PROVE  record'[b].burrow - (lp'[b] + collateral'[b]) - Pending(calls', b) = Gap(b)
  <2>1. Pending(calls', b) = Pending(calls, b) + AheadOf(c, b)
    BY <1>1, PendingSent
  <2>2. record[b].burrow \in Nat /\ lp[b] \in Nat /\ collateral[b] \in Nat /\ Pending(calls, b) \in Int
    BY GapNumbers
  <2>3. AheadOf(c, b) \in Int
    BY CallFields DEF AheadOf
  <2>4. record'[b].burrow = record[b].burrow + AheadOf(c, b) /\ lp' = lp /\ collateral' = collateral
    OBVIOUS
  <2> QED BY <2>1, <2>2, <2>3, <2>4 DEF Gap
<1> QED BY <1>2, <1>3 DEF Kept, LocksHeld

\* What an answer does to what is pending.
LEMMA PendingAfter ==
  ASSUME calls \in Seq(CallType), NEW i \in DOMAIN calls, NEW s \in Stages,
         calls' = [calls EXCEPT ![i].stage = s], NEW b
  PROVE  Pending(calls', b)
            = Pending(calls, b) - AheadOf(calls[i], b) + AheadOf([calls[i] EXCEPT !.stage = s], b)
<1>1. Pending([calls EXCEPT ![i].stage = s], b)
         = Pending(calls, b) - AheadOf(calls[i], b) + AheadOf([calls[i] EXCEPT !.stage = s], b)
  BY PendingAnswered
<1> QED BY <1>1

\* A step that answers a call, at the contract it was sent to.
LEMMA AnswerKeeps ==
  ASSUME Typed, Typed', Matching, NEW i \in DOMAIN calls, NEW s \in Stages,
         calls' = Answered(i, s), UNCHANGED locked,
         \A b \in locked : collateral'[b] = collateral[b],
         \A b \in Accounts :
            record'[b].burrow - (lp'[b] + collateral'[b])
               = record[b].burrow - (lp[b] + collateral[b])
                    - AheadOf(calls[i], b) + AheadOf([calls[i] EXCEPT !.stage = s], b)
  PROVE  Kept
<1> DEFINE d == [calls[i] EXCEPT !.stage = s]
<1>1. calls \in Seq(CallType) /\ calls' = [calls EXCEPT ![i].stage = s]
  BY DEF Typed, TypeOK, Answered
<1>2. /\ Locking(calls', locked, collateral)
      /\ \A b \in Accounts : Stuck(calls, locked, b) => Stuck(calls', locked, b)
  <2>1. Locking(calls, locked, collateral)
    BY DEF Matching, LocksHeld
  <2>2. LET after == [calls EXCEPT ![i].stage = s]
        IN  /\ Locking(after, locked, collateral)
            /\ \A b \in Accounts : Stuck(calls, locked, b) => Stuck(after, locked, b)
    BY <1>1, <2>1, LockingAnswered
  <2> QED BY <1>1, <2>2
<1>3. Locking(calls', locked, collateral')
  BY <1>2, LockingCollateral
<1>4. calls[i] \in CallType /\ d \in CallType
  BY CallAt, AnsweredCall
<1>5. ASSUME NEW b \in Accounts
      PROVE  record'[b].burrow - (lp'[b] + collateral'[b]) - Pending(calls', b) = Gap(b)
  <2>1. Pending(calls', b) = Pending(calls, b) - AheadOf(calls[i], b) + AheadOf(d, b)
    BY <1>1, PendingAfter
  <2>2. /\ record[b].burrow \in Nat /\ lp[b] \in Nat /\ collateral[b] \in Nat
        /\ Pending(calls, b) \in Int
    BY GapNumbers
  <2>3. calls[i].amount \in Nat /\ d.amount \in Nat
    BY <1>4, CallFields
  <2>4. AheadOf(calls[i], b) \in Int /\ AheadOf(d, b) \in Int
    BY <2>3 DEF AheadOf
  <2>5. record'[b].burrow - (lp'[b] + collateral'[b])
           = record[b].burrow - (lp[b] + collateral[b]) - AheadOf(calls[i], b) + AheadOf(d, b)
    OBVIOUS
  <2> HIDE DEF d
  <2> QED BY <2>1, <2>2, <2>4, <2>5 DEF Gap
<1> QED BY <1>3, <1>5, <1>2 DEF Kept, LocksHeld

\* A step in which a call is heard of, and a settlement releases its parties
\* or leaves its account stuck.
LEMMA DropKeeps ==
  ASSUME Typed, Matching, NEW i \in DOMAIN calls, Drop(i),
         \A b \in locked : collateral'[b] # collateral[b] =>
                              IsSettlement(calls[i]) /\ b = calls[i].account,
         locked' = locked \/ (IsSettlement(calls[i]) /\ locked' = locked \ PartiesOf(calls[i])),
         \A b \in Accounts :
            \/ IsSettlement(calls[i]) /\ locked' = locked /\ b = calls[i].account
            \/ record'[b].burrow - (lp'[b] + collateral'[b])
                  = record[b].burrow - (lp[b] + collateral[b]) - AheadOf(calls[i], b)
  PROVE  Kept
<1>1. calls \in Seq(CallType) /\ calls' = RemoveAt(calls, i)
  BY DEF Typed, TypeOK, Drop
<1> DEFINE l == locked
           r == locked'
           coll == collateral
           coll2 == collateral'
<1>2. /\ Locking(calls', r, coll2)
      /\ \A b \in Accounts : Stuck(calls, l, b) => Stuck(calls', r, b)
      /\ IsSettlement(calls[i]) /\ r = l => Stuck(calls', r, calls[i].account)
  <2>1. /\ Locking(calls, l, coll)
        /\ \A b \in l : coll2[b] # coll[b] => IsSettlement(calls[i]) /\ b = calls[i].account
        /\ r = l \/ (IsSettlement(calls[i]) /\ r = l \ PartiesOf(calls[i]))
    BY DEF Matching, LocksHeld
  <2> HIDE DEF l, r, coll, coll2
  <2>2. /\ Locking(RemoveAt(calls, i), r, coll2)
        /\ \A b \in Accounts : Stuck(calls, l, b) => Stuck(RemoveAt(calls, i), r, b)
        /\ IsSettlement(calls[i]) /\ r = l => Stuck(RemoveAt(calls, i), r, calls[i].account)
    BY <1>1, <2>1, LockingHeard
  <2> QED BY <1>1, <2>2
<1>3. calls[i] \in CallType
  BY CallAt
<1>4. ASSUME NEW b \in Accounts,
             record'[b].burrow - (lp'[b] + collateral'[b])
                = record[b].burrow - (lp[b] + collateral[b]) - AheadOf(calls[i], b)
      PROVE  record'[b].burrow - (lp'[b] + collateral'[b]) - Pending(calls', b) = Gap(b)
  <2>1. Pending(calls', b) = Pending(calls, b) - AheadOf(calls[i], b)
    BY <1>1, PendingHeard
  <2>2. /\ record[b].burrow \in Nat /\ lp[b] \in Nat /\ collateral[b] \in Nat
        /\ Pending(calls, b) \in Int
    BY GapNumbers
  <2>3. AheadOf(calls[i], b) \in Int
    BY <1>3, CallFields DEF AheadOf
  <2> QED BY <1>4, <2>1, <2>2, <2>3 DEF Gap
<1>5. ASSUME NEW b \in Accounts
      PROVE  \/ Stuck(calls', r, b)
             \/ record'[b].burrow - (lp'[b] + collateral'[b]) - Pending(calls', b) = Gap(b)
  <2>1. CASE IsSettlement(calls[i]) /\ locked' = locked /\ b = calls[i].account
    BY <1>2, <2>1
  <2>2. CASE record'[b].burrow - (lp'[b] + collateral'[b])
                = record[b].burrow - (lp[b] + collateral[b]) - AheadOf(calls[i], b)
    BY <1>4, <2>2
  <2> QED BY <2>1, <2>2
<1> QED BY <1>2, <1>5 DEF Kept, LocksHeld
-----------------------------------------------------------------------------
(***************************************************************************)
(* The steps keep the two sides of the books together, one by one.         *)
(***************************************************************************)

\* Casting adds to the record what is then under way; asking to remove does
\* nothing yet.
LEMMA ExchangeKeeps ==
  ASSUME Typed, Matching, NEW a \in Accounts, NEW n \in Nat,
         \/ AddLiquidity(a, n)
         \/ RemoveLiquidity(a, n)
         \/ \E b \in Accounts : TransferShares(a, b, n)
         \/ \E kind \in ToSteps, execute \in BOOLEAN : CastShadow(kind, a, n, execute)
         \/ \E kind \in FromSteps, execute \in BOOLEAN : RemoveShadow(kind, a, n, execute)
  PROVE  Kept
<1>1. CASE \/ AddLiquidity(a, n)
           \/ RemoveLiquidity(a, n)
           \/ \E b \in Accounts : TransferShares(a, b, n)
  <2>1. UNCHANGED <<record, lp, collateral, locked, calls>>
    BY <1>1 DEF AddLiquidity, RemoveLiquidity, TransferShares, lendingVars, supplyVars, positionVars
  <2> QED BY <2>1, StillKept
<1>2. ASSUME NEW kind \in ToSteps, NEW execute \in BOOLEAN, CastShadow(kind, a, n, execute)
      PROVE  Kept
  <2> DEFINE c == ShadowCall(kind, a, n, execute)
  <2>1. /\ AddShadow(a, Field(kind), n) /\ Send(c)
        /\ UNCHANGED <<lp, collateral, locked>>
    BY <1>2 DEF CastShadow, lendingVars, supplyVars, positionVars
  <2>2. /\ c \in CallType /\ ~ IsSettlement(c)
        /\ c.kind = kind /\ c.account = a /\ c.amount = n /\ c.stage = "sent"
    BY DEF ShadowCall, CallType, ShadowCalls, Stages, IsSettlement, ToSteps
  <2> HIDE DEF c
  <2>3. record \in [Accounts -> RecordType]
    BY DEF Typed, TypeOK
  <2>4. ASSUME NEW b \in Accounts
        PROVE  record'[b].burrow = record[b].burrow + AheadOf(c, b)
    <3>1. record[b] \in RecordType /\ record[b].burrow \in Nat
      BY GapNumbers
    <3>2. CASE kind = "ToFarming"
      <4>1. record'[b].burrow = record[b].burrow
        BY <2>1, <2>3, <3>2 DEF AddShadow, Field, FarmSteps
      <4>2. AheadOf(c, b) = 0
        BY <2>2, <3>2 DEF AheadOf
      <4> QED BY <3>1, <4>1, <4>2
    <3>3. CASE kind = "ToBurrowland" /\ b = a
      <4>1. record'[b].burrow = record[b].burrow + n
        BY <2>1, <2>3, <3>1, <3>3 DEF AddShadow, Field, FarmSteps, RecordType
      <4>2. AheadOf(c, b) = n
        BY <2>2, <3>3 DEF AheadOf
      <4> QED BY <4>1, <4>2
    <3>4. CASE kind = "ToBurrowland" /\ b # a
      <4>1. record'[b].burrow = record[b].burrow
        BY <2>1, <2>3, <3>4 DEF AddShadow
      <4>2. AheadOf(c, b) = 0
        BY <2>2, <3>4 DEF AheadOf
      <4> QED BY <3>1, <4>1, <4>2
    <3> QED BY <3>2, <3>3, <3>4 DEF ToSteps
  <2> QED BY <2>1, <2>2, <2>4, SendKeeps
<1>3. ASSUME NEW kind \in FromSteps, NEW execute \in BOOLEAN, RemoveShadow(kind, a, n, execute)
      PROVE  Kept
  <2> DEFINE c == ShadowCall(kind, a, n, execute)
  <2>1. Send(c) /\ UNCHANGED <<record, lp, collateral, locked>>
    BY <1>3 DEF RemoveShadow, lendingVars, supplyVars, positionVars
  <2>2. /\ c \in CallType /\ ~ IsSettlement(c)
        /\ c.kind = kind /\ c.kind \in FromSteps /\ c.stage = "sent"
    BY DEF ShadowCall, CallType, ShadowCalls, Stages, IsSettlement, FromSteps
  <2> HIDE DEF c
  <2>3. ASSUME NEW b \in Accounts
        PROVE  record'[b].burrow = record[b].burrow + AheadOf(c, b)
    <3>1. record[b].burrow \in Nat
      BY GapNumbers
    <3>2. AheadOf(c, b) = 0
      BY <2>2 DEF AheadOf, FromSteps
    <3> QED BY <2>1, <3>1, <3>2
  <2> QED BY <2>1, <2>2, <2>3, SendKeeps
<1> QED BY <1>1, <1>2, <1>3

\* The farm's work is not the lending contract's.
LEMMA FarmKeeps ==
  ASSUME Typed, Typed', Matching, NEW i \in DOMAIN calls,
         StakeSeed(i) \/ UnstakeSeed(i) \/ RefuseSeed(i)
  PROVE  Kept
<1> DEFINE c == calls[i]
<1>1. /\ IsNext(i, "farm") /\ c \in CallType
      /\ UNCHANGED <<record, lp, collateral, locked>>
  BY CallAt DEF StakeSeed, UnstakeSeed, RefuseSeed, exchangeVars, lendingVars, supplyVars, positionVars
<1>2. c.kind \in FarmSteps \cup {"Unstake"}
  BY <1>1, CallFields DEF IsNext, Receiver, ToSteps, FromSteps, FarmSteps
<1>3. /\ ~ IsSettlement(c)
      /\ \A b : AheadOf(c, b) = 0
      /\ \A b, s : AheadOf([c EXCEPT !.stage = s], b) = 0
  <2>1. \A s : [c EXCEPT !.stage = s].kind = c.kind
    BY <1>1, AnsweredCall DEF CallType, ShadowCalls, SeedCalls, Liquidations, ForcedCalls
  <2> QED BY <1>2, <2>1 DEF IsSettlement, AheadOf, FarmSteps
<1>4. \A b \in Accounts : /\ record[b].burrow \in Nat /\ lp[b] \in Nat /\ collateral[b] \in Nat
  BY GapNumbers
<1>5. ASSUME NEW s \in Stages, calls' = Answered(i, s) PROVE Kept
  <2>1. \A b \in Accounts :
           record'[b].burrow - (lp'[b] + collateral'[b])
              = record[b].burrow - (lp[b] + collateral[b])
                   - AheadOf(c, b) + AheadOf([c EXCEPT !.stage = s], b)
    <3> TAKE b \in Accounts
    <3>1. AheadOf(c, b) = 0 /\ AheadOf([c EXCEPT !.stage = s], b) = 0
      BY <1>3
    <3>2. record'[b] = record[b] /\ lp'[b] = lp[b] /\ collateral'[b] = collateral[b]
      BY <1>1
    <3>3. record[b].burrow - (lp[b] + collateral[b]) \in Int
      BY <1>4
    <3> QED BY <3>1, <3>2, <3>3
  <2> QED BY <1>1, <1>5, <2>1, AnswerKeeps
<1>6. ASSUME Drop(i) PROVE Kept
  <2>1. \A b \in Accounts :
           record'[b].burrow - (lp'[b] + collateral'[b])
              = record[b].burrow - (lp[b] + collateral[b]) - AheadOf(c, b)
    BY <1>1, <1>3, <1>4
  <2> QED BY <1>1, <1>6, <2>1, DropKeeps
<1>7. Drop(i) \/ \E s \in Stages : calls' = Answered(i, s)
  BY DEF StakeSeed, UnstakeSeed, RefuseSeed, Stages
<1> QED BY <1>5, <1>6, <1>7

\* Shadows that arrive and leave: what call i had added to the record only,
\* the lending contract now counts as well; what it has removed here, the
\* record still has.
LEMMA BurrowKeeps ==
  ASSUME Typed, Typed', Matching, NEW i \in DOMAIN calls,
         LpDeposited(i) \/ LpWithdrawn(i) \/ RefuseShadow(i)
  PROVE  Kept
<1> DEFINE c == calls[i]
           a == c.account
           n == c.amount
           d(s) == [c EXCEPT !.stage = s]
<1>1. /\ IsNext(i, "burrow") /\ c \in CallType /\ c.stage = "sent"
      /\ record' = record /\ UNCHANGED locked
  BY CallAt DEF LpDeposited, LpWithdrawn, RefuseShadow, IsNext, exchangeVars, lendingVars
<1>2. /\ c.kind \in {"ToBurrowland", "FromBurrowland"} /\ ~ IsSettlement(c)
      /\ a \in Accounts /\ n \in Nat
  BY <1>1, CallFields DEF IsNext, Receiver, ToSteps, FromSteps, FarmSteps, IsSettlement
<1>3. \A s \in Stages : /\ d(s).kind = c.kind /\ d(s).account = a /\ d(s).amount = n
                        /\ d(s).stage = s
  BY <1>1, AnsweredCall
<1>4. "done" \in Stages /\ "failed" \in Stages
  BY DEF Stages
<1>5. /\ lp \in [Accounts -> Nat] /\ collateral \in [Accounts -> Nat]
      /\ \A b \in Accounts : /\ record[b].burrow \in Nat /\ lp[b] \in Nat /\ collateral[b] \in Nat
  BY GapNumbers DEF Typed, TypeOK
<1> HIDE DEF c, a, n, d
<1>6. CASE RefuseShadow(i)
  <2>1. calls' = Answered(i, "failed") /\ lp' = lp /\ collateral' = collateral
    BY <1>6 DEF RefuseShadow, lendingVars, supplyVars, positionVars
  <2>2. ASSUME NEW b \in Accounts
        PROVE  record'[b].burrow - (lp'[b] + collateral'[b])
                  = record[b].burrow - (lp[b] + collateral[b]) - AheadOf(c, b) + AheadOf(d("failed"), b)
    <3>1. AheadOf(c, b) = AheadOf(d("failed"), b)
      BY <1>1, <1>2, <1>3, <1>4 DEF AheadOf, a, n
    <3>2. AheadOf(c, b) \in Int
      BY <1>2 DEF AheadOf, a, n
    <3>3. record[b].burrow - (lp[b] + collateral[b]) \in Int
      BY <1>5
    <3> QED BY <1>1, <2>1, <3>1, <3>2, <3>3
  <2> QED BY <1>1, <1>4, <2>1, <2>2, AnswerKeeps DEF c, d
<1>7. ASSUME NEW m \in Int, calls' = Answered(i, "done"),
             \/ /\ collateral' = [collateral EXCEPT ![a] = @ + m]
                /\ lp' = lp /\ a \notin locked
             \/ /\ lp' = [lp EXCEPT ![a] = @ + m]
                /\ collateral' = collateral,
             \/ c.kind = "ToBurrowland" /\ m = n
             \/ c.kind = "FromBurrowland" /\ m = -n
      PROVE  Kept
  <2>1. \A b \in locked : collateral'[b] = collateral[b]
    <3>1. locked \subseteq Accounts
      BY DEF Typed, TypeOK
    <3> QED BY <1>5, <1>7, <3>1
  <2>2. ASSUME NEW b \in Accounts
        PROVE  record'[b].burrow - (lp'[b] + collateral'[b])
                  = record[b].burrow - (lp[b] + collateral[b]) - AheadOf(c, b) + AheadOf(d("done"), b)
    <3>1. lp'[b] + collateral'[b] = lp[b] + collateral[b] + (IF b = a THEN m ELSE 0)
      BY <1>2, <1>5, <1>7
    <3>2. AheadOf(d("done"), b) - AheadOf(c, b) = - (IF b = a THEN m ELSE 0)
      BY <1>1, <1>2, <1>3, <1>4, <1>7 DEF AheadOf, a, n
    <3>3. AheadOf(d("done"), b) \in Int /\ AheadOf(c, b) \in Int
      BY <1>2, <1>3, <1>4 DEF AheadOf, a, n
    <3>4. record'[b] = record[b] /\ record[b].burrow \in Int /\ lp[b] + collateral[b] \in Int
      BY <1>1, <1>5
    <3> QED BY <3>1, <3>2, <3>3, <3>4
  <2> QED BY <1>1, <1>4, <1>7, <2>1, <2>2, AnswerKeeps DEF c, d
<1>8. CASE LpDeposited(i)
  <2>1. /\ c.kind = "ToBurrowland" /\ calls' = Answered(i, "done")
        /\ \/ /\ collateral' = [collateral EXCEPT ![a] = @ + n]
              /\ lp' = lp /\ a \notin locked
           \/ /\ lp' = [lp EXCEPT ![a] = @ + n]
              /\ collateral' = collateral
    BY <1>8 DEF LpDeposited, MayAct, Plus, c, a, n
  <2> QED BY <1>2, <1>7, <2>1
<1>9. CASE LpWithdrawn(i)
  <2>1. /\ c.kind = "FromBurrowland" /\ calls' = Answered(i, "done")
        /\ \/ /\ collateral' = [collateral EXCEPT ![a] = @ - n]
              /\ lp' = lp /\ a \notin locked
           \/ /\ lp' = [lp EXCEPT ![a] = @ - n]
              /\ collateral' = collateral
    BY <1>9 DEF LpWithdrawn, MayAct, Minus, c, a, n
  <2>2. -n \in Int /\ collateral[a] - n = collateral[a] + (-n) /\ lp[a] - n = lp[a] + (-n)
    BY <1>2, <1>5
  <2>3. \/ /\ collateral' = [collateral EXCEPT ![a] = @ + (-n)]
           /\ lp' = lp /\ a \notin locked
        \/ /\ lp' = [lp EXCEPT ![a] = @ + (-n)]
           /\ collateral' = collateral
    BY <2>1, <2>2
  <2> QED BY <1>7, <2>1, <2>2, <2>3
<1> QED BY <1>6, <1>8, <1>9

\* The exchange burns for a settlement, or refuses to.
LEMMA BurnKeeps ==
  ASSUME Typed, Typed', Matching, NEW i \in DOMAIN calls,
         BurnForBurrow(i) \/ RefuseBurrow(i)
  PROVE  Kept
<1> DEFINE c == calls[i]
           a == c.account
           n == c.amount
           d(s) == [c EXCEPT !.stage = s]
<1>1. /\ IsNext(i, "exchange") /\ c \in CallType /\ c.stage = "sent"
      /\ UNCHANGED <<lp, collateral, locked>>
  BY CallAt DEF BurnForBurrow, RefuseBurrow, IsNext, lendingVars, supplyVars, positionVars
<1>2. /\ c.kind \in {"Liquidate", "ForceClose"} /\ a \in Accounts /\ n \in Nat
  BY <1>1, CallFields DEF IsNext, Receiver, ToSteps, FromSteps, FarmSteps
<1>3. \A s \in Stages : /\ d(s).kind = c.kind /\ d(s).account = a /\ d(s).amount = n
                        /\ d(s).stage = s
  BY <1>1, AnsweredCall
<1>4. "done" \in Stages /\ "failed" \in Stages
  BY DEF Stages
<1>5. \A b \in Accounts : /\ record[b].burrow \in Nat /\ lp[b] \in Nat /\ collateral[b] \in Nat
  BY GapNumbers
<1>6. /\ record \in [Accounts -> RecordType] /\ shares \in [Accounts -> Nat]
      /\ record[a] \in RecordType /\ shares[a] \in Nat
  BY <1>2 DEF Typed, TypeOK
<1>7. ASSUME NEW b \in Accounts
      PROVE  /\ AheadOf(c, b) = 0 /\ AheadOf(d("failed"), b) = 0
             /\ AheadOf(d("done"), b) = (IF b = a THEN -n ELSE 0)
  BY <1>1, <1>2, <1>3, <1>4 DEF AheadOf
<1> HIDE DEF c, a, n, d
<1>8. CASE RefuseBurrow(i)
  <2>1. calls' = Answered(i, "failed") /\ record' = record
    BY <1>8 DEF RefuseBurrow
  <2>2. ASSUME NEW b \in Accounts
        PROVE  record'[b].burrow - (lp'[b] + collateral'[b])
                  = record[b].burrow - (lp[b] + collateral[b]) - AheadOf(c, b) + AheadOf(d("failed"), b)
    BY <1>1, <1>5, <1>7, <2>1
  <2> QED BY <1>1, <1>4, <2>1, <2>2, AnswerKeeps DEF c, d
<1>9. CASE BurnForBurrow(i)
  <2> DEFINE uncast   == [record[a] EXCEPT !.burrow = @ - n]
             withdraw == SeedToWithdraw(uncast, shares[a], n)
             left     == [uncast EXCEPT !.farm = @ - withdraw]
             told     == [kind |-> "Unstake", account |-> a, amount |-> withdraw, stage |-> "sent"]
  <2>1. /\ n <= record[a].burrow /\ withdraw <= record[a].farm
        /\ record' = [record EXCEPT ![a] = left]
        /\ calls' = IF withdraw > 0 THEN Append(Answered(i, "done"), told) ELSE Answered(i, "done")
    BY <1>9 DEF BurnForBurrow, c, a, n
  <2>2. /\ record[a].burrow \in Nat /\ record[a].farm \in Nat
        /\ uncast \in RecordType /\ uncast.burrow = record[a].burrow - n
        /\ uncast.farm = record[a].farm
    BY <1>2, <1>6, <2>1, RecordLess DEF RecordType
  <2>3. withdraw \in Nat
    BY <1>2, <1>6, <2>2, SeedNumber
  <2>4. left.burrow = record[a].burrow - n
    BY <2>2 DEF RecordType
  <2> HIDE DEF left
  <2>5. ASSUME NEW b \in Accounts
        PROVE  record'[b].burrow = record[b].burrow - (IF b = a THEN n ELSE 0)
    BY <1>2, <1>5, <1>6, <2>1, <2>4
  <2> DEFINE after == Answered(i, "done")
  <2>6. /\ after \in Seq(CallType) /\ calls \in Seq(CallType)
        /\ Locking(after, locked, collateral)
        /\ \A b \in Accounts : Stuck(calls, locked, b) => Stuck(after, locked, b)
        /\ \A b \in Accounts : Pending(after, b) = Pending(calls, b) + AheadOf(d("done"), b)
    <3>1. calls \in Seq(CallType) /\ Locking(calls, locked, collateral)
      BY DEF Typed, TypeOK, Matching, LocksHeld
    <3>2. after \in Seq(CallType)
      BY <1>4, <3>1, Answer DEF Answered
    <3>3. /\ Locking(after, locked, collateral)
          /\ \A b \in Accounts : Stuck(calls, locked, b) => Stuck(after, locked, b)
      BY <1>4, <3>1, LockingAnswered DEF Answered
    <3>4. ASSUME NEW b \in Accounts
          PROVE  Pending(after, b) = Pending(calls, b) + AheadOf(d("done"), b)
      <4>1. Pending(after, b) = Pending(calls, b) - AheadOf(c, b) + AheadOf(d("done"), b)
        BY <1>4, <3>1, PendingAnswered DEF Answered, c, d
      <4>2. AheadOf(c, b) = 0 /\ Pending(calls, b) \in Int
        BY <1>7, GapNumbers
      <4> QED BY <4>1, <4>2
    <3> QED BY <3>1, <3>2, <3>3, <3>4
  <2>7. /\ Locking(calls', locked, collateral)
        /\ \A b \in Accounts : Stuck(calls, locked, b) => Stuck(calls', locked, b)
        /\ \A b \in Accounts : Pending(calls', b) = Pending(calls, b) + AheadOf(d("done"), b)
    <3>1. CASE ~ withdraw > 0
      BY <2>1, <2>6, <3>1
    <3>2. CASE withdraw > 0
      <4>1. calls' = Append(after, told)
        BY <2>1, <3>2
      <4>2. /\ told \in CallType /\ ~ IsSettlement(told)
            /\ \A b : AheadOf(told, b) = 0
        BY <1>2, <2>3 DEF CallType, SeedCalls, Stages, IsSettlement, AheadOf
      <4> HIDE DEF after, told
      <4>3. /\ Locking(calls', locked, collateral)
            /\ \A b \in Accounts : Stuck(after, locked, b) => Stuck(calls', locked, b)
        BY <2>6, <4>1, <4>2, LockingSent
      <4>4. ASSUME NEW b \in Accounts PROVE Pending(calls', b) = Pending(after, b)
        <5>1. Pending(calls', b) = Pending(after, b) + AheadOf(told, b)
          BY <2>6, <4>1, <4>2, PendingSent
        <5>2. AheadOf(told, b) = 0 /\ Pending(after, b) \in Int
          BY <2>6, <4>2, AheadType
        <5> QED BY <5>1, <5>2
      <4> QED BY <2>6, <4>3, <4>4
    <3> QED BY <3>1, <3>2
  <2>8. ASSUME NEW b \in Accounts
        PROVE  record'[b].burrow - (lp'[b] + collateral'[b]) - Pending(calls', b) = Gap(b)
    <3>1. Pending(calls', b) = Pending(calls, b) - (IF b = a THEN n ELSE 0)
      <4>1. Pending(calls', b) = Pending(calls, b) + (IF b = a THEN -n ELSE 0)
        BY <1>7, <2>7
      <4>2. Pending(calls, b) \in Int
        BY GapNumbers
      <4> QED BY <1>2, <4>1, <4>2
    <3>2. /\ record[b].burrow \in Nat /\ lp[b] \in Nat /\ collateral[b] \in Nat
          /\ Pending(calls, b) \in Int
      BY GapNumbers
    <3>3. lp' = lp /\ collateral' = collateral
      BY <1>1
    <3> QED BY <1>2, <2>5, <3>1, <3>2, <3>3 DEF Gap
  <2> QED BY <1>1, <2>7, <2>8 DEF Kept, LocksHeld
<1> QED BY <1>8, <1>9

\* What an account has supplied and what is pending for it bound what any of
\* its calls is ahead: a settlement under way takes no more than there is.
LEMMA AheadBound ==
  ASSUME NEW cs \in Seq(CallType), NEW l, NEW coll \in [Accounts -> Nat], Locking(cs, l, coll),
         NEW a \in Accounts, NEW i \in DOMAIN cs
  PROVE  AheadOf(cs[i], a) <= coll[a] + Pending(cs, a)
<1> DEFINE f == AheadIn(cs, a)
           s == DOMAIN cs
<1>1. /\ IsFiniteSet(s) /\ \A j \in s : f[j] = AheadOf(cs[j], a) /\ AheadOf(cs[j], a) \in Int
      /\ Pending(cs, a) = SumFunctionOnSet(f, s) /\ Pending(cs, a) \in Int
  BY AheadType
<1>2. \A j \in s : cs[j].amount \in Nat
  <2> TAKE j \in s
  <2>1. cs[j] \in CallType
    BY LenProperties, ElementOfSeq
  <2> QED BY <2>1, CallFields
<1>3. \A j \in s : IsSettlement(cs[j]) /\ cs[j].account = a => cs[j].amount <= coll[a]
  BY <1>2 DEF Locking, Claims
<1>4. \A j \in s : f[j] < 0 => /\ IsSettlement(cs[j]) /\ cs[j].account = a
                               /\ f[j] = -cs[j].amount
  <2> TAKE j \in s
  <2>1. f[j] = AheadOf(cs[j], a) /\ cs[j].amount \in Nat
    BY <1>1, <1>2
  <2> HIDE DEF f
  <2> QED BY <2>1 DEF AheadOf, IsSettlement
<1>5. \A j, k \in s : f[j] < 0 /\ f[k] < 0 => j = k
  <2>1. \A j \in s : cs[j].account \in PartiesOf(cs[j])
    BY DEF PartiesOf
  <2> HIDE DEF f
  <2> QED BY <1>4, <2>1 DEF Locking
<1>6. coll[a] \in Nat /\ f[i] \in Int /\ \A j \in s : f[j] \in Int
  BY <1>1
<1> HIDE DEF f, s
<1>7. CASE \E j \in s : f[j] < 0
  <2>1. PICK j \in s : f[j] < 0
    BY <1>7
  <2>2. SumFunctionOnSet(f, s) = f[j] + SumFunctionOnSet(f, s \ {j})
    BY <1>1, <1>6, SumRemoveInteger
  <2>3. \A k \in s \ {j} : f[k] \in Nat
    BY <1>5, <1>6, <2>1
  <2>4. -f[j] <= coll[a]
    BY <1>2, <1>3, <1>4, <2>1
  <2>5. IsFiniteSet(s \ {j})
    BY <1>1, FS_Subset
  <2>6. SumFunctionOnSet(f, s \ {j}) \in Nat
    BY <2>3, <2>5, SumType
  <2>7. CASE i = j
    BY <1>1, <1>6, <2>1, <2>2, <2>4, <2>6, <2>7 DEF s
  <2>8. CASE i # j
    <3>1. i \in s \ {j}
      BY <2>8 DEF s
    <3>2. f[i] <= SumFunctionOnSet(f, s \ {j})
      BY <2>3, <2>5, <3>1, SumBound
    <3>3. f[i] = AheadOf(cs[i], a)
      BY <1>1 DEF s
    <3> QED BY <1>1, <1>6, <2>2, <2>4, <2>6, <3>2, <3>3
  <2> QED BY <2>7, <2>8
<1>8. CASE \A j \in s : ~ f[j] < 0
  <2>1. \A j \in s : f[j] \in Nat
    BY <1>6, <1>8
  <2>2. i \in s /\ f[i] = AheadOf(cs[i], a)
    BY <1>1 DEF s
  <2>3. f[i] <= SumFunctionOnSet(f, s)
    BY <1>1, <2>1, <2>2, SumBound
  <2> QED BY <1>1, <1>6, <2>2, <2>3
<1> QED BY <1>7, <1>8

\* callback_on_shadow always finds in the record what it takes from it, unless
\* the account is stuck.
LEMMA OutcomeKeeps ==
  ASSUME Typed, Typed', Matching, NEW i \in DOMAIN calls, ShadowOutcome(i)
  PROVE  Kept
<1> DEFINE c == calls[i]
           a == c.account
           n == c.amount
           takes == \/ c.kind \in ToSteps /\ c.stage = "failed"
                    \/ c.kind \in FromSteps /\ c.stage = "done"
<1>1. /\ c.kind \in ToSteps \cup FromSteps /\ c.stage # "sent" /\ Drop(i)
      /\ UNCHANGED <<lp, collateral, locked>>
      /\ IF takes /\ CanSubShadow(a, Field(c.kind), n)
         THEN SubShadow(a, Field(c.kind), n)
         ELSE record' = record
  BY DEF ShadowOutcome, lendingVars, supplyVars, positionVars
<1>2. /\ c \in CallType /\ a \in Accounts /\ n \in Nat /\ c.stage \in {"done", "failed"}
  BY <1>1, CallAt, CallFields DEF Stages
<1>3. /\ record \in [Accounts -> RecordType] /\ collateral \in [Accounts -> Nat]
      /\ calls \in Seq(CallType) /\ Locking(calls, locked, collateral)
      /\ \A b \in Accounts : /\ record[b] \in RecordType /\ record[b].burrow \in Nat
                             /\ lp[b] \in Nat /\ collateral[b] \in Nat
  BY GapNumbers DEF Typed, TypeOK, Matching, LocksHeld
<1>4. ~ IsSettlement(c)
  BY <1>1 DEF IsSettlement, ToSteps, FromSteps
<1>5. \A b \in Accounts : AheadOf(c, b) = IF b = a /\ takes /\ Field(c.kind) = "burrow" THEN n ELSE 0
  BY <1>1, <1>2 DEF AheadOf, Field, FarmSteps, ToSteps, FromSteps
<1>6. AheadOf(c, a) <= collateral[a] + Pending(calls, a)
  BY <1>2, <1>3, AheadBound
<1> HIDE DEF c, a, n, takes
<1>7. CASE ~ Stuck(calls, locked, a)
  <2>1. Gap(a) = 0 /\ Pending(calls, a) \in Int
    BY <1>2, <1>7, GapNumbers DEF Matching
  <2>2. AheadOf(c, a) <= record[a].burrow
    <3>1. AheadOf(c, a) \in Int
      BY <1>2, <1>5
    <3> QED BY <1>2, <1>3, <1>6, <2>1, <3>1 DEF Gap
  <2>3. ASSUME NEW b \in Accounts
        PROVE  record'[b].burrow = record[b].burrow - AheadOf(c, b)
    <3>1. CASE b # a
      <4>1. record'[b] = record[b]
        BY <1>1, <1>2, <1>3, <3>1 DEF SubShadow
      <4> QED BY <1>3, <1>5, <3>1, <4>1
    <3>2. CASE b = a /\ Field(c.kind) # "burrow"
      <4>1. record'[a].burrow = record[a].burrow
        BY <1>1, <1>2, <1>3, <3>2 DEF SubShadow, RecordType, Field
      <4> QED BY <1>3, <1>5, <3>2, <4>1
    <3>3. CASE b = a /\ Field(c.kind) = "burrow" /\ takes
      <4>1. n <= record[a].burrow
        BY <1>2, <1>5, <2>2, <3>3
      <4>2. SubShadow(a, "burrow", n)
        BY <1>1, <3>3, <4>1 DEF CanSubShadow
      <4>3. record'[a].burrow = record[a].burrow - n
        BY <1>2, <1>3, <4>2 DEF SubShadow, RecordType
      <4> QED BY <1>5, <3>3, <4>3
    <3>4. CASE b = a /\ ~ takes
      <4>1. record' = record
        BY <1>1, <3>4
      <4> QED BY <1>3, <1>5, <3>4, <4>1
    <3> QED BY <3>1, <3>2, <3>3, <3>4
  <2>4. ASSUME NEW b \in Accounts
        PROVE  record'[b].burrow - (lp'[b] + collateral'[b])
                  = record[b].burrow - (lp[b] + collateral[b]) - AheadOf(c, b)
    <3>1. AheadOf(c, b) \in Int
      BY <1>2, <1>5
    <3> QED BY <1>1, <1>3, <2>3, <3>1
  <2> QED BY <1>1, <2>4, DropKeeps DEF c
<1>8. CASE Stuck(calls, locked, a)
  <2>1. calls' = RemoveAt(calls, i) /\ locked' = locked /\ collateral' = collateral
    BY <1>1 DEF Drop
  <2>2. /\ Locking(calls', locked', collateral')
        /\ \A b \in Accounts : Stuck(calls, locked, b) => Stuck(calls', locked', b)
    BY <1>3, <2>1, LockingHeard
  <2>3. Stuck(calls', locked', a)
    BY <1>2, <1>8, <2>2
  <2>4. ASSUME NEW b \in Accounts, b # a
        PROVE  record'[b].burrow - (lp'[b] + collateral'[b]) - Pending(calls', b) = Gap(b)
    <3>1. Pending(calls', b) = Pending(calls, b) - AheadOf(c, b)
      BY <1>3, <2>1, PendingHeard DEF c
    <3>2. AheadOf(c, b) = 0 /\ Pending(calls, b) \in Int
      BY <1>5, <2>4, GapNumbers
    <3>3. Pending(calls', b) = Pending(calls, b)
      BY <3>1, <3>2
    <3>4. record'[b] = record[b]
      BY <1>1, <1>2, <1>3, <2>4 DEF SubShadow
    <3>5. lp'[b] = lp[b] /\ collateral'[b] = collateral[b]
      BY <1>1
    <3> QED BY <3>3, <3>4, <3>5 DEF Gap
  <2> QED BY <2>2, <2>3, <2>4 DEF Kept, LocksHeld
<1> QED BY <1>7, <1>8

\* What the owner of a position does with it, without a call.
LEMMA OwnerKeeps ==
  ASSUME Typed, Matching, NEW a \in Accounts,
         \/ \E n \in Amounts : IncreaseCollateral(a, n) \/ DecreaseCollateral(a, n)
         \/ \E n \in Loans : Borrow(a, n)
         \/ \E req \in RequestsOver(Loans) : Repay(a, req)
  PROVE  Kept
<1>1. /\ lp \in [Accounts -> Nat] /\ collateral \in [Accounts -> Nat] /\ locked \subseteq Accounts
      /\ \A b \in Accounts : /\ record[b].burrow \in Nat /\ lp[b] \in Nat /\ collateral[b] \in Nat
  BY GapNumbers DEF Typed, TypeOK
<1>2. ASSUME NEW m \in Int, a \notin locked, UNCHANGED <<record, locked, calls>>,
             lp' = [lp EXCEPT ![a] = @ - m], collateral' = [collateral EXCEPT ![a] = @ + m]
      PROVE  Kept
  <2>1. \A b \in locked : collateral'[b] = collateral[b]
    BY <1>1, <1>2
  <2>2. ASSUME NEW b \in Accounts
        PROVE  record'[b].burrow - (lp'[b] + collateral'[b])
                  = record[b].burrow - (lp[b] + collateral[b])
    BY <1>1, <1>2
  <2> QED BY <1>2, <2>1, <2>2, StillKept
<1>3. ASSUME NEW n \in Amounts, IncreaseCollateral(a, n) PROVE Kept
  <2>1. n \in Int
    BY ShadowBounds
  <2>2. /\ a \notin locked /\ UNCHANGED <<record, locked, calls>>
        /\ lp' = [lp EXCEPT ![a] = @ - n] /\ collateral' = [collateral EXCEPT ![a] = @ + n]
    BY <1>3 DEF IncreaseCollateral, MayAct, Plus, Minus, exchangeVars
  <2> QED BY <1>2, <2>1, <2>2
<1>4. ASSUME NEW n \in Amounts, DecreaseCollateral(a, n) PROVE Kept
  <2>1. n \in Nat
    BY ShadowBounds
  <2>2. /\ a \notin locked /\ UNCHANGED <<record, locked, calls>>
        /\ lp' = [lp EXCEPT ![a] = @ + n] /\ collateral' = [collateral EXCEPT ![a] = @ - n]
    BY <1>4 DEF DecreaseCollateral, MayAct, Plus, Minus, exchangeVars
  <2>3. -n \in Int /\ lp[a] + n = lp[a] - (-n) /\ collateral[a] - n = collateral[a] + (-n)
    BY <1>1, <2>1
  <2>4. lp' = [lp EXCEPT ![a] = @ - (-n)] /\ collateral' = [collateral EXCEPT ![a] = @ + (-n)]
    BY <2>2, <2>3
  <2> QED BY <1>2, <2>2, <2>3, <2>4
<1>5. ASSUME UNCHANGED <<record, lp, collateral, locked, calls>> PROVE Kept
  BY <1>5, StillKept
<1>6. ASSUME NEW n \in Loans, Borrow(a, n) PROVE Kept
  BY <1>5, <1>6 DEF Borrow, exchangeVars
<1>7. ASSUME NEW req \in RequestsOver(Loans), Repay(a, req) PROVE Kept
  BY <1>5, <1>7 DEF Repay, exchangeVars
<1> QED BY <1>3, <1>4, <1>6, <1>7

\* A liquidation or a forced closing locks accounts that were free.
LEMMA AskKeeps ==
  ASSUME Typed, Matching, NEW k \in Accounts, NEW a \in Accounts,
         \/ ForceClose(k, a)
         \/ \E req \in RequestsOver(Loans), n \in Amounts : Liquidate(k, a, req, n)
  PROVE  Kept
<1>1. \A b \in Accounts : /\ record[b].burrow \in Nat /\ lp[b] \in Nat /\ collateral[b] \in Nat
                          /\ Pending(calls, b) \in Int
  BY GapNumbers
<1>2. ASSUME NEW c \in CallType, IsSettlement(c), c.stage = "sent", calls' = Append(calls, c),
             PartiesOf(c) \cap locked = {}, locked' = locked \cup PartiesOf(c),
             Claims(c, collateral[c.account]), UNCHANGED <<record, lp, collateral>>
      PROVE  Kept
  <2>1. calls \in Seq(CallType) /\ Locking(calls, locked, collateral)
    BY DEF Typed, TypeOK, Matching, LocksHeld
  <2>2. /\ Locking(calls', locked', collateral)
        /\ \A b \in Accounts : Stuck(calls, locked, b) => Stuck(calls', locked', b)
    BY <1>2, <2>1, LockingAsked
  <2>3. ASSUME NEW b \in Accounts
        PROVE  record'[b].burrow - (lp'[b] + collateral'[b]) - Pending(calls', b) = Gap(b)
    <3>1. Pending(calls', b) = Pending(calls, b) + AheadOf(c, b)
      BY <1>2, <2>1, PendingSent
    <3>2. AheadOf(c, b) = 0
      BY <1>2 DEF AheadOf, IsSettlement
    <3>3. Pending(calls', b) = Pending(calls, b)
      BY <1>1, <3>1, <3>2
    <3> QED BY <1>2, <3>3 DEF Gap
  <2> QED BY <1>2, <2>2, <2>3 DEF Kept, LocksHeld
<1>3. CASE ForceClose(k, a)
  <2> DEFINE c == [kind |-> "ForceClose", account |-> a, amount |-> collateral[a],
                   stage |-> "sent"]
  <2>1. /\ a \notin locked /\ locked' = locked \cup {a} /\ calls' = Append(calls, c)
        /\ UNCHANGED <<record, lp, collateral>>
    BY <1>3 DEF ForceClose, Send, exchangeVars, supplyVars, positionVars
  <2>2. /\ c \in CallType /\ IsSettlement(c) /\ c.stage = "sent" /\ PartiesOf(c) = {a}
        /\ Claims(c, collateral[c.account])
    BY <1>1 DEF CallType, ForcedCalls, Stages, IsSettlement, PartiesOf, Claims
  <2> HIDE DEF c
  <2> QED BY <1>2, <2>1, <2>2
<1>4. ASSUME NEW req \in RequestsOver(Loans), NEW n \in Amounts, Liquidate(k, a, req, n)
      PROVE  Kept
  <2> DEFINE c == [kind |-> "Liquidate", account |-> a, liquidator |-> k, in |-> req,
                   amount |-> n, stage |-> "sent"]
  <2>1. /\ a \notin locked /\ k \notin locked
        /\ locked' = locked \cup {k, a} /\ calls' = Append(calls, c)
        /\ n <= collateral[a]
        /\ UNCHANGED <<record, lp, collateral>>
    BY <1>4 DEF Liquidate, Send, MayAct, exchangeVars, supplyVars, positionVars
  <2>2. n \in Nat /\ req \in RequestType
    BY ShadowBounds DEF RequestsOver, Exactly, AtMost, Everything, RequestType
  <2>3. /\ c \in CallType /\ IsSettlement(c) /\ c.stage = "sent" /\ PartiesOf(c) = {k, a}
        /\ Claims(c, collateral[c.account])
    BY <2>1, <2>2 DEF CallType, Liquidations, Stages, IsSettlement, PartiesOf, Claims
  <2> HIDE DEF c
  <2> QED BY <1>2, <2>1, <2>3
<1> QED BY <1>3, <1>4

\* The callbacks of settlements: what was burnt is taken from the collateral,
\* or the account stays locked for good.
LEMMA SettlementKeeps ==
  ASSUME Typed, Matching, NEW i \in DOMAIN calls,
         LiquidateOutcome(i) \/ ForceCloseOutcome(i)
  PROVE  Kept
<1> DEFINE c == calls[i]
           a == c.account
           n == c.amount
<1>1. /\ IsSettlement(c) /\ c.stage # "sent" /\ Drop(i) /\ record' = record /\ lp' = lp
  BY DEF LiquidateOutcome, ForceCloseOutcome, exchangeVars, supplyVars, IsSettlement
<1>2. /\ c \in CallType /\ a \in Accounts /\ n \in Nat /\ c.stage \in {"done", "failed"}
  BY <1>1, CallAt, CallFields DEF Stages
<1>3. /\ collateral \in [Accounts -> Nat] /\ locked \subseteq Accounts
      /\ \A b \in Accounts : /\ record[b].burrow \in Nat /\ lp[b] \in Nat /\ collateral[b] \in Nat
  BY GapNumbers DEF Typed, TypeOK
<1>4. \A b \in Accounts : AheadOf(c, b) = IF b = a /\ c.stage = "done" THEN -n ELSE 0
  BY <1>1, <1>2 DEF AheadOf, IsSettlement
<1>5. Claims(c, collateral[a])
  BY <1>1 DEF Matching, LocksHeld, Locking
<1>6. \/ /\ c.stage = "failed" /\ locked' = locked \ PartiesOf(c)
         /\ collateral' = collateral
      \/ /\ c.stage = "done" /\ locked' = locked \ PartiesOf(c)
         /\ collateral' = [collateral EXCEPT ![a] = @ - n]
      \/ locked' = locked /\ collateral' = collateral
  <2>1. CASE LiquidateOutcome(i)
    <3>1. PartiesOf(c) = {a, c.liquidator}
      BY <2>1 DEF LiquidateOutcome, PartiesOf
    <3> QED BY <2>1, <3>1 DEF LiquidateOutcome, TakesCollateral, Minus, positionVars
  <2>2. CASE ForceCloseOutcome(i)
    <3>1. PartiesOf(c) = {a} /\ n = collateral[a]
      BY <1>5, <2>2 DEF ForceCloseOutcome, PartiesOf, Claims
    <3>2. collateral[a] - n = 0
      BY <1>2, <1>3, <3>1
    <3>3. /\ locked' = locked \ {a}
          /\ c.stage = "done" => collateral' = [collateral EXCEPT ![a] = 0]
          /\ c.stage # "done" => collateral' = collateral
      BY <2>2 DEF ForceCloseOutcome
    <3> QED BY <1>2, <3>1, <3>2, <3>3
  <2> QED BY <2>1, <2>2
<1> HIDE DEF c, a, n
<1>7. \A b \in locked : collateral'[b] # collateral[b] => b = a
  BY <1>3, <1>6
<1>8. locked' = locked \/ locked' = locked \ PartiesOf(c)
  BY <1>6
<1>9. ASSUME NEW b \in Accounts
      PROVE  \/ locked' = locked /\ b = a
             \/ record'[b].burrow - (lp'[b] + collateral'[b])
                   = record[b].burrow - (lp[b] + collateral[b]) - AheadOf(c, b)
  <2>1. CASE b # a
    <3>1. AheadOf(c, b) = 0 /\ collateral'[b] = collateral[b]
      BY <1>3, <1>4, <1>6, <2>1
    <3> QED BY <1>1, <1>3, <3>1
  <2>2. CASE b = a /\ c.stage = "failed" /\ collateral' = collateral
    <3>1. AheadOf(c, b) = 0
      BY <1>4, <2>2
    <3> QED BY <1>1, <1>3, <2>2, <3>1
  <2>3. CASE b = a /\ c.stage = "done" /\ collateral' = [collateral EXCEPT ![a] = @ - n]
    <3>1. AheadOf(c, b) = -n /\ collateral'[b] = collateral[b] - n
      BY <1>2, <1>3, <1>4, <2>3
    <3> QED BY <1>1, <1>2, <1>3, <3>1
  <2>4. CASE b = a /\ locked' = locked
    BY <2>4
  <2> QED BY <1>6, <2>1, <2>2, <2>3, <2>4
<1> QED BY <1>1, <1>7, <1>8, <1>9, DropKeeps DEF c, a

\* Every step keeps the two sides together.
LEMMA StepKeeps ==
  ASSUME Typed, Typed', Matching, [Next]_vars
  PROVE  Kept
<1>1. ASSUME NEW a \in Providers, Exchange(a) PROVE Kept
  <2>1. a \in Accounts
    BY ShadowAccounts
  <2>2. PICK n \in Amounts :
           \/ AddLiquidity(a, n)
           \/ RemoveLiquidity(a, n)
           \/ \E b \in Accounts : TransferShares(a, b, n)
           \/ CastShadow("ToFarming", a, n, FALSE)
           \/ RemoveShadow("FromFarming", a, n, FALSE)
           \/ \E execute \in BOOLEAN : \/ CastShadow("ToBurrowland", a, n, execute)
                                       \/ RemoveShadow("FromBurrowland", a, n, execute)
    BY <1>1 DEF Exchange
  <2>3. n \in Nat
    BY ShadowBounds
  <2>4. \/ AddLiquidity(a, n)
        \/ RemoveLiquidity(a, n)
        \/ \E b \in Accounts : TransferShares(a, b, n)
        \/ \E kind \in ToSteps, execute \in BOOLEAN : CastShadow(kind, a, n, execute)
        \/ \E kind \in FromSteps, execute \in BOOLEAN : RemoveShadow(kind, a, n, execute)
    BY <2>2 DEF ToSteps, FromSteps
  <2> QED BY <2>1, <2>3, <2>4, ExchangeKeeps
<1>2. ASSUME NEW a \in Accounts, Lend(a) PROVE Kept
  BY <1>2, OwnerKeeps, AskKeeps DEF Lend
<1>3. ASSUME NEW a \in Accounts, Settles(a) PROVE Kept
  BY <1>3, SettlementKeeps DEF Settles
<1>4. CASE ExchangeReceives
  BY <1>4, BurnKeeps DEF ExchangeReceives
<1>5. CASE FarmReceives
  BY <1>5, FarmKeeps DEF FarmReceives
<1>6. CASE BurrowReceives
  BY <1>6, BurrowKeeps DEF BurrowReceives
<1>7. CASE ExchangeHears
  BY <1>7, OutcomeKeeps DEF ExchangeHears
<1>8. CASE Market \/ UNCHANGED vars
  <2>1. UNCHANGED <<record, lp, collateral, locked, calls>>
    BY <1>8 DEF Market, SyncLpInfos, InfoExpires, vars, lendingVars, supplyVars, positionVars,
                exchangeVars
  <2> QED BY <2>1, StillKept
<1> QED BY <1>1, <1>2, <1>3, <1>4, <1>5, <1>6, <1>7, <1>8 DEF Next

\* At first no call is under way and nothing is counted.
LEMMA InitMatches ==
  ASSUME Init
  PROVE  Matching
<1>1. /\ calls = << >> /\ locked = {}
      /\ record = [b \in Accounts |-> [farm |-> 0, burrow |-> 0]]
      /\ lp = [b \in Accounts |-> 0] /\ collateral = [b \in Accounts |-> 0]
  BY DEF Init
<1>2. DOMAIN calls = {}
  BY <1>1, EmptySeq
<1>3. LocksHeld
  BY <1>2 DEF LocksHeld, Locking
<1>4. ASSUME NEW b \in Accounts PROVE Gap(b) = 0
  <2>1. Pending(calls, b) = 0
    BY <1>1, PendingNothing
  <2>2. record[b].burrow = 0 /\ lp[b] = 0 /\ collateral[b] = 0
    BY <1>1
  <2> QED BY <2>1, <2>2 DEF Gap
<1> QED BY <1>3, <1>4 DEF Matching

\* The invariant says what the run checks.
LEMMA MatchingSays ==
  ASSUME Typed, Matching
  PROVE  BurrowShadowsMatch
<1> SUFFICES ASSUME NEW a \in Accounts, a \in locked => Settling(a)
             PROVE  record[a].burrow = lp[a] + collateral[a]
                                          + Total([i \in DOMAIN calls |-> Ahead(i, a)])
  BY DEF BurrowShadowsMatch
<1>1. ~ Stuck(calls, locked, a)
  <2>1. CASE a \notin locked
    BY <2>1 DEF Stuck
  <2>2. CASE Settling(a)
    BY <2>2 DEF Settling, Stuck, IsSettlement, PartiesOf
  <2> QED BY <2>1, <2>2
<1>2. Gap(a) = 0
  BY <1>1 DEF Matching
<1>3. \A i \in DOMAIN calls : Ahead(i, a) = AheadOf(calls[i], a)
  BY DEF Ahead, AheadOf
<1>4. [i \in DOMAIN calls |-> Ahead(i, a)] = AheadIn(calls, a)
  BY <1>3 DEF AheadIn
<1>5. Total([i \in DOMAIN calls |-> Ahead(i, a)]) = Pending(calls, a)
  BY <1>4 DEF Pending
<1>6. /\ record[a].burrow \in Nat /\ lp[a] \in Nat /\ collateral[a] \in Nat
      /\ Pending(calls, a) \in Int
  BY GapNumbers
<1> QED BY <1>2, <1>5, <1>6 DEF Gap

\* The invariant of locks and of the two sides of the books.
THEOREM MatchingInvariant == Spec => []Matching
<1>1. Init => Matching
  BY InitMatches
<1>2. Typed /\ Typed' /\ Matching /\ [Next]_vars => Matching'
  BY StepKeeps, KeptMatches
<1> QED BY <1>1, <1>2, TypedInvariant, PTL DEF Spec

\* Settlements exclude one another and the owner: while one is under way its
\* parties are locked, none is a party of a second one, and the collateral it
\* asks the exchange to burn is still there when its callback runs
\* (internal_shadow_liquidate, internal_shadow_force_close).
THEOREM LocksHold == Spec => []LocksHeld
<1>1. Matching => LocksHeld
  BY DEF Matching
<1> QED BY <1>1, MatchingInvariant, PTL

\* The exchange's record of an account's shadows in the lending contract is
\* what that contract counts, give or take the calls under way, whatever the
\* order of their effects, outcomes and failures (BurrowShadowsMatch); but for
\* accounts that the callback of a liquidation has left locked.
THEOREM ShadowsMatch == Spec => []BurrowShadowsMatch
<1>1. Typed /\ Matching => BurrowShadowsMatch
  BY MatchingSays
<1> QED BY <1>1, TypedInvariant, MatchingInvariant, PTL
=============================================================================
