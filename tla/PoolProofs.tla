------------------------------ MODULE PoolProofs ------------------------------
(***************************************************************************)
(* What the conversions of Pools return, for every pool and every amount:  *)
(* their types, their bounds, and the side their rounding errs on; and how *)
(* the shares of a pool's holders add up.                                  *)
(*                                                                         *)
(* SumFunctionOnSet of the community module Functions is a fold, defined   *)
(* by a CHOOSE of a recursive function.  The first lemmas on sums show     *)
(* that the function exists and is unique, the theorems then follow        *)
(* without looking at the definition again.  In place of an induction over *)
(* finite sets, whose theorem takes an operator, each proof takes a subset *)
(* of least size that violates the claim and derives a contradiction.      *)
(***************************************************************************)
EXTENDS Pools, Integers, FiniteSets, WellFoundedInduction, FiniteSetTheorems, Functions, TLAPS

-----------------------------------------------------------------------------
\* Arithmetic and conversions.

\* Products of natural numbers are natural.
LEMMA ProductType ==
  ASSUME NEW a \in Nat, NEW b \in Nat
  PROVE  a * b \in Nat
OBVIOUS

\* Multiplying by a natural number preserves <=.
LEMMA ProductMonotone ==
  ASSUME NEW a \in Nat, NEW b \in Nat, NEW c \in Nat, a <= b
  PROVE  a * c <= b * c
<1>1. (b - a) * c >= 0
  OBVIOUS
<1>2. (b - a) * c = b * c - a * c
  OBVIOUS
<1> QED BY <1>1, <1>2

\* A quotient is the largest number whose product is within the dividend.
LEMMA Quotient ==
  ASSUME NEW a \in Nat, NEW b \in Nat \ {0}
  PROVE  /\ a \div b \in Nat
         /\ (a \div b) * b <= a
         /\ a < (a \div b) * b + b
<1>1. a = b * (a \div b) + (a % b) /\ a % b \in 0 .. b - 1
  OBVIOUS
<1>2. a \div b \in Nat
  OBVIOUS
<1>3. (a \div b) * b = b * (a \div b)
  BY <1>2
<1> QED BY <1>1, <1>2, <1>3

\* A product bounds the quotient.
LEMMA QuotientBound ==
  ASSUME NEW a \in Nat, NEW b \in Nat \ {0}, NEW c \in Nat, a <= c * b
  PROVE  a \div b <= c
<1> DEFINE q == a \div b
<1>1. q \in Nat /\ q * b <= a
  BY Quotient
<1> HIDE DEF q
<1> SUFFICES ASSUME q >= c + 1 PROVE FALSE
  BY <1>1 DEF q
<1>2. (c + 1) * b <= q * b
  BY <1>1, ProductMonotone
<1>3. (c + 1) * b = c * b + b
  OBVIOUS
<1>4. c * b \in Nat /\ q * b \in Nat
  BY <1>1, ProductType
<1> QED BY <1>1, <1>2, <1>3, <1>4

\* Rounding down stays at or below the exact quotient, rounding up at or
\* above it, and both within one.
LEMMA Rounding ==
  ASSUME NEW a \in Nat, NEW b \in Nat \ {0}
  PROVE  /\ DivRound(a, b, FALSE) \in Nat
         /\ DivRound(a, b, FALSE) * b <= a
         /\ a < DivRound(a, b, FALSE) * b + b
         /\ DivRound(a, b, TRUE) \in Nat
         /\ a <= DivRound(a, b, TRUE) * b
         /\ DivRound(a, b, TRUE) * b < a + b
<1>1. DivRound(a, b, FALSE) = a \div b
  BY DEF DivRound
<1>2. DivRound(a, b, TRUE) = (a + (b - 1)) \div b /\ a + (b - 1) \in Nat
  BY DEF DivRound
<1> DEFINE q == (a + (b - 1)) \div b
<1>3. q \in Nat /\ q * b <= a + (b - 1) /\ a + (b - 1) < q * b + b
  BY <1>2, Quotient
<1>4. q * b \in Nat
  BY <1>3, ProductType
<1>5. a <= q * b /\ q * b < a + b
  <2> HIDE DEF q
  <2> QED BY <1>3, <1>4
<1>6. /\ a \div b \in Nat
      /\ (a \div b) * b <= a
      /\ a < (a \div b) * b + b
  BY Quotient
<1> QED BY <1>1, <1>2, <1>3, <1>5, <1>6

\* amount_to_shares returns a number of shares.
LEMMA AmountToSharesType ==
  ASSUME NEW pool \in PoolType, NEW amount \in Nat, NEW roundUp \in BOOLEAN
  PROVE  AmountToShares(pool, amount, roundUp) \in Nat
<1>1. pool.shares \in Nat /\ pool.balance \in Nat
  BY DEF PoolType
<1>2. CASE pool.balance = 0
  BY <1>2 DEF AmountToShares
<1>3. CASE pool.balance # 0
  <2>1. pool.shares * amount \in Nat
    BY <1>1, ProductType
  <2>2. DivRound(pool.shares * amount, pool.balance, roundUp) \in Nat
    BY <1>1, <1>3, <2>1, Rounding
  <2> QED BY <1>3, <2>2 DEF AmountToShares
<1> QED BY <1>2, <1>3

\* shares_to_amount returns a part of the balance, once its assertion holds.
LEMMA SharesToAmountType ==
  ASSUME NEW pool \in PoolType, NEW shares \in Nat, NEW roundUp \in BOOLEAN,
         Convertible(pool, shares)
  PROVE  /\ SharesToAmount(pool, shares, roundUp) \in Nat
         /\ SharesToAmount(pool, shares, roundUp) <= pool.balance
<1>1. pool.shares \in Nat /\ pool.balance \in Nat
  BY DEF PoolType
<1>2. CASE shares >= pool.balance \/ shares = pool.shares
  BY <1>1, <1>2 DEF SharesToAmount
<1>3. CASE ~ (shares >= pool.balance \/ shares = pool.shares)
  <2> DEFINE b == pool.balance
             p == pool.shares
             q == DivRound(b * shares, p, roundUp)
  <2>1. shares < p /\ shares < b
    BY <1>1, <1>3 DEF Convertible
  <2>2. b * shares \in Nat /\ b \in Nat /\ p \in Nat \ {0}
    BY <1>1, <2>1, ProductType
  <2>3. q \in Nat /\ q * p < b * shares + p
    <3>1. CASE roundUp
      BY <2>2, <3>1, Rounding
    <3>2. CASE ~ roundUp
      <4>1. q \in Nat /\ q * p <= b * shares
        BY <2>2, <3>2, Rounding
      <4>2. q * p \in Nat
        BY <2>2, <4>1, ProductType
      <4> HIDE DEF q, b, p
      <4> QED BY <2>2, <4>1, <4>2
    <3> QED BY <3>1, <3>2
  <2>4. SharesToAmount(pool, shares, roundUp) = q
    BY <1>3 DEF SharesToAmount
  <2> HIDE DEF q, b, p
  <2>5. q <= b
    <3> SUFFICES ASSUME q >= b + 1 PROVE FALSE
      BY <2>2, <2>3
    <3>1. (b + 1) * p <= q * p
      BY <2>2, <2>3, ProductMonotone
    <3>2. (b + 1) * p = b * p + p
      BY <2>2
    <3>3. shares * b <= p * b
      BY <2>1, <2>2, ProductMonotone
    <3>4. shares * b = b * shares /\ p * b = b * p
      BY <2>2
    <3>5. q * p \in Nat /\ b * p \in Nat
      BY <2>2, <2>3, ProductType
    <3> QED BY <2>2, <2>3, <3>1, <3>2, <3>3, <3>4, <3>5
  <2> QED BY <2>3, <2>4, <2>5 DEF b
<1> QED BY <1>2, <1>3

\* The smaller of two numbers is one of them and no more than either.
LEMMA LeastBound ==
  ASSUME NEW a \in Nat, NEW b \in Nat
  PROVE  Least(a, b) \in Nat /\ Least(a, b) <= a /\ Least(a, b) <= b
BY DEF Least

\* What an action moves is a number of shares and a number of tokens, if the
\* shares it moves are part of the pool.
LEMMA MoveType ==
  ASSUME NEW pool \in PoolType, NEW available \in Nat, NEW amounts \in SUBSET Nat,
         NEW request \in RequestsOver(amounts), NEW inverse \in BOOLEAN,
         LET move == AssetAmountToShares(pool, available, request, inverse)
         IN  request.kind # "amount" => Convertible(pool, move.shares)
  PROVE  LET move == AssetAmountToShares(pool, available, request, inverse)
         IN  move.shares \in Nat /\ move.amount \in Nat
<1> DEFINE wanted == AmountToShares(pool, request.value, ~inverse)
           capped == IF request.kind = "available" THEN available ELSE Least(available, wanted)
           amount == SharesToAmount(pool, capped, inverse)
           move   == AssetAmountToShares(pool, available, request, inverse)
<1>1. request.value \in Nat /\ request.kind \in {"amount", "max_amount", "available"}
  BY DEF RequestsOver, Exactly, AtMost, Everything
<1>2. wanted \in Nat
  BY <1>1, AmountToSharesType
<1>3. capped \in Nat
  <2> HIDE DEF wanted
  <2> QED BY <1>2, LeastBound
<1>4. CASE request.kind = "amount"
  <2>1. move.shares = wanted /\ move.amount = request.value
    BY <1>4 DEF AssetAmountToShares
  <2> HIDE DEF wanted, move
  <2> QED BY <1>1, <1>2, <2>1 DEF move
<1>5. CASE request.kind = "max_amount"
  <2>1. move.shares = capped /\ move.amount = Least(amount, request.value)
    BY <1>5 DEF AssetAmountToShares
  <2>2. amount \in Nat
    <3>1. Convertible(pool, capped)
      BY <1>5, <2>1
    <3> QED BY <1>3, <3>1, SharesToAmountType
  <2> HIDE DEF capped, amount, move
  <2> QED BY <1>1, <1>3, <2>1, <2>2, LeastBound DEF move
<1>6. CASE request.kind = "available"
  <2>1. move.shares = capped /\ move.amount = amount
    BY <1>6 DEF AssetAmountToShares
  <2>2. amount \in Nat
    <3>1. Convertible(pool, capped)
      BY <1>6, <2>1
    <3> QED BY <1>3, <3>1, SharesToAmountType
  <2> HIDE DEF capped, amount, move
  <2> QED BY <1>3, <2>1, <2>2 DEF move
<1> QED BY <1>1, <1>4, <1>5, <1>6

\* A request over shares that are part of the pool moves shares and tokens.
LEMMA HeldMoveType ==
  ASSUME NEW pool \in PoolType, NEW held \in Nat, held <= pool.shares,
         NEW amounts \in SUBSET Nat,
         NEW request \in RequestsOver(amounts), NEW inverse \in BOOLEAN
  PROVE  LET move == AssetAmountToShares(pool, held, request, inverse)
         IN  move.shares \in Nat /\ move.amount \in Nat
<1> DEFINE wanted == AmountToShares(pool, request.value, ~inverse)
           capped == IF request.kind = "available" THEN held ELSE Least(held, wanted)
           move   == AssetAmountToShares(pool, held, request, inverse)
<1>1. request.value \in Nat
  BY DEF RequestsOver, Exactly, AtMost, Everything
<1>2. wanted \in Nat
  BY <1>1, AmountToSharesType
<1>3. capped \in Nat /\ capped <= held
  <2> HIDE DEF wanted
  <2> QED BY <1>2, LeastBound
<1>4. request.kind # "amount" => move.shares = capped
  <2>1. request.kind \in {"amount", "max_amount", "available"}
    BY DEF RequestsOver, Exactly, AtMost, Everything
  <2> QED BY <2>1 DEF AssetAmountToShares
<1>5. pool.shares \in Nat
  BY DEF PoolType
<1>6. request.kind # "amount" => Convertible(pool, move.shares)
  <2> HIDE DEF capped, move
  <2> QED BY <1>3, <1>4, <1>5 DEF Convertible
<1> QED BY <1>6, MoveType

\* Deposits and withdrawals within the pool leave a pool.
LEMMA PoolOperations ==
  ASSUME NEW pool \in PoolType, NEW shares \in Nat, NEW amount \in Nat
  PROVE  /\ PoolDeposit(pool, shares, amount) \in PoolType
         /\ CanWithdraw(pool, shares, amount) => PoolWithdraw(pool, shares, amount) \in PoolType
BY DEF PoolType, PoolDeposit, PoolWithdraw, CanWithdraw

-----------------------------------------------------------------------------
(***************************************************************************)
(* What the operations do to the price of a share.  PriceNotLower and      *)
(* PoolInvariant compare products, so the steps are about products of      *)
(* natural numbers B, S (the pool) and a, s (what is moved).               *)
(***************************************************************************)
\* A factor that is not zero cancels.
LEMMA ProductCancel ==
  ASSUME NEW a \in Nat, NEW b \in Nat, NEW c \in Nat \ {0}, a * c <= b * c
  PROVE  a <= b
<1> SUFFICES ASSUME a >= b + 1 PROVE FALSE
  OBVIOUS
<1>1. (b + 1) * c <= a * c
  BY ProductMonotone
<1>2. (b + 1) * c = b * c + c
  OBVIOUS
<1>3. b * c \in Nat /\ a * c \in Nat
  BY ProductType
<1> QED BY <1>1, <1>2, <1>3

\* One less than a multiple of c is a smaller multiple.
LEMMA ProductBelow ==
  ASSUME NEW a \in Nat, NEW b \in Nat, NEW c \in Nat, a * c < b * c + c
  PROVE  a <= b
<1> SUFFICES ASSUME a >= b + 1 PROVE FALSE
  OBVIOUS
<1> DEFINE p == a * c
           q == b * c
<1>1. (b + 1) * c <= p
  BY ProductMonotone
<1>2. (b + 1) * c = q + c
  OBVIOUS
<1>3. p \in Nat /\ q \in Nat /\ p < q + c
  BY ProductType
<1> HIDE DEF p, q
<1> QED BY <1>1, <1>2, <1>3

\* Shares rounded down are worth no more than the tokens they are given for.
LEMMA SharesDown ==
  ASSUME NEW pool \in PoolType, PoolInvariant(pool), NEW amount \in Nat
  PROVE  LET shares == AmountToShares(pool, amount, FALSE)
         IN  /\ shares \in Nat /\ shares <= amount
             /\ shares * pool.balance <= pool.shares * amount
<1> DEFINE B == pool.balance
           S == pool.shares
           shares == AmountToShares(pool, amount, FALSE)
<1>1. B \in Nat /\ S \in Nat /\ S <= B
  BY DEF PoolType, PoolInvariant
<1>2. CASE B = 0
  BY <1>1, <1>2 DEF AmountToShares
<1>3. CASE B # 0
  <2>1. shares = DivRound(S * amount, B, FALSE) /\ S * amount \in Nat
    BY <1>1, <1>3, ProductType DEF AmountToShares
  <2> HIDE DEF B, S, shares
  <2>2. shares \in Nat /\ shares * B <= S * amount
    BY <1>1, <1>3, <2>1, Rounding
  <2>3. S * amount <= B * amount
    BY <1>1, ProductMonotone
  <2>4. B * amount = amount * B /\ B * amount \in Nat /\ shares * B \in Nat
    BY <1>1, <2>2, ProductType
  <2>5. shares * B <= amount * B
    <3> DEFINE p == shares * B
               q == S * amount
               r == B * amount
    <3>1. p \in Nat /\ q \in Nat /\ r \in Nat /\ p <= q /\ q <= r /\ amount * B = r
      BY <2>1, <2>2, <2>3, <2>4
    <3> HIDE DEF p, q, r
    <3>2. p <= amount * B
      BY <3>1
    <3> QED BY <3>2 DEF p
  <2>6. shares <= amount
    BY <1>1, <1>3, <2>2, <2>5, ProductCancel
  <2> QED BY <2>2, <2>6 DEF B, S, shares
<1> QED BY <1>2, <1>3

\* Shares rounded up are worth no less than the tokens they are taken for.
LEMMA SharesUp ==
  ASSUME NEW pool \in PoolType, PoolInvariant(pool), NEW amount \in Nat
  PROVE  LET shares == AmountToShares(pool, amount, TRUE)
         IN  /\ shares \in Nat /\ shares <= amount
             /\ shares * pool.balance >= pool.shares * amount
             /\ amount > 0 /\ (pool.shares > 0 \/ pool.balance = 0) => shares > 0
<1> DEFINE B == pool.balance
           S == pool.shares
           shares == AmountToShares(pool, amount, TRUE)
<1>1. B \in Nat /\ S \in Nat /\ S <= B
  BY DEF PoolType, PoolInvariant
<1>2. CASE B = 0
  BY <1>1, <1>2 DEF AmountToShares
<1>3. CASE B # 0
  <2>1. shares = DivRound(S * amount, B, TRUE) /\ S * amount \in Nat
    BY <1>1, <1>3, ProductType DEF AmountToShares
  <2> HIDE DEF B, S, shares
  <2>2. shares \in Nat /\ S * amount <= shares * B /\ shares * B < S * amount + B
    BY <1>1, <1>3, <2>1, Rounding
  <2>3. S * amount <= B * amount
    BY <1>1, ProductMonotone
  <2>4. shares <= amount
    <3> DEFINE p == shares * B
               q == S * amount
               r == amount * B
    <3>0. B * amount = amount * B
      BY <1>1
    <3>1. p \in Nat /\ q \in Nat /\ r \in Nat /\ p < q + B /\ q <= r
      BY <1>1, <2>1, <2>2, <2>3, <3>0, ProductType
    <3>2. p < r + B
      <4> HIDE DEF p, q, r
      <4> QED BY <1>1, <3>1
    <3>3. shares * B < amount * B + B
      BY <3>2
    <3> QED BY <1>1, <2>2, <3>3, ProductBelow
  <2>5. ASSUME amount > 0, S > 0 PROVE shares > 0
    <3> DEFINE q == S * amount
    <3>1. 1 * amount <= q
      BY <1>1, <2>5, ProductMonotone
    <3>2. shares = 0 => q <= 0
      <4>1. shares = 0 => shares * B = 0
        BY <1>1
      <4> QED BY <2>2, <4>1
    <3>3. q \in Nat /\ 1 * amount = amount
      BY <2>1
    <3> HIDE DEF q
    <3> QED BY <2>2, <2>5, <3>1, <3>2, <3>3
  <2> QED BY <1>3, <2>2, <2>4, <2>5 DEF B, S, shares
<1> QED BY <1>2, <1>3

\* Tokens rounded down are worth no more than the shares they are paid for.
LEMMA AmountDown ==
  ASSUME NEW pool \in PoolType, PoolInvariant(pool), NEW shares \in Nat, shares <= pool.shares
  PROVE  LET amount == SharesToAmount(pool, shares, FALSE)
         IN  /\ amount \in Nat /\ shares <= amount /\ amount <= pool.balance
             /\ amount * pool.shares <= pool.balance * shares
             /\ shares = pool.shares => amount = pool.balance
<1> DEFINE B == pool.balance
           S == pool.shares
           amount == SharesToAmount(pool, shares, FALSE)
<1>1. B \in Nat /\ S \in Nat /\ S <= B
  BY DEF PoolType, PoolInvariant
<1>2. CASE shares >= B \/ shares = S
  <2>1. shares = S
    BY <1>1, <1>2
  <2>2. amount = B
    BY <1>2 DEF SharesToAmount
  <2>3. B * S \in Nat
    BY <1>1, ProductType
  <2> HIDE DEF amount
  <2>4. /\ amount \in Nat /\ shares <= amount /\ amount <= pool.balance
        /\ amount * pool.shares <= pool.balance * shares
    BY <1>1, <2>1, <2>2, <2>3
  <2> QED BY <2>2, <2>4 DEF amount
<1>3. CASE ~ (shares >= B \/ shares = S)
  <2>1. amount = DivRound(B * shares, S, FALSE) /\ B * shares \in Nat
    BY <1>1, <1>3, ProductType DEF SharesToAmount
  <2>0. shares < S /\ S \in Nat \ {0}
    BY <1>1, <1>3
  <2>2. Convertible(pool, shares)
    BY DEF Convertible
  <2>3. amount <= B
    BY <2>2, SharesToAmountType
  <2> HIDE DEF B, S, amount
  <2>4. amount \in Nat /\ amount * S <= B * shares /\ B * shares < amount * S + S
    BY <1>1, <2>0, <2>1, Rounding
  <2>5. shares <= amount
    <3> DEFINE p == amount * S
               q == B * shares
               r == shares * S
    <3>1. p \in Nat /\ q \in Nat /\ r \in Nat /\ q < p + S /\ r <= q
      <4>1. S * shares <= B * shares /\ S * shares = shares * S
        BY <1>1, ProductMonotone
      <4> QED BY <1>1, <2>1, <2>4, <4>1, ProductType
    <3>2. r < p + S
      <4> HIDE DEF p, q, r
      <4> QED BY <1>1, <3>1
    <3>3. shares * S < amount * S + S
      BY <3>2
    <3> QED BY <1>1, <2>4, <3>3, ProductBelow
  <2>6. /\ amount * pool.shares <= pool.balance * shares
        /\ amount <= pool.balance
        /\ shares # pool.shares
    BY <2>0, <2>3, <2>4 DEF B, S
  <2> QED BY <2>4, <2>5, <2>6 DEF amount
<1> QED BY <1>2, <1>3

\* Tokens rounded up are worth no less than the shares they are asked for.
LEMMA AmountUp ==
  ASSUME NEW pool \in PoolType, PoolInvariant(pool), NEW shares \in Nat, shares <= pool.shares
  PROVE  LET amount == SharesToAmount(pool, shares, TRUE)
         IN  /\ amount \in Nat /\ shares <= amount /\ amount <= pool.balance
             /\ amount * pool.shares >= pool.balance * shares
             /\ amount * pool.shares <= pool.balance * shares + pool.shares
             /\ shares = pool.shares => amount = pool.balance
             /\ amount - shares <= pool.balance - pool.shares
<1> DEFINE B == pool.balance
           S == pool.shares
           amount == SharesToAmount(pool, shares, TRUE)
<1>1. B \in Nat /\ S \in Nat /\ S <= B
  BY DEF PoolType, PoolInvariant
<1>2. CASE shares >= B \/ shares = S
  <2>1. shares = S
    BY <1>1, <1>2
  <2>2. amount = B
    BY <1>2 DEF SharesToAmount
  <2>3. B * S \in Nat
    BY <1>1, ProductType
  <2> DEFINE q == B * S
  <2>4. q \in Nat /\ amount * pool.shares = q /\ pool.balance * shares = q
    BY <2>1, <2>2, <2>3
  <2> DEFINE p == amount * pool.shares
             r == pool.balance * shares
  <2>5. p = q /\ r = q
    BY <2>4
  <2>6. p >= r /\ p <= r + S
    <3> HIDE DEF p, q, r
    <3> QED BY <1>1, <2>4, <2>5
  <2> HIDE DEF amount
  <2>7. amount \in Nat /\ shares <= amount /\ amount <= pool.balance /\ amount = pool.balance
    BY <1>1, <2>1, <2>2
  <2>8. amount - shares <= pool.balance - pool.shares
    BY <1>1, <2>1, <2>2
  <2>9. /\ amount * pool.shares >= pool.balance * shares
        /\ amount * pool.shares <= pool.balance * shares + pool.shares
    BY <2>6
  <2> HIDE DEF p, q, r
  <2> QED BY <2>7, <2>8, <2>9 DEF amount
<1>3. CASE ~ (shares >= B \/ shares = S)
  <2>1. amount = DivRound(B * shares, S, TRUE) /\ B * shares \in Nat
    BY <1>1, <1>3, ProductType DEF SharesToAmount
  <2>0. shares < S /\ S \in Nat \ {0}
    BY <1>1, <1>3
  <2>2. Convertible(pool, shares)
    BY DEF Convertible
  <2>3. amount <= B
    BY <2>2, SharesToAmountType
  <2> HIDE DEF B, S, amount
  <2>4. amount \in Nat /\ B * shares <= amount * S /\ amount * S < B * shares + S
    BY <1>1, <2>0, <2>1, Rounding
  <2>5. shares <= amount
    <3> DEFINE p == amount * S
               q == B * shares
               r == shares * S
    <3>1. p \in Nat /\ q \in Nat /\ r \in Nat /\ q <= p /\ r <= q
      <4>1. S * shares <= B * shares /\ S * shares = shares * S
        BY <1>1, ProductMonotone
      <4> QED BY <1>1, <2>1, <2>4, <4>1, ProductType
    <3>2. r <= p
      <4> HIDE DEF p, q, r
      <4> QED BY <3>1
    <3>3. shares * S <= amount * S
      BY <3>2
    <3> QED BY <1>1, <2>0, <2>4, <3>3, ProductCancel
  <2>6. amount - shares <= B - S
    <3> DEFINE x == amount - shares
               y == B - S
               p == amount * S
               q == B * shares
               r == S * shares
    <3>0. x \in Nat /\ y \in Nat
      BY <1>1, <2>4, <2>5
    <3>1. x \in Nat /\ y \in Nat /\ p \in Nat /\ q \in Nat /\ r \in Nat
      BY <1>1, <2>1, <2>4, <3>0, ProductType
    <3>2. x * S = p - r
      BY <1>1, <2>4, <2>5
    <3>3. shares * y = q - r
      BY <1>1
    <3>4. shares * y <= S * y /\ S * y = y * S
      BY <1>1, <2>0, <3>1, ProductMonotone
    <3>5. p < q + S
      BY <2>4
    <3>6. x * S < y * S + S
      <4> DEFINE u == x * S
                 v == shares * y
                 w == y * S
      <4>1. u = p - r /\ v = q - r /\ v <= w /\ w \in Nat
        BY <1>1, <3>1, <3>2, <3>3, <3>4, ProductType
      <4>2. u < w + S
        <5> HIDE DEF p, q, r, u, v, w
        <5> QED BY <1>1, <3>1, <3>5, <4>1
      <4> QED BY <4>2
    <3>7. x <= y
      <4> HIDE DEF x, y
      <4> QED BY <1>1, <3>1, <3>6, ProductBelow
    <3> QED BY <3>7
  <2>7. amount * S <= B * shares + S
    <3> DEFINE p == amount * S
               q == B * shares
    <3>1. p \in Nat /\ q \in Nat /\ p < q + S
      BY <1>1, <2>1, <2>4, ProductType
    <3>2. p <= q + S
      <4> HIDE DEF p, q
      <4> QED BY <1>1, <3>1
    <3> QED BY <3>2
  <2>8. /\ amount <= pool.balance /\ shares # pool.shares
        /\ amount * pool.shares >= pool.balance * shares
        /\ amount * pool.shares <= pool.balance * shares + pool.shares
        /\ amount - shares <= pool.balance - pool.shares
    BY <2>0, <2>3, <2>4, <2>6, <2>7 DEF B, S
  <2> QED BY <2>4, <2>5, <2>8 DEF amount
<1> QED BY <1>2, <1>3

\* A deposit for shares rounded down lowers no price.
LEMMA DepositKeepsPrice ==
  ASSUME NEW pool \in PoolType, PoolInvariant(pool), NEW amount \in Nat
  PROVE  LET after == PoolDeposit(pool, AmountToShares(pool, amount, FALSE), amount)
         IN  after \in PoolType /\ PoolInvariant(after) /\ PriceNotLower(pool, after)
<1> DEFINE B == pool.balance
           S == pool.shares
           s == AmountToShares(pool, amount, FALSE)
           after == PoolDeposit(pool, s, amount)
<1>1. B \in Nat /\ S \in Nat /\ S <= B
  BY DEF PoolType, PoolInvariant
<1>2. s \in Nat /\ s <= amount /\ s * B <= S * amount
  BY SharesDown
<1>3. after \in PoolType /\ after.balance = B + amount /\ after.shares = S + s
  <2> HIDE DEF s
  <2> QED BY <1>2, PoolOperations DEF PoolDeposit
<1> HIDE DEF s, B, S, after
<1>4. (B + amount) * S = B * S + S * amount /\ B * (S + s) = B * S + s * B
  BY <1>1, <1>2
<1>5. B * S \in Nat /\ S * amount \in Nat /\ s * B \in Nat
  BY <1>1, <1>2, ProductType
<1>6. (B + amount) * S >= B * (S + s) /\ B + amount >= S + s
  BY <1>1, <1>2, <1>4, <1>5
<1> QED BY <1>3, <1>6 DEF PoolInvariant, PriceNotLower, B, S, after, s

\* A payment for shares rounded up lowers no price.
LEMMA PaymentKeepsPrice ==
  ASSUME NEW pool \in PoolType, PoolInvariant(pool), NEW amount \in Nat,
         CanWithdraw(pool, AmountToShares(pool, amount, TRUE), amount)
  PROVE  LET after == PoolWithdraw(pool, AmountToShares(pool, amount, TRUE), amount)
         IN  after \in PoolType /\ PriceNotLower(pool, after)
<1> DEFINE B == pool.balance
           S == pool.shares
           s == AmountToShares(pool, amount, TRUE)
           after == PoolWithdraw(pool, s, amount)
<1>1. B \in Nat /\ S \in Nat /\ S <= B
  BY DEF PoolType, PoolInvariant
<1>2. s \in Nat /\ s * B >= S * amount
  BY SharesUp
<1>3. /\ after \in PoolType /\ after.balance = B - amount /\ after.shares = S - s
      /\ amount <= B /\ s <= S
  <2> HIDE DEF s
  <2> QED BY <1>2, PoolOperations DEF PoolWithdraw, CanWithdraw, s
<1> HIDE DEF s, B, S, after
<1>4. (B - amount) * S = B * S - S * amount /\ B * (S - s) = B * S - s * B
  BY <1>1, <1>2
<1>5. B * S \in Nat /\ S * amount \in Nat /\ s * B \in Nat
  BY <1>1, <1>2, ProductType
<1>6. (B - amount) * S >= B * (S - s)
  BY <1>1, <1>2, <1>4, <1>5
<1> QED BY <1>3, <1>6 DEF PriceNotLower, B, S, after, s

\* Shares that are taken for tokens rounded down lower no price.
LEMMA BurningKeepsPrice ==
  ASSUME NEW pool \in PoolType, PoolInvariant(pool), NEW shares \in Nat, shares <= pool.shares
  PROVE  LET after == PoolWithdraw(pool, shares, SharesToAmount(pool, shares, FALSE))
         IN  after \in PoolType /\ PriceNotLower(pool, after)
<1> DEFINE B == pool.balance
           S == pool.shares
           a == SharesToAmount(pool, shares, FALSE)
           after == PoolWithdraw(pool, shares, a)
<1>1. B \in Nat /\ S \in Nat /\ S <= B
  BY DEF PoolType, PoolInvariant
<1>2. a \in Nat /\ a <= B /\ a * S <= B * shares
  BY AmountDown
<1>3. after \in PoolType /\ after.balance = B - a /\ after.shares = S - shares
  <2> HIDE DEF a
  <2> QED BY <1>2, PoolOperations DEF PoolWithdraw, CanWithdraw
<1> HIDE DEF a, B, S, after
<1>4. (B - a) * S = B * S - a * S /\ B * (S - shares) = B * S - B * shares
  BY <1>1, <1>2
<1>5. B * S \in Nat /\ a * S \in Nat /\ B * shares \in Nat
  BY <1>1, <1>2, ProductType
<1>6. (B - a) * S >= B * (S - shares)
  BY <1>1, <1>2, <1>4, <1>5
<1> QED BY <1>3, <1>6 DEF PriceNotLower, B, S, after, a

\* A pool is sound if a share is a token or more and nothing is left that no
\* share stands for.
SoundPool(pool) == PoolInvariant(pool) /\ (pool.shares = 0 => pool.balance = 0)

\* A loan for shares rounded up keeps a pool of debt sound.
LEMMA BorrowingKeepsSound ==
  ASSUME NEW pool \in PoolType, SoundPool(pool), NEW amount \in Nat
  PROVE  LET shares == AmountToShares(pool, amount, TRUE)
         IN  /\ shares \in Nat
             /\ amount > 0 => shares > 0
             /\ PoolDeposit(pool, shares, amount) \in PoolType
             /\ SoundPool(PoolDeposit(pool, shares, amount))
<1> DEFINE s == AmountToShares(pool, amount, TRUE)
<1>1. /\ pool.shares \in Nat /\ pool.balance \in Nat /\ PoolInvariant(pool)
      /\ pool.balance >= pool.shares /\ (pool.shares = 0 => pool.balance = 0)
  BY DEF PoolType, SoundPool, PoolInvariant
<1>2. /\ s \in Nat /\ s <= amount
      /\ amount > 0 /\ (pool.shares > 0 \/ pool.balance = 0) => s > 0
  BY <1>1, SharesUp
<1> HIDE DEF s
<1>3. amount > 0 => s > 0
  BY <1>1, <1>2
<1>4. PoolDeposit(pool, s, amount) \in PoolType
  BY <1>2, PoolOperations
<1>5. SoundPool(PoolDeposit(pool, s, amount))
  BY <1>1, <1>2, <1>3 DEF SoundPool, PoolInvariant, PoolDeposit
<1> QED BY <1>2, <1>3, <1>4, <1>5 DEF s

\* A repayment of tokens, for shares rounded down, keeps it sound.
LEMMA RepaymentKeepsSound ==
  ASSUME NEW pool \in PoolType, SoundPool(pool), NEW amount \in Nat, amount <= pool.balance
  PROVE  LET shares == AmountToShares(pool, amount, FALSE)
         IN  /\ shares \in Nat /\ shares <= pool.shares
             /\ PoolWithdraw(pool, shares, amount) \in PoolType
             /\ SoundPool(PoolWithdraw(pool, shares, amount))
<1> DEFINE B == pool.balance
           S == pool.shares
           s == AmountToShares(pool, amount, FALSE)
<1>1. B \in Nat /\ S \in Nat /\ S <= B /\ PoolInvariant(pool) /\ (S = 0 => B = 0)
  BY DEF PoolType, SoundPool, PoolInvariant
<1>2. s \in Nat /\ s <= amount /\ s * B <= S * amount
  BY <1>1, SharesDown
<1>3. B # 0 => S * amount < s * B + B
  <2>1. ASSUME B # 0 PROVE s = DivRound(S * amount, B, FALSE) /\ S * amount \in Nat
    BY <1>1, <2>1, ProductType DEF AmountToShares
  <2> HIDE DEF s, B, S
  <2> QED BY <1>1, <2>1, Rounding
<1> HIDE DEF s, B, S
<1>4. amount <= B
  BY DEF B
<1>5. B - amount >= S - s /\ s <= S /\ (S - s = 0 => B - amount = 0)
  <2>1. CASE B = 0
    BY <1>1, <1>2, <1>4, <2>1
  <2>2. CASE B # 0
    <3> DEFINE x == amount - s
               y == B - S
    <3>1. x \in Nat /\ y \in Nat
      BY <1>1, <1>2
    <3>2. amount * S <= B * S /\ amount * S = S * amount /\ B * S = S * B
      BY <1>1, <1>4, ProductMonotone
    <3>3. s <= S
      <4>1. s * B \in Nat /\ S * amount \in Nat /\ S * B \in Nat
        BY <1>1, <1>2, ProductType
      <4>2. s * B <= S * B
        BY <1>2, <3>2, <4>1
      <4> QED BY <1>1, <1>2, <2>2, <4>2, ProductCancel
    <3>4. x <= y
      <4>1. x * B = amount * B - s * B /\ y * amount = B * amount - S * amount
        BY <1>1, <1>2
      <4>2. amount * B = B * amount /\ B * amount \in Nat /\ s * B \in Nat /\ S * amount \in Nat
        BY <1>1, <1>2, ProductType
      <4>3. amount * y <= B * y
        BY <1>1, <1>4, <3>1, ProductMonotone
      <4>4. amount * y = y * amount /\ B * y = y * B /\ y * B \in Nat /\ x * B \in Nat
        BY <1>1, <3>1, ProductType
      <4> SUFFICES ASSUME x >= y + 1 PROVE FALSE
        BY <3>1 DEF x, y
      <4>5. (y + 1) * B <= x * B /\ (y + 1) * B = y * B + B
        BY <1>1, <3>1, ProductMonotone
      <4> HIDE DEF x, y
      <4> QED BY <1>1, <1>3, <2>2, <4>1, <4>2, <4>3, <4>4, <4>5
    <3>5. S - s = 0 => B - amount = 0
      <4> SUFFICES ASSUME s = S, amount + 1 <= B PROVE FALSE
        BY <1>1, <1>2, <1>4
      <4>1. S # 0
        BY <1>1, <2>2
      <4>2. (amount + 1) * S <= B * S /\ (amount + 1) * S = S * amount + S
        BY <1>1, ProductMonotone
      <4>3. s * B = B * S /\ B * S \in Nat /\ S * amount \in Nat
        BY <1>1, ProductType
      <4> QED BY <1>1, <1>2, <4>1, <4>2, <4>3
    <3> QED BY <1>1, <1>2, <1>4, <3>3, <3>4, <3>5
  <2> QED BY <2>1, <2>2
<1>6. /\ CanWithdraw(pool, s, amount)
      /\ PoolWithdraw(pool, s, amount).balance = B - amount
      /\ PoolWithdraw(pool, s, amount).shares = S - s
  BY <1>4, <1>5 DEF CanWithdraw, PoolWithdraw, B, S
<1>7. PoolWithdraw(pool, s, amount) \in PoolType
  BY <1>2, <1>6, PoolOperations
<1> QED BY <1>2, <1>5, <1>6, <1>7 DEF SoundPool, PoolInvariant, s, S

\* A repayment of shares, for tokens rounded up, keeps it sound.
LEMMA ClearingKeepsSound ==
  ASSUME NEW pool \in PoolType, SoundPool(pool), NEW shares \in Nat, shares <= pool.shares
  PROVE  LET amount == SharesToAmount(pool, shares, TRUE)
         IN  /\ amount \in Nat /\ shares <= amount /\ amount <= pool.balance
             /\ PoolWithdraw(pool, shares, amount) \in PoolType
             /\ SoundPool(PoolWithdraw(pool, shares, amount))
<1> DEFINE a == SharesToAmount(pool, shares, TRUE)
<1>1. pool.shares \in Nat /\ pool.balance \in Nat /\ PoolInvariant(pool)
  BY DEF PoolType, SoundPool
<1>2. /\ a \in Nat /\ shares <= a /\ a <= pool.balance
      /\ shares = pool.shares => a = pool.balance
      /\ a - shares <= pool.balance - pool.shares
  BY <1>1, AmountUp
<1> HIDE DEF a
<1>3. PoolWithdraw(pool, shares, a) \in PoolType
  BY <1>2, PoolOperations DEF CanWithdraw
<1>4. /\ PoolWithdraw(pool, shares, a).balance = pool.balance - a
      /\ PoolWithdraw(pool, shares, a).shares = pool.shares - shares
  BY DEF PoolWithdraw
<1>5. /\ pool.balance - a >= pool.shares - shares
      /\ pool.shares - shares = 0 => pool.balance - a = 0
  BY <1>1, <1>2
<1> QED BY <1>2, <1>3, <1>4, <1>5 DEF SoundPool, PoolInvariant, a

\* A pool whose price has not fallen is as sound as it was.
LEMMA PriceKeepsInvariant ==
  ASSUME NEW before, before.shares \in Nat, before.balance \in Nat,
         NEW after, after.shares \in Nat, after.balance \in Nat,
         PoolInvariant(before), PriceNotLower(before, after), before.shares > 0
  PROVE  PoolInvariant(after)
<1> DEFINE B == before.balance
           S == before.shares
           b == after.balance
           s == after.shares
<1>1. B \in Nat /\ S \in Nat \ {0} /\ b \in Nat /\ s \in Nat /\ S <= B /\ B * s <= b * S
  BY DEF PoolInvariant, PriceNotLower
<1> HIDE DEF B, S, b, s
<1>2. S * s <= B * s
  BY <1>1, ProductMonotone
<1>3. S * s = s * S /\ B * s \in Nat /\ b * S \in Nat /\ s * S \in Nat
  BY <1>1, ProductType
<1>4. s * S <= b * S
  BY <1>1, <1>2, <1>3
<1>5. s <= b
  BY <1>1, <1>4, ProductCancel
<1> QED BY <1>5 DEF PoolInvariant, s, b

\* Prices that do not fall one after the other have not fallen.
LEMMA PriceTransitive ==
  ASSUME NEW x \in PoolType, NEW y \in PoolType, NEW z \in PoolType,
         PriceNotLower(x, y), PriceNotLower(y, z),
         y.shares > 0 \/ z = EmptyPool
  PROVE  PriceNotLower(x, z)
<1>1. /\ x.shares \in Nat /\ x.balance \in Nat /\ y.shares \in Nat /\ y.balance \in Nat
      /\ z.shares \in Nat /\ z.balance \in Nat
  BY DEF PoolType
<1>2. CASE z = EmptyPool
  <2>1. z.shares = 0 /\ z.balance = 0
    BY <1>2 DEF EmptyPool
  <2> QED BY <1>1, <2>1 DEF PriceNotLower
<1>3. CASE y.shares > 0
  <2> DEFINE X == x.balance
             a == x.shares
             Y == y.balance
             b == y.shares
             Z == z.balance
             c == z.shares
  <2>1. /\ X \in Nat /\ a \in Nat /\ Y \in Nat /\ b \in Nat \ {0} /\ Z \in Nat /\ c \in Nat
        /\ X * b <= Y * a /\ Y * c <= Z * b
    BY <1>1, <1>3 DEF PriceNotLower
  <2> HIDE DEF X, a, Y, b, Z, c
  <2>2. /\ X * b \in Nat /\ Y * a \in Nat /\ Y * c \in Nat /\ Z * b \in Nat
        /\ X * c \in Nat /\ Z * a \in Nat
    BY <2>1, ProductType
  <2>3. (X * b) * c <= (Y * a) * c
    BY <2>1, <2>2, ProductMonotone
  <2>4. (Y * c) * a <= (Z * b) * a
    BY <2>1, <2>2, ProductMonotone
  <2>5. (X * b) * c = (X * c) * b
    BY <2>1
  <2>6. (Y * a) * c = (Y * c) * a
    BY <2>1
  <2>7. (Z * b) * a = (Z * a) * b
    BY <2>1
  <2>8. (X * c) * b <= (Z * a) * b
    <3> DEFINE p == (X * c) * b
               q == (Y * c) * a
               r == (Z * a) * b
    <3>1. p \in Nat /\ q \in Nat /\ r \in Nat
      BY <2>1, <2>2, ProductType
    <3>2. p <= q /\ q <= r
      BY <2>3, <2>4, <2>5, <2>6, <2>7
    <3> HIDE DEF p, q, r
    <3>3. p <= r
      BY <3>1, <3>2
    <3> QED BY <3>3 DEF p, r
  <2>9. X * c <= Z * a
    BY <2>1, <2>2, <2>8, ProductCancel
  <2> QED BY <2>9 DEF PriceNotLower, X, a, Y, b, Z, c
<1> QED BY <1>2, <1>3

-----------------------------------------------------------------------------
\* Sums.

\* A non-empty set of subsets of a finite set has a minimal member.
LEMMA MinimalSubset ==
  ASSUME NEW S, IsFiniteSet(S), NEW Bad, Bad \subseteq SUBSET S, Bad # {}
  PROVE  \E m \in Bad : \A T \in Bad : T \subseteq m => T = m
<1> DEFINE R == StrictSubsetOrdering(S)
<1>0. FiniteSubsetsOf(S) = SUBSET S BY FS_FiniteSubsetsOfFinite
<1>1. IsWellFoundedOn(R, SUBSET S) BY <1>0, FS_StrictSubsetOrderingWellFounded
<1> HIDE DEF R
<1>2. PICK m \in Bad : \A y \in Bad : ~ (<<y, m>> \in R) BY <1>1, WFMin
<1>3. \A T \in Bad : T \subseteq m => T = m BY <1>2 DEF R, StrictSubsetOrdering
<1> QED BY <1>3

\* the member the fold takes first
Pick(T) == CHOOSE x \in T : TRUE

\* the sum of f over T when g has the sums over smaller sets
SumStep(g, f, T) ==
    IF T = {} THEN 0 ELSE f[Pick(T)] + g[T \ {Pick(T)}]

\* g has the sum of f over each subset of S
IsPartialSum(g, f, S) == g = [T \in SUBSET S |-> SumStep(g, f, T)]

\* Two functions of partial sums agree wherever both are defined.
LEMMA PartialSumUnique ==
  ASSUME NEW S, IsFiniteSet(S), NEW f, NEW g, NEW h, NEW T, T \subseteq S,
         IsPartialSum(g, f, S), IsPartialSum(h, f, T)
  PROVE  \A U \in SUBSET T : g[U] = h[U]
<1> DEFINE Bad == {U \in SUBSET T : g[U] # h[U]}
<1> SUFFICES ASSUME Bad # {} PROVE FALSE OBVIOUS
<1>1. IsFiniteSet(T) BY FS_Subset
<1>2. PICK m \in Bad : \A U \in Bad : U \subseteq m => U = m
  <2> HIDE DEF Bad
  <2>1. Bad \subseteq SUBSET T BY DEF Bad
  <2> QED BY <1>1, <2>1, MinimalSubset
<1>3. g[m] = SumStep(g, f, m) /\ h[m] = SumStep(h, f, m) BY DEF IsPartialSum
<1>4. m # {} BY <1>3 DEF SumStep
<1>5. Pick(m) \in m BY <1>4 DEF Pick
<1>6. m \ {Pick(m)} \notin Bad BY <1>2, <1>5
<1>7. g[m \ {Pick(m)}] = h[m \ {Pick(m)}] BY <1>6
<1> QED BY <1>3, <1>4, <1>7 DEF SumStep

\* There is a function of partial sums over every finite set.
LEMMA PartialSumExists ==
  ASSUME NEW S, IsFiniteSet(S), NEW f
  PROVE  \E g : IsPartialSum(g, f, S)
<1> DEFINE Bad == {U \in SUBSET S : ~ \E g : IsPartialSum(g, f, U)}
<1> SUFFICES ASSUME Bad # {} PROVE FALSE OBVIOUS
<1>1. PICK m \in Bad : \A U \in Bad : U \subseteq m => U = m
  <2> HIDE DEF Bad
  <2>1. Bad \subseteq SUBSET S BY DEF Bad
  <2> QED BY <2>1, MinimalSubset
<1>m. IsFiniteSet(m) BY FS_Subset
<1> DEFINE G(U) == CHOOSE g : IsPartialSum(g, f, U)
           val(U) == IF U = m
                     THEN IF m = {} THEN 0
                          ELSE f[Pick(m)] + G(m \ {Pick(m)})[m \ {Pick(m)}]
                     ELSE G(U)[U]
           k == [U \in SUBSET m |-> val(U)]
<1>2. \A U \in SUBSET m : U # m => IsPartialSum(G(U), f, U)
  <2> TAKE U \in SUBSET m
  <2> HAVE U # m
  <2>1. U \notin Bad BY <1>1
  <2>2. \E g : IsPartialSum(g, f, U) BY <2>1
  <2> QED BY <2>2
<1>3. ASSUME NEW U \in SUBSET m PROVE  k[U] = SumStep(k, f, U)
  <2>1. CASE U = {}
    <3>1. CASE U = m BY <2>1, <3>1 DEF SumStep
    <3>2. CASE U # m
      <4>1. IsPartialSum(G(U), f, U) BY <1>2, <3>2
      <4> HIDE DEF G
      <4>2. G(U)[U] = 0 BY <4>1, <2>1 DEF IsPartialSum, SumStep
      <4> QED BY <4>2, <3>2, <2>1 DEF SumStep
    <3> QED BY <3>1, <3>2
  <2>2. CASE U # {}
    <3>0. Pick(U) \in U BY <2>2 DEF Pick
    <3> DEFINE W == U \ {Pick(U)}
    <3>1. W \in SUBSET m /\ W # m /\ W \subseteq U /\ W # U BY <3>0
    <3>2. k[W] = G(W)[W] BY <3>1
    <3>3. CASE U = m
       BY <3>2, <3>3, <2>2 DEF SumStep
    <3>4. CASE U # m
      <4>1. IsPartialSum(G(U), f, U) /\ IsPartialSum(G(W), f, W) BY <1>2, <3>1, <3>4
      <4>2. IsFiniteSet(U) BY <1>m, FS_Subset
      <4>5. k[U] = G(U)[U] BY <3>4
      <4> HIDE DEF G, k
      <4>3. G(U)[W] = G(W)[W] BY <4>1, <4>2, <3>1, PartialSumUnique
      <4>4. G(U)[U] = f[Pick(U)] + G(U)[W] BY <4>1, <2>2 DEF IsPartialSum, SumStep
      <4> QED BY <4>3, <4>4, <4>5, <3>2, <2>2 DEF SumStep
    <3> QED BY <3>3, <3>4
  <2> QED BY <2>1, <2>2
<1>4. IsPartialSum(k, f, m)
  <2> HIDE DEF val
  <2> QED BY <1>3 DEF IsPartialSum
<1> QED BY <1>4

\* The sum of SumFunctionOnSet satisfies its recursive equation.
LEMMA SumUnfold ==
  ASSUME NEW S, IsFiniteSet(S), NEW f
  PROVE  SumFunctionOnSet(f, S) =
            IF S = {} THEN 0 ELSE f[Pick(S)] + SumFunctionOnSet(f, S \ {Pick(S)})
<1> DEFINE g(T) == CHOOSE h : IsPartialSum(h, f, T)
<1>1. \A T : SumFunctionOnSet(f, T) = g(T)[T]
  BY DEF SumFunctionOnSet, FoldFunctionOnSet, MapThenFoldSet, IsPartialSum, SumStep, Pick
<1>2. \A T \in SUBSET S : IsPartialSum(g(T), f, T) BY PartialSumExists, FS_Subset
<1> HIDE DEF g
<1>3. g(S)[S] = SumStep(g(S), f, S) BY <1>2 DEF IsPartialSum
<1>4. CASE S = {} BY <1>1, <1>3, <1>4 DEF SumStep
<1>5. CASE S # {}
  <2>1. g(S)[S \ {Pick(S)}] = g(S \ {Pick(S)})[S \ {Pick(S)}] BY <1>2, PartialSumUnique
  <2> QED BY <1>1, <1>3, <1>5, <2>1 DEF SumStep
<1> QED BY <1>4, <1>5

\* The sum over no element is zero.
THEOREM SumEmpty ==
  ASSUME NEW f PROVE SumFunctionOnSet(f, {}) = 0
BY SumUnfold, FS_EmptySet

\* A sum of natural numbers is a natural number.
THEOREM SumType ==
  ASSUME NEW S, IsFiniteSet(S), NEW f, \A x \in S : f[x] \in Nat
  PROVE  SumFunctionOnSet(f, S) \in Nat
<1> DEFINE Bad == {T \in SUBSET S : SumFunctionOnSet(f, T) \notin Nat}
<1> SUFFICES ASSUME Bad # {} PROVE FALSE OBVIOUS
<1>1. PICK m \in Bad : \A T \in Bad : T \subseteq m => T = m
  <2> HIDE DEF Bad
  <2>1. Bad \subseteq SUBSET S BY DEF Bad
  <2> QED BY <2>1, MinimalSubset
<1>2. IsFiniteSet(m) BY FS_Subset
<1>3. m # {} BY SumEmpty
<1>4. Pick(m) \in m BY <1>3 DEF Pick
<1>5. SumFunctionOnSet(f, m \ {Pick(m)}) \in Nat BY <1>1, <1>4
<1>6. f[Pick(m)] \in Nat BY <1>4
<1>7. SumFunctionOnSet(f, m) = f[Pick(m)] + SumFunctionOnSet(f, m \ {Pick(m)})
  BY <1>2, <1>3, SumUnfold
<1> QED BY <1>5, <1>6, <1>7

\* A sum of integers is an integer.
THEOREM SumInteger ==
  ASSUME NEW S, IsFiniteSet(S), NEW f, \A x \in S : f[x] \in Int
  PROVE  SumFunctionOnSet(f, S) \in Int
<1> DEFINE Bad == {T \in SUBSET S : SumFunctionOnSet(f, T) \notin Int}
<1> SUFFICES ASSUME Bad # {} PROVE FALSE OBVIOUS
<1>1. PICK m \in Bad : \A T \in Bad : T \subseteq m => T = m
  <2> HIDE DEF Bad
  <2>1. Bad \subseteq SUBSET S BY DEF Bad
  <2> QED BY <2>1, MinimalSubset
<1>2. IsFiniteSet(m) BY FS_Subset
<1>3. m # {} BY SumEmpty
<1>4. Pick(m) \in m BY <1>3 DEF Pick
<1>5. SumFunctionOnSet(f, m \ {Pick(m)}) \in Int BY <1>1, <1>4
<1>6. f[Pick(m)] \in Int BY <1>4
<1>7. SumFunctionOnSet(f, m) = f[Pick(m)] + SumFunctionOnSet(f, m \ {Pick(m)})
  BY <1>2, <1>3, SumUnfold
<1> QED BY <1>5, <1>6, <1>7

\* Any element may be taken out of a sum of integers first.
THEOREM SumRemoveInteger ==
  ASSUME NEW S, IsFiniteSet(S), NEW f, \A x \in S : f[x] \in Int, NEW a \in S
  PROVE  SumFunctionOnSet(f, S) = f[a] + SumFunctionOnSet(f, S \ {a})
<1> DEFINE Bad == {T \in SUBSET S : \E x \in T :
                       SumFunctionOnSet(f, T) # f[x] + SumFunctionOnSet(f, T \ {x})}
<1> SUFFICES ASSUME Bad # {} PROVE FALSE BY DEF Bad
<1>1. PICK m \in Bad : \A T \in Bad : T \subseteq m => T = m
  <2> HIDE DEF Bad
  <2>1. Bad \subseteq SUBSET S BY DEF Bad
  <2> QED BY <2>1, MinimalSubset
<1>2. IsFiniteSet(m) BY FS_Subset
<1>3. PICK x \in m : SumFunctionOnSet(f, m) # f[x] + SumFunctionOnSet(f, m \ {x}) BY <1>1
<1>4. Pick(m) \in m BY <1>3 DEF Pick
<1> DEFINE p == Pick(m)
<1> HIDE DEF Bad, p
<1>5. p \in m BY <1>4 DEF p
<1>6. SumFunctionOnSet(f, m) = f[p] + SumFunctionOnSet(f, m \ {p}) BY <1>2, <1>3, SumUnfold DEF p
<1>7. p # x BY <1>3, <1>6
<1>8. m \ {p} \notin Bad /\ m \ {x} \notin Bad BY <1>1, <1>3, <1>5
<1>9. SumFunctionOnSet(f, m \ {p}) = f[x] + SumFunctionOnSet(f, (m \ {p}) \ {x})
  BY <1>8, <1>7, <1>3, <1>1 DEF Bad
<1>10. SumFunctionOnSet(f, m \ {x}) = f[p] + SumFunctionOnSet(f, (m \ {x}) \ {p})
  BY <1>8, <1>7, <1>5, <1>1 DEF Bad
<1>11. (m \ {p}) \ {x} = (m \ {x}) \ {p} OBVIOUS
<1>12. SumFunctionOnSet(f, (m \ {p}) \ {x}) \in Int
  <2>1. m \subseteq S BY <1>1 DEF Bad
  <2>2. IsFiniteSet((m \ {p}) \ {x}) BY <1>2, FS_Subset
  <2> QED BY <2>1, <2>2, SumInteger
<1>13. f[x] \in Int /\ f[p] \in Int BY <1>1, <1>3, <1>5 DEF Bad
<1> DEFINE z == SumFunctionOnSet(f, (m \ {p}) \ {x})
<1>14. SumFunctionOnSet(f, m \ {x}) = f[p] + z BY <1>10, <1>11
<1>15. z \in Int BY <1>12
<1> HIDE DEF z
<1>16. f[p] + (f[x] + z) = f[x] + (f[p] + z) BY <1>13, <1>15
<1>17. SumFunctionOnSet(f, m) = f[p] + (f[x] + z) BY <1>6, <1>9 DEF z
<1>18. SumFunctionOnSet(f, m) = f[x] + SumFunctionOnSet(f, m \ {x}) BY <1>14, <1>16, <1>17
<1> QED BY <1>3, <1>18

\* The same, of a sum of natural numbers.
THEOREM SumRemove ==
  ASSUME NEW S, IsFiniteSet(S), NEW f, \A x \in S : f[x] \in Nat, NEW a \in S
  PROVE  SumFunctionOnSet(f, S) = f[a] + SumFunctionOnSet(f, S \ {a})
<1>1. \A x \in S : f[x] \in Int OBVIOUS
<1> QED BY <1>1, SumRemoveInteger

\* Functions that agree on a set have the same sum over it.
THEOREM SumSame ==
  ASSUME NEW S, IsFiniteSet(S), NEW f, NEW g, \A x \in S : f[x] = g[x]
  PROVE  SumFunctionOnSet(f, S) = SumFunctionOnSet(g, S)
<1> DEFINE Bad == {T \in SUBSET S : SumFunctionOnSet(f, T) # SumFunctionOnSet(g, T)}
<1> SUFFICES ASSUME Bad # {} PROVE FALSE OBVIOUS
<1>1. PICK m \in Bad : \A T \in Bad : T \subseteq m => T = m
  <2> HIDE DEF Bad
  <2>1. Bad \subseteq SUBSET S BY DEF Bad
  <2> QED BY <2>1, MinimalSubset
<1>2. IsFiniteSet(m) BY FS_Subset
<1>3. m # {} BY SumEmpty
<1>4. Pick(m) \in m BY <1>3 DEF Pick
<1>5. SumFunctionOnSet(f, m \ {Pick(m)}) = SumFunctionOnSet(g, m \ {Pick(m)}) BY <1>1, <1>4
<1>6. f[Pick(m)] = g[Pick(m)] BY <1>4
<1> QED BY <1>2, <1>3, <1>5, <1>6, SumUnfold

\* Changing one value of a function changes its sum by as much.
LEMMA SumChange ==
  ASSUME NEW S, IsFiniteSet(S), NEW f, NEW g, NEW a \in S,
         \A x \in S : f[x] \in Nat /\ g[x] \in Nat,
         \A x \in S \ {a} : f[x] = g[x]
  PROVE  SumFunctionOnSet(g, S) = SumFunctionOnSet(f, S) - f[a] + g[a]
<1>1. IsFiniteSet(S \ {a}) BY FS_Subset
<1>2. SumFunctionOnSet(f, S \ {a}) = SumFunctionOnSet(g, S \ {a}) BY <1>1, SumSame
<1>3. SumFunctionOnSet(f, S) = f[a] + SumFunctionOnSet(f, S \ {a}) BY SumRemove
<1>4. SumFunctionOnSet(g, S) = g[a] + SumFunctionOnSet(g, S \ {a}) BY SumRemove
<1>5. SumFunctionOnSet(f, S \ {a}) \in Nat BY <1>1, SumType
<1>6. f[a] \in Nat /\ g[a] \in Nat OBVIOUS
<1> QED BY <1>2, <1>3, <1>4, <1>5, <1>6

\* A sum of natural numbers is no less than each of them.
THEOREM SumBound ==
  ASSUME NEW S, IsFiniteSet(S), NEW f, \A x \in S : f[x] \in Nat, NEW a \in S
  PROVE  f[a] <= SumFunctionOnSet(f, S)
<1>1. SumFunctionOnSet(f, S) = f[a] + SumFunctionOnSet(f, S \ {a}) BY SumRemove
<1>2. SumFunctionOnSet(f, S \ {a}) \in Nat BY FS_Subset, SumType
<1> QED BY <1>1, <1>2

\* A sum of integers changes by as much as its only term that changes does.
THEOREM SumChangeInteger ==
  ASSUME NEW S, IsFiniteSet(S), NEW f, NEW g, NEW a \in S,
         \A x \in S : f[x] \in Int /\ g[x] \in Int,
         \A x \in S \ {a} : f[x] = g[x]
  PROVE  SumFunctionOnSet(g, S) = SumFunctionOnSet(f, S) - f[a] + g[a]
<1>1. IsFiniteSet(S \ {a}) BY FS_Subset
<1>2. SumFunctionOnSet(f, S \ {a}) = SumFunctionOnSet(g, S \ {a}) BY <1>1, SumSame
<1>3. SumFunctionOnSet(f, S) = f[a] + SumFunctionOnSet(f, S \ {a}) BY SumRemoveInteger
<1>4. SumFunctionOnSet(g, S) = g[a] + SumFunctionOnSet(g, S \ {a}) BY SumRemoveInteger
<1>5. SumFunctionOnSet(f, S \ {a}) \in Int BY <1>1, SumInteger
<1>6. f[a] \in Int /\ g[a] \in Int OBVIOUS
<1> QED BY <1>2, <1>3, <1>4, <1>5, <1>6

\* A sum does not depend on how its terms are indexed.
LEMMA SumReindexed ==
  ASSUME NEW S, IsFiniteSet(S), NEW T, IsFiniteSet(T), NEW f, NEW g, NEW h \in [S -> T],
         \A x \in S : f[x] \in Int /\ g[h[x]] = f[x],
         \A x, y \in S : h[x] = h[y] => x = y
  PROVE  SumFunctionOnSet(f, S) = SumFunctionOnSet(g, {h[x] : x \in S})
<1> DEFINE Image(U) == {h[x] : x \in U}
           Bad == {U \in SUBSET S : SumFunctionOnSet(f, U) # SumFunctionOnSet(g, Image(U))}
<1> SUFFICES ASSUME Bad # {} PROVE FALSE BY DEF Bad
<1>1. PICK m \in Bad : \A U \in Bad : U \subseteq m => U = m
  <2> HIDE DEF Bad
  <2>1. Bad \subseteq SUBSET S BY DEF Bad
  <2> QED BY <2>1, MinimalSubset
<1>2. m \subseteq S /\ SumFunctionOnSet(f, m) # SumFunctionOnSet(g, Image(m)) BY <1>1 DEF Bad
<1>3. IsFiniteSet(m) BY <1>2, FS_Subset
<1>4. m # {}
  <2> SUFFICES ASSUME m = {} PROVE FALSE OBVIOUS
  <2>1. Image(m) = {} OBVIOUS
  <2> QED BY <1>2, <2>1, SumEmpty
<1>5. PICK p \in m : TRUE BY <1>4
<1>6. m \ {p} \notin Bad BY <1>1, <1>5
<1>7. m \ {p} \in SUBSET S BY <1>2
<1>8. SumFunctionOnSet(f, m \ {p}) = SumFunctionOnSet(g, Image(m \ {p})) BY <1>6, <1>7 DEF Bad
<1>9. SumFunctionOnSet(f, m) = f[p] + SumFunctionOnSet(f, m \ {p})
  BY <1>2, <1>3, <1>5, SumRemoveInteger
<1> HIDE DEF Bad
<1>10. Image(m) \ {h[p]} = Image(m \ {p})
  BY <1>2, <1>5
<1>11. Image(m) \subseteq T /\ h[p] \in Image(m)
  BY <1>2, <1>5
<1>12. IsFiniteSet(Image(m)) BY <1>11, FS_Subset
<1>13. \A y \in Image(m) : g[y] \in Int BY <1>2
<1> HIDE DEF Image
<1>14. SumFunctionOnSet(g, Image(m)) = g[h[p]] + SumFunctionOnSet(g, Image(m) \ {h[p]})
  BY <1>11, <1>12, <1>13, SumRemoveInteger
<1>15. g[h[p]] = f[p] BY <1>2, <1>5
<1> QED BY <1>2, <1>8, <1>9, <1>10, <1>14, <1>15

\* Two terms together are no larger than the sum.
THEOREM SumBoundTwo ==
  ASSUME NEW S, IsFiniteSet(S), NEW f, \A x \in S : f[x] \in Nat, NEW a \in S, NEW b \in S,
         a # b
  PROVE  f[a] + f[b] <= SumFunctionOnSet(f, S)
<1>1. IsFiniteSet(S \ {a}) /\ b \in S \ {a} /\ \A x \in S \ {a} : f[x] \in Nat
  BY FS_Subset
<1>2. SumFunctionOnSet(f, S) = f[a] + SumFunctionOnSet(f, S \ {a}) BY SumRemove
<1>3. f[b] <= SumFunctionOnSet(f, S \ {a}) BY <1>1, SumBound
<1>4. SumFunctionOnSet(f, S \ {a}) \in Nat BY <1>1, SumType
<1> QED BY <1>2, <1>3, <1>4

\* A sum of zeros.
THEOREM SumZero ==
  ASSUME NEW S, IsFiniteSet(S), NEW f, \A x \in S : f[x] = 0
  PROVE  SumFunctionOnSet(f, S) = 0
<1> DEFINE Bad == {T \in SUBSET S : SumFunctionOnSet(f, T) # 0}
<1> SUFFICES ASSUME Bad # {} PROVE FALSE OBVIOUS
<1>1. PICK m \in Bad : \A T \in Bad : T \subseteq m => T = m
  <2> HIDE DEF Bad
  <2>1. Bad \subseteq SUBSET S BY DEF Bad
  <2> QED BY <2>1, MinimalSubset
<1>2. m # {} BY SumEmpty
<1>3. PICK a \in m : TRUE BY <1>2
<1>4. SumFunctionOnSet(f, m) = f[a] + SumFunctionOnSet(f, m \ {a}) BY FS_Subset, SumRemove
<1>5. SumFunctionOnSet(f, m \ {a}) = 0
  <2>1. m \ {a} \subseteq m /\ m \ {a} # m OBVIOUS
  <2>2. m \ {a} \notin Bad
    <3> HIDE DEF Bad
    <3> QED BY <1>1, <2>1
  <2> QED BY <2>2
<1> QED BY <1>4, <1>5

\* The sum of a sum of functions.
THEOREM SumPlus ==
  ASSUME NEW S, IsFiniteSet(S), NEW f, NEW g, NEW h,
         \A x \in S : f[x] \in Nat /\ g[x] \in Nat /\ h[x] = f[x] + g[x]
  PROVE  SumFunctionOnSet(h, S) = SumFunctionOnSet(f, S) + SumFunctionOnSet(g, S)
<1> DEFINE Adds(T) == SumFunctionOnSet(h, T) = SumFunctionOnSet(f, T) + SumFunctionOnSet(g, T)
           Bad == {T \in SUBSET S : ~ Adds(T)}
<1> SUFFICES ASSUME Bad # {} PROVE FALSE OBVIOUS
<1>1. PICK m \in Bad : \A T \in Bad : T \subseteq m => T = m
  <2> HIDE DEF Bad
  <2>1. Bad \subseteq SUBSET S BY DEF Bad
  <2> QED BY <2>1, MinimalSubset
<1>2. m \subseteq S /\ IsFiniteSet(m) BY FS_Subset
<1>3. m # {}
  <2>1. Adds({})
    <3>1. /\ SumFunctionOnSet(f, {}) = 0 /\ SumFunctionOnSet(g, {}) = 0
          /\ SumFunctionOnSet(h, {}) = 0
      BY SumEmpty
    <3> QED BY <3>1
  <2> QED BY <1>1, <2>1
<1>4. PICK a \in m : TRUE BY <1>3
<1>5. Adds(m \ {a})
  <2>1. m \ {a} \subseteq m /\ m \ {a} # m /\ m \ {a} \in SUBSET S BY <1>2, <1>4
  <2>2. m \ {a} \notin Bad
    <3> HIDE DEF Bad
    <3> QED BY <1>1, <2>1
  <2> QED BY <2>1, <2>2
<1>6. \A x \in m : f[x] \in Nat /\ g[x] \in Nat /\ h[x] \in Nat BY <1>2
<1>7. /\ SumFunctionOnSet(f, m) = f[a] + SumFunctionOnSet(f, m \ {a})
      /\ SumFunctionOnSet(g, m) = g[a] + SumFunctionOnSet(g, m \ {a})
      /\ SumFunctionOnSet(h, m) = h[a] + SumFunctionOnSet(h, m \ {a})
  BY <1>2, <1>4, <1>6, SumRemove
<1>8. /\ SumFunctionOnSet(f, m \ {a}) \in Nat /\ SumFunctionOnSet(g, m \ {a}) \in Nat
      /\ SumFunctionOnSet(h, m \ {a}) \in Nat
  BY <1>2, <1>6, FS_Subset, SumType
<1>9. h[a] = f[a] + g[a] /\ f[a] \in Nat /\ g[a] \in Nat BY <1>2, <1>4
<1>10. Adds(m)
  <2> HIDE DEF Bad
  <2> QED BY <1>5, <1>7, <1>8, <1>9
<1> QED BY <1>1, <1>10

\* A common factor may be taken out of a sum.
LEMMA SumScale ==
  ASSUME NEW S, IsFiniteSet(S), NEW c \in Nat, NEW f, NEW h,
         \A x \in S : f[x] \in Nat /\ h[x] = c * f[x]
  PROVE  SumFunctionOnSet(h, S) = c * SumFunctionOnSet(f, S)
<1> DEFINE Scales(T) == SumFunctionOnSet(h, T) = c * SumFunctionOnSet(f, T)
           Bad == {T \in SUBSET S : ~ Scales(T)}
<1> SUFFICES ASSUME Bad # {} PROVE FALSE OBVIOUS
<1>1. PICK m \in Bad : \A T \in Bad : T \subseteq m => T = m
  <2> HIDE DEF Bad
  <2>1. Bad \subseteq SUBSET S BY DEF Bad
  <2> QED BY <2>1, MinimalSubset
<1>2. m \subseteq S /\ IsFiniteSet(m) BY FS_Subset
<1>3. m # {}
  <2>1. SumFunctionOnSet(f, {}) = 0 /\ SumFunctionOnSet(h, {}) = 0 BY SumEmpty
  <2>2. Scales({}) BY <2>1
  <2> QED BY <1>1, <2>2
<1>4. PICK a \in m : TRUE BY <1>3
<1>5. Scales(m \ {a})
  <2>1. m \ {a} \subseteq m /\ m \ {a} # m /\ m \ {a} \in SUBSET S BY <1>2, <1>4
  <2>2. m \ {a} \notin Bad
    <3> HIDE DEF Bad
    <3> QED BY <1>1, <2>1
  <2> QED BY <2>1, <2>2
<1>6. \A x \in m : f[x] \in Nat /\ h[x] \in Nat
  <2>1. \A x \in m : f[x] \in Nat /\ h[x] = c * f[x] BY <1>2
  <2> QED BY <2>1, ProductType
<1>7. /\ SumFunctionOnSet(f, m) = f[a] + SumFunctionOnSet(f, m \ {a})
      /\ SumFunctionOnSet(h, m) = h[a] + SumFunctionOnSet(h, m \ {a})
  BY <1>2, <1>4, <1>6, SumRemove
<1>8. SumFunctionOnSet(f, m \ {a}) \in Nat
  BY <1>2, <1>6, FS_Subset, SumType
<1>9. h[a] = c * f[a] /\ f[a] \in Nat BY <1>2, <1>4
<1>10. Scales(m)
  <2> DEFINE y == SumFunctionOnSet(f, m \ {a})
             z == f[a]
  <2>1. y \in Nat /\ z \in Nat BY <1>8, <1>9
  <2>2. SumFunctionOnSet(f, m) = z + y /\ SumFunctionOnSet(h, m) = c * z + c * y
    BY <1>5, <1>7, <1>9
  <2> HIDE DEF y, z
  <2>3. c * (z + y) = c * z + c * y BY <2>1
  <2> QED BY <2>2, <2>3
<1> QED BY <1>1, <1>10

\* Of two sums the one with the larger terms is the larger.
LEMMA SumMonotone ==
  ASSUME NEW S, IsFiniteSet(S), NEW f, NEW g,
         \A x \in S : f[x] \in Nat /\ g[x] \in Nat /\ f[x] <= g[x]
  PROVE  SumFunctionOnSet(f, S) <= SumFunctionOnSet(g, S)
<1> DEFINE d == [x \in S |-> g[x] - f[x]]
<1>1. \A x \in S : f[x] \in Nat /\ d[x] \in Nat /\ g[x] = f[x] + d[x]
  OBVIOUS
<1> HIDE DEF d
<1>2. SumFunctionOnSet(g, S) = SumFunctionOnSet(f, S) + SumFunctionOnSet(d, S)
  BY <1>1, SumPlus
<1>3. SumFunctionOnSet(f, S) \in Nat /\ SumFunctionOnSet(d, S) \in Nat
  BY <1>1, SumType
<1> QED BY <1>2, <1>3

\* A sum of ones counts.
THEOREM SumCount ==
  ASSUME NEW S, IsFiniteSet(S), NEW T, T \subseteq S, NEW f,
         \A x \in S : f[x] = IF x \in T THEN 1 ELSE 0
  PROVE  SumFunctionOnSet(f, S) = Cardinality(T)
<1> DEFINE Counts(U) == SumFunctionOnSet(f, U) = Cardinality(T \cap U)
           Bad == {U \in SUBSET S : ~ Counts(U)}
<1> SUFFICES ASSUME Bad # {} PROVE FALSE
  <2>1. T \cap S = T OBVIOUS
  <2>2. Counts(S) OBVIOUS
  <2> QED BY <2>1, <2>2
<1>1. PICK m \in Bad : \A U \in Bad : U \subseteq m => U = m
  <2> HIDE DEF Bad
  <2>1. Bad \subseteq SUBSET S BY DEF Bad
  <2> QED BY <2>1, MinimalSubset
<1>2. m \subseteq S /\ IsFiniteSet(m) BY FS_Subset
<1>3. m # {}
  <2>1. SumFunctionOnSet(f, {}) = 0 BY SumEmpty
  <2>2. T \cap {} = {} OBVIOUS
  <2>3. Cardinality(T \cap {}) = 0 BY <2>2, FS_EmptySet
  <2>4. Counts({}) BY <2>1, <2>3
  <2> QED BY <1>1, <2>4
<1>4. PICK a \in m : TRUE BY <1>3
<1>5. Counts(m \ {a})
  <2>1. m \ {a} \subseteq m /\ m \ {a} # m /\ m \ {a} \in SUBSET S BY <1>2, <1>4
  <2>2. m \ {a} \notin Bad
    <3> HIDE DEF Bad
    <3> QED BY <1>1, <2>1
  <2> QED BY <2>1, <2>2
<1>6. \A x \in m : f[x] \in Nat BY <1>2
<1>7. SumFunctionOnSet(f, m) = f[a] + SumFunctionOnSet(f, m \ {a})
  BY <1>2, <1>4, <1>6, SumRemove
<1>8. IsFiniteSet(T \cap m) /\ IsFiniteSet(T \cap (m \ {a}))
  BY <1>2, FS_Subset
<1>9. Cardinality(T \cap m) = f[a] + Cardinality(T \cap (m \ {a}))
  <2>1. Cardinality(T \cap (m \ {a})) \in Nat BY <1>8, FS_CardinalityType
  <2>2. CASE a \in T
    <3>1. T \cap m = (T \cap (m \ {a})) \cup {a} /\ a \notin T \cap (m \ {a})
      BY <1>4, <2>2
    <3>2. Cardinality(T \cap m) = Cardinality(T \cap (m \ {a})) + 1
      BY <1>8, <3>1, FS_AddElement
    <3> QED BY <1>2, <1>4, <2>1, <2>2, <3>2
  <2>3. CASE a \notin T
    <3>1. T \cap m = T \cap (m \ {a}) BY <2>3
    <3>2. f[a] = 0
      <4>1. a \in S BY <1>2, <1>4
      <4> HIDE DEF Bad
      <4> QED BY <2>3, <4>1
    <3>3. Cardinality(T \cap m) = Cardinality(T \cap (m \ {a})) BY <3>1
    <3> HIDE DEF Bad
    <3> QED BY <2>1, <3>2, <3>3
  <2> QED BY <2>2, <2>3
<1>10. Counts(m) BY <1>5, <1>7, <1>9
<1> QED BY <1>1, <1>10
=============================================================================
