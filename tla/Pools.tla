-------------------------------- MODULE Pools --------------------------------
(***************************************************************************)
(* A pool of contracts/contract/src/pool.rs: a number of shares and the    *)
(* token balance they stand for.  Every asset has one pool of supplied     *)
(* tokens and one of borrowed tokens (and one of margin debt).  Interest   *)
(* adds to the balance and leaves the shares alone, so a share is worth    *)
(* balance / shares tokens, and each conversion between the two rounds.    *)
(*                                                                         *)
(* The code multiplies in 256 bits and aborts when a result leaves 128     *)
(* bits (overflow-checks = true in Cargo.toml): here the numbers are       *)
(* natural and nothing overflows.  The constant part of the specification: *)
(* no state, no RECURSIVE operator.                                        *)
(***************************************************************************)
EXTENDS Integers

EmptyPool == [shares |-> 0, balance |-> 0]

PoolType == [shares : Nat, balance : Nat]

\* slips: always down, always up
RoundedDown(a, b, roundUp) == a \div b
RoundedUp(a, b, roundUp) == (a + b - 1) \div b

\* a divided by b, rounded up when roundUp holds and down otherwise
DivRound(a, b, roundUp) == (a + (IF roundUp THEN b - 1 ELSE 0)) \div b

\* the shares `amount` tokens are worth: one each in an empty pool
AmountToShares(pool, amount, roundUp) ==
    IF pool.balance = 0
    THEN amount
    ELSE DivRound(pool.shares * amount, pool.balance, roundUp)

\* shares_to_amount asserts that what it converts is part of the pool
Convertible(pool, shares) ==
    \/ shares >= pool.balance
    \/ shares <= pool.shares

SharesToAmount(pool, shares, roundUp) ==
    IF shares >= pool.balance \/ shares = pool.shares
    THEN pool.balance
    ELSE DivRound(pool.balance * shares, pool.shares, roundUp)

PoolDeposit(pool, shares, amount) ==
    [shares |-> pool.shares + shares, balance |-> pool.balance + amount]

\* the code's u128 subtraction aborts on underflow
CanWithdraw(pool, shares, amount) ==
    shares <= pool.shares /\ amount <= pool.balance

PoolWithdraw(pool, shares, amount) ==
    [shares |-> pool.shares - shares, balance |-> pool.balance - amount]

PoolInvariant(pool) == pool.balance >= pool.shares

-----------------------------------------------------------------------------
(***************************************************************************)
(* The AssetAmount argument of an action: exactly some amount, at most     *)
(* some amount, or everything available.                                   *)
(***************************************************************************)
Exactly(n) == [kind |-> "amount", value |-> n]
AtMost(n)  == [kind |-> "max_amount", value |-> n]
Everything == [kind |-> "available", value |-> 0]

RequestsOver(amounts) ==
    {Exactly(n) : n \in amounts} \cup {AtMost(n) : n \in amounts} \cup {Everything}

Least(a, b) == IF a <= b THEN a ELSE b

\* slip: the rounding of a repayment and of the other actions, swapped
RoundedTheOtherWay(pool, available, request, inverse) ==
    LET wanted == AmountToShares(pool, request.value, inverse)
        capped == IF request.kind = "available" THEN available
                  ELSE Least(available, wanted)
        amount == SharesToAmount(pool, capped, ~inverse)
    IN  [shares |-> IF request.kind = "amount" THEN wanted ELSE capped,
         amount |-> IF request.kind = "amount" THEN request.value
                    ELSE IF request.kind = "max_amount" THEN Least(amount, request.value)
                    ELSE amount]

\* the shares and the tokens an action moves; `inverse` is set for a repayment
AssetAmountToShares(pool, available, request, inverse) ==
    LET wanted == AmountToShares(pool, request.value, ~inverse)
        capped == IF request.kind = "available" THEN available
                  ELSE Least(available, wanted)
        amount == SharesToAmount(pool, capped, inverse)
    IN  [shares |-> IF request.kind = "amount" THEN wanted ELSE capped,
         amount |-> IF request.kind = "amount" THEN request.value
                    ELSE IF request.kind = "max_amount" THEN Least(amount, request.value)
                    ELSE amount]

\* asset_amount_to_shares aborts on an empty result
IsMove(move) == move.shares > 0 /\ move.amount > 0

-----------------------------------------------------------------------------
\* One share of `after` is worth no less than one share of `before`.
PriceNotLower(before, after) ==
    after.balance * before.shares >= before.balance * after.shares
=============================================================================
