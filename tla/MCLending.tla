------------------------------ MODULE MCLending ------------------------------
(***************************************************************************)
(* Lending on small instances: the constants that a .cfg cannot write.     *)
(***************************************************************************)
EXTENDS Lending

CONSTANTS owner, user, btc, usd

TwoAccounts == {owner, user}
OneToken    == {usd}
TwoTokens   == {btc, usd}

Wallets(n, m) == [a \in TwoAccounts |-> [t \in OneToken |-> IF a = owner THEN n ELSE m]]

\* the owner's dollars and the user's
OneAndThree == Wallets(1, 3)
TwoAndFour  == Wallets(2, 4)

\* the owner has dollars to lend and the user bitcoins to pledge
ToLend(n) == [a \in TwoAccounts |-> [t \in TwoTokens |->
                 IF a = owner /\ t = usd THEN n ELSE IF a = user /\ t = btc THEN 2 ELSE 0]]

Apart    == ToLend(3)
ApartOne == ToLend(1)

CollateralRatio == [t \in Tokens |-> 3]
DebtRatio       == [t \in Tokens |-> 4]
OnlyBtcPledged  == [t \in TwoTokens |-> IF t = btc THEN 100 ELSE 0]
OnlyUsdLent     == [t \in TwoTokens |-> IF t = usd THEN 2 ELSE 0]
NoLimit         == [t \in Tokens |-> 100]
=============================================================================
