------------------------------ MODULE FarmProofs ------------------------------
(***************************************************************************)
(* Theorems of Farms, for every set of accounts and of tokens, every       *)
(* policy, and amounts, rewards and blocks without bound.                  *)
(*                                                                         *)
(* The boosted shares of a reward are a natural number only because they   *)
(* are the sum of the accounts' records, so the types and that sum are one *)
(* inductive invariant; it needs to know which records an account may      *)
(* have, and when.  That stakes count at once is an action property: it    *)
(* follows from the invariant and from what applying the farms of a stake  *)
(* does to the records of its account.                                     *)
(*                                                                         *)
(* That the rewards balance is one, too.  It needs to know what an entry   *)
(* of this block has been paid (UpToDate, inductive with the invariant),   *)
(* and goes by farms: what an update and a claim take out of one and       *)
(* strike off the records differ by their rounding (Within), the sums over *)
(* the farms by the sum of that (BalancedSum), and every other token a     *)
(* handler moves stays in the ledger (KeepsTokens).                        *)
(***************************************************************************)
EXTENDS Farms, PoolProofs

\* What an entry remembers of a reward is no more than the farm has earned, and
\* an entry that is up to date has records of active rewards only.
RecordsKept ==
    \A a \in Accounts, f \in Tokens :
        /\ entry[a][f].at <= now
        /\ entry[a][f].at = now => entry[a][f].rewards \subseteq Active(f)
        /\ \A r \in Tokens :
              IF r \in entry[a][f].rewards
              THEN entry[a][f].last[r] <= reward[f][r].per_share
              ELSE entry[a][f].boosted[r] = 0

\* Only who supplies the token of a farm has an entry of it.
SuppliersOnly ==
    \A a \in Accounts, f \in Tokens :
        entry[a][f] # NoEntry => supplied[a][f] > 0 /\ Farming(f)

ClocksRun == \A f \in Tokens : farmAt[f] <= now

\* The rules of staking are those of a policy while they apply.
RulesHold ==
    /\ booster.min <= booster.max
    /\ booster.multiplier >= FullRate
    /\ booster.enabled => \E p \in Policies : booster.multiplier = p.multiplier

Inv == /\ TypeOK /\ BoostedSharesAddUp /\ BarredFarmNothing /\ XBoosterBounded
       /\ RecordsKept /\ SuppliersOnly /\ ClocksRun /\ RulesHold

\* A stake has no more x booster tokens than a policy could give it.
Bounded(stake) ==
    \E p \in Policies : stake.amount > 0 => stake.x * FullRate <= stake.amount * p.multiplier

AssetType == [supplied : PoolType, reserved : Nat]

-----------------------------------------------------------------------------
\* Updating a reward pays out of what remains and raises what a share has
\* earned; it leaves the boosted shares alone.
LEMMA UpdatedType ==
  ASSUME Inv, NEW f \in Tokens, NEW r \in Tokens
  PROVE  /\ Updated(f, r) \in RewardType
         /\ Updated(f, r).boosted = reward[f][r].boosted
         /\ reward[f][r].per_share <= Updated(f, r).per_share
         /\ Updated(f, r).status = "none" <=> reward[f][r].status = "none"
         /\ farmAt[f] = now => Updated(f, r) = reward[f][r]
<1> DEFINE rew == reward[f][r]
           got == Acquired(rew, now - farmAt[f])
<1>1. rew \in RewardType /\ farmAt[f] \in Nat /\ now \in Nat /\ farmAt[f] <= now
  BY DEF Inv, TypeOK, ClocksRun
<1>2. rew.per_day \in Nat /\ rew.remaining \in Nat /\ rew.boosted \in Nat /\ rew.per_share \in Nat
  BY <1>1 DEF RewardType
<1>3. Day \in Nat \ {0} /\ Fine \in Nat \ {0}
  BY FarmNumbers
<1>4. got \in Nat /\ got <= rew.remaining
  <2>1. now - farmAt[f] \in Nat
    BY <1>1
  <2>2. rew.per_day * (now - farmAt[f]) \in Nat
    BY <1>2, <2>1, ProductType
  <2>3. (rew.per_day * (now - farmAt[f])) \div Day \in Nat
    BY <1>3, <2>2, Quotient
  <2> QED BY <1>2, <2>3, LeastBound DEF Acquired
<1>5. CASE farmAt[f] = now \/ rew.status # "active" \/ rew.boosted = 0
  <2>1. Updated(f, r) = rew
    BY <1>5 DEF Updated
  <2> QED BY <1>1, <1>2, <2>1
<1>6. CASE ~ (farmAt[f] = now \/ rew.status # "active" \/ rew.boosted = 0)
  <2> DEFINE q == (got * Fine) \div rew.boosted
             s == IF got = rew.remaining THEN "inactive" ELSE rew.status
             n == rew.remaining - got
             p == rew.per_share + q
  <2>1. got * Fine \in Nat
    BY <1>3, <1>4, ProductType
  <2>2. q \in Nat
    BY <1>2, <1>6, <2>1, Quotient
  <2>3. Updated(f, r) = [rew EXCEPT !.remaining = n, !.per_share = p, !.status = s]
    BY <1>6 DEF Updated
  <2>4. n \in Nat /\ p \in Nat /\ rew.per_share <= p
    BY <1>2, <1>4, <2>2
  <2>5. s \in {"none", "active", "inactive"} /\ s # "none" /\ rew.status # "none"
    BY <1>6
  <2> HIDE DEF q, got, s, n, p, rew
  <2>6. /\ Updated(f, r) \in RewardType /\ Updated(f, r).boosted = rew.boosted
        /\ Updated(f, r).per_share = p /\ Updated(f, r).status = s
    BY <1>1, <2>3, <2>4, <2>5 DEF RewardType
  <2> QED BY <1>6, <2>4, <2>5, <2>6 DEF rew
<1> QED BY <1>5, <1>6

\* What an account is paid for a reward.
LEMMA DueType ==
  ASSUME Inv, NEW a \in Accounts, NEW f \in Tokens, NEW r \in Tokens
  PROVE  Due(a, f, r) \in Nat
<1> DEFINE d == Updated(f, r).per_share - entry[a][f].last[r]
<1>1. CASE entry[a][f].at # now /\ r \in entry[a][f].rewards
  <2>1. entry[a][f].last[r] <= reward[f][r].per_share
    BY <1>1 DEF Inv, RecordsKept
  <2>2. entry[a][f].last[r] \in Nat /\ entry[a][f].boosted[r] \in Nat
    BY DEF Inv, TypeOK, EntryType
  <2>3. /\ reward[f][r].per_share \in Nat /\ Updated(f, r).per_share \in Nat
        /\ reward[f][r].per_share <= Updated(f, r).per_share
    BY UpdatedType DEF Inv, TypeOK, RewardType
  <2>4. d \in Nat
    BY <2>1, <2>2, <2>3
  <2> HIDE DEF d
  <2>5. d * entry[a][f].boosted[r] \in Nat
    BY <2>2, <2>4, ProductType
  <2>6. Fine \in Nat \ {0}
    BY FarmNumbers
  <2>7. Fine \div 2 \in Nat
    BY <2>6, Quotient
  <2>8. (d * entry[a][f].boosted[r] + Fine \div 2) \div Fine \in Nat
    <3> DEFINE y == d * entry[a][f].boosted[r]
               z == Fine \div 2
    <3>1. y \in Nat /\ z \in Nat
      BY <2>5, <2>7
    <3> HIDE DEF y, z
    <3>2. (y + z) \div Fine \in Nat
      BY <2>6, <3>1, Quotient
    <3> QED BY <3>2 DEF y, z
  <2> QED BY <1>1, <2>8 DEF Due, RoundMul, d
<1>2. CASE ~ (entry[a][f].at # now /\ r \in entry[a][f].rewards)
  BY <1>2 DEF Due
<1> QED BY <1>1, <1>2

\* A claim keeps the boosted shares of the active rewards, and leaves no others
\* behind.
LEMMA ClaimedType ==
  ASSUME Inv, NEW a \in Accounts, NEW f \in Tokens
  PROVE  /\ Claimed(a, f) \in EntryType
         /\ Claimed(a, f).at = now
         /\ Claimed(a, f).rewards \subseteq Active(f)
         /\ \A r \in Tokens :
               /\ r \in Claimed(a, f).rewards => Claimed(a, f).last[r] <= Updated(f, r).per_share
               /\ Claimed(a, f).boosted[r] = IF r \in Active(f) THEN entry[a][f].boosted[r] ELSE 0
<1>1. /\ entry[a][f] \in EntryType /\ now \in Nat
      /\ entry[a][f].rewards \subseteq Tokens
      /\ entry[a][f].boosted \in [Tokens -> Nat] /\ entry[a][f].last \in [Tokens -> Nat]
  BY DEF Inv, TypeOK, EntryType
<1>2. \A r \in Tokens : /\ Updated(f, r).per_share \in Nat /\ reward[f][r].per_share \in Nat
                        /\ reward[f][r].per_share <= Updated(f, r).per_share
  BY UpdatedType DEF Inv, TypeOK, RewardType
<1>3. Active(f) \subseteq Tokens
  BY DEF Active
<1>4. CASE entry[a][f].at = now
  <2>1. Claimed(a, f) = entry[a][f]
    BY <1>4 DEF Claimed
  <2>2. entry[a][f].rewards \subseteq Active(f)
    BY <1>4 DEF Inv, RecordsKept
  <2>3. \A r \in Tokens : /\ r \in entry[a][f].rewards => entry[a][f].last[r] <= reward[f][r].per_share
                          /\ r \notin entry[a][f].rewards => entry[a][f].boosted[r] = 0
    BY DEF Inv, RecordsKept
  <2>4. \A r \in entry[a][f].rewards : entry[a][f].last[r] <= Updated(f, r).per_share
    BY <1>1, <1>2, <2>3
  <2> QED BY <1>1, <1>4, <2>1, <2>2, <2>3, <2>4
<1>5. CASE entry[a][f].at # now
  <2> DEFINE b == [r \in Tokens |-> IF r \in Active(f) THEN entry[a][f].boosted[r] ELSE 0]
             l == [r \in Tokens |-> IF r \in Active(f) THEN Updated(f, r).per_share ELSE 0]
  <2>1. Claimed(a, f) = [at |-> now, rewards |-> Active(f), boosted |-> b, last |-> l]
    BY <1>5 DEF Claimed
  <2>2. b \in [Tokens -> Nat] /\ l \in [Tokens -> Nat]
    BY <1>1, <1>2
  <2>3. \A r \in Tokens : b[r] = IF r \in Active(f) THEN entry[a][f].boosted[r] ELSE 0
    OBVIOUS
  <2>4. \A r \in Active(f) : l[r] <= Updated(f, r).per_share
    BY <1>2, <1>3
  <2> HIDE DEF b, l
  <2> QED BY <1>1, <1>3, <2>1, <2>2, <2>3, <2>4 DEF EntryType
<1> QED BY <1>4, <1>5

-----------------------------------------------------------------------------
\* How many shares a stake adds.
LEMMA BoostedSharesType ==
  ASSUME NEW shares \in Nat, NEW x \in Nat
  PROVE  BoostedShares(shares, x) \in Nat
<1> DEFINE S == {e \in 1 .. shares * x : LogBase ^ e * BoosterBase ^ shares <= x ^ shares}
<1>1. shares * x \in Nat
  BY ProductType
<1>2. IsFiniteSet(1 .. shares * x)
  BY <1>1, FS_Interval
<1>3. S \subseteq 1 .. shares * x
  OBVIOUS
<1>4. Cardinality(S) \in Nat
  <2> HIDE DEF S
  <2> QED BY <1>2, <1>3, FS_Subset, FS_CardinalityType
<1> HIDE DEF S
<1>5. ExtraShares(shares, x) \in Nat
  BY <1>4 DEF ExtraShares, S
<1> QED BY <1>5 DEF BoostedShares

\* A product with a positive number can be cancelled.
LEMMA Cancelled ==
  ASSUME NEW u \in Nat, NEW v \in Nat, NEW c \in Nat \ {0}, u * c <= v * c
  PROVE  u <= v
<1> SUFFICES ASSUME v + 1 <= u PROVE FALSE
  OBVIOUS
<1>1. (v + 1) * c <= u * c
  BY ProductMonotone
<1>2. (v + 1) * c = v * c + c /\ v * c \in Nat /\ u * c \in Nat
  OBVIOUS
<1> QED BY <1>1, <1>2

\* A duration within the rules yields x booster tokens up to the multiplier.
LEMMA XBoosterBound ==
  ASSUME booster \in InfoType, NEW amount \in Nat, NEW duration \in Nat,
         booster.min < booster.max, booster.multiplier >= FullRate,
         booster.min <= duration, duration <= booster.max
  PROVE  /\ XBooster(amount, duration) \in Nat
         /\ XBooster(amount, duration) * FullRate <= amount * booster.multiplier
<1> DEFINE A == booster.multiplier - FullRate
           B == duration - booster.min
           C == booster.max - booster.min
           F == FullRate
           M == booster.multiplier
           q == (amount * (A * B)) \div (C * F)
<1>1. F \in Nat \ {0} /\ M \in Nat
  BY FarmNumbers DEF InfoType
<1>2. A \in Nat /\ B \in Nat /\ C \in Nat \ {0} /\ B <= C /\ M = A + F
  BY <1>1 DEF InfoType
<1>3. XBooster(amount, duration) = amount + q
  BY DEF XBooster
<1> HIDE DEF A, B, C, F, M
<1>4. A * B \in Nat /\ C * F \in Nat \ {0} /\ amount * A \in Nat
  BY <1>1, <1>2
<1>5. amount * (A * B) \in Nat
  BY <1>4, ProductType
<1>6. q \in Nat /\ q * (C * F) <= amount * (A * B)
  BY <1>4, <1>5, Quotient
<1> HIDE DEF q
<1>7. q * F \in Nat
  BY <1>1, <1>6
<1>8. q * (C * F) = (q * F) * C /\ amount * (A * B) = (amount * A) * B
  BY <1>1, <1>2, <1>6
<1>9. B * (amount * A) <= C * (amount * A)
  BY <1>2, <1>4, ProductMonotone
<1>10. (q * F) * C <= (amount * A) * C
  <2> DEFINE v == q * F
             u == amount * A
  <2>1. v \in Nat /\ u \in Nat /\ v * C <= u * B /\ B * u <= C * u
    BY <1>4, <1>6, <1>7, <1>8, <1>9
  <2> HIDE DEF u, v
  <2>2. v * C <= u * C
    BY <1>2, <2>1
  <2> QED BY <2>2 DEF u, v
<1>11. q * F <= amount * A
  BY <1>2, <1>4, <1>7, <1>10, Cancelled
<1>12. (amount + q) * F = amount * F + q * F /\ amount * M = amount * A + amount * F
  BY <1>1, <1>2, <1>6
<1>13. (amount + q) * F <= amount * M
  <2> DEFINE v == q * F
             u == amount * A
             w == amount * F
  <2>1. v \in Nat /\ u \in Nat /\ w \in Nat /\ v <= u
    BY <1>1, <1>4, <1>7, <1>11
  <2>2. (amount + q) * F = w + v /\ amount * M = u + w
    BY <1>12
  <2> HIDE DEF u, v, w
  <2> QED BY <2>1, <2>2
<1> QED BY <1>3, <1>6, <1>13 DEF F, M

\* Bringing a stake under the rules of now.
LEMMA SyncedType ==
  ASSUME Inv, NEW stake \in StakeType, Bounded(stake), CanSync(stake)
  PROVE  /\ Synced(stake) \in StakeType
         /\ Synced(stake).amount = stake.amount
         /\ Bounded(Synced(stake))
<1>1. /\ stake.amount \in Nat /\ stake.x \in Nat /\ stake.unlock \in Nat /\ now \in Nat
      /\ booster \in InfoType /\ booster.min \in Nat /\ booster.max \in Nat
  BY DEF Inv, TypeOK, StakeType, InfoType
<1>2. \A p \in Policies : p.multiplier \in Nat
  BY FarmPolicies
<1>3. FullRate \in Nat
  BY FarmNumbers
<1>4. CASE Locked(stake)
  <2> DEFINE remain  == stake.unlock - now
             d       == Most(booster.min, Least(remain, booster.max))
             most    == XBooster(stake.amount, booster.max)
             recount == XBooster(stake.amount, d)
             x       == Least(most, Most(stake.x, recount))
             u       == now + Least(remain, booster.max)
  <2>1. booster.enabled /\ booster.min < booster.max /\ remain \in Nat
    BY <1>1, <1>4 DEF Locked, CanSync
  <2>2. PICK p \in Policies : booster.multiplier = p.multiplier
    BY <2>1 DEF Inv, RulesHold
  <2>3. booster.multiplier >= FullRate
    BY DEF Inv, RulesHold
  <2>4. d \in Nat /\ booster.min <= d /\ d <= booster.max
    BY <1>1, <2>1 DEF Most, Least
  <2>5. most \in Nat /\ most * FullRate <= stake.amount * booster.multiplier
    BY <1>1, <2>1, <2>3, XBoosterBound
  <2> HIDE DEF d
  <2>6. recount \in Nat
    BY <1>1, <2>1, <2>3, <2>4, XBoosterBound
  <2> HIDE DEF most, recount
  <2>7. x \in Nat /\ x <= most
    BY <1>1, <2>5, <2>6 DEF Most, Least
  <2>8. u \in Nat
    BY <1>1, <2>1 DEF Least
  <2>9. Synced(stake) = [stake EXCEPT !.x = x, !.unlock = u]
    BY <1>4 DEF Synced, d, most, recount
  <2> HIDE DEF x, u
  <2>10. x * FullRate <= most * FullRate
    BY <1>3, <2>5, <2>7, ProductMonotone
  <2>11. x * FullRate <= stake.amount * p.multiplier
    <3>1. x * FullRate \in Nat /\ most * FullRate \in Nat /\ stake.amount * p.multiplier \in Nat
      BY <1>1, <1>2, <1>3, <2>5, <2>7, ProductType
    <3> QED BY <2>2, <2>5, <2>10, <3>1
  <2>12. Synced(stake) \in StakeType /\ Synced(stake).amount = stake.amount /\ Synced(stake).x = x
    BY <1>1, <2>7, <2>8, <2>9 DEF StakeType
  <2> QED BY <2>11, <2>12 DEF Bounded
<1>5. CASE ~ Locked(stake)
  <2>1. Synced(stake) = [stake EXCEPT !.x = 0]
    BY <1>5 DEF Synced
  <2>2. Synced(stake) \in StakeType /\ Synced(stake).amount = stake.amount /\ Synced(stake).x = 0
    BY <2>1 DEF StakeType
  <2>3. PICK p \in Policies : TRUE
    BY DEF Bounded
  <2>4. stake.amount * p.multiplier \in Nat
    BY <1>1, <1>2, ProductType
  <2>5. 0 * FullRate <= stake.amount * p.multiplier
    BY <1>3, <2>4
  <2> QED BY <2>2, <2>5 DEF Bounded
<1> QED BY <1>4, <1>5

\* Staking more counts all tokens by the new duration, and each once.
LEMMA StakedType ==
  ASSUME Inv, NEW stake \in StakeType, Bounded(stake), booster.enabled,
         booster.min < booster.max, NEW amount \in Nat, NEW duration \in Nat,
         booster.min <= duration, duration <= booster.max
  PROVE  /\ Staked(stake, amount, duration) \in StakeType
         /\ Bounded(Staked(stake, amount, duration))
<1> DEFINE x == XBooster(amount, duration)
           y == XBooster(stake.amount, duration)
           z == IF stake.amount = 0 THEN 0 ELSE Most(stake.x, y)
           M == booster.multiplier
<1>1. stake.amount \in Nat /\ stake.x \in Nat /\ now \in Nat /\ booster \in InfoType /\ M \in Nat
  BY DEF Inv, TypeOK, StakeType, InfoType
<1>2. FullRate \in Nat
  BY FarmNumbers
<1>3. PICK p \in Policies : M = p.multiplier
  BY DEF Inv, RulesHold
<1>4. /\ x \in Nat /\ x * FullRate <= amount * M
      /\ y \in Nat /\ y * FullRate <= stake.amount * M
  BY <1>1, XBoosterBound DEF Inv, RulesHold
<1>5. Staked(stake, amount, duration)
        = [amount |-> stake.amount + amount, x |-> x + z, unlock |-> now + duration]
  BY DEF Staked
<1> HIDE DEF x, y, M
<1>6. z \in Nat
  BY <1>1, <1>4 DEF Most
<1>7. Staked(stake, amount, duration) \in StakeType
  <2> HIDE DEF z
  <2> QED BY <1>1, <1>4, <1>5, <1>6 DEF StakeType
\* a multiplier that bounds both parts bounds their sum
<1>8. ASSUME NEW m \in Nat, M <= m, z * FullRate <= stake.amount * m
      PROVE  (x + z) * FullRate <= (stake.amount + amount) * m
  <2>1. amount * M <= amount * m
    <3>1. M * amount <= m * amount
      BY <1>1, <1>8, ProductMonotone
    <3> QED BY <1>1, <1>8, <3>1
  <2> HIDE DEF z
  <2>2. (x + z) * FullRate = x * FullRate + z * FullRate
    BY <1>2, <1>4, <1>6
  <2>3. (stake.amount + amount) * m = stake.amount * m + amount * m
    BY <1>1, <1>8
  <2>4. /\ x * FullRate \in Nat /\ z * FullRate \in Nat /\ amount * M \in Nat
        /\ stake.amount * m \in Nat /\ amount * m \in Nat
    BY <1>1, <1>2, <1>4, <1>6, <1>8, ProductType
  <2> QED BY <1>4, <1>8, <2>1, <2>2, <2>3, <2>4
<1>9. PICK q \in Policies : stake.amount > 0 => stake.x * FullRate <= stake.amount * q.multiplier
  BY DEF Bounded
<1>10. q.multiplier \in Nat /\ p.multiplier \in Nat
  BY FarmPolicies
<1>11. PICK w \in Policies : M <= w.multiplier /\ q.multiplier <= w.multiplier
  BY <1>1, <1>3, <1>10
<1>12. w.multiplier \in Nat
  BY FarmPolicies
<1>13. z * FullRate <= stake.amount * w.multiplier
  <2> DEFINE m == w.multiplier
  <2>1. stake.amount * m \in Nat
    BY <1>1, <1>12, ProductType
  <2>2. CASE stake.amount = 0
    BY <1>2, <2>1, <2>2
  <2>3. CASE stake.amount # 0
    <3>1. stake.x * FullRate <= stake.amount * q.multiplier
      BY <1>1, <1>9, <2>3
    <3>2. q.multiplier * stake.amount <= m * stake.amount
      BY <1>1, <1>10, <1>11, <1>12, ProductMonotone
    <3>3. M * stake.amount <= m * stake.amount
      BY <1>1, <1>11, <1>12, ProductMonotone
    <3>4. stake.x * FullRate <= stake.amount * m
      <4>1. stake.amount * q.multiplier <= stake.amount * m
        BY <1>1, <1>10, <1>12, <3>2
      <4>2. stake.x * FullRate \in Nat /\ stake.amount * q.multiplier \in Nat
        BY <1>1, <1>2, <1>10, ProductType
      <4> QED BY <2>1, <3>1, <4>1, <4>2
    <3>5. y * FullRate <= stake.amount * m
      <4>1. stake.amount * M <= stake.amount * m
        BY <1>1, <1>12, <3>3
      <4>2. y * FullRate \in Nat /\ stake.amount * M \in Nat
        BY <1>1, <1>2, <1>4, ProductType
      <4> QED BY <1>4, <2>1, <4>1, <4>2
    <3> QED BY <2>3, <3>4, <3>5 DEF Most
  <2> QED BY <2>2, <2>3
<1>14. (x + z) * FullRate <= (stake.amount + amount) * w.multiplier
  BY <1>8, <1>11, <1>12, <1>13
<1> HIDE DEF z
<1>15. /\ Staked(stake, amount, duration).amount = stake.amount + amount
       /\ Staked(stake, amount, duration).x = x + z
  BY <1>5
<1> QED BY <1>7, <1>14, <1>15 DEF Bounded

-----------------------------------------------------------------------------
\* A deposit leaves an asset, and a withdrawal of what the pool has.
LEMMA SavedType ==
  ASSUME NEW as \in AssetType
  PROVE  /\ \A amount \in Nat : Deposited(as, amount) \in AssetType
         /\ \A move : /\ move.shares \in Nat /\ move.amount \in Nat
                      /\ CanWithdraw(as.supplied, move.shares, move.amount)
                      => Withdrawn(as, move) \in AssetType
<1>1. as.supplied \in PoolType /\ as.reserved \in Nat
  BY DEF AssetType
<1>2. ASSUME NEW pool \in PoolType
      PROVE  Normalized([as EXCEPT !.supplied = pool]) \in AssetType
  <2> DEFINE new == [as EXCEPT !.supplied = pool]
             sum == new.reserved + new.supplied.balance
  <2>1. new \in AssetType
    BY DEF AssetType
  <2>2. new.supplied.balance \in Nat /\ new.reserved \in Nat
    BY <2>1 DEF AssetType, PoolType
  <2>3. EmptyPool \in PoolType
    BY DEF PoolType, EmptyPool
  <2>4. Normalized(new) = IF new.supplied.shares = 0
                          THEN [new EXCEPT !.reserved = sum, !.supplied = EmptyPool]
                          ELSE new
    BY DEF Normalized
  <2> HIDE DEF new
  <2>5. sum \in Nat
    BY <2>2
  <2> HIDE DEF sum
  <2>6. [new EXCEPT !.reserved = sum, !.supplied = EmptyPool] \in AssetType
    BY <2>1, <2>3, <2>5 DEF AssetType
  <2>7. Normalized(new) \in AssetType
    BY <2>1, <2>4, <2>6
  <2> QED BY <2>7 DEF new
<1>3. ASSUME NEW amount \in Nat
      PROVE  Deposited(as, amount) \in AssetType
  <2> DEFINE pool == PoolDeposit(as.supplied, AmountToShares(as.supplied, amount, FALSE), amount)
  <2>1. AmountToShares(as.supplied, amount, FALSE) \in Nat
    BY <1>1, AmountToSharesType
  <2>2. pool \in PoolType
    BY <1>1, <2>1, PoolOperations
  <2>3. Deposited(as, amount) = Normalized([as EXCEPT !.supplied = pool])
    BY DEF Deposited
  <2> HIDE DEF pool
  <2> QED BY <1>2, <2>2, <2>3
<1>4. ASSUME NEW move, move.shares \in Nat, move.amount \in Nat,
             CanWithdraw(as.supplied, move.shares, move.amount)
      PROVE  Withdrawn(as, move) \in AssetType
  <2> DEFINE pool == PoolWithdraw(as.supplied, move.shares, move.amount)
  <2>1. pool \in PoolType
    BY <1>1, <1>4, PoolOperations
  <2>2. Withdrawn(as, move) = Normalized([as EXCEPT !.supplied = pool])
    BY DEF Withdrawn
  <2> HIDE DEF pool
  <2> QED BY <1>2, <2>1, <2>2
<1> QED BY <1>3, <1>4

\* A farm has at least the boosted shares of each account.
LEMMA BoostedBound ==
  ASSUME Inv, NEW a \in Accounts, NEW f \in Tokens, NEW r \in Tokens
  PROVE  entry[a][f].boosted[r] \in Nat /\ entry[a][f].boosted[r] <= reward[f][r].boosted
<1> DEFINE g == [b \in Accounts |-> entry[b][f].boosted[r]]
<1>1. \A b \in Accounts : g[b] \in Nat
  BY DEF Inv, TypeOK, EntryType
<1>2. DOMAIN g = Accounts /\ g[a] = entry[a][f].boosted[r]
  OBVIOUS
<1>3. reward[f][r].boosted = SumFunction(g)
  BY DEF Inv, BoostedSharesAddUp
<1> HIDE DEF g
<1>4. g[a] <= SumFunctionOnSet(g, Accounts)
  BY <1>1, FarmSets, SumBound
<1> QED BY <1>1, <1>2, <1>3, <1>4 DEF SumFunction

\* A recount replaces the account's boosted shares in the farm's total by its
\* new ones; what it drops leaves the total, and what it has no record of was
\* never in it.
LEMMA Recounted ==
  ASSUME Inv, NEW a \in Accounts, NEW f \in Tokens,
         supplied'[a][f] \in Nat, staking'[a].x \in Nat,
         Active(f) \subseteq Claimed(a, f).rewards
  PROVE  /\ RecountedEntry(a, f) \in EntryType
         /\ RecountedEntry(a, f).at <= now
         /\ RecountedEntry(a, f).rewards \subseteq Active(f)
         /\ RecountedEntry(a, f) # NoEntry => Counted(a, f) # 0
         /\ \A r \in Tokens :
               /\ RecountedReward(a, f, r) \in RewardType
               /\ RecountedReward(a, f, r).boosted
                    = reward[f][r].boosted - entry[a][f].boosted[r]
                      + RecountedEntry(a, f).boosted[r]
               /\ RecountedReward(a, f, r).status = Updated(f, r).status
               /\ RecountedReward(a, f, r).per_share = Updated(f, r).per_share
               /\ IF r \in RecountedEntry(a, f).rewards
                  THEN RecountedEntry(a, f).last[r] <= Updated(f, r).per_share
                  ELSE RecountedEntry(a, f).boosted[r] = 0
<1> DEFINE old == entry[a][f]
           c   == Claimed(a, f)
           e   == RecountedEntry(a, f)
           b   == [r \in Tokens |-> IF r \in Active(f)
                       THEN BoostedShares(Counted(a, f), staking'[a].x) ELSE c.boosted[r]]
<1>1. /\ c \in EntryType /\ c.at = now /\ c.rewards = Active(f)
      /\ \A r \in Tokens :
            /\ r \in c.rewards => c.last[r] <= Updated(f, r).per_share
            /\ c.boosted[r] = IF r \in Active(f) THEN old.boosted[r] ELSE 0
  BY ClaimedType
<1>2. now \in Nat /\ Active(f) \subseteq Tokens
  BY DEF Inv, TypeOK, Active
<1>3. /\ NoEntry \in EntryType /\ NoEntry.at = 0 /\ NoEntry.rewards = {}
      /\ \A r \in Tokens : NoEntry.boosted[r] = 0
  BY DEF NoEntry, Zeros, EntryType
<1>4. Counted(a, f) \in Nat
  BY DEF Counted
<1>5. BoostedShares(Counted(a, f), staking'[a].x) \in Nat
  BY <1>4, BoostedSharesType
<1>6. /\ e \in EntryType /\ e.at <= now /\ e.rewards \subseteq Active(f)
      /\ e # NoEntry => Counted(a, f) # 0
      /\ \A r \in Tokens : IF r \in e.rewards
                           THEN e.last[r] <= Updated(f, r).per_share
                           ELSE e.boosted[r] = 0
  <2>1. CASE Counted(a, f) = 0
    <3>1. e = NoEntry
      BY <2>1 DEF RecountedEntry
    <3> HIDE DEF e
    <3> QED BY <1>2, <1>3, <2>1, <3>1
  <2>2. CASE Counted(a, f) # 0
    <3>1. c.boosted \in [Tokens -> Nat]
      BY <1>1 DEF EntryType
    <3>2. b \in [Tokens -> Nat]
      BY <1>5, <3>1
    <3>3. e = [c EXCEPT !.boosted = b]
      BY <2>2, <1>1 DEF RecountedEntry, EntryType
    <3>4. \A r \in Tokens : r \notin Active(f) => b[r] = 0
      BY <1>1
    <3> HIDE DEF b, c, e
    <3>5. /\ e \in EntryType /\ e.at = c.at /\ e.rewards = c.rewards
          /\ e.last = c.last /\ e.boosted = b
      BY <1>1, <3>2, <3>3 DEF EntryType
    <3> QED BY <1>1, <1>2, <2>2, <3>4, <3>5
  <2> QED BY <2>1, <2>2
<1>7. ASSUME NEW r \in Tokens
      PROVE  /\ RecountedReward(a, f, r) \in RewardType
             /\ RecountedReward(a, f, r).boosted
                  = reward[f][r].boosted - old.boosted[r] + e.boosted[r]
             /\ RecountedReward(a, f, r).status = Updated(f, r).status
             /\ RecountedReward(a, f, r).per_share = Updated(f, r).per_share
  <2> DEFINE u == Updated(f, r)
             n == IF r \in Active(f) THEN u.boosted - c.boosted[r] + e.boosted[r]
                  ELSE IF r \in Dropped(a, f) THEN u.boosted - old.boosted[r] ELSE u.boosted
  <2>1. u \in RewardType /\ u.boosted = reward[f][r].boosted
    BY UpdatedType
  <2>2. old.boosted[r] \in Nat /\ old.boosted[r] <= reward[f][r].boosted
    BY BoostedBound
  <2>3. reward[f][r].boosted \in Nat
    BY DEF Inv, TypeOK, RewardType
  <2>4. e.boosted[r] \in Nat
    BY <1>6 DEF EntryType
  <2>5. n = reward[f][r].boosted - old.boosted[r] + e.boosted[r]
    <3>1. CASE r \in Active(f)
      BY <1>1, <2>1, <3>1
    <3>2. CASE r \notin Active(f)
      <4>1. e.boosted[r] = 0
        BY <1>6, <3>2
      <4>2. CASE r \in Dropped(a, f)
        BY <2>1, <2>2, <2>3, <3>2, <4>1, <4>2
      <4>3. CASE r \notin Dropped(a, f)
        <5>1. r \notin old.rewards
          BY <3>2, <4>3 DEF Dropped, Inv, RecordsKept
        <5>2. old.boosted[r] = 0
          BY <5>1 DEF Inv, RecordsKept
        <5> QED BY <2>1, <2>3, <3>2, <4>1, <4>3, <5>2
      <4> QED BY <4>2, <4>3
    <3> QED BY <3>1, <3>2
  <2>6. n \in Nat
    BY <2>2, <2>3, <2>4, <2>5
  <2>7. RecountedReward(a, f, r) = [u EXCEPT !.boosted = n]
    BY <2>1 DEF RecountedReward, RewardType
  <2> HIDE DEF u, n, e, old
  <2>8. /\ RecountedReward(a, f, r) \in RewardType /\ RecountedReward(a, f, r).boosted = n
        /\ RecountedReward(a, f, r).status = u.status
        /\ RecountedReward(a, f, r).per_share = u.per_share
    BY <2>1, <2>6, <2>7 DEF RewardType
  <2> QED BY <2>5, <2>8 DEF u
<1> QED BY <1>6, <1>7

-----------------------------------------------------------------------------
\* What Recounted says of a farm and an account, of the next state.
Renewed(a, f) ==
    /\ entry'[a][f] \in EntryType
    /\ entry'[a][f].at <= now
    /\ entry'[a][f].rewards \subseteq Active(f)
    /\ entry'[a][f] # NoEntry => a \notin barred' /\ supplied'[a][f] > 0
    /\ farmAt'[f] = now
    /\ \A r \in Tokens :
          /\ reward'[f][r] \in RewardType
          /\ reward'[f][r].boosted
               = reward[f][r].boosted - entry[a][f].boosted[r] + entry'[a][f].boosted[r]
          /\ reward'[f][r].status = Updated(f, r).status
          /\ reward'[f][r].per_share = Updated(f, r).per_share
          /\ IF r \in entry'[a][f].rewards
             THEN entry'[a][f].last[r] <= reward'[f][r].per_share
             ELSE entry'[a][f].boosted[r] = 0

\* Applying the affected farms renews the entry in each farm that is touched,
\* leaves the other farms alone, and adds to the supply that the handler left.
LEMMA Applied ==
  ASSUME Inv, NEW a \in Accounts, NEW touched \in SUBSET Tokens,
         NEW assets \in [Tokens -> AssetType], NEW held \in [Tokens -> Nat],
         NEW stake \in StakeType, Bounded(stake),
         ApplyFarms(a, touched, assets, held, stake)
  PROVE  /\ asset' \in [Tokens -> AssetType]
         /\ supplied' \in [Accounts -> [Tokens -> Nat]]
         /\ \A t \in Tokens : held[t] <= supplied'[a][t]
         /\ \A b \in Accounts \ {a} : supplied'[b] = supplied[b] /\ entry'[b] = entry[b]
         /\ staking' = [staking EXCEPT ![a] = Synced(stake)]
         /\ reward' \in [Tokens -> [Tokens -> RewardType]]
         /\ farmAt' \in [Tokens -> Nat]
         /\ entry' \in [Accounts -> [Tokens -> EntryType]]
         /\ \A f \in Tokens : \/ Farming(f) /\ Renewed(a, f)
                              \/ /\ ~ (f \in touched /\ Farming(f))
                                 /\ entry'[a][f] = entry[a][f]
                                 /\ reward'[f] = reward[f]
                                 /\ farmAt'[f] = farmAt[f]
<1> DEFINE farms  == {f \in AffectedFarms(a, touched) : Farming(f)}
           paid(t) == [f \in Tokens |-> IF f \in farms THEN Due(a, f, t) ELSE 0]
           due(t) == SumFunction(paid(t))
<1>1. farms \subseteq Tokens /\ \A f \in farms : Farming(f)
  BY DEF AffectedFarms
<1>2. \A f \in Tokens : f \in touched /\ Farming(f) => f \in farms
  BY DEF AffectedFarms
<1>3. ASSUME NEW t \in Tokens
      PROVE  due(t) \in Nat
  <2>1. \A f \in Tokens : paid(t)[f] \in Nat
    BY <1>3, DueType
  <2>2. DOMAIN paid(t) = Tokens
    OBVIOUS
  <2> DEFINE g == paid(t)
  <2> HIDE DEF paid
  <2>3. SumFunctionOnSet(g, Tokens) \in Nat
    BY <2>1, FarmSets, SumType
  <2> QED BY <2>2, <2>3 DEF SumFunction
<1>4. /\ CanSync(stake)
      /\ \A f \in farms : Active(f) \subseteq Claimed(a, f).rewards
      /\ asset' = [t \in Tokens |->
                      IF due(t) = 0 THEN assets[t] ELSE Deposited(assets[t], due(t))]
      /\ supplied' = [supplied EXCEPT ![a] = [t \in Tokens |->
             held[t] + AmountToShares(assets[t].supplied, due(t), FALSE)]]
      /\ staking' = [staking EXCEPT ![a] = Synced(stake)]
      /\ entry' = [entry EXCEPT ![a] = [f \in Tokens |->
             IF f \in farms THEN RecountedEntry(a, f) ELSE @[f]]]
      /\ reward' = [f \in Tokens |-> [r \in Tokens |->
             IF f \in farms THEN RecountedReward(a, f, r) ELSE reward[f][r]]]
      /\ farmAt' = [f \in Tokens |-> IF f \in farms THEN now ELSE farmAt[f]]
  BY DEF ApplyFarms
<1> HIDE DEF due, farms
<1>5. /\ supplied \in [Accounts -> [Tokens -> Nat]] /\ now \in Nat /\ farmAt \in [Tokens -> Nat]
      /\ entry \in [Accounts -> [Tokens -> EntryType]]
      /\ reward \in [Tokens -> [Tokens -> RewardType]]
      /\ staking \in [Accounts -> StakeType]
  BY DEF Inv, TypeOK
<1>6. asset' \in [Tokens -> AssetType]
  <2>1. \A t \in Tokens : (IF due(t) = 0 THEN assets[t] ELSE Deposited(assets[t], due(t)))
                             \in AssetType
    BY <1>3, SavedType
  <2> QED BY <1>4, <2>1
<1>7. \A t \in Tokens : AmountToShares(assets[t].supplied, due(t), FALSE) \in Nat
  <2> TAKE t \in Tokens
  <2>1. assets[t].supplied \in PoolType
    BY DEF AssetType
  <2> QED BY <1>3, <2>1, AmountToSharesType
<1>8. /\ supplied' \in [Accounts -> [Tokens -> Nat]]
      /\ \A t \in Tokens : held[t] <= supplied'[a][t]
      /\ \A b \in Accounts \ {a} : supplied'[b] = supplied[b]
  <2> DEFINE s(t) == AmountToShares(assets[t].supplied, due(t), FALSE)
             n == [t \in Tokens |-> held[t] + s(t)]
  <2>1. supplied' = [supplied EXCEPT ![a] = n]
    BY <1>4
  <2>2. \A t \in Tokens : s(t) \in Nat
    BY <1>7
  <2> HIDE DEF s
  <2>3. n \in [Tokens -> Nat] /\ \A t \in Tokens : held[t] <= n[t]
    BY <2>2
  <2> HIDE DEF n
  <2> QED BY <1>5, <2>1, <2>3
<1>9. staking'[a].x \in Nat
  <2>1. Synced(stake) \in StakeType
    BY <1>4, SyncedType
  <2>2. staking'[a] = Synced(stake)
    BY <1>4, <1>5
  <2> QED BY <2>1, <2>2 DEF StakeType
<1>10. /\ \A b \in Accounts \ {a} : entry'[b] = entry[b]
       /\ DOMAIN entry' = Accounts /\ entry'[a] \in [Tokens -> {entry'[a][f] : f \in Tokens}]
       /\ \A f \in Tokens : entry'[a][f] = IF f \in farms THEN RecountedEntry(a, f)
                                           ELSE entry[a][f]
  BY <1>4, <1>5
<1>11. /\ \A f \in Tokens, r \in Tokens :
             reward'[f][r] = IF f \in farms THEN RecountedReward(a, f, r) ELSE reward[f][r]
       /\ \A f \in Tokens \ farms : reward'[f] = reward[f]
       /\ \A f \in Tokens : farmAt'[f] = IF f \in farms THEN now ELSE farmAt[f]
  BY <1>4, <1>5
<1>12. ASSUME NEW f \in farms
       PROVE  Renewed(a, f)
  <2>1. f \in Tokens /\ supplied'[a][f] \in Nat /\ Active(f) \subseteq Claimed(a, f).rewards
    BY <1>1, <1>4, <1>8
  <2>2. entry'[a][f] = RecountedEntry(a, f) /\ farmAt'[f] = now
    BY <1>10, <1>11, <2>1
  <2>3. \A r \in Tokens : reward'[f][r] = RecountedReward(a, f, r)
    BY <1>11, <2>1
  <2>4. entry'[a][f] # NoEntry => a \notin barred' /\ supplied'[a][f] > 0
    BY <1>9, <2>1, <2>2, Recounted DEF Counted
  <2>5. /\ entry'[a][f] \in EntryType /\ entry'[a][f].at <= now
        /\ entry'[a][f].rewards \subseteq Active(f)
    BY <1>9, <2>1, <2>2, Recounted
  <2>6. \A r \in Tokens :
          /\ reward'[f][r] \in RewardType
          /\ reward'[f][r].boosted
               = reward[f][r].boosted - entry[a][f].boosted[r] + entry'[a][f].boosted[r]
          /\ reward'[f][r].status = Updated(f, r).status
          /\ reward'[f][r].per_share = Updated(f, r).per_share
          /\ IF r \in entry'[a][f].rewards
             THEN entry'[a][f].last[r] <= reward'[f][r].per_share
             ELSE entry'[a][f].boosted[r] = 0
    BY <1>9, <2>1, <2>2, <2>3, Recounted
  <2> QED BY <2>2, <2>4, <2>5, <2>6 DEF Renewed
<1>13. \A f \in Tokens : entry'[a][f] \in EntryType
  BY <1>5, <1>10, <1>12 DEF Renewed
<1>14. entry' \in [Accounts -> [Tokens -> EntryType]]
  <2> DEFINE n == [f \in Tokens |-> IF f \in farms THEN RecountedEntry(a, f) ELSE entry[a][f]]
  <2>1. entry' = [entry EXCEPT ![a] = n]
    BY <1>4, <1>5
  <2>2. \A f \in Tokens : n[f] = entry'[a][f]
    BY <1>10
  <2>3. n \in [Tokens -> EntryType]
    BY <1>13, <2>2
  <2> HIDE DEF n
  <2> QED BY <1>5, <2>1, <2>3
<1>15. reward' \in [Tokens -> [Tokens -> RewardType]]
  <2> DEFINE n(f, r) == IF f \in farms THEN RecountedReward(a, f, r) ELSE reward[f][r]
  <2>1. reward' = [f \in Tokens |-> [r \in Tokens |-> n(f, r)]]
    BY <1>4
  <2>2. ASSUME NEW f \in Tokens, NEW r \in Tokens
        PROVE  n(f, r) \in RewardType
    <3>1. n(f, r) = reward'[f][r]
      BY <1>11
    <3>2. CASE f \in farms
      BY <1>12, <3>1, <3>2 DEF Renewed
    <3>3. CASE f \notin farms
      BY <1>5, <3>3
    <3> QED BY <3>2, <3>3
  <2> HIDE DEF n
  <2> QED BY <2>1, <2>2
<1>16. farmAt' \in [Tokens -> Nat]
  BY <1>4, <1>5
<1>17. ASSUME NEW f \in Tokens
       PROVE  \/ Farming(f) /\ Renewed(a, f)
              \/ /\ ~ (f \in touched /\ Farming(f))
                 /\ entry'[a][f] = entry[a][f]
                 /\ reward'[f] = reward[f]
                 /\ farmAt'[f] = farmAt[f]
  <2>1. CASE f \in farms
    BY <1>1, <1>12, <2>1
  <2>2. CASE f \notin farms
    BY <1>2, <1>10, <1>11, <2>2
  <2> QED BY <2>1, <2>2
<1> QED BY <1>4, <1>6, <1>8, <1>10, <1>14, <1>15, <1>16, <1>17

\* The active rewards of a farm stay the same within a block, whether the farm
\* is updated or not.
LEMMA ActiveSame ==
  ASSUME Inv, NEW a \in Accounts, NEW f \in Tokens, now' = now,
         Renewed(a, f) \/ (reward'[f] = reward[f] /\ farmAt'[f] = farmAt[f])
  PROVE  /\ Active(f)' = Active(f)
         /\ Farming(f) => Farming(f)'
<1>1. CASE Renewed(a, f)
  <2>1. farmAt'[f] = now
    BY <1>1 DEF Renewed
  <2>2. \A r \in Tokens : Updated(f, r)' = reward'[f][r]
    BY <2>1 DEF Updated
  <2>3. \A r \in Tokens : reward'[f][r].status = Updated(f, r).status
    BY <1>1 DEF Renewed
  <2>4. Active(f)' = Active(f)
    BY <2>2, <2>3 DEF Active
  <2>5. \A r \in Tokens : reward[f][r].status # "none" => reward'[f][r].status # "none"
    BY <2>3, UpdatedType
  <2> QED BY <2>4, <2>5 DEF Farming
<1>2. CASE reward'[f] = reward[f] /\ farmAt'[f] = farmAt[f]
  <2>1. \A r \in Tokens : Updated(f, r)' = Updated(f, r)
    BY <1>2 DEF Updated, Acquired
  <2> QED BY <1>2, <2>1 DEF Active, Farming
<1> QED BY <1>1, <1>2

\* SumChange for a table of accounts.
LEMMA EntriesSum ==
  ASSUME NEW g, NEW h, NEW a \in Accounts,
         \A b \in Accounts : g[b] \in Nat /\ h[b] \in Nat,
         \A b \in Accounts \ {a} : g[b] = h[b]
  PROVE  SumFunctionOnSet(h, Accounts) = SumFunctionOnSet(g, Accounts) - g[a] + h[a]
BY FarmSets, SumChange

\* Each handler ends by applying the affected farms, and that keeps the
\* invariant: what the handler did to the supply is made good in the farms it
\* touched, and so is a new place on the blacklist.
LEMMA AppliedInv ==
  ASSUME Inv, NEW a \in Accounts, NEW touched \in SUBSET Tokens,
         NEW assets \in [Tokens -> AssetType], NEW held \in [Tokens -> Nat],
         NEW stake \in StakeType, Bounded(stake),
         ApplyFarms(a, touched, assets, held, stake),
         \A f \in Tokens \ touched : held[f] = supplied[a][f],
         now' = now,
         barred' \subseteq Accounts, barred' \ {a} \subseteq barred,
         a \in barred' => a \in barred \/ PotentialFarms(supplied[a]) \subseteq touched,
         legacy' \in [Accounts -> Nat], booster' \in InfoType, RulesHold',
         transfer' \in [Slots -> TransferType \cup {NoTransfer}],
         cash' \in [Tokens -> Nat], wallet' \in [Accounts -> [Tokens -> Nat]]
  PROVE  Inv'
<1>1. /\ asset' \in [Tokens -> AssetType]
      /\ supplied' \in [Accounts -> [Tokens -> Nat]]
      /\ \A t \in Tokens : held[t] <= supplied'[a][t]
      /\ \A b \in Accounts \ {a} : supplied'[b] = supplied[b] /\ entry'[b] = entry[b]
      /\ staking' = [staking EXCEPT ![a] = Synced(stake)]
      /\ reward' \in [Tokens -> [Tokens -> RewardType]]
      /\ farmAt' \in [Tokens -> Nat]
      /\ entry' \in [Accounts -> [Tokens -> EntryType]]
  BY Applied
<1>2. \A f \in Tokens : \/ Farming(f) /\ Renewed(a, f)
                        \/ /\ ~ (f \in touched /\ Farming(f))
                           /\ entry'[a][f] = entry[a][f]
                           /\ reward'[f] = reward[f]
                           /\ farmAt'[f] = farmAt[f]
  BY Applied
<1>3. ASSUME NEW f \in Tokens
      PROVE  /\ Active(f)' = Active(f)
             /\ Farming(f) => Farming(f)'
  <2>1. Renewed(a, f) \/ (reward'[f] = reward[f] /\ farmAt'[f] = farmAt[f])
    BY <1>2
  <2> QED BY <2>1, ActiveSame
<1>4. /\ supplied \in [Accounts -> [Tokens -> Nat]] /\ now \in Nat /\ farmAt \in [Tokens -> Nat]
      /\ entry \in [Accounts -> [Tokens -> EntryType]]
      /\ reward \in [Tokens -> [Tokens -> RewardType]]
      /\ staking \in [Accounts -> StakeType]
  BY DEF Inv, TypeOK
<1>5. Synced(stake) \in StakeType /\ Bounded(Synced(stake))
  <2>1. CanSync(stake)
    BY DEF ApplyFarms
  <2> QED BY <2>1, SyncedType
<1>6. TypeOK'
  <2>1. staking' \in [Accounts -> StakeType]
    BY <1>1, <1>4, <1>5
  <2> QED BY <1>1, <1>4, <2>1 DEF TypeOK, AssetType
<1>7. XBoosterBounded'
  <2>1. \A b \in Accounts : Bounded(staking'[b])
    BY <1>1, <1>4, <1>5 DEF Bounded, Inv, XBoosterBounded
  <2> QED BY <2>1 DEF XBoosterBounded, Bounded
<1>8. BoostedSharesAddUp'
  <2> SUFFICES ASSUME NEW f \in Tokens, NEW r \in Tokens
               PROVE  reward'[f][r].boosted
                        = SumFunction([b \in Accounts |-> entry'[b][f].boosted[r]])
    BY DEF BoostedSharesAddUp
  <2> DEFINE g == [b \in Accounts |-> entry[b][f].boosted[r]]
             h == [b \in Accounts |-> entry'[b][f].boosted[r]]
  <2>1. \A b \in Accounts : g[b] \in Nat /\ h[b] \in Nat
    BY <1>1, <1>4 DEF EntryType
  <2>2. \A b \in Accounts \ {a} : g[b] = h[b]
    BY <1>1
  <2>3. g[a] = entry[a][f].boosted[r] /\ h[a] = entry'[a][f].boosted[r]
    OBVIOUS
  <2>4. SumFunction(g) = SumFunctionOnSet(g, Accounts) /\ SumFunction(h) = SumFunctionOnSet(h, Accounts)
    BY DEF SumFunction
  <2>5. reward[f][r].boosted = SumFunction(g)
    BY DEF Inv, BoostedSharesAddUp
  <2>6. reward'[f][r].boosted = reward[f][r].boosted - g[a] + h[a]
    <3>1. CASE Renewed(a, f)
      BY <2>3, <3>1 DEF Renewed
    <3>2. CASE entry'[a][f] = entry[a][f] /\ reward'[f] = reward[f]
      <4>1. reward[f][r].boosted \in Nat
        BY <1>4 DEF RewardType
      <4> QED BY <2>1, <2>3, <3>2, <4>1
    <3> QED BY <1>2, <3>1, <3>2
  <2> HIDE DEF g, h
  <2>7. SumFunctionOnSet(h, Accounts) = SumFunctionOnSet(g, Accounts) - g[a] + h[a]
    BY <2>1, <2>2, EntriesSum
  <2>8. reward'[f][r].boosted = SumFunction(h)
    BY <2>4, <2>5, <2>6, <2>7
  <2> QED BY <2>8 DEF h
<1>9. BarredFarmNothing'
  <2> SUFFICES ASSUME NEW b \in barred', NEW f \in Tokens
               PROVE  entry'[b][f] = NoEntry
    BY DEF BarredFarmNothing
  <2>1. CASE b # a
    <3>1. b \in Accounts \ {a} /\ b \in barred
      BY <2>1
    <3>2. entry[b][f] = NoEntry
      BY <3>1 DEF Inv, BarredFarmNothing
    <3> QED BY <1>1, <3>1, <3>2
  <2>2. CASE b = a /\ Renewed(a, f)
    BY <2>2 DEF Renewed
  <2>3. CASE b = a /\ entry'[a][f] = entry[a][f] /\ ~ (f \in touched /\ Farming(f))
    <3>1. CASE a \in barred
      BY <2>3, <3>1 DEF Inv, BarredFarmNothing
    <3>2. CASE a \notin barred
      <4>1. PotentialFarms(supplied[a]) \subseteq touched
        BY <2>3, <3>2
      <4>2. entry[a][f] # NoEntry => supplied[a][f] > 0 /\ Farming(f)
        BY DEF Inv, SuppliersOnly
      <4> QED BY <2>3, <4>1, <4>2 DEF PotentialFarms
    <3> QED BY <3>1, <3>2
  <2> QED BY <1>2, <2>1, <2>2, <2>3
<1>10. RecordsKept'
  <2> SUFFICES ASSUME NEW b \in Accounts, NEW f \in Tokens
               PROVE  /\ entry'[b][f].at <= now
                      /\ entry'[b][f].at = now => entry'[b][f].rewards \subseteq Active(f)
                      /\ \A r \in Tokens :
                            IF r \in entry'[b][f].rewards
                            THEN entry'[b][f].last[r] <= reward'[f][r].per_share
                            ELSE entry'[b][f].boosted[r] = 0
    BY <1>3 DEF RecordsKept
  <2>1. CASE b = a /\ Renewed(a, f)
    BY <2>1 DEF Renewed
  <2>2. CASE entry'[b][f] = entry[b][f]
    <3>1. \A r \in Tokens : /\ reward[f][r].per_share \in Nat /\ reward'[f][r].per_share \in Nat
                            /\ reward[f][r].per_share <= reward'[f][r].per_share
      <4>1. \A r \in Tokens : reward[f][r].per_share \in Nat /\ reward'[f][r].per_share \in Nat
        BY <1>1, <1>4 DEF RewardType
      <4>2. CASE Renewed(a, f)
        BY <4>1, <4>2, UpdatedType DEF Renewed
      <4>3. CASE reward'[f] = reward[f]
        BY <4>1, <4>3
      <4> QED BY <1>2, <4>2, <4>3, <4>1
    <3>2. \A r \in Tokens : entry[b][f].last[r] \in Nat
      BY <1>4 DEF EntryType
    <3>3. /\ entry[b][f].at <= now
          /\ entry[b][f].at = now => entry[b][f].rewards \subseteq Active(f)
          /\ \A r \in Tokens :
                IF r \in entry[b][f].rewards
                THEN entry[b][f].last[r] <= reward[f][r].per_share
                ELSE entry[b][f].boosted[r] = 0
      BY DEF Inv, RecordsKept
    <3> QED BY <2>2, <3>1, <3>2, <3>3
  <2> QED BY <1>1, <1>2, <2>1, <2>2
<1>11. SuppliersOnly'
  <2> SUFFICES ASSUME NEW b \in Accounts, NEW f \in Tokens, entry'[b][f] # NoEntry
               PROVE  supplied'[b][f] > 0 /\ Farming(f)'
    BY DEF SuppliersOnly
  <2>1. entry[b][f] # NoEntry => supplied[b][f] > 0 /\ Farming(f)
    BY DEF Inv, SuppliersOnly
  <2>2. CASE b # a
    BY <1>1, <1>3, <2>1, <2>2
  <2>3. CASE b = a /\ Farming(f) /\ Renewed(a, f)
    BY <1>3, <2>3 DEF Renewed
  <2>4. CASE b = a /\ entry'[a][f] = entry[a][f] /\ ~ (f \in touched /\ Farming(f))
    <3>1. supplied[a][f] > 0 /\ Farming(f) /\ f \notin touched
      BY <2>1, <2>4
    <3>2. held[f] = supplied[a][f] /\ held[f] <= supplied'[a][f]
      BY <1>1, <3>1
    <3>3. supplied[a][f] \in Nat /\ supplied'[a][f] \in Nat
      BY <1>1, <1>4
    <3> QED BY <1>3, <2>4, <3>1, <3>2, <3>3
  <2> QED BY <1>2, <2>2, <2>3, <2>4
<1>12. ClocksRun'
  <2> SUFFICES ASSUME NEW f \in Tokens
               PROVE  farmAt'[f] <= now
    BY DEF ClocksRun
  <2>1. farmAt'[f] = now \/ farmAt'[f] = farmAt[f]
    BY <1>2 DEF Renewed
  <2>2. farmAt[f] <= now
    BY DEF Inv, ClocksRun
  <2> QED BY <1>4, <2>1, <2>2
<1> QED BY <1>6, <1>7, <1>8, <1>9, <1>10, <1>11, <1>12 DEF Inv

-----------------------------------------------------------------------------
\* What the handlers find.
LEMMA Found ==
  ASSUME Inv
  PROVE  /\ asset \in [Tokens -> AssetType]
         /\ supplied \in [Accounts -> [Tokens -> Nat]]
         /\ \A a \in Accounts : staking[a] \in StakeType /\ Bounded(staking[a])
         /\ \A a \in Accounts : PotentialFarms(supplied[a]) \subseteq Tokens
         /\ \A held : StakeFarms(held) \subseteq Tokens
         /\ staking \in [Accounts -> StakeType] /\ legacy \in [Accounts -> Nat]
         /\ booster \in InfoType /\ RulesHold /\ barred \subseteq Accounts
         /\ transfer \in [Slots -> TransferType \cup {NoTransfer}]
         /\ cash \in [Tokens -> Nat] /\ wallet \in [Accounts -> [Tokens -> Nat]]
         /\ now \in Nat /\ Booster \in Tokens
<1>1. Booster \in Tokens
  BY FarmSets
<1>2. \A a \in Accounts : Bounded(staking[a])
  BY DEF Inv, XBoosterBounded, Bounded
<1> QED BY <1>1, <1>2 DEF Inv, TypeOK, AssetType, PotentialFarms, StakeFarms

\* A deposit ends with the farms of its token brought up to date.
LEMMA DepositInv ==
  ASSUME Inv, NEW a \in Accounts, NEW t \in Tokens, NEW n \in Nat, Deposit(a, t, n)
  PROVE  Inv'
<1> DEFINE shares == AmountToShares(asset[t].supplied, n, FALSE)
           assets == [asset EXCEPT ![t] = Deposited(asset[t], n)]
           held   == [supplied[a] EXCEPT ![t] = @ + shares]
<1>1. asset[t] \in AssetType /\ asset[t].supplied \in PoolType
  BY Found DEF AssetType
<1>2. shares \in Nat /\ Deposited(asset[t], n) \in AssetType
  BY <1>1, AmountToSharesType, SavedType
<1>3. /\ n <= wallet[a][t]
      /\ wallet' = [wallet EXCEPT ![a][t] = @ - n] /\ cash' = [cash EXCEPT ![t] = @ + n]
      /\ UNCHANGED <<legacy, booster, barred, transfer, now>>
      /\ ApplyFarms(a, {t}, assets, held, staking[a])
  BY DEF Deposit
<1> HIDE DEF shares
<1>4. assets \in [Tokens -> AssetType] /\ held \in [Tokens -> Nat]
  BY <1>2, Found
<1>5. \A f \in Tokens \ {t} : held[f] = supplied[a][f]
  BY Found
<1>6. wallet' \in [Accounts -> [Tokens -> Nat]] /\ cash' \in [Tokens -> Nat]
  <2>1. wallet[a][t] - n \in Nat /\ cash[t] + n \in Nat
    BY <1>3, Found
  <2> QED BY <1>3, <2>1, Found
<1>7. RulesHold' /\ legacy' = legacy /\ booster' = booster /\ barred' = barred
      /\ transfer' = transfer /\ now' = now
  BY <1>3, Found DEF RulesHold
<1> DEFINE touched == {t}
<1>8. touched \in SUBSET Tokens /\ \A f \in Tokens \ touched : held[f] = supplied[a][f]
  BY <1>5
<1>9. ApplyFarms(a, touched, assets, held, staking[a])
  BY <1>3
<1> HIDE DEF assets, held, touched
<1>10. /\ staking[a] \in StakeType /\ Bounded(staking[a])
       /\ barred' \subseteq Accounts /\ barred' \ {a} \subseteq barred
       /\ a \in barred' => a \in barred
       /\ legacy' \in [Accounts -> Nat] /\ booster' \in InfoType
       /\ transfer' \in [Slots -> TransferType \cup {NoTransfer}]
       /\ cash' \in [Tokens -> Nat] /\ wallet' \in [Accounts -> [Tokens -> Nat]]
  BY <1>6, <1>7, Found
<1> QED BY <1>4, <1>5, <1>7, <1>8, <1>9, <1>10, AppliedInv

\* So does a claim of every farm.
LEMMA ClaimAllInv ==
  ASSUME Inv, NEW a \in Accounts,
         \/ ClaimAll(a)
         \/ ExtendBlacklist(a)
         \/ RemoveFromBlacklist(a)
  PROVE  Inv'
<1> DEFINE touched == PotentialFarms(supplied[a])
<1>1. /\ UNCHANGED <<legacy, booster, outside, now>>
      /\ barred' \in {barred, barred \cup {a}, barred \ {a}}
      /\ ApplyFarms(a, touched, asset, supplied[a], staking[a])
  BY DEF ClaimAll, ExtendBlacklist, RemoveFromBlacklist
<1>2. /\ barred' \subseteq Accounts /\ barred' \ {a} \subseteq barred
      /\ RulesHold' /\ legacy' = legacy /\ booster' = booster /\ now' = now
      /\ transfer' = transfer /\ cash' = cash /\ wallet' = wallet
  BY <1>1, Found DEF RulesHold, outside
<1> HIDE DEF touched
<1>3. touched \in SUBSET Tokens /\ supplied[a] \in [Tokens -> Nat]
      /\ PotentialFarms(supplied[a]) \subseteq touched
  BY Found DEF touched
<1> QED BY <1>1, <1>2, <1>3, Found, AppliedInv

\* What a withdrawal or a stake takes out of the pool is part of it.
LEMMA TakenType ==
  ASSUME Inv, NEW t \in Tokens, NEW move, move.shares \in Nat, move.amount \in Nat,
         CanWithdraw(asset[t].supplied, move.shares, move.amount)
  PROVE  [asset EXCEPT ![t] = Withdrawn(@, move)] \in [Tokens -> AssetType]
<1>1. asset[t] \in AssetType
  BY Found
<1>2. Withdrawn(asset[t], move) \in AssetType
  BY <1>1, SavedType
<1> QED BY <1>2, Found

\* A withdrawal counts the supply that is left at once.
LEMMA WithdrawInv ==
  ASSUME Inv, NEW a \in Accounts, NEW t \in Tokens, NEW s \in Slots, NEW amounts \in SUBSET Nat,
         NEW req \in RequestsOver(amounts), Withdraw(s, a, t, req)
  PROVE  Inv'
<1> DEFINE pool   == asset[t].supplied
           move   == AssetAmountToShares(pool, supplied[a][t], req, FALSE)
           assets == [asset EXCEPT ![t] = Withdrawn(@, move)]
           held   == [supplied[a] EXCEPT ![t] = @ - move.shares]
<1>1. /\ move.shares <= supplied[a][t] /\ CanWithdraw(pool, move.shares, move.amount)
      /\ transfer' = [transfer EXCEPT ![s] = [account |-> a, token |-> t, amount |-> move.amount]]
      /\ UNCHANGED <<legacy, booster, barred, cash, wallet, now>>
      /\ ApplyFarms(a, {t}, assets, held, staking[a])
  BY DEF Withdraw, Start
<1>2. pool \in PoolType /\ supplied[a][t] \in Nat
  BY Found DEF AssetType
<1>3. move.shares \in Nat /\ move.amount \in Nat
  <2>1. req.kind # "amount" => Convertible(pool, move.shares)
    BY <1>1 DEF CanWithdraw, Convertible
  <2> HIDE DEF pool
  <2> QED BY <1>2, <2>1, MoveType
<1> HIDE DEF move
<1>4. assets \in [Tokens -> AssetType]
  BY <1>1, <1>3, TakenType
<1>5. held \in [Tokens -> Nat] /\ \A f \in Tokens \ {t} : held[f] = supplied[a][f]
  <2>1. supplied[a][t] - move.shares \in Nat
    BY <1>1, <1>2, <1>3
  <2> QED BY <2>1, Found
<1>6. transfer' \in [Slots -> TransferType \cup {NoTransfer}]
  BY <1>1, <1>3, Found DEF TransferType
<1>7. RulesHold' /\ legacy' = legacy /\ booster' = booster /\ barred' = barred
      /\ cash' = cash /\ wallet' = wallet /\ now' = now
  BY <1>1, Found DEF RulesHold
<1> DEFINE touched == {t}
<1>8. touched \in SUBSET Tokens /\ \A f \in Tokens \ touched : held[f] = supplied[a][f]
  BY <1>5
<1>9. ApplyFarms(a, touched, assets, held, staking[a])
  BY <1>1
<1> HIDE DEF assets, held, touched
<1>10. /\ staking[a] \in StakeType /\ Bounded(staking[a])
       /\ barred' \subseteq Accounts /\ barred' \ {a} \subseteq barred
       /\ a \in barred' => a \in barred
       /\ legacy' \in [Accounts -> Nat] /\ booster' \in InfoType
       /\ transfer' \in [Slots -> TransferType \cup {NoTransfer}]
       /\ cash' \in [Tokens -> Nat] /\ wallet' \in [Accounts -> [Tokens -> Nat]]
  BY <1>6, <1>7, Found
<1> QED BY <1>4, <1>5, <1>7, <1>8, <1>9, <1>10, AppliedInv

-----------------------------------------------------------------------------
\* A stake is counted under the policy of its day.
LEMMA StakeInv ==
  ASSUME Inv, NEW a \in Accounts, NEW duration \in Nat, NEW amounts \in SUBSET Nat,
         NEW req \in RequestsOver(amounts), Stake(a, req, duration)
  PROVE  Inv'
<1> DEFINE pool   == asset[Booster].supplied
           move   == StakeMove(a, req)
           assets == [asset EXCEPT ![Booster] = Withdrawn(@, move)]
           held   == [supplied[a] EXCEPT ![Booster] = @ - move.shares]
           touched == StakeFarms(held)
           synced == Synced(staking[a])
           stake  == Staked(synced, move.amount, duration)
           total  == booster.total + move.amount
<1>1. /\ booster.enabled /\ booster.min <= duration /\ duration <= booster.max
      /\ booster.min < booster.max
      /\ move.shares <= supplied[a][Booster]
      /\ CanWithdraw(pool, move.shares, move.amount)
      /\ CanSync(staking[a])
      /\ booster' = [booster EXCEPT !.total = total]
      /\ UNCHANGED <<legacy, barred, outside, now>>
      /\ ApplyFarms(a, touched, assets, held, stake)
  <2>1. booster.min \in Nat /\ booster.max \in Nat
    BY Found DEF InfoType
  <2> QED BY <2>1 DEF Stake
<1>2. pool \in PoolType /\ supplied[a][Booster] \in Nat /\ pool.shares \in Nat
  BY Found DEF AssetType, PoolType
<1>3. move.shares \in Nat /\ move.amount \in Nat
  <2>1. req.value \in Nat
    BY DEF RequestsOver, Exactly, AtMost, Everything
  <2>2. CASE req.kind = "available"
    <3>1. move.shares = supplied[a][Booster]
          /\ move.amount = SharesToAmount(pool, supplied[a][Booster], FALSE)
      BY <2>2 DEF StakeMove
    <3>2. Convertible(pool, supplied[a][Booster])
      BY <1>1, <3>1 DEF CanWithdraw, Convertible
    <3> HIDE DEF move, pool
    <3> QED BY <1>2, <3>1, <3>2, SharesToAmountType
  <2>3. CASE req.kind # "available"
    <3>1. move.shares = AmountToShares(pool, req.value, TRUE) /\ move.amount = req.value
      BY <2>3 DEF StakeMove
    <3> HIDE DEF move, pool
    <3> QED BY <1>2, <2>1, <3>1, AmountToSharesType
  <2> QED BY <2>2, <2>3
<1> HIDE DEF move
<1>4. assets \in [Tokens -> AssetType]
  BY <1>1, <1>3, Found, TakenType
<1>5. held \in [Tokens -> Nat] /\ \A f \in Tokens \ {Booster} : held[f] = supplied[a][f]
  <2>1. supplied[a][Booster] - move.shares \in Nat
    BY <1>1, <1>2, <1>3
  <2> QED BY <2>1, Found
<1> HIDE DEF held, assets
<1>6. touched \in SUBSET Tokens /\ \A f \in Tokens \ touched : held[f] = supplied[a][f]
  BY <1>5, Found DEF StakeFarms
<1>7. stake \in StakeType /\ Bounded(stake)
  <2>1. staking[a] \in StakeType /\ Bounded(staking[a])
    BY Found
  <2>2. synced \in StakeType /\ Bounded(synced)
    BY <1>1, <2>1, SyncedType
  <2> HIDE DEF synced
  <2> QED BY <1>1, <1>3, <2>2, StakedType
<1> HIDE DEF stake, touched
<1>8. booster' \in InfoType /\ RulesHold'
  <2>1. total \in Nat
    BY <1>3, Found DEF InfoType
  <2> HIDE DEF total
  <2>2. /\ booster' \in InfoType /\ booster'.min = booster.min /\ booster'.max = booster.max
        /\ booster'.multiplier = booster.multiplier /\ booster'.enabled = booster.enabled
    BY <1>1, <2>1, Found DEF InfoType
  <2> QED BY <2>2, Found DEF RulesHold
<1>9. /\ barred' \subseteq Accounts /\ barred' \ {a} \subseteq barred
      /\ a \in barred' => a \in barred
      /\ legacy' \in [Accounts -> Nat] /\ now' = now
      /\ transfer' \in [Slots -> TransferType \cup {NoTransfer}]
      /\ cash' \in [Tokens -> Nat] /\ wallet' \in [Accounts -> [Tokens -> Nat]]
  BY <1>1, Found DEF outside
<1>10. ApplyFarms(a, touched, assets, held, stake)
  BY <1>1
<1> QED BY <1>4, <1>5, <1>6, <1>7, <1>8, <1>9, <1>10, AppliedInv

\* Releasing a stake leaves the rules alone.
LEMMA ReleaseType ==
  ASSUME Inv, NEW amount \in Nat, NEW unlock, Release(amount, unlock)
  PROVE  booster' \in InfoType /\ RulesHold'
<1> DEFINE total == booster.total - amount
<1>1. CASE UNCHANGED booster
  BY <1>1, Found DEF RulesHold
<1>2. CASE amount <= booster.total /\ booster' = [booster EXCEPT !.total = total]
  <2>1. total \in Nat
    BY <1>2, Found DEF InfoType
  <2> HIDE DEF total
  <2>2. /\ booster' \in InfoType /\ booster'.min = booster.min /\ booster'.max = booster.max
        /\ booster'.multiplier = booster.multiplier /\ booster'.enabled = booster.enabled
    BY <1>2, <2>1, Found DEF InfoType
  <2> QED BY <2>2, Found DEF RulesHold
<1> QED BY <1>1, <1>2 DEF Release

\* What is unstaked comes back as supply of the booster token.
LEMMA ResupplyInv ==
  ASSUME Inv, NEW a \in Accounts, NEW amount \in Nat, NEW stake \in StakeType, Bounded(stake),
         Resupply(a, amount, stake), booster' \in InfoType, RulesHold',
         legacy' \in [Accounts -> Nat], UNCHANGED <<barred, outside, now>>
  PROVE  Inv'
<1> DEFINE shares == AmountToShares(asset[Booster].supplied, amount, FALSE)
           assets == [asset EXCEPT ![Booster] = Deposited(@, amount)]
           held   == [supplied[a] EXCEPT ![Booster] = @ + shares]
           touched == StakeFarms(held)
<1>1. ApplyFarms(a, touched, assets, held, stake)
  BY DEF Resupply
<1>2. asset[Booster] \in AssetType /\ asset[Booster].supplied \in PoolType
  BY Found DEF AssetType
<1>3. shares \in Nat /\ Deposited(asset[Booster], amount) \in AssetType
  BY <1>2, AmountToSharesType, SavedType
<1>4. assets \in [Tokens -> AssetType]
  BY <1>3, Found
<1> HIDE DEF shares
<1>5. held \in [Tokens -> Nat] /\ \A f \in Tokens \ {Booster} : held[f] = supplied[a][f]
  BY <1>3, Found
<1> HIDE DEF held, assets
<1>6. touched \in SUBSET Tokens /\ \A f \in Tokens \ touched : held[f] = supplied[a][f]
  BY <1>5, Found DEF StakeFarms
<1> HIDE DEF touched
<1>7. /\ barred' \subseteq Accounts /\ barred' \ {a} \subseteq barred
      /\ a \in barred' => a \in barred /\ now' = now
      /\ transfer' \in [Slots -> TransferType \cup {NoTransfer}]
      /\ cash' \in [Tokens -> Nat] /\ wallet' \in [Accounts -> [Tokens -> Nat]]
  BY Found DEF outside
<1> QED BY <1>1, <1>4, <1>5, <1>6, <1>7, AppliedInv

\* Nothing is staked, and nothing counts for it.
LEMMA NoStakeType ==
  NoStake \in StakeType /\ NoStake.amount = 0 /\ Bounded(NoStake)
<1>1. PICK p \in Policies : TRUE
  BY FarmPolicies
<1> QED BY DEF NoStake, StakeType, Bounded

\* Unstaking when the lock is over.
LEMMA UnstakeInv ==
  ASSUME Inv, NEW a \in Accounts, Unstake(a)
  PROVE  Inv'
<1>1. staking[a].amount \in Nat /\ legacy' = legacy
  BY Found DEF StakeType, Unstake
<1>2. /\ Release(staking[a].amount, staking[a].unlock)
      /\ Resupply(a, staking[a].amount, NoStake)
      /\ UNCHANGED <<barred, outside, now>>
  BY DEF Unstake
<1>3. booster' \in InfoType /\ RulesHold'
  BY <1>1, <1>2, ReleaseType
<1> QED BY <1>1, <1>2, <1>3, Found, NoStakeType, ResupplyInv

\* Unstaking the stake of an earlier version.
LEMMA UnstakeLegacyInv ==
  ASSUME Inv, NEW a \in Accounts, UnstakeLegacy(a)
  PROVE  Inv'
<1>1. legacy[a] \in Nat /\ legacy' \in [Accounts -> Nat]
  BY Found DEF UnstakeLegacy
<1>2. /\ Release(legacy[a], 0) /\ Resupply(a, legacy[a], staking[a])
      /\ UNCHANGED <<barred, outside, now>>
  BY DEF UnstakeLegacy
<1>3. booster' \in InfoType /\ RulesHold'
  BY <1>1, <1>2, ReleaseType
<1> QED BY <1>1, <1>2, <1>3, Found, ResupplyInv

-----------------------------------------------------------------------------
\* A step that leaves the farms alone and takes no supply keeps the invariant.
LEMMA FarmsAlone ==
  ASSUME Inv, UNCHANGED <<farmVars, barred, now>>, TypeOK', RulesHold', XBoosterBounded',
         \A a \in Accounts, t \in Tokens : supplied[a][t] <= supplied'[a][t]
  PROVE  Inv'
<1>1. reward' = reward /\ farmAt' = farmAt /\ entry' = entry /\ barred' = barred /\ now' = now
  BY DEF farmVars
<1>2. \A f \in Tokens, r \in Tokens : Updated(f, r)' = Updated(f, r)
  BY <1>1 DEF Updated, Acquired
<1>3. \A f \in Tokens : Active(f)' = Active(f) /\ Farming(f)' = Farming(f)
  BY <1>1, <1>2 DEF Active, Farming
<1>4. BoostedSharesAddUp' /\ BarredFarmNothing' /\ ClocksRun'
  BY <1>1 DEF Inv, BoostedSharesAddUp, BarredFarmNothing, ClocksRun
<1>5. RecordsKept'
  BY <1>1, <1>3 DEF Inv, RecordsKept
<1>6. SuppliersOnly'
  <2> SUFFICES ASSUME NEW a \in Accounts, NEW f \in Tokens, entry'[a][f] # NoEntry
               PROVE  supplied'[a][f] > 0 /\ Farming(f)'
    BY DEF SuppliersOnly
  <2>1. supplied[a][f] > 0 /\ Farming(f)
    BY <1>1 DEF Inv, SuppliersOnly
  <2>2. supplied[a][f] \in Nat /\ supplied'[a][f] \in Nat
    BY DEF Inv, TypeOK
  <2> QED BY <1>3, <2>1, <2>2
<1> QED BY <1>4, <1>5, <1>6 DEF Inv

\* With a client_echo the tokens are sent away, and no farm is touched.
LEMMA UnstakeEchoInv ==
  ASSUME Inv, NEW a \in Accounts, NEW s \in Slots, UnstakeEcho(s, a)
  PROVE  Inv'
<1>1. /\ Release(staking[a].amount, staking[a].unlock)
      /\ staking' = [staking EXCEPT ![a] = NoStake]
      /\ transfer' = [transfer EXCEPT ![s] =
             [account |-> a, token |-> Booster, amount |-> staking[a].amount]]
      /\ UNCHANGED <<assetVars, farmVars, legacy, barred, cash, wallet, now>>
  BY DEF UnstakeEcho, Start
<1>2. staking[a].amount \in Nat
  BY Found DEF StakeType
<1>3. booster' \in InfoType /\ RulesHold'
  BY <1>1, <1>2, ReleaseType
<1>4. transfer' \in [Slots -> TransferType \cup {NoTransfer}]
  BY <1>1, <1>2, Found DEF TransferType
<1>5. staking' \in [Accounts -> StakeType] /\ XBoosterBounded'
  BY <1>1, Found, NoStakeType DEF XBoosterBounded, Bounded
<1>6. TypeOK'
  BY <1>1, <1>3, <1>4, <1>5 DEF Inv, TypeOK, assetVars, farmVars
<1>7. supplied' = supplied /\ \A b \in Accounts, t \in Tokens : supplied[b][t] \in Nat
  BY <1>1, Found DEF assetVars
<1> QED BY <1>1, <1>3, <1>5, <1>6, <1>7, FarmsAlone

\* A transfer that succeeds touches no farm.
LEMMA TransferSucceedsInv ==
  ASSUME Inv, NEW s \in Slots, TransferSucceeds(s)
  PROVE  Inv'
<1> DEFINE tr == transfer[s]
<1>1. /\ tr # NoTransfer /\ tr.amount <= cash[tr.token]
      /\ cash' = [cash EXCEPT ![tr.token] = @ - tr.amount]
      /\ wallet' = [wallet EXCEPT ![tr.account][tr.token] = @ + tr.amount]
      /\ transfer' = [transfer EXCEPT ![s] = NoTransfer]
      /\ UNCHANGED <<assetVars, farmVars, boosterVars, barred, now>>
  BY DEF TransferSucceeds
<1>2. tr.account \in Accounts /\ tr.token \in Tokens /\ tr.amount \in Nat
  BY <1>1, Found DEF TransferType
<1>3. cash' \in [Tokens -> Nat] /\ wallet' \in [Accounts -> [Tokens -> Nat]]
  <2>1. cash[tr.token] - tr.amount \in Nat /\ wallet[tr.account][tr.token] + tr.amount \in Nat
    BY <1>1, <1>2, Found
  <2> QED BY <1>1, <1>2, <2>1, Found
<1>4. transfer' \in [Slots -> TransferType \cup {NoTransfer}]
  BY <1>1, Found
<1>5. TypeOK' /\ RulesHold' /\ XBoosterBounded'
  BY <1>1, <1>3, <1>4
  DEF Inv, TypeOK, RulesHold, XBoosterBounded, assetVars, farmVars, boosterVars
<1>6. supplied' = supplied /\ \A b \in Accounts, t \in Tokens : supplied[b][t] \in Nat
  BY <1>1, Found DEF assetVars
<1> QED BY <1>1, <1>5, <1>6, FarmsAlone

\* A refund is supplied again, and touches no farm.
LEMMA TransferFailsInv ==
  ASSUME Inv, NEW s \in Slots, TransferFails(s)
  PROVE  Inv'
<1> DEFINE tr == transfer[s]
           shares == AmountToShares(asset[tr.token].supplied, tr.amount, FALSE)
<1>1. /\ tr # NoTransfer
      /\ asset' = [asset EXCEPT ![tr.token] = Deposited(@, tr.amount)]
      /\ supplied' = [supplied EXCEPT ![tr.account][tr.token] = @ + shares]
      /\ transfer' = [transfer EXCEPT ![s] = NoTransfer]
      /\ UNCHANGED <<farmVars, boosterVars, barred, cash, wallet, now>>
  BY DEF TransferFails
<1>2. tr.account \in Accounts /\ tr.token \in Tokens /\ tr.amount \in Nat
  BY <1>1, Found DEF TransferType
<1>3. asset[tr.token] \in AssetType /\ asset[tr.token].supplied \in PoolType
  BY <1>2, Found DEF AssetType
<1>4. shares \in Nat /\ Deposited(asset[tr.token], tr.amount) \in AssetType
  BY <1>2, <1>3, AmountToSharesType, SavedType
<1> HIDE DEF shares
<1>5. /\ supplied' \in [Accounts -> [Tokens -> Nat]]
      /\ \A b \in Accounts, t \in Tokens : supplied[b][t] <= supplied'[b][t]
  <2> HIDE DEF tr
  <2> QED BY <1>1, <1>2, <1>4, Found
<1>6. asset' \in [Tokens -> AssetType]
  BY <1>1, <1>2, <1>4, Found
<1>7. transfer' \in [Slots -> TransferType \cup {NoTransfer}]
  BY <1>1, Found
<1>8. TypeOK' /\ RulesHold' /\ XBoosterBounded'
  BY <1>1, <1>5, <1>6, <1>7
  DEF Inv, TypeOK, RulesHold, XBoosterBounded, farmVars, boosterVars, AssetType
<1> QED BY <1>1, <1>5, <1>8, FarmsAlone

\* The owner lists, changes and removes the booster token and its policy.
LEMMA BoosterTokenInv ==
  ASSUME Inv,
         \/ \E p \in Policies : AddBoosterToken(p) \/ \E e \in BOOLEAN : UpdateBoosterToken(p, e)
         \/ RemoveBoosterToken
  PROVE  Inv'
<1>1. UNCHANGED <<assetVars, farmVars, staking, legacy, barred, outside, now>>
  BY DEF AddBoosterToken, UpdateBoosterToken, RemoveBoosterToken
<1>2. booster' \in InfoType /\ RulesHold'
  <2>1. CASE RemoveBoosterToken
    BY <2>1, FarmNumbers DEF RemoveBoosterToken, Unlisted, InfoType, RulesHold
  <2>2. ASSUME NEW p \in Policies, AddBoosterToken(p) \/ \E e \in BOOLEAN : UpdateBoosterToken(p, e)
        PROVE  booster' \in InfoType /\ RulesHold'
    <3>1. /\ p.min \in Nat /\ p.max \in Nat /\ p.multiplier \in Nat
          /\ p.min <= p.max /\ p.multiplier >= FullRate
      BY FarmPolicies
    <3>2. booster.total \in Nat
      BY Found DEF InfoType
    <3>3. CASE AddBoosterToken(p)
      BY <3>1, <3>3 DEF AddBoosterToken, Listed, InfoType, RulesHold
    <3>4. CASE \E e \in BOOLEAN : UpdateBoosterToken(p, e)
      <4>1. PICK e \in BOOLEAN : UpdateBoosterToken(p, e)
        BY <3>4
      <4>2. booster' = [listed |-> TRUE, enabled |-> e, min |-> p.min, max |-> p.max,
                        multiplier |-> p.multiplier, total |-> booster.total]
        BY <4>1 DEF UpdateBoosterToken, Listed
      <4> QED BY <3>1, <3>2, <4>2 DEF InfoType, RulesHold
    <3> QED BY <2>2, <3>3, <3>4
  <2> QED BY <2>1, <2>2
<1>3. TypeOK' /\ XBoosterBounded'
  BY <1>1, <1>2 DEF Inv, TypeOK, XBoosterBounded, assetVars, farmVars, outside
<1>4. supplied' = supplied /\ \A b \in Accounts, t \in Tokens : supplied[b][t] \in Nat
  BY <1>1, Found DEF assetVars
<1> QED BY <1>1, <1>2, <1>3, <1>4, FarmsAlone

\* A reward is added, or added again with the shares it had.
LEMMA AddRewardInv ==
  ASSUME Inv, NEW f \in Tokens, NEW r \in Tokens, NEW perDay \in Nat, NEW amount \in Nat,
         AddReward(f, r, perDay, amount)
  PROVE  Inv'
<1> DEFINE added == [Updated(f, r) EXCEPT !.status = "active", !.per_day = perDay,
                                          !.remaining = @ + amount]
           rewards == [t \in Tokens |-> IF t = r THEN added ELSE Updated(f, t)]
<1>1. /\ amount <= asset[r].reserved
      /\ asset' = [asset EXCEPT ![r].reserved = @ - amount]
      /\ reward' = [reward EXCEPT ![f] = rewards]
      /\ farmAt' = [farmAt EXCEPT ![f] = now]
      /\ UNCHANGED <<supplied, entry, boosterVars, barred, outside, now>>
  BY DEF AddReward
<1>2. /\ reward \in [Tokens -> [Tokens -> RewardType]] /\ farmAt \in [Tokens -> Nat]
      /\ entry \in [Accounts -> [Tokens -> EntryType]]
  BY DEF Inv, TypeOK
<1>3. \A t \in Tokens : /\ Updated(f, t) \in RewardType
                        /\ Updated(f, t).boosted = reward[f][t].boosted
                        /\ reward[f][t].per_share <= Updated(f, t).per_share
                        /\ Updated(f, t).status = "none" <=> reward[f][t].status = "none"
  BY UpdatedType
<1>4. /\ added \in RewardType /\ added.boosted = Updated(f, r).boosted
      /\ added.per_share = Updated(f, r).per_share /\ added.status = "active"
  <2> DEFINE u == Updated(f, r)
             left == u.remaining + amount
  <2>1. u \in RewardType
    BY <1>3
  <2>2. left \in Nat
    BY <2>1 DEF RewardType
  <2>3. added = [u EXCEPT !.status = "active", !.per_day = perDay, !.remaining = left]
    BY <2>1 DEF RewardType
  <2> HIDE DEF u, left, added
  <2>4. /\ added \in RewardType /\ added.boosted = u.boosted
        /\ added.per_share = u.per_share /\ added.status = "active"
    BY <2>1, <2>2, <2>3 DEF RewardType
  <2> QED BY <2>4 DEF u
<1> HIDE DEF added
<1>5. /\ rewards \in [Tokens -> RewardType]
      /\ \A t \in Tokens : /\ rewards[t].boosted = reward[f][t].boosted
                           /\ reward[f][t].per_share <= rewards[t].per_share
                           /\ rewards[t].status = Updated(f, t).status \/ rewards[t].status = "active"
  <2>1. ASSUME NEW t \in Tokens
        PROVE  /\ rewards[t] \in RewardType
               /\ rewards[t].boosted = reward[f][t].boosted
               /\ reward[f][t].per_share <= rewards[t].per_share
               /\ rewards[t].status = Updated(f, t).status \/ rewards[t].status = "active"
    <3>1. CASE t = r
      BY <1>3, <1>4, <3>1
    <3>2. CASE t # r
      BY <1>3, <3>2
    <3> QED BY <3>1, <3>2
  <2> QED BY <2>1
<1> HIDE DEF rewards
<1>6. /\ reward' \in [Tokens -> [Tokens -> RewardType]] /\ farmAt' \in [Tokens -> Nat]
      /\ reward'[f] = rewards /\ farmAt'[f] = now
      /\ \A g \in Tokens \ {f} : reward'[g] = reward[g] /\ farmAt'[g] = farmAt[g]
  BY <1>1, <1>2, <1>5, Found
<1>7. asset' \in [Tokens -> AssetType]
  <2> DEFINE left == asset[r].reserved - amount
  <2>1. asset[r] \in AssetType /\ left \in Nat
    BY <1>1, Found DEF AssetType
  <2>2. asset' = [asset EXCEPT ![r] = [@ EXCEPT !.reserved = left]]
    BY <1>1, Found
  <2> HIDE DEF left
  <2>3. [asset[r] EXCEPT !.reserved = left] \in AssetType
    BY <2>1 DEF AssetType
  <2> QED BY <2>2, <2>3, Found
<1>8. TypeOK' /\ RulesHold' /\ XBoosterBounded' /\ BarredFarmNothing'
  BY <1>1, <1>6, <1>7
  DEF Inv, TypeOK, RulesHold, XBoosterBounded, BarredFarmNothing, boosterVars, outside, AssetType
<1>9. BoostedSharesAddUp'
  <2>1. \A g \in Tokens, t \in Tokens : reward'[g][t].boosted = reward[g][t].boosted
    BY <1>5, <1>6
  <2> QED BY <1>1, <2>1 DEF Inv, BoostedSharesAddUp
<1>10. ASSUME NEW g \in Tokens
       PROVE  /\ Active(g) \subseteq Active(g)'
              /\ Farming(g) => Farming(g)'
  <2>1. CASE g = f
    <3>1. \A t \in Tokens : Updated(g, t)' = reward'[g][t]
      BY <1>1, <1>6, <2>1 DEF Updated
    <3>2. Active(g) \subseteq Active(g)'
      BY <1>5, <1>6, <2>1, <3>1 DEF Active
    <3>3. \A t \in Tokens : reward[g][t].status # "none" => reward'[g][t].status # "none"
      BY <1>3, <1>5, <1>6, <2>1
    <3> QED BY <3>2, <3>3 DEF Farming
  <2>2. CASE g # f
    <3>1. \A t \in Tokens : Updated(g, t)' = Updated(g, t)
      BY <1>1, <1>6, <2>2 DEF Updated, Acquired
    <3> QED BY <1>6, <2>2, <3>1 DEF Active, Farming
  <2> QED BY <2>1, <2>2
<1>11. SuppliersOnly'
  BY <1>1, <1>10 DEF Inv, SuppliersOnly
<1>12. RecordsKept'
  <2> SUFFICES ASSUME NEW b \in Accounts, NEW g \in Tokens
               PROVE  /\ entry[b][g].at <= now
                      /\ entry[b][g].at = now => entry[b][g].rewards \subseteq Active(g)'
                      /\ \A t \in Tokens :
                            IF t \in entry[b][g].rewards
                            THEN entry[b][g].last[t] <= reward'[g][t].per_share
                            ELSE entry[b][g].boosted[t] = 0
    BY <1>1 DEF RecordsKept
  <2>1. \A t \in Tokens : /\ reward[g][t].per_share \in Nat /\ reward'[g][t].per_share \in Nat
                          /\ entry[b][g].last[t] \in Nat
    BY <1>2, <1>6 DEF RewardType, EntryType
  <2>2. \A t \in Tokens : reward[g][t].per_share <= reward'[g][t].per_share
    BY <1>5, <1>6, <2>1
  <2>3. /\ entry[b][g].at <= now
        /\ entry[b][g].at = now => entry[b][g].rewards \subseteq Active(g)
        /\ \A t \in Tokens :
              IF t \in entry[b][g].rewards
              THEN entry[b][g].last[t] <= reward[g][t].per_share
              ELSE entry[b][g].boosted[t] = 0
    BY DEF Inv, RecordsKept
  <2> QED BY <1>10, <2>1, <2>2, <2>3
<1>13. ClocksRun'
  <2>1. now' = now /\ now \in Nat
    BY <1>1, Found
  <2> QED BY <1>6, <2>1 DEF Inv, ClocksRun
<1> QED BY <1>8, <1>9, <1>11, <1>12, <1>13 DEF Inv

\* Time passes; what it earns is seen when a farm is next read.
LEMMA TickInv ==
  ASSUME Inv, Tick
  PROVE  Inv'
<1>1. /\ now' = now + 1 /\ now \in Nat
      /\ UNCHANGED <<assetVars, farmVars, boosterVars, barred, outside>>
  BY Found DEF Tick
<1>2. TypeOK' /\ RulesHold' /\ XBoosterBounded' /\ BarredFarmNothing' /\ BoostedSharesAddUp'
  BY <1>1 DEF Inv, TypeOK, RulesHold, XBoosterBounded, BarredFarmNothing, BoostedSharesAddUp,
              assetVars, farmVars, boosterVars, outside
<1>3. SuppliersOnly'
  BY <1>1 DEF Inv, SuppliersOnly, Farming, assetVars, farmVars
\* no entry is up to date in a new block
<1>4. RecordsKept'
  <2>1. \A a \in Accounts, f \in Tokens : entry[a][f].at \in Nat /\ entry[a][f].at <= now
    BY DEF Inv, TypeOK, EntryType, RecordsKept
  <2>2. \A a \in Accounts, f \in Tokens : entry[a][f].at <= now' /\ entry[a][f].at # now'
    BY <1>1, <2>1
  <2> QED BY <1>1, <2>2 DEF Inv, RecordsKept, farmVars
<1>5. ClocksRun'
  <2>1. \A f \in Tokens : farmAt[f] \in Nat /\ farmAt[f] <= now
    BY DEF Inv, TypeOK, ClocksRun
  <2>2. \A f \in Tokens : farmAt[f] <= now'
    BY <1>1, <2>1
  <2> QED BY <1>1, <2>2 DEF ClocksRun, farmVars
<1> QED BY <1>2, <1>3, <1>4, <1>5 DEF Inv

\* No account farms at first.
LEMMA InitInv ==
  ASSUME Init
  PROVE  Inv
<1>1. \A a \in Accounts, f \in Tokens : entry[a][f] = NoEntry
  BY DEF Init
<1>2. NoEntry \in EntryType /\ NoReward \in RewardType /\ NoStake \in StakeType
      /\ Zeros \in [Tokens -> Nat]
  BY NoStakeType DEF NoEntry, NoReward, Zeros, EntryType, RewardType
<1>3. booster \in InfoType /\ RulesHold
  BY FarmNumbers DEF Init, Unlisted, InfoType, RulesHold
<1>4. cash \in [Tokens -> Nat]
  <2> DEFINE staked(t) == IF t = Booster THEN SumFunction(InitialLegacy) ELSE 0
  <2>1. SumFunction(InitialLegacy) \in Nat
    <3>1. SumFunctionOnSet(InitialLegacy, Accounts) \in Nat
      BY FarmSets, FarmWealth, SumType
    <3> QED BY <3>1, FarmWealth DEF SumFunction
  <2>2. \A t \in Tokens : InitialReserve[t] \in Nat /\ staked(t) \in Nat
    BY <2>1, FarmWealth
  <2>3. cash = [t \in Tokens |-> InitialReserve[t] + staked(t)]
    BY DEF Init
  <2> HIDE DEF staked
  <2> QED BY <2>2, <2>3
<1>5. TypeOK
  <2>1. EmptyPool \in PoolType
    BY DEF EmptyPool, PoolType
  <2>2. asset \in [Tokens -> [supplied : PoolType, reserved : Nat]]
    <3> HIDE DEF PoolType, EmptyPool
    <3> QED BY <2>1, FarmWealth DEF Init
  <2>3. entry \in [Accounts -> [Tokens -> EntryType]] /\ reward \in [Tokens -> [Tokens -> RewardType]]
        /\ staking \in [Accounts -> StakeType]
    BY <1>2 DEF Init
  <2>4. /\ supplied \in [Accounts -> [Tokens -> Nat]] /\ farmAt \in [Tokens -> Nat]
        /\ legacy \in [Accounts -> Nat] /\ wallet \in [Accounts -> [Tokens -> Nat]]
        /\ barred \subseteq Accounts /\ now \in Nat
        /\ transfer \in [Slots -> TransferType \cup {NoTransfer}]
    BY <1>2, FarmWealth DEF Init
  <2> QED BY <1>3, <1>4, <2>2, <2>3, <2>4 DEF TypeOK
<1>6. BoostedSharesAddUp
  <2> SUFFICES ASSUME NEW f \in Tokens, NEW r \in Tokens
               PROVE  reward[f][r].boosted = SumFunction([a \in Accounts |-> entry[a][f].boosted[r]])
    BY DEF BoostedSharesAddUp
  <2> DEFINE g == [a \in Accounts |-> entry[a][f].boosted[r]]
  <2>1. \A a \in Accounts : g[a] = 0
    BY <1>1 DEF NoEntry, Zeros
  <2>2. SumFunction(g) = SumFunctionOnSet(g, Accounts)
    BY DEF SumFunction
  <2> HIDE DEF g
  <2>3. SumFunctionOnSet(g, Accounts) = 0
    BY <2>1, FarmSets, SumZero
  <2>4. reward[f][r].boosted = 0
    BY DEF Init, NoReward
  <2>5. reward[f][r].boosted = SumFunction(g)
    BY <2>2, <2>3, <2>4
  <2> QED BY <2>5 DEF g
<1>7. XBoosterBounded
  BY NoStakeType DEF Init, XBoosterBounded, Bounded
<1>8. BarredFarmNothing /\ SuppliersOnly
  BY <1>1 DEF Init, BarredFarmNothing, SuppliersOnly
<1>9. RecordsKept
  BY <1>1 DEF Init, RecordsKept, NoEntry, Zeros
<1>10. ClocksRun
  BY DEF Init, ClocksRun, Zeros
<1> QED BY <1>3, <1>5, <1>6, <1>7, <1>8, <1>9, <1>10 DEF Inv

-----------------------------------------------------------------------------
\* Every action keeps the invariant.
LEMMA NextInv ==
  ASSUME Inv, [Next]_vars
  PROVE  Inv'
<1>1. \A n \in Amounts : n \in Nat
  BY FarmBounds
<1>2. \A d \in Durations : d \in Nat
  BY FarmPolicies DEF Durations
<1>3. /\ \A n \in Nat : Exactly(n) \in RequestsOver(Nat)
      /\ Everything \in RequestsOver(Nat)
  BY DEF RequestsOver
<1>4. ASSUME NEW a \in Accounts, NEW t \in Tokens, NEW n \in Amounts, Deposit(a, t, n)
      PROVE  Inv'
  BY <1>1, <1>4, DepositInv
<1>5. ASSUME NEW a \in Accounts, ClaimAll(a) \/ ExtendBlacklist(a) \/ RemoveFromBlacklist(a)
      PROVE  Inv'
  BY <1>5, ClaimAllInv
<1>6. ASSUME NEW a \in Accounts, NEW d \in Durations, NEW req \in RequestsOver(Nat),
             Stake(a, req, d)
      PROVE  Inv'
  BY <1>2, <1>6, StakeInv
<1>7. ASSUME NEW a \in Accounts, Unstake(a) \/ UnstakeLegacy(a)
      PROVE  Inv'
  BY <1>7, UnstakeInv, UnstakeLegacyInv
<1>8. ASSUME NEW a \in Accounts, NEW s \in Slots, UnstakeEcho(s, a)
      PROVE  Inv'
  BY <1>8, UnstakeEchoInv
<1>9. ASSUME NEW s \in Slots, NEW a \in Payees, NEW t \in Tokens, NEW req \in RequestsOver(Nat),
             Withdraw(s, a, t, req)
      PROVE  Inv'
  <2>1. a \in Accounts
    BY FarmSets
  <2> QED BY <1>9, <2>1, WithdrawInv
<1>10. ASSUME NEW s \in Slots, TransferSucceeds(s) \/ TransferFails(s)
       PROVE  Inv'
  BY <1>10, TransferSucceedsInv, TransferFailsInv
<1>11. ASSUME NEW p \in Pays, NEW w \in Rewards, AddReward(p[1], p[2], w[1], w[2])
       PROVE  Inv'
  <2>1. p[1] \in Tokens /\ p[2] \in Tokens /\ w[1] \in Nat /\ w[2] \in Nat
    BY FarmSets, FarmBounds
  <2> QED BY <1>11, <2>1, AddRewardInv
<1>12. CASE UNCHANGED vars
  <2>1. /\ UNCHANGED <<assetVars, farmVars, boosterVars, barred, outside, now>>
    BY <1>12 DEF vars
  <2>2. TypeOK' /\ RulesHold' /\ XBoosterBounded'
    BY <2>1 DEF Inv, TypeOK, RulesHold, XBoosterBounded, assetVars, farmVars, boosterVars, outside
  <2>3. supplied' = supplied /\ \A b \in Accounts, t \in Tokens : supplied[b][t] \in Nat
    BY <2>1, Found DEF assetVars
  <2> QED BY <2>1, <2>2, <2>3, FarmsAlone
<1>13. CASE \E a \in Accounts :
              \/ \E t \in Tokens, n \in Amounts : Deposit(a, t, n)
              \/ ClaimAll(a)
              \/ \E n \in Amounts, d \in Durations : Stake(a, Exactly(n), d)
              \/ \E d \in Durations : Stake(a, Everything, d)
              \/ Unstake(a)
              \/ UnstakeLegacy(a)
              \/ \E s \in Slots : UnstakeEcho(s, a)
  BY <1>1, <1>3, <1>4, <1>5, <1>6, <1>7, <1>8, <1>13
<1>14. CASE \E s \in Slots, a \in Payees, t \in Tokens :
              Withdraw(s, a, t, Everything) \/ \E n \in Amounts : Withdraw(s, a, t, Exactly(n))
  BY <1>1, <1>3, <1>9, <1>14
<1>15. CASE \E a \in Barrable : ExtendBlacklist(a) \/ RemoveFromBlacklist(a)
  BY <1>5, <1>15, FarmSets
<1>16. CASE \E s \in Slots : TransferSucceeds(s) \/ TransferFails(s)
  BY <1>10, <1>16
<1>17. CASE \E p \in Pays, w \in Rewards : AddReward(p[1], p[2], w[1], w[2])
  BY <1>11, <1>17
<1>18. CASE \/ \E p \in Policies : AddBoosterToken(p) \/ \E e \in BOOLEAN : UpdateBoosterToken(p, e)
            \/ RemoveBoosterToken
  BY <1>18, BoosterTokenInv
<1>19. CASE Tick
  BY <1>19, TickInv
<1> QED BY <1>12, <1>13, <1>14, <1>15, <1>16, <1>17, <1>18, <1>19 DEF Next

\* The inductive invariant of the farms, which every step keeps.
LEMMA Invariance == Spec => []Inv
<1>1. Init => Inv
  BY InitInv
<1>2. Inv /\ [Next]_vars => Inv'
  BY NextInv
<1> QED BY <1>1, <1>2, PTL DEF Spec

\* The variables keep their types: nothing the handlers subtract is ever more
\* than what it is subtracted from, the shares a farm loses in particular.
THEOREM TypeCorrect == Spec => []TypeOK
<1>1. Inv => TypeOK
  BY DEF Inv
<1> QED BY <1>1, Invariance, PTL

\* Whatever is supplied, withdrawn, staked, claimed and barred in whatever order,
\* the shares a reward is divided by are the sum of the accounts' shares in it.
THEOREM SharesOfRewardsAddUp == Spec => []BoostedSharesAddUp
<1>1. Inv => BoostedSharesAddUp
  BY DEF Inv
<1> QED BY <1>1, Invariance, PTL

\* A barred account farms nothing, however long it is barred and whatever it,
\* or a transfer that fails, supplies meanwhile.
THEOREM BarredAccountsFarmNothing == Spec => []BarredFarmNothing
<1>1. Inv => BarredFarmNothing
  BY DEF Inv
<1> QED BY <1>1, Invariance, PTL

\* Staking again and again, under rules that change in between, yields no more
\* x booster tokens than the greatest multiplier for the tokens staked.
THEOREM XBoosterIsBounded == Spec => []XBoosterBounded
<1>1. Inv => XBoosterBounded
  BY DEF Inv
<1> QED BY <1>1, Invariance, PTL

-----------------------------------------------------------------------------
\* What the action property says of one account's farms.
CountsAtOnce(a) ==
    \A f \in Tokens : \A r \in entry'[a][f].rewards :
        entry'[a][f].boosted[r] = BoostedShares(supplied'[a][f], staking'[a].x)

\* Bringing a stake up to date leaves its amount alone.
LEMMA SyncedAmount ==
  ASSUME NEW stake \in StakeType
  PROVE  Synced(stake).amount = stake.amount
BY DEF Synced, StakeType

\* Applying the affected farms changes the stake of its account only, and its
\* amount is the one the handler gave.
LEMMA AppliedStake ==
  ASSUME Inv, NEW a \in Accounts, NEW touched, NEW assets, NEW held, NEW stake \in StakeType,
         ApplyFarms(a, touched, assets, held, stake)
  PROVE  /\ staking'[a].amount = stake.amount
         /\ \A b \in Accounts \ {a} : staking'[b] = staking[b]
<1>1. staking' = [staking EXCEPT ![a] = Synced(stake)]
  BY DEF ApplyFarms
<1>2. staking \in [Accounts -> StakeType]
  BY Found
<1> QED BY <1>1, <1>2, SyncedAmount

\* A farm that is recounted counts the stake that was just saved.
LEMMA RecountedAtOnce ==
  ASSUME Inv, NEW a \in Accounts, NEW f \in Tokens, NEW r \in RecountedEntry(a, f).rewards
  PROVE  RecountedEntry(a, f).boosted[r] = BoostedShares(supplied'[a][f], staking'[a].x)
<1>1. Counted(a, f) # 0
  <2>1. NoEntry.rewards = {}
    BY DEF NoEntry
  <2> QED BY <2>1 DEF RecountedEntry
<1>2. Counted(a, f) = supplied'[a][f]
  BY <1>1 DEF Counted
<1> DEFINE n == BoostedShares(Counted(a, f), staking'[a].x)
           boosted == [x \in Tokens |-> IF x \in Active(f) THEN n ELSE Claimed(a, f).boosted[x]]
<1>3. Claimed(a, f) \in EntryType /\ Claimed(a, f).rewards \subseteq Active(f)
  BY ClaimedType
<1>4. RecountedEntry(a, f) = [Claimed(a, f) EXCEPT !.boosted = boosted]
  BY <1>1 DEF RecountedEntry
<1>5. RecountedEntry(a, f).rewards = Claimed(a, f).rewards /\ RecountedEntry(a, f).boosted = boosted
  BY <1>3, <1>4 DEF EntryType
<1>6. r \in Active(f) /\ r \in Tokens
  BY <1>3, <1>5 DEF Active
<1> QED BY <1>2, <1>5, <1>6

\* A call that touches the booster's farm and every farm the account then
\* supplies leaves no record of it with the old stake.
LEMMA AppliedAtOnce ==
  ASSUME Inv, NEW a \in Accounts, NEW assets, NEW held, NEW stake,
         \A f \in Tokens \ {Booster} : held[f] = supplied[a][f],
         ApplyFarms(a, StakeFarms(held), assets, held, stake)
  PROVE  CountsAtOnce(a)
<1> DEFINE farms == {f \in AffectedFarms(a, StakeFarms(held)) : Farming(f)}
<1>1. entry' = [entry EXCEPT ![a] = [f \in Tokens |->
             IF f \in farms THEN RecountedEntry(a, f) ELSE @[f]]]
  BY DEF ApplyFarms
<1>2. \A f \in Tokens : f \in StakeFarms(held) /\ Farming(f) => f \in farms
  BY DEF AffectedFarms
<1> HIDE DEF farms
<1>3. entry \in [Accounts -> [Tokens -> EntryType]]
  BY DEF Inv, TypeOK
<1> SUFFICES ASSUME NEW f \in Tokens, NEW r \in entry'[a][f].rewards
             PROVE  entry'[a][f].boosted[r] = BoostedShares(supplied'[a][f], staking'[a].x)
  BY DEF CountsAtOnce
<1>4. CASE f \in farms
  <2>1. entry'[a][f] = RecountedEntry(a, f)
    BY <1>1, <1>3, <1>4
  <2> QED BY <2>1, RecountedAtOnce
<1>5. CASE f \notin farms
  <2>1. entry'[a][f] = entry[a][f]
    BY <1>1, <1>3, <1>5
  <2>2. entry[a][f] # NoEntry
    BY <2>1 DEF NoEntry
  <2>3. supplied[a][f] > 0 /\ Farming(f)
    BY <2>2 DEF Inv, SuppliersOnly
  <2>4. f # Booster => held[f] > 0
    BY <2>3
  <2>5. f \in StakeFarms(held)
    BY <2>4 DEF StakeFarms, PotentialFarms
  <2> QED BY <1>2, <1>5, <2>3, <2>5
<1> QED BY <1>4, <1>5

\* Staking and unstaking count at once.
LEMMA StakeAtOnce ==
  ASSUME Inv, NEW a \in Accounts, NEW d \in Nat, NEW req, Stake(a, req, d)
  PROVE  CountsAtOnce(a) /\ \A b \in Accounts \ {a} : staking'[b] = staking[b]
<1> DEFINE move == StakeMove(a, req)
           held == [supplied[a] EXCEPT ![Booster] = @ - move.shares]
           assets == [asset EXCEPT ![Booster] = Withdrawn(@, move)]
           stake == Staked(Synced(staking[a]), move.amount, d)
<1>1. ApplyFarms(a, StakeFarms(held), assets, held, stake)
  BY DEF Stake
<1>2. \A f \in Tokens \ {Booster} : held[f] = supplied[a][f]
  BY Found
<1>3. staking' = [staking EXCEPT ![a] = Synced(stake)]
  BY <1>1 DEF ApplyFarms
<1> HIDE DEF held, assets, stake
<1>4. CountsAtOnce(a)
  BY <1>1, <1>2, AppliedAtOnce
<1> QED BY <1>3, <1>4, Found

\* So does the supply that unstaked tokens become.
LEMMA ResupplyAtOnce ==
  ASSUME Inv, NEW a \in Accounts, NEW amount, NEW stake, Resupply(a, amount, stake)
  PROVE  CountsAtOnce(a) /\ \A b \in Accounts \ {a} : staking'[b] = staking[b]
<1> DEFINE n == AmountToShares(asset[Booster].supplied, amount, FALSE)
           held == [supplied[a] EXCEPT ![Booster] = @ + n]
           assets == [asset EXCEPT ![Booster] = Deposited(@, amount)]
<1>1. ApplyFarms(a, StakeFarms(held), assets, held, stake)
  BY DEF Resupply
<1>2. \A f \in Tokens \ {Booster} : held[f] = supplied[a][f]
  BY Found
<1>3. staking' = [staking EXCEPT ![a] = Synced(stake)]
  BY <1>1 DEF ApplyFarms
<1> HIDE DEF held, assets
<1>4. CountsAtOnce(a)
  BY <1>1, <1>2, AppliedAtOnce
<1> QED BY <1>3, <1>4, Found

\* Sending a stake away is a transfer of its own.
LEMMA EchoStarts ==
  ASSUME Inv, NEW s \in Slots, NEW a \in Accounts, UnstakeEcho(s, a)
  PROVE  transfer' # transfer
<1> DEFINE tr == [account |-> a, token |-> Booster, amount |-> staking[a].amount]
<1>1. transfer[s] = NoTransfer /\ transfer' = [transfer EXCEPT ![s] = tr]
  BY DEF UnstakeEcho, Start
<1>2. tr \in TransferType
  BY Found DEF TransferType, StakeType
<1>3. transfer'[s] = tr
  BY <1>1, Found
<1> QED BY <1>1, <1>2, <1>3, FarmMark

\* What the property says of the accounts a step stakes or unstakes for.
AtOnce ==
    \A a \in Accounts :
        staking'[a].amount # staking[a].amount /\ transfer' = transfer => CountsAtOnce(a)

\* A step that applies the farms with the stake as it was changes no amount.
LEMMA SameStakeAtOnce ==
  ASSUME Inv, NEW a \in Accounts, NEW touched, NEW assets, NEW held,
         ApplyFarms(a, touched, assets, held, staking[a])
  PROVE  AtOnce
<1>1. staking[a] \in StakeType
  BY Found
<1>2. \A b \in Accounts : staking'[b].amount = staking[b].amount
  BY <1>1, AppliedStake
<1> QED BY <1>2 DEF AtOnce

\* Every step counts the stakes it changes at once.
LEMMA NextAtOnce ==
  ASSUME Inv, [Next]_vars
  PROVE  AtOnce
<1>1. \A d \in Durations : d \in Nat
  BY FarmPolicies DEF Durations
<1>2. CASE staking' = staking
  BY <1>2 DEF AtOnce
<1>3. ASSUME NEW a \in Accounts, NEW t, NEW n, Deposit(a, t, n)
      PROVE  AtOnce
  <2>1. ApplyFarms(a, {t}, [asset EXCEPT ![t] = Deposited(asset[t], n)],
                   [supplied[a] EXCEPT ![t] = @ + AmountToShares(asset[t].supplied, n, FALSE)],
                   staking[a])
    BY <1>3 DEF Deposit
  <2> QED BY <2>1, SameStakeAtOnce
<1>4. ASSUME NEW a \in Accounts, ClaimAll(a) \/ ExtendBlacklist(a) \/ RemoveFromBlacklist(a)
      PROVE  AtOnce
  <2>1. ApplyFarms(a, PotentialFarms(supplied[a]), asset, supplied[a], staking[a])
    BY <1>4 DEF ClaimAll, ExtendBlacklist, RemoveFromBlacklist
  <2> QED BY <2>1, SameStakeAtOnce
<1>5. ASSUME NEW a \in Accounts, NEW d \in Durations, NEW req, Stake(a, req, d)
      PROVE  AtOnce
  <2>1. CountsAtOnce(a) /\ \A b \in Accounts \ {a} : staking'[b] = staking[b]
    BY <1>1, <1>5, StakeAtOnce
  <2> QED BY <2>1 DEF AtOnce
<1>6. ASSUME NEW a \in Accounts, Unstake(a) \/ UnstakeLegacy(a)
      PROVE  AtOnce
  <2>1. PICK amount, stake : Resupply(a, amount, stake)
    BY <1>6 DEF Unstake, UnstakeLegacy
  <2>2. CountsAtOnce(a) /\ \A b \in Accounts \ {a} : staking'[b] = staking[b]
    BY <2>1, ResupplyAtOnce
  <2> QED BY <2>2 DEF AtOnce
<1>7. ASSUME NEW a \in Accounts, NEW s \in Slots, UnstakeEcho(s, a)
      PROVE  AtOnce
  BY <1>7, EchoStarts DEF AtOnce
<1>8. ASSUME NEW s \in Slots, NEW a \in Payees, NEW t, NEW req, Withdraw(s, a, t, req)
      PROVE  AtOnce
  <2> DEFINE move == AssetAmountToShares(asset[t].supplied, supplied[a][t], req, FALSE)
  <2>1. a \in Accounts
    BY FarmSets
  <2>2. ApplyFarms(a, {t}, [asset EXCEPT ![t] = Withdrawn(@, move)],
                   [supplied[a] EXCEPT ![t] = @ - move.shares], staking[a])
    BY <1>8 DEF Withdraw
  <2> QED BY <2>1, <2>2, SameStakeAtOnce
<1>9. CASE \E a \in Accounts :
              \/ \E t \in Tokens, n \in Amounts : Deposit(a, t, n)
              \/ ClaimAll(a)
              \/ \E n \in Amounts, d \in Durations : Stake(a, Exactly(n), d)
              \/ \E d \in Durations : Stake(a, Everything, d)
              \/ Unstake(a)
              \/ UnstakeLegacy(a)
              \/ \E s \in Slots : UnstakeEcho(s, a)
  BY <1>3, <1>4, <1>5, <1>6, <1>7, <1>9
<1>10. CASE \E s \in Slots, a \in Payees, t \in Tokens :
              Withdraw(s, a, t, Everything) \/ \E n \in Amounts : Withdraw(s, a, t, Exactly(n))
  BY <1>8, <1>10
<1>11. CASE \E a \in Barrable : ExtendBlacklist(a) \/ RemoveFromBlacklist(a)
  BY <1>4, <1>11, FarmSets
<1>12. CASE \E s \in Slots : TransferSucceeds(s) \/ TransferFails(s)
  BY <1>2, <1>12 DEF TransferSucceeds, TransferFails, boosterVars
<1>13. CASE \E p \in Pays, w \in Rewards : AddReward(p[1], p[2], w[1], w[2])
  BY <1>2, <1>13 DEF AddReward, boosterVars
<1>14. CASE \/ \E p \in Policies : AddBoosterToken(p) \/ \E e \in BOOLEAN : UpdateBoosterToken(p, e)
            \/ RemoveBoosterToken
  BY <1>2, <1>14 DEF AddBoosterToken, UpdateBoosterToken, RemoveBoosterToken
<1>15. CASE Tick \/ UNCHANGED vars
  BY <1>2, <1>15 DEF Tick, vars, boosterVars
<1> QED BY <1>9, <1>10, <1>11, <1>12, <1>13, <1>14, <1>15 DEF Next

\* Whoever stakes, or takes a stake back into its supply, farms with the new x
\* booster tokens at once in every farm it has a record of: no farm is left out
\* of the call, as an account has records only of farms it supplies.
THEOREM StakesCountAtOnce == Spec => StakeCountsAtOnce
<1>1. Inv /\ [Next]_vars =>
        [\A a \in Accounts :
            staking'[a].amount # staking[a].amount /\ transfer' = transfer =>
                \A f \in Tokens : \A r \in entry'[a][f].rewards :
                    entry'[a][f].boosted[r] = BoostedShares(supplied'[a][f], staking'[a].x)]_vars
  BY NextAtOnce DEF AtOnce, CountsAtOnce
<1> QED BY <1>1, Invariance, PTL DEF Spec, StakeCountsAtOnce

-----------------------------------------------------------------------------
\* An entry of this block is of a farm that was updated in it and has counted
\* what the farm's shares have earned; no entry has a record of a reward that
\* was never added.
UpToDate ==
    /\ now > 0
    /\ \A a \in Accounts, f \in Tokens :
          /\ \A r \in entry[a][f].rewards : reward[f][r].status # "none"
          /\ entry[a][f].at = now =>
                /\ farmAt[f] = now
                /\ \A r \in entry[a][f].rewards : entry[a][f].last[r] = reward[f][r].per_share

\* What an update takes out of a reward, and what it adds to each share's part.
Got(f, r) == reward[f][r].remaining - Updated(f, r).remaining
Gain(f, r) == Updated(f, r).per_share - reward[f][r].per_share

\* What an account's record says it has yet to be paid of a reward, before and
\* after the farm is updated, and what the records of all accounts say.
Owed(a, f, r) ==
    IF r \in entry[a][f].rewards
    THEN (reward[f][r].per_share - entry[a][f].last[r]) * entry[a][f].boosted[r]
    ELSE 0
Claim(a, f, r) ==
    IF r \in entry[a][f].rewards
    THEN (Updated(f, r).per_share - entry[a][f].last[r]) * entry[a][f].boosted[r]
    ELSE 0
OwedBy(f, r) == SumFunction([a \in Accounts |-> Owed(a, f, r)])

-----------------------------------------------------------------------------
\* Rounding.

\* An update takes no less out of a reward than it adds to the shares, and more
\* by less than a fine step for each of them.
LEMMA UpdateRounds ==
  ASSUME Inv, NEW f \in Tokens, NEW r \in Tokens
  PROVE  /\ Got(f, r) \in Nat /\ Gain(f, r) \in Nat
         /\ Gain(f, r) * reward[f][r].boosted <= Fine * Got(f, r)
         /\ Fine * Got(f, r) <= Gain(f, r) * reward[f][r].boosted + reward[f][r].boosted
         /\ reward[f][r].status = "none" => Got(f, r) = 0 /\ Gain(f, r) = 0
<1> DEFINE rew == reward[f][r]
           got == Acquired(rew, now - farmAt[f])
           B   == rew.boosted
<1>1. rew \in RewardType /\ farmAt[f] \in Nat /\ now \in Nat /\ farmAt[f] <= now
  BY DEF Inv, TypeOK, ClocksRun
<1>2. rew.per_day \in Nat /\ rew.remaining \in Nat /\ B \in Nat /\ rew.per_share \in Nat
  BY <1>1 DEF RewardType
<1>3. Day \in Nat \ {0} /\ Fine \in Nat \ {0}
  BY FarmNumbers
<1>4. got \in Nat /\ got <= rew.remaining
  <2>1. now - farmAt[f] \in Nat
    BY <1>1
  <2>2. rew.per_day * (now - farmAt[f]) \in Nat
    BY <1>2, <2>1, ProductType
  <2>3. (rew.per_day * (now - farmAt[f])) \div Day \in Nat
    BY <1>3, <2>2, Quotient
  <2> QED BY <1>2, <2>3, LeastBound DEF Acquired
<1>5. CASE farmAt[f] = now \/ rew.status # "active" \/ B = 0
  <2>1. Updated(f, r) = rew
    BY <1>5 DEF Updated
  <2>2. Got(f, r) = 0 /\ Gain(f, r) = 0
    BY <1>2, <2>1 DEF Got, Gain
  <2>3. 0 * B = 0 /\ Fine * 0 = 0
    BY <1>2, <1>3
  <2> QED BY <1>2, <2>2, <2>3
<1>6. CASE ~ (farmAt[f] = now \/ rew.status # "active" \/ B = 0)
  <2> DEFINE q == (got * Fine) \div B
             s == IF got = rew.remaining THEN "inactive" ELSE rew.status
             n == rew.remaining - got
             p == rew.per_share + q
  <2>1. got * Fine \in Nat /\ got * Fine = Fine * got
    BY <1>3, <1>4, ProductType
  <2>2. B \in Nat \ {0}
    BY <1>2, <1>6
  <2>3. q \in Nat /\ q * B <= got * Fine /\ got * Fine < q * B + B /\ q * B \in Nat
    <3> HIDE DEF B, got
    <3> QED BY <2>1, <2>2, Quotient
  <2>4. Updated(f, r) = [rew EXCEPT !.remaining = n, !.per_share = p, !.status = s]
    BY <1>6 DEF Updated
  <2>5. n \in Nat /\ p \in Nat
    BY <1>2, <1>4, <2>3
  <2> HIDE DEF q, got, s, n, p, rew
  <2>6. Updated(f, r).remaining = n /\ Updated(f, r).per_share = p
    BY <1>1, <2>4 DEF RewardType
  <2>7. Got(f, r) = got /\ Gain(f, r) = q
    <3>1. rew.remaining - n = got
      BY <1>2, <1>4 DEF n
    <3>2. p - rew.per_share = q
      BY <1>2, <2>3 DEF p
    <3> QED BY <2>6, <3>1, <3>2 DEF Got, Gain, rew
  <2>8. rew.status # "none"
    BY <1>6
  <2> HIDE DEF B
  <2>9. q * B <= Fine * got /\ Fine * got <= q * B + B
    <3> DEFINE x == q * B
               y == got * Fine
               z == Fine * got
    <3>1. x \in Nat /\ y \in Nat /\ y = z /\ x <= y /\ y < x + B /\ B \in Nat
      BY <1>2, <2>1, <2>3
    <3> HIDE DEF x, y, z
    <3>2. x <= z /\ z <= x + B
      BY <3>1
    <3> QED BY <3>2 DEF x, z
  <2> QED BY <1>4, <2>3, <2>7, <2>8, <2>9 DEF rew, B
<1> QED BY <1>5, <1>6

\* What is owed is a natural number, and grows with the farm by as much for each
\* boosted share.
LEMMA OwedType ==
  ASSUME Inv, NEW a \in Accounts, NEW f \in Tokens, NEW r \in Tokens
  PROVE  /\ Owed(a, f, r) \in Nat /\ Claim(a, f, r) \in Nat
         /\ Claim(a, f, r) = Owed(a, f, r) + Gain(f, r) * entry[a][f].boosted[r]
<1> DEFINE l == entry[a][f].last[r]
           b == entry[a][f].boosted[r]
           p == reward[f][r].per_share
           u == Updated(f, r).per_share
<1>1. l \in Nat /\ b \in Nat
  BY DEF Inv, TypeOK, EntryType
<1>2. p \in Nat /\ u \in Nat /\ p <= u /\ Gain(f, r) = u - p
  BY UpdatedType DEF Inv, TypeOK, RewardType, Gain
<1>3. CASE r \in entry[a][f].rewards
  <2>1. l <= p
    BY <1>3 DEF Inv, RecordsKept
  <2>2. Owed(a, f, r) = (p - l) * b /\ Claim(a, f, r) = (u - l) * b
    BY <1>3 DEF Owed, Claim
  <2> HIDE DEF l, b, p, u
  <2>3. p - l \in Nat /\ u - p \in Nat /\ u - l = (p - l) + (u - p)
    BY <1>1, <1>2, <2>1
  <2>4. (p - l) * b \in Nat /\ (u - p) * b \in Nat
    BY <1>1, <2>3, ProductType
  <2>5. (u - l) * b = (p - l) * b + (u - p) * b
    <3> DEFINE x == p - l
               y == u - p
    <3>1. x \in Nat /\ y \in Nat /\ u - l = x + y
      BY <2>3
    <3> HIDE DEF x, y
    <3>2. (x + y) * b = x * b + y * b
      BY <1>1, <3>1
    <3> QED BY <3>1, <3>2 DEF x, y
  <2>6. (u - l) * b \in Nat
    BY <2>4, <2>5
  <2> QED BY <1>2, <2>2, <2>4, <2>5, <2>6 DEF b
<1>4. CASE r \notin entry[a][f].rewards
  <2>1. b = 0
    BY <1>4 DEF Inv, RecordsKept
  <2>2. Owed(a, f, r) = 0 /\ Claim(a, f, r) = 0
    BY <1>4 DEF Owed, Claim
  <2>3. Gain(f, r) \in Nat
    BY <1>2
  <2>4. Gain(f, r) * 0 = 0
    BY <2>3
  <2> QED BY <2>1, <2>2, <2>4
<1> QED BY <1>3, <1>4

\* A claim pays what is owed, rounded to the nearest token.
LEMMA DueRounds ==
  ASSUME Inv, UpToDate, NEW a \in Accounts, NEW f \in Tokens, NEW r \in Tokens
  PROVE  /\ 2 * (Fine * Due(a, f, r)) <= 2 * Claim(a, f, r) + Fine
         /\ 2 * Claim(a, f, r) <= 2 * (Fine * Due(a, f, r)) + Fine
         /\ reward[f][r].status = "none" => Claim(a, f, r) = 0 /\ Due(a, f, r) = 0
<1>1. Fine \in Nat \ {0} /\ Claim(a, f, r) \in Nat
  BY FarmNumbers, OwedType
<1>2. CASE entry[a][f].at # now /\ r \in entry[a][f].rewards
  <2> DEFINE x == Claim(a, f, r)
             h == Fine \div 2
             q == (x + h) \div Fine
  <2>1. Due(a, f, r) = q
    BY <1>2 DEF Due, RoundMul, Claim
  <2>2. h \in Nat /\ 2 * h <= Fine /\ Fine <= 2 * h + 1
    BY <1>1
  <2>3. x \in Nat
    BY <1>1
  <2> HIDE DEF x, h
  <2>4. x + h \in Nat
    BY <2>2, <2>3
  <2>5. q \in Nat /\ q * Fine <= x + h /\ x + h < q * Fine + Fine
    BY <1>1, <2>4, Quotient
  <2> HIDE DEF q
  <2>6. 2 * (Fine * q) <= 2 * x + Fine /\ 2 * x <= 2 * (Fine * q) + Fine
    <3> DEFINE y == q * Fine
    <3>1. y \in Nat /\ Fine * q = y
      BY <1>1, <2>5, ProductType
    <3>2. y <= x + h /\ x + h < y + Fine
      BY <2>5
    <3> HIDE DEF y
    <3> QED BY <1>1, <2>2, <2>3, <3>1, <3>2
  <2>7. reward[f][r].status # "none"
    BY <1>2 DEF UpToDate
  <2> QED BY <2>1, <2>6, <2>7 DEF x
<1>3. CASE ~ (entry[a][f].at # now /\ r \in entry[a][f].rewards)
  <2>1. Due(a, f, r) = 0
    BY <1>3 DEF Due
  <2>2. Claim(a, f, r) = 0
    <3>1. CASE r \notin entry[a][f].rewards
      BY <3>1 DEF Claim
    <3>2. CASE entry[a][f].at = now /\ r \in entry[a][f].rewards
      <4>1. farmAt[f] = now /\ entry[a][f].last[r] = reward[f][r].per_share
        BY <3>2 DEF UpToDate
      <4>2. Updated(f, r) = reward[f][r]
        BY <4>1, UpdatedType
      <4>3. reward[f][r].per_share \in Nat /\ entry[a][f].boosted[r] \in Nat
        BY DEF Inv, TypeOK, RewardType, EntryType
      <4>4. Claim(a, f, r) = (reward[f][r].per_share - reward[f][r].per_share)
                                * entry[a][f].boosted[r]
        BY <3>2, <4>1, <4>2 DEF Claim
      <4>5. reward[f][r].per_share - reward[f][r].per_share = 0
        BY <4>3
      <4>6. 0 * entry[a][f].boosted[r] = 0
        BY <4>3
      <4> QED BY <4>4, <4>5, <4>6
    <3> QED BY <1>3, <3>1, <3>2
  <2>3. Fine * 0 = 0
    BY <1>1
  <2> QED BY <1>1, <2>1, <2>2, <2>3
<1> QED BY <1>2, <1>3

-----------------------------------------------------------------------------
\* What the accounts are owed of a reward.

\* It is a natural number, and grows by as much for each boosted share of the
\* farm when the farm is updated.
LEMMA OwedByType ==
  ASSUME Inv, NEW f \in Tokens, NEW r \in Tokens
  PROVE  /\ OwedBy(f, r) \in Nat
         /\ SumFunctionOnSet([a \in Accounts |-> Claim(a, f, r)], Accounts)
              = OwedBy(f, r) + Gain(f, r) * reward[f][r].boosted
<1> DEFINE o == [a \in Accounts |-> Owed(a, f, r)]
           b == [a \in Accounts |-> entry[a][f].boosted[r]]
           g == [a \in Accounts |-> Gain(f, r) * entry[a][f].boosted[r]]
           k == [a \in Accounts |-> Claim(a, f, r)]
<1>1. Gain(f, r) \in Nat
  BY UpdateRounds
<1>2. \A a \in Accounts : b[a] \in Nat
  BY DEF Inv, TypeOK, EntryType
<1>3. \A a \in Accounts : g[a] = Gain(f, r) * b[a] /\ g[a] \in Nat
  BY <1>1, <1>2, ProductType
<1>4. \A a \in Accounts : o[a] \in Nat /\ k[a] = o[a] + g[a]
  BY OwedType
<1>5. OwedBy(f, r) = SumFunctionOnSet(o, Accounts)
  BY DEF OwedBy, SumFunction
<1>6. reward[f][r].boosted = SumFunctionOnSet(b, Accounts)
  BY DEF Inv, BoostedSharesAddUp, SumFunction
<1> HIDE DEF o, b, g, k
<1>7. SumFunctionOnSet(o, Accounts) \in Nat
  BY <1>4, FarmSets, SumType
<1>8. SumFunctionOnSet(g, Accounts) = Gain(f, r) * SumFunctionOnSet(b, Accounts)
  BY <1>1, <1>2, <1>3, FarmSets, SumScale
<1>9. SumFunctionOnSet(k, Accounts) = SumFunctionOnSet(o, Accounts) + SumFunctionOnSet(g, Accounts)
  BY <1>3, <1>4, FarmSets, SumPlus
<1> QED BY <1>5, <1>6, <1>7, <1>8, <1>9 DEF k

\* It is so after a step that keeps the invariant.
LEMMA OwedAfter ==
  ASSUME Inv', NEW f \in Tokens, NEW r \in Tokens
  PROVE  OwedBy(f, r)' \in Nat
<1> DEFINE o == [a \in Accounts |-> Owed(a, f, r)']
<1>1. ASSUME NEW a \in Accounts PROVE Owed(a, f, r)' \in Nat
  <2> DEFINE l == entry'[a][f].last[r]
             b == entry'[a][f].boosted[r]
             p == reward'[f][r].per_share
  <2>1. l \in Nat /\ b \in Nat /\ p \in Nat
    BY DEF Inv, TypeOK, EntryType, RewardType
  <2>2. r \in entry'[a][f].rewards => l <= p
    BY DEF Inv, RecordsKept
  <2>3. Owed(a, f, r)' = IF r \in entry'[a][f].rewards THEN (p - l) * b ELSE 0
    BY DEF Owed
  <2> HIDE DEF l, b, p
  <2>4. r \in entry'[a][f].rewards => (p - l) * b \in Nat
    <3> SUFFICES ASSUME r \in entry'[a][f].rewards PROVE (p - l) * b \in Nat
      OBVIOUS
    <3>1. p - l \in Nat
      BY <2>1, <2>2
    <3> QED BY <2>1, <3>1, ProductType
  <2> QED BY <2>3, <2>4
<1>2. \A a \in Accounts : o[a] \in Nat
  BY <1>1
<1>3. OwedBy(f, r)' = SumFunctionOnSet(o, Accounts)
  BY DEF OwedBy, SumFunction
<1> HIDE DEF o
<1> QED BY <1>2, <1>3, FarmSets, SumType

\* An update raises what every account is owed, if it changes no entry.
LEMMA OwedByRaised ==
  ASSUME Inv, Inv', NEW f \in Tokens, NEW r \in Tokens,
         entry' = entry, reward'[f][r].per_share = Updated(f, r).per_share
  PROVE  OwedBy(f, r)' = OwedBy(f, r) + Gain(f, r) * reward[f][r].boosted
<1> DEFINE k == [a \in Accounts |-> Claim(a, f, r)]
           o == [a \in Accounts |-> Owed(a, f, r)']
<1>1. \A a \in Accounts : Owed(a, f, r)' = Claim(a, f, r)
  BY DEF Owed, Claim
<1>2. o = k
  BY <1>1
<1>3. OwedBy(f, r)' = SumFunctionOnSet(o, Accounts)
  BY DEF OwedBy, SumFunction
<1> QED BY <1>2, <1>3, OwedByType

\* A claim takes what its account is owed out of that.
LEMMA OwedByClaimed ==
  ASSUME Inv, Inv', NEW a \in Accounts, NEW f \in Tokens, NEW r \in Tokens,
         \A b \in Accounts \ {a} : entry'[b] = entry[b], Owed(a, f, r)' = 0,
         reward'[f][r].per_share = Updated(f, r).per_share
  PROVE  OwedBy(f, r)' = OwedBy(f, r) + Gain(f, r) * reward[f][r].boosted - Claim(a, f, r)
<1> DEFINE k == [b \in Accounts |-> Claim(b, f, r)]
           o == [b \in Accounts |-> Owed(b, f, r)']
<1>1. \A b \in Accounts \ {a} : Owed(b, f, r)' = Claim(b, f, r)
  BY DEF Owed, Claim
<1>2. /\ \A b \in Accounts : o[b] \in Nat /\ k[b] \in Nat
      /\ \A b \in Accounts \ {a} : k[b] = o[b]
      /\ o[a] = 0 /\ k[a] = Claim(a, f, r)
  <2>1. \A b \in Accounts : k[b] \in Nat
    BY OwedType
  <2>2. ASSUME NEW b \in Accounts PROVE o[b] \in Nat
    BY <1>1, <2>1, OwedType
  <2> QED BY <1>1, <2>1, <2>2
<1>3. OwedBy(f, r)' = SumFunctionOnSet(o, Accounts)
  BY DEF OwedBy, SumFunction
<1>4. SumFunctionOnSet(k, Accounts) = OwedBy(f, r) + Gain(f, r) * reward[f][r].boosted
  BY OwedByType
<1> HIDE DEF o, k
<1>5. SumFunctionOnSet(o, Accounts) = SumFunctionOnSet(k, Accounts) - k[a] + o[a]
  BY <1>2, EntriesSum
<1>6. SumFunctionOnSet(k, Accounts) \in Nat
  BY <1>2, FarmSets, SumType
<1>7. OwedBy(f, r)' = SumFunctionOnSet(k, Accounts) - Claim(a, f, r)
  <2> DEFINE x == SumFunctionOnSet(k, Accounts)
             c == Claim(a, f, r)
  <2>1. x \in Nat /\ c \in Nat /\ OwedBy(f, r)' = x - c + 0
    BY <1>2, <1>3, <1>5, <1>6
  <2> HIDE DEF x, c
  <2>2. OwedBy(f, r)' = x - c
    BY <2>1
  <2> QED BY <2>2 DEF x, c
<1>8. OwedBy(f, r)' = (OwedBy(f, r) + Gain(f, r) * reward[f][r].boosted) - Claim(a, f, r)
  BY <1>4, <1>7
<1> DEFINE y == OwedBy(f, r)
           g == Gain(f, r) * reward[f][r].boosted
           c == Claim(a, f, r)
<1>9. y \in Nat /\ g \in Nat /\ c \in Nat
  <2>1. Gain(f, r) \in Nat /\ reward[f][r].boosted \in Nat
    BY UpdateRounds DEF Inv, TypeOK, RewardType
  <2>2. g \in Nat
    BY <2>1, ProductType
  <2> QED BY <2>2, OwedByType, OwedType
<1> HIDE DEF y, g, c
<1>10. (y + g) - c = y + g - c
  BY <1>9
<1> QED BY <1>8, <1>10 DEF y, g, c

-----------------------------------------------------------------------------
\* The balance of one farm, and of all.

\* What a handler takes out of a farm and pays, `left` in the reward, differs
\* from what it strikes off the records by the rounding of one claim and of one
\* update.
Within(f, r, left, paid) ==
    LET before == Fine * reward[f][r].remaining + OwedBy(f, r)
        after  == Fine * left + Fine * paid + OwedBy(f, r)'
        fee    == IF reward[f][r].status = "none" THEN 0 ELSE Fine
    IN  /\ 2 * after <= 2 * before + fee
        /\ 2 * before <= 2 * after + fee + 2 * reward[f][r].boosted

\* A farm that is left alone.
LEMMA AloneWithin ==
  ASSUME Inv, NEW f \in Tokens, NEW r \in Tokens, OwedBy(f, r)' = OwedBy(f, r)
  PROVE  Within(f, r, reward[f][r].remaining, 0)
<1> DEFINE x == Fine * reward[f][r].remaining
           o == OwedBy(f, r)
           B == reward[f][r].boosted
           fee == IF reward[f][r].status = "none" THEN 0 ELSE Fine
<1>1. reward[f][r].remaining \in Nat /\ B \in Nat /\ Fine \in Nat
  BY FarmNumbers DEF Inv, TypeOK, RewardType
<1>2. x \in Nat /\ o \in Nat /\ fee \in Nat /\ Fine * 0 = 0
  <2>1. x \in Nat
    BY <1>1, ProductType
  <2>2. o \in Nat
    BY OwedByType
  <2>3. fee \in Nat
    BY <1>1
  <2>4. Fine * 0 = 0
    BY <1>1
  <2> QED BY <2>1, <2>2, <2>3, <2>4
<1> HIDE DEF x, o, B, fee
<1>3. x + 0 + o = x + o /\ 2 * (x + o) <= 2 * (x + o) + fee
      /\ 2 * (x + o) <= 2 * (x + o) + fee + 2 * B
  BY <1>1, <1>2
<1> QED BY <1>2, <1>3 DEF Within, x, o, B, fee

\* A farm that is updated, its records only raised.
LEMMA UpdateWithin ==
  ASSUME Inv, NEW f \in Tokens, NEW r \in Tokens,
         OwedBy(f, r)' = OwedBy(f, r) + Gain(f, r) * reward[f][r].boosted
  PROVE  Within(f, r, Updated(f, r).remaining, 0)
<1> DEFINE n == reward[f][r].remaining
           u == Updated(f, r).remaining
           o == OwedBy(f, r)
           B == reward[f][r].boosted
           g == Gain(f, r) * B
           fee == IF reward[f][r].status = "none" THEN 0 ELSE Fine
<1>1. n \in Nat /\ B \in Nat /\ Fine \in Nat /\ u \in Nat /\ Gain(f, r) \in Nat
  BY FarmNumbers, UpdatedType, UpdateRounds DEF Inv, TypeOK, RewardType
<1>2. g \in Nat /\ o \in Nat /\ fee \in Nat /\ Fine * 0 = 0
  <2>1. g \in Nat
    BY <1>1, ProductType
  <2>2. o \in Nat
    BY OwedByType
  <2>3. fee \in Nat
    BY <1>1
  <2>4. Fine * 0 = 0
    BY <1>1
  <2> QED BY <2>1, <2>2, <2>3, <2>4
<1>3. n - u \in Nat /\ g <= Fine * (n - u) /\ Fine * (n - u) <= g + B
  BY UpdateRounds DEF Got
<1>4. Within(f, r, u, 0) <=> /\ 2 * (Fine * u + Fine * 0 + (o + g)) <= 2 * (Fine * n + o) + fee
                             /\ 2 * (Fine * n + o) <= 2 * (Fine * u + Fine * 0 + (o + g)) + fee + 2 * B
  BY DEF Within
<1> HIDE DEF n, u, o, B, g, fee
<1>5. Fine * (n - u) = Fine * n - Fine * u /\ Fine * n \in Nat /\ Fine * u \in Nat
  BY <1>1, ProductType
<1> DEFINE x == Fine * n
           y == Fine * u
<1>6. x \in Nat /\ y \in Nat /\ g <= x - y /\ x - y <= g + B
  BY <1>3, <1>5
<1> HIDE DEF x, y
<1>7. /\ 2 * (y + 0 + (o + g)) <= 2 * (x + o) + fee
      /\ 2 * (x + o) <= 2 * (y + 0 + (o + g)) + fee + 2 * B
  BY <1>1, <1>2, <1>6
<1> QED BY <1>2, <1>4, <1>7 DEF x, y, u

\* A farm that is updated and claimed from.
LEMMA ClaimWithin ==
  ASSUME Inv, UpToDate, NEW a \in Accounts, NEW f \in Tokens, NEW r \in Tokens,
         OwedBy(f, r)' = OwedBy(f, r) + Gain(f, r) * reward[f][r].boosted - Claim(a, f, r)
  PROVE  Within(f, r, Updated(f, r).remaining, Due(a, f, r))
<1> DEFINE n == reward[f][r].remaining
           u == Updated(f, r).remaining
           o == OwedBy(f, r)
           B == reward[f][r].boosted
           g == Gain(f, r) * B
           c == Claim(a, f, r)
           d == Fine * Due(a, f, r)
           fee == IF reward[f][r].status = "none" THEN 0 ELSE Fine
<1>1. n \in Nat /\ B \in Nat /\ Fine \in Nat /\ u \in Nat /\ Gain(f, r) \in Nat
      /\ c \in Nat /\ Due(a, f, r) \in Nat
  BY FarmNumbers, UpdatedType, UpdateRounds, OwedType, DueType DEF Inv, TypeOK, RewardType
<1>2. g \in Nat /\ o \in Nat /\ fee \in Nat /\ d \in Nat /\ Fine * 0 = 0
  <2>1. g \in Nat
    BY <1>1, ProductType
  <2>2. o \in Nat
    BY OwedByType
  <2>3. fee \in Nat
    BY <1>1
  <2>4. d \in Nat
    BY <1>1, ProductType
  <2>5. Fine * 0 = 0
    BY <1>1
  <2> QED BY <2>1, <2>2, <2>3, <2>4, <2>5
<1>3. n - u \in Nat /\ g <= Fine * (n - u) /\ Fine * (n - u) <= g + B
  BY UpdateRounds DEF Got
<1>4. 2 * d <= 2 * c + fee /\ 2 * c <= 2 * d + fee
  <2>1. CASE reward[f][r].status = "none"
    <3>1. c = 0 /\ d = 0 /\ fee = 0
      BY <1>2, <2>1, DueRounds
    <3> QED BY <3>1
  <2>2. CASE reward[f][r].status # "none"
    BY <2>2, DueRounds
  <2> QED BY <2>1, <2>2
<1>5. Within(f, r, u, Due(a, f, r)) <=>
        /\ 2 * (Fine * u + d + (o + g - c)) <= 2 * (Fine * n + o) + fee
        /\ 2 * (Fine * n + o) <= 2 * (Fine * u + d + (o + g - c)) + fee + 2 * B
  BY DEF Within
<1> HIDE DEF n, u, o, B, g, c, d, fee
<1>6. Fine * (n - u) = Fine * n - Fine * u /\ Fine * n \in Nat /\ Fine * u \in Nat
  BY <1>1, ProductType
<1> DEFINE x == Fine * n
           y == Fine * u
<1>7. x \in Nat /\ y \in Nat /\ g <= x - y /\ x - y <= g + B
  BY <1>3, <1>6
<1> HIDE DEF x, y
<1>8. /\ 2 * (y + d + (o + g - c)) <= 2 * (x + o) + fee
      /\ 2 * (x + o) <= 2 * (y + d + (o + g - c)) + fee + 2 * B
  BY <1>1, <1>2, <1>4, <1>7
<1> QED BY <1>5, <1>8 DEF x, y, u
-----------------------------------------------------------------------------
\* Bounds that hold of each term of some sums hold of the sums.
LEMMA SumsWithin ==
  ASSUME NEW S, IsFiniteSet(S), NEW c \in Nat, NEW rem, NEW left, NEW paid, NEW old, NEW new,
         NEW fee, NEW bound,
         \A x \in S :
            /\ rem[x] \in Nat /\ left[x] \in Nat /\ paid[x] \in Nat /\ old[x] \in Nat
            /\ new[x] \in Nat /\ fee[x] \in Nat /\ bound[x] \in Nat
            /\ 2 * (c * left[x] + c * paid[x] + new[x]) <= 2 * (c * rem[x] + old[x]) + fee[x]
            /\ 2 * (c * rem[x] + old[x])
                 <= 2 * (c * left[x] + c * paid[x] + new[x]) + fee[x] + 2 * bound[x]
  PROVE  /\ 2 * (c * SumFunctionOnSet(left, S) + c * SumFunctionOnSet(paid, S)
                 + SumFunctionOnSet(new, S))
              <= 2 * (c * SumFunctionOnSet(rem, S) + SumFunctionOnSet(old, S))
                 + SumFunctionOnSet(fee, S)
         /\ 2 * (c * SumFunctionOnSet(rem, S) + SumFunctionOnSet(old, S))
              <= 2 * (c * SumFunctionOnSet(left, S) + c * SumFunctionOnSet(paid, S)
                      + SumFunctionOnSet(new, S))
                 + SumFunctionOnSet(fee, S) + 2 * SumFunctionOnSet(bound, S)
<1> DEFINE cr == [x \in S |-> c * rem[x]]
           cl == [x \in S |-> c * left[x]]
           cp == [x \in S |-> c * paid[x]]
           lp == [x \in S |-> cl[x] + cp[x]]
           in == [x \in S |-> cr[x] + old[x]]
           out == [x \in S |-> lp[x] + new[x]]
           in2 == [x \in S |-> 2 * in[x]]
           out2 == [x \in S |-> 2 * out[x]]
           b2 == [x \in S |-> 2 * bound[x]]
           more == [x \in S |-> in2[x] + fee[x]]
           outf == [x \in S |-> out2[x] + fee[x]]
           most == [x \in S |-> outf[x] + b2[x]]
           sum(f) == SumFunctionOnSet(f, S)
<1>1. \A x \in S : cr[x] = c * rem[x] /\ cr[x] \in Nat
  BY ProductType
<1>2. \A x \in S : cl[x] = c * left[x] /\ cl[x] \in Nat
  BY ProductType
<1>3. \A x \in S : cp[x] = c * paid[x] /\ cp[x] \in Nat
  BY ProductType
<1>4. \A x \in S : lp[x] = cl[x] + cp[x] /\ lp[x] \in Nat
  <2> HIDE DEF cl, cp
  <2> QED BY <1>2, <1>3
<1>5. \A x \in S : in[x] = cr[x] + old[x] /\ in[x] \in Nat
  <2> HIDE DEF cr
  <2> QED BY <1>1
<1>6. \A x \in S : out[x] = lp[x] + new[x] /\ out[x] \in Nat
  <2> HIDE DEF lp
  <2> QED BY <1>4
<1>7. \A x \in S : in2[x] = 2 * in[x] /\ in2[x] \in Nat
  <2> HIDE DEF in
  <2> QED BY <1>5
<1>8. \A x \in S : out2[x] = 2 * out[x] /\ out2[x] \in Nat
  <2> HIDE DEF out
  <2> QED BY <1>6
<1>9. \A x \in S : b2[x] = 2 * bound[x] /\ b2[x] \in Nat
  OBVIOUS
<1>10. \A x \in S : more[x] = in2[x] + fee[x] /\ more[x] \in Nat
  <2> HIDE DEF in2
  <2> QED BY <1>7
<1>11. \A x \in S : outf[x] = out2[x] + fee[x] /\ outf[x] \in Nat
  <2> HIDE DEF out2
  <2> QED BY <1>8
<1>12. \A x \in S : most[x] = outf[x] + b2[x] /\ most[x] \in Nat
  <2> HIDE DEF outf, b2
  <2> QED BY <1>9, <1>11
<1> HIDE DEF cr, cl, cp, lp, in, out, in2, out2, b2, more, outf, most
<1>13. \A x \in S : out2[x] <= more[x] /\ in2[x] <= most[x]
  BY <1>1, <1>2, <1>3, <1>4, <1>5, <1>6, <1>7, <1>8, <1>9, <1>10, <1>11, <1>12
<1>14. sum(out2) <= sum(more) /\ sum(in2) <= sum(most)
  <2>1. sum(out2) <= sum(more)
    BY <1>8, <1>10, <1>13, SumMonotone
  <2>2. sum(in2) <= sum(most)
    BY <1>7, <1>12, <1>13, SumMonotone
  <2> QED BY <2>1, <2>2
<1>15. sum(cr) = c * sum(rem) /\ sum(cl) = c * sum(left) /\ sum(cp) = c * sum(paid)
  <2>1. sum(cr) = c * sum(rem)
    BY <1>1, SumScale
  <2>2. sum(cl) = c * sum(left)
    BY <1>2, SumScale
  <2>3. sum(cp) = c * sum(paid)
    BY <1>3, SumScale
  <2> QED BY <2>1, <2>2, <2>3
<1>16. sum(lp) = sum(cl) + sum(cp) /\ sum(out) = sum(lp) + sum(new)
  <2>1. sum(lp) = sum(cl) + sum(cp)
    BY <1>2, <1>3, <1>4, SumPlus
  <2>2. sum(out) = sum(lp) + sum(new)
    BY <1>4, <1>6, SumPlus
  <2> QED BY <2>1, <2>2
<1>17. sum(in) = sum(cr) + sum(old)
  BY <1>1, <1>5, SumPlus
<1>18. sum(in2) = 2 * sum(in) /\ sum(out2) = 2 * sum(out) /\ sum(b2) = 2 * sum(bound)
  <2>1. sum(in2) = 2 * sum(in)
    BY <1>5, <1>7, SumScale
  <2>2. sum(out2) = 2 * sum(out)
    BY <1>6, <1>8, SumScale
  <2>3. sum(b2) = 2 * sum(bound)
    BY <1>9, SumScale
  <2> QED BY <2>1, <2>2, <2>3
<1>19. sum(more) = sum(in2) + sum(fee)
  BY <1>7, <1>10, SumPlus
<1>20. sum(most) = sum(out2) + sum(fee) + sum(b2)
  <2>1. sum(outf) = sum(out2) + sum(fee)
    BY <1>8, <1>11, SumPlus
  <2>2. sum(most) = sum(outf) + sum(b2)
    BY <1>9, <1>11, <1>12, SumPlus
  <2> QED BY <2>1, <2>2
<1> QED BY <1>14, <1>15, <1>16, <1>17, <1>18, <1>19, <1>20

\* The tokens of an asset that the contract keeps, in the pool and the reserve.
Worth(as) == as.supplied.balance + as.reserved

\* The tokens of r that the contract has, less what is supplied, reserved, on
\* its way out or staked.
InFlight(r) == SumFunction([s \in Slots |-> IF transfer[s] # NoTransfer /\ transfer[s].token = r
                                            THEN transfer[s].amount ELSE 0])
AtStake(r) == IF r = Booster THEN SumFunction([a \in Accounts |-> staking[a].amount + legacy[a]])
              ELSE 0
Kept(r) == cash[r] - Worth(asset[r]) - InFlight(r) - AtStake(r)

\* What RewardsBalance says of a step and a token.
Balanced(r) ==
    LET drift == (Fine * Unpaid(r) - Earned(r))' - (Fine * Unpaid(r) - Earned(r))
        farms == {f \in Tokens : reward[f][r].status # "none"}
    IN  /\ - Fine * Cardinality(farms) <= 2 * drift
        /\ 2 * drift <= Fine * Cardinality(farms)
                        + 2 * SumFunction([f \in Tokens |-> reward[f][r].boosted])

\* If every farm's reward is within its bounds, and what is unpaid changes by
\* what leaves the farms and what is paid, the step is balanced.
LEMMA BalancedSum ==
  ASSUME Inv, Inv', NEW r \in Tokens, NEW left \in [Tokens -> Nat], NEW paid \in [Tokens -> Nat],
         \A f \in Tokens : Within(f, r, left[f], paid[f]),
         Unpaid(r) \in Int,
         Unpaid(r)' = Unpaid(r)
                      + (SumFunction([f \in Tokens |-> reward[f][r].remaining])
                         - SumFunctionOnSet(left, Tokens) - SumFunctionOnSet(paid, Tokens))
  PROVE  Balanced(r)
<1> DEFINE rem == [f \in Tokens |-> reward[f][r].remaining]
           old == [f \in Tokens |-> OwedBy(f, r)]
           new == [f \in Tokens |-> OwedBy(f, r)']
           has == [f \in Tokens |-> IF reward[f][r].status = "none" THEN 0 ELSE 1]
           fee == [f \in Tokens |-> IF reward[f][r].status = "none" THEN 0 ELSE Fine]
           bound == [f \in Tokens |-> reward[f][r].boosted]
           farms == {f \in Tokens : reward[f][r].status # "none"}
           sum(f) == SumFunctionOnSet(f, Tokens)
<1>1. Fine \in Nat /\ IsFiniteSet(Tokens)
  BY FarmNumbers, FarmSets
<1>2. \A f \in Tokens : rem[f] \in Nat /\ bound[f] \in Nat /\ fee[f] \in Nat
  BY <1>1 DEF Inv, TypeOK, RewardType
<1>3. \A f \in Tokens : old[f] \in Nat
  BY OwedByType
<1>4. \A f \in Tokens : new[f] \in Nat
  BY OwedAfter
<1>5. \A f \in Tokens :
        /\ 2 * (Fine * left[f] + Fine * paid[f] + new[f]) <= 2 * (Fine * rem[f] + old[f]) + fee[f]
        /\ 2 * (Fine * rem[f] + old[f])
             <= 2 * (Fine * left[f] + Fine * paid[f] + new[f]) + fee[f] + 2 * bound[f]
  BY DEF Within
<1>6. sum(fee) = Fine * Cardinality(farms) /\ Cardinality(farms) \in Nat
  <2>1. \A f \in Tokens : has[f] \in Nat /\ fee[f] = Fine * has[f]
    BY <1>1
  <2>2. sum(fee) = Fine * sum(has)
    <3> HIDE DEF fee, has
    <3> QED BY <1>1, <2>1, SumScale
  <2>3. sum(has) = Cardinality(farms)
    <3>1. farms \subseteq Tokens /\ \A f \in Tokens : has[f] = IF f \in farms THEN 1 ELSE 0
      OBVIOUS
    <3> HIDE DEF farms, has
    <3> QED BY <1>1, <3>1, SumCount
  <2>4. Cardinality(farms) \in Nat
    <3>1. farms \subseteq Tokens
      OBVIOUS
    <3> HIDE DEF farms
    <3> QED BY <1>1, <3>1, FS_Subset, FS_CardinalityType
  <2> QED BY <2>2, <2>3, <2>4
<1>7. Earned(r) = sum(old) /\ Earned(r)' = sum(new)
  BY DEF Earned, OwedBy, Owed, SumFunction
<1>8. /\ SumFunction([f \in Tokens |-> reward[f][r].remaining]) = sum(rem)
      /\ SumFunction([f \in Tokens |-> reward[f][r].boosted]) = sum(bound)
  BY DEF SumFunction
<1> HIDE DEF rem, old, new, has, fee, bound, farms
<1>9. /\ 2 * (Fine * sum(left) + Fine * sum(paid) + sum(new)) <= 2 * (Fine * sum(rem) + sum(old)) + sum(fee)
      /\ 2 * (Fine * sum(rem) + sum(old))
           <= 2 * (Fine * sum(left) + Fine * sum(paid) + sum(new)) + sum(fee) + 2 * sum(bound)
  BY <1>1, <1>2, <1>3, <1>4, <1>5, SumsWithin
<1>10. /\ sum(left) \in Nat /\ sum(paid) \in Nat /\ sum(new) \in Nat /\ sum(old) \in Nat
       /\ sum(rem) \in Nat /\ sum(fee) \in Nat /\ sum(bound) \in Nat
  BY <1>1, <1>2, <1>3, <1>4, SumType
<1> DEFINE u == Unpaid(r)
           v == Unpaid(r)'
           drift == (Fine * v - sum(new)) - (Fine * u - sum(old))
<1>11. u \in Int /\ v = u + (sum(rem) - sum(left) - sum(paid))
  BY <1>8
<1>12. Balanced(r) <=> /\ - (Fine * Cardinality(farms)) <= 2 * drift
                       /\ 2 * drift <= Fine * Cardinality(farms) + 2 * sum(bound)
  BY <1>7, <1>8 DEF Balanced, farms
<1> DEFINE l == sum(left)
           p == sum(paid)
           n == sum(rem)
<1> HIDE DEF u, v, l, p, n
<1>13. Fine * v - Fine * u = Fine * n - Fine * l - Fine * p
  <2>1. l \in Nat /\ p \in Nat /\ n \in Nat /\ v = u + (n - l - p)
    BY <1>10, <1>11 DEF l, p, n
  <2>2. Fine * (u + (n - l - p)) = Fine * u + (Fine * n - Fine * l - Fine * p)
    BY <1>1, <1>11, <2>1
  <2>3. /\ Fine * u \in Int /\ Fine * n \in Int /\ Fine * l \in Int /\ Fine * p \in Int
    BY <1>1, <1>11, <2>1
  <2> QED BY <2>1, <2>2, <2>3
<1> DEFINE w == Fine * Cardinality(farms)
           x == sum(old)
           y == sum(new)
           b == sum(bound)
           fv == Fine * v
           fu == Fine * u
           fn == Fine * n
           fl == Fine * l
           fp == Fine * p
<1>14. /\ w \in Nat /\ x \in Nat /\ y \in Nat /\ b \in Nat
       /\ fn \in Int /\ fl \in Int /\ fp \in Int /\ fu \in Int /\ fv \in Int
  <2>1. w \in Nat
    BY <1>1, <1>6, ProductType
  <2>2. v \in Int /\ l \in Int /\ p \in Int /\ n \in Int
    BY <1>10, <1>11 DEF l, p, n
  <2>3. fn \in Int /\ fl \in Int /\ fp \in Int /\ fu \in Int /\ fv \in Int
    BY <1>1, <1>11, <2>2
  <2> QED BY <1>10, <2>1, <2>3
<1>15. /\ fv - fu = fn - fl - fp
       /\ 2 * (fl + fp + y) <= 2 * (fn + x) + w
       /\ 2 * (fn + x) <= 2 * (fl + fp + y) + w + 2 * b
  BY <1>6, <1>9, <1>13 DEF l, p, n
<1>16. drift = (fv - y) - (fu - x)
  OBVIOUS
<1> HIDE DEF w, x, y, b, fv, fu, fn, fl, fp
<1>17. /\ - w <= 2 * ((fv - y) - (fu - x))
       /\ 2 * ((fv - y) - (fu - x)) <= w + 2 * b
  BY <1>14, <1>15
<1>18. /\ - w <= 2 * drift /\ 2 * drift <= w + 2 * b
  BY <1>16, <1>17
<1> QED BY <1>12, <1>18 DEF w, b

-----------------------------------------------------------------------------
\* What applying the farms does to the records.

\* A renewed entry has a record of active rewards only, and each says what a
\* share has earned by now; the reward keeps what the update left.
LEMMA RenewedRecords ==
  ASSUME Inv, UpToDate, NEW a \in Accounts, NEW f \in Tokens,
         supplied'[a][f] \in Nat, staking'[a].x \in Nat,
         Active(f) \subseteq Claimed(a, f).rewards
  PROVE  /\ RecountedEntry(a, f).rewards \subseteq Active(f)
         /\ \A r \in RecountedEntry(a, f).rewards :
               RecountedEntry(a, f).last[r] = Updated(f, r).per_share
         /\ \A r \in Tokens : RecountedReward(a, f, r).remaining = Updated(f, r).remaining
<1>1. Claimed(a, f) \in EntryType /\ Claimed(a, f).rewards \subseteq Active(f)
  BY ClaimedType
<1>2. \A r \in Claimed(a, f).rewards : Claimed(a, f).last[r] = Updated(f, r).per_share
  <2>1. CASE entry[a][f].at = now
    <3>1. Claimed(a, f) = entry[a][f]
      BY <2>1 DEF Claimed
    <3>2. entry[a][f].rewards \subseteq Tokens
      BY DEF Inv, TypeOK, EntryType
    <3>3. farmAt[f] = now
          /\ \A r \in entry[a][f].rewards : entry[a][f].last[r] = reward[f][r].per_share
      BY <2>1 DEF UpToDate
    <3>4. \A r \in Tokens : Updated(f, r) = reward[f][r]
      BY <3>3, UpdatedType
    <3> QED BY <3>1, <3>2, <3>3, <3>4
  <2>2. CASE entry[a][f].at # now
    BY <2>2 DEF Claimed, Active
  <2> QED BY <2>1, <2>2
<1>3. /\ RecountedEntry(a, f).rewards \subseteq Active(f)
      /\ \A r \in RecountedEntry(a, f).rewards :
            RecountedEntry(a, f).last[r] = Updated(f, r).per_share
  <2>1. CASE Counted(a, f) = 0
    <3>1. RecountedEntry(a, f) = NoEntry /\ NoEntry.rewards = {}
      BY <2>1 DEF RecountedEntry, NoEntry
    <3> QED BY <3>1
  <2>2. CASE Counted(a, f) # 0
    <3>1. /\ RecountedEntry(a, f).rewards = Claimed(a, f).rewards
          /\ RecountedEntry(a, f).last = Claimed(a, f).last
      BY <1>1, <2>2 DEF RecountedEntry, EntryType
    <3> QED BY <1>1, <1>2, <3>1
  <2> QED BY <2>1, <2>2
<1>4. ASSUME NEW r \in Tokens
      PROVE  RecountedReward(a, f, r).remaining = Updated(f, r).remaining
  <2>1. Updated(f, r) \in RewardType
    BY UpdatedType
  <2> QED BY <2>1 DEF RecountedReward, RewardType
<1> QED BY <1>3, <1>4

\* The farms that a handler has brought up to date, and what their records,
\* those of other accounts and other farms are afterwards.
Settled(a, farms) ==
    /\ \A b \in Accounts \ {a} : entry'[b] = entry[b]
    /\ \A f \in farms :
          /\ Farming(f) /\ farmAt'[f] = now
          /\ entry'[a][f].rewards \subseteq Active(f)
          /\ \A r \in entry'[a][f].rewards : entry'[a][f].last[r] = Updated(f, r).per_share
          /\ \A r \in Tokens : /\ reward'[f][r].remaining = Updated(f, r).remaining
                               /\ reward'[f][r].per_share = Updated(f, r).per_share
                               /\ reward'[f][r].status = Updated(f, r).status
    /\ \A f \in Tokens \ farms :
          entry'[a][f] = entry[a][f] /\ reward'[f] = reward[f] /\ farmAt'[f] = farmAt[f]

\* What a handler's farms pay of a reward.
PaidOf(a, farms, r) == [f \in Tokens |-> IF f \in farms THEN Due(a, f, r) ELSE 0]

\* What a deposit and a withdrawal do to the worth of an asset.
LEMMA SavedWorth ==
  ASSUME NEW old \in AssetType
  PROVE  /\ \A n \in Nat : Worth(Deposited(old, n)) = Worth(old) + n
         /\ \A move : /\ move.shares \in Nat /\ move.amount \in Nat
                      /\ CanWithdraw(old.supplied, move.shares, move.amount)
                      => Worth(Withdrawn(old, move)) = Worth(old) - move.amount
         /\ Worth(old) \in Nat
<1>1. old.supplied \in PoolType /\ old.reserved \in Nat
  BY DEF AssetType
<1>2. ASSUME NEW pool \in PoolType
      PROVE  Worth(Normalized([old EXCEPT !.supplied = pool])) = pool.balance + old.reserved
  <2> DEFINE new == [old EXCEPT !.supplied = pool]
             sum == new.reserved + new.supplied.balance
  <2>1. new \in AssetType /\ new.supplied = pool /\ new.reserved = old.reserved
    BY DEF AssetType
  <2>2. pool.balance \in Nat /\ EmptyPool.balance = 0
    BY DEF PoolType, EmptyPool
  <2>3. Normalized(new) = IF new.supplied.shares = 0
                          THEN [new EXCEPT !.reserved = sum, !.supplied = EmptyPool]
                          ELSE new
    BY DEF Normalized
  <2> HIDE DEF new
  <2>4. sum = old.reserved + pool.balance
    BY <2>1
  <2> HIDE DEF sum
  <2>5. CASE new.supplied.shares = 0
    <3>1. Normalized(new) = [new EXCEPT !.reserved = sum, !.supplied = EmptyPool]
      BY <2>3, <2>5
    <3>2. Normalized(new).reserved = sum /\ Normalized(new).supplied = EmptyPool
      BY <2>1, <3>1 DEF AssetType
    <3>3. Worth(Normalized(new)) = 0 + (old.reserved + pool.balance)
      BY <2>2, <2>4, <3>2 DEF Worth
    <3>4. Worth(Normalized(new)) = pool.balance + old.reserved
      BY <1>1, <2>2, <3>3
    <3> QED BY <3>4 DEF new
  <2>6. CASE new.supplied.shares # 0
    <3>1. Worth(Normalized(new)) = pool.balance + old.reserved
      BY <2>1, <2>3, <2>6 DEF Worth
    <3> QED BY <3>1 DEF new
  <2> QED BY <2>5, <2>6
<1>3. ASSUME NEW n \in Nat
      PROVE  Worth(Deposited(old, n)) = Worth(old) + n
  <2> DEFINE pool == PoolDeposit(old.supplied, AmountToShares(old.supplied, n, FALSE), n)
  <2>1. AmountToShares(old.supplied, n, FALSE) \in Nat
    BY <1>1, AmountToSharesType
  <2>2. pool \in PoolType /\ pool.balance = old.supplied.balance + n
    BY <1>1, <2>1, PoolOperations DEF PoolDeposit, PoolType
  <2>3. Deposited(old, n) = Normalized([old EXCEPT !.supplied = pool])
    BY DEF Deposited
  <2> HIDE DEF pool
  <2>4. Worth(Deposited(old, n)) = (old.supplied.balance + n) + old.reserved
    BY <1>2, <2>2, <2>3
  <2> QED BY <1>1, <2>4 DEF Worth, PoolType
<1>4. ASSUME NEW move, move.shares \in Nat, move.amount \in Nat,
             CanWithdraw(old.supplied, move.shares, move.amount)
      PROVE  Worth(Withdrawn(old, move)) = Worth(old) - move.amount
  <2> DEFINE pool == PoolWithdraw(old.supplied, move.shares, move.amount)
  <2>1. pool \in PoolType /\ pool.balance = old.supplied.balance - move.amount
    BY <1>1, <1>4, PoolOperations DEF PoolWithdraw, PoolType
  <2>2. Withdrawn(old, move) = Normalized([old EXCEPT !.supplied = pool])
    BY DEF Withdrawn
  <2> HIDE DEF pool
  <2>3. Worth(Withdrawn(old, move)) = (old.supplied.balance - move.amount) + old.reserved
    BY <1>2, <2>1, <2>2
  <2> QED BY <1>1, <1>4, <2>3 DEF Worth, PoolType
<1>5. Worth(old) \in Nat
  BY <1>1 DEF Worth, PoolType
<1> QED BY <1>3, <1>4, <1>5

\* Applying the affected farms settles them, and pays what is due out of them
\* into the assets.
LEMMA AppliedSettled ==
  ASSUME Inv, UpToDate, NEW a \in Accounts, NEW touched \in SUBSET Tokens,
         NEW assets \in [Tokens -> AssetType], NEW held \in [Tokens -> Nat],
         NEW stake \in StakeType, Bounded(stake),
         ApplyFarms(a, touched, assets, held, stake)
  PROVE  \E farms \in SUBSET Tokens :
            /\ Settled(a, farms)
            /\ \A r \in Tokens : Worth(asset'[r]) = Worth(assets[r])
                                                    + SumFunctionOnSet(PaidOf(a, farms, r), Tokens)
<1> DEFINE farms  == {f \in AffectedFarms(a, touched) : Farming(f)}
           due(t) == SumFunction(PaidOf(a, farms, t))
<1>1. farms \subseteq Tokens /\ \A f \in farms : Farming(f)
  BY DEF AffectedFarms
<1>2. /\ \A f \in farms : Active(f) \subseteq Claimed(a, f).rewards
      /\ asset' = [t \in Tokens |->
                      IF due(t) = 0 THEN assets[t] ELSE Deposited(assets[t], due(t))]
      /\ staking' = [staking EXCEPT ![a] = Synced(stake)]
      /\ entry' = [entry EXCEPT ![a] = [f \in Tokens |->
             IF f \in farms THEN RecountedEntry(a, f) ELSE @[f]]]
      /\ reward' = [f \in Tokens |-> [r \in Tokens |->
             IF f \in farms THEN RecountedReward(a, f, r) ELSE reward[f][r]]]
      /\ farmAt' = [f \in Tokens |-> IF f \in farms THEN now ELSE farmAt[f]]
      /\ CanSync(stake)
  BY DEF ApplyFarms, PaidOf
<1> HIDE DEF farms
<1>3. \A t \in Tokens : /\ due(t) = SumFunctionOnSet(PaidOf(a, farms, t), Tokens)
                        /\ due(t) \in Nat
  <2> TAKE t \in Tokens
  <2> DEFINE g == PaidOf(a, farms, t)
  <2>1. \A f \in Tokens : g[f] \in Nat
    BY DueType DEF PaidOf
  <2>2. DOMAIN g = Tokens
    BY DEF PaidOf
  <2> HIDE DEF g
  <2>3. SumFunctionOnSet(g, Tokens) \in Nat
    BY <2>1, FarmSets, SumType
  <2>4. SumFunction(g) = SumFunctionOnSet(g, Tokens)
    BY <2>2 DEF SumFunction
  <2> QED BY <2>3, <2>4 DEF g
<1> HIDE DEF due
<1>4. /\ entry \in [Accounts -> [Tokens -> EntryType]]
      /\ reward \in [Tokens -> [Tokens -> RewardType]]
      /\ staking \in [Accounts -> StakeType]
  BY DEF Inv, TypeOK
<1>5. supplied'[a] \in [Tokens -> Nat] /\ staking'[a].x \in Nat
  <2>1. supplied' \in [Accounts -> [Tokens -> Nat]]
    BY Applied
  <2>2. Synced(stake) \in StakeType /\ staking'[a] = Synced(stake)
    BY <1>2, <1>4, SyncedType
  <2> QED BY <2>1, <2>2 DEF StakeType
<1>6. /\ \A b \in Accounts \ {a} : entry'[b] = entry[b]
      /\ \A f \in Tokens : entry'[a][f] = IF f \in farms THEN RecountedEntry(a, f)
                                          ELSE entry[a][f]
  BY <1>2, <1>4
<1>7. /\ \A f \in Tokens, r \in Tokens :
            reward'[f][r] = IF f \in farms THEN RecountedReward(a, f, r) ELSE reward[f][r]
      /\ \A f \in Tokens \ farms : reward'[f] = reward[f]
      /\ \A f \in Tokens : farmAt'[f] = IF f \in farms THEN now ELSE farmAt[f]
  BY <1>2, <1>4 DEF Inv, TypeOK
<1>8. ASSUME NEW f \in farms
      PROVE  /\ farmAt'[f] = now
             /\ entry'[a][f].rewards \subseteq Active(f)
             /\ \A r \in entry'[a][f].rewards : entry'[a][f].last[r] = Updated(f, r).per_share
             /\ \A r \in Tokens : /\ reward'[f][r].remaining = Updated(f, r).remaining
                                  /\ reward'[f][r].per_share = Updated(f, r).per_share
                                  /\ reward'[f][r].status = Updated(f, r).status
  <2>1. f \in Tokens /\ supplied'[a][f] \in Nat /\ Active(f) \subseteq Claimed(a, f).rewards
    BY <1>1, <1>2, <1>5
  <2>2. entry'[a][f] = RecountedEntry(a, f) /\ farmAt'[f] = now
    BY <1>6, <1>7, <2>1
  <2>3. \A r \in Tokens : reward'[f][r] = RecountedReward(a, f, r)
    BY <1>7, <2>1
  <2>4. \A r \in Tokens : /\ RecountedReward(a, f, r).per_share = Updated(f, r).per_share
                          /\ RecountedReward(a, f, r).status = Updated(f, r).status
    BY <1>5, <2>1, Recounted
  <2>5. /\ RecountedEntry(a, f).rewards \subseteq Active(f)
        /\ \A r \in RecountedEntry(a, f).rewards :
              RecountedEntry(a, f).last[r] = Updated(f, r).per_share
        /\ \A r \in Tokens : RecountedReward(a, f, r).remaining = Updated(f, r).remaining
    BY <1>5, <2>1, RenewedRecords
  <2> QED BY <2>2, <2>3, <2>4, <2>5
<1>9. Settled(a, farms)
  BY <1>1, <1>6, <1>7, <1>8 DEF Settled
<1>10. ASSUME NEW r \in Tokens
       PROVE  Worth(asset'[r]) = Worth(assets[r]) + due(r)
  <2>1. assets[r] \in AssetType /\ due(r) \in Nat
    BY <1>3
  <2>2. asset'[r] = IF due(r) = 0 THEN assets[r] ELSE Deposited(assets[r], due(r))
    BY <1>2
  <2>3. CASE due(r) = 0
    <3>1. Worth(assets[r]) \in Nat
      BY <2>1, SavedWorth
    <3> QED BY <2>2, <2>3, <3>1
  <2>4. CASE due(r) # 0
    BY <2>1, <2>2, <2>4, SavedWorth
  <2> QED BY <2>3, <2>4
<1> QED BY <1>1, <1>3, <1>9, <1>10

\* Settled farms leave every record of this block up to date.
LEMMA SettledUpToDate ==
  ASSUME Inv, Inv', UpToDate, NEW a \in Accounts, NEW farms \in SUBSET Tokens, Settled(a, farms),
         now' = now
  PROVE  UpToDate'
<1> SUFFICES ASSUME NEW b \in Accounts, NEW f \in Tokens
             PROVE  /\ \A r \in entry'[b][f].rewards : reward'[f][r].status # "none"
                    /\ entry'[b][f].at = now =>
                          /\ farmAt'[f] = now
                          /\ \A r \in entry'[b][f].rewards :
                                entry'[b][f].last[r] = reward'[f][r].per_share
  BY DEF UpToDate
<1>1. /\ \A r \in entry[b][f].rewards : reward[f][r].status # "none"
      /\ entry[b][f].at = now =>
            /\ farmAt[f] = now
            /\ \A r \in entry[b][f].rewards : entry[b][f].last[r] = reward[f][r].per_share
  BY DEF UpToDate
<1>2. entry[b][f].rewards \subseteq Tokens /\ entry'[b][f].rewards \subseteq Tokens
  BY DEF Inv, TypeOK, EntryType
<1>3. CASE f \in farms /\ b = a
  <2>1. \A r \in Active(f) : Updated(f, r).status # "none"
    BY DEF Active
  <2> QED BY <1>2, <1>3, <2>1 DEF Settled
<1>4. CASE f \in farms /\ b # a
  <2>1. entry'[b] = entry[b] /\ farmAt'[f] = now
    BY <1>4 DEF Settled
  <2>2. \A r \in Tokens : /\ reward'[f][r].per_share = Updated(f, r).per_share
                          /\ reward'[f][r].status = Updated(f, r).status
    BY <1>4 DEF Settled
  <2>3. \A r \in Tokens : /\ Updated(f, r).status = "none" <=> reward[f][r].status = "none"
                          /\ farmAt[f] = now => Updated(f, r) = reward[f][r]
    BY UpdatedType
  <2> QED BY <1>1, <1>2, <2>1, <2>2, <2>3
<1>5. CASE f \notin farms
  <2>1. entry'[b][f] = entry[b][f] /\ reward'[f] = reward[f] /\ farmAt'[f] = farmAt[f]
    BY <1>5 DEF Settled
  <2> QED BY <1>1, <2>1
<1> QED BY <1>3, <1>4, <1>5

\* In each settled farm, and in each other one, a reward is within its bounds.
LEMMA SettledWithin ==
  ASSUME Inv, Inv', UpToDate, NEW a \in Accounts, NEW farms \in SUBSET Tokens, Settled(a, farms),
         NEW f \in Tokens, NEW r \in Tokens
  PROVE  Within(f, r, reward'[f][r].remaining, PaidOf(a, farms, r)[f])
<1>1. CASE f \in farms
  <2>1. /\ reward'[f][r].remaining = Updated(f, r).remaining
        /\ reward'[f][r].per_share = Updated(f, r).per_share
        /\ PaidOf(a, farms, r)[f] = Due(a, f, r)
        /\ \A b \in Accounts \ {a} : entry'[b] = entry[b]
    BY <1>1 DEF Settled, PaidOf
  <2>2. Owed(a, f, r)' = 0
    <3>1. CASE r \in entry'[a][f].rewards
      <4>1. entry'[a][f].last[r] = reward'[f][r].per_share
        BY <1>1, <3>1 DEF Settled
      <4>2. reward'[f][r].per_share \in Nat /\ entry'[a][f].boosted[r] \in Nat
        BY DEF Inv, TypeOK, RewardType, EntryType
      <4>3. reward'[f][r].per_share - reward'[f][r].per_share = 0 /\ 0 * entry'[a][f].boosted[r] = 0
        BY <4>2
      <4> QED BY <3>1, <4>1, <4>3 DEF Owed
    <3>2. CASE r \notin entry'[a][f].rewards
      BY <3>2 DEF Owed
    <3> QED BY <3>1, <3>2
  <2>3. OwedBy(f, r)' = OwedBy(f, r) + Gain(f, r) * reward[f][r].boosted - Claim(a, f, r)
    BY <2>1, <2>2, OwedByClaimed
  <2>4. Within(f, r, Updated(f, r).remaining, Due(a, f, r))
    BY <2>3, ClaimWithin
  <2> QED BY <2>1, <2>4
<1>2. CASE f \notin farms
  <2>1. reward'[f] = reward[f] /\ entry'[a][f] = entry[a][f] /\ PaidOf(a, farms, r)[f] = 0
    BY <1>2 DEF Settled, PaidOf
  <2>2. \A b \in Accounts : Owed(b, f, r)' = Owed(b, f, r)
    <3>1. \A b \in Accounts : entry'[b][f] = entry[b][f]
      BY <2>1 DEF Settled
    <3> QED BY <2>1, <3>1 DEF Owed
  <2>3. OwedBy(f, r)' = OwedBy(f, r)
    BY <2>2 DEF OwedBy
  <2> QED BY <2>1, <2>3, AloneWithin
<1> QED BY <1>1, <1>2

-----------------------------------------------------------------------------
\* The tokens that are not the farms'.

\* Every part of what the contract keeps is a natural number, and what it keeps
\* beyond them is the farms': what remains in the rewards, and what is unpaid.
KeptAddsUp ==
    \A r \in Tokens :
        LET remaining == SumFunction([f \in Tokens |-> reward[f][r].remaining])
        IN  /\ Worth(asset[r]) \in Nat /\ InFlight(r) \in Nat /\ AtStake(r) \in Nat
            /\ cash[r] \in Nat /\ remaining \in Nat
            /\ Unpaid(r) = Kept(r) - remaining

LEMMA KeptType == Inv => KeptAddsUp
<1> SUFFICES ASSUME Inv, NEW r \in Tokens
             PROVE  LET remaining == SumFunction([f \in Tokens |-> reward[f][r].remaining])
                    IN  /\ Worth(asset[r]) \in Nat /\ InFlight(r) \in Nat /\ AtStake(r) \in Nat
                        /\ cash[r] \in Nat /\ remaining \in Nat
                        /\ Unpaid(r) = Kept(r) - remaining
  BY DEF KeptAddsUp
<1> DEFINE rem == [f \in Tokens |-> reward[f][r].remaining]
           fly == [s \in Slots |-> IF transfer[s] # NoTransfer /\ transfer[s].token = r
                                   THEN transfer[s].amount ELSE 0]
           stk == [a \in Accounts |-> staking[a].amount + legacy[a]]
<1>1. asset[r] \in AssetType /\ cash[r] \in Nat
  BY Found
<1>2. /\ asset[r].supplied.balance \in Nat /\ asset[r].reserved \in Nat
      /\ Worth(asset[r]) = asset[r].supplied.balance + asset[r].reserved
  BY <1>1 DEF Worth, AssetType, PoolType
<1>3. \A f \in Tokens : rem[f] \in Nat
  BY DEF Inv, TypeOK, RewardType
<1>4. \A s \in Slots : fly[s] \in Nat
  BY Found DEF TransferType
<1>5. \A a \in Accounts : stk[a] \in Nat
  BY Found DEF StakeType
<1>6. /\ SumFunction(rem) = SumFunctionOnSet(rem, Tokens)
      /\ SumFunction(fly) = SumFunctionOnSet(fly, Slots)
      /\ SumFunction(stk) = SumFunctionOnSet(stk, Accounts)
  BY DEF SumFunction
<1>7. /\ Unpaid(r) = cash[r] - asset[r].supplied.balance - asset[r].reserved
                     - SumFunction(rem) - SumFunction(fly)
                     - (IF r = Booster THEN SumFunction(stk) ELSE 0)
      /\ InFlight(r) = SumFunction(fly)
      /\ AtStake(r) = IF r = Booster THEN SumFunction(stk) ELSE 0
  BY DEF Unpaid, InFlight, AtStake
<1> HIDE DEF rem, fly, stk
<1>8. SumFunctionOnSet(rem, Tokens) \in Nat
  BY <1>3, FarmSets, SumType
<1>9. SumFunctionOnSet(fly, Slots) \in Nat
  BY <1>4, FarmSets, SumType
<1>10. SumFunctionOnSet(stk, Accounts) \in Nat
  BY <1>5, FarmSets, SumType
<1>11. /\ SumFunction(rem) \in Nat /\ InFlight(r) \in Nat /\ AtStake(r) \in Nat
       /\ Unpaid(r) = cash[r] - asset[r].supplied.balance - asset[r].reserved
                      - SumFunction(rem) - InFlight(r) - AtStake(r)
  BY <1>6, <1>7, <1>8, <1>9, <1>10
<1>12. Kept(r) = cash[r] - Worth(asset[r]) - InFlight(r) - AtStake(r)
  BY DEF Kept
<1>13. Unpaid(r) = Kept(r) - SumFunction(rem)
  BY <1>1, <1>2, <1>11, <1>12
<1> QED BY <1>1, <1>2, <1>11, <1>13 DEF rem

\* So it is after a step that keeps the invariant.
LEMMA KeptTypeAfter == Inv' => KeptAddsUp'
BY KeptType, PTL

\* A handler that applies the farms moves tokens between the wallets, the
\* assets, the stakes and the transfers; `assets` are the assets before the
\* farms pay.
KeepsTokens(assets) ==
    \A r \in Tokens :
        cash'[r] + Worth(asset[r]) + InFlight(r) + AtStake(r)
          = cash[r] + Worth(assets[r]) + InFlight(r)' + AtStake(r)'

\* Such a handler is balanced, and leaves the records up to date.
LEMMA AppliedBalance ==
  ASSUME Inv, Inv', UpToDate, NEW a \in Accounts, NEW touched \in SUBSET Tokens,
         NEW assets \in [Tokens -> AssetType], NEW held \in [Tokens -> Nat],
         NEW stake \in StakeType, Bounded(stake),
         ApplyFarms(a, touched, assets, held, stake),
         now' = now, KeepsTokens(assets)
  PROVE  UpToDate' /\ \A r \in Tokens : Balanced(r)
<1>1. PICK farms \in SUBSET Tokens :
        /\ Settled(a, farms)
        /\ \A r \in Tokens : Worth(asset'[r]) = Worth(assets[r])
                                                + SumFunctionOnSet(PaidOf(a, farms, r), Tokens)
  BY AppliedSettled
<1>2. UpToDate'
  BY <1>1, SettledUpToDate
<1>3. ASSUME NEW r \in Tokens PROVE Balanced(r)
  <2> DEFINE left == [f \in Tokens |-> reward'[f][r].remaining]
             rem  == [f \in Tokens |-> reward[f][r].remaining]
             paid == PaidOf(a, farms, r)
             p == SumFunctionOnSet(paid, Tokens)
             l == SumFunctionOnSet(left, Tokens)
             n == SumFunction(rem)
  <2>1. left \in [Tokens -> Nat] /\ \A f \in Tokens : left[f] = reward'[f][r].remaining
    BY DEF Inv, TypeOK, RewardType
  <2>2. paid \in [Tokens -> Nat]
    BY DueType DEF PaidOf
  <2>3. \A f \in Tokens : Within(f, r, left[f], paid[f])
    BY <1>1, <2>1, SettledWithin
  <2>4. SumFunction([f \in Tokens |-> reward'[f][r].remaining]) = l
    BY DEF SumFunction
  <2>5. /\ Worth(asset[r]) \in Nat /\ InFlight(r) \in Nat /\ AtStake(r) \in Nat
        /\ cash[r] \in Nat /\ n \in Nat /\ Unpaid(r) = Kept(r) - n
    BY KeptType DEF KeptAddsUp
  <2>6. /\ Worth(asset'[r]) \in Nat /\ InFlight(r)' \in Nat /\ AtStake(r)' \in Nat
        /\ cash'[r] \in Nat /\ l \in Nat /\ Unpaid(r)' = Kept(r)' - l
    BY KeptTypeAfter, <2>4 DEF KeptAddsUp, Worth
  <2>7. Worth(asset'[r]) = Worth(assets[r]) + p
    BY <1>1
  <2>8. cash'[r] + Worth(asset[r]) + InFlight(r) + AtStake(r)
          = cash[r] + Worth(assets[r]) + InFlight(r)' + AtStake(r)'
    BY DEF KeepsTokens
  <2>9. /\ Kept(r) = cash[r] - Worth(asset[r]) - InFlight(r) - AtStake(r)
        /\ Kept(r)' = cash'[r] - Worth(asset'[r]) - InFlight(r)' - AtStake(r)'
    BY DEF Kept, Worth
  <2>10. p \in Nat /\ Worth(assets[r]) \in Nat
    <3>1. \A f \in Tokens : paid[f] \in Nat
      BY <2>2
    <3>2. assets[r] \in AssetType
      OBVIOUS
    <3> HIDE DEF paid
    <3>3. p \in Nat
      BY <3>1, FarmSets, SumType
    <3> QED BY <3>2, <3>3, SavedWorth
  <2> DEFINE c == cash[r]
             w == Worth(asset[r])
             i == InFlight(r)
             t == AtStake(r)
             k == Kept(r)
             u == Unpaid(r)
             cn == cash'[r]
             wn == Worth(asset'[r])
             in == InFlight(r)'
             tn == AtStake(r)'
             kn == Kept(r)'
             un == Unpaid(r)'
             wa == Worth(assets[r])
  <2> HIDE DEF left, paid, n, p, l, c, w, i, t, k, u, cn, wn, in, tn, kn, un, wa
  <2>11. /\ w \in Nat /\ i \in Nat /\ t \in Nat /\ c \in Nat /\ n \in Nat /\ p \in Nat
         /\ wn \in Nat /\ in \in Nat /\ tn \in Nat /\ cn \in Nat /\ l \in Nat /\ wa \in Nat
         /\ u = k - n /\ un = kn - l /\ wn = wa + p
         /\ cn + w + i + t = c + wa + in + tn
         /\ k = c - w - i - t /\ kn = cn - wn - in - tn
    BY <2>5, <2>6, <2>7, <2>8, <2>9, <2>10 DEF c, w, i, t, k, u, cn, wn, in, tn, kn, un, wa
  <2>12. u \in Int /\ un = u + (n - l - p)
    BY <2>11
  <2>13. Unpaid(r) \in Int /\ Unpaid(r)' = Unpaid(r) + (n - l - p)
    BY <2>12 DEF u, un
  <2> QED BY <2>1, <2>2, <2>3, <2>13, BalancedSum DEF n, l, p, rem
<1> QED BY <1>2, <1>3

\* A step that leaves the farms and what is unpaid alone is balanced.
LEMMA AloneBalance ==
  ASSUME Inv, Inv', UpToDate, reward' = reward, entry' = entry,
         \/ now' = now /\ farmAt' = farmAt
         \/ now' = now + 1,
         \A r \in Tokens : cash'[r] + Worth(asset[r]) + InFlight(r) + AtStake(r)
                             = cash[r] + Worth(asset'[r]) + InFlight(r)' + AtStake(r)'
  PROVE  UpToDate' /\ \A r \in Tokens : Balanced(r)
<1>1. UpToDate'
  <2>1. \A a \in Accounts, f \in Tokens :
          entry[a][f].at <= now /\ entry[a][f].at \in Nat /\ now \in Nat
    BY DEF Inv, TypeOK, RecordsKept, EntryType
  <2>2. CASE now' = now /\ farmAt' = farmAt
    BY <2>2 DEF UpToDate
  <2>3. CASE now' = now + 1
    <3>1. \A a \in Accounts, f \in Tokens : entry[a][f].at # now + 1
      BY <2>1
    <3>2. now + 1 > 0
      BY DEF UpToDate, Inv, TypeOK
    <3> QED BY <2>3, <3>1, <3>2 DEF UpToDate
  <2> QED BY <2>2, <2>3
<1>2. ASSUME NEW r \in Tokens PROVE Balanced(r)
  <2> DEFINE rem  == [f \in Tokens |-> reward[f][r].remaining]
             none == [f \in Tokens |-> 0]
             l == SumFunctionOnSet(rem, Tokens)
             p == SumFunctionOnSet(none, Tokens)
             n == SumFunction(rem)
  <2>1. rem \in [Tokens -> Nat] /\ \A f \in Tokens : rem[f] = reward[f][r].remaining
    BY DEF Inv, TypeOK, RewardType
  <2>2. none \in [Tokens -> Nat] /\ \A f \in Tokens : none[f] = 0
    OBVIOUS
  <2>3. \A f \in Tokens : OwedBy(f, r)' = OwedBy(f, r)
    BY DEF OwedBy, Owed
  <2>4. \A f \in Tokens : Within(f, r, rem[f], none[f])
    BY <2>1, <2>2, <2>3, AloneWithin
  <2>5. n = l
    BY DEF SumFunction
  <2>6. p = 0
    <3> HIDE DEF none
    <3> QED BY <2>2, FarmSets, SumZero
  <2>7. /\ Worth(asset[r]) \in Nat /\ InFlight(r) \in Nat /\ AtStake(r) \in Nat
        /\ cash[r] \in Nat /\ n \in Nat /\ Unpaid(r) = Kept(r) - n
    BY KeptType DEF KeptAddsUp
  <2>8. /\ Worth(asset'[r]) \in Nat /\ InFlight(r)' \in Nat /\ AtStake(r)' \in Nat
        /\ cash'[r] \in Nat /\ Unpaid(r)' = Kept(r)' - n
    BY KeptTypeAfter DEF KeptAddsUp, Worth
  <2>9. cash'[r] + Worth(asset[r]) + InFlight(r) + AtStake(r)
          = cash[r] + Worth(asset'[r]) + InFlight(r)' + AtStake(r)'
    OBVIOUS
  <2>10. /\ Kept(r) = cash[r] - Worth(asset[r]) - InFlight(r) - AtStake(r)
         /\ Kept(r)' = cash'[r] - Worth(asset'[r]) - InFlight(r)' - AtStake(r)'
    BY DEF Kept, Worth
  <2> DEFINE c == cash[r]
             w == Worth(asset[r])
             i == InFlight(r)
             t == AtStake(r)
             k == Kept(r)
             u == Unpaid(r)
             cn == cash'[r]
             wn == Worth(asset'[r])
             in == InFlight(r)'
             tn == AtStake(r)'
             kn == Kept(r)'
             un == Unpaid(r)'
  <2> HIDE DEF rem, none, n, p, l, c, w, i, t, k, u, cn, wn, in, tn, kn, un
  <2>11. Kept(r)' = Kept(r) /\ Kept(r) \in Int
    <3>1. /\ w \in Nat /\ i \in Nat /\ t \in Nat /\ c \in Nat
          /\ wn \in Nat /\ in \in Nat /\ tn \in Nat /\ cn \in Nat
          /\ cn + w + i + t = c + wn + in + tn
          /\ k = c - w - i - t /\ kn = cn - wn - in - tn
      BY <2>7, <2>8, <2>9, <2>10 DEF c, w, i, t, k, cn, wn, in, tn, kn
    <3>2. kn = k /\ k \in Int
      BY <3>1
    <3> QED BY <3>2 DEF k, kn
  <2>12. n - l - p = 0
    BY <2>5, <2>6, <2>7
  <2>13. Unpaid(r) \in Int /\ Unpaid(r)' = Unpaid(r)
    BY <2>7, <2>8, <2>11
  <2>14. Unpaid(r)' = Unpaid(r) + (n - l - p)
    BY <2>12, <2>13
  <2> QED BY <2>1, <2>2, <2>4, <2>13, <2>14, BalancedSum DEF n, l, p, rem
<1> QED BY <1>1, <1>2

-----------------------------------------------------------------------------
\* Where the tokens of a handler go.

\* What a transfer has of a token.
Part(tr, r) == IF tr # NoTransfer /\ tr.token = r THEN tr.amount ELSE 0

\* SumChange for a table of transfers.
LEMMA SlotsSum ==
  ASSUME NEW g, NEW h, NEW s \in Slots,
         \A q \in Slots : g[q] \in Nat /\ h[q] \in Nat,
         \A q \in Slots \ {s} : g[q] = h[q]
  PROVE  SumFunctionOnSet(h, Slots) = SumFunctionOnSet(g, Slots) - g[s] + h[s]
BY FarmSets, SumChange

\* The transfers of a token change by the one slot that changes.
LEMMA FlightChange ==
  ASSUME Inv, NEW s \in Slots, NEW tr \in TransferType \cup {NoTransfer}, NEW r \in Tokens,
         transfer' = [transfer EXCEPT ![s] = tr]
  PROVE  /\ InFlight(r)' = InFlight(r) - Part(transfer[s], r) + Part(tr, r)
         /\ Part(transfer[s], r) \in Nat /\ Part(tr, r) \in Nat
<1> DEFINE old == [q \in Slots |-> Part(transfer[q], r)]
           new == [q \in Slots |-> Part(transfer'[q], r)]
<1>1. \A q \in TransferType \cup {NoTransfer} : Part(q, r) \in Nat
  BY FarmMark DEF Part, TransferType
<1>2. /\ transfer \in [Slots -> TransferType \cup {NoTransfer}]
      /\ transfer'[s] = tr /\ \A q \in Slots \ {s} : transfer'[q] = transfer[q]
  BY Found
<1>3. /\ \A q \in Slots : old[q] \in Nat /\ new[q] \in Nat
      /\ \A q \in Slots \ {s} : old[q] = new[q]
      /\ old[s] = Part(transfer[s], r) /\ new[s] = Part(tr, r)
  BY <1>1, <1>2
<1>4. InFlight(r) = SumFunctionOnSet(old, Slots) /\ InFlight(r)' = SumFunctionOnSet(new, Slots)
  BY DEF InFlight, Part, SumFunction
<1> HIDE DEF old, new
<1>5. SumFunctionOnSet(new, Slots) = SumFunctionOnSet(old, Slots) - old[s] + new[s]
  BY <1>3, SlotsSum
<1> QED BY <1>3, <1>4, <1>5

\* A transfer that starts adds to them.
LEMMA FlightStarts ==
  ASSUME Inv, NEW s \in Slots, NEW a \in Accounts, NEW t \in Tokens, NEW n \in Nat,
         Start(s, a, t, n), NEW r \in Tokens
  PROVE  InFlight(r)' = InFlight(r) + (IF r = t THEN n ELSE 0)
<1> DEFINE tr == [account |-> a, token |-> t, amount |-> n]
<1>1. transfer[s] = NoTransfer /\ transfer' = [transfer EXCEPT ![s] = tr]
  BY DEF Start
<1>2. tr \in TransferType /\ tr # NoTransfer /\ tr.token = t /\ tr.amount = n
  BY FarmMark DEF TransferType
<1>3. Part(transfer[s], r) = 0 /\ Part(tr, r) = IF r = t THEN n ELSE 0
  BY <1>1, <1>2 DEF Part
<1> HIDE DEF tr
<1>4. InFlight(r)' = InFlight(r) - Part(transfer[s], r) + Part(tr, r)
  BY <1>1, <1>2, FlightChange
<1>5. InFlight(r) \in Nat
  BY KeptType DEF KeptAddsUp
<1> QED BY <1>3, <1>4, <1>5

\* A transfer that ends takes from them.
LEMMA FlightEnds ==
  ASSUME Inv, NEW s \in Slots, transfer[s] # NoTransfer,
         transfer' = [transfer EXCEPT ![s] = NoTransfer], NEW r \in Tokens
  PROVE  InFlight(r)' = InFlight(r) - (IF r = transfer[s].token THEN transfer[s].amount ELSE 0)
<1>1. Part(NoTransfer, r) = 0
      /\ Part(transfer[s], r) = IF r = transfer[s].token THEN transfer[s].amount ELSE 0
  BY DEF Part
<1>2. /\ InFlight(r)' = InFlight(r) - Part(transfer[s], r) + Part(NoTransfer, r)
      /\ Part(transfer[s], r) \in Nat
  BY FlightChange
<1>3. InFlight(r) \in Nat
  BY KeptType DEF KeptAddsUp
<1> QED BY <1>1, <1>2, <1>3

\* The stakes change by the one account that stakes or unstakes.
LEMMA StakeChange ==
  ASSUME Inv, Inv', NEW a \in Accounts,
         \A b \in Accounts \ {a} : /\ staking'[b].amount = staking[b].amount
                                   /\ legacy'[b] = legacy[b]
  PROVE  /\ AtStake(Booster)' = AtStake(Booster) - (staking[a].amount + legacy[a])
                                + (staking'[a].amount + legacy'[a])
         /\ \A r \in Tokens \ {Booster} : AtStake(r)' = AtStake(r)
<1> DEFINE old == [b \in Accounts |-> staking[b].amount + legacy[b]]
           new == [b \in Accounts |-> staking'[b].amount + legacy'[b]]
<1>1. /\ \A b \in Accounts : staking[b].amount \in Nat /\ legacy[b] \in Nat
      /\ \A b \in Accounts : staking'[b].amount \in Nat /\ legacy'[b] \in Nat
  BY DEF Inv, TypeOK, StakeType
<1>2. /\ \A b \in Accounts : old[b] \in Nat /\ new[b] \in Nat
      /\ \A b \in Accounts \ {a} : old[b] = new[b]
      /\ old[a] = staking[a].amount + legacy[a] /\ new[a] = staking'[a].amount + legacy'[a]
  BY <1>1
<1>3. /\ AtStake(Booster) = SumFunctionOnSet(old, Accounts)
      /\ AtStake(Booster)' = SumFunctionOnSet(new, Accounts)
  BY DEF AtStake, SumFunction
<1>4. \A r \in Tokens \ {Booster} : AtStake(r)' = AtStake(r)
  BY DEF AtStake
<1> HIDE DEF old, new
<1>5. SumFunctionOnSet(new, Accounts) = SumFunctionOnSet(old, Accounts) - old[a] + new[a]
  BY <1>2, EntriesSum
<1> QED BY <1>2, <1>3, <1>4, <1>5

\* Nothing is staked or unstaked.
LEMMA SameStakes ==
  ASSUME \A b \in Accounts : staking'[b].amount = staking[b].amount, legacy' = legacy,
         NEW r
  PROVE  AtStake(r)' = AtStake(r)
BY DEF AtStake

\* No transfer starts or ends.
LEMMA SameFlight ==
  ASSUME transfer' = transfer, NEW r
  PROVE  InFlight(r)' = InFlight(r)
BY DEF InFlight

\* A handler that applies the farms with the stake as it was stakes nothing.
LEMMA StakeKept ==
  ASSUME Inv, NEW a \in Accounts, NEW touched, NEW assets, NEW held,
         ApplyFarms(a, touched, assets, held, staking[a]), legacy' = legacy, NEW r
  PROVE  AtStake(r)' = AtStake(r)
<1>1. staking[a] \in StakeType
  BY Found
<1>2. \A b \in Accounts : staking'[b].amount = staking[b].amount
  BY <1>1, AppliedStake
<1> QED BY <1>2, SameStakes

-----------------------------------------------------------------------------
\* The handlers.

\* A deposit puts what it takes from the wallet into the pool.
LEMMA DepositBalance ==
  ASSUME Inv, Inv', UpToDate, NEW a \in Accounts, NEW t \in Tokens, NEW n \in Nat,
         Deposit(a, t, n)
  PROVE  UpToDate' /\ \A r \in Tokens : Balanced(r)
<1> DEFINE shares == AmountToShares(asset[t].supplied, n, FALSE)
           saved  == Deposited(asset[t], n)
           assets == [asset EXCEPT ![t] = saved]
           held   == [supplied[a] EXCEPT ![t] = @ + shares]
           touched == {t}
<1>1. asset[t] \in AssetType /\ asset[t].supplied \in PoolType
  BY Found DEF AssetType
<1>2. shares \in Nat /\ saved \in AssetType /\ Worth(saved) = Worth(asset[t]) + n
  BY <1>1, AmountToSharesType, SavedType, SavedWorth
<1>3. /\ cash' = [cash EXCEPT ![t] = @ + n]
      /\ legacy' = legacy /\ transfer' = transfer /\ now' = now
      /\ ApplyFarms(a, touched, assets, held, staking[a])
  BY DEF Deposit
<1> HIDE DEF shares, saved
<1>4. assets \in [Tokens -> AssetType] /\ held \in [Tokens -> Nat] /\ touched \in SUBSET Tokens
  BY <1>2, Found
<1>5. staking[a] \in StakeType /\ Bounded(staking[a])
  BY Found
<1>6. KeepsTokens(assets)
  <2> SUFFICES ASSUME NEW r \in Tokens
               PROVE  cash'[r] + Worth(asset[r]) + InFlight(r) + AtStake(r)
                        = cash[r] + Worth(assets[r]) + InFlight(r)' + AtStake(r)'
    BY DEF KeepsTokens
  <2>1. InFlight(r)' = InFlight(r) /\ AtStake(r)' = AtStake(r)
    BY <1>3, SameFlight, StakeKept
  <2>2. InFlight(r) \in Nat /\ AtStake(r) \in Nat /\ cash[r] \in Nat /\ Worth(asset[r]) \in Nat
    BY KeptType DEF KeptAddsUp
  <2>3. CASE r = t
    <3>1. cash'[r] = cash[r] + n /\ Worth(assets[r]) = Worth(asset[r]) + n
      BY <1>2, <1>3, <2>3, Found
    <3> HIDE DEF assets
    <3> QED BY <2>1, <2>2, <3>1
  <2>4. CASE r # t
    <3>1. cash'[r] = cash[r] /\ assets[r] = asset[r]
      BY <1>3, <2>4, Found
    <3> QED BY <2>1, <3>1
  <2> QED BY <2>3, <2>4
<1> HIDE DEF assets, held, touched
<1> QED BY <1>3, <1>4, <1>5, <1>6, AppliedBalance

\* A claim of every farm moves nothing but the rewards.
LEMMA ClaimAllBalance ==
  ASSUME Inv, Inv', UpToDate, NEW a \in Accounts,
         \/ ClaimAll(a)
         \/ ExtendBlacklist(a)
         \/ RemoveFromBlacklist(a)
  PROVE  UpToDate' /\ \A r \in Tokens : Balanced(r)
<1> DEFINE touched == PotentialFarms(supplied[a])
<1>1. /\ legacy' = legacy /\ now' = now /\ transfer' = transfer /\ cash' = cash
      /\ ApplyFarms(a, touched, asset, supplied[a], staking[a])
  BY DEF ClaimAll, ExtendBlacklist, RemoveFromBlacklist, outside
<1>2. touched \in SUBSET Tokens /\ supplied[a] \in [Tokens -> Nat]
      /\ staking[a] \in StakeType /\ Bounded(staking[a])
      /\ asset \in [Tokens -> AssetType]
  BY Found
<1> HIDE DEF touched
<1>3. KeepsTokens(asset)
  <2> SUFFICES ASSUME NEW r \in Tokens
               PROVE  cash'[r] + Worth(asset[r]) + InFlight(r) + AtStake(r)
                        = cash[r] + Worth(asset[r]) + InFlight(r)' + AtStake(r)'
    BY DEF KeepsTokens
  <2>1. InFlight(r)' = InFlight(r) /\ AtStake(r)' = AtStake(r)
    BY <1>1, SameFlight, StakeKept
  <2> QED BY <1>1, <2>1
<1> QED BY <1>1, <1>2, <1>3, AppliedBalance

\* A withdrawal puts what it takes out of the pool into a transfer.
LEMMA WithdrawBalance ==
  ASSUME Inv, Inv', UpToDate, NEW a \in Accounts, NEW t \in Tokens, NEW s \in Slots,
         NEW amounts \in SUBSET Nat, NEW req \in RequestsOver(amounts), Withdraw(s, a, t, req)
  PROVE  UpToDate' /\ \A r \in Tokens : Balanced(r)
<1> DEFINE pool   == asset[t].supplied
           move   == AssetAmountToShares(pool, supplied[a][t], req, FALSE)
           assets == [asset EXCEPT ![t] = Withdrawn(@, move)]
           held   == [supplied[a] EXCEPT ![t] = @ - move.shares]
           touched == {t}
<1>1. /\ move.shares <= supplied[a][t] /\ CanWithdraw(pool, move.shares, move.amount)
      /\ Start(s, a, t, move.amount)
      /\ legacy' = legacy /\ cash' = cash /\ now' = now
      /\ ApplyFarms(a, touched, assets, held, staking[a])
  BY DEF Withdraw
<1>2. pool \in PoolType /\ supplied[a][t] \in Nat /\ asset[t] \in AssetType
  BY Found DEF AssetType
<1>3. move.shares \in Nat /\ move.amount \in Nat
  <2>1. req.kind # "amount" => Convertible(pool, move.shares)
    BY <1>1 DEF CanWithdraw, Convertible
  <2> HIDE DEF pool
  <2> QED BY <1>2, <2>1, MoveType
<1> HIDE DEF move
<1>4. assets \in [Tokens -> AssetType]
  BY <1>1, <1>3, TakenType
<1>5. held \in [Tokens -> Nat] /\ touched \in SUBSET Tokens
  <2>1. supplied[a][t] - move.shares \in Nat
    BY <1>1, <1>2, <1>3
  <2> QED BY <2>1, Found
<1>6. staking[a] \in StakeType /\ Bounded(staking[a])
  BY Found
<1>7. KeepsTokens(assets)
  <2> SUFFICES ASSUME NEW r \in Tokens
               PROVE  cash'[r] + Worth(asset[r]) + InFlight(r) + AtStake(r)
                        = cash[r] + Worth(assets[r]) + InFlight(r)' + AtStake(r)'
    BY DEF KeepsTokens
  <2>1. InFlight(r)' = InFlight(r) + (IF r = t THEN move.amount ELSE 0)
    BY <1>1, <1>3, FlightStarts
  <2>2. AtStake(r)' = AtStake(r)
    BY <1>1, StakeKept
  <2>3. InFlight(r) \in Nat /\ AtStake(r) \in Nat /\ cash[r] \in Nat /\ Worth(asset[r]) \in Nat
    BY KeptType DEF KeptAddsUp
  <2>4. CASE r = t
    <3>1. Worth(assets[r]) = Worth(asset[r]) - move.amount
      <4>1. Worth(Withdrawn(asset[t], move)) = Worth(asset[t]) - move.amount
        BY <1>1, <1>2, <1>3, SavedWorth
      <4>2. assets[r] = Withdrawn(asset[t], move)
        BY <2>4, Found
      <4> QED BY <2>4, <4>1, <4>2
    <3> HIDE DEF assets
    <3> QED BY <1>1, <1>3, <2>1, <2>2, <2>3, <2>4, <3>1
  <2>5. CASE r # t
    <3>1. assets[r] = asset[r]
      BY <2>5, Found
    <3> HIDE DEF assets
    <3> QED BY <1>1, <2>1, <2>2, <2>3, <2>5, <3>1
  <2> QED BY <2>4, <2>5
<1> HIDE DEF assets, held, touched
<1> QED BY <1>1, <1>4, <1>5, <1>6, <1>7, AppliedBalance

\* A stake is what it takes out of the pool.
LEMMA StakeBalance ==
  ASSUME Inv, Inv', UpToDate, NEW a \in Accounts, NEW duration \in Nat,
         NEW amounts \in SUBSET Nat, NEW req \in RequestsOver(amounts), Stake(a, req, duration)
  PROVE  UpToDate' /\ \A r \in Tokens : Balanced(r)
<1> DEFINE pool   == asset[Booster].supplied
           move   == StakeMove(a, req)
           assets == [asset EXCEPT ![Booster] = Withdrawn(@, move)]
           held   == [supplied[a] EXCEPT ![Booster] = @ - move.shares]
           touched == StakeFarms(held)
           synced == Synced(staking[a])
           stake  == Staked(synced, move.amount, duration)
<1>1. /\ booster.enabled /\ booster.min <= duration /\ duration <= booster.max
      /\ booster.min < booster.max
      /\ move.shares <= supplied[a][Booster]
      /\ CanWithdraw(pool, move.shares, move.amount)
      /\ CanSync(staking[a])
      /\ legacy' = legacy /\ transfer' = transfer /\ cash' = cash /\ now' = now
      /\ ApplyFarms(a, touched, assets, held, stake)
  <2>1. booster.min \in Nat /\ booster.max \in Nat
    BY Found DEF InfoType
  <2> QED BY <2>1 DEF Stake, outside
<1>2. /\ pool \in PoolType /\ supplied[a][Booster] \in Nat /\ pool.shares \in Nat
      /\ asset[Booster] \in AssetType /\ Booster \in Tokens
  BY Found DEF AssetType, PoolType
<1>3. move.shares \in Nat /\ move.amount \in Nat
  <2>1. req.value \in Nat
    BY DEF RequestsOver, Exactly, AtMost, Everything
  <2>2. CASE req.kind = "available"
    <3>1. move.shares = supplied[a][Booster]
          /\ move.amount = SharesToAmount(pool, supplied[a][Booster], FALSE)
      BY <2>2 DEF StakeMove
    <3>2. Convertible(pool, supplied[a][Booster])
      BY <1>1, <3>1 DEF CanWithdraw, Convertible
    <3> HIDE DEF move, pool
    <3> QED BY <1>2, <3>1, <3>2, SharesToAmountType
  <2>3. CASE req.kind # "available"
    <3>1. move.shares = AmountToShares(pool, req.value, TRUE) /\ move.amount = req.value
      BY <2>3 DEF StakeMove
    <3> HIDE DEF move, pool
    <3> QED BY <1>2, <2>1, <3>1, AmountToSharesType
  <2> QED BY <2>2, <2>3
<1> HIDE DEF move
<1>4. assets \in [Tokens -> AssetType]
  BY <1>1, <1>2, <1>3, TakenType
<1>5. held \in [Tokens -> Nat]
  <2>1. supplied[a][Booster] - move.shares \in Nat
    BY <1>1, <1>2, <1>3
  <2> QED BY <2>1, Found
<1> HIDE DEF held
<1>6. touched \in SUBSET Tokens
  BY Found
<1>7. synced \in StakeType /\ Bounded(synced) /\ synced.amount = staking[a].amount
      /\ staking[a].amount \in Nat
  <2>1. staking[a] \in StakeType /\ Bounded(staking[a])
    BY Found
  <2> QED BY <1>1, <2>1, SyncedType, SyncedAmount DEF StakeType
<1> HIDE DEF synced
<1>8. stake \in StakeType /\ Bounded(stake) /\ stake.amount = staking[a].amount + move.amount
  BY <1>1, <1>3, <1>7, StakedType DEF Staked
<1> HIDE DEF stake, touched, pool
<1>9. KeepsTokens(assets)
  <2> SUFFICES ASSUME NEW r \in Tokens
               PROVE  cash'[r] + Worth(asset[r]) + InFlight(r) + AtStake(r)
                        = cash[r] + Worth(assets[r]) + InFlight(r)' + AtStake(r)'
    BY DEF KeepsTokens
  <2>1. InFlight(r)' = InFlight(r)
    BY <1>1, SameFlight
  <2>2. /\ staking'[a].amount = staking[a].amount + move.amount
        /\ \A b \in Accounts \ {a} : staking'[b] = staking[b]
    BY <1>1, <1>8, AppliedStake
  <2>3. /\ AtStake(Booster)' = AtStake(Booster) - (staking[a].amount + legacy[a])
                                + (staking'[a].amount + legacy'[a])
        /\ \A q \in Tokens \ {Booster} : AtStake(q)' = AtStake(q)
    BY <1>1, <2>2, StakeChange
  <2>4. /\ InFlight(r) \in Nat /\ AtStake(r) \in Nat /\ cash[r] \in Nat /\ Worth(asset[r]) \in Nat
        /\ legacy[a] \in Nat
    BY KeptType, Found DEF KeptAddsUp
  <2>5. CASE r = Booster
    <3>1. Worth(assets[r]) = Worth(asset[r]) - move.amount
      <4>1. Worth(Withdrawn(asset[Booster], move)) = Worth(asset[Booster]) - move.amount
        BY <1>1, <1>2, <1>3, SavedWorth DEF pool
      <4>2. assets[r] = Withdrawn(asset[Booster], move)
        BY <2>5, Found
      <4> QED BY <2>5, <4>1, <4>2
    <3>2. AtStake(r)' = AtStake(r) + move.amount
      BY <1>1, <1>3, <1>7, <2>2, <2>3, <2>4, <2>5
    <3> HIDE DEF assets
    <3> QED BY <1>1, <1>3, <2>1, <2>4, <3>1, <3>2
  <2>6. CASE r # Booster
    <3>1. assets[r] = asset[r] /\ AtStake(r)' = AtStake(r)
      BY <2>3, <2>6, Found
    <3> HIDE DEF assets
    <3> QED BY <1>1, <2>1, <2>4, <3>1
  <2> QED BY <2>5, <2>6
<1> HIDE DEF assets
<1> QED BY <1>1, <1>4, <1>5, <1>6, <1>8, <1>9, AppliedBalance

\* What is unstaked goes into the pool.
LEMMA ResupplyBalance ==
  ASSUME Inv, Inv', UpToDate, NEW a \in Accounts, NEW amount \in Nat, NEW stake \in StakeType,
         Bounded(stake), Resupply(a, amount, stake), UNCHANGED <<barred, outside, now>>,
         stake.amount + legacy'[a] + amount = staking[a].amount + legacy[a],
         \A b \in Accounts \ {a} : legacy'[b] = legacy[b]
  PROVE  UpToDate' /\ \A r \in Tokens : Balanced(r)
<1> DEFINE shares == AmountToShares(asset[Booster].supplied, amount, FALSE)
           saved  == Deposited(asset[Booster], amount)
           assets == [asset EXCEPT ![Booster] = saved]
           held   == [supplied[a] EXCEPT ![Booster] = @ + shares]
           touched == StakeFarms(held)
<1>1. ApplyFarms(a, touched, assets, held, stake)
      /\ transfer' = transfer /\ cash' = cash /\ now' = now
  BY DEF Resupply, outside
<1>2. asset[Booster] \in AssetType /\ asset[Booster].supplied \in PoolType /\ Booster \in Tokens
  BY Found DEF AssetType
<1>3. shares \in Nat /\ saved \in AssetType /\ Worth(saved) = Worth(asset[Booster]) + amount
  BY <1>2, AmountToSharesType, SavedType, SavedWorth
<1> HIDE DEF shares, saved
<1>4. assets \in [Tokens -> AssetType] /\ held \in [Tokens -> Nat]
  BY <1>3, Found
<1> HIDE DEF held
<1>5. touched \in SUBSET Tokens
  BY Found
<1> HIDE DEF touched
<1>6. KeepsTokens(assets)
  <2> SUFFICES ASSUME NEW r \in Tokens
               PROVE  cash'[r] + Worth(asset[r]) + InFlight(r) + AtStake(r)
                        = cash[r] + Worth(assets[r]) + InFlight(r)' + AtStake(r)'
    BY DEF KeepsTokens
  <2>1. InFlight(r)' = InFlight(r)
    BY <1>1, SameFlight
  <2>2. /\ staking'[a].amount = stake.amount
        /\ \A b \in Accounts \ {a} : staking'[b] = staking[b]
    BY <1>1, AppliedStake
  <2>3. /\ AtStake(Booster)' = AtStake(Booster) - (staking[a].amount + legacy[a])
                                + (staking'[a].amount + legacy'[a])
        /\ \A q \in Tokens \ {Booster} : AtStake(q)' = AtStake(q)
    BY <2>2, StakeChange
  <2>4. /\ InFlight(r) \in Nat /\ AtStake(r) \in Nat /\ cash[r] \in Nat /\ Worth(asset[r]) \in Nat
    BY KeptType DEF KeptAddsUp
  <2>5. CASE r = Booster
    <3>1. Worth(assets[r]) = Worth(asset[r]) + amount
      BY <1>2, <1>3, <2>5, Found
    <3>2. /\ staking[a].amount \in Nat /\ legacy[a] \in Nat /\ legacy'[a] \in Nat
          /\ stake.amount \in Nat
      BY DEF Inv, TypeOK, StakeType
    <3> HIDE DEF assets
    <3>3. AtStake(r) = AtStake(r)' + amount /\ AtStake(r)' \in Int
      BY <2>2, <2>3, <2>4, <2>5, <3>2
    <3> QED BY <1>1, <2>1, <2>4, <3>1, <3>3
  <2>6. CASE r # Booster
    <3>1. assets[r] = asset[r] /\ AtStake(r)' = AtStake(r)
      BY <2>3, <2>6, Found
    <3> HIDE DEF assets
    <3> QED BY <1>1, <2>1, <2>4, <3>1
  <2> QED BY <2>5, <2>6
<1> HIDE DEF assets
<1> QED BY <1>1, <1>4, <1>5, <1>6, AppliedBalance

\* So does a stake, of this version or an earlier one.
LEMMA UnstakeBalance ==
  ASSUME Inv, Inv', UpToDate, NEW a \in Accounts, Unstake(a) \/ UnstakeLegacy(a)
  PROVE  UpToDate' /\ \A r \in Tokens : Balanced(r)
<1>1. staking[a] \in StakeType /\ Bounded(staking[a]) /\ staking[a].amount \in Nat
      /\ legacy \in [Accounts -> Nat]
  BY Found DEF StakeType
<1>2. CASE Unstake(a)
  <2>1. Resupply(a, staking[a].amount, NoStake) /\ legacy' = legacy
        /\ UNCHANGED <<barred, outside, now>>
    BY <1>2 DEF Unstake
  <2>2. 0 + legacy[a] + staking[a].amount = staking[a].amount + legacy[a]
    BY <1>1
  <2> QED BY <1>1, <2>1, <2>2, NoStakeType, ResupplyBalance
<1>3. CASE UnstakeLegacy(a)
  <2>1. Resupply(a, legacy[a], staking[a]) /\ legacy' = [legacy EXCEPT ![a] = 0]
        /\ UNCHANGED <<barred, outside, now>>
    BY <1>3 DEF UnstakeLegacy
  <2>2. legacy'[a] = 0 /\ \A b \in Accounts \ {a} : legacy'[b] = legacy[b]
    BY <1>1, <2>1
  <2>3. staking[a].amount + 0 + legacy[a] = staking[a].amount + legacy[a] /\ legacy[a] \in Nat
    BY <1>1
  <2> QED BY <1>1, <2>1, <2>2, <2>3, ResupplyBalance
<1> QED BY <1>2, <1>3

\* With a client_echo what was staked goes into a transfer.
LEMMA UnstakeEchoBalance ==
  ASSUME Inv, Inv', UpToDate, NEW a \in Accounts, NEW s \in Slots, UnstakeEcho(s, a)
  PROVE  UpToDate' /\ \A r \in Tokens : Balanced(r)
<1>1. /\ staking' = [staking EXCEPT ![a] = NoStake] /\ legacy' = legacy
      /\ Start(s, a, Booster, staking[a].amount)
      /\ asset' = asset /\ cash' = cash /\ reward' = reward /\ farmAt' = farmAt
      /\ entry' = entry /\ now' = now
  BY DEF UnstakeEcho, assetVars, farmVars
<1>2. /\ staking[a].amount \in Nat /\ legacy[a] \in Nat /\ Booster \in Tokens
      /\ staking \in [Accounts -> StakeType]
  BY Found DEF StakeType
<1>3. staking'[a].amount = 0 /\ \A b \in Accounts \ {a} : staking'[b] = staking[b]
  BY <1>1, <1>2, NoStakeType
<1>4. ASSUME NEW r \in Tokens
      PROVE  cash'[r] + Worth(asset[r]) + InFlight(r) + AtStake(r)
               = cash[r] + Worth(asset'[r]) + InFlight(r)' + AtStake(r)'
  <2>1. InFlight(r)' = InFlight(r) + (IF r = Booster THEN staking[a].amount ELSE 0)
    BY <1>1, <1>2, FlightStarts
  <2>2. /\ AtStake(Booster)' = AtStake(Booster) - (staking[a].amount + legacy[a])
                                + (staking'[a].amount + legacy'[a])
        /\ \A q \in Tokens \ {Booster} : AtStake(q)' = AtStake(q)
    BY <1>1, <1>3, StakeChange
  <2>3. InFlight(r) \in Nat /\ AtStake(r) \in Nat /\ cash[r] \in Nat /\ Worth(asset[r]) \in Nat
    BY KeptType DEF KeptAddsUp
  <2>4. Worth(asset'[r]) = Worth(asset[r]) /\ cash'[r] = cash[r]
    BY <1>1
  <2>5. CASE r = Booster
    <3>1. AtStake(r)' = AtStake(r) - staking[a].amount
      BY <1>1, <1>2, <1>3, <2>2, <2>3, <2>5
    <3> QED BY <1>2, <2>1, <2>3, <2>4, <2>5, <3>1
  <2>6. CASE r # Booster
    <3>1. AtStake(r)' = AtStake(r)
      BY <2>2, <2>6
    <3> QED BY <2>1, <2>3, <2>4, <2>6, <3>1
  <2> QED BY <2>5, <2>6
<1> QED BY <1>1, <1>4, AloneBalance

\* A transfer ends in a wallet or in the pool.
LEMMA TransferBalance ==
  ASSUME Inv, Inv', UpToDate, NEW s \in Slots, TransferSucceeds(s) \/ TransferFails(s)
  PROVE  UpToDate' /\ \A r \in Tokens : Balanced(r)
<1> DEFINE tr == transfer[s]
<1>1. /\ tr # NoTransfer /\ transfer' = [transfer EXCEPT ![s] = NoTransfer]
      /\ reward' = reward /\ farmAt' = farmAt /\ entry' = entry /\ now' = now
      /\ staking' = staking /\ legacy' = legacy
  BY DEF TransferSucceeds, TransferFails, farmVars, boosterVars
<1>2. tr.token \in Tokens /\ tr.amount \in Nat
  BY <1>1, Found DEF TransferType
<1>3. ASSUME NEW r \in Tokens
      PROVE  cash'[r] + Worth(asset[r]) + InFlight(r) + AtStake(r)
               = cash[r] + Worth(asset'[r]) + InFlight(r)' + AtStake(r)'
  <2>1. InFlight(r)' = InFlight(r) - (IF r = tr.token THEN tr.amount ELSE 0)
    BY <1>1, FlightEnds
  <2>2. AtStake(r)' = AtStake(r)
    BY <1>1, SameStakes
  <2>3. InFlight(r) \in Nat /\ AtStake(r) \in Nat /\ cash[r] \in Nat /\ Worth(asset[r]) \in Nat
    BY KeptType DEF KeptAddsUp
  <2>4. CASE TransferSucceeds(s)
    <3>1. asset' = asset /\ cash' = [cash EXCEPT ![tr.token] = @ - tr.amount]
      BY <2>4 DEF TransferSucceeds, assetVars
    <3>2. cash'[r] = cash[r] - (IF r = tr.token THEN tr.amount ELSE 0)
      BY <1>2, <2>3, <3>1, Found
    <3>3. Worth(asset'[r]) = Worth(asset[r])
      BY <3>1
    <3> HIDE DEF tr
    <3> QED BY <1>2, <2>1, <2>2, <2>3, <3>2, <3>3
  <2>5. CASE TransferFails(s)
    <3>1. cash' = cash /\ asset' = [asset EXCEPT ![tr.token] = Deposited(@, tr.amount)]
      BY <2>5 DEF TransferFails
    <3>2. Worth(asset'[r]) = Worth(asset[r]) + (IF r = tr.token THEN tr.amount ELSE 0)
      <4>1. asset[tr.token] \in AssetType
        BY <1>2, Found
      <4>2. Worth(Deposited(asset[tr.token], tr.amount)) = Worth(asset[tr.token]) + tr.amount
        BY <1>2, <4>1, SavedWorth
      <4>3. asset'[r] = IF r = tr.token THEN Deposited(asset[tr.token], tr.amount) ELSE asset[r]
        BY <1>2, <3>1, Found
      <4> HIDE DEF tr
      <4> QED BY <2>3, <4>2, <4>3
    <3> HIDE DEF tr
    <3> QED BY <1>2, <2>1, <2>2, <2>3, <3>1, <3>2
  <2> QED BY <2>4, <2>5
<1> QED BY <1>1, <1>3, AloneBalance

\* The rules of staking, and the block, change no token.
LEMMA QuietBalance ==
  ASSUME Inv, Inv', UpToDate,
         UNCHANGED <<assetVars, farmVars, staking, legacy, outside>>, now' \in {now, now + 1}
  PROVE  UpToDate' /\ \A r \in Tokens : Balanced(r)
<1>1. /\ asset' = asset /\ reward' = reward /\ farmAt' = farmAt /\ entry' = entry
      /\ staking' = staking /\ legacy' = legacy /\ transfer' = transfer /\ cash' = cash
  BY DEF assetVars, farmVars, outside
<1>2. ASSUME NEW r \in Tokens
      PROVE  cash'[r] + Worth(asset[r]) + InFlight(r) + AtStake(r)
               = cash[r] + Worth(asset'[r]) + InFlight(r)' + AtStake(r)'
  <2>1. InFlight(r)' = InFlight(r) /\ AtStake(r)' = AtStake(r)
    BY <1>1, SameFlight, SameStakes
  <2> QED BY <1>1, <2>1
<1> QED BY <1>1, <1>2, AloneBalance

\* SumChange for a table of farms.
LEMMA FarmsSum ==
  ASSUME NEW g, NEW h, NEW f \in Tokens,
         \A q \in Tokens : g[q] \in Nat /\ h[q] \in Nat,
         \A q \in Tokens \ {f} : g[q] = h[q]
  PROVE  SumFunctionOnSet(h, Tokens) = SumFunctionOnSet(g, Tokens) - g[f] + h[f]
BY FarmSets, SumChange

\* A reward that is added comes out of the reserve, and its farm is updated.
LEMMA AddRewardBalance ==
  ASSUME Inv, Inv', UpToDate, NEW f \in Tokens, NEW r \in Tokens, NEW perDay \in Nat,
         NEW amount \in Nat, AddReward(f, r, perDay, amount)
  PROVE  UpToDate' /\ \A q \in Tokens : Balanced(q)
<1> DEFINE extra(q) == IF q = r THEN amount ELSE 0
<1>1. /\ amount <= asset[r].reserved
      /\ asset' = [asset EXCEPT ![r].reserved = @ - amount]
      /\ reward' = [reward EXCEPT ![f] = [t \in Tokens |->
             IF t = r THEN [Updated(f, r) EXCEPT !.status = "active", !.per_day = perDay,
                                                 !.remaining = @ + amount]
             ELSE Updated(f, t)]]
      /\ farmAt' = [farmAt EXCEPT ![f] = now]
      /\ entry' = entry /\ staking' = staking /\ legacy' = legacy /\ transfer' = transfer
      /\ cash' = cash /\ now' = now
  BY DEF AddReward, boosterVars, outside
<1>2. /\ reward \in [Tokens -> [Tokens -> RewardType]] /\ farmAt \in [Tokens -> Nat]
      /\ asset \in [Tokens -> AssetType]
  BY Found DEF Inv, TypeOK
<1>3. \A q \in Tokens :
        /\ Updated(f, q) \in RewardType
        /\ Updated(f, q).status = "none" <=> reward[f][q].status = "none"
        /\ farmAt[f] = now => Updated(f, q) = reward[f][q]
  BY UpdatedType
<1>4. /\ farmAt'[f] = now
      /\ \A g \in Tokens \ {f} : reward'[g] = reward[g] /\ farmAt'[g] = farmAt[g]
      /\ \A q \in Tokens : reward'[f][q] =
            IF q = r THEN [Updated(f, r) EXCEPT !.status = "active", !.per_day = perDay,
                                                !.remaining = @ + amount]
            ELSE Updated(f, q)
  BY <1>1, <1>2
<1>5. ASSUME NEW q \in Tokens
      PROVE  /\ reward'[f][q].per_share = Updated(f, q).per_share
             /\ reward'[f][q].remaining = Updated(f, q).remaining + extra(q)
             /\ Updated(f, q).status # "none" => reward'[f][q].status # "none"
             /\ Updated(f, q).remaining \in Nat /\ extra(q) \in Nat
  <2> DEFINE u == Updated(f, q)
             left == u.remaining + amount
  <2>1. u \in RewardType /\ u.remaining \in Nat
    BY <1>3 DEF RewardType
  <2>2. CASE q = r
    <3>1. reward'[f][q] = [u EXCEPT !.status = "active", !.per_day = perDay, !.remaining = left]
      BY <1>4, <2>1, <2>2 DEF RewardType
    <3> HIDE DEF u, left
    <3>2. /\ reward'[f][q].per_share = u.per_share /\ reward'[f][q].remaining = left
          /\ reward'[f][q].status = "active"
      BY <2>1, <3>1 DEF RewardType
    <3> QED BY <2>1, <2>2, <3>2 DEF u, left
  <2>3. CASE q # r
    <3>1. reward'[f][q] = u
      BY <1>4, <2>3
    <3> HIDE DEF u
    <3>2. u.remaining + 0 = u.remaining
      BY <2>1
    <3> QED BY <2>1, <2>3, <3>1, <3>2 DEF u
  <2> QED BY <2>2, <2>3
<1>6. UpToDate'
  <2> SUFFICES ASSUME NEW b \in Accounts, NEW g \in Tokens
               PROVE  /\ \A q \in entry[b][g].rewards : reward'[g][q].status # "none"
                      /\ entry[b][g].at = now =>
                            /\ farmAt'[g] = now
                            /\ \A q \in entry[b][g].rewards :
                                  entry[b][g].last[q] = reward'[g][q].per_share
    BY <1>1 DEF UpToDate
  <2>1. /\ \A q \in entry[b][g].rewards : reward[g][q].status # "none"
        /\ entry[b][g].at = now =>
              /\ farmAt[g] = now
              /\ \A q \in entry[b][g].rewards : entry[b][g].last[q] = reward[g][q].per_share
    BY DEF UpToDate
  <2>2. entry[b][g].rewards \subseteq Tokens
    BY DEF Inv, TypeOK, EntryType
  <2>3. CASE g = f
    BY <1>3, <1>4, <1>5, <2>1, <2>2, <2>3
  <2>4. CASE g # f
    BY <1>4, <2>1, <2>4
  <2> QED BY <2>3, <2>4
<1>7. ASSUME NEW q \in Tokens PROVE Balanced(q)
  <2> DEFINE left == [g \in Tokens |-> IF g = f THEN Updated(f, q).remaining
                                       ELSE reward[g][q].remaining]
             none == [g \in Tokens |-> 0]
             rem  == [g \in Tokens |-> reward[g][q].remaining]
             next == [g \in Tokens |-> reward'[g][q].remaining]
             e == extra(q)
             l == SumFunctionOnSet(left, Tokens)
             p == SumFunctionOnSet(none, Tokens)
             n == SumFunction(rem)
             m == SumFunctionOnSet(next, Tokens)
  <2>1. left \in [Tokens -> Nat] /\ none \in [Tokens -> Nat] /\ \A g \in Tokens : none[g] = 0
    BY <1>5 DEF Inv, TypeOK, RewardType
  <2>2. \A g \in Tokens : Within(g, q, left[g], none[g])
    <3> SUFFICES ASSUME NEW g \in Tokens PROVE Within(g, q, left[g], 0)
      BY <2>1
    <3>1. CASE g = f
      <4>1. reward'[f][q].per_share = Updated(f, q).per_share
        BY <1>5
      <4>2. OwedBy(f, q)' = OwedBy(f, q) + Gain(f, q) * reward[f][q].boosted
        BY <1>1, <4>1, OwedByRaised
      <4>3. Within(f, q, Updated(f, q).remaining, 0)
        BY <4>2, UpdateWithin
      <4> QED BY <3>1, <4>3
    <3>2. CASE g # f
      <4>1. OwedBy(g, q)' = OwedBy(g, q)
        BY <1>1, <1>4, <3>2 DEF OwedBy, Owed
      <4>2. Within(g, q, reward[g][q].remaining, 0)
        BY <4>1, AloneWithin
      <4> QED BY <3>2, <4>2
    <3> QED BY <3>1, <3>2
  <2>3. p = 0
    <3> HIDE DEF none
    <3> QED BY <2>1, FarmSets, SumZero
  <2>4. m = l + e /\ e \in Nat /\ l \in Nat
    <3>1. /\ \A g \in Tokens : left[g] \in Nat /\ next[g] \in Nat
          /\ \A g \in Tokens \ {f} : left[g] = next[g]
          /\ next[f] = left[f] + e /\ e \in Nat
      <4>1. \A g \in Tokens : left[g] \in Nat /\ next[g] \in Nat
        BY <2>1 DEF Inv, TypeOK, RewardType
      <4>2. \A g \in Tokens \ {f} : left[g] = next[g]
        BY <1>4
      <4> QED BY <1>5, <4>1, <4>2
    <3> HIDE DEF left, next, e
    <3>2. SumFunctionOnSet(next, Tokens) = SumFunctionOnSet(left, Tokens) - left[f] + next[f]
      BY <3>1, FarmsSum
    <3>3. SumFunctionOnSet(left, Tokens) \in Nat
      BY <3>1, FarmSets, SumType
    <3> QED BY <3>1, <3>2, <3>3
  <2>5. Worth(asset'[q]) = Worth(asset[q]) - e /\ Worth(asset[q]) \in Nat
    <3>1. asset[q] \in AssetType /\ Worth(asset[q]) \in Nat
      BY <1>2, SavedWorth
    <3>2. CASE q = r
      <4>1. /\ asset'[q].supplied = asset[q].supplied
            /\ asset'[q].reserved = asset[q].reserved - amount
        BY <1>1, <1>2, <3>2 DEF AssetType
      <4>2. asset[q].supplied.balance \in Nat /\ asset[q].reserved \in Nat
        BY <3>1 DEF AssetType, PoolType
      <4> QED BY <3>1, <3>2, <4>1, <4>2 DEF Worth
    <3>3. CASE q # r
      <4>1. asset'[q] = asset[q]
        BY <1>1, <1>2, <3>3
      <4> QED BY <3>1, <3>3, <4>1
    <3> QED BY <3>2, <3>3
  <2>6. InFlight(q)' = InFlight(q) /\ AtStake(q)' = AtStake(q)
    BY <1>1, SameFlight, SameStakes
  <2>7. /\ InFlight(q) \in Nat /\ AtStake(q) \in Nat
        /\ cash[q] \in Nat /\ n \in Nat /\ Unpaid(q) = Kept(q) - n
    BY KeptType DEF KeptAddsUp
  <2>8. SumFunction([g \in Tokens |-> reward'[g][q].remaining]) = m
    BY DEF SumFunction
  <2>9. Unpaid(q)' = Kept(q)' - m
    BY <2>8, KeptTypeAfter DEF KeptAddsUp
  <2>10. /\ Kept(q) = cash[q] - Worth(asset[q]) - InFlight(q) - AtStake(q)
         /\ Kept(q)' = cash[q] - Worth(asset'[q]) - InFlight(q) - AtStake(q)
    BY <1>1, <2>6 DEF Kept, Worth
  <2> DEFINE c == cash[q]
             w == Worth(asset[q])
             wn == Worth(asset'[q])
             i == InFlight(q)
             t == AtStake(q)
             k == Kept(q)
             kn == Kept(q)'
             u == Unpaid(q)
             un == Unpaid(q)'
  <2> HIDE DEF left, none, rem, next, e, l, p, n, m, c, w, wn, i, t, k, kn, u, un
  <2>11. /\ e \in Nat /\ l \in Nat /\ p = 0 /\ n \in Nat /\ m = l + e
         /\ c \in Nat /\ w \in Nat /\ i \in Nat /\ t \in Nat /\ wn = w - e
         /\ u = k - n /\ un = kn - m
         /\ k = c - w - i - t /\ kn = c - wn - i - t
    BY <2>3, <2>4, <2>5, <2>7, <2>9, <2>10 DEF c, w, wn, i, t, k, kn, u, un
  <2>12. u \in Int /\ un = u + (n - l - p)
    BY <2>11
  <2>13. Unpaid(q) \in Int /\ Unpaid(q)' = Unpaid(q) + (n - l - p)
    BY <2>12 DEF u, un
  <2> QED BY <2>1, <2>2, <2>13, BalancedSum DEF n, l, p, rem
<1> QED BY <1>6, <1>7

\* Nobody has a record at first.
LEMMA InitUpToDate ==
  ASSUME Init
  PROVE  UpToDate
<1>1. now = 1 /\ \A a \in Accounts, f \in Tokens : entry[a][f] = NoEntry
  BY DEF Init
<1>2. NoEntry.at = 0 /\ NoEntry.rewards = {}
  BY DEF NoEntry
<1> QED BY <1>1, <1>2 DEF UpToDate

\* Every step keeps the records up to date, and the rewards balanced.
LEMMA NextBalance ==
  ASSUME Inv, UpToDate, [Next]_vars
  PROVE  UpToDate' /\ \A r \in Tokens : Balanced(r)
<1> DEFINE Goal == UpToDate' /\ \A r \in Tokens : Balanced(r)
<1>0. Inv'
  BY NextInv
<1> SUFFICES Goal
  OBVIOUS
<1>1. \A n \in Amounts : n \in Nat
  BY FarmBounds
<1>2. \A d \in Durations : d \in Nat
  BY FarmPolicies DEF Durations
<1>3. /\ \A n \in Nat : Exactly(n) \in RequestsOver(Nat)
      /\ Everything \in RequestsOver(Nat)
  BY DEF RequestsOver
<1>4. ASSUME NEW a \in Accounts, NEW t \in Tokens, NEW n \in Amounts, Deposit(a, t, n)
      PROVE  Goal
  BY <1>0, <1>1, <1>4, DepositBalance
<1>5. ASSUME NEW a \in Accounts, ClaimAll(a) \/ ExtendBlacklist(a) \/ RemoveFromBlacklist(a)
      PROVE  Goal
  BY <1>0, <1>5, ClaimAllBalance
<1>6. ASSUME NEW a \in Accounts, NEW d \in Durations, NEW req \in RequestsOver(Nat),
             Stake(a, req, d)
      PROVE  Goal
  BY <1>0, <1>2, <1>6, StakeBalance
<1>7. ASSUME NEW a \in Accounts, Unstake(a) \/ UnstakeLegacy(a)
      PROVE  Goal
  BY <1>0, <1>7, UnstakeBalance
<1>8. ASSUME NEW a \in Accounts, NEW s \in Slots, UnstakeEcho(s, a)
      PROVE  Goal
  BY <1>0, <1>8, UnstakeEchoBalance
<1>9. ASSUME NEW s \in Slots, NEW a \in Payees, NEW t \in Tokens, NEW req \in RequestsOver(Nat),
             Withdraw(s, a, t, req)
      PROVE  Goal
  <2>1. a \in Accounts
    BY FarmSets
  <2> QED BY <1>0, <1>9, <2>1, WithdrawBalance
<1>10. ASSUME NEW s \in Slots, TransferSucceeds(s) \/ TransferFails(s)
       PROVE  Goal
  BY <1>0, <1>10, TransferBalance
<1>11. ASSUME NEW p \in Pays, NEW w \in Rewards, AddReward(p[1], p[2], w[1], w[2])
       PROVE  Goal
  <2>1. p[1] \in Tokens /\ p[2] \in Tokens /\ w[1] \in Nat /\ w[2] \in Nat
    BY FarmSets, FarmBounds
  <2> QED BY <1>0, <1>11, <2>1, AddRewardBalance
<1>12. ASSUME UNCHANGED <<assetVars, farmVars, staking, legacy, outside>>, now' \in {now, now + 1}
       PROVE  Goal
  BY <1>0, <1>12, QuietBalance
<1> HIDE DEF Goal
<1>13. CASE \E a \in Accounts :
              \/ \E t \in Tokens, n \in Amounts : Deposit(a, t, n)
              \/ ClaimAll(a)
              \/ \E n \in Amounts, d \in Durations : Stake(a, Exactly(n), d)
              \/ \E d \in Durations : Stake(a, Everything, d)
              \/ Unstake(a)
              \/ UnstakeLegacy(a)
              \/ \E s \in Slots : UnstakeEcho(s, a)
  BY <1>1, <1>3, <1>4, <1>5, <1>6, <1>7, <1>8, <1>13
<1>14. CASE \E s \in Slots, a \in Payees, t \in Tokens :
              Withdraw(s, a, t, Everything) \/ \E n \in Amounts : Withdraw(s, a, t, Exactly(n))
  BY <1>1, <1>3, <1>9, <1>14
<1>15. CASE \E a \in Barrable : ExtendBlacklist(a) \/ RemoveFromBlacklist(a)
  BY <1>5, <1>15, FarmSets
<1>16. CASE \E s \in Slots : TransferSucceeds(s) \/ TransferFails(s)
  BY <1>10, <1>16
<1>17. CASE \E p \in Pays, w \in Rewards : AddReward(p[1], p[2], w[1], w[2])
  BY <1>11, <1>17
<1>18. CASE \/ \E p \in Policies : AddBoosterToken(p) \/ \E e \in BOOLEAN : UpdateBoosterToken(p, e)
            \/ RemoveBoosterToken
            \/ Tick
            \/ UNCHANGED vars
  <2>1. UNCHANGED <<assetVars, farmVars, staking, legacy, outside>> /\ now' \in {now, now + 1}
    BY <1>18 DEF AddBoosterToken, UpdateBoosterToken, RemoveBoosterToken, Tick, vars, boosterVars
  <2> QED BY <1>12, <2>1
<1> QED BY <1>13, <1>14, <1>15, <1>16, <1>17, <1>18 DEF Next

\* Whatever is supplied, withdrawn, staked, claimed, barred and added, and
\* whichever transfers fail, what the farms have handed out is what the records
\* owe, but for the rounding of the calls: no step pays a reward twice, and none
\* is lost to an account that leaves a farm, runs out or is counted anew.
THEOREM RewardsAreBalanced == Spec => RewardsBalance
<1>1. Init => Inv /\ UpToDate
  BY InitInv, InitUpToDate
<1>2. (Inv /\ UpToDate) /\ [Next]_vars => (Inv /\ UpToDate)'
  BY NextInv, NextBalance
<1>3. (Inv /\ UpToDate) /\ [Next]_vars =>
        [\A r \in Tokens :
            LET drift == (Fine * Unpaid(r) - Earned(r))' - (Fine * Unpaid(r) - Earned(r))
                farms == {f \in Tokens : reward[f][r].status # "none"}
            IN  /\ - Fine * Cardinality(farms) <= 2 * drift
                /\ 2 * drift <= Fine * Cardinality(farms)
                                + 2 * SumFunction([f \in Tokens |-> reward[f][r].boosted])]_vars
  BY NextBalance DEF Balanced
<1> QED BY <1>1, <1>2, <1>3, PTL DEF Spec, RewardsBalance
===============================================================================
