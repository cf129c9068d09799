-------------------------------- MODULE Farms --------------------------------
(***************************************************************************)
(* The farms of contracts/contract and the staking of the booster token.   *)
(*                                                                         *)
(* A farm Supplied(t) hands out rewards to the suppliers of token t, by    *)
(* their boosted shares.  Nothing is paid on time: the farm remembers what *)
(* one boosted share has earned since it began (per_share), the account    *)
(* what that was when it last called (last), and a call of the account     *)
(* pays the difference as supply, which may be supply of another farm's    *)
(* token.  An account's boosted shares are what they were at its last call *)
(* that touched the farm, however its supply or its stake have changed.    *)
(*                                                                         *)
(* Staked booster tokens leave the supply until their lock ends, and count *)
(* as x booster tokens meanwhile; they raise an account's shares by        *)
(* logarithms.  The owner adds rewards, changes the rules of staking, and  *)
(* bars accounts from farming.                                             *)
(*                                                                         *)
(* The farms Borrowed(t), TokenNetBalance(t) and NetTvl differ in the      *)
(* number of shares an account has in them and in nothing else; they are   *)
(* left out, and with them borrowing.  Token contracts deal in the same    *)
(* units as this one (extra_decimals = 0).                                 *)
(***************************************************************************)
EXTENDS Pools, FiniteSets, Functions

CONSTANTS
    Accounts,           \* the registered accounts
    Tokens,             \* the listed assets, each with its Supplied farm
    Booster,            \* the token that can be staked
    Slots,              \* at most this many transfers are in flight
    NoTransfer,         \* the content of a free slot
    EchoSenders,        \* client_echo_sender_whitelist
    MinReserveShares,   \* MIN_RESERVE_SHARES
    Fine,               \* BIG_DIVISOR: the steps of a BigDecimal in one
    Day,                \* NANOS_PER_DAY
    FullRate,           \* MIN_BOOSTER_MULTIPLIER: x booster at one to one
    BoosterBase,        \* 10 ^ decimals * boost_suppress_factor
    LogBase,            \* the log base of every reward, in units of the base
    Policies,           \* the durations and multipliers the owner may set
    Pays,               \* <<f, r>>: the owner adds rewards of r to farm f
    InitialWallet,      \* what each account holds of each token at first
    InitialReserve,     \* the reserve of each asset at first
    InitialLegacy,      \* stakes from before booster_stakings, by account
    Barrable,           \* bound: the accounts the owner may bar
    Payees,             \* bound: the accounts that withdraw
    Amounts,            \* bound: the amounts an action may name
    Rewards,            \* bound: <<per day, amount>> of an added reward
    MaxTime             \* bound: the last block timestamp

ASSUME FarmSets == /\ IsFiniteSet(Accounts) /\ IsFiniteSet(Tokens) /\ IsFiniteSet(Slots)
                   /\ Booster \in Tokens
                   /\ EchoSenders \subseteq Accounts /\ Barrable \subseteq Accounts
                   /\ Payees \subseteq Accounts
                   /\ Pays \subseteq Tokens \X Tokens
ASSUME FarmNumbers == /\ {MinReserveShares, Fine, Day, FullRate, BoosterBase} \subseteq Nat \ {0}
                      /\ LogBase \in Nat /\ LogBase > 1
                      /\ MaxTime \in Nat
ASSUME FarmPolicies ==
    /\ Policies # {}
    /\ \A p \in Policies :
          /\ p \in [min : Nat, max : Nat, multiplier : Nat]
          /\ p.min <= p.max /\ p.multiplier >= FullRate    \* assert_valid
ASSUME FarmWealth == /\ InitialWallet \in [Accounts -> [Tokens -> Nat]]
                     /\ InitialReserve \in [Tokens -> Nat]
                     /\ InitialLegacy \in [Accounts -> Nat]
ASSUME FarmBounds == Amounts \subseteq Nat /\ Rewards \subseteq Nat \X Nat

TransferType == [account : Accounts, token : Tokens, amount : Nat]

ASSUME FarmMark == NoTransfer \notin TransferType

VARIABLES
    asset,      \* asset[t]: the pool of supplied tokens and the reserve
    supplied,   \* supplied[a][t]: a's shares of that pool
    reward,     \* reward[f][r]: what farm f hands out of token r
    farmAt,     \* farmAt[f]: the block timestamp of f's last update
    entry,      \* entry[a][f]: a's account farm
    staking,    \* staking[a]: a's entry of booster_stakings
    legacy,     \* legacy[a]: a's booster_staking of earlier versions
    booster,    \* the BoosterTokenInfo of the booster token
    barred,     \* blacklist_of_farmers
    transfer,   \* transfer[s]: a payment the token contract has yet to make
    cash,       \* cash[t]: tokens the token contract holds for this contract
    wallet,     \* wallet[a][t]: tokens it holds for a
    now         \* the block timestamp

assetVars   == <<asset, supplied>>
farmVars    == <<reward, farmAt, entry>>
boosterVars == <<staking, legacy, booster>>
outside     == <<transfer, cash, wallet>>
vars == <<assetVars, farmVars, boosterVars, barred, outside, now>>

RewardType == [status : {"none", "active", "inactive"}, per_day : Nat,
               remaining : Nat, boosted : Nat, per_share : Nat]
\* `rewards` are the tokens the entry has a record of
EntryType  == [at : Nat, rewards : SUBSET Tokens,
               boosted : [Tokens -> Nat], last : [Tokens -> Nat]]
StakeType  == [amount : Nat, x : Nat, unlock : Nat]
InfoType   == [listed : BOOLEAN, enabled : BOOLEAN, min : Nat, max : Nat,
               multiplier : Nat, total : Nat]

TypeOK ==
    /\ asset \in [Tokens -> [supplied : PoolType, reserved : Nat]]
    /\ supplied \in [Accounts -> [Tokens -> Nat]]
    /\ reward \in [Tokens -> [Tokens -> RewardType]]
    /\ farmAt \in [Tokens -> Nat]
    /\ entry \in [Accounts -> [Tokens -> EntryType]]
    /\ staking \in [Accounts -> StakeType]
    /\ legacy \in [Accounts -> Nat]
    /\ booster \in InfoType
    /\ barred \subseteq Accounts
    /\ transfer \in [Slots -> TransferType \cup {NoTransfer}]
    /\ cash \in [Tokens -> Nat]
    /\ wallet \in [Accounts -> [Tokens -> Nat]]
    /\ now \in Nat

Zeros == [t \in Tokens |-> 0]

NoReward == [status |-> "none", per_day |-> 0, remaining |-> 0, boosted |-> 0, per_share |-> 0]
NoEntry  == [at |-> 0, rewards |-> {}, boosted |-> Zeros, last |-> Zeros]
NoStake  == [amount |-> 0, x |-> 0, unlock |-> 0]

Listed(p) == [listed |-> TRUE, enabled |-> TRUE, min |-> p.min, max |-> p.max,
              multiplier |-> p.multiplier, total |-> 0]
Unlisted  == [listed |-> FALSE, enabled |-> FALSE, min |-> 0, max |-> 0,
              multiplier |-> FullRate, total |-> 0]

Init ==
    /\ asset = [t \in Tokens |-> [supplied |-> EmptyPool, reserved |-> InitialReserve[t]]]
    /\ supplied = [a \in Accounts |-> Zeros]
    /\ reward = [f \in Tokens |-> [r \in Tokens |-> NoReward]]
    /\ farmAt = Zeros
    /\ entry = [a \in Accounts |-> [f \in Tokens |-> NoEntry]]
    /\ staking = [a \in Accounts |-> NoStake]
    /\ legacy = InitialLegacy
    /\ booster = Unlisted
    /\ barred = {}
    /\ transfer = [s \in Slots |-> NoTransfer]
    /\ cash = [t \in Tokens |-> InitialReserve[t]
                   + IF t = Booster THEN SumFunction(InitialLegacy) ELSE 0]
    /\ wallet = InitialWallet
    /\ now = 1

-----------------------------------------------------------------------------
(***************************************************************************)
(* Saving an asset (see Lending): too few shares are refused, and the      *)
(* balance that no share stands for goes to the reserve.                   *)
(***************************************************************************)
EnoughShares(pool) == pool.shares = 0 \/ pool.shares >= MinReserveShares

Normalized(as) ==
    IF as.supplied.shares = 0
    THEN [as EXCEPT !.reserved = @ + as.supplied.balance, !.supplied = EmptyPool]
    ELSE as

CanSave(as) ==
    EnoughShares(as.supplied) /\ PoolInvariant(Normalized(as).supplied)

Deposited(as, amount) ==
    Normalized([as EXCEPT !.supplied =
        PoolDeposit(@, AmountToShares(@, amount, FALSE), amount)])

Withdrawn(as, move) ==
    Normalized([as EXCEPT !.supplied = PoolWithdraw(@, move.shares, move.amount)])

-----------------------------------------------------------------------------
(***************************************************************************)
(* The farm's clock.  A reward without boosted shares waits; one that is   *)
(* used up becomes inactive.                                               *)
(***************************************************************************)
\* slip: a reward is handed out beyond what remains of it
AcquiredOnTime(rew, time) == (rew.per_day * time) \div Day

Acquired(rew, time) == Least(rew.remaining, (rew.per_day * time) \div Day)

Updated(f, r) ==
    LET rew == reward[f][r]
        got == Acquired(rew, now - farmAt[f])
    IN  IF farmAt[f] = now \/ rew.status # "active" \/ rew.boosted = 0
        THEN rew
        ELSE [rew EXCEPT !.remaining = @ - got,
                         !.per_share = @ + (got * Fine) \div rew.boosted,
                         !.status = IF got = rew.remaining THEN "inactive" ELSE @]

Farming(f) == \E r \in Tokens : reward[f][r].status # "none"
Active(f)  == {r \in Tokens : Updated(f, r).status = "active"}

-----------------------------------------------------------------------------
(***************************************************************************)
(* A claim.  An entry is brought up to date once per block: it is paid for *)
(* each reward it has a record of, drops the records of inactive rewards,  *)
(* and opens records for active ones.                                      *)
(***************************************************************************)
RoundMul(n, shares) == (n * shares + Fine \div 2) \div Fine

Due(a, f, r) ==
    IF entry[a][f].at # now /\ r \in entry[a][f].rewards
    THEN RoundMul(Updated(f, r).per_share - entry[a][f].last[r], entry[a][f].boosted[r])
    ELSE 0

\* slip: what was paid stays on record
ClaimedAgain(a, f) ==
    LET old == entry[a][f]
    IN  IF old.at = now THEN old
        ELSE [old EXCEPT !.at = now, !.rewards = Active(f)]

Claimed(a, f) ==
    LET old == entry[a][f]
    IN  IF old.at = now THEN old
        ELSE [at |-> now, rewards |-> Active(f),
              boosted |-> [r \in Tokens |-> IF r \in Active(f) THEN old.boosted[r] ELSE 0],
              last |-> [r \in Tokens |-> IF r \in Active(f) THEN Updated(f, r).per_share ELSE 0]]

\* slip: a reward that ran out keeps the shares of those who leave it
DroppedSilently(a, f) == {}

\* the inactive rewards whose records the claim drops
Dropped(a, f) == IF entry[a][f].at = now THEN {} ELSE entry[a][f].rewards \ Active(f)

\* what is paid is supplied, and touches the farm of its token in turn
AffectedFarms(a, touched) ==
    LET closed == {farms \in SUBSET Tokens :
                      /\ touched \subseteq farms
                      /\ \A f \in farms, r \in Tokens : Due(a, f, r) > 0 => r \in farms}
    IN  {f \in Tokens : \A farms \in closed : f \in farms}

-----------------------------------------------------------------------------
(***************************************************************************)
(* The booster.                                                            *)
(***************************************************************************)
Most(m, n) == IF m >= n THEN m ELSE n

\* slip: the multiplier grows from a duration of zero on
XBoosterFromZero(amount, duration) ==
    amount + (amount * ((booster.multiplier - FullRate) * duration))
             \div ((booster.max - booster.min) * FullRate)

\* compute_x_booster_amount, which divides by zero when min = max
XBooster(amount, duration) ==
    amount + (amount * ((booster.multiplier - FullRate) * (duration - booster.min)))
             \div ((booster.max - booster.min) * FullRate)

Locked(stake) == booster.enabled /\ stake.amount > 0 /\ stake.unlock > now

CanSync(stake) == Locked(stake) => booster.min < booster.max

\* sync_booster_policy
Synced(stake) ==
    LET remain  == stake.unlock - now
        recount == XBooster(stake.amount, Most(booster.min, Least(remain, booster.max)))
    IN  IF Locked(stake)
        THEN [stake EXCEPT !.x = Least(XBooster(stake.amount, booster.max), Most(@, recount)),
                           !.unlock = now + Least(remain, booster.max)]
        ELSE [stake EXCEPT !.x = 0]

\* shares * log(x / BoosterBase) to the base LogBase, rounded down: how many
\* e > 0 have LogBase ^ e <= (x / BoosterBase) ^ shares
ExtraShares(shares, x) ==
    IF ~ booster.enabled \/ x <= BoosterBase THEN 0
    ELSE Cardinality({e \in 1 .. shares * x :
                         LogBase ^ e * BoosterBase ^ shares <= x ^ shares})

BoostedShares(shares, x) == shares + ExtraShares(shares, x)

-----------------------------------------------------------------------------
(***************************************************************************)
(* internal_account_apply_affected_farms: claim, supply what was claimed,  *)
(* sync the stake, and count the account's shares anew.  `touched` are the *)
(* farms of the calling handler, `assets`, `held` and `stake` what it made *)
(* of the assets, the account's shares and its stake.                      *)
(***************************************************************************)
\* slip: the blacklist is for staking only
CountedAnyway(a, f) == supplied'[a][f]

Counted(a, f) == IF a \in barred' THEN 0 ELSE supplied'[a][f]

RecountedEntry(a, f) ==
    IF Counted(a, f) = 0 THEN NoEntry
    ELSE [Claimed(a, f) EXCEPT !.boosted = [r \in Tokens |->
              IF r \in Active(f) THEN BoostedShares(Counted(a, f), staking'[a].x) ELSE @[r]]]

RecountedReward(a, f, r) ==
    [Updated(f, r) EXCEPT !.boosted =
        IF r \in Active(f)
        THEN @ - Claimed(a, f).boosted[r] + RecountedEntry(a, f).boosted[r]
        ELSE IF r \in Dropped(a, f) THEN @ - entry[a][f].boosted[r] ELSE @]

ApplyFarms(a, touched, assets, held, stake) ==
    LET farms  == {f \in AffectedFarms(a, touched) : Farming(f)}
        due(t) == SumFunction([f \in Tokens |-> IF f \in farms THEN Due(a, f, t) ELSE 0])
    IN  /\ CanSync(stake)
        \* a reward added since the claim of this block has no record yet
        /\ \A f \in farms : Active(f) \subseteq Claimed(a, f).rewards
        /\ asset' = [t \in Tokens |->
                        IF due(t) = 0 THEN assets[t] ELSE Deposited(assets[t], due(t))]
        /\ \A t \in Tokens : due(t) > 0 => CanSave(asset'[t])
        /\ supplied' = [supplied EXCEPT ![a] = [t \in Tokens |->
               held[t] + AmountToShares(assets[t].supplied, due(t), FALSE)]]
        /\ staking' = [staking EXCEPT ![a] = Synced(stake)]
        /\ entry' = [entry EXCEPT ![a] = [f \in Tokens |->
               IF f \in farms THEN RecountedEntry(a, f) ELSE @[f]]]
        /\ reward' = [f \in Tokens |-> [r \in Tokens |->
               IF f \in farms THEN RecountedReward(a, f, r) ELSE reward[f][r]]]
        /\ farmAt' = [f \in Tokens |-> IF f \in farms THEN now ELSE farmAt[f]]

PotentialFarms(held) == {t \in Tokens : held[t] > 0}

\* slip: the booster's own farm only
BoosterFarm(held) == {Booster}

\* the farms of a call that moves booster tokens between supply and stake
StakeFarms(held) == PotentialFarms(held) \cup {Booster}

-----------------------------------------------------------------------------
(***************************************************************************)
(* Supplying and withdrawing.                                              *)
(***************************************************************************)
Deposit(a, t, n) ==
    LET shares == AmountToShares(asset[t].supplied, n, FALSE)
        saved  == Deposited(asset[t], n)
    IN  /\ n > 0
        /\ n <= wallet[a][t]
        /\ CanSave(saved)
        /\ wallet' = [wallet EXCEPT ![a][t] = @ - n]
        /\ cash' = [cash EXCEPT ![t] = @ + n]
        /\ UNCHANGED <<legacy, booster, barred, transfer, now>>
        /\ ApplyFarms(a, {t}, [asset EXCEPT ![t] = saved],
                      [supplied[a] EXCEPT ![t] = @ + shares], staking[a])

Start(s, a, t, n) ==
    /\ transfer[s] = NoTransfer
    /\ transfer' = [transfer EXCEPT ![s] = [account |-> a, token |-> t, amount |-> n]]

Withdraw(s, a, t, req) ==
    LET move == AssetAmountToShares(asset[t].supplied, supplied[a][t], req, FALSE)
    IN  /\ supplied[a][t] > 0
        /\ IsMove(move)
        /\ move.shares <= supplied[a][t]
        /\ CanWithdraw(asset[t].supplied, move.shares, move.amount)
        /\ CanSave(Withdrawn(asset[t], move))
        /\ Start(s, a, t, move.amount)
        /\ UNCHANGED <<legacy, booster, barred, cash, wallet, now>>
        /\ ApplyFarms(a, {t}, [asset EXCEPT ![t] = Withdrawn(@, move)],
                      [supplied[a] EXCEPT ![t] = @ - move.shares], staking[a])

TransferSucceeds(s) ==
    LET tr == transfer[s]
    IN  /\ tr # NoTransfer
        /\ tr.amount <= cash[tr.token]
        /\ cash' = [cash EXCEPT ![tr.token] = @ - tr.amount]
        /\ wallet' = [wallet EXCEPT ![tr.account][tr.token] = @ + tr.amount]
        /\ transfer' = [transfer EXCEPT ![s] = NoTransfer]
        /\ UNCHANGED <<assetVars, farmVars, boosterVars, barred, now>>

\* a refund is saved without the check of minimum shares, and touches no farm
TransferFails(s) ==
    LET tr == transfer[s]
    IN  /\ tr # NoTransfer
        /\ asset' = [asset EXCEPT ![tr.token] = Deposited(@, tr.amount)]
        /\ supplied' = [supplied EXCEPT ![tr.account][tr.token] =
               @ + AmountToShares(asset[tr.token].supplied, tr.amount, FALSE)]
        /\ transfer' = [transfer EXCEPT ![s] = NoTransfer]
        /\ UNCHANGED <<farmVars, boosterVars, barred, cash, wallet, now>>

\* account_farm_claim_all, which anyone may call for anyone
ClaimAll(a) ==
    /\ UNCHANGED <<legacy, booster, barred, outside, now>>
    /\ ApplyFarms(a, PotentialFarms(supplied[a]), asset, supplied[a], staking[a])

-----------------------------------------------------------------------------
(***************************************************************************)
(* Staking.                                                                *)
(***************************************************************************)
\* the stake after `amount` more is staked, its lock ending at `unlock`
Staked(stake, amount, duration) ==
    [amount |-> stake.amount + amount,
     x |-> XBooster(amount, duration)
           + IF stake.amount = 0 THEN 0 ELSE Most(stake.x, XBooster(stake.amount, duration)),
     unlock |-> now + duration]

\* account_stake_booster; without an amount it stakes all that is supplied
StakeMove(a, req) ==
    LET pool == asset[Booster].supplied
    IN  IF req.kind = "available"
        THEN [shares |-> supplied[a][Booster],
              amount |-> SharesToAmount(pool, supplied[a][Booster], FALSE)]
        ELSE [shares |-> AmountToShares(pool, req.value, TRUE), amount |-> req.value]

Stake(a, req, duration) ==
    LET move   == StakeMove(a, req)
        held   == [supplied[a] EXCEPT ![Booster] = @ - move.shares]
        synced == Synced(staking[a])
    IN  /\ booster.enabled
        /\ duration \in booster.min .. booster.max
        /\ a \notin barred
        /\ supplied[a][Booster] > 0
        /\ IsMove(move)
        /\ move.shares <= supplied[a][Booster]
        /\ CanWithdraw(asset[Booster].supplied, move.shares, move.amount)
        /\ CanSave(Withdrawn(asset[Booster], move))
        /\ CanSync(staking[a])
        /\ synced.unlock <= now + duration
        /\ booster.min < booster.max
        /\ booster' = [booster EXCEPT !.total = @ + move.amount]
        /\ UNCHANGED <<legacy, barred, outside, now>>
        /\ ApplyFarms(a, StakeFarms(held),
                      [asset EXCEPT ![Booster] = Withdrawn(@, move)], held,
                      Staked(synced, move.amount, duration))

\* the lock of an enabled token must have ended, and its total is reduced
Release(amount, unlock) ==
    /\ booster.enabled => unlock <= now
    /\ IF booster.listed
       THEN /\ amount <= booster.total
            /\ booster' = [booster EXCEPT !.total = @ - amount]
       ELSE UNCHANGED booster

\* unstaked tokens become supply
Resupply(a, amount, stake) ==
    LET held == [supplied[a] EXCEPT ![Booster] =
                     @ + AmountToShares(asset[Booster].supplied, amount, FALSE)]
    IN  /\ CanSave(Deposited(asset[Booster], amount))
        /\ ApplyFarms(a, StakeFarms(held),
                      [asset EXCEPT ![Booster] = Deposited(@, amount)], held, stake)

Unstake(a) ==
    /\ staking[a].amount > 0
    /\ Release(staking[a].amount, staking[a].unlock)
    /\ UNCHANGED <<legacy, barred, outside, now>>
    /\ Resupply(a, staking[a].amount, NoStake)

\* without a token the stake of earlier versions is meant; it was locked then
UnstakeLegacy(a) ==
    /\ legacy[a] > 0
    /\ Release(legacy[a], 0)
    /\ legacy' = [legacy EXCEPT ![a] = 0]
    /\ UNCHANGED <<barred, outside, now>>
    /\ Resupply(a, legacy[a], staking[a])

\* with a client_echo the tokens are sent away, and no farm hears of it
UnstakeEcho(s, a) ==
    /\ a \in EchoSenders
    /\ staking[a].amount > 0
    /\ Release(staking[a].amount, staking[a].unlock)
    /\ staking' = [staking EXCEPT ![a] = NoStake]
    /\ Start(s, a, Booster, staking[a].amount)
    /\ UNCHANGED <<assetVars, farmVars, legacy, barred, cash, wallet, now>>

-----------------------------------------------------------------------------
(***************************************************************************)
(* The owner.                                                              *)
(***************************************************************************)
\* add_asset_farm_reward, paid out of the reserve
AddReward(f, r, perDay, amount) ==
    /\ amount <= asset[r].reserved
    /\ asset' = [asset EXCEPT ![r].reserved = @ - amount]
    /\ reward' = [reward EXCEPT ![f] = [t \in Tokens |->
           IF t = r THEN [Updated(f, r) EXCEPT !.status = "active", !.per_day = perDay,
                                               !.remaining = @ + amount]
           ELSE Updated(f, t)]]
    /\ farmAt' = [farmAt EXCEPT ![f] = now]
    /\ UNCHANGED <<supplied, entry, boosterVars, barred, outside, now>>

ExtendBlacklist(a) ==
    /\ barred' = barred \cup {a}
    /\ UNCHANGED <<legacy, booster, outside, now>>
    /\ ApplyFarms(a, PotentialFarms(supplied[a]), asset, supplied[a], staking[a])

RemoveFromBlacklist(a) ==
    /\ a \in barred
    /\ barred' = barred \ {a}
    /\ UNCHANGED <<legacy, booster, outside, now>>
    /\ ApplyFarms(a, PotentialFarms(supplied[a]), asset, supplied[a], staking[a])

AddBoosterToken(p) ==
    /\ ~ booster.listed
    /\ booster' = Listed(p)
    /\ UNCHANGED <<assetVars, farmVars, staking, legacy, barred, outside, now>>

UpdateBoosterToken(p, enabled) ==
    /\ booster.listed
    /\ booster' = [Listed(p) EXCEPT !.enabled = enabled, !.total = booster.total]
    /\ UNCHANGED <<assetVars, farmVars, staking, legacy, barred, outside, now>>

RemoveBoosterToken ==
    /\ booster.listed
    /\ booster.total = 0
    /\ booster' = Unlisted
    /\ UNCHANGED <<assetVars, farmVars, staking, legacy, barred, outside, now>>

\* the next block
Tick ==
    /\ now < MaxTime
    /\ now' = now + 1
    /\ UNCHANGED <<assetVars, farmVars, boosterVars, barred, outside>>

Durations == UNION {p.min .. p.max : p \in Policies}

Next ==
    \/ \E a \in Accounts :
          \/ \E t \in Tokens, n \in Amounts : Deposit(a, t, n)
          \/ ClaimAll(a)
          \/ \E n \in Amounts, d \in Durations : Stake(a, Exactly(n), d)
          \/ \E d \in Durations : Stake(a, Everything, d)
          \/ Unstake(a)
          \/ UnstakeLegacy(a)
          \/ \E s \in Slots : UnstakeEcho(s, a)
    \/ \E s \in Slots, a \in Payees, t \in Tokens :
          Withdraw(s, a, t, Everything) \/ \E n \in Amounts : Withdraw(s, a, t, Exactly(n))
    \/ \E a \in Barrable : ExtendBlacklist(a) \/ RemoveFromBlacklist(a)
    \/ \E s \in Slots : TransferSucceeds(s) \/ TransferFails(s)
    \/ \E p \in Pays, w \in Rewards : AddReward(p[1], p[2], w[1], w[2])
    \/ \E p \in Policies : AddBoosterToken(p) \/ \E e \in BOOLEAN : UpdateBoosterToken(p, e)
    \/ RemoveBoosterToken
    \/ Tick

Spec == Init /\ [][Next]_vars

-----------------------------------------------------------------------------
(***************************************************************************)
(* Properties.                                                             *)
(***************************************************************************)
\* The boosted shares of a reward, by which it is divided, are the sum of the
\* accounts' boosted shares in it: each claim, recount, dropped record and
\* removed entry keeps the two in step (account_farm.rs), also for a reward
\* that ran out and was added again.
BoostedSharesAddUp ==
    \A f \in Tokens, r \in Tokens :
        reward[f][r].boosted = SumFunction([a \in Accounts |-> entry[a][f].boosted[r]])

\* No sequence of stakes and policies yields more x booster tokens than the
\* greatest multiplier for the tokens staked: restaking counts the old tokens
\* once (booster_staking.rs).
XBoosterBounded ==
    \A a \in Accounts : \E p \in Policies :
        staking[a].amount > 0 =>
            staking[a].x * FullRate <= staking[a].amount * p.multiplier

\* A barred account has no part in any farm, whatever it supplies later and
\* whatever refunds it is given (lib.rs).
BarredFarmNothing ==
    \A a \in barred, f \in Tokens : entry[a][f] = NoEntry

\* the rewards of r taken out of the farms and not yet paid
Unpaid(r) ==
    cash[r] - asset[r].supplied.balance - asset[r].reserved
    - SumFunction([f \in Tokens |-> reward[f][r].remaining])
    - SumFunction([s \in Slots |-> IF transfer[s] # NoTransfer /\ transfer[s].token = r
                                   THEN transfer[s].amount ELSE 0])
    - IF r = Booster THEN SumFunction([a \in Accounts |-> staking[a].amount + legacy[a]]) ELSE 0

\* what the accounts' records say they have yet to be paid, finely
Earned(r) ==
    SumFunction([f \in Tokens |-> SumFunction([a \in Accounts |->
        IF r \in entry[a][f].rewards
        THEN (reward[f][r].per_share - entry[a][f].last[r]) * entry[a][f].boosted[r]
        ELSE 0])])

\* What the farms have handed out and what the records say is owed stay the
\* same but for rounding: a step pays no reward twice and loses none.  One
\* claim rounds by at most half a token for each farm, one update by less
\* than a fine step for each boosted share (asset_farm.rs, account_farm.rs).
RewardsBalance ==
    [][\A r \in Tokens :
        LET drift == (Fine * Unpaid(r) - Earned(r))' - (Fine * Unpaid(r) - Earned(r))
            farms == {f \in Tokens : reward[f][r].status # "none"}
        IN  /\ - Fine * Cardinality(farms) <= 2 * drift
            /\ 2 * drift <= Fine * Cardinality(farms)
                            + 2 * SumFunction([f \in Tokens |-> reward[f][r].boosted])
      ]_vars

\* Whoever stakes, or unstakes into its supply, farms with the new x booster
\* tokens at once, in every farm of a token it supplies (booster_staking.rs).
StakeCountsAtOnce ==
    [][\A a \in Accounts :
          staking'[a].amount # staking[a].amount /\ transfer' = transfer =>
              \A f \in Tokens : \A r \in entry'[a][f].rewards :
                  entry'[a][f].boosted[r] = BoostedShares(supplied'[a][f], staking'[a].x)
      ]_vars

\* Whoever's lock has ended can have the tokens back.
UnlockedStakesLeave ==
    \A a \in Accounts :
        staking[a].amount > 0 /\ staking[a].unlock <= now /\ booster.listed
            => staking[a].amount <= booster.total
=============================================================================
