------------------------------ MODULE Registry ------------------------------
(***************************************************************************)
(* The accounts that contracts/contract keeps, the storage they pay for,   *)
(* and the records that earlier versions of the code left behind.          *)
(*                                                                         *)
(* An account pays for every byte the contract stores on its behalf: its   *)
(* record, its margin account, and in the earliest versions the entries of *)
(* two maps of its own.  A record of an earlier version is converted when  *)
(* it is next read, and written back as it now is.  Bytes are counted as   *)
(* they change; a save that adds bytes must be covered by the balance the  *)
(* account has deposited, but for the callbacks that return a failed       *)
(* transfer, which save in any case.                                       *)
(*                                                                         *)
(* Of the loans only the records are followed: one asset, a share is a     *)
(* unit, no interest.  The rest is Lending's, Margin's and Farms'; here an *)
(* asset has a farm without rewards, for its record is paid for too.       *)
(***************************************************************************)
EXTENDS Administration

CONSTANTS
    NoRecord, NoStorage,
    BaseBytes,          \* bytes of an empty record, by version
    MarginBaseBytes,    \* bytes of an empty margin account, by version
    ItemBytes,          \* of a token or a farm in a record
    EntryBytes,         \* of an entry in a map of its own
    StorageBytes,       \* of the record of the storage itself
    MinStorage,         \* MIN_STORAGE_BALANCE, at the price of 1 for a byte
    LoanWeight,         \* what must be pledged for a unit borrowed
    Starts,             \* the records to start from
    Users,              \* bound: accounts that call for themselves
    MaxTransfers,       \* bound: transfers under way
    MaxCash,            \* bound: the tokens the contract holds
    MaxMove,            \* bound: what a call moves
    MaxBalance          \* bound: the balance deposited for storage

VARIABLES
    account,            \* accounts
    entries,            \* the entries of an early record in maps of their own
    margin,             \* margin_accounts
    storage,
    blacklist,          \* blacklist_of_farmers
    transfers,          \* transfers of withdrawals whose result is due
    cash                \* the tokens of the asset the contract holds

accountVars == <<account, entries, margin, storage, blacklist>>
vars == <<adminVars, account, entries, margin, storage, blacklist, transfers, cash>>

Registered(a) == account[a] # NoRecord

----------------------------------------------------------------------------
(* Records.                                                                 *)

Versions == {"V0", "V1", "V2", "V3", "Current"}

AccountType ==
    [version : Versions, supplied : Nat, collateral : Nat, borrowed : Nat,
     farms : BOOLEAN, position : BOOLEAN]

MarginType == [version : {"V0", "V1", "Current"}, supplied : Nat, positions : Nat]

StorageType == [balance : Nat, used : Nat]

ASSUME RegistrySets == IsFiniteSet(Accounts) /\ Users \subseteq Accounts
ASSUME RegistryNumbers ==
    /\ {ItemBytes, EntryBytes, StorageBytes, MinStorage, LoanWeight} \subseteq Nat
    /\ {MaxTransfers, MaxCash, MaxMove, MaxBalance} \subseteq Nat
    /\ BaseBytes \in [Versions -> Nat] /\ MarginBaseBytes \in [{"V0", "V1", "Current"} -> Nat]
ASSUME RegistryMarks ==
    NoRecord \notin AccountType \cup MarginType /\ NoStorage \notin StorageType

NewAccount ==
    [version |-> "Current", supplied |-> 0, collateral |-> 0, borrowed |-> 0,
     farms |-> FALSE, position |-> FALSE]

NewMargin == [version |-> "Current", supplied |-> 0, positions |-> 0]

(* V0 and V1 keep what is supplied and farmed in maps, that are cleared;    *)
(* they and V2 become a regular position, be there something in it or not.  *)
FromAccountV1(record) == [record EXCEPT !.version = "Current", !.position = TRUE]
\* slip: what is pledged is dropped when V2 becomes a regular position
FromAccountV2Unpledged(record) ==
    [record EXCEPT !.version = "Current", !.position = TRUE, !.collateral = 0]

FromAccountV2(record) == [record EXCEPT !.version = "Current", !.position = TRUE]
FromAccountV3(record) == [record EXCEPT !.version = "Current"]

Converted(record) ==
    CASE record.version \in {"V0", "V1"} -> FromAccountV1(record)
      [] record.version = "V2" -> FromAccountV2(record)
      [] record.version = "V3" -> FromAccountV3(record)
      [] OTHER -> record

ConvertedMargin(record) == [record EXCEPT !.version = "Current"]

Count(conditions) == Cardinality({i \in DOMAIN conditions : conditions[i]})

InRecord(r) ==
    IF r.version \in {"V0", "V1"}
    THEN Count(<<r.collateral > 0, r.borrowed > 0>>)
    ELSE Count(<<r.collateral > 0, r.borrowed > 0, r.supplied > 0, r.farms, r.position>>)

Bytes(r) == IF r = NoRecord THEN 0 ELSE BaseBytes[r.version] + ItemBytes * InRecord(r)

MarginBytes(r) ==
    IF r = NoRecord
    THEN 0
    ELSE MarginBaseBytes[r.version] + ItemBytes * Count(<<r.supplied > 0>>)
         + EntryBytes * r.positions

(* What the contract stores on behalf of an account.                        *)
Footprint(a) ==
    Bytes(account[a]) + MarginBytes(margin[a]) + EntryBytes * Cardinality(entries[a])
        + IF storage[a] = NoStorage THEN 0 ELSE StorageBytes

----------------------------------------------------------------------------
(* Loading and saving.                                                      *)

Covered(s) == s.used <= s.balance

\* slip: the bytes used so far are checked, and not those that are added
CanSetStorageAfter(s, more) == more >= 0 => Covered(s)

(* set_storage: added bytes, and none at all, must be covered.              *)
CanSetStorage(s, more) == more >= 0 => Covered([s EXCEPT !.used = @ + more])

SetStorage(a, more) == storage' = [storage EXCEPT ![a].used = @ + more]

\* slip: maps that are cleared when a record is read are not accounted
MoreBytesUnseen(a, record) == Bytes(record) - Bytes(account[a])

MoreBytes(a, record) ==
    Bytes(record) - Bytes(account[a]) - EntryBytes * Cardinality(entries[a])

CanSave(a, record) == CanSetStorage(storage[a], MoreBytes(a, record))

ForceSave(a, record) ==
    /\ account' = [account EXCEPT ![a] = record]
    /\ entries' = [entries EXCEPT ![a] = {}]
    /\ SetStorage(a, MoreBytes(a, record))

Save(a, record) == CanSave(a, record) /\ ForceSave(a, record)

Account(a) == Converted(account[a])

(* The margin account, made when an account has none.                       *)
MarginAccount(a) == IF margin[a] = NoRecord THEN NewMargin ELSE ConvertedMargin(margin[a])

MoreMarginBytes(a, record) == MarginBytes(record) - MarginBytes(margin[a])

ForceSaveMargin(a, record) ==
    /\ margin' = [margin EXCEPT ![a] = record]
    /\ SetStorage(a, MoreMarginBytes(a, record))

SaveMargin(a, record) ==
    CanSetStorage(storage[a], MoreMarginBytes(a, record)) /\ ForceSaveMargin(a, record)

(* The farm of the asset is entered by who has supplied, and left by others.*)
Farming(a, record, barred) ==
    [record EXCEPT !.farms = a \notin barred /\ record.supplied + record.collateral > 0]

WithSupply(record, x) == [record EXCEPT !.supplied = @ + x]

SetAsset(a) == asset' = a

----------------------------------------------------------------------------
(* Storage.                                                                 *)

StorageDeposit(a, x, registrationOnly) ==
    LET min == IF registrationOnly THEN MinStorage ELSE x
        used == StorageBytes + Bytes(NewAccount) + MarginBytes(NewMargin)
    IN  /\ \/ /\ storage[a] # NoStorage
              /\ ~registrationOnly
              /\ storage[a].balance + x <= MaxBalance
              /\ Covered([storage[a] EXCEPT !.balance = @ + x])
              /\ storage' = [storage EXCEPT ![a].balance = @ + x]
              /\ UNCHANGED <<account, margin>>
           \/ /\ storage[a] = NoStorage
              /\ x >= MinStorage
              /\ used <= min
              /\ storage' = [storage EXCEPT ![a] = [balance |-> min, used |-> used]]
              /\ account' = [account EXCEPT ![a] = NewAccount]
              /\ margin' = [margin EXCEPT ![a] = NewMargin]
        /\ UNCHANGED <<adminVars, entries, blacklist, transfers, cash>>

AvailableStorage(s) ==
    LET kept == IF s.used > MinStorage THEN s.used ELSE MinStorage
    IN  IF s.balance > kept THEN s.balance - kept ELSE 0

StorageWithdraw(a, x) ==
    /\ storage[a] # NoStorage
    /\ x \in 1..AvailableStorage(storage[a])
    /\ storage' = [storage EXCEPT ![a].balance = @ - x]
    /\ UNCHANGED <<adminVars, account, entries, margin, blacklist, transfers, cash>>

(* Reading an early record clears its maps, and must be followed by a save. *)
MayDrop(a) == entries[a] = {}

StorageUnregister(a) ==
    /\ Registered(a)
    /\ MayDrop(a)
    /\ Account(a).supplied = 0 /\ ~Account(a).position /\ ~Account(a).farms
    /\ margin[a] # NoRecord => margin[a].supplied = 0 /\ margin[a].positions = 0
    /\ account' = [account EXCEPT ![a] = NoRecord]
    /\ margin' = [margin EXCEPT ![a] = NoRecord]
    /\ storage' = [storage EXCEPT ![a] = NoStorage]
    /\ UNCHANGED <<adminVars, entries, blacklist, transfers, cash>>

----------------------------------------------------------------------------
(* What accounts do with the asset.                                         *)

scale == Asset.extra_decimals

Receives(x) ==
    /\ asset # NoAsset
    /\ cash + x <= MaxCash
    /\ cash' = cash + x
    /\ UNCHANGED <<settings, blacklist, transfers>>

Deposit(a, x) ==
    /\ Receives(x)
    /\ Registered(a)
    /\ Asset.can_deposit
    /\ Save(a, Farming(a, WithSupply(Account(a), x * scale), blacklist))
    /\ SetAsset([Asset EXCEPT !.supplied = @ + x * scale])
    /\ UNCHANGED margin

DepositToMargin(a, x) ==
    /\ Receives(x)
    /\ Registered(a)
    /\ Asset.can_deposit
    /\ SaveMargin(a, WithSupply(MarginAccount(a), x * scale))
    /\ SetAsset([Asset EXCEPT !.supplied = @ + x * scale])
    /\ UNCHANGED <<account, entries>>

DepositToReserve(x) ==
    /\ Receives(x)
    /\ Asset.can_deposit
    /\ SetAsset([Asset EXCEPT !.reserved = @ + x * scale])
    /\ UNCHANGED <<account, entries, margin, storage>>

(* An amount, in the decimals of the records, that is paid out.  The        *)
(* decimals of the day are kept with it as a history.                       *)
PaysOut(a, amount, kind) ==
    /\ asset # NoAsset
    /\ Asset.can_withdraw
    /\ amount <= available(Asset)
    /\ amount \div scale > 0
    /\ Cardinality(transfers) < MaxTransfers
    /\ \E id \in 1..MaxTransfers :
          /\ id \notin {t.id : t \in transfers}
          /\ transfers' = transfers \cup
                {[id |-> id, to |-> a, kind |-> kind, amount |-> amount,
                  tokens |-> amount \div scale, scale |-> scale]}
    /\ SetAsset([Asset EXCEPT !.supplied = @ - amount])
    /\ UNCHANGED <<settings, blacklist, cash>>

Withdraw(a, amount) ==
    /\ PaysOut(a, amount, "Regular")
    /\ Registered(a) /\ amount <= Account(a).supplied
    /\ Save(a, Farming(a, WithSupply(Account(a), -amount), blacklist))
    /\ UNCHANGED margin

MarginWithdraw(a, amount) ==
    /\ PaysOut(a, amount, "Margin")
    /\ margin[a] # NoRecord /\ amount <= margin[a].supplied
    /\ SaveMargin(a, WithSupply(MarginAccount(a), -amount))
    /\ UNCHANGED <<account, entries>>

Saves(a, record) ==
    /\ Save(a, Farming(a, record, blacklist))
    /\ UNCHANGED <<settings, margin, blacklist, transfers, cash>>

IncreaseCollateral(a, x) ==
    /\ Registered(a) /\ asset # NoAsset
    /\ Asset.can_use_as_collateral
    /\ Asset.supplied_limit # None => Asset.supplied <= Asset.supplied_limit
    /\ x \in 1..Account(a).supplied
    /\ Saves(a, [Account(a) EXCEPT !.supplied = @ - x, !.collateral = @ + x, !.position = TRUE])
    /\ UNCHANGED asset

Sound(record) == record.borrowed * LoanWeight <= record.collateral

DecreaseCollateral(a, x) ==
    LET rest == [Account(a) EXCEPT !.collateral = @ - x, !.supplied = @ + x]
    IN  /\ Registered(a) /\ asset # NoAsset
        /\ x \in 1..Account(a).collateral
        /\ Sound(rest)
        /\ Saves(a, [rest EXCEPT !.position = rest.collateral + rest.borrowed > 0])
        /\ UNCHANGED asset

Borrow(a, x) ==
    LET indebted == [Account(a) EXCEPT !.borrowed = @ + x, !.supplied = @ + x]
    IN  /\ Registered(a) /\ asset # NoAsset
        /\ Account(a).position
        /\ Asset.can_borrow
        /\ x <= available(Asset)
        /\ Asset.borrowed_limit # None =>
              Asset.borrowed + Asset.margin_debt + Asset.margin_pending_debt + x
                  <= Asset.borrowed_limit
        /\ Sound(indebted)
        /\ Saves(a, indebted)
        /\ SetAsset([Asset EXCEPT !.supplied = @ + x, !.borrowed = @ + x])

Repay(a, x) ==
    /\ Registered(a) /\ asset # NoAsset
    /\ x <= Account(a).borrowed /\ x <= Account(a).supplied
    /\ Saves(a, [Account(a) EXCEPT !.borrowed = @ - x, !.supplied = @ - x])
    /\ SetAsset([Asset EXCEPT !.supplied = @ - x, !.borrowed = @ - x])

ClaimFarms(a) ==
    /\ Registered(a)
    /\ asset # NoAsset
    /\ Saves(a, Account(a))
    /\ UNCHANGED asset

----------------------------------------------------------------------------
(* The results of transfers.                                                *)

TransferSucceeds(t) ==
    /\ transfers' = transfers \ {t}
    /\ cash' = cash - t.tokens
    /\ UNCHANGED <<adminVars, accountVars>>

(* The callback of a failed one gives back what was taken, whatever the     *)
(* storage; without an account it aborts.                                   *)
TransferFails(t) ==
    /\ transfers' = transfers \ {t}
    /\ IF Registered(t.to)
       THEN /\ SetAsset([Asset EXCEPT !.supplied = @ + t.amount])
            /\ \/ /\ t.kind = "Regular"
                  /\ ForceSave(t.to, WithSupply(Account(t.to), t.amount))
                  /\ UNCHANGED margin
               \/ /\ t.kind = "Margin"
                  /\ ForceSaveMargin(t.to, WithSupply(MarginAccount(t.to), t.amount))
                  /\ UNCHANGED <<account, entries>>
       ELSE UNCHANGED <<asset, account, entries, margin, storage>>
    /\ UNCHANGED <<settings, blacklist, cash>>

----------------------------------------------------------------------------
(* What the owner and the guardians do with accounts and with funds.        *)

SetOwner(p, a) ==
    /\ Change(p, IsOwner(p))
    /\ Registered(a)
    /\ MayDrop(a)
    /\ owner' = a
    /\ UNCHANGED <<guardians, asset, rules, limit, range, accountVars, transfers, cash>>

Blacklist(p, a) ==
    /\ Change(p, IsTrusted(p))
    /\ Registered(a)
    /\ blacklist' = blacklist \cup {a}
    /\ Save(a, Farming(a, Account(a), blacklist'))
    /\ UNCHANGED <<owner, guardians, asset, rules, limit, range, margin, transfers, cash>>

Unblacklist(p, a) ==
    /\ Change(p, IsOwner(p))
    /\ a \in blacklist
    /\ Registered(a)
    /\ blacklist' = blacklist \ {a}
    /\ Save(a, Farming(a, Account(a), blacklist'))
    /\ UNCHANGED <<owner, guardians, asset, rules, limit, range, margin, transfers, cash>>

(* deposit_to_owner, of an amount taken from a field of the asset.          *)
PayOwner(p, field, x) ==
    /\ Change(p, IsTrusted(p))
    /\ asset # NoAsset
    /\ x \in 1..Asset[field]
    /\ Registered(owner)
    /\ Save(owner, Farming(owner, WithSupply(Account(owner), x), blacklist))
    /\ SetAsset([Asset EXCEPT ![field] = @ - x, !.supplied = @ + x])
    /\ UNCHANGED <<owner, guardians, rules, limit, range, margin, blacklist, transfers, cash>>

ClaimProtFee(p, x) == PayOwner(p, "prot_fee", x)

DecreaseReserved(p, x) ==
    /\ PayOwner(p, "reserved", x)
    /\ p \in guardians =>
          asset'.reserved * MaxRatio >= asset'.reserve_ratio * (asset'.supplied + asset'.reserved)

IncreaseReserved(p, x) ==
    /\ Change(p, IsTrusted(p))
    /\ asset # NoAsset
    /\ Registered(owner) /\ x \in 1..Account(owner).supplied
    /\ Save(owner, Farming(owner, WithSupply(Account(owner), -x), blacklist))
    /\ SetAsset([Asset EXCEPT !.reserved = @ + x, !.supplied = @ - x])
    /\ UNCHANGED <<owner, guardians, rules, limit, range, margin, blacklist, transfers, cash>>

ReturnLostFound(p, a, x) ==
    /\ Change(p, IsOwner(p))
    /\ asset # NoAsset
    /\ x \in 1..Asset.lostfound_shares
    /\ Registered(a)
    /\ SaveMargin(a, WithSupply(MarginAccount(a), x))
    /\ SetAsset([Asset EXCEPT !.lostfound_shares = @ - x])
    /\ UNCHANGED <<owner, guardians, rules, limit, range, account, entries, blacklist,
                   transfers, cash>>

----------------------------------------------------------------------------
(* All that is recorded of the asset and not lent out.                      *)
Recorded(a) == available(a) + a.margin_position + SumFunction(a.beneficiary_fees)

(* The shares of accounts, or of margin accounts, in a pool.                *)
HeldBy(records, pool) ==
    SumFunction([a \in Accounts |-> IF records[a] = NoRecord THEN 0 ELSE records[a][pool]])

(* A position is what pledges and owes, from the version on that says       *)
(* whether there is one.                                                    *)
PledgesInPosition(r) ==
    r.version \in {"V3", "Current"} /\ ~r.position => r.collateral = 0 /\ r.borrowed = 0

(* What an earlier version leaves: records of their types, nothing kept for *)
(* who has no account, and in the pools the shares of the records.          *)
LeftBehind(start) ==
    /\ start.account \in [Accounts -> AccountType \cup {NoRecord}]
    /\ start.margin \in [Accounts -> MarginType \cup {NoRecord}]
    /\ start.entries \in [Accounts -> SUBSET {"supplied", "farms"}]
    /\ \A a \in Accounts :
          IF start.account[a] = NoRecord
          THEN start.margin[a] = NoRecord /\ start.entries[a] = {}
          ELSE PledgesInPosition(start.account[a])
    /\ start.asset = NoAsset \/ Loaded(start.asset) \in AssetType
    /\ LET kept == IF start.asset = NoAsset THEN NewFields ELSE Loaded(start.asset)
       IN  /\ kept.supplied = HeldBy(start.account, "supplied")
                + HeldBy(start.account, "collateral") + HeldBy(start.margin, "supplied")
                + kept.lostfound_shares
           /\ kept.borrowed = HeldBy(start.account, "borrowed")

ASSUME StartAssumption == \A start \in Starts : LeftBehind(start)

Init ==
    \E start \in Starts :
        /\ AdminInit(start.asset)
        /\ account = start.account
        /\ entries = start.entries
        /\ margin = start.margin
        /\ storage = [a \in Accounts |->
              IF start.account[a] = NoRecord
              THEN NoStorage
              ELSE LET used == StorageBytes + Bytes(start.account[a]) + MarginBytes(start.margin[a])
                                  + EntryBytes * Cardinality(start.entries[a])
                   IN  [balance |-> IF used > MinStorage THEN used ELSE MinStorage,
                        used |-> used]]
        /\ blacklist = {}
        /\ transfers = {}
        /\ cash = IF start.asset = NoAsset
                  THEN 0
                  ELSE Recorded(Loaded(start.asset)) \div Loaded(start.asset).extra_decimals

Moves == 1..MaxMove

ByAccount(a) ==
    \/ \E x \in MinStorage..MaxBalance, only \in BOOLEAN : StorageDeposit(a, x, only)
    \/ \E x \in 1..MaxBalance : StorageDeposit(a, x, FALSE) \/ StorageWithdraw(a, x)
    \/ StorageUnregister(a)
    \/ ClaimFarms(a)
    \/ \E x \in Moves :
          \/ Deposit(a, x) \/ DepositToMargin(a, x)
          \/ Withdraw(a, x) \/ MarginWithdraw(a, x)
          \/ IncreaseCollateral(a, x) \/ DecreaseCollateral(a, x)
          \/ Borrow(a, x) \/ Repay(a, x)

Results == \E t \in transfers : TransferSucceeds(t) \/ TransferFails(t)

Governs(p) ==
    \/ \E a \in Accounts : SetOwner(p, a) \/ Blacklist(p, a) \/ Unblacklist(p, a)
    \/ \E x \in Moves : ClaimProtFee(p, x) \/ DecreaseReserved(p, x) \/ IncreaseReserved(p, x)
    \/ \E a \in Accounts, x \in Moves : ReturnLostFound(p, a, x)

Governed ==
    \E p \in Accounts \cup Guards :
        \/ Governs(p)
        \/ Administers(p) /\ UNCHANGED <<accountVars, transfers, cash>>

Next ==
    \/ \E a \in Users : ByAccount(a)
    \/ \E x \in Moves : DepositToReserve(x)
    \/ Results
    \/ Governed

Spec == Init /\ [][Next]_vars

----------------------------------------------------------------------------
(* Records have the shape of their version.                                 *)
TypeOK ==
    /\ owner \in Accounts /\ guardians \subseteq Guards
    /\ asset # NoAsset => DOMAIN asset = FieldsOf[asset.version] \cup {"version"}
    /\ account \in [Accounts -> AccountType \cup {NoRecord}]
    /\ entries \in [Accounts -> SUBSET {"supplied", "farms"}]
    /\ margin \in [Accounts -> MarginType \cup {NoRecord}]
    /\ storage \in [Accounts -> StorageType \cup {NoStorage}]
    /\ blacklist \subseteq Accounts
    /\ cash \in 0..MaxCash
    /\ \A t \in transfers : t.to \in Accounts /\ t.amount \in Nat /\ t.tokens \in Nat

(* An account is charged for exactly the bytes that are stored for it,      *)
(* whatever version its records were written by and however it was saved    *)
(* (StorageTracker, internal_set_storage), and nothing stays in the         *)
(* contract on behalf of one that has left (storage_unregister).            *)
BytesAddUp ==
    \A a \in Accounts :
        IF storage[a] = NoStorage
        THEN Footprint(a) = 0
        ELSE storage[a].used = Footprint(a)

(* Every share of the asset's pools is a share of somebody: no conversion   *)
(* of a record, no return of a failed transfer and no act of the owner      *)
(* forgets or makes up one.                                                 *)
SharesOfAccounts ==
    asset # NoAsset =>
        /\ Asset.supplied = HeldBy(account, "supplied") + HeldBy(account, "collateral")
                              + HeldBy(margin, "supplied") + Asset.lostfound_shares
        /\ Asset.borrowed = HeldBy(account, "borrowed")

(* The tokens the contract holds, less those it has promised: to pools,     *)
(* reserve and fees, or to a transfer under way.                            *)
Unclaimed ==
    IF asset = NoAsset
    THEN 0
    ELSE (cash - SumFunction([t \in transfers |-> t.tokens])) * scale - Recorded(Asset)

Dust(t) == t.amount % t.scale

(* What the books promise and the tokens the contract holds drift apart by  *)
(* nothing but this: the dust of a withdrawal, which its refund puts back;  *)
(* the tokens of one who unregisters while his withdrawal is under way, for *)
(* its refund finds no account; and a refund in decimals that were changed  *)
(* in the meantime, which update_asset allows once the books are empty,     *)
(* whatever is under way.  An upgrade of the asset's record, fees that are  *)
(* moved and new decimals themselves shift nothing.                         *)
BooksDriftByRefunds ==
    [][LET drift == Unclaimed' - Unclaimed
       IN  \/ drift = 0
           \/ scale' # scale /\ Unclaimed' * scale = Unclaimed * scale'
           \/ \E t \in transfers' \ transfers : drift = Dust(t)
           \/ \E t \in transfers \ transfers' :
                 IF ~Registered(t.to)
                 THEN drift = t.tokens * scale
                 ELSE drift = IF scale = t.scale THEN -Dust(t) ELSE t.tokens * scale - t.amount]_vars

(* No setter undoes what another checks: an asset with a valid              *)
(* configuration keeps one, though most setters check only what they set;   *)
(* and the limits a margin trade is held to are sane, be they those of the  *)
(* token or, when it has none or loses them, those of margin_config, which  *)
(* its setters check one by one.                                            *)
SettingsStaySound ==
    /\ [][asset # NoAsset /\ Valid(Asset) => Valid(Asset')]_vars
    /\ []Sane(LimitInForce)

(* Bytes are charged on credit only by the callback of a failed transfer.   *)
OverdrawnByRefunds ==
    [][\A a \in Accounts :
          storage'[a] # NoStorage /\ ~Covered(storage'[a]) /\ storage'[a] # storage[a]
              => \/ storage'[a].used < storage[a].used
                 \/ \E t \in transfers : t.to = a /\ TransferFails(t)]_vars
=============================================================================
