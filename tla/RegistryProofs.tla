---------------------------- MODULE RegistryProofs ----------------------------
(***************************************************************************)
(* Theorems of Registry, for every set of accounts, any prices of storage, *)
(* any records that earlier versions left and any configurations.          *)
(*                                                                         *)
(* What accounts are charged for and what they have shares of is one       *)
(* invariant with two more facts: records and storage come and go          *)
(* together, and a record that says it has no position pledges and owes    *)
(* nothing.  The second is what lets storage_unregister drop a record by   *)
(* looking at its position alone.                                          *)
(***************************************************************************)
EXTENDS Registry, PoolProofs

\* The records, each of its type.
RecordTypes ==
    /\ account \in [Accounts -> AccountType \cup {NoRecord}]
    /\ entries \in [Accounts -> SUBSET {"supplied", "farms"}]
    /\ margin \in [Accounts -> MarginType \cup {NoRecord}]
    /\ storage \in [Accounts -> StorageType \cup {NoStorage}]

\* An account, its storage, its margin account and its entries come and go
\* together.
Linked ==
    \A a \in Accounts :
        /\ account[a] = NoRecord <=> storage[a] = NoStorage
        /\ account[a] = NoRecord => margin[a] = NoRecord /\ entries[a] = {}

\* No record that says it has no position pledges or owes.
Positioned == \A a \in Accounts : account[a] # NoRecord => PledgesInPosition(account[a])

\* Before the asset is listed nobody has shares of it.
Unlisted ==
    asset = NoAsset =>
        /\ transfers = {}
        /\ \A a \in Accounts :
              /\ account[a] # NoRecord =>
                    account[a].supplied = 0 /\ account[a].collateral = 0 /\ account[a].borrowed = 0
              /\ margin[a] # NoRecord => margin[a].supplied = 0

\* What holds of the records, whatever becomes of the asset.
RecordsKept == RecordTypes /\ Linked /\ BytesAddUp /\ Positioned

\* The rest of the state.
OthersTyped ==
    /\ owner \in Accounts
    /\ asset = NoAsset \/ Asset \in AssetType
    /\ \A t \in transfers : t.to \in Accounts /\ t.amount \in Nat

\* The inductive invariant.
Inv == RecordsKept /\ OthersTyped /\ Unlisted /\ SharesOfAccounts
-----------------------------------------------------------------------------
\* Records.

\* The fields a record may count are at most five.
LEMMA CountType ==
  ASSUME NEW n \in Nat, NEW conditions, DOMAIN conditions = 1..n
  PROVE  Count(conditions) \in Nat
<1>1. IsFiniteSet({i \in 1..n : conditions[i]})
  BY FS_Interval, FS_Subset
<1> QED BY <1>1, FS_CardinalityType DEF Count

\* A record takes a number of bytes, and none takes none.
LEMMA BytesType ==
  ASSUME NEW r \in AccountType \cup {NoRecord}
  PROVE  Bytes(r) \in Nat /\ Bytes(NoRecord) = 0
<1> DEFINE x == <<r.collateral > 0, r.borrowed > 0>>
           y == <<r.collateral > 0, r.borrowed > 0, r.supplied > 0, r.farms, r.position>>
<1>1. ASSUME r \in AccountType
      PROVE  InRecord(r) \in Nat
  <2>1. DOMAIN x = 1..2 /\ DOMAIN y = 1..5
    OBVIOUS
  <2>2. Count(x) \in Nat /\ Count(y) \in Nat
    <3> HIDE DEF x, y
    <3> QED BY <2>1, CountType
  <2> QED BY <2>2 DEF InRecord
<1>2. CASE r = NoRecord
  BY <1>2 DEF Bytes
<1>3. CASE r # NoRecord
  <2>1. BaseBytes[r.version] \in Nat /\ ItemBytes \in Nat
    BY <1>3, RegistryNumbers DEF AccountType
  <2> DEFINE n == InRecord(r)
             b == BaseBytes[r.version]
  <2>2. n \in Nat
    BY <1>1, <1>3
  <2> HIDE DEF n
  <2>3. ItemBytes * n \in Nat
    BY <2>1, <2>2
  <2>4. b + ItemBytes * n \in Nat
    BY <2>1, <2>3
  <2> QED BY <1>3, <2>4 DEF Bytes, n, b
<1> QED BY <1>2, <1>3 DEF Bytes

\* So does a record of a margin account.
LEMMA MarginBytesType ==
  ASSUME NEW r \in MarginType \cup {NoRecord}
  PROVE  MarginBytes(r) \in Nat /\ MarginBytes(NoRecord) = 0
<1>1. CASE r = NoRecord
  BY <1>1 DEF MarginBytes
<1>2. CASE r # NoRecord
  <2> DEFINE x == <<r.supplied > 0>>
             b == MarginBaseBytes[r.version]
             n == Count(x)
             p == r.positions
  <2>1. b \in Nat /\ ItemBytes \in Nat /\ EntryBytes \in Nat /\ p \in Nat
    BY <1>2, RegistryNumbers DEF MarginType
  <2>2. n \in Nat
    <3>1. DOMAIN x = 1..1
      OBVIOUS
    <3> HIDE DEF x
    <3> QED BY <3>1, CountType
  <2>3. MarginBytes(r) = b + ItemBytes * n + EntryBytes * p
    BY <1>2 DEF MarginBytes
  <2> HIDE DEF b, n, p
  <2>4. ItemBytes * n \in Nat /\ EntryBytes * p \in Nat
    BY <2>1, <2>2
  <2>5. b + ItemBytes * n + EntryBytes * p \in Nat
    BY <2>1, <2>4
  <2> QED BY <2>3, <2>5 DEF MarginBytes
<1> QED BY <1>1, <1>2

\* The entries of an early record take a number of bytes.
LEMMA EntriesType ==
  ASSUME NEW e \in SUBSET {"supplied", "farms"}
  PROVE  EntryBytes * Cardinality(e) \in Nat /\ EntryBytes * Cardinality({}) = 0
<1>1. IsFiniteSet({"supplied", "farms"})
  <2>1. IsFiniteSet({"supplied"})
    BY FS_Singleton
  <2>2. IsFiniteSet({"supplied"} \cup {"farms"})
    BY <2>1, FS_AddElement
  <2>3. {"supplied", "farms"} = {"supplied"} \cup {"farms"}
    OBVIOUS
  <2> QED BY <2>2, <2>3
<1>2. Cardinality(e) \in Nat /\ Cardinality({}) = 0
  BY <1>1, FS_Subset, FS_CardinalityType, FS_EmptySet
<1> DEFINE n == Cardinality(e)
<1>3. EntryBytes \in Nat /\ n \in Nat
  BY <1>2, RegistryNumbers
<1> HIDE DEF n
<1>4. EntryBytes * n \in Nat /\ EntryBytes * 0 = 0
  BY <1>3
<1> QED BY <1>2, <1>4 DEF n

\* A conversion brings a record up to date and forgets nothing of it.
LEMMA ConvertedKeeps ==
  ASSUME NEW r \in AccountType, PledgesInPosition(r)
  PROVE  /\ Converted(r) \in AccountType
         /\ Converted(r).version = "Current"
         /\ Converted(r).supplied = r.supplied
         /\ Converted(r).collateral = r.collateral
         /\ Converted(r).borrowed = r.borrowed
         /\ PledgesInPosition(Converted(r))
<1>1. r.version \in Versions
  BY DEF AccountType
<1>2. CASE r.version = "Current"
  BY <1>2 DEF Converted
<1>3. CASE r.version = "V3"
  BY <1>3 DEF Converted, FromAccountV3, AccountType, Versions, PledgesInPosition
<1>4. CASE r.version \in {"V0", "V1", "V2"}
  <2>1. Converted(r) = [r EXCEPT !.version = "Current", !.position = TRUE]
    BY <1>4 DEF Converted, FromAccountV1, FromAccountV2
  <2> QED BY <2>1 DEF AccountType, Versions, PledgesInPosition
<1> QED BY <1>1, <1>2, <1>3, <1>4 DEF Versions

\* The conversion of a margin account forgets nothing either.
LEMMA ConvertedMarginKeeps ==
  ASSUME NEW r \in MarginType
  PROVE  /\ ConvertedMargin(r) \in MarginType
         /\ ConvertedMargin(r).supplied = r.supplied
BY DEF ConvertedMargin, MarginType

\* What is read of an account with a record.
LEMMA Read ==
  ASSUME Inv, NEW a \in Accounts, Registered(a)
  PROVE  /\ account[a] \in AccountType
         /\ Account(a) \in AccountType
         /\ Account(a).version = "Current"
         /\ Account(a).supplied = account[a].supplied
         /\ Account(a).collateral = account[a].collateral
         /\ Account(a).borrowed = account[a].borrowed
         /\ PledgesInPosition(Account(a))
<1>1. account[a] \in AccountType /\ PledgesInPosition(account[a])
  BY DEF Inv, RecordsKept, RecordTypes, Positioned, Registered
<1> QED BY <1>1, ConvertedKeeps DEF Account

\* The shares of a record, none if there is no such record.
Share(records, pool, a) == IF records[a] = NoRecord THEN 0 ELSE records[a][pool]

\* What is read of a margin account, be there one or not.
LEMMA ReadMargin ==
  ASSUME Inv, NEW a \in Accounts
  PROVE  /\ MarginAccount(a) \in MarginType
         /\ MarginAccount(a).supplied = Share(margin, "supplied", a)
<1>1. margin[a] \in MarginType \cup {NoRecord}
  BY DEF Inv, RecordsKept, RecordTypes
<1>2. CASE margin[a] = NoRecord
  BY <1>2 DEF MarginAccount, Share, NewMargin, MarginType
<1>3. CASE margin[a] # NoRecord
  BY <1>1, <1>3, ConvertedMarginKeeps DEF MarginAccount, Share
<1> QED BY <1>2, <1>3

-----------------------------------------------------------------------------
\* Saving.

\* The bytes stored for an account are those of its parts.
LEMMA FootprintType ==
  ASSUME RecordTypes, NEW a \in Accounts
  PROVE  /\ Bytes(account[a]) \in Nat /\ MarginBytes(margin[a]) \in Nat
         /\ EntryBytes * Cardinality(entries[a]) \in Nat /\ StorageBytes \in Nat
         /\ Footprint(a) \in Nat
         /\ storage[a] # NoStorage =>
               Footprint(a) = Bytes(account[a]) + MarginBytes(margin[a])
                                  + EntryBytes * Cardinality(entries[a]) + StorageBytes
<1>1. /\ account[a] \in AccountType \cup {NoRecord} /\ margin[a] \in MarginType \cup {NoRecord}
      /\ entries[a] \in SUBSET {"supplied", "farms"}
  BY DEF RecordTypes
<1> DEFINE x == Bytes(account[a])
           y == MarginBytes(margin[a])
           z == EntryBytes * Cardinality(entries[a])
<1>2. x \in Nat /\ y \in Nat /\ z \in Nat /\ StorageBytes \in Nat
  BY <1>1, BytesType, MarginBytesType, EntriesType, RegistryNumbers
<1>3. Footprint(a) = x + y + z + IF storage[a] = NoStorage THEN 0 ELSE StorageBytes
  BY DEF Footprint
<1> HIDE DEF x, y, z
<1>4. Footprint(a) \in Nat
  BY <1>2, <1>3
<1> QED BY <1>2, <1>3, <1>4 DEF x, y, z

\* The invariants that each account keeps by itself.
KeptOf(a) ==
    /\ account[a] \in AccountType \cup {NoRecord}
    /\ entries[a] \in SUBSET {"supplied", "farms"}
    /\ margin[a] \in MarginType \cup {NoRecord}
    /\ storage[a] \in StorageType \cup {NoStorage}
    /\ account[a] = NoRecord <=> storage[a] = NoStorage
    /\ account[a] = NoRecord => margin[a] = NoRecord /\ entries[a] = {}
    /\ IF storage[a] = NoStorage THEN Footprint(a) = 0 ELSE storage[a].used = Footprint(a)
    /\ account[a] # NoRecord => PledgesInPosition(account[a])

\* A change of one account's records leaves the others' as they are.
LEMMA OneAccount ==
  ASSUME RecordsKept, NEW a \in Accounts, KeptOf(a)',
         account' = [account EXCEPT ![a] = account'[a]],
         entries' = [entries EXCEPT ![a] = entries'[a]],
         margin' = [margin EXCEPT ![a] = margin'[a]],
         storage' = [storage EXCEPT ![a] = storage'[a]]
  PROVE  RecordsKept'
<1>1. RecordTypes
  BY DEF RecordsKept
<1>2. \A b \in Accounts \ {a} : /\ account'[b] = account[b] /\ entries'[b] = entries[b]
                                /\ margin'[b] = margin[b] /\ storage'[b] = storage[b]
  BY <1>1 DEF RecordTypes
<1>3. ASSUME NEW b \in Accounts
      PROVE  KeptOf(b)'
  <2>1. CASE b = a
    BY <2>1
  <2>2. CASE b # a
    <3>1. KeptOf(b)
      BY <1>1 DEF RecordsKept, RecordTypes, Linked, BytesAddUp, Positioned, KeptOf
    <3>2. Footprint(b)' = Footprint(b)
      BY <1>2, <2>2 DEF Footprint
    <3> QED BY <1>2, <2>2, <3>1, <3>2 DEF KeptOf
  <2> QED BY <2>1, <2>2
<1>4. RecordTypes'
  BY <1>1, <1>3 DEF RecordTypes, KeptOf
<1> QED BY <1>3, <1>4 DEF RecordsKept, Linked, BytesAddUp, Positioned, KeptOf

\* Adding to the bytes an account is charged for.
LEMMA Charged ==
  ASSUME RecordTypes, NEW a \in Accounts, storage[a] # NoStorage, NEW more, SetStorage(a, more)
  PROVE  /\ storage' = [storage EXCEPT ![a] = storage'[a]]
         /\ storage'[a] = [balance |-> storage[a].balance, used |-> storage[a].used + more]
<1>1. storage[a] \in StorageType
  BY DEF RecordTypes
<1>2. storage' = [storage EXCEPT ![a] = [storage[a] EXCEPT !.used = storage[a].used + more]]
  BY DEF SetStorage
<1>3. storage'[a] = [storage[a] EXCEPT !.used = storage[a].used + more]
  BY <1>2 DEF RecordTypes
<1> QED BY <1>1, <1>2, <1>3 DEF StorageType

\* A record that is saved is charged for, with the maps that were cleared.
LEMMA SaveKeeps ==
  ASSUME RecordsKept, NEW a \in Accounts, Registered(a),
         NEW record \in AccountType, PledgesInPosition(record),
         ForceSave(a, record), margin' = margin
  PROVE  /\ RecordsKept'
         /\ account' = [account EXCEPT ![a] = record]
<1>1. RecordTypes /\ KeptOf(a)
  BY DEF RecordsKept, RecordTypes, Linked, BytesAddUp, Positioned, KeptOf
<1>2. account[a] # NoRecord /\ storage[a] # NoStorage /\ storage[a] \in StorageType
  BY <1>1 DEF KeptOf, Registered
<1> DEFINE more == MoreBytes(a, record)
           was == Bytes(account[a])
           is == Bytes(record)
           other == MarginBytes(margin[a])
           maps == EntryBytes * Cardinality(entries[a])
<1>3. /\ account' = [account EXCEPT ![a] = record]
      /\ entries' = [entries EXCEPT ![a] = {}]
      /\ SetStorage(a, more)
  BY DEF ForceSave
<1>4. account'[a] = record /\ entries'[a] = {} /\ margin'[a] = margin[a]
  BY <1>1, <1>3 DEF RecordTypes
<1>5. /\ storage' = [storage EXCEPT ![a] = storage'[a]]
      /\ storage'[a] = [balance |-> storage[a].balance, used |-> storage[a].used + more]
  <2> HIDE DEF more
  <2> QED BY <1>1, <1>2, <1>3, Charged
<1>6. /\ was \in Nat /\ other \in Nat /\ maps \in Nat /\ StorageBytes \in Nat
      /\ storage[a].used = was + other + maps + StorageBytes
  BY <1>1, <1>2, FootprintType DEF KeptOf
<1>7. is \in Nat
  BY BytesType
<1>8. more = is - was - maps
  BY DEF MoreBytes
<1>9. storage'[a] # NoStorage
  <2>1. storage[a].used + more = is + other + StorageBytes
    <3> HIDE DEF more, was, is, other, maps
    <3> QED BY <1>6, <1>7, <1>8
  <2>2. is + other + StorageBytes \in Nat
    <3> HIDE DEF is, other
    <3> QED BY <1>6, <1>7
  <2> HIDE DEF more, is, other
  <2>3. storage'[a] \in StorageType
    BY <1>2, <1>5, <2>1, <2>2 DEF StorageType
  <2> QED BY <2>3, RegistryMarks
<1>10. storage'[a].used = is + other + StorageBytes
  <2>1. storage'[a].used = storage[a].used + more
    BY <1>5
  <2> HIDE DEF more, was, is, other, maps
  <2> QED BY <1>6, <1>7, <1>8, <2>1
<1>11. Footprint(a)' = is + other + StorageBytes
  <2>1. Footprint(a)' = Bytes(account'[a]) + MarginBytes(margin'[a])
                          + EntryBytes * Cardinality(entries'[a]) + StorageBytes
    BY <1>9 DEF Footprint
  <2>2. EntryBytes * Cardinality(entries'[a]) = 0
    BY <1>1, <1>4, EntriesType DEF KeptOf
  <2>3. Bytes(account'[a]) = is /\ MarginBytes(margin'[a]) = other
    BY <1>4
  <2> HIDE DEF is, other
  <2> QED BY <1>6, <1>7, <2>1, <2>2, <2>3
<1>12. storage'[a] \in StorageType
  <2>1. storage'[a].used \in Nat
    <3> HIDE DEF is, other
    <3> QED BY <1>6, <1>7, <1>10
  <2> HIDE DEF more
  <2> QED BY <1>2, <1>5, <2>1 DEF StorageType
<1>13. account'[a] # NoRecord
  BY <1>4, RegistryMarks
<1>14. KeptOf(a)'
  <2> HIDE DEF more, was, is, other, maps
  <2> QED BY <1>1, <1>4, <1>9, <1>10, <1>11, <1>12, <1>13 DEF KeptOf
<1>15. /\ account' = [account EXCEPT ![a] = account'[a]]
       /\ entries' = [entries EXCEPT ![a] = entries'[a]]
       /\ margin' = [margin EXCEPT ![a] = margin'[a]]
  BY <1>1, <1>3, <1>4 DEF RecordTypes
<1> QED BY <1>3, <1>5, <1>14, <1>15, OneAccount

\* So is a record of a margin account.
LEMMA SaveMarginKeeps ==
  ASSUME RecordsKept, NEW a \in Accounts, Registered(a), NEW record \in MarginType,
         ForceSaveMargin(a, record), account' = account, entries' = entries
  PROVE  /\ RecordsKept'
         /\ margin' = [margin EXCEPT ![a] = record]
<1>1. RecordTypes /\ KeptOf(a)
  BY DEF RecordsKept, RecordTypes, Linked, BytesAddUp, Positioned, KeptOf
<1>2. account[a] # NoRecord /\ storage[a] # NoStorage /\ storage[a] \in StorageType
  BY <1>1 DEF KeptOf, Registered
<1> DEFINE more == MoreMarginBytes(a, record)
           was == MarginBytes(margin[a])
           is == MarginBytes(record)
           other == Bytes(account[a])
           maps == EntryBytes * Cardinality(entries[a])
<1>3. margin' = [margin EXCEPT ![a] = record] /\ SetStorage(a, more)
  BY DEF ForceSaveMargin
<1>4. account'[a] = account[a] /\ entries'[a] = entries[a] /\ margin'[a] = record
  BY <1>1, <1>3 DEF RecordTypes
<1>5. /\ storage' = [storage EXCEPT ![a] = storage'[a]]
      /\ storage'[a] = [balance |-> storage[a].balance, used |-> storage[a].used + more]
  <2> HIDE DEF more
  <2> QED BY <1>1, <1>2, <1>3, Charged
<1>6. /\ was \in Nat /\ other \in Nat /\ maps \in Nat /\ StorageBytes \in Nat
      /\ storage[a].used = other + was + maps + StorageBytes
  BY <1>1, <1>2, FootprintType DEF KeptOf
<1>7. is \in Nat
  BY MarginBytesType
<1>8. more = is - was
  BY DEF MoreMarginBytes
<1>9. storage'[a].used = other + is + maps + StorageBytes
  <2>1. storage'[a].used = storage[a].used + more
    BY <1>5
  <2> HIDE DEF more, was, is, other, maps
  <2> QED BY <1>6, <1>7, <1>8, <2>1
<1>10. storage'[a] \in StorageType /\ storage'[a] # NoStorage
  <2>1. storage'[a].used \in Nat
    <3> HIDE DEF is, other, maps
    <3> QED BY <1>6, <1>7, <1>9
  <2> HIDE DEF more
  <2> QED BY <1>2, <1>5, <2>1, RegistryMarks DEF StorageType
<1>11. Footprint(a)' = other + is + maps + StorageBytes
  <2>1. Footprint(a)' = Bytes(account'[a]) + MarginBytes(margin'[a])
                          + EntryBytes * Cardinality(entries'[a]) + StorageBytes
    BY <1>10 DEF Footprint
  <2> QED BY <1>4, <2>1
<1>12. KeptOf(a)'
  <2> HIDE DEF more, was, is, other, maps
  <2> QED BY <1>1, <1>2, <1>4, <1>9, <1>10, <1>11 DEF KeptOf
<1>13. /\ account' = [account EXCEPT ![a] = account'[a]]
       /\ entries' = [entries EXCEPT ![a] = entries'[a]]
       /\ margin' = [margin EXCEPT ![a] = margin'[a]]
  BY <1>1, <1>3, <1>4 DEF RecordTypes
<1> QED BY <1>3, <1>5, <1>12, <1>13, OneAccount

-----------------------------------------------------------------------------
\* The shares of the records.

\* The pools an account's record has shares of.
AccountPools == {"supplied", "collateral", "borrowed"}

\* What accounts hold of a pool is a sum.
LEMMA HeldIsSum ==
  ASSUME NEW records, NEW pool
  PROVE  HeldBy(records, pool)
            = SumFunctionOnSet([a \in Accounts |-> Share(records, pool, a)], Accounts)
<1> DEFINE f == [a \in Accounts |-> Share(records, pool, a)]
<1>1. HeldBy(records, pool) = SumFunction(f)
  BY DEF HeldBy, Share
<1>2. DOMAIN f = Accounts
  OBVIOUS
<1> QED BY <1>1, <1>2 DEF SumFunction

\* It is a natural number.
LEMMA HeldType ==
  ASSUME NEW records, NEW pool, \A b \in Accounts : Share(records, pool, b) \in Nat
  PROVE  HeldBy(records, pool) \in Nat
<1> DEFINE f == [b \in Accounts |-> Share(records, pool, b)]
<1>1. \A b \in Accounts : f[b] \in Nat
  OBVIOUS
<1>2. HeldBy(records, pool) = SumFunctionOnSet(f, Accounts)
  BY HeldIsSum
<1> HIDE DEF f
<1> QED BY <1>1, <1>2, SumType, RegistrySets

\* It changes with the records of one account.
LEMMA HeldChange ==
  ASSUME NEW old, NEW new, NEW pool, NEW a \in Accounts,
         \A b \in Accounts : Share(old, pool, b) \in Nat /\ Share(new, pool, b) \in Nat,
         \A b \in Accounts \ {a} : new[b] = old[b]
  PROVE  HeldBy(new, pool) = HeldBy(old, pool) - Share(old, pool, a) + Share(new, pool, a)
<1> DEFINE f == [b \in Accounts |-> Share(old, pool, b)]
           g == [b \in Accounts |-> Share(new, pool, b)]
<1>1. \A b \in Accounts : f[b] \in Nat /\ g[b] \in Nat
  OBVIOUS
<1>2. \A b \in Accounts \ {a} : f[b] = g[b]
  BY DEF Share
<1>3. f[a] = Share(old, pool, a) /\ g[a] = Share(new, pool, a)
  OBVIOUS
<1>4. HeldBy(old, pool) = SumFunctionOnSet(f, Accounts)
      /\ HeldBy(new, pool) = SumFunctionOnSet(g, Accounts)
  BY HeldIsSum
<1> HIDE DEF f, g
<1> QED BY <1>1, <1>2, <1>3, <1>4, SumChange, RegistrySets

\* Without shares there is nothing to add up.
LEMMA HeldNothing ==
  ASSUME NEW records, NEW pool, \A b \in Accounts : Share(records, pool, b) = 0
  PROVE  HeldBy(records, pool) = 0
<1> DEFINE f == [b \in Accounts |-> Share(records, pool, b)]
<1>1. \A b \in Accounts : f[b] = 0
  OBVIOUS
<1>2. HeldBy(records, pool) = SumFunctionOnSet(f, Accounts)
  BY HeldIsSum
<1> HIDE DEF f
<1> QED BY <1>1, <1>2, SumZero, RegistrySets

\* The shares of typed records are numbers.
LEMMA ShareType ==
  ASSUME RecordTypes, NEW a \in Accounts
  PROVE  /\ \A pool \in AccountPools : Share(account, pool, a) \in Nat
         /\ Share(margin, "supplied", a) \in Nat
<1>1. account[a] \in AccountType \cup {NoRecord} /\ margin[a] \in MarginType \cup {NoRecord}
  BY DEF RecordTypes
<1>2. \A r \in AccountType : r["supplied"] \in Nat /\ r["collateral"] \in Nat /\ r["borrowed"] \in Nat
  BY DEF AccountType
<1>3. \A r \in MarginType : r["supplied"] \in Nat
  BY DEF MarginType
<1> QED BY <1>1, <1>2, <1>3 DEF Share, AccountPools

\* What is read of the asset after it was saved is what was saved.
LEMMA SavedAsset ==
  ASSUME NEW saved \in AssetType, asset' = saved
  PROVE  Asset' = saved /\ asset' # NoAsset
<1>1. saved.version = "Current"
  BY DEF AssetType
<1>2. DOMAIN saved = AssetCurrent \cup {"version"}
      /\ saved = [f \in DOMAIN saved |-> saved[f]]
  BY DEF AssetType, AssetCurrent, AssetV5, AssetV4, AssetV3, AssetV2, AssetV1, AssetV0
<1>3. FieldsOf[saved.version] = AssetCurrent
  BY <1>1 DEF FieldsOf
<1>4. Loaded(saved) = [f \in AssetCurrent \cup {"version"} |-> saved[f]]
  BY <1>1, <1>3 DEF Loaded
<1>5. Loaded(saved) = saved
  BY <1>2, <1>4
<1>6. Asset' = Loaded(saved)
  BY DEF Asset, Loaded
<1> QED BY <1>5, <1>6, AssetAssumption

-----------------------------------------------------------------------------
\* The books: shares of the pools are shares of records.

\* The parts of the asset's record that the books are about.
LEMMA AssetParts ==
  ASSUME NEW r \in AssetType
  PROVE  r.supplied \in Int /\ r.borrowed \in Int /\ r.lostfound_shares \in Int
BY DEF AssetType

\* What accounts and margin accounts hold is a number.
LEMMA HeldTypes ==
  ASSUME RecordTypes
  PROVE  /\ \A pool \in AccountPools : HeldBy(account, pool) \in Nat
         /\ HeldBy(margin, "supplied") \in Nat
<1>1. \A pool \in AccountPools : \A b \in Accounts : Share(account, pool, b) \in Nat
  BY ShareType
<1>2. \A b \in Accounts : Share(margin, "supplied", b) \in Nat
  BY ShareType
<1> QED BY <1>1, <1>2, HeldType

\* Saving an account changes what is held by what its record changes.
LEMMA SavedShares ==
  ASSUME RecordsKept, RecordsKept', NEW a \in Accounts, Registered(a), NEW record \in AccountType,
         account' = [account EXCEPT ![a] = record]
  PROVE  /\ HeldBy(account', "supplied")
              = HeldBy(account, "supplied") - account[a].supplied + record.supplied
         /\ HeldBy(account', "collateral")
              = HeldBy(account, "collateral") - account[a].collateral + record.collateral
         /\ HeldBy(account', "borrowed")
              = HeldBy(account, "borrowed") - account[a].borrowed + record.borrowed
<1>1. RecordTypes /\ RecordTypes'
  BY DEF RecordsKept
<1>2. \A b \in Accounts \ {a} : account'[b] = account[b]
  BY <1>1 DEF RecordTypes
<1>3. account'[a] = record
  BY <1>1 DEF RecordTypes
<1>4. account[a] # NoRecord /\ record # NoRecord
  BY RegistryMarks DEF Registered
<1>5. \A pool : Share(account, pool, a) = account[a][pool] /\ Share(account', pool, a) = record[pool]
  BY <1>3, <1>4 DEF Share
<1>6. \A b \in Accounts : \A pool \in AccountPools :
         Share(account, pool, b) \in Nat /\ Share(account', pool, b) \in Nat
  <2>1. \A b \in Accounts : \A pool \in AccountPools : Share(account, pool, b) \in Nat
    BY <1>1, ShareType
  <2>2. \A b \in Accounts : account'[b] \in AccountType \cup {NoRecord}
    BY <1>1 DEF RecordTypes
  <2>3. \A r \in AccountType : \A pool \in AccountPools : r[pool] \in Nat
    BY DEF AccountType, AccountPools
  <2> QED BY <2>1, <2>2, <2>3 DEF Share
<1>7. ASSUME NEW pool \in AccountPools
      PROVE  HeldBy(account', pool) = HeldBy(account, pool) - account[a][pool] + record[pool]
  <2> DEFINE new == account'
  <2>1. \A b \in Accounts : Share(account, pool, b) \in Nat /\ Share(new, pool, b) \in Nat
    BY <1>6
  <2>2. \A b \in Accounts \ {a} : new[b] = account[b]
    BY <1>2
  <2> HIDE DEF new
  <2>3. HeldBy(new, pool) = HeldBy(account, pool) - Share(account, pool, a) + Share(new, pool, a)
    BY <2>1, <2>2, HeldChange
  <2> QED BY <1>5, <2>3 DEF new
<1>8. {"supplied", "collateral", "borrowed"} \subseteq AccountPools
  BY DEF AccountPools
<1> QED BY <1>7, <1>8

\* So does saving a margin account.
LEMMA SavedMarginShares ==
  ASSUME RecordsKept, RecordsKept', NEW a \in Accounts, NEW record \in MarginType,
         margin' = [margin EXCEPT ![a] = record]
  PROVE  HeldBy(margin', "supplied")
            = HeldBy(margin, "supplied") - Share(margin, "supplied", a) + record.supplied
<1>1. RecordTypes /\ RecordTypes'
  BY DEF RecordsKept
<1>2. (\A b \in Accounts \ {a} : margin'[b] = margin[b]) /\ margin'[a] = record
  BY <1>1 DEF RecordTypes
<1>3. Share(margin', "supplied", a) = record.supplied
  BY <1>2, RegistryMarks DEF Share
<1>4. \A b \in Accounts : Share(margin, "supplied", b) \in Nat /\ Share(margin', "supplied", b) \in Nat
  <2>1. \A b \in Accounts : Share(margin, "supplied", b) \in Nat
    BY <1>1, ShareType
  <2>2. \A b \in Accounts : margin'[b] \in MarginType \cup {NoRecord}
    BY <1>1 DEF RecordTypes
  <2>3. \A r \in MarginType : r["supplied"] \in Nat
    BY DEF MarginType
  <2> QED BY <2>1, <2>2, <2>3 DEF Share
<1> DEFINE new == margin'
<1>5. \A b \in Accounts :
         Share(margin, "supplied", b) \in Nat /\ Share(new, "supplied", b) \in Nat
  BY <1>4
<1>6. \A b \in Accounts \ {a} : new[b] = margin[b]
  BY <1>2
<1> HIDE DEF new
<1>7. HeldBy(new, "supplied")
         = HeldBy(margin, "supplied") - Share(margin, "supplied", a) + Share(new, "supplied", a)
  BY <1>5, <1>6, HeldChange
<1> QED BY <1>3, <1>7 DEF new

\* An account is saved and the asset with it: what the record gains and the
\* pools gain is the same.
LEMMA AccountSaved ==
  ASSUME Inv, NEW a \in Accounts, Registered(a),
         NEW record \in AccountType, PledgesInPosition(record), NEW saved \in AssetType,
         ForceSave(a, record), margin' = margin, asset # NoAsset, asset' = saved,
         owner' \in Accounts, \A t \in transfers' : t.to \in Accounts /\ t.amount \in Nat,
         saved.supplied - saved.lostfound_shares
            = Asset.supplied - Asset.lostfound_shares
                 + record.supplied + record.collateral
                 - account[a].supplied - account[a].collateral,
         saved.borrowed = Asset.borrowed + record.borrowed - account[a].borrowed
  PROVE  Inv'
<1>1. RecordsKept /\ RecordTypes /\ Asset \in AssetType
  BY DEF Inv, RecordsKept, OthersTyped
<1>2. RecordsKept' /\ account' = [account EXCEPT ![a] = record]
  BY <1>1, SaveKeeps
<1>3. Asset' = saved /\ asset' # NoAsset
  BY SavedAsset
<1>4. OthersTyped' /\ Unlisted'
  BY <1>3 DEF OthersTyped, Unlisted
<1> DEFINE s == HeldBy(account, "supplied")
           c == HeldBy(account, "collateral")
           b == HeldBy(account, "borrowed")
           m == HeldBy(margin, "supplied")
<1>5. /\ HeldBy(account', "supplied") = s - account[a].supplied + record.supplied
      /\ HeldBy(account', "collateral") = c - account[a].collateral + record.collateral
      /\ HeldBy(account', "borrowed") = b - account[a].borrowed + record.borrowed
  BY <1>1, <1>2, SavedShares
<1>6. s \in Nat /\ c \in Nat /\ b \in Nat /\ m \in Nat
  BY <1>1, HeldTypes DEF AccountPools
<1>7. /\ Asset.supplied = s + c + m + Asset.lostfound_shares
      /\ Asset.borrowed = b
  BY DEF Inv, SharesOfAccounts
<1> HIDE DEF s, c, b, m
<1>8. /\ Asset.supplied \in Int /\ Asset.borrowed \in Int /\ Asset.lostfound_shares \in Int
      /\ saved.supplied \in Int /\ saved.borrowed \in Int /\ saved.lostfound_shares \in Int
  BY <1>1, AssetParts
<1>9. /\ account[a].supplied \in Nat /\ account[a].collateral \in Nat /\ account[a].borrowed \in Nat
      /\ record.supplied \in Nat /\ record.collateral \in Nat /\ record.borrowed \in Nat
  <2>1. account[a] \in AccountType
    BY <1>1 DEF RecordTypes, Registered
  <2> QED BY <2>1 DEF AccountType
<1>10. /\ saved.supplied = (s - account[a].supplied + record.supplied)
                             + (c - account[a].collateral + record.collateral)
                             + m + saved.lostfound_shares
       /\ saved.borrowed = b - account[a].borrowed + record.borrowed
  BY <1>6, <1>7, <1>8, <1>9
<1>11. SharesOfAccounts'
  BY <1>3, <1>5, <1>10 DEF SharesOfAccounts, m
<1> QED BY <1>2, <1>4, <1>11 DEF Inv

\* An account is saved and the asset is not: its record is worth what it was.
LEMMA AccountResaved ==
  ASSUME Inv, NEW a \in Accounts, Registered(a),
         NEW record \in AccountType, PledgesInPosition(record),
         ForceSave(a, record), margin' = margin, asset' = asset,
         owner' \in Accounts, transfers' = transfers,
         record.supplied + record.collateral = account[a].supplied + account[a].collateral,
         record.borrowed = account[a].borrowed,
         asset = NoAsset => record.supplied = account[a].supplied
  PROVE  Inv'
<1>1. RecordsKept /\ RecordTypes /\ account[a] \in AccountType
  BY DEF Inv, RecordsKept, RecordTypes, Registered
<1>2. RecordsKept' /\ account' = [account EXCEPT ![a] = record]
  BY <1>1, SaveKeeps
<1>3. Asset' = Asset
  BY DEF Asset
<1>4. OthersTyped'
  BY <1>3 DEF OthersTyped, Inv
<1> DEFINE s == HeldBy(account, "supplied")
           c == HeldBy(account, "collateral")
           b == HeldBy(account, "borrowed")
<1>5. /\ HeldBy(account', "supplied") = s - account[a].supplied + record.supplied
      /\ HeldBy(account', "collateral") = c - account[a].collateral + record.collateral
      /\ HeldBy(account', "borrowed") = b - account[a].borrowed + record.borrowed
  BY <1>1, <1>2, SavedShares
<1>6. s \in Nat /\ c \in Nat /\ b \in Nat
  BY <1>1, HeldTypes DEF AccountPools
<1>7. /\ account[a].supplied \in Nat /\ account[a].collateral \in Nat /\ account[a].borrowed \in Nat
      /\ record.supplied \in Nat /\ record.collateral \in Nat /\ record.borrowed \in Nat
  BY <1>1 DEF AccountType
<1>8. /\ HeldBy(account', "supplied") + HeldBy(account', "collateral") = s + c
      /\ HeldBy(account', "borrowed") = b
  <2> HIDE DEF s, c, b
  <2> QED BY <1>5, <1>6, <1>7
<1>9. SharesOfAccounts'
  BY <1>3, <1>8 DEF Inv, SharesOfAccounts
<1>10. Unlisted'
  <2> SUFFICES ASSUME asset = NoAsset
               PROVE  Unlisted'
    BY DEF Unlisted
  <2>1. record.supplied = account[a].supplied /\ record.collateral = account[a].collateral
    BY <1>7
  <2>2. \A x \in Accounts : account'[x] = IF x = a THEN record ELSE account[x]
    BY <1>1, <1>2 DEF RecordTypes
  <2> QED BY <2>1, <2>2 DEF Inv, Unlisted, Registered
<1> QED BY <1>2, <1>4, <1>9, <1>10 DEF Inv

\* A margin account is saved and the asset with it.
LEMMA MarginSaved ==
  ASSUME Inv, NEW a \in Accounts, Registered(a),
         NEW record \in MarginType, NEW saved \in AssetType,
         ForceSaveMargin(a, record), account' = account, entries' = entries,
         asset # NoAsset, asset' = saved,
         owner' \in Accounts, \A t \in transfers' : t.to \in Accounts /\ t.amount \in Nat,
         saved.supplied - saved.lostfound_shares
            = Asset.supplied - Asset.lostfound_shares
                 + record.supplied - Share(margin, "supplied", a),
         saved.borrowed = Asset.borrowed
  PROVE  Inv'
<1>1. RecordsKept /\ RecordTypes /\ Asset \in AssetType
  BY DEF Inv, RecordsKept, OthersTyped
<1>2. RecordsKept' /\ margin' = [margin EXCEPT ![a] = record]
  BY <1>1, SaveMarginKeeps
<1>3. Asset' = saved /\ asset' # NoAsset
  BY SavedAsset
<1>4. OthersTyped' /\ Unlisted'
  BY <1>3 DEF OthersTyped, Unlisted
<1> DEFINE s == HeldBy(account, "supplied")
           c == HeldBy(account, "collateral")
           m == HeldBy(margin, "supplied")
           was == Share(margin, "supplied", a)
<1>5. HeldBy(margin', "supplied") = m - was + record.supplied
  BY <1>1, <1>2, SavedMarginShares
<1>6. s \in Nat /\ c \in Nat /\ m \in Nat /\ was \in Nat
  BY <1>1, HeldTypes, ShareType DEF AccountPools
<1>7. Asset.supplied = s + c + m + Asset.lostfound_shares
      /\ Asset.borrowed = HeldBy(account, "borrowed")
  BY DEF Inv, SharesOfAccounts
<1> HIDE DEF s, c, m, was
<1>8. /\ Asset.supplied \in Int /\ Asset.lostfound_shares \in Int
      /\ saved.supplied \in Int /\ saved.lostfound_shares \in Int
  BY <1>1, AssetParts
<1>9. record.supplied \in Nat
  BY DEF MarginType
<1>10. saved.supplied = s + c + (m - was + record.supplied) + saved.lostfound_shares
  <2>1. saved.supplied - saved.lostfound_shares
           = Asset.supplied - Asset.lostfound_shares + record.supplied - was
    BY DEF was
  <2> QED BY <1>6, <1>7, <1>8, <1>9, <2>1
<1>11. SharesOfAccounts'
  BY <1>3, <1>5, <1>7, <1>10 DEF SharesOfAccounts, s, c
<1> QED BY <1>2, <1>4, <1>11 DEF Inv

-----------------------------------------------------------------------------
\* Steps that move no shares.

\* Storage is paid, refunded or given up: the records change, their shares do
\* not.
LEMMA SharesUnmoved ==
  ASSUME Inv, RecordsKept', owner' \in Accounts, asset' = asset, transfers' \subseteq transfers,
         \A b \in Accounts : \A pool \in AccountPools :
             Share(account', pool, b) = Share(account, pool, b),
         \A b \in Accounts : Share(margin', "supplied", b) = Share(margin, "supplied", b)
  PROVE  Inv'
<1>1. Asset' = Asset
  BY DEF Asset
<1>2. OthersTyped'
  BY <1>1 DEF Inv, OthersTyped
<1>3. \A pool \in AccountPools : HeldBy(account', pool) = HeldBy(account, pool)
  <2> TAKE pool \in AccountPools
  <2>1. [b \in Accounts |-> Share(account', pool, b)] = [b \in Accounts |-> Share(account, pool, b)]
    OBVIOUS
  <2> DEFINE new == account'
  <2>2. [b \in Accounts |-> Share(new, pool, b)] = [b \in Accounts |-> Share(account, pool, b)]
    BY <2>1
  <2> HIDE DEF new
  <2>3. HeldBy(new, pool) = HeldBy(account, pool)
    BY <2>2, HeldIsSum
  <2> QED BY <2>3 DEF new
<1>4. HeldBy(margin', "supplied") = HeldBy(margin, "supplied")
  <2> DEFINE new == margin'
  <2>1. [b \in Accounts |-> Share(new, "supplied", b)]
           = [b \in Accounts |-> Share(margin, "supplied", b)]
    OBVIOUS
  <2> HIDE DEF new
  <2>2. HeldBy(new, "supplied") = HeldBy(margin, "supplied")
    BY <2>1, HeldIsSum
  <2> QED BY <2>2 DEF new
<1>5. SharesOfAccounts'
  BY <1>1, <1>3, <1>4 DEF Inv, SharesOfAccounts, AccountPools
<1>6. Unlisted'
  <2> SUFFICES ASSUME asset = NoAsset
               PROVE  Unlisted'
    BY DEF Unlisted
  <2>1. transfers = {} /\ transfers' = {}
    BY DEF Inv, Unlisted
  <2>2. \A b \in Accounts : /\ \A pool \in AccountPools : Share(account, pool, b) = 0
                            /\ Share(margin, "supplied", b) = 0
    BY DEF Inv, Unlisted, Share, AccountPools
  <2>3. \A b \in Accounts : /\ \A pool \in AccountPools : Share(account', pool, b) = 0
                            /\ Share(margin', "supplied", b) = 0
    BY <2>2
  <2>4. \A b \in Accounts : account'[b] # NoRecord =>
            account'[b].supplied = 0 /\ account'[b].collateral = 0 /\ account'[b].borrowed = 0
    BY <2>3 DEF Share, AccountPools
  <2>5. \A b \in Accounts : margin'[b] # NoRecord => margin'[b].supplied = 0
    BY <2>3 DEF Share
  <2> QED BY <2>1, <2>4, <2>5 DEF Unlisted
<1> QED BY <1>2, <1>5, <1>6 DEF Inv

\* What is kept of each account.
LEMMA KeptOfAll ==
  ASSUME RecordsKept, NEW a \in Accounts
  PROVE  KeptOf(a)
BY DEF RecordsKept, RecordTypes, Linked, BytesAddUp, Positioned, KeptOf

\* Paying into a storage that is there, or taking out what it does not need.
LEMMA BalanceMoved ==
  ASSUME RecordsKept, NEW a \in Accounts, storage[a] # NoStorage, NEW balance \in Nat,
         storage' = [storage EXCEPT ![a].balance = balance],
         account' = account, entries' = entries, margin' = margin
  PROVE  RecordsKept'
<1>1. KeptOf(a) /\ RecordTypes
  BY KeptOfAll DEF RecordsKept
<1>2. storage[a] \in StorageType
  BY <1>1 DEF KeptOf
<1>3. storage'[a] = [storage[a] EXCEPT !.balance = balance]
  BY <1>1 DEF RecordTypes
<1>4. storage'[a] \in StorageType /\ storage'[a].used = storage[a].used
  BY <1>2, <1>3 DEF StorageType
<1>5. storage'[a] # NoStorage
  BY <1>4, RegistryMarks
<1>6. Footprint(a)' = Footprint(a)
  BY <1>5 DEF Footprint
<1>7. KeptOf(a)'
  BY <1>1, <1>4, <1>5, <1>6 DEF KeptOf
<1>8. storage' = [storage EXCEPT ![a] = storage'[a]]
  BY <1>1, <1>3 DEF RecordTypes
<1> QED BY <1>1, <1>7, <1>8, OneAccount DEF RecordTypes

\* A new account is charged for its empty records.
LEMMA Registering ==
  ASSUME RecordsKept, NEW a \in Accounts, storage[a] = NoStorage, NEW balance \in Nat,
         storage' = [storage EXCEPT ![a] =
             [balance |-> balance,
              used |-> StorageBytes + Bytes(NewAccount) + MarginBytes(NewMargin)]],
         account' = [account EXCEPT ![a] = NewAccount],
         margin' = [margin EXCEPT ![a] = NewMargin], entries' = entries
  PROVE  RecordsKept' /\ account[a] = NoRecord /\ margin[a] = NoRecord
<1>1. KeptOf(a) /\ RecordTypes
  BY KeptOfAll DEF RecordsKept
<1>2. account[a] = NoRecord /\ margin[a] = NoRecord /\ entries[a] = {}
  BY <1>1 DEF KeptOf
<1>3. NewAccount \in AccountType /\ NewMargin \in MarginType /\ PledgesInPosition(NewAccount)
  BY DEF NewAccount, NewMargin, AccountType, MarginType, Versions, PledgesInPosition
<1> DEFINE x == Bytes(NewAccount)
           y == MarginBytes(NewMargin)
           used == StorageBytes + x + y
<1>4. x \in Nat /\ y \in Nat /\ StorageBytes \in Nat
  BY <1>3, BytesType, MarginBytesType, RegistryNumbers
<1>5. used \in Nat
  <2> HIDE DEF x, y
  <2> QED BY <1>4
<1>6. /\ storage'[a] = [balance |-> balance, used |-> used]
      /\ account'[a] = NewAccount /\ margin'[a] = NewMargin /\ entries'[a] = {}
  BY <1>1, <1>2 DEF RecordTypes
<1>7. Footprint(a)' = used
  <2>1. EntryBytes * Cardinality({}) = 0
    BY EntriesType
  <2>2. storage'[a] # NoStorage
    <3> HIDE DEF used
    <3>1. storage'[a] \in StorageType
      BY <1>5, <1>6 DEF StorageType
    <3> QED BY <3>1, RegistryMarks
  <2>3. Footprint(a)' = x + y + 0 + StorageBytes
    BY <1>6, <2>1, <2>2 DEF Footprint
  <2> HIDE DEF x, y
  <2> QED BY <1>4, <2>3 DEF used
<1> HIDE DEF used, x, y
<1>8. storage'[a] \in StorageType /\ storage'[a] # NoStorage /\ storage'[a].used = used
  BY <1>5, <1>6, RegistryMarks DEF StorageType
<1>9. account'[a] # NoRecord
  BY <1>3, <1>6, RegistryMarks
<1>10. KeptOf(a)'
  BY <1>3, <1>6, <1>7, <1>8, <1>9 DEF KeptOf
<1>11. /\ account' = [account EXCEPT ![a] = account'[a]]
       /\ margin' = [margin EXCEPT ![a] = margin'[a]]
       /\ entries' = [entries EXCEPT ![a] = entries'[a]]
       /\ storage' = [storage EXCEPT ![a] = storage'[a]]
  BY <1>1, <1>6 DEF RecordTypes
<1> QED BY <1>2, <1>10, <1>11, OneAccount

\* Nothing is kept on behalf of who leaves.
LEMMA Leaving ==
  ASSUME RecordsKept, NEW a \in Accounts, entries[a] = {},
         storage' = [storage EXCEPT ![a] = NoStorage],
         account' = [account EXCEPT ![a] = NoRecord],
         margin' = [margin EXCEPT ![a] = NoRecord], entries' = entries
  PROVE  RecordsKept'
<1>1. KeptOf(a) /\ RecordTypes
  BY KeptOfAll DEF RecordsKept
<1>2. storage'[a] = NoStorage /\ account'[a] = NoRecord /\ margin'[a] = NoRecord /\ entries'[a] = {}
  BY <1>1 DEF RecordTypes
<1>3. Bytes(NoRecord) = 0 /\ MarginBytes(NoRecord) = 0 /\ EntryBytes * Cardinality({}) = 0
  BY EntriesType DEF Bytes, MarginBytes
<1>4. Footprint(a)' = 0
  BY <1>2, <1>3 DEF Footprint
<1>5. KeptOf(a)'
  BY <1>2, <1>4 DEF KeptOf
<1>6. /\ account' = [account EXCEPT ![a] = account'[a]]
      /\ margin' = [margin EXCEPT ![a] = margin'[a]]
      /\ entries' = [entries EXCEPT ![a] = entries'[a]]
      /\ storage' = [storage EXCEPT ![a] = storage'[a]]
  BY <1>1, <1>2 DEF RecordTypes
<1> QED BY <1>5, <1>6, OneAccount

\* storage_deposit: of an account that is there, or registering one.
LEMMA StorageDepositKeeps ==
  ASSUME Inv, NEW a \in Accounts, NEW x \in Nat, NEW only, StorageDeposit(a, x, only)
  PROVE  Inv'
<1>1. RecordsKept /\ RecordTypes
  BY DEF Inv, RecordsKept
<1>2. owner' \in Accounts /\ asset' = asset /\ transfers' = transfers /\ entries' = entries
  BY DEF StorageDeposit, adminVars, Inv, OthersTyped
<1>3. CASE /\ storage[a] # NoStorage
           /\ storage' = [storage EXCEPT ![a].balance = @ + x]
           /\ UNCHANGED <<account, margin>>
  <2> DEFINE balance == storage[a].balance + x
  <2>1. balance \in Nat
    BY <1>1, <1>3 DEF RecordTypes, StorageType
  <2>2. storage' = [storage EXCEPT ![a].balance = balance]
    BY <1>3
  <2> HIDE DEF balance
  <2>3. RecordsKept'
    BY <1>1, <1>2, <1>3, <2>1, <2>2, BalanceMoved
  <2> QED BY <1>2, <1>3, <2>3, SharesUnmoved
<1>4. CASE /\ storage[a] = NoStorage
           /\ x >= MinStorage
           /\ storage' = [storage EXCEPT ![a] =
                  [balance |-> IF only THEN MinStorage ELSE x,
                   used |-> StorageBytes + Bytes(NewAccount) + MarginBytes(NewMargin)]]
           /\ account' = [account EXCEPT ![a] = NewAccount]
           /\ margin' = [margin EXCEPT ![a] = NewMargin]
  <2> DEFINE balance == IF only THEN MinStorage ELSE x
  <2>1. balance \in Nat
    BY RegistryNumbers
  <2> HIDE DEF balance
  <2>2. RecordsKept' /\ account[a] = NoRecord /\ margin[a] = NoRecord
    BY <1>1, <1>2, <1>4, <2>1, Registering DEF balance
  <2>3. \A b \in Accounts : \A pool \in AccountPools :
            Share(account', pool, b) = Share(account, pool, b)
    BY <1>1, <1>4, <2>2 DEF Share, AccountPools, NewAccount, RecordTypes
  <2>4. \A b \in Accounts : Share(margin', "supplied", b) = Share(margin, "supplied", b)
    BY <1>1, <1>4, <2>2 DEF Share, NewMargin, RecordTypes
  <2> QED BY <1>2, <2>2, <2>3, <2>4, SharesUnmoved
<1> QED BY <1>3, <1>4 DEF StorageDeposit

\* storage_withdraw takes out no more than what is not needed.
LEMMA StorageWithdrawKeeps ==
  ASSUME Inv, NEW a \in Accounts, NEW x, StorageWithdraw(a, x)
  PROVE  Inv'
<1>1. RecordsKept /\ RecordTypes
  BY DEF Inv, RecordsKept
<1>2. /\ owner' \in Accounts /\ asset' = asset /\ transfers' = transfers
      /\ entries' = entries /\ account' = account /\ margin' = margin
      /\ storage[a] # NoStorage
      /\ x \in 1..AvailableStorage(storage[a])
      /\ storage' = [storage EXCEPT ![a].balance = @ - x]
  BY DEF StorageWithdraw, adminVars, Inv, OthersTyped
<1> DEFINE balance == storage[a].balance - x
<1>3. balance \in Nat
  <2>1. storage[a].balance \in Nat /\ storage[a].used \in Nat /\ MinStorage \in Nat
    BY <1>1, <1>2, RegistryNumbers DEF RecordTypes, StorageType
  <2> QED BY <1>2, <2>1 DEF AvailableStorage
<1>4. storage' = [storage EXCEPT ![a].balance = balance]
  BY <1>2
<1> HIDE DEF balance
<1>5. RecordsKept'
  BY <1>1, <1>2, <1>3, <1>4, BalanceMoved
<1> QED BY <1>2, <1>5, SharesUnmoved

\* Who has no position pledges and owes nothing, so that with nothing supplied
\* no share goes lost.
LEMMA StorageUnregisterKeeps ==
  ASSUME Inv, NEW a \in Accounts, StorageUnregister(a)
  PROVE  Inv'
<1>1. RecordsKept /\ RecordTypes
  BY DEF Inv, RecordsKept
<1>2. /\ owner' \in Accounts /\ asset' = asset /\ transfers' = transfers /\ entries' = entries
      /\ Registered(a) /\ entries[a] = {}
      /\ Account(a).supplied = 0 /\ ~Account(a).position
      /\ margin[a] # NoRecord => margin[a].supplied = 0
      /\ account' = [account EXCEPT ![a] = NoRecord]
      /\ margin' = [margin EXCEPT ![a] = NoRecord]
      /\ storage' = [storage EXCEPT ![a] = NoStorage]
  BY DEF StorageUnregister, MayDrop, adminVars, Inv, OthersTyped
<1>3. RecordsKept'
  BY <1>1, <1>2, Leaving
<1>4. account[a].supplied = 0 /\ account[a].collateral = 0 /\ account[a].borrowed = 0
  <2>1. /\ Account(a).version = "Current" /\ PledgesInPosition(Account(a))
        /\ Account(a).supplied = account[a].supplied
        /\ Account(a).collateral = account[a].collateral
        /\ Account(a).borrowed = account[a].borrowed
    BY <1>2, Read
  <2> QED BY <1>2, <2>1 DEF PledgesInPosition
<1>5. \A pool \in AccountPools : Share(account, pool, a) = 0
  BY <1>4 DEF Share, AccountPools
<1>6. Share(margin, "supplied", a) = 0
  BY <1>2 DEF Share
<1>7. \A b \in Accounts : \A pool \in AccountPools :
          Share(account', pool, b) = Share(account, pool, b)
  BY <1>1, <1>2, <1>5 DEF Share, RecordTypes
<1>8. \A b \in Accounts : Share(margin', "supplied", b) = Share(margin, "supplied", b)
  BY <1>1, <1>2, <1>6 DEF Share, RecordTypes
<1> QED BY <1>2, <1>3, <1>7, <1>8, SharesUnmoved

-----------------------------------------------------------------------------
\* Steps that save a record and the asset.

\* Entering or leaving the farm changes no shares.
LEMMA Farmed ==
  ASSUME NEW r \in AccountType, PledgesInPosition(r), NEW a, NEW barred
  PROVE  /\ Farming(a, r, barred) \in AccountType
         /\ PledgesInPosition(Farming(a, r, barred))
         /\ Farming(a, r, barred).supplied = r.supplied
         /\ Farming(a, r, barred).collateral = r.collateral
         /\ Farming(a, r, barred).borrowed = r.borrowed
<1> DEFINE f == a \notin barred /\ r.supplied + r.collateral > 0
<1>1. f \in BOOLEAN
  OBVIOUS
<1>2. Farming(a, r, barred) = [r EXCEPT !.farms = f]
  BY DEF Farming
<1> HIDE DEF f
<1> QED BY <1>1, <1>2 DEF AccountType, PledgesInPosition

\* What is supplied is changed, and nothing else.
LEMMA SupplyChanged ==
  ASSUME NEW r \in AccountType, PledgesInPosition(r), NEW y \in Int, r.supplied + y >= 0
  PROVE  /\ WithSupply(r, y) \in AccountType
         /\ PledgesInPosition(WithSupply(r, y))
         /\ WithSupply(r, y).supplied = r.supplied + y
         /\ WithSupply(r, y).collateral = r.collateral
         /\ WithSupply(r, y).borrowed = r.borrowed
<1> DEFINE n == r.supplied + y
<1>1. n \in Nat
  BY DEF AccountType
<1>2. WithSupply(r, y) = [r EXCEPT !.supplied = n]
  BY DEF WithSupply
<1>3. r.supplied + y = n
  OBVIOUS
<1> HIDE DEF n
<1> QED BY <1>1, <1>2, <1>3 DEF AccountType, PledgesInPosition

\* The same of a margin account.
LEMMA MarginSupplyChanged ==
  ASSUME NEW r \in MarginType, NEW y \in Int, r.supplied + y >= 0
  PROVE  /\ WithSupply(r, y) \in MarginType
         /\ WithSupply(r, y).supplied = r.supplied + y
<1> DEFINE n == r.supplied + y
<1>1. n \in Nat
  BY DEF MarginType
<1>2. WithSupply(r, y) = [r EXCEPT !.supplied = n]
  BY DEF WithSupply
<1> HIDE DEF n
<1>3. WithSupply(r, y) \in MarginType /\ WithSupply(r, y).supplied = n
  BY <1>1, <1>2 DEF MarginType
<1> QED BY <1>3 DEF n

\* Of the asset's record two pools are changed.
LEMMA PoolsChanged ==
  ASSUME NEW r \in AssetType, NEW x \in Int, NEW y \in Int
  PROVE  /\ [r EXCEPT !.supplied = x] \in AssetType
         /\ [r EXCEPT !.supplied = x, !.borrowed = y] \in AssetType
         /\ [r EXCEPT !.reserved = y] \in AssetType
         /\ [r EXCEPT !.reserved = y, !.supplied = x] \in AssetType
         /\ [r EXCEPT !.prot_fee = y, !.supplied = x] \in AssetType
         /\ [r EXCEPT !.lostfound_shares = y] \in AssetType
BY DEF AssetType

\* An account is saved with more or less supplied, and the asset with it.
LEMMA SupplySaved ==
  ASSUME Inv, NEW a \in Accounts, Registered(a), NEW y \in Int, account[a].supplied + y >= 0,
         NEW barred,
         \/ ForceSave(a, Farming(a, WithSupply(Account(a), y), barred))
         \/ ForceSave(a, WithSupply(Account(a), y)),
         margin' = margin, asset # NoAsset, NEW saved \in AssetType, asset' = saved,
         owner' \in Accounts, \A t \in transfers' : t.to \in Accounts /\ t.amount \in Nat,
         saved.supplied = Asset.supplied + y,
         saved.lostfound_shares = Asset.lostfound_shares, saved.borrowed = Asset.borrowed
  PROVE  Inv'
<1> DEFINE record == WithSupply(Account(a), y)
           farmed == Farming(a, record, barred)
<1>1. /\ account[a] \in AccountType
      /\ Account(a) \in AccountType /\ PledgesInPosition(Account(a))
      /\ Account(a).supplied = account[a].supplied
      /\ Account(a).collateral = account[a].collateral
      /\ Account(a).borrowed = account[a].borrowed
  BY Read
<1>2. /\ record \in AccountType /\ PledgesInPosition(record)
      /\ record.supplied = account[a].supplied + y
      /\ record.collateral = account[a].collateral
      /\ record.borrowed = account[a].borrowed
  BY <1>1, SupplyChanged
<1> HIDE DEF record
<1>3. /\ farmed \in AccountType /\ PledgesInPosition(farmed)
      /\ farmed.supplied = account[a].supplied + y
      /\ farmed.collateral = account[a].collateral
      /\ farmed.borrowed = account[a].borrowed
  BY <1>2, Farmed
<1> HIDE DEF farmed
<1>4. /\ account[a].supplied \in Nat /\ account[a].collateral \in Nat /\ account[a].borrowed \in Nat
  BY <1>1 DEF AccountType
<1>5. /\ Asset.supplied \in Int /\ Asset.borrowed \in Int /\ Asset.lostfound_shares \in Int
  BY AssetParts DEF Inv, OthersTyped
<1>6. PICK new \in {record, farmed} : ForceSave(a, new)
  BY DEF record, farmed
<1>7. /\ new \in AccountType /\ PledgesInPosition(new)
      /\ new.supplied = account[a].supplied + y
      /\ new.collateral = account[a].collateral
      /\ new.borrowed = account[a].borrowed
  BY <1>2, <1>3, <1>6
<1>8. saved.supplied - saved.lostfound_shares
         = Asset.supplied - Asset.lostfound_shares + new.supplied + new.collateral
              - account[a].supplied - account[a].collateral
  BY <1>4, <1>5, <1>7
<1>9. saved.borrowed = Asset.borrowed + new.borrowed - account[a].borrowed
  BY <1>4, <1>5, <1>7
<1> QED BY <1>6, <1>7, <1>8, <1>9, AccountSaved

\* A margin account is saved with more or less supplied, and the asset with it.
LEMMA MarginSupplySaved ==
  ASSUME Inv, NEW a \in Accounts, Registered(a), NEW y \in Int,
         MarginAccount(a).supplied + y >= 0,
         ForceSaveMargin(a, WithSupply(MarginAccount(a), y)),
         account' = account, entries' = entries,
         asset # NoAsset, NEW saved \in AssetType, asset' = saved,
         owner' \in Accounts, \A t \in transfers' : t.to \in Accounts /\ t.amount \in Nat,
         saved.supplied - saved.lostfound_shares = Asset.supplied - Asset.lostfound_shares + y,
         saved.borrowed = Asset.borrowed
  PROVE  Inv'
<1> DEFINE record == WithSupply(MarginAccount(a), y)
           was == Share(margin, "supplied", a)
<1>1. MarginAccount(a) \in MarginType /\ MarginAccount(a).supplied = was
  BY ReadMargin
<1>2. record \in MarginType /\ record.supplied = was + y
  BY <1>1, MarginSupplyChanged
<1>3. was \in Nat /\ Asset.supplied \in Int /\ Asset.lostfound_shares \in Int
  BY ShareType, AssetParts DEF Inv, RecordsKept, OthersTyped
<1>4. ForceSaveMargin(a, record)
  OBVIOUS
<1>5. saved.supplied - saved.lostfound_shares
         = Asset.supplied - Asset.lostfound_shares + record.supplied - was
  <2> HIDE DEF record, was
  <2> QED BY <1>2, <1>3
<1> HIDE DEF record
<1> QED BY <1>2, <1>4, <1>5, MarginSaved DEF was

-----------------------------------------------------------------------------
\* Accounts, one operation after the other.

\* What is read of the asset while it is listed.
LEMMA Listing ==
  ASSUME Inv, asset # NoAsset
  PROVE  /\ Asset \in AssetType /\ scale \in Nat
         /\ Asset.supplied \in Int /\ Asset.borrowed \in Int
         /\ Asset.lostfound_shares \in Int /\ Asset.reserved \in Int /\ Asset.prot_fee \in Int
         /\ owner \in Accounts
         /\ \A t \in transfers : t.to \in Accounts /\ t.amount \in Nat
BY DEF Inv, OthersTyped, AssetType, scale

\* What an account has is a number, and so is what its margin account has.
LEMMA Holdings ==
  ASSUME Inv, NEW a \in Accounts
  PROVE  /\ Registered(a) =>
               /\ account[a].supplied \in Nat /\ account[a].collateral \in Nat
               /\ account[a].borrowed \in Nat
         /\ MarginAccount(a).supplied \in Nat
         /\ margin[a] # NoRecord => Registered(a) /\ MarginAccount(a).supplied = margin[a].supplied
<1>1. Registered(a) => account[a] \in AccountType
  BY Read
<1>2. MarginAccount(a) \in MarginType /\ MarginAccount(a).supplied = Share(margin, "supplied", a)
  BY ReadMargin
<1>3. margin[a] # NoRecord => Registered(a)
  BY DEF Inv, RecordsKept, Linked, Registered
<1> QED BY <1>1, <1>2, <1>3 DEF AccountType, MarginType, Share

\* A deposit, recorded in the decimals of the records (ft_on_transfer).
LEMMA DepositKeeps ==
  ASSUME Inv, NEW a \in Accounts, NEW x \in Nat, Deposit(a, x)
  PROVE  Inv'
<1> DEFINE y == x * scale
           saved == [Asset EXCEPT !.supplied = Asset.supplied + y]
<1>1. /\ asset # NoAsset /\ Registered(a) /\ margin' = margin /\ owner' = owner
      /\ transfers' = transfers
      /\ ForceSave(a, Farming(a, WithSupply(Account(a), y), blacklist))
      /\ asset' = saved
  BY DEF Deposit, Receives, settings, Save, SetAsset
<1>2. y \in Nat
  BY <1>1, Listing
<1> HIDE DEF y
<1>3. Asset.supplied + y \in Int /\ Asset \in AssetType
  BY <1>1, <1>2, Listing
<1>4. saved \in AssetType
  BY <1>3, PoolsChanged
<1>5. /\ saved.supplied = Asset.supplied + y /\ saved.borrowed = Asset.borrowed
      /\ saved.lostfound_shares = Asset.lostfound_shares
  BY <1>3 DEF AssetType
<1> HIDE DEF saved
<1>6. account[a].supplied + y >= 0 /\ y \in Int
  BY <1>1, <1>2, Holdings
<1>7. owner' \in Accounts /\ \A t \in transfers' : t.to \in Accounts /\ t.amount \in Nat
  BY <1>1, Listing
<1> QED BY <1>1, <1>4, <1>5, <1>6, <1>7, SupplySaved

\* A deposit to the margin account, made if there is none.
LEMMA DepositToMarginKeeps ==
  ASSUME Inv, NEW a \in Accounts, NEW x \in Nat, DepositToMargin(a, x)
  PROVE  Inv'
<1> DEFINE y == x * scale
           saved == [Asset EXCEPT !.supplied = Asset.supplied + y]
<1>1. /\ asset # NoAsset /\ Registered(a) /\ account' = account /\ entries' = entries
      /\ owner' = owner /\ transfers' = transfers
      /\ ForceSaveMargin(a, WithSupply(MarginAccount(a), y))
      /\ asset' = saved
  BY DEF DepositToMargin, Receives, settings, SaveMargin, SetAsset
<1>2. y \in Nat
  BY <1>1, Listing
<1> HIDE DEF y
<1>3. Asset.supplied + y \in Int /\ Asset \in AssetType
  BY <1>1, <1>2, Listing
<1>4. saved \in AssetType
  BY <1>3, PoolsChanged
<1>5. /\ saved.supplied = Asset.supplied + y /\ saved.borrowed = Asset.borrowed
      /\ saved.lostfound_shares = Asset.lostfound_shares
  BY <1>3 DEF AssetType
<1> HIDE DEF saved
<1>6. MarginAccount(a).supplied + y >= 0 /\ y \in Int
  BY <1>1, <1>2, Holdings
<1>7. owner' \in Accounts /\ \A t \in transfers' : t.to \in Accounts /\ t.amount \in Nat
  BY <1>1, Listing
<1>8. saved.supplied - saved.lostfound_shares = Asset.supplied - Asset.lostfound_shares + y
  BY <1>1, <1>2, <1>5, Listing
<1> QED BY <1>1, <1>4, <1>5, <1>6, <1>7, <1>8, MarginSupplySaved

\* The records are left as they are, and of the asset neither what is supplied
\* nor borrowed nor owed to strangers changes.
LEMMA RecordsUntouched ==
  ASSUME Inv, UNCHANGED <<account, entries, margin, storage>>, owner' \in Accounts,
         \A t \in transfers' : t.to \in Accounts /\ t.amount \in Nat,
         \/ asset' = asset /\ transfers' \subseteq transfers
         \/ /\ asset # NoAsset
            /\ \E saved \in AssetType :
                  /\ asset' = saved
                  /\ saved.supplied = Asset.supplied /\ saved.borrowed = Asset.borrowed
                  /\ saved.lostfound_shares = Asset.lostfound_shares
  PROVE  Inv'
<1>1. RecordsKept'
  <2>1. \A a \in Accounts : Footprint(a)' = Footprint(a)
    BY DEF Footprint
  <2> QED BY <2>1 DEF Inv, RecordsKept, RecordTypes, Linked, BytesAddUp, Positioned
<1>2. CASE asset' = asset /\ transfers' \subseteq transfers
  <2>1. \A b \in Accounts : /\ \A pool \in AccountPools : Share(account', pool, b) = Share(account, pool, b)
                            /\ Share(margin', "supplied", b) = Share(margin, "supplied", b)
    BY DEF Share
  <2> QED BY <1>1, <1>2, <2>1, SharesUnmoved
<1>3. CASE /\ asset # NoAsset
           /\ \E saved \in AssetType :
                  /\ asset' = saved
                  /\ saved.supplied = Asset.supplied /\ saved.borrowed = Asset.borrowed
                  /\ saved.lostfound_shares = Asset.lostfound_shares
  <2>1. PICK saved \in AssetType :
                  /\ asset' = saved
                  /\ saved.supplied = Asset.supplied /\ saved.borrowed = Asset.borrowed
                  /\ saved.lostfound_shares = Asset.lostfound_shares
    BY <1>3
  <2>2. Asset' = saved /\ asset' # NoAsset
    BY <2>1, SavedAsset
  <2>3. SharesOfAccounts'
    BY <1>3, <2>1, <2>2 DEF Inv, SharesOfAccounts, HeldBy
  <2> QED BY <1>1, <2>2, <2>3 DEF Inv, OthersTyped, Unlisted
<1> QED BY <1>2, <1>3

\* A deposit to the reserve is nobody's shares.
LEMMA DepositToReserveKeeps ==
  ASSUME Inv, NEW x \in Nat, DepositToReserve(x)
  PROVE  Inv'
<1> DEFINE y == Asset.reserved + x * scale
           saved == [Asset EXCEPT !.reserved = y]
<1>1. /\ asset # NoAsset /\ UNCHANGED <<account, entries, margin, storage>>
      /\ owner' = owner /\ transfers' = transfers /\ asset' = saved
  BY DEF DepositToReserve, Receives, settings, SetAsset
<1>2. y \in Int /\ Asset \in AssetType
  BY <1>1, Listing
<1> HIDE DEF y
<1>3. saved \in AssetType
  BY <1>2, PoolsChanged
<1>4. /\ saved.supplied = Asset.supplied /\ saved.borrowed = Asset.borrowed
      /\ saved.lostfound_shares = Asset.lostfound_shares
  BY <1>2 DEF AssetType
<1> HIDE DEF saved
<1>5. owner' \in Accounts /\ \A t \in transfers' : t.to \in Accounts /\ t.amount \in Nat
  BY <1>1, Listing
<1> QED BY <1>1, <1>3, <1>4, <1>5, RecordsUntouched

\* A withdrawal takes its amount from the pool before the tokens are sent.
LEMMA PaidOut ==
  ASSUME Inv, NEW a \in Accounts, NEW x \in Nat, NEW kind, PaysOut(a, x, kind)
  PROVE  /\ asset # NoAsset /\ owner' \in Accounts
         /\ \A t \in transfers' : t.to \in Accounts /\ t.amount \in Nat
         /\ asset' \in AssetType
         /\ asset'.supplied = Asset.supplied - x
         /\ asset'.borrowed = Asset.borrowed
         /\ asset'.lostfound_shares = Asset.lostfound_shares
<1> DEFINE y == Asset.supplied - x
<1>1. /\ asset # NoAsset /\ owner' = owner
      /\ asset' = [Asset EXCEPT !.supplied = y]
  BY DEF PaysOut, settings, SetAsset
<1>2. y \in Int /\ Asset \in AssetType
  BY <1>1, Listing
<1> HIDE DEF y
<1>3. asset' \in AssetType
  BY <1>1, <1>2, PoolsChanged
<1>4. asset'.supplied = y /\ asset'.borrowed = Asset.borrowed
      /\ asset'.lostfound_shares = Asset.lostfound_shares
  BY <1>1, <1>2 DEF AssetType
<1>5. \A t \in transfers' : t.to \in Accounts /\ t.amount \in Nat
  BY <1>1, Listing DEF PaysOut
<1> QED BY <1>1, <1>3, <1>4, <1>5, Listing DEF y

\* The burnt shares are the account's and the pool's alike.
LEMMA WithdrawKeeps ==
  ASSUME Inv, NEW a \in Accounts, NEW x \in Nat, Withdraw(a, x)
  PROVE  Inv'
<1> DEFINE y == -x
           saved == asset'
<1>1. /\ PaysOut(a, x, "Regular") /\ Registered(a) /\ x <= Account(a).supplied
      /\ ForceSave(a, Farming(a, WithSupply(Account(a), y), blacklist)) /\ margin' = margin
  BY DEF Withdraw, Save
<1>2. /\ asset # NoAsset /\ owner' \in Accounts
      /\ \A t \in transfers' : t.to \in Accounts /\ t.amount \in Nat
      /\ saved \in AssetType /\ saved.supplied = Asset.supplied - x
      /\ saved.borrowed = Asset.borrowed /\ saved.lostfound_shares = Asset.lostfound_shares
  BY <1>1, PaidOut
<1>3. asset' = saved
  OBVIOUS
<1> HIDE DEF saved
<1>4. /\ y \in Int /\ account[a].supplied + y >= 0 /\ saved.supplied = Asset.supplied + y
  BY <1>1, <1>2, Read, Holdings, Listing
<1> HIDE DEF y
<1> QED BY <1>1, <1>2, <1>3, <1>4, SupplySaved

\* So they are when a margin account withdraws.
LEMMA MarginWithdrawKeeps ==
  ASSUME Inv, NEW a \in Accounts, NEW x \in Nat, MarginWithdraw(a, x)
  PROVE  Inv'
<1> DEFINE y == -x
           saved == asset'
<1>1. /\ PaysOut(a, x, "Margin") /\ margin[a] # NoRecord /\ x <= margin[a].supplied
      /\ ForceSaveMargin(a, WithSupply(MarginAccount(a), y))
      /\ account' = account /\ entries' = entries
  BY DEF MarginWithdraw, SaveMargin
<1>2. /\ asset # NoAsset /\ owner' \in Accounts
      /\ \A t \in transfers' : t.to \in Accounts /\ t.amount \in Nat
      /\ saved \in AssetType /\ saved.supplied = Asset.supplied - x
      /\ saved.borrowed = Asset.borrowed /\ saved.lostfound_shares = Asset.lostfound_shares
  BY <1>1, PaidOut
<1>3. asset' = saved
  OBVIOUS
<1> HIDE DEF saved
<1>4. Registered(a) /\ MarginAccount(a).supplied = margin[a].supplied /\ MarginAccount(a).supplied \in Nat
  BY <1>1, Holdings
<1>5. /\ y \in Int /\ MarginAccount(a).supplied + y >= 0
      /\ saved.supplied - saved.lostfound_shares = Asset.supplied - Asset.lostfound_shares + y
  BY <1>1, <1>2, <1>4, Listing
<1> HIDE DEF y
<1> QED BY <1>1, <1>2, <1>3, <1>4, <1>5, MarginSupplySaved

\* Pledging moves shares within the record, into a position.
LEMMA IncreaseCollateralKeeps ==
  ASSUME Inv, NEW a \in Accounts, NEW x, IncreaseCollateral(a, x)
  PROVE  Inv'
<1> DEFINE r == Account(a)
           record == [r EXCEPT !.supplied = r.supplied - x, !.collateral = r.collateral + x,
                               !.position = TRUE]
           farmed == Farming(a, record, blacklist)
<1>1. /\ Registered(a) /\ asset # NoAsset /\ x \in 1..r.supplied
      /\ ForceSave(a, farmed) /\ margin' = margin /\ owner' = owner
      /\ transfers' = transfers /\ asset' = asset
  BY DEF IncreaseCollateral, Saves, Save, settings
<1>2. /\ r \in AccountType /\ r.version = "Current"
      /\ r.supplied = account[a].supplied /\ r.collateral = account[a].collateral
      /\ r.borrowed = account[a].borrowed
  BY <1>1, Read
<1> HIDE DEF r
<1>3. /\ r.supplied - x \in Nat /\ r.collateral + x \in Nat
      /\ (r.supplied - x) + (r.collateral + x) = r.supplied + r.collateral
  BY <1>1, <1>2 DEF AccountType
<1>4. /\ record \in AccountType /\ PledgesInPosition(record)
      /\ record.supplied = r.supplied - x /\ record.collateral = r.collateral + x
      /\ record.borrowed = r.borrowed
  BY <1>2, <1>3 DEF AccountType, PledgesInPosition
<1> HIDE DEF record
<1>5. /\ farmed \in AccountType /\ PledgesInPosition(farmed)
      /\ farmed.supplied = record.supplied /\ farmed.collateral = record.collateral
      /\ farmed.borrowed = record.borrowed
  BY <1>4, Farmed
<1> HIDE DEF farmed
<1>6. farmed.supplied + farmed.collateral = account[a].supplied + account[a].collateral
  BY <1>2, <1>3, <1>4, <1>5
<1>7. owner' \in Accounts
  BY <1>1, Listing
<1> QED BY <1>1, <1>2, <1>4, <1>5, <1>6, <1>7, AccountResaved

\* Taking out of a pledge drops the position only when it is empty.
LEMMA DecreaseCollateralKeeps ==
  ASSUME Inv, NEW a \in Accounts, NEW x, DecreaseCollateral(a, x)
  PROVE  Inv'
<1> DEFINE r == Account(a)
           rest == [r EXCEPT !.collateral = r.collateral - x, !.supplied = r.supplied + x]
           held == rest.collateral + rest.borrowed > 0
           record == [rest EXCEPT !.position = held]
           farmed == Farming(a, record, blacklist)
<1>1. /\ Registered(a) /\ asset # NoAsset /\ x \in 1..r.collateral
      /\ ForceSave(a, farmed) /\ margin' = margin /\ owner' = owner
      /\ transfers' = transfers /\ asset' = asset
  BY DEF DecreaseCollateral, Saves, Save, settings
<1>2. /\ r \in AccountType /\ r.version = "Current"
      /\ r.supplied = account[a].supplied /\ r.collateral = account[a].collateral
      /\ r.borrowed = account[a].borrowed
  BY <1>1, Read
<1> HIDE DEF r
<1>3. /\ r.collateral - x \in Nat /\ r.supplied + x \in Nat
      /\ (r.supplied + x) + (r.collateral - x) = r.supplied + r.collateral
  BY <1>1, <1>2 DEF AccountType
<1>4. /\ rest \in AccountType /\ rest.version = "Current"
      /\ rest.supplied = r.supplied + x /\ rest.collateral = r.collateral - x
      /\ rest.borrowed = r.borrowed
  BY <1>2, <1>3 DEF AccountType
<1> HIDE DEF rest
<1>5. /\ record \in AccountType /\ PledgesInPosition(record)
      /\ record.supplied = rest.supplied /\ record.collateral = rest.collateral
      /\ record.borrowed = rest.borrowed
  <2>1. held \in BOOLEAN /\ (~held => rest.collateral = 0 /\ rest.borrowed = 0)
    BY <1>4 DEF AccountType
  <2> HIDE DEF held
  <2> QED BY <1>4, <2>1 DEF AccountType, PledgesInPosition
<1> HIDE DEF record
<1>6. /\ farmed \in AccountType /\ PledgesInPosition(farmed)
      /\ farmed.supplied = record.supplied /\ farmed.collateral = record.collateral
      /\ farmed.borrowed = record.borrowed
  BY <1>5, Farmed
<1> HIDE DEF farmed
<1>7. farmed.supplied + farmed.collateral = account[a].supplied + account[a].collateral
  BY <1>2, <1>3, <1>4, <1>5, <1>6
<1>8. owner' \in Accounts
  BY <1>1, Listing
<1> QED BY <1>1, <1>2, <1>4, <1>5, <1>6, <1>7, <1>8, AccountResaved

\* A loan, or what is paid back of one, is supplied and owed alike.
LEMMA LoanSaved ==
  ASSUME Inv, NEW a \in Accounts, Registered(a), asset # NoAsset, NEW y \in Int,
         account[a].supplied + y >= 0, account[a].borrowed + y >= 0, Account(a).position \/ y <= 0,
         Saves(a, [Account(a) EXCEPT !.borrowed = @ + y, !.supplied = @ + y]),
         asset' = [Asset EXCEPT !.supplied = @ + y, !.borrowed = @ + y]
  PROVE  Inv'
<1> DEFINE r == Account(a)
           record == [r EXCEPT !.borrowed = r.borrowed + y, !.supplied = r.supplied + y]
           farmed == Farming(a, record, blacklist)
           saved == [Asset EXCEPT !.supplied = Asset.supplied + y, !.borrowed = Asset.borrowed + y]
<1>1. /\ ForceSave(a, farmed) /\ margin' = margin /\ owner' = owner /\ transfers' = transfers
      /\ asset' = saved
  BY DEF Saves, Save, settings
<1>2. /\ r \in AccountType /\ r.version = "Current" /\ PledgesInPosition(r)
      /\ r.supplied = account[a].supplied /\ r.collateral = account[a].collateral
      /\ r.borrowed = account[a].borrowed
      /\ r.position \/ y <= 0
  BY Read
<1> HIDE DEF r
<1>3. /\ account[a].supplied \in Nat /\ account[a].collateral \in Nat /\ account[a].borrowed \in Nat
      /\ Asset \in AssetType /\ Asset.supplied \in Int /\ Asset.borrowed \in Int
      /\ Asset.lostfound_shares \in Int
  BY Holdings, Listing
<1>4. r.borrowed + y \in Nat /\ r.supplied + y \in Nat
  BY <1>2, <1>3
<1>5. /\ record \in AccountType
      /\ record.supplied = r.supplied + y /\ record.collateral = r.collateral
      /\ record.borrowed = r.borrowed + y
  BY <1>2, <1>4 DEF AccountType
<1>6. PledgesInPosition(record)
  <2>1. record.position = r.position /\ record.version = r.version
    BY <1>2 DEF AccountType
  <2>2. CASE r.position
    BY <2>1, <2>2 DEF PledgesInPosition
  <2>3. CASE ~r.position
    <3>1. r.collateral = 0 /\ r.borrowed = 0
      BY <1>2, <2>3 DEF PledgesInPosition
    <3>2. record.borrowed = 0
      BY <1>2, <1>4, <1>5, <2>3, <3>1
    <3> QED BY <1>5, <3>1, <3>2 DEF PledgesInPosition
  <2> QED BY <2>2, <2>3
<1> HIDE DEF record
<1>7. /\ farmed \in AccountType /\ PledgesInPosition(farmed)
      /\ farmed.supplied = record.supplied /\ farmed.collateral = record.collateral
      /\ farmed.borrowed = record.borrowed
  BY <1>5, <1>6, Farmed
<1> HIDE DEF farmed
<1>8. Asset.supplied + y \in Int /\ Asset.borrowed + y \in Int
  BY <1>3
<1>9. saved \in AssetType
  BY <1>3, <1>8, PoolsChanged
<1>10. /\ saved.supplied = Asset.supplied + y /\ saved.borrowed = Asset.borrowed + y
       /\ saved.lostfound_shares = Asset.lostfound_shares
  BY <1>3 DEF AssetType
<1> HIDE DEF saved
<1>11. /\ saved.supplied - saved.lostfound_shares
             = Asset.supplied - Asset.lostfound_shares
                 + farmed.supplied + farmed.collateral
                 - account[a].supplied - account[a].collateral
       /\ saved.borrowed = Asset.borrowed + farmed.borrowed - account[a].borrowed
  BY <1>2, <1>3, <1>5, <1>7, <1>10
<1>12. owner' \in Accounts /\ \A t \in transfers' : t.to \in Accounts /\ t.amount \in Nat
  BY <1>1, Listing
<1> QED BY <1>1, <1>7, <1>9, <1>11, <1>12, AccountSaved

\* A loan is a gain of the account's supply and of its debt.
LEMMA BorrowKeeps ==
  ASSUME Inv, NEW a \in Accounts, NEW x \in Nat, Borrow(a, x)
  PROVE  Inv'
<1> DEFINE r == Account(a)
<1>1. /\ Registered(a) /\ asset # NoAsset /\ r.position
      /\ Saves(a, [r EXCEPT !.borrowed = r.borrowed + x, !.supplied = r.supplied + x])
      /\ asset' = [Asset EXCEPT !.supplied = Asset.supplied + x, !.borrowed = Asset.borrowed + x]
  BY DEF Borrow, SetAsset
<1>2. x \in Int /\ account[a].supplied + x >= 0 /\ account[a].borrowed + x >= 0
  BY <1>1, Holdings
<1> QED BY <1>1, <1>2, LoanSaved

\* A repayment takes as much from both.
LEMMA RepayKeeps ==
  ASSUME Inv, NEW a \in Accounts, NEW x \in Nat, Repay(a, x)
  PROVE  Inv'
<1> DEFINE r == Account(a)
           y == -x
<1>1. /\ Registered(a) /\ asset # NoAsset /\ x <= r.borrowed /\ x <= r.supplied
      /\ Saves(a, [r EXCEPT !.borrowed = r.borrowed - x, !.supplied = r.supplied - x])
      /\ asset' = [Asset EXCEPT !.supplied = Asset.supplied - x, !.borrowed = Asset.borrowed - x]
  BY DEF Repay, SetAsset
<1>2. /\ r.supplied = account[a].supplied /\ r.borrowed = account[a].borrowed
      /\ account[a].supplied \in Nat /\ account[a].borrowed \in Nat
      /\ Asset.supplied \in Int /\ Asset.borrowed \in Int
  BY <1>1, Read, Holdings, Listing
<1>3. /\ y \in Int /\ y <= 0 /\ account[a].supplied + y >= 0 /\ account[a].borrowed + y >= 0
      /\ r.borrowed - x = r.borrowed + y /\ r.supplied - x = r.supplied + y
      /\ Asset.supplied - x = Asset.supplied + y /\ Asset.borrowed - x = Asset.borrowed + y
  <2> HIDE DEF r
  <2> QED BY <1>1, <1>2
<1>4. /\ Saves(a, [r EXCEPT !.borrowed = r.borrowed + y, !.supplied = r.supplied + y])
      /\ asset' = [Asset EXCEPT !.supplied = Asset.supplied + y, !.borrowed = Asset.borrowed + y]
  <2> HIDE DEF y, r
  <2> QED BY <1>1, <1>3
<1> HIDE DEF y
<1> QED BY <1>1, <1>3, <1>4, LoanSaved

\* A record that is saved as it was read, in the farm or out of it.
LEMMA RefarmingKeeps ==
  ASSUME Inv, NEW a \in Accounts, Registered(a), NEW barred,
         ForceSave(a, Farming(a, Account(a), barred)), margin' = margin,
         owner' \in Accounts, asset' = asset, transfers' = transfers
  PROVE  Inv'
<1> DEFINE farmed == Farming(a, Account(a), barred)
<1>1. /\ farmed \in AccountType /\ PledgesInPosition(farmed)
      /\ farmed.supplied = account[a].supplied /\ farmed.collateral = account[a].collateral
      /\ farmed.borrowed = account[a].borrowed
  BY Read, Farmed
<1>2. ForceSave(a, farmed)
  OBVIOUS
<1> HIDE DEF farmed
<1> QED BY <1>1, <1>2, AccountResaved

\* A claim saves the record as it was read.
LEMMA ClaimFarmsKeeps ==
  ASSUME Inv, NEW a \in Accounts, ClaimFarms(a)
  PROVE  Inv'
<1>1. /\ Registered(a) /\ ForceSave(a, Farming(a, Account(a), blacklist)) /\ margin' = margin
      /\ owner' = owner /\ asset' = asset /\ transfers' = transfers
  BY DEF ClaimFarms, Saves, Save, settings
<1> QED BY <1>1, RefarmingKeeps DEF Inv, OthersTyped

-----------------------------------------------------------------------------
\* The results of transfers, and what the owner does with accounts and funds.

\* A transfer that succeeds changes no record.
LEMMA TransferSucceedsKeeps ==
  ASSUME Inv, NEW t \in transfers, TransferSucceeds(t)
  PROVE  Inv'
<1>1. /\ UNCHANGED <<account, entries, margin, storage>> /\ owner' = owner /\ asset' = asset
      /\ transfers' \subseteq transfers
  BY DEF TransferSucceeds, adminVars, accountVars
<1>2. owner' \in Accounts /\ \A u \in transfers' : u.to \in Accounts /\ u.amount \in Nat
  BY <1>1 DEF Inv, OthersTyped
<1> QED BY <1>1, <1>2, RecordsUntouched

\* A transfer that fails gives back what was taken, or nothing to an account
\* that is gone: either way record and pool agree.
LEMMA TransferFailsKeeps ==
  ASSUME Inv, NEW t \in transfers, TransferFails(t)
  PROVE  Inv'
<1> DEFINE a == t.to
           y == t.amount
           saved == [Asset EXCEPT !.supplied = Asset.supplied + y]
<1>1. asset # NoAsset
  BY DEF Inv, Unlisted
<1>2. /\ a \in Accounts /\ y \in Nat /\ Asset \in AssetType /\ Asset.supplied \in Int
      /\ Asset.lostfound_shares \in Int /\ owner \in Accounts
      /\ \A u \in transfers : u.to \in Accounts /\ u.amount \in Nat
  BY <1>1, Listing
<1>3. /\ transfers' = transfers \ {t} /\ owner' = owner
      /\ \/ /\ Registered(a) /\ asset' = saved
            /\ \/ /\ ForceSave(a, WithSupply(Account(a), y)) /\ margin' = margin
               \/ /\ ForceSaveMargin(a, WithSupply(MarginAccount(a), y))
                  /\ account' = account /\ entries' = entries
         \/ UNCHANGED <<asset, account, entries, margin, storage>>
  BY DEF TransferFails, SetAsset, settings
<1>4. owner' \in Accounts /\ \A u \in transfers' : u.to \in Accounts /\ u.amount \in Nat
  BY <1>2, <1>3
<1> HIDE DEF a, y
<1>5. CASE UNCHANGED <<asset, account, entries, margin, storage>>
  BY <1>3, <1>4, <1>5, RecordsUntouched
<1>6. Asset.supplied + y \in Int /\ y \in Int
  BY <1>2
<1>7. saved \in AssetType
  BY <1>2, <1>6, PoolsChanged
<1>8. /\ saved.supplied = Asset.supplied + y /\ saved.borrowed = Asset.borrowed
      /\ saved.lostfound_shares = Asset.lostfound_shares
  BY <1>2 DEF AssetType
<1> HIDE DEF saved
<1>9. CASE /\ Registered(a) /\ asset' = saved
           /\ ForceSave(a, WithSupply(Account(a), y)) /\ margin' = margin
  <2>1. account[a].supplied + y >= 0
    BY <1>2, <1>9, Holdings
  <2> QED BY <1>1, <1>2, <1>4, <1>6, <1>7, <1>8, <1>9, <2>1, SupplySaved
<1>10. CASE /\ Registered(a) /\ asset' = saved
            /\ ForceSaveMargin(a, WithSupply(MarginAccount(a), y))
            /\ account' = account /\ entries' = entries
  <2>1. MarginAccount(a).supplied + y >= 0
    BY <1>2, Holdings
  <2>2. saved.supplied - saved.lostfound_shares = Asset.supplied - Asset.lostfound_shares + y
    BY <1>2, <1>8
  <2> QED BY <1>1, <1>2, <1>4, <1>6, <1>7, <1>8, <1>10, <2>1, <2>2, MarginSupplySaved
<1> QED BY <1>3, <1>5, <1>9, <1>10

\* A new owner must have an account.
LEMMA SetOwnerKeeps ==
  ASSUME Inv, NEW p, NEW a \in Accounts, SetOwner(p, a)
  PROVE  Inv'
<1>1. /\ UNCHANGED <<account, entries, margin, storage>> /\ owner' = a /\ asset' = asset
      /\ transfers' = transfers
  BY DEF SetOwner, accountVars
<1>2. \A u \in transfers' : u.to \in Accounts /\ u.amount \in Nat
  BY <1>1 DEF Inv, OthersTyped
<1> QED BY <1>1, <1>2, RecordsUntouched

\* Barring an account from farms, and letting it in again, saves its record.
LEMMA BlacklistingKeeps ==
  ASSUME Inv, NEW p, NEW a \in Accounts, Blacklist(p, a) \/ Unblacklist(p, a)
  PROVE  Inv'
<1> DEFINE barred == blacklist'
<1>1. /\ Registered(a) /\ ForceSave(a, Farming(a, Account(a), barred)) /\ margin' = margin
      /\ owner' = owner /\ asset' = asset /\ transfers' = transfers
  BY DEF Blacklist, Unblacklist, Save
<1>2. owner' \in Accounts
  BY <1>1 DEF Inv, OthersTyped
<1> HIDE DEF barred
<1> QED BY <1>1, <1>2, RefarmingKeeps

\* What is claimed for the owner leaves a field of the asset for a pool.
LEMMA PayOwnerKeeps ==
  ASSUME Inv, NEW p, NEW x \in Nat, NEW field \in {"prot_fee", "reserved"}, PayOwner(p, field, x)
  PROVE  Inv'
<1> DEFINE n == Asset[field] - x
           saved == [Asset EXCEPT ![field] = n, !.supplied = Asset.supplied + x]
<1>1. /\ asset # NoAsset /\ Registered(owner) /\ owner' = owner /\ transfers' = transfers
      /\ ForceSave(owner, Farming(owner, WithSupply(Account(owner), x), blacklist))
      /\ margin' = margin /\ asset' = [Asset EXCEPT ![field] = Asset[field] - x, !.supplied = @ + x]
  BY DEF PayOwner, Save, SetAsset
<1>2. /\ Asset \in AssetType /\ Asset.supplied \in Int /\ Asset.reserved \in Int
      /\ Asset.prot_fee \in Int /\ owner \in Accounts
      /\ \A u \in transfers : u.to \in Accounts /\ u.amount \in Nat
  BY <1>1, Listing
<1>3. asset' = saved
  BY <1>1, <1>2 DEF AssetType
<1>4. n \in Int /\ Asset.supplied + x \in Int /\ x \in Int
  BY <1>2
<1> HIDE DEF n
<1>5. saved \in AssetType
  <2>1. CASE field = "prot_fee"
    BY <1>2, <1>4, <2>1, PoolsChanged
  <2>2. CASE field = "reserved"
    BY <1>2, <1>4, <2>2, PoolsChanged
  <2> QED BY <2>1, <2>2
<1>6. /\ saved.supplied = Asset.supplied + x /\ saved.borrowed = Asset.borrowed
      /\ saved.lostfound_shares = Asset.lostfound_shares
  BY <1>2 DEF AssetType
<1> HIDE DEF saved
<1>7. account[owner].supplied + x >= 0
  <2>1. account[owner].supplied \in Nat
    BY <1>1, <1>2, Holdings
  <2> HIDE DEF saved
  <2> QED BY <2>1
<1> QED BY <1>1, <1>2, <1>3, <1>4, <1>5, <1>6, <1>7, SupplySaved

\* The owner's shares become reserve.
LEMMA IncreaseReservedKeeps ==
  ASSUME Inv, NEW p, NEW x \in Nat, IncreaseReserved(p, x)
  PROVE  Inv'
<1> DEFINE y == -x
           n == Asset.reserved + x
           m == Asset.supplied - x
           saved == [Asset EXCEPT !.reserved = n, !.supplied = m]
<1>1. /\ asset # NoAsset /\ Registered(owner) /\ x <= Account(owner).supplied
      /\ ForceSave(owner, Farming(owner, WithSupply(Account(owner), y), blacklist))
      /\ owner' = owner /\ transfers' = transfers /\ margin' = margin /\ asset' = saved
  BY DEF IncreaseReserved, Save, SetAsset
<1>2. /\ Asset \in AssetType /\ Asset.supplied \in Int /\ Asset.reserved \in Int
      /\ owner \in Accounts /\ \A u \in transfers : u.to \in Accounts /\ u.amount \in Nat
  BY <1>1, Listing
<1>3. n \in Int /\ m \in Int /\ y \in Int /\ m = Asset.supplied + y
  BY <1>2
<1>4. account[owner].supplied + y >= 0
  BY <1>1, <1>2, Read, Holdings
<1> HIDE DEF n, m, y
<1>5. saved \in AssetType
  BY <1>2, <1>3, PoolsChanged
<1>6. /\ saved.supplied = Asset.supplied + y /\ saved.borrowed = Asset.borrowed
      /\ saved.lostfound_shares = Asset.lostfound_shares
  BY <1>2, <1>3 DEF AssetType
<1> HIDE DEF saved
<1> QED BY <1>1, <1>2, <1>3, <1>4, <1>5, <1>6, SupplySaved

\* Shares that were found are given to a margin account.
LEMMA ReturnLostFoundKeeps ==
  ASSUME Inv, NEW p, NEW a \in Accounts, NEW x \in Nat, ReturnLostFound(p, a, x)
  PROVE  Inv'
<1> DEFINE n == Asset.lostfound_shares - x
           saved == [Asset EXCEPT !.lostfound_shares = n]
<1>1. /\ asset # NoAsset /\ Registered(a)
      /\ ForceSaveMargin(a, WithSupply(MarginAccount(a), x))
      /\ account' = account /\ entries' = entries
      /\ owner' = owner /\ transfers' = transfers /\ asset' = saved
  BY DEF ReturnLostFound, SaveMargin, SetAsset
<1>2. /\ Asset \in AssetType /\ Asset.supplied \in Int /\ Asset.lostfound_shares \in Int
      /\ owner \in Accounts /\ \A u \in transfers : u.to \in Accounts /\ u.amount \in Nat
  BY <1>1, Listing
<1>3. n \in Int /\ x \in Int /\ Asset.supplied - n = Asset.supplied - Asset.lostfound_shares + x
  BY <1>2
<1> HIDE DEF n
<1>4. saved \in AssetType
  BY <1>2, <1>3, PoolsChanged
<1>5. /\ saved.supplied = Asset.supplied /\ saved.borrowed = Asset.borrowed
      /\ saved.lostfound_shares = n
  BY <1>2 DEF AssetType
<1> HIDE DEF saved
<1>6. saved.supplied - saved.lostfound_shares = Asset.supplied - Asset.lostfound_shares + x
  BY <1>3, <1>5
<1>7. MarginAccount(a).supplied + x >= 0
  BY Holdings
<1> QED BY <1>1, <1>2, <1>3, <1>4, <1>5, <1>6, <1>7, MarginSupplySaved

-----------------------------------------------------------------------------
\* What the owner and the guardians set.

\* The fields of a configuration, those its validity is about, and the others
\* of the asset's record.
ConfigFields ==
    {"reserve_ratio", "extra_decimals", "target_utilization", "target_utilization_rate",
     "max_utilization_rate", "holding_position_fee_rate", "volatility_ratio", "can_deposit",
     "can_withdraw", "can_use_as_collateral", "can_borrow", "net_tvl_multiplier",
     "max_change_rate", "beneficiaries", "supplied_limit", "borrowed_limit",
     "min_borrowed_amount"}

Checked ==
    {"reserve_ratio", "target_utilization", "target_utilization_rate", "max_utilization_rate",
     "holding_position_fee_rate", "volatility_ratio", "net_tvl_multiplier", "max_change_rate",
     "beneficiaries", "supplied_limit", "borrowed_limit", "min_borrowed_amount"}

BookFields ==
    {"version", "supplied", "borrowed", "reserved", "prot_fee", "margin_debt",
     "margin_pending_debt", "margin_position", "lostfound_shares", "beneficiary_fees"}

\* The two kinds of fields make up the record.
LEMMA FieldsOfRecords ==
  /\ AssetCurrent \cup {"version"} = ConfigFields \cup BookFields
  /\ ConfigFields \cap BookFields = {}
  /\ Checked \subseteq ConfigFields
BY DEF ConfigFields, Checked, BookFields, AssetCurrent, AssetV5, AssetV4, AssetV3, AssetV2,
       AssetV1, AssetV0

\* The fields of an asset.
LEMMA FieldsOfAsset ==
  ASSUME NEW r \in AssetType
  PROVE  DOMAIN r = ConfigFields \cup BookFields
BY DEF AssetType, ConfigFields, BookFields

\* Whatever agrees with a valid configuration in the fields that are checked is
\* valid.
LEMMA CheckedOnly ==
  ASSUME NEW x, NEW y, \A f \in Checked : y[f] = x[f], Valid(x)
  PROVE  Valid(y)
<1>1. /\ y.reserve_ratio = x.reserve_ratio /\ y.target_utilization = x.target_utilization
      /\ y.target_utilization_rate = x.target_utilization_rate
      /\ y.max_utilization_rate = x.max_utilization_rate
      /\ y.holding_position_fee_rate = x.holding_position_fee_rate
      /\ y.volatility_ratio = x.volatility_ratio
      /\ y.net_tvl_multiplier = x.net_tvl_multiplier /\ y.max_change_rate = x.max_change_rate
      /\ y.beneficiaries = x.beneficiaries /\ y.supplied_limit = x.supplied_limit
      /\ y.borrowed_limit = x.borrowed_limit /\ y.min_borrowed_amount = x.min_borrowed_amount
  BY DEF Checked
<1> QED BY <1>1 DEF Valid

\* A function with the fields of the asset's record is one.
LEMMA IsAsset ==
  ASSUME NEW o, o = [f \in ConfigFields \cup BookFields |-> o[f]],
         o.version = "Current", o.beneficiary_fees = <<>>,
         o.supplied \in Int, o.borrowed \in Int, o.reserved \in Int, o.prot_fee \in Int,
         o.margin_debt \in Int, o.margin_pending_debt \in Int, o.margin_position \in Int,
         o.lostfound_shares \in Int,
         NEW c \in ConfigType, \A f \in ConfigFields : o[f] = c[f]
  PROVE  o \in AssetType
<1>1. o = [version |-> o.version, supplied |-> o.supplied, borrowed |-> o.borrowed,
           reserved |-> o.reserved, prot_fee |-> o.prot_fee, margin_debt |-> o.margin_debt,
           margin_pending_debt |-> o.margin_pending_debt, margin_position |-> o.margin_position,
           lostfound_shares |-> o.lostfound_shares, beneficiary_fees |-> o.beneficiary_fees,
           reserve_ratio |-> o.reserve_ratio, extra_decimals |-> o.extra_decimals,
           target_utilization |-> o.target_utilization,
           target_utilization_rate |-> o.target_utilization_rate,
           max_utilization_rate |-> o.max_utilization_rate,
           holding_position_fee_rate |-> o.holding_position_fee_rate,
           volatility_ratio |-> o.volatility_ratio,
           can_deposit |-> o.can_deposit, can_withdraw |-> o.can_withdraw,
           can_use_as_collateral |-> o.can_use_as_collateral, can_borrow |-> o.can_borrow,
           net_tvl_multiplier |-> o.net_tvl_multiplier, max_change_rate |-> o.max_change_rate,
           beneficiaries |-> o.beneficiaries,
           supplied_limit |-> o.supplied_limit, borrowed_limit |-> o.borrowed_limit,
           min_borrowed_amount |-> o.min_borrowed_amount]
  BY DEF ConfigFields, BookFields
<1>2. /\ o.reserve_ratio = c.reserve_ratio /\ o.extra_decimals = c.extra_decimals
      /\ o.target_utilization = c.target_utilization
      /\ o.target_utilization_rate = c.target_utilization_rate
      /\ o.max_utilization_rate = c.max_utilization_rate
      /\ o.holding_position_fee_rate = c.holding_position_fee_rate
      /\ o.volatility_ratio = c.volatility_ratio
      /\ o.can_deposit = c.can_deposit /\ o.can_withdraw = c.can_withdraw
      /\ o.can_use_as_collateral = c.can_use_as_collateral /\ o.can_borrow = c.can_borrow
      /\ o.net_tvl_multiplier = c.net_tvl_multiplier /\ o.max_change_rate = c.max_change_rate
      /\ o.beneficiaries = c.beneficiaries
      /\ o.supplied_limit = c.supplied_limit /\ o.borrowed_limit = c.borrowed_limit
      /\ o.min_borrowed_amount = c.min_borrowed_amount
  BY DEF ConfigFields
<1>3. /\ c.reserve_ratio \in Nat /\ c.extra_decimals \in Nat /\ c.target_utilization \in Nat
      /\ c.target_utilization_rate \in Nat /\ c.max_utilization_rate \in Nat
      /\ c.holding_position_fee_rate \in Nat /\ c.volatility_ratio \in Nat
      /\ c.can_deposit \in BOOLEAN
      /\ c.can_withdraw \in BOOLEAN /\ c.can_use_as_collateral \in BOOLEAN
      /\ c.can_borrow \in BOOLEAN /\ c.net_tvl_multiplier \in Nat /\ c.beneficiaries \in Parts
      /\ c.max_change_rate \in Nat \cup {None}
      /\ c.supplied_limit \in Nat \cup {None} /\ c.borrowed_limit \in Nat \cup {None}
      /\ c.min_borrowed_amount \in Nat \cup {None}
  BY DEF ConfigType
<1> QED BY <1>1, <1>2, <1>3 DEF AssetType

\* A configuration over a record: the record's books, the configuration's
\* settings.
LEMMA Configured ==
  ASSUME NEW c \in ConfigType, NEW r,
         DOMAIN c \cup DOMAIN r = ConfigFields \cup BookFields,
         r.version = "Current", r.beneficiary_fees = <<>>,
         r.supplied \in Int, r.borrowed \in Int, r.reserved \in Int, r.prot_fee \in Int,
         r.margin_debt \in Int, r.margin_pending_debt \in Int, r.margin_position \in Int,
         r.lostfound_shares \in Int
  PROVE  /\ Over(c, r) \in AssetType
         /\ Over(c, r).supplied = r.supplied /\ Over(c, r).borrowed = r.borrowed
         /\ Over(c, r).lostfound_shares = r.lostfound_shares
         /\ \A f \in Checked : Over(c, r)[f] = c[f]
<1> DEFINE o == Over(c, r)
<1>1. DOMAIN c = ConfigFields
  BY DEF ConfigType, ConfigFields
<1>2. o = [f \in ConfigFields \cup BookFields |-> IF f \in ConfigFields THEN c[f] ELSE r[f]]
  BY <1>1 DEF Over
<1>3. /\ \A f \in ConfigFields : o[f] = c[f]
      /\ \A f \in BookFields : o[f] = r[f]
      /\ o = [f \in ConfigFields \cup BookFields |-> o[f]]
  <2> HIDE DEF o
  <2> QED BY <1>2, FieldsOfRecords
<1> HIDE DEF o
<1>4. /\ o.version = r.version /\ o.supplied = r.supplied /\ o.borrowed = r.borrowed
      /\ o.reserved = r.reserved /\ o.prot_fee = r.prot_fee /\ o.margin_debt = r.margin_debt
      /\ o.margin_pending_debt = r.margin_pending_debt
      /\ o.margin_position = r.margin_position
      /\ o.lostfound_shares = r.lostfound_shares /\ o.beneficiary_fees = r.beneficiary_fees
  BY <1>3 DEF BookFields
<1>5. o \in AssetType
  BY <1>3, <1>4, IsAsset
<1>6. /\ o \in AssetType
      /\ o.supplied = r.supplied /\ o.borrowed = r.borrowed
      /\ o.lostfound_shares = r.lostfound_shares
      /\ \A f \in Checked : o[f] = c[f]
  BY <1>3, <1>4, <1>5, FieldsOfRecords
<1> QED BY <1>6 DEF o

\* What is left of the asset when its settings change.
SettingsOnly(saved) ==
    /\ saved \in AssetType
    /\ saved.supplied = Asset.supplied
    /\ saved.borrowed = Asset.borrowed
    /\ saved.lostfound_shares = Asset.lostfound_shares

\* update_asset replaces the configuration and keeps the books.
LEMMA UpdateAssetSets ==
  ASSUME Asset \in AssetType, NEW c \in Configs
  PROVE  /\ SettingsOnly(Over(c, Asset))
         /\ Valid(c) => Valid(Over(c, Asset))
<1>1. c \in ConfigType
  BY AssetAssumption
<1> DEFINE r == Asset
<1>2. DOMAIN c \cup DOMAIN r = ConfigFields \cup BookFields
  <2>1. DOMAIN c = ConfigFields
    BY <1>1 DEF ConfigType, ConfigFields
  <2> QED BY <2>1, FieldsOfAsset
<1>3. /\ r.version = "Current" /\ r.beneficiary_fees = <<>>
      /\ r.supplied \in Int /\ r.borrowed \in Int /\ r.reserved \in Int /\ r.prot_fee \in Int
      /\ r.margin_debt \in Int /\ r.margin_pending_debt \in Int /\ r.margin_position \in Int
      /\ r.lostfound_shares \in Int
  BY DEF AssetType
<1> HIDE DEF r
<1>4. /\ Over(c, r) \in AssetType
      /\ Over(c, r).supplied = r.supplied /\ Over(c, r).borrowed = r.borrowed
      /\ Over(c, r).lostfound_shares = r.lostfound_shares
      /\ \A f \in Checked : Over(c, r)[f] = c[f]
  BY <1>1, <1>2, <1>3, Configured
<1> DEFINE o == Over(c, r)
<1>5. Valid(c) => Valid(o)
  <2>1. \A f \in Checked : o[f] = c[f]
    BY <1>4
  <2> HIDE DEF o
  <2> QED BY <2>1, CheckedOnly
<1> QED BY <1>4, <1>5 DEF SettingsOnly, r

\* A new asset starts with nothing, and nobody has shares of it.
LEMMA AddAssetKeeps ==
  ASSUME Inv, NEW p, NEW c \in Configs, AddAsset(p, c),
         UNCHANGED <<accountVars, transfers, cash>>
  PROVE  Inv'
<1>1. /\ asset = NoAsset /\ asset' = Over(c, Listed) /\ owner' = owner /\ transfers' = transfers
      /\ UNCHANGED <<account, entries, margin, storage>>
  BY DEF AddAsset, OnlyAsset, accountVars
<1>2. c \in ConfigType
  BY AssetAssumption
<1> DEFINE r == Listed
           saved == Over(c, r)
<1>3. DOMAIN r = BookFields \cup {"beneficiaries", "net_tvl_multiplier", "max_change_rate",
                  "supplied_limit", "borrowed_limit", "holding_position_fee_rate",
                  "min_borrowed_amount"}
  BY DEF Listed, Over, NewFields, BookFields
<1>4. DOMAIN c \cup DOMAIN r = ConfigFields \cup BookFields
  <2>1. DOMAIN c = ConfigFields
    BY <1>2 DEF ConfigType, ConfigFields
  <2> HIDE DEF r
  <2> QED BY <1>3, <2>1 DEF ConfigFields
<1>5. /\ r.version = "Current" /\ r.beneficiary_fees = <<>>
      /\ r.supplied = 0 /\ r.borrowed = 0 /\ r.reserved = 0 /\ r.prot_fee = 0
      /\ r.margin_debt = 0 /\ r.margin_pending_debt = 0 /\ r.margin_position = 0
      /\ r.lostfound_shares = 0
  BY DEF Listed, Over, NewFields
<1> HIDE DEF r
<1>6. /\ saved \in AssetType
      /\ saved.supplied = 0 /\ saved.borrowed = 0 /\ saved.lostfound_shares = 0
  BY <1>2, <1>4, <1>5, Configured
<1>7. asset' = saved
  BY <1>1 DEF r
<1> HIDE DEF saved
<1>8. Asset' = saved /\ asset' # NoAsset
  BY <1>6, <1>7, SavedAsset
<1>9. RecordsKept'
  <2>1. \A a \in Accounts : Footprint(a)' = Footprint(a)
    BY <1>1 DEF Footprint
  <2> QED BY <1>1, <2>1 DEF Inv, RecordsKept, RecordTypes, Linked, BytesAddUp, Positioned
<1>10. /\ HeldBy(account, "supplied") = 0 /\ HeldBy(account, "collateral") = 0
       /\ HeldBy(account, "borrowed") = 0 /\ HeldBy(margin, "supplied") = 0
  <2>1. \A b \in Accounts : /\ Share(account, "supplied", b) = 0
                            /\ Share(account, "collateral", b) = 0
                            /\ Share(account, "borrowed", b) = 0
                            /\ Share(margin, "supplied", b) = 0
    BY <1>1 DEF Inv, Unlisted, Share
  <2> QED BY <2>1, HeldNothing
<1>11. SharesOfAccounts'
  <2>1. /\ HeldBy(account', "supplied") = 0 /\ HeldBy(account', "collateral") = 0
        /\ HeldBy(account', "borrowed") = 0 /\ HeldBy(margin', "supplied") = 0
    BY <1>1, <1>10
  <2> QED BY <1>6, <1>8, <2>1 DEF SharesOfAccounts
<1>12. OthersTyped' /\ Unlisted'
  BY <1>1, <1>6, <1>8 DEF Inv, OthersTyped, Unlisted
<1> QED BY <1>9, <1>11, <1>12 DEF Inv

\* Limits that are set are checked with those that stay.
LEMMA UpdateAssetLimitSets ==
  ASSUME Asset \in AssetType, NEW p, NEW supplied \in Amounts \cup {None},
         NEW borrowed \in Amounts \cup {None}, NEW least \in Amounts \cup {None},
         UpdateAssetLimit(p, supplied, borrowed, least)
  PROVE  SettingsOnly(asset') /\ Valid(asset')
<1> DEFINE Or(new, old) == IF new = None THEN old ELSE new
           s == Or(supplied, Asset.supplied_limit)
           b == Or(borrowed, Asset.borrowed_limit)
           m == Or(least, Asset.min_borrowed_amount)
           saved == [Asset EXCEPT !.supplied_limit = s, !.borrowed_limit = b,
                                  !.min_borrowed_amount = m]
<1>1. asset' = saved /\ Valid(saved)
  BY DEF UpdateAssetLimit
<1>2. s \in Nat \cup {None} /\ b \in Nat \cup {None} /\ m \in Nat \cup {None}
  <2>1. /\ Asset.supplied_limit \in Nat \cup {None} /\ Asset.borrowed_limit \in Nat \cup {None}
        /\ Asset.min_borrowed_amount \in Nat \cup {None}
    BY DEF AssetType
  <2> QED BY <2>1, BoundAssumption
<1> HIDE DEF s, b, m
<1>3. SettingsOnly(saved)
  BY <1>2 DEF SettingsOnly, AssetType
<1> HIDE DEF saved
<1> QED BY <1>1, <1>3

\* The multiplier is checked by itself, which is enough.
LEMMA UpdateNetTvlMultiplierSets ==
  ASSUME Asset \in AssetType, NEW p, NEW m \in Amounts, UpdateNetTvlMultiplier(p, m)
  PROVE  SettingsOnly(asset') /\ (Valid(Asset) => Valid(asset'))
<1>1. asset' = [Asset EXCEPT !.net_tvl_multiplier = m] /\ m <= MaxRatio /\ m \in Nat
  BY BoundAssumption DEF UpdateNetTvlMultiplier
<1>2. SettingsOnly(asset')
  BY <1>1 DEF SettingsOnly, AssetType
<1>3. Valid(Asset) => Valid(asset')
  <2> DEFINE saved == asset'
  <2>1. /\ \A f \in Checked \ {"net_tvl_multiplier"} : saved[f] = Asset[f]
        /\ saved.net_tvl_multiplier = m
    BY <1>1, FieldsOfAsset, FieldsOfRecords
  <2> HIDE DEF saved
  <2>2. Valid(Asset) => Valid(saved)
    BY <1>1, <2>1 DEF Valid, Checked
  <2> QED BY <2>2 DEF saved
<1> QED BY <1>2, <1>3

\* So is the fee for holding a position.
LEMMA UpdateHoldingFeeSets ==
  ASSUME Asset \in AssetType, NEW p, NEW rate \in Rates, UpdateHoldingPositionFeeRate(p, rate)
  PROVE  SettingsOnly(asset') /\ (Valid(Asset) => Valid(asset'))
<1>1. asset' = [Asset EXCEPT !.holding_position_fee_rate = rate] /\ Divisor <= rate /\ rate \in Nat
  BY BoundAssumption DEF UpdateHoldingPositionFeeRate
<1>2. SettingsOnly(asset')
  BY <1>1 DEF SettingsOnly, AssetType
<1>3. Valid(Asset) => Valid(asset')
  <2> DEFINE saved == asset'
  <2>1. /\ \A f \in Checked \ {"holding_position_fee_rate"} : saved[f] = Asset[f]
        /\ saved.holding_position_fee_rate = rate
    BY <1>1, FieldsOfAsset, FieldsOfRecords DEF ConfigFields
  <2> HIDE DEF saved
  <2>2. Valid(Asset) => Valid(saved)
    BY <1>1, <2>1 DEF Valid, Checked
  <2> QED BY <2>2 DEF saved
<1> QED BY <1>2, <1>3

\* And by how much a price may change.
LEMMA UpdateMaxChangeSets ==
  ASSUME Asset \in AssetType, NEW p, NEW m \in Rates \cup {None}, UpdateMaxChangeRate(p, m)
  PROVE  SettingsOnly(asset') /\ (Valid(Asset) => Valid(asset'))
<1>1. /\ asset' = [Asset EXCEPT !.max_change_rate = m]
      /\ m # None => m <= MaxRatio
      /\ m \in Nat \cup {None}
  BY BoundAssumption DEF UpdateMaxChangeRate
<1>2. SettingsOnly(asset')
  BY <1>1 DEF SettingsOnly, AssetType
<1>3. Valid(Asset) => Valid(asset')
  <2> DEFINE saved == asset'
  <2>1. /\ \A f \in Checked \ {"max_change_rate"} : saved[f] = Asset[f]
        /\ saved.max_change_rate = m
    BY <1>1, FieldsOfAsset, FieldsOfRecords DEF ConfigFields
  <2> HIDE DEF saved
  <2>2. Valid(Asset) => Valid(saved)
    BY <1>1, <2>1 DEF Valid, Checked
  <2> QED BY <2>2 DEF saved
<1> QED BY <1>2, <1>3

\* What an asset can be used for has no part in its validity.
LEMMA CapacitySets ==
  ASSUME Asset \in AssetType, NEW p, NEW capacity \in Capacities,
         EnableCapacity(p, capacity) \/ DisableCapacity(p, capacity)
  PROVE  SettingsOnly(asset') /\ (Valid(Asset) => Valid(asset'))
<1>1. PICK can \in BOOLEAN : asset' = [Asset EXCEPT ![capacity] = can]
  BY DEF EnableCapacity, DisableCapacity
<1>2. \/ asset' = [Asset EXCEPT !.can_deposit = can]
      \/ asset' = [Asset EXCEPT !.can_withdraw = can]
      \/ asset' = [Asset EXCEPT !.can_use_as_collateral = can]
      \/ asset' = [Asset EXCEPT !.can_borrow = can]
  BY <1>1 DEF Capacities
<1>3. SettingsOnly(asset')
  <2>1. CASE asset' = [Asset EXCEPT !.can_deposit = can]
    BY <2>1 DEF SettingsOnly, AssetType
  <2>2. CASE asset' = [Asset EXCEPT !.can_withdraw = can]
    BY <2>2 DEF SettingsOnly, AssetType
  <2>3. CASE asset' = [Asset EXCEPT !.can_use_as_collateral = can]
    BY <2>3 DEF SettingsOnly, AssetType
  <2>4. CASE asset' = [Asset EXCEPT !.can_borrow = can]
    BY <2>4 DEF SettingsOnly, AssetType
  <2> QED BY <1>2, <2>1, <2>2, <2>3, <2>4
<1>4. Valid(Asset) => Valid(asset')
  <2> DEFINE saved == asset'
  <2>1. \A f \in Checked : saved[f] = Asset[f]
    BY <1>2, FieldsOfAsset, FieldsOfRecords DEF Checked
  <2> HIDE DEF saved
  <2>2. Valid(Asset) => Valid(saved)
    BY <2>1, CheckedOnly
  <2> QED BY <2>2 DEF saved
<1> QED BY <1>3, <1>4

\* The parts of beneficiaries, whose domain is finite.
LEMMA PartsOf ==
  ASSUME NEW f \in Parts
  PROVE  /\ DOMAIN f \subseteq Beneficiaries /\ IsFiniteSet(DOMAIN f)
         /\ f \in [DOMAIN f -> 0..MaxRatio]
         /\ SumFunction(f) = SumFunctionOnSet(f, DOMAIN f)
<1>1. PICK D \in SUBSET Beneficiaries : f \in [D -> 0..MaxRatio]
  BY DEF Parts
<1>2. DOMAIN f = D
  BY <1>1
<1>3. IsFiniteSet(D)
  BY <1>1, BoundAssumption, FS_Subset
<1> QED BY <1>1, <1>2, <1>3 DEF SumFunction

\* A beneficiary's part is checked with the others'.
LEMMA UpsertBeneficiarySets ==
  ASSUME Asset \in AssetType, NEW p, NEW b \in Beneficiaries, NEW bps \in Shares,
         UpsertBeneficiary(p, b, bps)
  PROVE  SettingsOnly(asset') /\ Valid(asset')
<1> DEFINE f == Asset.beneficiaries
           new == Over([x \in {b} |-> bps], f)
           saved == [Asset EXCEPT !.beneficiaries = new]
           D == {b} \cup DOMAIN f
<1>1. asset' = saved /\ Valid(saved)
  BY DEF UpsertBeneficiary
<1>2. f \in Parts
  BY DEF AssetType
<1>3. /\ DOMAIN f \subseteq Beneficiaries /\ f \in [DOMAIN f -> 0..MaxRatio]
      /\ bps \in Nat /\ MaxRatio \in Nat
  BY <1>2, PartsOf, BoundAssumption, NumberAssumption
<1>4. saved.beneficiaries = new
  BY DEF AssetType
<1> HIDE DEF f
<1>5. new = [x \in D |-> IF x = b THEN bps ELSE f[x]]
  BY DEF Over
<1> HIDE DEF new
<1>6. DOMAIN new = D /\ \A x \in D : new[x] = IF x = b THEN bps ELSE f[x]
  BY <1>5
<1>7. IsFiniteSet(D)
  BY <1>3, BoundAssumption, FS_Subset
<1>8. \A x \in D : new[x] \in Nat
  BY <1>3, <1>6
<1>9. SumFunctionOnSet(new, D) \in Nat /\ bps <= SumFunctionOnSet(new, D)
  <2>1. b \in D /\ new[b] = bps
    BY <1>6
  <2> HIDE DEF D
  <2> QED BY <1>7, <1>8, <2>1, SumType, SumBound
<1>10. bps \in 0..MaxRatio
  <2>1. SumFunction(new) <= MaxRatio
    BY <1>1, <1>4 DEF Valid
  <2>2. SumFunction(new) = SumFunctionOnSet(new, D)
    BY <1>6 DEF SumFunction
  <2> QED BY <1>3, <1>9, <2>1, <2>2
<1>11. new \in Parts
  <2>1. new \in [D -> 0..MaxRatio]
    BY <1>3, <1>5, <1>10
  <2>2. D \in SUBSET Beneficiaries
    BY <1>3
  <2> HIDE DEF D
  <2> QED BY <2>1, <2>2 DEF Parts
<1>12. SettingsOnly(saved)
  BY <1>11 DEF SettingsOnly, AssetType
<1> HIDE DEF saved
<1> QED BY <1>1, <1>12

\* Without one of them the others' parts add up to no more than before, so that
\* nothing need be checked.
LEMMA RemoveBeneficiarySets ==
  ASSUME Asset \in AssetType, NEW p, NEW b \in Beneficiaries, RemoveBeneficiary(p, b)
  PROVE  SettingsOnly(asset') /\ (Valid(Asset) => Valid(asset'))
<1> DEFINE f == Asset.beneficiaries
           D == DOMAIN f \ {b}
           new == [x \in D |-> f[x]]
           saved == [Asset EXCEPT !.beneficiaries = new]
<1>1. asset' = saved /\ b \in DOMAIN f
  BY DEF RemoveBeneficiary, Restrict
<1>2. f \in Parts
  BY DEF AssetType
<1>3. /\ DOMAIN f \subseteq Beneficiaries /\ f \in [DOMAIN f -> 0..MaxRatio] /\ IsFiniteSet(DOMAIN f)
      /\ SumFunction(f) = SumFunctionOnSet(f, DOMAIN f) /\ MaxRatio \in Nat
  BY <1>2, PartsOf, NumberAssumption
<1>4. /\ saved.beneficiaries = new
      /\ \A x \in Checked \ {"beneficiaries"} : saved[x] = Asset[x]
  <2> HIDE DEF new
  <2> QED BY FieldsOfAsset, FieldsOfRecords DEF ConfigFields
<1>5. new \in Parts
  <2> HIDE DEF f
  <2>1. new \in [D -> 0..MaxRatio] /\ D \in SUBSET Beneficiaries
    BY <1>3
  <2> HIDE DEF D, new
  <2> QED BY <2>1 DEF Parts
<1>6. SettingsOnly(saved)
  <2> HIDE DEF new
  <2> QED BY <1>5 DEF SettingsOnly, AssetType
<1>7. SumFunction(new) <= SumFunction(f)
  <2> HIDE DEF f
  <2>1. IsFiniteSet(D) /\ \A x \in D : f[x] \in Nat
    BY <1>3, FS_Subset
  <2>2. SumFunctionOnSet(f, DOMAIN f) = f[b] + SumFunctionOnSet(f, D)
    <3> DEFINE S == DOMAIN f
    <3>1. IsFiniteSet(S) /\ b \in S /\ \A x \in S : f[x] \in Nat
      BY <1>1, <1>3
    <3> HIDE DEF S
    <3>2. SumFunctionOnSet(f, S) = f[b] + SumFunctionOnSet(f, S \ {b})
      BY <3>1, SumRemove
    <3> QED BY <3>2 DEF S
  <2>3. SumFunction(new) = SumFunctionOnSet(new, D)
    BY DEF SumFunction
  <2>4. SumFunctionOnSet(new, D) = SumFunctionOnSet(f, D)
    <3>1. \A x \in D : new[x] = f[x]
      OBVIOUS
    <3> HIDE DEF D, new
    <3> QED BY <2>1, <3>1, SumSame
  <2>5. SumFunctionOnSet(f, D) \in Nat /\ f[b] \in Nat
    <3>1. f[b] \in Nat
      BY <1>1, <1>3
    <3> HIDE DEF D
    <3> QED BY <2>1, <3>1, SumType
  <2> QED BY <1>3, <2>2, <2>3, <2>4, <2>5
<1>8. SumFunction(f) \in Nat /\ SumFunction(new) \in Nat
  <2>1. \A g \in Parts : SumFunction(g) \in Nat
    <3> TAKE g \in Parts
    <3>1. /\ IsFiniteSet(DOMAIN g) /\ g \in [DOMAIN g -> 0..MaxRatio]
          /\ SumFunction(g) = SumFunctionOnSet(g, DOMAIN g)
      BY PartsOf
    <3>2. \A x \in DOMAIN g : g[x] \in Nat
      BY <1>3, <3>1
    <3> QED BY <3>1, <3>2, SumType
  <2> HIDE DEF f, new
  <2> QED BY <1>2, <1>5, <2>1
<1>9. Cardinality(DOMAIN new) \in Nat /\ Cardinality(DOMAIN f) \in Nat
      /\ Cardinality(DOMAIN new) <= Cardinality(DOMAIN f)
  <2>1. DOMAIN new = D /\ D \subseteq DOMAIN f
    OBVIOUS
  <2> HIDE DEF f, D, new
  <2> QED BY <1>3, <2>1, FS_Subset, FS_CardinalityType
<1>10. Valid(Asset) => Valid(saved)
  <2>1. SumFunction(f) <= MaxRatio => SumFunction(new) <= MaxRatio
    <3> HIDE DEF f, new
    <3> QED BY <1>3, <1>7, <1>8
  <2>2. Cardinality(DOMAIN f) <= MaxBeneficiaries
           => Cardinality(DOMAIN new) <= MaxBeneficiaries
    <3> HIDE DEF f, new
    <3> QED BY <1>9, NumberAssumption
  <2> HIDE DEF saved, new
  <2> QED BY <1>4, <2>1, <2>2 DEF Valid, Checked
<1> HIDE DEF saved
<1> QED BY <1>1, <1>6, <1>10

\* A change of settings leaves the books and the records.
LEMMA SettingsKeep ==
  ASSUME Inv, asset # NoAsset, SettingsOnly(asset'), owner' = owner,
         UNCHANGED <<accountVars, transfers, cash>>
  PROVE  Inv'
<1> DEFINE saved == asset'
<1>1. /\ asset' = saved /\ saved \in AssetType
      /\ saved.supplied = Asset.supplied /\ saved.borrowed = Asset.borrowed
      /\ saved.lostfound_shares = Asset.lostfound_shares
      /\ UNCHANGED <<account, entries, margin, storage>>
  BY DEF SettingsOnly, accountVars
<1> HIDE DEF saved
<1>2. owner' \in Accounts /\ \A t \in transfers' : t.to \in Accounts /\ t.amount \in Nat
  BY Listing
<1> QED BY <1>1, <1>2, RecordsUntouched

\* A setter of the asset changes its settings only, and keeps them valid.
LEMMA Setters ==
  ASSUME Inv, NEW p, Administers(p), ~\E c \in Configs : AddAsset(p, c)
  PROVE  /\ owner' = owner
         /\ \/ asset' = asset
            \/ /\ asset # NoAsset /\ SettingsOnly(asset')
               /\ Valid(Asset) => Valid(asset')
<1>1. asset # NoAsset => Asset \in AssetType
  BY Listing
<1>2. CASE \E g \in Guards : ExtendGuardians(p, g) \/ RemoveGuardian(p, g)
  BY <1>2 DEF ExtendGuardians, RemoveGuardian
<1>3. CASE \E c \in Configs : UpdateAsset(p, c)
  <2>1. PICK c \in Configs : UpdateAsset(p, c)
    BY <1>3
  <2>2. /\ asset # NoAsset /\ Valid(c) /\ asset' = Over(c, Asset) /\ owner' = owner
    BY <2>1 DEF UpdateAsset, OnlyAsset
  <2> QED BY <1>1, <2>2, UpdateAssetSets
<1>4. CASE \E s, b, m \in Amounts \cup {None} : UpdateAssetLimit(p, s, b, m)
  <2>1. PICK s \in Amounts \cup {None}, b \in Amounts \cup {None}, m \in Amounts \cup {None} :
            UpdateAssetLimit(p, s, b, m)
    BY <1>4
  <2>2. asset # NoAsset /\ owner' = owner
    BY <2>1 DEF UpdateAssetLimit, OnlyAsset
  <2> QED BY <1>1, <2>1, <2>2, UpdateAssetLimitSets
<1>5. CASE \E m \in Amounts : UpdateNetTvlMultiplier(p, m)
  <2>1. PICK m \in Amounts : UpdateNetTvlMultiplier(p, m)
    BY <1>5
  <2>2. asset # NoAsset /\ owner' = owner
    BY <2>1 DEF UpdateNetTvlMultiplier, OnlyAsset
  <2> QED BY <1>1, <2>1, <2>2, UpdateNetTvlMultiplierSets
<1>6. CASE \E c \in Capacities : EnableCapacity(p, c) \/ DisableCapacity(p, c)
  <2>1. PICK c \in Capacities : EnableCapacity(p, c) \/ DisableCapacity(p, c)
    BY <1>6
  <2>2. asset # NoAsset /\ owner' = owner
    BY <2>1 DEF EnableCapacity, DisableCapacity, OnlyAsset
  <2> QED BY <1>1, <2>1, <2>2, CapacitySets
<1>10. CASE \E rate \in Rates : UpdateHoldingPositionFeeRate(p, rate)
  <2>1. PICK rate \in Rates : UpdateHoldingPositionFeeRate(p, rate)
    BY <1>10
  <2>2. asset # NoAsset /\ owner' = owner
    BY <2>1 DEF UpdateHoldingPositionFeeRate, OnlyAsset
  <2> QED BY <1>1, <2>1, <2>2, UpdateHoldingFeeSets
<1>11. CASE \E m \in Rates \cup {None} : UpdateMaxChangeRate(p, m)
  <2>1. PICK m \in Rates \cup {None} : UpdateMaxChangeRate(p, m)
    BY <1>11
  <2>2. asset # NoAsset /\ owner' = owner
    BY <2>1 DEF UpdateMaxChangeRate, OnlyAsset
  <2> QED BY <1>1, <2>1, <2>2, UpdateMaxChangeSets
<1>7. CASE \E b \in Beneficiaries, bps \in Shares : UpsertBeneficiary(p, b, bps)
  <2>1. PICK b \in Beneficiaries, bps \in Shares : UpsertBeneficiary(p, b, bps)
    BY <1>7
  <2>2. asset # NoAsset /\ owner' = owner
    BY <2>1 DEF UpsertBeneficiary, OnlyAsset
  <2> QED BY <1>1, <2>1, <2>2, UpsertBeneficiarySets
<1>8. CASE \E b \in Beneficiaries : RemoveBeneficiary(p, b)
  <2>1. PICK b \in Beneficiaries : RemoveBeneficiary(p, b)
    BY <1>8
  <2>2. asset # NoAsset /\ owner' = owner
    BY <2>1 DEF RemoveBeneficiary, OnlyAsset
  <2> QED BY <1>1, <2>1, <2>2, RemoveBeneficiarySets
<1>9. CASE \/ \E c \in RuleChanges : UpdateRule(p, c[1], c[2])
           \/ \E x, y \in Shares : UpdateBenefits(p, x, y)
           \/ \E l \in Limits : SetLimit(p, l)
           \/ RemoveLimit(p)
           \/ \E r \in Ranges : SetRange(p, r)
           \/ RemoveRange(p)
  BY <1>9 DEF UpdateRule, UpdateBenefits, SetLimit, RemoveLimit, SetRange, RemoveRange
<1> QED BY <1>2, <1>3, <1>4, <1>5, <1>6, <1>7, <1>8, <1>9, <1>10, <1>11
     DEF Administers

\* Each act of administration keeps the invariant.
LEMMA AdministersKeeps ==
  ASSUME Inv, NEW p, Administers(p), UNCHANGED <<accountVars, transfers, cash>>
  PROVE  Inv'
<1>1. CASE \E c \in Configs : AddAsset(p, c)
  BY <1>1, AddAssetKeeps
<1>2. CASE ~\E c \in Configs : AddAsset(p, c)
  <2>1. /\ owner' = owner
        /\ \/ asset' = asset
           \/ asset # NoAsset /\ SettingsOnly(asset')
    BY <1>2, Setters
  <2>2. CASE asset' = asset
    <3>1. /\ UNCHANGED <<account, entries, margin, storage>> /\ transfers' = transfers
          /\ owner' \in Accounts
          /\ \A t \in transfers' : t.to \in Accounts /\ t.amount \in Nat
      BY <2>1 DEF accountVars, Inv, OthersTyped
    <3> QED BY <2>2, <3>1, RecordsUntouched
  <2>3. CASE asset # NoAsset /\ SettingsOnly(asset')
    BY <2>1, <2>3, SettingsKeep
  <2> QED BY <2>1, <2>2, <2>3
<1> QED BY <1>1, <1>2

-----------------------------------------------------------------------------
\* The invariant.

\* So does each call of an account.
LEMMA ByAccountKeeps ==
  ASSUME Inv, NEW a \in Accounts, ByAccount(a)
  PROVE  Inv'
<1>1. CASE \E x \in MinStorage..MaxBalance, only \in BOOLEAN : StorageDeposit(a, x, only)
  <2>1. PICK x \in MinStorage..MaxBalance, only \in BOOLEAN : StorageDeposit(a, x, only)
    BY <1>1
  <2>2. x \in Nat
    BY RegistryNumbers
  <2> QED BY <2>1, <2>2, StorageDepositKeeps
<1>2. CASE \E x \in 1..MaxBalance : StorageDeposit(a, x, FALSE) \/ StorageWithdraw(a, x)
  <2>1. PICK x \in 1..MaxBalance : StorageDeposit(a, x, FALSE) \/ StorageWithdraw(a, x)
    BY <1>2
  <2>2. x \in Nat
    BY RegistryNumbers
  <2> QED BY <2>1, <2>2, StorageDepositKeeps, StorageWithdrawKeeps
<1>3. CASE StorageUnregister(a) \/ ClaimFarms(a)
  BY <1>3, StorageUnregisterKeeps, ClaimFarmsKeeps
<1>4. ASSUME NEW x \in Moves,
             \/ Deposit(a, x) \/ DepositToMargin(a, x)
             \/ Withdraw(a, x) \/ MarginWithdraw(a, x)
             \/ IncreaseCollateral(a, x) \/ DecreaseCollateral(a, x)
             \/ Borrow(a, x) \/ Repay(a, x)
      PROVE  Inv'
  <2>1. x \in Nat
    BY RegistryNumbers DEF Moves
  <2> QED BY <1>4, <2>1, DepositKeeps, DepositToMarginKeeps, WithdrawKeeps, MarginWithdrawKeeps,
             IncreaseCollateralKeeps, DecreaseCollateralKeeps, BorrowKeeps, RepayKeeps
<1> QED BY <1>1, <1>2, <1>3, <1>4 DEF ByAccount

\* So does each act of the owner or a guardian on accounts and funds.
LEMMA GovernsKeeps ==
  ASSUME Inv, NEW p, Governs(p)
  PROVE  Inv'
<1>1. ASSUME NEW a \in Accounts, SetOwner(p, a) \/ Blacklist(p, a) \/ Unblacklist(p, a)
      PROVE  Inv'
  BY <1>1, SetOwnerKeeps, BlacklistingKeeps
<1>2. \A x \in Moves : x \in Nat
  BY RegistryNumbers DEF Moves
<1>3. ASSUME NEW x \in Moves, ClaimProtFee(p, x) \/ DecreaseReserved(p, x) \/ IncreaseReserved(p, x)
      PROVE  Inv'
  <2>1. PayOwner(p, "prot_fee", x) \/ PayOwner(p, "reserved", x) \/ IncreaseReserved(p, x)
    BY <1>3 DEF ClaimProtFee, DecreaseReserved
  <2> QED BY <1>2, <2>1, PayOwnerKeeps, IncreaseReservedKeeps
<1>4. ASSUME NEW a \in Accounts, NEW x \in Moves, ReturnLostFound(p, a, x)
      PROVE  Inv'
  BY <1>2, <1>4, ReturnLostFoundKeeps
<1> QED BY <1>1, <1>3, <1>4 DEF Governs

\* Nothing happens: nothing changes.
LEMMA StutterKeeps ==
  ASSUME Inv, UNCHANGED vars
  PROVE  Inv'
<1>1. /\ UNCHANGED <<account, entries, margin, storage>> /\ owner' = owner /\ asset' = asset
      /\ transfers' = transfers
  BY DEF vars, adminVars
<1>2. owner' \in Accounts /\ \A u \in transfers' : u.to \in Accounts /\ u.amount \in Nat
  BY <1>1 DEF Inv, OthersTyped
<1> QED BY <1>1, <1>2, RecordsUntouched

\* So does every step.
LEMMA NextKeeps ==
  ASSUME Inv, [Next]_vars
  PROVE  Inv'
<1>1. CASE \E a \in Users : ByAccount(a)
  BY <1>1, RegistrySets, ByAccountKeeps
<1>2. CASE \E x \in Moves : DepositToReserve(x)
  <2>1. \A x \in Moves : x \in Nat
    BY RegistryNumbers DEF Moves
  <2> QED BY <1>2, <2>1, DepositToReserveKeeps
<1>3. CASE Results
  BY <1>3, TransferSucceedsKeeps, TransferFailsKeeps DEF Results
<1>4. CASE Governed
  <2>1. PICK p : Governs(p) \/ (Administers(p) /\ UNCHANGED <<accountVars, transfers, cash>>)
    BY <1>4 DEF Governed
  <2> QED BY <2>1, GovernsKeeps, AdministersKeeps
<1>5. CASE UNCHANGED vars
  BY <1>5, StutterKeeps
<1> QED BY <1>1, <1>2, <1>3, <1>4, <1>5 DEF Next

\* Where nothing is held, nobody holds anything.
LEMMA NothingHeld ==
  ASSUME NEW records, NEW pool, HeldBy(records, pool) = 0,
         \A b \in Accounts : Share(records, pool, b) \in Nat
  PROVE  \A b \in Accounts : Share(records, pool, b) = 0
<1> TAKE b \in Accounts
<1> DEFINE f == [x \in Accounts |-> Share(records, pool, x)]
<1>1. (\A x \in Accounts : f[x] \in Nat) /\ f[b] = Share(records, pool, b)
  OBVIOUS
<1>2. SumFunctionOnSet(f, Accounts) = 0
  BY HeldIsSum
<1> HIDE DEF f
<1>3. f[b] <= SumFunctionOnSet(f, Accounts)
  BY <1>1, SumBound, RegistrySets
<1> QED BY <1>1, <1>2, <1>3

\* What an earlier version leaves behind is in order.
LEMMA InitKeeps ==
  ASSUME Init
  PROVE  Inv
<1>1. PICK start \in Starts :
        /\ AdminInit(start.asset)
        /\ account = start.account
        /\ entries = start.entries
        /\ margin = start.margin
        /\ storage = [a \in Accounts |->
              IF start.account[a] = NoRecord
              THEN NoStorage
              ELSE LET used == StorageBytes + Bytes(start.account[a]) + MarginBytes(start.margin[a])
                                  + EntryBytes * Cardinality(start.entries[a])
                   IN  [balance |-> IF used > MinStorage THEN used ELSE MinStorage,
                        used |-> used]]
        /\ transfers = {}
  BY DEF Init
<1>2. LeftBehind(start)
  BY StartAssumption
<1> DEFINE used(a) == StorageBytes + Bytes(account[a]) + MarginBytes(margin[a])
                         + EntryBytes * Cardinality(entries[a])
<1>3. \A a \in Accounts :
          storage[a] = IF account[a] = NoRecord
                       THEN NoStorage
                       ELSE [balance |-> IF used(a) > MinStorage THEN used(a) ELSE MinStorage,
                             used |-> used(a)]
  BY <1>1
<1>4. \A a \in Accounts :
        /\ account[a] \in AccountType \cup {NoRecord} /\ margin[a] \in MarginType \cup {NoRecord}
        /\ entries[a] \in SUBSET {"supplied", "farms"}
        /\ IF account[a] = NoRecord
           THEN margin[a] = NoRecord /\ entries[a] = {}
           ELSE PledgesInPosition(account[a])
  BY <1>1, <1>2 DEF LeftBehind
<1>5. ASSUME NEW a \in Accounts
      PROVE  KeptOf(a)
  <2> DEFINE x == Bytes(account[a])
             y == MarginBytes(margin[a])
             z == EntryBytes * Cardinality(entries[a])
             n == StorageBytes + x + y + z
             balance == IF n > MinStorage THEN n ELSE MinStorage
  <2>1. x \in Nat /\ y \in Nat /\ z \in Nat /\ StorageBytes \in Nat /\ MinStorage \in Nat
    BY <1>4, BytesType, MarginBytesType, EntriesType, RegistryNumbers
  <2>2. storage[a] = IF account[a] = NoRecord THEN NoStorage ELSE [balance |-> balance, used |-> n]
    BY <1>3
  <2>3. Footprint(a) = x + y + z + IF storage[a] = NoStorage THEN 0 ELSE StorageBytes
    BY DEF Footprint
  <2>4. CASE account[a] = NoRecord
    <3>1. storage[a] = NoStorage
      BY <2>2, <2>4
    <3>2. x = 0 /\ y = 0 /\ z = 0
      BY <1>4, <2>4, BytesType, MarginBytesType, EntriesType
    <3> HIDE DEF x, y, z, n, balance
    <3>3. Footprint(a) = 0
      BY <2>3, <3>1, <3>2
    <3> QED BY <1>4, <2>4, <3>1, <3>3 DEF KeptOf
  <2>5. CASE account[a] # NoRecord
    <3> HIDE DEF x, y, z
    <3>1. n \in Nat /\ balance \in Nat
      BY <2>1
    <3>2. n = x + y + z + StorageBytes
      BY <2>1
    <3> HIDE DEF n, balance
    <3>3. storage[a] = [balance |-> balance, used |-> n]
      BY <2>2, <2>5
    <3>4. storage[a] \in StorageType /\ storage[a].used = n
      BY <3>1, <3>3 DEF StorageType
    <3>5. storage[a] # NoStorage
      BY <3>4, RegistryMarks
    <3>6. Footprint(a) = n
      BY <2>3, <3>2, <3>5
    <3> QED BY <1>4, <2>5, <3>4, <3>5, <3>6 DEF KeptOf
  <2> QED BY <2>4, <2>5
<1>6. RecordTypes
  <2>1. /\ account \in [Accounts -> AccountType \cup {NoRecord}]
        /\ margin \in [Accounts -> MarginType \cup {NoRecord}]
        /\ entries \in [Accounts -> SUBSET {"supplied", "farms"}]
    BY <1>1, <1>2 DEF LeftBehind
  <2>2. storage = [a \in Accounts |-> storage[a]]
    BY <1>1
  <2>3. \A a \in Accounts : storage[a] \in StorageType \cup {NoStorage}
    BY <1>5 DEF KeptOf
  <2>4. storage \in [Accounts -> StorageType \cup {NoStorage}]
    BY <2>2, <2>3
  <2> QED BY <2>1, <2>4 DEF RecordTypes
<1>7. RecordsKept
  BY <1>5, <1>6 DEF RecordsKept, Linked, BytesAddUp, Positioned, KeptOf
<1>8. OthersTyped
  <2>1. owner \in Accounts /\ transfers = {} /\ asset = start.asset
    BY <1>1, OwnerAssumption DEF AdminInit
  <2>2. asset = NoAsset \/ Asset \in AssetType
    BY <1>2, <2>1 DEF LeftBehind, Asset
  <2> QED BY <2>1, <2>2 DEF OthersTyped
<1> DEFINE kept == IF asset = NoAsset THEN NewFields ELSE Asset
<1>9. /\ kept.supplied = HeldBy(account, "supplied") + HeldBy(account, "collateral")
                           + HeldBy(margin, "supplied") + kept.lostfound_shares
      /\ kept.borrowed = HeldBy(account, "borrowed")
  BY <1>1, <1>2 DEF LeftBehind, AdminInit, Asset
<1>10. SharesOfAccounts
  BY <1>9 DEF SharesOfAccounts
<1>11. Unlisted
  <2> SUFFICES ASSUME asset = NoAsset
               PROVE  Unlisted
    BY DEF Unlisted
  <2> DEFINE s == HeldBy(account, "supplied")
             c == HeldBy(account, "collateral")
             b == HeldBy(account, "borrowed")
             m == HeldBy(margin, "supplied")
  <2>1. s \in Nat /\ c \in Nat /\ b \in Nat /\ m \in Nat
    BY <1>6, HeldTypes DEF AccountPools
  <2>2. 0 = s + c + m + 0 /\ 0 = b
    BY <1>9 DEF NewFields
  <2>3. s = 0 /\ c = 0 /\ b = 0 /\ m = 0
    <3> HIDE DEF s, c, b, m
    <3> QED BY <2>1, <2>2
  <2>4. \A x \in Accounts : /\ \A pool \in AccountPools : Share(account, pool, x) \in Nat
                            /\ Share(margin, "supplied", x) \in Nat
    BY <1>6, ShareType
  <2>5. \A x \in Accounts : /\ Share(account, "supplied", x) = 0
                            /\ Share(account, "collateral", x) = 0
                            /\ Share(account, "borrowed", x) = 0
                            /\ Share(margin, "supplied", x) = 0
    BY <2>3, <2>4, NothingHeld DEF AccountPools
  <2>6. \A x \in Accounts :
          /\ account[x] # NoRecord =>
                account[x].supplied = 0 /\ account[x].collateral = 0 /\ account[x].borrowed = 0
          /\ margin[x] # NoRecord => margin[x].supplied = 0
    BY <2>5 DEF Share
  <2> QED BY <1>1, <2>6 DEF Unlisted
<1> QED BY <1>7, <1>8, <1>10, <1>11 DEF Inv

\* The invariant holds of every state that is reached.
THEOREM RegistryInvariance == Spec => []Inv
<1>1. Init => Inv
  BY InitKeeps
<1>2. Inv /\ [Next]_vars => Inv'
  BY NextKeeps
<1> QED BY <1>1, <1>2, PTL DEF Spec

\* An account is charged for exactly the bytes stored for it, whatever version
\* its records were written by and however they were saved (StorageTracker,
\* internal_set_storage), and nothing stays for one that has left
\* (storage_unregister).
THEOREM BytesAlwaysAddUp == Spec => []BytesAddUp
<1>1. Inv => BytesAddUp
  BY DEF Inv, RecordsKept
<1> QED BY <1>1, RegistryInvariance, PTL

\* Every share of the asset's pools is a share of somebody: no conversion of a
\* record of an earlier version, no return of a failed transfer and no act of
\* the owner or a guardian forgets or makes up one (account.rs, asset.rs,
\* legacy.rs).
THEOREM SharesAreOfAccounts == Spec => []SharesOfAccounts
<1>1. Inv => SharesOfAccounts
  BY DEF Inv
<1> QED BY <1>1, RegistryInvariance, PTL

-----------------------------------------------------------------------------
\* Settings that stay valid.

\* The settings that validity is about are left as they are.
SameSettings(saved) ==
    saved.version = "Current" /\ \A f \in Checked : saved[f] = Asset[f]

\* Validity looks at settings only.
LEMMA SameStaysValid ==
  ASSUME SameSettings(asset'), Valid(Asset)
  PROVE  Valid(Asset')
<1> DEFINE saved == asset'
<1>1. SameSettings(saved)
  OBVIOUS
<1>2. Asset' = Loaded(saved)
  BY DEF Asset, Loaded
<1> HIDE DEF saved
<1> DEFINE o == Loaded(saved)
<1>3. \A f \in AssetCurrent : o[f] = saved[f]
  BY <1>1 DEF Loaded, FieldsOf, SameSettings
<1>4. Checked \subseteq AssetCurrent
  BY DEF Checked, AssetCurrent, AssetV5, AssetV4, AssetV3, AssetV2, AssetV1, AssetV0
<1> HIDE DEF o
<1>5. \A f \in Checked : o[f] = Asset[f]
  BY <1>1, <1>3, <1>4 DEF SameSettings
<1>6. Valid(o)
  BY <1>5, CheckedOnly
<1> QED BY <1>2, <1>6 DEF o

\* Books that move leave the settings.
LEMMA BooksLeaveSettings ==
  ASSUME Asset \in AssetType, NEW x, NEW y
  PROVE  /\ SameSettings([Asset EXCEPT !.supplied = x])
         /\ SameSettings([Asset EXCEPT !.supplied = x, !.borrowed = y])
         /\ SameSettings([Asset EXCEPT !.reserved = y])
         /\ SameSettings([Asset EXCEPT !.reserved = y, !.supplied = x])
         /\ SameSettings([Asset EXCEPT !.prot_fee = y, !.supplied = x])
         /\ SameSettings([Asset EXCEPT !.lostfound_shares = y])
<1>1. /\ Asset.version = "Current" /\ DOMAIN Asset = ConfigFields \cup BookFields
      /\ Checked \subseteq ConfigFields
  BY FieldsOfAsset, FieldsOfRecords DEF AssetType
<1>2. {"version", "supplied", "borrowed", "reserved", "prot_fee", "lostfound_shares"}
         \cap Checked = {}
  BY DEF Checked
<1> QED BY <1>1, <1>2 DEF SameSettings, BookFields

\* No call of an account touches a setting.
LEMMA ByAccountLeavesSettings ==
  ASSUME Inv, NEW a, ByAccount(a), asset # NoAsset
  PROVE  asset' = asset \/ SameSettings(asset')
<1>1. Asset \in AssetType
  BY Listing
<1>2. CASE \E x \in MinStorage..MaxBalance, only \in BOOLEAN : StorageDeposit(a, x, only)
  BY <1>2 DEF StorageDeposit, adminVars
<1>3. CASE \E x \in 1..MaxBalance : StorageDeposit(a, x, FALSE) \/ StorageWithdraw(a, x)
  BY <1>3 DEF StorageDeposit, StorageWithdraw, adminVars
<1>4. CASE StorageUnregister(a) \/ ClaimFarms(a)
  BY <1>4 DEF StorageUnregister, ClaimFarms, adminVars
<1>5. ASSUME NEW x \in Moves, IncreaseCollateral(a, x) \/ DecreaseCollateral(a, x)
      PROVE  asset' = asset
  BY <1>5 DEF IncreaseCollateral, DecreaseCollateral
<1>6. ASSUME NEW x \in Moves, Deposit(a, x) \/ DepositToMargin(a, x)
      PROVE  SameSettings(asset')
  <2>1. asset' = [Asset EXCEPT !.supplied = Asset.supplied + x * scale]
    BY <1>6 DEF Deposit, DepositToMargin, SetAsset
  <2> QED BY <1>1, <2>1, BooksLeaveSettings
<1>7. ASSUME NEW x \in Moves, Withdraw(a, x) \/ MarginWithdraw(a, x)
      PROVE  SameSettings(asset')
  <2>1. asset' = [Asset EXCEPT !.supplied = Asset.supplied - x]
    BY <1>7 DEF Withdraw, MarginWithdraw, PaysOut, SetAsset
  <2> QED BY <1>1, <2>1, BooksLeaveSettings
<1>8. ASSUME NEW x \in Moves, Borrow(a, x)
      PROVE  SameSettings(asset')
  <2>1. asset' = [Asset EXCEPT !.supplied = Asset.supplied + x, !.borrowed = Asset.borrowed + x]
    BY <1>8 DEF Borrow, SetAsset
  <2> QED BY <1>1, <2>1, BooksLeaveSettings
<1>9. ASSUME NEW x \in Moves, Repay(a, x)
      PROVE  SameSettings(asset')
  <2>1. asset' = [Asset EXCEPT !.supplied = Asset.supplied - x, !.borrowed = Asset.borrowed - x]
    BY <1>9 DEF Repay, SetAsset
  <2> QED BY <1>1, <2>1, BooksLeaveSettings
<1> QED BY <1>2, <1>3, <1>4, <1>5, <1>6, <1>7, <1>8, <1>9 DEF ByAccount

\* Nor does the owner's or a guardian's on accounts and funds.
LEMMA GovernsLeavesSettings ==
  ASSUME Inv, NEW p, Governs(p), asset # NoAsset
  PROVE  asset' = asset \/ SameSettings(asset')
<1>1. Asset \in AssetType
  BY Listing
<1>2. CASE \E a \in Accounts : SetOwner(p, a) \/ Blacklist(p, a) \/ Unblacklist(p, a)
  BY <1>2 DEF SetOwner, Blacklist, Unblacklist
<1>3. ASSUME NEW x \in Moves, NEW field \in {"prot_fee", "reserved"}, PayOwner(p, field, x)
      PROVE  SameSettings(asset')
  <2> DEFINE n == Asset[field] - x
             m == Asset.supplied + x
  <2>1. asset' = [Asset EXCEPT ![field] = n, !.supplied = m]
    BY <1>1, <1>3 DEF PayOwner, SetAsset, AssetType
  <2> HIDE DEF n, m
  <2>2. CASE field = "prot_fee"
    BY <1>1, <2>1, <2>2, BooksLeaveSettings
  <2>3. CASE field = "reserved"
    BY <1>1, <2>1, <2>3, BooksLeaveSettings
  <2> QED BY <2>2, <2>3
<1>4. ASSUME NEW x \in Moves, IncreaseReserved(p, x)
      PROVE  SameSettings(asset')
  <2>1. asset' = [Asset EXCEPT !.reserved = Asset.reserved + x, !.supplied = Asset.supplied - x]
    BY <1>4 DEF IncreaseReserved, SetAsset
  <2> QED BY <1>1, <2>1, BooksLeaveSettings
<1>5. ASSUME NEW a \in Accounts, NEW x \in Moves, ReturnLostFound(p, a, x)
      PROVE  SameSettings(asset')
  <2>1. asset' = [Asset EXCEPT !.lostfound_shares = Asset.lostfound_shares - x]
    BY <1>5 DEF ReturnLostFound, SetAsset
  <2> QED BY <1>1, <2>1, BooksLeaveSettings
<1> QED BY <1>2, <1>3, <1>4, <1>5 DEF Governs, ClaimProtFee, DecreaseReserved

\* Nor does the result of a transfer.
LEMMA ResultsLeaveSettings ==
  ASSUME Inv, Results, asset # NoAsset
  PROVE  asset' = asset \/ SameSettings(asset')
<1>1. Asset \in AssetType
  BY Listing
<1>2. PICK t \in transfers : TransferSucceeds(t) \/ TransferFails(t)
  BY DEF Results
<1>3. asset' = asset \/ asset' = [Asset EXCEPT !.supplied = Asset.supplied + t.amount]
  BY <1>2 DEF TransferSucceeds, TransferFails, adminVars, SetAsset
<1> QED BY <1>1, <1>3, BooksLeaveSettings

\* A step from a listed asset with valid settings leads to valid settings.
LEMMA NextStaysValid ==
  ASSUME Inv, Next, asset # NoAsset, Valid(Asset)
  PROVE  Valid(Asset')
<1>1. ASSUME asset' = asset \/ SameSettings(asset')
      PROVE  Valid(Asset')
  <2>1. CASE asset' = asset
    <3>1. Asset' = Asset
      BY <2>1 DEF Asset
    <3> DEFINE new == Asset'
    <3>2. new = Asset
      BY <3>1
    <3> HIDE DEF new
    <3>3. Valid(new)
      BY <3>2
    <3> QED BY <3>3 DEF new
  <2> QED BY <1>1, <2>1, SameStaysValid
<1>2. CASE \E a \in Users : ByAccount(a)
  BY <1>1, <1>2, ByAccountLeavesSettings
<1>3. CASE \E x \in Moves : DepositToReserve(x)
  <2>1. PICK x \in Moves : asset' = [Asset EXCEPT !.reserved = Asset.reserved + x * scale]
    BY <1>3 DEF DepositToReserve, SetAsset
  <2>2. SameSettings(asset')
    BY <2>1, Listing, BooksLeaveSettings
  <2> QED BY <1>1, <2>2
<1>4. CASE Results
  BY <1>1, <1>4, ResultsLeaveSettings
<1>5. CASE \E p \in Accounts \cup Guards : Governs(p)
  BY <1>1, <1>5, GovernsLeavesSettings
<1>6. CASE \E p \in Accounts \cup Guards : Administers(p)
  <2>1. PICK p : Administers(p)
    BY <1>6
  <2>2. ~\E c \in Configs : AddAsset(p, c)
    BY DEF AddAsset
  <2>3. asset' = asset \/ (SettingsOnly(asset') /\ Valid(asset'))
    BY <2>1, <2>2, Setters
  <2>4. CASE SettingsOnly(asset') /\ Valid(asset')
    <3> DEFINE saved == asset'
    <3>1. saved \in AssetType /\ asset' = saved /\ Valid(saved)
      BY <2>4 DEF SettingsOnly
    <3> HIDE DEF saved
    <3>2. Asset' = saved
      BY <3>1, SavedAsset
    <3> QED BY <3>1, <3>2
  <2> QED BY <1>1, <2>3, <2>4
<1> QED BY <1>2, <1>3, <1>4, <1>5, <1>6 DEF Next, Governed

\* The settings of margin_config that limits of a token default to are sane, and
\* so are the limits that were set.
RulesKept ==
    /\ rules \in [RuleNames \cup {"liq_benefit_protocol_rate", "liq_benefit_liquidator_rate"} -> Nat]
    /\ rules.max_leverage_rate > 1
    /\ rules.max_slippage_rate < MaxRatio
    /\ rules.min_safety_buffer < MaxRatio
    /\ rules.liq_benefit_protocol_rate + rules.liq_benefit_liquidator_rate <= MaxRatio
    /\ limit # NoRules => Sane(limit)

\* With such settings the limits in force are sane.
LEMMA KeptRulesAreSane ==
  ASSUME RulesKept
  PROVE  Sane(LimitInForce)
<1>1. CASE limit # NoRules
  BY <1>1 DEF RulesKept, LimitInForce
<1>2. CASE limit = NoRules
  <2> DEFINE l == DefaultLimit
  <2>1. /\ l.max_leverage_rate = rules.max_leverage_rate
        /\ l.max_slippage_rate = rules.max_slippage_rate
        /\ l.min_safety_buffer = rules.min_safety_buffer
        /\ l.liq_benefit_protocol_rate = rules.liq_benefit_protocol_rate
        /\ l.liq_benefit_liquidator_rate = rules.liq_benefit_liquidator_rate
        /\ l.max_position = None
    BY DEF DefaultLimit
  <2> HIDE DEF l
  <2>2. Sane(l)
    BY <2>1 DEF RulesKept, Sane
  <2> QED BY <1>2, <2>2 DEF LimitInForce, l
<1> QED BY <1>1, <1>2

\* Each setter of margin_config checks its own value, and those of the benefits
\* their sum, which is enough.
LEMMA SettersKeepRules ==
  ASSUME RulesKept, NEW p, Administers(p)
  PROVE  RulesKept'
<1>1. CASE UNCHANGED <<rules, limit>>
  <2>1. rules' = rules /\ limit' = limit
    BY <1>1
  <2> QED BY <2>1 DEF RulesKept, Sane
<1>2. CASE \E c \in RuleChanges : UpdateRule(p, c[1], c[2])
  <2>1. PICK c \in RuleChanges : UpdateRule(p, c[1], c[2])
    BY <1>2
  <2> DEFINE rule == c[1]
             value == c[2]
  <2>2. /\ RuleValid(rule, value) /\ rules' = [rules EXCEPT ![rule] = value] /\ limit' = limit
        /\ rule \in RuleNames /\ value \in Nat
    BY <2>1, RuleAssumption DEF UpdateRule
  <2> HIDE DEF rule, value
  <2>3. /\ rules' \in [RuleNames \cup {"liq_benefit_protocol_rate", "liq_benefit_liquidator_rate"}
                          -> Nat]
        /\ \A f \in RuleNames : rules'[f] = IF f = rule THEN value ELSE rules[f]
        /\ rules'.liq_benefit_protocol_rate = rules.liq_benefit_protocol_rate
        /\ rules'.liq_benefit_liquidator_rate = rules.liq_benefit_liquidator_rate
    BY <2>2 DEF RulesKept, RuleNames
  <2>4. /\ rules'.max_leverage_rate > 1
        /\ rules'.max_slippage_rate < MaxRatio
        /\ rules'.min_safety_buffer < MaxRatio
    BY <2>2, <2>3 DEF RulesKept, RuleNames, RuleValid
  <2> QED BY <2>2, <2>3, <2>4 DEF RulesKept, Sane
<1>3. CASE \E x, y \in Shares : UpdateBenefits(p, x, y)
  <2>1. PICK x \in Shares, y \in Shares : UpdateBenefits(p, x, y)
    BY <1>3
  <2>2. /\ x + y <= MaxRatio /\ x \in Nat /\ y \in Nat /\ limit' = limit
        /\ rules' = [rules EXCEPT !.liq_benefit_protocol_rate = x,
                                  !.liq_benefit_liquidator_rate = y]
    BY <2>1, BoundAssumption DEF UpdateBenefits
  <2> QED BY <2>2 DEF RulesKept, RuleNames, Sane
<1>4. CASE \E l \in Limits : SetLimit(p, l)
  <2>1. PICK l \in Limits : SetLimit(p, l)
    BY <1>4
  <2>2. Sane(l) /\ limit' = l /\ rules' = rules
    BY <2>1 DEF SetLimit
  <2> QED BY <2>2 DEF RulesKept, Sane
<1>5. CASE RemoveLimit(p)
  BY <1>5 DEF RemoveLimit, RulesKept
<1>6. CASE \/ \E g \in Guards : ExtendGuardians(p, g) \/ RemoveGuardian(p, g)
           \/ \E c \in Configs : AddAsset(p, c) \/ UpdateAsset(p, c)
           \/ \E s, b, m \in Amounts \cup {None} : UpdateAssetLimit(p, s, b, m)
           \/ \E m \in Amounts : UpdateNetTvlMultiplier(p, m)
           \/ \E rate \in Rates : UpdateHoldingPositionFeeRate(p, rate)
           \/ \E m \in Rates \cup {None} : UpdateMaxChangeRate(p, m)
           \/ \E c \in Capacities : EnableCapacity(p, c) \/ DisableCapacity(p, c)
           \/ \E b \in Beneficiaries, bps \in Shares : UpsertBeneficiary(p, b, bps)
           \/ \E b \in Beneficiaries : RemoveBeneficiary(p, b)
           \/ \E r \in Ranges : SetRange(p, r)
           \/ RemoveRange(p)
  <2>1. UNCHANGED <<rules, limit>>
    BY <1>6 DEF ExtendGuardians, RemoveGuardian, AddAsset, UpdateAsset, UpdateAssetLimit,
                UpdateNetTvlMultiplier, UpdateHoldingPositionFeeRate, UpdateMaxChangeRate,
                EnableCapacity, DisableCapacity, UpsertBeneficiary, RemoveBeneficiary,
                SetRange, RemoveRange, OnlyAsset
  <2> QED BY <1>1, <2>1
<1> QED BY <1>2, <1>3, <1>4, <1>5, <1>6 DEF Administers

\* Nothing else touches them.
LEMMA OthersLeaveRules ==
  ASSUME Next, ~\E p \in Accounts \cup Guards : Administers(p)
  PROVE  UNCHANGED <<rules, limit>>
<1>1. CASE \E a \in Users : ByAccount(a)
  <2>1. PICK a \in Users : ByAccount(a)
    BY <1>1
  <2>2. CASE \E x \in MinStorage..MaxBalance, only \in BOOLEAN : StorageDeposit(a, x, only)
    BY <2>2 DEF StorageDeposit, adminVars
  <2>3. CASE \E x \in 1..MaxBalance : StorageDeposit(a, x, FALSE) \/ StorageWithdraw(a, x)
    BY <2>3 DEF StorageDeposit, StorageWithdraw, adminVars
  <2>4. CASE StorageUnregister(a) \/ ClaimFarms(a)
    BY <2>4 DEF StorageUnregister, ClaimFarms, Saves, settings, adminVars
  <2>5. ASSUME NEW x \in Moves, IncreaseCollateral(a, x) \/ DecreaseCollateral(a, x)
        PROVE  UNCHANGED <<rules, limit>>
    BY <2>5 DEF IncreaseCollateral, DecreaseCollateral, Saves, settings
  <2>6. ASSUME NEW x \in Moves, Deposit(a, x) \/ DepositToMargin(a, x)
        PROVE  UNCHANGED <<rules, limit>>
    BY <2>6 DEF Deposit, DepositToMargin, Receives, settings
  <2>7. ASSUME NEW x \in Moves, Withdraw(a, x) \/ MarginWithdraw(a, x)
        PROVE  UNCHANGED <<rules, limit>>
    BY <2>7 DEF Withdraw, MarginWithdraw, PaysOut, settings
  <2>8. ASSUME NEW x \in Moves, Borrow(a, x) \/ Repay(a, x)
        PROVE  UNCHANGED <<rules, limit>>
    BY <2>8 DEF Borrow, Repay, Saves, settings
  <2> QED BY <2>1, <2>2, <2>3, <2>4, <2>5, <2>6, <2>7, <2>8 DEF ByAccount
<1>2. CASE (\E x \in Moves : DepositToReserve(x)) \/ Results
  BY <1>2 DEF DepositToReserve, Receives, Results, TransferSucceeds, TransferFails, settings,
              adminVars
<1>3. CASE \E p \in Accounts \cup Guards : Governs(p)
  BY <1>3 DEF Governs, SetOwner, Blacklist, Unblacklist, ClaimProtFee, DecreaseReserved,
              PayOwner, IncreaseReserved, ReturnLostFound
<1> QED BY <1>1, <1>2, <1>3 DEF Next, Governed

\* An asset with a valid configuration keeps one, whichever setter is called
\* and though most check only what they set (config.rs, asset.rs); and the
\* limits margin trades are held to stay sane, those of the token and those
\* they default to (margin_config.rs, margin_base_token_limit.rs).
THEOREM SettingsAreSound == Spec => SettingsStaySound
<1>1. Inv /\ [Next]_vars => [asset # NoAsset /\ Valid(Asset) => Valid(Asset')]_vars
  BY NextStaysValid
<1>2. Init => RulesKept
  <2>1. ASSUME Init PROVE rules = InitialRules /\ limit = NoRules
    BY <2>1 DEF Init, AdminInit
  <2> QED BY <2>1, RuleAssumption DEF RulesKept, RuleNames, RuleValid
<1>3. RulesKept /\ [Next]_vars => RulesKept'
  <2> SUFFICES ASSUME RulesKept, [Next]_vars
               PROVE  RulesKept'
    OBVIOUS
  <2>1. ASSUME UNCHANGED <<rules, limit>> PROVE RulesKept'
    BY <2>1 DEF RulesKept, Sane
  <2>2. CASE UNCHANGED vars
    BY <2>1, <2>2 DEF vars, adminVars
  <2>3. CASE \E p \in Accounts \cup Guards : Administers(p)
    BY <2>3, SettersKeepRules
  <2>4. CASE Next /\ ~\E p \in Accounts \cup Guards : Administers(p)
    BY <2>1, <2>4, OthersLeaveRules
  <2> QED BY <2>2, <2>3, <2>4
<1>4. RulesKept => Sane(LimitInForce)
  BY KeptRulesAreSane
<1> QED BY <1>1, <1>2, <1>3, <1>4, RegistryInvariance, PTL DEF Spec, SettingsStaySound

-----------------------------------------------------------------------------
\* Who pays for storage.

\* What is stored for an account is not more, or is paid for.
Paid(a) ==
    \/ storage'[a] = storage[a]
    \/ storage'[a] = NoStorage
    \/ Covered(storage'[a])
    \/ storage'[a].used < storage[a].used

\* A charge that set_storage lets pass is covered, or is a refund of bytes.
LEMMA ChargePaid ==
  ASSUME RecordTypes, NEW b \in Accounts, storage[b] # NoStorage, NEW more \in Int,
         CanSetStorage(storage[b], more), SetStorage(b, more)
  PROVE  \A a \in Accounts : Paid(a)
<1>1. storage[b] \in StorageType
  BY DEF RecordTypes
<1>2. /\ storage' = [storage EXCEPT ![b] = storage'[b]]
      /\ storage'[b] = [balance |-> storage[b].balance, used |-> storage[b].used + more]
  BY Charged
<1>3. \A a \in Accounts \ {b} : storage'[a] = storage[a]
  BY <1>2 DEF RecordTypes
<1>4. Paid(b)
  <2>1. CASE more >= 0
    <3>1. Covered([storage[b] EXCEPT !.used = storage[b].used + more])
      BY <2>1 DEF CanSetStorage
    <3>2. storage'[b] = [storage[b] EXCEPT !.used = storage[b].used + more]
      BY <1>1, <1>2 DEF StorageType
    <3> DEFINE new == storage'[b]
    <3>3. new = [storage[b] EXCEPT !.used = storage[b].used + more]
      BY <3>2
    <3> HIDE DEF new
    <3>4. Covered(new)
      BY <3>1, <3>3
    <3> QED BY <3>4 DEF Paid, new
  <2>2. CASE more < 0
    <3>1. storage'[b].used < storage[b].used
      BY <1>1, <1>2, <2>2 DEF StorageType
    <3> QED BY <3>1 DEF Paid
  <2> QED BY <2>1, <2>2
<1> QED BY <1>3, <1>4 DEF Paid

\* So a save of a record is paid for.
LEMMA SavePaid ==
  ASSUME Inv, Inv', NEW b \in Accounts, Registered(b), NEW record, Save(b, record)
  PROVE  \A a \in Accounts : Paid(a)
<1>1. /\ RecordTypes /\ RecordTypes' /\ storage[b] # NoStorage
  BY DEF Inv, RecordsKept, Linked, Registered
<1> DEFINE more == MoreBytes(b, record)
<1>2. /\ CanSetStorage(storage[b], more) /\ SetStorage(b, more)
      /\ account' = [account EXCEPT ![b] = record]
  BY DEF Save, ForceSave, CanSave
<1>3. more \in Int
  <2>1. record \in AccountType \cup {NoRecord}
    BY <1>1, <1>2 DEF RecordTypes
  <2>2. Bytes(record) \in Nat
    BY <2>1, BytesType
  <2>3. Bytes(account[b]) \in Nat /\ EntryBytes * Cardinality(entries[b]) \in Nat
    BY <1>1, FootprintType
  <2> DEFINE x == EntryBytes * Cardinality(entries[b])
  <2>4. more = Bytes(record) - Bytes(account[b]) - x
    BY DEF MoreBytes
  <2>5. x \in Nat
    BY <2>3
  <2> HIDE DEF more, x
  <2> QED BY <2>2, <2>3, <2>4, <2>5
<1> HIDE DEF more
<1> QED BY <1>1, <1>2, <1>3, ChargePaid

\* So is a save of a margin account.
LEMMA SaveMarginPaid ==
  ASSUME Inv, Inv', NEW b \in Accounts, Registered(b), NEW record, SaveMargin(b, record)
  PROVE  \A a \in Accounts : Paid(a)
<1>1. /\ RecordTypes /\ RecordTypes' /\ storage[b] # NoStorage
  BY DEF Inv, RecordsKept, Linked, Registered
<1> DEFINE more == MoreMarginBytes(b, record)
<1>2. /\ CanSetStorage(storage[b], more) /\ SetStorage(b, more)
      /\ margin' = [margin EXCEPT ![b] = record]
  BY DEF SaveMargin, ForceSaveMargin
<1>3. more \in Int
  <2>1. record \in MarginType \cup {NoRecord}
    BY <1>1, <1>2 DEF RecordTypes
  <2>2. MarginBytes(record) \in Nat
    BY <2>1, MarginBytesType
  <2>3. MarginBytes(margin[b]) \in Nat
    BY <1>1, FootprintType
  <2> QED BY <2>2, <2>3 DEF MoreMarginBytes
<1> HIDE DEF more
<1> QED BY <1>1, <1>2, <1>3, ChargePaid

\* Deposits cover what is used, and withdrawals leave it covered.
LEMMA StoragePaid ==
  ASSUME Inv, NEW b \in Accounts, NEW x,
         \/ \E only \in BOOLEAN : StorageDeposit(b, x, only)
         \/ StorageWithdraw(b, x)
         \/ StorageUnregister(b)
  PROVE  \A a \in Accounts : Paid(a)
<1>1. RecordTypes
  BY DEF Inv, RecordsKept
<1>2. ASSUME NEW only \in BOOLEAN, StorageDeposit(b, x, only)
      PROVE  \A a \in Accounts : Paid(a)
  <2> DEFINE min == IF only THEN MinStorage ELSE x
             n == StorageBytes + Bytes(NewAccount) + MarginBytes(NewMargin)
  <2>1. CASE /\ Covered([storage[b] EXCEPT !.balance = @ + x])
             /\ storage' = [storage EXCEPT ![b].balance = @ + x]
    <3>1. storage'[b] = [storage[b] EXCEPT !.balance = @ + x]
      BY <1>1, <2>1 DEF RecordTypes
    <3>2. \A a \in Accounts \ {b} : storage'[a] = storage[a]
      BY <1>1, <2>1 DEF RecordTypes
    <3> DEFINE new == storage'[b]
    <3>3. new = [storage[b] EXCEPT !.balance = @ + x]
      BY <3>1
    <3> HIDE DEF new
    <3>4. Covered(new)
      BY <2>1, <3>3
    <3>5. Covered(storage'[b])
      BY <3>4 DEF new
    <3> QED BY <3>2, <3>5 DEF Paid
  <2>2. CASE n <= min /\ storage' = [storage EXCEPT ![b] = [balance |-> min, used |-> n]]
    <3> HIDE DEF min, n
    <3>1. storage'[b] = [balance |-> min, used |-> n]
          /\ \A a \in Accounts \ {b} : storage'[a] = storage[a]
      BY <1>1, <2>2 DEF RecordTypes
    <3>2. storage'[b].used = n /\ storage'[b].balance = min
      BY <3>1
    <3>3. Covered(storage'[b])
      BY <2>2, <3>2 DEF Covered
    <3> QED BY <3>1, <3>3 DEF Paid
  <2> QED BY <1>2, <2>1, <2>2 DEF StorageDeposit
<1>3. CASE StorageWithdraw(b, x)
  <2>1. /\ storage[b] # NoStorage /\ x \in 1..AvailableStorage(storage[b])
        /\ storage' = [storage EXCEPT ![b].balance = @ - x]
    BY <1>3 DEF StorageWithdraw
  <2>2. storage[b] \in StorageType /\ MinStorage \in Nat
    BY <1>1, <2>1, RegistryNumbers DEF RecordTypes
  <2>3. /\ storage'[b] = [storage[b] EXCEPT !.balance = @ - x]
        /\ \A a \in Accounts \ {b} : storage'[a] = storage[a]
    BY <1>1, <2>1 DEF RecordTypes
  <2>4. storage'[b].used = storage[b].used /\ storage'[b].balance = storage[b].balance - x
    BY <2>2, <2>3 DEF StorageType
  <2>5. storage[b].used <= storage[b].balance - x
    BY <2>1, <2>2 DEF AvailableStorage, StorageType
  <2>6. Covered(storage'[b])
    BY <2>4, <2>5 DEF Covered
  <2> QED BY <2>3, <2>6 DEF Paid
<1>4. CASE StorageUnregister(b)
  <2>1. storage' = [storage EXCEPT ![b] = NoStorage]
    BY <1>4 DEF StorageUnregister
  <2>2. storage'[b] = NoStorage /\ \A a \in Accounts \ {b} : storage'[a] = storage[a]
    BY <1>1, <2>1 DEF RecordTypes
  <2> QED BY <2>2 DEF Paid
<1> QED BY <1>2, <1>3, <1>4

\* Whatever an account calls is paid for.
LEMMA ByAccountPaid ==
  ASSUME Inv, Inv', NEW b \in Accounts, ByAccount(b)
  PROVE  \A a \in Accounts : Paid(a)
<1>1. CASE \/ \E x \in MinStorage..MaxBalance, only \in BOOLEAN : StorageDeposit(b, x, only)
           \/ \E x \in 1..MaxBalance : StorageDeposit(b, x, FALSE) \/ StorageWithdraw(b, x)
           \/ StorageUnregister(b)
  BY <1>1, StoragePaid
<1>2. ASSUME NEW record, Saves(b, record), Registered(b)
      PROVE  \A a \in Accounts : Paid(a)
  BY <1>2, SavePaid DEF Saves
<1>3. CASE ClaimFarms(b)
  BY <1>2, <1>3 DEF ClaimFarms
<1>4. ASSUME NEW x \in Moves, Deposit(b, x) \/ Withdraw(b, x)
      PROVE  \A a \in Accounts : Paid(a)
  <2>1. Registered(b) /\ \E record : Save(b, record)
    BY <1>4 DEF Deposit, Withdraw
  <2> QED BY <2>1, SavePaid
<1>5. ASSUME NEW x \in Moves, DepositToMargin(b, x) \/ MarginWithdraw(b, x)
      PROVE  \A a \in Accounts : Paid(a)
  <2>1. \E record : SaveMargin(b, record)
    BY <1>5 DEF DepositToMargin, MarginWithdraw
  <2>2. Registered(b)
    BY <1>5, Holdings DEF DepositToMargin, MarginWithdraw
  <2> QED BY <2>1, <2>2, SaveMarginPaid
<1>6. ASSUME NEW x \in Moves,
             \/ IncreaseCollateral(b, x) \/ DecreaseCollateral(b, x)
             \/ Borrow(b, x) \/ Repay(b, x)
      PROVE  \A a \in Accounts : Paid(a)
  <2>1. Registered(b) /\ \E record : Saves(b, record)
    BY <1>6 DEF IncreaseCollateral, DecreaseCollateral, Borrow, Repay
  <2> QED BY <1>2, <2>1
<1> QED BY <1>1, <1>3, <1>4, <1>5, <1>6 DEF ByAccount

\* So is what the owner or a guardian does to an account.
LEMMA GovernsPaid ==
  ASSUME Inv, Inv', NEW p, Governs(p)
  PROVE  \A a \in Accounts : Paid(a)
<1>1. owner \in Accounts
  BY DEF Inv, OthersTyped
<1>2. CASE storage' = storage
  BY <1>2 DEF Paid
<1>3. ASSUME NEW b \in Accounts, SetOwner(p, b)
      PROVE  storage' = storage
  BY <1>3 DEF SetOwner, accountVars
<1>4. ASSUME NEW b \in Accounts, Blacklist(p, b) \/ Unblacklist(p, b)
      PROVE  \A a \in Accounts : Paid(a)
  <2>1. Registered(b) /\ \E record : Save(b, record)
    BY <1>4 DEF Blacklist, Unblacklist
  <2> QED BY <2>1, SavePaid
<1>5. ASSUME NEW x \in Moves, ClaimProtFee(p, x) \/ DecreaseReserved(p, x) \/ IncreaseReserved(p, x)
      PROVE  \A a \in Accounts : Paid(a)
  <2>1. Registered(owner) /\ \E record : Save(owner, record)
    BY <1>5 DEF ClaimProtFee, DecreaseReserved, IncreaseReserved, PayOwner
  <2> QED BY <1>1, <2>1, SavePaid
<1>6. ASSUME NEW b \in Accounts, NEW x \in Moves, ReturnLostFound(p, b, x)
      PROVE  \A a \in Accounts : Paid(a)
  <2>1. Registered(b) /\ \E record : SaveMargin(b, record)
    BY <1>6 DEF ReturnLostFound
  <2> QED BY <2>1, SaveMarginPaid
<1> QED BY <1>2, <1>3, <1>4, <1>5, <1>6 DEF Governs

\* A failed transfer saves the account it returns to, and no other.
LEMMA FailurePaid ==
  ASSUME Inv, NEW t \in transfers, TransferFails(t)
  PROVE  \A a \in Accounts \ {t.to} : Paid(a)
<1>1. RecordTypes
  BY DEF Inv, RecordsKept
<1>2. \/ storage' = storage
      \/ \E more : storage' = [storage EXCEPT ![t.to].used = @ + more]
  BY DEF TransferFails, ForceSave, ForceSaveMargin, SetStorage
<1>3. \A a \in Accounts \ {t.to} : storage'[a] = storage[a]
  BY <1>1, <1>2 DEF RecordTypes
<1> QED BY <1>3 DEF Paid

\* A step is paid for, or is the return of a failed transfer to the account.
LEMMA NextPaid ==
  ASSUME Inv, Inv', Next, NEW a \in Accounts
  PROVE  Paid(a) \/ \E t \in transfers : t.to = a /\ TransferFails(t)
<1>1. CASE storage' = storage
  BY <1>1 DEF Paid
<1>2. CASE \E b \in Users : ByAccount(b)
  BY <1>2, RegistrySets, ByAccountPaid
<1>3. CASE \E x \in Moves : DepositToReserve(x)
  BY <1>1, <1>3 DEF DepositToReserve
<1>4. ASSUME NEW t \in transfers, TransferSucceeds(t)
      PROVE  storage' = storage
  BY <1>4 DEF TransferSucceeds, accountVars
<1>5. ASSUME NEW t \in transfers, TransferFails(t), t.to # a
      PROVE  Paid(a)
  BY <1>5, FailurePaid
<1>6. CASE Results
  BY <1>1, <1>4, <1>5, <1>6 DEF Results
<1>7. CASE Governed
  <2>1. PICK p : Governs(p) \/ UNCHANGED accountVars
    BY <1>7 DEF Governed
  <2>2. CASE UNCHANGED accountVars
    BY <1>1, <2>2 DEF accountVars
  <2> QED BY <2>1, <2>2, GovernsPaid
<1> QED BY <1>2, <1>3, <1>6, <1>7 DEF Next

\* Bytes that are not paid for are added by the callback of a failed transfer
\* alone, whatever else saves a record (storage.rs, fungible_token.rs).
THEOREM OnlyRefundsOverdraw == Spec => OverdrawnByRefunds
<1> DEFINE Step == \A a \in Accounts :
          storage'[a] # NoStorage /\ ~Covered(storage'[a]) /\ storage'[a] # storage[a]
              => \/ storage'[a].used < storage[a].used
                 \/ \E t \in transfers : t.to = a /\ TransferFails(t)
<1>1. Inv /\ Inv' /\ [Next]_vars => [Step]_vars
  <2>1. ASSUME Inv, Inv', Next
        PROVE  Step
    BY <2>1, NextPaid DEF Paid
  <2> QED BY <2>1
<1> QED BY <1>1, RegistryInvariance, PTL DEF Spec, OverdrawnByRefunds
====
