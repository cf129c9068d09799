--------------------------- MODULE Administration ---------------------------
(***************************************************************************)
(* The administration of contracts/contract: who may change its settings,  *)
(* how the record of an asset is read when an earlier version of the code  *)
(* wrote it, and what the owner and the guardians set.                     *)
(*                                                                         *)
(* The owner changes everything.  A guardian may take abilities away from  *)
(* an asset, arrange its beneficiaries, and change the limits of margin    *)
(* trading within ranges that the owner allows.                            *)
(*                                                                         *)
(* One asset is followed.  The fields of its configuration are fields of   *)
(* its record, its pools are amounts (a share is a unit), and the limits   *)
(* of long and short positions, which the code treats alike, are one.      *)
(* extra_decimals is the power of ten it stands for.                       *)
(***************************************************************************)
EXTENDS Integers, FiniteSets, Functions

CONSTANTS
    Accounts,       \* accounts that may be registered, the owner among them
    Guards,         \* accounts that may be guardians
    None, NoAsset, NoRules,
    MaxRatio,       \* MAX_RATIO, and MAX_POS, which is the same
    Divisor,        \* BIG_DIVISOR: an interest rate of 1
    MaxBeneficiaries,   \* MAX_BENEFICIARIES
    MinWait,        \* the least max_position_action_wait_sec, 3600
    InitialOwner, InitialGuardians,
    InitialRules,   \* margin_config at first
    Configs,        \* bound: configurations the owner gives the asset
    Amounts,        \* bound: the limits of the asset the owner sets
    Rates,          \* bound: holding fees and price changes the owner sets
    Beneficiaries,  \* bound: accounts that may be beneficiaries
    Shares,         \* bound: what beneficiaries are promised, of MaxRatio
    RuleChanges,    \* bound: new values of settings in margin_config
    Limits,         \* bound: limits of margin trading set for the asset
    Ranges,         \* bound: the ranges the owner allows guardians
    MaxChanges      \* bound: changes of settings

ASSUME NumberAssumption ==
    /\ MaxRatio \in Nat \ {0} /\ Divisor \in Nat /\ MaxBeneficiaries \in Nat
    /\ MinWait \in Nat /\ MaxChanges \in Nat
ASSUME OwnerAssumption == InitialOwner \in Accounts /\ InitialGuardians \subseteq Guards
ASSUME BoundAssumption ==
    /\ Shares \subseteq Nat /\ Amounts \subseteq Nat /\ Rates \subseteq Nat
    /\ None \notin Nat /\ IsFiniteSet(Beneficiaries)

VARIABLES
    owner,          \* config.owner_id
    guardians,
    asset,          \* the record of the asset as it is stored, or NoAsset
    rules,          \* margin_config
    limit,          \* margin_base_token_limit of the asset, or NoRules
    range,          \* margin_base_token_limit_gur of the asset, or NoRules
    changes         \* bound: how often settings have changed

adminVars == <<owner, guardians, asset, rules, limit, range, changes>>
settings == <<owner, guardians, rules, limit, range, changes>>

(* f with the fields of g in its place (@@ of TLC, which tlapm cannot see   *)
(* into).                                                                   *)
Over(g, f) == [x \in DOMAIN g \cup DOMAIN f |-> IF x \in DOMAIN g THEN g[x] ELSE f[x]]

(* The fields of an asset in each version of the code.                      *)
AssetV0 == {"supplied", "borrowed", "reserved", "reserve_ratio", "extra_decimals"}
               \cup {"target_utilization", "target_utilization_rate", "max_utilization_rate"}
               \cup {"volatility_ratio", "can_deposit", "can_withdraw"}
               \cup {"can_use_as_collateral", "can_borrow"}
AssetV1 == AssetV0 \cup {"net_tvl_multiplier"}
AssetV2 == AssetV1 \cup {"prot_fee"}
AssetV3 == AssetV2 \cup {"max_change_rate", "supplied_limit", "borrowed_limit"}
AssetV4 == AssetV3 \cup {"margin_debt", "margin_pending_debt", "margin_position"}
               \cup {"holding_position_fee_rate"}
AssetV5 == AssetV4 \cup {"lostfound_shares", "min_borrowed_amount"}
AssetCurrent == AssetV5 \cup {"beneficiary_fees", "beneficiaries"}

FieldsOf ==
    [V0 |-> AssetV0, V1 |-> AssetV1, V2 |-> AssetV2, V3 |-> AssetV3, V4 |-> AssetV4,
     V5 |-> AssetV5, Current |-> AssetCurrent]

(* What is filled in for the fields an earlier version did not have, and    *)
(* what an asset starts with besides its configuration.                     *)
NewFields ==
    [supplied |-> 0, borrowed |-> 0, reserved |-> 0, prot_fee |-> 0, margin_debt |-> 0,
     margin_pending_debt |-> 0, margin_position |-> 0, lostfound_shares |-> 0,
     beneficiary_fees |-> <<>>, beneficiaries |-> <<>>, net_tvl_multiplier |-> MaxRatio,
     max_change_rate |-> None, supplied_limit |-> None, borrowed_limit |-> None,
     holding_position_fee_rate |-> Divisor, min_borrowed_amount |-> None]

Listed == Over([version |-> "Current"], NewFields)

(* The record as the code of today reads it.                                *)
Loaded(record) ==
    [f \in AssetCurrent \cup {"version"} |->
        IF f = "version" THEN "Current"
        ELSE IF f \in FieldsOf[record.version] THEN record[f] ELSE NewFields[f]]

Asset == Loaded(asset)

(* Beneficiaries, each with its part of MaxRatio.                           *)
Parts == UNION {[D -> 0..MaxRatio] : D \in SUBSET Beneficiaries}

ConfigType ==
    [reserve_ratio : Nat, extra_decimals : Nat, target_utilization : Nat,
     target_utilization_rate : Nat, max_utilization_rate : Nat, holding_position_fee_rate : Nat,
     volatility_ratio : Nat, can_deposit : BOOLEAN, can_withdraw : BOOLEAN,
     can_use_as_collateral : BOOLEAN, can_borrow : BOOLEAN, net_tvl_multiplier : Nat,
     max_change_rate : Nat \cup {None}, beneficiaries : Parts,
     supplied_limit : Nat \cup {None}, borrowed_limit : Nat \cup {None},
     min_borrowed_amount : Nat \cup {None}]

AssetType ==
    [version : {"Current"}, supplied : Int, borrowed : Int, reserved : Int, prot_fee : Int,
     margin_debt : Int, margin_pending_debt : Int, margin_position : Int, lostfound_shares : Int,
     beneficiary_fees : {<<>>},
     reserve_ratio : Nat, extra_decimals : Nat, target_utilization : Nat,
     target_utilization_rate : Nat, max_utilization_rate : Nat, holding_position_fee_rate : Nat,
     volatility_ratio : Nat, can_deposit : BOOLEAN, can_withdraw : BOOLEAN,
     can_use_as_collateral : BOOLEAN, can_borrow : BOOLEAN, net_tvl_multiplier : Nat,
     max_change_rate : Nat \cup {None}, beneficiaries : Parts,
     supplied_limit : Nat \cup {None}, borrowed_limit : Nat \cup {None},
     min_borrowed_amount : Nat \cup {None}]

ASSUME AssetAssumption == NoAsset \notin AssetType /\ Configs \subseteq ConfigType

available(a) ==
    a.supplied + a.reserved + a.prot_fee - a.borrowed - a.margin_debt - a.margin_pending_debt

Valid(c) ==
    /\ c.reserve_ratio <= MaxRatio
    /\ Cardinality(DOMAIN c.beneficiaries) <= MaxBeneficiaries
    /\ SumFunction(c.beneficiaries) <= MaxRatio
    /\ c.target_utilization < MaxRatio
    /\ Divisor <= c.target_utilization_rate
    /\ c.target_utilization_rate <= c.max_utilization_rate
    /\ Divisor <= c.holding_position_fee_rate
    /\ c.volatility_ratio < MaxRatio
    /\ c.net_tvl_multiplier <= MaxRatio
    /\ c.max_change_rate # None => c.max_change_rate <= MaxRatio
    /\ None \notin {c.supplied_limit, c.borrowed_limit, c.min_borrowed_amount}
    /\ c.borrowed_limit <= c.supplied_limit

----------------------------------------------------------------------------
IsOwner(p) == p = owner
IsTrusted(p) == p = owner \/ p \in guardians

Change(p, allowed) == allowed /\ changes < MaxChanges /\ changes' = changes + 1

OnlyAsset == UNCHANGED <<owner, guardians, rules, limit, range>>

ExtendGuardians(p, g) ==
    /\ Change(p, IsOwner(p))
    /\ guardians' = guardians \cup {g}
    /\ UNCHANGED <<owner, asset, rules, limit, range>>

RemoveGuardian(p, g) ==
    /\ Change(p, IsOwner(p))
    /\ g \in guardians
    /\ guardians' = guardians \ {g}
    /\ UNCHANGED <<owner, asset, rules, limit, range>>

AddAsset(p, c) ==
    /\ Change(p, IsOwner(p))
    /\ asset = NoAsset
    /\ Valid(c)
    /\ asset' = Over(c, Listed)
    /\ OnlyAsset

(* Nothing of the asset is recorded anywhere.                               *)
Empty(a) ==
    /\ a.supplied = 0 /\ a.borrowed = 0 /\ a.reserved = 0 /\ a.prot_fee = 0
    /\ a.margin_debt = 0 /\ a.margin_pending_debt = 0 /\ a.margin_position = 0
    /\ a.beneficiary_fees = <<>>

\* slip: an update that forgets what is recorded of the asset
UpdateAssetAnew(p, c) ==
    /\ Change(p, IsOwner(p))
    /\ asset # NoAsset
    /\ Valid(c)
    /\ asset' = Over(c, Listed)
    /\ OnlyAsset

UpdateAsset(p, c) ==
    /\ Change(p, IsOwner(p))
    /\ asset # NoAsset
    /\ Valid(c)
    /\ c.extra_decimals # Asset.extra_decimals => Empty(Asset)
    /\ asset' = Over(c, Asset)
    /\ OnlyAsset

\* slip: limits that are set unchecked
UpdateAssetLimitUnchecked(p, supplied, borrowed, least) ==
    LET Or(new, old) == IF new = None THEN old ELSE new
    IN  /\ Change(p, IsOwner(p))
        /\ asset # NoAsset
        /\ asset' = [Asset EXCEPT !.supplied_limit = Or(supplied, @),
                                  !.borrowed_limit = Or(borrowed, @),
                                  !.min_borrowed_amount = Or(least, @)]
        /\ OnlyAsset

(* None leaves a limit as it is.                                            *)
UpdateAssetLimit(p, supplied, borrowed, least) ==
    LET Or(new, old) == IF new = None THEN old ELSE new
        updated == [Asset EXCEPT !.supplied_limit = Or(supplied, @),
                                 !.borrowed_limit = Or(borrowed, @),
                                 !.min_borrowed_amount = Or(least, @)]
    IN  /\ Change(p, IsOwner(p))
        /\ asset # NoAsset
        /\ Valid(updated)
        /\ asset' = updated
        /\ OnlyAsset

UpdateNetTvlMultiplier(p, m) ==
    /\ Change(p, IsOwner(p))
    /\ asset # NoAsset
    /\ m <= MaxRatio
    /\ asset' = [Asset EXCEPT !.net_tvl_multiplier = m]
    /\ OnlyAsset

UpdateHoldingPositionFeeRate(p, rate) ==
    /\ Change(p, IsOwner(p))
    /\ asset # NoAsset
    /\ Divisor <= rate
    /\ asset' = [Asset EXCEPT !.holding_position_fee_rate = rate]
    /\ OnlyAsset

UpdateMaxChangeRate(p, m) ==
    /\ Change(p, IsOwner(p))
    /\ asset # NoAsset
    /\ m # None => m <= MaxRatio
    /\ asset' = [Asset EXCEPT !.max_change_rate = m]
    /\ OnlyAsset

Capacities == {"can_deposit", "can_withdraw", "can_use_as_collateral", "can_borrow"}

EnableCapacity(p, capacity) ==
    /\ Change(p, IsOwner(p))
    /\ asset # NoAsset
    /\ asset' = [Asset EXCEPT ![capacity] = TRUE]
    /\ OnlyAsset

DisableCapacity(p, capacity) ==
    /\ Change(p, IsTrusted(p))
    /\ asset # NoAsset
    /\ asset' = [Asset EXCEPT ![capacity] = FALSE]
    /\ OnlyAsset

UpsertBeneficiary(p, b, bps) ==
    LET updated == [Asset EXCEPT !.beneficiaries = Over([x \in {b} |-> bps], @)]
    IN  /\ Change(p, IsTrusted(p))
        /\ asset # NoAsset
        /\ Valid(updated)
        /\ asset' = updated
        /\ OnlyAsset

RemoveBeneficiary(p, b) ==
    /\ Change(p, IsTrusted(p))
    /\ asset # NoAsset
    /\ b \in DOMAIN Asset.beneficiaries
    /\ asset' = [Asset EXCEPT !.beneficiaries = Restrict(@, DOMAIN @ \ {b})]
    /\ OnlyAsset

----------------------------------------------------------------------------
(* Margin trading: its settings, and the limits of one base token.          *)

RuleNames ==
    {"max_leverage_rate", "max_slippage_rate", "min_safety_buffer", "pending_debt_scale",
     "open_position_fee_rate", "margin_debt_discount_rate", "max_position_action_wait_sec"}

RuleValid(rule, value) ==
    CASE rule = "max_leverage_rate" -> value > 1
      [] rule \in {"max_slippage_rate", "min_safety_buffer", "pending_debt_scale",
                   "open_position_fee_rate"} -> value < MaxRatio
      [] rule = "margin_debt_discount_rate" -> value <= 3 * MaxRatio
      [] rule = "max_position_action_wait_sec" -> value >= MinWait

(* margin_config is set up with values its setters would let pass.         *)
ASSUME RuleAssumption ==
    /\ \A c \in RuleChanges : c[1] \in RuleNames /\ c[2] \in Nat
    /\ InitialRules \in
          [RuleNames \cup {"liq_benefit_protocol_rate", "liq_benefit_liquidator_rate"} -> Nat]
    /\ \A rule \in RuleNames : RuleValid(rule, InitialRules[rule])
    /\ InitialRules.liq_benefit_protocol_rate + InitialRules.liq_benefit_liquidator_rate
          <= MaxRatio

UpdateRule(p, rule, value) ==
    /\ Change(p, IsOwner(p))
    /\ RuleValid(rule, value)
    /\ rules' = [rules EXCEPT ![rule] = value]
    /\ UNCHANGED <<owner, guardians, asset, limit, range>>

UpdateBenefits(p, protocol, liquidator) ==
    /\ Change(p, IsOwner(p))
    /\ protocol + liquidator <= MaxRatio
    /\ rules' = [rules EXCEPT !.liq_benefit_protocol_rate = protocol,
                              !.liq_benefit_liquidator_rate = liquidator]
    /\ UNCHANGED <<owner, guardians, asset, limit, range>>

DefaultLimit ==
    [f \in {"max_leverage_rate", "max_slippage_rate", "min_safety_buffer",
            "liq_benefit_protocol_rate", "liq_benefit_liquidator_rate",
            "min_position", "max_position"} |->
        IF f = "min_position" THEN 0 ELSE IF f = "max_position" THEN None ELSE rules[f]]

(* The limits a trade is held to.                                           *)
LimitInForce == IF limit = NoRules THEN DefaultLimit ELSE limit

(* What set_margin_base_token_limit asks of the limits.                     *)
Sane(l) ==
    /\ l.max_leverage_rate > 1
    /\ l.max_slippage_rate < MaxRatio
    /\ l.min_safety_buffer < MaxRatio
    /\ l.max_position # None => l.min_position <= l.max_position
    /\ l.liq_benefit_protocol_rate + l.liq_benefit_liquidator_rate <= MaxRatio

WithinRange(l, r) == \A f \in DOMAIN l : r[f][1] <= l[f] /\ l[f] <= r[f][2]

SetLimit(p, l) ==
    /\ Change(p, IsTrusted(p))
    /\ ~IsOwner(p) => range # NoRules /\ WithinRange(l, range)
    /\ Sane(l)
    /\ limit' = l
    /\ UNCHANGED <<owner, guardians, asset, rules, range>>

RemoveLimit(p) ==
    /\ Change(p, IsOwner(p))
    /\ limit # NoRules
    /\ limit' = NoRules
    /\ UNCHANGED <<owner, guardians, asset, rules, range>>

SetRange(p, r) ==
    /\ Change(p, IsOwner(p))
    /\ range' = r
    /\ UNCHANGED <<owner, guardians, asset, rules, limit>>

RemoveRange(p) ==
    /\ Change(p, IsOwner(p))
    /\ range # NoRules
    /\ range' = NoRules
    /\ UNCHANGED <<owner, guardians, asset, rules, limit>>

Administers(p) ==
    \/ \E g \in Guards : ExtendGuardians(p, g) \/ RemoveGuardian(p, g)
    \/ \E c \in Configs : AddAsset(p, c) \/ UpdateAsset(p, c)
    \/ \E s, b, m \in Amounts \cup {None} : UpdateAssetLimit(p, s, b, m)
    \/ \E m \in Amounts : UpdateNetTvlMultiplier(p, m)
    \/ \E rate \in Rates : UpdateHoldingPositionFeeRate(p, rate)
    \/ \E m \in Rates \cup {None} : UpdateMaxChangeRate(p, m)
    \/ \E c \in Capacities : EnableCapacity(p, c) \/ DisableCapacity(p, c)
    \/ \E b \in Beneficiaries, bps \in Shares : UpsertBeneficiary(p, b, bps)
    \/ \E b \in Beneficiaries : RemoveBeneficiary(p, b)
    \/ \E c \in RuleChanges : UpdateRule(p, c[1], c[2])
    \/ \E x, y \in Shares : UpdateBenefits(p, x, y)
    \/ \E l \in Limits : SetLimit(p, l)
    \/ RemoveLimit(p)
    \/ \E r \in Ranges : SetRange(p, r)
    \/ RemoveRange(p)

AdminInit(first) ==
    /\ owner = InitialOwner
    /\ guardians = InitialGuardians
    /\ asset = first
    /\ rules = InitialRules
    /\ limit = NoRules
    /\ range = NoRules
    /\ changes = 0
=============================================================================
