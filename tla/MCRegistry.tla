----------------------------- MODULE MCRegistry -----------------------------
(* Registry with two accounts, one of which owns the contract, and records *)
(* of every earlier version.                                               *)
EXTENDS Registry, TLC

CONSTANTS alice, admin, guard

MCAccounts == {alice, admin}
MCUsers == {alice}
MCGuards == {guard}
MCInitialGuardians == {guard}
MCBeneficiaries == {alice, admin, guard}

MCBaseBytes == [V0 |-> 3, V1 |-> 4, V2 |-> 3, V3 |-> 3, Current |-> 4]
MCMarginBaseBytes == [V0 |-> 1, V1 |-> 2, Current |-> 3]

Config ==
    [reserve_ratio |-> 1, extra_decimals |-> 1, target_utilization |-> 3,
     target_utilization_rate |-> 2, max_utilization_rate |-> 3, volatility_ratio |-> 2,
     can_deposit |-> TRUE, can_withdraw |-> TRUE,
     can_use_as_collateral |-> TRUE, can_borrow |-> TRUE]

Limited ==
    Config @@ [net_tvl_multiplier |-> 4, beneficiaries |-> <<>>, supplied_limit |-> 2,
               borrowed_limit |-> 1, min_borrowed_amount |-> 0, max_change_rate |-> None,
               holding_position_fee_rate |-> 2]

(* Other decimals, and as many beneficiaries as there may be.              *)
Finer ==
    [Limited EXCEPT !.extra_decimals = 2,
                    !.beneficiaries = alice :> 1 @@ admin :> 1]

MCConfigs == {Limited, Finer}

Rich(v, s, c, b) ==
    [version |-> v, supplied |-> s, collateral |-> c, borrowed |-> b, farms |-> s + c > 0,
     position |-> v \in {"V3", "Current"} /\ c > 0]

Old(v, s, b, r) == Config @@ [version |-> v, supplied |-> s, borrowed |-> b, reserved |-> r]

Start(a, m, t) ==
    [account |-> [x \in Accounts |-> IF x = alice THEN a ELSE NewAccount],
     margin |-> [x \in Accounts |-> IF x = alice THEN m ELSE NewMargin],
     entries |-> [x \in Accounts |->
        IF x = alice /\ a # NoRecord /\ a.version \in {"V0", "V1"} /\ a.supplied > 0
        THEN {"supplied", "farms"} ELSE {}],
     asset |-> t]

OldMargin(v, s, p) == [version |-> v, supplied |-> s, positions |-> p]

MCStarts ==
    {Start(Rich("V0", 1, 0, 0), NoRecord, Old("V0", 1, 0, 1)),
     Start(Rich("V1", 1, 1, 0), NoRecord, [net_tvl_multiplier |-> 2] @@ Old("V1", 2, 0, 0)),
     Start(Rich("V2", 0, 2, 1), NoRecord,
           [net_tvl_multiplier |-> 2, prot_fee |-> 1] @@ Old("V2", 2, 1, 0)),
     Start(Rich("V3", 0, 1, 0), OldMargin("V0", 1, 0),
           [net_tvl_multiplier |-> 2, prot_fee |-> 0, supplied_limit |-> 2,
            borrowed_limit |-> None, max_change_rate |-> 1] @@ Old("V3", 2, 0, 0)),
     Start(Rich("V3", 1, 0, 0), OldMargin("V1", 0, 1),
           [net_tvl_multiplier |-> 2, prot_fee |-> 0, supplied_limit |-> 2,
            borrowed_limit |-> 1, max_change_rate |-> None, holding_position_fee_rate |-> 3,
            margin_debt |-> 0, margin_pending_debt |-> 0,
            margin_position |-> 1] @@ Old("V4", 1, 0, 0)),
     Start(NoRecord, NoRecord,
           [net_tvl_multiplier |-> 2, prot_fee |-> 1, supplied_limit |-> 2,
            borrowed_limit |-> 1, max_change_rate |-> None, holding_position_fee_rate |-> 3,
            margin_debt |-> 0, margin_pending_debt |-> 0,
            margin_position |-> 0, lostfound_shares |-> 1, min_borrowed_amount |-> 1]
                @@ Old("V5", 1, 0, 0)),
     Start(NoRecord, NoRecord, NoAsset)}

MCInitialRules ==
    [max_leverage_rate |-> 2, pending_debt_scale |-> 1, max_slippage_rate |-> 1,
     min_safety_buffer |-> 1, margin_debt_discount_rate |-> 2, open_position_fee_rate |-> 0,
     max_position_action_wait_sec |-> 1, liq_benefit_protocol_rate |-> 1,
     liq_benefit_liquidator_rate |-> 2]

MCRuleChanges == {<<"max_leverage_rate", 1>>, <<"max_slippage_rate", 4>>,
                  <<"min_safety_buffer", 0>>}

Limit(safety, protocol) ==
    [max_leverage_rate |-> 2, max_slippage_rate |-> 1, min_safety_buffer |-> safety,
     liq_benefit_protocol_rate |-> protocol, liq_benefit_liquidator_rate |-> 2,
     min_position |-> 1, max_position |-> 2]

MCLimits == {Limit(2, 2), Limit(1, 3)}
MCRanges == {[f \in DOMAIN Limit(1, 1) |-> <<1, 2>>]}
=============================================================================
