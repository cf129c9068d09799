------------------------------ MODULE Settlement ------------------------------
(***************************************************************************)
(* What the lending contract and the exchange promise of each other when   *)
(* an LP position is settled, by a liquidation or a forced closing: of an  *)
(* account's LP tokens the lending contract counts no more than the        *)
(* exchange covers, but for those a settlement under way has burnt; the    *)
(* accounts a settlement needs are held, by that settlement alone, until   *)
(* it ends; and it ends.  A settlement with a liquidator, of which the     *)
(* exchange has burnt the tokens, may end badly: its parties stay held,    *)
(* and no other settlement ever has them.                                  *)
(*                                                                         *)
(* An abstract specification: Shadow implements it.                        *)
(***************************************************************************)
EXTENDS Integers

CONSTANT Accounts

VARIABLES
    phase,      \* how far the settlement of each account has come
    parties,    \* the accounts it holds
    held,       \* the accounts any settlement holds, or has left held
    stuck,      \* those a settlement has left held when it was given up
    counted,    \* the LP tokens of each account the lending contract counts
    covered,    \* ... the exchange has recorded for it
    burnt       \* ... a settlement has burnt and not yet taken from `counted`

vars == <<phase, parties, held, stuck, counted, covered, burnt>>

Nobody == [a \in Accounts |-> 0]

Init ==
    /\ phase = [a \in Accounts |-> "idle"]
    /\ parties = [a \in Accounts |-> {}]
    /\ held = {}
    /\ stuck = {}
    /\ counted = Nobody
    /\ covered = Nobody
    /\ burnt = Nobody

\* of a stuck account the tokens burnt may still be counted
Promise == \A a \in Accounts \ stuck : counted[a] <= covered[a] + burnt[a]

OnlyAt(f, g, a) == \A b \in Accounts \ {a} : g[b] = f[b]

\* any deposit, withdrawal or move between collateral and supply
Move ==
    /\ Promise'
    /\ UNCHANGED <<phase, parties, held, stuck, burnt>>

\* a party that is held already may not be asked for again, as the account
\* itself; a liquidator may not be held either
Ask(a) ==
    /\ phase[a] = "idle"
    /\ phase' = [phase EXCEPT ![a] = "asked"]
    /\ OnlyAt(parties, parties', a)
    /\ a \in parties'[a]
    /\ parties'[a] \cap held = {}
    /\ held' = held \cup parties'[a]
    /\ UNCHANGED <<stuck, counted, covered, burnt>>

Burn(a) ==
    /\ phase[a] = "asked"
    /\ phase' = [phase EXCEPT ![a] = "burnt"]
    /\ OnlyAt(covered, covered', a)
    /\ burnt' = [burnt EXCEPT ![a] = covered[a] - covered'[a]]
    /\ burnt'[a] > 0
    /\ UNCHANGED <<parties, held, stuck, counted>>

Refuse(a) ==
    /\ phase[a] = "asked"
    /\ phase' = [phase EXCEPT ![a] = "refused"]
    /\ UNCHANGED <<parties, held, stuck, counted, covered, burnt>>

\* all of it at once: what is burnt is taken from what is counted, and every
\* party is free
Settle(a) ==
    /\ phase[a] \in {"burnt", "refused"}
    /\ phase' = [phase EXCEPT ![a] = "idle"]
    /\ parties' = [parties EXCEPT ![a] = {}]
    /\ held' = held \ parties[a]
    /\ counted' = [counted EXCEPT ![a] = @ - burnt[a]]
    /\ burnt' = [burnt EXCEPT ![a] = 0]
    /\ UNCHANGED <<stuck, covered>>

\* what was burnt stays counted, and the parties stay held: never after a
\* refusal, never without a liquidator
GiveUp(a) ==
    /\ phase[a] = "burnt"
    /\ parties[a] # {a}
    /\ phase' = [phase EXCEPT ![a] = "idle"]
    /\ parties' = [parties EXCEPT ![a] = {}]
    /\ stuck' = stuck \cup parties[a]
    /\ burnt' = [burnt EXCEPT ![a] = 0]
    /\ UNCHANGED <<held, counted, covered>>

Next ==
    \/ Move
    \/ \E a \in Accounts : Ask(a) \/ Burn(a) \/ Refuse(a) \/ Settle(a) \/ GiveUp(a)

Spec == Init /\ [][Next]_vars

\* every settlement ends, and frees its parties or is given up
Ends == \A a \in Accounts : a \in held ~> a \notin held \/ a \in stuck

FairSpec == Spec /\ Ends
=============================================================================
