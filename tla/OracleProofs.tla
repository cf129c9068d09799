---------------------------- MODULE OracleProofs ----------------------------
(***************************************************************************)
(* Theorems of Oracles, for every set of accounts, tokens and feeds, every *)
(* price, weight and lifetime of a price, and lists of any length.         *)
(*                                                                         *)
(* A list of actions is run on one function of prices.  What it does to    *)
(* the ledgers holds on those prices, whatever they are: that is the first *)
(* half, an induction on the list.  The second half is about where the     *)
(* prices come from: every call that waits holds answers the market gave   *)
(* since it was sent, and the callback takes none that is too old, so the  *)
(* prices a list is run on are among those the market can answer for.      *)
(***************************************************************************)
EXTENDS Oracles, PoolProofs, SequenceTheorems

-----------------------------------------------------------------------------
(***************************************************************************)
(* Lists of actions.  A list is run by a fold, whose value is CHOSEn among *)
(* the functions that satisfy its recursive equation: there is one, and so *)
(* what holds at the start and survives every action holds at the end.     *)
(***************************************************************************)

\* A non-empty finite set of natural numbers has a greatest member.
LEMMA MaxOf ==
  ASSUME NEW S, IsFiniteSet(S), \A x \in S : x \in Nat, S # {}
  PROVE  Max(S) \in S
<1> DEFINE Bad == {U \in SUBSET S : U # {} /\ ~ \E x \in U : \A y \in U : x >= y}
<1>1. Bad = {}
  <2> SUFFICES ASSUME Bad # {} PROVE FALSE OBVIOUS
  <2>1. PICK m \in Bad : \A U \in Bad : U \subseteq m => U = m
    <3> HIDE DEF Bad
    <3>1. Bad \subseteq SUBSET S BY DEF Bad
    <3> QED BY <3>1, MinimalSubset
  <2>2. PICK a \in m : TRUE BY <2>1
  <2>3. a \in Nat BY <2>1
  <2>4. m \ {a} \notin Bad BY <2>1, <2>2
  <2>5. CASE m \ {a} = {}
    <3>1. \A y \in m : a >= y BY <2>3, <2>5
    <3> QED BY <2>1, <2>2, <3>1
  <2>6. CASE m \ {a} # {}
    <3>1. PICK b \in m \ {a} : \A y \in m \ {a} : b >= y BY <2>1, <2>4, <2>6
    <3>2. b \in Nat /\ \A y \in m : y \in Nat BY <2>1
    <3>3. CASE a >= b
      <4>1. \A y \in m : a >= y BY <2>3, <3>1, <3>2, <3>3
      <4> QED BY <2>1, <4>1
    <3>4. CASE b >= a
      <4>1. \A y \in m : b >= y BY <2>3, <3>1, <3>2, <3>4
      <4> QED BY <2>1, <4>1
    <3> QED BY <2>3, <3>2, <3>3, <3>4
  <2> QED BY <2>5, <2>6
<1>2. \E x \in S : \A y \in S : x >= y BY <1>1
<1> QED BY <1>2 DEF Max

\* one action of a list of margin actions, or of the other lists
Step(on_margin, a, q, w, x) ==
    IF on_margin
    THEN IF ~ w.ok THEN w
         ELSE IF x.do = "margin_increase" THEN MarginIncrease(w, x)
         ELSE MarginDecrease(w, x, q)
    ELSE IF w.ok THEN Perform(a, w, x, q) ELSE w

\* what is left of a run when the places of U have been worked off, the
\* greatest place last
StepOf(run, g, U) ==
    IF U = {} THEN run.start
    ELSE Step(run.margin, run.a, run.q, g[U \ {Max(U)}], run.list[Max(U)])

\* g has what the run comes to for each set of places in S
IsRun(run, g, S) == g = [U \in SUBSET S |-> StepOf(run, g, U)]

\* Two such functions agree wherever both are defined.
LEMMA RunUnique ==
  ASSUME NEW S, IsFiniteSet(S), \A x \in S : x \in Nat, NEW run, NEW g, NEW h,
         NEW T, T \subseteq S, IsRun(run, g, S), IsRun(run, h, T)
  PROVE  \A U \in SUBSET T : g[U] = h[U]
<1> DEFINE Bad == {U \in SUBSET T : g[U] # h[U]}
<1> SUFFICES ASSUME Bad # {} PROVE FALSE OBVIOUS
<1>1. IsFiniteSet(T) BY FS_Subset
<1>2. PICK m \in Bad : \A U \in Bad : U \subseteq m => U = m
  <2> HIDE DEF Bad
  <2>1. Bad \subseteq SUBSET T BY DEF Bad
  <2> QED BY <1>1, <2>1, MinimalSubset
<1>3. g[m] = StepOf(run, g, m) /\ h[m] = StepOf(run, h, m) BY DEF IsRun
<1>4. m # {} BY <1>3 DEF StepOf
<1>5. Max(m) \in m BY <1>1, <1>4, MaxOf, FS_Subset
<1>6. m \ {Max(m)} \notin Bad BY <1>2, <1>5
<1>7. g[m \ {Max(m)}] = h[m \ {Max(m)}] BY <1>6
<1> QED BY <1>3, <1>4, <1>7 DEF StepOf

\* There is one over every finite set of places.
LEMMA RunExists ==
  ASSUME NEW S, IsFiniteSet(S), \A x \in S : x \in Nat, NEW run
  PROVE  \E g : IsRun(run, g, S)
<1> DEFINE Bad == {U \in SUBSET S : ~ \E g : IsRun(run, g, U)}
<1> SUFFICES ASSUME Bad # {} PROVE FALSE OBVIOUS
<1>1. PICK m \in Bad : \A U \in Bad : U \subseteq m => U = m
  <2> HIDE DEF Bad
  <2>1. Bad \subseteq SUBSET S BY DEF Bad
  <2> QED BY <2>1, MinimalSubset
<1>m. IsFiniteSet(m) /\ (\A x \in m : x \in Nat) BY FS_Subset
<1> DEFINE G(U) == CHOOSE g : IsRun(run, g, U)
           Prior(g, U) == Step(run.margin, run.a, run.q, g, run.list[Max(U)])
           val(U) == IF U = m
                     THEN IF m = {} THEN run.start
                          ELSE Prior(G(m \ {Max(m)})[m \ {Max(m)}], m)
                     ELSE G(U)[U]
           k == [U \in SUBSET m |-> val(U)]
<1>2. \A U \in SUBSET m : U # m => IsRun(run, G(U), U)
  <2> TAKE U \in SUBSET m
  <2> HAVE U # m
  <2>1. U \notin Bad BY <1>1
  <2>2. \E g : IsRun(run, g, U) BY <2>1
  <2> QED BY <2>2
<1>a. \A g, U : StepOf(run, g, U) = IF U = {} THEN run.start ELSE Prior(g[U \ {Max(U)}], U)
  BY DEF StepOf
<1>3. ASSUME NEW U \in SUBSET m PROVE  k[U] = StepOf(run, k, U)
  <2> HIDE DEF Prior
  <2>1. CASE U = {}
    <3>1. CASE U = m BY <1>a, <2>1, <3>1
    <3>2. CASE U # m
      <4>1. IsRun(run, G(U), U) BY <1>2, <3>2
      <4> HIDE DEF G
      <4>2. G(U)[U] = run.start BY <1>a, <4>1, <2>1 DEF IsRun
      <4> QED BY <1>a, <4>2, <3>2, <2>1
    <3> QED BY <3>1, <3>2
  <2>2. CASE U # {}
    <3>0. Max(U) \in U BY <1>m, <2>2, MaxOf, FS_Subset
    <3> DEFINE W == U \ {Max(U)}
    <3>1. W \in SUBSET m /\ W # m /\ W \subseteq U /\ W # U BY <3>0
    <3>2. k[W] = G(W)[W] BY <3>1
    <3>3. CASE U = m
       <4> HIDE DEF G
       <4>1. k[U] = Prior(G(W)[W], U) BY <3>3, <2>2
       <4> QED BY <1>a, <3>2, <4>1, <2>2
    <3>4. CASE U # m
      <4>1. IsRun(run, G(U), U) /\ IsRun(run, G(W), W) BY <1>2, <3>1, <3>4
      <4>2. IsFiniteSet(U) /\ (\A x \in U : x \in Nat) BY <1>m, FS_Subset
      <4>5. k[U] = G(U)[U] BY <3>4
      <4> HIDE DEF G, k
      <4>3. G(U)[W] = G(W)[W] BY <4>1, <4>2, <3>1, RunUnique
      <4>4. G(U)[U] = Prior(G(U)[W], U) BY <1>a, <4>1, <2>2 DEF IsRun
      <4> QED BY <1>a, <4>3, <4>4, <4>5, <3>2, <2>2
    <3> QED BY <3>3, <3>4
  <2> QED BY <2>1, <2>2
<1>4. IsRun(run, k, m)
  <2> HIDE DEF val
  <2> QED BY <1>3 DEF IsRun
<1> QED BY <1>4

\* what a list of actions comes to, as internal_execute has it
ListEnd(a, list, q, start) ==
    FoldLeft(LAMBDA w, x : IF w.ok THEN Perform(a, w, x, q) ELSE w, start, list)

\* what a list of margin actions comes to, as internal_margin_execute has it
MarginEnd(list, q, start) ==
    LET Perform1(m, x) == IF ~ m.ok THEN m
                          ELSE IF x.do = "margin_increase" THEN MarginIncrease(m, x)
                          ELSE MarginDecrease(m, x, q)
    IN  FoldLeft(Perform1, start, list)

RunOf(on_margin, a, q, start, list) ==
    [margin |-> on_margin, a |-> a, q |-> q, start |-> start, list |-> list]

\* The end of a list is what such a function has for all its places.
LEMMA ListEndIsRun ==
  ASSUME NEW a, NEW list, IsFiniteSet(DOMAIN list), \A i \in DOMAIN list : i \in Nat, NEW q, NEW start
  PROVE  \E g : /\ IsRun(RunOf(FALSE, a, q, start, list), g, DOMAIN list)
                /\ ListEnd(a, list, q, start) = g[DOMAIN list]
<1> DEFINE run == RunOf(FALSE, a, q, start, list)
           IsEnd(g) == g = [U \in SUBSET DOMAIN list |->
                         IF U = {} THEN start
                         ELSE LET i == Max(U)
                                  w == g[U \ {i}]
                              IN  IF w.ok THEN Perform(a, w, list[i], q) ELSE w]
<1>1. ListEnd(a, list, q, start) = (CHOOSE g : IsEnd(g))[DOMAIN list]
  BY DEF ListEnd, FoldLeft, MapThenFoldSet
<1>2. \A g : IsEnd(g) <=> IsRun(run, g, DOMAIN list)
  BY DEF IsRun, StepOf, Step, RunOf
<1>3. \E g : IsRun(run, g, DOMAIN list) BY RunExists
<1> HIDE DEF run, IsEnd
<1>4. IsEnd(CHOOSE g : IsEnd(g)) BY <1>2, <1>3
<1> QED BY <1>1, <1>2, <1>4 DEF run

\* The end of a list of margin actions is too.
LEMMA MarginEndIsRun ==
  ASSUME NEW a, NEW list, IsFiniteSet(DOMAIN list), \A i \in DOMAIN list : i \in Nat, NEW q, NEW start
  PROVE  \E g : /\ IsRun(RunOf(TRUE, a, q, start, list), g, DOMAIN list)
                /\ MarginEnd(list, q, start) = g[DOMAIN list]
<1> DEFINE run == RunOf(TRUE, a, q, start, list)
           IsEnd(g) == g = [U \in SUBSET DOMAIN list |->
                         IF U = {} THEN start
                         ELSE LET i == Max(U)
                                  w == g[U \ {i}]
                                  x == list[i]
                              IN  IF ~ w.ok THEN w
                                  ELSE IF x.do = "margin_increase" THEN MarginIncrease(w, x)
                                  ELSE MarginDecrease(w, x, q)]
<1>1. MarginEnd(list, q, start) = (CHOOSE g : IsEnd(g))[DOMAIN list]
  BY DEF MarginEnd, FoldLeft, MapThenFoldSet
<1>2. \A g : IsEnd(g) <=> IsRun(run, g, DOMAIN list)
  BY DEF IsRun, StepOf, Step, RunOf
<1>3. \E g : IsRun(run, g, DOMAIN list) BY RunExists
<1> HIDE DEF run, IsEnd
<1>4. IsEnd(CHOOSE g : IsEnd(g)) BY <1>2, <1>3
<1> QED BY <1>1, <1>2, <1>4 DEF run

-----------------------------------------------------------------------------
(***************************************************************************)
(* What is available of an asset, as one account of a list changes.        *)
(***************************************************************************)

\* what an account leaves for others of a token
NetOf(acct, t) == acct.free[t] + acct.collateral[t] - acct.borrowed[t]

\* an account has a position when it pledged or owes anything
Coherent(acct) ==
    \A t \in Tokens : acct.collateral[t] > 0 \/ acct.borrowed[t] > 0 => acct.exists

\* The amounts of an account are natural numbers.
LEMMA AccountAmounts ==
  ASSUME NEW acct \in AccountType
  PROVE  /\ acct.free \in [Tokens -> Nat] /\ acct.collateral \in [Tokens -> Nat]
         /\ acct.borrowed \in [Tokens -> Nat] /\ acct.exists \in BOOLEAN
         /\ \A t \in Tokens : /\ acct.free[t] \in Nat /\ acct.collateral[t] \in Nat
                              /\ acct.borrowed[t] \in Nat /\ NetOf(acct, t) \in Int
         /\ acct = [free |-> acct.free, collateral |-> acct.collateral,
                    borrowed |-> acct.borrowed, exists |-> acct.exists]
BY DEF AccountType, NetOf

\* A function's total is the sum over its domain.
LEMMA TotalIsSum ==
  ASSUME NEW f PROVE Total(f) = SumFunctionOnSet(f, DOMAIN f)
BY DEF Total, FoldFunction, SumFunctionOnSet

\* What is available is the reserve and what the accounts leave.
LEMMA AvailableSum ==
  ASSUME NEW accts \in [Accounts -> AccountType], NEW res \in [Tokens -> Nat], NEW t \in Tokens
  PROVE  /\ Available(accts, res, t)
              = res[t] + SumFunctionOnSet([a \in Accounts |-> NetOf(accts[a], t)], Accounts)
         /\ SumFunctionOnSet([a \in Accounts |-> NetOf(accts[a], t)], Accounts) \in Int
         /\ Available(accts, res, t) \in Int
<1> DEFINE f == [a \in Accounts |-> NetOf(accts[a], t)]
<1>1. f = [a \in Accounts |-> accts[a].free[t] + accts[a].collateral[t] - accts[a].borrowed[t]]
  BY DEF NetOf
<1>2. DOMAIN f = Accounts OBVIOUS
<1>3. \A a \in Accounts : f[a] \in Int BY AccountAmounts
<1> HIDE DEF f
<1>4. Available(accts, res, t) = res[t] + SumFunctionOnSet(f, Accounts)
  BY <1>1, <1>2, TotalIsSum DEF Available
<1>5. SumFunctionOnSet(f, Accounts) \in Int BY <1>3, TokenAssumption, SumInteger
<1> QED BY <1>4, <1>5 DEF f

\* An account that changes alone changes what is available by as much as it
\* leaves more or less, and a reserve by itself.
LEMMA AvailableChange ==
  ASSUME NEW accts \in [Accounts -> AccountType], NEW res \in [Tokens -> Nat],
         NEW after \in [Accounts -> AccountType], NEW left \in [Tokens -> Nat],
         NEW a \in Accounts, \A b \in Accounts \ {a} : after[b] = accts[b],
         NEW t \in Tokens
  PROVE  Available(after, left, t)
            = Available(accts, res, t) - res[t] + left[t]
                - NetOf(accts[a], t) + NetOf(after[a], t)
<1> DEFINE f == [b \in Accounts |-> NetOf(accts[b], t)]
           g == [b \in Accounts |-> NetOf(after[b], t)]
<1>2. f[a] = NetOf(accts[a], t) /\ g[a] = NetOf(after[a], t) OBVIOUS
<1>3. \A b \in Accounts \ {a} : f[b] = g[b] OBVIOUS
<1>4. \A b \in Accounts : accts[b] \in AccountType /\ after[b] \in AccountType OBVIOUS
<1>5. \A b \in Accounts : f[b] \in Int /\ g[b] \in Int
  BY <1>4, AccountAmounts
<1>6. Available(accts, res, t) = res[t] + SumFunctionOnSet(f, Accounts)
      /\ SumFunctionOnSet(f, Accounts) \in Int
  BY AvailableSum
<1>7. Available(after, left, t) = left[t] + SumFunctionOnSet(g, Accounts)
  BY AvailableSum
<1> HIDE DEF f, g
<1>8. SumFunctionOnSet(g, Accounts) = SumFunctionOnSet(f, Accounts) - f[a] + g[a]
  <2>1. IsFiniteSet(Accounts) BY TokenAssumption
  <2>2. \A x \in Accounts \ {a} : f[x] = g[x] BY <1>3
  <2> QED BY <2>1, <2>2, <1>5, SumChangeInteger
<1>9. res[t] \in Nat /\ left[t] \in Nat /\ f[a] \in Int /\ g[a] \in Int BY <1>5
<1>10. Available(after, left, t) = Available(accts, res, t) - res[t] + left[t] - f[a] + g[a]
  BY <1>6, <1>7, <1>8, <1>9
<1> QED BY <1>2, <1>10

\* Two accounts that change, with the reserve.
LEMMA AvailableChanges ==
  ASSUME NEW accts \in [Accounts -> AccountType], NEW res \in [Tokens -> Nat],
         NEW after \in [Accounts -> AccountType], NEW left \in [Tokens -> Nat],
         NEW a \in Accounts, NEW b \in Accounts, b # a,
         \A c \in Accounts \ {a, b} : after[c] = accts[c],
         NEW t \in Tokens
  PROVE  Available(after, left, t)
            = Available(accts, res, t) - res[t] + left[t]
                - NetOf(accts[b], t) + NetOf(after[b], t)
                - NetOf(accts[a], t) + NetOf(after[a], t)
<1> DEFINE mid == [accts EXCEPT ![b] = after[b]]
<1>1. /\ mid \in [Accounts -> AccountType] /\ mid[a] = accts[a] /\ mid[b] = after[b]
      /\ \A c \in Accounts \ {b} : mid[c] = accts[c]
      /\ \A c \in Accounts \ {a} : after[c] = mid[c]
  OBVIOUS
<1> HIDE DEF mid
<1>2. Available(mid, left, t)
        = Available(accts, res, t) - res[t] + left[t] - NetOf(accts[b], t) + NetOf(mid[b], t)
  BY <1>1, AvailableChange
<1>3. Available(after, left, t)
        = Available(mid, left, t) - left[t] + left[t] - NetOf(mid[a], t) + NetOf(after[a], t)
  BY <1>1, AvailableChange
<1>4. /\ NetOf(accts[a], t) \in Int /\ NetOf(accts[b], t) \in Int
      /\ NetOf(after[a], t) \in Int /\ NetOf(after[b], t) \in Int
      /\ res[t] \in Nat /\ left[t] \in Nat /\ Available(accts, res, t) \in Int
  <2>1. \A c \in Accounts : accts[c] \in AccountType /\ after[c] \in AccountType OBVIOUS
  <2> QED BY <2>1, AccountAmounts, AvailableSum
<1>5. NetOf(mid[a], t) = NetOf(accts[a], t) /\ NetOf(mid[b], t) = NetOf(after[b], t) BY <1>1
<1> QED BY <1>2, <1>3, <1>4, <1>5

-----------------------------------------------------------------------------
(***************************************************************************)
(* What a list keeps.  `s` is where its run starts, `w` where it is.       *)
(***************************************************************************)

\* the caller's copy in place of what is stored of it
Stored(a, w) == [w.accounts EXCEPT ![a] = w.own]

OwesNoMore(after, before) == \A t \in Tokens : after.borrowed[t] <= before.borrowed[t]

\* what others took of a position they took because it was at risk
Seized(q, before, after) ==
    /\ OwesNoMore(after, before)
    /\ after # before => PositionTokens(before) \subseteq DOMAIN q /\ AtRisk(before, q)

RunAt(w, own, accounts, res) ==
    w = [ok |-> w.ok, own |-> own, accounts |-> accounts, reserved |-> res]

\* amounts are natural numbers, positions exist, nothing is minted; without a
\* loan or a withdrawal the caller's risk does not grow; others are seized
\* from only at risk
SoundRun(a, q, s, needs, w) ==
    /\ RunAt(w, w.own, w.accounts, w.reserved)
    /\ w.own \in AccountType /\ w.accounts \in [Accounts -> AccountType]
    /\ w.reserved \in [Tokens -> Nat]
    /\ Coherent(w.own) /\ \A b \in Accounts : Coherent(w.accounts[b])
    /\ \A t \in Tokens : Available(Stored(a, w), w.reserved, t)
                           = Available(Stored(a, s), s.reserved, t)
    /\ needs \/ \A t \in Tokens : /\ w.own.borrowed[t] <= s.own.borrowed[t]
                                  /\ w.own.collateral[t] >= s.own.collateral[t]
    /\ \A b \in Accounts \ {a} : Seized(q, s.accounts[b], w.accounts[b])

\* where a run starts
RunStart(a) == [ok |-> TRUE, own |-> account[a], accounts |-> account, reserved |-> reserved]

\* A run is sound at its start.
LEMMA SoundStart ==
  ASSUME account \in [Accounts -> AccountType], reserved \in [Tokens -> Nat],
         \A b \in Accounts : Coherent(account[b]), NEW a \in Accounts, NEW q, NEW needs
  PROVE  SoundRun(a, q, RunStart(a), needs, RunStart(a))
<1> DEFINE s == RunStart(a)
<1>1. s.own = account[a] /\ s.accounts = account /\ s.reserved = reserved
      /\ RunAt(s, s.own, s.accounts, s.reserved)
  BY DEF RunStart, RunAt
<1> HIDE DEF s
<1>2. \A b \in Accounts, t \in Tokens : /\ account[b].borrowed[t] \in Nat
                                        /\ account[b].collateral[t] \in Nat
  BY AccountAmounts
<1>3. \A b \in Accounts : Seized(q, s.accounts[b], s.accounts[b])
  BY <1>1, <1>2 DEF Seized, OwesNoMore
<1> QED BY <1>1, <1>2, <1>3 DEF SoundRun, s

\* A step that changes the caller's copy, and nothing that it leaves to
\* others, keeps a run sound.
LEMMA OwnChange ==
  ASSUME NEW a \in Accounts, NEW q, NEW s, NEW needs \in BOOLEAN, NEW w,
         SoundRun(a, q, s, needs, w),
         s.own \in AccountType,
         NEW own \in AccountType, Coherent(own),
         \A t \in Tokens : NetOf(own, t) = NetOf(w.own, t),
         needs \/ \A t \in Tokens : /\ own.borrowed[t] <= w.own.borrowed[t]
                                    /\ own.collateral[t] >= w.own.collateral[t],
         NEW v, RunAt(v, own, w.accounts, w.reserved)
  PROVE  SoundRun(a, q, s, needs, v)
<1>1. v.own = own /\ v.accounts = w.accounts /\ v.reserved = w.reserved
      /\ RunAt(v, v.own, v.accounts, v.reserved)
  BY DEF RunAt
<1>2. w.own \in AccountType /\ w.accounts \in [Accounts -> AccountType]
      /\ w.reserved \in [Tokens -> Nat]
  BY DEF SoundRun
<1>3. ASSUME NEW t \in Tokens
      PROVE  Available(Stored(a, v), v.reserved, t) = Available(Stored(a, s), s.reserved, t)
  <2> DEFINE before == Stored(a, w)
             after == Stored(a, v)
             was == w.reserved
  <2>1. /\ before \in [Accounts -> AccountType] /\ after \in [Accounts -> AccountType]
        /\ was \in [Tokens -> Nat] /\ before[a] = w.own /\ after[a] = own
        /\ \A b \in Accounts \ {a} : after[b] = before[b]
    BY <1>1, <1>2 DEF Stored
  <2>2. Available(before, was, t) = Available(Stored(a, s), s.reserved, t)
    BY DEF SoundRun
  <2>3. NetOf(own, t) = NetOf(w.own, t) OBVIOUS
  <2> HIDE DEF before, after, was
  <2>4. Available(after, was, t)
          = Available(before, was, t) - was[t] + was[t] - NetOf(before[a], t) + NetOf(after[a], t)
    BY <2>1, AvailableChange
  <2>5. /\ NetOf(before[a], t) \in Int /\ NetOf(after[a], t) \in Int /\ was[t] \in Nat
        /\ Available(before, was, t) \in Int
    <3>1. before[a] \in AccountType /\ after[a] \in AccountType BY <2>1
    <3> QED BY <2>1, <3>1, AccountAmounts, AvailableSum
  <2>6. NetOf(before[a], t) = NetOf(after[a], t) BY <2>1, <2>3
  <2>7. Available(after, was, t) = Available(before, was, t) BY <2>4, <2>5, <2>6
  <2> QED BY <1>1, <2>2, <2>7 DEF after, before, was
<1>4. needs \/ \A t \in Tokens : /\ own.borrowed[t] <= s.own.borrowed[t]
                                 /\ own.collateral[t] >= s.own.collateral[t]
  <2> SUFFICES ASSUME ~ needs, NEW t \in Tokens
               PROVE  /\ own.borrowed[t] <= s.own.borrowed[t]
                      /\ own.collateral[t] >= s.own.collateral[t]
    OBVIOUS
  <2>1. /\ own.borrowed[t] <= w.own.borrowed[t] /\ own.collateral[t] >= w.own.collateral[t]
    OBVIOUS
  <2>2. /\ w.own.borrowed[t] <= s.own.borrowed[t] /\ w.own.collateral[t] >= s.own.collateral[t]
    BY DEF SoundRun
  <2>3. /\ own.borrowed[t] \in Nat /\ w.own.borrowed[t] \in Nat /\ s.own.borrowed[t] \in Nat
        /\ own.collateral[t] \in Nat /\ w.own.collateral[t] \in Nat /\ s.own.collateral[t] \in Nat
    BY <1>2, AccountAmounts
  <2> QED BY <2>1, <2>2, <2>3
<1>5. (\A b \in Accounts : Coherent(w.accounts[b]))
      /\ \A b \in Accounts \ {a} : Seized(q, s.accounts[b], w.accounts[b])
  BY DEF SoundRun
<1> QED BY <1>1, <1>2, <1>3, <1>4, <1>5 DEF SoundRun

\* what two accounts and the reserve leave together stays as it is
EvensOut(w, own, b, left, res) ==
    \A t \in Tokens : NetOf(own, t) + NetOf(left, t) + res[t]
                        = NetOf(w.own, t) + NetOf(w.accounts[b], t) + w.reserved[t]

\* What two accounts and the reserve keep together stays available.
LEMMA AvailableKept ==
  ASSUME NEW before \in [Accounts -> AccountType], NEW was \in [Tokens -> Nat],
         NEW after \in [Accounts -> AccountType], NEW res \in [Tokens -> Nat],
         NEW a \in Accounts, NEW b \in Accounts, b # a,
         \A c \in Accounts \ {a, b} : after[c] = before[c],
         NEW t \in Tokens,
         NetOf(after[a], t) + NetOf(after[b], t) + res[t]
           = NetOf(before[a], t) + NetOf(before[b], t) + was[t]
  PROVE  Available(after, res, t) = Available(before, was, t)
<1>1. Available(after, res, t)
          = Available(before, was, t) - was[t] + res[t]
              - NetOf(before[b], t) + NetOf(after[b], t) - NetOf(before[a], t) + NetOf(after[a], t)
  BY AvailableChanges, SMTT(60)
<1>2. /\ NetOf(before[a], t) \in Int /\ NetOf(after[a], t) \in Int
      /\ NetOf(before[b], t) \in Int /\ NetOf(after[b], t) \in Int
      /\ res[t] \in Nat /\ was[t] \in Nat /\ Available(before, was, t) \in Int
  <2>1. \A c \in Accounts : before[c] \in AccountType /\ after[c] \in AccountType OBVIOUS
  <2> QED BY <2>1, AccountAmounts, AvailableSum
<1> QED BY <1>1, <1>2

\* So does a step that changes the account of another too, and the reserve,
\* when it was at risk or has been changed before.
LEMMA OtherChange ==
  ASSUME NEW a \in Accounts, NEW q, NEW s, NEW needs \in BOOLEAN, NEW w,
         SoundRun(a, q, s, needs, w),
         s.own \in AccountType, s.accounts \in [Accounts -> AccountType],
         NEW own \in AccountType, Coherent(own),
         own.borrowed = w.own.borrowed, own.collateral = w.own.collateral,
         NEW b \in Accounts \ {a}, NEW left \in AccountType, Coherent(left),
         NEW res \in [Tokens -> Nat],
         EvensOut(w, own, b, left, res),
         OwesNoMore(left, w.accounts[b]),
         PositionTokens(w.accounts[b]) \subseteq DOMAIN q, AtRisk(w.accounts[b], q),
         NEW v, RunAt(v, own, [w.accounts EXCEPT ![b] = left], res)
  PROVE  SoundRun(a, q, s, needs, v)
<1> DEFINE after == [w.accounts EXCEPT ![b] = left]
<1>1. v.own = own /\ v.accounts = after /\ v.reserved = res
      /\ RunAt(v, v.own, v.accounts, v.reserved)
  BY DEF RunAt
<1>2. w.own \in AccountType /\ w.accounts \in [Accounts -> AccountType]
      /\ w.reserved \in [Tokens -> Nat]
  BY DEF SoundRun
<1>3. after \in [Accounts -> AccountType] /\ after[b] = left
      /\ \A c \in Accounts \ {b} : after[c] = w.accounts[c]
  BY <1>2
<1> HIDE DEF after
<1>4. ASSUME NEW t \in Tokens
      PROVE  Available(Stored(a, v), v.reserved, t) = Available(Stored(a, s), s.reserved, t)
  <2> DEFINE before == Stored(a, w)
             later == Stored(a, v)
             was == w.reserved
  <2>1. /\ before \in [Accounts -> AccountType] /\ later \in [Accounts -> AccountType]
        /\ was \in [Tokens -> Nat] /\ before[a] = w.own /\ later[a] = own
        /\ before[b] = w.accounts[b] /\ later[b] = left
        /\ \A c \in Accounts \ {a, b} : later[c] = before[c]
    BY <1>1, <1>2, <1>3 DEF Stored
  <2>2. NetOf(own, t) + NetOf(left, t) + res[t]
          = NetOf(w.own, t) + NetOf(w.accounts[b], t) + was[t]
    BY DEF EvensOut
  <2>3. Available(before, was, t) = Available(Stored(a, s), s.reserved, t)
    BY DEF SoundRun
  <2> HIDE DEF before, later, was
  <2>4. NetOf(later[a], t) + NetOf(later[b], t) + res[t]
          = NetOf(before[a], t) + NetOf(before[b], t) + was[t]
    BY <2>1, <2>2
  <2>7. Available(later, res, t) = Available(before, was, t)
    <3>1. a \in Accounts /\ b \in Accounts /\ b # a OBVIOUS
    <3> QED BY <2>1, <2>4, <3>1, AvailableKept
  <2> QED BY <1>1, <2>3, <2>7 DEF before, later, was
<1>5. needs \/ \A t \in Tokens : /\ own.borrowed[t] <= s.own.borrowed[t]
                                 /\ own.collateral[t] >= s.own.collateral[t]
  BY DEF SoundRun
<1>6. \A c \in Accounts : Coherent(after[c])
  BY <1>3 DEF SoundRun
<1>7. ASSUME NEW c \in Accounts \ {a} PROVE Seized(q, s.accounts[c], after[c])
  <2>1. Seized(q, s.accounts[c], w.accounts[c]) BY DEF SoundRun
  <2>2. CASE c # b BY <1>3, <2>1, <2>2
  <2>3. CASE c = b
    <3>1. \A t \in Tokens : left.borrowed[t] <= s.accounts[c].borrowed[t]
      <4> TAKE t \in Tokens
      <4>1. left.borrowed[t] <= w.accounts[c].borrowed[t] BY <2>3 DEF OwesNoMore
      <4>2. w.accounts[c].borrowed[t] <= s.accounts[c].borrowed[t]
        BY <2>1 DEF Seized, OwesNoMore
      <4>3. /\ left.borrowed[t] \in Nat /\ w.accounts[c].borrowed[t] \in Nat
            /\ s.accounts[c].borrowed[t] \in Nat
        BY <1>2, AccountAmounts
      <4> QED BY <4>1, <4>2, <4>3
    <3>2. PositionTokens(s.accounts[c]) \subseteq DOMAIN q /\ AtRisk(s.accounts[c], q)
      BY <2>1, <2>3 DEF Seized
    <3>3. after[c] = left BY <1>3, <2>3
    <3> QED BY <3>1, <3>2, <3>3 DEF Seized, OwesNoMore
  <2> QED BY <2>2, <2>3
<1> QED BY <1>1, <1>3, <1>4, <1>5, <1>6, <1>7 DEF SoundRun

-----------------------------------------------------------------------------
(***************************************************************************)
(* Every action of a list keeps a run sound.                               *)
(***************************************************************************)

\* what an account is made of
MadeOf(free, collateral, borrowed, exists) ==
    [free |-> free, collateral |-> collateral, borrowed |-> borrowed, exists |-> exists]

\* An amount that is added, and one that is there and taken.
LEMMA AmountChange ==
  ASSUME NEW f \in [Tokens -> Nat], NEW t \in Tokens, NEW n \in Nat
  PROVE  /\ [f EXCEPT ![t] = @ + n] \in [Tokens -> Nat]
         /\ [f EXCEPT ![t] = @ + n][t] = f[t] + n
         /\ \A u \in Tokens \ {t} : [f EXCEPT ![t] = @ + n][u] = f[u]
         /\ n <= f[t] => [f EXCEPT ![t] = @ - n] \in [Tokens -> Nat]
         /\ [f EXCEPT ![t] = @ - n][t] = f[t] - n
         /\ \A u \in Tokens \ {t} : [f EXCEPT ![t] = @ - n][u] = f[u]
OBVIOUS

\* The record that each action makes of the caller's copy.
LEMMA IncreaseResult ==
  ASSUME NEW w, RunAt(w, w.own, w.accounts, w.reserved),
         w.own = MadeOf(w.own.free, w.own.collateral, w.own.borrowed, w.own.exists),
         NEW x, NEW v, v = Increase(w, x)
  PROVE  /\ RunAt(v, v.own, w.accounts, w.reserved)
         /\ v.own = MadeOf([w.own.free EXCEPT ![x.token] = @ - x.amount],
                           [w.own.collateral EXCEPT ![x.token] = @ + x.amount],
                           w.own.borrowed, TRUE)
         /\ v.ok = (0 < x.amount /\ x.amount <= w.own.free[x.token])
<1>1. RunAt(v, v.own, w.accounts, w.reserved) BY DEF RunAt, MadeOf, Increase
<1>2. v.own = MadeOf([w.own.free EXCEPT ![x.token] = @ - x.amount],
                     [w.own.collateral EXCEPT ![x.token] = @ + x.amount], w.own.borrowed, TRUE)
  BY DEF RunAt, MadeOf, Increase
<1>3. v.ok = (0 < x.amount /\ x.amount <= w.own.free[x.token])
  BY DEF RunAt, MadeOf, Increase
<1> QED BY <1>1, <1>2, <1>3

\* Collateral comes out of the caller's supply.
LEMMA IncreaseSound ==
  ASSUME NEW a \in Accounts, NEW q, NEW s, NEW needs \in BOOLEAN, NEW w,
         SoundRun(a, q, s, needs, w), s.own \in AccountType,
         NEW x, x.token \in Tokens, x.amount \in Nat, Increase(w, x).ok
  PROVE  SoundRun(a, q, s, needs, Increase(w, x))
<1> DEFINE u == w.own
           free == [u.free EXCEPT ![x.token] = @ - x.amount]
           collateral == [u.collateral EXCEPT ![x.token] = @ + x.amount]
           v == Increase(w, x)
           own == v.own
           n == x.amount
           z == x.token
<1>1. u \in AccountType /\ RunAt(w, u, w.accounts, w.reserved) BY DEF SoundRun
<1>2. /\ u.free \in [Tokens -> Nat] /\ u.collateral \in [Tokens -> Nat]
      /\ u.borrowed \in [Tokens -> Nat]
      /\ u = MadeOf(u.free, u.collateral, u.borrowed, u.exists)
  BY <1>1, AccountAmounts DEF MadeOf
<1>3. /\ RunAt(v, own, w.accounts, w.reserved) /\ n <= u.free[z]
      /\ own = MadeOf(free, collateral, u.borrowed, TRUE)
  BY <1>1, <1>2, IncreaseResult
<1>4. /\ free \in [Tokens -> Nat] /\ free[z] = u.free[z] - n
      /\ \A t \in Tokens \ {z} : free[t] = u.free[t]
  BY <1>2, <1>3, AmountChange
<1>5. /\ collateral \in [Tokens -> Nat] /\ collateral[z] = u.collateral[z] + n
      /\ \A t \in Tokens \ {z} : collateral[t] = u.collateral[t]
  BY <1>2, AmountChange
<1> HIDE DEF free, collateral, own
<1>6. own \in AccountType /\ own.free = free /\ own.collateral = collateral
      /\ own.borrowed = u.borrowed /\ own.exists = TRUE
  <2> HIDE DEF u
  <2>1. /\ free \in [Tokens -> Nat] /\ collateral \in [Tokens -> Nat]
        /\ u.borrowed \in [Tokens -> Nat] /\ own = MadeOf(free, collateral, u.borrowed, TRUE)
    BY <1>2, <1>3, <1>4, <1>5
  <2> QED BY <2>1 DEF MadeOf, AccountType
<1> HIDE DEF v, n, z
<1>7. Coherent(own) BY <1>6 DEF Coherent
<1>8. n \in Nat /\ z \in Tokens BY DEF n, z
<1>9. \A t \in Tokens : NetOf(own, t) = NetOf(u, t) /\ own.collateral[t] >= u.collateral[t]
                        /\ own.borrowed[t] <= u.borrowed[t]
  <2> HIDE DEF u
  <2> TAKE t \in Tokens
  <2>1. u.free[t] \in Nat /\ u.collateral[t] \in Nat /\ u.borrowed[t] \in Nat BY <1>2
  <2>2. CASE t = z
    BY <1>4, <1>5, <1>6, <1>8, <2>1, <2>2 DEF NetOf
  <2>3. CASE t # z
    BY <1>4, <1>5, <1>6, <2>1, <2>3 DEF NetOf
  <2> QED BY <2>2, <2>3
<1>10. SoundRun(a, q, s, needs, v)
  <2> HIDE DEF u
  <2>1. \A t \in Tokens : NetOf(own, t) = NetOf(w.own, t) BY <1>9 DEF u
  <2>2. needs \/ \A t \in Tokens : /\ own.borrowed[t] <= w.own.borrowed[t]
                                   /\ own.collateral[t] >= w.own.collateral[t]
    BY <1>9 DEF u
  <2> QED BY <1>3, <1>6, <1>7, <2>1, <2>2, OwnChange
<1> QED BY <1>10 DEF v

\* Collateral that is there leaves a position, which goes with its last
\* token and debt.
LEMMA UnpledgeResult ==
  ASSUME NEW acct \in AccountType, NEW z \in Tokens, NEW n \in Nat, CanUnpledge(acct, z, n),
         NEW left, left = Unpledge(acct, z, n)
  PROVE  /\ left \in AccountType /\ Coherent(left)
         /\ left.free = acct.free /\ left.borrowed = acct.borrowed
         /\ left.collateral[z] = acct.collateral[z] - n
         /\ \A t \in Tokens \ {z} : left.collateral[t] = acct.collateral[t]
<1> DEFINE collateral == [acct.collateral EXCEPT ![z] = @ - n]
           taken == [acct EXCEPT !.collateral[z] = @ - n]
           exists == Pledged(taken) # {} \/ Borrowed(taken) # {}
<1>1. /\ acct.free \in [Tokens -> Nat] /\ acct.collateral \in [Tokens -> Nat]
      /\ acct.borrowed \in [Tokens -> Nat]
      /\ acct = [free |-> acct.free, collateral |-> acct.collateral,
                 borrowed |-> acct.borrowed, exists |-> acct.exists]
  BY AccountAmounts
<1>2. n <= acct.collateral[z] BY DEF CanUnpledge
<1>3. /\ collateral \in [Tokens -> Nat] /\ collateral[z] = acct.collateral[z] - n
      /\ \A t \in Tokens \ {z} : collateral[t] = acct.collateral[t]
  BY <1>1, <1>2, AmountChange
<1>4. taken = [free |-> acct.free, collateral |-> collateral,
               borrowed |-> acct.borrowed, exists |-> acct.exists]
  BY <1>1
<1> HIDE DEF collateral
<1>5. taken.collateral = collateral /\ taken.borrowed = acct.borrowed BY <1>4
<1>6. left = [taken EXCEPT !.exists = exists] BY DEF Unpledge
<1> HIDE DEF taken
<1>7. left = [free |-> acct.free, collateral |-> collateral,
              borrowed |-> acct.borrowed, exists |-> exists]
  BY <1>4, <1>6
<1>8. exists \in BOOLEAN OBVIOUS
<1>9. \A t \in Tokens : collateral[t] > 0 \/ acct.borrowed[t] > 0 => exists
  BY <1>5 DEF Pledged, Borrowed
<1> HIDE DEF exists
<1>10. left \in AccountType BY <1>1, <1>3, <1>7, <1>8 DEF AccountType
<1>11. Coherent(left) BY <1>7, <1>9 DEF Coherent
<1> QED BY <1>3, <1>7, <1>10, <1>11

Repaid(acct, z, n) == [acct EXCEPT !.borrowed[z] = @ - n]

\* A debt that is there shrinks.
LEMMA RepaidResult ==
  ASSUME NEW acct \in AccountType, Coherent(acct), NEW z \in Tokens, NEW n \in Nat,
         n <= acct.borrowed[z], NEW left, left = Repaid(acct, z, n)
  PROVE  /\ left \in AccountType /\ Coherent(left)
         /\ left.free = acct.free /\ left.collateral = acct.collateral
         /\ left.borrowed[z] = acct.borrowed[z] - n
         /\ \A t \in Tokens \ {z} : left.borrowed[t] = acct.borrowed[t]
<1> DEFINE borrowed == [acct.borrowed EXCEPT ![z] = @ - n]
<1>1. /\ acct.free \in [Tokens -> Nat] /\ acct.collateral \in [Tokens -> Nat]
      /\ acct.borrowed \in [Tokens -> Nat] /\ acct.exists \in BOOLEAN
      /\ acct = [free |-> acct.free, collateral |-> acct.collateral,
                 borrowed |-> acct.borrowed, exists |-> acct.exists]
  BY AccountAmounts
<1>2. /\ borrowed \in [Tokens -> Nat] /\ borrowed[z] = acct.borrowed[z] - n
      /\ \A t \in Tokens \ {z} : borrowed[t] = acct.borrowed[t]
  BY <1>1, AmountChange
<1>3. left = [free |-> acct.free, collateral |-> acct.collateral,
              borrowed |-> borrowed, exists |-> acct.exists]
  BY <1>1 DEF Repaid
<1> HIDE DEF borrowed
<1>4. left \in AccountType BY <1>1, <1>2, <1>3 DEF AccountType
<1>5. Coherent(left)
  <2> SUFFICES ASSUME NEW t \in Tokens, acct.collateral[t] > 0 \/ borrowed[t] > 0
               PROVE  acct.exists
    BY <1>3 DEF Coherent
  <2>1. acct.borrowed[t] \in Nat /\ borrowed[t] \in Nat /\ acct.borrowed[z] \in Nat
    BY <1>1, <1>2
  <2>2. borrowed[t] > 0 => acct.borrowed[t] > 0 BY <1>2, <2>1
  <2> QED BY <2>2 DEF Coherent
<1> QED BY <1>2, <1>3, <1>4, <1>5

\* The supply changes by itself.
LEMMA SupplyResult ==
  ASSUME NEW acct \in AccountType, Coherent(acct), NEW free \in [Tokens -> Nat],
         NEW left, left = MadeOf(free, acct.collateral, acct.borrowed, acct.exists)
  PROVE  /\ left \in AccountType /\ Coherent(left) /\ left.free = free
         /\ left.collateral = acct.collateral /\ left.borrowed = acct.borrowed
<1>1. /\ acct.collateral \in [Tokens -> Nat]
      /\ acct.borrowed \in [Tokens -> Nat] /\ acct.exists \in BOOLEAN
  BY AccountAmounts
<1>2. left = [free |-> free, collateral |-> acct.collateral,
              borrowed |-> acct.borrowed, exists |-> acct.exists]
  BY DEF MadeOf
<1>3. left \in AccountType BY <1>1, <1>2 DEF AccountType
<1>4. Coherent(left) BY <1>2 DEF Coherent
<1> QED BY <1>2, <1>3, <1>4

Gained(acct, z, n) == [acct EXCEPT !.free[z] = @ + n]
Paid(acct, z, n) == [acct EXCEPT !.free[z] = @ - n]

\* A supply that grows.
LEMMA GainResult ==
  ASSUME NEW acct \in AccountType, Coherent(acct), NEW z \in Tokens, NEW n \in Nat
  PROVE  /\ Gained(acct, z, n) \in AccountType /\ Coherent(Gained(acct, z, n))
         /\ Gained(acct, z, n).collateral = acct.collateral /\ Gained(acct, z, n).borrowed = acct.borrowed
         /\ Gained(acct, z, n).free[z] = acct.free[z] + n
         /\ \A t \in Tokens \ {z} : Gained(acct, z, n).free[t] = acct.free[t]
<1> DEFINE free == [acct.free EXCEPT ![z] = @ + n]
<1> DEFINE left == Gained(acct, z, n)
<1>1. /\ acct.free \in [Tokens -> Nat]
      /\ acct = [free |-> acct.free, collateral |-> acct.collateral,
                 borrowed |-> acct.borrowed, exists |-> acct.exists]
  BY AccountAmounts
<1>2. /\ free \in [Tokens -> Nat] /\ free[z] = acct.free[z] + n
      /\ \A t \in Tokens \ {z} : free[t] = acct.free[t]
  BY <1>1, AmountChange
<1>3. left = MadeOf(free, acct.collateral, acct.borrowed, acct.exists)
  BY <1>1 DEF MadeOf, Gained
<1> HIDE DEF free, left
<1>4. /\ left \in AccountType /\ Coherent(left) /\ left.free = free
      /\ left.collateral = acct.collateral /\ left.borrowed = acct.borrowed
  BY <1>2, <1>3, SupplyResult
<1> QED BY <1>2, <1>4 DEF left

\* A supply that an amount is taken from that is there.
LEMMA PaidResult ==
  ASSUME NEW acct \in AccountType, Coherent(acct), NEW z \in Tokens, NEW n \in Nat, n <= acct.free[z]
  PROVE  /\ Paid(acct, z, n) \in AccountType /\ Coherent(Paid(acct, z, n))
         /\ Paid(acct, z, n).collateral = acct.collateral /\ Paid(acct, z, n).borrowed = acct.borrowed
         /\ Paid(acct, z, n).free[z] = acct.free[z] - n
         /\ \A t \in Tokens \ {z} : Paid(acct, z, n).free[t] = acct.free[t]
<1> DEFINE free == [acct.free EXCEPT ![z] = @ - n]
<1> DEFINE left == Paid(acct, z, n)
<1>1. /\ acct.free \in [Tokens -> Nat]
      /\ acct = [free |-> acct.free, collateral |-> acct.collateral,
                 borrowed |-> acct.borrowed, exists |-> acct.exists]
  BY AccountAmounts
<1>2. /\ free \in [Tokens -> Nat] /\ free[z] = acct.free[z] - n
      /\ \A t \in Tokens \ {z} : free[t] = acct.free[t]
  BY <1>1, AmountChange
<1>3. left = MadeOf(free, acct.collateral, acct.borrowed, acct.exists)
  BY <1>1 DEF MadeOf, Paid
<1> HIDE DEF free, left
<1>4. /\ left \in AccountType /\ Coherent(left) /\ left.free = free
      /\ left.collateral = acct.collateral /\ left.borrowed = acct.borrowed
  BY <1>2, <1>3, SupplyResult
<1> QED BY <1>2, <1>4 DEF left

\* The record that a withdrawal of collateral makes of the caller's copy.
LEMMA DecreaseResult ==
  ASSUME NEW w, RunAt(w, w.own, w.accounts, w.reserved), NEW x, NEW v, v = Decrease(w, x)
  PROVE  /\ RunAt(v, v.own, w.accounts, w.reserved)
         /\ v.own = Gained(Unpledge(w.own, x.token, x.amount), x.token, x.amount)
         /\ v.ok = CanUnpledge(w.own, x.token, x.amount)
<1> DEFINE own == [Unpledge(w.own, x.token, x.amount) EXCEPT !.free[x.token] = @ + x.amount]
           ok == CanUnpledge(w.own, x.token, x.amount)
<1>1. v = [w EXCEPT !.ok = ok, !.own = own] BY DEF Decrease
<1> HIDE DEF own, ok
<1>2. v = [ok |-> ok, own |-> own, accounts |-> w.accounts, reserved |-> w.reserved]
  BY <1>1 DEF RunAt
<1>3. RunAt(v, v.own, w.accounts, w.reserved) /\ v.own = own /\ v.ok = ok BY <1>2 DEF RunAt
<1> QED BY <1>3 DEF own, ok, Gained

\* A withdrawal moves collateral to the caller's supply.
LEMMA DecreaseSound ==
  ASSUME NEW a \in Accounts, NEW q, NEW s, NEW needs \in BOOLEAN, needs, NEW w,
         SoundRun(a, q, s, needs, w), s.own \in AccountType,
         NEW x, x.token \in Tokens, x.amount \in Nat, Decrease(w, x).ok
  PROVE  SoundRun(a, q, s, needs, Decrease(w, x))
<1> DEFINE u == w.own
           v == Decrease(w, x)
           n == x.amount
           z == x.token
           mid == Unpledge(u, z, n)
           own == v.own
<1>1. u \in AccountType /\ Coherent(u) /\ RunAt(w, u, w.accounts, w.reserved) BY DEF SoundRun
<1>2. /\ RunAt(v, own, w.accounts, w.reserved) /\ CanUnpledge(u, z, n)
      /\ own = Gained(mid, z, n)
  BY <1>1, DecreaseResult
<1>3. n \in Nat /\ z \in Tokens OBVIOUS
<1> HIDE DEF u, v, n, z, own, mid
<1>4. /\ mid \in AccountType /\ Coherent(mid) /\ mid.free = u.free /\ mid.borrowed = u.borrowed
      /\ mid.collateral[z] = u.collateral[z] - n
      /\ \A t \in Tokens \ {z} : mid.collateral[t] = u.collateral[t]
  BY <1>1, <1>2, <1>3, UnpledgeResult DEF mid
<1>5. /\ own \in AccountType /\ Coherent(own) /\ own.collateral = mid.collateral
      /\ own.borrowed = mid.borrowed /\ own.free[z] = mid.free[z] + n
      /\ \A t \in Tokens \ {z} : own.free[t] = mid.free[t]
  <2>1. mid \in AccountType /\ Coherent(mid) /\ own = Gained(mid, z, n) BY <1>2, <1>4
  <2>2. /\ Gained(mid, z, n) \in AccountType /\ Coherent(Gained(mid, z, n))
        /\ Gained(mid, z, n).collateral = mid.collateral
        /\ Gained(mid, z, n).borrowed = mid.borrowed
        /\ Gained(mid, z, n).free[z] = mid.free[z] + n
        /\ \A t \in Tokens \ {z} : Gained(mid, z, n).free[t] = mid.free[t]
    BY <1>3, <2>1, GainResult, ZenonT(120)
  <2> QED BY <2>1, <2>2
<1>6. ASSUME NEW t \in Tokens PROVE NetOf(own, t) = NetOf(u, t)
  <2>1. u.free[t] \in Nat /\ u.collateral[t] \in Nat /\ u.borrowed[t] \in Nat
    BY <1>1, AccountAmounts
  <2>2. CASE t = z BY <1>3, <1>4, <1>5, <2>1, <2>2 DEF NetOf
  <2>3. CASE t # z BY <1>4, <1>5, <2>1, <2>3 DEF NetOf
  <2> QED BY <2>2, <2>3
<1>7. SoundRun(a, q, s, needs, v)
  <2>1. \A t \in Tokens : NetOf(own, t) = NetOf(w.own, t) BY <1>6 DEF u
  <2> QED BY <1>2, <1>5, <2>1, OwnChange
<1> QED BY <1>7 DEF v

\* The record that a loan makes of the caller's copy.
LEMMA BorrowResult ==
  ASSUME NEW a, NEW w, RunAt(w, w.own, w.accounts, w.reserved),
         w.own = MadeOf(w.own.free, w.own.collateral, w.own.borrowed, w.own.exists),
         NEW x, NEW v, v = Borrow(a, w, x)
  PROVE  /\ RunAt(v, v.own, w.accounts, w.reserved)
         /\ v.own = MadeOf([w.own.free EXCEPT ![x.token] = @ + x.amount], w.own.collateral,
                           [w.own.borrowed EXCEPT ![x.token] = @ + x.amount], w.own.exists)
         /\ v.ok => w.own.exists
<1> DEFINE ok == /\ w.own.exists /\ 0 < x.amount
                 /\ x.amount <= Available([w.accounts EXCEPT ![a] = w.own], w.reserved, x.token)
<1>1. v = [w EXCEPT !.ok = ok, !.own.free[x.token] = @ + x.amount,
                    !.own.borrowed[x.token] = @ + x.amount] BY DEF Borrow
<1>a. ok => w.own.exists OBVIOUS
<1> HIDE DEF ok
<1>2. RunAt(v, v.own, w.accounts, w.reserved) BY <1>1 DEF RunAt, MadeOf
<1>3. v.own = MadeOf([w.own.free EXCEPT ![x.token] = @ + x.amount], w.own.collateral,
                     [w.own.borrowed EXCEPT ![x.token] = @ + x.amount], w.own.exists)
  BY <1>1 DEF RunAt, MadeOf
<1>4. v.ok = ok BY <1>1 DEF RunAt, MadeOf
<1> QED BY <1>a, <1>2, <1>3, <1>4

\* A loan is the caller's supply and the caller's debt.
LEMMA BorrowSound ==
  ASSUME NEW a \in Accounts, NEW q, NEW s, NEW needs \in BOOLEAN, needs, NEW w,
         SoundRun(a, q, s, needs, w), s.own \in AccountType,
         NEW x, x.token \in Tokens, x.amount \in Nat, Borrow(a, w, x).ok
  PROVE  SoundRun(a, q, s, needs, Borrow(a, w, x))
<1> DEFINE u == w.own
           v == Borrow(a, w, x)
           n == x.amount
           z == x.token
           own == v.own
           free == [u.free EXCEPT ![z] = @ + n]
           borrowed == [u.borrowed EXCEPT ![z] = @ + n]
<1>1. u \in AccountType /\ Coherent(u) /\ RunAt(w, u, w.accounts, w.reserved) BY DEF SoundRun
<1>2. /\ u.free \in [Tokens -> Nat] /\ u.collateral \in [Tokens -> Nat]
      /\ u.borrowed \in [Tokens -> Nat]
      /\ u = MadeOf(u.free, u.collateral, u.borrowed, u.exists)
  BY <1>1, AccountAmounts DEF MadeOf
<1>3. /\ RunAt(v, own, w.accounts, w.reserved) /\ u.exists
      /\ own = MadeOf(free, u.collateral, borrowed, u.exists)
  BY <1>1, <1>2, BorrowResult
<1>4. n \in Nat /\ z \in Tokens OBVIOUS
<1> HIDE DEF u, v, n, z, own
<1>5. /\ free \in [Tokens -> Nat] /\ free[z] = u.free[z] + n
      /\ \A t \in Tokens \ {z} : free[t] = u.free[t]
  BY <1>2, <1>4, AmountChange
<1>6. /\ borrowed \in [Tokens -> Nat] /\ borrowed[z] = u.borrowed[z] + n
      /\ \A t \in Tokens \ {z} : borrowed[t] = u.borrowed[t]
  BY <1>2, <1>4, AmountChange
<1> HIDE DEF free, borrowed
<1>7. own \in AccountType /\ own.free = free /\ own.collateral = u.collateral
      /\ own.borrowed = borrowed /\ own.exists
  <2>1. u.exists \in BOOLEAN BY <1>1, AccountAmounts
  <2> QED BY <1>2, <1>3, <1>5, <1>6, <2>1 DEF MadeOf, AccountType
<1>8. Coherent(own) BY <1>7 DEF Coherent
<1>9. ASSUME NEW t \in Tokens PROVE NetOf(own, t) = NetOf(u, t)
  <2>1. u.free[t] \in Nat /\ u.collateral[t] \in Nat /\ u.borrowed[t] \in Nat
    BY <1>2
  <2>2. CASE t = z BY <1>4, <1>5, <1>6, <1>7, <2>1, <2>2 DEF NetOf
  <2>3. CASE t # z BY <1>5, <1>6, <1>7, <2>1, <2>3 DEF NetOf
  <2> QED BY <2>2, <2>3
<1>10. SoundRun(a, q, s, needs, v)
  <2>1. \A t \in Tokens : NetOf(own, t) = NetOf(w.own, t) BY <1>9 DEF u
  <2> QED BY <1>3, <1>7, <1>8, <2>1, OwnChange
<1> QED BY <1>10 DEF v

\* The record that a repayment makes of the caller's copy.
LEMMA RepayResult ==
  ASSUME NEW w, RunAt(w, w.own, w.accounts, w.reserved),
         w.own = MadeOf(w.own.free, w.own.collateral, w.own.borrowed, w.own.exists),
         NEW x, NEW v, v = Repay(w, x)
  PROVE  /\ RunAt(v, v.own, w.accounts, w.reserved)
         /\ v.own = MadeOf([w.own.free EXCEPT ![x.token] = @ - x.amount], w.own.collateral,
                           [w.own.borrowed EXCEPT ![x.token] = @ - x.amount], w.own.exists)
         /\ v.ok => CanRepay(w.own, w.own, x.token, x.amount)
<1> DEFINE ok == CanRepay(w.own, w.own, x.token, x.amount)
<1>1. v = [w EXCEPT !.ok = ok, !.own.free[x.token] = @ - x.amount,
                    !.own.borrowed[x.token] = @ - x.amount] BY DEF Repay
<1> HIDE DEF ok
<1>2. RunAt(v, v.own, w.accounts, w.reserved) BY <1>1 DEF RunAt, MadeOf
<1>3. v.own = MadeOf([w.own.free EXCEPT ![x.token] = @ - x.amount], w.own.collateral,
                     [w.own.borrowed EXCEPT ![x.token] = @ - x.amount], w.own.exists)
  BY <1>1 DEF RunAt, MadeOf
<1>4. v.ok = ok BY <1>1 DEF RunAt, MadeOf
<1> QED BY <1>2, <1>3, <1>4 DEF ok

\* A repayment takes as much of the caller's supply as of the caller's debt.
LEMMA RepaySound ==
  ASSUME NEW a \in Accounts, NEW q, NEW s, NEW needs \in BOOLEAN, NEW w,
         SoundRun(a, q, s, needs, w), s.own \in AccountType,
         NEW x, x.token \in Tokens, x.amount \in Nat, Repay(w, x).ok
  PROVE  SoundRun(a, q, s, needs, Repay(w, x))
<1> DEFINE u == w.own
           v == Repay(w, x)
           n == x.amount
           z == x.token
           own == v.own
           free == [u.free EXCEPT ![z] = @ - n]
           borrowed == [u.borrowed EXCEPT ![z] = @ - n]
<1>1. u \in AccountType /\ Coherent(u) /\ RunAt(w, u, w.accounts, w.reserved) BY DEF SoundRun
<1>2. /\ u.free \in [Tokens -> Nat] /\ u.collateral \in [Tokens -> Nat]
      /\ u.borrowed \in [Tokens -> Nat] /\ u.exists \in BOOLEAN
      /\ u = MadeOf(u.free, u.collateral, u.borrowed, u.exists)
  BY <1>1, AccountAmounts DEF MadeOf
<1>3. /\ RunAt(v, own, w.accounts, w.reserved) /\ CanRepay(u, u, z, n)
      /\ own = MadeOf(free, u.collateral, borrowed, u.exists)
  BY <1>1, <1>2, RepayResult
<1>4. n \in Nat /\ z \in Tokens OBVIOUS
<1> HIDE DEF u, v, n, z, own
<1>a. n <= u.free[z] /\ n <= u.borrowed[z] /\ u.exists BY <1>3 DEF CanRepay
<1>5. /\ free \in [Tokens -> Nat] /\ free[z] = u.free[z] - n
      /\ \A t \in Tokens \ {z} : free[t] = u.free[t]
  BY <1>2, <1>4, <1>a, AmountChange
<1>6. /\ borrowed \in [Tokens -> Nat] /\ borrowed[z] = u.borrowed[z] - n
      /\ \A t \in Tokens \ {z} : borrowed[t] = u.borrowed[t]
  BY <1>2, <1>4, <1>a, AmountChange
<1> HIDE DEF free, borrowed
<1>7. own \in AccountType /\ own.free = free /\ own.collateral = u.collateral
      /\ own.borrowed = borrowed /\ own.exists
  BY <1>2, <1>3, <1>5, <1>6, <1>a DEF MadeOf, AccountType
<1>8. Coherent(own) BY <1>7 DEF Coherent
<1>9. ASSUME NEW t \in Tokens
      PROVE  NetOf(own, t) = NetOf(u, t) /\ own.collateral[t] >= u.collateral[t]
             /\ own.borrowed[t] <= u.borrowed[t]
  <2>1. u.free[t] \in Nat /\ u.collateral[t] \in Nat /\ u.borrowed[t] \in Nat
    BY <1>2
  <2>2. CASE t = z BY <1>4, <1>5, <1>6, <1>7, <2>1, <2>2 DEF NetOf
  <2>3. CASE t # z BY <1>5, <1>6, <1>7, <2>1, <2>3 DEF NetOf
  <2> QED BY <2>2, <2>3
<1>10. SoundRun(a, q, s, needs, v)
  <2>1. \A t \in Tokens : NetOf(own, t) = NetOf(w.own, t) BY <1>9 DEF u
  <2>2. needs \/ \A t \in Tokens : /\ own.borrowed[t] <= w.own.borrowed[t]
                                   /\ own.collateral[t] >= w.own.collateral[t]
    BY <1>9 DEF u
  <2> QED BY <1>3, <1>7, <1>8, <2>1, <2>2, OwnChange
<1> QED BY <1>10 DEF v

\* what a liquidation leaves of a victim
LeftOf(victim, x) == Unpledge(Repaid(victim, x.in, x.in_amount), x.out, x.out_amount)

\* The record that a liquidation makes, and what allowed it.
LEMMA LiquidateResult ==
  ASSUME NEW a, NEW q, NEW w, RunAt(w, w.own, w.accounts, w.reserved),
         w.own = MadeOf(w.own.free, w.own.collateral, w.own.borrowed, w.own.exists),
         NEW x, x.victim \in DOMAIN w.accounts, NEW v, v = Liquidate(a, w, x, q)
  PROVE  /\ RunAt(v, v.own, [w.accounts EXCEPT ![x.victim] = LeftOf(w.accounts[x.victim], x)],
                  w.reserved)
         /\ v.own = MadeOf(Exchanged(w.own.free, x), w.own.collateral, w.own.borrowed, w.own.exists)
         /\ v.ok => /\ a # x.victim
                    /\ CanAssess(w.accounts[x.victim], q)
                    /\ AtRisk(w.accounts[x.victim], q)
                    /\ CanRepay(w.own, w.accounts[x.victim], x.in, x.in_amount)
                    /\ CanUnpledge(Repaid(w.accounts[x.victim], x.in, x.in_amount),
                                   x.out, x.out_amount)
<1> DEFINE victim == w.accounts[x.victim]
           repaid == [victim EXCEPT !.borrowed[x.in] = @ - x.in_amount]
           left   == Unpledge(repaid, x.out, x.out_amount)
           debt   == BorrowedSum(victim, q, DebtWeight)
           coll   == CollateralSum(victim, q, CollateralWeight)
           ok ==
            /\ a # x.victim
            /\ Borrowed(victim) # {}
            /\ CanAssess(victim, q)
            /\ AtRisk(victim, q)
            /\ CanRepay(w.own, victim, x.in, x.in_amount)
            /\ CanUnpledge(repaid, x.out, x.out_amount)
            /\ x.out_amount * q[x.out] * (debt + coll)
                 <= x.in_amount * q[x.in] * 2 * debt
            /\ AtRisk(left, q)
            /\ LessDiscount(left, victim, q)
<1>1. v = [w EXCEPT !.ok = ok,
                    !.own.free = Exchanged(@, x),
                    !.accounts[x.victim] = left]
  BY DEF Liquidate
<1>2. ok => /\ a # x.victim
            /\ CanAssess(w.accounts[x.victim], q)
            /\ AtRisk(w.accounts[x.victim], q)
            /\ CanRepay(w.own, w.accounts[x.victim], x.in, x.in_amount)
            /\ CanUnpledge(Repaid(w.accounts[x.victim], x.in, x.in_amount),
                           x.out, x.out_amount)
  BY DEF Repaid
<1>3. left = LeftOf(w.accounts[x.victim], x) BY DEF LeftOf, Repaid
<1> HIDE DEF ok, left
<1>4. RunAt(v, v.own, [w.accounts EXCEPT ![x.victim] = left], w.reserved)
  BY <1>1 DEF RunAt, MadeOf
<1>5. v.own = MadeOf(Exchanged(w.own.free, x), w.own.collateral, w.own.borrowed, w.own.exists)
  BY <1>1 DEF RunAt, MadeOf
<1>6. v.ok = ok BY <1>1 DEF RunAt, MadeOf
<1> QED BY <1>2, <1>3, <1>4, <1>5, <1>6

\* What is left of a victim is an account, and owes and holds as much less.
LEMMA LeftResult ==
  ASSUME NEW victim \in AccountType, Coherent(victim), NEW x,
         x.in \in Tokens, x.in_amount \in Nat, x.out \in Tokens, x.out_amount \in Nat,
         x.in_amount <= victim.borrowed[x.in],
         CanUnpledge(Repaid(victim, x.in, x.in_amount), x.out, x.out_amount)
  PROVE  /\ LeftOf(victim, x) \in AccountType /\ Coherent(LeftOf(victim, x))
         /\ LeftOf(victim, x).free = victim.free
         /\ \A t \in Tokens :
              /\ LeftOf(victim, x).borrowed[t]
                   = victim.borrowed[t] - IF t = x.in THEN x.in_amount ELSE 0
              /\ LeftOf(victim, x).collateral[t]
                   = victim.collateral[t] - IF t = x.out THEN x.out_amount ELSE 0
<1> DEFINE mid == Repaid(victim, x.in, x.in_amount)
           left == LeftOf(victim, x)
<1>1. mid = Repaid(victim, x.in, x.in_amount) OBVIOUS
<1>2. left = Unpledge(mid, x.out, x.out_amount) BY DEF LeftOf
<1>3. CanUnpledge(mid, x.out, x.out_amount) OBVIOUS
<1> HIDE DEF mid, left
<1>4. /\ mid \in AccountType /\ Coherent(mid)
      /\ mid.free = victim.free /\ mid.collateral = victim.collateral
      /\ mid.borrowed[x.in] = victim.borrowed[x.in] - x.in_amount
      /\ \A t \in Tokens \ {x.in} : mid.borrowed[t] = victim.borrowed[t]
  BY <1>1, RepaidResult
<1>5. /\ left \in AccountType /\ Coherent(left)
      /\ left.free = mid.free /\ left.borrowed = mid.borrowed
      /\ left.collateral[x.out] = mid.collateral[x.out] - x.out_amount
      /\ \A t \in Tokens \ {x.out} : left.collateral[t] = mid.collateral[t]
  BY <1>2, <1>3, <1>4, UnpledgeResult
<1>6. ASSUME NEW t \in Tokens
      PROVE  /\ left.borrowed[t] = victim.borrowed[t] - IF t = x.in THEN x.in_amount ELSE 0
             /\ left.collateral[t] = victim.collateral[t] - IF t = x.out THEN x.out_amount ELSE 0
  <2>1. victim.collateral[t] \in Nat /\ victim.borrowed[t] \in Nat BY AccountAmounts
  <2> QED BY <1>4, <1>5, <2>1
<1> QED BY <1>4, <1>5, <1>6 DEF left

\* What the liquidator pays and is paid.
LEMMA ExchangedResult ==
  ASSUME NEW f \in [Tokens -> Nat], NEW x,
         x.in \in Tokens, x.in_amount \in Nat, x.out \in Tokens, x.out_amount \in Nat,
         x.in_amount <= f[x.in]
  PROVE  /\ Exchanged(f, x) \in [Tokens -> Nat]
         /\ \A t \in Tokens :
              Exchanged(f, x)[t] = f[t] - (IF t = x.in THEN x.in_amount ELSE 0)
                                        + (IF t = x.out THEN x.out_amount ELSE 0)
<1> DEFINE mid == [f EXCEPT ![x.in] = @ - x.in_amount]
           end == [mid EXCEPT ![x.out] = @ + x.out_amount]
<1>1. /\ mid \in [Tokens -> Nat] /\ mid[x.in] = f[x.in] - x.in_amount
      /\ \A t \in Tokens \ {x.in} : mid[t] = f[t]
  BY AmountChange
<1>2. Exchanged(f, x) = end BY DEF Exchanged
<1> HIDE DEF mid
<1>3. /\ end \in [Tokens -> Nat] /\ end[x.out] = mid[x.out] + x.out_amount
      /\ \A t \in Tokens \ {x.out} : end[t] = mid[t]
  BY <1>1, AmountChange
<1> HIDE DEF end
<1>4. ASSUME NEW t \in Tokens
      PROVE  end[t] = f[t] - (IF t = x.in THEN x.in_amount ELSE 0)
                           + (IF t = x.out THEN x.out_amount ELSE 0)
  <2>1. f[t] \in Nat /\ mid[t] \in Nat BY <1>1
  <2> QED BY <1>1, <1>3, <2>1
<1> QED BY <1>2, <1>3, <1>4

\* A liquidator takes from a position at risk what it pays for.
LEMMA LiquidateSound ==
  ASSUME NEW a \in Accounts, NEW q, NEW s, NEW needs \in BOOLEAN, NEW w,
         SoundRun(a, q, s, needs, w),
         s.own \in AccountType, s.accounts \in [Accounts -> AccountType],
         NEW x, x.victim \in Accounts,
         x.in \in Tokens, x.in_amount \in Nat, x.out \in Tokens, x.out_amount \in Nat,
         Liquidate(a, w, x, q).ok
  PROVE  SoundRun(a, q, s, needs, Liquidate(a, w, x, q))
<1> DEFINE u == w.own
           v == Liquidate(a, w, x, q)
           own == v.own
           b == x.victim
           victim == w.accounts[b]
           left == LeftOf(victim, x)
           free == Exchanged(u.free, x)
<1>1. /\ u \in AccountType /\ Coherent(u) /\ RunAt(w, u, w.accounts, w.reserved)
      /\ w.accounts \in [Accounts -> AccountType] /\ w.reserved \in [Tokens -> Nat]
      /\ victim \in AccountType /\ Coherent(victim)
  BY DEF SoundRun
<1>2. u.free \in [Tokens -> Nat] /\ u = MadeOf(u.free, u.collateral, u.borrowed, u.exists)
  BY <1>1, AccountAmounts DEF MadeOf
<1>3. /\ RunAt(v, own, [w.accounts EXCEPT ![b] = left], w.reserved)
      /\ own = MadeOf(free, u.collateral, u.borrowed, u.exists)
      /\ a # b /\ CanAssess(victim, q) /\ AtRisk(victim, q)
      /\ CanRepay(u, victim, x.in, x.in_amount)
      /\ CanUnpledge(Repaid(victim, x.in, x.in_amount), x.out, x.out_amount)
  <2>1. b \in DOMAIN w.accounts BY <1>1
  <2> QED BY <1>1, <1>2, <2>1, LiquidateResult
<1>4. x.in_amount <= victim.borrowed[x.in] /\ x.in_amount <= u.free[x.in] /\ 0 < x.in_amount
  BY <1>3 DEF CanRepay
<1> HIDE DEF u, v, own, victim, left, free
<1>5. /\ free \in [Tokens -> Nat]
      /\ \A t \in Tokens :
           free[t] = u.free[t] - (IF t = x.in THEN x.in_amount ELSE 0)
                               + (IF t = x.out THEN x.out_amount ELSE 0)
  BY <1>2, <1>4, ExchangedResult DEF free
<1>6. /\ own \in AccountType /\ Coherent(own) /\ own.free = free
      /\ own.collateral = u.collateral /\ own.borrowed = u.borrowed
  BY <1>1, <1>3, <1>5, SupplyResult
<1>7. /\ left \in AccountType /\ Coherent(left) /\ left.free = victim.free
      /\ \A t \in Tokens :
           /\ left.borrowed[t] = victim.borrowed[t] - IF t = x.in THEN x.in_amount ELSE 0
           /\ left.collateral[t] = victim.collateral[t] - IF t = x.out THEN x.out_amount ELSE 0
  BY <1>1, <1>3, <1>4, LeftResult DEF left
<1>8. ASSUME NEW t \in Tokens
      PROVE  /\ NetOf(own, t) + NetOf(left, t) + w.reserved[t]
                  = NetOf(u, t) + NetOf(victim, t) + w.reserved[t]
             /\ left.borrowed[t] <= victim.borrowed[t]
  <2>1. /\ u.free[t] \in Nat /\ u.collateral[t] \in Nat /\ u.borrowed[t] \in Nat
        /\ victim.free[t] \in Nat /\ victim.collateral[t] \in Nat /\ victim.borrowed[t] \in Nat
        /\ w.reserved[t] \in Nat
    BY <1>1, AccountAmounts
  <2> DEFINE paid == IF t = x.in THEN x.in_amount ELSE 0
             taken == IF t = x.out THEN x.out_amount ELSE 0
  <2>2. paid \in Nat /\ taken \in Nat OBVIOUS
  <2>3. /\ own.free[t] = u.free[t] - paid + taken
        /\ own.collateral[t] = u.collateral[t] /\ own.borrowed[t] = u.borrowed[t]
        /\ left.free[t] = victim.free[t] /\ left.borrowed[t] = victim.borrowed[t] - paid
        /\ left.collateral[t] = victim.collateral[t] - taken
    BY <1>5, <1>6, <1>7
  <2> HIDE DEF paid, taken
  <2> QED BY <2>1, <2>2, <2>3 DEF NetOf
<1>9. EvensOut(w, own, b, left, w.reserved) /\ OwesNoMore(left, victim)
  BY <1>8 DEF EvensOut, OwesNoMore, u, victim
<1>10. PositionTokens(victim) \subseteq DOMAIN q
  <2>1. victim.borrowed[x.in] > 0
    <3>1. victim.borrowed[x.in] \in Nat BY <1>1, AccountAmounts
    <3> QED BY <1>4, <3>1
  <2> QED BY <1>3, <2>1 DEF CanAssess, Borrowed
<1>11. SoundRun(a, q, s, needs, v)
  <2>1. /\ own.borrowed = w.own.borrowed /\ own.collateral = w.own.collateral BY <1>6 DEF u
  <2>2. /\ OwesNoMore(left, w.accounts[b]) /\ PositionTokens(w.accounts[b]) \subseteq DOMAIN q
        /\ AtRisk(w.accounts[b], q)
    BY <1>3, <1>9, <1>10 DEF victim
  <2>3. b \in Accounts \ {a} BY <1>3
  <2>4. own \in AccountType /\ Coherent(own) /\ left \in AccountType /\ Coherent(left)
    BY <1>6, <1>7
  <2>5. w.reserved \in [Tokens -> Nat] /\ EvensOut(w, own, b, left, w.reserved) BY <1>1, <1>9
  <2>6. RunAt(v, own, [w.accounts EXCEPT ![b] = left], w.reserved) BY <1>3
  <2> HIDE DEF b
  <2> QED BY <2>1, <2>2, <2>3, <2>4, <2>5, <2>6, OtherChange
<1> QED BY <1>11 DEF v

\* prices that a list may be run on
Prices(q) == DOMAIN q \subseteq Tokens /\ \A t \in DOMAIN q : q[t] \in Nat

\* What is worth less than is owed on it is at risk, whatever counts for less
\* or more.
LEMMA WorthLess ==
  ASSUME NEW acct \in AccountType, acct.exists, NEW q, Prices(q),
         PositionTokens(acct) \subseteq DOMAIN q,
         BorrowedSum(acct, q, [t \in Tokens |-> 1]) > CollateralSum(acct, q, [t \in Tokens |-> 1])
  PROVE  AtRisk(acct, q)
<1> DEFINE P == Pledged(acct)
           B == Borrowed(acct)
           k == MaxRatio
           f == [t \in P |-> acct.collateral[t] * q[t] * [u \in Tokens |-> 1][t]]
           g == [t \in B |-> acct.borrowed[t] * q[t] * [u \in Tokens |-> 1][t]]
           fk == [t \in P |-> k * f[t]]
           gk == [t \in B |-> k * g[t]]
           fw == [t \in P |-> acct.collateral[t] * q[t] * CollateralWeight[t]]
           gw == [t \in B |-> acct.borrowed[t] * q[t] * DebtWeight[t]]
<1>1. k \in Nat \ {0} BY RatioAssumption
<1>2. P \subseteq Tokens /\ B \subseteq Tokens /\ P \subseteq DOMAIN q /\ B \subseteq DOMAIN q
  BY DEF Pledged, Borrowed, PositionTokens
<1>3. IsFiniteSet(P) /\ IsFiniteSet(B) BY <1>2, TokenAssumption, FS_Subset
<1>4. ASSUME NEW t \in P
      PROVE  f[t] \in Nat /\ fw[t] \in Nat /\ fk[t] = k * f[t] /\ fk[t] \in Nat /\ fw[t] <= fk[t]
  <2>1. acct.collateral[t] \in Nat /\ q[t] \in Nat /\ CollateralWeight[t] \in Nat
        /\ CollateralWeight[t] <= k
    BY <1>1, <1>2, AccountAmounts, WeightAssumption DEF Prices
  <2> DEFINE n == acct.collateral[t] * q[t]
  <2>2. n \in Nat BY <2>1, SMTT(30)
  <2>3. f[t] = n * 1 /\ fw[t] = n * CollateralWeight[t] BY <1>2
  <2> HIDE DEF n
  <2>4. f[t] = n BY <2>2, <2>3
  <2>5. fk[t] = k * n BY <2>4
  <2> HIDE DEF f, fw, fk
  <2>6. n * CollateralWeight[t] <= k * n /\ n * CollateralWeight[t] \in Nat /\ k * n \in Nat
    <3> HIDE DEF k
    <3> DEFINE c == CollateralWeight[t]
    <3>1. c \in Nat /\ c <= k BY <2>1
    <3> HIDE DEF c
    <3>2. n * c <= k * n /\ n * c \in Nat /\ k * n \in Nat BY <1>1, <2>2, <3>1, SMTT(60)
    <3> QED BY <3>2 DEF c
  <2> QED BY <2>2, <2>3, <2>4, <2>5, <2>6
<1>5. ASSUME NEW t \in B
      PROVE  g[t] \in Nat /\ gw[t] \in Nat /\ gk[t] = k * g[t] /\ gk[t] \in Nat /\ gk[t] <= gw[t]
  <2>1. acct.borrowed[t] \in Nat /\ q[t] \in Nat /\ DebtWeight[t] \in Nat
        /\ k <= DebtWeight[t]
    BY <1>1, <1>2, AccountAmounts, WeightAssumption DEF Prices
  <2> DEFINE n == acct.borrowed[t] * q[t]
  <2>2. n \in Nat BY <2>1, SMTT(30)
  <2>3. g[t] = n * 1 /\ gw[t] = n * DebtWeight[t] BY <1>2
  <2> HIDE DEF n
  <2>4. g[t] = n BY <2>2, <2>3
  <2>5. gk[t] = k * n BY <2>4
  <2> HIDE DEF g, gw, gk
  <2>6. k * n <= n * DebtWeight[t] /\ n * DebtWeight[t] \in Nat /\ k * n \in Nat
    <3> HIDE DEF k
    <3> DEFINE c == DebtWeight[t]
    <3>1. c \in Nat /\ k <= c BY <2>1
    <3> HIDE DEF c
    <3>2. k * n <= n * c /\ n * c \in Nat /\ k * n \in Nat BY <1>1, <2>2, <3>1, SMTT(60)
    <3> QED BY <3>2 DEF c
  <2> QED BY <2>2, <2>3, <2>4, <2>5, <2>6
<1>6. /\ CollateralSum(acct, q, [t \in Tokens |-> 1]) = SumFunctionOnSet(f, P)
      /\ BorrowedSum(acct, q, [t \in Tokens |-> 1]) = SumFunctionOnSet(g, B)
      /\ CollateralSum(acct, q, CollateralWeight) = SumFunctionOnSet(fw, P)
      /\ BorrowedSum(acct, q, DebtWeight) = SumFunctionOnSet(gw, B)
  <2>1. DOMAIN f = P /\ DOMAIN g = B /\ DOMAIN fw = P /\ DOMAIN gw = B OBVIOUS
  <2>2. /\ CollateralSum(acct, q, [t \in Tokens |-> 1]) = Total(f)
        /\ BorrowedSum(acct, q, [t \in Tokens |-> 1]) = Total(g)
        /\ CollateralSum(acct, q, CollateralWeight) = Total(fw)
        /\ BorrowedSum(acct, q, DebtWeight) = Total(gw)
    BY DEF CollateralSum, BorrowedSum
  <2> HIDE DEF f, g, fw, gw
  <2> QED BY <2>1, <2>2, TotalIsSum
<1> HIDE DEF f, g, fk, gk, fw, gw, P, B, k
<1>7. /\ SumFunctionOnSet(fk, P) = k * SumFunctionOnSet(f, P)
      /\ SumFunctionOnSet(gk, B) = k * SumFunctionOnSet(g, B)
  <2>1. (\A t \in P : f[t] \in Nat /\ fk[t] = k * f[t])
        /\ \A t \in B : g[t] \in Nat /\ gk[t] = k * g[t]
    BY <1>4, <1>5
  <2> QED BY <1>1, <1>3, <2>1, SumScale
<1>8. SumFunctionOnSet(fw, P) <= SumFunctionOnSet(fk, P)
  <2>1. \A t \in P : fw[t] \in Nat /\ fk[t] \in Nat /\ fw[t] <= fk[t] BY <1>4
  <2> QED BY <1>3, <2>1, SumMonotone
<1>9. SumFunctionOnSet(gk, B) <= SumFunctionOnSet(gw, B)
  <2>1. \A t \in B : gk[t] \in Nat /\ gw[t] \in Nat /\ gk[t] <= gw[t] BY <1>5
  <2> QED BY <1>3, <2>1, SumMonotone
<1>10. /\ SumFunctionOnSet(f, P) \in Nat /\ SumFunctionOnSet(g, B) \in Nat
       /\ SumFunctionOnSet(fw, P) \in Nat /\ SumFunctionOnSet(gw, B) \in Nat
  <2>1. (\A t \in P : f[t] \in Nat) /\ (\A t \in B : g[t] \in Nat)
        /\ (\A t \in P : fw[t] \in Nat) /\ (\A t \in B : gw[t] \in Nat)
    BY <1>4, <1>5
  <2> QED BY <1>3, <2>1, SumType
<1>11. SumFunctionOnSet(gw, B) > SumFunctionOnSet(fw, P)
  <2> DEFINE c == SumFunctionOnSet(f, P)
             d == SumFunctionOnSet(g, B)
             cw == SumFunctionOnSet(fw, P)
             dw == SumFunctionOnSet(gw, B)
  <2>1. c \in Nat /\ d \in Nat /\ cw \in Nat /\ dw \in Nat /\ d > c /\ cw <= k * c /\ k * d <= dw
    BY <1>6, <1>7, <1>8, <1>9, <1>10
  <2> HIDE DEF c, d, cw, dw
  <2>2. k * d > k * c
    <3>1. k * d = k * c + k * (d - c) /\ k * (d - c) > 0 BY <1>1, <2>1, SMTT(60)
    <3>2. k * c \in Nat /\ k * (d - c) \in Nat BY <1>1, <2>1, SMTT(60)
    <3> QED BY <3>1, <3>2
  <2>3. k * d \in Nat /\ k * c \in Nat BY <1>1, <2>1, SMTT(60)
  <2>4. dw > cw BY <2>1, <2>2, <2>3
  <2> QED BY <2>4 DEF dw, cw
<1> QED BY <1>6, <1>11 DEF AtRisk

\* an account whose position is gone
Emptied(acct) ==
    [acct EXCEPT !.collateral = [t \in Tokens |-> 0], !.borrowed = [t \in Tokens |-> 0],
                 !.exists = FALSE]

\* what a forced closing leaves of the reserve
ReserveAfter(w, victim) ==
    [t \in Tokens |-> w.reserved[t] + victim.collateral[t] - victim.borrowed[t]]

\* The record that a forced closing makes, and what allowed it.
LEMMA ForceCloseResult ==
  ASSUME NEW a, NEW q, NEW w, RunAt(w, w.own, w.accounts, w.reserved),
         NEW x, x.victim \in DOMAIN w.accounts, NEW v, v = ForceClose(a, w, x, q)
  PROVE  /\ RunAt(v, w.own, [w.accounts EXCEPT ![x.victim] = Emptied(w.accounts[x.victim])],
                  ReserveAfter(w, w.accounts[x.victim]))
         /\ v.ok => LET victim == w.accounts[x.victim]
                    IN  /\ a # x.victim
                        /\ victim.exists
                        /\ PositionTokens(victim) \subseteq DOMAIN q
                        /\ \A t \in Tokens : ReserveAfter(w, victim)[t] >= 0
                        /\ BorrowedSum(victim, q, [t \in Tokens |-> 1])
                             > CollateralSum(victim, q, [t \in Tokens |-> 1])
<1> DEFINE victim == w.accounts[x.victim]
           left   == [t \in Tokens |->
                        w.reserved[t] + victim.collateral[t] - victim.borrowed[t]]
           ok ==
               /\ a # x.victim
               /\ victim.exists
               /\ PositionTokens(victim) \subseteq DOMAIN q
               /\ \A t \in Tokens : left[t] >= 0
               /\ BorrowedSum(victim, q, [t \in Tokens |-> 1])
                    > CollateralSum(victim, q, [t \in Tokens |-> 1])
           empty == Emptied(victim)
<1>1. v = [w EXCEPT !.ok = ok, !.reserved = left, !.accounts[x.victim] = empty]
  BY DEF ForceClose, Emptied
<1>2. left = ReserveAfter(w, victim) BY DEF ReserveAfter
<1>3. ok => /\ a # x.victim
            /\ victim.exists
            /\ PositionTokens(victim) \subseteq DOMAIN q
            /\ \A t \in Tokens : left[t] >= 0
            /\ BorrowedSum(victim, q, [t \in Tokens |-> 1])
                 > CollateralSum(victim, q, [t \in Tokens |-> 1])
  OBVIOUS
<1> HIDE DEF ok, left, empty
<1>4. RunAt(v, w.own, [w.accounts EXCEPT ![x.victim] = empty], left) /\ v.ok = ok
  BY <1>1 DEF RunAt
<1> QED BY <1>2, <1>3, <1>4 DEF empty

\* The reserve takes over a position that is worth less than it owes.
LEMMA ForceCloseSound ==
  ASSUME NEW a \in Accounts, NEW q, Prices(q), NEW s, NEW needs \in BOOLEAN, NEW w,
         SoundRun(a, q, s, needs, w),
         s.own \in AccountType, s.accounts \in [Accounts -> AccountType],
         NEW x, x.victim \in Accounts, ForceClose(a, w, x, q).ok
  PROVE  SoundRun(a, q, s, needs, ForceClose(a, w, x, q))
<1> DEFINE u == w.own
           v == ForceClose(a, w, x, q)
           b == x.victim
           victim == w.accounts[b]
           left == Emptied(victim)
           res == ReserveAfter(w, victim)
<1>1. /\ u \in AccountType /\ Coherent(u) /\ RunAt(w, u, w.accounts, w.reserved)
      /\ w.accounts \in [Accounts -> AccountType] /\ w.reserved \in [Tokens -> Nat]
      /\ victim \in AccountType
  BY DEF SoundRun
<1>2. /\ RunAt(v, u, [w.accounts EXCEPT ![b] = left], res)
      /\ a # b /\ victim.exists /\ PositionTokens(victim) \subseteq DOMAIN q
      /\ \A t \in Tokens : res[t] >= 0
      /\ BorrowedSum(victim, q, [t \in Tokens |-> 1])
           > CollateralSum(victim, q, [t \in Tokens |-> 1])
  <2>1. b \in DOMAIN w.accounts BY <1>1
  <2> QED BY <1>1, <2>1, ForceCloseResult
<1> HIDE DEF u, v, victim, left, res
<1>3. AtRisk(victim, q) BY <1>1, <1>2, WorthLess
<1>4. \A t \in Tokens : /\ victim.free[t] \in Nat /\ victim.collateral[t] \in Nat
                        /\ victim.borrowed[t] \in Nat /\ w.reserved[t] \in Nat
  BY <1>1, AccountAmounts
<1>5. /\ left \in AccountType /\ left.free = victim.free
      /\ \A t \in Tokens : left.collateral[t] = 0 /\ left.borrowed[t] = 0
  <2> DEFINE none == [t \in Tokens |-> 0]
  <2>1. /\ victim.free \in [Tokens -> Nat]
        /\ victim = [free |-> victim.free, collateral |-> victim.collateral,
                     borrowed |-> victim.borrowed, exists |-> victim.exists]
    BY <1>1, AccountAmounts
  <2>2. none \in [Tokens -> Nat] /\ \A t \in Tokens : none[t] = 0 OBVIOUS
  <2>3. left = [victim EXCEPT !.collateral = none, !.borrowed = none, !.exists = FALSE]
    BY DEF left, Emptied
  <2> HIDE DEF none
  <2>4. left = [free |-> victim.free, collateral |-> none, borrowed |-> none, exists |-> FALSE]
    BY <2>1, <2>3
  <2> QED BY <2>1, <2>2, <2>4 DEF AccountType
<1>6. Coherent(left) BY <1>5 DEF Coherent
<1>7. \A t \in Tokens : res[t] = w.reserved[t] + victim.collateral[t] - victim.borrowed[t]
  BY DEF res, ReserveAfter
<1>8. res \in [Tokens -> Nat]
  <2>1. \A t \in Tokens : res[t] \in Nat
    <3> TAKE t \in Tokens
    <3>1. res[t] = w.reserved[t] + victim.collateral[t] - victim.borrowed[t] /\ res[t] >= 0
      BY <1>2, <1>7
    <3> QED BY <1>4, <3>1
  <2>2. res = [t \in Tokens |-> res[t]] BY DEF res, ReserveAfter
  <2> QED BY <2>1, <2>2
<1>9. ASSUME NEW t \in Tokens
      PROVE  /\ NetOf(u, t) + NetOf(left, t) + res[t]
                  = NetOf(u, t) + NetOf(victim, t) + w.reserved[t]
             /\ left.borrowed[t] <= victim.borrowed[t]
  <2>1. NetOf(u, t) \in Int BY <1>1, AccountAmounts
  <2>2. /\ left.free[t] = victim.free[t] /\ left.collateral[t] = 0 /\ left.borrowed[t] = 0
        /\ res[t] = w.reserved[t] + victim.collateral[t] - victim.borrowed[t]
    BY <1>5, <1>7
  <2> QED BY <1>4, <2>1, <2>2 DEF NetOf
<1>10. EvensOut(w, u, b, left, res) /\ OwesNoMore(left, victim)
  BY <1>9 DEF EvensOut, OwesNoMore, u, victim
<1>11. SoundRun(a, q, s, needs, v)
  <2>1. u.borrowed = w.own.borrowed /\ u.collateral = w.own.collateral BY DEF u
  <2>2. /\ OwesNoMore(left, w.accounts[b]) /\ PositionTokens(w.accounts[b]) \subseteq DOMAIN q
        /\ AtRisk(w.accounts[b], q)
    BY <1>2, <1>3, <1>10 DEF victim
  <2>3. b \in Accounts \ {a} BY <1>2
  <2>4. u \in AccountType /\ Coherent(u) /\ left \in AccountType /\ Coherent(left)
    BY <1>1, <1>5, <1>6
  <2>5. EvensOut(w, u, b, left, res) BY <1>10
  <2>6. RunAt(v, u, [w.accounts EXCEPT ![b] = left], res) BY <1>2
  <2> HIDE DEF b
  <2> QED BY <1>8, <2>1, <2>2, <2>3, <2>4, <2>5, <2>6, OtherChange
<1> QED BY <1>11 DEF v

\* Every action of a list keeps a run sound.
LEMMA PerformSound ==
  ASSUME NEW a \in Accounts, NEW q, Prices(q), NEW s, NEW needs \in BOOLEAN, NEW w,
         SoundRun(a, q, s, needs, w),
         s.own \in AccountType, s.accounts \in [Accounts -> AccountType],
         NEW x \in ActionType, x.do \in {"decrease", "borrow"} => needs,
         Perform(a, w, x, q).ok
  PROVE  SoundRun(a, q, s, needs, Perform(a, w, x, q))
<1>1. CASE x.do = "increase"
  <2>1. Perform(a, w, x, q) = Increase(w, x) BY <1>1 DEF Perform
  <2>2. x.token \in Tokens /\ x.amount \in Nat BY <1>1 DEF ActionType
  <2> QED BY <2>1, <2>2, IncreaseSound
<1>2. CASE x.do = "decrease"
  <2>1. Perform(a, w, x, q) = Decrease(w, x) BY <1>2 DEF Perform
  <2>2. x.token \in Tokens /\ x.amount \in Nat BY <1>2 DEF ActionType
  <2>3. needs BY <1>2
  <2> QED BY <2>1, <2>2, <2>3, DecreaseSound
<1>3. CASE x.do = "borrow"
  <2>1. Perform(a, w, x, q) = Borrow(a, w, x) BY <1>3 DEF Perform
  <2>2. x.token \in Tokens /\ x.amount \in Nat BY <1>3 DEF ActionType
  <2>3. needs BY <1>3
  <2> QED BY <2>1, <2>2, <2>3, BorrowSound
<1>4. CASE x.do = "repay"
  <2>1. Perform(a, w, x, q) = Repay(w, x) BY <1>4 DEF Perform
  <2>2. x.token \in Tokens /\ x.amount \in Nat BY <1>4 DEF ActionType
  <2> QED BY <2>1, <2>2, RepaySound
<1>5. CASE x.do = "liquidate"
  <2>1. Perform(a, w, x, q) = Liquidate(a, w, x, q) BY <1>5 DEF Perform
  <2>2. x.victim \in Accounts /\ x.in \in Tokens /\ x.in_amount \in Nat
        /\ x.out \in Tokens /\ x.out_amount \in Nat
    BY <1>5 DEF ActionType
  <2> QED BY <2>1, <2>2, LiquidateSound
<1>6. CASE x.do = "force_close"
  <2>1. Perform(a, w, x, q) = ForceClose(a, w, x, q) BY <1>6 DEF Perform
  <2>2. x.victim \in Accounts BY <1>6 DEF ActionType
  <2> QED BY <2>1, <2>2, ForceCloseSound
<1> QED BY <1>1, <1>2, <1>3, <1>4, <1>5, <1>6 DEF ActionType

\* The numbers of a list's actions.
LEMMA FirstFew == \A n \in Nat : IsFiniteSet(1 .. n)
<1>1. \A n \in Nat : n \in Int /\ 1 \in Int OBVIOUS
<1> QED BY <1>1, FS_Interval

\* So does a list that runs to its end.
LEMMA ListSound ==
  ASSUME account \in [Accounts -> AccountType], reserved \in [Tokens -> Nat],
         \A b \in Accounts : Coherent(account[b]),
         NEW a \in Accounts, NEW q, Prices(q), NEW list \in Seq(ActionType),
         NEW needs \in BOOLEAN,
         \A i \in DOMAIN list : list[i].do \in {"decrease", "borrow"} => needs,
         ListEnd(a, list, q, RunStart(a)).ok
  PROVE  SoundRun(a, q, RunStart(a), needs, ListEnd(a, list, q, RunStart(a)))
<1> DEFINE S == DOMAIN list
           s == RunStart(a)
           run == RunOf(FALSE, a, q, s, list)
<1>1. /\ IsFiniteSet(S) /\ (\A i \in S : i \in Nat)
      /\ \A i \in S : list[i] \in ActionType
  <2>1. S = 1 .. Len(list) /\ Len(list) \in Nat OBVIOUS
  <2>2. IsFiniteSet(1 .. Len(list)) BY <2>1, FirstFew
  <2>3. \A i \in 1 .. Len(list) : list[i] \in ActionType BY ElementOfSeq
  <2> QED BY <2>1, <2>2, <2>3
<1>2. PICK g : IsRun(run, g, S) /\ ListEnd(a, list, q, s) = g[S]
  BY <1>1, ListEndIsRun
<1>3. s.own \in AccountType /\ s.accounts \in [Accounts -> AccountType] BY DEF RunStart
<1>4. SoundRun(a, q, s, needs, s) BY SoundStart
<1> DEFINE Bad == {U \in SUBSET S : g[U].ok /\ ~ SoundRun(a, q, s, needs, g[U])}
<1> HIDE DEF s
<1>5. Bad = {}
  <2> SUFFICES ASSUME Bad # {} PROVE FALSE OBVIOUS
  <2>1. PICK m \in Bad : \A U \in Bad : U \subseteq m => U = m
    <3>1. Bad \subseteq SUBSET S OBVIOUS
    <3> HIDE DEF Bad
    <3> QED BY <1>1, <3>1, MinimalSubset
  <2>2. m \subseteq S /\ g[m].ok /\ ~ SoundRun(a, q, s, needs, g[m]) OBVIOUS
  <2>3. g[m] = StepOf(run, g, m) BY <1>2, <2>2 DEF IsRun
  <2>4. m # {}
    <3> SUFFICES ASSUME m = {} PROVE FALSE OBVIOUS
    <3>1. g[m] = s BY <2>3 DEF StepOf, RunOf
    <3> QED BY <1>4, <2>2, <3>1
  <2> DEFINE i == Max(m)
             w == g[m \ {i}]
             x == list[i]
  <2>5. i \in m
    <3>1. IsFiniteSet(m) /\ \A j \in m : j \in Nat BY <1>1, <2>2, FS_Subset
    <3> QED BY <2>4, <3>1, MaxOf
  <2>6. g[m] = IF w.ok THEN Perform(a, w, x, q) ELSE w
    BY <2>3, <2>4 DEF StepOf, RunOf, Step
  <2>7. w.ok /\ g[m] = Perform(a, w, x, q) BY <2>2, <2>6
  <2>8. SoundRun(a, q, s, needs, w)
    <3>1. m \ {i} \notin Bad BY <2>1, <2>5
    <3> QED BY <2>2, <2>7, <3>1
  <2>9. x \in ActionType /\ (x.do \in {"decrease", "borrow"} => needs) BY <1>1, <2>2, <2>5
  <2> HIDE DEF w, x, Bad
  <2>10. Perform(a, w, x, q).ok BY <2>2, <2>7
  <2>11. SoundRun(a, q, s, needs, Perform(a, w, x, q))
    BY <1>3, <2>8, <2>9, <2>10, PerformSound
  <2> QED BY <2>2, <2>7, <2>11
<1>6. S \in SUBSET S /\ g[S].ok BY <1>2 DEF s
<1>7. SoundRun(a, q, s, needs, g[S]) BY <1>5, <1>6
<1> QED BY <1>2, <1>7 DEF s

\* what the accounts and reserves are after a list of a, run on prices q
Executed(a, q) ==
    /\ account' \in [Accounts -> AccountType] /\ reserved' \in [Tokens -> Nat]
    /\ \A b \in Accounts : Coherent(account'[b])
    /\ \A t \in Tokens : Available(account', reserved', t) = Available(account, reserved, t)
    /\ \/ Healthy(account'[a], q)
       \/ \A t \in Tokens : /\ account'[a].borrowed[t] <= account[a].borrowed[t]
                            /\ account'[a].collateral[t] >= account[a].collateral[t]
    /\ \A b \in Accounts \ {a} : Seized(q, account[b], account'[b])
    /\ margin' = margin

\* A list mints nothing, leaves its caller healthy or no worse, and takes from
\* others at risk.
LEMMA ExecutesSound ==
  ASSUME account \in [Accounts -> AccountType], reserved \in [Tokens -> Nat],
         \A b \in Accounts : Coherent(account[b]),
         NEW a \in Accounts, NEW q, Prices(q), NEW list \in Seq(ActionType),
         Executes(a, list, q)
  PROVE  Executed(a, q)
<1> DEFINE s == RunStart(a)
           end == ListEnd(a, list, q, s)
           needs == NeedsRiskCheck(list)
<1>1. /\ end.ok /\ (needs => Healthy(end.own, q))
      /\ account' = Stored(a, end) /\ reserved' = end.reserved /\ margin' = margin
  BY DEF Executes, ListEnd, RunStart, Stored
<1>2. needs \in BOOLEAN BY DEF NeedsRiskCheck
<1>3. \A i \in DOMAIN list : list[i].do \in {"decrease", "borrow"} => needs
  BY DEF NeedsRiskCheck, ToSet
<1>4. s.own = account[a] /\ s.accounts = account /\ s.reserved = reserved
      /\ Stored(a, s) = account
  BY DEF RunStart, Stored
<1> HIDE DEF needs
<1>5. SoundRun(a, q, s, needs, end) BY <1>1, <1>2, <1>3, ListSound
<1> HIDE DEF s, end
<1>6. /\ end.own \in AccountType /\ end.accounts \in [Accounts -> AccountType]
      /\ end.reserved \in [Tokens -> Nat]
      /\ Coherent(end.own) /\ \A b \in Accounts : Coherent(end.accounts[b])
  BY <1>5 DEF SoundRun
<1>7. /\ account' \in [Accounts -> AccountType] /\ account'[a] = end.own
      /\ \A b \in Accounts \ {a} : account'[b] = end.accounts[b]
  BY <1>1, <1>6 DEF Stored
<1>8. \A b \in Accounts : Coherent(account'[b]) BY <1>6, <1>7
<1>9. \A t \in Tokens : Available(account', reserved', t) = Available(account, reserved, t)
  BY <1>1, <1>4, <1>5 DEF SoundRun
<1>10. \/ Healthy(account'[a], q)
       \/ \A t \in Tokens : /\ account'[a].borrowed[t] <= account[a].borrowed[t]
                            /\ account'[a].collateral[t] >= account[a].collateral[t]
  BY <1>1, <1>4, <1>5, <1>7 DEF SoundRun
<1>11. \A b \in Accounts \ {a} : Seized(q, account[b], account'[b])
  BY <1>4, <1>5, <1>7 DEF SoundRun
<1> QED BY <1>1, <1>6, <1>7, <1>8, <1>9, <1>10, <1>11 DEF Executed

-----------------------------------------------------------------------------
(***************************************************************************)
(* Lists of margin actions.                                                *)
(***************************************************************************)
MarginPriced(m, q) ==
    /\ {MarginTokens.c, MarginTokens.d, MarginTokens.p} \subseteq DOMAIN q
    /\ ~ MarginAtRisk(m, q)

\* a margin account that lost collateral is not at risk
SoundMargin(q, s, m) ==
    /\ m = [ok |-> m.ok, own |-> m.own]
    /\ m.own \in MarginType
    /\ m.own.c >= s.own.c \/ MarginPriced(m.own, q)

MarginStart(a) == [ok |-> TRUE, own |-> margin[a]]

\* Collateral that is added puts no margin position at risk.
LEMMA MarginIncreaseSound ==
  ASSUME NEW q, Prices(q), NEW s, s.own \in MarginType, NEW m, SoundMargin(q, s, m),
         NEW x, x.amount \in Nat, MarginIncrease(m, x).ok
  PROVE  SoundMargin(q, s, MarginIncrease(m, x))
<1> DEFINE v == MarginIncrease(m, x)
           u == m.own
           n == x.amount
<1>1. /\ m = [ok |-> m.ok, own |-> u] /\ u \in MarginType
      /\ u.c >= s.own.c \/ MarginPriced(u, q)
  BY DEF SoundMargin
<1>2. /\ u = [free |-> u.free, c |-> u.c, d |-> u.d, p |-> u.p]
      /\ u.free \in Nat /\ u.c \in Nat /\ u.d \in Nat /\ u.p \in Nat /\ s.own.c \in Nat
  BY <1>1 DEF MarginType
<1>3. /\ n <= u.free /\ v = [ok |-> v.ok, own |-> v.own]
      /\ v.own = [free |-> u.free - n, c |-> u.c + n, d |-> u.d, p |-> u.p]
  <2> DEFINE more == u.c + n
             less == u.free - n
  <2>1. v.own = [u EXCEPT !.free = less, !.c = more] BY DEF MarginIncrease
  <2>2. n <= u.free /\ v = [ok |-> v.ok, own |-> v.own] BY DEF MarginIncrease
  <2> HIDE DEF v, u, n, less, more
  <2>3. v.own = [free |-> less, c |-> more, d |-> u.d, p |-> u.p] BY <1>2, <2>1
  <2> QED BY <2>2, <2>3 DEF less, more
<1> HIDE DEF v, u, n
<1>5. n <= u.free /\ n \in Nat BY <1>3 DEF n
<1>6. v.own.c = u.c + n /\ v.own.d = u.d /\ v.own.p = u.p BY <1>3
<1>7. v.own \in MarginType
  <2>1. u.free - n \in Nat /\ u.c + n \in Nat BY <1>2, <1>5
  <2> QED BY <1>2, <1>3, <2>1 DEF MarginType
<1>8. ASSUME u.c >= s.own.c PROVE SoundMargin(q, s, v)
  <2>1. v.own.c >= s.own.c BY <1>2, <1>5, <1>6, <1>8
  <2> QED BY <1>3, <1>7, <2>1 DEF SoundMargin
<1>9. ASSUME MarginPriced(u, q) PROVE SoundMargin(q, s, v)
  <2> DEFINE qc == q[MarginTokens.c]
             worth == MarginValue(u, q)
             more == MarginValue(v.own, q)
             debt == MarginDebt(u, q)
             r == MaxRatio - SafetyBuffer
  <2>1. qc \in Nat /\ q[MarginTokens.p] \in Nat /\ q[MarginTokens.d] \in Nat
    BY <1>9 DEF MarginPriced, Prices
  <2>2. r \in Nat /\ MaxRatio \in Nat BY RatioAssumption
  <2>3. worth \in Nat /\ debt \in Nat
    BY <1>2, <2>1, SMTT(30) DEF MarginValue, MarginDebt
  <2>4. more = worth + n * qc /\ n * qc \in Nat
    <3> HIDE DEF qc
    <3>1. worth = u.c * qc + u.p * q[MarginTokens.p]
          /\ more = (u.c + n) * qc + u.p * q[MarginTokens.p]
      BY <1>6 DEF MarginValue, qc
    <3>2. u.c * qc \in Nat /\ n * qc \in Nat /\ u.p * q[MarginTokens.p] \in Nat
          /\ (u.c + n) * qc = u.c * qc + n * qc
      BY <1>2, <1>5, <2>1, SMTT(30)
    <3> HIDE DEF worth, more
    <3> QED BY <3>1, <3>2
  <2>5. MarginDebt(v.own, q) = debt BY <1>6 DEF MarginDebt
  <2>6. ~ worth * r < debt * MaxRatio BY <1>9 DEF MarginPriced, MarginAtRisk
  <2> DEFINE extra == n * qc
  <2>7. extra \in Nat /\ more = worth + extra BY <2>4
  <2> HIDE DEF qc, worth, more, debt, r, extra
  <2>8. worth * r \in Nat /\ debt * MaxRatio \in Nat /\ extra * r \in Nat
        /\ more * r = worth * r + extra * r
    BY <2>2, <2>3, <2>7, SMTT(30)
  <2>9. ~ more * r < debt * MaxRatio BY <2>6, <2>8
  <2>10. MarginPriced(v.own, q)
    BY <1>9, <2>5, <2>9 DEF MarginPriced, MarginAtRisk, more, r
  <2> QED BY <1>3, <1>7, <2>10 DEF SoundMargin
<1>10. SoundMargin(q, s, v) BY <1>1, <1>8, <1>9
<1> QED BY <1>10 DEF v

\* A removal of collateral leaves a position that is not at risk.
LEMMA MarginDecreaseSound ==
  ASSUME NEW q, NEW s, NEW m, SoundMargin(q, s, m),
         NEW x, x.amount \in Nat, MarginDecrease(m, x, q).ok
  PROVE  SoundMargin(q, s, MarginDecrease(m, x, q))
<1> DEFINE v == MarginDecrease(m, x, q)
           u == m.own
           more == u.free + x.amount
           less == u.c - x.amount
           left == [u EXCEPT !.free = more, !.c = less]
<1>1. /\ u = [free |-> u.free, c |-> u.c, d |-> u.d, p |-> u.p]
      /\ u.free \in Nat /\ u.c \in Nat /\ u.d \in Nat /\ u.p \in Nat
  BY DEF SoundMargin, MarginType
<1>2. v.own = left /\ left.c > 0 /\ MarginPriced(left, q) /\ v = [ok |-> v.ok, own |-> v.own]
  BY DEF MarginDecrease, MarginPriced
<1>3. left = [u EXCEPT !.free = more, !.c = less] OBVIOUS
<1> HIDE DEF u, left, v, more, less
<1>a. left = [free |-> more, c |-> less, d |-> u.d, p |-> u.p] BY <1>1, <1>3
<1>4. left \in MarginType
  <2>1. more \in Nat /\ less \in Nat BY <1>1, <1>2, <1>a DEF more, less
  <2> QED BY <1>1, <1>a, <2>1 DEF MarginType
<1>5. SoundMargin(q, s, v) BY <1>2, <1>4 DEF SoundMargin
<1> QED BY <1>5 DEF v

\* So does a list of margin actions that runs to its end.
LEMMA MarginListSound ==
  ASSUME margin \in [Accounts -> MarginType], NEW a \in Accounts, NEW q, Prices(q),
         NEW list \in Seq(MarginActionType), MarginEnd(list, q, MarginStart(a)).ok
  PROVE  SoundMargin(q, MarginStart(a), MarginEnd(list, q, MarginStart(a)))
<1> DEFINE S == DOMAIN list
           s == MarginStart(a)
           run == RunOf(TRUE, a, q, s, list)
<1>1. /\ IsFiniteSet(S) /\ (\A i \in S : i \in Nat)
      /\ \A i \in S : list[i] \in MarginActionType
  <2>1. S = 1 .. Len(list) /\ Len(list) \in Nat OBVIOUS
  <2>2. IsFiniteSet(1 .. Len(list)) BY <2>1, FirstFew
  <2>3. \A i \in 1 .. Len(list) : list[i] \in MarginActionType BY ElementOfSeq
  <2> QED BY <2>1, <2>2, <2>3
<1>2. PICK g : IsRun(run, g, S) /\ MarginEnd(list, q, s) = g[S]
  BY <1>1, MarginEndIsRun
<1>3. s.own \in MarginType /\ s = [ok |-> TRUE, own |-> s.own] BY DEF MarginStart
<1>4. SoundMargin(q, s, s)
  <2>1. s.own.c \in Nat /\ s.ok = TRUE BY <1>3 DEF MarginType
  <2>2. s.own.c >= s.own.c BY <2>1
  <2> HIDE DEF s
  <2> QED BY <1>3, <2>1, <2>2 DEF SoundMargin
<1> DEFINE Bad == {U \in SUBSET S : g[U].ok /\ ~ SoundMargin(q, s, g[U])}
<1> HIDE DEF s
<1>5. Bad = {}
  <2> SUFFICES ASSUME Bad # {} PROVE FALSE OBVIOUS
  <2>1. PICK m \in Bad : \A U \in Bad : U \subseteq m => U = m
    <3>1. Bad \subseteq SUBSET S OBVIOUS
    <3> HIDE DEF Bad
    <3> QED BY <1>1, <3>1, MinimalSubset
  <2>2. m \subseteq S /\ g[m].ok /\ ~ SoundMargin(q, s, g[m]) OBVIOUS
  <2>3. g[m] = StepOf(run, g, m) BY <1>2, <2>2 DEF IsRun
  <2>4. m # {}
    <3> SUFFICES ASSUME m = {} PROVE FALSE OBVIOUS
    <3>1. g[m] = s BY <2>3 DEF StepOf, RunOf
    <3> QED BY <1>4, <2>2, <3>1
  <2> DEFINE i == Max(m)
             w == g[m \ {i}]
             x == list[i]
  <2>5. i \in m
    <3>1. IsFiniteSet(m) /\ \A j \in m : j \in Nat BY <1>1, <2>2, FS_Subset
    <3> QED BY <2>4, <3>1, MaxOf
  <2>6. g[m] = IF ~ w.ok THEN w
               ELSE IF x.do = "margin_increase" THEN MarginIncrease(w, x)
               ELSE MarginDecrease(w, x, q)
    BY <2>3, <2>4 DEF StepOf, RunOf, Step
  <2>7. w.ok BY <2>2, <2>6
  <2>8. SoundMargin(q, s, w)
    <3>1. m \ {i} \notin Bad BY <2>1, <2>5
    <3> QED BY <2>2, <2>7, <3>1
  <2>9. x \in MarginActionType BY <1>1, <2>2, <2>5
  <2>10. x.amount \in Nat BY <2>9 DEF MarginActionType
  <2> HIDE DEF w, x, Bad
  <2>11. CASE x.do = "margin_increase"
    <3>1. g[m] = MarginIncrease(w, x) BY <2>6, <2>7, <2>11
    <3>2. SoundMargin(q, s, MarginIncrease(w, x))
      BY <1>3, <2>2, <2>8, <2>10, <3>1, MarginIncreaseSound
    <3> QED BY <2>2, <3>1, <3>2
  <2>12. CASE x.do # "margin_increase"
    <3>1. g[m] = MarginDecrease(w, x, q) BY <2>6, <2>7, <2>12
    <3>2. SoundMargin(q, s, MarginDecrease(w, x, q))
      BY <2>2, <2>8, <2>10, <3>1, MarginDecreaseSound
    <3> QED BY <2>2, <3>1, <3>2
  <2> QED BY <2>11, <2>12
<1>6. S \in SUBSET S /\ g[S].ok BY <1>2 DEF s
<1>7. SoundMargin(q, s, g[S]) BY <1>5, <1>6
<1> QED BY <1>2, <1>7 DEF s

\* what the margin accounts are after a list of a, run on prices q
MarginExecuted(a, q) ==
    /\ margin' \in [Accounts -> MarginType]
    /\ \A b \in Accounts \ {a} : margin'[b] = margin[b]
    /\ margin'[a].c >= margin[a].c \/ MarginPriced(margin'[a], q)
    /\ account' = account /\ reserved' = reserved

\* A list of margin actions that takes collateral leaves a position that is
\* not at risk.
LEMMA MarginExecutesSound ==
  ASSUME margin \in [Accounts -> MarginType], NEW a \in Accounts, NEW q, Prices(q),
         NEW list \in Seq(MarginActionType), MarginExecutes(a, list, q)
  PROVE  MarginExecuted(a, q)
<1> DEFINE end == MarginEnd(list, q, MarginStart(a))
<1>1. /\ end.ok /\ margin' = [margin EXCEPT ![a] = end.own]
      /\ account' = account /\ reserved' = reserved
  BY DEF MarginExecutes, MarginEnd, MarginStart
<1> HIDE DEF end
<1>2. SoundMargin(q, MarginStart(a), end) BY <1>1, MarginListSound DEF end
<1>3. end.own \in MarginType /\ (end.own.c >= margin[a].c \/ MarginPriced(end.own, q))
  BY <1>2 DEF SoundMargin, MarginStart
<1>4. margin'[a] = end.own BY <1>1
<1>5. margin'[a].c >= margin[a].c \/ MarginPriced(margin'[a], q) BY <1>3, <1>4
<1> QED BY <1>1, <1>3, <1>5 DEF MarginExecuted

-----------------------------------------------------------------------------
(***************************************************************************)
(* Prices the market can answer for.                                       *)
(***************************************************************************)

\* p has the prices of q, and perhaps others
Extends(p, q) == DOMAIN q \subseteq DOMAIN p /\ \A t \in DOMAIN q : p[t] = q[t]

\* some prices the market can answer for have those of q among them
Backed(q) == \E p \in PlausiblePrices : Extends(p, q)

\* Whoever has the prices of what a position involves judges it alike.
LEMMA SameJudgement ==
  ASSUME NEW acct, Coherent(acct), NEW p, NEW q, Extends(p, q)
  PROVE  /\ Healthy(acct, q) => Healthy(acct, p)
         /\ PositionTokens(acct) \subseteq DOMAIN q /\ AtRisk(acct, q)
              => PositionTokens(acct) \subseteq DOMAIN p /\ AtRisk(acct, p)
<1>1. Pledged(acct) \cup Borrowed(acct) = PositionTokens(acct)
  BY DEF Coherent, Pledged, Borrowed, PositionTokens
<1>2. ASSUME PositionTokens(acct) \subseteq DOMAIN q
      PROVE  /\ PositionTokens(acct) \subseteq DOMAIN p /\ (AtRisk(acct, p) <=> AtRisk(acct, q))
  <2>1. \A t \in Pledged(acct) \cup Borrowed(acct) : p[t] = q[t] BY <1>1, <1>2 DEF Extends
  <2>2. [t \in Borrowed(acct) |-> acct.borrowed[t] * q[t] * DebtWeight[t]]
          = [t \in Borrowed(acct) |-> acct.borrowed[t] * p[t] * DebtWeight[t]]
    BY <2>1
  <2>3. [t \in Pledged(acct) |-> acct.collateral[t] * q[t] * CollateralWeight[t]]
          = [t \in Pledged(acct) |-> acct.collateral[t] * p[t] * CollateralWeight[t]]
    BY <2>1
  <2>4. BorrowedSum(acct, q, DebtWeight) = BorrowedSum(acct, p, DebtWeight)
        /\ CollateralSum(acct, q, CollateralWeight) = CollateralSum(acct, p, CollateralWeight)
    BY <2>2, <2>3 DEF BorrowedSum, CollateralSum
  <2>5. PositionTokens(acct) \subseteq DOMAIN p BY <1>2 DEF Extends
  <2> QED BY <2>4, <2>5 DEF AtRisk
<1>3. ASSUME Healthy(acct, q) PROVE Healthy(acct, p)
  <2>1. CASE Borrowed(acct) = {} BY <2>1 DEF Healthy, CanAssess
  <2>2. CASE Borrowed(acct) # {} BY <1>2, <1>3, <2>2 DEF Healthy, CanAssess
  <2> QED BY <2>1, <2>2
<1> QED BY <1>2, <1>3

\* Margin positions are judged alike too.
LEMMA SameMarginJudgement ==
  ASSUME NEW m, NEW p, NEW q, Extends(p, q), MarginPriced(m, q)
  PROVE  MarginPriced(m, p)
BY DEF MarginPriced, Extends, MarginAtRisk, MarginValue, MarginDebt

\* Prices that quote their tokens at some recent prices of the feeds and some
\* rates since the call are backed by the market.
LEMMA QuotesAreBacked ==
  ASSUME NEW price, NEW r, NEW q, DOMAIN q \subseteq Tokens,
         \A f \in Feeds : RecentPrices(f) # {} => price[f] \in RecentPrices(f),
         DOMAIN price = {f \in Feeds : RecentPrices(f) # {}},
         price = [f \in DOMAIN price |-> price[f]],
         r = [t \in DOMAIN Rates |-> r[t]],
         \A t \in DOMAIN Rates : r[t] \in RatesSince[t] .. rate[t],
         \A t \in DOMAIN q : q[t] \in Quotes(t, price, r)
  PROVE  Backed(q)
<1> DEFINE F == {f \in Feeds : RecentPrices(f) # {}}
           T == {t \in Tokens : Quotes(t, price, r) # {}}
           p == [t \in T |-> IF t \in DOMAIN q THEN q[t] ELSE CHOOSE n \in Quotes(t, price, r) : TRUE]
           RatesOf(t) == RatesSince[t] .. rate[t]
           QuotesOf(t) == Quotes(t, price, r)
<1>1. price \in FunctionsInto(RecentPrices, F)
  <2>1. \A f \in F : price[f] \in UNION {RecentPrices(x) : x \in F} OBVIOUS
  <2>2. price \in [F -> UNION {RecentPrices(x) : x \in F}] BY <2>1
  <2> QED BY <2>2 DEF FunctionsInto
<1>2. r \in FunctionsInto(LAMBDA t : RatesSince[t] .. rate[t], DOMAIN Rates)
  <2>1. \A t \in DOMAIN Rates : r[t] \in UNION {RatesOf(x) : x \in DOMAIN Rates} OBVIOUS
  <2>2. r \in [DOMAIN Rates -> UNION {RatesOf(x) : x \in DOMAIN Rates}] BY <2>1
  <2> QED BY <2>2 DEF FunctionsInto
<1>3. p \in FunctionsInto(LAMBDA t : Quotes(t, price, r), T)
  <2>1. \A t \in T : p[t] \in QuotesOf(t) OBVIOUS
  <2>2. p \in [T -> UNION {QuotesOf(x) : x \in T}] BY <2>1
  <2> QED BY <2>1, <2>2 DEF FunctionsInto
<1> DEFINE P == FunctionsInto(RecentPrices, F)
           R == FunctionsInto(LAMBDA t : RatesSince[t] .. rate[t], DOMAIN Rates)
           Q(pr, rr) == FunctionsInto(LAMBDA t : Quotes(t, pr, rr),
                                      {t \in Tokens : Quotes(t, pr, rr) # {}})
<1>4. p \in PlausiblePrices
  <2>1. PlausiblePrices = UNION {Q(pr, rr) : pr \in P, rr \in R}
    BY DEF PlausiblePrices, FunctionsInto
  <2>2. price \in P /\ r \in R /\ p \in Q(price, r) BY <1>1, <1>2, <1>3
  <2> HIDE DEF P, R, Q, p
  <2> QED BY <2>1, <2>2
<1>5. Extends(p, q) BY DEF Extends
<1> QED BY <1>4, <1>5 DEF Backed

-----------------------------------------------------------------------------
(***************************************************************************)
(* Calls that wait for prices.  `i`, `r` and `h` are token_pyth_info, the  *)
(* rates and what has been published.                                      *)
(***************************************************************************)

\* the tokens to price are quoted by a feed, and answers are quotes that were
\* published and rates since the call
AnswersFit(c, i, r, h) ==
    /\ \A t \in DOMAIN c.defaults : c.defaults[t] # NoPrice
    /\ \A t \in c.involved \ DOMAIN c.defaults :
          t \in DOMAIN FeedOf /\ i[t] \in InfoType /\ Truthful(t, i[t])
    /\ \A f \in DOMAIN c.answers :
          \/ f \in Feeds /\ (c.answers[f] = NoAnswer \/ c.answers[f] \in h[f])
          \/ f \in DOMAIN Rates /\ (c.answers[f] = NoAnswer \/ c.answers[f] \in c.rates[f] .. r[f])

\* the price of a token when the feeds are as in g and the rates as in r
WorthAt(t, g, r) ==
    IF t \in DOMAIN Rates THEN (g[FeedOf[t]].price * r[t]) \div One ELSE g[FeedOf[t]].price

\* the prices are of quotes that were recent when the oracle called
PricesFit(c, h) ==
    \E g \in [Feeds -> QuoteType] :
        /\ \A f \in Feeds : g[f] \in h[f]
        /\ \A t \in DOMAIN c.prices :
              \/ t \in DOMAIN Steady /\ c.prices[t] = Steady[t]
              \/ /\ t \in DOMAIN FeedOf
                 /\ g[FeedOf[t]].time + MaxRecency >= c.timestamp
                 /\ c.prices[t] = WorthAt(t, g, c.rates)

CallFits(c, i, r, h) ==
    /\ IsCall(c)
    /\ c.list \in Seq(IF c.margin THEN MarginActionType ELSE ActionType)
    /\ \A t \in DOMAIN Rates : c.rates[t] <= r[t]
    /\ c.oracle = "pyth" => AnswersFit(c, i, r, h)
    /\ c.oracle = "price" => PricesFit(c, h)

\* A call still fits when rates have grown, more has been published and the
\* owner has set token_pyth_info truthfully.
LEMMA CallStays ==
  ASSUME NEW c, NEW i, NEW r \in [DOMAIN Rates -> Nat], NEW h, CallFits(c, i, r, h),
         NEW j, NEW s \in [DOMAIN Rates -> Nat], NEW k,
         \A t \in Tokens : i[t] \in InfoType /\ Truthful(t, i[t])
                             => j[t] \in InfoType /\ Truthful(t, j[t]),
         \A t \in DOMAIN Rates : r[t] <= s[t],
         \A f \in Feeds : h[f] \subseteq k[f]
  PROVE  CallFits(c, j, s, k)
<1>1. IsCall(c) /\ c.rates \in [DOMAIN Rates -> Nat] BY DEF CallFits, IsCall
<1>2. c.list \in Seq(IF c.margin THEN MarginActionType ELSE ActionType) BY DEF CallFits
<1>3. \A t \in DOMAIN Rates : c.rates[t] <= s[t]
  <2> TAKE t \in DOMAIN Rates
  <2>1. c.rates[t] <= r[t] /\ r[t] <= s[t] BY DEF CallFits
  <2>2. c.rates[t] \in Nat /\ r[t] \in Nat /\ s[t] \in Nat BY <1>1
  <2> QED BY <2>1, <2>2
<1>4. ASSUME c.oracle = "pyth" PROVE AnswersFit(c, j, s, k)
  <2>1. AnswersFit(c, i, r, h) BY <1>4 DEF CallFits
  <2>2. c.involved \subseteq Tokens BY <1>1, <1>4 DEF IsCall
  <2>3. ASSUME NEW f \in DOMAIN c.answers
        PROVE \/ f \in Feeds /\ (c.answers[f] = NoAnswer \/ c.answers[f] \in k[f])
              \/ f \in DOMAIN Rates /\ (c.answers[f] = NoAnswer \/ c.answers[f] \in c.rates[f] .. s[f])
    <3>1. \/ f \in Feeds /\ (c.answers[f] = NoAnswer \/ c.answers[f] \in h[f])
          \/ f \in DOMAIN Rates /\ (c.answers[f] = NoAnswer \/ c.answers[f] \in c.rates[f] .. r[f])
      BY <2>1 DEF AnswersFit
    <3>2. CASE f \in Feeds /\ (c.answers[f] = NoAnswer \/ c.answers[f] \in h[f])
      <4>1. h[f] \subseteq k[f] BY <3>2
      <4> QED BY <3>2, <4>1
    <3>3. CASE f \in DOMAIN Rates /\ (c.answers[f] = NoAnswer \/ c.answers[f] \in c.rates[f] .. r[f])
      <4>1. c.rates[f] \in Nat /\ r[f] \in Nat /\ s[f] \in Nat /\ r[f] <= s[f] BY <1>1, <3>3
      <4> QED BY <3>3, <4>1
    <3> QED BY <3>1, <3>2, <3>3
  <2>4. \A t \in c.involved \ DOMAIN c.defaults :
           t \in DOMAIN FeedOf /\ j[t] \in InfoType /\ Truthful(t, j[t])
    BY <2>1, <2>2 DEF AnswersFit
  <2>5. \A t \in DOMAIN c.defaults : c.defaults[t] # NoPrice BY <2>1 DEF AnswersFit
  <2> QED BY <2>3, <2>4, <2>5 DEF AnswersFit
<1>5. ASSUME c.oracle = "price" PROVE PricesFit(c, k)
  <2>1. PricesFit(c, h) BY <1>5 DEF CallFits
  <2> QED BY <2>1 DEF PricesFit
<1> QED BY <1>1, <1>2, <1>3, <1>4, <1>5 DEF CallFits

\* A quotient of natural numbers is one.
LEMMA QuotientNatural ==
  ASSUME NEW n \in Nat, NEW d \in Nat \ {0} PROVE n \div d \in Nat
BY SMTT(30)

\* The prices of tokens that feeds quote are natural numbers.
LEMMA WorthNatural ==
  ASSUME NEW t, NEW g, NEW r, t \in DOMAIN FeedOf, g[FeedOf[t]] \in QuoteType,
         t \in DOMAIN Rates => r[t] \in Nat
  PROVE  WorthAt(t, g, r) \in Nat
<1>1. g[FeedOf[t]].price \in Nat BY DEF QuoteType
<1>2. CASE t \in DOMAIN Rates
  <2> DEFINE n == g[FeedOf[t]].price * r[t]
  <2>1. n \in Nat BY <1>1, <1>2, SMTT(30)
  <2>2. WorthAt(t, g, r) = n \div One BY <1>2 DEF WorthAt
  <2>3. One \in Nat \ {0} BY RatioAssumption
  <2> HIDE DEF n
  <2> QED BY <2>1, <2>2, <2>3, QuotientNatural
<1> QED BY <1>1, <1>2 DEF WorthAt

\* what is known of the market
MarketFits ==
    /\ feed \in [Feeds -> QuoteType] /\ rate \in [DOMAIN Rates -> Nat] /\ now \in 0 .. MaxTime
    /\ published \in [Feeds -> SUBSET QuoteType]
    /\ \A f \in Feeds : feed[f] \in published[f]

\* a's call is the one that is answered
Alone(a) == Answering(a) /\ \A b \in Accounts \ {a} : ~ Answering(b)

\* The rates that count for the call that is answered are those of its start.
LEMMA RatesOfAnswered ==
  ASSUME NEW a \in Accounts, Alone(a)
  PROVE  RatesSince = call[a].rates
<1>1. Answering(a) /\ \A b \in Accounts \ {a} : ~ Answering(b) BY DEF Alone
<1>2. (CHOOSE b \in Accounts : Answering(b)) = a BY <1>1
<1> QED BY <1>1, <1>2 DEF RatesSince

\* The defaults of the call that is answered count.
LEMMA DefaultsOfAnswered ==
  ASSUME NEW a \in Accounts, Alone(a), call[a].oracle = "pyth",
         NEW t \in DOMAIN call[a].defaults
  PROVE  call[a].defaults[t] \in DefaultsOf(t)
<1>1. a \in {x \in Accounts : /\ Answering(x) /\ call[x].oracle = "pyth"
                              /\ t \in DOMAIN call[x].defaults}
  BY DEF Alone
<1> QED BY <1>1 DEF DefaultsOf

\* A quote that is recent enough for the callback is among those that count.
LEMMA FreshIsRecent ==
  ASSUME MarketFits, NEW f \in Feeds, NEW x \in published[f],
         Fresh(x) \/ \E s \in Nat : /\ x.time + MaxRecency >= s
                                    /\ now - s <= MaxStaleness
  PROVE  x.price \in RecentPrices(f)
<1>1. x \in QuoteType /\ now \in Nat
  BY DEF MarketFits
<1>2. x.time \in Nat BY <1>1 DEF QuoteType
<1>3. ValidDuration \in Nat /\ MaxStaleness \in Nat /\ MaxRecency \in Nat BY RatioAssumption
<1>4. MaxAge \in Nat /\ MaxAge >= ValidDuration /\ MaxAge >= MaxStaleness + MaxRecency
  BY <1>3 DEF MaxAge
<1> HIDE DEF MaxAge
<1>5. x.time + MaxAge >= now
  <2>1. CASE Fresh(x) BY <1>1, <1>2, <1>3, <1>4, <2>1 DEF Fresh
  <2>2. ASSUME NEW s \in Nat, x.time + MaxRecency >= s, now - s <= MaxStaleness
        PROVE  x.time + MaxAge >= now
    BY <1>1, <1>2, <1>3, <1>4, <2>2
  <2> QED BY <2>1, <2>2
<1> QED BY <1>5 DEF RecentPrices

\* A token that a feed quotes is quoted at the feed's price and its rate.
LEMMA WorthIsQuoted ==
  ASSUME NEW t \in DOMAIN FeedOf, NEW price, FeedOf[t] \in DOMAIN price, NEW r,
         DOMAIN r = DOMAIN Rates, NEW g, NEW s, g[FeedOf[t]].price = price[FeedOf[t]],
         t \in DOMAIN Rates => s[t] = r[t]
  PROVE  WorthAt(t, g, s) \in Quotes(t, price, r)
<1>1. t \notin DOMAIN Steady BY TokenAssumption
<1>2. WorthAt(t, g, s) = IF t \in DOMAIN r THEN (price[FeedOf[t]] * r[t]) \div One
                         ELSE price[FeedOf[t]]
  BY DEF WorthAt
<1> QED BY <1>1, <1>2 DEF Quotes

\* The prices of a callback are natural numbers that the market can answer
\* for.
LEMMA AnswersAreBacked ==
  ASSUME MarketFits, NEW a \in Accounts, Alone(a),
         CallFits(call[a], info, rate, published), call[a].oracle = "pyth",
         Answered(call[a]), \A t \in ToPrice(call[a]) : CanPrice(call[a], t)
  PROVE  Prices(AllPrices(call[a])) /\ Backed(AllPrices(call[a]))
<1> DEFINE c == call[a]
           q == AllPrices(c)
           D == {f \in Feeds : RecentPrices(f) # {}}
           price == [f \in D |-> IF f \in DOMAIN c.answers /\ c.answers[f].price \in RecentPrices(f)
                                 THEN c.answers[f].price ELSE CHOOSE p \in RecentPrices(f) : TRUE]
           r == [t \in DOMAIN Rates |-> IF t \in DOMAIN c.answers THEN c.answers[t] ELSE rate[t]]
<1>1. /\ c.involved \subseteq Tokens /\ DOMAIN c.defaults \subseteq c.involved
      /\ \A t \in DOMAIN c.defaults : c.defaults[t] \in Nat
      /\ c.rates \in [DOMAIN Rates -> Nat] /\ AnswersFit(c, info, rate, published)
      /\ \A t \in DOMAIN Rates : c.rates[t] <= rate[t]
  BY DEF CallFits, IsCall
<1>2. Feeds \cap Tokens = {} /\ DOMAIN Rates \subseteq Tokens /\ DOMAIN FeedOf \subseteq Tokens
  BY TokenAssumption
<1>3. /\ rate \in [DOMAIN Rates -> Nat] /\ published \in [Feeds -> SUBSET QuoteType]
  BY DEF MarketFits
<1>4. /\ \A f \in DOMAIN c.answers \cap Feeds : c.answers[f] \in published[f]
      /\ \A t \in DOMAIN c.answers \cap DOMAIN Rates : c.answers[t] \in c.rates[t] .. rate[t]
  BY <1>1, <1>2 DEF AnswersFit, Answered
<1>5. \A t \in DOMAIN Rates : r[t] \in RatesSince[t] .. rate[t] /\ r[t] \in Nat
  <2>1. RatesSince = c.rates BY RatesOfAnswered
  <2> TAKE t \in DOMAIN Rates
  <2>2. c.rates[t] \in Nat /\ rate[t] \in Nat /\ c.rates[t] <= rate[t] BY <1>1, <1>3
  <2>3. rate[t] \in c.rates[t] .. rate[t] BY <2>2
  <2>4. r[t] \in c.rates[t] .. rate[t] BY <1>4, <2>3
  <2> QED BY <2>1, <2>2, <2>4
<1>6. ASSUME NEW t \in ToPrice(c)
      PROVE  /\ q[t] = WorthAt(t, c.answers, r) /\ t \in DOMAIN FeedOf
             /\ FeedOf[t] \in D /\ price[FeedOf[t]] = c.answers[FeedOf[t]].price
             /\ c.answers[FeedOf[t]] \in QuoteType
  <2>1. t \in c.involved /\ t \notin DOMAIN c.defaults BY DEF ToPrice
  <2>2. t \in DOMAIN FeedOf /\ info[t].feed = FeedOf[t] /\ info[t].extra = (t \in DOMAIN Rates)
    BY <1>1, <2>1 DEF AnswersFit, Truthful
  <2>3. /\ FeedOf[t] \in DOMAIN c.answers /\ Fresh(c.answers[FeedOf[t]])
        /\ t \in DOMAIN Rates => t \in DOMAIN c.answers
    BY <2>2 DEF CanPrice
  <2>4. FeedOf[t] \in Feeds BY <2>2, TokenAssumption
  <2>5. c.answers[FeedOf[t]] \in published[FeedOf[t]] BY <1>4, <2>3, <2>4
  <2>6. c.answers[FeedOf[t]].price \in RecentPrices(FeedOf[t])
    BY <2>3, <2>4, <2>5, FreshIsRecent
  <2>7. q[t] = PriceOf(c, t) BY <2>1 DEF AllPrices
  <2>8. PriceOf(c, t) = WorthAt(t, c.answers, r) BY <2>2, <2>3 DEF PriceOf, WorthAt
  <2>9. c.answers[FeedOf[t]] \in QuoteType BY <1>3, <2>4, <2>5
  <2> QED BY <2>2, <2>3, <2>4, <2>6, <2>7, <2>8, <2>9
<1>7. \A t \in DOMAIN c.defaults : q[t] = c.defaults[t] BY <1>1 DEF AllPrices
<1>8. DOMAIN q = c.involved /\ \A t \in DOMAIN q : t \in DOMAIN c.defaults \/ t \in ToPrice(c)
  BY DEF AllPrices, ToPrice
<1>9. DOMAIN price = D /\ DOMAIN r = DOMAIN Rates OBVIOUS
<1>10. \A f \in Feeds : RecentPrices(f) # {} => price[f] \in RecentPrices(f) OBVIOUS
<1>11. price = [f \in DOMAIN price |-> price[f]] /\ r = [t \in DOMAIN Rates |-> r[t]] OBVIOUS
<1> HIDE DEF q, price, r, D, c
<1>12. Prices(q)
  <2>1. ASSUME NEW t \in DOMAIN q PROVE q[t] \in Nat
    <3>1. CASE t \in DOMAIN c.defaults BY <1>1, <1>7, <3>1
    <3>2. CASE t \in ToPrice(c) BY <1>5, <1>6, <3>2, WorthNatural
    <3> QED BY <1>8, <3>1, <3>2
  <2> QED BY <1>1, <1>8, <2>1 DEF Prices
<1>13. ASSUME NEW t \in DOMAIN q PROVE q[t] \in Quotes(t, price, r)
  <2>1. CASE t \in DOMAIN c.defaults
    <3>1. c.defaults[t] \in DefaultsOf(t) BY <2>1, DefaultsOfAnswered DEF c
    <3>2. c.defaults[t] # NoPrice BY <1>1, <2>1 DEF AnswersFit
    <3> QED BY <1>7, <2>1, <3>1, <3>2 DEF Quotes
  <2>2. CASE t \in ToPrice(c)
    <3>1. /\ t \in DOMAIN FeedOf /\ FeedOf[t] \in DOMAIN price
          /\ c.answers[FeedOf[t]].price = price[FeedOf[t]] /\ q[t] = WorthAt(t, c.answers, r)
      BY <1>6, <1>9, <2>2
    <3>2. WorthAt(t, c.answers, r) \in Quotes(t, price, r) BY <1>9, <3>1, WorthIsQuoted
    <3> QED BY <3>1, <3>2
  <2> QED BY <1>8, <2>1, <2>2
<1>14. Backed(q)
  <2>1. DOMAIN q \subseteq Tokens BY <1>1, <1>8
  <2>2. \A t \in DOMAIN Rates : r[t] \in RatesSince[t] .. rate[t] BY <1>5
  <2>3. DOMAIN price = {f \in Feeds : RecentPrices(f) # {}} BY <1>9 DEF D
  <2> QED BY <1>10, <1>11, <1>13, <2>1, <2>2, <2>3, QuotesAreBacked
<1> QED BY <1>12, <1>14 DEF q, c

\* The prices that the other oracle calls with are natural numbers that the
\* market can answer for, as long as they are not stale.
LEMMA OraclePricesAreBacked ==
  ASSUME MarketFits, NEW a \in Accounts, Alone(a),
         CallFits(call[a], info, rate, published), call[a].oracle = "price",
         now - call[a].timestamp <= MaxStaleness
  PROVE  Prices(call[a].prices) /\ Backed(call[a].prices)
<1> DEFINE c == call[a]
           q == c.prices
           r == c.rates
           D == {f \in Feeds : RecentPrices(f) # {}}
<1>1. /\ DOMAIN q \subseteq Tokens /\ \A t \in DOMAIN q : q[t] \in Nat
      /\ c.rates \in [DOMAIN Rates -> Nat] /\ c.timestamp \in Nat /\ PricesFit(c, published)
      /\ \A t \in DOMAIN Rates : c.rates[t] <= rate[t]
  BY DEF CallFits, IsCall
<1>2. /\ rate \in [DOMAIN Rates -> Nat] /\ published \in [Feeds -> SUBSET QuoteType]
  BY DEF MarketFits
<1>3. PICK g \in [Feeds -> QuoteType] :
        /\ \A f \in Feeds : g[f] \in published[f]
        /\ \A t \in DOMAIN q :
              \/ t \in DOMAIN Steady /\ q[t] = Steady[t]
              \/ /\ t \in DOMAIN FeedOf
                 /\ g[FeedOf[t]].time + MaxRecency >= c.timestamp
                 /\ q[t] = WorthAt(t, g, r)
  BY <1>1 DEF PricesFit
<1> DEFINE price == [f \in D |-> IF g[f].price \in RecentPrices(f) THEN g[f].price
                                 ELSE CHOOSE p \in RecentPrices(f) : TRUE]
<1>4. \A t \in DOMAIN Rates : r[t] \in RatesSince[t] .. rate[t]
  <2>1. RatesSince = c.rates BY RatesOfAnswered
  <2> TAKE t \in DOMAIN Rates
  <2>2. c.rates[t] \in Nat /\ rate[t] \in Nat /\ c.rates[t] <= rate[t] BY <1>1, <1>2
  <2> QED BY <2>1, <2>2
<1>5. now - c.timestamp <= MaxStaleness OBVIOUS
<1>6. \A f \in Feeds : RecentPrices(f) # {} => price[f] \in RecentPrices(f) OBVIOUS
<1>7. /\ DOMAIN price = D /\ price = [f \in DOMAIN price |-> price[f]]
      /\ r = [t \in DOMAIN Rates |-> r[t]] /\ DOMAIN r = DOMAIN Rates
  BY <1>1
<1> HIDE DEF c, q, r
<1>8. ASSUME NEW t \in DOMAIN q PROVE q[t] \in Quotes(t, price, r)
  <2>1. CASE t \in DOMAIN Steady /\ q[t] = Steady[t] BY <2>1 DEF Quotes
  <2>2. CASE /\ t \in DOMAIN FeedOf
             /\ g[FeedOf[t]].time + MaxRecency >= c.timestamp
             /\ q[t] = WorthAt(t, g, r)
    <3>1. FeedOf[t] \in Feeds BY <2>2, TokenAssumption
    <3>2. g[FeedOf[t]] \in published[FeedOf[t]] BY <1>3, <3>1
    <3>3. \E s \in Nat : g[FeedOf[t]].time + MaxRecency >= s /\ now - s <= MaxStaleness
      BY <1>1, <1>5, <2>2
    <3>4. g[FeedOf[t]].price \in RecentPrices(FeedOf[t])
      BY <3>1, <3>2, <3>3, FreshIsRecent
    <3>5. FeedOf[t] \in DOMAIN price /\ price[FeedOf[t]] = g[FeedOf[t]].price BY <3>1, <3>4
    <3> HIDE DEF price
    <3>6. WorthAt(t, g, r) \in Quotes(t, price, r) BY <1>7, <2>2, <3>5, WorthIsQuoted
    <3> QED BY <2>2, <3>6
  <2> QED BY <1>3, <2>1, <2>2
<1> HIDE DEF price
<1>9. Prices(q) BY <1>1 DEF Prices
<1>10. Backed(q)
  <2>1. DOMAIN q \subseteq Tokens BY <1>1
  <2>2. DOMAIN price = {f \in Feeds : RecentPrices(f) # {}} BY <1>7 DEF D
  <2>3. price = [f \in DOMAIN price |-> price[f]] /\ r = [t \in DOMAIN Rates |-> r[t]]
    BY <1>7
  <2> QED BY <1>4, <1>6, <1>8, <2>1, <2>2, <2>3, QuotesAreBacked
<1> QED BY <1>9, <1>10 DEF q, c

\* Prices that are all defaults of the owner are those the owner answers for.
LEMMA DefaultsAreBacked ==
  ASSUME MarketFits, \A b \in Accounts : ~ Answering(b),
         NEW D \in SUBSET Tokens, \A t \in D : info[t].default # NoPrice
  PROVE  Backed([t \in D |-> info[t].default])
<1> DEFINE q == [t \in D |-> info[t].default]
           F == {f \in Feeds : RecentPrices(f) # {}}
           price == [f \in F |-> CHOOSE p \in RecentPrices(f) : TRUE]
<1>1. rate \in [DOMAIN Rates -> Nat] BY DEF MarketFits
<1>2. RatesSince = rate BY DEF RatesSince
<1>3. \A t \in DOMAIN Rates : rate[t] \in RatesSince[t] .. rate[t]
  <2> TAKE t \in DOMAIN Rates
  <2>1. rate[t] \in Nat BY <1>1
  <2> QED BY <1>2, <2>1
<1>4. /\ DOMAIN q \subseteq Tokens /\ DOMAIN price = {f \in Feeds : RecentPrices(f) # {}}
      /\ price = [f \in DOMAIN price |-> price[f]] /\ rate = [t \in DOMAIN Rates |-> rate[t]]
      /\ \A f \in Feeds : RecentPrices(f) # {} => price[f] \in RecentPrices(f)
  BY <1>1
<1>5. \A t \in DOMAIN q : q[t] \in Quotes(t, price, rate) BY DEF Quotes, DefaultsOf
<1> HIDE DEF q, price
<1>6. Backed(q) BY <1>3, <1>4, <1>5, QuotesAreBacked
<1> QED BY <1>6 DEF q

\* what is known of token_pyth_info
InfoFits ==
    /\ info \in [Tokens -> InfoType \cup {NoInfo}]
    /\ \A t \in Tokens : info[t] # NoInfo => info[t] \in InfoType /\ Truthful(t, info[t])

ListOf(on_margin, list) ==
    list \in SentLists /\ list \in Seq(IF on_margin THEN MarginActionType ELSE ActionType)

\* A list involves tokens.
LEMMA InvolvedTokensAre ==
  ASSUME account \in [Accounts -> AccountType], NEW a \in Accounts,
         NEW on_margin \in BOOLEAN, NEW list, ListOf(on_margin, list)
  PROVE  Involved(on_margin, a, list) \subseteq Tokens
<1>1. CASE on_margin
  BY <1>1, ListAssumption DEF Involved, MarginInvolvedTokens
<1>2. CASE ~ on_margin
  <2>1. list \in Seq(ActionType) BY <1>2 DEF ListOf
  <2>2. \A x \in ToSet(list) : x \in ActionType
    <3>1. \A i \in 1 .. Len(list) : list[i] \in ActionType BY <2>1, ElementOfSeq
    <3>2. DOMAIN list = 1 .. Len(list) BY <2>1
    <3> QED BY <3>1, <3>2 DEF ToSet
  <2>3. \A b \in Accounts : PositionTokens(account[b]) \subseteq Tokens
    BY DEF PositionTokens, Pledged, Borrowed
  <2>4. ASSUME NEW x \in ToSet(list) PROVE InvolvedBy(a, x, list) \subseteq Tokens
    <3>1. x \in ActionType BY <2>2
    <3>2. CASE x.do = "increase"
      <4>1. x.token \in Tokens BY <3>1, <3>2 DEF ActionType
      <4> QED BY <3>2, <4>1 DEF InvolvedBy
    <3>3. CASE x.do = "decrease" BY <2>3, <3>3 DEF InvolvedBy
    <3>4. CASE x.do = "borrow"
      <4>1. x.token \in Tokens BY <3>1, <3>4 DEF ActionType
      <4> QED BY <2>3, <3>4, <4>1 DEF InvolvedBy
    <3>5. CASE x.do = "repay" BY <3>5 DEF InvolvedBy
    <3>6. CASE x.do \in {"liquidate", "force_close"}
      <4>1. x.victim \in Accounts BY <3>1, <3>6 DEF ActionType
      <4> QED BY <2>3, <3>6, <4>1 DEF InvolvedBy
    <3> QED BY <3>1, <3>2, <3>3, <3>4, <3>5, <3>6 DEF ActionType
  <2>5. Involved(on_margin, a, list) = UNION {InvolvedBy(a, x, list) : x \in ToSet(list)}
    BY <1>2 DEF Involved, InvolvedTokens
  <2> QED BY <2>4, <2>5
<1> QED BY <1>1, <1>2

PythCall(on_margin, list, involved, defaults, answers) ==
    [oracle |-> "pyth", margin |-> on_margin, list |-> list, involved |-> involved,
     defaults |-> defaults, answers |-> answers, rates |-> rate]

\* A call to pyth fits when it is made.
LEMMA PythCallFits ==
  ASSUME MarketFits, InfoFits, NEW on_margin \in BOOLEAN, NEW list, ListOf(on_margin, list),
         NEW involved \in SUBSET Tokens, NoInfo \notin {info[t] : t \in involved},
         NEW promised, promised = {t \in involved : info[t].default = NoPrice},
         NEW defaults, defaults = [t \in involved \ promised |-> info[t].default],
         NEW answers, answers = [f \in Asked(promised) |-> NoAnswer]
  PROVE  CallFits(PythCall(on_margin, list, involved, defaults, answers), info, rate, published)
<1> DEFINE c == PythCall(on_margin, list, involved, defaults, answers)
<1>1. /\ c.oracle = "pyth" /\ c.margin = on_margin /\ c.list = list /\ c.involved = involved
      /\ c.defaults = defaults /\ c.answers = answers /\ c.rates = rate
      /\ c = [oracle |-> "pyth", margin |-> c.margin, list |-> c.list,
              involved |-> c.involved, defaults |-> c.defaults,
              answers |-> c.answers, rates |-> c.rates]
  BY DEF PythCall
<1> HIDE DEF c
<1>2. \A t \in involved : info[t] \in InfoType /\ Truthful(t, info[t]) BY DEF InfoFits
<1>3. /\ DOMAIN defaults = involved \ promised
      /\ defaults = [t \in DOMAIN defaults |-> defaults[t]]
      /\ \A t \in DOMAIN defaults : defaults[t] \in Nat /\ defaults[t] # NoPrice
  BY <1>2 DEF InfoType
<1>4. /\ DOMAIN answers = Asked(promised)
      /\ answers = [f \in DOMAIN answers |-> answers[f]]
      /\ \A f \in DOMAIN answers : answers[f] = NoAnswer
  OBVIOUS
<1>5. /\ \A t \in promised : t \in DOMAIN FeedOf /\ info[t] \in InfoType /\ Truthful(t, info[t])
      /\ \A f \in Asked(promised) : f \in Feeds \/ f \in DOMAIN Rates
  <2>1. \A t \in promised : t \in DOMAIN FeedOf BY <1>2 DEF Truthful
  <2>2. \A t \in promised : info[t].feed \in Feeds /\ (info[t].extra => t \in DOMAIN Rates)
    BY <1>2, <2>1 DEF Truthful, InfoType
  <2> QED BY <1>2, <2>1, <2>2 DEF Asked
<1>6. rate \in [DOMAIN Rates -> Nat] BY DEF MarketFits
<1>7. IsCall(c) BY <1>1, <1>3, <1>4, <1>6 DEF IsCall, ListOf
<1>8. AnswersFit(c, info, rate, published)
  <2>1. \A t \in involved \ DOMAIN defaults : t \in promised BY <1>3
  <2> QED BY <1>1, <1>3, <1>4, <1>5, <2>1 DEF AnswersFit
<1>9. \A t \in DOMAIN Rates : c.rates[t] <= rate[t]
  <2> TAKE t \in DOMAIN Rates
  <2>1. rate[t] \in Nat BY <1>6
  <2> QED BY <1>1, <2>1
<1>10. c.list \in Seq(IF c.margin THEN MarginActionType ELSE ActionType) BY <1>1 DEF ListOf
<1>11. c.oracle # "price" BY <1>1
<1>12. CallFits(c, info, rate, published) BY <1>7, <1>8, <1>9, <1>10, <1>11 DEF CallFits
<1> QED BY <1>12 DEF c

\* It still fits when one of its answers has come.
LEMMA AnswerFits ==
  ASSUME MarketFits, NEW c, CallFits(c, info, rate, published), c.oracle = "pyth",
         NEW f \in DOMAIN c.answers, NEW answers,
         answers = [c.answers EXCEPT ![f] = IF f \in Feeds THEN feed[f] ELSE rate[f]],
         NEW d, d = [c EXCEPT !.answers = answers]
  PROVE  CallFits(d, info, rate, published)
<1> DEFINE v == IF f \in Feeds THEN feed[f] ELSE rate[f]
<1>1. /\ IsCall(c) /\ AnswersFit(c, info, rate, published)
      /\ c.list \in Seq(IF c.margin THEN MarginActionType ELSE ActionType)
      /\ \A t \in DOMAIN Rates : c.rates[t] <= rate[t]
  BY DEF CallFits
<1>2. c = [oracle |-> "pyth", margin |-> c.margin, list |-> c.list,
           involved |-> c.involved, defaults |-> c.defaults,
           answers |-> c.answers, rates |-> c.rates]
  BY <1>1 DEF IsCall
<1>3. d = [oracle |-> "pyth", margin |-> c.margin, list |-> c.list,
           involved |-> c.involved, defaults |-> c.defaults,
           answers |-> answers, rates |-> c.rates]
  BY <1>2
<1>4. /\ d.oracle = "pyth" /\ d.margin = c.margin /\ d.list = c.list
      /\ d.involved = c.involved /\ d.defaults = c.defaults /\ d.answers = answers
      /\ d.rates = c.rates
      /\ d = [oracle |-> "pyth", margin |-> d.margin, list |-> d.list,
              involved |-> d.involved, defaults |-> d.defaults,
              answers |-> d.answers, rates |-> d.rates]
  BY <1>3
<1>5. c.rates \in [DOMAIN Rates -> Nat] /\ rate \in [DOMAIN Rates -> Nat]
      /\ feed \in [Feeds -> QuoteType] /\ \A g \in Feeds : feed[g] \in published[g]
  BY <1>1 DEF IsCall, MarketFits
<1>6. /\ answers = [g \in DOMAIN answers |-> answers[g]] /\ DOMAIN answers = DOMAIN c.answers
      /\ answers[f] = v /\ \A g \in DOMAIN answers \ {f} : answers[g] = c.answers[g]
  <2>1. c.answers = [g \in DOMAIN c.answers |-> c.answers[g]]
    BY <1>1, SMT DEF IsCall
  <2> HIDE DEF v
  <2> QED BY <2>1 DEF v
<1>7. DOMAIN Rates \subseteq Tokens BY TokenAssumption
<1>8. \/ f \in Feeds /\ v \in published[f] /\ v \in QuoteType
      \/ /\ f \in DOMAIN Rates /\ v \in c.rates[f] .. rate[f] /\ v \in Nat
         /\ f \in Tokens
  <2>1. f \in Feeds \/ f \in DOMAIN Rates BY <1>1 DEF AnswersFit
  <2>2. CASE f \in Feeds BY <1>5, <2>2
  <2>3. CASE f \notin Feeds
    <3>1. c.rates[f] \in Nat /\ rate[f] \in Nat /\ c.rates[f] <= rate[f]
      BY <1>1, <1>5, <2>1, <2>3
    <3> QED BY <1>7, <2>1, <2>3, <3>1
  <2> QED BY <2>2, <2>3
<1> HIDE DEF v
<1>9. \A g \in DOMAIN answers :
         \/ answers[g] = NoAnswer
         \/ g \in Feeds /\ answers[g] \in QuoteType
         \/ g \in Tokens /\ answers[g] \in Nat
  <2>1. \A g \in DOMAIN c.answers :
         \/ c.answers[g] = NoAnswer
         \/ g \in Feeds /\ c.answers[g] \in QuoteType
         \/ g \in Tokens /\ c.answers[g] \in Nat
    BY <1>1 DEF IsCall
  <2> QED BY <1>6, <1>8, <2>1
<1>10. /\ c.margin \in BOOLEAN /\ c.list \in SentLists /\ c.rates \in [DOMAIN Rates -> Nat]
       /\ c.involved \subseteq Tokens
       /\ c.defaults = [t \in DOMAIN c.defaults |-> c.defaults[t]]
       /\ DOMAIN c.defaults \subseteq c.involved
       /\ \A t \in DOMAIN c.defaults : c.defaults[t] \in Nat
  BY <1>1 DEF IsCall
<1>11. IsCall(d) BY <1>4, <1>6, <1>9, <1>10 DEF IsCall
<1>12. AnswersFit(d, info, rate, published)
  <2>1. \A g \in DOMAIN answers :
          \/ g \in Feeds /\ (answers[g] = NoAnswer \/ answers[g] \in published[g])
          \/ g \in DOMAIN Rates /\ (answers[g] = NoAnswer \/ answers[g] \in c.rates[g] .. rate[g])
    BY <1>1, <1>6, <1>8 DEF AnswersFit
  <2> QED BY <1>1, <1>4, <2>1 DEF AnswersFit
<1> QED BY <1>1, <1>4, <1>11, <1>12 DEF CallFits

\* A call of the other oracle fits when it is made.
LEMMA PriceCallFits ==
  ASSUME MarketFits, NEW on_margin \in BOOLEAN, NEW list, ListOf(on_margin, list),
         NEW recent \in SUBSET Tokens,
         \A t \in recent \cap DOMAIN FeedOf : feed[FeedOf[t]].time + MaxRecency >= now,
         NEW prices, prices = [t \in recent |-> MarketPrice(t)],
         NEW c, c = [oracle |-> "price", margin |-> on_margin, list |-> list,
                     prices |-> prices, timestamp |-> now, rates |-> rate]
  PROVE  CallFits(c, info, rate, published)
<1>1. /\ c.oracle = "price" /\ c.margin = on_margin /\ c.list = list /\ c.prices = prices
      /\ c.timestamp = now /\ c.rates = rate
      /\ c = [oracle |-> "price", margin |-> c.margin, list |-> c.list,
              prices |-> c.prices, timestamp |-> c.timestamp, rates |-> c.rates]
  OBVIOUS
<1>2. /\ feed \in [Feeds -> QuoteType] /\ rate \in [DOMAIN Rates -> Nat] /\ now \in Nat
      /\ \A f \in Feeds : feed[f] \in published[f]
  BY DEF MarketFits
<1>3. /\ DOMAIN prices = recent /\ prices = [t \in DOMAIN prices |-> prices[t]]
      /\ \A t \in recent : prices[t] = MarketPrice(t)
  OBVIOUS
<1>4. ASSUME NEW t \in recent
      PROVE  \/ t \in DOMAIN Steady /\ MarketPrice(t) = Steady[t] /\ Steady[t] \in Nat
             \/ /\ t \in DOMAIN FeedOf /\ MarketPrice(t) = WorthAt(t, feed, rate)
                /\ feed[FeedOf[t]].time + MaxRecency >= now
                /\ WorthAt(t, feed, rate) \in Nat
  <2>1. CASE t \in DOMAIN Steady BY <2>1, PriceAssumption DEF MarketPrice
  <2>2. CASE t \notin DOMAIN Steady
    <3>1. t \in DOMAIN FeedOf /\ FeedOf[t] \in Feeds BY <2>2, TokenAssumption
    <3>2. MarketPrice(t) = WorthAt(t, feed, rate) BY <2>2 DEF MarketPrice, WorthAt
    <3>3. feed[FeedOf[t]].time + MaxRecency >= now BY <3>1
    <3>4. WorthAt(t, feed, rate) \in Nat
      <4>1. feed[FeedOf[t]] \in QuoteType /\ (t \in DOMAIN Rates => rate[t] \in Nat)
        BY <1>2, <3>1
      <4> QED BY <3>1, <4>1, WorthNatural
    <3> QED BY <3>1, <3>2, <3>3, <3>4
  <2> QED BY <2>1, <2>2
<1>5. \A t \in DOMAIN prices : prices[t] \in Nat BY <1>3, <1>4
<1>6. IsCall(c) BY <1>1, <1>2, <1>3, <1>5 DEF IsCall, ListOf
<1>7. PricesFit(c, published)
  <2>1. \A t \in DOMAIN c.prices :
              \/ t \in DOMAIN Steady /\ c.prices[t] = Steady[t]
              \/ /\ t \in DOMAIN FeedOf
                 /\ feed[FeedOf[t]].time + MaxRecency >= c.timestamp
                 /\ c.prices[t] = WorthAt(t, feed, c.rates)
    BY <1>1, <1>3, <1>4
  <2> QED BY <1>2, <2>1 DEF PricesFit
<1>8. \A t \in DOMAIN Rates : c.rates[t] <= rate[t]
  <2> TAKE t \in DOMAIN Rates
  <2>1. rate[t] \in Nat BY <1>2
  <2> QED BY <1>1, <2>1
<1>9. c.list \in Seq(IF c.margin THEN MarginActionType ELSE ActionType) BY <1>1 DEF ListOf
<1>10. c.oracle # "pyth" BY <1>1
<1> QED BY <1>6, <1>7, <1>8, <1>9, <1>10 DEF CallFits

-----------------------------------------------------------------------------
(***************************************************************************)
(* The inductive invariant, and what a step that runs a list runs it on.   *)
(***************************************************************************)
LedgersFit ==
    /\ account \in [Accounts -> AccountType] /\ reserved \in [Tokens -> Nat]
    /\ margin \in [Accounts -> MarginType]
    /\ \A a \in Accounts : Coherent(account[a])

CallsFit ==
    /\ DOMAIN call = Accounts /\ call = [a \in Accounts |-> call[a]]
    /\ \A a \in Accounts : call[a] # NoCall => CallFits(call[a], info, rate, published)

OthersFit ==
    /\ record \in [DOMAIN Rates -> Nat \cup {NoRecord}]
    /\ max_change \in [DOMAIN Rates -> 0 .. MaxRatio \cup {NoLimit}]
    /\ sync \in [DOMAIN Rates -> Nat \cup {NoCall, NoAnswer}]
    /\ pyth_on \in BOOLEAN /\ sent \in [Accounts -> Nat]

OracleInv == LedgersFit /\ NothingIsMinted /\ MarketFits /\ InfoFits /\ CallsFit /\ OthersFit

\* a's list has been run on prices q, which the market can answer for
RanOn(a, q) ==
    /\ Prices(q) /\ Backed(q)
    /\ Executed(a, q) \/ MarginExecuted(a, q)
    /\ Acts(a) /\ \A b \in Accounts \ {a} : ~ Acts(b)

\* A list that runs is one of either kind.
LEMMA RunsSound ==
  ASSUME LedgersFit, NEW on_margin \in BOOLEAN, NEW a \in Accounts, NEW list,
         ListOf(on_margin, list), NEW q, Prices(q), Runs(on_margin, a, list, q)
  PROVE  Executed(a, q) \/ MarginExecuted(a, q)
<1>1. CASE on_margin
  <2>1. list \in Seq(MarginActionType) /\ MarginExecutes(a, list, q)
    BY <1>1 DEF ListOf, Runs
  <2> QED BY <2>1, MarginExecutesSound DEF LedgersFit
<1>2. CASE ~ on_margin
  <2>1. list \in Seq(ActionType) /\ Executes(a, list, q)
    BY <1>2 DEF ListOf, Runs
  <2> QED BY <2>1, ExecutesSound DEF LedgersFit
<1> QED BY <1>1, <1>2

\* The ledgers stay as they should be when a list has been run.
LEMMA LedgersStay ==
  ASSUME LedgersFit, NothingIsMinted, NEW a \in Accounts, NEW q,
         Executed(a, q) \/ MarginExecuted(a, q)
  PROVE  LedgersFit' /\ NothingIsMinted'
<1>1. CASE Executed(a, q)
  <2>1. LedgersFit' BY <1>1 DEF LedgersFit, Executed
  <2>2. \A t \in Tokens : Available(account', reserved', t) = Available(account, reserved, t)
    BY <1>1 DEF Executed
  <2>3. \A t \in Tokens : Available(account, reserved, t)
                            = Available(InitialAccount, InitialReserve, t)
    BY DEF NothingIsMinted
  <2> QED BY <2>1, <2>2, <2>3 DEF NothingIsMinted
<1>2. CASE MarginExecuted(a, q)
  BY <1>2 DEF LedgersFit, NothingIsMinted, MarginExecuted
<1> QED BY <1>1, <1>2

\* The invariant holds at first.
LEMMA OracleInitially ==
  ASSUME Init PROVE OracleInv
<1>1. LedgersFit
  <2>1. \A a \in Accounts : Coherent(InitialAccount[a]) BY InitialAssumption DEF Coherent
  <2> QED BY <2>1, InitialAssumption DEF Init, LedgersFit
<1>2. NothingIsMinted BY DEF Init, NothingIsMinted
<1>3. MarketFits
  <2>1. feed = [f \in Feeds |-> [price |-> InitialPrice[f], time |-> 0]]
        /\ published = [f \in Feeds |-> {feed[f]}]
    BY DEF Init
  <2>2. \A f \in Feeds : feed[f] \in QuoteType
    <3> TAKE f \in Feeds
    <3>1. InitialPrice[f] \in Nat BY PriceAssumption
    <3> QED BY <2>1, <3>1 DEF QuoteType
  <2>3. feed \in [Feeds -> QuoteType] BY <2>1, <2>2
  <2>4. published \in [Feeds -> SUBSET QuoteType] /\ \A f \in Feeds : feed[f] \in published[f]
    <3> HIDE DEF QuoteType
    <3> QED BY <2>1, <2>2
  <2>5. rate \in [DOMAIN Rates -> Nat] BY RatioAssumption DEF Init
  <2>6. now \in 0 .. MaxTime BY RatioAssumption DEF Init
  <2> QED BY <2>3, <2>4, <2>5, <2>6 DEF MarketFits
<1>4. InfoFits BY InitialAssumption, InfoAssumption DEF Init, InfoFits
<1>5. CallsFit BY DEF Init, CallsFit
<1>6. OthersFit BY ChangeAssumption DEF Init, OthersFit
<1> QED BY <1>1, <1>2, <1>3, <1>4, <1>5, <1>6 DEF OracleInv

\* What a step may do to the ledgers: nothing, or run one list.
LedgersKept == account' = account /\ reserved' = reserved /\ margin' = margin
Steps == OracleInv' /\ (LedgersKept \/ \E a \in Accounts : \E q : RanOn(a, q))

\* Ledgers that are kept stay as they should be.
LEMMA KeptLedgers ==
  ASSUME LedgersFit, NothingIsMinted, LedgersKept
  PROVE  LedgersFit' /\ NothingIsMinted'
BY DEF LedgersFit, NothingIsMinted, LedgersKept

\* Calls fit when one of them is made, goes on or ends.
LEMMA CallChanges ==
  ASSUME CallsFit, NEW a \in Accounts, NEW c,
         c # NoCall => CallFits(c, info, rate, published),
         call' = [call EXCEPT ![a] = c],
         info' = info, rate' = rate, published' = published
  PROVE  CallsFit'
<1>1. DOMAIN call' = Accounts /\ call' = [b \in Accounts |-> call'[b]] BY DEF CallsFit
<1>2. ASSUME NEW b \in Accounts, call'[b] # NoCall
      PROVE  CallFits(call'[b], info', rate', published')
  <2>1. call'[b] = IF b = a THEN c ELSE call[b] BY DEF CallsFit
  <2>2. call[b] # NoCall => CallFits(call[b], info, rate, published) BY DEF CallsFit
  <2>3. CallFits(call'[b], info, rate, published) BY <1>2, <2>1, <2>2
  <2> QED BY <2>3
<1> QED BY <1>1, <1>2 DEF CallsFit

\* Calls fit when the rates or the prices grow or the owner changes the feed of
\* a token.
LEMMA CallsStay ==
  ASSUME CallsFit, call' = call,
         rate \in [DOMAIN Rates -> Nat], rate' \in [DOMAIN Rates -> Nat],
         \A t \in Tokens : info[t] \in InfoType /\ Truthful(t, info[t])
                             => info'[t] \in InfoType /\ Truthful(t, info'[t]),
         \A t \in DOMAIN Rates : rate[t] <= rate'[t],
         \A f \in Feeds : published[f] \subseteq published'[f]
  PROVE  CallsFit'
<1>1. ASSUME NEW b \in Accounts, call'[b] # NoCall
      PROVE  CallFits(call'[b], info', rate', published')
  <2>1. CallFits(call[b], info, rate, published) BY <1>1 DEF CallsFit
  <2>2. CallFits(call[b], info', rate', published') BY <2>1, CallStays
  <2> QED BY <2>2
<1> QED BY <1>1 DEF CallsFit

\* The account whose call ends is the one that acts.
LEMMA EndsAlone ==
  ASSUME CallsFit, NEW a \in Accounts, call[a] # NoCall,
         call' = [call EXCEPT ![a] = NoCall], sent' = sent
  PROVE  Alone(a) /\ Acts(a) /\ \A b \in Accounts \ {a} : ~ Acts(b)
<1>1. Answering(a) BY DEF CallsFit, Answering
<1>2. \A b \in Accounts \ {a} : call'[b] = call[b] BY DEF CallsFit
<1>3. \A b \in Accounts \ {a} : ~ Answering(b) BY <1>2 DEF Answering
<1> QED BY <1>1, <1>3 DEF Alone, Acts

\* The account that makes a call is the one that acts.
LEMMA AsksAlone ==
  ASSUME OthersFit, NEW a \in Accounts, CountCall(a), call' = call
  PROVE  /\ \A b \in Accounts : ~ Answering(b)
         /\ Acts(a) /\ \A b \in Accounts \ {a} : ~ Acts(b)
         /\ sent' \in [Accounts -> Nat]
<1>1. \A b \in Accounts : ~ Answering(b) BY DEF Answering
<1>2. sent \in [Accounts -> Nat] /\ sent' = [sent EXCEPT ![a] = @ + 1]
  BY DEF OthersFit, CountCall
<1>3. sent' \in [Accounts -> Nat] /\ sent'[a] = sent[a] + 1 BY <1>2
<1>4. \A b \in Accounts \ {a} : sent'[b] = sent[b] BY <1>2
<1>5. sent[a] \in Nat BY <1>2
<1>6. sent'[a] # sent[a] BY <1>3, <1>5
<1> QED BY <1>1, <1>3, <1>4, <1>6 DEF Acts

\* A call is counted.
LEMMA Counted ==
  ASSUME OthersFit, NEW a \in Accounts, CountCall(a)
  PROVE  sent' \in [Accounts -> Nat]
<1>1. sent \in [Accounts -> Nat] /\ sent' = [sent EXCEPT ![a] = @ + 1]
  BY DEF OthersFit, CountCall
<1> QED BY <1>1

\* The lists an account sends are of the kind it sends them as.
LEMMA ListsAreLists ==
  ASSUME NEW a \in Accounts
  PROVE  /\ \A list \in Lists[a] : ListOf(FALSE, list)
         /\ \A list \in MarginLists[a] : ListOf(TRUE, list)
         /\ \A list \in PriceLists[a] : ListOf(list \in MarginLists[a], list)
<1>1. Lists[a] \subseteq SentLists /\ MarginLists[a] \subseteq SentLists BY DEF SentLists
<1>2. /\ Lists[a] \subseteq Seq(ActionType) /\ MarginLists[a] \subseteq Seq(MarginActionType)
      /\ PriceLists[a] \subseteq Lists[a] \cup MarginLists[a]
  BY ListAssumption
<1> QED BY <1>1, <1>2 DEF ListOf

-----------------------------------------------------------------------------
(***************************************************************************)
(* The steps, one by one.                                                  *)
(***************************************************************************)

\* Asking pyth: the list is run at once on the defaults, or waits for prices.
LEMMA AskOracleSteps ==
  ASSUME OracleInv, NEW a \in Accounts, NEW on_margin \in BOOLEAN, NEW list,
         ListOf(on_margin, list), AskOracle(on_margin, a, list)
  PROVE  Steps
<1> DEFINE involved == Involved(on_margin, a, list)
           promised == {t \in involved : info[t].default = NoPrice}
           defaults == [t \in involved \ promised |-> info[t].default]
           answers  == [f \in Asked(promised) |-> NoAnswer]
<1>1. LedgersFit /\ NothingIsMinted /\ MarketFits /\ InfoFits /\ CallsFit /\ OthersFit
  BY DEF OracleInv
<1>2. involved \subseteq Tokens /\ NoInfo \notin {info[t] : t \in involved}
  <2>1. NoInfo \notin {info[t] : t \in involved} BY DEF AskOracle
  <2>2. account \in [Accounts -> AccountType] BY <1>1 DEF LedgersFit
  <2> HIDE DEF involved
  <2>3. Involved(on_margin, a, list) \subseteq Tokens BY <2>2, InvolvedTokensAre
  <2> QED BY <2>1, <2>3 DEF involved
<1>3. CountCall(a) /\ UNCHANGED <<settings, market, record, sync>> BY DEF AskOracle
<1>4. MarketFits' /\ InfoFits'
  BY <1>1, <1>3 DEF MarketFits, InfoFits, settings, market
<1>5. OthersFit'
  <2>1. sent' \in [Accounts -> Nat] BY <1>1, <1>3, Counted
  <2> QED BY <1>1, <1>3, <2>1 DEF OthersFit, settings
<1>6. CASE promised = {}
  <2>1. Runs(on_margin, a, list, defaults) /\ call' = call BY <1>6 DEF AskOracle
  <2>2. /\ \A b \in Accounts : ~ Answering(b)
        /\ Acts(a) /\ \A b \in Accounts \ {a} : ~ Acts(b)
    BY <1>1, <1>3, <2>1, AsksAlone
  <2>3. defaults = [t \in involved |-> info[t].default] BY <1>6
  <2>4. \A t \in involved : info[t].default # NoPrice BY <1>6
  <2>5. Prices(defaults)
    <3>1. \A t \in involved : info[t] \in InfoType BY <1>1, <1>2 DEF InfoFits
    <3>2. \A t \in involved : info[t].default \in Nat BY <3>1, <2>4 DEF InfoType
    <3> HIDE DEF involved
    <3> QED BY <3>2, <2>3, <1>2 DEF Prices
  <2> HIDE DEF involved, promised, answers
  <2>6. Backed([t \in involved |-> info[t].default])
    BY <1>1, <1>2, <2>2, <2>4, DefaultsAreBacked
  <2>7. Backed(defaults) BY <2>3, <2>6
  <2> HIDE DEF defaults
  <2>8. Executed(a, defaults) \/ MarginExecuted(a, defaults)
    BY <1>1, <2>1, <2>5, RunsSound
  <2>9. RanOn(a, defaults) BY <2>2, <2>5, <2>7, <2>8 DEF RanOn
  <2>10. LedgersFit' /\ NothingIsMinted' BY <1>1, <2>8, LedgersStay
  <2>11. CallsFit' BY <1>1, <1>3, <2>1 DEF CallsFit, settings, market
  <2> QED BY <1>4, <1>5, <2>9, <2>10, <2>11 DEF Steps, OracleInv
<1>7. CASE promised # {}
  <2>1. /\ call' = [call EXCEPT ![a] = PythCall(on_margin, list, involved, defaults, answers)]
        /\ LedgersKept
    BY <1>7 DEF AskOracle, PythCall, LedgersKept, ledgers
  <2>2. promised = {t \in involved : info[t].default = NoPrice}
        /\ defaults = [t \in involved \ promised |-> info[t].default]
        /\ answers = [f \in Asked(promised) |-> NoAnswer]
    OBVIOUS
  <2> HIDE DEF involved, promised, defaults, answers
  <2>3. CallFits(PythCall(on_margin, list, involved, defaults, answers), info, rate, published)
    BY <1>1, <1>2, <2>2, PythCallFits
  <2>4. info' = info /\ rate' = rate /\ published' = published BY <1>3 DEF settings, market
  <2>5. CallsFit' BY <1>1, <2>1, <2>3, <2>4, CallChanges
  <2>6. LedgersFit' /\ NothingIsMinted' BY <1>1, <2>1, KeptLedgers
  <2> QED BY <1>4, <1>5, <2>1, <2>5, <2>6 DEF Steps, OracleInv
<1> QED BY <1>6, <1>7

\* Asking the price oracle, with the prices the market shows.
LEMMA AskPriceOracleSteps ==
  ASSUME OracleInv, NEW a \in Accounts, NEW on_margin \in BOOLEAN, NEW list,
         ListOf(on_margin, list), AskPriceOracle(on_margin, a, list)
  PROVE  Steps
<1> DEFINE recent == {t \in Tokens :
                        t \in DOMAIN FeedOf => feed[FeedOf[t]].time + MaxRecency >= now}
           prices == [t \in recent |-> MarketPrice(t)]
           c == [oracle |-> "price", margin |-> on_margin, list |-> list,
                 prices |-> prices, timestamp |-> now, rates |-> rate]
<1>1. LedgersFit /\ NothingIsMinted /\ MarketFits /\ InfoFits /\ CallsFit /\ OthersFit
  BY DEF OracleInv
<1>2. /\ CountCall(a) /\ UNCHANGED <<settings, market, record, sync>> /\ LedgersKept
      /\ call' = [call EXCEPT ![a] = c]
  BY DEF AskPriceOracle, LedgersKept, ledgers
<1>3. recent \in SUBSET Tokens
      /\ \A t \in recent \cap DOMAIN FeedOf : feed[FeedOf[t]].time + MaxRecency >= now
  OBVIOUS
<1>4. prices = [t \in recent |-> MarketPrice(t)]
      /\ c = [oracle |-> "price", margin |-> on_margin, list |-> list,
              prices |-> prices, timestamp |-> now, rates |-> rate]
  OBVIOUS
<1> HIDE DEF recent, prices, c
<1>5. CallFits(c, info, rate, published) BY <1>1, <1>3, <1>4, PriceCallFits
<1>6. info' = info /\ rate' = rate /\ published' = published BY <1>2 DEF settings, market
<1>7. CallsFit' BY <1>1, <1>2, <1>5, <1>6, CallChanges
<1>8. LedgersFit' /\ NothingIsMinted' BY <1>1, <1>2, KeptLedgers
<1>9. MarketFits' /\ InfoFits'
  BY <1>1, <1>2 DEF MarketFits, InfoFits, settings, market
<1>10. OthersFit'
  <2>1. sent' \in [Accounts -> Nat] BY <1>1, <1>2, Counted
  <2> QED BY <1>1, <1>2, <2>1 DEF OthersFit, settings
<1> QED BY <1>2, <1>7, <1>8, <1>9, <1>10 DEF Steps, OracleInv

\* An answer that comes.
LEMMA AnswerSteps ==
  ASSUME OracleInv, NEW a \in Accounts, NEW f, Answer(a, f)
  PROVE  Steps
<1> DEFINE answers == [call[a].answers EXCEPT ![f] = IF f \in Feeds THEN feed[f] ELSE rate[f]]
           d == [call[a] EXCEPT !.answers = answers]
<1>1. LedgersFit /\ NothingIsMinted /\ MarketFits /\ InfoFits /\ CallsFit /\ OthersFit
  BY DEF OracleInv
<1>2. /\ call[a] # NoCall /\ call[a].oracle = "pyth" /\ f \in DOMAIN call[a].answers
      /\ call' = [call EXCEPT ![a] = d]
      /\ LedgersKept /\ UNCHANGED <<settings, market, record, sync, sent>>
  BY DEF Answer, LedgersKept, ledgers
<1>3. answers = [call[a].answers EXCEPT ![f] = IF f \in Feeds THEN feed[f] ELSE rate[f]]
      /\ d = [call[a] EXCEPT !.answers = answers]
  OBVIOUS
<1>4. CallFits(call[a], info, rate, published) BY <1>1, <1>2 DEF CallsFit
<1> HIDE DEF answers, d
<1>5. CallFits(d, info, rate, published) BY <1>1, <1>2, <1>3, <1>4, AnswerFits
<1>6. info' = info /\ rate' = rate /\ published' = published BY <1>2 DEF settings, market
<1>7. CallsFit' BY <1>1, <1>2, <1>5, <1>6, CallChanges
<1>8. LedgersFit' /\ NothingIsMinted' BY <1>1, <1>2, KeptLedgers
<1>9. MarketFits' /\ InfoFits' /\ OthersFit'
  BY <1>1, <1>2 DEF MarketFits, InfoFits, OthersFit, settings, market
<1> QED BY <1>2, <1>7, <1>8, <1>9 DEF Steps, OracleInv

\* The callback runs the list on the prices it was answered.
LEMMA CallbackSteps ==
  ASSUME OracleInv, NEW a \in Accounts, Callback(a)
  PROVE  Steps
<1> DEFINE c == call[a]
<1>1. LedgersFit /\ NothingIsMinted /\ MarketFits /\ InfoFits /\ CallsFit /\ OthersFit
  BY DEF OracleInv
<1>2. /\ c # NoCall /\ c.oracle = "pyth" /\ Answered(c) /\ \A t \in ToPrice(c) : CanPrice(c, t)
      /\ Runs(c.margin, a, c.list, AllPrices(c))
      /\ record' = [t \in DOMAIN record |->
                       IF t \in ToPrice(c) /\ info[t].extra THEN c.answers[t] ELSE record[t]]
      /\ call' = [call EXCEPT ![a] = NoCall]
      /\ UNCHANGED <<settings, market, sync, sent>>
  BY DEF Callback
<1>3. CallFits(c, info, rate, published) BY <1>1, <1>2 DEF CallsFit
<1>4. IsCall(c) /\ AnswersFit(c, info, rate, published) BY <1>2, <1>3 DEF CallFits
<1>5. Alone(a) /\ Acts(a) /\ \A b \in Accounts \ {a} : ~ Acts(b)
  <2>1. call[a] # NoCall /\ call' = [call EXCEPT ![a] = NoCall] /\ sent' = sent BY <1>2
  <2> QED BY <1>1, <2>1, EndsAlone
<1>6. Prices(AllPrices(c)) /\ Backed(AllPrices(c))
  <2>1. /\ CallFits(call[a], info, rate, published) /\ call[a].oracle = "pyth"
        /\ Answered(call[a]) /\ \A t \in ToPrice(call[a]) : CanPrice(call[a], t)
    BY <1>2, <1>3
  <2>2. MarketFits /\ Alone(a) BY <1>1, <1>5
  <2> HIDE DEF c
  <2>3. Prices(AllPrices(call[a])) /\ Backed(AllPrices(call[a])) BY <2>1, <2>2, AnswersAreBacked
  <2> QED BY <2>3 DEF c
<1>7. c.margin \in BOOLEAN /\ ListOf(c.margin, c.list) BY <1>3, <1>4 DEF CallFits, IsCall, ListOf
<1>8. record' \in [DOMAIN Rates -> Nat \cup {NoRecord}]
  <2>1. record \in [DOMAIN Rates -> Nat \cup {NoRecord}] BY <1>1 DEF OthersFit
  <2>2. ASSUME NEW t \in DOMAIN Rates, t \in ToPrice(c), info[t].extra
        PROVE  c.answers[t] \in Nat
    <3>1. CanPrice(c, t) BY <1>2, <2>2
    <3>2. t \in DOMAIN c.answers BY <2>2, <3>1 DEF CanPrice
    <3>3. c.answers[t] # NoAnswer BY <1>2, <3>2 DEF Answered
    <3>4. t \in Tokens /\ t \notin Feeds
      <4>1. DOMAIN FeedOf \subseteq Tokens /\ DOMAIN Rates \subseteq DOMAIN FeedOf
        BY TokenAssumption
      <4>2. t \in Tokens BY <4>1
      <4> QED BY <4>2, TokenAssumption
    <3>5. \/ c.answers[t] = NoAnswer
          \/ t \in Feeds /\ c.answers[t] \in QuoteType
          \/ t \in Tokens /\ c.answers[t] \in Nat
      BY <1>2, <1>4, <3>2 DEF IsCall
    <3> QED BY <3>3, <3>4, <3>5
  <2> HIDE DEF c
  <2> QED BY <1>2, <2>1, <2>2
<1>9. LedgersFit' /\ NothingIsMinted' /\ RanOn(a, AllPrices(c))
  <2> HIDE DEF c
  <2>1. Executed(a, AllPrices(c)) \/ MarginExecuted(a, AllPrices(c))
    BY <1>1, <1>2, <1>6, <1>7, RunsSound
  <2>2. LedgersFit' /\ NothingIsMinted' BY <1>1, <2>1, LedgersStay
  <2> QED BY <2>1, <2>2, <1>5, <1>6 DEF RanOn
<1>10. CallsFit'
  <2>1. info' = info /\ rate' = rate /\ published' = published BY <1>2 DEF settings, market
  <2> QED BY <1>1, <1>2, <2>1, CallChanges
<1>11. MarketFits' /\ InfoFits' BY <1>1, <1>2 DEF MarketFits, InfoFits, settings, market
<1>12. OthersFit' BY <1>1, <1>2, <1>8 DEF OthersFit, settings
<1> QED BY <1>9, <1>10, <1>11, <1>12 DEF Steps, OracleInv

\* The price oracle calls with the prices that were recent when it was asked.
LEMMA OracleOnCallSteps ==
  ASSUME OracleInv, NEW a \in Accounts, OracleOnCall(a)
  PROVE  Steps
<1> DEFINE c == call[a]
<1>1. LedgersFit /\ NothingIsMinted /\ MarketFits /\ InfoFits /\ CallsFit /\ OthersFit
  BY DEF OracleInv
<1>2. /\ c # NoCall /\ c.oracle = "price" /\ now - c.timestamp <= MaxStaleness
      /\ Runs(c.margin, a, c.list, c.prices)
      /\ call' = [call EXCEPT ![a] = NoCall]
      /\ UNCHANGED <<settings, market, record, sync, sent>>
  BY DEF OracleOnCall
<1>3. CallFits(c, info, rate, published) BY <1>1, <1>2 DEF CallsFit
<1>4. IsCall(c) BY <1>3 DEF CallFits
<1>5. Alone(a) /\ Acts(a) /\ \A b \in Accounts \ {a} : ~ Acts(b)
  <2>1. call[a] # NoCall /\ call' = [call EXCEPT ![a] = NoCall] /\ sent' = sent BY <1>2
  <2> QED BY <1>1, <2>1, EndsAlone
<1>6. Prices(c.prices) /\ Backed(c.prices)
  <2>1. /\ CallFits(call[a], info, rate, published) /\ call[a].oracle = "price"
        /\ now - call[a].timestamp <= MaxStaleness
    BY <1>2, <1>3
  <2>2. MarketFits /\ Alone(a) BY <1>1, <1>5
  <2> HIDE DEF c
  <2>3. Prices(call[a].prices) /\ Backed(call[a].prices) BY <2>1, <2>2, OraclePricesAreBacked
  <2> QED BY <2>3 DEF c
<1>7. c.margin \in BOOLEAN /\ ListOf(c.margin, c.list) BY <1>3, <1>4 DEF CallFits, IsCall, ListOf
<1>8. LedgersFit' /\ NothingIsMinted' /\ RanOn(a, c.prices)
  <2> HIDE DEF c
  <2>1. Executed(a, c.prices) \/ MarginExecuted(a, c.prices)
    BY <1>1, <1>2, <1>6, <1>7, RunsSound
  <2>2. LedgersFit' /\ NothingIsMinted' BY <1>1, <2>1, LedgersStay
  <2> QED BY <2>1, <2>2, <1>5, <1>6 DEF RanOn
<1>9. CallsFit'
  <2>1. info' = info /\ rate' = rate /\ published' = published BY <1>2 DEF settings, market
  <2> QED BY <1>1, <1>2, <2>1, CallChanges
<1>10. MarketFits' /\ InfoFits' /\ OthersFit'
  BY <1>1, <1>2 DEF MarketFits, InfoFits, OthersFit, settings, market
<1> QED BY <1>8, <1>9, <1>10 DEF Steps, OracleInv

\* A call that fails, or nothing at all.
LEMMA CallFailsSteps ==
  ASSUME OracleInv, NEW a \in Accounts, CallFails(a)
  PROVE  Steps
<1>1. LedgersFit /\ NothingIsMinted /\ MarketFits /\ InfoFits /\ CallsFit /\ OthersFit
  BY DEF OracleInv
<1>2. /\ call' = [call EXCEPT ![a] = NoCall] /\ LedgersKept
      /\ UNCHANGED <<settings, market, record, sync, sent>>
  BY DEF CallFails, LedgersKept, ledgers
<1>3. CallsFit'
  <2>1. info' = info /\ rate' = rate /\ published' = published BY <1>2 DEF settings, market
  <2> QED BY <1>1, <1>2, <2>1, CallChanges
<1>4. LedgersFit' /\ NothingIsMinted' BY <1>1, <1>2, KeptLedgers
<1>5. MarketFits' /\ InfoFits' /\ OthersFit'
  BY <1>1, <1>2 DEF MarketFits, InfoFits, OthersFit, settings, market
<1> QED BY <1>2, <1>3, <1>4, <1>5 DEF Steps, OracleInv

\* The owner switches between the oracles.
LEMMA EnableOracleSteps ==
  ASSUME OracleInv, NEW on \in BOOLEAN, EnableOracle(on)
  PROVE  Steps
<1>1. LedgersFit /\ NothingIsMinted /\ MarketFits /\ InfoFits /\ CallsFit /\ OthersFit
  BY DEF OracleInv
<1>2. pyth_on' = on /\ LedgersKept /\ UNCHANGED <<market, info, max_change, record, sync, call, sent>>
  BY DEF EnableOracle, LedgersKept, ledgers
<1>3. CallsFit' /\ MarketFits' /\ InfoFits' /\ OthersFit'
  BY <1>1, <1>2 DEF CallsFit, MarketFits, InfoFits, OthersFit, market
<1>4. LedgersFit' /\ NothingIsMinted' BY <1>1, <1>2, KeptLedgers
<1> QED BY <1>2, <1>3, <1>4 DEF Steps, OracleInv

\* The owner changes what a token is priced by.
LEMMA SetTokenPythInfoSteps ==
  ASSUME OracleInv, NEW t \in Tokens, NEW i \in InfoChanges[t], SetTokenPythInfo(t, i)
  PROVE  Steps
<1>1. LedgersFit /\ NothingIsMinted /\ MarketFits /\ InfoFits /\ CallsFit /\ OthersFit
  BY DEF OracleInv
<1>2. /\ info' = [info EXCEPT ![t] = i] /\ LedgersKept
      /\ UNCHANGED <<market, pyth_on, max_change, record, sync, call, sent>>
  BY DEF SetTokenPythInfo, LedgersKept, ledgers
<1>3. i \in InfoType /\ Truthful(t, i) BY InfoAssumption
<1>4. InfoFits' BY <1>1, <1>2, <1>3 DEF InfoFits
<1>5. CallsFit'
  <2>1. \A s \in Tokens : info[s] \in InfoType /\ Truthful(s, info[s])
                            => info'[s] \in InfoType /\ Truthful(s, info'[s])
    <3>1. info \in [Tokens -> InfoType \cup {NoInfo}] BY <1>1 DEF InfoFits
    <3>2. \A s \in Tokens : info'[s] = IF s = t THEN i ELSE info[s] BY <1>2, <3>1
    <3> QED BY <1>3, <3>2
  <2>2. rate' = rate /\ published' = published /\ call' = call BY <1>2 DEF market
  <2>3. rate \in [DOMAIN Rates -> Nat] BY <1>1 DEF MarketFits
  <2>4. rate' \in [DOMAIN Rates -> Nat] /\ \A s \in DOMAIN Rates : rate[s] <= rate'[s]
    BY <2>2, <2>3
  <2>5. \A f \in Feeds : published[f] \subseteq published'[f] BY <2>2
  <2> QED BY <1>1, <2>1, <2>2, <2>3, <2>4, <2>5, CallsStay
<1>6. MarketFits' /\ OthersFit' BY <1>1, <1>2 DEF MarketFits, OthersFit, market
<1>7. LedgersFit' /\ NothingIsMinted' BY <1>1, <1>2, KeptLedgers
<1> QED BY <1>2, <1>4, <1>5, <1>6, <1>7 DEF Steps, OracleInv

\* The publisher publishes a price.
LEMMA PublishSteps ==
  ASSUME OracleInv, NEW f \in Feeds, NEW p \in FeedPrices[f], Publish(f, p)
  PROVE  Steps
<1> DEFINE quote == [price |-> p, time |-> now]
<1>1. LedgersFit /\ NothingIsMinted /\ MarketFits /\ InfoFits /\ CallsFit /\ OthersFit
  BY DEF OracleInv
<1>2. /\ feed' = [feed EXCEPT ![f] = quote]
      /\ published' = [published EXCEPT ![f] = @ \cup {quote}]
      /\ LedgersKept /\ UNCHANGED <<settings, record, sync, call, rate, now, sent>>
  BY DEF Publish, LedgersKept, ledgers
<1>3. quote \in QuoteType
  <2>1. p \in Nat /\ now \in Nat
    <3>1. FeedPrices[f] \subseteq Nat BY PriceAssumption
    <3>2. now \in Nat BY <1>1, RatioAssumption DEF MarketFits
    <3> QED BY <3>1, <3>2
  <2> QED BY <2>1 DEF QuoteType
<1> HIDE DEF quote
<1>4. feed' \in [Feeds -> QuoteType] BY <1>1, <1>2, <1>3 DEF MarketFits
<1>5. published \in [Feeds -> SUBSET QuoteType] /\ \A g \in Feeds : feed[g] \in published[g]
  BY <1>1 DEF MarketFits
<1>6. published' \in [Feeds -> SUBSET QuoteType] BY <1>2, <1>3, <1>5
<1>7. \A g \in Feeds : published[g] \subseteq published'[g] BY <1>2, <1>5
<1>8. \A g \in Feeds : feed'[g] \in published'[g]
  <2> TAKE g \in Feeds
  <2>1. CASE g = f
    <3>1. feed'[g] = quote BY <1>1, <1>2, <2>1 DEF MarketFits
    <3>2. published'[g] = published[g] \cup {quote} BY <1>2, <1>5, <2>1
    <3> QED BY <3>1, <3>2
  <2>2. CASE g # f
    <3>1. feed'[g] = feed[g] BY <1>1, <1>2, <2>2 DEF MarketFits
    <3> QED BY <3>1, <1>5, <1>7
  <2> QED BY <2>1, <2>2
<1>9. MarketFits' BY <1>1, <1>2, <1>4, <1>6, <1>8 DEF MarketFits
<1>10. CallsFit'
  <2>1. info' = info /\ rate' = rate /\ call' = call BY <1>2 DEF settings
  <2>2. rate \in [DOMAIN Rates -> Nat] BY <1>1 DEF MarketFits
  <2>3. rate' \in [DOMAIN Rates -> Nat] /\ \A s \in DOMAIN Rates : rate[s] <= rate'[s]
    BY <2>1, <2>2
  <2>4. \A s \in Tokens : info[s] \in InfoType /\ Truthful(s, info[s])
                            => info'[s] \in InfoType /\ Truthful(s, info'[s])
    BY <2>1
  <2> QED BY <1>1, <1>7, <2>1, <2>2, <2>3, <2>4, CallsStay
<1>11. InfoFits' /\ OthersFit' BY <1>1, <1>2 DEF InfoFits, OthersFit, settings
<1>12. LedgersFit' /\ NothingIsMinted' BY <1>1, <1>2, KeptLedgers
<1> QED BY <1>2, <1>9, <1>10, <1>11, <1>12 DEF Steps, OracleInv

\* The rate of a staking token grows.
LEMMA RateGrowsSteps ==
  ASSUME OracleInv, NEW t \in DOMAIN Rates, NEW r \in Rates[t], RateGrows(t, r)
  PROVE  Steps
<1>1. LedgersFit /\ NothingIsMinted /\ MarketFits /\ InfoFits /\ CallsFit /\ OthersFit
  BY DEF OracleInv
<1>2. /\ r > rate[t] /\ rate' = [rate EXCEPT ![t] = r]
      /\ LedgersKept /\ UNCHANGED <<settings, record, sync, call, feed, now, published, sent>>
  BY DEF RateGrows, LedgersKept, ledgers
<1>3. r \in Nat
  <2>1. Rates[t] \subseteq Nat BY PriceAssumption
  <2> QED BY <2>1
<1>4. rate \in [DOMAIN Rates -> Nat] BY <1>1 DEF MarketFits
<1>5. rate' \in [DOMAIN Rates -> Nat] BY <1>2, <1>3, <1>4
<1>6. \A s \in DOMAIN Rates : rate[s] <= rate'[s]
  <2> TAKE s \in DOMAIN Rates
  <2>1. rate[s] \in Nat /\ rate'[s] = IF s = t THEN r ELSE rate[s] BY <1>2, <1>4
  <2> QED BY <1>2, <1>3, <2>1
<1>7. MarketFits' BY <1>1, <1>2, <1>5 DEF MarketFits
<1>8. CallsFit'
  <2>1. info' = info /\ published' = published /\ call' = call BY <1>2 DEF settings
  <2>2. \A s \in Tokens : info[s] \in InfoType /\ Truthful(s, info[s])
                            => info'[s] \in InfoType /\ Truthful(s, info'[s])
    BY <2>1
  <2>3. \A f \in Feeds : published[f] \subseteq published'[f] BY <2>1
  <2> QED BY <1>1, <1>4, <1>5, <1>6, <2>1, <2>2, <2>3, CallsStay
<1>9. InfoFits' /\ OthersFit' BY <1>1, <1>2 DEF InfoFits, OthersFit, settings
<1>10. LedgersFit' /\ NothingIsMinted' BY <1>1, <1>2, KeptLedgers
<1> QED BY <1>2, <1>7, <1>8, <1>9, <1>10 DEF Steps, OracleInv

\* Time passes.
LEMMA TickSteps ==
  ASSUME OracleInv, Tick
  PROVE  Steps
<1>1. LedgersFit /\ NothingIsMinted /\ MarketFits /\ InfoFits /\ CallsFit /\ OthersFit
  BY DEF OracleInv
<1>2. /\ now < MaxTime /\ now' = now + 1
      /\ LedgersKept /\ UNCHANGED <<settings, record, sync, call, feed, rate, published, sent>>
  BY DEF Tick, LedgersKept, ledgers
<1>3. now' \in 0 .. MaxTime BY <1>1, <1>2, RatioAssumption DEF MarketFits
<1>4. MarketFits' BY <1>1, <1>2, <1>3 DEF MarketFits
<1>5. CallsFit' /\ InfoFits' /\ OthersFit'
  BY <1>1, <1>2 DEF CallsFit, InfoFits, OthersFit, settings
<1>6. LedgersFit' /\ NothingIsMinted' BY <1>1, <1>2, KeptLedgers
<1> QED BY <1>2, <1>4, <1>5, <1>6 DEF Steps, OracleInv

\* The owner sets how fast a rate may grow.
LEMMA SetMaxChangeRateSteps ==
  ASSUME OracleInv, NEW t \in DOMAIN Rates, NEW m \in MaxChanges[t], SetMaxChangeRate(t, m)
  PROVE  Steps
<1>1. LedgersFit /\ NothingIsMinted /\ MarketFits /\ InfoFits /\ CallsFit /\ OthersFit
  BY DEF OracleInv
<1>2. /\ max_change' = [max_change EXCEPT ![t] = m]
      /\ LedgersKept /\ UNCHANGED <<market, info, pyth_on, record, sync, call, sent>>
  BY DEF SetMaxChangeRate, LedgersKept, ledgers
<1>3. MaxChanges[t] \subseteq 0 .. MaxRatio \cup {NoLimit} BY ChangeAssumption
<1>4. m \in 0 .. MaxRatio \cup {NoLimit} BY <1>3
<1>5. OthersFit' BY <1>1, <1>2, <1>4 DEF OthersFit
<1>6. CallsFit' /\ MarketFits' /\ InfoFits'
  BY <1>1, <1>2 DEF CallsFit, MarketFits, InfoFits, market
<1>7. LedgersFit' /\ NothingIsMinted' BY <1>1, <1>2, KeptLedgers
<1> QED BY <1>2, <1>5, <1>6, <1>7 DEF Steps, OracleInv

\* A token is asked for its rate, answers, and has it recorded or not.
LEMMA SyncSteps ==
  ASSUME OracleInv, NEW t \in DOMAIN Rates,
         (\E a \in Accounts : SyncRate(a, t)) \/ SyncAnswer(t) \/ SyncCallback(t) \/ SyncFails(t)
  PROVE  Steps
<1>1. LedgersFit /\ NothingIsMinted /\ MarketFits /\ InfoFits /\ CallsFit /\ OthersFit
  BY DEF OracleInv
<1>2. LedgersKept /\ UNCHANGED <<settings, market, call>>
  BY DEF SyncRate, SyncAnswer, SyncCallback, SyncFails, LedgersKept, ledgers
<1>3. OthersFit'
  <2>1. rate[t] \in Nat BY <1>1 DEF MarketFits
  <2>2. sent' \in [Accounts -> Nat]
    <3>1. sent \in [Accounts -> Nat] BY <1>1 DEF OthersFit
    <3>2. ASSUME NEW a \in Accounts, SyncRate(a, t) PROVE sent' \in [Accounts -> Nat]
      BY <1>1, <3>2, Counted DEF SyncRate
    <3> QED BY <3>1, <3>2 DEF SyncAnswer, SyncCallback, SyncFails
  <2>3. sync' \in [DOMAIN Rates -> Nat \cup {NoCall, NoAnswer}]
    BY <1>1, <2>1 DEF OthersFit, SyncRate, SyncAnswer, SyncCallback, SyncFails
  <2>4. record' \in [DOMAIN Rates -> Nat \cup {NoRecord}]
    BY <1>1 DEF OthersFit, SyncRate, SyncAnswer, SyncCallback, SyncFails
  <2> QED BY <1>1, <1>2, <2>2, <2>3, <2>4 DEF OthersFit, settings
<1>4. CallsFit' /\ MarketFits' /\ InfoFits'
  BY <1>1, <1>2 DEF CallsFit, MarketFits, InfoFits, settings, market
<1>5. LedgersFit' /\ NothingIsMinted' BY <1>1, <1>2, KeptLedgers
<1> QED BY <1>2, <1>3, <1>4, <1>5 DEF Steps, OracleInv

\* Every step keeps the invariant, and moves nothing or runs one list on prices
\* the market can answer for.
LEMMA EveryStep ==
  ASSUME OracleInv, [Next]_vars
  PROVE  Steps
<1>1. CASE UNCHANGED vars
  <2>1. LedgersFit /\ NothingIsMinted /\ MarketFits /\ InfoFits /\ CallsFit /\ OthersFit
    BY DEF OracleInv
  <2>2. LedgersKept /\ UNCHANGED <<settings, market, record, sync, call, sent>>
    BY <1>1 DEF vars, ledgers, LedgersKept
  <2>3. CallsFit' /\ MarketFits' /\ InfoFits' /\ OthersFit'
    BY <2>1, <2>2 DEF CallsFit, MarketFits, InfoFits, OthersFit, market, settings
  <2>4. LedgersFit' /\ NothingIsMinted' BY <2>1, <2>2, KeptLedgers
  <2> QED BY <2>2, <2>3, <2>4 DEF Steps, OracleInv
<1>2. ASSUME NEW a \in Accounts,
             \/ \E list \in Lists[a] : ExecuteWithPyth(a, list)
             \/ \E list \in MarginLists[a] : MarginExecuteWithPyth(a, list)
             \/ \E list \in PriceLists[a] : AskPriceOracle(list \in MarginLists[a], a, list)
             \/ \E f \in Feeds \cup Tokens : Answer(a, f)
             \/ Callback(a)
             \/ OracleOnCall(a)
             \/ CallFails(a)
      PROVE  Steps
  <2>1. ASSUME NEW list \in Lists[a], ExecuteWithPyth(a, list) PROVE Steps
    <3>1. ListOf(FALSE, list) /\ AskOracle(FALSE, a, list)
      BY <2>1, ListsAreLists DEF ExecuteWithPyth
    <3> QED BY <3>1, AskOracleSteps
  <2>2. ASSUME NEW list \in MarginLists[a], MarginExecuteWithPyth(a, list) PROVE Steps
    <3>1. ListOf(TRUE, list) /\ AskOracle(TRUE, a, list)
      BY <2>2, ListsAreLists DEF MarginExecuteWithPyth
    <3> QED BY <3>1, AskOracleSteps
  <2>3. ASSUME NEW list \in PriceLists[a], AskPriceOracle(list \in MarginLists[a], a, list)
        PROVE  Steps
    <3> DEFINE on_margin == list \in MarginLists[a]
    <3>1. ListOf(on_margin, list) BY <2>3, ListsAreLists
    <3>2. on_margin \in BOOLEAN OBVIOUS
    <3>3. AskPriceOracle(on_margin, a, list) BY <2>3
    <3> HIDE DEF on_margin
    <3> QED BY <3>1, <3>2, <3>3, AskPriceOracleSteps
  <2>4. ASSUME NEW f, Answer(a, f) PROVE Steps BY <2>4, AnswerSteps
  <2>5. CASE Callback(a) BY <2>5, CallbackSteps
  <2>6. CASE OracleOnCall(a) BY <2>6, OracleOnCallSteps
  <2>7. CASE CallFails(a) BY <2>7, CallFailsSteps
  <2> QED BY <1>2, <2>1, <2>2, <2>3, <2>4, <2>5, <2>6, <2>7
<1>3. ASSUME NEW on \in Switches, EnableOracle(on) PROVE Steps
  <2>1. on \in BOOLEAN BY SwitchAssumption
  <2> QED BY <1>3, <2>1, EnableOracleSteps
<1>4. ASSUME NEW t \in Tokens, NEW i \in InfoChanges[t], SetTokenPythInfo(t, i) PROVE Steps
  BY <1>4, SetTokenPythInfoSteps
<1>5. ASSUME NEW f \in Feeds, NEW p \in FeedPrices[f], Publish(f, p) PROVE Steps
  BY <1>5, PublishSteps
<1>6. ASSUME NEW t \in DOMAIN Rates, NEW r \in Rates[t], RateGrows(t, r) PROVE Steps
  BY <1>6, RateGrowsSteps
<1>7. CASE Tick BY <1>7, TickSteps
<1>8. ASSUME NEW t \in DOMAIN Rates, NEW m \in MaxChanges[t], SetMaxChangeRate(t, m) PROVE Steps
  BY <1>8, SetMaxChangeRateSteps
<1>9. ASSUME NEW t \in DOMAIN Rates,
             \/ \E a \in Syncers : SyncRate(a, t)
             \/ SyncAnswer(t) \/ SyncCallback(t) \/ SyncFails(t)
      PROVE  Steps
  <2>1. (\E a \in Accounts : SyncRate(a, t)) \/ SyncAnswer(t) \/ SyncCallback(t) \/ SyncFails(t)
    BY <1>9, SwitchAssumption
  <2> QED BY <2>1, SyncSteps
<1> QED BY <1>1, <1>2, <1>3, <1>4, <1>5, <1>6, <1>7, <1>8, <1>9 DEF Next

-----------------------------------------------------------------------------
\* The ledgers, the market, what tokens are priced by and the calls that wait
\* always fit together.
THEOREM OracleInvariance == Spec => []OracleInv
<1>1. Init => OracleInv BY OracleInitially
<1>2. OracleInv /\ [Next]_vars => OracleInv' BY EveryStep DEF Steps
<1> QED BY <1>1, <1>2, PTL DEF Spec

\* TypeOK, for every value of the constants.
THEOREM OraclesAreTyped == Spec => []TypeOK
<1>1. OracleInv => TypeOK
  <2> SUFFICES ASSUME OracleInv PROVE TypeOK OBVIOUS
  <2>1. LedgersFit /\ MarketFits /\ InfoFits /\ CallsFit /\ OthersFit BY DEF OracleInv
  <2>2. \A a \in Accounts : call[a] # NoCall => IsCall(call[a])
    BY <2>1 DEF CallsFit, CallFits
  <2> QED BY <2>1, <2>2 DEF TypeOK, LedgersFit, MarketFits, InfoFits, OthersFit
<1> QED BY <1>1, OracleInvariance, PTL

\* NothingIsMinted, whatever lists are run and on whatever prices: what is
\* available of every asset is what it was at first.
THEOREM NothingIsEverMinted == Spec => []NothingIsMinted
<1>1. OracleInv => NothingIsMinted BY DEF OracleInv
<1> QED BY <1>1, OracleInvariance, PTL

\* The record of rates is written by two callbacks, with rates that are accepted.
LEMMA RecordStep ==
  ASSUME OracleInv, [Next]_vars, NEW t \in DOMAIN Rates,
         record[t] # NoRecord, max_change[t] # NoLimit
  PROVE  record'[t] >= record[t]
<1>1. record \in [DOMAIN Rates -> Nat \cup {NoRecord}] BY DEF OracleInv, OthersFit
<1>2. record[t] \in Nat BY <1>1
<1>3. \/ record' = record
      \/ \E a \in Accounts : Callback(a)
      \/ \E s \in DOMAIN Rates : SyncCallback(s)
  <2>1. CASE UNCHANGED vars BY <2>1 DEF vars
  <2>2. CASE Next
    BY <2>2 DEF Next, ExecuteWithPyth, MarginExecuteWithPyth, AskOracle, AskPriceOracle, Answer,
                OracleOnCall, CallFails, EnableOracle, SetTokenPythInfo, Publish, RateGrows, Tick,
                SyncRate, SyncAnswer, SyncFails, SetMaxChangeRate
  <2> QED BY <2>1, <2>2
<1>4. CASE record' = record BY <1>2, <1>4
<1>5. ASSUME NEW a \in Accounts, Callback(a) PROVE record'[t] >= record[t]
  <2>1. /\ \A s \in ToPrice(call[a]) : CanPrice(call[a], s)
        /\ record' = [s \in DOMAIN record |->
                         IF s \in ToPrice(call[a]) /\ info[s].extra
                         THEN call[a].answers[s] ELSE record[s]]
    BY <1>5 DEF Callback
  <2>2. CASE t \in ToPrice(call[a]) /\ info[t].extra
    <3>1. RateAccepted(t, call[a].answers[t]) BY <2>1, <2>2 DEF CanPrice
    <3>2. record[t] <= call[a].answers[t] BY <3>1 DEF RateAccepted
    <3>3. record'[t] = call[a].answers[t] BY <1>1, <2>1, <2>2
    <3> QED BY <3>2, <3>3
  <2>3. CASE ~ (t \in ToPrice(call[a]) /\ info[t].extra)
    <3>1. record'[t] = record[t] BY <1>1, <2>1, <2>3
    <3> QED BY <1>2, <3>1
  <2> QED BY <2>2, <2>3
<1>6. ASSUME NEW s \in DOMAIN Rates, SyncCallback(s) PROVE record'[t] >= record[t]
  <2>1. RateAccepted(s, sync[s]) /\ record' = [record EXCEPT ![s] = sync[s]]
    BY <1>6 DEF SyncCallback
  <2>2. CASE s = t
    <3>1. record[t] <= sync[t] BY <2>1, <2>2 DEF RateAccepted
    <3>2. record'[t] = sync[t] BY <1>1, <2>1, <2>2
    <3> QED BY <3>1, <3>2
  <2>3. CASE s # t
    <3>1. record'[t] = record[t] BY <1>1, <2>1, <2>3
    <3> QED BY <1>2, <3>1
  <2> QED BY <2>2, <2>3
<1> QED BY <1>3, <1>4, <1>5, <1>6

\* RecordFallsUnlimited, in whatever order answers reach the two callbacks that
\* write the record, and whenever the owner sets or lifts max_change_rate.
THEOREM LimitedRecordsNeverFall == Spec => RecordFallsUnlimited
<1>1. OracleInv /\ [Next]_vars
        => \A t \in DOMAIN Rates :
             record[t] # NoRecord => record'[t] >= record[t] \/ max_change[t] = NoLimit
  BY RecordStep
<1> QED BY <1>1, OracleInvariance, PTL DEF Spec, RecordFallsUnlimited

\* Amounts of positions are natural numbers, in every ledger.
LEMMA Amounts ==
  ASSUME LedgersFit, NEW a \in Accounts, NEW t \in Tokens
  PROVE  account[a].borrowed[t] \in Nat /\ account[a].collateral[t] \in Nat /\ margin[a].c \in Nat
BY DEF LedgersFit, AccountType, MarginType

\* Who borrows or withdraws is judged on the prices the list ran on.
LEMMA RiskStep ==
  ASSUME OracleInv, Steps, NEW a \in Accounts
  PROVE  /\ RaisesDebt(a) \/ (LowersCollateral(a) /\ Acts(a))
              => \E q \in PlausiblePrices : Healthy(account'[a], q)
         /\ margin'[a].c < margin[a].c
              => \E q \in PlausiblePrices :
                     /\ {MarginTokens.c, MarginTokens.d, MarginTokens.p} \subseteq DOMAIN q
                     /\ ~ MarginAtRisk(margin'[a], q)
<1>1. LedgersFit BY DEF OracleInv
<1>2. LedgersFit' BY DEF Steps, OracleInv
<1>3. \A t \in Tokens : /\ account[a].borrowed[t] \in Nat /\ account'[a].borrowed[t] \in Nat
                        /\ account[a].collateral[t] \in Nat /\ account'[a].collateral[t] \in Nat
  <2>1. \A t \in Tokens : account[a].borrowed[t] \in Nat /\ account[a].collateral[t] \in Nat
    BY <1>1, Amounts
  <2>2. \A t \in Tokens : account'[a].borrowed[t] \in Nat /\ account'[a].collateral[t] \in Nat
    BY <1>2 DEF LedgersFit, AccountType
  <2> QED BY <2>1, <2>2
<1>4. margin[a].c \in Nat BY <1>1 DEF LedgersFit, MarginType
<1>5. account'[a] = account[a] => ~ RaisesDebt(a) /\ ~ LowersCollateral(a)
  BY <1>3 DEF RaisesDebt, LowersCollateral
<1>6. margin'[a] = margin[a] => ~ margin'[a].c < margin[a].c BY <1>4
<1>7. CASE LedgersKept BY <1>5, <1>6, <1>7 DEF LedgersKept
<1>8. ASSUME NEW b \in Accounts, NEW q, RanOn(b, q)
      PROVE  /\ RaisesDebt(a) \/ (LowersCollateral(a) /\ Acts(a))
                  => \E p \in PlausiblePrices : Healthy(account'[a], p)
             /\ margin'[a].c < margin[a].c
                  => \E p \in PlausiblePrices : MarginPriced(margin'[a], p)
  <2>1. PICK p \in PlausiblePrices : Extends(p, q) BY <1>8 DEF RanOn, Backed
  <2>2. CASE Executed(b, q)
    <3>1. margin' = margin BY <2>2 DEF Executed
    <3>2. CASE a = b
      <4>1. Coherent(account'[a]) BY <1>2 DEF LedgersFit
      <4>2. Healthy(account'[a], q) => Healthy(account'[a], p) BY <2>1, <4>1, SameJudgement
      <4>3. \/ Healthy(account'[a], q)
            \/ \A t \in Tokens : /\ account'[a].borrowed[t] <= account[a].borrowed[t]
                                 /\ account'[a].collateral[t] >= account[a].collateral[t]
        BY <2>2, <3>2 DEF Executed
      <4>4. Healthy(account'[a], q) \/ (~ RaisesDebt(a) /\ ~ LowersCollateral(a))
        BY <1>3, <4>3 DEF RaisesDebt, LowersCollateral
      <4> QED BY <1>6, <2>1, <3>1, <4>2, <4>4
    <3>3. CASE a # b
      <4>1. ~ Acts(a) BY <1>8, <3>3 DEF RanOn
      <4>2. OwesNoMore(account'[a], account[a]) BY <2>2, <3>3 DEF Executed, Seized
      <4>3. ~ RaisesDebt(a) BY <1>3, <4>2 DEF RaisesDebt, OwesNoMore
      <4> QED BY <1>6, <3>1, <4>1, <4>3
    <3> QED BY <3>2, <3>3
  <2>3. CASE MarginExecuted(b, q)
    <3>1. account' = account BY <2>3 DEF MarginExecuted
    <3>2. margin'[a] = margin[a] \/ margin'[a].c >= margin[a].c \/ MarginPriced(margin'[a], q)
      BY <2>3 DEF MarginExecuted
    <3>3. MarginPriced(margin'[a], q) => MarginPriced(margin'[a], p)
      BY <2>1, SameMarginJudgement
    <3>4. margin'[a].c \in Nat BY <1>2 DEF LedgersFit, MarginType
    <3>5. margin'[a].c < margin[a].c => MarginPriced(margin'[a], p)
      BY <1>4, <1>6, <3>2, <3>3, <3>4
    <3> QED BY <1>5, <2>1, <3>1, <3>5
  <2> QED BY <1>8, <2>2, <2>3 DEF RanOn
<1> QED BY <1>7, <1>8 DEF Steps, MarginPriced

\* RiskIsPriced: whoever borrows or withdraws is healthy afterwards under prices
\* the market can answer for.
THEOREM RiskIsAlwaysPriced == Spec => RiskIsPriced
<1>1. OracleInv /\ [Next]_vars =>
        \A a \in Accounts :
        /\ RaisesDebt(a) \/ (LowersCollateral(a) /\ Acts(a))
             => \E q \in PlausiblePrices : Healthy(account'[a], q)
        /\ margin'[a].c < margin[a].c
             => \E q \in PlausiblePrices :
                    /\ {MarginTokens.c, MarginTokens.d, MarginTokens.p} \subseteq DOMAIN q
                    /\ ~ MarginAtRisk(margin'[a], q)
  <2>1. SUFFICES ASSUME OracleInv, [Next]_vars, NEW a \in Accounts
                 PROVE  /\ RaisesDebt(a) \/ (LowersCollateral(a) /\ Acts(a))
                             => \E q \in PlausiblePrices : Healthy(account'[a], q)
                        /\ margin'[a].c < margin[a].c
                             => \E q \in PlausiblePrices :
                                    /\ {MarginTokens.c, MarginTokens.d, MarginTokens.p} \subseteq DOMAIN q
                                    /\ ~ MarginAtRisk(margin'[a], q)
    OBVIOUS
  <2>2. Steps BY <2>1, EveryStep
  <2> QED BY <2>1, <2>2, RiskStep
<1> QED BY <1>1, OracleInvariance, PTL DEF Spec, RiskIsPriced

\* Who is taken from was at risk on the prices the list of another ran on.
LEMMA SeizureStep ==
  ASSUME OracleInv, Steps, NEW a \in Accounts, LowersCollateral(a), ~ Acts(a)
  PROVE  \E q \in PlausiblePrices :
             PositionTokens(account[a]) \subseteq DOMAIN q /\ AtRisk(account[a], q)
<1>1. LedgersFit BY DEF OracleInv
<1>2. account'[a] # account[a]
  <2>1. \A t \in Tokens : account[a].collateral[t] \in Nat BY <1>1, Amounts
  <2> QED BY <2>1 DEF LowersCollateral
<1>3. PICK b \in Accounts : \E q : RanOn(b, q) BY <1>2 DEF Steps, LedgersKept
<1>4. PICK q : RanOn(b, q) BY <1>3
<1>5. a # b /\ Executed(b, q) BY <1>2, <1>4 DEF RanOn, MarginExecuted
<1>6. PICK p \in PlausiblePrices : Extends(p, q) BY <1>4 DEF RanOn, Backed
<1>7. Coherent(account[a]) BY <1>1 DEF LedgersFit
<1>8. PositionTokens(account[a]) \subseteq DOMAIN q /\ AtRisk(account[a], q)
  BY <1>2, <1>5 DEF Executed, Seized
<1>9. PositionTokens(account[a]) \subseteq DOMAIN p /\ AtRisk(account[a], p)
  BY <1>6, <1>7, <1>8, SameJudgement
<1> QED BY <1>6, <1>9

\* SeizedAtRisk: what others take from a position was at risk when they take it.
THEOREM SeizuresAreAtRisk == Spec => SeizedAtRisk
<1>1. OracleInv /\ [Next]_vars =>
        \A a \in Accounts :
         LowersCollateral(a) /\ ~ Acts(a)
         => \E q \in PlausiblePrices :
                PositionTokens(account[a]) \subseteq DOMAIN q /\ AtRisk(account[a], q)
  BY EveryStep, SeizureStep
<1> QED BY <1>1, OracleInvariance, PTL DEF Spec, SeizedAtRisk

=============================================================================
