--------------------- MODULE OfficialGenerationTheorems ---------------------
(***************************************************************************)
(* What holds of the credits and of official generation for every number   *)
(* of users, tasks, executors and prices.                                  *)
(*                                                                         *)
(* The credits.  Balances stay the projection of the ledger.  The argument *)
(* is the one a bookkeeper gives: posting one fresh entry, and moving the  *)
(* two balances of its user by its two deltas, keeps the books balanced    *)
(* (Post); every transaction posts one entry, after the bonus entry when   *)
(* it is the one that opens the account; and every entry is fresh, because *)
(* the state that leads to it excludes an earlier one with the same key.   *)
(*                                                                         *)
(* Official generation.  Seen from the account, a step of the system is    *)
(* one of five kinds: a grant, a reservation, a release, a capture, or     *)
(* nothing (StepKinds).  The account's invariant is proved over the five   *)
(* kinds, the invariants of tasks and executors over the actions.          *)
(***************************************************************************)
EXTENDS OfficialGeneration, TotalsTheorems

(* The credits *)

\* A signed amount is its gain less its loss, both natural numbers.
LEMMA SignedAmounts ==
    ASSUME NEW n \in Int
    PROVE  Gain(n) \in Nat /\ Loss(n) \in Nat /\ Gain(n) - Loss(n) = n
BY DEF Gain, Loss

\* One column of the ledger grows by the amount of the posted entry.
LEMMA ColumnAdd ==
    ASSUME NEW S, IsFiniteSet(S), NEW e, e \notin S, NEW T, T = S \cup {e},
           NEW f \in [S -> Nat], NEW g \in [T -> Nat], \A x \in S : f[x] = g[x]
    PROVE  /\ Total(S, f) \in Nat
           /\ Total(T, g) = Total(S, f) + g[e]
<1>0. S \subseteq T
  OBVIOUS
<1>1. Total(S, f) = Total(S, g)
  BY <1>0, TotalAgree
<1>2. Total(S, f) \in Nat
  BY TotalType
<1>3. Total(T, g) = Total(S, g) + g[e]
  BY <1>0, TotalAdd
<1> QED
  BY <1>1, <1>2, <1>3

\* Posting an entry keeps the balances of every account the sums of its lines.
LEMMA BalancedAdd ==
    ASSUME NEW L \in SUBSET Entries, IsFiniteSet(L), NEW e \in Entries, e \notin L,
           NEW u, NEW a \in Int, NEW r \in Int, Balanced(L, u, a, r)
    PROVE  Balanced(L \cup {e}, u, IF e.user = u THEN a + e.available ELSE a,
                                   IF e.user = u THEN r + e.reserved ELSE r)
<1>1. CASE e.user # u
  <2>1. Lines(L \cup {e}, u) = Lines(L, u)
    BY <1>1 DEF Lines
  <2> QED
    BY <1>1, <2>1 DEF Balanced
<1>2. CASE e.user = u
  <2> DEFINE S == Lines(L, u)
             T == Lines(L \cup {e}, u)
             lossA(R) == [x \in R |-> Loss(x.available)]
             gainA(R) == [x \in R |-> Gain(x.available)]
             lossR(R) == [x \in R |-> Loss(x.reserved)]
             gainR(R) == [x \in R |-> Gain(x.reserved)]
  <2>1. T = S \cup {e} /\ e \in T /\ e \notin S
    BY <1>2 DEF Lines
  <2>2. IsFiniteSet(S)
    BY FS_Subset DEF Lines
  <2>3. \A x \in T : x.available \in Int /\ x.reserved \in Int
    BY DEF Lines, Entries
  <2>4. \A x \in T : /\ Loss(x.available) \in Nat /\ Gain(x.available) \in Nat
                     /\ Loss(x.reserved) \in Nat /\ Gain(x.reserved) \in Nat
    BY <2>3, SignedAmounts
  <2>5. Total(S, lossA(S)) \in Nat
        /\ Total(T, lossA(T)) = Total(S, lossA(S)) + Loss(e.available)
    <3> DEFINE f == lossA(S)
               g == lossA(T)
    <3>1. f \in [S -> Nat] /\ g \in [T -> Nat] /\ \A x \in S : f[x] = g[x]
      BY <2>1, <2>4
    <3>2. g[e] = Loss(e.available)
      BY <2>1
    <3> HIDE DEF f, g, S, T
    <3>3. Total(S, f) \in Nat /\ Total(T, g) = Total(S, f) + g[e]
      BY <2>1, <2>2, <3>1, ColumnAdd
    <3> QED
      BY <3>2, <3>3 DEF f, g
  <2>6. Total(S, gainA(S)) \in Nat
        /\ Total(T, gainA(T)) = Total(S, gainA(S)) + Gain(e.available)
    <3> DEFINE f == gainA(S)
               g == gainA(T)
    <3>1. f \in [S -> Nat] /\ g \in [T -> Nat] /\ \A x \in S : f[x] = g[x]
      BY <2>1, <2>4
    <3>2. g[e] = Gain(e.available)
      BY <2>1
    <3> HIDE DEF f, g, S, T
    <3>3. Total(S, f) \in Nat /\ Total(T, g) = Total(S, f) + g[e]
      BY <2>1, <2>2, <3>1, ColumnAdd
    <3> QED
      BY <3>2, <3>3 DEF f, g
  <2>7. Total(S, lossR(S)) \in Nat
        /\ Total(T, lossR(T)) = Total(S, lossR(S)) + Loss(e.reserved)
    <3> DEFINE f == lossR(S)
               g == lossR(T)
    <3>1. f \in [S -> Nat] /\ g \in [T -> Nat] /\ \A x \in S : f[x] = g[x]
      BY <2>1, <2>4
    <3>2. g[e] = Loss(e.reserved)
      BY <2>1
    <3> HIDE DEF f, g, S, T
    <3>3. Total(S, f) \in Nat /\ Total(T, g) = Total(S, f) + g[e]
      BY <2>1, <2>2, <3>1, ColumnAdd
    <3> QED
      BY <3>2, <3>3 DEF f, g
  <2>8. Total(S, gainR(S)) \in Nat
        /\ Total(T, gainR(T)) = Total(S, gainR(S)) + Gain(e.reserved)
    <3> DEFINE f == gainR(S)
               g == gainR(T)
    <3>1. f \in [S -> Nat] /\ g \in [T -> Nat] /\ \A x \in S : f[x] = g[x]
      BY <2>1, <2>4
    <3>2. g[e] = Gain(e.reserved)
      BY <2>1
    <3> HIDE DEF f, g, S, T
    <3>3. Total(S, f) \in Nat /\ Total(T, g) = Total(S, f) + g[e]
      BY <2>1, <2>2, <3>1, ColumnAdd
    <3> QED
      BY <3>2, <3>3 DEF f, g
  <2>9. /\ Gain(e.available) \in Nat /\ Loss(e.available) \in Nat
        /\ Gain(e.available) - Loss(e.available) = e.available
        /\ Gain(e.reserved) \in Nat /\ Loss(e.reserved) \in Nat
        /\ Gain(e.reserved) - Loss(e.reserved) = e.reserved
        /\ e.available \in Int /\ e.reserved \in Int
    BY <2>1, <2>3, SignedAmounts
  <2>10. /\ a + Total(S, lossA(S)) = Total(S, gainA(S))
         /\ r + Total(S, lossR(S)) = Total(S, gainR(S))
    BY DEF Balanced
  <2>11. /\ a + e.available + Total(T, lossA(T)) = Total(T, gainA(T))
         /\ r + e.reserved + Total(T, lossR(T)) = Total(T, gainR(T))
    <3> HIDE DEF lossA, gainA, lossR, gainR, S, T
    <3> QED
      BY <2>5, <2>6, <2>7, <2>8, <2>9, <2>10
  <2> QED
    BY <1>2, <2>11 DEF Balanced
<1> QED
  BY <1>1, <1>2

\* Books: ledger lines of the right type, and balances that are their sums.
Books(L, av, rs) ==
    /\ L \in SUBSET Entries /\ IsFiniteSet(L)
    /\ av \in [Users -> Int] /\ rs \in [Users -> Int]
    /\ \A u \in Users : Balanced(L, u, av[u], rs[u])

\* Posting a fresh entry, and moving its user's balances by it, keeps the books.
LEMMA Post ==
    ASSUME NEW L, NEW av, NEW rs, Books(L, av, rs),
           NEW e \in Entries, e \notin L
    PROVE  Books(L \cup {e}, [av EXCEPT ![e.user] = @ + e.available],
                             [rs EXCEPT ![e.user] = @ + e.reserved])
<1> DEFINE nav == [av EXCEPT ![e.user] = @ + e.available]
           nrs == [rs EXCEPT ![e.user] = @ + e.reserved]
<1>1. L \cup {e} \in SUBSET Entries /\ IsFiniteSet(L \cup {e})
  BY FS_AddElement DEF Books
<1>2. nav \in [Users -> Int] /\ nrs \in [Users -> Int]
  BY DEF Books, Entries
<1>3. ASSUME NEW u \in Users PROVE Balanced(L \cup {e}, u, nav[u], nrs[u])
  <2>1. av[u] \in Int /\ rs[u] \in Int /\ Balanced(L, u, av[u], rs[u])
    BY DEF Books
  <2>2. nav[u] = (IF e.user = u THEN av[u] + e.available ELSE av[u])
    BY DEF Books
  <2>3. nrs[u] = (IF e.user = u THEN rs[u] + e.reserved ELSE rs[u])
    BY DEF Books
  <2>4. L \in SUBSET Entries /\ IsFiniteSet(L)
    BY DEF Books
  <2>5. Balanced(L \cup {e}, u, IF e.user = u THEN av[u] + e.available ELSE av[u],
                                IF e.user = u THEN rs[u] + e.reserved ELSE rs[u])
    BY <2>1, <2>4, BalancedAdd
  <2> QED
    BY <2>2, <2>3, <2>5
<1> QED
  BY <1>1, <1>2, <1>3 DEF Books

\* The empty ledger and zero balances, the tables as migrated, are books.
LEMMA BooksOpen ==
    Books({}, [u \in Users |-> 0], [u \in Users |-> 0])
<1>1. \A u : Lines({}, u) = {}
  BY DEF Lines
<1>2. \A u : Balanced({}, u, 0, 0)
  BY <1>1, TotalEmpty DEF Balanced
<1> QED
  BY <1>2, FS_EmptySet DEF Books

-----------------------------------------------------------------------------
(* The transactions of Credits *)

FreshCodes ==
    \A u \in Users, c \in Codes : redeemed[c] = Nobody => ~HasEntry(u, "redemption", c)

FreshAccounts == \A u \in Users \ opened : ~HasEntry(u, "signup_bonus", u)

CreditInv == CreditsTypeOK /\ LedgerProjection /\ FreshCodes /\ FreshAccounts

\* What the runs check of the tables are books.
LEMMA InvBooks == CreditsTypeOK /\ LedgerProjection => Books(ledger, available, reserved)
BY DEF CreditsTypeOK, LedgerProjection, Books

\* The bonus ensureAccount credits is a natural number, possibly 0.
LEMMA BonusType ==
    ASSUME CreditsTypeOK, NEW u \in Users
    PROVE  BonusDue(u) \in Nat
BY DEF CreditsTypeOK, BonusDue

\* Opening an account posts the bonus entry, when one is due.
LEMMA BonusPosts ==
    ASSUME CreditInv, NEW u \in Users
    PROVE  Books(ledger \cup BonusEntries(u), [available EXCEPT ![u] = @ + BonusDue(u)], reserved)
<1> DEFINE b == Entry(u, "signup_bonus", u, BonusDue(u), 0)
<1>1. Books(ledger, available, reserved)
  BY InvBooks DEF CreditInv
<1>2. BonusDue(u) \in Nat
  BY BonusType DEF CreditInv
<1>3. available \in [Users -> Nat] /\ reserved \in [Users -> Nat]
  BY DEF CreditInv, CreditsTypeOK
<1>4. CASE BonusDue(u) = 0
  <2>1. BonusEntries(u) = {}
    BY <1>4 DEF BonusEntries
  <2>2. [available EXCEPT ![u] = @ + BonusDue(u)] = available
    BY <1>3, <1>4
  <2>3. ledger \cup BonusEntries(u) = ledger
    BY <2>1
  <2> QED
    BY <1>1, <2>2, <2>3
<1>5. CASE BonusDue(u) > 0
  <2>1. u \notin opened
    BY <1>5 DEF BonusDue
  <2>2. b \in Entries
    BY <1>2 DEF Entry, Entries, EntryTypes, References
  <2>3. b.user = u /\ b.type = "signup_bonus" /\ b.ref = u /\ b.available = BonusDue(u) /\ b.reserved = 0
    BY DEF Entry
  <2>4. b \notin ledger
    BY <2>1, <2>3 DEF CreditInv, FreshAccounts, HasEntry
  <2>5. BonusEntries(u) = {b}
    BY <1>5 DEF BonusEntries
  <2> HIDE DEF b
  <2>6. Books(ledger \cup {b}, [available EXCEPT ![b.user] = @ + b.available],
                               [reserved EXCEPT ![b.user] = @ + b.reserved])
    BY <1>1, <2>2, <2>4, Post
  <2>7. [reserved EXCEPT ![b.user] = @ + b.reserved] = reserved
    BY <1>3, <2>3
  <2>8. [available EXCEPT ![b.user] = @ + b.available] = [available EXCEPT ![u] = @ + BonusDue(u)]
    BY <2>3
  <2> QED
    BY <2>5, <2>6, <2>7, <2>8
<1> QED
  BY <1>2, <1>4, <1>5

\* A credit posts the bonus, then its own entry.
LEMMA CreditPosts ==
    ASSUME CreditInv, NEW u \in Users, NEW e \in Entries,
           e.user = u, e.type # "signup_bonus", e \notin ledger,
           Credit(u, e.available, {e}), reserved' = [reserved EXCEPT ![u] = @ + e.reserved]
    PROVE  Books(ledger', available', reserved')
<1> DEFINE L == ledger \cup BonusEntries(u)
           av == [available EXCEPT ![u] = @ + BonusDue(u)]
<1>1. Books(L, av, reserved)
  BY BonusPosts
<1>2. e \notin L
  BY DEF BonusEntries, Entry
<1>3. ledger' = L \cup {e}
  BY DEF Credit
<1>4. available \in [Users -> Nat] /\ BonusDue(u) \in Nat /\ e.available \in Int
  BY BonusType DEF CreditInv, CreditsTypeOK, Entries
<1>5. available' = [av EXCEPT ![e.user] = @ + e.available]
  BY <1>4 DEF Credit
<1>6. reserved' = [reserved EXCEPT ![e.user] = @ + e.reserved]
  OBVIOUS
<1> HIDE DEF L, av
<1>7. Books(L \cup {e}, [av EXCEPT ![e.user] = @ + e.available],
                        [reserved EXCEPT ![e.user] = @ + e.reserved])
  BY <1>1, <1>2, Post
<1> QED
  BY <1>3, <1>5, <1>6, <1>7

\* Books with balances that are natural numbers are what the invariant says.
LEMMA BooksInv ==
    ASSUME NEW L, NEW av, NEW rs, Books(L, av, rs),
           \A u \in Users : av[u] >= 0 /\ rs[u] >= 0
    PROVE  /\ \A u \in Users : Balanced(L, u, av[u], rs[u])
           /\ av \in [Users -> Nat] /\ rs \in [Users -> Nat]
           /\ L \subseteq Entries /\ IsFiniteSet(L)
BY DEF Books

\* A transaction that keeps the books and touches no grant keeps the invariant's
\* account part.
LEMMA BooksStep ==
    ASSUME Books(ledger', available', reserved'),
           \A u \in Users : available'[u] >= 0 /\ reserved'[u] >= 0,
           opened' \subseteq Users,
           joined' \in [Users -> {"no", "earlier", "since"}], signupBonus' \in Nat,
           redeemed' \in [Codes -> (Users \X RedeemKeys) \cup {Nobody}],
           batch' \in [Batches -> [active: BOOLEAN, expired: BOOLEAN, redeemed: Nat]]
    PROVE  LedgerProjection' /\ CreditsTypeOK'
<1>1. /\ \A u \in Users : Balanced(ledger', u, available'[u], reserved'[u])
      /\ available' \in [Users -> Nat] /\ reserved' \in [Users -> Nat]
      /\ ledger' \subseteq Entries /\ IsFiniteSet(ledger')
  BY BooksInv
<1>2. LedgerProjection'
  BY <1>1 DEF LedgerProjection
<1>3. CreditsTypeOK'
  BY <1>1 DEF CreditsTypeOK
<1> QED
  BY <1>2, <1>3

\* Which entries a credit may add.
LEMMA CreditAdds ==
    ASSUME NEW u \in Users, NEW delta, NEW E, Credit(u, delta, E)
    PROVE  \A x \in ledger' : x \in ledger \/ x \in E \/ (x.type = "signup_bonus" /\ x.user = u)
BY DEF Credit, BonusEntries, Entry

\* A transaction through ensureAccount leaves no bonus entry to an unopened account.
LEMMA CreditFresh ==
    ASSUME CreditInv, NEW u \in Users, NEW delta, NEW E, Credit(u, delta, E),
           \A x \in E : x.type # "signup_bonus"
    PROVE  FreshAccounts'
<1>1. opened' = opened \cup {u}
  BY DEF Credit
<1>2. \A x \in ledger' : x.type = "signup_bonus" => x \in ledger \/ x.user = u
  BY CreditAdds
<1> QED
  BY <1>1, <1>2 DEF FreshAccounts, HasEntry, CreditInv

\* Sign-up touches no account.
LEMMA RegisterStep ==
    ASSUME CreditInv, NEW u \in Users, RegisterUser(u)
    PROVE  CreditInv'
BY DEF CreditInv, RegisterUser, accountVars, CreditsTypeOK, LedgerProjection,
       FreshCodes, FreshAccounts, HasEntry

\* updateCreditSettings touches no account.
LEMMA SettingsStep ==
    ASSUME CreditInv, NEW b \in Bonuses, UpdateCreditSettings(b)
    PROVE  CreditInv'
BY CreditsAssumption DEF CreditInv, UpdateCreditSettings, accountVars, CreditsTypeOK,
       LedgerProjection, FreshCodes, FreshAccounts, HasEntry

\* Revoking a batch, and its expiry, touch no account.
LEMMA BatchStep ==
    ASSUME CreditInv, NEW b \in Batches, RevokeRedemptionBatch(b) \/ ExpireBatch(b)
    PROVE  CreditInv'
<1>1. UNCHANGED <<joined, signupBonus, redeemed, accountVars>>
  BY DEF RevokeRedemptionBatch, ExpireBatch
<1>2. /\ [batch[b] EXCEPT !.active = FALSE] \in [active: BOOLEAN, expired: BOOLEAN, redeemed: Nat]
      /\ [batch[b] EXCEPT !.expired = TRUE] \in [active: BOOLEAN, expired: BOOLEAN, redeemed: Nat]
  BY DEF CreditInv, CreditsTypeOK
<1>3. CreditsTypeOK'
  BY <1>1, <1>2 DEF CreditInv, CreditsTypeOK, RevokeRedemptionBatch, ExpireBatch, accountVars
<1> QED
  BY <1>1, <1>3 DEF CreditInv, accountVars, LedgerProjection, FreshCodes, FreshAccounts, HasEntry

\* The first read of a balance opens the account and keeps the books.
LEMMA OpenStep ==
    ASSUME CreditInv, NEW u \in Users, OpenAccount(u)
    PROVE  CreditInv'
<1>1. Credit(u, 0, {}) /\ UNCHANGED <<reserved, joined, signupBonus, redeemed, batch>>
  BY DEF OpenAccount, grantVars
<1>2. available \in [Users -> Nat] /\ reserved \in [Users -> Nat] /\ BonusDue(u) \in Nat
  BY BonusType DEF CreditInv, CreditsTypeOK
<1>3. Books(ledger', available', reserved')
  <2>1. available' = [available EXCEPT ![u] = @ + BonusDue(u)]
    <3>1. available' = [available EXCEPT ![u] = @ + BonusDue(u) + 0]
      BY <1>1 DEF Credit
    <3>2. available[u] + BonusDue(u) + 0 = available[u] + BonusDue(u)
      BY <1>2
    <3> QED
      BY <3>1, <3>2
  <2>2. ledger' = ledger \cup BonusEntries(u)
    BY <1>1 DEF Credit
  <2> QED
    BY <1>1, <2>1, <2>2, BonusPosts
<1>4. \A v \in Users : available'[v] >= 0 /\ reserved'[v] >= 0
  BY <1>1, <1>2 DEF Credit
<1>5. LedgerProjection' /\ CreditsTypeOK'
  <2>1. opened' \subseteq Users
    BY <1>1 DEF Credit, CreditInv, CreditsTypeOK
  <2>2. /\ joined' \in [Users -> {"no", "earlier", "since"}] /\ signupBonus' \in Nat
        /\ redeemed' \in [Codes -> (Users \X RedeemKeys) \cup {Nobody}]
        /\ batch' \in [Batches -> [active: BOOLEAN, expired: BOOLEAN, redeemed: Nat]]
    BY <1>1 DEF CreditInv, CreditsTypeOK
  <2> QED
    BY <1>3, <1>4, <2>1, <2>2, BooksStep
<1>6. FreshAccounts'
  BY <1>1, CreditFresh
<1>7. FreshCodes'
  <2>1. \A x \in ledger' : x.type = "redemption" => x \in ledger
    BY <1>1, CreditAdds
  <2> QED
    BY <1>1, <2>1 DEF FreshCodes, HasEntry, CreditInv
<1> QED
  BY <1>5, <1>6, <1>7 DEF CreditInv

\* redeem keeps the books, and the code's entry is fresh while the code is not redeemed.
LEMMA RedeemStep ==
    ASSUME CreditInv, NEW u \in Users, NEW c \in Codes, NEW k \in RedeemKeys, Redeem(u, c, k)
    PROVE  CreditInv'
<1> DEFINE n == Amount[BatchOf[c]]
           e == Entry(u, "redemption", c, n, 0)
<1>1. /\ Credit(u, n, {e}) /\ UNCHANGED <<reserved, joined, signupBonus>>
      /\ redeemed[c] = Nobody
      /\ redeemed' = [redeemed EXCEPT ![c] = <<u, k>>]
      /\ batch' = [batch EXCEPT ![BatchOf[c]].redeemed = @ + 1]
  BY DEF Redeem
<1>2. /\ available \in [Users -> Nat] /\ reserved \in [Users -> Nat] /\ BonusDue(u) \in Nat
      /\ n \in Nat /\ BatchOf[c] \in Batches
  BY BonusType, CreditsAssumption DEF CreditInv, CreditsTypeOK
<1>3. e \in Entries /\ e.user = u /\ e.type = "redemption" /\ e.ref = c /\ e.available = n /\ e.reserved = 0
  BY <1>2 DEF Entry, Entries, EntryTypes, References
<1>4. e \notin ledger
  BY <1>1, <1>3 DEF CreditInv, FreshCodes, HasEntry
<1> HIDE DEF e, n
<1>5. Books(ledger', available', reserved')
  <2>1. reserved' = [reserved EXCEPT ![u] = @ + e.reserved]
    BY <1>1, <1>2, <1>3
  <2>2. Credit(u, e.available, {e}) /\ e.type # "signup_bonus"
    BY <1>1, <1>3
  <2> QED
    BY <1>3, <1>4, <2>1, <2>2, CreditPosts
<1>6. \A v \in Users : available'[v] >= 0 /\ reserved'[v] >= 0
  BY <1>1, <1>2 DEF Credit
<1>7. LedgerProjection' /\ CreditsTypeOK'
  <2>1. redeemed' \in [Codes -> (Users \X RedeemKeys) \cup {Nobody}]
    BY <1>1 DEF CreditInv, CreditsTypeOK
  <2>2. batch' \in [Batches -> [active: BOOLEAN, expired: BOOLEAN, redeemed: Nat]]
    BY <1>1, <1>2 DEF CreditInv, CreditsTypeOK
  <2>3. opened' \subseteq Users
    BY <1>1 DEF Credit, CreditInv, CreditsTypeOK
  <2>4. joined' \in [Users -> {"no", "earlier", "since"}] /\ signupBonus' \in Nat
    BY <1>1 DEF CreditInv, CreditsTypeOK
  <2> QED
    BY <1>5, <1>6, <2>1, <2>2, <2>3, <2>4, BooksStep
<1>8. FreshAccounts'
  BY <1>1, <1>3, CreditFresh
<1>9. FreshCodes'
  <2>1. \A x \in ledger' : x.type = "redemption" => x \in ledger \/ x.ref = c
    BY <1>1, <1>3, CreditAdds
  <2>2. \A d \in Codes : redeemed'[d] = Nobody => d # c /\ redeemed[d] = Nobody
    <3>1. <<u, k>> # Nobody
      BY CreditsAssumption
    <3> QED
      BY <1>1, <3>1 DEF CreditInv, CreditsTypeOK
  <2> QED
    BY <2>1, <2>2 DEF FreshCodes, HasEntry, CreditInv
<1> QED
  BY <1>7, <1>8, <1>9 DEF CreditInv

\* adjustUserCredits keeps the books and never overdraws the available balance.
LEMMA AdjustStep ==
    ASSUME CreditInv, NEW u \in Users, NEW a \in Adjustments, NEW d \in Deltas,
           AdjustUserCredits(u, a, d)
    PROVE  CreditInv'
<1> DEFINE e == Entry(u, "admin_adjustment", a, d, 0)
<1>1. /\ Credit(u, d, {e}) /\ UNCHANGED <<reserved, joined, signupBonus, redeemed, batch>>
      /\ ~HasEntry(u, "admin_adjustment", a)
      /\ available[u] + BonusDue(u) + d >= 0
  BY DEF AdjustUserCredits, grantVars
<1>2. /\ available \in [Users -> Nat] /\ reserved \in [Users -> Nat] /\ BonusDue(u) \in Nat
      /\ d \in Int
  BY BonusType, CreditsAssumption DEF CreditInv, CreditsTypeOK
<1>3. e \in Entries /\ e.user = u /\ e.type = "admin_adjustment" /\ e.ref = a /\ e.available = d /\ e.reserved = 0
  BY <1>2 DEF Entry, Entries, EntryTypes, References
<1>4. e \notin ledger
  BY <1>1, <1>3 DEF HasEntry
<1> HIDE DEF e
<1>5. Books(ledger', available', reserved')
  <2>1. reserved' = [reserved EXCEPT ![u] = @ + e.reserved]
    BY <1>1, <1>2, <1>3
  <2>2. Credit(u, e.available, {e}) /\ e.type # "signup_bonus"
    BY <1>1, <1>3
  <2> QED
    BY <1>3, <1>4, <2>1, <2>2, CreditPosts
<1>6. \A v \in Users : available'[v] >= 0 /\ reserved'[v] >= 0
  BY <1>1, <1>2 DEF Credit
<1>7. LedgerProjection' /\ CreditsTypeOK'
  <2>1. opened' \subseteq Users
    BY <1>1 DEF Credit, CreditInv, CreditsTypeOK
  <2>2. /\ joined' \in [Users -> {"no", "earlier", "since"}] /\ signupBonus' \in Nat
        /\ redeemed' \in [Codes -> (Users \X RedeemKeys) \cup {Nobody}]
        /\ batch' \in [Batches -> [active: BOOLEAN, expired: BOOLEAN, redeemed: Nat]]
    BY <1>1 DEF CreditInv, CreditsTypeOK
  <2> QED
    BY <1>5, <1>6, <2>1, <2>2, BooksStep
<1>8. FreshAccounts'
  BY <1>1, <1>3, CreditFresh
<1>9. FreshCodes'
  <2>1. \A x \in ledger' : x.type = "redemption" => x \in ledger
    BY <1>1, <1>3, CreditAdds
  <2> QED
    BY <1>1, <2>1 DEF FreshCodes, HasEntry, CreditInv
<1> QED
  BY <1>7, <1>8, <1>9 DEF CreditInv

\* The migrated tables satisfy the invariant.
LEMMA CreditsInitInv == CreditsInit => CreditInv
<1> SUFFICES ASSUME CreditsInit PROVE CreditInv
  OBVIOUS
<1>1. Books(ledger, available, reserved)
  BY BooksOpen DEF CreditsInit
<1>2. \A u \in Users : available[u] >= 0 /\ reserved[u] >= 0
  BY DEF CreditsInit
<1>3. LedgerProjection /\ CreditsTypeOK
  BY <1>1, <1>2, BooksInv DEF LedgerProjection, CreditsTypeOK, CreditsInit
<1> QED
  BY <1>3 DEF CreditInv, FreshCodes, FreshAccounts, HasEntry, CreditsInit

\* Every transaction that moves credits without a task preserves the invariant.
LEMMA CreditsStep ==
    ASSUME CreditInv, CreditsNext
    PROVE  CreditInv'
BY RegisterStep, OpenStep, SettingsStep, RedeemStep, BatchStep, AdjustStep DEF CreditsNext

\* Grants and adjustments alone keep every balance the sum of its ledger lines.
THEOREM CreditsBalance == CreditsSpec => [](CreditsTypeOK /\ LedgerProjection)
<1>1. CreditInv /\ UNCHANGED creditVars => CreditInv'
  BY DEF CreditInv, creditVars, CreditsTypeOK, LedgerProjection, FreshCodes, FreshAccounts,
         HasEntry
<1>2. CreditInv /\ [CreditsNext]_creditVars => CreditInv'
  BY <1>1, CreditsStep
<1>3. CreditInv => CreditsTypeOK /\ LedgerProjection
  BY DEF CreditInv
<1> QED
  BY CreditsInitInv, <1>2, <1>3, PTL DEF CreditsSpec

-----------------------------------------------------------------------------
(* The bonus *)

\* Only accounts that are open have a bonus line, and none has two.
BonusOnce ==
    /\ \A x \in ledger : x.type = "signup_bonus" => x.user \in opened
    /\ \A x, y \in ledger :
          x.type = "signup_bonus" /\ y.type = "signup_bonus" /\ x.user = y.user => x = y

\* ensureAccount credits the bonus to the account it inserts.
LEMMA CreditBonusOnce ==
    ASSUME BonusOnce, NEW u \in Users, NEW delta, NEW E, Credit(u, delta, E),
           \A x \in E : x.type # "signup_bonus"
    PROVE  BonusOnce'
<1>1. opened' = opened \cup {u} /\ ledger' = ledger \cup BonusEntries(u) \cup E
  BY DEF Credit
<1>2. \A x \in BonusEntries(u) : x.type = "signup_bonus" /\ x.user = u
  BY DEF BonusEntries, Entry
<1>3. \A x, y \in BonusEntries(u) : x = y
  BY DEF BonusEntries
<1>4. u \in opened => BonusEntries(u) = {}
  BY DEF BonusEntries, BonusDue
<1> QED
  BY <1>1, <1>2, <1>3, <1>4 DEF BonusOnce

\* At most one line of a user is a bonus, and its account is open.
LEMMA BonusLinesOne ==
    ASSUME BonusOnce, NEW u \in Users
    PROVE  /\ Cardinality({e \in ledger : e.type = "signup_bonus" /\ e.user = u}) <= 1
           /\ {e \in ledger : e.type = "signup_bonus" /\ e.user = u} # {} => u \in opened
<1> DEFINE L == {e \in ledger : e.type = "signup_bonus" /\ e.user = u}
<1>1. \A x, y \in L : x = y
  BY DEF BonusOnce
<1>2. L = {} \/ \E x : L = {x}
  BY <1>1
<1>3. L # {} => u \in opened
  BY DEF BonusOnce
<1>4. Cardinality(L) <= 1
  <2> HIDE DEF L
  <2>1. CASE L = {}
    BY <2>1, FS_EmptySet
  <2>2. ASSUME NEW x, L = {x} PROVE Cardinality(L) <= 1
    <3>1. Cardinality(L) = 1
      BY <2>2, FS_Singleton, Zenon
    <3> QED
      BY <3>1
  <2> QED
    BY <1>2, <2>1, <2>2
<1> QED
  BY <1>3, <1>4

\* The bonus reaches an account at most once, only at its opening.
THEOREM BonusAtOpening == CreditsSpec => []BonusOnlyAtOpening
<1>1. CreditsInit => BonusOnce
  BY DEF CreditsInit, BonusOnce
<1>2. BonusOnce /\ [CreditsNext]_creditVars => BonusOnce'
  <2> SUFFICES ASSUME BonusOnce, [CreditsNext]_creditVars PROVE BonusOnce'
    OBVIOUS
  <2>1. CASE UNCHANGED accountVars
    BY <2>1 DEF accountVars, BonusOnce
  <2>2. ASSUME NEW u \in Users, OpenAccount(u) PROVE BonusOnce'
    <3>1. Credit(u, 0, {})
      BY <2>2 DEF OpenAccount
    <3> QED
      BY <3>1, CreditBonusOnce
  <2>3. ASSUME NEW u \in Users, NEW c \in Codes, NEW k \in RedeemKeys, Redeem(u, c, k)
        PROVE  BonusOnce'
    <3> DEFINE e == Entry(u, "redemption", c, Amount[BatchOf[c]], 0)
    <3>1. Credit(u, Amount[BatchOf[c]], {e}) /\ e.type # "signup_bonus"
      BY <2>3 DEF Redeem, Entry
    <3> HIDE DEF e
    <3> QED
      BY <3>1, CreditBonusOnce
  <2>4. ASSUME NEW u \in Users, NEW a \in Adjustments, NEW d \in Deltas,
               AdjustUserCredits(u, a, d)
        PROVE  BonusOnce'
    <3> DEFINE e == Entry(u, "admin_adjustment", a, d, 0)
    <3>1. Credit(u, d, {e}) /\ e.type # "signup_bonus"
      BY <2>4 DEF AdjustUserCredits, Entry
    <3> HIDE DEF e
    <3> QED
      BY <3>1, CreditBonusOnce
  <2> QED
    BY <2>1, <2>2, <2>3, <2>4 DEF CreditsNext, RegisterUser, UpdateCreditSettings,
       RevokeRedemptionBatch, ExpireBatch, creditVars, accountVars
<1>3. BonusOnce => BonusOnlyAtOpening
  BY BonusLinesOne DEF BonusOnlyAtOpening
<1> QED
  BY <1>1, <1>2, <1>3, PTL DEF CreditsSpec

-----------------------------------------------------------------------------
(* Redemption codes *)

CodeLines(c) == {e \in ledger : e.type = "redemption" /\ e.ref = c}
Spent(b) == {c \in Codes : BatchOf[c] = b /\ redeemed[c] # Nobody}

\* A batch has finitely many redeemed codes.
LEMMA SpentFinite ==
    ASSUME NEW b
    PROVE  IsFiniteSet(Spent(b))
BY CreditsAssumption, FS_Subset DEF Spent

\* The property, with its sets named.
CodesOnce ==
    /\ \A c \in Codes : CodeLines(c) =
          IF redeemed[c] = Nobody THEN {}
          ELSE {Entry(redeemed[c][1], "redemption", c, Amount[BatchOf[c]], 0)}
    /\ \A b \in Batches : batch[b].redeemed = Cardinality(Spent(b))

\* No other transaction writes lines of codes.
LEMMA OtherLines ==
    ASSUME CodesOnce, NEW u \in Users, NEW delta, NEW E, Credit(u, delta, E),
           \A x \in E : x.type # "redemption", UNCHANGED <<redeemed, batch>>
    PROVE  CodesOnce'
<1>1. ledger' = ledger \cup BonusEntries(u) \cup E
  BY DEF Credit
<1>2. \A x \in BonusEntries(u) : x.type # "redemption"
  BY DEF BonusEntries, Entry
<1>3. \A c \in Codes : CodeLines(c)' = CodeLines(c)
  BY <1>1, <1>2 DEF CodeLines
<1> QED
  BY <1>3 DEF CodesOnce, Spent

\* A redemption writes the one line of its code and counts it.
LEMMA RedeemOnce ==
    ASSUME CreditInv, CodesOnce, NEW u \in Users, NEW c \in Codes, NEW k \in RedeemKeys,
           Redeem(u, c, k)
    PROVE  CodesOnce'
<1> DEFINE e == Entry(u, "redemption", c, Amount[BatchOf[c]], 0)
<1>1. /\ redeemed[c] = Nobody
      /\ redeemed' = [redeemed EXCEPT ![c] = <<u, k>>]
      /\ batch' = [batch EXCEPT ![BatchOf[c]].redeemed = @ + 1]
      /\ ledger' = ledger \cup BonusEntries(u) \cup {e}
  BY DEF Redeem, Credit
<1>2. \A x \in BonusEntries(u) : x.type # "redemption"
  BY DEF BonusEntries, Entry
<1>3. e.type = "redemption" /\ e.ref = c
  BY DEF Entry
<1>4. redeemed \in [Codes -> (Users \X RedeemKeys) \cup {Nobody}] /\ <<u, k>> # Nobody
  BY CreditsAssumption DEF CreditInv, CreditsTypeOK
<1>5. /\ redeemed'[c] = <<u, k>> /\ redeemed'[c] # Nobody /\ redeemed'[c][1] = u
      /\ \A d \in Codes \ {c} : redeemed'[d] = redeemed[d]
  BY <1>1, <1>4
<1>6. CodeLines(c)' = {e}
  <2>1. CodeLines(c) = {}
    BY <1>1 DEF CodesOnce
  <2> HIDE DEF e
  <2> QED
    BY <1>1, <1>2, <1>3, <2>1 DEF CodeLines
<1>7. \A d \in Codes \ {c} : CodeLines(d)' = CodeLines(d)
  <2> HIDE DEF e
  <2> QED
    BY <1>1, <1>2, <1>3 DEF CodeLines
<1>8. ASSUME NEW b \in Batches PROVE batch'[b].redeemed = Cardinality(Spent(b)')
  <2>1. batch \in [Batches -> [active: BOOLEAN, expired: BOOLEAN, redeemed: Nat]]
    BY DEF CreditInv, CreditsTypeOK
  <2>2. CASE b = BatchOf[c]
    <3>1. Spent(b)' = Spent(b) \cup {c} /\ c \notin Spent(b)
      BY <1>1, <1>5, <2>2 DEF Spent
    <3>2. Cardinality(Spent(b) \cup {c}) = Cardinality(Spent(b)) + 1
      BY <3>1, SpentFinite, FS_AddElement
    <3>3. batch'[b].redeemed = batch[b].redeemed + 1
      BY <1>1, <2>1, <2>2
    <3> QED
      BY <3>1, <3>2, <3>3 DEF CodesOnce
  <2>3. CASE b # BatchOf[c]
    <3>1. Spent(b)' = Spent(b)
      BY <1>5, <2>3 DEF Spent
    <3>2. batch'[b] = batch[b]
      BY <1>1, <2>1, <2>3
    <3> QED
      BY <3>1, <3>2 DEF CodesOnce
  <2> QED
    BY <2>2, <2>3
<1>9. ASSUME NEW d \in Codes
      PROVE  CodeLines(d)' = IF redeemed'[d] = Nobody THEN {}
               ELSE {Entry(redeemed'[d][1], "redemption", d, Amount[BatchOf[d]], 0)}
  <2>1. CASE d = c
    BY <1>5, <1>6, <2>1
  <2>2. CASE d # c
    BY <1>5, <1>7, <2>2 DEF CodesOnce
  <2> QED
    BY <2>1, <2>2
<1> QED
  BY <1>8, <1>9 DEF CodesOnce

\* A code credits one account, exactly when it is redeemed, and its batch counts it.
THEOREM CodeCreditsOnce == CreditsSpec => []CodesRedeemedOnce
<1>1. CreditsInit => CodesOnce
  <2> SUFFICES ASSUME CreditsInit PROVE CodesOnce
    OBVIOUS
  <2>1. \A b \in Batches : Spent(b) = {} /\ batch[b].redeemed = 0
    BY DEF CreditsInit, Spent
  <2>2. \A c \in Codes : CodeLines(c) = {} /\ redeemed[c] = Nobody
    BY DEF CreditsInit, CodeLines
  <2> QED
    BY <2>1, <2>2, FS_EmptySet DEF CodesOnce
<1>2. CreditInv /\ CodesOnce /\ [CreditsNext]_creditVars => CodesOnce'
  <2> SUFFICES ASSUME CreditInv, CodesOnce, [CreditsNext]_creditVars PROVE CodesOnce'
    OBVIOUS
  <2>1. CASE /\ UNCHANGED <<ledger, redeemed>>
             /\ \A b \in Batches : batch'[b].redeemed = batch[b].redeemed
    BY <2>1 DEF CodesOnce, CodeLines, Spent
  <2>2. ASSUME NEW u \in Users, OpenAccount(u) PROVE CodesOnce'
    <3>1. Credit(u, 0, {}) /\ UNCHANGED <<redeemed, batch>>
      BY <2>2 DEF OpenAccount, grantVars
    <3> QED
      BY <3>1, OtherLines
  <2>3. ASSUME NEW u \in Users, NEW a \in Adjustments, NEW d \in Deltas,
               AdjustUserCredits(u, a, d)
        PROVE  CodesOnce'
    <3> DEFINE e == Entry(u, "admin_adjustment", a, d, 0)
    <3>1. Credit(u, d, {e}) /\ e.type # "redemption" /\ UNCHANGED <<redeemed, batch>>
      BY <2>3 DEF AdjustUserCredits, Entry, grantVars
    <3> HIDE DEF e
    <3> QED
      BY <3>1, OtherLines
  <2>4. ASSUME NEW b \in Batches, RevokeRedemptionBatch(b) \/ ExpireBatch(b) PROVE CodesOnce'
    <3>1. batch \in [Batches -> [active: BOOLEAN, expired: BOOLEAN, redeemed: Nat]]
      BY DEF CreditInv, CreditsTypeOK
    <3>2. \A x \in Batches : batch'[x].redeemed = batch[x].redeemed
      BY <2>4, <3>1 DEF RevokeRedemptionBatch, ExpireBatch
    <3> QED
      BY <2>1, <2>4, <3>2 DEF RevokeRedemptionBatch, ExpireBatch, accountVars
  <2> QED
    BY <2>1, <2>2, <2>3, <2>4, RedeemOnce DEF CreditsNext, RegisterUser, UpdateCreditSettings,
       creditVars, accountVars
<1>3. CodesOnce => CodesRedeemedOnce
  BY DEF CodesOnce, CodesRedeemedOnce, CodeLines, Spent
<1>4. CreditInv /\ UNCHANGED creditVars => CreditInv'
  BY DEF CreditInv, creditVars, CreditsTypeOK, LedgerProjection, FreshCodes, FreshAccounts,
         HasEntry
<1>5. CreditInv /\ [CreditsNext]_creditVars => CreditInv'
  BY <1>4, CreditsStep
<1> QED
  BY CreditsInitInv, <1>1, <1>2, <1>3, <1>5, PTL DEF CreditsSpec

-----------------------------------------------------------------------------
(* Official generation *)

Billings == {"none", "reserved", "captured", "released"}

\* What ties an account to the tasks of its owner.
AccountInv ==
    /\ CreditInv
    /\ billing \in [Tasks -> Billings]
    /\ price \in [Tasks -> Nat]
    /\ SettledOnce
    /\ ReservedIsHeld

\* The five kinds of steps.
Quiet == UNCHANGED <<creditVars, billing, price>>

Granted == CreditsNext /\ UNCHANGED <<billing, price>>

Placed(t, p) ==
    /\ billing[t] = "none"
    /\ Reserve(Owner[t], t, p)
    /\ billing' = [billing EXCEPT ![t] = "reserved"]
    /\ price' = [price EXCEPT ![t] = p]
    /\ UNCHANGED grantVars

Released(t) ==
    /\ billing[t] = "reserved"
    /\ Release(Owner[t], t, price[t])
    /\ billing' = [billing EXCEPT ![t] = "released"]
    /\ UNCHANGED <<price, grantVars>>

Captured(t) ==
    /\ billing[t] = "reserved"
    /\ Capture(Owner[t], t, price[t])
    /\ billing' = [billing EXCEPT ![t] = "captured"]
    /\ UNCHANGED <<price, grantVars>>

Posted(t) == {e \in ledger : e.ref = t /\ e.type \in GenerationTypes}

-----------------------------------------------------------------------------
(* The reserved balance and the tasks that are held *)

\* One more held task is one more price.
LEMMA OneMoreTask ==
    ASSUME NEW S \in SUBSET Tasks, NEW t \in Tasks, t \notin S, NEW T, T = S \cup {t},
           NEW q \in [Tasks -> Nat]
    PROVE  Total(S, q) \in Nat /\ Total(T, q) = Total(S, q) + q[t]
<1>1. IsFiniteSet(S)
  BY CreditsAssumption, FS_Subset
<1>2. T \subseteq Tasks
  OBVIOUS
<1> QED
  BY <1>1, <1>2, TotalAdd, TotalType

\* A task that becomes reserved adds its price to what is held.
LEMMA HeldGrows ==
    ASSUME billing \in [Tasks -> Billings], price \in [Tasks -> Nat], ReservedIsHeld,
           reserved \in [Users -> Nat],
           NEW t \in Tasks, NEW p \in Nat, billing[t] # "reserved",
           billing' = [billing EXCEPT ![t] = "reserved"],
           price' = [price EXCEPT ![t] = p],
           reserved' = [reserved EXCEPT ![Owner[t]] = @ + p]
    PROVE  ReservedIsHeld'
<1> SUFFICES ASSUME NEW u \in Users PROVE reserved'[u] = Total(Held(u)', price')
  BY DEF ReservedIsHeld
<1> DEFINE S == Held(u)
           T == Held(u)'
<1>1. S \subseteq Tasks /\ T \subseteq Tasks /\ IsFiniteSet(S) /\ t \notin S
  BY CreditsAssumption, FS_Subset DEF Held
<1>2. price' \in [Tasks -> Nat] /\ price'[t] = p /\ \A x \in S : price[x] = price'[x]
  BY <1>1
<1>3. reserved[u] = Total(S, price)
  BY DEF ReservedIsHeld
<1>4. Total(S, price) = Total(S, price')
  <2> DEFINE q == price'
  <2>1. S \in SUBSET Tasks /\ q \in [Tasks -> Nat] /\ \A x \in S : price[x] = q[x]
    BY <1>1, <1>2
  <2> HIDE DEF S, T, q
  <2>2. Total(S, price) = Total(S, q)
    BY <2>1, TotalAgree
  <2> QED
    BY <2>2 DEF q
<1>5. CASE Owner[t] = u
  <2>1. T = S \cup {t}
    BY <1>5 DEF Held
  <2> DEFINE q == price'
  <2> HIDE DEF S, T, q
  <2>2. Total(T, q) = Total(S, q) + q[t]
    <3>1. q \in [Tasks -> Nat] /\ S \in SUBSET Tasks /\ t \notin S
      BY <1>1, <1>2 DEF q
    <3> QED
      BY <2>1, <3>1, OneMoreTask
  <2>3. reserved'[u] = reserved[u] + p
    BY <1>5
  <2> QED
    BY <1>2, <1>3, <1>4, <2>2, <2>3 DEF T, q
<1>6. CASE Owner[t] # u
  <2>1. T = S
    BY <1>6 DEF Held
  <2>2. reserved'[u] = reserved[u]
    BY <1>6
  <2> QED
    BY <1>3, <1>4, <2>1, <2>2
<1> QED
  BY <1>5, <1>6

\* A task that stops being reserved takes its price from what is held, and the
\* reserved balance covers it.
LEMMA HeldShrinks ==
    ASSUME billing \in [Tasks -> Billings], price \in [Tasks -> Nat], ReservedIsHeld,
           reserved \in [Users -> Nat],
           NEW t \in Tasks, billing[t] = "reserved",
           NEW b, b # "reserved", billing' = [billing EXCEPT ![t] = b],
           price' = price,
           reserved' = [reserved EXCEPT ![Owner[t]] = @ - price[t]]
    PROVE  ReservedIsHeld' /\ reserved[Owner[t]] >= price[t]
<1>1. ASSUME NEW u \in Users
      PROVE  reserved'[u] = Total(Held(u)', price') /\ (Owner[t] = u => reserved[u] >= price[t])
  <2> DEFINE S == Held(u)
             T == Held(u)'
  <2>1. S \subseteq Tasks /\ T \subseteq Tasks /\ IsFiniteSet(T) /\ t \notin T
    BY CreditsAssumption, FS_Subset DEF Held
  <2>2. reserved[u] = Total(S, price)
    BY DEF ReservedIsHeld
  <2>3. CASE Owner[t] = u
    <3>1. S = T \cup {t}
      BY <2>3 DEF Held
    <3> HIDE DEF S, T
    <3>2. Total(S, price) = Total(T, price) + price[t] /\ Total(T, price) \in Nat
      BY <2>1, <3>1, OneMoreTask
    <3>3. reserved'[u] = reserved[u] - price[t] /\ price[t] \in Nat
      BY <2>3
    <3> QED
      BY <2>2, <3>2, <3>3 DEF T
  <2>4. CASE Owner[t] # u
    <3>1. T = S
      BY <2>4 DEF Held
    <3>2. reserved'[u] = reserved[u]
      BY <2>4
    <3> QED
      BY <2>2, <2>4, <3>1, <3>2
  <2> QED
    BY <2>3, <2>4
<1> QED
  BY <1>1, OfficialAssumption DEF ReservedIsHeld

-----------------------------------------------------------------------------
(* Each kind of step keeps the account's invariant *)

\* A generation entry refers to its own task only.
LEMMA GenerationEntry ==
    ASSUME NEW t \in Tasks, NEW type \in GenerationTypes, NEW n \in Int, NEW m \in Int
    PROVE  LET e == Entry(Owner[t], type, t, n, m)
           IN  /\ e \in Entries /\ e.user = Owner[t] /\ e.type = type /\ e.ref = t
               /\ e.available = n /\ e.reserved = m
BY OfficialAssumption DEF Entry, Entries, EntryTypes, GenerationTypes, References

\* Entries of grants are not entries of tasks.
LEMMA GrantedEntries ==
    ASSUME CreditsNext
    PROVE  /\ reserved' = reserved
           /\ \A t \in Tasks : Posted(t)' = Posted(t)
<1>1. reserved' = reserved
  BY DEF CreditsNext, RegisterUser, OpenAccount, UpdateCreditSettings, Redeem,
         RevokeRedemptionBatch, ExpireBatch, AdjustUserCredits, accountVars
<1>2. ASSUME NEW u, NEW n, NEW E, Credit(u, n, E), \A e \in E : e.type \notin GenerationTypes
      PROVE  \A t \in Tasks : Posted(t)' = Posted(t)
  BY <1>2 DEF Credit, BonusEntries, Entry, Posted, GenerationTypes
<1>3. ASSUME ledger' = ledger PROVE \A t \in Tasks : Posted(t)' = Posted(t)
  BY <1>3 DEF Posted
<1>4. ASSUME NEW u \in Users, OpenAccount(u) PROVE \A t \in Tasks : Posted(t)' = Posted(t)
  BY <1>2, <1>4 DEF OpenAccount
<1>5. ASSUME NEW u \in Users, NEW c \in Codes, NEW k \in RedeemKeys, Redeem(u, c, k)
      PROVE  \A t \in Tasks : Posted(t)' = Posted(t)
  <2>1. \A e \in {Entry(u, "redemption", c, Amount[BatchOf[c]], 0)} : e.type \notin GenerationTypes
    BY DEF Entry, GenerationTypes
  <2>2. Credit(u, Amount[BatchOf[c]], {Entry(u, "redemption", c, Amount[BatchOf[c]], 0)})
    BY <1>5 DEF Redeem
  <2> QED
    BY <1>2, <2>1, <2>2
<1>6. ASSUME NEW u \in Users, NEW a \in Adjustments, NEW d \in Deltas, AdjustUserCredits(u, a, d)
      PROVE  \A t \in Tasks : Posted(t)' = Posted(t)
  <2>1. \A e \in {Entry(u, "admin_adjustment", a, d, 0)} : e.type \notin GenerationTypes
    BY DEF Entry, GenerationTypes
  <2>2. Credit(u, d, {Entry(u, "admin_adjustment", a, d, 0)})
    BY <1>6 DEF AdjustUserCredits
  <2> QED
    BY <1>2, <2>1, <2>2
<1>7. CASE ledger' = ledger
  BY <1>1, <1>3, <1>7
<1> QED
  BY <1>1, <1>4, <1>5, <1>6, <1>7 DEF CreditsNext, RegisterUser, UpdateCreditSettings,
         RevokeRedemptionBatch, ExpireBatch, accountVars

\* Moving credits without a task preserves what relates accounts and tasks.
LEMMA GrantedInv ==
    ASSUME AccountInv, Granted
    PROVE  AccountInv'
<1>1. CreditInv'
  BY CreditsStep DEF AccountInv, Granted
<1>2. SettledOnce'
  <2>1. \A t \in Tasks : Posted(t)' = Posted(t)
    BY GrantedEntries DEF Granted
  <2> QED
    BY <2>1 DEF AccountInv, Granted, SettledOnce, Posted, TaskEntries, ReserveEntry, CaptureEntry,
                ReleaseEntry
<1>3. ReservedIsHeld'
  BY GrantedEntries DEF AccountInv, Granted, ReservedIsHeld, Held
<1> QED
  BY <1>1, <1>2, <1>3 DEF AccountInv, Granted

\* A step that touches neither accounts nor the billing columns preserves it.
LEMMA QuietInv ==
    ASSUME AccountInv, Quiet
    PROVE  AccountInv'
BY DEF AccountInv, Quiet, creditVars, CreditInv, CreditsTypeOK, LedgerProjection, FreshCodes,
       FreshAccounts, HasEntry, SettledOnce, TaskEntries, ReserveEntry, CaptureEntry,
       ReleaseEntry, ReservedIsHeld, Held

\* createTask preserves it: its reserve entry is the first entry of the task.
LEMMA PlacedInv ==
    ASSUME AccountInv, NEW t \in Tasks, NEW p \in Prices, Placed(t, p)
    PROVE  AccountInv'
<1> DEFINE u == Owner[t]
           e == Entry(u, "generation_reserve", t, -p, p)
<1>1. /\ billing[t] = "none" /\ billing' = [billing EXCEPT ![t] = "reserved"]
      /\ price' = [price EXCEPT ![t] = p]
      /\ Credit(u, -p, {e}) /\ available[u] + BonusDue(u) >= p
      /\ reserved' = [reserved EXCEPT ![u] = @ + p]
      /\ UNCHANGED <<joined, signupBonus, redeemed, batch>>
  BY DEF Placed, Reserve, grantVars
<1>2. /\ u \in Users /\ p \in Nat /\ -p \in Int
      /\ available \in [Users -> Nat] /\ reserved \in [Users -> Nat] /\ BonusDue(u) \in Nat
  BY OfficialAssumption, BonusType DEF AccountInv, CreditInv, CreditsTypeOK
<1>3. /\ e \in Entries /\ e.user = u /\ e.type = "generation_reserve" /\ e.ref = t
      /\ e.available = -p /\ e.reserved = p
  BY <1>2, GenerationEntry DEF GenerationTypes
<1>4. Posted(t) = {}
  BY <1>1 DEF AccountInv, SettledOnce, TaskEntries, Posted
<1>5. e \notin ledger
  BY <1>3, <1>4 DEF Posted, GenerationTypes
<1>6. CreditInv
  BY DEF AccountInv
<1>7. Posted(t)' = {e} /\ \A x \in Tasks \ {t} : Posted(x)' = Posted(x)
  <2>1. \A x : x \in BonusEntries(u) => x.type = "signup_bonus"
    BY DEF BonusEntries, Entry
  <2>2. ledger' = ledger \cup BonusEntries(u) \cup {e}
    BY <1>1 DEF Credit
  <2> HIDE DEF e
  <2>3. Posted(t)' = {e}
    BY <1>3, <1>4, <2>1, <2>2 DEF Posted, GenerationTypes
  <2>4. \A x \in Tasks \ {t} : Posted(x)' = Posted(x)
    BY <1>3, <2>1, <2>2 DEF Posted, GenerationTypes
  <2> QED
    BY <2>3, <2>4
<1>8. SettledOnce'
  <2>1. billing'[t] = "reserved" /\ price'[t] = p
    BY <1>1 DEF AccountInv
  <2>2. \A x \in Tasks \ {t} : billing'[x] = billing[x] /\ price'[x] = price[x]
    BY <1>1 DEF AccountInv
  <2>3. TaskEntries(t)' = {e}
    BY <2>1 DEF TaskEntries, ReserveEntry
  <2>4. \A x \in Tasks \ {t} : TaskEntries(x)' = TaskEntries(x)
    BY <2>2 DEF TaskEntries, ReserveEntry, CaptureEntry, ReleaseEntry
  <2>5. \A x \in Tasks : Posted(x) = TaskEntries(x)
    BY DEF AccountInv, SettledOnce, Posted
  <2>6. \A x \in Tasks : Posted(x)' = TaskEntries(x)'
    BY <1>7, <2>3, <2>4, <2>5
  <2> QED
    BY <2>6 DEF SettledOnce, Posted
<1>9. ReservedIsHeld'
  BY <1>1, <1>2, HeldGrows DEF AccountInv
<1> HIDE DEF e
<1>10. Books(ledger', available', reserved')
  <2>1. reserved' = [reserved EXCEPT ![u] = @ + e.reserved]
    BY <1>1, <1>3
  <2>2. Credit(u, e.available, {e}) /\ e.type # "signup_bonus"
    BY <1>1, <1>3
  <2> QED
    BY <1>2, <1>3, <1>5, <1>6, <2>1, <2>2, CreditPosts
<1>11. \A v \in Users : available'[v] >= 0 /\ reserved'[v] >= 0
  BY <1>1, <1>2 DEF Credit
<1>12. LedgerProjection' /\ CreditsTypeOK'
  <2>1. opened' \subseteq Users
    BY <1>1, <1>2 DEF Credit, AccountInv, CreditInv, CreditsTypeOK
  <2>2. /\ joined' \in [Users -> {"no", "earlier", "since"}] /\ signupBonus' \in Nat
        /\ redeemed' \in [Codes -> (Users \X RedeemKeys) \cup {Nobody}]
        /\ batch' \in [Batches -> [active: BOOLEAN, expired: BOOLEAN, redeemed: Nat]]
    BY <1>1 DEF AccountInv, CreditInv, CreditsTypeOK
  <2> QED
    BY <1>10, <1>11, <2>1, <2>2, BooksStep
<1>13. FreshAccounts'
  BY <1>1, <1>2, <1>3, <1>6, CreditFresh
<1>14. FreshCodes'
  <2>1. \A x \in ledger' : x.type = "redemption" => x \in ledger
    BY <1>1, <1>2, <1>3, CreditAdds
  <2> QED
    BY <1>1, <2>1 DEF FreshCodes, HasEntry, AccountInv, CreditInv
<1>15. billing' \in [Tasks -> Billings] /\ price' \in [Tasks -> Nat]
  BY <1>1, <1>2 DEF AccountInv, Billings
<1> QED
  BY <1>8, <1>9, <1>12, <1>13, <1>14, <1>15 DEF AccountInv, CreditInv

\* A settlement: the hold ends, and n credits of it return to the balance.
Settled(t, b, type, n) ==
    LET e == Entry(Owner[t], type, t, n, -price[t])
    IN  /\ billing[t] = "reserved"
        /\ billing' = [billing EXCEPT ![t] = b]
        /\ ledger' = ledger \cup {e}
        /\ available' = [available EXCEPT ![Owner[t]] = @ + n]
        /\ reserved' = [reserved EXCEPT ![Owner[t]] = @ - price[t]]
        /\ UNCHANGED <<opened, price, grantVars>>

\* Settling a reserved task, one way or the other, preserves it.
LEMMA SettledInv ==
    ASSUME AccountInv, NEW t \in Tasks, NEW b, NEW type, NEW n, Settled(t, b, type, n),
           \/ b = "captured" /\ type = "generation_capture" /\ n = 0
           \/ b = "released" /\ type = "generation_release" /\ n = price[t]
    PROVE  AccountInv'
<1> DEFINE u == Owner[t]
           e == Entry(u, type, t, n, -price[t])
<1>1. /\ billing[t] = "reserved" /\ billing' = [billing EXCEPT ![t] = b]
      /\ ledger' = ledger \cup {e}
      /\ available' = [available EXCEPT ![u] = @ + n]
      /\ reserved' = [reserved EXCEPT ![u] = @ - price[t]]
      /\ UNCHANGED <<opened, price, joined, signupBonus, redeemed, batch>>
  BY DEF Settled, grantVars
<1>2. /\ u \in Users /\ price[t] \in Nat /\ -price[t] \in Int /\ n \in Nat
      /\ available \in [Users -> Nat] /\ reserved \in [Users -> Nat]
  BY OfficialAssumption DEF AccountInv, CreditInv, CreditsTypeOK
<1>3. /\ e \in Entries /\ e.user = u /\ e.type = type /\ e.ref = t
      /\ e.available = n /\ e.reserved = -price[t]
  BY <1>2, GenerationEntry DEF GenerationTypes
<1>4. Posted(t) = {ReserveEntry(t)}
  BY <1>1 DEF AccountInv, SettledOnce, TaskEntries, Posted
<1>5. e \notin ledger
  <2>1. ReserveEntry(t).type = "generation_reserve"
    BY DEF ReserveEntry, Entry
  <2> QED
    BY <1>3, <1>4, <2>1 DEF Posted, GenerationTypes
<1>6. Posted(t)' = {ReserveEntry(t), e} /\ \A x \in Tasks \ {t} : Posted(x)' = Posted(x)
  <2> HIDE DEF e
  <2>1. Posted(t)' = Posted(t) \cup {e}
    BY <1>1, <1>3 DEF Posted, GenerationTypes
  <2>2. \A x \in Tasks \ {t} : Posted(x)' = Posted(x)
    BY <1>1, <1>3 DEF Posted, GenerationTypes
  <2> QED
    BY <1>4, <2>1, <2>2
<1>7. SettledOnce'
  <2>1. billing'[t] = b /\ price' = price
    BY <1>1 DEF AccountInv
  <2>2. \A x \in Tasks \ {t} : billing'[x] = billing[x]
    BY <1>1 DEF AccountInv
  <2>3. TaskEntries(t)' = {ReserveEntry(t), e}
    BY <2>1 DEF TaskEntries, ReserveEntry, CaptureEntry, ReleaseEntry
  <2>4. \A x \in Tasks \ {t} : TaskEntries(x)' = TaskEntries(x)
    BY <2>1, <2>2 DEF TaskEntries, ReserveEntry, CaptureEntry, ReleaseEntry
  <2>5. \A x \in Tasks : Posted(x) = TaskEntries(x)
    BY DEF AccountInv, SettledOnce, Posted
  <2>6. \A x \in Tasks : Posted(x)' = TaskEntries(x)'
    BY <1>6, <2>3, <2>4, <2>5
  <2> QED
    BY <2>6 DEF SettledOnce, Posted
<1>8. ReservedIsHeld' /\ reserved[u] >= price[t]
  <2>1. b # "reserved" /\ price' = price
    BY <1>1
  <2> QED
    BY <1>1, <1>2, <2>1, HeldShrinks DEF AccountInv
<1> HIDE DEF e
<1>9. Books(ledger', available', reserved')
  <2>1. Books(ledger, available, reserved)
    BY InvBooks DEF AccountInv, CreditInv
  <2>2. Books(ledger \cup {e}, [available EXCEPT ![e.user] = @ + e.available],
                               [reserved EXCEPT ![e.user] = @ + e.reserved])
    BY <1>3, <1>5, <2>1, Post
  <2>3. available' = [available EXCEPT ![e.user] = @ + e.available]
    BY <1>1, <1>3
  <2>4. reserved' = [reserved EXCEPT ![e.user] = @ + e.reserved]
    BY <1>1, <1>2, <1>3
  <2> QED
    BY <1>1, <2>2, <2>3, <2>4
<1>10. \A v \in Users : available'[v] >= 0 /\ reserved'[v] >= 0
  BY <1>1, <1>2, <1>8
<1>11. LedgerProjection' /\ CreditsTypeOK'
  <2>1. /\ opened' \subseteq Users
        /\ joined' \in [Users -> {"no", "earlier", "since"}] /\ signupBonus' \in Nat
        /\ redeemed' \in [Codes -> (Users \X RedeemKeys) \cup {Nobody}]
        /\ batch' \in [Batches -> [active: BOOLEAN, expired: BOOLEAN, redeemed: Nat]]
    BY <1>1 DEF AccountInv, CreditInv, CreditsTypeOK
  <2> QED
    BY <1>9, <1>10, <2>1, BooksStep
<1>12. FreshAccounts' /\ FreshCodes'
  <2>1. \A x \in ledger' : x.type \in {"signup_bonus", "redemption"} => x \in ledger
    BY <1>1, <1>3
  <2> QED
    BY <1>1, <2>1 DEF FreshAccounts, FreshCodes, HasEntry, AccountInv, CreditInv
<1>13. billing' \in [Tasks -> Billings] /\ price' \in [Tasks -> Nat]
  BY <1>1 DEF AccountInv, Billings
<1> QED
  BY <1>7, <1>8, <1>11, <1>12, <1>13 DEF AccountInv, CreditInv

\* persistSuccess preserves it.
LEMMA CapturedInv ==
    ASSUME AccountInv, NEW t \in Tasks, Captured(t)
    PROVE  AccountInv'
<1>1. available' = [available EXCEPT ![Owner[t]] = @ + 0]
  BY OfficialAssumption DEF Captured, Capture, AccountInv, CreditInv, CreditsTypeOK
<1>2. Settled(t, "captured", "generation_capture", 0)
  BY <1>1 DEF Captured, Capture, Settled
<1> QED
  BY <1>2, SettledInv

\* cancelTask and releaseTask preserve it: the ON CONFLICT clause never applies.
LEMMA ReleasedInv ==
    ASSUME AccountInv, NEW t \in Tasks, Released(t)
    PROVE  AccountInv'
<1>1. billing[t] = "reserved"
  BY DEF Released
<1>2. Posted(t) = {ReserveEntry(t)}
  BY <1>1 DEF AccountInv, SettledOnce, TaskEntries, Posted
<1>3. ReserveEntry(t).type = "generation_reserve"
  BY DEF ReserveEntry, Entry
<1>4. ~HasEntry(Owner[t], "generation_release", t)
  BY <1>2, <1>3 DEF Posted, HasEntry, GenerationTypes
<1>5. Settled(t, "released", "generation_release", price[t])
  BY <1>4 DEF Released, Release, Settled
<1> QED
  BY <1>5, SettledInv

-----------------------------------------------------------------------------
(* Every action is a step of one of the kinds *)

\* An executor has a job exactly while it works, and its job was claimed.
JobsStarted ==
    \A w \in Workers :
        /\ pc[w] \in Working <=> job[w] \in Tasks
        /\ job[w] \in Tasks => status[job[w]] \notin {"none", "queued"}

Inv ==
    /\ TypeOK
    /\ AccountInv
    /\ StatusMatchesBilling
    /\ JobsStarted
    /\ ExclusiveExecution
    /\ ResultIsPaid

Kinds ==
    \/ Quiet
    \/ Granted
    \/ \E t \in Tasks, p \in Prices : Placed(t, p)
    \/ \E t \in Tasks : Released(t) \/ Captured(t)

\* Users reserve for new tasks, and release queued ones.
LEMMA UserKinds ==
    ASSUME Inv, UserStep
    PROVE  Kinds
<1>1. CASE CreditsNext /\ UNCHANGED OuterVars
  BY <1>1 DEF Kinds, Granted, OuterVars, taskVars
<1>2. CASE \E on \in BOOLEAN : PublishPlatform(on)
  BY <1>2 DEF Kinds, Quiet, PublishPlatform, taskVars
<1>3. CASE \E u \in Users, on \in BOOLEAN : UpdatePreferences(u, on)
  BY <1>3 DEF Kinds, Quiet, UpdatePreferences, taskVars
<1>4. CASE \E t \in Tasks : BeginCreateTask(t) \/ ReadPreference(t) \/ EndSubmission(t)
  BY <1>4 DEF Kinds, Quiet, BeginCreateTask, ReadPreference, EndSubmission, taskVars
<1>5. ASSUME NEW t \in Tasks, NEW p \in Prices, CreateTask(t, p) PROVE Kinds
  <2>1. billing[t] = "none"
    BY <1>5 DEF CreateTask, Inv, StatusMatchesBilling
  <2> QED
    BY <1>5, <2>1 DEF Kinds, Placed, CreateTask
<1>6. ASSUME NEW t \in Tasks, CancelTask(t) PROVE Kinds
  <2>1. billing[t] = "reserved"
    BY <1>6 DEF CancelTask, Inv, StatusMatchesBilling
  <2> QED
    BY <1>6, <2>1 DEF Kinds, Released, CancelTask
<1>7. CASE \E t \in Tasks : AcknowledgeTask(t)
  BY <1>7 DEF Kinds, Quiet, AcknowledgeTask
<1> QED
  BY <1>1, <1>2, <1>3, <1>4, <1>5, <1>6, <1>7 DEF UserStep

\* releaseTask releases a reserved task or does nothing.
LEMMA ReleaseKinds ==
    ASSUME NEW t \in Tasks, NEW why, ReleaseTask(t, why), UNCHANGED grantVars
    PROVE  Quiet \/ Released(t)
<1>1. CASE billing[t] = "reserved"
  BY <1>1 DEF ReleaseTask, Released
<1>2. CASE billing[t] # "reserved"
  BY <1>2 DEF ReleaseTask, Quiet, taskVars, accountVars, grantVars, creditVars
<1> QED
  BY <1>1, <1>2

\* An executor releases and captures, the rest of its steps are quiet.
LEMMA WorkerKinds ==
    ASSUME Inv, NEW w \in Workers, WorkerStep(w) \/ StartWorker(w) \/ Crash(w)
    PROVE  Kinds
<1>1. ASSUME NEW t \in Tasks, ReleaseListed(w, t) PROVE Kinds
  <2>1. PICK why : ReleaseTask(t, why)
    BY <1>1 DEF ReleaseListed
  <2>2. UNCHANGED grantVars
    BY <1>1 DEF ReleaseListed
  <2> QED
    BY <2>1, <2>2, ReleaseKinds DEF Kinds
<1>2. ASSUME ReleaseClaimed(w) PROVE Kinds
  <2>1. job[w] \in Tasks
    BY <1>2 DEF ReleaseClaimed, Inv, JobsStarted, Working
  <2>2. ReleaseTask(job[w], "upstream") /\ UNCHANGED grantVars
    BY <1>2 DEF ReleaseClaimed
  <2> QED
    BY <2>1, <2>2, ReleaseKinds DEF Kinds
<1>3. ASSUME SettleTask(w) \/ SettleAnswerLost(w) PROVE Kinds
  <2>1. job[w] \in Tasks
    BY <1>3 DEF SettleTask, SettleAnswerLost, Inv, JobsStarted, Working, Generating
  <2>2. Captured(job[w])
    BY <1>3 DEF SettleTask, SettleAnswerLost, CommitSuccess, Captured
  <2> QED
    BY <2>1, <2>2 DEF Kinds
<1>4. CASE \E t \in Tasks : ClaimTask(w, t)
  BY <1>4 DEF Kinds, Quiet, ClaimTask
<1>5. CASE \/ FinishListed(w) \/ SeeEnabled(w) \/ SeeDisabled(w) \/ NothingToClaim(w)
           \/ StartWorker(w) \/ Crash(w)
  BY <1>5 DEF Kinds, Quiet, FinishListed, SeeEnabled, SeeDisabled, NothingToClaim, StartWorker,
         Crash, taskVars
<1>6. CASE ProviderAnswers(w) \/ ProviderFails(w) \/ InsertAsset(w) \/ InsertAnswerLost(w) \/ InsertFails(w)
  BY <1>6 DEF Kinds, Quiet, ProviderAnswers, ProviderFails, InsertAsset, InsertAnswerLost,
         InsertFails, taskVars
<1>7. CASE \/ PutObject(w) \/ PutFails(w) \/ SettleFails(w) \/ RemoveObject(w) \/ DiscardAsset(w)
  BY <1>7 DEF Kinds, Quiet, PutObject, PutFails, SettleFails, RemoveObject, DiscardAsset, taskVars
<1> QED
  BY <1>1, <1>2, <1>3, <1>4, <1>5, <1>6, <1>7 DEF WorkerStep

\* Every step of the system is, to the accounts, one of the five kinds.
LEMMA StepKinds ==
    ASSUME Inv, [Next]_vars
    PROVE  Kinds
<1>1. CASE \E t \in Tasks : ClaimTimesOut(t)
  BY <1>1 DEF Kinds, Quiet, ClaimTimesOut
<1>2. CASE UNCHANGED vars
  BY <1>2 DEF Kinds, Quiet, vars, taskVars
<1> QED
  BY <1>1, <1>2, UserKinds, WorkerKinds DEF Next

\* So every step preserves what relates accounts and tasks.
LEMMA AccountStep ==
    ASSUME Inv, [Next]_vars
    PROVE  AccountInv'
<1>1. AccountInv
  BY DEF Inv
<1> QED
  BY <1>1, StepKinds, QuietInv, GrantedInv, PlacedInv, ReleasedInv, CapturedInv DEF Kinds

-----------------------------------------------------------------------------
(* Task rows and executors *)

\* What an action does to a task row.
RowsKept == UNCHANGED <<status, billing>>

RowMoved(t) ==
    \E s, b :
        /\ status' = [status EXCEPT ![t] = s]
        /\ billing' = [billing EXCEPT ![t] = b]
        /\ \/ status[t] = "none" /\ s = "queued" /\ b = "reserved"
           \/ status[t] = "queued" /\ s = "running" /\ b = billing[t]
           \/ billing[t] = "reserved" /\ s \in {"failed", "canceled"} /\ b = "released"
           \/ billing[t] = "reserved" /\ s = "succeeded" /\ b = "captured"

\* releaseTask moves at most its own row.
LEMMA ReleaseRows ==
    ASSUME NEW t \in Tasks, NEW why, ReleaseTask(t, why)
    PROVE  RowsKept \/ RowMoved(t)
BY DEF ReleaseTask, RowsKept, RowMoved, taskVars

\* The settling transaction moves its own row only.
LEMMA CaptureRows ==
    ASSUME NEW t \in Tasks, CommitSuccess(t)
    PROVE  RowMoved(t)
BY DEF CommitSuccess, RowMoved

\* Every step leaves the rows alone or moves one of them forward.
LEMMA StepRows ==
    ASSUME Inv, [Next]_vars
    PROVE  RowsKept \/ \E t \in Tasks : RowMoved(t)
<1>0. billing \in [Tasks -> Billings]
  BY DEF Inv, AccountInv
<1>1. CASE UserStep
  <2>1. CASE CreditsNext /\ UNCHANGED OuterVars
    BY <2>1 DEF RowsKept, OuterVars, taskVars
  <2>2. CASE (\E on \in BOOLEAN : PublishPlatform(on))
             \/ (\E u \in Users, on \in BOOLEAN : UpdatePreferences(u, on))
             \/ (\E t \in Tasks : BeginCreateTask(t) \/ ReadPreference(t) \/ EndSubmission(t) \/ AcknowledgeTask(t))
    BY <2>2 DEF RowsKept, PublishPlatform, UpdatePreferences, BeginCreateTask, ReadPreference,
           EndSubmission, AcknowledgeTask, taskVars
  <2>3. CASE \E t \in Tasks, p \in Prices : CreateTask(t, p)
    BY <2>3 DEF CreateTask, RowMoved
  <2>4. CASE \E t \in Tasks : CancelTask(t)
    BY <2>4 DEF CancelTask, RowMoved, Inv, StatusMatchesBilling
  <2> QED
    BY <1>1, <2>1, <2>2, <2>3, <2>4 DEF UserStep
<1>2. ASSUME NEW w \in Workers, WorkerStep(w)
      PROVE  RowsKept \/ \E t \in Tasks : RowMoved(t)
  <2>1. CASE \E t \in Tasks : ReleaseListed(w, t)
    BY <2>1, ReleaseRows DEF ReleaseListed
  <2>2. CASE \E t \in Tasks : ClaimTask(w, t)
    <3> PICK t \in Tasks : ClaimTask(w, t)
      BY <2>2
    <3>1. billing' = [billing EXCEPT ![t] = billing[t]]
      BY <1>0 DEF ClaimTask
    <3> QED
      BY <3>1 DEF ClaimTask, RowMoved
  <2>3. CASE ReleaseClaimed(w)
    <3>1. job[w] \in Tasks
      BY <2>3 DEF ReleaseClaimed, Inv, JobsStarted, Working
    <3> QED
      BY <2>3, <3>1, ReleaseRows DEF ReleaseClaimed
  <2>4. CASE SettleTask(w) \/ SettleAnswerLost(w)
    <3>1. job[w] \in Tasks
      BY <2>4 DEF SettleTask, SettleAnswerLost, Inv, JobsStarted, Working, Generating
    <3> QED
      BY <2>4, <3>1, CaptureRows DEF SettleTask, SettleAnswerLost
  <2>5. CASE FinishListed(w) \/ SeeEnabled(w) \/ SeeDisabled(w) \/ NothingToClaim(w)
    BY <2>5 DEF RowsKept, FinishListed, SeeEnabled, SeeDisabled, NothingToClaim, taskVars
  <2>6. CASE ProviderAnswers(w) \/ ProviderFails(w) \/ InsertAsset(w) \/ InsertAnswerLost(w) \/ InsertFails(w)
    BY <2>6 DEF RowsKept, ProviderAnswers, ProviderFails, InsertAsset, InsertAnswerLost,
           InsertFails, taskVars
  <2>7. CASE PutObject(w) \/ PutFails(w) \/ SettleFails(w) \/ RemoveObject(w) \/ DiscardAsset(w)
    BY <2>7 DEF RowsKept, PutObject, PutFails, SettleFails, RemoveObject, DiscardAsset, taskVars
  <2> QED
    BY <1>2, <2>1, <2>2, <2>3, <2>4, <2>5, <2>6, <2>7 DEF WorkerStep
<1>3. CASE \E w \in Workers : StartWorker(w) \/ Crash(w)
  BY <1>3 DEF RowsKept, StartWorker, Crash, taskVars
<1>4. CASE (\E t \in Tasks : ClaimTimesOut(t)) \/ UNCHANGED vars
  BY <1>4 DEF RowsKept, ClaimTimesOut, vars, taskVars
<1> QED
  BY <1>1, <1>2, <1>3, <1>4 DEF Next

Statuses == {"none", "queued", "running", "succeeded", "failed", "canceled"}

\* Moving a row forward keeps its two columns consistent.
LEMMA RowStep ==
    ASSUME Inv, [Next]_vars
    PROVE  /\ StatusMatchesBilling'
           /\ status' \in [Tasks -> Statuses]
           /\ \A t \in Tasks : status[t] \notin {"none", "queued"} => status'[t] \notin {"none", "queued"}
           /\ \A t \in Tasks : billing[t] \in {"captured", "released"} =>
                  billing'[t] = billing[t] /\ status'[t] = status[t]
<1>1. /\ status \in [Tasks -> Statuses] /\ billing \in [Tasks -> Billings]
      /\ StatusMatchesBilling
  BY DEF Inv, AccountInv, TypeOK, Statuses
<1>2. CASE RowsKept
  BY <1>1, <1>2 DEF RowsKept, StatusMatchesBilling
<1>3. ASSUME NEW t \in Tasks, RowMoved(t)
      PROVE  /\ StatusMatchesBilling'
             /\ status' \in [Tasks -> Statuses]
             /\ \A x \in Tasks :
                  status[x] \notin {"none", "queued"} => status'[x] \notin {"none", "queued"}
             /\ \A x \in Tasks : billing[x] \in {"captured", "released"} =>
                  billing'[x] = billing[x] /\ status'[x] = status[x]
  <2>1. PICK s, b :
          /\ status' = [status EXCEPT ![t] = s]
          /\ billing' = [billing EXCEPT ![t] = b]
          /\ \/ status[t] = "none" /\ s = "queued" /\ b = "reserved"
             \/ status[t] = "queued" /\ s = "running" /\ b = billing[t]
             \/ billing[t] = "reserved" /\ s \in {"failed", "canceled"} /\ b = "released"
             \/ billing[t] = "reserved" /\ s = "succeeded" /\ b = "captured"
    BY <1>3 DEF RowMoved
  <2>2. status'[t] = s /\ billing'[t] = b /\ s \in Statuses
    BY <1>1, <2>1 DEF Statuses
  <2>3. \A x \in Tasks \ {t} : status'[x] = status[x] /\ billing'[x] = billing[x]
    BY <1>1, <2>1
  <2>4. StatusMatchesBilling'
    BY <1>1, <2>1, <2>2, <2>3 DEF StatusMatchesBilling
  <2>5. status' \in [Tasks -> Statuses]
    BY <1>1, <2>1, <2>2
  <2>6. \A x \in Tasks :
          status[x] \notin {"none", "queued"} => status'[x] \notin {"none", "queued"}
    BY <1>1, <2>1, <2>2, <2>3 DEF StatusMatchesBilling
  <2>7. \A x \in Tasks : billing[x] \in {"captured", "released"} =>
          billing'[x] = billing[x] /\ status'[x] = status[x]
    BY <1>1, <2>1, <2>2, <2>3 DEF StatusMatchesBilling
  <2> QED
    BY <2>4, <2>5, <2>6, <2>7
<1> QED
  BY <1>2, <1>3, StepRows

\* What a step does to the executor of a process: it keeps its job and works on
\* or not as before, drops its job, or claims a queued task.
ExecutorsKept == UNCHANGED <<pc, job>>

ExecutorMoved(w) ==
    \E l \in Labels, j \in Tasks \cup {NoTask} :
        /\ pc' = [pc EXCEPT ![w] = l]
        /\ job' = [job EXCEPT ![w] = j]
        /\ \/ j = job[w] /\ (l \in Working <=> pc[w] \in Working)
           \/ j = NoTask /\ l \notin Working
           \/ j \in Tasks /\ l \in Working /\ status[j] = "queued" /\ status'[j] = "running"

\* Every step moves at most one executor.
LEMMA StepExecutors ==
    ASSUME Inv, [Next]_vars
    PROVE  ExecutorsKept \/ \E w \in Workers : ExecutorMoved(w)
<1>0. /\ pc \in [Workers -> Labels] /\ job \in [Workers -> Tasks \cup {NoTask}]
      /\ status \in [Tasks -> Statuses]
  BY DEF Inv, TypeOK, Statuses
<1>1. CASE UserStep
  <2>1. CASE CreditsNext /\ UNCHANGED OuterVars
    BY <2>1 DEF ExecutorsKept, OuterVars, workerVars
  <2> QED
    BY <1>1, <2>1 DEF UserStep, ExecutorsKept, workerVars, PublishPlatform, UpdatePreferences,
       BeginCreateTask, ReadPreference, EndSubmission, CreateTask, CancelTask, AcknowledgeTask
<1>2. CASE (\E t \in Tasks : ClaimTimesOut(t)) \/ UNCHANGED vars
  BY <1>2 DEF ExecutorsKept, ClaimTimesOut, vars, workerVars
<1>3. ASSUME NEW w \in Workers, WorkerStep(w) \/ StartWorker(w) \/ Crash(w)
      PROVE  ExecutorsKept \/ ExecutorMoved(w)
  <2>1. CASE \E t \in Tasks : ReleaseListed(w, t)
    BY <2>1 DEF ReleaseListed, ExecutorsKept
  <2>2. ASSUME NEW t \in Tasks, ClaimTask(w, t) PROVE ExecutorMoved(w)
    <3>1. status[t] = "queued" /\ status'[t] = "running"
      BY <1>0, <2>2 DEF ClaimTask
    <3>2. "generating" \in Labels /\ "generating" \in Working
      BY DEF Labels, Working, Generating
    <3> QED
      BY <2>2, <3>1, <3>2 DEF ClaimTask, ExecutorMoved, Goto
  <2>3. CASE FinishListed(w) \/ SeeEnabled(w) \/ SeeDisabled(w) \/ NothingToClaim(w) \/ StartWorker(w)
    <3>1. /\ job' = [job EXCEPT ![w] = job[w]]
          /\ pc[w] \notin Working
          /\ \E l \in Labels \ Working : pc' = [pc EXCEPT ![w] = l]
      BY <1>0, <2>3 DEF FinishListed, SeeEnabled, SeeDisabled, NothingToClaim, StartWorker, Goto,
             Labels, Working, Generating, CleaningUp, Listing
    <3> QED
      BY <1>0, <3>1 DEF ExecutorMoved
  <2>4. CASE \/ ProviderAnswers(w) \/ ProviderFails(w) \/ InsertAsset(w) \/ InsertAnswerLost(w) \/ InsertFails(w)
             \/ PutObject(w) \/ PutFails(w) \/ SettleFails(w) \/ RemoveObject(w) \/ DiscardAsset(w)
             \/ SettleAnswerLost(w)
    <3>1. /\ job' = [job EXCEPT ![w] = job[w]]
          /\ pc[w] \in Working
          /\ \E l \in Working : pc' = [pc EXCEPT ![w] = l]
      BY <1>0, <2>4 DEF ProviderAnswers, ProviderFails, InsertAsset, InsertAnswerLost,
             InsertFails, PutObject, PutFails, SettleFails, RemoveObject, DiscardAsset,
             SettleAnswerLost, Goto, Working, Generating, CleaningUp
    <3>2. Working \subseteq Labels
      BY DEF Labels
    <3> QED
      BY <1>0, <3>1, <3>2 DEF ExecutorMoved
  <2>5. CASE SettleTask(w) \/ ReleaseClaimed(w) \/ Crash(w)
    <3>1. /\ job' = [job EXCEPT ![w] = NoTask]
          /\ \E l \in Labels \ Working : pc' = [pc EXCEPT ![w] = l]
      BY <2>5 DEF SettleTask, ReleaseClaimed, Crash, Goto, Labels, Working, Generating, CleaningUp
    <3> QED
      BY <3>1 DEF ExecutorMoved
  <2> QED
    BY <1>3, <2>1, <2>2, <2>3, <2>4, <2>5 DEF WorkerStep
<1> QED
  BY <1>1, <1>2, <1>3 DEF Next

\* Executors keep to what they claimed, and two never claim the same task.
LEMMA ExecutorStep ==
    ASSUME Inv, [Next]_vars
    PROVE  /\ JobsStarted' /\ ExclusiveExecution'
           /\ pc' \in [Workers -> Labels] /\ job' \in [Workers -> Tasks \cup {NoTask}]
<1>0. /\ pc \in [Workers -> Labels] /\ job \in [Workers -> Tasks \cup {NoTask}]
      /\ JobsStarted /\ ExclusiveExecution /\ NoTask \notin Tasks
  BY OfficialAssumption DEF Inv, TypeOK
<1>1. \A t \in Tasks : status[t] \notin {"none", "queued"} => status'[t] \notin {"none", "queued"}
  BY RowStep
<1>2. CASE ExecutorsKept
  BY <1>0, <1>1, <1>2 DEF ExecutorsKept, JobsStarted, ExclusiveExecution
<1>3. ASSUME NEW w \in Workers, ExecutorMoved(w)
      PROVE  /\ JobsStarted' /\ ExclusiveExecution'
             /\ pc' \in [Workers -> Labels] /\ job' \in [Workers -> Tasks \cup {NoTask}]
  <2>1. PICK l \in Labels, j \in Tasks \cup {NoTask} :
          /\ pc' = [pc EXCEPT ![w] = l]
          /\ job' = [job EXCEPT ![w] = j]
          /\ \/ j = job[w] /\ (l \in Working <=> pc[w] \in Working)
             \/ j = NoTask /\ l \notin Working
             \/ j \in Tasks /\ l \in Working /\ status[j] = "queued" /\ status'[j] = "running"
    BY <1>3 DEF ExecutorMoved
  <2>2. pc'[w] = l /\ job'[w] = j /\ \A v \in Workers \ {w} : pc'[v] = pc[v] /\ job'[v] = job[v]
    BY <1>0, <2>1
  <2>3. pc' \in [Workers -> Labels] /\ job' \in [Workers -> Tasks \cup {NoTask}]
    BY <1>0, <2>1
  <2>4. JobsStarted'
    BY <1>0, <1>1, <2>1, <2>2 DEF JobsStarted
  <2>5. ExclusiveExecution'
    <3>1. CASE j = job[w] \/ j = NoTask
      BY <1>0, <2>2, <3>1 DEF ExclusiveExecution
    <3>2. CASE j \in Tasks /\ status[j] = "queued"
      <4>1. \A v \in Workers : job[v] # j
        BY <1>0, <3>2 DEF JobsStarted
      <4> QED
        BY <1>0, <2>2, <4>1 DEF ExclusiveExecution
    <3> QED
      BY <2>1, <3>1, <3>2
  <2> QED
    BY <2>3, <2>4, <2>5
<1> QED
  BY <1>2, <1>3, StepExecutors

-----------------------------------------------------------------------------
(* The remaining variables *)

Categories == {"none", "upstream", "configuration", "worker_interrupted"}
AssetStates == {"none", "pending", "completed", "failed"}

RestOK ==
    /\ platformEnabled \in BOOLEAN
    /\ userEnabled \in [Users -> BOOLEAN]
    /\ submitting \in [Tasks -> {"no", "platform_on", "both_on"}]
    /\ category \in [Tasks -> Categories]
    /\ timedOut \subseteq Tasks /\ acknowledged \subseteq Tasks
    /\ asset \in [Tasks -> AssetStates]
    /\ objects \subseteq Tasks
    /\ todo \in [Workers -> SUBSET Tasks]

\* An asset becomes completed in the transaction that captures its task only.
AssetsKept == \A t \in Tasks : asset'[t] = "completed" => asset[t] = "completed" \/ billing'[t] = "captured"

\* The remaining columns keep their types, and a completed asset is a paid one.
LEMMA RestStep ==
    ASSUME Inv, [Next]_vars
    PROVE  RestOK' /\ AssetsKept
<1>0. RestOK /\ JobsStarted /\ billing \in [Tasks -> Billings]
  BY DEF Inv, AccountInv, TypeOK, RestOK, Categories, AssetStates
<1>1. CASE UserStep
  <2>1. CASE CreditsNext /\ UNCHANGED OuterVars
    BY <1>0, <2>1 DEF RestOK, AssetsKept, OuterVars, settingVars, taskVars, storeVars, workerVars
  <2>2. CASE (\E on \in BOOLEAN : PublishPlatform(on))
             \/ (\E u \in Users, on \in BOOLEAN : UpdatePreferences(u, on))
    BY <1>0, <2>2 DEF RestOK, AssetsKept, PublishPlatform, UpdatePreferences, taskVars,
           storeVars, workerVars
  <2>3. CASE \E t \in Tasks : BeginCreateTask(t) \/ ReadPreference(t) \/ EndSubmission(t)
    BY <1>0, <2>3 DEF RestOK, AssetsKept, BeginCreateTask, ReadPreference, EndSubmission,
           settingVars, taskVars, storeVars, workerVars
  <2>4. CASE \E t \in Tasks : CancelTask(t) \/ AcknowledgeTask(t)
    BY <1>0, <2>4 DEF RestOK, AssetsKept, CancelTask, AcknowledgeTask, settingVars, storeVars,
           workerVars
  <2>5. CASE \E t \in Tasks, p \in Prices : CreateTask(t, p)
    BY <1>0, <2>5 DEF RestOK, AssetsKept, CreateTask, settingVars, storeVars, workerVars
  <2> QED
    BY <1>1, <2>1, <2>2, <2>3, <2>4, <2>5 DEF UserStep
<1>2. CASE (\E t \in Tasks : ClaimTimesOut(t)) \/ UNCHANGED vars
  BY <1>0, <1>2 DEF RestOK, AssetsKept, ClaimTimesOut, vars, settingVars, taskVars, storeVars,
         workerVars
<1>3. ASSUME NEW w \in Workers, WorkerStep(w) \/ StartWorker(w) \/ Crash(w)
      PROVE  RestOK' /\ AssetsKept
  <2>1. ASSUME NEW t \in Tasks, NEW why \in Categories, ReleaseTask(t, why)
        PROVE  /\ category' \in [Tasks -> Categories]
               /\ UNCHANGED <<timedOut, acknowledged>>
    BY <1>0, <2>1 DEF ReleaseTask, RestOK, taskVars
  <2>2. CASE \E t \in Tasks : ReleaseListed(w, t)
    <3> PICK t \in Tasks : ReleaseListed(w, t)
      BY <2>2
    <3>1. /\ category' \in [Tasks -> Categories]
          /\ UNCHANGED <<timedOut, acknowledged>>
      BY <2>1 DEF ReleaseListed, Categories
    <3> QED
      BY <1>0, <3>1 DEF ReleaseListed, RestOK, AssetsKept, settingVars, storeVars
  <2>3. CASE ReleaseClaimed(w)
    <3>1. job[w] \in Tasks
      BY <1>0, <2>3 DEF ReleaseClaimed, JobsStarted, Working
    <3>2. /\ category' \in [Tasks -> Categories]
          /\ UNCHANGED <<timedOut, acknowledged>>
      BY <2>1, <2>3, <3>1 DEF ReleaseClaimed, Categories
    <3> QED
      BY <1>0, <2>3, <3>2 DEF ReleaseClaimed, RestOK, AssetsKept, settingVars, storeVars
  <2>4. CASE \E t \in Tasks : ClaimTask(w, t)
    BY <1>0, <2>4 DEF RestOK, AssetsKept, ClaimTask, settingVars, storeVars
  <2>5. CASE FinishListed(w) \/ SeeEnabled(w) \/ NothingToClaim(w)
    BY <1>0, <2>5 DEF RestOK, AssetsKept, FinishListed, SeeEnabled, NothingToClaim, settingVars,
           taskVars, storeVars
  <2>6. CASE SeeDisabled(w) \/ StartWorker(w) \/ Crash(w)
    <3>1. \E l \in SUBSET Tasks : todo' = [todo EXCEPT ![w] = l]
      BY <1>0, <2>6 DEF SeeDisabled, StartWorker, Crash, Queued, RestOK
    <3>2. UNCHANGED <<settingVars, submitting, taskVars, storeVars>>
      BY <2>6 DEF SeeDisabled, StartWorker, Crash
    <3> QED
      BY <1>0, <3>1, <3>2 DEF RestOK, AssetsKept, settingVars, taskVars, storeVars
  <2>7. CASE ProviderAnswers(w) \/ ProviderFails(w) \/ InsertFails(w) \/ SettleFails(w)
    BY <1>0, <2>7 DEF RestOK, AssetsKept, ProviderAnswers, ProviderFails, InsertFails,
           SettleFails, settingVars, taskVars, storeVars
  <2>8. CASE InsertAsset(w) \/ InsertAnswerLost(w) \/ DiscardAsset(w)
    <3>1. \E a \in {"pending", "failed"} : asset' \in {asset, [asset EXCEPT ![job[w]] = a]}
      BY <2>8 DEF InsertAsset, InsertAnswerLost, DiscardAsset
    <3>2. UNCHANGED <<settingVars, submitting, taskVars, objects, todo>>
      BY <2>8 DEF InsertAsset, InsertAnswerLost, DiscardAsset
    <3> QED
      BY <1>0, <3>1, <3>2 DEF RestOK, AssetsKept, AssetStates, settingVars, taskVars
  <2>9. CASE PutObject(w) \/ PutFails(w) \/ RemoveObject(w)
    <3>1. job[w] \in Tasks
      BY <1>0, <2>9 DEF PutObject, PutFails, RemoveObject, JobsStarted, Working, Generating,
             CleaningUp
    <3> QED
      BY <1>0, <2>9, <3>1 DEF RestOK, AssetsKept, PutObject, PutFails, RemoveObject, settingVars,
             taskVars
  <2>10. CASE SettleTask(w) \/ SettleAnswerLost(w)
    <3>1. CommitSuccess(job[w]) /\ UNCHANGED <<settingVars, submitting, objects, todo>>
      BY <2>10 DEF SettleTask, SettleAnswerLost
    <3>2. /\ asset' = [asset EXCEPT ![job[w]] = "completed"]
          /\ billing' = [billing EXCEPT ![job[w]] = "captured"]
          /\ UNCHANGED <<category, timedOut, acknowledged>>
      BY <3>1 DEF CommitSuccess
    <3> QED
      BY <1>0, <3>1, <3>2 DEF RestOK, AssetsKept, AssetStates, settingVars
  <2> QED
    BY <1>3, <2>2, <2>3, <2>4, <2>5, <2>6, <2>7, <2>8, <2>9, <2>10 DEF WorkerStep
<1> QED
  BY <1>1, <1>2, <1>3 DEF Next

\* Every step of the system preserves the inductive invariant.
LEMMA InvStep ==
    ASSUME Inv, [Next]_vars
    PROVE  Inv'
<1>1. TypeOK'
  <2>1. CreditsTypeOK' /\ billing' \in [Tasks -> Billings] /\ price' \in [Tasks -> Nat]
    BY AccountStep DEF AccountInv, CreditInv
  <2> QED
    BY <2>1, RowStep, ExecutorStep, RestStep
       DEF TypeOK, RestOK, Billings, Statuses, Categories, AssetStates
<1>2. ResultIsPaid'
  <2>1. \A t \in Tasks : billing[t] = "captured" => billing'[t] = "captured"
    BY RowStep
  <2> QED
    BY <2>1, RestStep DEF AssetsKept, Inv, ResultIsPaid
<1> QED
  BY <1>1, <1>2, AccountStep, RowStep, ExecutorStep DEF Inv

\* The initial states satisfy the inductive invariant.
LEMMA InvInit == Init => Inv
<1> SUFFICES ASSUME Init PROVE Inv
  OBVIOUS
<1>1. CreditInv
  BY CreditsInitInv DEF Init
<1>2. \A u \in Users : Held(u) = {}
  BY DEF Init, Held
<1>3. ReservedIsHeld
  BY <1>2, TotalEmpty DEF ReservedIsHeld, Init, CreditsInit
<1>4. SettledOnce
  BY DEF SettledOnce, TaskEntries, Init, CreditsInit
<1>5. AccountInv
  BY <1>1, <1>3, <1>4 DEF AccountInv, Billings, Init
<1>6. TypeOK
  BY <1>1 DEF TypeOK, CreditInv, Init, Labels, Working, Listing
<1>7. StatusMatchesBilling /\ ResultIsPaid
  BY DEF StatusMatchesBilling, ResultIsPaid, Init
<1>8. JobsStarted /\ ExclusiveExecution
  BY OfficialAssumption DEF JobsStarted, ExclusiveExecution, Init, Working, Generating, CleaningUp
<1> QED
  BY <1>5, <1>6, <1>7, <1>8 DEF Inv

\* The inductive invariant holds in every reachable state.
LEMMA Invariance == Spec => []Inv
BY InvInit, InvStep, PTL DEF Spec

-----------------------------------------------------------------------------
(* Theorems *)

\* Every variable has its type: in particular no balance is ever negative, the
\* check constraint of credit_accounts, whatever is reserved and settled.
THEOREM TypeCorrect == Spec => []TypeOK
<1>1. Inv => TypeOK
  BY DEF Inv
<1> QED
  BY <1>1, Invariance, PTL

\* The reserved balance is the sum of the prices of the unsettled tasks.
THEOREM ReservedBacked == Spec => []ReservedIsHeld
<1>1. Inv => ReservedIsHeld
  BY DEF Inv, AccountInv
<1> QED
  BY <1>1, Invariance, PTL

\* Balances are the projection of the ledger, with tasks as without.
THEOREM LedgerBalances == Spec => []LedgerProjection
<1>1. Inv => LedgerProjection
  BY DEF Inv, AccountInv, CreditInv
<1> QED
  BY <1>1, Invariance, PTL

\* A task is reserved once and settled at most once, for the price it froze.
THEOREM TaskSettledOnce == Spec => []SettledOnce
<1>1. Inv => SettledOnce
  BY DEF Inv, AccountInv
<1> QED
  BY <1>1, Invariance, PTL

\* status and billing_status never contradict each other.
THEOREM StatusConsistent == Spec => []StatusMatchesBilling
<1>1. Inv => StatusMatchesBilling
  BY DEF Inv
<1> QED
  BY <1>1, Invariance, PTL

\* However many executors run, none works for another's task.
THEOREM MutualExclusion == Spec => []ExclusiveExecution
<1>1. Inv => ExclusiveExecution
  BY DEF Inv
<1> QED
  BY <1>1, Invariance, PTL

\* Nothing is handed out that was not paid for.
THEOREM CompletedPaid == Spec => []ResultIsPaid
<1>1. Inv => ResultIsPaid
  BY DEF Inv
<1> QED
  BY <1>1, Invariance, PTL

\* A settlement is final: no later step settles, reopens or reprices the task.
THEOREM SettlementFinal == Spec => SettlementIsFinal
<1>1. ASSUME Inv, [Next]_vars, NEW t \in Tasks, billing[t] \in {"captured", "released"}
      PROVE  billing'[t] = billing[t] /\ status'[t] = status[t] /\ price'[t] = price[t]
  <2>1. billing'[t] = billing[t] /\ status'[t] = status[t]
    BY <1>1, RowStep
  <2>2. price'[t] = price[t]
    <3>1. Kinds
      BY <1>1, StepKinds
    <3>2. ASSUME NEW x \in Tasks, NEW p \in Prices, Placed(x, p) PROVE price'[t] = price[t]
      BY <1>1, <3>2 DEF Placed, Inv, AccountInv
    <3> QED
      BY <3>1, <3>2 DEF Kinds, Quiet, Granted, Released, Captured
  <2> QED
    BY <2>1, <2>2
<1>2. Inv /\ [Next]_vars =>
        [\A t \in Tasks : billing[t] \in {"captured", "released"} =>
            billing'[t] = billing[t] /\ status'[t] = status[t] /\ price'[t] = price[t]]_vars
  BY <1>1
<1> QED
  BY <1>2, Invariance, PTL DEF Spec, SettlementIsFinal

-----------------------------------------------------------------------------
(* A captured task has its result, provided no COMMIT answer is lost *)

\* The executor that captures is the only one that works for the task, it has
\* stored the object before, and it has nothing left to clean up afterwards.
ResultInv ==
    ~MayLoseCommit =>
        /\ CapturedHasResult
        /\ \A w \in Workers : job[w] \in Tasks => billing[job[w]] # "captured"
        /\ \A w \in Workers : pc[w] = "settling" => job[w] \in objects

\* Steps that neither capture nor touch an asset or an object.
LEMMA ResultKept ==
    ASSUME Inv, ResultInv, UNCHANGED storeVars,
           \A t \in Tasks : billing'[t] = "captured" => billing[t] = "captured",
           \A w \in Workers :
               /\ job'[w] \in Tasks => job'[w] = job[w] \/ status[job'[w]] = "queued"
               /\ pc'[w] = "settling" => pc[w] = "settling" /\ job'[w] = job[w]
    PROVE  ResultInv'
<1> SUFFICES ASSUME ~MayLoseCommit
             PROVE  /\ CapturedHasResult'
                    /\ \A w \in Workers : job'[w] \in Tasks => billing'[job'[w]] # "captured"
                    /\ \A w \in Workers : pc'[w] = "settling" => job'[w] \in objects'
  BY DEF ResultInv
<1>1. CapturedHasResult'
  BY DEF ResultInv, CapturedHasResult, storeVars
<1>2. \A t \in Tasks : status[t] = "queued" => billing[t] # "captured"
  BY DEF Inv, StatusMatchesBilling
<1>3. \A w \in Workers : job'[w] \in Tasks => billing'[job'[w]] # "captured"
  BY <1>2 DEF ResultInv
<1>4. \A w \in Workers : pc'[w] = "settling" => job'[w] \in objects'
  BY DEF ResultInv, storeVars
<1> QED
  BY <1>1, <1>3, <1>4

\* Steps of an executor on the asset or the object of its own unsettled task.
LEMMA ResultTouched ==
    ASSUME Inv, ResultInv, NEW w \in Workers, job[w] \in Tasks,
           UNCHANGED <<billing, job>>,
           \A t \in Tasks \ {job[w]} : asset'[t] = asset[t] /\ (t \in objects => t \in objects'),
           NEW l, pc' = [pc EXCEPT ![w] = l], l = "settling" => job[w] \in objects'
    PROVE  ResultInv'
<1> SUFFICES ASSUME ~MayLoseCommit
             PROVE  /\ CapturedHasResult'
                    /\ \A v \in Workers : job'[v] \in Tasks => billing'[job'[v]] # "captured"
                    /\ \A v \in Workers : pc'[v] = "settling" => job'[v] \in objects'
  BY DEF ResultInv
<1>1. CapturedHasResult'
  BY DEF ResultInv, CapturedHasResult
<1>2. \A v \in Workers : job'[v] \in Tasks => billing'[job'[v]] # "captured"
  BY DEF ResultInv
<1>3. ASSUME NEW v \in Workers, pc'[v] = "settling" PROVE job'[v] \in objects'
  <2>1. pc \in [Workers -> Labels] /\ job \in [Workers -> Tasks \cup {NoTask}] /\ JobsStarted
    BY DEF Inv, TypeOK
  <2>2. CASE v = w
    BY <1>3, <2>1, <2>2
  <2>3. CASE v # w
    <3>1. pc[v] = "settling"
      BY <1>3, <2>1, <2>3
    <3>2. job[v] \in Tasks
      BY <2>1, <3>1 DEF JobsStarted, Working, Generating
    <3>3. job[v] # job[w]
      BY <2>3, <3>2, OfficialAssumption DEF Inv, ExclusiveExecution
    <3> QED
      BY <3>1, <3>2, <3>3 DEF ResultInv
  <2> QED
    BY <2>2, <2>3
<1> QED
  BY <1>1, <1>2, <1>3

\* The capture itself.
LEMMA ResultCaptured ==
    ASSUME Inv, ResultInv, NEW w \in Workers, SettleTask(w)
    PROVE  ResultInv'
<1>1. /\ pc \in [Workers -> Labels] /\ job \in [Workers -> Tasks \cup {NoTask}]
      /\ asset \in [Tasks -> AssetStates] /\ billing \in [Tasks -> Billings]
      /\ NoTask \notin Tasks
  BY OfficialAssumption DEF Inv, TypeOK, AccountInv, AssetStates
<1>2. job[w] \in Tasks
  BY DEF SettleTask, Inv, JobsStarted, Working, Generating
<1>3. /\ asset' = [asset EXCEPT ![job[w]] = "completed"]
      /\ billing' = [billing EXCEPT ![job[w]] = "captured"]
      /\ pc' = [pc EXCEPT ![w] = "idle"] /\ job' = [job EXCEPT ![w] = NoTask]
      /\ objects' = objects /\ pc[w] = "settling"
  BY DEF SettleTask, CommitSuccess, Goto
<1>4. \A v \in Workers \ {w} : job[v] \in Tasks => job[v] # job[w]
  BY <1>2, OfficialAssumption DEF Inv, ExclusiveExecution
<1> SUFFICES ASSUME ~MayLoseCommit
             PROVE  /\ CapturedHasResult'
                    /\ \A v \in Workers : job'[v] \in Tasks => billing'[job'[v]] # "captured"
                    /\ \A v \in Workers : pc'[v] = "settling" => job'[v] \in objects'
  BY DEF ResultInv
<1>5. CapturedHasResult'
  BY <1>1, <1>2, <1>3 DEF ResultInv, CapturedHasResult
<1>6. \A v \in Workers : job'[v] \in Tasks => billing'[job'[v]] # "captured"
  BY <1>1, <1>2, <1>3, <1>4 DEF ResultInv
<1>7. \A v \in Workers : pc'[v] = "settling" => job'[v] \in objects'
  BY <1>1, <1>3 DEF ResultInv
<1> QED
  BY <1>5, <1>6, <1>7

\* A step that loses no COMMIT answer leaves every captured task its image.
LEMMA ResultStep ==
    ASSUME Inv, ResultInv, [Next]_vars
    PROVE  ResultInv'
<1>0. /\ pc \in [Workers -> Labels] /\ job \in [Workers -> Tasks \cup {NoTask}]
      /\ status \in [Tasks -> Statuses] /\ billing \in [Tasks -> Billings] /\ NoTask \notin Tasks
  BY OfficialAssumption DEF Inv, TypeOK, AccountInv, Statuses
<1>1. ASSUME UNCHANGED <<storeVars, workerVars>>,
             \A t \in Tasks : billing'[t] = "captured" => billing[t] = "captured"
      PROVE  ResultInv'
  BY <1>1, ResultKept DEF workerVars
<1>2. ASSUME NEW t \in Tasks, NEW why, ReleaseTask(t, why)
      PROVE  \A x \in Tasks : billing'[x] = "captured" => billing[x] = "captured"
  BY <1>0, <1>2 DEF ReleaseTask, taskVars
<1>3. CASE UserStep
  <2>1. CASE CreditsNext /\ UNCHANGED OuterVars
    BY <1>1, <2>1 DEF OuterVars, taskVars
  <2>2. CASE (\E on \in BOOLEAN : PublishPlatform(on))
             \/ (\E u \in Users, on \in BOOLEAN : UpdatePreferences(u, on))
    BY <1>1, <2>2 DEF PublishPlatform, UpdatePreferences, taskVars
  <2>3. CASE \E t \in Tasks : BeginCreateTask(t) \/ ReadPreference(t) \/ EndSubmission(t) \/ AcknowledgeTask(t)
    BY <1>1, <2>3 DEF BeginCreateTask, ReadPreference, EndSubmission, AcknowledgeTask, taskVars
  <2>4. CASE (\E t \in Tasks, p \in Prices : CreateTask(t, p)) \/ (\E t \in Tasks : CancelTask(t))
    <3>1. \A x \in Tasks : billing'[x] = "captured" => billing[x] = "captured"
      BY <1>0, <2>4 DEF CreateTask, CancelTask
    <3>2. UNCHANGED <<storeVars, workerVars>>
      BY <2>4 DEF CreateTask, CancelTask
    <3> QED
      BY <1>1, <3>1, <3>2
  <2> QED
    BY <1>3, <2>1, <2>2, <2>3, <2>4 DEF UserStep
<1>4. CASE (\E t \in Tasks : ClaimTimesOut(t)) \/ UNCHANGED vars
  BY <1>1, <1>4 DEF ClaimTimesOut, vars, taskVars
<1>5. ASSUME NEW w \in Workers, WorkerStep(w) \/ StartWorker(w) \/ Crash(w)
      PROVE  ResultInv'
  <2>1. CASE \E t \in Tasks : ReleaseListed(w, t)
    <3>1. \A x \in Tasks : billing'[x] = "captured" => billing[x] = "captured"
      BY <1>2, <2>1 DEF ReleaseListed
    <3>2. UNCHANGED storeVars /\ pc' = pc /\ job' = job
      BY <2>1 DEF ReleaseListed
    <3> QED
      BY <3>1, <3>2, ResultKept
  <2>2. CASE ReleaseClaimed(w)
    <3>1. job[w] \in Tasks
      BY <2>2 DEF ReleaseClaimed, Inv, JobsStarted, Working
    <3>2. \A x \in Tasks : billing'[x] = "captured" => billing[x] = "captured"
      BY <1>2, <2>2, <3>1 DEF ReleaseClaimed
    <3>3. /\ UNCHANGED storeVars
          /\ pc' = [pc EXCEPT ![w] = "idle"] /\ job' = [job EXCEPT ![w] = NoTask]
      BY <2>2 DEF ReleaseClaimed, Goto
    <3> QED
      BY <1>0, <3>2, <3>3, ResultKept
  <2>3. CASE \E t \in Tasks : ClaimTask(w, t)
    <3> PICK t \in Tasks : ClaimTask(w, t)
      BY <2>3
    <3>1. /\ UNCHANGED storeVars /\ billing' = billing /\ status[t] = "queued"
          /\ pc' = [pc EXCEPT ![w] = "generating"] /\ job' = [job EXCEPT ![w] = t]
      BY DEF ClaimTask, Goto
    <3> QED
      BY <1>0, <3>1, ResultKept
  <2>4. CASE \/ FinishListed(w) \/ SeeEnabled(w) \/ SeeDisabled(w) \/ NothingToClaim(w)
             \/ StartWorker(w) \/ ProviderAnswers(w) \/ ProviderFails(w) \/ InsertFails(w)
             \/ SettleFails(w)
    <3>1. /\ UNCHANGED <<storeVars, billing, job>>
          /\ \E l \in Labels \ {"settling"} : pc' = [pc EXCEPT ![w] = l]
      BY <2>4 DEF FinishListed, SeeEnabled, SeeDisabled, NothingToClaim, StartWorker,
             ProviderAnswers, ProviderFails, InsertFails, SettleFails, Goto, taskVars, Labels,
             Working, Generating, CleaningUp, Listing
    <3> QED
      BY <1>0, <3>1, ResultKept
  <2>5. CASE Crash(w)
    <3>1. /\ UNCHANGED <<storeVars, billing>>
          /\ pc' = [pc EXCEPT ![w] = "stopped"] /\ job' = [job EXCEPT ![w] = NoTask]
      BY <2>5 DEF Crash, Goto, taskVars
    <3> QED
      BY <1>0, <3>1, ResultKept
  <2>6. CASE InsertAsset(w) \/ InsertAnswerLost(w) \/ PutObject(w) \/ PutFails(w) \/ RemoveObject(w) \/ DiscardAsset(w)
    <3>1. job[w] \in Tasks
      BY <2>6 DEF InsertAsset, InsertAnswerLost, PutObject, PutFails, RemoveObject, DiscardAsset,
             Inv, JobsStarted, Working, Generating, CleaningUp
    <3>2. /\ UNCHANGED <<billing, job>>
          /\ \E l \in Labels : pc' = [pc EXCEPT ![w] = l] /\ (l = "settling" => job[w] \in objects')
      BY <2>6 DEF InsertAsset, InsertAnswerLost, PutObject, PutFails, RemoveObject, DiscardAsset,
             taskVars, Goto, Labels, Working, Generating, CleaningUp
    <3>3. \A t \in Tasks \ {job[w]} : asset'[t] = asset[t] /\ (t \in objects => t \in objects')
      <4>1. asset \in [Tasks -> AssetStates]
        BY DEF Inv, TypeOK, AssetStates
      <4> QED
        BY <2>6, <4>1 DEF InsertAsset, InsertAnswerLost, PutObject, PutFails, RemoveObject,
               DiscardAsset
    <3> QED
      BY <3>1, <3>2, <3>3, ResultTouched
  <2>7. CASE SettleTask(w)
    BY <2>7, ResultCaptured
  <2>8. CASE SettleAnswerLost(w)
    BY <2>8 DEF SettleAnswerLost, ResultInv
  <2> QED
    BY <1>5, <2>1, <2>2, <2>3, <2>4, <2>5, <2>6, <2>7, <2>8 DEF WorkerStep
<1> QED
  BY <1>3, <1>4, <1>5 DEF Next

\* Who is charged has the image, as long as the answer to a COMMIT arrives.
THEOREM ResultDelivered == Spec => [](~MayLoseCommit => CapturedHasResult)
<1>1. Init => ResultInv
  BY OfficialAssumption DEF Init, ResultInv, CapturedHasResult
<1>2. ResultInv => (~MayLoseCommit => CapturedHasResult)
  BY DEF ResultInv
<1> QED
  BY <1>1, <1>2, ResultStep, Invariance, PTL DEF Spec
-----------------------------------------------------------------------------
(* Official generation implements CreditHolds: each of the five kinds of   *)
(* steps is a step of the abstract account or leaves it alone.             *)

\* The hold of a task, as the instance of CreditHolds sees it.
HoldOf(t) == [state |-> HoldState[billing[t]], amount |-> price[t]]

Hold == [t \in Tasks |-> HoldOf(t)]

\* The abstract steps, written with the variables of OfficialGeneration.
LEMMA GrantedMoves ==
    ASSUME Inv, Granted
    PROVE  \/ \E u \in Users : Holds!Move(u)
           \/ UNCHANGED <<available, Hold>>
<1>0. available \in [Users -> Nat] /\ available' \in [Users -> Nat] /\ Hold' = Hold
  <2>1. AccountInv'
    BY GrantedInv DEF Inv
  <2> QED
    BY <2>1 DEF Inv, AccountInv, CreditInv, CreditsTypeOK, Granted, Hold, HoldOf
<1>1. ASSUME NEW u \in Users, NEW n, NEW E, Credit(u, n, E)
      PROVE  Holds!Move(u)
  <2>1. available' = [available EXCEPT ![u] = available'[u]]
    BY <1>0, <1>1 DEF Credit
  <2> QED
    BY <1>0, <2>1 DEF Holds!Move, Hold, HoldOf
<1>2. CASE available' = available
  BY <1>0, <1>2
<1>3. ASSUME NEW u \in Users, OpenAccount(u) PROVE Holds!Move(u)
  BY <1>1, <1>3 DEF OpenAccount
<1>4. ASSUME NEW u \in Users, NEW c \in Codes, NEW k \in RedeemKeys, Redeem(u, c, k)
      PROVE  Holds!Move(u)
  BY <1>1, <1>4 DEF Redeem
<1>5. ASSUME NEW u \in Users, NEW a \in Adjustments, NEW d \in Deltas, AdjustUserCredits(u, a, d)
      PROVE  Holds!Move(u)
  BY <1>1, <1>5 DEF AdjustUserCredits
<1> QED
  BY <1>2, <1>3, <1>4, <1>5 DEF Granted, CreditsNext, RegisterUser, UpdateCreditSettings,
         RevokeRedemptionBatch, ExpireBatch, accountVars

\* A task that was not inserted has no price yet.
PriceInv == \A t \in Tasks : billing[t] = "none" => price[t] = 0

\* A task that is not inserted has price 0 in the model: every step keeps it so.
LEMMA PriceStep ==
    ASSUME Inv, PriceInv, [Next]_vars
    PROVE  PriceInv'
<1>1. billing \in [Tasks -> Billings] /\ price \in [Tasks -> Nat] /\ Kinds
  BY StepKinds DEF Inv, AccountInv
<1>2. CASE Quiet \/ Granted
  BY <1>2 DEF Quiet, Granted, PriceInv
<1>3. CASE \E t \in Tasks, p \in Prices : Placed(t, p)
  BY <1>1, <1>3 DEF Placed, PriceInv
<1>4. CASE \E t \in Tasks : Released(t) \/ Captured(t)
  BY <1>1, <1>4 DEF Released, Captured, PriceInv
<1> QED
  BY <1>1, <1>2, <1>3, <1>4 DEF Kinds

\* The abstract state of each billing status.
LEMMA HoldStates ==
    /\ HoldState["none"] = "none" /\ HoldState["reserved"] = "held"
    /\ HoldState["captured"] = "kept" /\ HoldState["released"] = "returned"
BY DEF HoldState

\* A step that changes the row of one task changes the hold of that task.
LEMMA HoldMoves ==
    ASSUME Inv, NEW t \in Tasks, NEW b \in Billings, NEW p \in Nat,
           billing' = [billing EXCEPT ![t] = b],
           price' = [price EXCEPT ![t] = p]
    PROVE  Hold' = [Hold EXCEPT ![t] = [state |-> HoldState[b], amount |-> p]]
<1>1. billing \in [Tasks -> Billings] /\ price \in [Tasks -> Nat]
  BY DEF Inv, AccountInv
<1>2. \A x \in Tasks : Hold'[x] = (IF x = t THEN [state |-> HoldState[b], amount |-> p] ELSE Hold[x])
  BY <1>1 DEF Hold, HoldOf
<1>3. Hold' = [x \in Tasks |-> Hold'[x]] /\ Hold = [x \in Tasks |-> Hold[x]]
  BY DEF Hold
<1> QED
  BY <1>2, <1>3

\* createTask places a hold.
LEMMA PlacedPlaces ==
    ASSUME Inv, PriceInv, NEW t \in Tasks, NEW p \in Prices, Placed(t, p)
    PROVE  Holds!Place(t)
<1>1. /\ available \in [Users -> Nat] /\ Owner[t] \in Users /\ p \in Nat \ {0}
      /\ BonusDue(Owner[t]) \in Nat
  BY OfficialAssumption, BonusType DEF Inv, AccountInv, CreditInv, CreditsTypeOK
<1>2. /\ billing[t] = "none" /\ billing' = [billing EXCEPT ![t] = "reserved"]
      /\ price' = [price EXCEPT ![t] = p]
      /\ available[Owner[t]] + BonusDue(Owner[t]) >= p
      /\ available' = [available EXCEPT ![Owner[t]] = @ + BonusDue(Owner[t]) + (-p)]
  BY DEF Placed, Reserve, Credit
<1>3. Hold[t] = [state |-> "none", amount |-> 0]
  BY <1>2, HoldStates DEF PriceInv, Hold, HoldOf
<1>4. /\ Hold'[t] = [state |-> "held", amount |-> p]
      /\ Hold' = [Hold EXCEPT ![t] = Hold'[t]]
  <2>1. /\ billing' = [billing EXCEPT ![t] = "reserved"] /\ price' = [price EXCEPT ![t] = p]
        /\ p \in Nat
    BY <1>1, <1>2
  <2>2. Hold' = [Hold EXCEPT ![t] = [state |-> "held", amount |-> p]]
    BY <2>1, HoldMoves, HoldStates DEF Billings
  <2>3. billing'[t] = "reserved" /\ price'[t] = p
    BY <2>1 DEF Inv, AccountInv
  <2>4. Hold'[t] = [state |-> "held", amount |-> p]
    BY <2>3, HoldStates DEF Hold, HoldOf
  <2> QED
    BY <2>2, <2>4
<1>5. /\ available'[Owner[t]] = available[Owner[t]] + BonusDue(Owner[t]) - p
      /\ available' = [available EXCEPT ![Owner[t]] = available'[Owner[t]]]
  <2>1. available'[Owner[t]] = available[Owner[t]] + BonusDue(Owner[t]) + (-p)
    BY <1>1, <1>2
  <2>2. available' = [available EXCEPT ![Owner[t]] = available'[Owner[t]]]
    BY <1>1, <1>2
  <2>3. available[Owner[t]] \in Int /\ BonusDue(Owner[t]) \in Int /\ p \in Int
    BY <1>1
  <2> QED
    BY <2>1, <2>2, <2>3
<1>6. /\ Hold[t] = Holds!Idle
      /\ Hold'[t].state = "held" /\ Hold'[t].amount \in Nat \ {0}
      /\ available'[Owner[t]] \in Nat
      /\ available'[Owner[t]] + Hold'[t].amount >= available[Owner[t]]
  BY <1>1, <1>2, <1>3, <1>4, <1>5 DEF Holds!Idle
<1> QED
  BY <1>4, <1>5, <1>6 DEF Holds!Place, Hold, HoldOf

\* cancelTask and releaseTask return a hold in full.
LEMMA ReleasedReturns ==
    ASSUME Inv, NEW t \in Tasks, Released(t)
    PROVE  Holds!Return(t)
<1>1. billing[t] = "reserved" /\ price \in [Tasks -> Nat] /\ price[t] \in Nat
  BY DEF Released, Inv, AccountInv
<1>2. /\ billing' = [billing EXCEPT ![t] = "released"]
      /\ price' = [price EXCEPT ![t] = price[t]]
      /\ available' = [available EXCEPT ![Owner[t]] = @ + price[t]]
  BY <1>1 DEF Released, Release
<1>3. Hold[t] = [state |-> "held", amount |-> price[t]]
  BY <1>1, HoldStates DEF Hold, HoldOf
<1>4. Hold' = [Hold EXCEPT ![t] = [state |-> "returned", amount |-> price[t]]]
  BY <1>1, <1>2, HoldMoves, HoldStates DEF Billings
<1>5. /\ Hold[t].state = "held" /\ Hold' = [Hold EXCEPT ![t].state = "returned"]
      /\ available' = [available EXCEPT ![Owner[t]] = @ + Hold[t].amount]
  <2>1. [Hold[t] EXCEPT !.state = "returned"] = [state |-> "returned", amount |-> price[t]]
    BY <1>3
  <2>2. Hold' = [Hold EXCEPT ![t] = [Hold[t] EXCEPT !.state = "returned"]]
    BY <1>4, <2>1
  <2>3. Hold[t].state = "held" /\ Hold[t].amount = price[t]
    BY <1>3
  <2> QED
    BY <1>2, <2>2, <2>3
<1> QED
  BY <1>5 DEF Holds!Return, Hold, HoldOf

\* persistSuccess keeps a hold in full.
LEMMA CapturedKeeps ==
    ASSUME Inv, NEW t \in Tasks, Captured(t)
    PROVE  Holds!Keep(t)
<1>1. billing[t] = "reserved" /\ price \in [Tasks -> Nat] /\ price[t] \in Nat /\ available' = available
  BY DEF Captured, Capture, Inv, AccountInv
<1>2. /\ billing' = [billing EXCEPT ![t] = "captured"]
      /\ price' = [price EXCEPT ![t] = price[t]]
  BY <1>1 DEF Captured
<1>3. Hold[t] = [state |-> "held", amount |-> price[t]]
  BY <1>1, HoldStates DEF Hold, HoldOf
<1>4. Hold' = [Hold EXCEPT ![t] = [state |-> "kept", amount |-> price[t]]]
  BY <1>1, <1>2, HoldMoves, HoldStates DEF Billings
<1>5. Hold[t].state = "held" /\ Hold' = [Hold EXCEPT ![t].state = "kept"]
  <2>1. [Hold[t] EXCEPT !.state = "kept"] = [state |-> "kept", amount |-> price[t]]
    BY <1>3
  <2>2. Hold' = [Hold EXCEPT ![t] = [Hold[t] EXCEPT !.state = "kept"]]
    BY <1>4, <2>1
  <2>3. Hold[t].state = "held" /\ Hold[t].amount = price[t]
    BY <1>3
  <2> QED
    BY <2>2, <2>3
<1> QED
  BY <1>1, <1>5 DEF Holds!Keep, Hold, HoldOf

\* Whatever users, executors, crashes and timeouts do, an account behaves as
\* CreditHolds promises: each hold is placed once, and kept or returned once.
THEOREM AccountsHold == Spec => ImplementsHolds
<1>1. Init => Holds!Init /\ PriceInv
  <2> SUFFICES ASSUME Init PROVE Holds!Init /\ PriceInv
    OBVIOUS
  <2>1. \A t \in Tasks : HoldOf(t) = [state |-> "none", amount |-> 0]
    BY HoldStates DEF Init, HoldOf
  <2> QED
    BY <2>1 DEF Init, CreditsInit, PriceInv, Holds!Init, Holds!Idle, HoldOf
<1>2. ASSUME Inv, PriceInv, [Next]_vars
      PROVE  Holds!Next \/ UNCHANGED <<available, Hold>>
  <2>1. CASE Quiet
    BY <2>1 DEF Quiet, creditVars, Hold, HoldOf
  <2>2. CASE Granted
    BY <1>2, <2>2, GrantedMoves DEF Holds!Next
  <2>3. CASE \E t \in Tasks, p \in Prices : Placed(t, p)
    BY <1>2, <2>3, PlacedPlaces DEF Holds!Next
  <2>4. CASE \E t \in Tasks : Released(t) \/ Captured(t)
    BY <1>2, <2>4, ReleasedReturns, CapturedKeeps DEF Holds!Next
  <2> QED
    BY <1>2, <2>1, <2>2, <2>3, <2>4, StepKinds DEF Kinds
<1>3. Inv /\ PriceInv /\ [Next]_vars =>
        [Holds!Next]_<<available, [t \in Tasks |-> [state |-> HoldState[billing[t]], amount |-> price[t]]]>>
  BY <1>2 DEF Hold, HoldOf
<1> QED
  BY <1>1, <1>3, PriceStep, Invariance, PTL DEF Spec, ImplementsHolds, Holds!Spec
=============================================================================
