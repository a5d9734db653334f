------------------------------ MODULE Credits ------------------------------
(***************************************************************************)
(* Credit accounts, their ledger, redemption codes and the signup bonus:   *)
(* the tables credit_accounts, credit_ledger_entries, credit_settings,     *)
(* redemption_code_batches and redemption_codes of migration 0044, and     *)
(* every transaction of official-generation/service.ts and of              *)
(* admin/officialGenerationAdminService.ts that writes them.  Each of      *)
(* these transactions holds the account row lock from its first access to  *)
(* its commit, so it is one atomic step here; what a task transaction does *)
(* to an account (Reserve, Capture, Release) is a building block that      *)
(* OfficialGeneration composes with the task's own columns.                *)
(***************************************************************************)
EXTENDS Totals

CONSTANTS
    Users,          \* accounts are keyed by user id
    Tasks,          \* ids of official generation tasks (ledger references)
    Codes,          \* redemption codes
    Batches,        \* redemption code batches
    BatchOf,        \* the batch a code was issued in
    Amount,         \* credit_amount of a batch
    RedeemKeys,     \* idempotency keys sent with redemption requests
    Adjustments,    \* ids drawn by randomUUID() for administrator adjustments
    Deltas,         \* adjustments an administrator may make
    Bonuses,        \* signup bonus amounts an administrator may set
    Nobody          \* redeemed_by_user_id IS NULL

ASSUME CreditsAssumption ==
    /\ IsFiniteSet(Users) /\ IsFiniteSet(Tasks) /\ IsFiniteSet(Codes)
    /\ BatchOf \in [Codes -> Batches]
    /\ Amount \in [Batches -> Nat \ {0}]
    /\ Deltas \subseteq Int \ {0}
    /\ Bonuses \subseteq Nat
    /\ Nobody \notin Users \X RedeemKeys

VARIABLES
    joined,         \* whether a user has registered, and if so whether since
                    \* signup_bonus_enabled_at
    signupBonus,    \* credit_settings.signup_bonus, 0 when it is switched off
    opened,         \* users with a credit_accounts row
    available,      \* credit_accounts.available_balance
    reserved,       \* credit_accounts.reserved_balance
    ledger,         \* rows of credit_ledger_entries
    redeemed,       \* <<redeemed_by_user_id, redeem_idempotency_key>> or Nobody
    batch           \* status, expiry and redeemed_count of a batch

accountVars == <<opened, available, reserved, ledger>>
grantVars   == <<joined, signupBonus, redeemed, batch>>
creditVars  == <<joined, signupBonus, opened, available, reserved, ledger, redeemed, batch>>

EntryTypes == {"signup_bonus", "redemption", "admin_adjustment",
               "generation_reserve", "generation_capture", "generation_release"}

References == Users \cup Tasks \cup Codes \cup Adjustments

Entries == [user: Users, type: EntryTypes, ref: References, available: Int, reserved: Int]

CreditsInit ==
    /\ joined = [u \in Users |-> "no"]
    /\ signupBonus = 0
    /\ opened = {}
    /\ available = [u \in Users |-> 0]
    /\ reserved = [u \in Users |-> 0]
    /\ ledger = {}
    /\ redeemed = [c \in Codes |-> Nobody]
    /\ batch = [b \in Batches |-> [active |-> TRUE, expired |-> FALSE, redeemed |-> 0]]

-----------------------------------------------------------------------------
(* Building blocks of the transactions *)

Entry(u, type, ref, a, r) ==
    [user |-> u, type |-> type, ref |-> ref, available |-> a, reserved |-> r]

\* The unique index credit_ledger_reference_unique.
HasEntry(u, type, ref) ==
    \E e \in ledger : e.user = u /\ e.type = type /\ e.ref = ref

\* Fault: the bonus is credited on every access, not by the inserting one only.
BonusDueAlways(u) == IF joined[u] = "since" THEN signupBonus ELSE 0

\* What ensureAccount credits when it is the one that inserts the account.
BonusDue(u) == IF u \notin opened /\ joined[u] = "since" THEN signupBonus ELSE 0

BonusEntries(u) ==
    IF BonusDue(u) > 0 THEN {Entry(u, "signup_bonus", u, BonusDue(u), 0)} ELSE {}

\* Fault: the bonus is credited without its ledger entry.
CreditUnrecordedBonus(u, delta, entries) ==
    /\ opened' = opened \cup {u}
    /\ available' = [available EXCEPT ![u] = @ + BonusDue(u) + delta]
    /\ ledger' = ledger \cup entries

\* ensureAccount, then add delta to the available balance and write entries.
Credit(u, delta, entries) ==
    /\ opened' = opened \cup {u}
    /\ available' = [available EXCEPT ![u] = @ + BonusDue(u) + delta]
    /\ ledger' = ledger \cup BonusEntries(u) \cup entries

\* Fault: the balance is not compared with the price.
ReserveUnchecked(u, t, p) ==
    /\ Credit(u, -p, {Entry(u, "generation_reserve", t, -p, p)})
    /\ reserved' = [reserved EXCEPT ![u] = @ + p]

\* ensureAccount and the debit of createTask: available to reserved.
Reserve(u, t, p) ==
    /\ available[u] + BonusDue(u) >= p
    /\ Credit(u, -p, {Entry(u, "generation_reserve", t, -p, p)})
    /\ reserved' = [reserved EXCEPT ![u] = @ + p]

\* Reserved back to available.  The insert of releaseTask says ON CONFLICT
\* DO NOTHING, so an entry that is already there is kept.
Release(u, t, p) ==
    /\ available' = [available EXCEPT ![u] = @ + p]
    /\ reserved' = [reserved EXCEPT ![u] = @ - p]
    /\ ledger' = IF HasEntry(u, "generation_release", t)
                 THEN ledger
                 ELSE ledger \cup {Entry(u, "generation_release", t, p, -p)}
    /\ UNCHANGED opened

\* Fault: the reserved balance is not debited.
CaptureKeepsReserve(u, t, p) ==
    /\ ledger' = ledger \cup {Entry(u, "generation_capture", t, 0, -p)}
    /\ UNCHANGED <<opened, available, reserved>>

\* Reserved credits leave the account for good.  A second capture of the same
\* task would violate the unique index and abort the transaction.
Capture(u, t, p) ==
    /\ ~HasEntry(u, "generation_capture", t)
    /\ reserved' = [reserved EXCEPT ![u] = @ - p]
    /\ ledger' = ledger \cup {Entry(u, "generation_capture", t, 0, -p)}
    /\ UNCHANGED <<opened, available>>

-----------------------------------------------------------------------------
(* Operations that move credits without a task *)

\* A user signs up; created_at is compared with signup_bonus_enabled_at later.
RegisterUser(u) ==
    /\ joined[u] = "no"
    /\ joined' = [joined EXCEPT ![u] = IF signupBonus > 0 THEN "since" ELSE "earlier"]
    /\ UNCHANGED <<signupBonus, redeemed, batch, accountVars>>

\* updateCreditSettings: 0 clears signup_bonus_enabled_at, the first positive
\* bonus after that sets it to now(), a further one leaves it.
UpdateCreditSettings(b) ==
    /\ signupBonus' = b
    /\ joined' = IF b > 0 /\ signupBonus > 0
                 THEN joined
                 ELSE [u \in Users |-> IF joined[u] = "since" THEN "earlier" ELSE joined[u]]
    /\ UNCHANGED <<redeemed, batch, accountVars>>

\* balanceFor and getUserCredits: the first read of a balance opens the account.
OpenAccount(u) ==
    /\ joined[u] # "no"
    /\ u \notin opened
    /\ Credit(u, 0, {})
    /\ UNCHANGED <<reserved, grantVars>>

\* Fault: the code row is read without its lock, another redemption is not seen.
RedeemUnlocked(u, c, k) ==
    /\ joined[u] # "no"
    /\ batch[BatchOf[c]].active /\ ~batch[BatchOf[c]].expired
    /\ Credit(u, Amount[BatchOf[c]], {Entry(u, "redemption", c, Amount[BatchOf[c]], 0)})
    /\ redeemed' = [redeemed EXCEPT ![c] = <<u, k>>]
    /\ batch' = [batch EXCEPT ![BatchOf[c]].redeemed = @ + 1]
    /\ UNCHANGED <<reserved, joined, signupBonus>>

\* redeem.  The index redemption_codes_user_idempotency_unique refuses a key
\* the user has already spent on another code.  Redeeming again with the same
\* user and key, and every refusal, changes nothing.
Redeem(u, c, k) ==
    /\ joined[u] # "no"
    /\ batch[BatchOf[c]].active /\ ~batch[BatchOf[c]].expired
    /\ redeemed[c] = Nobody
    /\ \A d \in Codes : redeemed[d] # <<u, k>>
    /\ Credit(u, Amount[BatchOf[c]], {Entry(u, "redemption", c, Amount[BatchOf[c]], 0)})
    /\ redeemed' = [redeemed EXCEPT ![c] = <<u, k>>]
    /\ batch' = [batch EXCEPT ![BatchOf[c]].redeemed = @ + 1]
    /\ UNCHANGED <<reserved, joined, signupBonus>>

\* revokeRedemptionBatch.
RevokeRedemptionBatch(b) ==
    /\ batch[b].active
    /\ batch' = [batch EXCEPT ![b].active = FALSE]
    /\ UNCHANGED <<joined, signupBonus, redeemed, accountVars>>

\* expires_at passes.
ExpireBatch(b) ==
    /\ ~batch[b].expired
    /\ batch' = [batch EXCEPT ![b].expired = TRUE]
    /\ UNCHANGED <<joined, signupBonus, redeemed, accountVars>>

\* adjustUserCredits: only the available balance bounds a deduction.  a is the
\* fresh random reference of this adjustment.
AdjustUserCredits(u, a, d) ==
    /\ joined[u] # "no"
    /\ \A v \in Users : ~HasEntry(v, "admin_adjustment", a)
    /\ available[u] + BonusDue(u) + d >= 0
    /\ Credit(u, d, {Entry(u, "admin_adjustment", a, d, 0)})
    /\ UNCHANGED <<reserved, grantVars>>

CreditsNext ==
    \/ \E u \in Users : RegisterUser(u) \/ OpenAccount(u)
    \/ \E b \in Bonuses : UpdateCreditSettings(b)
    \/ \E u \in Users, c \in Codes, k \in RedeemKeys : Redeem(u, c, k)
    \/ \E b \in Batches : RevokeRedemptionBatch(b) \/ ExpireBatch(b)
    \/ \E u \in Users, a \in Adjustments, d \in Deltas : AdjustUserCredits(u, a, d)

CreditsSpec == CreditsInit /\ [][CreditsNext]_creditVars

-----------------------------------------------------------------------------
(* Properties *)

CreditsTypeOK ==
    /\ joined \in [Users -> {"no", "earlier", "since"}]
    /\ signupBonus \in Nat
    /\ opened \subseteq Users
    /\ available \in [Users -> Nat]
    /\ reserved \in [Users -> Nat]
    /\ ledger \subseteq Entries /\ IsFiniteSet(ledger)
    /\ redeemed \in [Codes -> (Users \X RedeemKeys) \cup {Nobody}]
    /\ batch \in [Batches -> [active: BOOLEAN, expired: BOOLEAN, redeemed: Nat]]

Lines(L, u) == {e \in L : e.user = u}

\* a and r are what the lines of u in L add up to, gains and losses apart.
Balanced(L, u, a, r) ==
    LET lines == Lines(L, u)
    IN  /\ a + Total(lines, [e \in lines |-> Loss(e.available)])
             = Total(lines, [e \in lines |-> Gain(e.available)])
        /\ r + Total(lines, [e \in lines |-> Loss(e.reserved)])
             = Total(lines, [e \in lines |-> Gain(e.reserved)])

\* The comment on credit_ledger_entries: balances are the projection of the
\* ledger.  Every transaction that moves a balance writes the matching entry,
\* whichever order accounts are opened, credited, reserved and settled in.
LedgerProjection == \A u \in Users : Balanced(ledger, u, available[u], reserved[u])

\* A code credits at most one account, exactly when it is marked redeemed, and
\* a batch counts the codes of it that were redeemed.
CodesRedeemedOnce ==
    /\ \A c \in Codes :
         LET lines == {e \in ledger : e.type = "redemption" /\ e.ref = c}
         IN  IF redeemed[c] = Nobody
             THEN lines = {}
             ELSE lines = {Entry(redeemed[c][1], "redemption", c, Amount[BatchOf[c]], 0)}
    /\ \A b \in Batches :
         batch[b].redeemed = Cardinality({c \in Codes : BatchOf[c] = b /\ redeemed[c] # Nobody})

\* The bonus reaches an account at most once, only at its opening.
BonusOnlyAtOpening ==
    \A u \in Users :
        LET lines == {e \in ledger : e.type = "signup_bonus" /\ e.user = u}
        IN  /\ Cardinality(lines) <= 1
            /\ lines # {} => u \in opened
=============================================================================
