------------------------------ MODULE Accounts ------------------------------
(***************************************************************************)
(* One account: its status, its sessions, the browsers it was used from    *)
(* (postgresAuthService), what an administrator does to it                 *)
(* (userOperationsService, accountDeletionService) and its erasure.  A     *)
(* login is a handful of statements, none of them in a transaction, and    *)
(* logins of one account run beside each other and beside all the rest.    *)
(* Passwords, cookies and the rows of the authentication library itself    *)
(* are the library's, whose calls are statements of their own too; here a  *)
(* session is the login it belongs to.                                     *)
(***************************************************************************)
EXTENDS AccountErasure

CONSTANTS
    Logins,     \* attempts to log in (the first may be the registration)
    Devices,    \* browsers
    Device,     \* the browser of each login
    NoLogin

ASSUME AccountAssumption ==
    /\ IsFiniteSet(Logins) /\ NoLogin \notin Logins
    /\ Device \in [Logins -> Devices]

VARIABLES
    user,       \* status of the user row
    sessions,   \* logins whose session is in the table and has not expired
    device,     \* auth_devices: last session, whether it was seen within 10 minutes
    login,      \* where each login is
    removal,    \* the device a login is about to remove, and the session it read with it
    late,       \* a personal workspace was made for a user that was deleted
    registrant, \* the login that is a registration under way
    crossed     \* the sessions that the library inserted, for a registration or a changed
                \* password, when another login had its session or the user was barred

accountVars == <<user, sessions, device, login, removal, late, registrant, crossed>>
otherVars == <<registrant, crossed, erasureVars>>
vars == <<accountVars, erasureVars>>

NoDevice == [known |-> FALSE, last |-> NoLogin, recent |-> FALSE]
NoRemoval == <<>>

Pending == {"registering", "verified", "signed", "blocked", "clear", "revoked", "housed",
            "listed", "barred"}
Answered == {"answered", "probing", "changing", "renewing", "removing", "forgetting"}
Stages == Pending \cup Answered \cup {"idle", "refused", "broken"}

\* Past the revocation of the others' sessions.
Alone == Answered \cup {"revoked", "housed", "listed"}

Goto(l, stage) == login' = [login EXCEPT ![l] = stage]

\* The foreign key of auth_devices sets last_session_id to null.
Keep(kept, d) ==
    /\ sessions' = kept
    /\ device' = [x \in Devices |-> IF d[x].last \in kept THEN d[x]
                                    ELSE [d[x] EXCEPT !.last = NoLogin]]
    /\ crossed' = crossed \cap kept

\* Nobody has registered yet, or somebody has and all the sessions have ended.
Init ==
    /\ ErasureInit
    /\ user \in {"none", "active"}
    /\ sessions = {}
    /\ device = [d \in Devices |-> NoDevice]
    /\ login = [l \in Logins |-> "idle"]
    /\ removal = [l \in Logins |-> NoRemoval]
    /\ late = FALSE
    /\ registrant = NoLogin
    /\ crossed = {}

-----------------------------------------------------------------------------
(* Registering and logging in *)

\* The session of a registration or of a changed password.  The library looks at no other
\* session and not at the status when it inserts it.
Crosses(l) ==
    user # "active" \/ \E m \in sessions \ crossed : login[m] \in Alone
InsertSession(l) ==
    /\ sessions' = sessions \cup {l}
    /\ crossed' = IF Crosses(l) THEN crossed \cup {l} ELSE crossed

\* The library makes the user with its credentials, then a session.
Register(l) ==
    /\ user = "none" /\ login[l] = "idle"
    /\ user' = "active"
    /\ registrant' = l
    /\ Goto(l, "registering")
    /\ UNCHANGED <<sessions, device, removal, late, crossed, erasureVars>>

SignUp(l) ==
    /\ login[l] = "registering"
    /\ InsertSession(l)
    /\ Goto(l, "revoked")
    /\ UNCHANGED <<user, device, removal, late, registrant, erasureVars>>

\* The library finds the credentials and, later, inserts the session.  It does not know
\* of the status; deleting the account deletes the credentials.
Verify(l) ==
    /\ user \in {"active", "disabled"} /\ login[l] = "idle"
    /\ Goto(l, "verified")
    /\ UNCHANGED <<user, sessions, device, removal, late, otherVars>>

SignIn(l) ==
    /\ login[l] = "verified"
    /\ sessions' = sessions \cup {l}
    /\ Goto(l, "signed")
    /\ UNCHANGED <<user, device, removal, late, otherVars>>

\* findBlockingActiveSession
Blocks(m, l) ==
    /\ m # l
    /\ \A d \in Devices : device[d].last = m => d # Device[l] /\ device[d].recent
Blocked(l) == \E m \in sessions : Blocks(m, l)

\* With force nothing blocks.
CheckOthers(l, force) ==
    /\ login[l] = "signed"
    /\ Goto(l, IF ~force /\ Blocked(l) THEN "blocked" ELSE "clear")
    /\ UNCHANGED <<user, sessions, device, removal, late, otherVars>>

\* Fault: the sessions to revoke are those of the same browser.
OthersOfDevice(l) == {m \in sessions \ {l} : Device[m] = Device[l]}
Others(l) == sessions \ {l}

\* revokeOtherUserSessions
RevokeOthers(l) ==
    /\ login[l] = "clear"
    /\ Keep(sessions \ Others(l), device)
    /\ Goto(l, "revoked")
    /\ UNCHANGED <<user, removal, late, registrant, erasureVars>>

\* ensurePersonalWorkspace makes another when the one there was is deleted, for whoever.
EnsureWorkspace == late' = (late \/ space # "open")

House(l) ==
    /\ login[l] = "revoked"
    /\ EnsureWorkspace
    /\ Goto(l, "housed")
    /\ UNCHANGED <<user, sessions, device, removal, otherVars>>

\* upsertDeviceHistory selects the session, and inserts nothing when it is gone.
RecordDevice(l) ==
    /\ login[l] = "housed"
    /\ device' = IF l \in sessions
                 THEN [device EXCEPT ![Device[l]] =
                          [known |-> TRUE, last |-> l, recent |-> TRUE]]
                 ELSE device
    /\ Goto(l, "listed")
    /\ UNCHANGED <<user, sessions, removal, late, otherVars>>

\* Fault: the status is not looked at.
AdmittedAny == user # "none"
\* getPrimaryWorkspace, which finds nothing for a user that is not active.
Admitted == user = "active"

\* A registration that is not admitted fails and takes no session back.
Answer(l) ==
    /\ login[l] = "listed"
    /\ Goto(l, IF Admitted THEN "answered"
               ELSE IF l = registrant THEN "refused" ELSE "barred")
    /\ registrant' = IF l = registrant THEN NoLogin ELSE registrant
    /\ UNCHANGED <<user, sessions, device, removal, late, crossed, erasureVars>>

\* deleteCurrentLoginAttempt.
Withdraw(l) ==
    /\ login[l] \in {"blocked", "barred"}
    /\ Keep(sessions \ {l}, device)
    /\ Goto(l, "refused")
    /\ UNCHANGED <<user, removal, late, registrant, erasureVars>>

\* The process ends or a statement fails: nothing takes the session back.
Break(l) ==
    /\ login[l] \in Pending
    /\ Goto(l, "broken")
    /\ registrant' = IF l = registrant THEN NoLogin ELSE registrant
    /\ UNCHANGED <<user, sessions, device, removal, late, crossed, erasureVars>>

-----------------------------------------------------------------------------
(* Using a session *)

\* Ten minutes without a request from this browser.
GoQuiet(d) ==
    /\ device[d].recent
    /\ device' = [device EXCEPT ![d].recent = FALSE]
    /\ UNCHANGED <<user, sessions, login, removal, late, otherVars>>

\* getSession: the library reads the session, the rest comes after it.
Probe(l) ==
    /\ login[l] = "answered" /\ l \in sessions
    /\ Goto(l, "probing")
    /\ UNCHANGED <<user, sessions, device, removal, late, otherVars>>

EndProbe(l) ==
    /\ login[l] = "probing"
    /\ EnsureWorkspace
    /\ device' = [d \in Devices |-> IF device[d].last = l
                                    THEN [device[d] EXCEPT !.recent = TRUE] ELSE device[d]]
    /\ Goto(l, "answered")
    /\ UNCHANGED <<user, sessions, removal, otherVars>>

\* logout, revokeSession of the own session, and its expiry.
EndSession(l) ==
    /\ login[l] = "answered" /\ l \in sessions
    /\ Keep(sessions \ {l}, device)
    /\ UNCHANGED <<user, login, removal, late, registrant, erasureVars>>

\* revokeSession of another one.
RevokeSession(l, m) ==
    /\ login[l] = "answered" /\ l \in sessions /\ m \in sessions \ {l}
    /\ Keep(sessions \ {m}, device)
    /\ UNCHANGED <<user, login, removal, late, registrant, erasureVars>>

\* changePassword: the library reads the session, then changes the password and ends all the
\* sessions of the user, then makes a new one for the caller.
BeginChange(l) ==
    /\ login[l] = "answered" /\ l \in sessions
    /\ Goto(l, "changing")
    /\ UNCHANGED <<user, sessions, device, removal, late, otherVars>>

EndAll(l) ==
    /\ login[l] = "changing"
    /\ Keep({}, device)
    /\ Goto(l, "renewing")
    /\ UNCHANGED <<user, removal, late, registrant, erasureVars>>

\* The new session has an id of its own: what was read of the old one no longer names it.
RenewSession(l) ==
    /\ login[l] = "renewing"
    /\ InsertSession(l)
    /\ removal' = [m \in Logins |-> IF removal[m] # NoRemoval /\ removal[m][2] = l
                                    THEN <<removal[m][1], NoLogin>> ELSE removal[m]]
    /\ Goto(l, "answered")
    /\ UNCHANGED <<user, device, late, registrant, erasureVars>>

\* The password was wrong, or a statement fails.
AbandonChange(l) ==
    /\ login[l] \in {"changing", "renewing"}
    /\ Goto(l, "answered")
    /\ UNCHANGED <<user, sessions, device, removal, late, otherVars>>

\* removeDevice reads the row, ends the session it names and deletes the row by its id.
ReadDevice(l, d) ==
    /\ login[l] = "answered" /\ l \in sessions
    /\ device[d].known /\ device[d].last # l
    /\ removal' = [removal EXCEPT ![l] = <<d, device[d].last>>]
    /\ Goto(l, "removing")
    /\ UNCHANGED <<user, sessions, device, late, otherVars>>

EndRemoved(l) ==
    /\ login[l] = "removing"
    /\ Keep(sessions \ {removal[l][2]}, device)
    /\ Goto(l, "forgetting")
    /\ UNCHANGED <<user, removal, late, registrant, erasureVars>>

ForgetDevice(l) ==
    /\ login[l] = "forgetting"
    /\ device' = [device EXCEPT ![removal[l][1]] = NoDevice]
    /\ removal' = [removal EXCEPT ![l] = NoRemoval]
    /\ Goto(l, "answered")
    /\ UNCHANGED <<user, sessions, late, otherVars>>

-----------------------------------------------------------------------------
(* The administrator.  Each is one transaction that holds the user row, and a session *)
(* is inserted with a key share of it: neither comes between the other's statements.  *)

\* revokeUserSessions, resetUserPassword; and resetPassword with a code, by the library.
RevokeSessions ==
    /\ user \in {"active", "disabled"}
    /\ Keep({}, device)
    /\ UNCHANGED <<user, login, removal, late, registrant, erasureVars>>

BanUser ==
    /\ user \in {"active", "disabled"}
    /\ user' = "disabled"
    /\ Keep({}, device)
    /\ UNCHANGED <<login, removal, late, registrant, erasureVars>>

UnbanUser ==
    /\ user = "disabled"
    /\ user' = "active"
    /\ UNCHANGED <<sessions, device, login, removal, late, otherVars>>

DeleteUser ==
    /\ user \in {"active", "disabled"}
    /\ user' = "deleted"
    /\ sessions' = {}
    /\ crossed' = {}
    /\ device' = [d \in Devices |-> NoDevice]
    /\ BeginErasure
    /\ UNCHANGED <<login, removal, late, registrant>>

-----------------------------------------------------------------------------

LoginStep(l) ==
    \/ SignUp(l) \/ SignIn(l) \/ (\E force \in BOOLEAN : CheckOthers(l, force))
    \/ RevokeOthers(l) \/ House(l) \/ RecordDevice(l) \/ Answer(l) \/ Withdraw(l)

SessionStep(l) ==
    \/ Probe(l) \/ EndProbe(l) \/ EndSession(l)
    \/ BeginChange(l) \/ EndAll(l) \/ RenewSession(l) \/ AbandonChange(l)
    \/ \E m \in Logins : RevokeSession(l, m)
    \/ \E d \in Devices : ReadDevice(l, d)
    \/ EndRemoved(l) \/ ForgetDevice(l)

AdminStep == RevokeSessions \/ BanUser \/ UnbanUser \/ DeleteUser

Next ==
    \/ \E l \in Logins : Register(l) \/ Verify(l) \/ Break(l) \/ LoginStep(l) \/ SessionStep(l)
    \/ \E d \in Devices : GoQuiet(d)
    \/ AdminStep
    \/ ErasureNext /\ UNCHANGED accountVars

RunFails == \E r \in Runs : FailJob(r) \/ Die(r)
RunLasts == ComeOverdue /\ \E r \in Runs : run[r] # NoRun

\* The maintenance command is run again and again, and from some moment on its runs neither
\* fail nor last for 15 minutes.
Fairness ==
    /\ WF_vars((ComeDue \/ ComeOverdue \/ ReleaseJob) /\ UNCHANGED accountVars)
    /\ WF_vars((\E r \in Runs : Claim(r)) /\ UNCHANGED accountVars)
    /\ \A r \in Runs :
          WF_vars((ListFiles(r) \/ DeleteFile(r) \/ CompleteJob(r)) /\ UNCHANGED accountVars)
    /\ <>[][~RunFails /\ ~RunLasts]_vars

Spec == Init /\ [][Next]_vars
FairSpec == Spec /\ Fairness

-----------------------------------------------------------------------------
(* Properties *)

AccountTypeOK ==
    /\ user \in {"none", "active", "disabled", "deleted"}
    /\ sessions \subseteq Logins
    /\ device \in [Devices -> [known : BOOLEAN, last : Logins \cup {NoLogin}, recent : BOOLEAN]]
    /\ login \in [Logins -> Stages]
    /\ late \in BOOLEAN
    /\ registrant \in Logins \cup {NoLogin}
    /\ crossed \subseteq sessions

\* Whatever logins of the account run together, with or without force, and whatever becomes
\* of them: of the sessions that a login has answered with at most one is still good.  (A
\* session that a registration or a changed password inserted across another's is apart.)
OneAnswered ==
    \A l, m \in sessions \ crossed :
        login[l] \in Answered /\ login[m] \in Answered => l = m

\* A user who is banned or deleted has no session left once the logins that were under way
\* have ended, if none of them broke off, but one inserted in spite of the ban by a
\* registration or a change of the password.
BarredLeavesNone ==
    /\ user \in {"disabled", "deleted"}
    /\ \A l \in Logins : login[l] \notin Pending \cup {"broken"}
    => sessions \subseteq crossed

\* The rows that name the objects of an account outlive the objects, whichever runs of the
\* maintenance fail, die or overtake each other: nothing is left that no row names.
ErasedIsGone == space = "gone" => files = {}

\* A deletion that was begun is completed.
ErasureCompletes == job = "pending" ~> job = "completed"

=============================================================================
