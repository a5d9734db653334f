-------------------------- MODULE AccountsTheorems --------------------------
(***************************************************************************)
(* For any logins, browsers, objects and runs of the maintenance: at most  *)
(* one answered login has a good session and who is barred keeps none, but *)
(* those that the library inserted across another's or a ban; and the      *)
(* objects of an erased account are gone before its rows.                  *)
(***************************************************************************)
EXTENDS Accounts, TLAPS

-----------------------------------------------------------------------------
(* Types *)

Row == [known : BOOLEAN, last : Logins \cup {NoLogin}, recent : BOOLEAN]

\* A device that is not known has a row too.
LEMMA NoDeviceType == NoDevice \in Row
BY DEF NoDevice, Row

\* Ending sessions makes browsers forget them and changes nothing else.
LEMMA KeepType ==
    ASSUME NEW kept \in SUBSET Logins, NEW d \in [Devices -> Row], Keep(kept, d)
    PROVE  /\ sessions' \subseteq Logins /\ device' \in [Devices -> Row]
           /\ crossed' \subseteq sessions'
BY DEF Keep, Row

\* Inserting a session keeps the types.
LEMMA InsertType ==
    ASSUME AccountTypeOK, NEW l \in Logins, InsertSession(l)
    PROVE  sessions' \subseteq Logins /\ crossed' \subseteq sessions'
BY DEF InsertSession, AccountTypeOK

\* Making a workspace keeps its type.
LEMMA LateType ==
    ASSUME EnsureWorkspace
    PROVE  late' \in BOOLEAN
BY DEF EnsureWorkspace

\* Moving a login on keeps the types.
LEMMA StageType ==
    ASSUME AccountTypeOK, NEW l \in Logins, NEW s \in Stages, Goto(l, s)
    PROVE  login' \in [Logins -> Stages]
BY DEF AccountTypeOK, Goto

\* The account, its sessions, its browsers and its logins keep their types.
THEOREM AccountTypes == Spec => []AccountTypeOK
<1>1. Init => AccountTypeOK
  BY NoDeviceType DEF Init, AccountTypeOK, Stages, Row
<1>2. AccountTypeOK /\ [Next]_vars => AccountTypeOK'
  <2> SUFFICES ASSUME AccountTypeOK, [Next]_vars PROVE AccountTypeOK'
    OBVIOUS
  <2> USE DEF AccountTypeOK
  <2>0. device \in [Devices -> Row]
    BY DEF Row
  <2>1. ASSUME NEW l \in Logins, Register(l) \/ Verify(l) \/ Break(l)
        PROVE  AccountTypeOK'
    BY <2>1 DEF Register, Verify, Break, otherVars, Goto, Stages, Pending
  <2>2. ASSUME NEW l \in Logins, LoginStep(l) PROVE AccountTypeOK'
    <3>1. CASE SignIn(l) \/ \E force \in BOOLEAN : CheckOthers(l, force)
      BY <3>1 DEF SignIn, CheckOthers, otherVars, Goto, Stages, Pending
    <3>2. CASE RevokeOthers(l) \/ Withdraw(l)
      <4>1. \E kept \in SUBSET Logins : Keep(kept, device)
        BY <3>2 DEF RevokeOthers, Withdraw
      <4> QED
        BY <2>0, <3>2, <4>1, KeepType DEF Row, RevokeOthers, Withdraw, Goto, Stages, Pending
    <3>3. CASE House(l) \/ Answer(l)
      BY <3>3, LateType DEF House, Answer, otherVars, Goto, Stages, Pending, Answered
    <3>4. CASE RecordDevice(l)
      <4>1. device' \in [Devices -> Row]
        BY <2>0, <3>4 DEF RecordDevice, Row
      <4> QED
        BY <3>4, <4>1 DEF RecordDevice, otherVars, Row, Goto, Stages, Pending
    <3>5. CASE SignUp(l)
      BY <3>5, InsertType DEF SignUp, Goto, Stages, Pending
    <3> QED
      BY <2>2, <3>1, <3>2, <3>3, <3>4, <3>5 DEF LoginStep
  <2>3. ASSUME NEW l \in Logins, SessionStep(l) PROVE AccountTypeOK'
    <3>1. CASE Probe(l) \/ EndProbe(l) \/ ForgetDevice(l)
      <4>1. \A d \in Devices : [device[d] EXCEPT !.recent = TRUE] \in Row
        BY <2>0 DEF Row
      <4>2. device' \in [Devices -> Row]
        BY <2>0, <3>1, <4>1, NoDeviceType DEF Probe, EndProbe, ForgetDevice
      <4> QED
        BY <3>1, <4>2, LateType DEF Probe, EndProbe, ForgetDevice, otherVars, Row, Goto, Stages,
                                    Answered
    <3>2. CASE EndSession(l) \/ (\E m \in Logins : RevokeSession(l, m)) \/ EndAll(l)
               \/ EndRemoved(l)
      <4>1. \E kept \in SUBSET Logins : Keep(kept, device)
        BY <3>2 DEF EndSession, RevokeSession, EndAll, EndRemoved
      <4>2. login' \in [Logins -> Stages]
        BY <3>2 DEF EndSession, RevokeSession, EndAll, EndRemoved, Goto, Stages, Answered
      <4>3. UNCHANGED <<user, late, registrant>>
        BY <3>2 DEF EndSession, RevokeSession, EndAll, EndRemoved
      <4> QED
        BY <2>0, <4>1, <4>2, <4>3, KeepType DEF Row
    <3>3. CASE (\E d \in Devices : ReadDevice(l, d)) \/ BeginChange(l) \/ AbandonChange(l)
      BY <3>3 DEF ReadDevice, BeginChange, AbandonChange, otherVars, Goto, Stages, Answered
    <3>4. CASE RenewSession(l)
      BY <3>4, InsertType DEF RenewSession, Goto, Stages, Answered
    <3> QED
      BY <2>3, <3>1, <3>2, <3>3, <3>4 DEF SessionStep
  <2>4. CASE \E d \in Devices : GoQuiet(d)
    <3>1. \A d \in Devices : [device[d] EXCEPT !.recent = FALSE] \in Row
      BY <2>0 DEF Row
    <3>2. device' \in [Devices -> Row]
      BY <2>0, <2>4, <3>1 DEF GoQuiet
    <3> QED
      BY <2>4, <3>2 DEF GoQuiet, otherVars, Row
  <2>5. CASE AdminStep
    <3>1. CASE RevokeSessions \/ BanUser
      <4>1. Keep({}, device) /\ {} \in SUBSET Logins
        BY <3>1 DEF RevokeSessions, BanUser
      <4> QED
        BY <2>0, <3>1, <4>1, KeepType DEF Row, RevokeSessions, BanUser
    <3>2. CASE UnbanUser \/ DeleteUser
      BY <3>2, NoDeviceType DEF UnbanUser, DeleteUser, otherVars, Row
    <3> QED
      BY <2>5, <3>1, <3>2 DEF AdminStep
  <2>6. CASE UNCHANGED accountVars
    BY <2>6 DEF accountVars
  <2> QED
    BY <2>1, <2>2, <2>3, <2>4, <2>5, <2>6 DEF Next, vars
<1> QED
  BY <1>1, <1>2, PTL DEF Spec

-----------------------------------------------------------------------------
(* Sessions *)

\* A registration under way is at one of the few stages that are common to all logins.
Registering ==
    registrant # NoLogin =>
        login[registrant] \in {"registering", "revoked", "housed", "listed"}

\* So it is in every reachable state.
LEMMA RegistrationStages == Spec => []Registering
<1>1. Init => Registering
  BY DEF Init, Registering
<1>2. AccountTypeOK /\ Registering /\ [Next]_vars => Registering'
  <2> SUFFICES ASSUME AccountTypeOK, Registering, [Next]_vars PROVE Registering'
    OBVIOUS
  <2> USE DEF AccountTypeOK, Registering, Goto, otherVars
  <2>1. ASSUME NEW l \in Logins, Register(l) \/ Verify(l) \/ Break(l) PROVE Registering'
    BY <2>1, AccountAssumption DEF Register, Verify, Break, Pending
  <2>2. ASSUME NEW l \in Logins, LoginStep(l) PROVE Registering'
    <3>1. CASE SignUp(l) \/ SignIn(l) \/ (\E force \in BOOLEAN : CheckOthers(l, force))
      BY <3>1 DEF SignUp, SignIn, CheckOthers
    <3>2. CASE RevokeOthers(l) \/ House(l) \/ RecordDevice(l)
      BY <3>2 DEF RevokeOthers, House, RecordDevice
    <3>3. CASE Answer(l) \/ Withdraw(l)
      BY <3>3 DEF Answer, Withdraw
    <3> QED
      BY <2>2, <3>1, <3>2, <3>3 DEF LoginStep
  <2>3. ASSUME NEW l \in Logins, SessionStep(l) PROVE Registering'
    <3>1. CASE Probe(l) \/ EndProbe(l) \/ EndSession(l) \/ \E m \in Logins : RevokeSession(l, m)
      BY <3>1 DEF Probe, EndProbe, EndSession, RevokeSession
    <3>2. CASE BeginChange(l) \/ EndAll(l) \/ RenewSession(l) \/ AbandonChange(l)
      BY <3>2 DEF BeginChange, EndAll, RenewSession, AbandonChange
    <3>3. CASE (\E d \in Devices : ReadDevice(l, d)) \/ EndRemoved(l) \/ ForgetDevice(l)
      BY <3>3 DEF ReadDevice, EndRemoved, ForgetDevice
    <3> QED
      BY <2>3, <3>1, <3>2, <3>3 DEF SessionStep
  <2>4. CASE (\E d \in Devices : GoQuiet(d)) \/ AdminStep \/ UNCHANGED accountVars
    BY <2>4 DEF GoQuiet, AdminStep, RevokeSessions, BanUser, UnbanUser, DeleteUser, accountVars
  <2> QED
    BY <2>1, <2>2, <2>3, <2>4 DEF Next, vars
<1> QED
  BY <1>1, <1>2, AccountTypes, PTL DEF Spec

\* Every login revokes all the others before it goes on, so those that have and are still
\* good are one.
SoleSession ==
    \A l, m \in sessions \ crossed : login[l] \in Alone /\ login[m] \in Alone => l = m

\* A session of a user who is not active belongs to a login that has yet to look and that
\* is not the registration, whose session went with the ban.
BarredPending ==
    user # "active" =>
        \A l \in sessions \ crossed : login[l] \in Pending \cup {"broken"} /\ l # registrant

SessionInv == AccountTypeOK /\ Registering /\ SoleSession /\ BarredPending

\* A step that inserts no session and takes no login past the revocation or the last look.
LEMMA SessionsShrink ==
    ASSUME SessionInv, AccountTypeOK', Registering',
           sessions' \ crossed' \subseteq sessions \ crossed,
           \A l \in sessions' \ crossed' : login'[l] \in Alone => login[l] \in Alone,
           \A l \in sessions' \ crossed' :
               login[l] \in Pending \cup {"broken"} => login'[l] \in Pending \cup {"broken"},
           registrant' \in {registrant, NoLogin}, user' = user
    PROVE  SessionInv'
BY AccountAssumption DEF SessionInv, SoleSession, BarredPending, AccountTypeOK

\* A registration or a change of the password inserts its session.
LEMMA SessionInserted ==
    ASSUME SessionInv, AccountTypeOK', Registering', NEW l \in Logins, InsertSession(l),
           UNCHANGED <<user, registrant>>,
           \A m \in Logins \ {l} : login'[m] = login[m]
    PROVE  SessionInv'
BY DEF SessionInv, SoleSession, BarredPending, InsertSession, Crosses, AccountTypeOK

\* What the theorems about sessions follow from holds in every reachable state.
LEMMA SessionsKept == Spec => []SessionInv
<1>1. Init => SoleSession /\ BarredPending
  BY DEF Init, SoleSession, BarredPending
<1>2. SessionInv /\ AccountTypeOK' /\ Registering' /\ [Next]_vars => SessionInv'
  <2> SUFFICES ASSUME SessionInv, AccountTypeOK', Registering', [Next]_vars PROVE SessionInv'
    OBVIOUS
  <2> USE DEF Goto, Pending, Answered, Alone
  <2>0. AccountTypeOK /\ Registering /\ SoleSession /\ BarredPending
    BY DEF SessionInv
  <2>1. ASSUME NEW l \in Logins, Register(l) PROVE SessionInv'
    BY <2>0, <2>1 DEF Register, SessionInv, SoleSession, BarredPending, AccountTypeOK
  <2>2. ASSUME NEW l \in Logins, Verify(l) \/ Break(l) PROVE SessionInv'
    BY <2>0, <2>2, SessionsShrink DEF Verify, Break, otherVars, AccountTypeOK, Stages
  <2>3. ASSUME NEW l \in Logins, LoginStep(l) PROVE SessionInv'
    <3>1. CASE SignIn(l)
      <4>1. l # registrant
        BY <2>0, <3>1, AccountAssumption DEF SignIn, Registering
      <4> QED
        BY <2>0, <3>1, <4>1 DEF SignIn, otherVars, SessionInv, SoleSession, BarredPending,
                                AccountTypeOK
    <3>2. CASE \E force \in BOOLEAN : CheckOthers(l, force)
      BY <2>0, <3>2, SessionsShrink DEF CheckOthers, otherVars, AccountTypeOK
    <3>3. CASE RevokeOthers(l)
      BY <2>0, <3>3 DEF RevokeOthers, Others, Keep, SessionInv, SoleSession, BarredPending,
                       AccountTypeOK
    <3>4. CASE House(l) \/ RecordDevice(l)
      BY <2>0, <3>4, SessionsShrink DEF House, RecordDevice, otherVars, AccountTypeOK
    <3>5. CASE Answer(l)
      <4>1. /\ UNCHANGED <<user, sessions, crossed>> /\ login[l] = "listed"
            /\ registrant' \in {registrant, NoLogin}
            /\ login'[l] = "refused" => l = registrant
            /\ \A m \in Logins \ {l} : login'[m] = login[m]
            /\ login'[l] = "answered" => user = "active"
            /\ login'[l] \in {"answered", "barred", "refused"}
        BY <2>0, <3>5 DEF Answer, Admitted, AccountTypeOK
      <4>2. SoleSession' /\ BarredPending'
        BY <2>0, <4>1, AccountAssumption DEF SoleSession, BarredPending, AccountTypeOK
      <4> QED
        BY <4>2 DEF SessionInv
    <3>6. CASE Withdraw(l)
      BY <2>0, <3>6, SessionsShrink DEF Withdraw, Keep, AccountTypeOK
    <3>7. CASE SignUp(l)
      BY <2>0, <3>7, SessionInserted DEF SignUp, AccountTypeOK
    <3> QED
      BY <2>3, <3>1, <3>2, <3>3, <3>4, <3>5, <3>6, <3>7 DEF LoginStep
  <2>4. ASSUME NEW l \in Logins, SessionStep(l) PROVE SessionInv'
    <3>1. CASE Probe(l) \/ EndProbe(l) \/ (\E d \in Devices : ReadDevice(l, d))
               \/ BeginChange(l) \/ AbandonChange(l) \/ ForgetDevice(l)
      BY <2>0, <3>1, SessionsShrink DEF Probe, EndProbe, ReadDevice, BeginChange,
                                        AbandonChange, ForgetDevice, otherVars, AccountTypeOK
    <3>2. CASE EndSession(l) \/ (\E m \in Logins : RevokeSession(l, m))
      BY <2>0, <3>2, SessionsShrink DEF EndSession, RevokeSession, Keep, AccountTypeOK
    <3>3. CASE EndAll(l) \/ EndRemoved(l)
      BY <2>0, <3>3, SessionsShrink DEF EndAll, EndRemoved, Keep, AccountTypeOK
    <3>4. CASE RenewSession(l)
      BY <2>0, <3>4, SessionInserted DEF RenewSession, AccountTypeOK
    <3> QED
      BY <2>4, <3>1, <3>2, <3>3, <3>4 DEF SessionStep
  <2>5. CASE \E d \in Devices : GoQuiet(d)
    BY <2>0, <2>5, SessionsShrink DEF GoQuiet, otherVars
  <2>6. CASE AdminStep
    <3>1. CASE RevokeSessions \/ BanUser \/ DeleteUser
      BY <3>1 DEF RevokeSessions, BanUser, DeleteUser, Keep, SessionInv, SoleSession,
                  BarredPending
    <3>2. CASE UnbanUser
      BY <2>0, <3>2 DEF UnbanUser, otherVars, SessionInv, SoleSession, BarredPending
    <3> QED
      BY <2>6, <3>1, <3>2 DEF AdminStep
  <2>7. CASE UNCHANGED accountVars
    BY <2>0, <2>7, SessionsShrink DEF accountVars
  <2> QED
    BY <2>1, <2>2, <2>3, <2>4, <2>5, <2>6, <2>7 DEF Next, vars
<1> QED
  BY <1>1, <1>2, AccountTypes, RegistrationStages, PTL DEF Spec, SessionInv

\* Of the sessions that a login has answered with at most one is good, those apart that a
\* registration or a changed password inserted across another's.
THEOREM OneGoodSession == Spec => []OneAnswered
<1>1. SessionInv => OneAnswered
  BY DEF SessionInv, SoleSession, OneAnswered, Alone
<1> QED
  BY <1>1, SessionsKept, PTL

\* A banned or deleted user whose logins have ended, none of them broken off, has no session
\* but those inserted in spite of the ban.
THEOREM BarredHasNone == Spec => []BarredLeavesNone
<1>1. SessionInv => BarredLeavesNone
  BY DEF SessionInv, AccountTypeOK, BarredPending, BarredLeavesNone
<1> QED
  BY <1>1, SessionsKept, PTL

-----------------------------------------------------------------------------
(* The erasure *)

\* Whatever a run has not yet deleted is on its list.
ErasureInv ==
    /\ files \subseteq Files
    /\ \A r \in Runs : AtWork(r) => /\ run[r] = Cleaning(run[r].left)
                                     /\ files \subseteq run[r].left
    /\ run = [r \in Runs |-> run[r]]
    /\ ErasedIsGone

\* The objects of an account are gone before the rows that name them.
THEOREM ErasedObjectsGone == Spec => []ErasedIsGone
<1>1. Init => ErasureInv
  BY DEF Init, ErasureInit, ErasureInv, ErasedIsGone, AtWork
<1>2. ErasureInv /\ [Next]_vars => ErasureInv'
  <2> SUFFICES ASSUME ErasureInv, [Next]_vars PROVE ErasureInv'
    OBVIOUS
  <2> USE DEF ErasureInv, ErasedIsGone, NoRun, Listing, Cleaning, AtWork
  <2>1. CASE UNCHANGED erasureVars
    BY <2>1 DEF erasureVars
  <2>2. CASE DeleteUser
    BY <2>2 DEF DeleteUser, BeginErasure
  <2>3. CASE ComeDue \/ ComeOverdue \/ ReleaseJob
    BY <2>3 DEF ComeDue, ComeOverdue, ReleaseJob
  <2>4. ASSUME NEW r \in Runs, Claim(r) PROVE ErasureInv'
    BY <2>4 DEF Claim
  <2>12. ASSUME NEW r \in Runs, ListFiles(r) PROVE ErasureInv'
    BY <2>12 DEF ListFiles
  <2>5. ASSUME NEW r \in Runs, DeleteFile(r) PROVE ErasureInv'
    <3>1. PICK f \in run[r].left :
              /\ files' = files \ {f}
              /\ run' = [run EXCEPT ![r] = Cleaning(run[r].left \ {f})]
      BY <2>5 DEF DeleteFile
    <3>2. files \subseteq run[r].left
      BY <2>5 DEF DeleteFile
    <3>3. run'[r] = Cleaning(run[r].left \ {f}) /\ files' \subseteq run'[r].left
      BY <3>1, <3>2
    <3>4. \A q \in Runs : q # r => run'[q] = run[q]
      BY <3>1
    <3>5. files' \subseteq files /\ space' = space
      BY <2>5, <3>1 DEF DeleteFile
    <3>6. run' = [q \in Runs |-> run'[q]]
      BY <3>1
    <3> QED
      BY <3>3, <3>4, <3>5, <3>6
  <2>6. ASSUME NEW r \in Runs, CompleteJob(r) PROVE ErasureInv'
    BY <2>6 DEF CompleteJob, Cleaned
  <2>7. ASSUME NEW r \in Runs, FailJob(r) \/ Die(r) PROVE ErasureInv'
    BY <2>7 DEF FailJob, Die
  <2>8. CASE ErasureNext
    BY <2>3, <2>4, <2>5, <2>6, <2>7, <2>8, <2>12 DEF ErasureNext
  <2>9. ASSUME NEW l \in Logins,
               Register(l) \/ Verify(l) \/ Break(l) \/ LoginStep(l) \/ SessionStep(l)
        PROVE  ErasureInv'
    <3>1. UNCHANGED erasureVars
      BY <2>9 DEF Register, SignUp, Verify, Break, LoginStep, SignIn, CheckOthers,
                  RevokeOthers, House, RecordDevice, Answer, Withdraw, SessionStep, Probe,
                  EndProbe, EndSession, RevokeSession, BeginChange, EndAll, RenewSession,
                  AbandonChange, ReadDevice, EndRemoved, ForgetDevice, otherVars
    <3> QED
      BY <2>1, <3>1
  <2>10. CASE \E d \in Devices : GoQuiet(d)
    BY <2>1, <2>10 DEF GoQuiet, otherVars
  <2>11. CASE AdminStep
    BY <2>1, <2>2, <2>11 DEF AdminStep, RevokeSessions, BanUser, UnbanUser, otherVars
  <2> QED
    BY <2>1, <2>8, <2>9, <2>10, <2>11 DEF Next, vars
<1>3. ErasureInv => ErasedIsGone
  BY DEF ErasureInv
<1> QED
  BY <1>1, <1>2, <1>3, PTL DEF Spec

=============================================================================
