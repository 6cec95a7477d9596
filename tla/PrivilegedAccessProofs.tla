----------------------- MODULE PrivilegedAccessProofs -----------------------
(***************************************************************************)
(* Theorems about accounts, sessions, roles and break-glass grants, for    *)
(* any numbers of them.                                                    *)
(***************************************************************************)
EXTENDS PrivilegedAccess, FiniteSetTheorems, TLAPS

USE AccountSessionsAssumption, PrivilegedAccessAssumption

(****************************** Types *************************************)

\* The records of the initial state and the times of the code's arithmetic.
LEMMA Constants ==
  /\ NoUser \in UserRecord /\ NoSession \in SessionRecord
  /\ NoRequest \in RequestRecord /\ NoGrant \in GrantRecord
  /\ Anyone \in Accounts
  /\ 0 \in Times /\ 0 \in 0..FailureLimit /\ 0 \in 0..MaxTurns /\ Times \subseteq Nat
  /\ \A t \in 0..MaxNow : /\ t \in Times /\ t + LockTicks \in Times
                          /\ t + SessionTicks \in Times /\ t + RememberedTicks \in Times
<1>1. Anyone \in Accounts /\ (CHOOSE u \in Accounts : TRUE) \in Accounts
  BY DEF Anyone
<1>2. 0 \in Times /\ 0 \in 0..FailureLimit /\ 0 \in 0..MaxTurns
  BY DEF Times
<1>3. QED
  BY <1>1, <1>2 DEF NoUser, UserRecord, NoSession, SessionRecord, NoRequest, RequestRecord,
     NoGrant, GrantRecord, Times

\* A login, wrong or right, and a new account give a well-formed row.
LEMMA UserTypes ==
  ASSUME SessionTypeOK, NEW u \in Accounts
  PROVE  /\ NewUser \in UserRecord
         /\ Lifted(u) \in UserRecord
         /\ Failed(Lifted(u)) \in UserRecord
<1>1. /\ now \in Times /\ now + LockTicks \in Times /\ user[u] \in UserRecord
      /\ 0 \in Times /\ 0 \in 0..FailureLimit /\ FailureLimit \in 0..FailureLimit
  BY Constants DEF SessionTypeOK
<1>2. NewUser \in UserRecord
  BY <1>1 DEF NewUser, UserRecord
<1>3. Lifted(u) \in UserRecord
  <2>1. [user[u] EXCEPT !.status = "active", !.until = 0, !.failed = 0] \in UserRecord
    BY <1>1 DEF UserRecord
  <2>2. QED
    BY <1>1, <2>1 DEF Lifted
<1>4. ASSUME NEW row \in UserRecord PROVE Failed(row) \in UserRecord
  <2>1. CASE row.failed + 1 >= FailureLimit
    <3>1. [row EXCEPT !.failed = FailureLimit, !.status = "locked", !.until = now + LockTicks]
            \in UserRecord
      BY <1>1 DEF UserRecord
    <3>2. QED
      BY <2>1, <3>1 DEF Failed
  <2>2. CASE ~(row.failed + 1 >= FailureLimit)
    BY <1>1, <2>2 DEF Failed, UserRecord
  <2>3. QED
    BY <2>1, <2>2
<1>5. QED
  BY <1>2, <1>3, <1>4

\* What ends every session of a user keeps the rows well formed.
LEMMA InvalidatesTypes ==
  ASSUME SessionTypeOK, NEW u \in Accounts, NEW row \in UserRecord, Invalidates(u, row)
  PROVE  SessionTypeOK'
<1>1. now \in Times /\ 0 \in Times /\ 0 \in 0..FailureLimit
  BY Constants DEF SessionTypeOK, Times
<1>2. [row EXCEPT !.failed = 0, !.until = 0, !.epoch = now] \in UserRecord
  BY <1>1 DEF UserRecord
<1>3. user' \in [Accounts -> UserRecord]
  BY <1>2 DEF Invalidates, SessionTypeOK
<1>4. session' \in [Sessions -> SessionRecord]
  <2>1. ASSUME NEW s \in Sessions PROVE [session[s] EXCEPT !.status = "revoked"] \in SessionRecord
    <3>1. session[s] \in SessionRecord
      BY DEF SessionTypeOK
    <3>2. QED
      BY <3>1 DEF SessionRecord
  <2>2. QED
    BY <2>1 DEF Invalidates, RevokedAll, SessionTypeOK
<1>5. ended' \subseteq Sessions
  BY DEF Invalidates, SessionsOf, SessionTypeOK
<1>6. wrongAt' \in [Accounts -> Seq(Times)]
  BY DEF Invalidates, Forgets, SessionTypeOK
<1>7. QED
  BY <1>3, <1>4, <1>5, <1>6 DEF Invalidates, SessionTypeOK

\* Every transaction on accounts and sessions keeps their types.
LEMMA SessionTypes ==
  ASSUME SessionTypeOK,
         \/ SessionStep \/ Tick
         \/ \E u \in Accounts : \/ CreateUser(u) \/ ResetPassword(u)
                                \/ \E status \in {"active", "disabled"} :
                                     UpdateStatus(u, status)
         \/ UNCHANGED svars
  PROVE  SessionTypeOK'
<1>1. ASSUME NEW u \in Accounts, LoginWrong(u) PROVE SessionTypeOK'
  <2>1. user' \in [Accounts -> UserRecord]
    BY <1>1, UserTypes DEF LoginWrong, SessionTypeOK
  <2>2. ASSUME NEW w \in Seq(Times)
        PROVE  (LET seen == Append(w, now) IN
                IF Len(seen) > FailureLimit + 1 THEN Tail(seen) ELSE seen) \in Seq(Times)
    <3>1. now \in Times
      BY Constants DEF SessionTypeOK
    <3>2. Append(w, now) \in Seq(Times) /\ Append(w, now) # <<>>
      BY <3>1, <2>2
    <3>3. QED
      BY <3>2
  <2>3. wrongAt' \in [Accounts -> Seq(Times)]
    BY <1>1, <2>2 DEF LoginWrong, SessionTypeOK
  <2>4. QED
    BY <1>1, <2>1, <2>3 DEF LoginWrong, SessionTypeOK
<1>2. ASSUME NEW u \in Accounts, LoginRight(u) PROVE SessionTypeOK'
  <2>1. [Lifted(u) EXCEPT !.failed = 0, !.until = 0] \in UserRecord
    BY UserTypes, Constants DEF UserRecord
  <2>2. user' \in [Accounts -> UserRecord]
    BY <1>2, <2>1 DEF LoginRight, SessionTypeOK
  <2>3. wrongAt' \in [Accounts -> Seq(Times)]
    BY <1>2 DEF LoginRight, Forgets, SessionTypeOK
  <2>4. user[u].epoch \in Times
    BY DEF SessionTypeOK, UserRecord
  <2>5. /\ session' \in [Sessions -> SessionRecord]
        /\ access' \subseteq [session : Sessions, epoch : Times]
        /\ tickets' \subseteq [owner : Accounts, epoch : Times]
    <3>1. CASE user[u].force
      BY <1>2, <2>4, <3>1 DEF LoginRight, SessionTypeOK
    <3>2. CASE ~user[u].force
      <4>1. PICK s \in Sessions, ttl \in {SessionTicks, RememberedTicks} :
              /\ session' = [session EXCEPT ![s] =
                   [status |-> "live", owner |-> u, turn |-> 0, issued |-> now,
                    expires |-> now + ttl]]
              /\ access' = access \cup {[session |-> s, epoch |-> user[u].epoch]}
              /\ UNCHANGED tickets
        BY <1>2, <3>2 DEF LoginRight
      <4>2. [status |-> "live", owner |-> u, turn |-> 0, issued |-> now,
             expires |-> now + ttl] \in SessionRecord
        <5>1. /\ now \in Times /\ now + ttl \in Times /\ 0 \in 0..MaxTurns
          BY Constants DEF SessionTypeOK
        <5>2. QED
          BY <5>1 DEF SessionRecord
      <4>3. QED
        BY <2>4, <4>1, <4>2 DEF SessionTypeOK
    <3>3. QED
      BY <3>1, <3>2
  <2>6. QED
    BY <1>2, <2>2, <2>3, <2>5 DEF LoginRight, SessionTypeOK
<1>3. ASSUME NEW s \in Sessions, NEW history \in SUBSET Sessions, Ends(s, history)
      PROVE  SessionTypeOK'
  <2>1. [session[s] EXCEPT !.status = "revoked"] \in SessionRecord
    <3>1. session[s] \in SessionRecord
      BY DEF SessionTypeOK
    <3>2. QED
      BY <3>1 DEF SessionRecord
  <2>2. QED
    BY <1>3, <2>1 DEF Ends, SessionTypeOK
<1>4. ASSUME NEW s \in Sessions, NEW t \in 0..MaxTurns, RefreshRotated(s, t)
      PROVE  SessionTypeOK'
  <2>1. session[s] \in SessionRecord /\ session[s].turn + 1 \in 0..MaxTurns
    BY <1>4 DEF RefreshRotated, SessionTypeOK, SessionRecord
  <2>2. session' \in [Sessions -> SessionRecord]
    BY <1>4, <2>1 DEF RefreshRotated, SessionTypeOK, SessionRecord
  <2>3. user[session[s].owner].epoch \in Times
    BY <2>1 DEF SessionTypeOK, SessionRecord, UserRecord
  <2>4. QED
    BY <1>4, <2>2, <2>3 DEF RefreshRotated, SessionTypeOK
<1>5. ASSUME NEW ticket \in tickets, ChangePassword(ticket) PROVE SessionTypeOK'
  <2>1. ticket.owner \in Accounts /\ user[ticket.owner] \in UserRecord
    BY DEF SessionTypeOK
  <2>2. [user[ticket.owner] EXCEPT !.force = FALSE] \in UserRecord
    BY <2>1 DEF UserRecord
  <2>3. QED
    BY <1>5, <2>1, <2>2, InvalidatesTypes DEF ChangePassword
<1>6. ASSUME NEW u \in Accounts, ResetPassword(u) PROVE SessionTypeOK'
  <2> DEFINE row == [user[u] EXCEPT !.force = TRUE,
                                    !.status = IF @ = "locked" THEN "active" ELSE @]
  <2>1. row \in UserRecord
    <3>1. user[u] \in UserRecord
      BY DEF SessionTypeOK
    <3>2. QED
      BY <3>1 DEF UserRecord
  <2>2. Invalidates(u, row)
    BY <1>6 DEF ResetPassword
  <2> HIDE DEF row
  <2>3. QED
    BY <2>1, <2>2, InvalidatesTypes
<1>7. ASSUME NEW u \in Accounts, NEW status \in {"active", "disabled"}, UpdateStatus(u, status)
      PROVE  SessionTypeOK'
  <2> DEFINE row == [user[u] EXCEPT !.status = status]
  <2>1. row \in UserRecord
    <3>1. user[u] \in UserRecord
      BY DEF SessionTypeOK
    <3>2. QED
      BY <3>1 DEF UserRecord
  <2>2. Invalidates(u, row)
    BY <1>7 DEF UpdateStatus
  <2> HIDE DEF row
  <2>3. QED
    BY <2>1, <2>2, InvalidatesTypes
<1>8. ASSUME NEW u \in Accounts, CreateUser(u) PROVE SessionTypeOK'
  BY <1>8, UserTypes DEF CreateUser, SessionTypeOK
<1>9. CASE Tick \/ UNCHANGED svars
  <2>1. CASE Tick
    <3>1. now' \in 0..MaxNow
      BY <2>1 DEF Tick, SessionTypeOK
    <3>2. QED
      BY <2>1, <3>1 DEF Tick, SessionTypeOK
  <2>2. CASE UNCHANGED svars
    BY <2>2 DEF svars, SessionTypeOK
  <2>3. QED
    BY <1>9, <2>1, <2>2
<1>10. ASSUME SessionStep PROVE SessionTypeOK'
  <2>1. \A s \in Sessions : ended \cup {s} \in SUBSET Sessions /\ ended \in SUBSET Sessions
    BY DEF SessionTypeOK
  <2>2. ASSUME NEW s \in Sessions, RefreshRefused(s) PROVE SessionTypeOK'
    BY <1>3, <2>1, <2>2 DEF RefreshRefused
  <2>3. ASSUME NEW s \in Sessions, NEW t \in 0..MaxTurns, RefreshReused(s, t) \/ Logout(s, t)
        PROVE  SessionTypeOK'
    BY <1>3, <2>1, <2>3 DEF RefreshReused, Logout
  <2>4. QED
    BY <1>1, <1>2, <1>4, <1>5, <1>10, <2>2, <2>3 DEF SessionStep
<1>11. QED
  BY <1>6, <1>7, <1>8, <1>9, <1>10

\* Every step keeps the types of accounts, sessions, roles and grants.
LEMMA TypeStep == TypeOK /\ [Next]_vars => TypeOK'
<1> SUFFICES ASSUME TypeOK, [Next]_vars PROVE TypeOK'
  OBVIOUS
<1>0. SessionTypeOK /\ admitted \subseteq Accounts /\ managed \in 0..MaxManaged
  BY DEF TypeOK
<1>1. ASSUME Own(SessionStep) \/ Own(Tick) \/ UNCHANGED vars PROVE TypeOK'
  BY <1>0, <1>1, SessionTypes DEF Own, TypeOK, pvars, vars
<1>2. ASSUME NEW token \in access, Admit(token) PROVE TypeOK'
  <2>1. session[token.session] \in SessionRecord
    BY <1>0 DEF SessionTypeOK
  <2>2. session[token.session].owner \in Accounts
    BY <2>1 DEF SessionRecord
  <2>3. managed + 1 \in 0..MaxManaged
    BY <1>0, <1>2 DEF Admit
  <2>4. SessionTypeOK'
    BY <1>0, <1>2, SessionTypes DEF Admit
  <2>5. QED
    BY <1>2, <2>2, <2>3, <2>4 DEF Admit, TypeOK
<1>3. ASSUME NEW a \in Accounts, Manage(a) PROVE TypeOK'
  <2>1. ASSUME Carried(a) PROVE admitted' \subseteq Accounts /\ managed' \in 0..MaxManaged
    BY <1>0, <2>1 DEF Carried
  <2>2. ASSUME NEW u \in Accounts, NEW status \in {"active", "disabled"},
               ManageStatus(a, u, status) \/ ManagePassword(a, u)
        PROVE  TypeOK'
    BY <1>0, <2>1, <2>2, SessionTypes DEF ManageStatus, ManagePassword, TypeOK
  <2>3. ASSUME NEW u \in Accounts, NEW roles \in RoleSets,
               ManageNewUser(a, u, roles) \/ ReplaceRoles(a, u, roles)
        PROVE  TypeOK'
    <3>1. roles \in SUBSET Roles
      OBVIOUS
    <3>2. fixed' \in [Accounts -> SUBSET Roles]
      BY <2>3, <3>1 DEF ManageNewUser, ReplaceRoles, TypeOK
    <3>3. SessionTypeOK'
      BY <1>0, <2>3, SessionTypes DEF ManageNewUser, ReplaceRoles
    <3>4. QED
      BY <2>1, <2>3, <3>2, <3>3 DEF ManageNewUser, ReplaceRoles, TypeOK
  <2>4. ASSUME NEW r \in Requests,
               \/ \E u \in Accounts, role \in Roles : RequestGrant(a, r, u, role)
               \/ Approve(a, r) \/ Reject(a, r) \/ Revoke(a, r)
        PROVE  TypeOK'
    <3>1. request[r] \in RequestRecord /\ grant[r] \in GrantRecord
      BY DEF TypeOK
    <3>2. now + GrantTicks \in Nat
      BY <1>0 DEF SessionTypeOK
    <3>3. request' \in [Requests -> RequestRecord] /\ grant' \in [Requests -> GrantRecord]
      <4>1. ASSUME NEW u \in Accounts, NEW role \in Roles, RequestGrant(a, r, u, role)
            PROVE  request' \in [Requests -> RequestRecord] /\ grant' = grant
        <5>1. [NoRequest EXCEPT !.status = "pending", !.target = u, !.role = role,
                                !.requester = a] \in RequestRecord
          BY Constants DEF RequestRecord
        <5>2. QED
          BY <4>1, <5>1 DEF RequestGrant, TypeOK
      <4>2. ASSUME Approve(a, r)
            PROVE  /\ request' \in [Requests -> RequestRecord]
                   /\ grant' \in [Requests -> GrantRecord]
        <5>1. [request[r] EXCEPT !.status = "approved", !.decider = a,
                                 !.expires = now + GrantTicks] \in RequestRecord
          BY <3>1, <3>2 DEF RequestRecord
        <5>2. [status |-> "given", expires |-> now + GrantTicks] \in GrantRecord
          BY <3>2 DEF GrantRecord
        <5>3. QED
          BY <4>2, <5>1, <5>2 DEF Approve, TypeOK
      <4>3. ASSUME Reject(a, r)
            PROVE  request' \in [Requests -> RequestRecord] /\ grant' = grant
        <5>1. [request[r] EXCEPT !.status = "rejected", !.decider = a] \in RequestRecord
          BY <3>1 DEF RequestRecord
        <5>2. QED
          BY <4>3, <5>1 DEF Reject, TypeOK
      <4>4. ASSUME Revoke(a, r)
            PROVE  /\ request' \in [Requests -> RequestRecord]
                   /\ grant' \in [Requests -> GrantRecord]
        <5>1. [request[r] EXCEPT !.status = "revoked"] \in RequestRecord
          BY <3>1 DEF RequestRecord
        <5>2. [grant[r] EXCEPT !.status = "revoked"] \in GrantRecord
          BY <3>1 DEF GrantRecord
        <5>3. QED
          BY <4>4, <5>1, <5>2 DEF Revoke, TypeOK
      <4>5. QED
        BY <2>4, <4>1, <4>2, <4>3, <4>4 DEF TypeOK
    <3>4. UNCHANGED <<svars, fixed>> /\ Carried(a)
      BY <2>4 DEF RequestGrant, Approve, Reject, Revoke
    <3>5. SessionTypeOK'
      BY <1>0, <3>4, SessionTypes
    <3>6. QED
      BY <2>1, <3>3, <3>4, <3>5 DEF TypeOK
  <2>5. QED
    BY <1>3, <2>2, <2>3, <2>4 DEF Manage
<1>4. QED
  BY <1>1, <1>2, <1>3 DEF Next

\* bootstrap_admin leaves well-formed rows.
LEMMA TypeStarts == Init => TypeOK
<1> SUFFICES ASSUME Init PROVE TypeOK
  OBVIOUS
<1>1. [NewUser EXCEPT !.epoch = 0] \in UserRecord
  <2>1. now \in Times
    BY Constants DEF Init, SessionInit
  <2>2. QED
    BY <2>1, Constants DEF NewUser, UserRecord
<1>2. SessionTypeOK
  <2>1. user \in [Accounts -> UserRecord]
    BY <1>1, Constants DEF Init, SessionInit
  <2>2. session \in [Sessions -> SessionRecord]
    BY Constants DEF Init, SessionInit
  <2>3. wrongAt \in [Accounts -> Seq(Times)]
    BY DEF Init, SessionInit
  <2>4. QED
    BY <2>1, <2>2, <2>3 DEF Init, SessionInit, SessionTypeOK
<1>3. QED
  BY <1>2, Constants DEF Init, TypeOK

\* Rows, tokens, roles, requests and grants keep their types.
LEMMA TypeCorrect == Spec => []TypeOK
BY TypeStarts, TypeStep, PTL DEF Spec

-----------------------------------------------------------------------------
(************************* Sessions that have ended ***********************)

\* What is remembered as ended is revoked in its row: the inductive form.
EndedIsRevoked == \A s \in ended : session[s].status = "revoked"

\* No revoked row accepts a token.
LEMMA EndedImplies == TypeOK /\ EndedIsRevoked => EndedSessionIsDead
BY DEF EndedIsRevoked, EndedSessionIsDead, RefreshAccepts, AccessAccepts

\* A revoked row is never used again, and what ends a session revokes it.
LEMMA EndedStep == TypeOK /\ EndedIsRevoked /\ [Next]_vars => EndedIsRevoked'
<1> SUFFICES ASSUME TypeOK, EndedIsRevoked, [Next]_vars PROVE EndedIsRevoked'
  OBVIOUS
<1>0. session \in [Sessions -> SessionRecord] /\ ended \subseteq Sessions
  BY DEF TypeOK, SessionTypeOK
<1>1. ASSUME UNCHANGED <<session, ended>> PROVE EndedIsRevoked'
  BY <1>1 DEF EndedIsRevoked
<1>2. ASSUME NEW s \in Sessions, Ends(s, ended) \/ Ends(s, ended \cup {s})
      PROVE  EndedIsRevoked'
  <2>1. session'[s].status = "revoked" /\ ended' \subseteq ended \cup {s}
    BY <1>0, <1>2 DEF Ends, SessionRecord
  <2>2. \A x \in Sessions \ {s} : session'[x] = session[x]
    BY <1>0, <1>2 DEF Ends
  <2>3. QED
    BY <1>0, <2>1, <2>2 DEF EndedIsRevoked
<1>3. ASSUME NEW u \in Accounts, NEW row, Invalidates(u, row) PROVE EndedIsRevoked'
  <2>1. \A s \in SessionsOf(u) : session'[s].status = "revoked"
    BY <1>0, <1>3 DEF Invalidates, RevokedAll, SessionsOf, SessionRecord
  <2>2. \A s \in Sessions \ SessionsOf(u) : session'[s] = session[s]
    BY <1>3 DEF Invalidates, RevokedAll
  <2>3. QED
    BY <1>0, <1>3, <2>1, <2>2 DEF Invalidates, EndedIsRevoked, SessionsOf
<1>4. ASSUME NEW u \in Accounts, LoginRight(u) PROVE EndedIsRevoked'
  <2>1. CASE user[u].force
    BY <1>1, <1>4, <2>1 DEF LoginRight
  <2>2. CASE ~user[u].force
    <3>1. PICK s \in Sessions : /\ session[s].status = "absent" /\ ended' = ended
                                /\ \A x \in Sessions \ {s} : session'[x] = session[x]
      BY <1>0, <1>4, <2>2 DEF LoginRight
    <3>2. QED
      BY <1>0, <3>1 DEF EndedIsRevoked
  <2>3. QED
    BY <2>1, <2>2
<1>5. ASSUME NEW s \in Sessions, NEW t \in 0..MaxTurns, RefreshRotated(s, t)
      PROVE  EndedIsRevoked'
  <2>1. session'[s].status = session[s].status /\ ended' = ended
    BY <1>0, <1>5 DEF RefreshRotated, SessionRecord
  <2>2. \A x \in Sessions \ {s} : session'[x] = session[x]
    BY <1>0, <1>5 DEF RefreshRotated
  <2>3. QED
    BY <1>0, <2>1, <2>2 DEF EndedIsRevoked
<1>6. \A ticket \in tickets : ticket.owner \in Accounts
  BY DEF TypeOK, SessionTypeOK
<1>7. ASSUME SessionStep PROVE EndedIsRevoked'
  <2>1. ASSUME NEW s \in Sessions, NEW t \in 0..MaxTurns,
               RefreshRefused(s) \/ RefreshReused(s, t) \/ Logout(s, t)
        PROVE  EndedIsRevoked'
    BY <1>2, <2>1 DEF RefreshRefused, RefreshReused, Logout
  <2>2. ASSUME NEW ticket \in tickets, ChangePassword(ticket) PROVE EndedIsRevoked'
    BY <1>3, <1>6, <2>2 DEF ChangePassword
  <2>3. ASSUME NEW u \in Accounts, LoginWrong(u) PROVE EndedIsRevoked'
    BY <1>1, <2>3 DEF LoginWrong
  <2>4. 0 \in 0..MaxTurns
    BY Constants
  <2>5. QED
    BY <1>4, <1>5, <1>7, <2>1, <2>2, <2>3, <2>4 DEF SessionStep
<1>8. ASSUME NEW a \in Accounts, Manage(a) PROVE EndedIsRevoked'
  <2>1. ASSUME NEW u \in Accounts, NEW status, ManageStatus(a, u, status)
        PROVE  EndedIsRevoked'
    BY <1>3, <2>1 DEF ManageStatus, UpdateStatus
  <2>2. ASSUME NEW u \in Accounts, ManagePassword(a, u) PROVE EndedIsRevoked'
    BY <1>3, <2>2 DEF ManagePassword, ResetPassword
  <2>3. ASSUME NEW u \in Accounts, NEW roles, ManageNewUser(a, u, roles) \/ ReplaceRoles(a, u, roles)
        PROVE  EndedIsRevoked'
    BY <1>1, <2>3 DEF ManageNewUser, CreateUser, ReplaceRoles, svars
  <2>4. ASSUME NEW r \in Requests,
               \/ \E u \in Accounts, role \in Roles : RequestGrant(a, r, u, role)
               \/ Approve(a, r) \/ Reject(a, r) \/ Revoke(a, r)
        PROVE  EndedIsRevoked'
    BY <1>1, <2>4 DEF RequestGrant, Approve, Reject, Revoke, svars
  <2>5. QED
    BY <1>8, <2>1, <2>2, <2>3, <2>4 DEF Manage
<1>9. QED
  BY <1>1, <1>7, <1>8 DEF Next, Own, Tick, Admit, svars, vars

\* A logged out, reused or invalidated session is never accepted again.
THEOREM EndedSessionsStayDead == Spec => []EndedSessionIsDead
<1>1. Init => EndedIsRevoked
  BY DEF Init, SessionInit, EndedIsRevoked
<1>2. QED
  BY <1>1, TypeCorrect, EndedStep, EndedImplies, PTL DEF Spec

-----------------------------------------------------------------------------
(**************************** Lent roles **********************************)

\* What request, decision and assignment say of each other.
Matched(r) ==
  /\ request[r].status \in {"absent", "pending", "rejected"} <=> grant[r].status = "none"
  /\ request[r].status = "approved" <=> grant[r].status = "given"
  /\ request[r].status = "approved" =>
       /\ request[r].expires = grant[r].expires
       /\ request[r].decider \notin {request[r].requester, request[r].target}
  /\ request[r].status # "absent" => user[request[r].target].status # "absent"

\* No role is lent to one who has it from elsewhere.
Apart(r) == InForce(r) =>
  /\ request[r].role \notin fixed[request[r].target]
  /\ \A x \in Requests \ {r} :
       InForce(x) => <<request[x].target, request[x].role>> # <<request[r].target, request[r].role>>

\* The inductive invariant of requests and their assignments.
GrantsOK == \A r \in Requests : Matched(r) /\ Apart(r)

\* It gives what is claimed of lent roles.
LEMMA GrantsImply == TypeOK /\ GrantsOK => LentRolesAreBacked
BY DEF TypeOK, GrantsOK, Matched, Apart, LentRolesAreBacked, InForce

\* A change of status or password, or the right password, leaves the account
\* without failures; only a status change may end an active account, and then
\* not the last administrator's.
Settled(u) ==
  /\ user'[u].status \in {"active", "disabled"} /\ user'[u].failed = 0
  /\ wrongAt'[u] = <<>> \/ (user[u].status = "absent" /\ wrongAt'[u] = wrongAt[u])
  /\ user[u].status = "active" => user'[u].status = "active" \/ LastAdminPreserved(u, FALSE)

\* A step writes one account at most, and no roles of any other.
AtMost(u) ==
  /\ now' = now
  /\ \A x \in Accounts \ {u} :
       user'[x] = user[x] /\ wrongAt'[x] = wrongAt[x] /\ fixed'[x] = fixed[x]
  /\ fixed' = fixed \/ user[u].status = "absent"

\* What Invalidates does to the account and its failures.
LEMMA InvalidatedAccount ==
  ASSUME TypeOK, NEW u \in Accounts, NEW row \in UserRecord, Invalidates(u, row)
  PROVE  /\ now' = now
         /\ \A x \in Accounts \ {u} : user'[x] = user[x] /\ wrongAt'[x] = wrongAt[x]
         /\ user'[u].status = row.status /\ user'[u].failed = 0
         /\ wrongAt'[u] = <<>>
<1>1. user \in [Accounts -> UserRecord] /\ wrongAt \in [Accounts -> Seq(Times)]
  BY DEF TypeOK, SessionTypeOK
<1>2. user'[u] = [row EXCEPT !.failed = 0, !.until = 0, !.epoch = now]
  BY <1>1 DEF Invalidates
<1>3. user'[u].status = row.status /\ user'[u].failed = 0
  BY <1>2 DEF UserRecord
<1>4. QED
  BY <1>1, <1>3 DEF Invalidates, Forgets

\* Every step is a wrong password, settles one account, or leaves all of them.
LEMMA AccountStep ==
  ASSUME TypeOK, [Next]_vars
  PROVE  \/ /\ user' = user /\ wrongAt' = wrongAt /\ now' \in {now, now + 1}
            /\ \/ fixed' = fixed
               \/ \E a, u \in Accounts, roles \in RoleSets : ReplaceRoles(a, u, roles)
         \/ \E u \in Accounts : AtMost(u) /\ (LoginWrong(u) \/ Settled(u))
<1> DEFINE Quiet == user' = user /\ wrongAt' = wrongAt /\ now' \in {now, now + 1}
           One(u) == AtMost(u) /\ (LoginWrong(u) \/ Settled(u))
<1>0. /\ user \in [Accounts -> UserRecord] /\ wrongAt \in [Accounts -> Seq(Times)]
      /\ fixed \in [Accounts -> SUBSET Roles] /\ SessionTypeOK
  BY DEF TypeOK, SessionTypeOK
<1>1. ASSUME NEW u \in Accounts, NEW row \in UserRecord, Invalidates(u, row), fixed' = fixed,
             row.status \in {"active", "disabled"},
             user[u].status = "active"
                  => row.status = "active" \/ LastAdminPreserved(u, FALSE)
      PROVE  One(u)
  BY <1>1, InvalidatedAccount DEF AtMost, Settled
<1>2. ASSUME NEW u \in Accounts, LoginWrong(u), fixed' = fixed PROVE One(u)
  BY <1>0, <1>2 DEF LoginWrong, AtMost
<1>3. ASSUME NEW u \in Accounts, LoginRight(u), fixed' = fixed PROVE One(u)
  <2>1. Lifted(u) \in UserRecord /\ user[u] \in UserRecord
    BY <1>0, UserTypes
  <2>2. Lifted(u).status = "active"
    <3>1. CASE LockOver(u)
      BY <2>1, <3>1 DEF Lifted, UserRecord
    <3>2. CASE ~LockOver(u)
      BY <1>3, <3>2 DEF Lifted, LoginRight, LoginAllowed
    <3>3. QED
      BY <3>1, <3>2
  <2>3. user'[u] = [Lifted(u) EXCEPT !.failed = 0, !.until = 0]
    BY <1>0, <1>3 DEF LoginRight
  <2>4. user'[u].status = "active" /\ user'[u].failed = 0
    BY <2>1, <2>2, <2>3 DEF UserRecord
  <2>5. QED
    BY <1>0, <1>3, <2>4 DEF LoginRight, Forgets, AtMost, Settled
<1>4. ASSUME NEW ticket \in tickets, ChangePassword(ticket), fixed' = fixed
      PROVE  ticket.owner \in Accounts /\ One(ticket.owner)
  <2> DEFINE row == [user[ticket.owner] EXCEPT !.force = FALSE]
  <2>1. ticket.owner \in Accounts
    BY DEF TypeOK, SessionTypeOK
  <2>2. user[ticket.owner] \in UserRecord
    BY <1>0, <2>1
  <2>3. row \in UserRecord /\ row.status = "active"
    BY <1>4, <2>2 DEF UserRecord, ChangePassword
  <2>4. Invalidates(ticket.owner, row)
    BY <1>4 DEF ChangePassword
  <2> HIDE DEF row
  <2>5. QED
    BY <1>1, <1>4, <2>1, <2>3, <2>4
<1>5. ASSUME SessionStep, fixed' = fixed PROVE Quiet \/ \E u \in Accounts : One(u)
  <2>1. ASSUME NEW s \in Sessions, NEW t \in 0..MaxTurns,
               RefreshRefused(s) \/ RefreshReused(s, t) \/ RefreshRotated(s, t) \/ Logout(s, t)
        PROVE  Quiet
    BY <2>1 DEF RefreshRefused, RefreshReused, RefreshRotated, Logout, Ends
  <2>2. 0 \in 0..MaxTurns
    BY Constants
  <2> HIDE DEF Quiet, One
  <2>3. QED
    BY <1>2, <1>3, <1>4, <1>5, <2>1, <2>2 DEF SessionStep
<1>6. ASSUME NEW a \in Accounts, NEW u \in Accounts, NEW status \in {"active", "disabled"},
             ManageStatus(a, u, status)
      PROVE  One(u)
  <2> DEFINE row == [user[u] EXCEPT !.status = status]
  <2>1. row \in UserRecord /\ row.status = status
    <3>1. user[u] \in UserRecord
      BY <1>0
    <3>2. QED
      BY <3>1 DEF UserRecord
  <2>2. Invalidates(u, row)
    BY <1>6 DEF ManageStatus, UpdateStatus
  <2>3. status = "disabled" => LastAdminPreserved(u, FALSE)
    BY <1>6 DEF ManageStatus, LastAdminPreserved
  <2>4. fixed' = fixed
    BY <1>6 DEF ManageStatus
  <2> HIDE DEF row
  <2>5. QED
    BY <1>1, <2>1, <2>2, <2>3, <2>4
<1>7. ASSUME NEW a \in Accounts, NEW u \in Accounts, ManagePassword(a, u) PROVE One(u)
  <2> DEFINE row == [user[u] EXCEPT !.force = TRUE,
                                    !.status = IF @ = "locked" THEN "active" ELSE @]
  <2>1. /\ row \in UserRecord
        /\ row.status = IF user[u].status = "locked" THEN "active" ELSE user[u].status
    <3>1. user[u] \in UserRecord
      BY <1>0
    <3>2. QED
      BY <3>1 DEF UserRecord
  <2>2. user[u].status \in {"active", "locked", "disabled"}
    BY <1>0, <1>7 DEF ManagePassword, ResetPassword, UserRecord
  <2>3. Invalidates(u, row)
    BY <1>7 DEF ManagePassword, ResetPassword
  <2>4. fixed' = fixed
    BY <1>7 DEF ManagePassword
  <2> HIDE DEF row
  <2>5. QED
    BY <1>1, <2>1, <2>2, <2>3, <2>4
<1>8. ASSUME NEW a \in Accounts, NEW u \in Accounts, NEW roles, ManageNewUser(a, u, roles)
      PROVE  One(u)
  <2>1. user'[u].status = "active" /\ user'[u].failed = 0
    BY <1>0, <1>8 DEF ManageNewUser, CreateUser, NewUser
  <2>2. QED
    BY <1>0, <1>8, <2>1 DEF ManageNewUser, CreateUser, AtMost, Settled
<1>9. ASSUME UNCHANGED svars PROVE Quiet
  BY <1>9 DEF svars
<1>10. ASSUME NEW a \in Accounts, Manage(a),
              ~\E u \in Accounts : One(u)
       PROVE  /\ UNCHANGED svars
              /\ \/ fixed' = fixed
                 \/ \E u \in Accounts, roles \in RoleSets : ReplaceRoles(a, u, roles)
  <2>1. ASSUME NEW u \in Accounts, NEW roles \in RoleSets, ReplaceRoles(a, u, roles)
        PROVE  UNCHANGED svars
    BY <2>1 DEF ReplaceRoles
  <2>2. ASSUME NEW r \in Requests,
               \/ \E u \in Accounts, role \in Roles : RequestGrant(a, r, u, role)
               \/ Approve(a, r) \/ Reject(a, r) \/ Revoke(a, r)
        PROVE  UNCHANGED svars /\ fixed' = fixed
    BY <2>2 DEF RequestGrant, Approve, Reject, Revoke
  <2> HIDE DEF One
  <2>3. QED
    BY <1>6, <1>7, <1>8, <1>10, <2>1, <2>2 DEF Manage
<1>11. ASSUME Own(Tick) PROVE Quiet /\ fixed' = fixed
  BY <1>11 DEF Own, Tick, pvars
<1>12. ASSUME UNCHANGED vars \/ \E token \in access : Admit(token)
       PROVE  Quiet /\ fixed' = fixed
  BY <1>12 DEF Admit, svars, vars, pvars
<1> HIDE DEF Quiet, One
<1>13. ASSUME Own(SessionStep) PROVE SessionStep /\ fixed' = fixed
  BY <1>13 DEF Own, pvars
<1>14. \/ Quiet /\ \/ fixed' = fixed
                   \/ \E a, u \in Accounts, roles \in RoleSets : ReplaceRoles(a, u, roles)
       \/ \E u \in Accounts : One(u)
  BY <1>5, <1>9, <1>10, <1>11, <1>12, <1>13 DEF Next
<1>15. QED
  BY <1>14 DEF Quiet, One

\* Accounts are never deleted and the clock does not go back.
LEMMA UsersStay ==
  ASSUME TypeOK, [Next]_vars
  PROVE  /\ now' >= now
         /\ \A u \in Accounts : user[u].status # "absent" => user'[u].status # "absent"
<1>1. now \in Nat /\ user' \in [Accounts -> UserRecord]
  BY TypeStep DEF TypeOK, SessionTypeOK
<1>2. ASSUME NEW u \in Accounts, LoginWrong(u) PROVE user'[u].status # "absent"
  <2>1. user \in [Accounts -> UserRecord] /\ Lifted(u) \in UserRecord
    BY UserTypes DEF TypeOK, SessionTypeOK
  <2>2. Lifted(u).status # "absent"
    <3>1. CASE LockOver(u)
      BY <2>1, <3>1 DEF Lifted, UserRecord
    <3>2. CASE ~LockOver(u)
      BY <1>2, <3>2 DEF Lifted, LoginWrong, LoginAllowed
    <3>3. QED
      BY <3>1, <3>2
  <2>3. Failed(Lifted(u)).status # "absent"
    BY <2>1, <2>2 DEF Failed, UserRecord
  <2>4. QED
    BY <1>2, <2>1, <2>3 DEF LoginWrong
<1>3. ASSUME NEW u \in Accounts, AtMost(u), LoginWrong(u) \/ Settled(u)
      PROVE  /\ now' >= now
             /\ \A x \in Accounts : user[x].status # "absent" => user'[x].status # "absent"
  <2>1. user'[u].status # "absent"
    BY <1>2, <1>3 DEF Settled
  <2>2. now' = now /\ \A x \in Accounts \ {u} : user'[x] = user[x]
    BY <1>3 DEF AtMost
  <2>3. QED
    BY <1>1, <2>1, <2>2
<1>4. CASE user' = user /\ now' \in {now, now + 1}
  BY <1>1, <1>4
<1>5. QED
  BY <1>3, <1>4, AccountStep

\* Every decision, and every change of roles beside it, keeps the invariant.
LEMMA GrantsStep == TypeOK /\ GrantsOK /\ [Next]_vars => GrantsOK'
<1> SUFFICES ASSUME TypeOK, GrantsOK, [Next]_vars PROVE GrantsOK'
  OBVIOUS
<1>0. /\ request \in [Requests -> RequestRecord] /\ grant \in [Requests -> GrantRecord]
      /\ fixed \in [Accounts -> SUBSET Roles] /\ now \in Nat /\ now' \in Nat
  BY TypeStep DEF TypeOK, SessionTypeOK
<1>1. \A r \in Requests : /\ request[r].target \in Accounts
                          /\ grant[r].expires \in Nat
  BY <1>0 DEF RequestRecord, GrantRecord
<1>2. ASSUME UNCHANGED <<request, grant>> PROVE \A r \in Requests : Matched(r)'
  BY <1>1, <1>2, UsersStay DEF GrantsOK, Matched
<1>3. ASSUME UNCHANGED <<request, grant, fixed>> PROVE GrantsOK'
  <2>1. \A r \in Requests : InForce(r)' => InForce(r)
    BY <1>0, <1>1, <1>3, UsersStay DEF InForce
  <2>2. \A r \in Requests : Apart(r)'
    BY <1>3, <2>1 DEF GrantsOK, Apart
  <2>3. QED
    BY <1>2, <1>3, <2>2 DEF GrantsOK
<1>4. ASSUME UNCHANGED <<request, grant, now>>, NEW u \in Accounts, NEW roles,
             fixed' = [fixed EXCEPT ![u] = roles],
             \A r \in Requests : InForce(r) /\ request[r].target = u
                  => request[r].role \notin roles
      PROVE  GrantsOK'
  <2>1. \A r \in Requests : InForce(r)' => InForce(r)
    BY <1>4 DEF InForce
  <2>2. ASSUME NEW r \in Requests, InForce(r)
        PROVE  request[r].role \notin fixed'[request[r].target]
    BY <1>0, <1>1, <1>4, <2>2 DEF GrantsOK, Apart
  <2>3. \A r \in Requests : Apart(r)'
    BY <1>4, <2>1, <2>2 DEF GrantsOK, Apart
  <2>4. QED
    BY <1>2, <1>4, <2>3 DEF GrantsOK
<1>5. ASSUME NEW a \in Accounts, NEW u \in Accounts, NEW roles, ManageNewUser(a, u, roles)
      PROVE  GrantsOK'
  <2>1. \A r \in Requests : InForce(r) => request[r].target # u
    BY <1>5 DEF ManageNewUser, CreateUser, InForce, GrantsOK, Matched
  <2>2. QED
    BY <1>4, <1>5, <2>1 DEF ManageNewUser, CreateUser
<1>6. ASSUME NEW a \in Accounts, NEW u \in Accounts, NEW roles, ReplaceRoles(a, u, roles)
      PROVE  GrantsOK'
  <2>1. ASSUME NEW r \in Requests, InForce(r), request[r].target = u
        PROVE  request[r].role \notin roles
    BY <1>6, <2>1 DEF ReplaceRoles, NoOverlap, GrantsOK, Apart
  <2>2. QED
    BY <1>4, <1>6, <2>1 DEF ReplaceRoles, svars
<1>7. ASSUME NEW r \in Requests, UNCHANGED <<svars, fixed>>,
             \A x \in Requests \ {r} : request'[x] = request[x] /\ grant'[x] = grant[x],
             Matched(r)', ~InForce(r)'
      PROVE  GrantsOK'
  <2>1. ASSUME NEW x \in Requests \ {r} PROVE Matched(x)' /\ (InForce(x)' <=> InForce(x))
    BY <1>7, <2>1 DEF GrantsOK, Matched, InForce, svars
  <2>2. \A x \in Requests : Apart(x)'
    BY <1>7, <2>1 DEF GrantsOK, Apart
  <2>3. QED
    BY <1>7, <2>1, <2>2 DEF GrantsOK
<1>8. ASSUME NEW a \in Accounts, NEW r \in Requests, NEW u \in Accounts, NEW role \in Roles,
             RequestGrant(a, r, u, role)
      PROVE  GrantsOK'
  <2>1. /\ request'[r].status = "pending" /\ request'[r].target = u
        /\ \A x \in Requests \ {r} : request'[x] = request[x]
    BY <1>0, <1>8 DEF RequestGrant, NoRequest
  <2>2. grant[r].status = "none"
    BY <1>8 DEF RequestGrant, GrantsOK, Matched
  <2>3. Matched(r)' /\ ~InForce(r)'
    BY <1>8, <2>1, <2>2 DEF RequestGrant, Matched, InForce, svars
  <2>4. QED
    BY <1>7, <1>8, <2>1, <2>3 DEF RequestGrant
<1>9. ASSUME NEW a \in Accounts, NEW r \in Requests, Reject(a, r) PROVE GrantsOK'
  <2>1. /\ request'[r].status = "rejected" /\ request'[r].target = request[r].target
        /\ \A x \in Requests \ {r} : request'[x] = request[x]
    BY <1>0, <1>9 DEF Reject, RequestRecord
  <2>2. grant[r].status = "none" /\ request[r].status = "pending"
    BY <1>9 DEF Reject, MayDecide, GrantsOK, Matched
  <2>3. Matched(r)' /\ ~InForce(r)'
    BY <1>9, <2>1, <2>2 DEF Reject, GrantsOK, Matched, InForce, svars
  <2>4. QED
    BY <1>7, <1>9, <2>1, <2>3 DEF Reject
<1>10. ASSUME NEW a \in Accounts, NEW r \in Requests, Revoke(a, r) PROVE GrantsOK'
  <2>1. /\ request'[r].status = "revoked" /\ request'[r].target = request[r].target
        /\ grant'[r].status = "revoked"
        /\ \A x \in Requests \ {r} : request'[x] = request[x] /\ grant'[x] = grant[x]
    BY <1>0, <1>10 DEF Revoke, RequestRecord, GrantRecord
  <2>2. Matched(r)' /\ ~InForce(r)'
    BY <1>10, <2>1 DEF Revoke, GrantsOK, Matched, InForce, svars
  <2>3. QED
    BY <1>7, <1>10, <2>1, <2>2 DEF Revoke
<1>11. ASSUME NEW a \in Accounts, NEW r \in Requests, Approve(a, r) PROVE GrantsOK'
  <2>1. /\ request'[r].status = "approved" /\ request'[r].target = request[r].target
        /\ request'[r].role = request[r].role
        /\ request'[r].requester = request[r].requester
        /\ request'[r].decider = a /\ request'[r].expires = now + GrantTicks
        /\ grant'[r] = [status |-> "given", expires |-> now + GrantTicks]
        /\ \A x \in Requests \ {r} : request'[x] = request[x] /\ grant'[x] = grant[x]
    BY <1>0, <1>11 DEF Approve, RequestRecord
  <2>2. Matched(r)'
    BY <1>11, <2>1 DEF Approve, MayDecide, GrantsOK, Matched, svars
  <2>3. ASSUME NEW x \in Requests \ {r} PROVE Matched(x)' /\ (InForce(x)' <=> InForce(x))
    BY <1>11, <2>1, <2>3 DEF Approve, GrantsOK, Matched, InForce, svars
  <2>4. /\ request[r].role \notin fixed[request[r].target]
        /\ request[r].role \notin Lent(request[r].target)
    BY <1>11 DEF Approve, EffectiveRoles
  <2>5. ASSUME NEW x \in Requests \ {r}, InForce(x)
        PROVE  request[x].target # request[r].target \/ request[x].role # request[r].role
    BY <2>4, <2>5 DEF Lent
  <2>6. \A x \in Requests : Apart(x)'
    BY <1>11, <2>1, <2>3, <2>4, <2>5 DEF Approve, GrantsOK, Apart
  <2>7. QED
    BY <2>2, <2>3, <2>6 DEF GrantsOK
<1>12. ASSUME NEW a \in Accounts, Manage(a) PROVE GrantsOK'
  BY <1>3, <1>5, <1>6, <1>8, <1>9, <1>10, <1>11, <1>12
     DEF Manage, ManageStatus, ManagePassword
<1>13. QED
  BY <1>3, <1>12 DEF Next, Own, Admit, pvars, vars

\* No request is made at the start.
LEMMA GrantsStart == Init => GrantsOK
BY DEF Init, GrantsOK, Matched, Apart, InForce, NoRequest, NoGrant

\* Requests and assignments agree in every reachable state.
LEMMA GrantsCorrect == Spec => []GrantsOK
BY TypeCorrect, GrantsStart, GrantsStep, PTL DEF Spec

\* Nobody holds a lent role without an unexpired approval by another person,
\* nor a role from two sources.
THEOREM LentRolesBacked == Spec => []LentRolesAreBacked
BY TypeCorrect, GrantsCorrect, GrantsImply, PTL

\* The decisions about break glass move request and assignment as the triggers
\* allow; nothing else moves them.
LEMMA LifecycleStep ==
  TypeOK /\ GrantsOK /\ [Next]_vars => [Lifecycle!Next]_(Lifecycle!lvars)
<1> SUFFICES ASSUME TypeOK, GrantsOK, [Next]_vars
             PROVE  [Lifecycle!Next]_(Lifecycle!lvars)
  OBVIOUS
<1>0. request \in [Requests -> RequestRecord] /\ grant \in [Requests -> GrantRecord]
  BY DEF TypeOK
<1>1. ASSUME NEW a \in Accounts, NEW r \in Requests, NEW u \in Accounts, NEW role \in Roles,
             RequestGrant(a, r, u, role)
      PROVE  Lifecycle!Request(r)
  <2>1. /\ request' \in [Requests -> RequestRecord] /\ request[r].status = "absent"
        /\ request'[r].status = "pending"
        /\ \A x \in Requests \ {r} : request'[x] = request[x]
    BY <1>0, <1>1, TypeStep DEF TypeOK, RequestGrant, NoRequest
  <2>2. grant' = grant
    BY <1>1 DEF RequestGrant
  <2>3. QED
    BY <2>1, <2>2 DEF Lifecycle!Request, Lifecycle!Moves, Lifecycle!Alone
<1>2. ASSUME NEW a \in Accounts, NEW r \in Requests, Approve(a, r) PROVE Lifecycle!Approved(r)
  <2>1. /\ request[r].status = "pending" /\ request'[r].status = "approved"
        /\ \A x \in Requests \ {r} : request'[x] = request[x]
    BY <1>0, <1>2 DEF Approve, MayDecide, RequestRecord
  <2>2. /\ grant[r].status = "none" /\ grant'[r].status = "given"
        /\ \A x \in Requests \ {r} : grant'[x] = grant[x]
    BY <1>0, <1>2, <2>1 DEF Approve, GrantsOK, Matched
  <2>3. QED
    BY <2>1, <2>2 DEF Lifecycle!Approved, Lifecycle!Moves
<1>3. ASSUME NEW a \in Accounts, NEW r \in Requests, Reject(a, r) PROVE Lifecycle!Rejected(r)
  <2>1. /\ request[r].status = "pending" /\ request'[r].status = "rejected"
        /\ \A x \in Requests \ {r} : request'[x] = request[x]
    BY <1>0, <1>3 DEF Reject, MayDecide, RequestRecord
  <2>2. grant' = grant
    BY <1>3 DEF Reject
  <2>3. QED
    BY <2>1, <2>2 DEF Lifecycle!Rejected, Lifecycle!Moves, Lifecycle!Alone
<1>4. ASSUME NEW a \in Accounts, NEW r \in Requests, Revoke(a, r) PROVE Lifecycle!Revoked(r)
  <2>1. /\ request[r].status = "approved" /\ request'[r].status = "revoked"
        /\ \A x \in Requests \ {r} : request'[x] = request[x]
    BY <1>0, <1>4 DEF Revoke, RequestRecord
  <2>2. /\ grant[r].status = "given" /\ grant'[r].status = "revoked"
        /\ \A x \in Requests \ {r} : grant'[x] = grant[x]
    BY <1>0, <1>4 DEF Revoke, GrantRecord
  <2>3. QED
    BY <2>1, <2>2 DEF Lifecycle!Revoked, Lifecycle!Moves
<1>5. ASSUME UNCHANGED <<request, grant>> PROVE UNCHANGED Lifecycle!lvars
  BY <1>5 DEF Lifecycle!lvars
<1>6. ASSUME NEW a \in Accounts, Manage(a)
      PROVE  Lifecycle!Next \/ UNCHANGED <<request, grant>>
  BY <1>1, <1>2, <1>3, <1>4, <1>6
     DEF Manage, ManageStatus, ManagePassword, ManageNewUser, ReplaceRoles, Lifecycle!Next
<1>7. QED
  BY <1>5, <1>6 DEF Next, Own, Admit, pvars, vars

\* Requests and assignments follow the life cycle the database enforces.
THEOREM RefinesBreakGlass == Spec => ImplementsBreakGlass
<1>1. Init => Lifecycle!Init
  BY DEF Init, NoRequest, NoGrant, Lifecycle!Init
<1>2. QED
  BY <1>1, LifecycleStep, TypeCorrect, GrantsCorrect, PTL
     DEF Spec, ImplementsBreakGlass, Lifecycle!Spec

-----------------------------------------------------------------------------
(************************ The last administrator **************************)

\* A request that takes an active administrator away leaves another one.
LEMMA AnotherAdmin ==
  ASSUME NEW u \in ActiveAdmins, LastAdminPreserved(u, FALSE)
  PROVE  \E w \in ActiveAdmins : w # u
<1>1. IsFiniteSet(ActiveAdmins)
  BY FS_Subset DEF ActiveAdmins
<1>2. Cardinality(ActiveAdmins) > 1
  BY DEF LastAdminPreserved, ActiveAdmins
<1>3. Cardinality({u}) = 1
  BY FS_Singleton
<1>4. ActiveAdmins # {u}
  <2>1. ActiveAdmins = {u} => Cardinality(ActiveAdmins) = 1
    BY <1>3, Zenon
  <2>2. QED
    BY <1>2, <2>1
<1>5. PICK w : ~(w \in ActiveAdmins <=> w \in {u})
  BY <1>4
<1>6. QED
  BY <1>5

\* Only a wrong password takes the last active administrator away.
LEMMA DisarmStep ==
  ASSUME TypeOK, [Next]_vars, ActiveAdmins # {}, ActiveAdmins' = {}
  PROVE  \E u \in ActiveAdmins : user'[u].status = "locked"
<1>1. PICK v : v \in ActiveAdmins
  OBVIOUS
<1>2. /\ v \in Accounts /\ user[v].status = "active" /\ "system_admin" \in fixed[v]
      /\ \A x \in Accounts : ~(user'[x].status = "active" /\ "system_admin" \in fixed'[x])
  BY <1>1 DEF ActiveAdmins, FixedAdmin
<1>3. ASSUME NEW a \in Accounts, NEW u \in Accounts, NEW roles, ReplaceRoles(a, u, roles),
             user' = user
      PROVE  FALSE
  <2>1. fixed' = [fixed EXCEPT ![u] = roles] /\ fixed \in [Accounts -> SUBSET Roles]
    BY <1>3 DEF ReplaceRoles, TypeOK
  <2>2. v = u /\ "system_admin" \notin roles
    BY <1>2, <1>3, <2>1
  <2>3. LastAdminPreserved(u, FALSE)
    BY <1>3, <2>2 DEF ReplaceRoles
  <2>4. PICK w \in ActiveAdmins : w # u
    BY <1>1, <2>2, <2>3, AnotherAdmin
  <2>5. QED
    BY <1>2, <1>3, <2>1, <2>4 DEF ActiveAdmins, FixedAdmin
<1>4. ASSUME NEW u \in Accounts, AtMost(u), Settled(u) PROVE FALSE
  <2>1. v = u /\ fixed' = fixed
    BY <1>2, <1>4 DEF AtMost
  <2>2. LastAdminPreserved(u, FALSE)
    BY <1>2, <1>4, <2>1 DEF Settled
  <2>3. PICK w \in ActiveAdmins : w # u
    BY <1>1, <2>1, <2>2, AnotherAdmin
  <2>4. QED
    BY <1>2, <1>4, <2>1, <2>3 DEF AtMost, ActiveAdmins, FixedAdmin
<1>5. ASSUME NEW u \in Accounts, AtMost(u), LoginWrong(u)
      PROVE  user'[v].status = "locked"
  <2>1. v = u /\ fixed' = fixed /\ user'[u].status # "active"
    BY <1>2, <1>5 DEF AtMost
  <2>2. user \in [Accounts -> UserRecord] /\ user[u].status = "active"
    BY <1>2, <2>1 DEF TypeOK, SessionTypeOK
  <2>3. user'[u] = Failed(user[u])
    BY <1>5, <2>2 DEF LoginWrong, Lifted, LockOver
  <2>4. QED
    BY <2>1, <2>2, <2>3 DEF Failed, UserRecord
<1>6. QED
  BY <1>1, <1>2, <1>3, <1>4, <1>5, AccountStep

\* The organization loses its last active administrator only to a lockout.
THEOREM OnlyLockoutsDisarmCorrect == Spec => OnlyLockoutsDisarm
<1>1. TypeOK /\ [Next]_vars =>
        [ActiveAdmins # {} /\ ActiveAdmins' = {} =>
           \E u \in ActiveAdmins : user'[u].status = "locked"]_vars
  BY DisarmStep
<1>2. QED
  BY <1>1, TypeCorrect, PTL DEF Spec, OnlyLockoutsDisarm

-----------------------------------------------------------------------------
(******************************* Lockout **********************************)

\* The first n of the times w are a lock's length before t.
Old(w, n, t) == \A i \in 1..n : w[i] + LockTicks <= t

\* None of the n times w is after t; a lock ran out between the last f of them
\* and those before.
Ordered(w, n, f, t) ==
  /\ \A i \in 1..n : w[i] \in Nat /\ w[i] <= t
  /\ \A i, j \in 1..n : i <= n - f /\ n - f < j => w[i] + LockTicks <= w[j]

\* The last f of the wrong passwords since a success count.
Counted(w, f, t) ==
  /\ f <= Len(w) /\ Len(w) <= FailureLimit + 1
  /\ Len(w) > 0 => f > 0
  /\ Ordered(w, Len(w), f, t)

\* Wrong passwords and the status of an account: an active account is not at
\* the limit, a locked one is, and its lock outlasts the failures by LockTicks.
LockOK(u) ==
  LET w == wrongAt[u] f == user[u].failed IN
  /\ Counted(w, f, now)
  /\ user[u].status = "absent" => w = <<>>
  /\ user[u].status = "active" => f < FailureLimit /\ Old(w, Len(w) - f, now)
  /\ user[u].status = "locked" => f = FailureLimit /\ Old(w, Len(w), user[u].until)

\* The inductive invariant of the lockout.
LocksOK == \A u \in Accounts : LockOK(u)

\* Times, and sequences of them, are numbers.
LEMMA TimesAreNumbers ==
  /\ Times \subseteq Nat
  /\ \A w \in Seq(Times) : Len(w) \in Nat /\ \A i \in 1..Len(w) : w[i] \in Nat
<1>1. Times \subseteq Nat
  BY Constants
<1>2. \A w \in Seq(Times) : Len(w) \in Nat /\ \A i \in 1..Len(w) : w[i] \in Times
  OBVIOUS
<1>3. QED
  BY <1>1, <1>2

\* The invariant gives the bound on guesses.
LEMMA LocksImply == TypeOK /\ LocksOK => LockoutBounds
<1> SUFFICES ASSUME TypeOK, LocksOK, NEW u \in Accounts
             PROVE  /\ Len(wrongAt[u]) > FailureLimit =>
                         wrongAt[u][FailureLimit + 1] - wrongAt[u][1] >= LockTicks
                    /\ user[u].status = "locked" => user[u].until > 0
  BY DEF LockoutBounds
<1> DEFINE w == wrongAt[u]
           f == user[u].failed
<1>1. /\ Len(w) \in Nat /\ \A i \in 1..Len(w) : w[i] \in Nat
      /\ f \in 0..FailureLimit /\ user[u].until \in Nat
  <2>1. wrongAt[u] \in Seq(Times) /\ user[u] \in UserRecord
    BY DEF TypeOK, SessionTypeOK
  <2>2. user[u].failed \in 0..FailureLimit /\ user[u].until \in Times
    BY <2>1 DEF UserRecord
  <2>3. QED
    BY <2>1, <2>2, TimesAreNumbers
<1>2. /\ Counted(w, f, now)
      /\ user[u].status = "locked" => f = FailureLimit /\ Old(w, Len(w), user[u].until)
  BY DEF LocksOK, LockOK
<1> HIDE DEF w, f
<1>3. ASSUME Len(w) > FailureLimit PROVE w[FailureLimit + 1] - w[1] >= LockTicks
  <2>1. Len(w) = FailureLimit + 1 /\ f > 0
    BY <1>1, <1>2, <1>3 DEF Counted
  <2>2. 1 \in 1..Len(w) /\ FailureLimit + 1 \in 1..Len(w)
    BY <2>1
  <2>3. 1 <= Len(w) - f /\ Len(w) - f < FailureLimit + 1
    BY <1>1, <2>1
  <2>4. w[1] + LockTicks <= w[FailureLimit + 1]
    BY <1>2, <2>2, <2>3 DEF Counted, Ordered
  <2>5. QED
    BY <1>1, <2>2, <2>4
<1>4. ASSUME user[u].status = "locked" PROVE user[u].until > 0
  <2>1. 1 \in 1..Len(w)
    BY <1>1, <1>2, <1>4 DEF Counted
  <2>2. w[1] + LockTicks <= user[u].until
    BY <1>2, <1>4, <2>1 DEF Old
  <2>3. QED
    BY <1>1, <2>1, <2>2
<1>5. QED
  BY <1>3, <1>4 DEF w

\* seen is w with t at its end; v is seen without its head.
Extends(seen, w, n, t) == seen[n + 1] = t /\ \A i \in 1..n : seen[i] = w[i]
Shifts(v, seen, n)     == \A i \in 1..n : v[i] = seen[i + 1]

\* One more wrong password keeps the order, when those that do not count any
\* more are old enough.
LEMMA OneMore ==
  ASSUME NEW w, NEW seen, NEW n \in Nat, NEW f \in Nat, NEW t \in Nat, NEW g \in Nat \ {0},
         Ordered(w, n, f, t), Extends(seen, w, n, t),
         \/ g = f + 1 /\ Old(w, n - f, t)
         \/ g = 1 /\ Old(w, n, t)
  PROVE  Ordered(seen, n + 1, g, t) /\ Old(seen, (n + 1) - g, t)
<1>0. /\ \A i \in 1..n : w[i] \in Nat /\ w[i] <= t /\ seen[i] = w[i]
      /\ seen[n + 1] = t
  BY DEF Ordered, Extends
<1>1. \A i \in 1..(n + 1) : seen[i] \in Nat /\ seen[i] <= t
  BY <1>0
<1>2. \A i \in 1..((n + 1) - g) : i \in 1..n /\ seen[i] + LockTicks <= t
  BY <1>0 DEF Old
<1>3. ASSUME NEW i \in 1..(n + 1), NEW j \in 1..(n + 1), i <= (n + 1) - g, (n + 1) - g < j
      PROVE  seen[i] + LockTicks <= seen[j]
  <2>1. CASE j = n + 1
    <3>1. i \in 1..((n + 1) - g)
      BY <1>3
    <3>2. QED
      BY <1>0, <1>2, <2>1, <3>1
  <2>2. CASE j # n + 1
    <3>1. g = f + 1 /\ i \in 1..n /\ j \in 1..n /\ i <= n - f /\ n - f < j
      BY <1>3, <2>2
    <3>2. w[i] + LockTicks <= w[j]
      BY <3>1 DEF Ordered
    <3>3. QED
      BY <1>0, <3>1, <3>2
  <2>3. QED
    BY <2>1, <2>2
<1>4. QED
  BY <1>1, <1>2, <1>3 DEF Ordered, Old

\* Forgetting the oldest of them keeps it, too.
LEMMA OneLess ==
  ASSUME NEW v, NEW seen, NEW n \in Nat, NEW t \in Nat, NEW g \in Nat \ {0},
         Shifts(v, seen, n), Ordered(seen, n + 1, g, t), Old(seen, (n + 1) - g, t)
  PROVE  Ordered(v, n, g, t) /\ Old(v, n - g, t)
<1>0. \A i \in 1..n : v[i] = seen[i + 1]
  BY DEF Shifts
<1>1. \A i \in 1..n : v[i] \in Nat /\ v[i] <= t /\ i + 1 \in 1..(n + 1)
  BY <1>0 DEF Ordered
<1>2. \A i \in 1..(n - g) : v[i] + LockTicks <= t
  <2>1. \A i \in 1..(n - g) : i \in 1..n /\ i + 1 \in 1..((n + 1) - g)
    OBVIOUS
  <2>2. QED
    BY <1>0, <2>1 DEF Old
<1>3. ASSUME NEW i \in 1..n, NEW j \in 1..n, i <= n - g, n - g < j
      PROVE  v[i] + LockTicks <= v[j]
  <2>1. i + 1 <= (n + 1) - g /\ (n + 1) - g < j + 1
    BY <1>3
  <2>2. seen[i + 1] + LockTicks <= seen[j + 1]
    BY <1>1, <2>1 DEF Ordered
  <2>3. QED
    BY <1>0, <2>2
<1>4. QED
  BY <1>1, <1>2, <1>3 DEF Ordered, Old

\* Both together, for the sequence that a wrong password leaves.
LEMMA WrongCounted ==
  ASSUME NEW w \in Seq(Times), NEW f \in 0..FailureLimit, NEW t \in Times, Counted(w, f, t),
         NEW g \in 1..FailureLimit,
         \/ g = f + 1 /\ Old(w, Len(w) - f, t)
         \/ g = 1 /\ Old(w, Len(w), t),
         NEW seen, seen = Append(w, t),
         NEW v, v = IF Len(seen) > FailureLimit + 1 THEN Tail(seen) ELSE seen
  PROVE  Counted(v, g, t) /\ Old(v, Len(v) - g, t)
<1> DEFINE n == Len(w)
<1>1. n \in Nat /\ t \in Nat
  BY TimesAreNumbers
<1>2. seen \in Seq(Times) /\ Len(seen) = n + 1
  OBVIOUS
<1>3. Extends(seen, w, n, t)
  BY DEF Extends
<1>4. /\ f <= n /\ n <= FailureLimit + 1 /\ Ordered(w, n, f, t)
      /\ \/ g = f + 1 /\ Old(w, n - f, t)
         \/ g = 1 /\ Old(w, n, t)
  BY DEF Counted
<1> HIDE DEF n
<1>5. Ordered(seen, n + 1, g, t) /\ Old(seen, (n + 1) - g, t)
  <2>1. f \in Nat /\ g \in Nat \ {0}
    OBVIOUS
  <2>2. QED
    BY <1>1, <1>3, <1>4, <2>1, OneMore
<1>6. g <= n + 1
  BY <1>1, <1>4
<1>7. CASE n <= FailureLimit
  <2>1. v = seen
    BY <1>1, <1>2, <1>7
  <2>2. Len(v) = n + 1 /\ Len(v) - g = (n + 1) - g
    BY <1>2, <2>1
  <2>3. n + 1 <= FailureLimit + 1 /\ n + 1 > 0 /\ g > 0
    BY <1>1, <1>7
  <2>4. Ordered(v, Len(v), g, t) /\ Old(v, Len(v) - g, t)
    BY <1>5, <2>1, <2>2
  <2>5. QED
    BY <1>6, <2>2, <2>3, <2>4 DEF Counted
<1>8. CASE n = FailureLimit + 1
  <2>1. v = Tail(seen)
    BY <1>2, <1>8
  <2>2. Len(v) = n /\ \A i \in 1..n : v[i] = seen[i + 1]
    BY <1>1, <1>2, <1>8, <2>1
  <2>3. Shifts(v, seen, n)
    BY <2>2 DEF Shifts
  <2>4. Ordered(v, n, g, t) /\ Old(v, n - g, t)
    BY <1>1, <1>5, <2>3, OneLess
  <2>5. g <= n /\ n <= FailureLimit + 1 /\ g > 0
    BY <1>8
  <2>6. QED
    BY <2>2, <2>4, <2>5 DEF Counted
<1>9. QED
  BY <1>1, <1>4, <1>7, <1>8

\* A wrong password keeps the invariant of its account.
LEMMA WrongStep ==
  ASSUME TypeOK, NEW u \in Accounts, LockOK(u), LoginWrong(u)
  PROVE  LockOK(u)'
<1> DEFINE w == wrongAt[u]
           row == Lifted(u)
           seen == Append(w, now)
           v == IF Len(seen) > FailureLimit + 1 THEN Tail(seen) ELSE seen
<1>1. /\ w \in Seq(Times) /\ now \in Times /\ row \in UserRecord /\ user[u] \in UserRecord
      /\ user \in [Accounts -> UserRecord] /\ wrongAt \in [Accounts -> Seq(Times)]
  BY UserTypes, Constants DEF TypeOK, SessionTypeOK
<1>2. user'[u] = Failed(row) /\ wrongAt'[u] = v /\ now' = now
  BY <1>1 DEF LoginWrong
<1>3. /\ user[u].status = "active" =>
           user[u].failed < FailureLimit /\ Old(w, Len(w) - user[u].failed, now)
      /\ user[u].status = "locked" => Old(w, Len(w), user[u].until)
      /\ Counted(w, user[u].failed, now)
  BY DEF LockOK
<1>4. /\ Len(w) \in Nat /\ \A i \in 1..Len(w) : w[i] \in Nat
      /\ now \in Nat /\ user[u].until \in Nat /\ user[u].failed \in 0..FailureLimit
  BY <1>1, TimesAreNumbers DEF UserRecord
<1>5. /\ row.status = "active"
      /\ \/ row.failed = 0 /\ Old(w, Len(w), now)
         \/ /\ row.failed = user[u].failed /\ user[u].failed < FailureLimit
            /\ Old(w, Len(w) - user[u].failed, now)
  <2>1. CASE LockOver(u)
    <3>1. row.failed = 0 /\ row.status = "active"
      BY <1>1, <2>1 DEF Lifted, UserRecord
    <3>2. Old(w, Len(w), user[u].until) /\ user[u].until <= now
      BY <1>3, <2>1 DEF LockOver
    <3>3. QED
      BY <1>4, <3>1, <3>2 DEF Old
  <2>2. CASE ~LockOver(u)
    BY <1>3, <2>2 DEF Lifted, LoginWrong, LoginAllowed
  <2>3. QED
    BY <2>1, <2>2
<1> DEFINE g == row.failed + 1
<1>6. g \in 1..FailureLimit
  BY <1>4, <1>5
<1>7. Counted(v, g, now) /\ Old(v, Len(v) - g, now)
  <2> HIDE DEF row
  <2>1. \/ g = user[u].failed + 1 /\ Old(w, Len(w) - user[u].failed, now)
        \/ g = 1 /\ Old(w, Len(w), now)
    BY <1>5
  <2> HIDE DEF g, w, v, seen
  <2>2. seen = Append(w, now)
          /\ v = IF Len(seen) > FailureLimit + 1 THEN Tail(seen) ELSE seen
    BY DEF seen, v
  <2>3. QED
    BY <1>1, <1>3, <1>4, <1>6, <2>1, <2>2, WrongCounted
<1>8. CASE g >= FailureLimit
  <2>1. Failed(row) = [row EXCEPT !.failed = FailureLimit, !.status = "locked",
                                  !.until = now + LockTicks]
    BY <1>8 DEF Failed
  <2> HIDE DEF row, v
  <2>2. /\ user'[u].failed = FailureLimit /\ user'[u].status = "locked"
        /\ user'[u].until = now + LockTicks
    BY <1>1, <1>2, <2>1 DEF UserRecord
  <2>3. g = FailureLimit
    BY <1>6, <1>8
  <2>4. \A i \in 1..Len(v) : v[i] \in Nat /\ v[i] <= now
    BY <1>7 DEF Counted, Ordered
  <2>5. Old(v, Len(v), now + LockTicks)
    BY <1>4, <2>4 DEF Old
  <2>6. QED
    BY <1>2, <1>7, <2>2, <2>3, <2>5 DEF LockOK
<1>9. CASE ~(g >= FailureLimit)
  <2>1. Failed(row) = [row EXCEPT !.failed = @ + 1]
    BY <1>9 DEF Failed
  <2> HIDE DEF row, v
  <2>2. user'[u].failed = g /\ user'[u].status = "active"
    BY <1>1, <1>2, <1>5, <2>1 DEF UserRecord
  <2>3. g < FailureLimit
    BY <1>6, <1>9
  <2>4. QED
    BY <1>2, <1>7, <2>2, <2>3 DEF LockOK
<1>10. QED
  BY <1>8, <1>9

\* Each step keeps the invariant of every account.
LEMMA LocksStep == TypeOK /\ LocksOK /\ [Next]_vars => LocksOK'
<1> SUFFICES ASSUME TypeOK, LocksOK, [Next]_vars, NEW u \in Accounts PROVE LockOK(u)'
  BY DEF LocksOK
<1>0. LockOK(u)
  BY DEF LocksOK
<1>1. ASSUME user'[u] = user[u], wrongAt'[u] = wrongAt[u] PROVE LockOK(u)'
  <2> DEFINE w == wrongAt[u]
             f == user[u].failed
  <2>1. /\ Len(w) \in Nat /\ f \in Nat /\ \A i \in 1..Len(w) : w[i] \in Nat
        /\ now \in Nat /\ now' \in Nat /\ now' >= now
    <3>1. wrongAt[u] \in Seq(Times) /\ user[u] \in UserRecord
      BY DEF TypeOK, SessionTypeOK
    <3>2. now \in Nat /\ now' \in Nat /\ now' >= now
      BY UsersStay, TypeStep DEF TypeOK, SessionTypeOK
    <3>3. user[u].failed \in Nat
      BY <3>1 DEF UserRecord
    <3>4. QED
      BY <3>1, <3>2, <3>3, TimesAreNumbers
  <2>2. Counted(w, f, now) /\ (user[u].status = "active" => Old(w, Len(w) - f, now))
    BY <1>0 DEF LockOK
  <2> HIDE DEF w, f
  <2>3. Counted(w, f, now')
    BY <2>1, <2>2 DEF Counted, Ordered
  <2>4. ASSUME user[u].status = "active" PROVE Old(w, Len(w) - f, now')
    <3>1. \A i \in 1..(Len(w) - f) : i \in 1..Len(w)
      BY <2>1
    <3>2. QED
      BY <2>1, <2>2, <2>4, <3>1 DEF Old
  <2>5. QED
    BY <1>0, <1>1, <2>3, <2>4 DEF LockOK, w, f
<1>2. ASSUME NEW x \in Accounts, AtMost(x), LoginWrong(x) PROVE LockOK(u)'
  BY <1>0, <1>1, <1>2, WrongStep DEF AtMost
<1>3. ASSUME NEW x \in Accounts, AtMost(x), Settled(x) PROVE LockOK(u)'
  <2>1. CASE u # x
    BY <1>1, <1>3, <2>1 DEF AtMost
  <2>2. CASE u = x
    <3>1. wrongAt'[u] = <<>>
      BY <1>0, <1>3, <2>2 DEF Settled, LockOK
    <3>2. user'[u].failed = 0 /\ user'[u].status \in {"active", "disabled"}
      BY <1>3, <2>2 DEF Settled
    <3>3. Len(<<>>) = 0 /\ 1..0 = {} /\ 1..(0 - 0) = {}
      OBVIOUS
    <3>4. QED
      BY <3>1, <3>2, <3>3 DEF LockOK, Counted, Ordered, Old
  <2>3. QED
    BY <2>1, <2>2
<1>4. QED
  BY <1>1, <1>2, <1>3, AccountStep

\* Nobody has failed at the start.
LEMMA LocksStart == Init => LocksOK
<1> SUFFICES ASSUME Init, NEW u \in Accounts PROVE LockOK(u)
  BY DEF LocksOK
<1>1. /\ wrongAt[u] = <<>> /\ user[u].failed = 0 /\ user[u].status \in {"active", "absent"}
  BY DEF Init, SessionInit, NewUser, NoUser
<1>2. Len(<<>>) = 0 /\ 1..0 = {} /\ 1..(0 - 0) = {}
  OBVIOUS
<1>3. QED
  BY <1>1, <1>2 DEF LockOK, Counted, Ordered, Old

\* Guesses beyond the limit wait for the lock, and every lock ends.
THEOREM LockoutBoundsCorrect == Spec => []LockoutBounds
BY TypeCorrect, LocksStart, LocksStep, LocksImply, PTL DEF Spec

=============================================================================
