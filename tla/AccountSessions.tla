--------------------------- MODULE AccountSessions ---------------------------
(***************************************************************************)
(* Accounts and sessions (services/auth.py, repositories/auth.py and the   *)
(* parts of services/user_management.py that touch the users row): login   *)
(* with its lockout, refresh tokens that rotate, logout, the forced change *)
(* of a password, and what ends every session of a user.                   *)
(* Every action is one transaction under the row lock of the user or of    *)
(* the session, at the time the database read after taking that lock.      *)
(* A denied attempt that changes neither row is not a step; the operation  *)
(* log is left out.  Passwords are right or wrong; tokens are unforgeable, *)
(* and every token ever issued may be presented at any later time, by its  *)
(* owner or by somebody who copied it.                                     *)
(***************************************************************************)
EXTENDS Integers, Sequences, FiniteSets

CONSTANTS
  Accounts,        \* the users there may be
  Guessed,         \* the users whose password is guessed (bound)
  Sessions,        \* identities of token_sessions rows (bound)
  FailureLimit,    \* LOGIN_FAILURE_LIMIT (5 in the code)
  LockTicks,       \* LOGIN_LOCK_DURATION
  SessionTicks,    \* REFRESH_SESSION_TTL
  RememberedTicks, \* REMEMBERED_REFRESH_SESSION_TTL
  MaxNow,          \* bound of the clock
  MaxTurns         \* bound of the rotations of one refresh token

ASSUME AccountSessionsAssumption ==
  /\ Accounts # {} /\ IsFiniteSet(Accounts) /\ Guessed \subseteq Accounts
  /\ FailureLimit \in Nat \ {0}
  /\ LockTicks \in Nat \ {0}
  /\ SessionTicks \in Nat \ {0} /\ RememberedTicks \in Nat \ {0}
  /\ MaxNow \in Nat /\ MaxTurns \in Nat

VARIABLES
  now,      \* clock_timestamp()
  user,     \* the users rows
  session,  \* the token_sessions rows
  access,   \* the access tokens issued, each with the epoch it embeds
  tickets,  \* the password-change tokens issued
  ended,    \* history: sessions that were logged out, reused or invalidated
  wrongAt   \* history: when the last wrong passwords since a success were checked

svars == <<now, user, session, access, tickets, ended, wrongAt>>

Times == 0..(MaxNow + LockTicks + SessionTicks + RememberedTicks)

\* until: locked_until, 0 for NULL; epoch: token_invalid_before;
\* force: force_change_on_login.
UserRecord ==
  [status : {"absent", "active", "locked", "disabled"},
   failed : 0..FailureLimit, until : Times, epoch : Times, force : BOOLEAN]
NoUser == [status |-> "absent", failed |-> 0, until |-> 0, epoch |-> 0,
           force |-> FALSE]

\* turn: which rotation of the refresh token the row holds the digest of.
SessionRecord ==
  [status : {"absent", "live", "revoked"}, owner : Accounts, turn : 0..MaxTurns,
   issued : Times, expires : Times]
NoSession == [status |-> "absent", owner |-> CHOOSE u \in Accounts : TRUE,
              turn |-> 0, issued |-> 0, expires |-> 0]

NewUser == [status |-> "active", failed |-> 0, until |-> 0, epoch |-> now,
            force |-> TRUE]

-----------------------------------------------------------------------------
(****************************** Decisions *********************************)

\* Faulty variant: the lock is lifted by the next login, whenever it comes.
LockOverAtOnce(u) == user[u].status = "locked"

\* _login_state_allows_password, which also lifts a lock that ran out.
LockOver(u)     == user[u].status = "locked" /\ user[u].until <= now
LoginAllowed(u) == user[u].status = "active" \/ LockOver(u)
Lifted(u) ==
  IF LockOver(u)
  THEN [user[u] EXCEPT !.status = "active", !.until = 0, !.failed = 0]
  ELSE user[u]

\* _record_login_failure.
Failed(row) ==
  IF row.failed + 1 >= FailureLimit
  THEN [row EXCEPT !.failed = FailureLimit, !.status = "locked",
                   !.until = now + LockTicks]
  ELSE [row EXCEPT !.failed = @ + 1]

\* _user_allows_session.
UserAllows(s) ==
  LET u == session[s].owner IN
  /\ user[u].status = "active"
  /\ session[s].issued >= user[u].epoch
  /\ session[s].expires > now

\* The refresh token of turn t is the one that rotates session s.
RefreshAccepts(s, t) ==
  /\ session[s].status = "live"
  /\ t = session[s].turn
  /\ session[s].expires > now
  /\ UserAllows(s)

\* _claims_match_session.
AccessAccepts(token) ==
  /\ session[token.session].status = "live"
  /\ session[token.session].expires > now
  /\ UserAllows(token.session)
  /\ token.epoch = user[session[token.session].owner].epoch

\* revoke_all_user_sessions.
SessionsOf(u)  == {s \in Sessions : session[s].status # "absent" /\ session[s].owner = u}
\* Faulty variant: only token_invalid_before ends sessions.
RevokedAllByEpoch(u) == session
RevokedAll(u)  ==
  [s \in Sessions |-> IF s \in SessionsOf(u) THEN [session[s] EXCEPT !.status = "revoked"]
                                             ELSE session[s]]

-----------------------------------------------------------------------------
(***************************** Transactions *******************************)

Forgets(u) == wrongAt' = [wrongAt EXCEPT ![u] = <<>>]

\* login with a wrong password, in a state that allows one.
LoginWrong(u) ==
  /\ u \in Guessed
  /\ LoginAllowed(u)
  /\ user' = [user EXCEPT ![u] = Failed(Lifted(u))]
  /\ wrongAt' = [wrongAt EXCEPT ![u] =
                   LET seen == Append(@, now) IN
                   IF Len(seen) > FailureLimit + 1 THEN Tail(seen) ELSE seen]
  /\ UNCHANGED <<now, session, access, tickets, ended>>

\* login with the password of the account.
LoginRight(u) ==
  /\ LoginAllowed(u)
  /\ user' = [user EXCEPT ![u] = [Lifted(u) EXCEPT !.failed = 0, !.until = 0]]
  /\ Forgets(u)
  /\ \/ /\ user[u].force
        /\ tickets' = tickets \cup {[owner |-> u, epoch |-> user[u].epoch]}
        /\ UNCHANGED <<session, access>>
     \/ /\ ~user[u].force
        /\ \E s \in Sessions, ttl \in {SessionTicks, RememberedTicks} :
             /\ session[s].status = "absent"
             /\ session' = [session EXCEPT ![s] =
                  [status |-> "live", owner |-> u, turn |-> 0, issued |-> now,
                   expires |-> now + ttl]]
             /\ access' = access \cup {[session |-> s, epoch |-> user[u].epoch]}
        /\ UNCHANGED tickets
  /\ UNCHANGED <<now, ended>>

Ends(s, history) ==
  /\ session' = [session EXCEPT ![s].status = "revoked"]
  /\ ended' = history
  /\ UNCHANGED <<now, user, access, tickets, wrongAt>>

\* refresh: a token that was rotated away ends the session.
RefreshReused(s, t) ==
  /\ session[s].status = "live" /\ t < session[s].turn
  /\ Ends(s, ended \cup {s})

\* refresh: the session ran out, or its user does not allow it any more.
RefreshRefused(s) ==
  /\ session[s].status = "live" /\ ~RefreshAccepts(s, session[s].turn)
  /\ Ends(s, ended)

\* refresh: the token is replaced, in the same row.
RefreshRotated(s, t) ==
  /\ RefreshAccepts(s, t)
  /\ session[s].turn < MaxTurns
  /\ session' = [session EXCEPT ![s].turn = @ + 1]
  /\ access' = access \cup {[session |-> s, epoch |-> user[session[s].owner].epoch]}
  /\ UNCHANGED <<now, user, tickets, ended, wrongAt>>

\* logout: whichever token of the session is presented.
Logout(s, t) ==
  /\ session[s].status = "live" /\ t <= session[s].turn
  /\ Ends(s, ended \cup {s})

\* What change_password, reset_password and update_status have in common.
Invalidates(u, row) ==
  /\ user' = [user EXCEPT ![u] = [row EXCEPT !.failed = 0, !.until = 0, !.epoch = now]]
  /\ session' = RevokedAll(u)
  /\ ended' = ended \cup SessionsOf(u)
  /\ Forgets(u)
  /\ UNCHANGED <<now, access, tickets>>

\* change_password, with the token that login gave.
ChangePassword(ticket) ==
  LET u == ticket.owner IN
  /\ user[u].force /\ user[u].status = "active"
  /\ ticket.epoch = user[u].epoch
  /\ Invalidates(u, [user[u] EXCEPT !.force = FALSE])

\* UserManagementService.reset_password.
ResetPassword(u) ==
  /\ user[u].status # "absent"
  /\ Invalidates(u, [user[u] EXCEPT !.force = TRUE,
                                    !.status = IF @ = "locked" THEN "active" ELSE @])

\* UserManagementService._mutate_status.
UpdateStatus(u, status) ==
  /\ user[u].status \notin {"absent", status}
  /\ Invalidates(u, [user[u] EXCEPT !.status = status])

\* UserManagementService.create_user, the users row.
CreateUser(u) ==
  /\ user[u].status = "absent"
  /\ user' = [user EXCEPT ![u] = NewUser]
  /\ UNCHANGED <<now, session, access, tickets, ended, wrongAt>>

Tick ==
  /\ now < MaxNow
  /\ now' = now + 1
  /\ UNCHANGED <<user, session, access, tickets, ended, wrongAt>>

\* What users do on their own.
SessionStep ==
  \/ \E u \in Accounts : LoginWrong(u) \/ LoginRight(u)
  \/ \E s \in Sessions : RefreshRefused(s)
  \/ \E s \in Sessions, t \in 0..MaxTurns :
       RefreshReused(s, t) \/ RefreshRotated(s, t) \/ Logout(s, t)
  \/ \E ticket \in tickets : ChangePassword(ticket)

\* bootstrap_admin creates the first administrators; the others are absent.
SessionInit(admins) ==
  /\ now = 0
  /\ user = [u \in Accounts |-> IF u \in admins THEN [NewUser EXCEPT !.epoch = 0] ELSE NoUser]
  /\ session = [s \in Sessions |-> NoSession]
  /\ access = {} /\ tickets = {} /\ ended = {}
  /\ wrongAt = [u \in Accounts |-> <<>>]

-----------------------------------------------------------------------------
(****************************** Properties ********************************)

\* The types of accounts, sessions and tokens.
SessionTypeOK ==
  /\ now \in 0..MaxNow
  /\ user \in [Accounts -> UserRecord]
  /\ session \in [Sessions -> SessionRecord]
  /\ access \subseteq [session : Sessions, epoch : Times]
  /\ tickets \subseteq [owner : Accounts, epoch : Times]
  /\ ended \subseteq Sessions
  /\ wrongAt \in [Accounts -> Seq(Times)]

\* A session that was logged out, whose rotated token came back, or whose
\* user changed password, was reset or changed status stays dead: none of its
\* refresh tokens and access tokens is ever accepted again, whatever happens
\* to the account later (revoked_at and token_invalid_before together).
EndedSessionIsDead ==
  \A s \in ended :
    /\ \A t \in 0..MaxTurns : ~RefreshAccepts(s, t)
    /\ \A token \in access : token.session = s => ~AccessAccepts(token)

\* The lockout bounds guessing: more than FailureLimit wrong passwords of an
\* account are checked without a success or an administrator in between only
\* over at least LockTicks; and a lock always has an end (locked_until).
LockoutBounds ==
  \A u \in Accounts :
    /\ Len(wrongAt[u]) > FailureLimit =>
         wrongAt[u][FailureLimit + 1] - wrongAt[u][1] >= LockTicks
    /\ user[u].status = "locked" => user[u].until > 0
=============================================================================
