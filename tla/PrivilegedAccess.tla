-------------------------- MODULE PrivilegedAccess --------------------------
(***************************************************************************)
(* Who may do what (services/user_management.py, services/break_glass.py,  *)
(* the triggers of migration 008 on user_roles and break_glass_requests),  *)
(* composed with the accounts and sessions it rests on.                    *)
(* A management request is authenticated in one transaction and carried    *)
(* out in another, which takes the lock of the organization, so management *)
(* transactions run one at a time; the actor may lose session, status or   *)
(* role in between.  Every role is enabled.  The row_version a request     *)
(* carries is the current one, and an idempotency key is new: the replay   *)
(* of a request is answered from its record and changes nothing.           *)
(***************************************************************************)
EXTENDS AccountSessions

CONSTANTS
  Roles,          \* the role codes of the instance
  RoleSets,       \* the role sets an administrator may ask for (bound)
  Founders,       \* the administrators at the start
  Requests,       \* identities of break_glass_requests rows (bound)
  GrantTicks,     \* requested_duration_seconds
  MaxManaged      \* bound of the management requests carried out

ASSUME PrivilegedAccessAssumption ==
  /\ {"system_admin", "read_only"} \subseteq Roles
  /\ Roles \subseteq {"system_admin", "finance_reviewer", "audit_reviewer",
                      "contract_admin", "read_only"}
  /\ RoleSets \subseteq SUBSET Roles
  /\ Founders \subseteq Accounts
  /\ GrantTicks \in Nat \ {0} /\ MaxManaged \in Nat

VARIABLES
  fixed,     \* the user_roles rows of source bootstrap or user, not revoked
  request,   \* the break_glass_requests rows
  grant,     \* the user_roles row of source break_glass, one per request
  admitted,  \* actors whose request was authenticated and not yet carried out
  managed    \* how many management requests were admitted

pvars == <<fixed, request, grant, admitted, managed>>
vars == <<svars, pvars>>

RequestRecord ==
  [status : {"absent", "pending", "approved", "rejected", "revoked"},
   target : Accounts, role : Roles, requester : Accounts, decider : Accounts,
   expires : Nat]
Anyone == CHOOSE u \in Accounts : TRUE
NoRequest == [status |-> "absent", target |-> Anyone, role |-> "read_only",
              requester |-> Anyone, decider |-> Anyone, expires |-> 0]

\* revoked_at, and the range [assigned_at, expires_at), all of them NULL
\* before the approval.
GrantRecord == [status : {"none", "given", "revoked"}, expires : Nat]
NoGrant == [status |-> "none", expires |-> 0]

-----------------------------------------------------------------------------
(******************************** Roles ***********************************)

\* active_role_codes and derive_permissions: read_only takes every mutating
\* permission away, system_admin replaces the permissions of other roles.
InForce(r) == grant[r].status = "given" /\ now < grant[r].expires
Lent(u)    == {request[r].role : r \in {x \in Requests : InForce(x) /\ request[x].target = u}}
EffectiveRoles(u) == fixed[u] \cup Lent(u)
MayManage(u) ==
  /\ "system_admin" \in EffectiveRoles(u)
  /\ "read_only" \notin EffectiveRoles(u)

\* What the triggers ask of requester, decider and revoker.
FixedAdmin(u) == user[u].status = "active" /\ "system_admin" \in fixed[u]
ActiveAdmins  == {u \in Accounts : FixedAdmin(u)}

\* _assert_roles_available and enforce_long_term_role_separation_v1.
Separated(roles) ==
  "system_admin" \in roles => roles \cap {"finance_reviewer", "audit_reviewer"} = {}

\* Faulty variant: disabled administrators count.
LastAdminPreservedByRole(u, stays) ==
  FixedAdmin(u) /\ ~stays =>
    Cardinality({x \in Accounts : "system_admin" \in fixed[x]}) > 1

\* _assert_last_admin_preserved.
LastAdminPreserved(u, stays) ==
  FixedAdmin(u) /\ ~stays => Cardinality(ActiveAdmins) > 1

\* ex_user_roles_effective_range_no_overlap, for rows that begin now and have
\* no end.
NoOverlap(u, roles) ==
  \A r \in Requests : InForce(r) /\ request[r].target = u => request[r].role \notin roles

-----------------------------------------------------------------------------
(************************** Accounts and sessions *************************)

Own(step) == step /\ UNCHANGED pvars

\* get_current_actor and require_permission.
Admit(token) ==
  LET u == session[token.session].owner IN
  /\ AccessAccepts(token)
  /\ MayManage(u)
  /\ u \notin admitted /\ managed < MaxManaged
  /\ admitted' = admitted \cup {u}
  /\ managed' = managed + 1
  /\ UNCHANGED <<svars, fixed, request, grant>>

Carried(a) ==
  /\ a \in admitted
  /\ admitted' = admitted \ {a}
  /\ UNCHANGED managed

\* update_status.
ManageStatus(a, u, status) ==
  /\ Carried(a)
  /\ LastAdminPreserved(u, status = "active" /\ "system_admin" \in fixed[u])
  /\ status = "active" => Separated(fixed[u])
  /\ UpdateStatus(u, status)
  /\ UNCHANGED <<fixed, request, grant>>

ManagePassword(a, u) ==
  /\ Carried(a)
  /\ ResetPassword(u)
  /\ UNCHANGED <<fixed, request, grant>>

\* create_user with its roles.
ManageNewUser(a, u, roles) ==
  /\ Carried(a)
  /\ Separated(roles)
  /\ CreateUser(u)
  /\ fixed' = [fixed EXCEPT ![u] = roles]
  /\ UNCHANGED <<request, grant>>

\* replace_roles: sessions go on and see the new roles.
ReplaceRoles(a, u, roles) ==
  /\ Carried(a)
  /\ user[u].status # "absent"
  /\ Separated(roles) /\ roles # fixed[u]
  /\ LastAdminPreserved(u, user[u].status = "active" /\ "system_admin" \in roles)
  /\ NoOverlap(u, roles \ fixed[u])
  /\ fixed' = [fixed EXCEPT ![u] = roles]
  /\ UNCHANGED <<svars, request, grant>>

-----------------------------------------------------------------------------
(****************************** Break glass *******************************)

\* BreakGlassService.create and the insert trigger.
RequestGrant(a, r, target, role) ==
  /\ Carried(a)
  /\ request[r].status = "absent"
  /\ FixedAdmin(a)
  /\ user[target].status = "active"
  /\ role # "read_only" /\ role \notin EffectiveRoles(target)
  /\ request' = [request EXCEPT ![r] =
       [NoRequest EXCEPT !.status = "pending", !.target = target, !.role = role,
                         !.requester = a]]
  /\ UNCHANGED <<svars, fixed, grant>>

\* Faulty variant: the requester may decide.
MayDecideOwn(a, r) ==
  request[r].status = "pending" /\ a # request[r].target /\ FixedAdmin(a)

\* What decide asks of the actor, in the service and in the trigger.
MayDecide(a, r) ==
  /\ request[r].status = "pending"
  /\ a \notin {request[r].requester, request[r].target}
  /\ FixedAdmin(a)

\* decide, approved: the request and its assignment, in one transaction.
Approve(a, r) ==
  LET q == request[r] IN
  /\ Carried(a)
  /\ MayDecide(a, r)
  /\ user[q.requester].status = "active"
  /\ user[q.target].status = "active"
  /\ q.role \notin EffectiveRoles(q.target)
  /\ request' = [request EXCEPT ![r] =
       [@ EXCEPT !.status = "approved", !.decider = a, !.expires = now + GrantTicks]]
  /\ grant' = [grant EXCEPT ![r] = [status |-> "given", expires |-> now + GrantTicks]]
  /\ UNCHANGED <<svars, fixed>>

Reject(a, r) ==
  /\ Carried(a)
  /\ MayDecide(a, r)
  /\ request' = [request EXCEPT ![r].status = "rejected", ![r].decider = a]
  /\ UNCHANGED <<svars, fixed, grant>>

\* Faulty variant: the assignment stays.
RevokeRequestOnly(a, r) ==
  /\ Carried(a)
  /\ request[r].status = "approved" /\ now < request[r].expires
  /\ FixedAdmin(a)
  /\ request' = [request EXCEPT ![r].status = "revoked"]
  /\ UNCHANGED <<svars, fixed, grant>>

\* revoke: the request and its assignment, before the range ends.
Revoke(a, r) ==
  /\ Carried(a)
  /\ request[r].status = "approved" /\ grant[r].status = "given"
  /\ now < request[r].expires
  /\ FixedAdmin(a)
  /\ request' = [request EXCEPT ![r].status = "revoked"]
  /\ grant' = [grant EXCEPT ![r].status = "revoked"]
  /\ UNCHANGED <<svars, fixed>>

Manage(a) ==
  \/ \E u \in Accounts :
       \/ \E status \in {"active", "disabled"} : ManageStatus(a, u, status)
       \/ ManagePassword(a, u)
       \/ \E roles \in RoleSets :
            ManageNewUser(a, u, roles) \/ ReplaceRoles(a, u, roles)
  \/ \E r \in Requests :
       \/ \E u \in Accounts, role \in Roles : RequestGrant(a, r, u, role)
       \/ Approve(a, r) \/ Reject(a, r) \/ Revoke(a, r)

Init ==
  /\ SessionInit(Founders)
  /\ fixed = [u \in Accounts |-> IF u \in Founders THEN {"system_admin"} ELSE {}]
  /\ request = [r \in Requests |-> NoRequest]
  /\ grant = [r \in Requests |-> NoGrant]
  /\ admitted = {} /\ managed = 0

Next ==
  \/ Own(SessionStep) \/ Own(Tick)
  \/ \E token \in access : Admit(token)
  \/ \E a \in Accounts : Manage(a)

Spec == Init /\ [][Next]_vars

-----------------------------------------------------------------------------
(****************************** Properties ********************************)

\* The types of roles, requests and grants.
TypeOK ==
  /\ SessionTypeOK
  /\ fixed \in [Accounts -> SUBSET Roles]
  /\ request \in [Requests -> RequestRecord]
  /\ grant \in [Requests -> GrantRecord]
  /\ admitted \subseteq Accounts /\ managed \in 0..MaxManaged

\* Break glass never makes one person enough: whoever holds a lent role got it
\* by a request that is approved and unexpired, from a requester and a decider
\* who are two people, the decider not the one who got it; and nobody holds a
\* role from two sources at once (the exclusion constraint on user_roles).
LentRolesAreBacked ==
  \A r \in Requests : InForce(r) =>
    /\ request[r].status = "approved" /\ now < request[r].expires
    /\ request[r].decider \notin {request[r].requester, request[r].target}
    /\ request[r].role \notin fixed[request[r].target]
    /\ \A x \in Requests \ {r} :
         InForce(x) => <<request[x].target, request[x].role>> # <<request[r].target, request[r].role>>

\* Every step moves requests and their assignments together, as the triggers
\* of migration 008 allow; the mapping forgets people, roles and times.
Lifecycle ==
  INSTANCE BreakGlassLifecycle WITH
    Requests <- Requests,
    status <- [r \in Requests |-> request[r].status],
    assignment <- [r \in Requests |-> grant[r].status]
ImplementsBreakGlass == Lifecycle!Spec

\* No administrator's request takes the last active administrator away: the
\* organization can only be left without one by a lockout (login failures).
OnlyLockoutsDisarm ==
  [][ActiveAdmins # {} /\ ActiveAdmins' = {} => \E u \in ActiveAdmins : user'[u].status = "locked"]_vars
=============================================================================
