------------------------- MODULE MCPrivilegedAccess -------------------------
(***************************************************************************)
(* Instances of PrivilegedAccess for TLC.                                  *)
(***************************************************************************)
EXTENDS PrivilegedAccess, TLC
\* Session identities are interchangeable.
SameSessions == Permutations(Sessions)
AskedRoles == {{"system_admin"}, {"finance_reviewer"},
               {"system_admin", "finance_reviewer"}}
=============================================================================
