------------------------- MODULE AuthorizationStore -------------------------
(***************************************************************************)
(* What the persistent stores promise the rest of the gateway: accounts    *)
(* and role assignments that change one at a time and at once, over the    *)
(* fixed roles and permissions of the RBAC migration.                      *)
(*                                                                         *)
(* RoleAdministration shows that the repositories and their transactions   *)
(* implement this module; ProxyAdmission is built on it.                   *)
(***************************************************************************)

CONSTANTS
    Users,           \* the names an account may have
    InitialUsers,    \* accounts that exist when the gateway starts
    InitialAdmins    \* those given the admin role by hand

ASSUME StoreAssumption ==
    /\ InitialUsers \subseteq Users
    /\ InitialAdmins \subseteq InitialUsers

VARIABLES
    accounts,    \* table users
    grants       \* table user_roles: pairs of a user and a role

-----------------------------------------------------------------------------
(* The data of the RBAC migration, never changed afterwards.               *)

Roles == {"user", "operator", "admin"}

DEFAULT_ROLE == "user"

ProxyServices == {"service-a", "service-b"}

ProxyCode(service, action) == <<"proxy", service, action>>

RolesRead == <<"authorization", "roles", "read">>

RolesManage == <<"authorization", "roles", "manage">>

ReadCodes == {ProxyCode(s, "read") : s \in ProxyServices}

WriteCodes == {ProxyCode(s, "write") : s \in ProxyServices}

role_permissions(role) ==
    CASE role = "user" -> ReadCodes
      [] role = "operator" -> ReadCodes \cup WriteCodes
      [] role = "admin" -> ReadCodes \cup WriteCodes \cup {RolesRead, RolesManage}

\* The EXISTS query over the rows of user_roles and role_permissions.
PermittedBy(rows, user, code) ==
    \E r \in Roles : <<user, r>> \in rows /\ code \in role_permissions(r)

has_permission(user, code) == PermittedBy(grants, user, code)

-----------------------------------------------------------------------------

\* The migration gave every account the default role.
StoreInit ==
    /\ accounts = InitialUsers
    /\ grants = (InitialUsers \X {DEFAULT_ROLE}) \cup (InitialAdmins \X {"admin"})

\* A new account has the default role from its first moment.
CreateUser(u) ==
    /\ u \notin accounts
    /\ accounts' = accounts \cup {u}
    /\ grants' = grants \cup {<<u, DEFAULT_ROLE>>}

AssignRole(u, r) ==
    /\ u \in accounts
    /\ <<u, r>> \notin grants
    /\ grants' = grants \cup {<<u, r>>}
    /\ UNCHANGED accounts

RemoveRole(u, r) ==
    /\ <<u, r>> \in grants
    /\ grants' = grants \ {<<u, r>>}
    /\ UNCHANGED accounts

StoreNext ==
    \E u \in Users :
        \/ CreateUser(u)
        \/ \E r \in Roles : AssignRole(u, r) \/ RemoveRole(u, r)

StoreSpec == StoreInit /\ [][StoreNext]_<<accounts, grants>>

=============================================================================
