------------------------ MODULE MCRoleAdministration ------------------------
(***************************************************************************)
(* Instances of RoleAdministration for TLC.                                *)
(***************************************************************************)
EXTENDS RoleAdministration

Order(op, actor, target, role) ==
    [op |-> op, actor |-> actor, target |-> target, role |-> role]

\* An administrator makes a user an administrator or no longer one, who may
\* read the roles of an account that is being registered; one role is unknown.
RacingOrders ==
    {Order("register", "ann", "eve", "user"),
     Order("assign", "ann", "bob", "admin"),
     Order("remove", "ann", "bob", "admin"),
     Order("assign", "ann", "bob", "nosuch"),
     Order("list", "bob", "eve", "user")}

=============================================================================
