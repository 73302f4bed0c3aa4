------------------------------ MODULE MCRoleAccess ------------------------------
(* RoleAccess with one table, one other role and every kind of start for us:  *)
(* superuser or not, the other role there or not.                             *)
EXTENDS RoleAccess

MCObjects ==
  {[type |-> "table", schema |-> "app", name |-> "t", system |-> FALSE]}

CONSTANT Other

MCInitialRoles ==
  {[n \in Names |->
      CASE n = Us -> us
        [] n = Dba -> {"login", "superuser", "inherit"}
        [] n = Reader -> {"inherit"}
        [] n = Other -> other] :
     us \in {{"inherit"}, {"superuser"}}, other \in {Unset, {"inherit"}}}

Table == CHOOSE o \in MCObjects : TRUE

Access(op, principal, option) ==
  [op |-> op, principal |-> principal, privilege |-> "SELECT",
   relation |-> Table, option |-> option]

Membership(op, role, member, admin) ==
  [op |-> op, role |-> role, member |-> member, admin |-> admin]

Create(attributes) == [op |-> "create", name |-> Other, attributes |-> attributes]
Alter(name, toggles) == [op |-> "alter", name |-> name, toggles |-> toggles]

MCMenu ==
  {Create({"login"}), Create({"inherit"}),
   Alter(Us, [inherit |-> TRUE, superuser |-> FALSE]),
   Alter(Other, [a \in {} |-> TRUE]),
   [op |-> "drop", name |-> Other],
   Membership("add", Other, Us, TRUE), Membership("add", Reader, Other, FALSE),
   Membership("add", Us, Us, FALSE), Membership("remove", Other, Us, FALSE),
   Access("grant", Other, TRUE), Access("grant", Reader, FALSE),
   Access("revoke", Other, FALSE), Access("revoke", Us, FALSE)}
===============================================================================
