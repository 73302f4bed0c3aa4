------------------------------ MODULE RoleAccess ------------------------------
(***************************************************************************)
(* Roles, memberships and relation access: the statements the security     *)
(* adapter sends, and the five listings that read them back.               *)
(*                                                                         *)
(* What a statement does on the server is external: the server may refuse  *)
(* any of them, and where it accepts one its effect is PostgreSQL's (role  *)
(* rules of versions up to 15).  Other administrators send statements of   *)
(* the same kinds, and may grant what this tool cannot: to PUBLIC, as it   *)
(* quotes every principal as an identifier, and the privileges of newer    *)
(* servers (MAINTAIN since version 17), which AccessType does not have.    *)
(*                                                                         *)
(* An access control list is a set of items, or Unset (NULL) until the     *)
(* first GRANT or REVOKE on the relation: the owner's defaults, which no   *)
(* listing that explodes the list can see.                                 *)
(***************************************************************************)
EXTENDS Naturals, FiniteSets

CONSTANTS
  Names,         \* the role names in play
  Us,            \* the role this tool connects as
  Dba,           \* another administrator, a superuser
  Reader,        \* the predefined role pg_read_all_data
  Public,        \* grantee 0 of an item
  Objects,       \* what can be owned: [type, schema, name, system]
  Privileges,    \* the values of AccessType
  Newer,         \* the privileges on relations a newer server has besides
  InitialRoles,  \* the states the roles may be in at first
  Menu,          \* bound: the commands that are given
  MaxStatements, \* bound: how many statements are accepted
  Unset          \* NULL, a role that does not exist, nothing answered

Attributes == {"login", "superuser", "inherit"}

ASSUME NamesAssumption == {Us, Dba, Reader} \subseteq Names /\ Us # Dba
ASSUME PublicAssumption == Public \notin Names /\ Unset \notin Names \cup {Public}
ASSUME UnsetAssumption == \A attributes \in SUBSET Attributes : Unset # attributes
ASSUME InitialAssumption == \A r \in InitialRoles :
  /\ r \in [Names -> (SUBSET Attributes) \cup {Unset}]
  /\ Unset \notin {r[Us], r[Dba], r[Reader]}
  /\ "superuser" \in r[Dba]
ASSUME StatementsAssumption == MaxStatements \in Nat

Relations == {o \in Objects : o.type \in {"table", "view"}}

ServerPrivileges == Privileges \cup Newer

VARIABLES
  roles,       \* pg_roles: the attributes of every role, or Unset
  memberships, \* pg_auth_members
  owner,       \* the owner of every object
  acl,         \* relacl of every relation, or Unset
  statements,  \* how many statements were accepted
  described,   \* the role row role describe has read, before the memberships
  reply        \* what the last command ended in, until something changes

accessVars ==
  <<roles, memberships, owner, acl, statements, described, reply>>

-----------------------------------------------------------------------------
(* The server's view of roles and access (external).                        *)

Exists(name) == roles[name] # Unset

Superuser(name) == Exists(name) /\ "superuser" \in roles[name]

\* The roles a role that inherits is a member of.
Parents(name) ==
  IF Exists(name) /\ "inherit" \in roles[name]
    THEN {m.role : m \in {e \in memberships : e.member = name}}
    ELSE {}

Inherited[n \in Nat] ==
  IF n = 0 THEN [name \in Names |-> {name}]
  ELSE LET before == Inherited[n - 1]
       IN  [name \in Names |->
             before[name] \cup UNION {Parents(role) : role \in before[name]}]

\* pg_has_role(name, role, 'USAGE').
HasPrivilegesOf(name, role) ==
  Superuser(name) \/ role \in Inherited[Cardinality(Names)][name]

Item(grantee, privilege, grantor, grantable) ==
  [grantee |-> grantee, privilege |-> privilege, grantor |-> grantor,
   grantable |-> grantable]

\* The list the server goes by, and the items aclexplode(relacl) returns.
Acl(relation) ==
  IF acl[relation] = Unset
    THEN {Item(owner[relation], p, owner[relation], FALSE) : p \in ServerPrivileges}
    ELSE acl[relation]

Exploded(relation) == IF acl[relation] = Unset THEN {} ELSE acl[relation]

\* pg_read_all_data gives SELECT on every relation, without an item.
ByPredefinedRole(name, privilege) ==
  privilege = "SELECT" /\ HasPrivilegesOf(name, Reader)

\* has_table_privilege(name, relation, privilege).
HasTablePrivilege(name, relation, privilege) ==
  \/ Superuser(name)
  \/ ByPredefinedRole(name, privilege)
  \/ \E item \in Acl(relation) :
       /\ item.privilege = privilege
       /\ item.grantee = Public \/ HasPrivilegesOf(name, item.grantee)

\* The role a GRANT or REVOKE by a role is recorded under: the owner for all
\* who have the owner's privileges, else a role with the grant option.
Grantors(by, relation, privilege) ==
  IF HasPrivilegesOf(by, owner[relation])
    THEN {owner[relation]}
    ELSE {item.grantee : item \in {i \in Acl(relation) :
            /\ i.privilege = privilege /\ i.grantable
            /\ i.grantee # Public /\ HasPrivilegesOf(by, i.grantee)}}

-----------------------------------------------------------------------------
(* What the listings return.                                                *)

\* The filters of the three relation listings.
Filter(schema, object, system) ==
  [schema |-> schema, object |-> object, system |-> system]

Passes(object, filter) ==
  /\ filter.system \/ ~object.system
  /\ filter.schema \in {Unset, object.schema}
  /\ filter.object \in {Unset, object.name}

\* LIST_ROLES; a role is a system role by its name.
RolesListed(system, loginOnly) ==
  {name \in Names :
    /\ Exists(name)
    /\ system \/ name # Reader
    /\ loginOnly => "login" \in roles[name]}

\* LIST_ROLE_MEMBERSHIPS: the grantor may be gone, the two ends may not.
MembershipsListed ==
  {m \in memberships : Exists(m.role) /\ Exists(m.member)}

\* The rows of LIST_DIRECT_RELATION_ACCESS: PUBLIC is no principal.
DirectListed(role, filter) ==
  UNION {{[object |-> r, item |-> i] :
            i \in {e \in Exploded(r) : e.grantee = role /\ Exists(role)}} :
          r \in {s \in Relations : Passes(s, filter)}}

\* AccessType takes no privilege it does not have, and one row it does not
\* take is the end of the listing.
DirectFails(role, filter) ==
  \E row \in DirectListed(role, filter) : row.item.privilege \notin Privileges

\* The five flags of LIST_EFFECTIVE_RELATION_ACCESS, in the mapper's order.
SourceDirect(role, relation, privilege) ==
  \E i \in Exploded(relation) : i.grantee = role /\ i.privilege = privilege

\* Faulty: only items are looked at, not the role of the owner.
SourceInheritedByItem(role, relation, privilege) ==
  \E i \in Exploded(relation) :
    /\ i.grantee \notin {Public, role} /\ i.privilege = privilege
    /\ HasPrivilegesOf(role, i.grantee)

SourceInherited(role, relation, privilege) ==
  \/ \E i \in Exploded(relation) :
       /\ i.grantee \notin {Public, role} /\ i.privilege = privilege
       /\ HasPrivilegesOf(role, i.grantee)
  \/ owner[relation] # role /\ HasPrivilegesOf(role, owner[relation])

SourcePublic(relation, privilege) ==
  \E i \in Exploded(relation) : i.grantee = Public /\ i.privilege = privilege

Sources(role, relation, privilege) ==
  {s \in {"direct", "inherited", "public", "owner", "superuser"} :
    CASE s = "direct" -> SourceDirect(role, relation, privilege)
      [] s = "inherited" -> SourceInherited(role, relation, privilege)
      [] s = "public" -> SourcePublic(relation, privilege)
      [] s = "owner" -> owner[relation] = role
      [] s = "superuser" -> Superuser(role)}

EffectiveRows(role, filter) ==
  {row \in [object : {r \in Relations : Passes(r, filter)}, privilege : Privileges] :
    Exists(role) /\ HasTablePrivilege(role, row.object, row.privilege)}

\* EffectiveAccess takes no row without a source, and a row it does not take
\* is the end of the listing.
EffectiveFails(role, filter) ==
  \E row \in EffectiveRows(role, filter) :
    Sources(role, row.object, row.privilege) = {}

\* LIST_OWNERSHIP: the schema restricts relations only; the type is filtered
\* from what came back.
OwnershipListed(role, type, filter) ==
  {o \in Objects :
    /\ owner[o] = role /\ Exists(role)
    /\ type \in {Unset, o.type}
    /\ o.type # "database" => filter.system \/ ~o.system
    /\ o \in Relations => filter.schema \in {Unset, o.schema}}

-----------------------------------------------------------------------------
(* The commands of role and access, as the command line builds them.        *)

CreateCommands == [op : {"create"}, name : Names, attributes : SUBSET Attributes]

\* An attribute that is not toggled is not in the domain.
AlterCommands ==
  UNION {[op : {"alter"}, name : Names, toggles : [toggled -> BOOLEAN]] :
           toggled \in SUBSET Attributes}

DropCommands == [op : {"drop"}, name : Names]

MembershipCommands ==
  [op : {"add"}, role : Names, member : Names, admin : BOOLEAN]
  \cup [op : {"remove"}, role : Names, member : Names, admin : {FALSE}]

AccessCommands ==
  [op : {"grant"}, principal : Names, privilege : Privileges,
   relation : Relations, option : BOOLEAN]
  \cup [op : {"revoke"}, principal : Names, privilege : Privileges,
        relation : Relations, option : {FALSE}]

Commands ==
  CreateCommands \cup AlterCommands \cup DropCommands \cup MembershipCommands
  \cup AccessCommands

\* What the command models reject with ValueError.
Wellformed(c) ==
  CASE c.op = "alter" -> DOMAIN c.toggles # {}
    [] c.op \in {"add", "remove"} -> c.role # c.member
    [] OTHER -> TRUE

ASSUME MenuAssumption == Menu \subseteq Commands

-----------------------------------------------------------------------------
RoleTypeOK ==
  /\ roles \in [Names -> (SUBSET Attributes) \cup {Unset}]
  /\ \A m \in memberships :
       /\ {m.role, m.member} \subseteq Names /\ m.grantor \in Names \cup {Unset}
       /\ m.admin \in BOOLEAN
  /\ \A m, n \in memberships : m.role = n.role /\ m.member = n.member => m = n
  /\ owner \in [Objects -> Names]
  /\ \A r \in Relations : acl[r] # Unset =>
       \A i \in acl[r] :
         /\ i.grantee \in Names \cup {Public} /\ i.grantor \in Names
         /\ i.privilege \in ServerPrivileges /\ i.grantable \in BOOLEAN
  /\ statements \in 0 .. MaxStatements
  /\ reply.outcome \in {"none", "usage", "succeeded", "refused", "listed",
                        "described", "not_found", "internal"}

Nothing == [outcome |-> "none", command |-> Unset]

RoleInit ==
  /\ roles \in InitialRoles
  /\ memberships = {}
  /\ owner \in {o \in [Objects -> Names] : \A x \in Objects : Exists(o[x])}
  /\ acl = [r \in Relations |-> Unset]
  /\ statements = 0
  /\ described = Unset
  /\ reply = Nothing

\* A statement of ours is answered; one of another role is seen by nobody.
Accepted(by, c) ==
  /\ statements < MaxStatements
  /\ statements' = statements + 1
  /\ described' = described
  /\ reply' = IF by = Us THEN [outcome |-> "succeeded", command |-> c] ELSE Nothing

CreateRole(by, c) ==
  /\ c.op = "create" /\ ~Exists(c.name)
  /\ roles' = [roles EXCEPT ![c.name] = c.attributes]
  /\ Accepted(by, c)
  /\ UNCHANGED <<memberships, owner, acl>>

\* Faulty: a toggle that disables is taken for one that was not given.
AlterRoleTruthy(by, c) ==
  /\ c.op = "alter" /\ Exists(c.name)
  /\ roles' = [roles EXCEPT ![c.name] =
       {a \in Attributes : a \in @ \/ (a \in DOMAIN c.toggles /\ c.toggles[a])}]
  /\ Accepted(by, c)
  /\ UNCHANGED <<memberships, owner, acl>>

AlterRole(by, c) ==
  /\ c.op = "alter" /\ Exists(c.name)
  /\ roles' = [roles EXCEPT ![c.name] =
       {a \in Attributes : IF a \in DOMAIN c.toggles THEN c.toggles[a] ELSE a \in @}]
  /\ Accepted(by, c)
  /\ UNCHANGED <<memberships, owner, acl>>

\* A role that owns something or is in an item is not dropped; it leaves its
\* memberships, and those it granted lose their grantor.
DropRole(by, c) ==
  /\ c.op = "drop" /\ Exists(c.name) /\ c.name \notin {by, Us, Dba, Reader}
  /\ \A o \in Objects : owner[o] # c.name
  /\ \A r \in Relations : \A i \in Exploded(r) : c.name \notin {i.grantee, i.grantor}
  /\ roles' = [roles EXCEPT ![c.name] = Unset]
  /\ memberships' =
       {[m EXCEPT !.grantor = IF @ = c.name THEN Unset ELSE @] :
          m \in {e \in memberships : c.name \notin {e.role, e.member}}}
  /\ Accepted(by, c)
  /\ UNCHANGED <<owner, acl>>

\* A membership is known by its two ends; granted again it keeps the admin
\* option it has.  No role becomes a member of its own members: some set of
\* roles that is closed upwards holds the role and not the new member.
AddMembership(by, c) ==
  /\ c.op = "add" /\ Exists(c.role) /\ Exists(c.member)
  /\ \E above \in SUBSET Names :
       /\ c.role \in above /\ c.member \notin above
       /\ \A m \in memberships : m.member \in above => m.role \in above
  /\ LET known == {m \in memberships : m.role = c.role /\ m.member = c.member}
     IN  memberships' =
           (memberships \ known) \cup
           {[role |-> c.role, member |-> c.member, grantor |-> by,
             admin |-> c.admin \/ \E m \in known : m.admin]}
  /\ Accepted(by, c)
  /\ UNCHANGED <<roles, owner, acl>>

\* What is no member cannot leave: a warning, and still a success.
RemoveMembership(by, c) ==
  /\ c.op = "remove" /\ Exists(c.role) /\ Exists(c.member)
  /\ memberships' = {m \in memberships : m.role # c.role \/ m.member # c.member}
  /\ Accepted(by, c)
  /\ UNCHANGED <<roles, owner, acl>>

\* Whoever has no grant option is warned, and nothing is granted.  Grant
\* options are passed on by the owner only, so that none comes back to its
\* grantor.
GrantAccess(by, c) ==
  /\ c.op = "grant" /\ (c.principal # Public => Exists(c.principal))
  /\ LET grantors == Grantors(by, c.relation, c.privilege)
         Merged(grantor) ==
           LET same == {i \in Acl(c.relation) :
                         /\ i.grantee = c.principal /\ i.privilege = c.privilege
                         /\ i.grantor = grantor}
           IN  (Acl(c.relation) \ same) \cup
               {Item(c.principal, c.privilege, grantor,
                     c.option \/ \E i \in same : i.grantable)}
     IN  \/ grantors = {} /\ acl' = acl
         \/ \E grantor \in grantors :
              /\ c.option => grantor = owner[c.relation] /\ c.principal # Public
              /\ acl' = [acl EXCEPT ![c.relation] = Merged(grantor)]
  /\ Accepted(by, c)
  /\ UNCHANGED <<roles, memberships, owner>>

\* Only what the same grantor granted is revoked, and only while nobody has
\* passed it on.
RevokeAccess(by, c) ==
  /\ c.op = "revoke" /\ (c.principal # Public => Exists(c.principal))
  /\ LET grantors == Grantors(by, c.relation, c.privilege)
         Left(grantor) ==
           {i \in Acl(c.relation) :
             \/ i.grantee # c.principal \/ i.privilege # c.privilege
             \/ i.grantor # grantor}
     IN  \/ grantors = {} /\ acl' = acl
         \/ \E grantor \in grantors :
              /\ \A i \in Left(grantor) :
                   (i.privilege = c.privilege /\ i.grantor = c.principal)
                     => \/ c.principal = owner[c.relation]
                        \/ \E j \in Left(grantor) :
                             j.grantee = c.principal /\ j.grantable
                             /\ j.privilege = c.privilege
              /\ acl' = [acl EXCEPT ![c.relation] = Left(grantor)]
  /\ Accepted(by, c)
  /\ UNCHANGED <<roles, memberships, owner>>

Statement(by, c) ==
  \/ CreateRole(by, c) \/ AlterRole(by, c) \/ DropRole(by, c)
  \/ AddMembership(by, c) \/ RemoveMembership(by, c)
  \/ GrantAccess(by, c) \/ RevokeAccess(by, c)

-----------------------------------------------------------------------------
(* The tool, between its commands.                                          *)

Server == <<roles, memberships, owner, acl, statements>>

Mutate == described = Unset /\ \E c \in Menu : Wellformed(c) /\ Statement(Us, c)

\* Missing rights, a missing role, dependents, a lost connection.
Refused ==
  /\ described = Unset
  /\ \E c \in {d \in Menu : Wellformed(d)} :
       reply' = [outcome |-> "refused", command |-> c]
  /\ UNCHANGED <<Server, described>>

UsageError ==
  /\ described = Unset
  /\ \E c \in {d \in Menu : ~Wellformed(d)} :
       reply' = [outcome |-> "usage", command |-> c]
  /\ UNCHANGED <<Server, described>>

ListDirect(role) ==
  /\ described = Unset
  /\ reply' = [outcome |-> IF DirectFails(role, Filter(Unset, Unset, FALSE))
                             THEN "internal" ELSE "listed",
               command |-> [op |-> "direct", name |-> role]]
  /\ UNCHANGED <<Server, described>>

ListEffective(role) ==
  /\ described = Unset
  /\ reply' = [outcome |-> IF EffectiveFails(role, Filter(Unset, Unset, FALSE))
                             THEN "internal" ELSE "listed",
               command |-> [op |-> "effective", name |-> role]]
  /\ UNCHANGED <<Server, described>>

\* role describe: the role's row, then all memberships, on two connections.
DescribeRole(role) ==
  /\ described = Unset
  /\ IF Exists(role)
       THEN described' = [name |-> role, attributes |-> roles[role]] /\ reply' = Nothing
       ELSE described' = Unset /\
            reply' = [outcome |-> "not_found",
                      command |-> [op |-> "describe", name |-> role]]
  /\ UNCHANGED Server

DescribeMemberships ==
  /\ described # Unset
  /\ reply' =
       [outcome |-> "described",
        command |-> [op |-> "describe", role |-> described,
                     member_of |-> {m \in MembershipsListed : m.member = described.name},
                     members |-> {m \in MembershipsListed : m.role = described.name}]]
  /\ described' = Unset
  /\ UNCHANGED Server

\* Other administrators: any statement, and GRANT and REVOKE for PUBLIC and of
\* the newer privileges.
OthersCommands ==
  Menu \cup {[a EXCEPT !.principal = Public] : a \in Menu \cap AccessCommands}
       \cup {[a EXCEPT !.privilege = p] : a \in Menu \cap AccessCommands, p \in Newer}

OthersAct == \E c \in OthersCommands : Statement(Dba, c)

RoleNext ==
  \/ Mutate \/ Refused \/ UsageError \/ OthersAct \/ DescribeMemberships
  \/ \E role \in Names : ListDirect(role) \/ ListEffective(role) \/ DescribeRole(role)

RoleSpec == RoleInit /\ [][RoleNext]_accessVars

-----------------------------------------------------------------------------
Everything == Filter(Unset, Unset, TRUE)

\* Whatever the server allows a role on a relation, other than through a
\* predefined role, has one of the five sources: the flags of the query, that
\* read the raw list, cover every way in which the server comes to its answer,
\* the defaults of a list that is NULL included (effective_access.py:28-60).
EffectiveIsExplained ==
  \A role \in Names, r \in Relations, p \in Privileges :
    /\ Exists(role) /\ HasTablePrivilege(role, r, p)
    /\ ByPredefinedRole(role, p) => Superuser(role)
    => Sources(role, r, p) # {}

\* Right after a command that reported success, the listings show what it was
\* asked for.  Two exceptions: of a grant by someone without a grant option the
\* server only warns, and the success is reported all the same; and the direct
\* listing of a role that has a newer privilege as well has no answer
\* (mappers/access.py:25).
WhatSucceededIsListed ==
  reply.outcome = "succeeded" =>
    LET c == reply.command
    IN  CASE c.op = "create" ->
               /\ c.name \in RolesListed(TRUE, "login" \in c.attributes)
               /\ roles[c.name] = c.attributes
          [] c.op = "alter" ->
               \A a \in DOMAIN c.toggles : c.toggles[a] <=> a \in roles[c.name]
          [] c.op = "drop" ->
               /\ c.name \notin RolesListed(TRUE, FALSE)
               /\ \A m \in memberships : c.name \notin {m.role, m.member, m.grantor}
               /\ DirectListed(c.name, Everything) = {}
          [] c.op = "add" ->
               \E m \in MembershipsListed :
                 /\ m.role = c.role /\ m.member = c.member
                 /\ c.admin => m.admin
          [] c.op = "remove" ->
               \A m \in MembershipsListed : m.role # c.role \/ m.member # c.member
          [] c.op = "grant" ->
               Grantors(Us, c.relation, c.privilege) # {} =>
                 /\ "direct" \in Sources(c.principal, c.relation, c.privilege)
                 /\ \/ DirectFails(c.principal, Everything)
                    \/ \E row \in DirectListed(c.principal, Everything) :
                         /\ row.object = c.relation
                         /\ row.item.privilege = c.privilege
                         /\ c.option => row.item.grantable
          [] c.op = "revoke" ->
               Grantors(Us, c.relation, c.privilege) = {owner[c.relation]} =>
                 \A row \in DirectListed(c.principal, Everything) :
                   \/ row.object # c.relation \/ row.item.privilege # c.privilege
                   \/ row.item.grantor # owner[c.relation]

\* A description is of two moments.  Its role may be gone by the second, but
\* then it shows no memberships: those it shows, in either direction, are
\* between roles that exist, and each is shown alike from its other end
\* (adapters/postgresql/security.py:77-94).
DescriptionsAgree ==
  reply.outcome = "described" =>
    LET d == reply.command
    IN  /\ (d.member_of \cup d.members # {}) => Exists(d.role.name)
        /\ \A m \in d.member_of : Exists(m.role) /\ m.member = d.role.name
        /\ \A m \in d.members : Exists(m.member) /\ m.role = d.role.name
        /\ d.member_of \cap d.members = {}

\* docs/guides/13_EFFECTIVE_ACCESS_AND_OWNERSHIP.md:189: what is effective has
\* one source or more, so the listing has an answer.
EffectiveListingAnswers ==
  reply.outcome = "internal" => reply.command.op # "effective"
=============================================================================
