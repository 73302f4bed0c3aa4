---------------------------- MODULE RoleAccessProofs ----------------------------
(***************************************************************************)
(* Theorems about RoleAccess, for every set of roles, objects and commands.*)
(***************************************************************************)
EXTENDS RoleAccess, TLAPS

(***************************************************************************)
(* What every statement keeps: objects have owners that exist, and so have *)
(* the entries of every list their two ends.  DROP ROLE is refused while   *)
(* an item names the role, and GRANT records a grantor that is in the list *)
(* or owns the relation.                                                   *)
(***************************************************************************)
WholeList(list) ==
  \A i \in list :
    /\ i.grantor \in Names /\ Exists(i.grantor)
    /\ i.grantee # Public => i.grantee \in Names /\ Exists(i.grantee)

Attributed ==
  /\ roles \in [Names -> (SUBSET Attributes) \cup {Unset}]
  /\ owner \in [Objects -> Names]
  /\ \A o \in Objects : Exists(owner[o])
  /\ acl = [r \in Relations |-> acl[r]]
  /\ \A r \in Relations : WholeList(Exploded(r))

LEMMA InitAttributed == RoleInit => Attributed
BY InitialAssumption DEF RoleInit, Attributed, WholeList, Exploded, Exists

\* The list the server goes by is whole when the one that is stored is.
LEMMA AclWhole ==
  ASSUME Attributed, NEW r \in Relations
  PROVE  WholeList(Acl(r))
<1>1. CASE acl[r] = Unset
  BY <1>1 DEF Attributed, WholeList, Acl, Item, Relations
<1>2. CASE acl[r] # Unset
  BY <1>2 DEF Attributed, Acl, Exploded
<1>. QED BY <1>1, <1>2

LEMMA GrantorsExist ==
  ASSUME Attributed, NEW by \in Names, NEW r \in Relations, NEW p,
         NEW g \in Grantors(by, r, p)
  PROVE  g \in Names /\ Exists(g)
<1>1. CASE HasPrivilegesOf(by, owner[r])
  BY <1>1 DEF Grantors, Attributed, Relations
<1>2. CASE ~HasPrivilegesOf(by, owner[r])
  BY <1>2, AclWhole DEF Grantors, WholeList
<1>. QED BY <1>1, <1>2

\* A statement that gives one relation a list that is whole keeps the lot.
LEMMA ListReplaced ==
  ASSUME Attributed, UNCHANGED <<roles, owner>>, NEW r \in Relations, NEW list,
         WholeList(list), acl' = [acl EXCEPT ![r] = list]
  PROVE  Attributed'
<1>1. \A s \in Relations : acl'[s] = IF s = r THEN list ELSE acl[s]
  BY DEF Attributed
<1>2. \A s \in Relations : WholeList(Exploded(s))'
  BY <1>1 DEF Attributed, WholeList, Exploded, Exists
<1>3. acl' = [s \in Relations |-> acl'[s]]
  BY DEF Attributed
<1>. QED BY <1>2, <1>3 DEF Attributed, Exists

LEMMA CreateAttributed ==
  ASSUME Attributed, NEW by, NEW c \in CreateCommands, CreateRole(by, c)
  PROVE  Attributed'
<1>1. \A n \in Names : Exists(n) => Exists(n)'
  BY UnsetAssumption DEF Attributed, CreateRole, CreateCommands, Exists
<1>2. \A r \in Relations : Exploded(r)' = Exploded(r)
  BY DEF CreateRole, Exploded
<1>. QED BY <1>1, <1>2 DEF Attributed, WholeList, CreateRole, CreateCommands

LEMMA AlterAttributed ==
  ASSUME Attributed, NEW by, NEW c \in AlterCommands, AlterRole(by, c)
  PROVE  Attributed'
<1> DEFINE set == {a \in Attributes :
             IF a \in DOMAIN c.toggles THEN c.toggles[a] ELSE a \in roles[c.name]}
<1>1. set \in SUBSET Attributes
  OBVIOUS
<1>2. roles' = [roles EXCEPT ![c.name] = set] /\ UNCHANGED <<owner, acl>>
  BY DEF AlterRole
<1> HIDE DEF set
<1>3. \A n \in Names : Exists(n) => Exists(n)'
  BY <1>1, <1>2, UnsetAssumption DEF Attributed, Exists
<1>4. \A r \in Relations : Exploded(r)' = Exploded(r)
  BY <1>2 DEF Exploded
<1>. QED BY <1>1, <1>2, <1>3, <1>4 DEF Attributed, WholeList

LEMMA DropAttributed ==
  ASSUME Attributed, NEW by, NEW c \in DropCommands, DropRole(by, c)
  PROVE  Attributed'
<1>1. \A n \in Names : n # c.name /\ Exists(n) => Exists(n)'
  BY DEF Attributed, DropRole, Exists
<1>2. \A r \in Relations : Exploded(r)' = Exploded(r)
  BY DEF DropRole, Exploded
<1>3. \A r \in Relations : WholeList(Exploded(r))'
  BY <1>1, <1>2 DEF Attributed, WholeList, DropRole
<1>. QED BY <1>1, <1>3 DEF Attributed, DropRole, DropCommands

LEMMA MembershipAttributed ==
  ASSUME Attributed, UNCHANGED <<roles, owner, acl>>
  PROVE  Attributed'
BY DEF Attributed, WholeList, Exploded, Exists

LEMMA GrantAttributed ==
  ASSUME Attributed, NEW by \in Names, NEW c, c.relation \in Relations,
         c.principal \in Names \cup {Public}, GrantAccess(by, c)
  PROVE  Attributed'
<1> DEFINE grantors == Grantors(by, c.relation, c.privilege)
           same(g) == {i \in Acl(c.relation) :
                         /\ i.grantee = c.principal /\ i.privilege = c.privilege
                         /\ i.grantor = g}
           fresh(g) == Item(c.principal, c.privilege, g,
                            c.option \/ \E i \in same(g) : i.grantable)
           list(g) == (Acl(c.relation) \ same(g)) \cup {fresh(g)}
<1>1. UNCHANGED <<roles, owner>>
  BY DEF GrantAccess
<1>2. CASE acl' = acl
  BY <1>1, <1>2, MembershipAttributed
<1>3. ASSUME NEW g \in grantors, acl' = [acl EXCEPT ![c.relation] = list(g)]
      PROVE  Attributed'
  <2>1. fresh(g).grantee = c.principal /\ fresh(g).grantor = g
    BY DEF Item
  <2>2. g \in Names /\ Exists(g)
    BY GrantorsExist
  <2>3. WholeList(Acl(c.relation))
    BY AclWhole
  <2>4. c.principal # Public => Exists(c.principal)
    BY DEF GrantAccess
  <2>5. WholeList(list(g))
    <3> HIDE DEF fresh
    <3>. QED BY <2>1, <2>2, <2>3, <2>4 DEF WholeList
  <2> HIDE DEF list
  <2>. QED BY <1>1, <1>3, <2>5, ListReplaced
<1>4. acl' = acl \/ \E g \in grantors : acl' = [acl EXCEPT ![c.relation] = list(g)]
  BY DEF GrantAccess
<1>. QED BY <1>2, <1>3, <1>4

LEMMA RevokeAttributed ==
  ASSUME Attributed, NEW by \in Names, NEW c, c.relation \in Relations,
         RevokeAccess(by, c)
  PROVE  Attributed'
<1> DEFINE left(g) == {i \in Acl(c.relation) :
                         \/ i.grantee # c.principal \/ i.privilege # c.privilege
                         \/ i.grantor # g}
<1>1. UNCHANGED <<roles, owner>>
  BY DEF RevokeAccess
<1>2. CASE acl' = acl
  BY <1>1, <1>2, MembershipAttributed
<1>3. ASSUME NEW g, acl' = [acl EXCEPT ![c.relation] = left(g)]
      PROVE  Attributed'
  <2>1. WholeList(left(g))
    BY AclWhole DEF WholeList
  <2> HIDE DEF left
  <2>. QED BY <1>1, <1>3, <2>1, ListReplaced
<1>4. acl' = acl \/ \E g : acl' = [acl EXCEPT ![c.relation] = left(g)]
  BY DEF RevokeAccess
<1>. QED BY <1>2, <1>3, <1>4

-----------------------------------------------------------------------------
(* Every step.                                                              *)

\* A command is told by its op.
LEMMA CommandKinds ==
  ASSUME NEW c \in Commands
  PROVE  /\ c.op = "create" => c \in CreateCommands
         /\ c.op = "alter" => c \in AlterCommands
         /\ c.op = "drop" => c \in DropCommands
         /\ c.op \in {"grant", "revoke"} => c \in AccessCommands
<1>1. c \in CreateCommands => c.op = "create"
  BY DEF CreateCommands
<1>2. c \in AlterCommands => c.op = "alter"
  BY DEF AlterCommands
<1>3. c \in DropCommands => c.op = "drop"
  BY DEF DropCommands
<1>4. c \in MembershipCommands => c.op \in {"add", "remove"}
  BY DEF MembershipCommands
<1>5. c \in AccessCommands => c.op \in {"grant", "revoke"}
  BY DEF AccessCommands
<1>. QED BY <1>1, <1>2, <1>3, <1>4, <1>5 DEF Commands

\* What only other administrators send.
Foreign(c) ==
  \E a \in AccessCommands :
    c = [a EXCEPT !.principal = Public] \/ \E p \in Newer : c = [a EXCEPT !.privilege = p]

LEMMA ForeignCommand ==
  ASSUME NEW c, Foreign(c)
  PROVE  /\ c.op \in {"grant", "revoke"} /\ c.relation \in Relations
         /\ c.principal \in Names \cup {Public} /\ c.privilege \in ServerPrivileges
<1>1. ASSUME NEW a \in AccessCommands, c = [a EXCEPT !.principal = Public]
      PROVE  /\ c.op \in {"grant", "revoke"} /\ c.relation \in Relations
             /\ c.principal \in Names \cup {Public} /\ c.privilege \in ServerPrivileges
  BY <1>1 DEF AccessCommands, ServerPrivileges
<1>2. ASSUME NEW a \in AccessCommands, NEW p \in Newer, c = [a EXCEPT !.privilege = p]
      PROVE  /\ c.op \in {"grant", "revoke"} /\ c.relation \in Relations
             /\ c.principal \in Names \cup {Public} /\ c.privilege \in ServerPrivileges
  BY <1>2 DEF AccessCommands, ServerPrivileges
<1>. QED BY <1>1, <1>2 DEF Foreign

LEMMA OthersForeign ==
  ASSUME NEW c \in OthersCommands PROVE c \in Commands \/ Foreign(c)
BY MenuAssumption DEF OthersCommands, Foreign

LEMMA StatementAttributed ==
  ASSUME Attributed, NEW by \in Names, NEW c, Statement(by, c),
         c \in Commands \/ Foreign(c)
  PROVE  Attributed'
<1>1. CASE c \in Commands
  <2>1. CASE CreateRole(by, c)
    BY <1>1, <2>1, CommandKinds, CreateAttributed DEF CreateRole
  <2>2. CASE AlterRole(by, c)
    BY <1>1, <2>2, CommandKinds, AlterAttributed DEF AlterRole
  <2>3. CASE DropRole(by, c)
    BY <1>1, <2>3, CommandKinds, DropAttributed DEF DropRole
  <2>4. CASE AddMembership(by, c) \/ RemoveMembership(by, c)
    BY <2>4, MembershipAttributed DEF AddMembership, RemoveMembership
  <2>5. CASE GrantAccess(by, c) \/ RevokeAccess(by, c)
    <3>1. c \in AccessCommands
      BY <1>1, <2>5, CommandKinds DEF GrantAccess, RevokeAccess
    <3>2. c.relation \in Relations /\ c.principal \in Names \cup {Public}
      BY <3>1 DEF AccessCommands
    <3>. QED BY <2>5, <3>2, GrantAttributed, RevokeAttributed
  <2>. QED BY <2>1, <2>2, <2>3, <2>4, <2>5 DEF Statement
<1>2. ASSUME Foreign(c) PROVE Attributed'
  <2>1. /\ c.op \in {"grant", "revoke"} /\ c.relation \in Relations
        /\ c.principal \in Names \cup {Public}
    BY <1>2, ForeignCommand
  <2>2. GrantAccess(by, c) \/ RevokeAccess(by, c)
    BY <2>1 DEF Statement, CreateRole, AlterRole, DropRole, AddMembership,
       RemoveMembership
  <2>. QED BY <2>1, <2>2, GrantAttributed, RevokeAttributed
<1>. QED BY <1>1, <1>2

\* A listing answers, and leaves everything else as it is.
LEMMA ListingAnswers ==
  ASSUME NEW role, ListDirect(role) \/ ListEffective(role)
  PROVE  reply'.outcome \in {"internal", "listed"} /\ UNCHANGED <<Server, described>>
<1>1. CASE ListDirect(role)
  BY <1>1 DEF ListDirect
<1>2. CASE ListEffective(role)
  BY <1>2 DEF ListEffective
<1>. QED BY <1>1, <1>2

LEMMA StepAttributed == Attributed /\ [RoleNext]_accessVars => Attributed'
<1> SUFFICES ASSUME Attributed, [RoleNext]_accessVars PROVE Attributed'
  OBVIOUS
<1>1. CASE Mutate
  BY <1>1, StatementAttributed, NamesAssumption, MenuAssumption DEF Mutate
<1>2. CASE OthersAct
  BY <1>2, StatementAttributed, NamesAssumption, OthersForeign DEF OthersAct
<1>3. CASE UNCHANGED <<roles, owner, acl>>
  BY <1>3, MembershipAttributed
<1>4. \/ Mutate \/ OthersAct \/ UNCHANGED <<roles, owner, acl>>
  BY DEF RoleNext, accessVars, Refused, UsageError, DescribeMemberships,
         ListDirect, ListEffective, DescribeRole, Server
<1>. QED BY <1>1, <1>2, <1>3, <1>4

LEMMA AlwaysAttributed == RoleSpec => []Attributed
BY InitAttributed, StepAttributed, PTL DEF RoleSpec

-----------------------------------------------------------------------------
(***************************************************************************)
(* Whatever the server allows a role on a relation, other than through a   *)
(* predefined role, has one of the five sources the query of access        *)
(* effective computes, when the list is NULL too: the owner's defaults are *)
(* found under the owner flag or, for a role that has the privileges of    *)
(* the owner, under the inherited one.                                     *)
(***************************************************************************)
LEMMA SourceFlags ==
  ASSUME NEW role, NEW r, NEW p
  PROVE  /\ SourceDirect(role, r, p) => "direct" \in Sources(role, r, p)
         /\ SourceInherited(role, r, p) => "inherited" \in Sources(role, r, p)
         /\ SourcePublic(r, p) => "public" \in Sources(role, r, p)
         /\ owner[r] = role => "owner" \in Sources(role, r, p)
         /\ Superuser(role) => "superuser" \in Sources(role, r, p)
BY DEF Sources

LEMMA AllowedHasSource ==
  ASSUME Attributed, NEW role \in Names, NEW r \in Relations, NEW p \in Privileges,
         HasTablePrivilege(role, r, p),
         ByPredefinedRole(role, p) => Superuser(role)
  PROVE  \E s \in {"direct", "inherited", "public", "owner", "superuser"} :
           s \in Sources(role, r, p)
<1>1. CASE Superuser(role)
  BY <1>1, SourceFlags
<1>2. ASSUME NEW item \in Acl(r), item.privilege = p,
             item.grantee = Public \/ HasPrivilegesOf(role, item.grantee)
      PROVE  \E s \in {"direct", "inherited", "public", "owner", "superuser"} :
               s \in Sources(role, r, p)
  <2>1. CASE acl[r] = Unset
    <3>1. item.grantee = owner[r] /\ owner[r] \in Names
      BY <2>1 DEF Acl, Item, Attributed, Relations
    <3>2. HasPrivilegesOf(role, owner[r])
      BY <1>2, <3>1, PublicAssumption
    <3>3. CASE owner[r] = role
      BY <3>3, SourceFlags
    <3>4. CASE owner[r] # role
      BY <3>2, <3>4, SourceFlags DEF SourceInherited
    <3>. QED BY <3>3, <3>4
  <2>2. CASE acl[r] # Unset
    <3>1. item \in Exploded(r)
      BY <2>2 DEF Acl, Exploded
    <3>2. CASE item.grantee = Public
      BY <1>2, <3>1, <3>2, SourceFlags DEF SourcePublic
    <3>3. CASE item.grantee = role
      BY <1>2, <3>1, <3>3, SourceFlags DEF SourceDirect
    <3>4. CASE item.grantee \notin {Public, role}
      BY <1>2, <3>1, <3>4, SourceFlags DEF SourceInherited
    <3>. QED BY <3>2, <3>3, <3>4
  <2>. QED BY <2>1, <2>2
<1>. QED BY <1>1, <1>2 DEF HasTablePrivilege

THEOREM Explained == RoleSpec => []EffectiveIsExplained
<1>1. Attributed => EffectiveIsExplained
  BY AllowedHasSource DEF EffectiveIsExplained
<1>. QED BY <1>1, AlwaysAttributed, PTL

-----------------------------------------------------------------------------
(* The memberships and the lists, item by item.                             *)

Items ==
  [grantee : Names \cup {Public}, privilege : ServerPrivileges, grantor : Names,
   grantable : BOOLEAN]

Edges ==
  [role : Names, member : Names, grantor : Names \cup {Unset}, admin : BOOLEAN]

Itemized ==
  /\ memberships \subseteq Edges
  /\ \A r \in Relations : Exploded(r) \subseteq Items

LEMMA InitItemized == RoleInit => Itemized
BY DEF RoleInit, Itemized, Exploded

LEMMA AclItems ==
  ASSUME Attributed, Itemized, NEW r \in Relations PROVE Acl(r) \subseteq Items
<1>1. CASE acl[r] = Unset
  <2>1. owner[r] \in Names
    BY DEF Attributed, Relations
  <2>2. \A p \in ServerPrivileges : Item(owner[r], p, owner[r], FALSE) \in Items
    BY <2>1 DEF Item, Items
  <2>. QED BY <1>1, <2>2 DEF Acl
<1>2. CASE acl[r] # Unset
  BY <1>2 DEF Itemized, Acl, Exploded
<1>. QED BY <1>1, <1>2

LEMMA SameItemized ==
  ASSUME Itemized, UNCHANGED acl, memberships' \subseteq Edges PROVE Itemized'
BY DEF Itemized, Exploded

LEMMA ListItemized ==
  ASSUME Attributed, Itemized, UNCHANGED memberships, NEW r \in Relations,
         NEW list \in SUBSET Items, acl' = [acl EXCEPT ![r] = list]
  PROVE  Itemized'
<1>1. \A s \in Relations : acl'[s] = IF s = r THEN list ELSE acl[s]
  BY DEF Attributed
<1>. QED BY <1>1 DEF Itemized, Exploded

LEMMA MembershipCommand ==
  ASSUME NEW c \in Commands, c.op \in {"add", "remove"}
  PROVE  c.role \in Names /\ c.member \in Names /\ c.admin \in BOOLEAN
<1>1. c \in MembershipCommands
  <2>1. c \in CreateCommands => c.op = "create"
    BY DEF CreateCommands
  <2>2. c \in AlterCommands => c.op = "alter"
    BY DEF AlterCommands
  <2>3. c \in DropCommands => c.op = "drop"
    BY DEF DropCommands
  <2>4. c \in AccessCommands => c.op \in {"grant", "revoke"}
    BY DEF AccessCommands
  <2>. QED BY <2>1, <2>2, <2>3, <2>4 DEF Commands
<1>. QED BY <1>1 DEF MembershipCommands

LEMMA DropItemized ==
  ASSUME Itemized, NEW by, NEW c, DropRole(by, c) PROVE Itemized'
<1> DEFINE left == {e \in memberships : c.name \notin {e.role, e.member}}
           edge(m) == [m EXCEPT !.grantor = IF @ = c.name THEN Unset ELSE @]
<1>1. memberships' = {edge(m) : m \in left} /\ acl' = acl
  BY DEF DropRole
<1>2. \A m \in left : edge(m) \in Edges
  BY DEF Itemized, Edges
<1> HIDE DEF left, edge
<1>. QED BY <1>1, <1>2, SameItemized

LEMMA AddItemized ==
  ASSUME Itemized, NEW by \in Names, NEW c \in Commands, AddMembership(by, c)
  PROVE  Itemized'
<1>1. c.op = "add" /\ acl' = acl
  BY DEF AddMembership
<1>2. c.role \in Names /\ c.member \in Names /\ c.admin \in BOOLEAN
  BY <1>1, MembershipCommand
<1>3. PICK known \in SUBSET memberships :
        memberships' = (memberships \ known) \cup
          {[role |-> c.role, member |-> c.member, grantor |-> by,
            admin |-> c.admin \/ \E m \in known : m.admin]}
  BY DEF AddMembership
<1>4. [role |-> c.role, member |-> c.member, grantor |-> by,
       admin |-> c.admin \/ \E m \in known : m.admin] \in Edges
  BY <1>2 DEF Edges
<1>. QED BY <1>1, <1>3, <1>4, SameItemized DEF Itemized

LEMMA GrantItemized ==
  ASSUME Attributed, Itemized, NEW by \in Names, NEW c, c.relation \in Relations,
         c.principal \in Names \cup {Public}, c.privilege \in ServerPrivileges,
         GrantAccess(by, c)
  PROVE  Itemized'
<1> DEFINE same(g) == {i \in Acl(c.relation) :
                         /\ i.grantee = c.principal /\ i.privilege = c.privilege
                         /\ i.grantor = g}
           fresh(g) == Item(c.principal, c.privilege, g,
                            c.option \/ \E i \in same(g) : i.grantable)
           list(g) == (Acl(c.relation) \ same(g)) \cup {fresh(g)}
<1>1. CASE acl' = acl
  BY <1>1, SameItemized DEF GrantAccess, Itemized
<1>2. ASSUME NEW g \in Grantors(by, c.relation, c.privilege),
             acl' = [acl EXCEPT ![c.relation] = list(g)]
      PROVE  Itemized'
  <2>1. g \in Names
    BY GrantorsExist
  <2>2. fresh(g) \in Items
    BY <2>1 DEF Item, Items
  <2> HIDE DEF fresh
  <2>3. list(g) \in SUBSET Items
    BY <2>2, AclItems
  <2> HIDE DEF list
  <2>. QED BY <1>2, <2>3, ListItemized DEF GrantAccess
<1>. QED BY <1>1, <1>2 DEF GrantAccess

LEMMA RevokeItemized ==
  ASSUME Attributed, Itemized, NEW by, NEW c, c.relation \in Relations,
         RevokeAccess(by, c)
  PROVE  Itemized'
<1> DEFINE left(g) == {i \in Acl(c.relation) :
                         \/ i.grantee # c.principal \/ i.privilege # c.privilege
                         \/ i.grantor # g}
<1>1. CASE acl' = acl
  BY <1>1, SameItemized DEF RevokeAccess, Itemized
<1>2. ASSUME NEW g, acl' = [acl EXCEPT ![c.relation] = left(g)] PROVE Itemized'
  <2>1. left(g) \in SUBSET Items
    BY AclItems
  <2> HIDE DEF left
  <2>. QED BY <1>2, <2>1, ListItemized DEF RevokeAccess
<1>. QED BY <1>1, <1>2 DEF RevokeAccess

LEMMA StatementItemized ==
  ASSUME Attributed, Itemized, NEW by \in Names, NEW c, Statement(by, c),
         c \in Commands \/ Foreign(c)
  PROVE  Itemized'
<1>1. ASSUME GrantAccess(by, c) \/ RevokeAccess(by, c) PROVE Itemized'
  <2>1. /\ c.relation \in Relations /\ c.principal \in Names \cup {Public}
        /\ c.privilege \in ServerPrivileges
    <3>1. CASE c \in Commands
      <4>1. c \in AccessCommands
        BY <1>1, <3>1, CommandKinds DEF GrantAccess, RevokeAccess
      <4>. QED BY <4>1 DEF AccessCommands, ServerPrivileges
    <3>2. CASE Foreign(c)
      BY <3>2, ForeignCommand
    <3>. QED BY <3>1, <3>2
  <2>. QED BY <1>1, <2>1, GrantItemized, RevokeItemized
<1>2. ASSUME CreateRole(by, c) \/ AlterRole(by, c) \/ RemoveMembership(by, c)
      PROVE  Itemized'
  BY <1>2, SameItemized DEF CreateRole, AlterRole, RemoveMembership, Itemized
<1>3. ASSUME DropRole(by, c) PROVE Itemized'
  BY <1>3, DropItemized
<1>4. ASSUME AddMembership(by, c) PROVE Itemized'
  <2>1. c \in Commands
    BY <1>4, ForeignCommand DEF AddMembership
  <2>. QED BY <1>4, <2>1, AddItemized
<1>. QED BY <1>1, <1>2, <1>3, <1>4 DEF Statement

LEMMA StepItemized == Attributed /\ Itemized /\ [RoleNext]_accessVars => Itemized'
<1> SUFFICES ASSUME Attributed, Itemized, [RoleNext]_accessVars PROVE Itemized'
  OBVIOUS
<1>1. CASE Mutate
  BY <1>1, StatementItemized, NamesAssumption, MenuAssumption DEF Mutate
<1>2. CASE OthersAct
  BY <1>2, StatementItemized, NamesAssumption, OthersForeign DEF OthersAct
<1>3. CASE UNCHANGED <<memberships, acl>>
  BY <1>3, SameItemized DEF Itemized
<1>4. \/ Mutate \/ OthersAct \/ UNCHANGED <<memberships, acl>>
  BY DEF RoleNext, accessVars, Refused, UsageError, DescribeMemberships,
         ListDirect, ListEffective, DescribeRole, Server
<1>. QED BY <1>1, <1>2, <1>3, <1>4

-----------------------------------------------------------------------------
(***************************************************************************)
(* Right after a command that reported success, the listings show what it  *)
(* was asked for.  One lemma per statement; a GRANT needs that NULL is     *)
(* none of the lists a relation can have, or the new list could read as    *)
(* no list at all.                                                         *)
(***************************************************************************)
NullIsNoList == Unset \notin SUBSET Items

\* Privileges through membership depend on the roles and memberships alone.
LEMMA InheritedKept ==
  ASSUME roles' = roles, memberships' = memberships PROVE Inherited' = Inherited
BY DEF Inherited, Parents, Exists

LEMMA PrivilegesKept ==
  ASSUME roles' = roles, memberships' = memberships, NEW name, NEW role
  PROVE  HasPrivilegesOf(name, role)' = HasPrivilegesOf(name, role)
BY InheritedKept DEF HasPrivilegesOf, Superuser, Exists

\* With the same lists, the same roles may grant.
LEMMA GrantorsKept ==
  ASSUME UNCHANGED <<roles, memberships, owner, acl>>, NEW by, NEW r, NEW p
  PROVE  Grantors(by, r, p)' = Grantors(by, r, p)
<1>1. \A name, role : HasPrivilegesOf(name, role)' = HasPrivilegesOf(name, role)
  BY PrivilegesKept
<1>2. Acl(r)' = Acl(r)
  BY DEF Acl
<1>. QED BY <1>1, <1>2 DEF Grantors

Succeeded(c) == reply = [outcome |-> "succeeded", command |-> c]

LEMMA CreateListed ==
  ASSUME Attributed, NEW c \in CreateCommands, CreateRole(Us, c), Succeeded(c)'
  PROVE  WhatSucceededIsListed'
<1>1. c.op = "create" /\ reply'.command = c
  BY DEF CreateCommands, Succeeded
<1>2. roles'[c.name] = c.attributes /\ c.name \in Names /\ c.attributes \in SUBSET Attributes
  BY DEF Attributed, CreateRole, CreateCommands
<1>3. Exists(c.name)'
  BY <1>2, UnsetAssumption DEF Exists
<1>. QED BY <1>1, <1>2, <1>3 DEF WhatSucceededIsListed, RolesListed

LEMMA AlterListed ==
  ASSUME Attributed, NEW c \in AlterCommands, AlterRole(Us, c), Succeeded(c)'
  PROVE  WhatSucceededIsListed'
<1>1. c.op = "alter" /\ reply'.command = c /\ c.name \in Names
  BY DEF AlterCommands, Succeeded
<1>2. DOMAIN c.toggles \subseteq Attributes /\ \A a \in DOMAIN c.toggles : c.toggles[a] \in BOOLEAN
  BY DEF AlterCommands
<1>3. roles'[c.name] = {a \in Attributes :
        IF a \in DOMAIN c.toggles THEN c.toggles[a] ELSE a \in roles[c.name]}
  BY <1>1 DEF Attributed, AlterRole
<1>4. \A a \in DOMAIN c.toggles : c.toggles[a] <=> a \in roles'[c.name]
  BY <1>2, <1>3
<1>. QED BY <1>1, <1>4 DEF WhatSucceededIsListed

LEMMA DropListed ==
  ASSUME Attributed, Itemized, NEW c \in DropCommands, DropRole(Us, c), Succeeded(c)'
  PROVE  WhatSucceededIsListed'
<1>1. c.op = "drop" /\ reply'.command = c /\ c.name \in Names
  BY DEF DropCommands, Succeeded
<1>2. ~Exists(c.name)'
  BY <1>1 DEF Attributed, DropRole, Exists
<1>3. \A m \in memberships' : c.name \notin {m.role, m.member, m.grantor}
  <2>1. ASSUME NEW e \in memberships, c.name \notin {e.role, e.member},
               NEW m, m = [e EXCEPT !.grantor = IF @ = c.name THEN Unset ELSE @]
        PROVE  c.name \notin {m.role, m.member, m.grantor}
    BY <1>1, <2>1, PublicAssumption DEF Itemized, Edges
  <2>. QED BY <2>1 DEF DropRole
<1>4. c.name \notin RolesListed(TRUE, FALSE)'
  BY <1>2 DEF RolesListed
<1>5. DirectListed(c.name, Everything)' = {}
  BY <1>2 DEF DirectListed
<1>. QED BY <1>1, <1>3, <1>4, <1>5 DEF WhatSucceededIsListed

LEMMA AddListed ==
  ASSUME NEW c \in Commands, AddMembership(Us, c), Succeeded(c)'
  PROVE  WhatSucceededIsListed'
<1>1. c.op = "add" /\ reply'.command = c
  BY DEF AddMembership, Succeeded
<1>2. Exists(c.role)' /\ Exists(c.member)'
  BY DEF AddMembership, Exists
<1> DEFINE edge(known) == [role |-> c.role, member |-> c.member, grantor |-> Us,
                           admin |-> c.admin \/ \E m \in known : m.admin]
<1>3. PICK known : edge(known) \in memberships'
  BY DEF AddMembership
<1>4. /\ edge(known).role = c.role /\ edge(known).member = c.member
      /\ c.admin => edge(known).admin
  OBVIOUS
<1> HIDE DEF edge
<1>5. edge(known) \in MembershipsListed'
  BY <1>2, <1>3, <1>4 DEF MembershipsListed, Exists
<1>. QED BY <1>1, <1>4, <1>5 DEF WhatSucceededIsListed

LEMMA RemoveListed ==
  ASSUME NEW c \in Commands, RemoveMembership(Us, c), Succeeded(c)'
  PROVE  WhatSucceededIsListed'
<1>1. c.op = "remove" /\ reply'.command = c
  BY DEF RemoveMembership, Succeeded
<1>2. \A m \in MembershipsListed' : m.role # c.role \/ m.member # c.member
  BY DEF RemoveMembership, MembershipsListed
<1>. QED BY <1>1, <1>2 DEF WhatSucceededIsListed

LEMMA GrantListed ==
  ASSUME NullIsNoList, Attributed, Itemized, NEW c \in AccessCommands,
         GrantAccess(Us, c), Succeeded(c)'
  PROVE  WhatSucceededIsListed'
<1> DEFINE same(g) == {i \in Acl(c.relation) :
                         /\ i.grantee = c.principal /\ i.privilege = c.privilege
                         /\ i.grantor = g}
           fresh(g) == Item(c.principal, c.privilege, g,
                            c.option \/ \E i \in same(g) : i.grantable)
           list(g) == (Acl(c.relation) \ same(g)) \cup {fresh(g)}
<1>1. /\ c.op = "grant" /\ reply'.command = c /\ c.principal \in Names
      /\ c.privilege \in Privileges /\ c.relation \in Relations
  BY DEF AccessCommands, GrantAccess, Succeeded
<1>2. /\ UNCHANGED <<roles, memberships, owner>>
      /\ Exists(c.principal)'
  BY <1>1, PublicAssumption DEF GrantAccess, Exists
<1>3. CASE Grantors(Us, c.relation, c.privilege) = {} /\ acl' = acl
  <2>1. Grantors(Us, c.relation, c.privilege)' = {}
    BY <1>2, <1>3, GrantorsKept
  <2>. QED BY <1>1, <2>1 DEF WhatSucceededIsListed
<1>4. ASSUME NEW g \in Grantors(Us, c.relation, c.privilege),
             acl' = [acl EXCEPT ![c.relation] = list(g)]
      PROVE  WhatSucceededIsListed'
  <2>1. g \in Names
    BY <1>1, GrantorsExist, NamesAssumption
  <2>2. /\ fresh(g).grantee = c.principal /\ fresh(g).privilege = c.privilege
        /\ c.option => fresh(g).grantable
    BY DEF Item
  <2>3. fresh(g) \in Items
    BY <1>1, <2>1 DEF Item, Items, ServerPrivileges
  <2> HIDE DEF fresh
  <2>4. list(g) \in SUBSET Items /\ fresh(g) \in list(g)
    BY <1>1, <2>3, AclItems
  <2> HIDE DEF list
  <2>5. acl'[c.relation] = list(g)
    BY <1>1, <1>4 DEF Attributed
  <2>6. fresh(g) \in Exploded(c.relation)'
    BY <2>4, <2>5 DEF Exploded, NullIsNoList
  <2>7. "direct" \in Sources(c.principal, c.relation, c.privilege)'
    BY <2>2, <2>6 DEF Sources, SourceDirect
  <2>8. [object |-> c.relation, item |-> fresh(g)] \in DirectListed(c.principal, Everything)'
    <3>1. Passes(c.relation, Everything)'
      BY DEF Passes, Everything, Filter
    <3>. QED BY <1>1, <1>2, <2>2, <2>6, <3>1 DEF DirectListed
  <2>9. \E row \in DirectListed(c.principal, Everything)' :
          /\ row.object = c.relation /\ row.item.privilege = c.privilege
          /\ c.option => row.item.grantable
    BY <2>2, <2>8
  <2>. QED BY <1>1, <2>7, <2>9 DEF WhatSucceededIsListed
<1>5. \/ Grantors(Us, c.relation, c.privilege) = {} /\ acl' = acl
      \/ \E g \in Grantors(Us, c.relation, c.privilege) :
           acl' = [acl EXCEPT ![c.relation] = list(g)]
  BY DEF GrantAccess
<1>. QED BY <1>3, <1>4, <1>5


\* By who has the privileges of the owner, the items of the owner go; by anyone
\* else no item of the owner is revoked, and the listing promises nothing.
LEMMA RevokeListed ==
  ASSUME Attributed, Itemized, NEW c \in AccessCommands, RevokeAccess(Us, c),
         Succeeded(c)'
  PROVE  WhatSucceededIsListed'
<1> DEFINE left(g) == {i \in Acl(c.relation) :
                         \/ i.grantee # c.principal \/ i.privilege # c.privilege
                         \/ i.grantor # g}
<1>1. /\ c.op = "revoke" /\ reply'.command = c /\ c.relation \in Relations
      /\ UNCHANGED <<roles, memberships, owner>>
  BY DEF AccessCommands, RevokeAccess, Succeeded
<1>2. CASE ~HasPrivilegesOf(Us, owner[c.relation])
  <2>1. ~HasPrivilegesOf(Us, owner[c.relation])'
    BY <1>1, <1>2, PrivilegesKept
  <2>2. owner'[c.relation] \notin Grantors(Us, c.relation, c.privilege)'
    BY <2>1 DEF Grantors
  <2>. QED BY <1>1, <2>2 DEF WhatSucceededIsListed
<1>3. CASE HasPrivilegesOf(Us, owner[c.relation])
  <2>1. Grantors(Us, c.relation, c.privilege) = {owner[c.relation]}
    BY <1>3 DEF Grantors
  <2>2. acl' = [acl EXCEPT ![c.relation] = left(owner[c.relation])]
    BY <2>1 DEF RevokeAccess
  <2>3. acl'[c.relation] = left(owner[c.relation])
    BY <1>1, <2>2 DEF Attributed
  <2>4. \A i \in Exploded(c.relation)' :
          \/ i.grantee # c.principal \/ i.privilege # c.privilege
          \/ i.grantor # owner[c.relation]
    BY <2>3 DEF Exploded
  <2>5. \A row \in DirectListed(c.principal, Everything)' :
          \/ row.object # c.relation \/ row.item.privilege # c.privilege
          \/ row.item.grantor # owner'[c.relation]
    BY <1>1, <2>4 DEF DirectListed
  <2>. QED BY <1>1, <2>5 DEF WhatSucceededIsListed
<1>. QED BY <1>2, <1>3

LEMMA StatementListed ==
  ASSUME NullIsNoList, Attributed, Itemized, NEW c \in Commands, Statement(Us, c)
  PROVE  WhatSucceededIsListed'
<1>1. Succeeded(c)'
  BY DEF Statement, Succeeded, Accepted, CreateRole, AlterRole, DropRole,
         AddMembership, RemoveMembership, GrantAccess, RevokeAccess
<1>2. CASE CreateRole(Us, c)
  BY <1>1, <1>2, CommandKinds, CreateListed DEF CreateRole
<1>3. CASE AlterRole(Us, c)
  BY <1>1, <1>3, CommandKinds, AlterListed DEF AlterRole
<1>4. CASE DropRole(Us, c)
  BY <1>1, <1>4, CommandKinds, DropListed DEF DropRole
<1>5. CASE AddMembership(Us, c)
  BY <1>1, <1>5, AddListed
<1>6. CASE RemoveMembership(Us, c)
  BY <1>1, <1>6, RemoveListed
<1>7. CASE GrantAccess(Us, c)
  BY <1>1, <1>7, CommandKinds, GrantListed DEF GrantAccess
<1>8. CASE RevokeAccess(Us, c)
  BY <1>1, <1>8, CommandKinds, RevokeListed DEF RevokeAccess
<1>. QED BY <1>2, <1>3, <1>4, <1>5, <1>6, <1>7, <1>8 DEF Statement

LEMMA UnchangedListed ==
  ASSUME WhatSucceededIsListed, UNCHANGED accessVars PROVE WhatSucceededIsListed'
<1>1. UNCHANGED <<roles, memberships, owner, acl, reply>>
  BY DEF accessVars
<1>2. \A system, loginOnly : RolesListed(system, loginOnly)' = RolesListed(system, loginOnly)
  BY <1>1 DEF RolesListed, Exists
<1>3. MembershipsListed' = MembershipsListed
  BY <1>1 DEF MembershipsListed, Exists
<1>4. \A role, filter : DirectListed(role, filter)' = DirectListed(role, filter)
  BY <1>1 DEF DirectListed, Exploded, Exists, Passes
<1>5. \A by, r, p : Grantors(by, r, p)' = Grantors(by, r, p)
  BY <1>1, GrantorsKept
<1>6. \A role, r, p : "direct" \in Sources(role, r, p) <=> "direct" \in Sources(role, r, p)'
  BY <1>1 DEF Sources, SourceDirect, Exploded
<1>7. \A role, filter : DirectFails(role, filter)' <=> DirectFails(role, filter)
  BY <1>4 DEF DirectFails
<1>. QED BY <1>1, <1>2, <1>3, <1>4, <1>5, <1>6, <1>7 DEF WhatSucceededIsListed

\* Every other step either reports something else or changes nothing.
LEMMA StepListed ==
  ASSUME NullIsNoList, Attributed, Itemized, WhatSucceededIsListed,
         [RoleNext]_accessVars
  PROVE  WhatSucceededIsListed'
<1>1. CASE Mutate
  BY <1>1, StatementListed, MenuAssumption DEF Mutate
<1>2. CASE OthersAct
  <2>1. reply' = Nothing
    BY <1>2, NamesAssumption
       DEF OthersAct, Statement, Accepted, CreateRole, AlterRole, DropRole,
           AddMembership, RemoveMembership, GrantAccess, RevokeAccess
  <2>. QED BY <2>1 DEF Nothing, WhatSucceededIsListed
<1>3. CASE Refused \/ UsageError \/ DescribeMemberships
  <2>1. reply'.outcome \in {"refused", "usage", "described"}
    BY <1>3 DEF Refused, UsageError, DescribeMemberships
  <2>. QED BY <2>1 DEF WhatSucceededIsListed
<1>4. ASSUME NEW role, ListDirect(role) \/ ListEffective(role) \/ DescribeRole(role)
      PROVE  WhatSucceededIsListed'
  <2>1. CASE ListDirect(role) \/ ListEffective(role)
    BY <2>1, ListingAnswers DEF WhatSucceededIsListed
  <2>2. CASE DescribeRole(role)
    BY <2>2 DEF DescribeRole, Nothing, WhatSucceededIsListed
  <2>. QED BY <1>4, <2>1, <2>2
<1>5. CASE UNCHANGED accessVars
  BY <1>5, UnchangedListed
<1>. QED BY <1>1, <1>2, <1>3, <1>4, <1>5 DEF RoleNext

THEOREM SuccessListed == NullIsNoList => (RoleSpec => []WhatSucceededIsListed)
<1> SUFFICES ASSUME NullIsNoList PROVE RoleSpec => []WhatSucceededIsListed
  OBVIOUS
<1>1. RoleInit => WhatSucceededIsListed
  BY DEF RoleInit, Nothing, WhatSucceededIsListed
<1>2. Attributed /\ Itemized /\ WhatSucceededIsListed /\ [RoleNext]_accessVars
        => WhatSucceededIsListed'
  BY StepListed
<1>. QED BY <1>1, <1>2, AlwaysAttributed, InitItemized, StepItemized, PTL DEF RoleSpec


-----------------------------------------------------------------------------
(***************************************************************************)
(* A description is read at two moments: the memberships it shows are all  *)
(* between roles that exist and have the role described at one end, none   *)
(* at both.  The last needs that no role is a member of itself: GRANT is   *)
(* refused when the new member is the role, or above it.                   *)
(***************************************************************************)
NoSelf == \A m \in memberships : m.role # m.member

LEMMA DropNoSelf ==
  ASSUME Itemized, NoSelf, NEW by, NEW c, DropRole(by, c) PROVE NoSelf'
<1>1. ASSUME NEW e \in memberships,
             NEW m, m = [e EXCEPT !.grantor = IF @ = c.name THEN Unset ELSE @]
      PROVE  m.role # m.member
  BY <1>1 DEF Itemized, Edges, NoSelf
<1>. QED BY <1>1 DEF DropRole, NoSelf

LEMMA AddNoSelf ==
  ASSUME NoSelf, NEW by, NEW c, AddMembership(by, c) PROVE NoSelf'
<1>1. c.role # c.member
  BY DEF AddMembership
<1>2. PICK known, admin :
        memberships' = (memberships \ known) \cup
          {[role |-> c.role, member |-> c.member, grantor |-> by, admin |-> admin]}
  BY DEF AddMembership
<1>. QED BY <1>1, <1>2 DEF NoSelf

LEMMA StepNoSelf ==
  ASSUME Itemized, NoSelf, [RoleNext]_accessVars PROVE NoSelf'
<1>1. ASSUME NEW by, NEW c, Statement(by, c) PROVE NoSelf'
  <2>1. CASE UNCHANGED memberships
    BY <2>1 DEF NoSelf
  <2>2. CASE DropRole(by, c)
    BY <2>2, DropNoSelf
  <2>3. CASE AddMembership(by, c)
    BY <2>3, AddNoSelf
  <2>4. CASE RemoveMembership(by, c)
    BY <2>4 DEF RemoveMembership, NoSelf
  <2>. QED BY <1>1, <2>1, <2>2, <2>3, <2>4
           DEF Statement, CreateRole, AlterRole, GrantAccess, RevokeAccess
<1>2. CASE UNCHANGED memberships
  BY <1>2 DEF NoSelf
<1>3. \/ UNCHANGED memberships \/ \E by, c : Statement(by, c)
  BY DEF RoleNext, accessVars, Mutate, OthersAct, Refused, UsageError,
         DescribeMemberships, ListDirect, ListEffective, DescribeRole, Server
<1>. QED BY <1>1, <1>2, <1>3

LEMMA DescribeAgrees ==
  ASSUME NoSelf, DescribeMemberships PROVE DescriptionsAgree'
<1> DEFINE memberOf == {m \in MembershipsListed : m.member = described.name}
           members == {m \in MembershipsListed : m.role = described.name}
<1>1. /\ reply'.command.role = described
      /\ reply'.command.member_of = memberOf /\ reply'.command.members = members
  BY DEF DescribeMemberships
<1>2. UNCHANGED <<roles, memberships>>
  BY DEF DescribeMemberships, Server
<1>3. \A m \in memberOf \cup members : Exists(m.role)' /\ Exists(m.member)'
  BY <1>2 DEF MembershipsListed, Exists
<1>4. memberOf \cap members = {}
  BY DEF NoSelf, MembershipsListed
<1>5. /\ \A m \in memberOf : m.member = described.name
      /\ \A m \in members : m.role = described.name
  OBVIOUS
<1> HIDE DEF memberOf, members
<1>. QED BY <1>1, <1>3, <1>4, <1>5 DEF DescriptionsAgree

LEMMA StepAgrees ==
  ASSUME NoSelf, DescriptionsAgree, [RoleNext]_accessVars PROVE DescriptionsAgree'
<1>1. CASE DescribeMemberships
  BY <1>1, DescribeAgrees
<1>2. ASSUME NEW by, NEW c, Statement(by, c) PROVE DescriptionsAgree'
  <2>1. reply'.outcome \in {"succeeded", "none"}
    BY <1>2 DEF Statement, Accepted, CreateRole, AlterRole, DropRole, AddMembership,
                RemoveMembership, GrantAccess, RevokeAccess, Nothing
  <2>. QED BY <2>1 DEF DescriptionsAgree
<1>3. CASE Refused \/ UsageError
  BY <1>3 DEF Refused, UsageError, DescriptionsAgree
<1>4. ASSUME NEW role, ListDirect(role) \/ ListEffective(role) PROVE DescriptionsAgree'
  BY <1>4, ListingAnswers DEF DescriptionsAgree
<1>5. ASSUME NEW role, DescribeRole(role) PROVE DescriptionsAgree'
  BY <1>5 DEF DescribeRole, Nothing, DescriptionsAgree
<1>6. CASE UNCHANGED accessVars
  BY <1>6 DEF accessVars, DescriptionsAgree, Exists
<1>. QED BY <1>1, <1>2, <1>3, <1>4, <1>5, <1>6 DEF RoleNext, Mutate, OthersAct

THEOREM DescriptionsHold == RoleSpec => []DescriptionsAgree
<1>1. RoleInit => NoSelf /\ DescriptionsAgree
  BY DEF RoleInit, NoSelf, Nothing, DescriptionsAgree
<1>2. Itemized /\ NoSelf /\ DescriptionsAgree /\ [RoleNext]_accessVars
        => NoSelf' /\ DescriptionsAgree'
  BY StepNoSelf, StepAgrees
<1>. QED BY <1>1, <1>2, InitAttributed, StepAttributed, InitItemized, StepItemized,
            PTL DEF RoleSpec


-----------------------------------------------------------------------------
(***************************************************************************)
(* The types, and with them that two roles have one membership at most: a  *)
(* GRANT of what is there replaces it, a dropped grantor is taken out of   *)
(* it, and nothing makes a second.                                         *)
(***************************************************************************)
OneEach ==
  \A m, n \in memberships : m.role = n.role /\ m.member = n.member => m = n

Counted ==
  /\ statements \in 0 .. MaxStatements
  /\ reply.outcome \in {"none", "usage", "succeeded", "refused", "listed",
                        "described", "not_found", "internal"}

LEMMA TypedByParts == Attributed /\ Itemized /\ OneEach /\ Counted => RoleTypeOK
<1> SUFFICES ASSUME Attributed, Itemized, OneEach, Counted PROVE RoleTypeOK
  OBVIOUS
<1>1. \A m \in memberships :
        /\ {m.role, m.member} \subseteq Names /\ m.grantor \in Names \cup {Unset}
        /\ m.admin \in BOOLEAN
  BY DEF Itemized, Edges
<1>2. \A r \in Relations : acl[r] # Unset =>
        \A i \in acl[r] :
          /\ i.grantee \in Names \cup {Public} /\ i.grantor \in Names
          /\ i.privilege \in ServerPrivileges /\ i.grantable \in BOOLEAN
  BY DEF Itemized, Items, Exploded
<1>. QED BY <1>1, <1>2 DEF RoleTypeOK, Attributed, OneEach, Counted

LEMMA DropOneEach ==
  ASSUME Itemized, OneEach, NEW by, NEW c, DropRole(by, c) PROVE OneEach'
<1> DEFINE left == {e \in memberships : c.name \notin {e.role, e.member}}
           edge(m) == [m EXCEPT !.grantor = IF @ = c.name THEN Unset ELSE @]
<1>1. memberships' = {edge(m) : m \in left}
  BY DEF DropRole
<1>2. \A m \in left : edge(m).role = m.role /\ edge(m).member = m.member
  BY DEF Itemized, Edges
<1>3. left \subseteq memberships
  OBVIOUS
<1> HIDE DEF left, edge
<1>. QED BY <1>1, <1>2, <1>3 DEF OneEach

LEMMA AddOneEach ==
  ASSUME OneEach, NEW by, NEW c, AddMembership(by, c) PROVE OneEach'
<1> DEFINE known == {m \in memberships : m.role = c.role /\ m.member = c.member}
           added == [role |-> c.role, member |-> c.member, grantor |-> by,
                     admin |-> c.admin \/ \E m \in known : m.admin]
<1>1. memberships' = (memberships \ known) \cup {added}
  BY DEF AddMembership
<1>2. added.role = c.role /\ added.member = c.member
  OBVIOUS
<1> HIDE DEF added
<1>. QED BY <1>1, <1>2 DEF OneEach

LEMMA StepOneEach ==
  ASSUME Itemized, OneEach, Counted, [RoleNext]_accessVars PROVE OneEach' /\ Counted'
<1>1. ASSUME NEW by, NEW c, Statement(by, c) PROVE OneEach' /\ Counted'
  <2>1. OneEach'
    <3>1. CASE UNCHANGED memberships
      BY <3>1 DEF OneEach
    <3>2. CASE DropRole(by, c)
      BY <3>2, DropOneEach
    <3>3. CASE AddMembership(by, c)
      BY <3>3, AddOneEach
    <3>4. CASE RemoveMembership(by, c)
      BY <3>4 DEF RemoveMembership, OneEach
    <3>. QED BY <1>1, <3>1, <3>2, <3>3, <3>4
             DEF Statement, CreateRole, AlterRole, GrantAccess, RevokeAccess
  <2>2. Accepted(by, c)
    BY <1>1 DEF Statement, CreateRole, AlterRole, DropRole, AddMembership,
                RemoveMembership, GrantAccess, RevokeAccess
  <2>3. Counted'
    BY <2>2, StatementsAssumption DEF Accepted, Nothing, Counted
  <2>. QED BY <2>1, <2>3
<1>2. CASE Refused \/ UsageError \/ DescribeMemberships
  BY <1>2 DEF Refused, UsageError, DescribeMemberships, Server, OneEach, Counted
<1>3. ASSUME NEW role, ListDirect(role) \/ ListEffective(role) PROVE OneEach' /\ Counted'
  BY <1>3, ListingAnswers DEF Server, OneEach, Counted
<1>4. ASSUME NEW role, DescribeRole(role) PROVE OneEach' /\ Counted'
  BY <1>4 DEF DescribeRole, Nothing, Server, OneEach, Counted
<1>5. CASE UNCHANGED accessVars
  BY <1>5 DEF accessVars, OneEach, Counted
<1>. QED BY <1>1, <1>2, <1>3, <1>4, <1>5 DEF RoleNext, Mutate, OthersAct

THEOREM RoleTyped == RoleSpec => []RoleTypeOK
<1>1. RoleInit => OneEach /\ Counted
  BY StatementsAssumption DEF RoleInit, OneEach, Counted, Nothing
<1>2. Itemized /\ OneEach /\ Counted /\ [RoleNext]_accessVars => OneEach' /\ Counted'
  BY StepOneEach
<1>. QED BY <1>1, <1>2, InitAttributed, StepAttributed, InitItemized, StepItemized,
            TypedByParts, PTL DEF RoleSpec

===============================================================================
