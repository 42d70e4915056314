---------------------------- MODULE Organisations ----------------------------
(***************************************************************************)
(* The organisation tree and its memberships.  DeleteOrg counts the        *)
(* children, then the members, then deletes, in three statements; nothing  *)
(* that attaches a child or a member locks the organisation.               *)
(***************************************************************************)
EXTENDS ConsoleRequests

CONSTANTS OrgIds, \* primary keys, taken in order
          Members \* the users

ASSUME OrgIdsAssumption == IsFiniteSet(OrgIds) /\ OrgIds = 1..Cardinality(OrgIds)

VARIABLES
  orgs,    \* the rows: status and parent, 0 for a top-level organisation
  members, \* the <<user, organisation, request>> rows of user_organizations
  late     \* history: children and members attached when nobody counted them any more

orgVars == <<orgs, members, late>>

-----------------------------------------------------------------------------
NoOrg == [status |-> "none", parent |-> 0]
LiveOrg(o) == orgs[o].status = "live"
Children(o) == {c \in OrgIds : LiveOrg(c) /\ orgs[c].parent = o}
MembersOf(o) == {m \in members : m[2] = o}
AtStep(o, steps) == \E w \in Workers : pc[w] \in steps /\ req[w].op = "DeleteOrg" /\ req[w].id = o
Gone(o) == o \in OrgIds /\ orgs[o].status = "deleted"

\* Child c is given parent o: whether the count of o's children was before.
Attached(c, o) ==
  late' = IF Gone(o) \/ AtStep(o, {"count members", "delete org"}) THEN late \cup {<<"child", c, o>>}
          ELSE late

-----------------------------------------------------------------------------
\* The parent of the body is not looked up: PostgreSQL refuses a key that is
\* in no row, by the foreign key gorm creates, but not a deleted row's, and
\* SQLite takes any.  A refused INSERT changes nothing.
CreateOrg(w, parent) ==
  /\ \E o \in OrgIds : orgs[o].status = "none"
  /\ LET free == {o \in OrgIds : orgs[o].status = "none"}
         o == CHOOSE o \in free : \A p \in free : o <= p
     IN /\ orgs' = [orgs EXCEPT ![o] = [status |-> "live", parent |-> parent]]
        /\ Attached(o, parent)
        /\ Start(w, "audit", Call("CreateOrg", o, NoOrg, parent))
        /\ untold' = untold \cup {<<Serial, "CreateOrg", o>>}
  /\ UNCHANGED members

UpdateOrg(w, o, parent) ==
  /\ LiveOrg(o) /\ Start(w, "update org", Call("UpdateOrg", o, orgs[o], parent))
  /\ UNCHANGED <<orgVars, consoleVars>>

\* An UPDATE of the columns in the body; its error is the answer.
SetParent(w) ==
  /\ Executed(w, "update org")
  /\ LET o == req[w].id
     IN IF LiveOrg(o) THEN orgs' = [orgs EXCEPT ![o].parent = req[w].to] /\ Attached(o, req[w].to)
                      ELSE UNCHANGED <<orgs, late>>
  /\ UNCHANGED members

SetParentFails(w) == ProceedFailed(w, "update org", "idle") /\ UNCHANGED <<orgVars, consoleVars>>

AddOrgMember(w, o, u) ==
  /\ LiveOrg(o) /\ Start(w, "look up member", Call("AddOrgMember", o, orgs[o], u))
  /\ UNCHANGED <<orgVars, consoleVars>>

\* An error of the lookup counts as no membership.
LookUpMember(w) ==
  /\ \/ /\ Proceed(w, "look up member",
             IF \E m \in MembersOf(req[w].id) : m[1] = req[w].to THEN "idle" ELSE "insert member")
     \/ ProceedFailed(w, "look up member", "insert member")
  /\ UNCHANGED <<orgVars, consoleVars>>

InsertMember(w) ==
  /\ Executed(w, "insert member")
  /\ LET o == req[w].id
     IN /\ members' = members \cup {<<req[w].to, o, req[w].serial>>}
        /\ late' = IF Gone(o) \/ AtStep(o, {"delete org"})
                   THEN late \cup {<<"member", req[w].to, o>>} ELSE late
  /\ UNCHANGED orgs

InsertMemberFails(w) == ProceedFailed(w, "insert member", "idle") /\ UNCHANGED <<orgVars, consoleVars>>

-----------------------------------------------------------------------------
DeleteOrg(w, o) ==
  /\ LiveOrg(o) /\ Start(w, "count children", Call("DeleteOrg", o, orgs[o], 0))
  /\ UNCHANGED <<orgVars, consoleVars>>

CountChildren(w) ==
  /\ Proceed(w, "count children", IF Children(req[w].id) = {} THEN "count members" ELSE "idle")
  /\ UNCHANGED <<orgVars, consoleVars>>

\* Mutant: the members are not counted.
CountMembers_None(w) ==
  /\ Proceed(w, "count members", "delete org")
  /\ UNCHANGED <<orgVars, consoleVars>>

CountMembers(w) ==
  /\ Proceed(w, "count members", IF MembersOf(req[w].id) = {} THEN "delete org" ELSE "idle")
  /\ UNCHANGED <<orgVars, consoleVars>>

\* The error of a Count is not looked at, and the count stays 0.
CountFails(w) ==
  /\ \/ ProceedFailed(w, "count children", "count members")
     \/ ProceedFailed(w, "count members", "delete org")
  /\ UNCHANGED <<orgVars, consoleVars>>

DeleteOrgRow(w) ==
  /\ Executed(w, "delete org")
  /\ orgs' = [orgs EXCEPT ![req[w].id].status = "deleted"]
  /\ UNCHANGED <<members, late>>

DeleteOrgFails(w) == ProceedFailed(w, "delete org", "idle") /\ UNCHANGED <<orgVars, consoleVars>>

-----------------------------------------------------------------------------
OrgsInit == orgs = [o \in OrgIds |-> NoOrg] /\ members = {} /\ late = {}

OrgsNext ==
  \/ \E w \in Workers, parent \in OrgIds \cup {0} :
       CreateOrg(w, parent) \/ \E o \in OrgIds : UpdateOrg(w, o, parent)
  \/ \E w \in Workers, o \in OrgIds : DeleteOrg(w, o) \/ \E u \in Members : AddOrgMember(w, o, u)
  \/ \E w \in Workers :
       \/ SetParent(w) \/ SetParentFails(w) \/ LookUpMember(w) \/ InsertMember(w)
       \/ InsertMemberFails(w) \/ CountChildren(w) \/ CountMembers(w) \/ CountFails(w)
       \/ DeleteOrgRow(w) \/ DeleteOrgFails(w)

-----------------------------------------------------------------------------
\* A deleted organisation is left with a child or a member only if a count
\* failed, or it was attached when the count that could have seen it was
\* over.  And a user has no more memberships of an organisation than requests
\* served at once: only lookups that overlapped have both found none.
NoOrphans ==
  NoFault =>
    \A o \in OrgIds :
      /\ orgs[o].status = "deleted" =>
           /\ \A c \in Children(o) : <<"child", c, o>> \in late
           /\ \A m \in MembersOf(o) : <<"member", m[1], o>> \in late
      /\ \A u \in Members :
           Cardinality({m \in members : m[1] = u /\ m[2] = o}) <= Cardinality(Workers)
=============================================================================
