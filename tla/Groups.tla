------------------------------- MODULE Groups ------------------------------
(***************************************************************************)
(* The group store and its admin endpoints:                                *)
(*   internal/groups/badger.go, internal/groups/groups.go                  *)
(*   internal/api/handlers_groups.go                                       *)
(* A Badger update transaction is serialisable, so each mutation is one    *)
(* step; a transaction that fails or meets a conflict changes nothing.     *)
(***************************************************************************)
EXTENDS Naturals

CONSTANTS
    GroupNames, \* names ValidateName accepts
    Members     \* principal IDs ValidatePrincipalID accepts

VARIABLES
    groups, \* groups/{name}: the members, or NoGroup
    index   \* groups/members/{principal}{group}: the reverse index

groupVars == <<groups, index>>

NoGroup == [exists |-> FALSE, members |-> {}]

Group == [exists : BOOLEAN, members : SUBSET Members]

GroupsInit ==
    /\ groups = [g \in GroupNames |-> NoGroup]
    /\ index = {}

\* A name in use is refused; the API creates groups without members.
CreateGroup(g) ==
    /\ ~groups[g].exists
    /\ groups' = [groups EXCEPT ![g] = [exists |-> TRUE, members |-> {}]]
    /\ UNCHANGED index

\* Adding a member again changes nothing.
AddMember(g, m) ==
    /\ groups[g].exists
    /\ m \notin groups[g].members
    /\ groups' = [groups EXCEPT ![g].members = @ \cup {m}]
    /\ index' = index \cup {<<m, g>>}

RemoveMember(g, m) ==
    /\ groups[g].exists
    /\ m \in groups[g].members
    /\ groups' = [groups EXCEPT ![g].members = @ \ {m}]
    /\ index' = index \ {<<m, g>>}

\* Mutant: the reverse index keeps the members of a deleted group.
DeleteGroup_KeepIndex(g) ==
    /\ groups[g].exists
    /\ groups' = [groups EXCEPT ![g] = NoGroup]
    /\ UNCHANGED index

\* The reverse keys of the members on record go with the group; the shares
\* that name it stay.
DeleteGroup(g) ==
    /\ groups[g].exists
    /\ index' = index \ {<<m, g>> : m \in groups[g].members}
    /\ groups' = [groups EXCEPT ![g] = NoGroup]

GroupStep ==
    \E g \in GroupNames :
        \/ CreateGroup(g) \/ DeleteGroup(g)
        \/ \E m \in Members : AddMember(g, m) \/ RemoveMember(g, m)

GroupsSpec == GroupsInit /\ [][GroupStep]_groupVars

\* The prefix scan of the reverse index.
GroupsFor(m) == {g \in GroupNames : <<m, g>> \in index}

-----------------------------------------------------------------------------
(* Properties.                                                             *)

GroupsTypeOK ==
    /\ groups \in [GroupNames -> Group]
    /\ index \subseteq Members \X GroupNames

\* The two halves of the store agree: GroupsFor, which decides access, and the
\* member list an admin sees, over creations, deletions and re-creations of a
\* name ("populated/removed in lockstep", groups/badger.go:14).
IndexAgrees ==
    \A m \in Members, g \in GroupNames : <<m, g>> \in index <=> m \in groups[g].members

=============================================================================
