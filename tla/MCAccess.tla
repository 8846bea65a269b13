----------------------------- MODULE MCAccess ------------------------------
(***************************************************************************)
(* The API's handling of owned resources, for TLC: the requests of Access, *)
(* by an owner, a namesake of another kind and an admin, with one group;   *)
(* and the lists and pages of Catalog.  The two share no state: a          *)
(* behaviour is of one part, the variables of the other keep their first   *)
(* value.                                                                  *)
(***************************************************************************)
EXTENDS Access

CONSTANTS
    ada, root, q1, q2,
    Keys, Valid, Permitted, PageSize, FetchSize, MaxClock  \* of Catalog

VARIABLES part, list, entries, pending, clock, walk, latest

C == INSTANCE Catalog

ASSUME C!CatalogAssumption

catalogVars == <<list, entries, pending, clock, walk, latest>>
mcVars == <<groups, index, store, req, orphan, asked, amiss, part,
            list, entries, pending, clock, walk, latest>>

MCCallers == {User(ada, "user"), Operator(ada, "user"), User(root, "admin")}

MCKept == {[kind |-> "job", owner |-> <<"user", ada>>], [kind |-> "dataset", owner |-> LegacyOwnerID]}

MCMembers == {<<"operator", ada>>}

MCGrants ==
    {[grantee |-> <<"operator", ada>>, actions |-> {"read", "delete"}],
     [grantee |-> <<"group", "g">>, actions |-> {"read"}]}

MCSymmetry == {[q \in {q1, q2} |-> IF q = q1 THEN q2 ELSE q1]}

AccessInit == part = "access" /\ Init /\ C!Init /\ list = "work"

CatalogInit == part = "catalog" /\ Init /\ store = NoRecord("model") /\ C!Init

MCNext ==
    \/ part = "access" /\ Next /\ UNCHANGED <<part, catalogVars>>
    \/ part = "catalog" /\ C!Next /\ UNCHANGED <<part, vars>>

MCSpec == (AccessInit \/ CatalogInit) /\ [][MCNext]_mcVars

\* A walk over the pages of a list sees every row that stays in it (Catalog).
WalkSeesAll == C!WalkSeesAll

=============================================================================
