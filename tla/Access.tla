------------------------------- MODULE Access ------------------------------
(***************************************************************************)
(* Requests on owned resources: from the groups authMiddleware looks up,   *)
(* through the resource a handler loads and the verdict on it, to the      *)
(* write that follows.                                                     *)
(*   internal/api/middleware.go         authMiddleware, adminMiddleware    *)
(*   internal/api/authz.go              authzCheck                         *)
(*   internal/api/handlers_shares.go    share, revoke, list shares         *)
(*   internal/api/handlers_registry.go  register, get, delete              *)
(*   internal/registry/badger.go        the entries                        *)
(*   internal/cluster/shares.go         UpdateShares of jobs, workflows    *)
(* The stores are maps, so one resource is modelled: a job, which is never *)
(* deleted, or the key of a dataset or a model, which can be deleted and   *)
(* registered again by someone else.  Between its load and its write a     *)
(* handler holds no lock.                                                  *)
(***************************************************************************)
EXTENDS Authz, Groups

CONSTANTS
    Procs,     \* handler goroutines
    Callers,   \* the principals that call
    Kept,      \* [kind, owner] of a record there may be at the start
    Free,      \* kinds of a registry key that may be free at the start
    Grants,    \* [grantee, actions] a caller may ask to share
    MaxShares, \* MaxSharesPerResource
    MaxEpoch,  \* bound on new registrations of the key
    Faults     \* what may fail, among FaultKinds

\* save:   UpdateShares cannot persist
\* lookup: GroupsFor fails; the request goes on without groups
FaultKinds == {"save", "lookup"}

ASSUME AccessAssumption ==
    /\ MaxShares \in Nat \ {0}
    /\ MaxEpoch \in Nat
    /\ Kept \subseteq [kind : {"job", "dataset", "model"}, owner : {x.owner : x \in Kept}]
    /\ Free \subseteq {"dataset", "model"}
    /\ Faults \subseteq FaultKinds

VARIABLES
    store,  \* the resource's record
    req,    \* the request each goroutine serves; stale: the record has changed since its load
    orphan, \* history: the groups deleted while a share named them
    asked,  \* history: the shares the answered requests asked for, until amiss
    amiss   \* history: a write failed, or was computed from a record that has changed since

vars == <<groups, index, store, req, orphan, asked, amiss>>

Admins == {p \in Callers : IsAdmin(p)}

Record(kind, there, owner, epoch) ==
    [kind |-> kind, there |-> there, owner |-> owner, shares |-> {}, epoch |-> epoch]

NoRecord(kind) == Record(kind, FALSE, NoOwner, 0)

Entries == {"dataset", "model"}

NoShare == [grantee |-> NoOwner, actions |-> {}, by |-> NoOwner]

Idle == [at |-> "idle", op |-> "", who |-> Anonymous, share |-> NoShare,
         list |-> {}, stale |-> FALSE]

\* What Allow is asked about.
AsResource(rec) ==
    IF rec.kind = "job" THEN JobResource(rec.owner, "", rec.shares)
                        ELSE Resource(rec.kind, rec.owner, rec.shares)

Init ==
    /\ GroupsInit
    /\ store \in {Record(x.kind, TRUE, x.owner, 0) : x \in Kept} \cup {NoRecord(k) : k \in Free}
    /\ req = [q \in Procs |-> Idle]
    /\ orphan = {}
    /\ asked = {}
    /\ amiss = FALSE

-----------------------------------------------------------------------------
(* The group endpoints: adminMiddleware, then one call of the store.       *)

Administered ==
    /\ \E p \in Callers : Allow(p, "admin", SystemResource)
    /\ UNCHANGED <<store, req, asked, amiss>>

handleCreateGroup(g) == Administered /\ CreateGroup(g) /\ UNCHANGED orphan

handleAddGroupMember(g, m) == Administered /\ AddMember(g, m) /\ UNCHANGED orphan

handleRemoveGroupMember(g, m) == Administered /\ RemoveMember(g, m) /\ UNCHANGED orphan

\* The shares that name the group are not looked for.
handleDeleteGroup(g) ==
    /\ Administered
    /\ DeleteGroup(g)
    /\ orphan' = IF \E sh \in store.shares : sh.grantee = <<"group", g>> THEN orphan \cup {g}
                 ELSE orphan

GroupCall ==
    \E g \in GroupNames :
        \/ handleCreateGroup(g) \/ handleDeleteGroup(g)
        \/ \E m \in Members : handleAddGroupMember(g, m) \/ handleRemoveGroupMember(g, m)

-----------------------------------------------------------------------------
(* Requests.                                                               *)

\* What a caller's groups may be found to be: a failed lookup finds none.
populateGroups(p) ==
    IF p.kind = "anonymous" THEN {{}}
    ELSE {GroupsFor(p.id)} \cup (IF "lookup" \in Faults THEN {{}} ELSE {})

\* authMiddleware: the token is valid, the groups are read now.
Begin(q, p, op) ==
    /\ req[q].at = "idle"
    /\ \E found \in populateGroups(p) :
          req' = [req EXCEPT ![q] = [Idle EXCEPT !.at = "load", !.op = op,
                                                 !.who = [p EXCEPT !.groups = found]]]
    /\ UNCHANGED <<groups, index, orphan, store, asked, amiss>>

\* The response is written; nothing more is done for the request.
Answer(q) == req' = [req EXCEPT ![q] = Idle]

\* Goroutine q goes on as r, having changed the record under the others.
Changed(q, r) ==
    req' = [x \in Procs |-> IF x = q THEN r
                            ELSE [req[x] EXCEPT !.stale = @ \/ req[x].at = "write"]]

merge(shares, sh) == {x \in shares : x.grantee # sh.grantee} \cup {sh}

trim(shares, grantee) == {x \in shares : x.grantee # grantee}

\* Mutant: the share of a grantee that has one is added beside it.
NewList_Beside(op, sh, shares) ==
    IF op = "share" THEN shares \cup {sh} ELSE trim(shares, sh.grantee)

NewList(op, sh, shares) ==
    IF op = "share" THEN merge(shares, sh) ELSE trim(shares, sh.grantee)

\* mergeShares writes into the slice it was given; a job's snapshot shares its
\* slice with the store, so replacing a grantee's share shows at once.
InPlace(op, sh) ==
    /\ op = "share"
    /\ store.kind = "job"
    /\ \E x \in store.shares : x.grantee = sh.grantee

\* handleCreateShare and handleRevokeShare up to the save: 400 for a bad body,
\* 404, 403, and 400 when the list would be too long.  The caller's groups play
\* no part, so what authMiddleware does is in this step.
LoadForShares(q, p, op, g) ==
    LET sh   == IF op = "share" THEN [grantee |-> g.grantee, actions |-> g.actions, by |-> p.id]
                               ELSE [NoShare EXCEPT !.grantee = g.grantee]
        list == NewList(op, sh, store.shares)
        next == [Idle EXCEPT !.at = "write", !.op = op, !.share = sh, !.list = list] IN
    /\ req[q].at = "idle"
    /\ op = "share" => ValidateShare(sh)
    /\ store.there
    /\ isOwnerOrAdmin(p, store.owner)
    /\ Cardinality(list) <= MaxShares
    /\ IF InPlace(op, sh)
       THEN Changed(q, next) /\ store' = [store EXCEPT !.shares = list]
       ELSE req' = [req EXCEPT ![q] = next] /\ UNCHANGED store
    /\ UNCHANGED <<groups, index, orphan, asked, amiss>>

handleCreateShare(q, p, g) == LoadForShares(q, p, "share", g)

handleRevokeShare(q, p, g) == LoadForShares(q, p, "revoke", g)

\* What the answered request asked of the list as it stood: its one change.
Asked(op, sh) ==
    {x \in asked : x.grantee # sh.grantee} \cup (IF op = "share" THEN {sh} ELSE {})

\* UpdateShares of a job replaces the list in memory and does not take it back
\* when the record cannot be persisted.
UpdateShares(rec, list, saved) == [rec EXCEPT !.shares = list]

\* UpdateDatasetShares and UpdateModelShares are one transaction.
UpdateEntryShares(rec, list, saved) == IF saved THEN [rec EXCEPT !.shares = list] ELSE rec

Updated(rec, list, saved) ==
    IF rec.kind = "job" THEN UpdateShares(rec, list, saved) ELSE UpdateEntryShares(rec, list, saved)

\* The whole list is replaced by the one computed from the load.
SaveShares(q) ==
    /\ req[q].at = "write"
    /\ req[q].op \in {"share", "revoke"}
    /\ store.there
    /\ store' = Updated(store, req[q].list, TRUE)
    /\ amiss' = (amiss \/ req[q].stale)
    /\ asked' = IF amiss' THEN {} ELSE Asked(req[q].op, req[q].share)
    /\ orphan' = {g \in orphan : <<"group", g>> # req[q].share.grantee}
    /\ Changed(q, Idle)
    /\ UNCHANGED <<groups, index>>

\* The entry is gone, or the record cannot be persisted: 500.
SaveSharesFails(q) ==
    /\ req[q].at = "write"
    /\ req[q].op \in {"share", "revoke"}
    /\ ~store.there \/ "save" \in Faults
    /\ store' = Updated(store, req[q].list, FALSE)
    /\ amiss' = (amiss \/ store.there)
    /\ asked' = IF amiss' THEN {} ELSE asked
    /\ Changed(q, Idle)
    /\ UNCHANGED <<groups, index, orphan>>

\* A get answers 200 if MayRead, else 404 or 403.
MayRead(q) == store.there /\ Allow(req[q].who, "read", AsResource(store))

Read(q, kind) ==
    /\ req[q].at = "load"
    /\ req[q].op = "get"
    /\ store.kind = kind
    /\ Answer(q)
    /\ UNCHANGED <<groups, index, orphan, store, asked, amiss>>

handleGetJob(q) == Read(q, "job")

handleGetDataset(q) == Read(q, "dataset")

handleGetModel(q) == Read(q, "model")

\* Who has access is for whoever may read the resource.
handleListShares(q) == Read(q, store.kind)

\* The caller owns what it registers, so ActionWrite only asks what kind of
\* caller it is.
MayRegister(who, kind) == Allow(who, "write", Resource(kind, who.id, {}))

\* Up to the store: an entry that is not valid and a dry run are answered and
\* leave nothing behind.
CheckRegister(q, p, kind) ==
    /\ req[q].at = "idle"
    /\ store.kind = kind
    /\ MayRegister(p, kind)
    /\ req' = [req EXCEPT ![q] = [Idle EXCEPT !.at = "write", !.op = "register", !.who = p]]
    /\ UNCHANGED <<groups, index, orphan, store, asked, amiss>>

handleRegisterDataset(q, p) == CheckRegister(q, p, "dataset")

handleRegisterModel(q, p) == CheckRegister(q, p, "model")

Taken(rec) == rec.there

\* RegisterDataset, RegisterModel: probe and set in one transaction; 409 for a
\* key in use.
Register(q) ==
    /\ req[q].at = "write"
    /\ req[q].op = "register"
    /\ IF Taken(store)
       THEN Answer(q) /\ UNCHANGED <<store, asked>>
       ELSE /\ store.epoch < MaxEpoch
            /\ Changed(q, Idle)
            /\ store' = Record(store.kind, TRUE, req[q].who.id, store.epoch + 1)
            /\ asked' = {}
    /\ UNCHANGED <<groups, index, orphan, amiss>>

\* The entry is loaded and ActionDelete asked of it; then the key is deleted.
CheckDelete(q, kind) ==
    /\ req[q].at = "load"
    /\ req[q].op = "delete"
    /\ store.kind = kind
    /\ IF store.there /\ Allow(req[q].who, "delete", AsResource(store))
       THEN req' = [req EXCEPT ![q].at = "write"]
       ELSE Answer(q)
    /\ UNCHANGED <<groups, index, orphan, store, asked, amiss>>

handleDeleteDataset(q) == CheckDelete(q, "dataset")

handleDeleteModel(q) == CheckDelete(q, "model")

\* DeleteDataset, DeleteModel: 404 if the key has gone since.
Delete(q) ==
    /\ req[q].at = "write"
    /\ req[q].op = "delete"
    /\ IF store.there
       THEN /\ store' = [NoRecord(store.kind) EXCEPT !.epoch = store.epoch]
            /\ asked' = {}
            /\ amiss' = (amiss \/ req[q].stale)
            /\ orphan' = {}
            /\ Changed(q, Idle)
       ELSE Answer(q) /\ UNCHANGED <<store, asked, amiss, orphan>>
    /\ UNCHANGED <<groups, index>>

Handle(q) ==
    \/ SaveShares(q) \/ SaveSharesFails(q)
    \/ handleGetJob(q) \/ handleGetDataset(q) \/ handleGetModel(q) \/ handleListShares(q)
    \/ Register(q) \/ handleDeleteDataset(q) \/ handleDeleteModel(q) \/ Delete(q)

Arrive(q, p) ==
    \/ Begin(q, p, "get")
    \/ store.kind \in Entries /\ Begin(q, p, "delete")
    \/ \E g \in Grants : handleCreateShare(q, p, g) \/ handleRevokeShare(q, p, g)
    \/ handleRegisterDataset(q, p) \/ handleRegisterModel(q, p)

Next ==
    \/ GroupCall
    \/ \E q \in Procs : Handle(q) \/ \E p \in Callers : Arrive(q, p)

Spec == Init /\ [][Next]_vars

-----------------------------------------------------------------------------
(* Properties.                                                             *)

AccessTypeOK ==
    /\ GroupsTypeOK
    /\ store.there \/ store.shares = {}
    /\ Cardinality(store.shares) <= MaxShares
    /\ \A q \in Procs : req[q].at \in {"idle", "load", "write"}

\* Only the owner or an admin ever puts a share on a resource ("Non-transitive",
\* share.go:27), however requests interleave.  For a job this needs nothing
\* else; a registry entry can be replaced between the check and the write.
SharesByOwner ==
    store.kind = "job" \/ ~amiss =>
        \A sh \in store.shares : sh.by = store.owner \/ \E p \in Admins : sh.by = p.id

AtRest == \A q \in Procs : req[q].at # "write"

\* At rest, the list is what the requests answered 201 and 204 asked for, one
\* by one.  The whole list is written back, so the exceptions are the writes
\* computed from a list that has changed since, and the ones that failed.
SharesAsAsked ==
    AtRest /\ ~amiss => store.shares = asked

\* handlers_groups.go:23 "Shares referencing a deleted group are inert": access
\* through a group is access through the group that bore the name when the
\* share was made.
DeletedGroupInert ==
    \A q \in Procs :
        /\ req[q].at = "load" /\ req[q].op = "get" /\ MayRead(q)
        /\ ~IsAdmin(req[q].who) /\ req[q].who.id # store.owner
        => \E sh \in store.shares :
              /\ matchesGrantee(req[q].who, sh.grantee) /\ "read" \in sh.actions
              /\ sh.grantee \notin {<<"group", g>> : g \in orphan}

\* cluster/shares.go:11 "Read-modify-write under the store's existing mutex": no
\* list is written back over a change it was not computed from.
NoLostShare ==
    \A q \in Procs : req[q].at = "write" /\ req[q].op \in {"share", "revoke"} => ~req[q].stale

\* middleware.go:107 a job token may register what its workflow makes
\* ("register.py POSTing to /api/datasets + /api/models").
JobTokenRegisters ==
    \A q \in Procs :
        req[q].who.kind = "job" => MayRegister(req[q].who, "model")

=============================================================================
