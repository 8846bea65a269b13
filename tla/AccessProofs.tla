----------------------------- MODULE AccessProofs ----------------------------
(***************************************************************************)
(* Proofs about who is let in, and what they may change.                   *)
(*                                                                         *)
(* Groups and shares (Access), for any callers, goroutines, groups and     *)
(* lists: AccessInv says of every list of shares on its way to the record  *)
(* who made it and from what, so that a write can be traced back to the    *)
(* load it came from.                                                      *)
(* Nodes (NodeIdentity), for any nodes, certificates, concurrent calls and *)
(* streams: a revocation finds every open stream, a revoked node stays     *)
(* out, and a configured pin holds.                                        *)
(***************************************************************************)
EXTENDS NodeIdentity, Access, TLAPS

-----------------------------------------------------------------------------
(* Groups and shares.                                                      *)

\* A name that is free has no members on record.
GroupsInv ==
    /\ GroupsTypeOK
    /\ \A g \in GroupNames : ~groups[g].exists => groups[g].members = {}
    /\ IndexAgrees

\* Put there by the owner of the record or by an admin.
Owned(S) == \A sh \in S : sh.by = store.owner \/ \E p \in Admins : sh.by = p.id

\* The request is about to write a list of shares.
Pending(r) == r.at = "write" /\ r.op \in {"share", "revoke"}

RecordInv ==
    /\ DOMAIN store = {"kind", "there", "owner", "shares", "epoch"}
    /\ store.kind \in {"job"} \cup Entries
    /\ store.kind = "job" => store.there
    /\ amiss \in BOOLEAN
    /\ store.kind = "job" \/ ~amiss => Owned(store.shares)

\* A job is never deleted or registered.  A list to be written was made by the
\* owner or an admin of the record it was computed from; as long as that record
\* has not changed the list is one request ahead of it.
RequestInv(r) ==
    /\ DOMAIN r = DOMAIN Idle
    /\ r.stale \in BOOLEAN
    /\ r.at # "idle" /\ r.op \in {"register", "delete"} => store.kind \in Entries
    /\ Pending(r) /\ (store.kind = "job" \/ ~(amiss \/ r.stale)) => Owned(r.list)
    /\ Pending(r) /\ ~r.stale => r.list = NewList(r.op, r.share, store.shares)

RequestsInv == DOMAIN req = Procs /\ \A q \in Procs : RequestInv(req[q])

\* The list shows more than what was asked and answered only while a request
\* that has written into a job's list in place is still to come back to it: it
\* will save the very list, or one that has changed since.
AskedInv ==
    ~amiss => \/ store.shares = asked
              \/ /\ store.kind = "job"
                 /\ \E q \in Procs :
                       /\ Pending(req[q])
                       /\ req[q].stale \/ store.shares = Asked(req[q].op, req[q].share)

AccessInv == GroupsInv /\ RecordInv /\ RequestsInv /\ AskedInv

\* One group's record and its reverse keys change together.
LEMMA OneGroup ==
  ASSUME GroupsInv, NEW g \in GroupNames, NEW new \in Group, ~new.exists => new.members = {},
         groups' = [groups EXCEPT ![g] = new], index' \subseteq Members \X GroupNames,
         \A m \in Members : <<m, g>> \in index' <=> m \in new.members,
         \A m \in Members, h \in GroupNames : h # g => (<<m, h>> \in index' <=> <<m, h>> \in index)
  PROVE  GroupsInv'
  <1>1. groups \in [GroupNames -> Group]
    BY DEF GroupsInv, GroupsTypeOK
  <1>2. groups' \in [GroupNames -> Group] /\ groups'[g] = new
    BY <1>1
  <1>3. \A h \in GroupNames : h # g => groups'[h] = groups[h]
    BY <1>1
  <1>4. GroupsTypeOK'
    BY <1>2 DEF GroupsTypeOK
  <1>5. \A h \in GroupNames : ~groups'[h].exists => groups'[h].members = {}
    BY <1>2, <1>3 DEF GroupsInv
  <1>6. ASSUME NEW m \in Members, NEW h \in GroupNames
        PROVE  <<m, h>> \in index' <=> m \in groups'[h].members
    <2>1. <<m, h>> \in index <=> m \in groups[h].members
      BY DEF GroupsInv, IndexAgrees
    <2>2. CASE h = g
      BY <1>2, <2>2
    <2>3. CASE h # g
      BY <1>3, <2>1, <2>3
    <2> QED
      BY <2>2, <2>3
  <1>7. IndexAgrees'
    BY <1>6 DEF IndexAgrees
  <1> QED
    BY <1>4, <1>5, <1>7 DEF GroupsInv

\* The group store keeps its two halves together.
LEMMA GroupStepInv ==
  ASSUME GroupsInv, NEW g \in GroupNames, NEW m,
         \/ CreateGroup(g) \/ DeleteGroup(g)
         \/ m \in Members /\ (AddMember(g, m) \/ RemoveMember(g, m))
  PROVE  GroupsInv'
  <1>1. groups \in [GroupNames -> Group] /\ index \subseteq Members \X GroupNames
    BY DEF GroupsInv, GroupsTypeOK
  <1>2. PICK old \in Group : old = groups[g]
    BY <1>1, Zenon
  <1>3. /\ old.members \subseteq Members /\ old.exists \in BOOLEAN
        /\ \A k \in Members : <<k, g>> \in index <=> k \in old.members
        /\ ~old.exists => old.members = {}
    BY <1>2 DEF Group, GroupsInv, IndexAgrees
  <1>4. CASE CreateGroup(g)
    <2>1. PICK new \in Group : new.exists /\ new.members = {} /\ groups' = [groups EXCEPT ![g] = new]
      BY <1>4 DEF CreateGroup, Group
    <2>2. index' = index /\ old.members = {}
      BY <1>2, <1>3, <1>4 DEF CreateGroup
    <2> QED
      BY <1>1, <1>3, <2>1, <2>2, OneGroup
  <1>5. CASE DeleteGroup(g)
    <2>1. PICK new \in Group : new.members = {} /\ groups' = [groups EXCEPT ![g] = new]
      BY <1>5 DEF DeleteGroup, Group, NoGroup
    <2>2. index' = index \ {<<k, g>> : k \in old.members}
      BY <1>2, <1>5 DEF DeleteGroup
    <2>3. \A k \in Members : <<k, g>> \notin index'
      BY <1>3, <2>2
    <2>4. \A k \in Members, h \in GroupNames : h # g => (<<k, h>> \in index' <=> <<k, h>> \in index)
      BY <2>2
    <2>5. index' \subseteq Members \X GroupNames
      BY <1>1, <2>2
    <2> QED
      BY <2>1, <2>3, <2>4, <2>5, OneGroup
  <1>6. CASE m \in Members /\ AddMember(g, m)
    <2>1. PICK new : new = [old EXCEPT !.members = @ \cup {m}]
      BY Zenon
    <2>2. new \in Group /\ new.members = old.members \cup {m} /\ new.exists
      BY <1>2, <1>6, <2>1 DEF AddMember, Group
    <2>3. groups' = [groups EXCEPT ![g] = new] /\ index' = index \cup {<<m, g>>}
      BY <1>1, <1>2, <1>6, <2>1 DEF AddMember
    <2>4. \A k \in Members, h \in GroupNames : h # g => (<<k, h>> \in index' <=> <<k, h>> \in index)
      BY <2>3
    <2>5. \A k \in Members : <<k, g>> \in index' <=> k \in new.members
      BY <1>3, <2>2, <2>3
    <2>6. index' \subseteq Members \X GroupNames
      BY <1>1, <1>6, <2>3
    <2> QED
      BY <2>2, <2>3, <2>4, <2>5, <2>6, OneGroup
  <1>7. CASE m \in Members /\ RemoveMember(g, m)
    <2>1. PICK new : new = [old EXCEPT !.members = @ \ {m}]
      BY Zenon
    <2>2. new \in Group /\ new.members = old.members \ {m} /\ new.exists
      BY <1>2, <1>7, <2>1 DEF RemoveMember, Group
    <2>3. groups' = [groups EXCEPT ![g] = new] /\ index' = index \ {<<m, g>>}
      BY <1>1, <1>2, <1>7, <2>1 DEF RemoveMember
    <2>4. \A k \in Members, h \in GroupNames : h # g => (<<k, h>> \in index' <=> <<k, h>> \in index)
      BY <2>3
    <2>5. \A k \in Members : <<k, g>> \in index' <=> k \in new.members
      BY <1>3, <2>2, <2>3
    <2>6. index' \subseteq Members \X GroupNames
      BY <1>1, <2>3
    <2> QED
      BY <2>2, <2>3, <2>4, <2>5, <2>6, OneGroup
  <1> QED
    BY <1>4, <1>5, <1>6, <1>7

\* What a request is made of when nobody is served.
LEMMA IdleShape ==
  /\ DOMAIN Idle = {"at", "op", "who", "share", "list", "stale"}
  /\ Idle.at = "idle" /\ Idle.stale = FALSE
  BY Zenon DEF Idle

\* An answered request owes nothing.
LEMMA IdleInv == RequestInv(Idle) /\ ~Pending(Idle) /\ RequestInv(Idle)'
  <1>1. Idle' = Idle
    BY Zenon DEF Idle, NoShare, Anonymous, NoOwner
  <1>2. RequestInv(Idle) /\ ~Pending(Idle)
    BY IdleShape DEF RequestInv, Pending
  <1>3. RequestInv(Idle)'
    BY <1>1, IdleShape DEF RequestInv, Pending
  <1> QED
    BY <1>2, <1>3

\* Asking for the same change twice is asking for it once.
LEMMA NewListTwice ==
  ASSUME NEW op, NEW sh, NEW S
  PROVE  NewList(op, sh, NewList(op, sh, S)) = NewList(op, sh, S)
  BY DEF NewList, merge, trim

\* The one change of a request, on the list as asked for.
LEMMA AskedIsNew ==
  ASSUME NEW op, NEW sh
  PROVE  Asked(op, sh) = NewList(op, sh, asked)
  <1>1. CASE op = "share"
    BY <1>1 DEF Asked, NewList, merge
  <1>2. CASE op # "share"
    BY <1>2 DEF Asked, NewList, trim
  <1> QED
    BY <1>1, <1>2

\* The owner and the admins put shares of their own, or take some away.
LEMMA NewListOwned ==
  ASSUME NEW op, NEW sh, NEW S, Owned(S),
         op = "share" => sh.by = store.owner \/ \E p \in Admins : sh.by = p.id
  PROVE  Owned(NewList(op, sh, S))
  BY DEF Owned, NewList, merge, trim

\* One request moves on, and was not about to write a list.
LEMMA MoveInv ==
  ASSUME RecordInv, RequestsInv, AskedInv, NEW q \in Procs, ~Pending(req[q]),
         NEW r, RequestInv(r), req' = [req EXCEPT ![q] = r], UNCHANGED <<store, asked, amiss>>
  PROVE  RecordInv' /\ RequestsInv' /\ AskedInv'
  <1>1. DOMAIN req' = Procs /\ req'[q] = r /\ \A x \in Procs : x # q => req'[x] = req[x]
    BY DEF RequestsInv
  <1>2. RecordInv'
    BY DEF RecordInv, Owned
  <1>3. ASSUME NEW x \in Procs
        PROVE  RequestInv(req[x])'
    <2>1. RequestInv(req'[x])
      BY <1>1 DEF RequestsInv
    <2>2. PICK y : y = req'[x]
      BY Zenon
    <2> QED
      BY <2>1, <2>2 DEF RequestInv, Pending, Owned
  <1>4. RequestsInv'
    BY <1>1, <1>3 DEF RequestsInv
  <1>5. ASSUME NEW x \in Procs, Pending(req[x])
        PROVE  x # q /\ req'[x] = req[x]
    BY <1>1, <1>5
  <1>6. AskedInv'
    BY <1>5 DEF AskedInv, Asked, Pending
  <1> QED
    BY <1>2, <1>4, <1>6

\* A request that changes the record leaves the others' loads behind.
LEMMA ChangedInv ==
  ASSUME RequestsInv, NEW q \in Procs, NEW r, Changed(q, r), RequestInv(r)',
         store'.kind = store.kind, store.kind = "job" => store'.owner = store.owner
  PROVE  /\ RequestsInv' /\ req'[q] = r
         /\ \A x \in Procs \ {q} : Pending(req[x]) => Pending(req'[x]) /\ req'[x].stale
  <1>1. /\ DOMAIN req' = Procs /\ req'[q] = r
        /\ \A x \in Procs : x # q => req'[x] = [req[x] EXCEPT !.stale = @ \/ req[x].at = "write"]
    BY DEF Changed
  <1>2. ASSUME NEW x \in Procs, x # q
        PROVE  RequestInv(req[x])' /\ (Pending(req[x]) => Pending(req'[x]) /\ req'[x].stale)
    <2>1. PICK y : y = req[x]
      BY Zenon
    <2>2. PICK z : z = req'[x]
      BY Zenon
    <2>3. RequestInv(y) /\ DOMAIN y = {"at", "op", "who", "share", "list", "stale"}
      BY <2>1, IdleShape DEF RequestsInv, RequestInv
    <2>4. z = [y EXCEPT !.stale = @ \/ y.at = "write"]
      BY <1>1, <1>2, <2>1, <2>2
    <2>5. /\ DOMAIN z = DOMAIN Idle /\ z.at = y.at /\ z.op = y.op /\ z.list = y.list
          /\ z.stale = (y.stale \/ y.at = "write")
      BY <2>3, <2>4, IdleShape
    <2>6. z.stale \in BOOLEAN /\ (y.at = "write" => z.stale)
      BY <2>3, <2>5, Zenon DEF RequestInv
    <2>7. DOMAIN Idle' = DOMAIN Idle
      BY Zenon DEF Idle, NoShare, Anonymous, NoOwner
    <2>8. Pending(z) /\ store'.kind = "job" => Owned(z.list)'
      BY <2>3, <2>5 DEF RequestInv, Pending, Owned
    <2>9. z.at # "idle" /\ z.op \in {"register", "delete"} => store'.kind \in Entries
      BY <2>3, <2>5 DEF RequestInv
    <2>10. RequestInv(req[x])'
      BY <2>2, <2>5, <2>6, <2>7, <2>8, <2>9 DEF RequestInv, Pending
    <2>11. Pending(y) => Pending(z) /\ z.stale
      BY <2>5, <2>6 DEF Pending
    <2> QED
      BY <2>1, <2>2, <2>10, <2>11
  <1>3. ASSUME NEW x \in Procs
        PROVE  RequestInv(req[x])'
    <2>1. CASE x = q
      BY <1>1, <2>1 DEF RequestInv, Pending
    <2> QED
      BY <1>2, <2>1
  <1>4. RequestsInv'
    BY <1>1, <1>3 DEF RequestsInv
  <1> QED
    BY <1>1, <1>2, <1>4

\* A request is loaded and allowed, and goes on with the list it computed.
LEMMA LoadInv ==
  ASSUME RecordInv, RequestsInv, AskedInv, NEW q \in Procs, NEW p \in Callers, NEW g,
         NEW op \in {"share", "revoke"}, LoadForShares(q, p, op, g)
  PROVE  RecordInv' /\ RequestsInv' /\ AskedInv'
  <1>1. PICK sh : sh = IF op = "share"
                       THEN [grantee |-> g.grantee, actions |-> g.actions, by |-> p.id]
                       ELSE [NoShare EXCEPT !.grantee = g.grantee]
    BY Zenon
  <1>2. PICK S : S = NewList(op, sh, store.shares)
    BY Zenon
  <1>3. PICK r : r = [Idle EXCEPT !.at = "write", !.op = op, !.share = sh, !.list = S]
    BY Zenon
  <1>4. /\ req[q].at = "idle" /\ isOwnerOrAdmin(p, store.owner)
        /\ IF InPlace(op, sh)
           THEN Changed(q, r) /\ store' = [store EXCEPT !.shares = S]
           ELSE req' = [req EXCEPT ![q] = r] /\ UNCHANGED store
        /\ UNCHANGED <<asked, amiss>>
    BY <1>1, <1>2, <1>3, Zenon DEF LoadForShares
  <1>5. /\ DOMAIN r = DOMAIN Idle /\ r.stale = FALSE
        /\ r.at = "write" /\ r.op = op /\ r.share = sh /\ r.list = S
    BY <1>3, IdleShape
  <1>6. op = "share" => sh.by = store.owner \/ \E a \in Admins : sh.by = a.id
    BY <1>1, <1>4 DEF isOwnerOrAdmin, Admins
  <1>7. store.kind = "job" \/ ~amiss => Owned(S)
    BY <1>2, <1>6, NewListOwned DEF RecordInv
  <1>8. ~Pending(req[q])
    BY <1>4 DEF Pending
  <1>9. CASE ~InPlace(op, sh)
    <2>1. RequestInv(r)
      BY <1>2, <1>5, <1>7 DEF RequestInv, Pending
    <2> QED
      BY <1>4, <1>8, <1>9, <2>1, MoveInv
  <1>10. CASE InPlace(op, sh)
    <2>1. Changed(q, r) /\ store' = [store EXCEPT !.shares = S] /\ asked' = asked /\ amiss' = amiss
      BY <1>4, <1>10
    <2>2. /\ store.kind = "job" /\ store'.kind = "job" /\ store'.owner = store.owner
          /\ store'.shares = S /\ store'.there = store.there /\ DOMAIN store' = DOMAIN store
      BY <1>10, <2>1 DEF RecordInv, InPlace
    <2>3. Owned(S)'
      BY <1>7, <2>2 DEF Owned
    <2>4. RecordInv'
      BY <2>1, <2>2, <2>3 DEF RecordInv
    <2>5. S = NewList(op, sh, store'.shares)
      BY <1>2, <2>2, NewListTwice
    <2>6. DOMAIN Idle' = DOMAIN Idle
      BY Zenon DEF Idle, NoShare, Anonymous, NoOwner
    <2>7. RequestInv(r)'
      BY <1>5, <2>3, <2>5, <2>6 DEF RequestInv, Pending
    <2>8. /\ RequestsInv' /\ req'[q] = r
          /\ \A x \in Procs \ {q} : Pending(req[x]) => Pending(req'[x]) /\ req'[x].stale
      BY <2>1, <2>2, <2>7, ChangedInv
    <2>9. AskedInv'
      <3>1. CASE amiss
        BY <2>1, <3>1 DEF AskedInv
      <3>2. CASE ~amiss /\ store.shares = asked
        <4>1. S = Asked(op, sh)
          BY <1>2, <3>2, AskedIsNew
        <4>2. Pending(req'[q]) /\ req'[q].op = op /\ req'[q].share = sh
          BY <1>5, <2>8 DEF Pending
        <4>3. store'.shares = Asked(req[q].op, req[q].share)'
          BY <2>1, <2>2, <4>1, <4>2 DEF Asked
        <4>4. Pending(req[q])'
          BY <4>2 DEF Pending
        <4> QED
          BY <2>2, <4>3, <4>4 DEF AskedInv
      <3>3. CASE \E x \in Procs : Pending(req[x])
        <4>1. PICK x \in Procs \ {q} : Pending(req[x])
          BY <1>8, <3>3
        <4>2. Pending(req'[x]) /\ req'[x].stale
          BY <2>8, <4>1
        <4> QED
          BY <2>2, <4>2 DEF AskedInv, Pending
      <3> QED
        BY <3>1, <3>2, <3>3 DEF AskedInv
    <2> QED
      BY <2>4, <2>8, <2>9
  <1> QED
    BY <1>9, <1>10

\* A request writes the list it computed from its load.
LEMMA SaveInv ==
  ASSUME RecordInv, RequestsInv, AskedInv, NEW q \in Procs, SaveShares(q)
  PROVE  RecordInv' /\ RequestsInv' /\ AskedInv'
  <1>1. PICK r : r = req[q]
    BY Zenon
  <1>2. RequestInv(r) /\ Pending(r)
    BY <1>1 DEF RequestsInv, SaveShares, Pending
  <1>3. store' = [store EXCEPT !.shares = r.list]
    BY <1>1 DEF SaveShares, Updated, UpdateShares, UpdateEntryShares
  <1>4. /\ store'.kind = store.kind /\ store'.owner = store.owner /\ store'.there = store.there
        /\ store'.shares = r.list /\ DOMAIN store' = DOMAIN store
    BY <1>3 DEF RecordInv
  <1>5. /\ amiss' = (amiss \/ r.stale) /\ Changed(q, Idle)
        /\ asked' = IF amiss' THEN {} ELSE Asked(r.op, r.share)
    BY <1>1, Zenon DEF SaveShares
  <1>6. amiss' \in BOOLEAN /\ (~amiss' => ~amiss /\ ~r.stale)
    BY <1>2, <1>5, Zenon DEF RecordInv, RequestInv
  <1>7. store.kind = "job" \/ ~amiss' => Owned(r.list)'
    BY <1>2, <1>4, <1>6 DEF RequestInv, Owned
  <1>8. RecordInv'
    BY <1>4, <1>6, <1>7 DEF RecordInv
  <1>9. /\ RequestsInv'
        /\ \A x \in Procs \ {q} : Pending(req[x]) => Pending(req'[x]) /\ req'[x].stale
    BY <1>4, <1>5, IdleInv, ChangedInv
  <1>10. AskedInv'
    <2>1. CASE amiss'
      BY <2>1 DEF AskedInv
    <2>2. CASE /\ ~amiss'
               /\ store.shares = asked \/ store.shares = Asked(r.op, r.share)
      <3>1. r.list = NewList(r.op, r.share, store.shares) /\ asked' = Asked(r.op, r.share)
        BY <1>2, <1>5, <1>6, <2>2 DEF RequestInv
      <3>2. r.list = NewList(r.op, r.share, asked)
        BY <2>2, <3>1, AskedIsNew, NewListTwice
      <3>3. store'.shares = asked'
        BY <1>4, <3>1, <3>2, AskedIsNew
      <3> QED
        BY <3>3 DEF AskedInv
    <2>3. CASE store.kind = "job" /\ \E x \in Procs \ {q} : Pending(req[x])
      <3>1. PICK x \in Procs \ {q} : Pending(req[x])
        BY <2>3
      <3>2. Pending(req'[x]) /\ req'[x].stale
        BY <1>9, <3>1
      <3> QED
        BY <1>4, <2>3, <3>2 DEF AskedInv, Pending
    <2>4. ~amiss' => \/ store.shares = asked \/ store.shares = Asked(r.op, r.share)
                     \/ store.kind = "job" /\ \E x \in Procs \ {q} : Pending(req[x])
      BY <1>1, <1>6 DEF AskedInv
    <2> QED
      BY <2>1, <2>2, <2>3, <2>4
  <1> QED
    BY <1>8, <1>9, <1>10

\* The write fails: a job keeps the list in memory, an entry keeps its own.
LEMMA SaveFailsInv ==
  ASSUME RecordInv, RequestsInv, AskedInv, NEW q \in Procs, SaveSharesFails(q)
  PROVE  RecordInv' /\ RequestsInv' /\ AskedInv'
  <1>1. PICK r : r = req[q]
    BY Zenon
  <1>2. RequestInv(r) /\ Pending(r)
    BY <1>1 DEF RequestsInv, SaveSharesFails, Pending
  <1>3. /\ store.kind = "job" => store' = [store EXCEPT !.shares = r.list]
        /\ store.kind # "job" => store' = store
    BY <1>1 DEF SaveSharesFails, Updated, UpdateShares, UpdateEntryShares
  <1>4. /\ store'.kind = store.kind /\ store'.owner = store.owner /\ store'.there = store.there
        /\ DOMAIN store' = DOMAIN store /\ (store.kind = "job" => store'.shares = r.list)
    BY <1>3 DEF RecordInv
  <1>5. /\ amiss' = (amiss \/ store.there) /\ Changed(q, Idle)
        /\ asked' = IF amiss' THEN {} ELSE asked
    BY DEF SaveSharesFails
  <1>6. store.kind = "job" => amiss'
    BY <1>5 DEF RecordInv
  <1>7. ~amiss' => ~amiss
    BY <1>5
  <1>8. store.kind = "job" => Owned(store.shares)'
    BY <1>2, <1>4 DEF RequestInv, Owned
  <1>9. store.kind # "job" /\ ~amiss' => Owned(store.shares)'
    BY <1>3, <1>7 DEF RecordInv, Owned
  <1>10. amiss' \in BOOLEAN
    BY <1>5, Zenon DEF RecordInv
  <1>11. RecordInv'
    BY <1>4, <1>8, <1>9, <1>10 DEF RecordInv
  <1>12. RequestsInv'
    BY <1>4, <1>5, IdleInv, ChangedInv
  <1>13. ~amiss' => store'.shares = asked'
    BY <1>3, <1>5, <1>6, <1>7 DEF AskedInv
  <1> QED
    BY <1>11, <1>12, <1>13 DEF AskedInv

\* The record is replaced by one without shares: only an entry is.
LEMMA ReplacedInv ==
  ASSUME RecordInv, RequestsInv, NEW q \in Procs, Changed(q, Idle),
         store.kind \in Entries, store'.kind = store.kind, store'.shares = {}, asked' = {},
         DOMAIN store' = DOMAIN store, amiss' \in BOOLEAN
  PROVE  RecordInv' /\ RequestsInv' /\ AskedInv'
  <1>1. store.kind # "job"
    BY DEF Entries
  <1>2. RecordInv'
    BY <1>1 DEF RecordInv, Owned
  <1>3. RequestsInv'
    BY <1>1, IdleInv, ChangedInv
  <1> QED
    BY <1>2, <1>3 DEF AskedInv

\* A request is answered that was not about to write a list.
LEMMA AnswerInv ==
  ASSUME RecordInv, RequestsInv, AskedInv, NEW q \in Procs, ~Pending(req[q]),
         Answer(q), UNCHANGED <<store, asked, amiss>>
  PROVE  RecordInv' /\ RequestsInv' /\ AskedInv'
  BY IdleInv, MoveInv DEF Answer

\* The key is registered, or found in use.
LEMMA RegisterInv ==
  ASSUME RecordInv, RequestsInv, AskedInv, NEW q \in Procs, Register(q)
  PROVE  RecordInv' /\ RequestsInv' /\ AskedInv'
  <1>1. req[q].at = "write" /\ req[q].op = "register" /\ amiss' = amiss
    BY DEF Register
  <1>2. store.kind \in Entries
    BY <1>1 DEF RequestsInv, RequestInv
  <1>3. CASE Taken(store)
    <2>1. Answer(q) /\ UNCHANGED <<store, asked, amiss>> /\ ~Pending(req[q])
      BY <1>1, <1>3 DEF Register, Pending
    <2> QED
      BY <2>1, AnswerInv
  <1>4. CASE ~Taken(store)
    <2>1. /\ Changed(q, Idle) /\ asked' = {}
          /\ store' = Record(store.kind, TRUE, req[q].who.id, store.epoch + 1)
      BY <1>4 DEF Register
    <2>2. store'.kind = store.kind /\ store'.shares = {} /\ DOMAIN store' = DOMAIN store
      BY <2>1 DEF Record, RecordInv
    <2>3. amiss' \in BOOLEAN
      BY <1>1 DEF RecordInv
    <2> QED
      BY <1>2, <2>1, <2>2, <2>3, ReplacedInv
  <1> QED
    BY <1>3, <1>4

\* The key is deleted, or found gone.
LEMMA DeleteInv ==
  ASSUME RecordInv, RequestsInv, AskedInv, NEW q \in Procs, Delete(q)
  PROVE  RecordInv' /\ RequestsInv' /\ AskedInv'
  <1>1. req[q].at = "write" /\ req[q].op = "delete"
    BY DEF Delete
  <1>2. store.kind \in Entries /\ req[q].stale \in BOOLEAN
    BY <1>1 DEF RequestsInv, RequestInv
  <1>3. CASE ~store.there
    <2>1. Answer(q) /\ UNCHANGED <<store, asked, amiss>> /\ ~Pending(req[q])
      BY <1>1, <1>3 DEF Delete, Pending
    <2> QED
      BY <2>1, AnswerInv
  <1>4. CASE store.there
    <2>1. /\ Changed(q, Idle) /\ asked' = {} /\ amiss' = (amiss \/ req[q].stale)
          /\ store' = [NoRecord(store.kind) EXCEPT !.epoch = store.epoch]
      BY <1>4 DEF Delete
    <2>2. PICK o : o = NoOwner
      BY Zenon
    <2>3. store' = [[kind |-> store.kind, there |-> FALSE, owner |-> o, shares |-> {}, epoch |-> 0]
                       EXCEPT !.epoch = store.epoch]
      BY <2>1, <2>2, Zenon DEF NoRecord, Record
    <2>4. store'.kind = store.kind /\ store'.shares = {} /\ DOMAIN store' = DOMAIN store
      BY <2>3 DEF RecordInv
    <2>5. amiss' \in BOOLEAN
      BY <1>2, <2>1, Zenon DEF RecordInv
    <2> QED
      BY <1>2, <2>1, <2>4, <2>5, ReplacedInv
  <1> QED
    BY <1>3, <1>4

\* A request arrives, or is answered, without touching the record.
LEMMA ArriveInv ==
  ASSUME RecordInv, RequestsInv, AskedInv, NEW q \in Procs, NEW p \in Callers, Arrive(q, p)
  PROVE  RecordInv' /\ RequestsInv' /\ AskedInv'
  <1>1. ASSUME NEW op \in {"get", "delete"}, op = "delete" => store.kind \in Entries,
               Begin(q, p, op)
        PROVE  RecordInv' /\ RequestsInv' /\ AskedInv'
    <2>1. req[q].at = "idle" /\ UNCHANGED <<store, asked, amiss>>
      BY <1>1 DEF Begin
    <2>2. PICK w : req' = [req EXCEPT ![q] = [Idle EXCEPT !.at = "load", !.op = op, !.who = w]]
      BY <1>1, Zenon DEF Begin
    <2>3. PICK r : r = [Idle EXCEPT !.at = "load", !.op = op, !.who = w]
      BY Zenon
    <2>4. DOMAIN r = DOMAIN Idle /\ r.stale = FALSE /\ r.at = "load" /\ r.op = op
      BY <2>3, IdleShape
    <2>5. RequestInv(r)
      BY <1>1, <2>4 DEF RequestInv, Pending
    <2>6. ~Pending(req[q])
      BY <2>1 DEF Pending
    <2> QED
      BY <2>1, <2>2, <2>3, <2>5, <2>6, MoveInv
  <1>2. ASSUME NEW kind \in Entries, CheckRegister(q, p, kind)
        PROVE  RecordInv' /\ RequestsInv' /\ AskedInv'
    <2>1. req[q].at = "idle" /\ UNCHANGED <<store, asked, amiss>> /\ store.kind \in Entries
      BY <1>2 DEF CheckRegister
    <2>2. PICK r : r = [Idle EXCEPT !.at = "write", !.op = "register", !.who = p]
      BY Zenon
    <2>3. req' = [req EXCEPT ![q] = r]
      BY <1>2, <2>2, Zenon DEF CheckRegister
    <2>4. DOMAIN r = DOMAIN Idle /\ r.stale = FALSE /\ r.op = "register"
      BY <2>2, IdleShape
    <2>5. RequestInv(r) /\ ~Pending(req[q])
      BY <2>1, <2>4 DEF RequestInv, Pending
    <2> QED
      BY <2>1, <2>3, <2>5, MoveInv
  <1>3. CASE Begin(q, p, "get") \/ (store.kind \in Entries /\ Begin(q, p, "delete"))
    <2>1. CASE Begin(q, p, "get")
      BY <1>1, <2>1
    <2>2. CASE store.kind \in Entries /\ Begin(q, p, "delete")
      BY <1>1, <2>2
    <2> QED
      BY <1>3, <2>1, <2>2
  <1>4. CASE \E g \in Grants : handleCreateShare(q, p, g) \/ handleRevokeShare(q, p, g)
    BY <1>4, LoadInv DEF handleCreateShare, handleRevokeShare
  <1>5. CASE handleRegisterDataset(q, p) \/ handleRegisterModel(q, p)
    BY <1>2, <1>5 DEF handleRegisterDataset, handleRegisterModel, Entries
  <1> QED
    BY <1>3, <1>4, <1>5 DEF Arrive

\* The entry is found and its deletion allowed, or the request is answered.
LEMMA CheckDeleteInv ==
  ASSUME RecordInv, RequestsInv, AskedInv, NEW q \in Procs, NEW kind \in Entries, CheckDelete(q, kind)
  PROVE  RecordInv' /\ RequestsInv' /\ AskedInv'
  <1>1. /\ req[q].at = "load" /\ req[q].op = "delete" /\ store.kind \in Entries
        /\ UNCHANGED <<store, asked, amiss>>
        /\ Answer(q) \/ req' = [req EXCEPT ![q].at = "write"]
    BY Zenon DEF CheckDelete
  <1>2. ~Pending(req[q])
    BY <1>1 DEF Pending
  <1>3. CASE Answer(q)
    BY <1>1, <1>2, <1>3, AnswerInv
  <1>4. CASE req' = [req EXCEPT ![q].at = "write"]
    <2>1. PICK y : y = req[q]
      BY Zenon
    <2>2. PICK r : r = [y EXCEPT !.at = "write"]
      BY Zenon
    <2>3. req' = [req EXCEPT ![q] = r]
      BY <1>4, <2>1, <2>2
    <2>4. DOMAIN y = DOMAIN Idle /\ y.stale \in BOOLEAN /\ y.op = "delete"
      BY <1>1, <2>1 DEF RequestsInv, RequestInv
    <2>5. DOMAIN r = DOMAIN Idle /\ r.stale \in BOOLEAN /\ r.op = "delete"
      BY <2>2, <2>4, IdleShape
    <2>6. RequestInv(r)
      BY <1>1, <2>5 DEF RequestInv, Pending
    <2> QED
      BY <1>1, <1>2, <2>3, <2>6, MoveInv
  <1> QED
    BY <1>1, <1>3, <1>4

\* Each step of a handler.
LEMMA HandleInv ==
  ASSUME RecordInv, RequestsInv, AskedInv, NEW q \in Procs, Handle(q)
  PROVE  RecordInv' /\ RequestsInv' /\ AskedInv'
  <1>1. ASSUME NEW kind, Read(q, kind)
        PROVE  RecordInv' /\ RequestsInv' /\ AskedInv'
    BY <1>1, AnswerInv DEF Read, Pending
  <1>2. CASE handleGetJob(q) \/ handleGetDataset(q) \/ handleGetModel(q) \/ handleListShares(q)
    BY <1>1, <1>2 DEF handleGetJob, handleGetDataset, handleGetModel, handleListShares
  <1>3. CASE handleDeleteDataset(q) \/ handleDeleteModel(q)
    BY <1>3, CheckDeleteInv DEF handleDeleteDataset, handleDeleteModel, Entries
  <1>4. CASE SaveShares(q) \/ SaveSharesFails(q)
    BY <1>4, SaveInv, SaveFailsInv
  <1>5. CASE Register(q) \/ Delete(q)
    BY <1>5, RegisterInv, DeleteInv
  <1> QED
    BY <1>2, <1>3, <1>4, <1>5 DEF Handle

\* A step that leaves the record and the requests alone.
LEMMA UntouchedInv ==
  ASSUME RecordInv, RequestsInv, AskedInv, UNCHANGED <<store, req, asked, amiss>>
  PROVE  RecordInv' /\ RequestsInv' /\ AskedInv'
  <1>1. RecordInv'
    BY DEF RecordInv, Owned
  <1>2. DOMAIN Idle' = DOMAIN Idle
    BY Zenon DEF Idle, NoShare, Anonymous, NoOwner
  <1>3. RequestsInv'
    BY <1>2 DEF RequestsInv, RequestInv, Pending, Owned
  <1>4. AskedInv'
    BY DEF AskedInv, Asked, Pending
  <1> QED
    BY <1>1, <1>3, <1>4

\* Only the group endpoints touch the group store.
LEMMA GroupsKept ==
  ASSUME GroupsInv, UNCHANGED <<groups, index>>
  PROVE  GroupsInv'
  BY DEF GroupsInv, GroupsTypeOK, IndexAgrees

\* The invariant the theorems on groups and shares rest on.
THEOREM AccessInvariant == Spec => []AccessInv
  <1>1. Init => AccessInv
    <2> SUFFICES ASSUME Init PROVE AccessInv
      OBVIOUS
    <2>1. GroupsInv
      BY DEF Init, GroupsInit, GroupsInv, GroupsTypeOK, IndexAgrees, NoGroup, Group
    <2>2. \/ \E x \in Kept : store = Record(x.kind, TRUE, x.owner, 0)
          \/ \E k \in Free : store = NoRecord(k)
      BY Zenon DEF Init
    <2>3. PICK kind, there, owner :
             /\ store = Record(kind, there, owner, 0)
             /\ (kind = "job" /\ there = TRUE) \/ kind \in Entries
      <3>1. ASSUME NEW x \in Kept
            PROVE  x.kind = "job" \/ x.kind \in Entries
        BY AccessAssumption DEF Entries
      <3>2. ASSUME NEW k \in Free
            PROVE  k \in Entries
        BY AccessAssumption DEF Entries
      <3>3. CASE \E x \in Kept : store = Record(x.kind, TRUE, x.owner, 0)
        BY <3>1, <3>3, Zenon
      <3>4. CASE \E k \in Free : store = NoRecord(k)
        BY <3>2, <3>4, Zenon DEF NoRecord
      <3> QED
        BY <2>2, <3>3, <3>4
    <2>4. /\ DOMAIN store = {"kind", "there", "owner", "shares", "epoch"}
          /\ store.kind = kind /\ store.there = there /\ store.shares = {}
      BY <2>3 DEF Record
    <2>5. amiss = FALSE /\ asked = {} /\ req = [q \in Procs |-> Idle]
      BY DEF Init
    <2>6. RecordInv
      BY <2>3, <2>4, <2>5 DEF RecordInv, Entries, Owned
    <2>7. RequestsInv
      BY <2>5, IdleInv DEF RequestsInv
    <2>8. AskedInv
      BY <2>4, <2>5 DEF AskedInv
    <2> QED
      BY <2>1, <2>6, <2>7, <2>8 DEF AccessInv
  <1>2. AccessInv /\ [Next]_vars => AccessInv'
    <2> SUFFICES ASSUME GroupsInv, RecordInv, RequestsInv, AskedInv, [Next]_vars
                 PROVE  GroupsInv' /\ RecordInv' /\ RequestsInv' /\ AskedInv'
      BY DEF AccessInv
    <2>1. CASE GroupCall
      <3>1. UNCHANGED <<store, req, asked, amiss>>
        BY <2>1 DEF GroupCall, handleCreateGroup, handleDeleteGroup, handleAddGroupMember,
                    handleRemoveGroupMember, Administered
      <3>2. GroupsInv'
        BY <2>1, GroupStepInv
           DEF GroupCall, handleCreateGroup, handleDeleteGroup, handleAddGroupMember,
               handleRemoveGroupMember
      <3> QED
        BY <3>1, <3>2, UntouchedInv
    <2>2. CASE \E q \in Procs : Handle(q)
      <3>1. UNCHANGED <<groups, index>>
        BY <2>2, Zenon
           DEF Handle, SaveShares, SaveSharesFails, handleGetJob, handleGetDataset,
               handleGetModel, handleListShares, Read, Register, handleDeleteDataset,
               handleDeleteModel, CheckDelete, Delete
      <3> QED
        BY <2>2, <3>1, HandleInv, GroupsKept
    <2>3. CASE \E q \in Procs, p \in Callers : Arrive(q, p)
      <3>1. PICK q \in Procs, p \in Callers : Arrive(q, p)
        BY <2>3
      <3>2. ASSUME NEW op, NEW g, LoadForShares(q, p, op, g)
            PROVE  UNCHANGED <<groups, index>>
        BY <3>2, Zenon DEF LoadForShares
      <3>3. UNCHANGED <<groups, index>>
        BY <3>1, <3>2, Zenon
           DEF Arrive, Begin, handleCreateShare, handleRevokeShare,
               handleRegisterDataset, handleRegisterModel, CheckRegister
      <3> QED
        BY <3>1, <3>3, ArriveInv, GroupsKept
    <2>4. CASE UNCHANGED vars
      BY <2>4, UntouchedInv, GroupsKept DEF vars
    <2> QED
      BY <2>1, <2>2, <2>3, <2>4 DEF Next
  <1> QED
    BY <1>1, <1>2, PTL DEF Spec

\* However admins create, fill, empty, delete and create groups again: the
\* groups found for a principal, which decide its access, are the groups whose
\* member list names it.
THEOREM GroupIndexAgrees == Spec => []IndexAgrees
  <1>1. AccessInv => IndexAgrees
    BY DEF AccessInv, GroupsInv
  <1> QED
    BY <1>1, AccessInvariant, PTL

\* Nobody but the owner or an admin ever puts a share on a job, whatever is
\* requested together; nor on an entry, as long as no write failed or came from
\* a record that had changed.
THEOREM SharesAreByOwner == Spec => []SharesByOwner
  <1>1. AccessInv => SharesByOwner
    BY DEF AccessInv, RecordInv, Owned, SharesByOwner
  <1> QED
    BY <1>1, AccessInvariant, PTL

\* With no write under way, none failed and none computed from a list that had
\* changed, the list of shares is what the answered requests asked for.
THEOREM SharesAreAsAsked == Spec => []SharesAsAsked
  <1>1. AccessInv => SharesAsAsked
    BY DEF AccessInv, AskedInv, Pending, SharesAsAsked, AtRest
  <1> QED
    BY <1>1, AccessInvariant, PTL

-----------------------------------------------------------------------------
(* Nodes: their streams.                                                   *)

Open == {"recv", "check", "handle"}

\* A channel that is kept belongs to a stream of its node that has not left.
StreamsInv ==
    /\ hb \in [Streams -> {Closed} \cup Stream]
    /\ streams \in [NodeIDs -> Streams \cup {NoStream}]
    /\ \A n \in NodeIDs : streams[n] # NoStream =>
          hb[streams[n]] \in Stream /\ hb[streams[n]].node = n
    /\ CancelFindsStream

\* A closed stream is none of those open.
LEMMA ClosedIsNoStream == Closed \notin Stream /\ Closed.at = "off"
BY DEF Closed, Stream

\* No stream at first.
LEMMA StreamsInit == ASSUME IdentityInit PROVE StreamsInv
BY ClosedIsNoStream DEF IdentityInit, StreamsInv, CancelFindsStream, Closed

\* A step that leaves the streams alone.
LEMMA StreamsKept ==
    ASSUME StreamsInv, UNCHANGED <<streams, hb>> PROVE StreamsInv'
BY DEF StreamsInv, CancelFindsStream

\* Heartbeat: the first message enters the stream in the registry's table.
LEMMA StreamsFirst ==
    ASSUME StreamsInv, NEW s \in Streams, NEW n \in NodeIDs, HeartbeatFirst(s, n)
    PROVE  StreamsInv'
<1>1. /\ hb[s].at = "off"
      /\ streams' = [streams EXCEPT ![n] = s]
      /\ hb' = [t \in Streams |->
           IF t = s THEN [at |-> "check", node |-> n, done |-> FALSE]
           ELSE IF t = streams[n] THEN [hb[t] EXCEPT !.done = TRUE] ELSE hb[t]]
  BY DEF HeartbeatFirst, registerStream
<1>2. \A m \in NodeIDs : streams[m] # s
  BY <1>1, IdentityAssumption DEF StreamsInv, Stream
<1>3. [at |-> "check", node |-> n, done |-> FALSE] \in Stream
  BY DEF Stream
<1>4. \A t \in Streams : hb[t] \in Stream => [hb[t] EXCEPT !.done = TRUE] \in Stream
  BY DEF Stream
<1>5. streams[n] # NoStream => hb[streams[n]] \in Stream
  BY DEF StreamsInv
<1>6. hb' \in [Streams -> {Closed} \cup Stream]
  BY <1>1, <1>3, <1>4, <1>5, IdentityAssumption DEF StreamsInv
<1>7. streams' \in [NodeIDs -> Streams \cup {NoStream}]
  BY <1>1 DEF StreamsInv
<1>8. ASSUME NEW m \in NodeIDs, streams'[m] # NoStream
      PROVE  hb'[streams'[m]] \in Stream /\ hb'[streams'[m]].node = m
  <2>1. CASE m = n
    <3>1. streams'[m] = s
      BY <1>1, <2>1 DEF StreamsInv
    <3>2. hb'[s] = [at |-> "check", node |-> n, done |-> FALSE]
      BY <1>1
    <3> QED BY <3>1, <3>2, <1>3, <2>1
  <2>2. CASE m # n
    <3>1. streams'[m] = streams[m] /\ streams[m] \in Streams /\ streams[m] # s
      BY <1>1, <1>2, <1>8, <2>2 DEF StreamsInv
    <3>2. hb[streams[m]] \in Stream /\ hb[streams[m]].node = m
      BY <3>1, <1>8 DEF StreamsInv
    <3>3. streams[m] # streams[n]
      BY <3>1, <3>2, <2>2, <1>8 DEF StreamsInv
    <3> QED BY <1>1, <3>1, <3>2, <3>3
  <2> QED BY <2>1, <2>2
<1>9. ASSUME NEW t \in Streams, hb'[t].at \in Open
      PROVE  hb'[t].done \/ streams'[hb'[t].node] = t
  <2>1. CASE t = s
    BY <1>1, <2>1 DEF StreamsInv
  <2>2. CASE t # s /\ t = streams[n]
    <3>1. hb[t] \in Stream
      BY <2>2, <1>5, IdentityAssumption
    <3> QED BY <1>1, <2>2, <3>1 DEF Stream
  <2>3. CASE t # s /\ t # streams[n]
    <3>1. hb'[t] = hb[t]
      BY <1>1, <2>3
    <3>2. hb[t] \in Stream
      BY <3>1, <1>9, ClosedIsNoStream DEF StreamsInv, Open
    <3>3. hb[t].done \/ streams[hb[t].node] = t
      BY <3>1, <1>9 DEF StreamsInv, CancelFindsStream, Open
    <3>4. hb[t].node \in NodeIDs
      BY <3>2 DEF Stream
    <3> QED BY <1>1, <2>3, <3>1, <3>3, <3>4 DEF StreamsInv
  <2> QED BY <2>1, <2>2, <2>3
<1> QED BY <1>6, <1>7, <1>8, <1>9 DEF StreamsInv, CancelFindsStream, Open

\* A step inside the handler of one stream.
LEMMA StreamsMove ==
    ASSUME StreamsInv, NEW s \in Streams, hb[s].at \in Open \cup {"leave"},
           NEW to \in Open \cup {"leave"},
           hb[s].at # "leave", hb' = [hb EXCEPT ![s].at = to], UNCHANGED streams
    PROVE  StreamsInv'
<1>1. hb[s] \in Stream
  BY ClosedIsNoStream DEF StreamsInv, Open
<1>2. hb'[s] \in Stream /\ hb'[s].node = hb[s].node /\ hb'[s].done = hb[s].done
  BY <1>1 DEF Stream, StreamsInv, Open
<1>3. \A t \in Streams : t # s => hb'[t] = hb[t]
  BY DEF StreamsInv
<1>4. hb' \in [Streams -> {Closed} \cup Stream]
  BY <1>2, <1>3 DEF StreamsInv
<1>5. \A n \in NodeIDs : streams'[n] # NoStream =>
          hb'[streams'[n]] \in Stream /\ hb'[streams'[n]].node = n
  BY <1>2, <1>3 DEF StreamsInv
<1>6. hb[s].done \/ streams[hb[s].node] = s
  BY DEF StreamsInv, CancelFindsStream, Open
<1>7. CancelFindsStream'
  BY <1>2, <1>3, <1>6 DEF StreamsInv, CancelFindsStream
<1> QED BY <1>4, <1>5, <1>7 DEF StreamsInv

\* A stream that ends takes out its own entry only.
LEMMA StreamsLeave ==
    ASSUME StreamsInv, NEW s \in Streams, unregisterStream(s)
    PROVE  StreamsInv'
<1> DEFINE n == hb[s].node
<1>1. /\ hb[s].at = "leave"
      /\ streams' = IF streams[n] = s THEN [streams EXCEPT ![n] = NoStream] ELSE streams
      /\ hb' = [hb EXCEPT ![s] = Closed]
  BY DEF unregisterStream
<1>2. hb[s] \in Stream /\ n \in NodeIDs
  BY <1>1, ClosedIsNoStream DEF StreamsInv, Stream
<1>3. \A m \in NodeIDs : streams'[m] # s
  BY <1>1, <1>2, IdentityAssumption DEF StreamsInv
<1>4. \A m \in NodeIDs : streams[m] # s => streams'[m] = streams[m]
  BY <1>1, <1>2 DEF StreamsInv
<1>5. streams' \in [NodeIDs -> Streams \cup {NoStream}]
  BY <1>1, <1>2 DEF StreamsInv
<1>6. hb'[s] = Closed /\ \A t \in Streams : t # s => hb'[t] = hb[t]
  BY <1>1 DEF StreamsInv
<1>7. \A m \in NodeIDs : streams'[m] # NoStream => streams'[m] = streams[m]
  BY <1>1, <1>2 DEF StreamsInv
<1>8. hb' \in [Streams -> {Closed} \cup Stream]
  BY <1>1 DEF StreamsInv
<1>9. \A m \in NodeIDs : streams'[m] # NoStream =>
          hb'[streams'[m]] \in Stream /\ hb'[streams'[m]].node = m
  BY <1>3, <1>5, <1>6, <1>7 DEF StreamsInv
<1>10. ASSUME NEW t \in Streams, hb'[t].at \in Open
       PROVE  hb'[t].done \/ streams'[hb'[t].node] = t
  <2>1. t # s /\ hb'[t] = hb[t]
    BY <1>6, <1>10, ClosedIsNoStream DEF Open
  <2>2. hb[t] \in Stream
    BY <2>1, <1>10, ClosedIsNoStream DEF StreamsInv, Open
  <2>3. hb[t].node \in NodeIDs
    BY <2>2 DEF Stream
  <2> QED BY <2>1, <2>3, <1>4, <1>10 DEF StreamsInv, CancelFindsStream, Open
<1> QED BY <1>5, <1>8, <1>9, <1>10 DEF StreamsInv, CancelFindsStream, Open

\* A revocation cancels the stream it finds.
LEMMA StreamsCancel ==
    ASSUME StreamsInv, NEW n \in NodeIDs, CancelStream(n)
    PROVE  StreamsInv'
<1>1. /\ hb' = [s \in Streams |-> IF s = streams[n] THEN [hb[s] EXCEPT !.done = TRUE] ELSE hb[s]]
      /\ streams' = [streams EXCEPT ![n] = NoStream]
  BY DEF CancelStream
<1>2. \A t \in Streams : t = streams[n] => hb[t] \in Stream /\ hb[t].node = n
  BY IdentityAssumption DEF StreamsInv
<1>3. \A t \in Streams : t = streams[n] =>
          hb'[t] \in Stream /\ hb'[t].node = n /\ hb'[t].done
  BY <1>1, <1>2 DEF Stream
<1>4. \A t \in Streams : t # streams[n] => hb'[t] = hb[t]
  BY <1>1
<1>5. hb' \in [Streams -> {Closed} \cup Stream]
  BY <1>1, <1>3, <1>4 DEF StreamsInv
<1>6. streams' \in [NodeIDs -> Streams \cup {NoStream}]
  BY <1>1 DEF StreamsInv
<1>7. streams'[n] = NoStream /\ \A m \in NodeIDs : m # n => streams'[m] = streams[m]
  BY <1>1 DEF StreamsInv
<1>8. \A m \in NodeIDs : streams'[m] # NoStream =>
          hb'[streams'[m]] \in Stream /\ hb'[streams'[m]].node = m
  BY <1>3, <1>4, <1>7 DEF StreamsInv
<1>9. ASSUME NEW t \in Streams, hb'[t].at \in Open
      PROVE  hb'[t].done \/ streams'[hb'[t].node] = t
  <2>1. CASE t = streams[n]
    BY <1>3, <2>1
  <2>2. CASE t # streams[n]
    <3>1. hb'[t] = hb[t]
      BY <1>4, <2>2
    <3>2. hb[t].node \in NodeIDs
      BY <3>1, <1>9, ClosedIsNoStream DEF StreamsInv, Open, Stream
    <3> QED BY <3>1, <3>2, <2>2, <1>7, <1>9 DEF StreamsInv, CancelFindsStream, Open
  <2> QED BY <2>1, <2>2
<1> QED BY <1>5, <1>6, <1>8, <1>9 DEF StreamsInv, CancelFindsStream, Open

\* A restart closes every stream.
LEMMA StreamsRestart == ASSUME Restart PROVE StreamsInv'
BY ClosedIsNoStream DEF Restart, StreamsInv, CancelFindsStream, Closed

\* The streams' part of the invariant, for every action.
LEMMA StreamsStep ==
    ASSUME StreamsInv, [IdentityNext]_identityVars PROVE StreamsInv'
<1>1. CASE UNCHANGED <<streams, hb>>
  BY <1>1, StreamsKept
<1>2. ASSUME NEW s \in Streams, NEW n \in NodeIDs, HeartbeatFirst(s, n) PROVE StreamsInv'
  BY <1>2, StreamsFirst
<1>3. ASSUME NEW s \in Streams, HeartbeatRecv(s) PROVE StreamsInv'
  BY <1>3, StreamsMove DEF HeartbeatRecv, Open
<1>4. ASSUME NEW s \in Streams, HeartbeatCheck(s) PROVE StreamsInv'
  <2>1. PICK at \in {"handle", "leave"} : hb' = [hb EXCEPT ![s].at = at]
    BY <1>4 DEF HeartbeatCheck
  <2> QED BY <1>4, <2>1, StreamsMove DEF HeartbeatCheck, Open
<1>5. ASSUME NEW s \in Streams, HeartbeatHandle(s) PROVE StreamsInv'
  <2>1. PICK at \in {"recv", "leave"} : hb' = [hb EXCEPT ![s].at = at]
    BY <1>5 DEF HeartbeatHandle
  <2> QED BY <1>5, <2>1, StreamsMove DEF HeartbeatHandle, Open
<1>6. ASSUME NEW s \in Streams, unregisterStream(s) PROVE StreamsInv'
  BY <1>6, StreamsLeave
<1>7. ASSUME NEW n \in NodeIDs, CancelStream(n) PROVE StreamsInv'
  BY <1>7, StreamsCancel
<1>8. CASE Restart
  BY <1>8, StreamsRestart
<1> QED
  BY <1>1, <1>2, <1>3, <1>4, <1>5, <1>6, <1>7, <1>8
  DEF IdentityNext, identityVars, RegisterCall, GetPin, SetPin, RegisterInsert,
      RevokeMark, RevokeRemove, DeletePin

\* However streams of a node come, go and overtake each other, CancelStream
\* finds every one that is open (streams.go).
THEOREM RevocationFindsStreams == IdentitySpec => []CancelFindsStream
<1>1. IdentityInit => StreamsInv
  BY StreamsInit
<1>2. StreamsInv /\ [IdentityNext]_identityVars => StreamsInv'
  BY StreamsStep
<1>3. StreamsInv => CancelFindsStream
  BY DEF StreamsInv
<1> QED BY <1>1, <1>2, <1>3, PTL DEF IdentitySpec

-----------------------------------------------------------------------------
(* Registrations.                                                          *)

\* What a revocation has left behind stays away: no call that could bring it
\* back is under way, and none is let in.  Where a pin is configured and the
\* node is not revoked, no call sets another pin or goes on with another
\* certificate.
CallsInv ==
    /\ reg \in [Calls -> {NoCall} \cup Call]
    /\ \A n \in NodeIDs : rev[n] # "idle" => n \in revoked
    /\ gone \subseteq revoked
    /\ \A n \in gone : n \notin nodes /\ ~UnderWay(n)

PinsInv ==
    /\ pins \in [NodeIDs -> Certs \cup {NoCert}]
    /\ accepted \in [NodeIDs -> SUBSET Certs]
    /\ \A n \in NodeIDs \ revoked : Pinned[n] # NoCert =>
          /\ pins[n] = Pinned[n]
          /\ accepted[n] \subseteq {Pinned[n]}
          /\ \A c \in Calls : reg[c] # NoCall /\ reg[c].node = n =>
                /\ reg[c].at # "setpin"
                /\ reg[c].at = "insert" => reg[c].cert \in {NoCert, Pinned[n]}

RevTypeOK == rev \in [NodeIDs -> {"idle", "remove", "cancel", "unpin"}]

IdentityInv == RevTypeOK /\ CallsInv /\ PinsInv

\* An idle handler is in no call.
LEMMA NoCallIsNone == NoCall \notin Call /\ NoCall.at = "idle"
BY DEF NoCall, Call

\* The configured pins hold at first, and nobody is revoked.
LEMMA IdentityStart == ASSUME IdentityInit PROVE IdentityInv
BY NoCallIsNone, IdentityAssumption
DEF IdentityInit, IdentityInv, RevTypeOK, CallsInv, PinsInv, UnderWay

\* Register begins: a revoked node is refused here.
LEMMA IdentityRegisterCall ==
    ASSUME IdentityInv, NEW c \in Calls, NEW n \in NodeIDs, NEW k \in Certs \cup {NoCert},
           RegisterCall(c, n, k)
    PROVE  IdentityInv'
<1>1. n \notin revoked /\ reg' = [reg EXCEPT ![c] = [at |-> "pin", node |-> n, cert |-> k]]
  BY DEF RegisterCall, IsRevoked
<1>2. UNCHANGED <<revoked, nodes, pins, rev, accepted, gone>>
  BY DEF RegisterCall
<1>3. [at |-> "pin", node |-> n, cert |-> k] \in Call
  BY DEF Call
<1>4. CallsInv'
  BY <1>1, <1>2, <1>3 DEF IdentityInv, CallsInv, UnderWay
<1>5. PinsInv'
  BY <1>1, <1>2 DEF IdentityInv, CallsInv, PinsInv
<1> QED BY <1>2, <1>4, <1>5 DEF IdentityInv, RevTypeOK

\* Register reads the pin; a fingerprint that differs is refused.
LEMMA IdentityGetPin ==
    ASSUME IdentityInv, NEW c \in Calls, GetPin(c)
    PROVE  IdentityInv'
<1> DEFINE r == reg[c]
<1>1. r \in Call /\ r.at = "pin"
  BY NoCallIsNone DEF GetPin, IdentityInv, CallsInv
<1>2. UNCHANGED <<revoked, nodes, pins, rev, accepted, gone>>
  BY DEF GetPin
<1>3. \A d \in Calls : d # c => reg'[d] = reg[d]
  BY DEF GetPin, IdentityInv, CallsInv
<1>4. \/ reg'[c] = NoCall
      \/ /\ reg'[c] = [r EXCEPT !.at = "setpin"]
         /\ pins[r.node] = NoCert
      \/ /\ reg'[c] = [r EXCEPT !.at = "insert"]
         /\ r.cert = NoCert \/ pins[r.node] \in {r.cert}
  BY DEF GetPin, IdentityInv, CallsInv, PinAllows
<1>5. reg'[c] # NoCall => reg'[c] \in Call /\ reg'[c].node = r.node /\ reg'[c].cert = r.cert
  BY <1>1, <1>4 DEF Call
<1>6. reg' \in [Calls -> {NoCall} \cup Call]
  BY <1>3, <1>5 DEF GetPin, IdentityInv, CallsInv
<1>7. \A n : UnderWay(n)' => UnderWay(n)
  BY <1>1, <1>3, <1>5, NoCallIsNone DEF UnderWay
<1>8. CallsInv'
  BY <1>2, <1>6, <1>7 DEF IdentityInv, CallsInv, UnderWay
<1>9. ASSUME NEW n \in NodeIDs \ revoked, Pinned[n] # NoCert, NEW d \in Calls,
             reg'[d] # NoCall, reg'[d].node = n
      PROVE  /\ reg'[d].at # "setpin"
             /\ reg'[d].at = "insert" => reg'[d].cert \in {NoCert, Pinned[n]}
  <2>1. CASE d # c
    BY <1>3, <1>9, <2>1 DEF IdentityInv, PinsInv
  <2>2. CASE d = c
    <3>1. pins[n] = Pinned[n] /\ r.node = n
      BY <1>5, <1>9, <2>2 DEF IdentityInv, PinsInv
    <3> QED BY <1>1, <1>4, <1>5, <1>9, <2>2, <3>1 DEF Call
  <2> QED BY <2>1, <2>2
<1>10. PinsInv'
  BY <1>2, <1>9 DEF IdentityInv, PinsInv
<1> QED BY <1>2, <1>8, <1>10 DEF IdentityInv, RevTypeOK

\* Register pins a node it meets for the first time.
LEMMA IdentitySetPin ==
    ASSUME IdentityInv, NEW c \in Calls, SetPin(c) PROVE IdentityInv'
<1> DEFINE r == reg[c]
<1>1. r \in Call /\ r.at = "setpin"
  BY NoCallIsNone DEF SetPin, IdentityInv, CallsInv
<1>2. /\ UNCHANGED <<revoked, nodes, rev, accepted, gone>>
      /\ pins' = [pins EXCEPT ![r.node] = r.cert]
      /\ reg' = [reg EXCEPT ![c].at = "insert"]
  BY DEF SetPin
<1>3. reg'[c] \in Call /\ reg'[c].node = r.node /\ \A d \in Calls : d # c => reg'[d] = reg[d]
  BY <1>1, <1>2 DEF Call, IdentityInv, CallsInv
<1>4. reg' \in [Calls -> {NoCall} \cup Call]
  BY <1>2, <1>3 DEF IdentityInv, CallsInv
<1>5. \A n : UnderWay(n)' => UnderWay(n)
  BY <1>1, <1>3, NoCallIsNone DEF UnderWay
<1>6. CallsInv'
  BY <1>2, <1>4, <1>5 DEF IdentityInv, CallsInv, UnderWay
<1>7. r.node \in NodeIDs /\ r.cert \in Certs \cup {NoCert}
  BY <1>1 DEF Call
<1>8. \A n \in NodeIDs \ revoked : Pinned[n] # NoCert => n # r.node
  BY <1>1, NoCallIsNone DEF IdentityInv, PinsInv
<1>9. PinsInv'
  BY <1>2, <1>3, <1>7, <1>8 DEF IdentityInv, PinsInv
<1> QED BY <1>2, <1>6, <1>9 DEF IdentityInv, RevTypeOK

\* Register enters the node.
LEMMA IdentityRegister ==
    ASSUME IdentityInv, NEW c \in Calls, RegisterInsert(c) PROVE IdentityInv'
<1> DEFINE r == reg[c]
<1>1. r \in Call /\ r.at = "insert" /\ r # NoCall
  BY NoCallIsNone DEF RegisterInsert, IdentityInv, CallsInv
<1>2. /\ UNCHANGED <<revoked, pins, rev, gone>>
      /\ nodes' = nodes \cup {r.node}
      /\ reg' = [reg EXCEPT ![c] = NoCall]
      /\ accepted' = [accepted EXCEPT ![r.node] = @ \cup ({r.cert} \ {NoCert})]
  BY DEF RegisterInsert
<1>3. r.node \in NodeIDs /\ r.cert \in Certs \cup {NoCert}
  BY <1>1 DEF Call
<1>4. UnderWay(r.node)
  BY <1>1 DEF UnderWay
<1>5. reg'[c] = NoCall /\ \A d \in Calls : d # c => reg'[d] = reg[d]
  BY <1>2 DEF IdentityInv, CallsInv
<1>6. \A n : UnderWay(n)' => UnderWay(n)
  BY <1>5 DEF UnderWay
<1>7. reg' \in [Calls -> {NoCall} \cup Call]
  BY <1>2 DEF IdentityInv, CallsInv
<1>8. \A n \in gone : n \notin nodes' /\ ~UnderWay(n)'
  BY <1>2, <1>4, <1>5 DEF IdentityInv, CallsInv, UnderWay
<1>9. CallsInv'
  BY <1>2, <1>7, <1>8 DEF IdentityInv, CallsInv, UnderWay
<1>10. \A n \in NodeIDs \ revoked : Pinned[n] # NoCert /\ n = r.node => r.cert \in {NoCert, Pinned[n]}
  BY <1>1 DEF IdentityInv, PinsInv
<1>11. ASSUME NEW n \in NodeIDs \ revoked, Pinned[n] # NoCert
       PROVE  /\ pins[n] = Pinned[n] /\ accepted'[n] \subseteq {Pinned[n]}
              /\ \A d \in Calls : reg'[d] # NoCall /\ reg'[d].node = n =>
                    /\ reg'[d].at # "setpin"
                    /\ reg'[d].at = "insert" => reg'[d].cert \in {NoCert, Pinned[n]}
  <2>1. pins[n] = Pinned[n] /\ accepted[n] \subseteq {Pinned[n]}
    BY <1>11 DEF IdentityInv, PinsInv
  <2>2. accepted'[n] \subseteq {Pinned[n]}
    BY <1>2, <1>10, <1>11, <2>1 DEF IdentityInv, PinsInv
  <2> QED BY <1>5, <1>11, <2>1, <2>2 DEF IdentityInv, PinsInv
<1>12. PinsInv'
  BY <1>2, <1>3, <1>11 DEF IdentityInv, PinsInv
<1> QED BY <1>2, <1>9, <1>12 DEF IdentityInv, RevTypeOK

\* RevokeNode marks the node, removes its entry, cancels its stream, drops its pin.
LEMMA IdentityRevoke ==
    ASSUME IdentityInv, NEW n \in NodeIDs,
           RevokeMark(n) \/ RevokeRemove(n) \/ CancelStream(n) \/ DeletePin(n)
    PROVE  IdentityInv'
<1>1. CASE RevokeMark(n)
  <2>1. RevTypeOK'
    BY <1>1 DEF RevokeMark, IdentityInv, RevTypeOK
  <2>2. CallsInv'
    BY <1>1 DEF RevokeMark, IdentityInv, RevTypeOK, CallsInv, UnderWay
  <2>3. PinsInv'
    BY <1>1 DEF RevokeMark, IdentityInv, PinsInv
  <2> QED BY <2>1, <2>2, <2>3 DEF IdentityInv
<1>2. CASE RevokeRemove(n)
  <2>1. RevTypeOK'
    BY <1>2 DEF RevokeRemove, IdentityInv, RevTypeOK
  <2>2. CallsInv'
    BY <1>2 DEF RevokeRemove, IdentityInv, RevTypeOK, CallsInv, UnderWay
  <2>3. PinsInv'
    BY <1>2 DEF RevokeRemove, IdentityInv, PinsInv
  <2> QED BY <2>1, <2>2, <2>3 DEF IdentityInv
<1>3. CASE CancelStream(n)
  <2>1. RevTypeOK'
    BY <1>3 DEF CancelStream, IdentityInv, RevTypeOK
  <2>2. CallsInv'
    BY <1>3 DEF CancelStream, IdentityInv, RevTypeOK, CallsInv, UnderWay
  <2>3. PinsInv'
    BY <1>3 DEF CancelStream, IdentityInv, PinsInv
  <2> QED BY <2>1, <2>2, <2>3 DEF IdentityInv
<1>4. CASE DeletePin(n)
  <2>1. n \in revoked
    BY <1>4 DEF DeletePin, IdentityInv, CallsInv
  <2>2. CallsInv'
    BY <1>4, <2>1 DEF DeletePin, IdentityInv, RevTypeOK, CallsInv, UnderWay
  <2>3. PinsInv'
    BY <1>4, <2>1 DEF DeletePin, IdentityInv, PinsInv
  <2> QED BY <1>4, <2>2, <2>3 DEF DeletePin, IdentityInv, RevTypeOK
<1> QED BY <1>1, <1>2, <1>3, <1>4

\* A restart loads the configured pins and forgets the revocations.
LEMMA IdentityRestart == ASSUME Restart PROVE IdentityInv'
BY NoCallIsNone, IdentityAssumption
DEF Restart, IdentityInv, RevTypeOK, CallsInv, PinsInv, UnderWay

\* The invariant is inductive.
LEMMA IdentityStep ==
    ASSUME IdentityInv, [IdentityNext]_identityVars PROVE IdentityInv'
<1>1. CASE UNCHANGED <<revoked, nodes, pins, reg, rev, accepted, gone>>
  BY <1>1 DEF IdentityInv, RevTypeOK, CallsInv, PinsInv, UnderWay
<1>2. ASSUME NEW c \in Calls, NEW n \in NodeIDs, NEW k \in Certs \cup {NoCert}, RegisterCall(c, n, k)
      PROVE  IdentityInv'
  BY <1>2, IdentityRegisterCall
<1>3. ASSUME NEW c \in Calls, GetPin(c) PROVE IdentityInv'
  BY <1>3, IdentityGetPin
<1>4. ASSUME NEW c \in Calls, SetPin(c) PROVE IdentityInv'
  BY <1>4, IdentitySetPin
<1>5. ASSUME NEW c \in Calls, RegisterInsert(c) PROVE IdentityInv'
  BY <1>5, IdentityRegister
<1>6. ASSUME NEW n \in NodeIDs, RevokeMark(n) \/ RevokeRemove(n) \/ CancelStream(n) \/ DeletePin(n)
      PROVE  IdentityInv'
  BY <1>6, IdentityRevoke
<1>7. CASE Restart
  BY <1>7, IdentityRestart
<1> QED
  BY <1>1, <1>2, <1>3, <1>4, <1>5, <1>6, <1>7
  DEF IdentityNext, identityVars, HeartbeatFirst, HeartbeatRecv, HeartbeatCheck, HeartbeatHandle, unregisterStream

\* The invariant holds in every behaviour.
LEMMA IdentityAlways == IdentitySpec => []IdentityInv
<1>1. IdentityInit => IdentityInv
  BY IdentityStart
<1>2. IdentityInv /\ [IdentityNext]_identityVars => IdentityInv'
  BY IdentityStep
<1> QED BY <1>1, <1>2, PTL DEF IdentitySpec

\* A node whose revocation has returned, with no Register left that was let in
\* before, has no entry until the coordinator restarts (RevokeNode, Register).
THEOREM RevokedNodesStayOut == IdentitySpec => []RevokedStaysOut
<1>1. IdentityInv => RevokedStaysOut
  BY DEF IdentityInv, CallsInv, RevokedStaysOut
<1> QED BY <1>1, IdentityAlways, PTL

\* A node with a configured pin registers with that certificate or with none, as
\* long as it is not revoked, however its registrations overlap (Register).
THEOREM ConfiguredPinsHold == IdentitySpec => []ConfiguredPinHolds
<1>1. IdentityInv => ConfiguredPinHolds
  BY DEF IdentityInv, PinsInv, ConfiguredPinHolds
<1> QED BY <1>1, IdentityAlways, PTL

=============================================================================
