------------------------------- MODULE Authz -------------------------------
(***************************************************************************)
(* Who may do what: the pure evaluator every REST handler asks.            *)
(*   internal/principal/principal.go  identities                           *)
(*   internal/authz/authz.go          Allow                                *)
(*   internal/authz/rules.go          the allow-lists of services, nodes   *)
(*   internal/authz/share.go          share grants                         *)
(* An ID "kind:subject" is the pair <<kind, subject>>.                     *)
(***************************************************************************)
EXTENDS FiniteSets

Actions == {"read", "list", "write", "cancel", "delete", "reveal", "admin"}

ResourceKinds == {"job", "workflow", "dataset", "model", "service", "system"}

Kinds == {"user", "operator", "node", "service", "job", "anonymous"}

-----------------------------------------------------------------------------
(* Principals.                                                             *)

User(s, role) ==
    [id |-> <<"user", s>>, kind |-> "user", name |-> s, role |-> role, groups |-> {}]

Operator(cn, role) ==
    [id |-> <<"operator", cn>>, kind |-> "operator", name |-> cn, role |-> role, groups |-> {}]

Node(n) == [id |-> <<"node", n>>, kind |-> "node", name |-> n, role |-> "", groups |-> {}]

Service(s) == [id |-> <<"service", s>>, kind |-> "service", name |-> s, role |-> "", groups |-> {}]

Job(wf) == [id |-> <<"job", wf>>, kind |-> "job", name |-> wf, role |-> "job", groups |-> {}]

Anonymous ==
    [id |-> <<"anonymous", "">>, kind |-> "anonymous", name |-> "anonymous", role |-> "", groups |-> {}]

LegacyOwnerID == <<"legacy", "">>

NoOwner == <<"", "">>

OwnerFromLegacy(subject) == IF subject = "" THEN LegacyOwnerID ELSE <<"user", subject>>

\* The Role of a node or of a job token never makes it an admin.
IsAdmin(p) == p.kind \in {"user", "operator"} /\ p.role = "admin"

-----------------------------------------------------------------------------
(* The allow-lists of rules.go.  nodeActionsByResource is empty.           *)

serviceActions ==
    {"dispatcher"} \X {"job"} \X {"read", "list", "cancel"}
    \cup {"workflow_runner"} \X {"job"} \X {"read", "write", "list"}
    \cup {"workflow_runner"} \X {"workflow"} \X {"read", "list", "cancel"}
    \cup {"retry_loop"} \X {"job"} \X {"read", "list", "write", "cancel"}
    \cup {"log_ingester", "log_reconciler"} \X {"job"} \X {"read"}

serviceAllowed(name, action, kind) == <<name, kind, action>> \in serviceActions

nodeAllowed(action, kind) == FALSE

-----------------------------------------------------------------------------
(* Shares.                                                                 *)

\* Whether a grantee exists is not asked, and ActionAdmin is never granted.
ValidateShare(sh) ==
    /\ sh.grantee[1] \in {"user", "operator", "group", "service", "job"}
    /\ sh.grantee[2] # ""
    /\ sh.actions # {}
    /\ sh.actions \subseteq Actions \ {"admin"}

matchesGrantee(p, grantee) ==
    \/ p.id = grantee
    \/ grantee[1] = "group" /\ grantee[2] \in p.groups

sharesAllow(p, action, shares) ==
    \E sh \in shares : matchesGrantee(p, sh.grantee) /\ action \in sh.actions

-----------------------------------------------------------------------------
(* Allow.  A resource is [kind, owner, workflow, shares].                  *)

Resource(kind, owner, shares) ==
    [kind |-> kind, owner |-> owner, workflow |-> "", shares |-> shares]

JobResource(owner, workflow, shares) ==
    [kind |-> "job", owner |-> owner, workflow |-> workflow, shares |-> shares]

SystemResource == Resource("system", NoOwner, {})

\* The deny code of Allow, or "ok".  The order of the rules is the code's.
Verdict(p, action, res) ==
    IF IsAdmin(p) THEN "ok"
    ELSE IF p.kind = "anonymous" THEN "anonymous_denied"
    ELSE IF res.kind = "system" THEN "admin_required"
    ELSE IF res.owner = LegacyOwnerID THEN "legacy_owner_admin_only"
    ELSE CASE p.kind = "node" ->
                  IF nodeAllowed(action, res.kind) THEN "ok" ELSE "node_not_allowed"
           [] p.kind = "service" ->
                  IF serviceAllowed(p.name, action, res.kind) THEN "ok" ELSE "service_not_allowed"
           [] p.kind = "job" ->
                  IF /\ res.kind = "job"
                     /\ res.workflow # "" /\ res.workflow = p.name
                     /\ action \in {"read", "list"}
                  THEN "ok" ELSE "job_scope_mismatch"
           [] p.kind \in {"user", "operator"} ->
                  IF /\ res.owner # NoOwner
                     /\ p.id = res.owner \/ sharesAllow(p, action, res.shares)
                  THEN "ok" ELSE "not_owner"
           [] OTHER -> "unknown_kind"

Allow(p, action, res) == Verdict(p, action, res) = "ok"

\* Mutant: subjects are compared without their kind.
isOwnerOrAdmin_Name(p, owner) == IsAdmin(p) \/ (owner # NoOwner /\ p.name = owner[2])

\* handlers_shares.go: the right to change a resource's shares.
isOwnerOrAdmin(p, owner) == IsAdmin(p) \/ (owner # NoOwner /\ p.id = owner)

=============================================================================
