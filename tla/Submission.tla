---------------------------- MODULE Submission ----------------------------
(* How work enters the coordinator: POST /jobs and POST /workflows         *)
(* (internal/api/handlers_jobs.go, handlers_workflows.go), with the        *)
(* validators, the env-key denylist and its per-selector exceptions        *)
(* (env_denylist.go), the dry-run flag (dry_run.go), the submission record *)
(* (analytics_publisher.go), and the cancel endpoints. A request body is   *)
(* a record of what the checks look at: `wrong` names the checks of a      *)
(* plain field that it fails; environment, selector, bindings and          *)
(* identity are there because later steps use them. Job ids are sequences  *)
(* of path segments: a workflow's child is its workflow's id and its name, *)
(* and a client may ask for such an id by itself.                          *)
EXTENDS Naturals, Sequences, FiniteSets, Authz

CONSTANTS Offered,     \* the bodies clients send
          Callers,     \* the principals that send them
          Denied,      \* environment keys envKeyBlocked reports
          Exceptions   \* rules of HELION_ENV_DENYLIST_EXCEPTIONS

VARIABLES jobs,        \* JobStore: stored job records
          workflows,   \* WorkflowStore: stored workflow records
          lock,        \* who holds WorkflowStore.mu: the start in progress
          overrides,   \* audit log: env_denylist_override events
          preview      \* history: the last body dry-run, and what it was answered

submissionVars == <<jobs, workflows, lock, overrides, preview>>

\* No workflow, or none that starts.
Unnamed == ""

\* Every job some body lists.
Specs == UNION {{b.jobs[i] : i \in DOMAIN b.jobs} : b \in Offered}

NoBody == <<>>

ASSUME SubmissionAssumption ==
    \A b \in Offered : b # NoBody /\ b.jobs \in Seq(Specs)

NoPreview == [body |-> NoBody, dry |-> "none", real |-> "none", recorded |-> TRUE]

Free == [id |-> Unnamed, todo |-> <<>>]

SubmissionInit ==
    /\ jobs = {}
    /\ workflows = {}
    /\ lock = Free
    /\ overrides = {}
    /\ preview = NoPreview

-----------------------------------------------------------------------------
(* Validators. A rule of the denylist exceptions is parsed at start-up and *)
(* must name keys that are denied: a rule that names another key is        *)
(* refused, and the coordinator does not start.                            *)

envKeyBlocked(k) == k \in Denied

ParseEnvDenylistExceptions(rules) ==
    \A x \in rules : x.allowed # {} /\ \A k \in x.allowed : envKeyBlocked(k)

envKeyAllowedByException(k, selector) ==
    /\ envKeyBlocked(k)
    /\ \E x \in Exceptions : <<x.key, x.value>> \in selector /\ k \in x.allowed

denylistOnly(j) ==
    LET blocked == {k \in j.env : envKeyBlocked(k)}
    IN  [err |-> \E k \in blocked : ~envKeyAllowedByException(k, j.selector),
         overridden |-> {k \in blocked : envKeyAllowedByException(k, j.selector)}]

\* As if the denylist were not applied to a workflow's children.
validateEnvMap_ShapeOnly(j) == [err |-> "env" \in j.wrong, overridden |-> {}]

\* The workflow path checks shape and denylist in one pass over the map.
validateEnvMap(j) ==
    [denylistOnly(j) EXCEPT !.err = @ \/ "env" \in j.wrong]

validateSecretKeys(j) == j.secret \subseteq j.env

(* A local path is the sequence of its segments: a leading slash is an     *)
(* empty first segment.                                                    *)
validateLocalPath(p) == p # <<>> /\ \A i \in DOMAIN p : p[i] \notin {"", ".", ".."}

isDangerousLibraryBasename(p) == p[Len(p)] = "libc.so.6"

isDangerousSystemPath(uri) == uri = "file:system"

isAllowedArtifactScheme(uri) == uri \in {"file:data", "file:system", "s3"}

\* The rest of a from-reference is what the dependency graph is checked for.
validateArtifactFromShape(b, allowFrom, requireURI) == allowFrom /\ requireURI /\ b.uri = ""

(* A from-reference ends the checks of its binding early.                  *)
validateArtifactBindingsCtx(bs, requireURI, allowFrom) ==
    \A b \in bs :
        /\ validateLocalPath(b.path)
        /\ IF b.from
           THEN validateArtifactFromShape(b, allowFrom, requireURI)
           ELSE /\ requireURI => isAllowedArtifactScheme(b.uri)
                /\ ~requireURI => b.uri = ""
                /\ ~isDangerousSystemPath(b.uri)
                /\ ~isDangerousLibraryBasename(b.path)

firstDuplicateBindingName(j) == "duplicate" \in j.wrong

validateNodeSelector(j) == "selector" \notin j.wrong

validateServiceSpec(j) == "service" \notin j.wrong

validateSubmitRequest(j) ==
    /\ j.wrong \cap {"command", "args", "env", "limits", "gpus", "workingDir"} = {}
    /\ ~firstDuplicateBindingName(j)
    /\ validateNodeSelector(j)
    /\ validateServiceSpec(j)
    /\ validateArtifactBindingsCtx(j.inputs, TRUE, FALSE)
    /\ validateArtifactBindingsCtx(j.outputs, FALSE, FALSE)

\* What the workflow handler checks of a child before its environment.
childChecks(j) ==
    /\ j.wrong \cap {"name", "command", "timeout", "workingDir"} = {}
    /\ ~firstDuplicateBindingName(j)
    /\ validateNodeSelector(j)
    /\ validateArtifactBindingsCtx(j.inputs, TRUE, TRUE)
    /\ validateArtifactBindingsCtx(j.outputs, FALSE, FALSE)

validateWorkflowTags(b) == ~b.badTags

childAccepted(j) == childChecks(j) /\ ~validateEnvMap(j).err /\ validateSecretKeys(j)

-----------------------------------------------------------------------------
(* The answer to a request, up to the point where a dry run leaves the     *)
(* path of a real one: the first check that refuses decides.               *)

First(checks) ==
    LET failing == {i \in DOMAIN checks : checks[i][1]}
    IN  IF failing = {} THEN "ok"
        ELSE checks[CHOOSE i \in failing : \A k \in failing : i <= k][2]

\* The caller is stamped as owner before it is asked: only its kind can refuse it.
MayWrite(c, kind) == Allow(c, "write", Resource(kind, c.id, {}))

\* The body, the id and the dry_run parameter are read.
ParseDryRunParam(b) == b.wrong = {}

jobAnswer(b) ==
    LET j == b.jobs[1]
    IN  First(<<
          <<~ParseDryRunParam(b), "400">>,
          <<"timeout" \in j.wrong \/ "missing" \in j.wrong, "400">>,
          <<~validateSubmitRequest(j), "400 recorded">>,
          <<~validateSecretKeys(j), "400">>,
          <<j.wrong \cap {"priority", "retry"} # {}, "400">>,
          <<~MayWrite(b.caller, "job"), "403">>,
          <<denylistOnly(j).err, "400">> >>)

workflowAnswer(b) ==
    First(<<
      <<~ParseDryRunParam(b) \/ b.jobs = <<>>, "400">>,
      <<\E i \in DOMAIN b.jobs : ~childAccepted(b.jobs[i]), "400">>,
      <<~validateWorkflowTags(b), "400">>,
      <<~MayWrite(b.caller, "workflow"), "403">> >>)

\* Only these reject and accept answers reach recordSubmission.
recordSubmission(answer) == answer \in {"400 recorded", "200", "201"}

(* What the client knows of its body: the answer of its dry run, and that  *)
(* of the real submission that followed.                                   *)
Answered(b, dryRun, answer) ==
    preview' =
        IF dryRun
        THEN [body |-> b, dry |-> answer, real |-> "none",
              recorded |-> recordSubmission(answer)]
        ELSE IF preview.body = b
             THEN [preview EXCEPT !.real = answer, !.recorded = recordSubmission(answer)]
             ELSE preview

-----------------------------------------------------------------------------
(* POST /jobs.                                                             *)

JobRecord(id, wf, j, owner) ==
    [id |-> id, workflow |-> wf, spec |-> j, owner |-> owner, status |-> "pending"]

Exists(id) == \E r \in jobs : r.id = id

AuditOverrides(id, j) == {[id |-> id, key |-> k] : k \in denylistOnly(j).overridden}

handleSubmitJob(b, dryRun, saved) ==
    LET j == b.jobs[1]
        refusal == jobAnswer(b)
        store == refusal = "ok" /\ ~dryRun /\ ~Exists(b.id) /\ saved
        answer == IF refusal # "ok" THEN refusal
                  ELSE IF dryRun THEN "200"
                  ELSE IF Exists(b.id) THEN "409"
                  ELSE IF saved THEN "201" ELSE "500"
    IN  /\ b.kind = "job"
        /\ overrides' = IF refusal = "ok" THEN overrides \cup AuditOverrides(b.id, j)
                        ELSE overrides
        /\ jobs' = IF store THEN jobs \cup {JobRecord(b.id, Unnamed, j, b.caller.id)} ELSE jobs
        /\ Answered(b, dryRun, answer)
        /\ UNCHANGED <<workflows, lock>>

-----------------------------------------------------------------------------
(* POST /workflows. The children are checked in order, and each child's    *)
(* overrides are audited as it passes, whatever a later child does.        *)

Child(id, j) == <<id, j.name>>

\* The children whose environment is accepted before a child is refused.
reached(b) ==
    {i \in DOMAIN b.jobs : /\ childChecks(b.jobs[i]) /\ ~validateEnvMap(b.jobs[i]).err
                           /\ \A k \in 1..(i - 1) : childAccepted(b.jobs[k])}

\* As if the dry run skipped ValidateDAG.
dagRefused_RealOnly(b, dryRun) == ~dryRun /\ ~b.dag

\* Both paths validate the graph, the real one inside WorkflowStore.Submit.
dagRefused(b, dryRun) == ~b.dag

WorkflowExists(id) == \E w \in workflows : w.id = id

WorkflowRecord(b) ==
    [id |-> b.id, owner |-> b.caller.id, body |-> b, status |-> "pending", starting |-> TRUE]

handleSubmitWorkflow(b, dryRun, saved) ==
    LET refusal == workflowAnswer(b)
        submits == refusal = "ok" /\ ~dryRun
        stored == submits /\ ~dagRefused(b, dryRun) /\ ~WorkflowExists(b.id) /\ saved
        answer == IF refusal # "ok" THEN refusal
                  ELSE IF dagRefused(b, dryRun) THEN "400"
                  ELSE IF dryRun THEN "200"
                  ELSE IF WorkflowExists(b.id) THEN "409" ELSE "500"
    IN  /\ b.kind = "workflow"
        /\ submits => lock = Free
        /\ overrides' = IF b.wrong # {} THEN overrides
                        ELSE overrides \cup UNION {AuditOverrides(Child(b.id, b.jobs[i]), b.jobs[i]) :
                                                   i \in reached(b)}
        /\ workflows' = IF stored THEN workflows \cup {WorkflowRecord(b)} ELSE workflows
        /\ IF stored THEN UNCHANGED preview ELSE Answered(b, dryRun, answer)
        /\ UNCHANGED <<jobs, lock>>

(* The handler then starts what it stored (`starting`: that call has not   *)
(* returned): the workflow lock is held while the children enter the       *)
(* JobStore one by one. A workflow cancelled in between is not started.    *)
Started(w, status) ==
    workflows' = (workflows \ {w}) \cup {[w EXCEPT !.status = status, !.starting = FALSE]}

StartBegin(w) ==
    /\ lock = Free /\ w.starting
    /\ IF w.status = "pending"
       THEN /\ lock' = [id |-> w.id, todo |-> w.body.jobs]
            /\ UNCHANGED <<workflows, preview>>
       ELSE /\ Started(w, w.status)
            /\ Answered(w.body, FALSE, "500")
            /\ UNCHANGED lock
    /\ UNCHANGED <<jobs, overrides>>

StartJob(w, saved) ==
    /\ lock.id = w.id /\ lock.todo # <<>>
    /\ LET j == Head(lock.todo)
       IN  IF ~Exists(Child(w.id, j)) /\ saved
           THEN /\ jobs' = jobs \cup {JobRecord(Child(w.id, j), w.id, j, w.owner)}
                /\ lock' = [lock EXCEPT !.todo = Tail(@)]
                /\ UNCHANGED <<workflows, preview>>
           ELSE /\ Started(w, "failed")
                /\ lock' = Free
                /\ Answered(w.body, FALSE, "500")
                /\ UNCHANGED jobs
    /\ UNCHANGED overrides

StartEnd(w, saved) ==
    /\ lock.id = w.id /\ lock.todo = <<>>
    /\ Started(w, "running")
    /\ lock' = Free
    /\ Answered(w.body, FALSE, IF saved THEN "201" ELSE "500")
    /\ UNCHANGED <<jobs, overrides>>

-----------------------------------------------------------------------------
(* POST /jobs/{id}/cancel and DELETE /workflows/{id}: the record is loaded *)
(* first, so that its owner decides. A refusal leaves everything as it is. *)

Terminal == {"cancelled", "failed"}

handleCancelJob(c, r) ==
    /\ Allow(c, "cancel", JobResource(r.owner, r.workflow, {}))
    /\ r.status \notin Terminal
    /\ jobs' = (jobs \ {r}) \cup {[r EXCEPT !.status = "cancelled"]}
    /\ UNCHANGED <<workflows, lock, overrides, preview>>

handleCancelWorkflow(c, w) ==
    /\ Allow(c, "cancel", Resource("workflow", w.owner, {}))
    /\ lock = Free
    /\ w.status \notin Terminal
    /\ workflows' = (workflows \ {w}) \cup {[w EXCEPT !.status = "cancelled"]}
    /\ jobs' = {IF r.workflow = w.id THEN [r EXCEPT !.status = "cancelled"] ELSE r : r \in jobs}
    /\ UNCHANGED <<lock, overrides, preview>>

Submit(b, dryRun, saved) ==
    handleSubmitJob(b, dryRun, saved) \/ handleSubmitWorkflow(b, dryRun, saved)

Start(w, saved) == StartBegin(w) \/ StartJob(w, saved) \/ StartEnd(w, saved)

SubmissionNext ==
    \/ \E b \in Offered : \/ Submit(b, TRUE, TRUE)
                         \/ \E saved \in BOOLEAN : Submit(b, FALSE, saved)
    \/ \E w \in workflows, saved \in BOOLEAN : Start(w, saved)
    \/ \E c \in Callers : \/ \E r \in jobs : handleCancelJob(c, r)
                         \/ \E w \in workflows : handleCancelWorkflow(c, w)

SubmissionSpec == SubmissionInit /\ [][SubmissionNext]_submissionVars

-----------------------------------------------------------------------------
(* Properties.                                                             *)

(* Every name of the state has its type, and an id is stored once.         *)
SubmissionTypeOK ==
    /\ \A r, q \in jobs : r.id = q.id => r = q
    /\ \A w, v \in workflows : w.id = v.id => w = v
    /\ \A w \in workflows : w.status \in {"pending", "running"} \cup Terminal
    /\ lock = Free \/ \E w \in workflows : lock.id = w.id
    /\ preview = NoPreview \/ preview.body \in Offered

(* No job that entered the store, by itself or as the child of a workflow, *)
(* carries a denied environment key, unless a rule allows that key for a   *)
(* label its node selector asks for by value; and each such key has its    *)
(* override in the audit log (env_denylist.go, the two submit handlers and *)
(* WorkflowStore.Start, which copies the environment as it is).            *)
EnvClean ==
    \A r \in jobs : \A k \in r.spec.env \cap Denied :
        /\ \E x \in Exceptions : <<x.key, x.value>> \in r.spec.selector /\ k \in x.allowed
        /\ [id |-> r.id, key |-> k] \in overrides

(* A dry run foretells the real submission of the same body: what it       *)
(* accepts is then refused at most because an id is taken, a workflow was  *)
(* cancelled while it started or the store failed, and what it refuses     *)
(* is refused the same way (dry_run.go, and the handlers' order of         *)
(* checks).                                                                *)
DryRunAgrees ==
    preview.real # "none" =>
        IF preview.dry = "200" THEN preview.real \in {"201", "409", "500"}
        ELSE preview.real = preview.dry

(* The submission history has a row for every outcome, as                  *)
(* analytics_publisher.go says; the handlers record only some refusals.    *)
EveryOutcomeRecorded == preview.recorded

=============================================================================
