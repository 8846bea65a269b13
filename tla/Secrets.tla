------------------------------ MODULE Secrets ------------------------------
(***************************************************************************)
(* Secret environment values at rest, the rotation of the key that seals   *)
(* them, and their audited read-back:                                      *)
(*   internal/secretstore/secretstore.go       KeyRing, Encrypt, Rewrap    *)
(*   internal/cluster/persistence_encrypt.go   on-disk and in-memory form  *)
(*   internal/cluster/persistence_{jobs,workflows}.go  save and load       *)
(*   internal/cluster/persistence_rotate.go    RewrapAll                   *)
(*   internal/api/handlers_{secretstore,admin}.go  rotate, reveal          *)
(*   internal/api/secret_env.go, handlers_logs.go  what answers hide       *)
(*   internal/logstore/scrub.go                what stored output hides    *)
(*   cmd/helion-coordinator/main.go            the ring built at boot      *)
(* A key of a record is an environment key of a job, or of one child of a  *)
(* workflow; a value is not told apart from its key.  Envelopes are told   *)
(* apart by the version of the key that wraps them: opening one with its   *)
(* version returns the value, with any other version is an error (AES-GCM, *)
(* external).  Output holds whole values: one cut in two by a chunk border *)
(* is out of the scrubber's reach and of this module.                      *)
(***************************************************************************)
EXTENDS Naturals

CONSTANTS
    JobRecs,    \* job records
    FlowRecs,   \* workflow records
    Keys,       \* the environment keys of a record
    SecretSets, \* the sets of keys a submission may declare secret
    MaxVersion, \* bound on the versions of the key-encryption key
    MaxSaves    \* bound on the saves of one record

ASSUME SecretsAssumption ==
    MaxVersion \in Nat \ {0} /\ MaxSaves \in Nat /\ SecretSets \subseteq SUBSET Keys

VARIABLES
    conf,   \* the environment of the next boot: active version, versions loaded
    up,     \* the coordinator runs
    ring,   \* its KeyRing; active 0: none configured
    mem,    \* the records in memory: saves so far, plaintext keys, secret keys
    disk,   \* the records on disk: saves so far, plain keys, sealed keys
    sweep,  \* the rotation under way: the plan read, the records left
    swept,  \* a rotation to the active version ended without an error
    reveal, \* the read-backs under way: <<record, key>>
    audit,  \* what secret_revealed events tell: <<record, key>>
    logs,   \* the values in stored job output: <<record, key>>
    shown   \* the values answered in plaintext: <<record, key>>

vars == <<conf, up, ring, mem, disk, sweep, swept, reveal, audit, logs, shown>>

Recs == JobRecs \cup FlowRecs

Versions == 1..MaxVersion

NoRing == [keks |-> {}, active |-> 0]

Absent == [saves |-> 0, env |-> {}, secret |-> {}]

Missing == [saves |-> 0, plain |-> {}, secret |-> {}, sealed |-> {}, ringed |-> FALSE]

NoSweep == [plan |-> [r \in Recs |-> Missing], left |-> {}, on |-> FALSE]

Init ==
    /\ conf \in {NoRing, [keks |-> {1}, active |-> 1]}
    /\ up = FALSE
    /\ ring = NoRing
    /\ mem = [r \in Recs |-> Absent]
    /\ disk = [r \in Recs |-> Missing]
    /\ sweep = NoSweep
    /\ swept = FALSE
    /\ reveal = {}
    /\ audit = {}
    /\ logs = {}
    /\ shown = {}

-----------------------------------------------------------------------------
(* The ring.  Version 0 stands for none; an envelope is <<key, version>>.  *)

NewKeyRing(v) == [keks |-> {v}, active |-> v]

\* A version already there is refused.
AddKEKs(kr, vs) == [kr EXCEPT !.keks = @ \cup vs]

\* main: the active version, then the others the environment names.
configured(c) ==
    IF c.active = 0 THEN NoRing ELSE AddKEKs(NewKeyRing(c.active), c.keks \ {c.active})

Encrypt(k, kr) == <<k, kr.active>>

CanDecrypt(e, kr) == e[2] \in kr.keks

Rewrap(e, kr) == IF e[2] = kr.active THEN e ELSE Encrypt(e[1], kr)

-----------------------------------------------------------------------------
(* The on-disk form.                                                       *)

Sealed(env) == {e[1] : e \in env}

\* Every declared key with a value moves into an envelope.
encryptSecretsInPlace(env, secret, kr) ==
    LET moved == IF kr.active = 0 THEN {} ELSE secret \cap env
    IN  [plain |-> env \ moved, sealed |-> {Encrypt(k, kr) : k \in moved}]

\* Mutant: the sealed values stay in the plain map.
onDiskCopy_KeepPlain(m, kr) ==
    [saves |-> m.saves, plain |-> m.env, secret |-> m.secret,
     sealed |-> encryptSecretsInPlace(m.env, m.secret, kr).sealed, ringed |-> kr.active # 0]

\* jobOnDiskCopy and workflowOnDiskCopy: a copy is sealed, memory keeps the values.
onDiskCopy(m, kr) ==
    LET copy == encryptSecretsInPlace(m.env, m.secret, kr) IN
    [saves  |-> m.saves,
     plain  |-> copy.plain,
     secret |-> m.secret,
     sealed |-> copy.sealed,
     ringed |-> kr.active # 0]

\* decryptSecretsInto: a missing ring, an unknown version or a key in both
\* forms is an error.
decryptSecretsInto(d, kr) ==
    /\ d.sealed = {} \/ kr.active # 0
    /\ \A e \in d.sealed : e[1] \notin d.plain /\ CanDecrypt(e, kr)

\* Mutant: the names of the secret keys are not restored.
inMemoryForm_NoNames(d) ==
    [saves |-> d.saves, env |-> d.plain \cup Sealed(d.sealed), secret |-> {}]

inMemoryForm(d) ==
    [saves |-> d.saves, env |-> d.plain \cup Sealed(d.sealed), secret |-> d.secret]

-----------------------------------------------------------------------------
(* Boot, crash, and what the operator does in between.                     *)

LoadAllJobs(kr) == \A r \in JobRecs : decryptSecretsInto(disk[r], kr)

LoadAllWorkflows(kr) == \A r \in FlowRecs : decryptSecretsInto(disk[r], kr)

\* main: the ring from the environment, then Restore; an error ends the process.
Boot ==
    /\ ~up
    /\ LoadAllJobs(configured(conf))
    /\ LoadAllWorkflows(configured(conf))
    /\ up' = TRUE
    /\ ring' = configured(conf)
    /\ mem' = [r \in Recs |-> inMemoryForm(disk[r])]
    /\ UNCHANGED <<conf, disk, sweep, swept, reveal, audit, logs, shown>>

Crash ==
    /\ up
    /\ up' = FALSE
    /\ mem' = [r \in Recs |-> Absent]
    /\ sweep' = NoSweep
    /\ reveal' = {}
    /\ UNCHANGED <<conf, ring, disk, swept, audit, logs, shown>>

\* docs/security/crypto.md, steps 1 and 2: a new active version, the old ones
\* stay loaded.
AddVersion ==
    /\ ~up
    /\ conf.active < MaxVersion
    /\ conf' = [keks |-> conf.keks \cup {conf.active + 1}, active |-> conf.active + 1]
    /\ swept' = FALSE
    /\ UNCHANGED <<up, ring, mem, disk, sweep, reveal, audit, logs, shown>>

\* Step 5: the old versions are dropped after a sweep under the active one.
DropVersions ==
    /\ ~up
    /\ swept
    /\ conf.keks # {conf.active}
    /\ conf' = [conf EXCEPT !.keks = {conf.active}]
    /\ UNCHANGED <<up, ring, mem, disk, sweep, swept, reveal, audit, logs, shown>>

-----------------------------------------------------------------------------
(* Saves.                                                                  *)

\* Submit validates the secret keys (validateSecretKeys) and saves.
Submit(r, secret) ==
    /\ up
    /\ mem[r] = Absent
    /\ LET m == [saves |-> 1, env |-> Keys, secret |-> secret] IN
       /\ mem' = [mem EXCEPT ![r] = m]
       /\ disk' = [disk EXCEPT ![r] = onDiskCopy(m, ring)]
    /\ UNCHANGED <<conf, up, ring, sweep, swept, reveal, audit, logs, shown>>

\* Any later transition of the record: SaveJob or SaveWorkflow again.
Save(r) ==
    /\ up
    /\ mem[r].saves \in 1..(MaxSaves - 1)
    /\ LET m == [mem[r] EXCEPT !.saves = @ + 1] IN
       /\ mem' = [mem EXCEPT ![r] = m]
       /\ disk' = [disk EXCEPT ![r] = onDiskCopy(m, ring)]
    /\ UNCHANGED <<conf, up, ring, sweep, swept, reveal, audit, logs, shown>>

-----------------------------------------------------------------------------
(* RewrapAll.                                                              *)

\* The plan: every record as one View transaction reads it.
SweepRead ==
    /\ up /\ ~sweep.on
    /\ ring.active # 0
    /\ sweep' = [plan |-> disk, left |-> {r \in Recs : disk[r] # Missing}, on |-> TRUE]
    /\ UNCHANGED <<conf, up, ring, mem, disk, swept, reveal, audit, logs, shown>>

\* Mutant: an envelope keeps its version.
rewrapRecord_Keep(d, kr) == d

\* rewrapJobRecord and rewrapWorkflowRecord.
rewrapRecord(d, kr) ==
    [d EXCEPT !.sealed = {Rewrap(e, kr) : e \in @}]

\* One plan: nothing to rewrap, or the record of the plan is written back.
SweepWrite(r) ==
    /\ up /\ r \in sweep.left
    /\ \A e \in sweep.plan[r].sealed : CanDecrypt(e, ring)
    /\ sweep' = [sweep EXCEPT !.left = @ \ {r}]
    /\ disk' = IF \A e \in sweep.plan[r].sealed : e[2] = ring.active THEN disk
               ELSE [disk EXCEPT ![r] = rewrapRecord(sweep.plan[r], ring)]
    /\ UNCHANGED <<conf, up, ring, mem, swept, reveal, audit, logs, shown>>

SweepDone ==
    /\ up /\ sweep.on /\ sweep.left = {}
    /\ sweep' = NoSweep
    /\ swept' = TRUE
    /\ UNCHANGED <<conf, up, ring, mem, disk, reveal, audit, logs, shown>>

\* The request's context ends, or a write fails: what is rewrapped stays.
SweepFails ==
    /\ up /\ sweep.on /\ sweep.left # {}
    /\ sweep' = NoSweep
    /\ UNCHANGED <<conf, up, ring, mem, disk, swept, reveal, audit, logs, shown>>

-----------------------------------------------------------------------------
(* What leaves the coordinator: handleRevealSecret, the other answers, and *)
(* the output of jobs.                                                     *)

\* A key of the job declared secret, with a value.
containsSecretKey(r, k) == mem[r] # Absent /\ k \in mem[r].secret \cap mem[r].env

\* The checks pass and the event is written; a failed write refuses.
RevealAudit(r, k) ==
    /\ up
    /\ <<r, k>> \notin reveal
    /\ containsSecretKey(r, k)
    /\ reveal' = reveal \cup {<<r, k>>}
    /\ audit' = audit \cup {<<r, k>>}
    /\ UNCHANGED <<conf, up, ring, mem, disk, sweep, swept, logs, shown>>

RevealAnswer(v) ==
    /\ up
    /\ shown' = shown \cup {v}
    /\ reveal' = reveal \ {v}
    /\ UNCHANGED <<conf, up, ring, mem, disk, sweep, swept, audit, logs>>

\* redactSecretEnv: the values of GET, list and dry-run answers.
redactSecretEnv(m) == m.env \ m.secret

Show(r) ==
    /\ up
    /\ mem[r] # Absent
    /\ shown' = shown \cup {<<r, k>> : k \in redactSecretEnv(mem[r])}
    /\ UNCHANGED <<conf, up, ring, mem, disk, sweep, swept, reveal, audit, logs>>

jobToResponse(r) == r \in JobRecs /\ Show(r)

workflowToResponse(r) == r \in FlowRecs /\ Show(r)

\* secretsLookup: the values the scrubber looks for in a job's output.
secretsLookup(r) == {k \in mem[r].secret : k \in mem[r].env}

Scrub(chunk, secrets) == chunk \ secrets

\* StreamLogs: a chunk with a value of the job's environment in it, scrubbed
\* and stored.  A node may send it after a restart, or for a job long ended.
StreamLogs(r, k) ==
    /\ up
    /\ disk[r] # Missing
    /\ logs' = logs \cup {<<r, x>> : x \in Scrub({k}, secretsLookup(r))}
    /\ UNCHANGED <<conf, up, ring, mem, disk, sweep, swept, reveal, audit, shown>>

\* handleGetJobLogs scrubs what it reads once more.
GetJobLogs(r) ==
    /\ up
    /\ mem[r] # Absent
    /\ LET stored == {v[2] : v \in {v \in logs : v[1] = r}} IN
       shown' = shown \cup {<<r, k>> : k \in Scrub(stored, secretsLookup(r))}
    /\ UNCHANGED <<conf, up, ring, mem, disk, sweep, swept, reveal, audit, logs>>

-----------------------------------------------------------------------------
Next ==
    \/ Boot \/ Crash \/ AddVersion \/ DropVersions
    \/ \E r \in Recs : Save(r) \/ SweepWrite(r) \/ jobToResponse(r) \/ workflowToResponse(r)
    \/ \E r \in Recs, secret \in SecretSets : Submit(r, secret)
    \/ SweepRead \/ SweepDone \/ SweepFails
    \/ \E r \in JobRecs : GetJobLogs(r) \/ \E k \in Keys : RevealAudit(r, k) \/ StreamLogs(r, k)
    \/ \E v \in reveal : RevealAnswer(v)

Spec == Init /\ [][Next]_vars

-----------------------------------------------------------------------------
(* Properties.                                                             *)

MemRecs == [saves : Nat, env : SUBSET Keys, secret : SUBSET Keys]

DiskRecs == [saves : Nat, plain : SUBSET Keys, secret : SUBSET Keys,
             sealed : SUBSET (Keys \X Versions), ringed : BOOLEAN]

SecretsTypeOK ==
    /\ conf \in [keks : SUBSET Versions, active : 0..MaxVersion]
    /\ up \in BOOLEAN /\ swept \in BOOLEAN
    /\ ring \in [keks : SUBSET Versions, active : 0..MaxVersion]
    /\ mem \in [Recs -> MemRecs]
    /\ disk \in [Recs -> DiskRecs]
    /\ sweep \in [plan : [Recs -> DiskRecs], left : SUBSET Recs, on : BOOLEAN]
    /\ reveal \subseteq Recs \X Keys /\ audit \subseteq Recs \X Keys
    /\ logs \subseteq Recs \X Keys /\ shown \subseteq Recs \X Keys

\* crypto.md, Rotation: an operator who drops the old versions after a sweep
\* ended well never loses a value.  Whatever was saved, swept and interrupted
\* before, the next boot loads every record and finds all of its keys.
Recoverable ==
    \A r \in Recs : disk[r] # Missing =>
        /\ decryptSecretsInto(disk[r], configured(conf))
        /\ inMemoryForm(disk[r]).env = Keys

\* persistence_encrypt.go "no silent plaintext fallback": a record saved with a
\* key configured holds none of its secret values in the clear, and a sweep
\* does not bring one back.
NoPlainSecret ==
    \A r \in Recs : disk[r].ringed => disk[r].plain \cap disk[r].secret = {}

\* handlers_admin.go "Audit event is written BEFORE the plaintext appears": the
\* value of a key declared secret is answered only after a secret_revealed
\* event, over restarts too, whether the caller asks for the job, for its
\* workflow or for its output.
RevealedIsAudited ==
    \A r \in Recs : \A k \in disk[r].secret :
        <<r, k>> \in shown => <<r, k>> \in audit

\* persistence_rotate.go:40 "Safe to call concurrently with live writes": the
\* sweep never takes a record on disk back to an earlier save.
NoRollback ==
    [][\A r \in Recs : disk'[r].saves >= disk[r].saves]_vars

=============================================================================
