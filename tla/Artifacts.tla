----------------------------- MODULE Artifacts -----------------------------
(***************************************************************************)
(* How the bytes a job writes reach the job that reads them:               *)
(*   internal/staging/staging.go          upload and download              *)
(*   internal/artifacts/local.go, s3.go   Put, Get and Stat                *)
(*   internal/artifacts/store.go          GetAndVerifyTo                   *)
(*   internal/grpcserver/handlers.go      attestOutputs                    *)
(*   internal/cluster/workflow_resolve.go the digest given to the reader   *)
(*   internal/cluster/workflow_lineage.go what the dashboard shows of it   *)
(* A producer writes one output, in several chunks; each of its attempts   *)
(* writes other bytes.  A run r = <<j, a>> is attempt a of job j, and its  *)
(* temporary file is an inode named r, so the bytes of a file are the run  *)
(* that wrote it and how much it wrote.                                    *)
(***************************************************************************)
EXTENDS Naturals

CONSTANTS
    Producers,   \* jobs with an output
    Consumers,   \* jobs with an input
    From,        \* From[c]: the producer whose output c reads
    Plain,       \* consumers that name its URI instead of a From
    Keys,        \* sanitized keys jobs/{job}/{local path} of the store
    KeyOf,       \* KeyOf[j]: that of j's output
    Escapes,     \* keys that url.URL.String writes in another way
    Backend,     \* "local" or "s3"
    MaxAttempts,
    Chunks,      \* Bound: chunks of 64 KiB of an output
    Faults       \* what may go wrong, among FaultKinds

\* copy:  reading, writing or closing fails, or the context ends
\* node:  the node of a run stops in the middle of it
\* rot:   the store loses the bytes of an object, once
FaultKinds == {"copy", "node", "rot"}

ASSUME ArtifactsAssumption ==
    /\ From \in [Consumers -> Producers]
    /\ Plain \subseteq Consumers
    /\ KeyOf \in [Producers -> Keys]
    /\ Escapes \subseteq Keys
    /\ Backend \in {"local", "s3"}
    /\ MaxAttempts \in Nat \ {0} /\ Chunks \in Nat \ {0}
    /\ Faults \subseteq FaultKinds

VARIABLES
    job,      \* job[j]: status, attempt and ResolvedOutputs of a producer
    run,      \* run[j]: the run of the current attempt
    inode,    \* inode[r]: chunks of the file of run r
    rotten,   \* inodes whose bytes have been lost
    link,     \* link[k]: the inode under a key, or NoInode
    reader    \* reader[c]: the staging of c's input

artifactVars == <<job, run, inode, rotten, link, reader>>

Runs == Producers \X (1 .. MaxAttempts)

NoInode == <<>>

\* What a SHA-256 tells apart.
Digest(r, n) == <<r, n, r \in rotten>>

NoDigest == <<>>

NewJob == [status |-> "running", attempt |-> 1, outputs |-> {}]

Current(j) == <<j, job[j].attempt>>

Idle == [at |-> "wait"]

ArtifactsInit ==
    /\ job = [j \in Producers |-> NewJob]
    /\ run = [j \in Producers |-> "exec"]
    /\ inode = [r \in Runs |-> 0]
    /\ rotten = {}
    /\ link = [k \in Keys |-> NoInode]
    /\ reader = [c \in Consumers |-> Idle]

-----------------------------------------------------------------------------
(* The store.                                                              *)

\* A local path with a space or a letter outside ASCII is escaped.
fileURI(k) == [key |-> k, text |-> IF k \in Escapes THEN "escaped" ELSE "plain"]

s3URI(k) == [key |-> k, text |-> "plain"]

URI(k) == IF Backend = "local" THEN fileURI(k) ELSE s3URI(k)

\* Parsing undoes the escapes.
pathForURI(u) == u.key

\* Mutant: the file is opened under its own name.
CreateTemp_InPlace(j) ==
    /\ run[j] = "exec"
    /\ run' = [run EXCEPT ![j] = "copy"]
    /\ link' = [link EXCEPT ![KeyOf[j]] = Current(j)]
    /\ UNCHANGED <<job, inode, rotten, reader>>

\* The process has ended well and the output is a regular file of a size
\* the stager uploads: Put begins with a temporary file.
CreateTemp(j) ==
    /\ run[j] = "exec"
    /\ run' = [run EXCEPT ![j] = "copy"]
    /\ UNCHANGED <<job, inode, rotten, link, reader>>

copyWithCtx(j) ==
    /\ run[j] = "copy"
    /\ inode[Current(j)] < Chunks
    /\ inode' = [inode EXCEPT ![Current(j)] = @ + 1]
    /\ UNCHANGED <<job, run, rotten, link, reader>>

\* The size is the one lstat saw: the file is synced and takes its name.
\* An object of S3 appears when its upload is complete.
PutDone(j) ==
    /\ run[j] = "copy"
    /\ inode[Current(j)] = Chunks
    /\ link' = [link EXCEPT ![KeyOf[j]] = Current(j)]
    /\ run' = [run EXCEPT ![j] = "stat"]
    /\ UNCHANGED <<job, inode, rotten, reader>>

\* The digest of what is under the key now.
Stat(k) == Digest(link[k], inode[link[k]])

upload(j) == [uri |-> URI(KeyOf[j]), sha |-> Stat(KeyOf[j])]

-----------------------------------------------------------------------------
(* The report and what the coordinator keeps of it.                        *)

\* The suffix /jobs/{job}/{local path}, as it was submitted.
uriBelongsToJob(u, j) == u.key = KeyOf[j] /\ u.text = "plain"

\* Entries that fail are dropped; the job completes all the same.  Names and
\* lengths, which a node copies from the job, are left out.
attestOutputs(j, outs) == {o \in outs : uriBelongsToJob(o.uri, j)}

ReportSuccess(j) ==
    /\ run[j] = "stat"
    /\ job' = [job EXCEPT ![j].status = "completed",
                          ![j].outputs = attestOutputs(j, {upload(j)})]
    /\ run' = [run EXCEPT ![j] = "done"]
    /\ UNCHANGED <<inode, rotten, link, reader>>

\* The process fails, or a step of its upload; the temporary file is removed,
\* no output is reported, and the job is retried if it has attempts left.
ReportFailure(j) ==
    /\ "copy" \in Faults
    /\ run[j] \in {"exec", "copy", "stat"}
    /\ IF job[j].attempt < MaxAttempts
       THEN /\ job' = [job EXCEPT ![j].attempt = @ + 1]
            /\ run' = [run EXCEPT ![j] = "exec"]
       ELSE /\ job' = [job EXCEPT ![j].status = "failed"]
            /\ run' = [run EXCEPT ![j] = "done"]
    /\ UNCHANGED <<inode, rotten, link, reader>>

\* The temporary file stays and nothing is reported.
NodeStops(j) ==
    /\ "node" \in Faults
    /\ run[j] \in {"exec", "copy", "stat"}
    /\ run' = [run EXCEPT ![j] = "done"]
    /\ UNCHANGED <<job, inode, rotten, link, reader>>

-----------------------------------------------------------------------------
(* The consumer.                                                           *)

\* A From is resolved at dispatch, with the digest of the producer's record;
\* without an output of a completed producer the consumer fails.
ResolveJobInputs(c) ==
    LET j == From[c] IN
    /\ reader[c].at = "wait"
    /\ c \notin Plain
    /\ job[j].status # "running"
    /\ IF job[j].status = "completed" /\ job[j].outputs # {}
       THEN LET o == CHOOSE x \in job[j].outputs : TRUE IN
            reader' = [reader EXCEPT ![c] = [at |-> "open", uri |-> o.uri, sha |-> o.sha]]
       ELSE reader' = [reader EXCEPT ![c] = [at |-> "failed"]]
    /\ UNCHANGED <<job, run, inode, rotten, link>>

\* A URI is taken as it was submitted, at any time and without a digest.
DispatchPlain(c) ==
    /\ reader[c].at = "wait"
    /\ c \in Plain
    /\ reader' = [reader EXCEPT ![c] = [at |-> "open", uri |-> URI(KeyOf[From[c]]), sha |-> NoDigest]]
    /\ UNCHANGED <<job, run, inode, rotten, link>>

\* Get: an open file stays what it is when another takes its name.
Get(c) ==
    LET i == link[pathForURI(reader[c].uri)] IN
    /\ reader[c].at = "open"
    /\ reader' = [reader EXCEPT ![c] =
         IF i = NoInode THEN [at |-> "failed"]
         ELSE [at |-> "read", of |-> i, n |-> 0, sha |-> reader[c].sha]]
    /\ UNCHANGED <<job, run, inode, rotten, link>>

ReadChunk(c) ==
    /\ reader[c].at = "read"
    /\ reader[c].n < inode[reader[c].of]
    /\ reader' = [reader EXCEPT ![c].n = @ + 1]
    /\ UNCHANGED <<job, run, inode, rotten, link>>

\* Mutant: the digest is computed and not compared.
verified_Any(sha, d) == TRUE

\* The comparison at the end of GetAndVerifyTo; download without a digest has none.
verified(sha, d) == sha \in {NoDigest, d}

\* At the end of the file the bytes are compared and take the name of the
\* input; otherwise Prepare removes the working directory.
GetAndVerifyTo(c) ==
    LET d == Digest(reader[c].of, reader[c].n) IN
    /\ reader[c].at = "read"
    /\ reader[c].n = inode[reader[c].of]
    /\ reader' = [reader EXCEPT ![c] =
         IF verified(reader[c].sha, d) THEN [at |-> "staged", got |-> d] ELSE [at |-> "failed"]]
    /\ UNCHANGED <<job, run, inode, rotten, link>>

DownloadFails(c) ==
    /\ "copy" \in Faults
    /\ reader[c].at \in {"open", "read"}
    /\ reader' = [reader EXCEPT ![c] = [at |-> "failed"]]
    /\ UNCHANGED <<job, run, inode, rotten, link>>

\* The store loses an object of a completed job.
Rot(k) ==
    /\ "rot" \in Faults
    /\ rotten = {}
    /\ \E j \in Producers : KeyOf[j] = k /\ job[j].status = "completed"
    /\ rotten' = {link[k]}
    /\ UNCHANGED <<job, run, inode, link, reader>>

ArtifactsNext ==
    \/ \E j \in Producers :
          \/ CreateTemp(j) \/ copyWithCtx(j) \/ PutDone(j)
          \/ ReportSuccess(j) \/ ReportFailure(j) \/ NodeStops(j)
    \/ \E c \in Consumers :
          \/ ResolveJobInputs(c) \/ DispatchPlain(c) \/ Get(c) \/ ReadChunk(c)
          \/ GetAndVerifyTo(c) \/ DownloadFails(c)
    \/ \E k \in Keys : Rot(k)

ArtifactsSpec == ArtifactsInit /\ [][ArtifactsNext]_artifactVars

\* BuildWorkflowLineage: the digests the view shows for the outputs of a job.
LineageOutputs(j) == {o.sha : o \in job[j].outputs}

-----------------------------------------------------------------------------
(* Properties.                                                             *)

GotInput(c) == reader[c].at = "staged"

\* Types; what a key names has been linked by a run of that key.
ArtifactsTypeOK ==
    /\ \A j \in Producers : job[j].status \in {"running", "completed", "failed"}
                            /\ job[j].attempt \in 1 .. MaxAttempts
    /\ run \in [Producers -> {"exec", "copy", "stat", "done"}]
    /\ inode \in [Runs -> 0 .. Chunks]
    /\ rotten \subseteq Runs
    /\ \A k \in Keys : link[k] # NoInode => link[k] \in Runs /\ KeyOf[link[k][1]] = k

\* The process of a consumer, whether it named a From or a URI, starts with a
\* whole file that one run of the producer wrote: it never sees the file of a
\* Put that is under way, fails or dies, nor a mixture of two (Put, download).
NoTornInput ==
    \A c \in Consumers : GotInput(c) =>
        reader[c].got[2] = Chunks /\ KeyOf[reader[c].got[1][1]] = KeyOf[From[c]]

\* With a From it starts with the bytes of the very run that completed the
\* producer, undamaged, and the lineage view shows their digest: the digest
\* travels with the URI through upload, attestOutputs, ResolveJobInputs and
\* download while attempts follow each other and a stored object may rot.
\* This is for jobs whose outputs do not share a key.
InputIsProduced ==
    \A c \in Consumers \ Plain : GotInput(c) =>
        /\ reader[c].got = <<Current(From[c]), Chunks, FALSE>>
        /\ reader[c].got \in LineageOutputs(From[c])

\* handlers.go:411 "returns true iff the reported URI ends with the exact key
\* the stager would have minted": the output of a job that completed is kept.
OutputsKept ==
    \A j \in Producers : job[j].status = "completed" => job[j].outputs # {}

=============================================================================
