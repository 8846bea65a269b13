--------------------------- MODULE MCSubmission ---------------------------
(***************************************************************************)
(* What a submission goes through, for TLC: the handlers of Submission,    *)
(* over bodies that differ in what the checks look at, and the sort of     *)
(* Kahn by which ValidateDAG refuses a graph.  The two share no state: a   *)
(* behaviour is of one part, the variables of the other keep their first   *)
(* value.                                                                  *)
(***************************************************************************)
EXTENDS Kahn, Submission

CONSTANTS
    MaxEntries  \* bound on the entries of all depends_on lists together

VARIABLES part

mcVars == <<edges, inDegree, queue, sorted, todo, outcome, part,
            jobs, workflows, lock, overrides, preview>>

Plain == [name |-> "a", wrong |-> {}, env |-> {}, secret |-> {}, selector |-> {},
          inputs |-> {}, outputs |-> {}]

Input(path, uri, from) == [path |-> path, uri |-> uri, from |-> from]

Loader == [Plain EXCEPT !.env = {"LD_PRELOAD"}]

InGpu == [Loader EXCEPT !.selector = {<<"role", "gpu">>}]
NoName == [Plain EXCEPT !.secret = {"KEY"}]

\* Accepted by POST /jobs: the first two. A from-reference is for children.
JobSpecs ==
    {Plain, InGpu, Loader, NoName,
     [Plain EXCEPT !.wrong = {"timeout"}],
     [Plain EXCEPT !.wrong = {"command"}],
     [Plain EXCEPT !.inputs = {Input(<<"x">>, "", TRUE)}]}

\* Accepted in a workflow: the first and the last.
ChildSpecs ==
    {InGpu, Loader, NoName,
     [Loader EXCEPT !.selector = {<<"role", "cpu">>}],
     [Plain EXCEPT !.inputs = {Input(<<"data", "..">>, "s3", FALSE)}],
     [Plain EXCEPT !.inputs = {Input(<<"x">>, "", TRUE)}]}

ada == User("ada", "user")
bob == User("bob", "user")

Body(kind, id, caller, js, dag) ==
    [kind |-> kind, id |-> id, caller |-> caller, jobs |-> js, dag |-> dag,
     wrong |-> {}, badTags |-> FALSE]

Second(j) == [j EXCEPT !.name = "b"]

Bodies ==
    {Body("job", <<"j">>, ada, <<s>>, TRUE) : s \in JobSpecs}
    \cup {Body("job", <<"w", "b">>, bob, <<Plain>>, TRUE),
          Body("job", <<"j">>, Node("n"), <<Plain>>, TRUE),
          Body("workflow", "w", ada, <<Plain>>, FALSE),
          [Body("workflow", "w", ada, <<Plain>>, TRUE) EXCEPT !.badTags = TRUE]}
    \cup {Body("workflow", "w", ada, <<Plain, Second(s)>>, TRUE) : s \in ChildSpecs}

Rules == {[key |-> "role", value |-> "gpu", allowed |-> {"LD_PRELOAD"}]}

Senders == {ada}

ASSUME ParseEnvDenylistExceptions(Rules)

SortPart ==
    /\ part = "sort" /\ SubmissionInit
    /\ edges \in {g \in SUBSET Edge : Cardinality(g) <= MaxEntries}
    /\ SortInit

SubmitPart ==
    /\ part = "submit" /\ SubmissionInit
    /\ edges = {} /\ inDegree = InDegrees /\ queue = <<>> /\ sorted = <<>>
    /\ todo = {} /\ outcome = "walk"

MCNext ==
    \/ part = "sort" /\ SortNext /\ UNCHANGED <<part, submissionVars>>
    \/ part = "submit" /\ SubmissionNext /\ UNCHANGED <<part, sortVars>>

MCSpec == (SortPart \/ SubmitPart) /\ [][MCNext]_mcVars

=============================================================================
