------------------------------ MODULE Catalog ------------------------------
(***************************************************************************)
(* Browsing what others create and delete meanwhile: the dataset and model *)
(* registry, the jobs, the workflows.                                      *)
(*   internal/registry/badger.go         List, Latest                      *)
(*   internal/api/handlers_registry.go   register, list, latest            *)
(*   internal/api/handlers_jobs.go, handlers_workflows.go, stubs.go  lists *)
(* A client walks the pages of a list from the first to the last.  Each    *)
(* page is a fetch of its own: newest first, filtered by Allow row by row, *)
(* and cut out of what is left.  The registry's store caps the fetch.      *)
(***************************************************************************)
EXTENDS Integers, FiniteSets, Sequences, SequencesExt

CONSTANTS
    Keys,       \* versions of one name, name/version
    Valid,      \* the keys that pass ValidateDataset / ValidateModel
    Permitted,  \* the keys Allow lets the caller read
    PageSize,   \* size of the caller's page
    FetchSize,  \* fetchSize, 10000 in the code
    MaxClock    \* bound on the clock

CatalogAssumption ==
    /\ Valid \subseteq Keys /\ Permitted \subseteq Keys
    /\ PageSize \in Nat \ {0} /\ FetchSize \in Nat \ {0} /\ MaxClock \in Nat

VARIABLES
    list,    \* what is listed: the registry, or the work (jobs, workflows)
    entries, \* the rows on record: [key, at]
    pending, \* registrations that took their CreatedAt and have not committed
    clock,   \* time.Now
    walk,    \* the client's walk: its page, what it saw, what it was told
    latest   \* CreatedAt of the version the client last read as the latest

vars == <<list, entries, pending, clock, walk, latest>>

Rows == [key : Keys, at : 0..MaxClock]

NoWalk == [page |-> 0, seen |-> {}, stay |-> {}, total |-> 0]

Init ==
    /\ list \in {"registry", "work"}
    /\ entries = {}
    /\ pending = {}
    /\ clock = 0
    /\ walk = NoWalk
    /\ latest = -1

-----------------------------------------------------------------------------
(* The store.                                                              *)

KeysOf(rows) == {r.key : r \in rows}

\* Mutant: the rows come in the order of the map they are kept in.
Newest_MapOrder(rows) == SetToSeqs(rows)

\* Newest first; rows of one CreatedAt in any order, sort.Slice is not stable.
Newest(rows) ==
    {s \in SetToSeqs(rows) : \A i, j \in 1..Len(s) : i < j => s[i].at >= s[j].at}

\* pageBounds and the slice it cuts.
pageBounds(page, size, total) ==
    LET start == (page - 1) * size IN
    IF start >= total THEN <<total, total>>
    ELSE <<start, IF start + size > total THEN total ELSE start + size>>

Slice(s, b) == SubSeq(s, b[1] + 1, b[2])

\* LatestModel: by CreatedAt, not by version.
LatestModel(rows) == {r \in rows : \A x \in rows : x.at <= r.at}

-----------------------------------------------------------------------------
(* The handlers.                                                           *)

Tick ==
    /\ clock < MaxClock
    /\ clock' = clock + 1
    /\ UNCHANGED <<list, entries, pending, walk, latest>>

\* handleRegisterDataset stamps CreatedAt before the validators and the store.
StartRegister(k) ==
    /\ k \in Valid
    /\ k \notin KeysOf(pending)
    /\ pending' = pending \cup {[key |-> k, at |-> clock]}
    /\ UNCHANGED <<list, entries, clock, walk, latest>>

\* RegisterDataset: 409 for a key on record.
CommitRegister(r) ==
    /\ pending' = pending \ {r}
    /\ entries' = IF r.key \in KeysOf(entries) THEN entries ELSE entries \cup {r}
    /\ UNCHANGED <<list, clock, walk, latest>>

\* Moves every older row up: the history variables start over, nothing is
\* promised to a walk that a deletion meets.
Delete(r) ==
    /\ list = "registry"
    /\ entries' = entries \ {r}
    /\ walk' = [walk EXCEPT !.stay = {}]
    /\ latest' = -1
    /\ UNCHANGED <<list, pending, clock>>

\* The handler's page of the permitted rows.
window(s, page) ==
    LET start == (page - 1) * PageSize
        from  == IF start > Len(s) THEN Len(s) ELSE start
        to    == IF from + PageSize > Len(s) THEN Len(s) ELSE from + PageSize
    IN SubSeq(s, from + 1, to)

permitted(rows) == SelectSeq(rows, LAMBDA r : r.key \in Permitted)

\* The total of a caller who may read every row fetched is the store's.
handleListDatasets(all, page) ==
    LET fetched == Slice(all, pageBounds(1, FetchSize, Len(all)))
        mine    == permitted(fetched)
    IN [rows  |-> window(mine, page),
        total |-> IF Len(mine) # Len(fetched) THEN Len(mine) ELSE Len(all)]

handleListModels(all, page) == handleListDatasets(all, page)

handleListJobs(all, page) ==
    [rows |-> window(permitted(all), page), total |-> Len(permitted(all))]

handleListWorkflows(all, page) == handleListJobs(all, page)

\* What the handlers of the list may answer.
Pages(all, page) ==
    IF list = "registry" THEN {handleListDatasets(all, page), handleListModels(all, page)}
                         ELSE {handleListJobs(all, page), handleListWorkflows(all, page)}

\* The client asks for the first page, or for the one after the last it got.
ListPage ==
    /\ walk.page >= 0
    /\ \E all \in Newest(entries) : \E p \in Pages(all, walk.page + 1) :
        LET new == IF walk.page = 0 THEN [NoWalk EXCEPT !.stay = {r \in entries : r.key \in Permitted}]
                                    ELSE walk IN
        walk' = [new EXCEPT !.page = IF p.rows = <<>> THEN -1 ELSE @ + 1,
                            !.seen = @ \cup Range(p.rows),
                            !.total = p.total]
    /\ UNCHANGED <<list, entries, pending, clock, latest>>

\* handleLatestModel: 404 with nothing on record, 403 if the latest is not the
\* caller's to read.
ReadLatest ==
    /\ list = "registry"
    /\ \E r \in LatestModel(entries) :
        /\ r.key \in Permitted
        /\ latest' = r.at
        /\ UNCHANGED <<list, entries, pending, clock, walk>>

\* The client starts over.
Restart ==
    /\ walk.page = -1
    /\ walk' = NoWalk
    /\ UNCHANGED <<list, entries, pending, clock, latest>>

Next ==
    \/ Tick \/ ListPage \/ ReadLatest \/ Restart
    \/ \E k \in Keys : StartRegister(k)
    \/ \E r \in pending : CommitRegister(r)
    \/ \E r \in entries : Delete(r)

Spec == Init /\ [][Next]_vars

-----------------------------------------------------------------------------
(* Properties.                                                             *)

CatalogTypeOK ==
    /\ entries \subseteq Rows /\ pending \subseteq Rows
    /\ clock \in 0..MaxClock
    /\ Cardinality(KeysOf(entries)) = Cardinality(entries)

\* A walk that has ended has seen every row the caller may read that was there
\* from its start to its end, whatever was registered meanwhile: a new row
\* moves the older ones to later pages, never to earlier ones.  Rows of one
\* CreatedAt may change places between two pages and are left out.
WalkSeesAll ==
    walk.page = -1 =>
        \A r \in walk.stay : r \in walk.seen \/ \E x \in entries \ {r} : x.at = r.at

=============================================================================
