---------------------------- MODULE StagingCommit ----------------------------
(***************************************************************************)
(* The staging table, from a staged change to its publication, in V1       *)
(* (models/staging/staging.model.js, controllers/staging.controller.js)    *)
(* and V2 (models/v2/staging-v2.model.js, controllers/v2/                  *)
(* staging-v2.controller.js).  A commit checks that nothing is pending,    *)
(* reads the uncommitted rows, marks them committed and starts a detached  *)
(* push that retries until the store accepts the changes.  The home        *)
(* organization's sync tick ingests the store's generations and, after     *)
(* each, cleans the staging table.  Requests, pushes and the tick          *)
(* interleave at every await.                                              *)
(***************************************************************************)
EXTENDS Integers, Sequences, FiniteSets

CONSTANTS
    Releases,     \* releases of the API: "v1", "v2"
    Uuids,        \* keys of staging rows: the record's own key in V1, in V2's
                  \* spreadsheet import and in transfers
    NoRow,        \* the key has no staging row
    Clients,      \* API requests that may be in progress at once
    Ops,          \* the optional API calls that each one's clients make, see OpNames
    MaxVersions,  \* bound: contents a record is given by stagings and edits
    MaxPushes,    \* bound: pushes started
    MaxRejects,   \* bound: commits that fail before their push
    MaxGiveUps,   \* bound: pushes that are given up
    MaxAborts,    \* bound: pushes that end without their failedCallback
    MaxForeign,   \* bound: generations that no commit made (accepted offers)
    MaxCrashes    \* bound: process restarts

OpNames == {"ids", "transfer", "edit", "delete", "clean", "retry", "reset"}

ASSUME StagingConstants ==
    /\ Releases \subseteq {"v1", "v2"}
    /\ Ops \in [Releases -> SUBSET OpNames]
    /\ {MaxVersions, MaxPushes, MaxRejects, MaxGiveUps,
        MaxAborts, MaxForeign, MaxCrashes} \subseteq Nat

VARIABLES
    release,   \* the release the clients use
    staging,   \* the table: uuid -> row or NoRow
    fresh,     \* uuids of rows updated within the last five seconds
    request,   \* what each client's request is doing
    pushes,    \* detached pushes still being retried
    chain,     \* the registry store's generations: what each one changed
    confirmed, \* the newest generation is confirmed
    ingested,  \* generations the home organization's sync has ingested
    cleaning,  \* the tick stands between its transaction and the cleanup
    version,   \* newest content each record was given
    dropped,   \* contents a client removed from the table
    used       \* bounds: [pushes, rejects, giveUps, aborts, foreign, crashes]

storeVars == <<chain, confirmed>>
syncVars  == <<ingested, cleaning>>
logVars   == <<version, dropped>>
vars == <<release, staging, fresh, request, pushes, storeVars, syncVars, logVars, used>>

Row == [data : 1 .. MaxVersions, committed : BOOLEAN, failed : BOOLEAN, transfer : BOOLEAN]

ASSUME NoRowIsNoRow == NoRow \notin Row

\* A change list: some records, by the contents they are given.
ChangeLists == UNION {[S -> 1 .. MaxVersions] : S \in SUBSET Uuids}
NoChange    == [u \in {} |-> 0]

Idle     == [at |-> "idle", rows |-> NoChange]
Requests == [at : {"idle", "stage", "read", "mark", "push"}, rows : ChangeLists]
Pushes   == [id : 1 .. MaxPushes, rows : ChangeLists]

Counts == [pushes : 0 .. MaxPushes, rejects : 0 .. MaxRejects, giveUps : 0 .. MaxGiveUps,
           aborts : 0 .. MaxAborts, foreign : 0 .. MaxForeign, crashes : 0 .. MaxCrashes]

TypeOK ==
    /\ release \in Releases
    /\ staging \in [Uuids -> Row \cup {NoRow}]
    /\ fresh \subseteq Uuids
    /\ request \in [Clients -> Requests]
    /\ pushes \subseteq Pushes
    /\ chain \in Seq(ChangeLists)
    /\ confirmed \in BOOLEAN
    /\ ingested \in 0 .. Len(chain)
    /\ cleaning \in BOOLEAN
    /\ version \in [Uuids -> 0 .. MaxVersions]
    /\ dropped \in [Uuids -> SUBSET (1 .. MaxVersions)]
    /\ used \in Counts

Init ==
    /\ release \in Releases
    /\ staging = [u \in Uuids |-> NoRow]
    /\ fresh = {}
    /\ request = [c \in Clients |-> Idle]
    /\ pushes = {}
    /\ chain = <<>>
    /\ confirmed = TRUE
    /\ ingested = 0
    /\ cleaning = FALSE
    /\ version = [u \in Uuids |-> 0]
    /\ dropped = [u \in Uuids |-> {}]
    /\ used = [pushes |-> 0, rejects |-> 0, giveUps |-> 0, aborts |-> 0,
               foreign |-> 0, crashes |-> 0]

-----------------------------------------------------------------------------
Rows        == {u \in Uuids : staging[u] # NoRow}
Committed   == {u \in Rows : staging[u].committed}
Uncommitted == Rows \ Committed
Transfers   == {u \in Rows : staging[u].transfer}
Pending     == {u \in Committed : ~staging[u].failed}

\* UPDATE staging SET flag = value WHERE uuid IN S (rows that exist).
SetCommitted(S, b) ==
    [u \in Uuids |-> IF u \in S \cap Rows
                     THEN [staging[u] EXCEPT !.committed = b] ELSE staging[u]]
SetFailed(S) ==
    [u \in Uuids |-> IF u \in S THEN [staging[u] EXCEPT !.failed = TRUE]
                                ELSE staging[u]]

\* Mutant: a row that is gone is no longer in the table's domain.
Removed(S) == [u \in Uuids \ S |-> staging[u]]

\* DELETE FROM staging WHERE uuid IN S.
Without(S) == [u \in Uuids |-> IF u \in S THEN NoRow ELSE staging[u]]

\* Mutant: the check looks for failed rows.
NothingFailed == Committed \ Pending \subseteq Transfers

\* assertNoPendingCommits (V1), assertNoPendingCommitsExcludingTransfers (V2)
NothingPending == Pending \subseteq IF release = "v2" THEN Transfers ELSE {}

Committing == {c \in Clients : request[c].at \in {"read", "mark", "push"}}

Becomes(c, step, rows) == request' = [request EXCEPT ![c] = [at |-> step, rows |-> rows]]
Ends(c) == request' = [request EXCEPT ![c] = Idle]

-----------------------------------------------------------------------------
(* Staging a change: POST, PUT and DELETE of the record controllers *)

StageBegin(c) ==
    /\ request[c].at = "idle"
    /\ NothingPending
    /\ Becomes(c, "stage", NoChange)
    /\ UNCHANGED <<release, staging, fresh, pushes, storeVars, syncVars, logVars, used>>

\* The validation that follows the check fails.
StageRefused(c) ==
    /\ request[c].at = "stage"
    /\ Ends(c)
    /\ UNCHANGED <<release, staging, fresh, pushes, storeVars, syncVars, logVars, used>>

\* The row is written several awaits after the check: V1 and V2's spreadsheet
\* import upsert it, which keeps the flags of a row that is there.  A transfer
\* is staged as committed already, for it waits for the offer and not for a
\* commit; V2 inserts it, which the unique key refuses when a row is there.
StageEnd(c) ==
    /\ request[c].at = "stage"
    /\ \E u \in Uuids, t \in BOOLEAN :
          /\ t => "transfer" \in Ops[release]
          /\ t /\ release = "v2" => u \notin Rows
          /\ version[u] < MaxVersions
          /\ version' = [version EXCEPT ![u] = @ + 1]
          /\ staging' = [staging EXCEPT ![u] =
                [data |-> version[u] + 1,
                 committed |-> t \/ u \in Committed,
                 failed |-> u \in Rows /\ @.failed,
                 transfer |-> t \/ u \in Transfers]]
          /\ fresh' = fresh \cup {u}
    /\ Ends(c)
    /\ UNCHANGED <<release, pushes, storeVars, syncVars, dropped, used>>

-----------------------------------------------------------------------------
(* POST staging/commit *)

CommitBegin(c) ==
    /\ request[c].at = "idle"
    /\ Rows # {}
    /\ NothingPending
    /\ used.pushes + Cardinality(Committing) < MaxPushes
    /\ Becomes(c, "read", NoChange)
    /\ UNCHANGED <<release, staging, fresh, pushes, storeVars, syncVars, logVars, used>>

\* Mutant: nothing is marked.
CommitMarkNone(c) ==
    /\ request[c].at = "mark"
    /\ Becomes(c, "push", request[c].rows)
    /\ UNCHANGED <<release, staging, fresh, pushes, storeVars, syncVars, logVars, used>>

\* Mutant: the catch block takes no mark back, as in V1.
CommitFailKeeps(c) ==
    /\ release = "v2"
    /\ request[c].at \in {"mark", "push"}
    /\ used.rejects < MaxRejects
    /\ used' = [used EXCEPT !.rejects = @ + 1]
    /\ Ends(c)
    /\ UNCHANGED <<release, staging, fresh, pushes, storeVars, syncVars, logVars>>

\* The selected rows, by the contents they have now.
Snapshot(S) == [u \in S |-> staging[u].data]
Selection == IF "ids" \in Ops[release] THEN (SUBSET Uuids) \ {{}} ELSE {Uuids}

CommitRead(c) ==
    /\ request[c].at = "read"
    /\ \E ids \in Selection :
          /\ Uncommitted \cap ids # {}
          /\ Becomes(c, "mark", Snapshot(Uncommitted \cap ids))
    /\ UNCHANGED <<release, staging, fresh, pushes, storeVars, syncVars, logVars, used>>

\* "No records to send to DataLayer".  V2's catch block has no snapshot then
\* and uncommits every row updated in the last five seconds.
CommitEmptyV1(c) ==
    /\ release = "v1"
    /\ request[c].at = "read"
    /\ \E ids \in Selection : Uncommitted \cap ids = {}
    /\ Ends(c)
    /\ UNCHANGED <<release, staging, fresh, pushes, storeVars, syncVars, logVars, used>>

CommitEmptyV2(c) ==
    /\ release = "v2"
    /\ request[c].at = "read"
    /\ \E ids \in Selection : Uncommitted \cap ids = {}
    /\ staging' = SetCommitted(fresh, FALSE)
    /\ Ends(c)
    /\ UNCHANGED <<release, fresh, pushes, storeVars, syncVars, logVars, used>>

\* seperateStagingDataIntoActionGroups
CommitMark(c) ==
    /\ request[c].at = "mark"
    /\ staging' = SetCommitted(DOMAIN request[c].rows, TRUE)
    /\ fresh' = fresh \cup (DOMAIN request[c].rows \cap Rows)
    /\ Becomes(c, "push", request[c].rows)
    /\ UNCHANGED <<release, pushes, storeVars, syncVars, logVars, used>>

\* An RPC, a JSON payload or the completeness check fails.  V2 takes back the
\* marks of its snapshot; V1 leaves them.
CommitFailV1(c) ==
    /\ release = "v1"
    /\ request[c].at \in {"mark", "push"}
    /\ used.rejects < MaxRejects
    /\ used' = [used EXCEPT !.rejects = @ + 1]
    /\ Ends(c)
    /\ UNCHANGED <<release, staging, fresh, pushes, storeVars, syncVars, logVars>>

CommitFailV2(c) ==
    /\ release = "v2"
    /\ request[c].at \in {"mark", "push"}
    /\ used.rejects < MaxRejects
    /\ used' = [used EXCEPT !.rejects = @ + 1]
    /\ staging' = SetCommitted(DOMAIN request[c].rows, FALSE)
    /\ Ends(c)
    /\ UNCHANGED <<release, fresh, pushes, storeVars, syncVars, logVars>>

\* pushDataLayerChangeList is not awaited: the request is answered at once.
CommitPush(c) ==
    /\ request[c].at = "push"
    /\ used.pushes < MaxPushes
    /\ used' = [used EXCEPT !.pushes = @ + 1]
    /\ pushes' = pushes \cup {[id |-> used.pushes + 1, rows |-> request[c].rows]}
    /\ Ends(c)
    /\ UNCHANGED <<release, staging, fresh, storeVars, syncVars, logVars>>

-----------------------------------------------------------------------------
(* pushChangesWhenStoreIsAvailable, the detached push *)

\* The store has no unconfirmed root and accepts the change list.
PushAccepted(p) ==
    /\ confirmed
    /\ chain' = Append(chain, p.rows)
    /\ confirmed' = FALSE
    /\ pushes' = pushes \ {p}
    /\ UNCHANGED <<release, staging, fresh, request, syncVars, logVars, used>>

\* A permanent error, or the sixty-first attempt: failedCallback marks every
\* committed row of the table, whichever commit it belongs to.
PushGivenUp(p) ==
    /\ used.giveUps < MaxGiveUps
    /\ used' = [used EXCEPT !.giveUps = @ + 1]
    /\ staging' = SetFailed(Committed)
    /\ fresh' = fresh \cup Committed
    /\ pushes' = pushes \ {p}
    /\ UNCHANGED <<release, request, storeVars, syncVars, logVars>>

\* The store has lost its local data, or an RPC throws outside the try block:
\* the error is logged and the callback is not called.
PushAborted(p) ==
    /\ used.aborts < MaxAborts
    /\ used' = [used EXCEPT !.aborts = @ + 1]
    /\ pushes' = pushes \ {p}
    /\ UNCHANGED <<release, staging, fresh, request, storeVars, syncVars, logVars>>

-----------------------------------------------------------------------------
(* The registry store (external) and the home organization's sync tick *)

Confirm ==
    /\ ~confirmed
    /\ confirmed' = TRUE
    /\ UNCHANGED <<release, staging, fresh, request, pushes, chain, syncVars, logVars, used>>

\* An accepted offer writes to the home registry store as well.
ForeignGeneration ==
    /\ used.foreign < MaxForeign
    /\ confirmed
    /\ used' = [used EXCEPT !.foreign = @ + 1]
    /\ chain' = Append(chain, NoChange)
    /\ confirmed' = FALSE
    /\ UNCHANGED <<release, staging, fresh, request, pushes, syncVars, logVars>>

\* The tick's transaction commits the next confirmed generation.
Ingest ==
    /\ ~cleaning
    /\ ingested < Len(chain)
    /\ ingested + 1 < Len(chain) \/ confirmed
    /\ ingested' = ingested + 1
    /\ cleaning' = TRUE
    /\ UNCHANGED <<release, staging, fresh, request, pushes, storeVars, logVars, used>>

\* truncateStaging: the whole table.
CleanUpV1 ==
    /\ release = "v1"
    /\ cleaning
    /\ cleaning' = FALSE
    /\ staging' = Without(Rows)
    /\ UNCHANGED <<release, fresh, request, pushes, storeVars, ingested, logVars, used>>

\* Mutant: the cleanup forgets the committed filter, as V1's does.
CleanUpAll ==
    /\ release = "v2"
    /\ cleaning
    /\ cleaning' = FALSE
    /\ staging' = Without(Rows)
    /\ UNCHANGED <<release, fresh, request, pushes, storeVars, ingested, logVars, used>>

\* Mutant: the committed filter is the wrong way round.
CleanUpUncommitted ==
    /\ release = "v2"
    /\ cleaning
    /\ cleaning' = FALSE
    /\ staging' = Without(Uncommitted \ Transfers)
    /\ UNCHANGED <<release, fresh, request, pushes, storeVars, ingested, logVars, used>>

\* truncateStagingV2: committed rows that are not transfers.
CleanUpV2 ==
    /\ release = "v2"
    /\ cleaning
    /\ cleaning' = FALSE
    /\ staging' = Without(Committed \ Transfers)
    /\ UNCHANGED <<release, fresh, request, pushes, storeVars, ingested, logVars, used>>

-----------------------------------------------------------------------------
(* The other calls of the staging API; none looks at pending commits *)

Dropped(S) == dropped' = [u \in Uuids |->
    IF u \in S \cap Rows THEN dropped[u] \cup {staging[u].data} ELSE dropped[u]]

EditRecord(u) ==
    /\ "edit" \in Ops[release]
    /\ u \in Rows
    /\ version[u] < MaxVersions
    /\ version' = [version EXCEPT ![u] = @ + 1]
    /\ staging' = [staging EXCEPT ![u].data = version[u] + 1]
    /\ fresh' = fresh \cup {u}
    /\ UNCHANGED <<release, request, pushes, storeVars, syncVars, dropped, used>>

Destroy(u) ==
    /\ "delete" \in Ops[release]
    /\ u \in Rows
    /\ staging' = Without({u})
    /\ Dropped({u})
    /\ UNCHANGED <<release, fresh, request, pushes, storeVars, syncVars, version, used>>

Clean ==
    /\ "clean" \in Ops[release]
    /\ Rows # {}
    /\ staging' = Without(Rows)
    /\ Dropped(Rows)
    /\ UNCHANGED <<release, fresh, request, pushes, storeVars, syncVars, version, used>>

\* V2 retries failed rows only, V1 any row.
RetryRecord(u) ==
    /\ "retry" \in Ops[release]
    /\ u \in Rows
    /\ release = "v2" => staging[u].failed
    /\ staging' = [staging EXCEPT ![u].failed = FALSE, ![u].committed = FALSE]
    /\ fresh' = fresh \cup {u}
    /\ UNCHANGED <<release, request, pushes, storeVars, syncVars, logVars, used>>

ResetCommittedRecords ==
    /\ release = "v2"
    /\ "reset" \in Ops[release]
    /\ staging' = SetCommitted(Pending \ Transfers, FALSE)
    /\ fresh' = fresh \cup (Pending \ Transfers)
    /\ UNCHANGED <<release, request, pushes, storeVars, syncVars, logVars, used>>

\* The maker cancels the offer of the staged transfer.
CancelActiveOffer ==
    /\ Rows # {}
    /\ Pending \subseteq Transfers
    /\ "transfer" \in Ops[release]
    /\ staging' = Without(Transfers)
    /\ Dropped(Transfers)
    /\ UNCHANGED <<release, fresh, request, pushes, storeVars, syncVars, version, used>>

\* Five seconds pass since a row was last updated.
Age ==
    /\ \E u \in fresh : fresh' = fresh \ {u}
    /\ UNCHANGED <<release, staging, request, pushes, storeVars, syncVars, logVars, used>>

\* The process restarts: requests, pushes and the tick are gone.
Crash ==
    /\ used.crashes < MaxCrashes
    /\ used' = [used EXCEPT !.crashes = @ + 1]
    /\ request' = [c \in Clients |-> Idle]
    /\ pushes' = {}
    /\ cleaning' = FALSE
    /\ UNCHANGED <<release, staging, fresh, storeVars, ingested, logVars>>

-----------------------------------------------------------------------------
Request(c) ==
    \/ StageBegin(c) \/ StageRefused(c) \/ StageEnd(c)
    \/ CommitBegin(c) \/ CommitRead(c) \/ CommitEmptyV1(c) \/ CommitEmptyV2(c)
    \/ CommitMark(c) \/ CommitFailV1(c) \/ CommitFailV2(c) \/ CommitPush(c)

Next ==
    \/ \E c \in Clients : Request(c)
    \/ \E p \in pushes : PushAccepted(p) \/ PushGivenUp(p) \/ PushAborted(p)
    \/ Confirm \/ ForeignGeneration \/ Ingest \/ CleanUpV1 \/ CleanUpV2
    \/ \E u \in Uuids : EditRecord(u) \/ Destroy(u) \/ RetryRecord(u)
    \/ Clean \/ ResetCommittedRecords \/ CancelActiveOffer \/ Age \/ Crash

Spec == Init /\ [][Next]_vars

\* A request that has begun is carried on, a push is retried until it is
\* accepted or given up, the chain confirms and the sync task keeps running.
Fairness ==
    /\ \A c \in Clients :
          WF_vars(CommitRead(c) \/ CommitEmptyV1(c) \/ CommitEmptyV2(c)
                    \/ CommitMark(c) \/ CommitPush(c)
                    \/ StageEnd(c) \/ StageRefused(c))
    /\ WF_vars(\E p \in pushes : PushAccepted(p) \/ PushGivenUp(p))
    /\ WF_vars(Confirm)
    /\ WF_vars(Ingest \/ CleanUpV1 \/ CleanUpV2)

FairSpec == Spec /\ Fairness

-----------------------------------------------------------------------------
(* Properties *)

\* Something will still settle the row: a commit that is about to push it, a
\* push, or a generation whose cleanup is still to come.
Accounted(u) ==
    \/ \E c \in Clients : request[c].at \in {"mark", "push"} /\ u \in DOMAIN request[c].rows
    \/ \E p \in pushes : u \in DOMAIN p.rows
    \/ \E g \in ingested + 1 .. Len(chain) : u \in DOMAIN chain[g]
    \/ cleaning

\* In V2 a row that blocks new commits is on its way: some push or generation will
\* settle it.  Unless the process restarts or a push ends without its callback,
\* no row is left pending with nobody at work.
PendingIsAccounted ==
    release = "v2" /\ used.crashes + used.aborts = 0 =>
        \A u \in Pending \ Transfers : Accounted(u)

\* "You currently have changes pending on the blockchain. Please wait for them
\* to propagate before making more changes": until a push is given up, one
\* commit at a time is pushed.  (A row that was given up keeps its failed flag
\* when a later commit marks it again, and does not make other commits wait.)
OnePush == used.giveUps = 0 => Cardinality(pushes) <= 1

\* In V2, unless a push was given up, the newest content a client gave a record is
\* in the table, or in a generation of the store, or was removed by a client.  (The
\* cleanup of V1 truncates the table: "that pre-existing race ... is out of scope".)
NoChangeLost ==
    release = "v2" /\ used.giveUps = 0 =>
        \A u \in Uuids : version[u] > 0 =>
            \/ u \in Rows /\ staging[u].data = version[u]
            \/ \E g \in 1 .. Len(chain) : u \in DOMAIN chain[g] /\ chain[g][u] = version[u]
            \/ version[u] \in dropped[u]

\* Until a push is given up, the store is given the contents of a staging row in
\* the order in which clients gave them.  (With two pushes, the older content
\* may be accepted last.)
PublishedInOrder ==
    used.giveUps = 0 =>
        \A u \in Uuids : \A f, g \in 1 .. Len(chain) :
            (f < g /\ u \in DOMAIN chain[f] /\ u \in DOMAIN chain[g])
                => chain[f][u] <= chain[g][u]

\* A failed row waits for its retry: no cleanup takes it.
FailedRowsStay ==
    [][cleaning /\ ~cleaning' => \A u \in Committed \ Pending : staging'[u] # NoRow]_vars

\* In V2, cleaning up after a generation leaves rows that no commit has taken.
StagedRowsStay ==
    [][release = "v2" /\ cleaning /\ ~cleaning' =>
          \A u \in Uncommitted : staging'[u] # NoRow]_vars

\* A staged transfer stays out of reach of commits until the offer flow ends it.
TransfersWait == \A u \in Transfers : u \in Pending

\* In V2 every committed row is settled: published and cleaned up, failed, or
\* taken back.  A restart loses the push; reset-committed is the way out then.
\* (A V1 commit whose push cannot be started leaves its rows committed.)
CommitsSettle ==
    \A u \in Uuids :
        (release = "v2" /\ u \in Pending \ Transfers)
          ~> (u \notin Pending \ Transfers \/ used.crashes > 0)
=============================================================================
