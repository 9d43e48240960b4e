------------------------- MODULE StagingCommitProofs --------------------------
(***************************************************************************)
(* Theorems about StagingCommit, for every value of its constants: types,  *)
(* and, in V2, that a pending row is always on its way to be settled and   *)
(* that no cleanup takes a row which no commit has taken.  When requests   *)
(* come one at a time, until a push is given up: a single push is in       *)
(* flight, the contents of a record reach the store in the order in which  *)
(* clients gave them, and in V2 none is lost.                              *)
(***************************************************************************)
EXTENDS StagingCommit, SequenceTheorems, FiniteSetTheorems, TLAPS

-----------------------------------------------------------------------------
(* The pieces of the state *)

LEMMA NoChangeType == NoChange \in ChangeLists
<1>1. NoChange \in [{} -> 1 .. MaxVersions]
    BY DEF NoChange
<1> QED BY <1>1 DEF ChangeLists

LEMMA SnapshotType ==
    ASSUME staging \in [Uuids -> Row \cup {NoRow}], NEW S \in SUBSET Rows
    PROVE  Snapshot(S) \in ChangeLists /\ DOMAIN Snapshot(S) = S
<1>1. \A u \in S : staging[u].data \in 1 .. MaxVersions
    BY DEF Rows, Row
<1>2. Snapshot(S) \in [S -> 1 .. MaxVersions]
    BY <1>1 DEF Snapshot
<1>3. S \in SUBSET Uuids
    BY DEF Rows
<1> QED BY <1>2, <1>3 DEF ChangeLists

LEMMA RowOf ==
    ASSUME staging \in [Uuids -> Row \cup {NoRow}], NEW u \in Rows
    PROVE  staging[u] \in Row /\ u \in Uuids
BY DEF Rows

\* What the updates of the table make of a row.
LEMMA SetCommittedRows ==
    ASSUME staging \in [Uuids -> Row \cup {NoRow}], NEW S, NEW b \in BOOLEAN
    PROVE  /\ SetCommitted(S, b) \in [Uuids -> Row \cup {NoRow}]
           /\ \A u \in Uuids \ Rows : SetCommitted(S, b)[u] = NoRow
           /\ \A u \in Rows : /\ SetCommitted(S, b)[u] \in Row
                              /\ SetCommitted(S, b)[u].failed = staging[u].failed
                              /\ SetCommitted(S, b)[u].transfer = staging[u].transfer
                              /\ SetCommitted(S, b)[u].committed =
                                    IF u \in S THEN b ELSE staging[u].committed
BY RowOf DEF SetCommitted, Rows, Row

LEMMA SetFailedRows ==
    ASSUME staging \in [Uuids -> Row \cup {NoRow}], NEW S \in SUBSET Rows
    PROVE  /\ SetFailed(S) \in [Uuids -> Row \cup {NoRow}]
           /\ \A u \in S : SetFailed(S)[u].failed
           /\ \A u \in Uuids \ S : SetFailed(S)[u] = staging[u]
BY RowOf DEF SetFailed, Rows, Row

LEMMA WithoutRows ==
    ASSUME staging \in [Uuids -> Row \cup {NoRow}], NEW S
    PROVE  /\ Without(S) \in [Uuids -> Row \cup {NoRow}]
           /\ \A u \in Uuids \cap S : Without(S)[u] = NoRow
           /\ \A u \in Uuids \ S : Without(S)[u] = staging[u]
BY DEF Without

LEMMA DroppedType ==
    ASSUME staging \in [Uuids -> Row \cup {NoRow}],
           dropped \in [Uuids -> SUBSET (1 .. MaxVersions)],
           NEW S, Dropped(S)
    PROVE  dropped' \in [Uuids -> SUBSET (1 .. MaxVersions)]
<1>1. \A u \in S \cap Rows : staging[u].data \in 1 .. MaxVersions
    BY RowOf DEF Row
<1> QED BY <1>1 DEF Dropped

LEMMA RequestType ==
    ASSUME request \in [Clients -> Requests], NEW c \in Clients,
           NEW step \in {"idle", "stage", "read", "mark", "push"}, NEW rows \in ChangeLists
    PROVE  [request EXCEPT ![c] = [at |-> step, rows |-> rows]] \in [Clients -> Requests]
BY DEF Requests

LEMMA IdleType == Idle \in Requests
BY NoChangeType DEF Idle, Requests

LEMMA BoundsAreNat ==
    /\ MaxVersions \in Nat /\ MaxPushes \in Nat /\ MaxRejects \in Nat /\ MaxGiveUps \in Nat
    /\ MaxAborts \in Nat /\ MaxForeign \in Nat /\ MaxCrashes \in Nat
BY StagingConstants

\* One more of a bounded count.
LEMMA CountType ==
    ASSUME used \in Counts
    PROVE  /\ used.pushes < MaxPushes => [used EXCEPT !.pushes = @ + 1] \in Counts
           /\ used.rejects < MaxRejects => [used EXCEPT !.rejects = @ + 1] \in Counts
           /\ used.giveUps < MaxGiveUps => [used EXCEPT !.giveUps = @ + 1] \in Counts
           /\ used.aborts < MaxAborts => [used EXCEPT !.aborts = @ + 1] \in Counts
           /\ used.foreign < MaxForeign => [used EXCEPT !.foreign = @ + 1] \in Counts
           /\ used.crashes < MaxCrashes => [used EXCEPT !.crashes = @ + 1] \in Counts
BY BoundsAreNat DEF Counts

-----------------------------------------------------------------------------
(* Types *)

LEMMA InitType == Init => TypeOK
<1> SUFFICES ASSUME Init PROVE TypeOK
    OBVIOUS
<1>1. request \in [Clients -> Requests]
    BY IdleType DEF Init
<1>2. chain \in Seq(ChangeLists) /\ ingested \in 0 .. Len(chain)
    BY EmptySeq DEF Init
<1>3. used \in Counts
    BY BoundsAreNat DEF Init, Counts
<1>4. version \in [Uuids -> 0 .. MaxVersions]
    BY BoundsAreNat DEF Init
<1>5. /\ staging \in [Uuids -> Row \cup {NoRow}] /\ fresh \subseteq Uuids
      /\ dropped \in [Uuids -> SUBSET (1 .. MaxVersions)]
    BY DEF Init
<1>6. /\ release \in Releases
      /\ pushes \subseteq Pushes /\ confirmed \in BOOLEAN /\ cleaning \in BOOLEAN
    BY DEF Init
<1> QED BY <1>1, <1>2, <1>3, <1>4, <1>5, <1>6 DEF TypeOK

LEMMA RequestStepType ==
    ASSUME TypeOK, NEW c \in Clients, Request(c)
    PROVE  TypeOK'
<1> USE BoundsAreNat DEF TypeOK, storeVars, syncVars, logVars
<1>1. CASE StageBegin(c)
    BY <1>1, RequestType, NoChangeType DEF StageBegin, Becomes
<1>2. CASE StageRefused(c)
    BY <1>2, IdleType DEF StageRefused, Ends
<1>3. CASE StageEnd(c)
    <2>1. PICK u \in Uuids, t \in BOOLEAN :
              /\ version[u] < MaxVersions
              /\ version' = [version EXCEPT ![u] = @ + 1]
              /\ staging' = [staging EXCEPT ![u] =
                    [data |-> version[u] + 1,
                     committed |-> t \/ u \in Committed,
                     failed |-> u \in Rows /\ @.failed,
                     transfer |-> t \/ u \in Transfers]]
              /\ fresh' = fresh \cup {u}
        BY <1>3 DEF StageEnd
    <2>2. version[u] + 1 \in 1 .. MaxVersions
        BY <2>1
    <2>3. (u \in Rows /\ staging[u].failed) \in BOOLEAN
        BY RowOf DEF Row
    <2>4. staging' \in [Uuids -> Row \cup {NoRow}]
        BY <2>1, <2>2, <2>3 DEF Row
    <2>5. version' \in [Uuids -> 0 .. MaxVersions]
        BY <2>1, <2>2
    <2>6. request' \in [Clients -> Requests]
        BY <1>3, IdleType DEF StageEnd, Ends
    <2> QED BY <1>3, <2>1, <2>4, <2>5, <2>6 DEF StageEnd
<1>4. CASE CommitBegin(c)
    BY <1>4, RequestType, NoChangeType DEF CommitBegin, Becomes
<1>5. CASE CommitRead(c)
    <2>1. PICK ids \in Selection : Becomes(c, "mark", Snapshot(Uncommitted \cap ids))
        BY <1>5 DEF CommitRead
    <2>2. Snapshot(Uncommitted \cap ids) \in ChangeLists
        BY SnapshotType DEF Uncommitted
    <2> QED BY <1>5, <2>1, <2>2, RequestType DEF CommitRead, Becomes
<1>6. CASE CommitEmptyV1(c)
    BY <1>6, IdleType DEF CommitEmptyV1, Ends
<1>7. CASE CommitEmptyV2(c)
    BY <1>7, IdleType, SetCommittedRows DEF CommitEmptyV2, Ends
<1>8. CASE CommitMark(c)
    <2>1. request[c].rows \in ChangeLists
        BY DEF Requests
    <2>2. staging' \in [Uuids -> Row \cup {NoRow}]
        BY <1>8, SetCommittedRows DEF CommitMark
    <2>3. fresh' \subseteq Uuids
        BY <1>8 DEF CommitMark, Rows
    <2> QED BY <1>8, <2>1, <2>2, <2>3, RequestType DEF CommitMark, Becomes
<1>9. CASE CommitFailV1(c)
    BY <1>9, IdleType, CountType DEF CommitFailV1, Ends
<1>10. CASE CommitFailV2(c)
    BY <1>10, IdleType, CountType, SetCommittedRows DEF CommitFailV2, Ends
<1>11. CASE CommitPush(c)
    <2>1. request[c].rows \in ChangeLists
        BY DEF Requests
    <2>2. used.pushes + 1 \in 1 .. MaxPushes
        BY <1>11 DEF CommitPush, Counts
    <2>3. [id |-> used.pushes + 1, rows |-> request[c].rows] \in Pushes
        BY <2>1, <2>2 DEF Pushes
    <2> QED BY <1>11, <2>3, IdleType, CountType DEF CommitPush, Ends
<1> QED BY <1>1, <1>2, <1>3, <1>4, <1>5, <1>6, <1>7, <1>8, <1>9, <1>10, <1>11 DEF Request

LEMMA PushStepType ==
    ASSUME TypeOK, NEW p \in pushes, PushAccepted(p) \/ PushGivenUp(p) \/ PushAborted(p)
    PROVE  TypeOK'
<1> USE BoundsAreNat DEF TypeOK, storeVars, syncVars, logVars
<1>1. CASE PushAccepted(p)
    <2>1. p.rows \in ChangeLists
        BY DEF Pushes
    <2>2. chain' \in Seq(ChangeLists) /\ Len(chain') = Len(chain) + 1
        BY <1>1, <2>1, AppendProperties DEF PushAccepted
    <2>3. ingested' \in 0 .. Len(chain')
        BY <1>1, <2>2, LenProperties DEF PushAccepted
    <2>4. UNCHANGED <<release, staging, fresh, request, cleaning, version, dropped, used>>
        BY <1>1 DEF PushAccepted
    <2>5. pushes' \subseteq Pushes /\ confirmed' \in BOOLEAN
        BY <1>1 DEF PushAccepted
    <2> QED BY <2>2, <2>3, <2>4, <2>5
<1>2. CASE PushGivenUp(p)
    <2>1. Committed \in SUBSET Rows /\ Rows \subseteq Uuids
        BY DEF Committed, Rows
    <2> QED BY <1>2, <2>1, SetFailedRows, CountType DEF PushGivenUp
<1>3. CASE PushAborted(p)
    BY <1>3, CountType DEF PushAborted
<1> QED BY <1>1, <1>2, <1>3

LEMMA NextType ==
    ASSUME TypeOK, [Next]_vars
    PROVE  TypeOK'
<1> USE BoundsAreNat DEF TypeOK, storeVars, syncVars, logVars
<1>1. ASSUME NEW c \in Clients, Request(c) PROVE TypeOK'
    BY <1>1, RequestStepType
<1>2. ASSUME NEW p \in pushes, PushAccepted(p) \/ PushGivenUp(p) \/ PushAborted(p)
      PROVE  TypeOK'
    BY <1>2, PushStepType
<1>3. CASE Confirm
    BY <1>3 DEF Confirm
<1>4. CASE ForeignGeneration
    <2>1. chain' \in Seq(ChangeLists) /\ Len(chain') = Len(chain) + 1
        BY <1>4, NoChangeType, AppendProperties DEF ForeignGeneration
    <2>2. ingested' \in 0 .. Len(chain')
        BY <1>4, <2>1, LenProperties DEF ForeignGeneration
    <2>3. UNCHANGED <<release, staging, fresh, request, pushes, cleaning, version, dropped>>
        BY <1>4 DEF ForeignGeneration
    <2>4. used' \in Counts /\ confirmed' \in BOOLEAN
        BY <1>4, CountType DEF ForeignGeneration
    <2> QED BY <2>1, <2>2, <2>3, <2>4
<1>5. CASE Ingest
    BY <1>5 DEF Ingest
<1>6. CASE CleanUpV1
    BY <1>6, WithoutRows DEF CleanUpV1
<1>7. CASE CleanUpV2
    BY <1>7, WithoutRows DEF CleanUpV2
<1>8. ASSUME NEW u \in Uuids, EditRecord(u) PROVE TypeOK'
    <2>1. u \in Rows /\ version[u] + 1 \in 1 .. MaxVersions
        BY <1>8 DEF EditRecord
    <2>2. staging' \in [Uuids -> Row \cup {NoRow}]
        BY <1>8, <2>1, RowOf DEF EditRecord, Row
    <2>3. version' \in [Uuids -> 0 .. MaxVersions]
        BY <1>8, <2>1 DEF EditRecord
    <2> QED BY <1>8, <2>2, <2>3 DEF EditRecord
<1>9. ASSUME NEW u \in Uuids, Destroy(u) PROVE TypeOK'
    BY <1>9, WithoutRows, DroppedType DEF Destroy
<1>10. ASSUME NEW u \in Uuids, RetryRecord(u) PROVE TypeOK'
    <2>1. staging' \in [Uuids -> Row \cup {NoRow}]
        BY <1>10, RowOf DEF RetryRecord, Row
    <2> QED BY <1>10, <2>1 DEF RetryRecord
<1>11. CASE Clean
    BY <1>11, WithoutRows, DroppedType DEF Clean
<1>12. CASE ResetCommittedRecords
    <2>1. Pending \subseteq Uuids
        BY DEF Pending, Committed, Rows
    <2> QED BY <1>12, <2>1, SetCommittedRows DEF ResetCommittedRecords
<1>13. CASE CancelActiveOffer
    BY <1>13, WithoutRows, DroppedType DEF CancelActiveOffer
<1>14. CASE Age
    BY <1>14 DEF Age
<1>15. CASE Crash
    BY <1>15, IdleType, CountType DEF Crash
<1>16. CASE UNCHANGED vars
    BY <1>16 DEF vars
<1> QED
    BY <1>1, <1>2, <1>3, <1>4, <1>5, <1>6, <1>7, <1>8, <1>9, <1>10, <1>11, <1>12,
       <1>13, <1>14, <1>15, <1>16 DEF Next

\* The variables keep their types: rows are rows, change lists and generations
\* name records only, the sync never runs ahead of the store.
THEOREM TypeCorrect == Spec => []TypeOK
BY InitType, NextType, PTL DEF Spec

-----------------------------------------------------------------------------
(* V2: pending rows are on their way *)

\* A row that makes the next commit wait.
Blocking(u) == u \in Pending \ Transfers

LEMMA BlockingRow ==
    ASSUME NEW u
    PROVE  Blocking(u) <=> /\ u \in Uuids
                           /\ staging[u] # NoRow
                           /\ staging[u].committed
                           /\ ~staging[u].failed
                           /\ ~staging[u].transfer
BY DEF Blocking, Pending, Committed, Transfers, Rows

Quiet == release = "v2" /\ used.crashes + used.aborts = 0

\* One more of a count: what it does to the two that matter here.
LEMMA CountStep ==
    ASSUME TypeOK
    PROVE  /\ used.crashes \in Nat /\ used.aborts \in Nat
           /\ [used EXCEPT !.pushes = @ + 1].crashes = used.crashes
           /\ [used EXCEPT !.pushes = @ + 1].aborts = used.aborts
           /\ [used EXCEPT !.rejects = @ + 1].crashes = used.crashes
           /\ [used EXCEPT !.rejects = @ + 1].aborts = used.aborts
           /\ [used EXCEPT !.giveUps = @ + 1].crashes = used.crashes
           /\ [used EXCEPT !.giveUps = @ + 1].aborts = used.aborts
           /\ [used EXCEPT !.foreign = @ + 1].crashes = used.crashes
           /\ [used EXCEPT !.foreign = @ + 1].aborts = used.aborts
           /\ [used EXCEPT !.crashes = @ + 1].crashes = used.crashes + 1
           /\ [used EXCEPT !.crashes = @ + 1].aborts = used.aborts
           /\ [used EXCEPT !.aborts = @ + 1].crashes = used.crashes
           /\ [used EXCEPT !.aborts = @ + 1].aborts = used.aborts + 1
BY BoundsAreNat DEF TypeOK, Counts

\* Restarts and aborted pushes are never forgotten.
LEMMA QuietBefore ==
    ASSUME TypeOK, Next, Quiet'
    PROVE  Quiet
<1> USE CountStep DEF Quiet
<1>1. ASSUME NEW c \in Clients, Request(c) PROVE Quiet
    BY <1>1 DEF Request, StageBegin, StageRefused, StageEnd, CommitBegin, CommitRead,
       CommitEmptyV1, CommitEmptyV2, CommitMark, CommitFailV1, CommitFailV2, CommitPush
<1>2. ASSUME NEW p \in pushes, PushAccepted(p) \/ PushGivenUp(p) PROVE Quiet
    BY <1>2 DEF PushAccepted, PushGivenUp
<1>3. ASSUME NEW u \in Uuids, EditRecord(u) \/ Destroy(u) \/ RetryRecord(u) PROVE Quiet
    BY <1>3 DEF EditRecord, Destroy, RetryRecord
<1>4. CASE Confirm \/ ForeignGeneration \/ Ingest \/ CleanUpV1 \/ CleanUpV2
    BY <1>4 DEF Confirm, ForeignGeneration, Ingest, CleanUpV1, CleanUpV2
<1>5. CASE Clean \/ ResetCommittedRecords \/ CancelActiveOffer \/ Age
    BY <1>5 DEF Clean, ResetCommittedRecords, CancelActiveOffer, Age
<1>6. ASSUME NEW p \in pushes, PushAborted(p) PROVE Quiet
    <2>1. used' = [used EXCEPT !.aborts = @ + 1]
        BY <1>6 DEF PushAborted
    <2>2. used'.crashes + used'.aborts = used.crashes + used.aborts + 1
        BY <2>1
    <2> QED BY <2>2
<1>7. CASE Crash
    <2>1. used' = [used EXCEPT !.crashes = @ + 1]
        BY <1>7 DEF Crash
    <2>2. used'.crashes + used'.aborts = used.crashes + used.aborts + 1
        BY <2>1
    <2> QED BY <2>2
<1> QED BY <1>1, <1>2, <1>3, <1>4, <1>5, <1>6, <1>7 DEF Next

\* The count cannot be zero after a restart or an aborted push.
LEMMA QuietStep ==
    ASSUME TypeOK, Quiet'
    PROVE  ~Crash /\ \A p \in pushes : ~PushAborted(p)
<1> USE CountStep DEF Quiet
<1>1. ASSUME Crash PROVE FALSE
    <2>1. used' = [used EXCEPT !.crashes = @ + 1]
        BY <1>1 DEF Crash
    <2> QED BY <2>1
<1>2. ASSUME NEW p \in pushes, PushAborted(p) PROVE FALSE
    <2>1. used' = [used EXCEPT !.aborts = @ + 1]
        BY <1>2 DEF PushAborted
    <2> QED BY <2>1
<1> QED BY <1>1, <1>2

\* A row blocks after an update of the committed flag only if it did before or
\* the update has set it.
LEMMA BlockingAfterUpdate ==
    ASSUME staging \in [Uuids -> Row \cup {NoRow}], NEW S, NEW b \in BOOLEAN,
           staging' = SetCommitted(S, b), NEW u, Blocking(u)'
    PROVE  /\ u \notin S => Blocking(u)
           /\ ~b => u \notin S
<1>1. u \in Uuids /\ staging'[u] # NoRow /\ staging'[u].committed
      /\ ~staging'[u].failed /\ ~staging'[u].transfer
    BY DEF Blocking, Pending, Committed, Transfers, Rows
<1>2. u \in Rows
    BY <1>1, SetCommittedRows
<1>3. /\ staging'[u].failed = staging[u].failed
      /\ staging'[u].transfer = staging[u].transfer
      /\ staging'[u].committed = IF u \in S THEN b ELSE staging[u].committed
    BY <1>2, SetCommittedRows
<1>4. u \notin S => Blocking(u)
    BY <1>1, <1>2, <1>3, BlockingRow DEF Rows
<1>5. ~b => u \notin S
    BY <1>1, <1>3
<1> QED BY <1>4, <1>5

LEMMA AccountedKept ==
    ASSUME NEW u, Accounted(u),
           UNCHANGED <<request, pushes, chain, ingested, cleaning>>
    PROVE  Accounted(u)'
BY DEF Accounted

\* A request that has no snapshot yet accounts for nothing.
LEMMA AccountedByOthers ==
    ASSUME NEW u, Accounted(u), NEW c \in Clients, request[c].at \notin {"mark", "push"},
           \A d \in Clients \ {c} : request'[d] = request[d],
           UNCHANGED <<pushes, chain, ingested, cleaning>>
    PROVE  Accounted(u)'
BY DEF Accounted

LEMMA RequestStepAccounted ==
    ASSUME TypeOK, release = "v2", NEW c \in Clients, Request(c),
           NEW u, Blocking(u)', Blocking(u) => Accounted(u)
    PROVE  Accounted(u)'
<1> USE DEF storeVars, syncVars, logVars
<1>u. staging \in [Uuids -> Row \cup {NoRow}] /\ request \in [Clients -> Requests]
    BY DEF TypeOK
<1>b. u \in Uuids /\ staging'[u] # NoRow /\ staging'[u].committed
      /\ ~staging'[u].failed /\ ~staging'[u].transfer
    BY DEF Blocking, Pending, Committed, Transfers, Rows
<1>1. CASE StageBegin(c)
    <2>1. Blocking(u)
        BY <1>1, <1>b, BlockingRow DEF StageBegin
    <2> QED BY <1>1, <1>u, <2>1, AccountedByOthers DEF StageBegin, Becomes
<1>2. CASE StageRefused(c)
    <2>1. Blocking(u)
        BY <1>2, <1>b, BlockingRow DEF StageRefused
    <2> QED BY <1>2, <1>u, <2>1, AccountedByOthers DEF StageRefused, Ends
<1>3. CASE StageEnd(c)
    <2>1. PICK v \in Uuids, t \in BOOLEAN :
              staging' = [staging EXCEPT ![v] =
                    [data |-> version[v] + 1,
                     committed |-> t \/ v \in Committed,
                     failed |-> v \in Rows /\ @.failed,
                     transfer |-> t \/ v \in Transfers]]
        BY <1>3 DEF StageEnd
    <2>2. ASSUME u # v PROVE Blocking(u)
        <3>1. staging'[u] = staging[u]
            BY <1>u, <1>b, <2>1, <2>2
        <3> QED BY <1>b, <3>1, BlockingRow
    <2>3. ASSUME u = v PROVE Blocking(u)
        <3>1. staging'[v] = [data |-> version[v] + 1,
                             committed |-> t \/ v \in Committed,
                             failed |-> v \in Rows /\ staging[v].failed,
                             transfer |-> t \/ v \in Transfers]
            BY <1>u, <2>1
        <3>2. /\ staging'[v].committed <=> (t \/ v \in Committed)
              /\ staging'[v].failed <=> (v \in Rows /\ staging[v].failed)
              /\ staging'[v].transfer <=> (t \/ v \in Transfers)
            <4> DEFINE c2 == t \/ v \in Committed
                       f2 == v \in Rows /\ staging[v].failed
                       t2 == t \/ v \in Transfers
            <4>1. c2 \in BOOLEAN /\ f2 \in BOOLEAN /\ t2 \in BOOLEAN
                BY <1>u, RowOf DEF Row
            <4>2. staging'[v] = [data |-> version[v] + 1, committed |-> c2,
                                 failed |-> f2, transfer |-> t2]
                BY <3>1
            <4> HIDE DEF c2, f2, t2
            <4>3. staging'[v].committed = c2 /\ staging'[v].failed = f2 /\ staging'[v].transfer = t2
                BY <4>2
            <4> QED BY <4>1, <4>3 DEF c2, f2, t2
        <3>3. ~t /\ v \in Committed /\ v \notin Transfers /\ ~(v \in Rows /\ staging[v].failed)
            BY <1>b, <2>3, <3>2
        <3>4. v \in Rows
            BY <3>3 DEF Committed
        <3> QED BY <2>3, <3>3, <3>4 DEF Blocking, Pending
    <2>4. Blocking(u)
        BY <2>2, <2>3
    <2> QED BY <1>3, <1>u, <2>4, AccountedByOthers DEF StageEnd, Ends
<1>4. CASE CommitBegin(c)
    <2>1. Blocking(u)
        BY <1>4, <1>b, BlockingRow DEF CommitBegin
    <2> QED BY <1>4, <1>u, <2>1, AccountedByOthers DEF CommitBegin, Becomes
<1>5. CASE CommitRead(c)
    <2>1. Blocking(u)
        BY <1>5, <1>b, BlockingRow DEF CommitRead
    <2> QED BY <1>5, <1>u, <2>1, AccountedByOthers DEF CommitRead, Becomes
<1>6. CASE CommitEmptyV2(c)
    <2>1. Blocking(u)
        BY <1>6, <1>u, BlockingAfterUpdate DEF CommitEmptyV2
    <2> QED BY <1>6, <1>u, <2>1, AccountedByOthers DEF CommitEmptyV2, Ends
<1>7. CASE CommitMark(c)
    <2>1. request'[c] = [at |-> "push", rows |-> request[c].rows]
        BY <1>7, <1>u DEF CommitMark, Becomes
    <2>2. CASE u \in DOMAIN request[c].rows
        BY <2>1, <2>2 DEF Accounted
    <2>3. CASE u \notin DOMAIN request[c].rows
        <3>1. Blocking(u)
            BY <1>7, <1>u, <2>3, BlockingAfterUpdate DEF CommitMark
        <3>2. \A d \in Clients \ {c} : request'[d] = request[d]
            BY <1>7, <1>u DEF CommitMark, Becomes
        <3> QED BY <1>7, <2>3, <3>1, <3>2 DEF CommitMark, Accounted
    <2> QED BY <2>2, <2>3
<1>8. CASE CommitFailV2(c)
    <2>1. Blocking(u) /\ u \notin DOMAIN request[c].rows
        BY <1>8, <1>u, BlockingAfterUpdate DEF CommitFailV2
    <2>2. \A d \in Clients \ {c} : request'[d] = request[d]
        BY <1>8, <1>u DEF CommitFailV2, Ends
    <2> QED BY <1>8, <2>1, <2>2 DEF CommitFailV2, Accounted
<1>9. CASE CommitPush(c)
    <2>1. Blocking(u)
        BY <1>9, <1>b, BlockingRow DEF CommitPush
    <2>2. CASE u \in DOMAIN request[c].rows
        <3>1. [id |-> used.pushes + 1, rows |-> request[c].rows] \in pushes'
            BY <1>9 DEF CommitPush
        <3> QED BY <2>2, <3>1 DEF Accounted
    <2>3. CASE u \notin DOMAIN request[c].rows
        <3>1. \A d \in Clients \ {c} : request'[d] = request[d]
            BY <1>9, <1>u DEF CommitPush, Ends
        <3> QED BY <1>9, <2>1, <2>3, <3>1 DEF CommitPush, Accounted
    <2> QED BY <2>2, <2>3
<1>10. ~CommitEmptyV1(c) /\ ~CommitFailV1(c)
    BY DEF CommitEmptyV1, CommitFailV1
<1> QED BY <1>1, <1>2, <1>3, <1>4, <1>5, <1>6, <1>7, <1>8, <1>9, <1>10 DEF Request

LEMMA PushStepAccounted ==
    ASSUME TypeOK, NEW p \in pushes, PushAccepted(p) \/ PushGivenUp(p),
           NEW u, Blocking(u)', Blocking(u) => Accounted(u)
    PROVE  Accounted(u)'
<1> USE DEF storeVars, syncVars, logVars
<1>b. u \in Uuids /\ staging'[u] # NoRow /\ staging'[u].committed
      /\ ~staging'[u].failed /\ ~staging'[u].transfer
    BY DEF Blocking, Pending, Committed, Transfers, Rows
<1>1. CASE PushAccepted(p)
    <2>1. Accounted(u)
        BY <1>1, <1>b, BlockingRow DEF PushAccepted
    <2>2. /\ p.rows \in ChangeLists /\ chain \in Seq(ChangeLists)
          /\ Len(chain) \in Nat /\ ingested \in 0 .. Len(chain)
        BY LenProperties DEF TypeOK, Pushes
    <2>3. /\ Len(chain') = Len(chain) + 1
          /\ \A i \in 1 .. Len(chain) : chain'[i] = chain[i]
          /\ chain'[Len(chain) + 1] = p.rows
        BY <1>1, <2>2, AppendProperties DEF PushAccepted
    <2>4. UNCHANGED <<request, ingested, cleaning>> /\ pushes' = pushes \ {p}
        BY <1>1 DEF PushAccepted
    <2>5. ASSUME u \in DOMAIN p.rows PROVE Accounted(u)'
        <3>1. Len(chain) + 1 \in ingested' + 1 .. Len(chain')
            BY <2>2, <2>3, <2>4
        <3>2. u \in DOMAIN chain'[Len(chain) + 1]
            BY <2>3, <2>5
        <3> QED BY <3>1, <3>2 DEF Accounted
    <2>6. ASSUME NEW g \in ingested + 1 .. Len(chain), u \in DOMAIN chain[g]
          PROVE  Accounted(u)'
        <3>1. g \in ingested' + 1 .. Len(chain') /\ g \in 1 .. Len(chain)
            BY <2>2, <2>3, <2>4
        <3>2. u \in DOMAIN chain'[g]
            BY <2>3, <2>6, <3>1
        <3> QED BY <3>1, <3>2 DEF Accounted
    <2>7. ASSUME NEW q \in pushes \ {p}, u \in DOMAIN q.rows PROVE Accounted(u)'
        BY <2>4, <2>7 DEF Accounted
    <2>8. ASSUME \/ cleaning
                 \/ \E c \in Clients : /\ request[c].at \in {"mark", "push"}
                                       /\ u \in DOMAIN request[c].rows
          PROVE  Accounted(u)'
        BY <2>4, <2>8 DEF Accounted
    <2> QED BY <2>1, <2>5, <2>6, <2>7, <2>8 DEF Accounted
<1>2. CASE PushGivenUp(p)
    <2>1. staging \in [Uuids -> Row \cup {NoRow}] /\ Committed \subseteq Rows
        BY DEF TypeOK, Committed
    <2>2. u \notin Committed
        BY <1>2, <1>b, <2>1, SetFailedRows DEF PushGivenUp
    <2>3. staging'[u] = staging[u]
        BY <1>2, <1>b, <2>1, <2>2, SetFailedRows DEF PushGivenUp
    <2> QED BY <1>b, <2>2, <2>3 DEF Committed, Rows
<1> QED BY <1>1, <1>2

\* No other call of the API makes a row block, or takes what accounts for it.
LEMMA ApiStepAccounted ==
    ASSUME TypeOK, NEW u, Blocking(u)', Blocking(u) => Accounted(u),
           \/ \E v \in Uuids : EditRecord(v) \/ Destroy(v) \/ RetryRecord(v)
           \/ Clean \/ ResetCommittedRecords \/ CancelActiveOffer \/ Age
    PROVE  Accounted(u)'
<1> USE DEF storeVars, syncVars, logVars
<1>u. staging \in [Uuids -> Row \cup {NoRow}]
    BY DEF TypeOK
<1>b. u \in Uuids /\ staging'[u] # NoRow /\ staging'[u].committed
      /\ ~staging'[u].failed /\ ~staging'[u].transfer
    BY DEF Blocking, Pending, Committed, Transfers, Rows
<1>1. ASSUME NEW v \in Uuids, EditRecord(v) PROVE Blocking(u)
    <2>1. v \in Rows /\ staging' = [staging EXCEPT ![v].data = version[v] + 1]
        BY <1>1 DEF EditRecord
    <2>2. CASE u # v
        BY <1>u, <1>b, <2>1, <2>2, BlockingRow
    <2>3. CASE u = v
        BY <1>u, <1>b, <2>1, <2>3, RowOf, BlockingRow DEF Row, Rows
    <2> QED BY <2>2, <2>3
<1>2. ASSUME NEW v \in Uuids, RetryRecord(v) PROVE Blocking(u)
    <2>1. v \in Rows
          /\ staging' = [staging EXCEPT ![v].failed = FALSE, ![v].committed = FALSE]
        BY <1>2 DEF RetryRecord
    <2>2. ~staging'[v].committed
        BY <1>u, <2>1, RowOf DEF Row
    <2>3. staging'[u] = staging[u]
        BY <1>u, <1>b, <2>1, <2>2
    <2> QED BY <1>b, <2>3, BlockingRow
<1>3. ASSUME NEW S, staging' = Without(S) PROVE Blocking(u)
    <2>1. u \notin S /\ staging'[u] = staging[u]
        BY <1>u, <1>b, <1>3, WithoutRows
    <2> QED BY <1>b, <2>1, BlockingRow
<1>4. ASSUME NEW S, staging' = SetCommitted(S, FALSE) PROVE Blocking(u)
    BY <1>u, <1>4, BlockingAfterUpdate
<1>5. ASSUME staging' = staging PROVE Blocking(u)
    BY <1>b, <1>5, BlockingRow
<1>6. Blocking(u)
    BY <1>1, <1>2, <1>3, <1>4, <1>5
       DEF Destroy, Clean, ResetCommittedRecords, CancelActiveOffer, Age
<1>7. UNCHANGED <<request, pushes, chain, ingested, cleaning>>
    BY DEF EditRecord, Destroy, RetryRecord, Clean, ResetCommittedRecords, CancelActiveOffer, Age
<1> QED BY <1>6, <1>7, AccountedKept

LEMMA NextAccounted ==
    ASSUME TypeOK, PendingIsAccounted, [Next]_vars
    PROVE  PendingIsAccounted'
<1> USE DEF storeVars, syncVars, logVars
<1>1. CASE UNCHANGED vars
    BY <1>1 DEF vars, PendingIsAccounted, Pending, Committed, Transfers, Rows, Accounted
<1>2. CASE Next
    <2> SUFFICES ASSUME Quiet', NEW u, Blocking(u)' PROVE Accounted(u)'
        BY DEF PendingIsAccounted, Quiet, Blocking
    <2>1. release = "v2" /\ (Blocking(u) => Accounted(u))
        BY <1>2, QuietBefore DEF PendingIsAccounted, Quiet, Blocking
    <2>b. u \in Uuids /\ staging'[u] # NoRow /\ staging'[u].committed
          /\ ~staging'[u].failed /\ ~staging'[u].transfer
        BY DEF Blocking, Pending, Committed, Transfers, Rows
    <2>2. CASE \E c \in Clients : Request(c)
        BY <2>1, <2>2, RequestStepAccounted
    <2>3. CASE \E p \in pushes : PushAccepted(p) \/ PushGivenUp(p)
        BY <2>1, <2>3, PushStepAccounted
    <2>4. CASE \/ \E v \in Uuids : EditRecord(v) \/ Destroy(v) \/ RetryRecord(v)
               \/ Clean \/ ResetCommittedRecords \/ CancelActiveOffer \/ Age
        BY <2>1, <2>4, ApiStepAccounted
    <2>5. CASE Confirm
        BY <2>1, <2>5, <2>b, BlockingRow, AccountedKept DEF Confirm
    <2>6. CASE ForeignGeneration
        <3>1. Accounted(u)
            BY <2>1, <2>6, <2>b, BlockingRow DEF ForeignGeneration
        <3>2. chain \in Seq(ChangeLists) /\ Len(chain) \in Nat /\ ingested \in 0 .. Len(chain)
            BY LenProperties DEF TypeOK
        <3>3. /\ Len(chain') = Len(chain) + 1
              /\ \A i \in 1 .. Len(chain) : chain'[i] = chain[i]
            BY <2>6, <3>2, NoChangeType, AppendProperties DEF ForeignGeneration
        <3>4. UNCHANGED <<request, pushes, ingested, cleaning>>
            BY <2>6 DEF ForeignGeneration
        <3>5. ASSUME NEW g \in ingested + 1 .. Len(chain), u \in DOMAIN chain[g]
              PROVE  Accounted(u)'
            <4>1. g \in ingested' + 1 .. Len(chain') /\ g \in 1 .. Len(chain)
                BY <3>2, <3>3, <3>4
            <4>2. u \in DOMAIN chain'[g]
                BY <3>3, <3>5, <4>1
            <4> QED BY <4>1, <4>2 DEF Accounted
        <3> QED BY <3>1, <3>4, <3>5 DEF Accounted
    <2>6a. CASE Ingest
        BY <2>6a DEF Ingest, Accounted
    <2>7. CASE CleanUpV2
        <3>1. /\ staging \in [Uuids -> Row \cup {NoRow}]
              /\ staging' = Without(Committed \ Transfers)
            BY <2>7 DEF TypeOK, CleanUpV2
        <3>2. u \notin Committed \ Transfers /\ staging'[u] = staging[u]
            BY <2>b, <3>1, WithoutRows
        <3> QED BY <2>b, <3>2 DEF Committed, Transfers, Rows
    <2>8. ~CleanUpV1
        BY <2>1 DEF CleanUpV1
    <2>9. ~Crash /\ \A p \in pushes : ~PushAborted(p)
        BY QuietStep
    <2> QED BY <1>2, <2>2, <2>3, <2>4, <2>5, <2>6, <2>6a, <2>7, <2>8, <2>9 DEF Next
<1> QED BY <1>1, <1>2

\* V2: whatever clients, pushes, cleanups and offers do, and in whatever order, a
\* row that makes the next commit wait is in a commit about to be pushed, in a
\* push, or in a generation whose cleanup is still to come, until the process
\* restarts or a push ends without its callback.
THEOREM PendingAccounted == Spec => []PendingIsAccounted
<1>1. Init => PendingIsAccounted
    BY DEF Init, PendingIsAccounted, Pending, Committed, Transfers, Rows
<1>2. TypeOK /\ PendingIsAccounted /\ [Next]_vars => PendingIsAccounted'
    BY NextAccounted
<1> QED BY <1>1, <1>2, TypeCorrect, PTL DEF Spec

-----------------------------------------------------------------------------
(* V2: cleanups *)

\* Only a cleanup and a restart end the time between the tick's transaction and
\* its cleanup.
LEMMA CleaningEnds ==
    ASSUME Next, cleaning, ~cleaning'
    PROVE  CleanUpV1 \/ CleanUpV2 \/ Crash
<1> USE DEF syncVars
<1>1. ASSUME NEW c \in Clients, Request(c) PROVE cleaning'
    BY <1>1 DEF Request, StageBegin, StageRefused, StageEnd, CommitBegin, CommitRead,
       CommitEmptyV1, CommitEmptyV2, CommitMark, CommitFailV1, CommitFailV2, CommitPush
<1>2. ASSUME NEW p \in pushes, PushAccepted(p) \/ PushGivenUp(p) \/ PushAborted(p)
      PROVE  cleaning'
    BY <1>2 DEF PushAccepted, PushGivenUp, PushAborted
<1>3. ASSUME NEW u \in Uuids, EditRecord(u) \/ Destroy(u) \/ RetryRecord(u)
      PROVE  cleaning'
    BY <1>3 DEF EditRecord, Destroy, RetryRecord
<1>4. ASSUME \/ Confirm \/ ForeignGeneration \/ Ingest
             \/ Clean \/ ResetCommittedRecords \/ CancelActiveOffer \/ Age
      PROVE  cleaning'
    BY <1>4 DEF Confirm, ForeignGeneration, Ingest, Clean, ResetCommittedRecords,
       CancelActiveOffer, Age
<1> QED BY <1>1, <1>2, <1>3, <1>4 DEF Next

\* V2: the cleanup after a generation, whoever made the generation, leaves the
\* rows that no commit has taken.
THEOREM StagedStay == Spec => StagedRowsStay
<1>1. ASSUME TypeOK, Next, release = "v2", cleaning, ~cleaning', NEW u \in Uncommitted
      PROVE  staging'[u] # NoRow
    <2>1. u \in Uuids /\ staging[u] # NoRow /\ u \notin Committed
        BY DEF Uncommitted, Rows
    <2>2. CASE CleanUpV2
        <3>1. staging' = Without(Committed \ Transfers) /\ u \notin Committed \ Transfers
            BY <2>1, <2>2 DEF CleanUpV2
        <3>2. staging \in [Uuids -> Row \cup {NoRow}]
            BY <1>1 DEF TypeOK
        <3>3. staging'[u] = staging[u]
            BY <2>1, <3>1, <3>2, WithoutRows
        <3> QED BY <2>1, <3>3
    <2>3. CASE Crash
        BY <2>1, <2>3 DEF Crash
    <2>4. ~CleanUpV1
        BY <1>1 DEF CleanUpV1
    <2> QED BY <1>1, <2>2, <2>3, <2>4, CleaningEnds
<1>2. TypeOK /\ [Next]_vars =>
          [release = "v2" /\ cleaning /\ ~cleaning' =>
              \A u \in Uncommitted : staging'[u] # NoRow]_vars
    BY <1>1 DEF vars
<1> QED BY <1>2, TypeCorrect, PTL DEF Spec, StagedRowsStay

-----------------------------------------------------------------------------
(* One request at a time *)

\* One client that stages, commits and edits and, in V2, retries or, in V1,
\* stages and cancels transfers; only commits write to the registry store.
OneClient ==
    /\ MaxForeign = 0
    /\ "v2" \in Releases => Ops["v2"] \subseteq {"ids", "retry", "edit"}
    /\ "v1" \in Releases => Ops["v1"] \subseteq {"ids", "transfer", "edit"}
    /\ \A c, d \in Clients : c = d

LEMMA Calls ==
    ASSUME TypeOK, OneClient
    PROVE  /\ release \in {"v1", "v2"}
           /\ release = "v2" => Ops[release] \subseteq {"ids", "retry", "edit"}
           /\ release = "v1" => Ops[release] \subseteq {"ids", "transfer", "edit"}
BY StagingConstants DEF TypeOK, OneClient

Calm == used.giveUps = 0

\* A commit has left the request and its rows are not cleaned up yet.
Outstanding == pushes # {} \/ ingested < Len(chain) \/ cleaning

-----------------------------------------------------------------------------
(* The inductive invariant *)

\* At most one push, one generation or one cleanup is outstanding.
OneAtWork ==
    /\ \A p, q \in pushes : p = q
    /\ pushes # {} => ingested = Len(chain) /\ ~cleaning
    /\ ingested < Len(chain) => ingested + 1 = Len(chain) /\ ~cleaning

\* No row was given up, none but V1's staged transfers, which are committed, waits
\* for an offer, and each has its newest content.
RowsArePlain ==
    \A u \in Rows : /\ ~staging[u].failed
                    /\ staging[u].transfer => release = "v1" /\ staging[u].committed
                    /\ staging[u].data = version[u]

\* The rows that the commits took.
Held == Committed \ Transfers

\* What is outstanding makes commits wait: the check sees a row that it holds,
\* and the cancelling of an offer is refused.
WorkHoldsRows == Outstanding => Held # {}

\* A request that has passed the check finds nothing outstanding.
CommitsWait ==
    \A c \in Clients :
        /\ request[c].at \in {"stage", "read", "mark", "push"} => ~Outstanding
        /\ request[c].at \in {"stage", "read", "mark"} => Committed = {}
        /\ request[c].at = "mark" => DOMAIN request[c].rows \cap Rows # {}
        /\ request[c].at = "push" => Held # {}

OrderInv == OneAtWork /\ RowsArePlain /\ WorkHoldsRows /\ CommitsWait

\* A change list that is newer than all the store holds.
Newest(rows) ==
    \A u \in DOMAIN rows :
        /\ rows[u] <= version[u]
        /\ \A g \in 1 .. Len(chain) : u \in DOMAIN chain[g] => chain[g][u] <= rows[u]

ContentsGrow ==
    /\ \A g \in 1 .. Len(chain) : \A u \in DOMAIN chain[g] : chain[g][u] <= version[u]
    /\ \A p \in pushes : Newest(p.rows)
    /\ \A c \in Clients : request[c].at \in {"mark", "push"} => Newest(request[c].rows)

-----------------------------------------------------------------------------
(* The rows and the committed rows after an update of the table *)

LEMMA AfterSetCommitted ==
    ASSUME TypeOK, NEW S, NEW b \in BOOLEAN, staging' = SetCommitted(S, b)
    PROVE  /\ Rows' = Rows
           /\ Committed' = IF b THEN Committed \cup (S \cap Rows) ELSE Committed \ S
           /\ Transfers' = Transfers
           /\ UNCHANGED <<version, release>> /\ RowsArePlain /\ (b \/ release = "v2")
                => RowsArePlain'
<1>u. staging \in [Uuids -> Row \cup {NoRow}]
    BY DEF TypeOK
<1>1. /\ \A u \in Uuids \ Rows : staging'[u] = NoRow
      /\ \A u \in Rows : /\ staging'[u] \in Row
                         /\ staging'[u].failed = staging[u].failed
                         /\ staging'[u].transfer = staging[u].transfer
                         /\ staging'[u].committed = IF u \in S THEN b ELSE staging[u].committed
    BY <1>u, SetCommittedRows
<1>2. Rows' = Rows
    BY <1>1, NoRowIsNoRow DEF Rows
<1>3. \A u \in Rows : u \in Committed' <=> IF u \in S THEN b ELSE u \in Committed
    BY <1>1, <1>2 DEF Committed
<1>4. Committed' \subseteq Rows /\ Committed \subseteq Rows
    BY <1>2 DEF Committed
<1>5. Committed' = IF b THEN Committed \cup (S \cap Rows) ELSE Committed \ S
    <2>1. CASE b
        BY <1>3, <1>4, <2>1
    <2>2. CASE ~b
        BY <1>3, <1>4, <2>2
    <2> QED BY <2>1, <2>2
<1>6. \A u \in Rows : staging'[u].data = staging[u].data
    BY <1>u, RowOf DEF SetCommitted, Row, Rows
<1>7. UNCHANGED <<version, release>> /\ RowsArePlain /\ (b \/ release = "v2")
          => RowsArePlain'
    BY <1>1, <1>2, <1>6 DEF RowsArePlain
<1>8. Transfers' = Transfers
    BY <1>1, <1>2 DEF Transfers
<1> QED BY <1>2, <1>5, <1>7, <1>8

LEMMA AfterWithout ==
    ASSUME TypeOK, NEW S, staging' = Without(S)
    PROVE  /\ Rows' = Rows \ S
           /\ Committed' = Committed \ S
           /\ Transfers' = Transfers \ S
           /\ UNCHANGED <<version, release>> /\ RowsArePlain => RowsArePlain'
<1>u. staging \in [Uuids -> Row \cup {NoRow}]
    BY DEF TypeOK
<1>1. /\ \A u \in Uuids \cap S : staging'[u] = NoRow
      /\ \A u \in Uuids \ S : staging'[u] = staging[u]
    BY <1>u, WithoutRows
<1>2. Rows' = Rows \ S
    BY <1>1 DEF Rows
<1>3. \A u \in Rows \ S : staging'[u] = staging[u]
    BY <1>1 DEF Rows
<1>4. Committed' = Committed \ S
    BY <1>2, <1>3 DEF Committed
<1>5. UNCHANGED <<version, release>> /\ RowsArePlain => RowsArePlain'
    BY <1>2, <1>3 DEF RowsArePlain
<1>6. Transfers' = Transfers \ S
    BY <1>2, <1>3 DEF Transfers
<1> QED BY <1>2, <1>4, <1>5, <1>6

\* Staging: the row is there afterwards with the content just given, committed
\* if it was or if it is a transfer.
LEMMA AfterStage ==
    ASSUME TypeOK, OneClient, RowsArePlain, NEW c \in Clients, StageEnd(c)
    PROVE  /\ release = "v2" => Committed' = Committed
           /\ Rows \subseteq Rows'
           /\ RowsArePlain'
           /\ \A u \in Uuids : version[u] <= version'[u]
<1>u. /\ staging \in [Uuids -> Row \cup {NoRow}] /\ UNCHANGED release
      /\ version \in [Uuids -> 0 .. MaxVersions] /\ MaxVersions \in Nat
    BY BoundsAreNat DEF TypeOK, StageEnd
<1>1. PICK u \in Uuids, t \in BOOLEAN :
          /\ t => "transfer" \in Ops[release]
          /\ version[u] < MaxVersions
          /\ version' = [version EXCEPT ![u] = @ + 1]
          /\ staging' = [staging EXCEPT ![u] =
                [data |-> version[u] + 1,
                 committed |-> t \/ u \in Committed,
                 failed |-> u \in Rows /\ @.failed,
                 transfer |-> t \/ u \in Transfers]]
    BY DEF StageEnd
<1>t. t => release = "v1"
    BY <1>1, Calls
<1> DEFINE com == t \/ u \in Committed
           tra == t \/ u \in Transfers
           new == [data |-> version[u] + 1, committed |-> com,
                   failed |-> FALSE, transfer |-> tra]
<1>2. ~(u \in Rows /\ staging[u].failed)
    BY DEF RowsArePlain
<1>3. staging' = [staging EXCEPT ![u] = new]
    <2>2. (u \in Rows /\ staging[u].failed) = FALSE
        BY <1>2
    <2> QED BY <1>1, <1>u, <2>2
<1>o. tra => release = "v1" /\ com
    BY <1>t DEF RowsArePlain, Transfers, Committed
<1>5. com \in BOOLEAN /\ tra \in BOOLEAN
    OBVIOUS
<1>c. com <=> t \/ u \in Committed
    OBVIOUS
<1> HIDE DEF com, tra
<1>4. /\ staging'[u] = new
      /\ \A v \in Uuids : v # u => staging'[v] = staging[v] /\ version'[v] = version[v]
      /\ version'[u] = version[u] + 1
    BY <1>1, <1>3, <1>u
<1>6. new # NoRow
    <2>1. version[u] + 1 \in 1 .. MaxVersions
        BY <1>u, <1>1
    <2>2. new \in Row
        BY <1>5, <2>1 DEF Row
    <2> QED BY <2>2, NoRowIsNoRow
<1>7. Rows' = Rows \cup {u}
    BY <1>4, <1>6 DEF Rows
<1>8. u \in Committed' <=> com
    BY <1>4, <1>5, <1>7 DEF Committed
<1>9. \A v \in Uuids : v # u => (v \in Committed' <=> v \in Committed)
    BY <1>4, <1>7 DEF Committed
<1>10. release = "v2" => Committed' = Committed
    BY <1>c, <1>t, <1>8, <1>9, <1>7 DEF Committed, Rows
<1>11. RowsArePlain'
    <2> SUFFICES ASSUME NEW v \in Rows'
                 PROVE  /\ ~staging'[v].failed
                        /\ staging'[v].transfer => release = "v1" /\ staging'[v].committed
                        /\ staging'[v].data = version'[v]
        BY <1>u DEF RowsArePlain
    <2>1. CASE v = u
        BY <1>4, <1>o, <2>1
    <2>2. CASE v # u
        BY <1>4, <1>7, <2>2 DEF RowsArePlain, Rows
    <2> QED BY <2>1, <2>2
<1>12. \A v \in Uuids : version[v] <= version'[v]
    BY <1>4, <1>u
<1> QED BY <1>7, <1>10, <1>11, <1>12

LEMMA AfterEdit ==
    ASSUME TypeOK, RowsArePlain, NEW u \in Uuids, EditRecord(u)
    PROVE  /\ Committed' = Committed /\ Held' = Held
           /\ Rows' = Rows
           /\ RowsArePlain'
           /\ \A v \in Uuids : version[v] <= version'[v]
<1>u. /\ staging \in [Uuids -> Row \cup {NoRow}]
      /\ version \in [Uuids -> 0 .. MaxVersions] /\ MaxVersions \in Nat
    BY BoundsAreNat DEF TypeOK
<1>1. /\ u \in Rows
      /\ version' = [version EXCEPT ![u] = @ + 1]
      /\ staging' = [staging EXCEPT ![u].data = version[u] + 1]
      /\ version[u] < MaxVersions /\ UNCHANGED release
    BY DEF EditRecord
<1>2. staging[u] \in Row
    BY <1>u, <1>1, RowOf
<1>3. /\ staging'[u].committed = staging[u].committed
      /\ staging'[u].failed = staging[u].failed
      /\ staging'[u].transfer = staging[u].transfer
      /\ staging'[u].data = version[u] + 1
      /\ staging'[u] \in Row
    BY <1>u, <1>1, <1>2 DEF Row
<1>4. /\ \A v \in Uuids : v # u => staging'[v] = staging[v] /\ version'[v] = version[v]
      /\ version'[u] = version[u] + 1
    BY <1>u, <1>1
<1>5. Rows' = Rows
    BY <1>1, <1>3, <1>4, NoRowIsNoRow DEF Rows
<1>6. Committed' = Committed
    BY <1>3, <1>4, <1>5 DEF Committed, Rows
<1>7. RowsArePlain'
    BY <1>1, <1>3, <1>4, <1>5 DEF RowsArePlain, Rows
<1>8. \A v \in Uuids : version[v] <= version'[v]
    BY <1>4, <1>u
<1>9. Held' = Held
    BY <1>3, <1>4, <1>5, <1>6 DEF Held, Transfers, Rows
<1> QED BY <1>5, <1>6, <1>7, <1>8, <1>9

-----------------------------------------------------------------------------
(* The order of commits *)

LEMMA RowSets ==
    ASSUME TypeOK
    PROVE  /\ Committed \subseteq Rows /\ Rows \subseteq Uuids
           /\ request \in [Clients -> Requests]
           /\ chain \in Seq(ChangeLists) /\ Len(chain) \in Nat /\ ingested \in 0 .. Len(chain)
BY LenProperties DEF TypeOK, Committed, Rows

\* The same requests and the same work, and no committed row less.
LEMMA OrderKept ==
    ASSUME OrderInv, RowsArePlain', Committed' = Committed, Held' = Held, Rows \subseteq Rows',
           UNCHANGED <<request, pushes, chain, ingested, cleaning>>
    PROVE  OrderInv'
<1>1. Outstanding' <=> Outstanding
    BY DEF Outstanding
<1>2. OneAtWork' /\ WorkHoldsRows'
    BY <1>1 DEF OrderInv, OneAtWork, WorkHoldsRows
<1>3. CommitsWait'
    BY <1>1 DEF OrderInv, CommitsWait
<1> QED BY <1>2, <1>3 DEF OrderInv

\* A step of the only client, up to the push: the work is the same, the request
\* is where CommitsWait wants it.
LEMMA OrderOfRequest ==
    ASSUME OrderInv, OneClient, RowsArePlain', NEW c \in Clients,
           UNCHANGED <<pushes, chain, ingested, cleaning>>,
           Outstanding => Held' # {},
           request'[c].at \in {"stage", "read", "mark", "push"} => ~Outstanding,
           request'[c].at \in {"stage", "read", "mark"} => Committed' = {},
           request'[c].at = "mark" => DOMAIN request'[c].rows \cap Rows' # {},
           request'[c].at = "push" => Held' # {}
    PROVE  OrderInv'
<1>1. Outstanding' <=> Outstanding
    BY DEF Outstanding
<1>2. OneAtWork' /\ WorkHoldsRows'
    BY <1>1 DEF OrderInv, OneAtWork, WorkHoldsRows
<1>3. CommitsWait'
    BY <1>1 DEF CommitsWait, OneClient
<1> QED BY <1>2, <1>3 DEF OrderInv

\* The check before a request finds a pending row exactly when one is committed.
LEMMA CheckPasses ==
    ASSUME TypeOK, OneClient, OrderInv, NothingPending
    PROVE  Committed = {} /\ ~Outstanding
<1>1. release = "v2" => Transfers = {}
    BY DEF OrderInv, RowsArePlain, Transfers
<1>2. Pending = Committed
    BY DEF OrderInv, RowsArePlain, Pending, Committed
<1>3. Committed = {}
    BY <1>1, <1>2, Calls DEF NothingPending
<1> QED BY <1>3 DEF OrderInv, WorkHoldsRows, Held

LEMMA RequestStepOrder ==
    ASSUME TypeOK, OneClient, OrderInv, NEW c \in Clients, Request(c)
    PROVE  OrderInv'
<1> USE DEF storeVars, syncVars, logVars
<1>u. /\ Committed \subseteq Rows
      /\ request \in [Clients -> Requests]
      /\ request[c].at \in {"idle", "stage", "read", "mark", "push"}
    BY RowSets DEF Requests
<1>s. ASSUME UNCHANGED <<release, staging, version>>
      PROVE  RowsArePlain' /\ Rows' = Rows /\ Committed' = Committed /\ Held' = Held
    BY <1>s DEF OrderInv, RowsArePlain, Rows, Committed, Held, Transfers
<1>w. Outstanding => Held # {}
    BY DEF OrderInv, WorkHoldsRows
<1>c. /\ request[c].at \in {"stage", "read", "mark", "push"} => ~Outstanding
      /\ request[c].at \in {"stage", "read", "mark"} => Committed = {}
      /\ request[c].at = "mark" => DOMAIN request[c].rows \cap Rows # {}
      /\ request[c].at = "push" => Held # {}
    BY DEF OrderInv, CommitsWait
<1>i. Idle.at = "idle"
    BY DEF Idle
<1>1. CASE StageBegin(c)
    <2>1. request'[c].at = "stage" /\ Committed = {} /\ ~Outstanding
        BY <1>1, <1>u, CheckPasses DEF StageBegin, Becomes
    <2> QED BY <1>1, <1>s, <2>1, OrderOfRequest DEF StageBegin
<1>2. CASE StageRefused(c)
    <2>1. request'[c].at = "idle"
        BY <1>2, <1>u, <1>i DEF StageRefused, Ends
    <2> QED BY <1>2, <1>s, <1>w, <2>1, OrderOfRequest DEF StageRefused
<1>3. CASE StageEnd(c)
    <2>1. request'[c].at = "idle"
        BY <1>3, <1>u, <1>i DEF StageEnd, Ends
    <2>2. RowsArePlain' /\ ~Outstanding
        BY <1>3, <1>c, AfterStage DEF OrderInv, StageEnd
    <2> QED BY <1>3, <2>1, <2>2, OrderOfRequest DEF StageEnd
<1>4. CASE CommitBegin(c)
    <2>1. request'[c].at = "read" /\ Committed = {} /\ ~Outstanding
        BY <1>4, <1>u, CheckPasses DEF CommitBegin, Becomes
    <2> QED BY <1>4, <1>s, <2>1, OrderOfRequest DEF CommitBegin
<1>5. CASE CommitRead(c)
    <2>1. PICK ids \in Selection :
              /\ Uncommitted \cap ids # {}
              /\ Becomes(c, "mark", Snapshot(Uncommitted \cap ids))
        BY <1>5 DEF CommitRead
    <2>2. request'[c].at = "mark" /\ DOMAIN request'[c].rows = Uncommitted \cap ids
        BY <2>1, <1>u DEF Becomes, Snapshot
    <2>3. DOMAIN request'[c].rows \cap Rows # {}
        BY <2>1, <2>2 DEF Uncommitted
    <2>4. Committed = {} /\ ~Outstanding
        BY <1>5, <1>c DEF CommitRead
    <2> QED BY <1>5, <1>s, <2>2, <2>3, <2>4, OrderOfRequest DEF CommitRead
<1>6. CASE CommitEmptyV2(c)
    <2>1. request'[c].at = "idle"
        BY <1>6, <1>u, <1>i DEF CommitEmptyV2, Ends
    <2>2. RowsArePlain' /\ ~Outstanding
        BY <1>6, <1>c, AfterSetCommitted DEF CommitEmptyV2, OrderInv
    <2> QED BY <1>6, <2>1, <2>2, OrderOfRequest DEF CommitEmptyV2
<1>7. CASE CommitMark(c)
    <2>1. request'[c].at = "push"
        BY <1>7, <1>u DEF CommitMark, Becomes
    <2>2. /\ RowsArePlain'
          /\ Committed' = Committed \cup (DOMAIN request[c].rows \cap Rows)
          /\ Transfers' = Transfers
        BY <1>7, AfterSetCommitted DEF CommitMark, OrderInv
    <2>4. Transfers \subseteq Committed
        BY DEF OrderInv, RowsArePlain, Transfers, Committed
    <2>3. ~Outstanding /\ Held' # {}
        BY <1>7, <1>c, <2>2, <2>4 DEF CommitMark, Held
    <2> QED BY <1>7, <2>1, <2>2, <2>3, OrderOfRequest DEF CommitMark
<1>8. CASE CommitFailV2(c)
    <2>1. request'[c].at = "idle"
        BY <1>8, <1>u, <1>i DEF CommitFailV2, Ends
    <2>2. RowsArePlain' /\ ~Outstanding
        BY <1>8, <1>c, AfterSetCommitted DEF CommitFailV2, OrderInv
    <2> QED BY <1>8, <2>1, <2>2, OrderOfRequest DEF CommitFailV2
<1>9. CASE CommitPush(c)
    <2> DEFINE p == [id |-> used.pushes + 1, rows |-> request[c].rows]
    <2>1. pushes' = pushes \cup {p} /\ UNCHANGED <<chain, ingested, cleaning>>
        BY <1>9 DEF CommitPush
    <2>2. RowsArePlain' /\ Held' = Held /\ Held # {} /\ ~Outstanding
        BY <1>9, <1>s, <1>c DEF CommitPush
    <2>3. pushes = {} /\ ~cleaning /\ ingested = Len(chain)
        BY <2>2, RowSets DEF Outstanding
    <2>4. OneAtWork'
        BY <2>1, <2>3 DEF OneAtWork
    <2>5. WorkHoldsRows'
        BY <2>2 DEF WorkHoldsRows
    <2>6. request'[c].at = "idle"
        BY <1>9, <1>u, <1>i DEF CommitPush, Ends
    <2>7. CommitsWait'
        BY <2>6 DEF CommitsWait, OneClient
    <2> QED BY <2>2, <2>4, <2>5, <2>7 DEF OrderInv
\* V1 leaves the marks of a commit that fails.
<1>10. CASE CommitEmptyV1(c) \/ CommitFailV1(c)
    <2>1. request'[c].at = "idle"
        <3>1. Ends(c)
            BY <1>10 DEF CommitEmptyV1, CommitFailV1
        <3> QED BY <3>1, <1>u, <1>i DEF Ends
    <2>2. UNCHANGED <<release, staging, version, pushes, chain, ingested, cleaning>>
        BY <1>10 DEF CommitEmptyV1, CommitFailV1
    <2> QED BY <1>s, <1>w, <2>1, <2>2, OrderOfRequest
<1> QED BY <1>1, <1>2, <1>3, <1>4, <1>5, <1>6, <1>7, <1>8, <1>9, <1>10 DEF Request

\* Given-up pushes are never forgotten.
LEMMA CalmStep ==
    ASSUME TypeOK, Next, Calm'
    PROVE  Calm /\ \A p \in pushes : ~PushGivenUp(p)
<1> USE DEF Calm
<1>u. /\ used \in Counts /\ used.giveUps \in Nat
      /\ [used EXCEPT !.pushes = @ + 1].giveUps = used.giveUps
      /\ [used EXCEPT !.rejects = @ + 1].giveUps = used.giveUps
      /\ [used EXCEPT !.giveUps = @ + 1].giveUps = used.giveUps + 1
      /\ [used EXCEPT !.aborts = @ + 1].giveUps = used.giveUps
      /\ [used EXCEPT !.foreign = @ + 1].giveUps = used.giveUps
      /\ [used EXCEPT !.crashes = @ + 1].giveUps = used.giveUps
    BY BoundsAreNat DEF TypeOK, Counts
<1>g. ASSUME NEW p \in pushes, PushGivenUp(p) PROVE FALSE
    <2>1. used'.giveUps = used.giveUps + 1
        BY <1>u, <1>g DEF PushGivenUp
    <2> QED BY <1>u, <2>1
<1>1. ASSUME NEW c \in Clients, Request(c) PROVE Calm
    BY <1>1, <1>u DEF Request, StageBegin, StageRefused, StageEnd, CommitBegin, CommitRead,
       CommitEmptyV1, CommitEmptyV2, CommitMark, CommitFailV1, CommitFailV2, CommitPush
<1>2. ASSUME NEW p \in pushes, PushAccepted(p) \/ PushAborted(p) PROVE Calm
    BY <1>2, <1>u DEF PushAccepted, PushAborted
<1>3. ASSUME NEW u \in Uuids, EditRecord(u) \/ Destroy(u) \/ RetryRecord(u) PROVE Calm
    BY <1>3 DEF EditRecord, Destroy, RetryRecord
<1>4. ASSUME Confirm \/ Ingest \/ CleanUpV1 \/ CleanUpV2 PROVE Calm
    BY <1>4 DEF Confirm, Ingest, CleanUpV1, CleanUpV2
<1>5. ASSUME Clean \/ ResetCommittedRecords \/ CancelActiveOffer \/ Age PROVE Calm
    BY <1>5 DEF Clean, ResetCommittedRecords, CancelActiveOffer, Age
<1>6. ASSUME ForeignGeneration \/ Crash PROVE Calm
    BY <1>6, <1>u DEF ForeignGeneration, Crash
<1> QED BY <1>g, <1>1, <1>2, <1>3, <1>4, <1>5, <1>6 DEF Next

\* What OneClient rules out.
LEMMA NoOtherStep ==
    ASSUME TypeOK, OneClient, OrderInv
    PROVE  /\ ~ForeignGeneration /\ ~Clean /\ ~ResetCommittedRecords
           /\ release = "v2" => ~CleanUpV1 /\ ~CancelActiveOffer
           /\ \A u \in Uuids : ~Destroy(u) /\ ~RetryRecord(u)
<1>1. used.foreign \in 0 .. MaxForeign /\ MaxForeign = 0
    BY DEF TypeOK, Counts, OneClient
<1>2. ~ForeignGeneration
    BY <1>1 DEF ForeignGeneration
<1>3. \A u \in Uuids : ~RetryRecord(u)
    BY Calls DEF RetryRecord, OrderInv, RowsArePlain
<1> QED BY <1>2, <1>3, Calls DEF CleanUpV1, Clean, ResetCommittedRecords,
           CancelActiveOffer, Destroy

\* Cancelling an offer is refused while a commit holds rows; otherwise it takes
\* rows that no commit does.
LEMMA CancelOrder ==
    ASSUME TypeOK, OneClient, OrderInv, CancelActiveOffer
    PROVE  OrderInv'
<1>1. /\ staging' = Without(Transfers) /\ Pending \subseteq Transfers
      /\ UNCHANGED <<release, request, pushes, chain, ingested, cleaning, version>>
    BY DEF CancelActiveOffer, storeVars, syncVars
<1>2. Pending = Committed /\ Transfers \subseteq Committed
    BY DEF OrderInv, RowsArePlain, Pending, Committed, Transfers
<1>3. Held = {} /\ ~Outstanding
    BY <1>1, <1>2 DEF Held, OrderInv, WorkHoldsRows
<1>4. RowsArePlain' /\ Rows' = Rows \ Transfers /\ Committed' = Committed \ Transfers
    BY <1>1, AfterWithout DEF OrderInv
<1>5. OneAtWork' /\ ~Outstanding'
    BY <1>1, <1>3 DEF OrderInv, OneAtWork, Outstanding
<1>6. CommitsWait'
    BY <1>1, <1>2, <1>3, <1>4, <1>5 DEF OrderInv, CommitsWait
<1> QED BY <1>4, <1>5, <1>6 DEF OrderInv, WorkHoldsRows

\* The step that moves the work on: from the push to the store, to the sync
\* tick, to the cleanup.
LEMMA WorkStepOrder ==
    ASSUME TypeOK, OneClient, OrderInv,
           \/ \E p \in pushes : PushAccepted(p) \/ PushAborted(p)
           \/ Ingest \/ CleanUpV1 \/ CleanUpV2 \/ Crash
    PROVE  OrderInv'
<1> USE DEF storeVars, syncVars, logVars
<1>s. ASSUME UNCHANGED <<release, staging, version>>
      PROVE  RowsArePlain' /\ Rows' = Rows /\ Committed' = Committed /\ Held' = Held
    BY <1>s DEF OrderInv, RowsArePlain, Rows, Committed, Held, Transfers
<1>w. OneAtWork /\ WorkHoldsRows /\ CommitsWait
    BY DEF OrderInv
<1>l. Len(chain) \in Nat /\ ingested \in 0 .. Len(chain) /\ chain \in Seq(ChangeLists)
    BY RowSets
<1>i. ASSUME Outstanding, UNCHANGED request PROVE CommitsWait'
    BY <1>i, <1>w DEF CommitsWait
<1>1. ASSUME NEW p \in pushes, PushAccepted(p) PROVE OrderInv'
    <2>1. /\ pushes = {p} /\ ingested = Len(chain) /\ ~cleaning /\ Outstanding
        BY <1>w DEF OneAtWork, Outstanding
    <2>2. p.rows \in ChangeLists
        BY DEF TypeOK, Pushes
    <2>3. Len(chain') = Len(chain) + 1
        BY <1>1, <1>l, <2>2, AppendProperties DEF PushAccepted
    <2>4. pushes' = {} /\ UNCHANGED <<release, staging, version, request, ingested, cleaning>>
        BY <1>1, <2>1 DEF PushAccepted
    <2>5. OneAtWork'
        BY <2>1, <2>3, <2>4 DEF OneAtWork
    <2>6. RowsArePlain' /\ Committed' = Committed /\ Held' = Held
        BY <1>s, <2>4
    <2>7. WorkHoldsRows'
        BY <1>w, <2>1, <2>6 DEF WorkHoldsRows
    <2> QED BY <1>i, <2>1, <2>4, <2>5, <2>6, <2>7 DEF OrderInv
<1>2. ASSUME NEW p \in pushes, PushAborted(p) PROVE OrderInv'
    <2>1. /\ pushes = {p} /\ ingested = Len(chain) /\ ~cleaning /\ Outstanding
        BY <1>w DEF OneAtWork, Outstanding
    <2>2. pushes' = {} /\ UNCHANGED <<release, staging, version, request, chain, ingested, cleaning>>
        BY <1>2, <2>1 DEF PushAborted
    <2>3. OneAtWork' /\ ~Outstanding'
        BY <1>l, <2>1, <2>2 DEF OneAtWork, Outstanding
    <2> QED BY <1>i, <1>s, <2>1, <2>2, <2>3 DEF OrderInv, WorkHoldsRows
<1>3. CASE Ingest
    <2>1. ingested + 1 = Len(chain) /\ pushes = {} /\ ~cleaning /\ Outstanding
        BY <1>3, <1>w, <1>l DEF Ingest, OneAtWork, Outstanding
    <2>2. ingested' = ingested + 1 /\ cleaning' = TRUE
          /\ UNCHANGED <<release, staging, version, request, chain, pushes>>
        BY <1>3 DEF Ingest
    <2>3. OneAtWork'
        BY <2>1, <2>2, <1>l DEF OneAtWork
    <2>4. RowsArePlain' /\ Committed' = Committed /\ Held' = Held
        BY <1>s, <2>2
    <2>5. WorkHoldsRows'
        BY <1>w, <2>1, <2>4 DEF WorkHoldsRows
    <2> QED BY <1>i, <2>1, <2>2, <2>3, <2>4, <2>5 DEF OrderInv
<1>4. CASE CleanUpV1 \/ CleanUpV2
    <2>1. cleaning /\ pushes = {} /\ ~(ingested < Len(chain)) /\ Outstanding
        BY <1>4, <1>w DEF CleanUpV1, CleanUpV2, OneAtWork, Outstanding
    <2>2. cleaning' = FALSE /\ UNCHANGED <<version, request, chain, ingested, pushes>>
        BY <1>4 DEF CleanUpV1, CleanUpV2
    <2>3. RowsArePlain'
        BY <1>4, AfterWithout DEF CleanUpV1, CleanUpV2, OrderInv
    <2>4. OneAtWork' /\ ~Outstanding'
        BY <2>1, <2>2 DEF OneAtWork, Outstanding
    <2>5. \A c \in Clients : request[c].at \notin {"stage", "read", "mark", "push"}
        BY <1>w, <2>1 DEF CommitsWait
    <2>6. CommitsWait'
        BY <2>2, <2>5 DEF CommitsWait
    <2> QED BY <2>3, <2>4, <2>6 DEF OrderInv, WorkHoldsRows
<1>5. CASE Crash
    <2>1. /\ pushes' = {} /\ cleaning' = FALSE
          /\ request' = [c \in Clients |-> Idle]
          /\ UNCHANGED <<release, staging, version, chain, ingested>>
        BY <1>5 DEF Crash
    <2>2. OneAtWork' /\ (Outstanding' => Outstanding)
        BY <1>w, <2>1 DEF OneAtWork, Outstanding
    <2>3. RowsArePlain' /\ Committed' = Committed /\ Held' = Held
        BY <1>s, <2>1
    <2>4. WorkHoldsRows'
        BY <1>w, <2>2, <2>3 DEF WorkHoldsRows
    <2>5. CommitsWait'
        BY <2>1 DEF CommitsWait, Idle
    <2> QED BY <2>2, <2>3, <2>4, <2>5 DEF OrderInv
<1> QED BY <1>1, <1>2, <1>3, <1>4, <1>5

LEMMA NextOrder ==
    ASSUME TypeOK, OneClient, Calm => OrderInv, [Next]_vars, Calm'
    PROVE  OrderInv'
<1> USE DEF storeVars, syncVars, logVars
<1>s. ASSUME OrderInv, UNCHANGED <<release, staging, version, request, pushes, chain, ingested, cleaning>>
      PROVE  OrderInv'
    BY <1>s DEF OrderInv, OneAtWork, RowsArePlain, WorkHoldsRows, CommitsWait, Outstanding,
       Rows, Committed, Held, Transfers
<1>1. CASE Next
    <2>0. Calm /\ OrderInv /\ \A p \in pushes : ~PushGivenUp(p)
        BY <1>1, CalmStep
    <2>1. ASSUME NEW c \in Clients, Request(c) PROVE OrderInv'
        BY <2>0, <2>1, RequestStepOrder
    <2>2. CASE \/ \E p \in pushes : PushAccepted(p) \/ PushAborted(p)
               \/ Ingest \/ CleanUpV1 \/ CleanUpV2 \/ Crash
        BY <2>0, <2>2, WorkStepOrder
    <2>3. CASE Confirm
        BY <2>0, <2>3, <1>s DEF Confirm
    <2>4. CASE Age
        BY <2>0, <2>4, <1>s DEF Age
    <2>5. ASSUME NEW u \in Uuids, EditRecord(u) PROVE OrderInv'
        <3>1. Committed' = Committed /\ Held' = Held /\ Rows' = Rows /\ RowsArePlain'
            BY <2>0, <2>5, AfterEdit DEF OrderInv
        <3>2. UNCHANGED <<request, pushes, chain, ingested, cleaning>>
            BY <2>5 DEF EditRecord
        <3> QED BY <2>0, <3>1, <3>2, OrderKept
    <2>6. CASE CancelActiveOffer
        BY <2>0, <2>6, CancelOrder
    <2> QED BY <1>1, <2>0, <2>1, <2>2, <2>3, <2>4, <2>5, <2>6, NoOtherStep DEF Next
<1>2. CASE UNCHANGED vars
    BY <1>2, <1>s DEF vars, Calm
<1> QED BY <1>1, <1>2

\* In both releases, one request at a time: until a push is given up, no commit
\* starts a push while another is being retried, whatever restarts, rejected
\* commits, aborted pushes and, in V1, offers come between; the committed rows of
\* the first hold back the second until its generation is cleaned up.
THEOREM OneInFlight ==
    ASSUME OneClient
    PROVE  Spec => []OnePush
<1>1. Init => (Calm => OrderInv)
    BY DEF Init, OrderInv, OneAtWork, RowsArePlain, WorkHoldsRows, CommitsWait, Outstanding,
       Rows, Committed, Idle
<1>2. TypeOK /\ (Calm => OrderInv) /\ [Next]_vars => (Calm => OrderInv)'
    BY NextOrder
<1>3. (Calm => OrderInv) => OnePush
    <2> SUFFICES ASSUME OrderInv PROVE Cardinality(pushes) <= 1
        BY DEF Calm, OnePush
    <2>1. CASE pushes = {}
        BY <2>1, FS_EmptySet
    <2>2. ASSUME NEW p \in pushes PROVE Cardinality(pushes) <= 1
        <3>1. pushes = {p}
            BY DEF OrderInv, OneAtWork
        <3> QED BY <3>1, FS_Singleton
    <2> QED BY <2>1, <2>2
<1> QED BY <1>1, <1>2, <1>3, TypeCorrect, PTL DEF Spec

-----------------------------------------------------------------------------
(* The contents that reach the store *)

\* PublishedInOrder, of a store that no given-up push has disturbed.
Ordered ==
    \A u \in Uuids : \A f, g \in 1 .. Len(chain) :
        (f < g /\ u \in DOMAIN chain[f] /\ u \in DOMAIN chain[g])
            => chain[f][u] <= chain[g][u]

ContentsInv == ContentsGrow /\ Ordered

LEMMA Contents ==
    ASSUME TypeOK
    PROVE  /\ version \in [Uuids -> Nat]
           /\ \A rows \in ChangeLists : \A u \in DOMAIN rows : u \in Uuids /\ rows[u] \in Nat
           /\ \A g \in 1 .. Len(chain) : chain[g] \in ChangeLists
           /\ \A p \in pushes : p.rows \in ChangeLists
           /\ \A c \in Clients : request[c].rows \in ChangeLists
<1>1. \A rows \in ChangeLists : \A u \in DOMAIN rows : u \in Uuids /\ rows[u] \in Nat
    BY DEF ChangeLists
<1>2. version \in [Uuids -> Nat]
    BY BoundsAreNat DEF TypeOK
<1>3. \A g \in 1 .. Len(chain) : chain[g] \in ChangeLists
    BY RowSets, ElementOfSeq
<1>4. /\ \A p \in pushes : p.rows \in ChangeLists
      /\ \A c \in Clients : request[c].rows \in ChangeLists
    BY DEF TypeOK, Pushes, Requests
<1> QED BY <1>1, <1>2, <1>3, <1>4

\* Change lists stay the newest when clients give more contents.
LEMMA NewestKept ==
    ASSUME TypeOK, TypeOK', NEW rows \in ChangeLists, Newest(rows),
           \A v \in Uuids : version[v] <= version'[v], UNCHANGED chain
    PROVE  Newest(rows)'
<1> SUFFICES ASSUME NEW u \in DOMAIN rows PROVE rows[u] <= version'[u]
    BY DEF Newest
<1>1. u \in Uuids /\ rows[u] \in Nat /\ rows[u] <= version[u]
    BY Contents DEF Newest
<1>2. version[u] \in Nat /\ version'[u] \in Nat
    BY <1>1, BoundsAreNat DEF TypeOK
<1> QED BY <1>1, <1>2

\* A step that gives the store nothing: its pushes and its change lists were
\* there before, or are the newest.
LEMMA ContentsKept ==
    ASSUME TypeOK, TypeOK', ContentsInv,
           \A v \in Uuids : version[v] <= version'[v], UNCHANGED chain,
           \A p \in pushes' : p \in pushes \/ Newest(p.rows),
           \A c \in Clients : request'[c].at \in {"mark", "push"} =>
                \/ request[c].at \in {"mark", "push"} /\ request'[c].rows = request[c].rows
                \/ Newest(request'[c].rows)
    PROVE  ContentsInv'
<1>1. Ordered'
    BY DEF ContentsInv, Ordered
<1>2. ASSUME NEW g \in 1 .. Len(chain), NEW u \in DOMAIN chain[g]
      PROVE  chain[g][u] <= version'[u]
    <2>1. u \in Uuids /\ chain[g][u] \in Nat /\ chain[g][u] <= version[u]
        BY Contents DEF ContentsInv, ContentsGrow
    <2>2. version[u] \in Nat /\ version'[u] \in Nat
        BY <2>1, BoundsAreNat DEF TypeOK
    <2> QED BY <2>1, <2>2
<1>3. ASSUME NEW p \in pushes' PROVE Newest(p.rows)'
    <2>1. p.rows \in ChangeLists
        BY DEF TypeOK, Pushes
    <2>2. Newest(p.rows)
        BY DEF ContentsInv, ContentsGrow
    <2>3. QED BY <2>1, <2>2, NewestKept
<1>4. ASSUME NEW c \in Clients, request'[c].at \in {"mark", "push"}
      PROVE  Newest(request[c].rows)'
    <2>1. request'[c].rows \in ChangeLists
        BY DEF TypeOK, Requests
    <2>2. Newest(request'[c].rows)
        BY <1>4 DEF ContentsInv, ContentsGrow
    <2>3. \A u \in DOMAIN request'[c].rows : request'[c].rows[u] <= version'[u]
        BY <2>1, <2>2, NewestKept DEF Newest
    <2> QED BY <2>2, <2>3 DEF Newest
<1>5. ContentsGrow'
    BY <1>2, <1>3, <1>4 DEF ContentsGrow
<1> QED BY <1>1, <1>5 DEF ContentsInv

LEMMA RequestStepContents ==
    ASSUME TypeOK, TypeOK', OneClient, OrderInv, ContentsInv, NEW c \in Clients, Request(c)
    PROVE  ContentsInv'
<1> USE DEF storeVars, syncVars, logVars
<1>u. request \in [Clients -> Requests] /\ \A d \in Clients : d = c
    BY DEF TypeOK, OneClient
<1>v. UNCHANGED version => \A v \in Uuids : version[v] <= version'[v]
    BY Contents
<1>1. CASE StageEnd(c)
    <2>1. /\ \A v \in Uuids : version[v] <= version'[v]
          /\ UNCHANGED <<pushes, chain>>
        BY <1>1, AfterStage DEF StageEnd, OrderInv
    <2>2. request'[c].at = "idle"
        BY <1>1, <1>u DEF StageEnd, Ends, Idle
    <2> QED BY <1>u, <2>1, <2>2, ContentsKept
<1>2. CASE \/ StageBegin(c) \/ StageRefused(c) \/ CommitBegin(c)
           \/ CommitEmptyV1(c) \/ CommitEmptyV2(c) \/ CommitFailV1(c) \/ CommitFailV2(c)
    <2>1. UNCHANGED <<version, pushes, chain>>
        BY <1>2 DEF StageBegin, StageRefused, CommitBegin, CommitEmptyV1,
           CommitEmptyV2, CommitFailV1, CommitFailV2
    <2>2. request'[c].at \in {"idle", "stage", "read"}
        <3>1. Becomes(c, "stage", NoChange) \/ Becomes(c, "read", NoChange) \/ Ends(c)
            BY <1>2 DEF StageBegin, StageRefused, CommitBegin, CommitEmptyV1,
           CommitEmptyV2, CommitFailV1, CommitFailV2
        <3>2. CASE Ends(c)
            BY <1>u, <3>2 DEF Ends, Idle
        <3>3. CASE Becomes(c, "stage", NoChange) \/ Becomes(c, "read", NoChange)
            BY <1>u, <3>3 DEF Becomes
        <3> QED BY <3>1, <3>2, <3>3
    <2> QED BY <1>u, <1>v, <2>1, <2>2, ContentsKept
<1>3. CASE CommitRead(c)
    <2>1. PICK ids \in Selection : Becomes(c, "mark", Snapshot(Uncommitted \cap ids))
        BY <1>3 DEF CommitRead
    <2> DEFINE rows == Snapshot(Uncommitted \cap ids)
    <2>2. request'[c].rows = rows
        BY <2>1, <1>u DEF Becomes
    <2>3. ASSUME NEW u \in DOMAIN rows PROVE u \in Uuids /\ rows[u] = version[u]
        BY <2>3 DEF Snapshot, OrderInv, RowsArePlain, Uncommitted, Rows
    <2>4. Newest(rows)
        <3> SUFFICES ASSUME NEW u \in DOMAIN rows
                     PROVE  /\ rows[u] <= version[u]
                            /\ \A g \in 1 .. Len(chain) :
                                  u \in DOMAIN chain[g] => chain[g][u] <= rows[u]
            BY DEF Newest
        <3>1. rows[u] = version[u] /\ version[u] \in Nat
            BY <2>3, Contents
        <3> HIDE DEF rows
        <3> QED BY <3>1 DEF ContentsInv, ContentsGrow
    <2>5. UNCHANGED <<version, pushes, chain>>
        BY <1>3 DEF CommitRead
    <2> QED BY <1>u, <1>v, <2>2, <2>4, <2>5, ContentsKept
<1>4. CASE CommitMark(c)
    <2>1. request[c].at = "mark" /\ request'[c].rows = request[c].rows
        BY <1>4, <1>u DEF CommitMark, Becomes
    <2>2. UNCHANGED <<version, pushes, chain>>
        BY <1>4 DEF CommitMark
    <2> QED BY <1>u, <1>v, <2>1, <2>2, ContentsKept
<1>5. CASE CommitPush(c)
    <2>1. Newest(request[c].rows)
        BY <1>5 DEF CommitPush, ContentsInv, ContentsGrow
    <2>2. /\ pushes' = pushes \cup {[id |-> used.pushes + 1, rows |-> request[c].rows]}
          /\ UNCHANGED <<version, chain>>
        BY <1>5 DEF CommitPush
    <2>3. request'[c].at = "idle"
        BY <1>5, <1>u DEF CommitPush, Ends, Idle
    <2>4. \A p \in pushes' : p \in pushes \/ Newest(p.rows)
        BY <2>1, <2>2
    <2> QED BY <1>u, <1>v, <2>2, <2>3, <2>4, ContentsKept
<1> QED BY <1>1, <1>2, <1>3, <1>4, <1>5 DEF Request

\* The store accepts the only push, whose contents are newer than all it holds.
LEMMA AcceptedContents ==
    ASSUME TypeOK, TypeOK', OrderInv, ContentsInv, NEW p \in pushes, PushAccepted(p)
    PROVE  ContentsInv'
<1> USE DEF storeVars, syncVars, logVars
<1>1. /\ chain \in Seq(ChangeLists) /\ Len(chain) \in Nat /\ p.rows \in ChangeLists
      /\ chain' = Append(chain, p.rows)
      /\ UNCHANGED <<version, request>>
    BY RowSets DEF PushAccepted, TypeOK, Pushes
<1>2. /\ Len(chain') = Len(chain) + 1
      /\ \A i \in 1 .. Len(chain) : chain'[i] = chain[i]
      /\ chain'[Len(chain) + 1] = p.rows
    BY <1>1, AppendProperties
<1>3. pushes' = {} /\ Outstanding
    BY DEF PushAccepted, OrderInv, OneAtWork, Outstanding
<1>4. \A c \in Clients : request'[c].at \notin {"mark", "push"}
    BY <1>1, <1>3 DEF OrderInv, CommitsWait
<1>5. Newest(p.rows)
    BY DEF ContentsInv, ContentsGrow
<1>6. ASSUME NEW g \in 1 .. Len(chain'), NEW u \in DOMAIN chain'[g]
      PROVE  chain'[g][u] <= version'[u]
    <2>1. CASE g \in 1 .. Len(chain)
        BY <1>1, <1>2, <1>6, <2>1 DEF ContentsInv, ContentsGrow
    <2>2. CASE g = Len(chain) + 1
        BY <1>1, <1>2, <1>5, <1>6, <2>2 DEF Newest
    <2> QED BY <1>1, <1>2, <2>1, <2>2
<1>7. ContentsGrow'
    BY <1>3, <1>4, <1>6 DEF ContentsGrow
<1>8. ASSUME NEW u \in Uuids, NEW f \in 1 .. Len(chain'), NEW g \in 1 .. Len(chain'),
             f < g, u \in DOMAIN chain'[f], u \in DOMAIN chain'[g]
      PROVE  chain'[f][u] <= chain'[g][u]
    <2>1. f \in 1 .. Len(chain) /\ chain'[f] = chain[f]
        BY <1>1, <1>2, <1>8
    <2>2. CASE g \in 1 .. Len(chain)
        BY <1>2, <1>8, <2>1, <2>2 DEF ContentsInv, Ordered
    <2>3. CASE g = Len(chain) + 1
        BY <1>2, <1>5, <1>8, <2>1, <2>3 DEF Newest
    <2> QED BY <1>1, <1>2, <2>2, <2>3
<1>9. Ordered'
    BY <1>8 DEF Ordered
<1> QED BY <1>7, <1>9 DEF ContentsInv

LEMMA NextContents ==
    ASSUME TypeOK, TypeOK', OneClient, Calm => OrderInv /\ ContentsInv, [Next]_vars, Calm'
    PROVE  ContentsInv'
<1> USE DEF storeVars, syncVars, logVars
<1>v. UNCHANGED version => \A v \in Uuids : version[v] <= version'[v]
    BY Contents
<1>s. ASSUME ContentsInv, UNCHANGED <<version, request, chain>>, pushes' \subseteq pushes
      PROVE  ContentsInv'
    BY <1>s, <1>v, ContentsKept
<1>1. CASE Next
    <2>0. Calm /\ OrderInv /\ ContentsInv /\ \A p \in pushes : ~PushGivenUp(p)
        BY <1>1, CalmStep
    <2>1. ASSUME NEW c \in Clients, Request(c) PROVE ContentsInv'
        BY <2>0, <2>1, RequestStepContents
    <2>2. ASSUME NEW p \in pushes, PushAccepted(p) PROVE ContentsInv'
        BY <2>0, <2>2, AcceptedContents
    <2>3. ASSUME NEW p \in pushes, PushAborted(p) PROVE ContentsInv'
        BY <2>0, <2>3, <1>s DEF PushAborted
    <2>4. CASE Confirm \/ Ingest \/ CleanUpV1 \/ CleanUpV2 \/ CancelActiveOffer \/ Age
        BY <2>0, <2>4, <1>s DEF Confirm, Ingest, CleanUpV1, CleanUpV2, CancelActiveOffer, Age
    <2>5. ASSUME NEW u \in Uuids, EditRecord(u) PROVE ContentsInv'
        <3>1. \A v \in Uuids : version[v] <= version'[v]
            BY <2>0, <2>5, AfterEdit DEF OrderInv
        <3>2. UNCHANGED <<request, pushes, chain>>
            BY <2>5 DEF EditRecord
        <3> QED BY <2>0, <3>1, <3>2, ContentsKept
    <2>6. CASE Crash
        <3>1. \A c \in Clients : request'[c].at = "idle"
            BY <2>6 DEF Crash, Idle
        <3>2. UNCHANGED <<version, chain>> /\ pushes' = {}
            BY <2>6 DEF Crash
        <3> QED BY <2>0, <1>v, <3>1, <3>2, ContentsKept
    <2> QED BY <1>1, <2>0, <2>1, <2>2, <2>3, <2>4, <2>5, <2>6, NoOtherStep DEF Next
<1>2. CASE UNCHANGED vars
    BY <1>2, <1>s DEF vars, Calm
<1> QED BY <1>1, <1>2

\* In both releases, one request at a time: until a push is given up, no content of
\* a staging row reaches the store after a newer one, although edits, rejected commits,
\* restarts and the confirmations of the store come between the snapshot a
\* commit takes and the generation it makes.
THEOREM InOrder ==
    ASSUME OneClient
    PROVE  Spec => []PublishedInOrder
<1>1. Init => (Calm => OrderInv /\ ContentsInv)
    BY DEF Init, OrderInv, OneAtWork, RowsArePlain, WorkHoldsRows, CommitsWait, Outstanding,
       Rows, Committed, Idle, ContentsInv, ContentsGrow, Ordered
<1>2. TypeOK /\ TypeOK' /\ (Calm => OrderInv /\ ContentsInv) /\ [Next]_vars
          => (Calm => OrderInv /\ ContentsInv)'
    BY NextOrder, NextContents
<1>3. (Calm => OrderInv /\ ContentsInv) => PublishedInOrder
    BY DEF Calm, ContentsInv, Ordered, PublishedInOrder
<1> QED BY <1>1, <1>2, <1>3, TypeCorrect, PTL DEF Spec

-----------------------------------------------------------------------------
(* No staged content is lost *)

\* The newest content of the record is in a generation of the store.
Published(u) ==
    \E g \in 1 .. Len(chain) : u \in DOMAIN chain[g] /\ chain[g][u] = version[u]

\* What a commit has taken is what the table holds, until the cleanup.
TakenAsStaged ==
    /\ \A c \in Clients :
          /\ request[c].at = "mark" => \A u \in DOMAIN request[c].rows :
                u \in Rows /\ request[c].rows[u] = version[u]
          /\ request[c].at = "push" => \A u \in Committed :
                u \in DOMAIN request[c].rows /\ request[c].rows[u] = version[u]
    /\ \A p \in pushes : \A u \in Committed : u \in DOMAIN p.rows /\ p.rows[u] = version[u]
    /\ ingested < Len(chain) \/ cleaning => \A u \in Committed : Published(u)

StagedOrPublished == \A u \in Uuids : version[u] > 0 => u \in Rows \/ Published(u)

KeptInv == TakenAsStaged /\ StagedOrPublished

\* The store and the contents stay, committed rows go at most.
LEMMA KeptByOthers ==
    ASSUME KeptInv, Rows \subseteq Rows', Committed' \subseteq Committed,
           UNCHANGED <<version, chain, ingested, cleaning>>, pushes' \subseteq pushes,
           \A c \in Clients : request'[c].at \in {"mark", "push"} => request'[c] = request[c]
    PROVE  KeptInv'
<1>1. \A u : Published(u)' <=> Published(u)
    BY DEF Published
<1>2. StagedOrPublished'
    BY <1>1 DEF KeptInv, StagedOrPublished
<1>3. TakenAsStaged'
    BY <1>1 DEF KeptInv, TakenAsStaged
<1> QED BY <1>2, <1>3 DEF KeptInv

LEMMA RequestStepKept ==
    ASSUME TypeOK, OneClient, release = "v2", OrderInv, KeptInv, NEW c \in Clients, Request(c)
    PROVE  KeptInv'
<1> USE DEF storeVars, syncVars, logVars
<1>u. /\ request \in [Clients -> Requests] /\ \A d \in Clients : d = c
      /\ Committed \subseteq Rows /\ Rows \subseteq Uuids
    BY RowSets DEF OneClient
<1>s. UNCHANGED staging => Rows' = Rows /\ Committed' = Committed
    BY DEF Rows, Committed
<1>1. CASE StageBegin(c) \/ StageRefused(c) \/ CommitBegin(c)
    <2>1. UNCHANGED <<staging, version, chain, ingested, cleaning, pushes>>
        BY <1>1 DEF StageBegin, StageRefused, CommitBegin
    <2>2. request'[c].at \notin {"mark", "push"}
        <3>1. Becomes(c, "stage", NoChange) \/ Becomes(c, "read", NoChange) \/ Ends(c)
            BY <1>1 DEF StageBegin, StageRefused, CommitBegin
        <3>2. CASE Ends(c)
            BY <1>u, <3>2 DEF Ends, Idle
        <3>3. CASE Becomes(c, "stage", NoChange) \/ Becomes(c, "read", NoChange)
            BY <1>u, <3>3 DEF Becomes
        <3> QED BY <3>1, <3>2, <3>3
    <2> QED BY <1>s, <1>u, <2>1, <2>2, KeptByOthers
<1>2. CASE CommitEmptyV2(c) \/ CommitFailV2(c)
    <2>1. UNCHANGED <<version, chain, ingested, cleaning, pushes>>
        BY <1>2 DEF CommitEmptyV2, CommitFailV2
    <2>2. request'[c].at \notin {"mark", "push"}
        <3>1. Ends(c)
            BY <1>2 DEF CommitEmptyV2, CommitFailV2
        <3> QED BY <1>u, <3>1 DEF Ends, Idle
    <2>3. Rows' = Rows /\ Committed' \subseteq Committed
        BY <1>2, AfterSetCommitted DEF CommitEmptyV2, CommitFailV2
    <2> QED BY <1>u, <2>1, <2>2, <2>3, KeptByOthers
<1>3. CASE StageEnd(c)
    <2>1. ~Outstanding /\ Committed = {}
        BY <1>3 DEF StageEnd, OrderInv, CommitsWait
    <2>2. Committed' = Committed /\ Rows \subseteq Rows'
        BY <1>3, AfterStage DEF OrderInv
    <2>3. request'[c].at = "idle" /\ UNCHANGED <<pushes, chain, ingested, cleaning>>
        BY <1>3, <1>u DEF StageEnd, Ends, Idle
    <2>4. TakenAsStaged'
        BY <1>u, <2>1, <2>2, <2>3 DEF TakenAsStaged, Outstanding
    <2>5. PICK u \in Uuids : /\ version' = [version EXCEPT ![u] = @ + 1]
                             /\ \E row \in [data : {version[u] + 1}, committed : BOOLEAN,
                                            failed : BOOLEAN, transfer : BOOLEAN] :
                                   staging' = [staging EXCEPT ![u] = row]
                             /\ version[u] < MaxVersions
        <3>1. PICK u \in Uuids, t \in BOOLEAN :
                  /\ version[u] < MaxVersions
                  /\ version' = [version EXCEPT ![u] = @ + 1]
                  /\ staging' = [staging EXCEPT ![u] =
                        [data |-> version[u] + 1,
                         committed |-> t \/ u \in Committed,
                         failed |-> u \in Rows /\ @.failed,
                         transfer |-> t \/ u \in Transfers]]
            BY <1>3 DEF StageEnd
        <3> DEFINE row == [data |-> version[u] + 1,
                           committed |-> t \/ u \in Committed,
                           failed |-> u \in Rows /\ staging[u].failed,
                           transfer |-> t \/ u \in Transfers]
        <3>2. (u \in Rows /\ staging[u].failed) \in BOOLEAN
            BY RowOf DEF Row, TypeOK
        <3>3. row \in [data : {version[u] + 1}, committed : BOOLEAN,
                       failed : BOOLEAN, transfer : BOOLEAN]
            BY <3>2
        <3>4. staging' = [staging EXCEPT ![u] = row]
            BY <3>1
        <3> HIDE DEF row
        <3> QED BY <3>1, <3>3, <3>4
    <2>6. version' \in [Uuids -> Int] /\ version \in [Uuids -> Nat]
        BY <2>5, Contents
    <2>7. StagedOrPublished'
        <3> SUFFICES ASSUME NEW v \in Uuids, version'[v] > 0 PROVE v \in Rows' \/ Published(v)'
            BY DEF StagedOrPublished
        <3>1. CASE v = u
            <4>1. PICK row \in [data : {version[u] + 1}, committed : BOOLEAN,
                                failed : BOOLEAN, transfer : BOOLEAN] :
                      staging' = [staging EXCEPT ![u] = row]
                BY <2>5
            <4>2. row \in Row
                BY <2>5, <2>6, BoundsAreNat DEF Row
            <4>3. staging'[u] # NoRow
                BY <4>1, <4>2, NoRowIsNoRow DEF TypeOK
            <4> QED BY <3>1, <4>3 DEF Rows
        <3>2. CASE v # u
            <4>1. version'[v] = version[v]
                BY <2>5, <2>6, <3>2
            <4> QED BY <2>2, <2>3, <4>1 DEF KeptInv, StagedOrPublished, Published
        <3> QED BY <3>1, <3>2
    <2> QED BY <2>4, <2>7 DEF KeptInv
<1>4. CASE CommitRead(c)
    <2>1. PICK ids \in Selection : Becomes(c, "mark", Snapshot(Uncommitted \cap ids))
        BY <1>4 DEF CommitRead
    <2>2. UNCHANGED <<staging, version, chain, ingested, cleaning, pushes>>
        BY <1>4 DEF CommitRead
    <2>3. /\ request'[c].at = "mark"
          /\ request'[c].rows = Snapshot(Uncommitted \cap ids)
        BY <2>1, <1>u DEF Becomes
    <2>4. \A u \in DOMAIN request'[c].rows : u \in Rows /\ request'[c].rows[u] = version[u]
        BY <2>3 DEF Snapshot, OrderInv, RowsArePlain, Uncommitted
    <2>5. TakenAsStaged'
        BY <1>s, <1>u, <2>2, <2>3, <2>4 DEF KeptInv, TakenAsStaged, Published
    <2> QED BY <1>s, <2>2, <2>5 DEF KeptInv, StagedOrPublished, Published
<1>5. CASE CommitMark(c)
    <2>1. /\ request[c].at = "mark" /\ request'[c].at = "push"
          /\ request'[c].rows = request[c].rows
        BY <1>5, <1>u DEF CommitMark, Becomes
    <2>2. Committed = {} /\ ~Outstanding
        BY <2>1 DEF OrderInv, CommitsWait
    <2>3. Rows' = Rows /\ Committed' = DOMAIN request[c].rows \cap Rows
        BY <1>5, <2>2, AfterSetCommitted DEF CommitMark
    <2>4. UNCHANGED <<version, chain, ingested, cleaning, pushes>>
        BY <1>5 DEF CommitMark
    <2>5. TakenAsStaged'
        BY <1>u, <2>1, <2>2, <2>3, <2>4 DEF KeptInv, TakenAsStaged, Outstanding
    <2> QED BY <2>3, <2>4, <2>5 DEF KeptInv, StagedOrPublished, Published
<1>6. CASE CommitPush(c)
    <2>1. request[c].at = "push" /\ request'[c].at = "idle"
        BY <1>6, <1>u DEF CommitPush, Ends, Idle
    <2>2. /\ pushes' = pushes \cup {[id |-> used.pushes + 1, rows |-> request[c].rows]}
          /\ UNCHANGED <<staging, version, chain, ingested, cleaning>>
        BY <1>6 DEF CommitPush
    <2>3. TakenAsStaged'
        BY <1>s, <1>u, <2>1, <2>2 DEF KeptInv, TakenAsStaged, Published
    <2> QED BY <1>s, <2>2, <2>3 DEF KeptInv, StagedOrPublished, Published
<1>7. ~CommitEmptyV1(c) /\ ~CommitFailV1(c)
    BY DEF CommitEmptyV1, CommitFailV1
<1> QED BY <1>1, <1>2, <1>3, <1>4, <1>5, <1>6, <1>7 DEF Request

LEMMA WorkStepKept ==
    ASSUME TypeOK, OneClient, OrderInv, KeptInv,
           \/ \E p \in pushes : PushAccepted(p) \/ PushAborted(p)
           \/ Ingest \/ CleanUpV2 \/ Crash
    PROVE  KeptInv'
<1> USE DEF storeVars, syncVars, logVars
<1>s. UNCHANGED staging => Rows' = Rows /\ Committed' = Committed
    BY DEF Rows, Committed
<1>k. TakenAsStaged /\ StagedOrPublished
    BY DEF KeptInv
<1>1. ASSUME NEW p \in pushes, PushAccepted(p) PROVE KeptInv'
    <2>1. pushes' = {} /\ Outstanding /\ UNCHANGED <<staging, version, request>>
        BY <1>1 DEF PushAccepted, OrderInv, OneAtWork, Outstanding
    <2>2. /\ chain \in Seq(ChangeLists) /\ Len(chain) \in Nat /\ p.rows \in ChangeLists
          /\ chain' = Append(chain, p.rows)
        BY <1>1, RowSets DEF PushAccepted, TypeOK, Pushes
    <2>3. /\ Len(chain') = Len(chain) + 1
          /\ \A i \in 1 .. Len(chain) : chain'[i] = chain[i]
          /\ chain'[Len(chain) + 1] = p.rows
        BY <2>2, AppendProperties
    <2>4. \A u : Published(u) => Published(u)'
        BY <2>1, <2>2, <2>3 DEF Published
    <2>5. ASSUME NEW u \in Committed PROVE Published(u)'
        <3>1. u \in DOMAIN chain'[Len(chain) + 1] /\ chain'[Len(chain) + 1][u] = version'[u]
            BY <1>k, <2>1, <2>3, <2>5 DEF TakenAsStaged
        <3>2. Len(chain) + 1 \in 1 .. Len(chain')
            BY <2>2, <2>3
        <3> QED BY <3>1, <3>2 DEF Published
    <2>6. \A c \in Clients : request'[c].at \notin {"mark", "push"}
        BY <2>1 DEF OrderInv, CommitsWait
    <2>7. TakenAsStaged'
        BY <1>s, <2>1, <2>5, <2>6 DEF TakenAsStaged
    <2>8. StagedOrPublished'
        BY <1>k, <1>s, <2>1, <2>4 DEF StagedOrPublished
    <2> QED BY <2>7, <2>8 DEF KeptInv
<1>2. ASSUME NEW p \in pushes, PushAborted(p) PROVE KeptInv'
    BY <1>2, <1>s, KeptByOthers DEF PushAborted
<1>3. CASE Ingest
    <2>1. /\ ingested < Len(chain)
          /\ UNCHANGED <<staging, version, request, chain, pushes>>
        BY <1>3 DEF Ingest
    <2>2. \A u : Published(u)' <=> Published(u)
        BY <2>1 DEF Published
    <2>3. TakenAsStaged'
        BY <1>k, <1>s, <2>1, <2>2 DEF TakenAsStaged
    <2> QED BY <1>k, <1>s, <2>1, <2>2, <2>3 DEF KeptInv, StagedOrPublished
<1>4. CASE CleanUpV2
    <2>1. /\ cleaning /\ Outstanding /\ pushes = {} /\ ~(ingested < Len(chain))
        BY <1>4 DEF CleanUpV2, OrderInv, OneAtWork, Outstanding
    <2>2. cleaning' = FALSE /\ UNCHANGED <<version, request, chain, ingested, pushes>>
        BY <1>4 DEF CleanUpV2
    <2>3. Rows' = Rows \ (Committed \ Transfers)
        BY <1>4, AfterWithout DEF CleanUpV2
    <2>4. \A u : Published(u)' <=> Published(u)
        BY <2>2 DEF Published
    <2>5. \A u \in Committed : Published(u)
        BY <1>k, <2>1 DEF TakenAsStaged
    <2>6. StagedOrPublished'
        BY <1>k, <2>2, <2>3, <2>4, <2>5 DEF StagedOrPublished
    <2>7. \A c \in Clients : request'[c].at \notin {"mark", "push"}
        BY <2>1, <2>2 DEF OrderInv, CommitsWait
    <2>8. TakenAsStaged'
        BY <2>1, <2>2, <2>7 DEF TakenAsStaged
    <2> QED BY <2>6, <2>8 DEF KeptInv
<1>5. CASE Crash
    <2>1. /\ pushes' = {} /\ cleaning' = FALSE
          /\ \A c \in Clients : request'[c].at = "idle"
          /\ UNCHANGED <<staging, version, chain, ingested>>
        BY <1>5 DEF Crash, Idle
    <2>2. \A u : Published(u)' <=> Published(u)
        BY <2>1 DEF Published
    <2>3. TakenAsStaged'
        BY <1>k, <1>s, <2>1, <2>2 DEF TakenAsStaged
    <2> QED BY <1>k, <1>s, <2>1, <2>2, <2>3 DEF KeptInv, StagedOrPublished
<1> QED BY <1>1, <1>2, <1>3, <1>4, <1>5

LEMMA NextKept ==
    ASSUME TypeOK, OneClient, release = "v2", "edit" \notin Ops["v2"],
           Calm => OrderInv /\ KeptInv, [Next]_vars, Calm'
    PROVE  KeptInv'
<1> USE DEF storeVars, syncVars, logVars
<1>s. ASSUME KeptInv, UNCHANGED <<staging, version, request, pushes, chain, ingested, cleaning>>
      PROVE  KeptInv'
    BY <1>s, KeptByOthers DEF Rows, Committed
<1>1. CASE Next
    <2>0. Calm /\ OrderInv /\ KeptInv /\ \A p \in pushes : ~PushGivenUp(p)
        BY <1>1, CalmStep
    <2>1. ASSUME NEW c \in Clients, Request(c) PROVE KeptInv'
        BY <2>0, <2>1, RequestStepKept
    <2>2. CASE \/ \E p \in pushes : PushAccepted(p) \/ PushAborted(p)
               \/ Ingest \/ CleanUpV2 \/ Crash
        BY <2>0, <2>2, WorkStepKept
    <2>3. CASE Confirm \/ Age
        BY <2>0, <2>3, <1>s DEF Confirm, Age
    <2>4. \A u \in Uuids : ~EditRecord(u)
        BY DEF EditRecord
    <2> QED BY <1>1, <2>0, <2>1, <2>2, <2>3, <2>4, NoOtherStep DEF Next
<1>2. CASE UNCHANGED vars
    BY <1>2, <1>s DEF vars, Calm
<1> QED BY <1>1, <1>2

LEMMA ReleaseStays ==
    ASSUME [Next]_vars PROVE UNCHANGED release
BY DEF Next, vars, Request, StageBegin, StageRefused, StageEnd, CommitBegin, CommitRead,
   CommitEmptyV1, CommitEmptyV2, CommitMark, CommitFailV1, CommitFailV2, CommitPush,
   PushAccepted, PushGivenUp, PushAborted, Confirm, ForeignGeneration, Ingest, CleanUpV1,
   CleanUpV2, EditRecord, Destroy, RetryRecord, Clean, ResetCommittedRecords,
   CancelActiveOffer, Age, Crash

\* V2, one request at a time and no edits of rows that wait: until a push is given
\* up, the newest content a client gave a record is in its staging row or in a
\* generation of the store.  The cleanup deletes committed rows without asking
\* which generation it cleans up after, and takes only published ones.
THEOREM NothingLost ==
    ASSUME OneClient, "edit" \notin Ops["v2"]
    PROVE  Spec => []NoChangeLost
<1> DEFINE Kept == Calm => OrderInv /\ (release = "v2" => KeptInv)
<1>1. Init => Kept
    BY DEF Init, OrderInv, OneAtWork, RowsArePlain, WorkHoldsRows, CommitsWait, Outstanding,
       Rows, Committed, Idle, KeptInv, TakenAsStaged, StagedOrPublished
<1>2. TypeOK /\ Kept /\ [Next]_vars => Kept'
    BY NextOrder, NextKept, ReleaseStays
<1>3. Kept => NoChangeLost
    BY DEF Calm, OrderInv, RowsArePlain, KeptInv, StagedOrPublished, Published, NoChangeLost
<1> HIDE DEF Kept
<1> QED BY <1>1, <1>2, <1>3, TypeCorrect, PTL DEF Spec
=============================================================================
