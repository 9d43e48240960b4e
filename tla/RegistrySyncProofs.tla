------------------------- MODULE RegistrySyncProofs -------------------------
(***************************************************************************)
(* Theorems about RegistrySync, for every value of its constants: types,   *)
(* one audit row per generation, a log without gaps while resets wait for  *)
(* the tick, a log of the store's own roots and the refinement of          *)
(* RegistryLog while the store is not reorganised, and convergence of the  *)
(* data tables when destroys also finish before the next tick.             *)
(***************************************************************************)
EXTENDS RegistrySyncRefinement, SequenceTheorems, FiniteSetTheorems,
        WellFoundedInduction, TLAPS

-----------------------------------------------------------------------------
(* What the store's steps do to its history *)

LEMMA AppendHistory ==
    ASSUME NEW h \in Seq(Entry), NEW e \in Entry
    PROVE  /\ Append(h, e) \in Seq(Entry)
           /\ Len(Append(h, e)) = Len(h) + 1
           /\ \A i \in 1 .. Len(h) : Append(h, e)[i] = h[i]
BY AppendProperties

LEMMA ConfirmHistory ==
    ASSUME NEW h \in Seq(Entry), NEW n \in 1 .. Len(h)
    PROVE  LET c == [h EXCEPT ![n] = [@ EXCEPT !.confirmed = TRUE]]
           IN  /\ c \in Seq(Entry)
               /\ Len(c) = Len(h)
               /\ \A i \in 1 .. Len(h) : c[i].root = h[i].root
<1>1. h[n] \in Entry
    BY ElementOfSeq
<1>2. [h[n] EXCEPT !.confirmed = TRUE] \in Entry
    BY <1>1 DEF Entry
<1>3. [h[n] EXCEPT !.confirmed = TRUE].root = h[n].root
    BY <1>1 DEF Entry
<1> QED BY <1>2, <1>3, ExceptSeq

LEMMA CutHistory ==
    ASSUME NEW h \in Seq(Entry), NEW g \in 0 .. Len(h) - 1
    PROVE  /\ SubSeq(h, 1, g + 1) \in Seq(Entry)
           /\ Len(SubSeq(h, 1, g + 1)) = g + 1
<1>1. \A i \in 1 .. g + 1 : h[i] \in Entry
    BY ElementOfSeq
<1> QED BY <1>1, SubSeqProperties

\* The root of a generation the history has.
LEMMA RootType ==
    ASSUME NEW h \in Seq(Entry), NEW g \in 0 .. Len(h) - 1
    PROVE  RootAt(h, g) \in Roots
<1>1. h[g + 1] \in Entry
    BY ElementOfSeq
<1> QED BY <1>1 DEF RootAt, Entry

LEMMA StoreStepType ==
    ASSUME StoreTypeOK, StoreNext
    PROVE  StoreTypeOK'
<1> USE StoreConstants DEF StoreTypeOK, Highest
<1>1. CASE Publish
    <2>1. PICK r \in Roots : history' = Append(history, [root |-> r, confirmed |-> FALSE])
        BY <1>1 DEF Publish
    <2>2. [root |-> r, confirmed |-> FALSE] \in Entry
        BY DEF Entry
    <2> QED BY <1>1, <2>1, <2>2, AppendHistory DEF Publish
<1>2. CASE Confirm
    BY <1>2, ConfirmHistory DEF Confirm
<1>3. CASE Download
    BY <1>3 DEF Download
<1>4. CASE Reorg
    <2>1. PICK g \in 0 .. Highest(history) - 1 :
              /\ history' = SubSeq(history, 1, g + 1)
              /\ localGen' = IF localGen > g THEN g ELSE localGen
        BY <1>4 DEF Reorg
    <2>2. g \in 0 .. Len(history) - 1
        OBVIOUS
    <2>3. history' \in Seq(Entry) /\ Len(history') = g + 1
        BY <2>1, <2>2, CutHistory
    <2>4. reorgs' \in 0 .. MaxReorgs
        BY <1>4 DEF Reorg
    <2> QED BY <2>1, <2>3, <2>4
<1> QED BY <1>1, <1>2, <1>3, <1>4 DEF StoreNext

-----------------------------------------------------------------------------
(* Types.  A step that reads hist needs to know how far it reaches. *)

HistReach ==
    /\ pc \notin {"idle", "history"} => Len(hist) >= 1
    /\ pc \in {"commit", "mirror", "hash"} => HasGen(hist, cursor + 1)

TypeInv == TypeOK /\ HistReach

LEMMA EmptyIsRoot == Empty \in Roots
BY DEF Empty, Roots

LEMMA InitType == Init => TypeInv
<1> SUFFICES ASSUME Init PROVE TypeInv
    OBVIOUS
<1> USE DEF Init
<1>1. history \in Seq(Entry) /\ Len(history) = 1
    BY EmptyIsRoot DEF StoreInit, Entry
<1>2. StoreTypeOK
    BY <1>1, StoreConstants DEF StoreInit, StoreTypeOK, Highest
<1>3. hist \in Seq(Entry)
    BY EmptySeq
<1>4. status \in Status
    BY DEF NoStatus, Status
<1>5. resets \in 0 .. MaxResets /\ faults \in 0 .. MaxFaults
    BY SyncConstants
<1>6. TypeOK
    BY <1>2, <1>3, <1>4, <1>5, EmptyIsRoot DEF TypeOK, Steps
<1>7. HistReach
    BY DEF HistReach
<1> QED BY <1>6, <1>7 DEF TypeInv

LEMMA EndTickType ==
    ASSUME EndTick
    PROVE  /\ pc' = "idle" /\ hist' \in Seq(Entry) /\ status' \in Status
           /\ cursor' \in Nat /\ HistReach'
BY EmptySeq DEF EndTick, Goto, NoStatus, Status, HistReach

LEMMA NextType ==
    ASSUME TypeInv, [Next]_vars
    PROVE  TypeInv'
<1> USE SyncConstants DEF TypeInv
<1>1. CASE Store
    <2>1. StoreTypeOK'
        BY <1>1, StoreStepType DEF Store, TypeOK
    <2> QED BY <1>1, <2>1 DEF Store, SyncUnchanged, dbVars, tickVars, boundVars,
               TypeOK, HistReach, HasGen, Highest
<1>2. CASE StartTickV1
    <2>1. registryHash' \in Roots
        BY <1>2 DEF StartTickV1, TypeOK, AuditRow, IsLatest
    <2>2. pc' = "history"
        BY <1>2 DEF StartTickV1, Goto
    <2> QED BY <1>2, <2>1, <2>2 DEF StartTickV1, TypeOK, StoreTypeOK, Steps,
               storeVars, boundVars, HistReach
<1>3. CASE StartTickV2
    BY <1>3 DEF StartTickV2, TypeOK, StoreTypeOK, Steps, Goto, storeVars, dbVars,
       boundVars, HistReach
<1>4. CASE ReadHistory
    BY <1>4 DEF ReadHistory, TypeOK, StoreTypeOK, Steps, Goto, storeVars, dbVars,
       boundVars, HistReach
<1>5. CASE ReadStatus
    <2>1. UNCHANGED <<storeVars, dbVars, pruning, boundVars>> /\ pc = "status"
        BY <1>5 DEF ReadStatus
    <2>2. CASE EndTick
        BY <2>1, <2>2, EndTickType DEF TypeOK, StoreTypeOK, Steps, storeVars,
           dbVars, boundVars
    <2>3. CASE /\ pc' = "audit" /\ UNCHANGED <<hist, cursor>>
               /\ status' \in {status, [generation |-> localGen,
                                        target |-> Highest(history)]}
        <3>1. status' \in Status
            BY <2>3 DEF TypeOK, StoreTypeOK, Status, Highest
        <3> QED BY <2>1, <2>3, <3>1 DEF TypeOK, StoreTypeOK, Steps, storeVars,
                   dbVars, boundVars, HistReach
    <2> QED BY <1>5, <2>2, <2>3 DEF ReadStatus, Goto
<1>6. CASE ReadAudit
    BY <1>6 DEF ReadAudit, TypeOK, StoreTypeOK, Steps, Goto, storeVars, dbVars,
       boundVars, HistReach, IsLatest, AuditRow
<1>7. CASE CreateRegistryV1 \/ CreateRegistryV2
    <2>1. CreateRegistry /\ pruning' \subseteq Keys
        BY <1>7 DEF CreateRegistryV1, CreateRegistryV2, TypeOK
    <2>2. RootAt(hist, 0) \in Roots
        BY <2>1, RootType DEF CreateRegistry, TypeOK, HistReach
    <2>3. audit' \subseteq AuditRow
        BY <2>1, <2>2 DEF CreateRegistry, TypeOK, AuditRow
    <2> QED BY <2>1, <2>3, EndTickType DEF CreateRegistry, TypeOK, StoreTypeOK,
               Steps, storeVars, boundVars
<1>8. CASE MarkSynced
    <2>1. UNCHANGED <<storeVars, audit, rows, registryHash, pruning, boundVars>>
          /\ synced' \in BOOLEAN /\ pc = "mark"
        BY <1>8 DEF MarkSynced
    <2>2. CASE EndTick
        BY <2>1, <2>2, EndTickType DEF TypeOK, StoreTypeOK, Steps, storeVars,
           boundVars
    <2>3. CASE pc' = "check" /\ UNCHANGED <<hist, status, cursor>>
        BY <2>1, <2>3 DEF TypeOK, StoreTypeOK, Steps, storeVars, boundVars,
           HistReach
    <2> QED BY <1>8, <2>2, <2>3 DEF MarkSynced, Goto
<1>9. CASE ResetAhead
    <2>1. audit' \subseteq AuditRow
        BY <1>9 DEF ResetAhead, KeptBy, TypeOK
    <2> QED BY <1>9, <2>1, EndTickType DEF ResetAhead, TypeOK, StoreTypeOK,
               Steps, storeVars, boundVars
<1>10. CASE FetchDiff
    <2>1. UNCHANGED <<storeVars, dbVars, pruning, boundVars>> /\ pc = "check"
        BY <1>10 DEF FetchDiff
    <2>2. CASE EndTick
        BY <2>1, <2>2, EndTickType DEF TypeOK, StoreTypeOK, Steps, storeVars,
           dbVars, boundVars
    <2>3. CASE Ingestible /\ pc' = "commit" /\ UNCHANGED <<hist, status, cursor>>
        BY <2>1, <2>3 DEF TypeOK, StoreTypeOK, Steps, storeVars, dbVars,
           boundVars, HistReach, Ingestible
    <2> QED BY <1>10, <2>2, <2>3 DEF FetchDiff, Goto
<1>11. CASE CommitV1 \/ CommitV2
    <2>1. Commit /\ pc' \in {"mirror", "hash"}
        BY <1>11 DEF CommitV1, CommitV2, Goto
    <2>2. RootAt(hist, cursor) \in Roots /\ RootAt(hist, cursor + 1) \in Roots
        BY <2>1, RootType DEF Commit, TypeOK, HistReach, HasGen, Highest
    <2>3. audit' \subseteq AuditRow
        BY <2>1, <2>2 DEF Commit, TypeOK, AuditRow
    <2>4. rows' \in Roots
        BY <2>1, <2>2 DEF Commit, TypeOK, Patched, Roots
    <2> QED BY <2>1, <2>3, <2>4 DEF Commit, TypeOK, StoreTypeOK, Steps,
               storeVars, boundVars, HistReach
<1>12. CASE MirrorCommit
    BY <1>12 DEF MirrorCommit, TypeOK, StoreTypeOK, Steps, Goto, storeVars,
       dbVars, boundVars, HistReach
<1>13. CASE UpdateHash
    <2>1. RootAt(hist, cursor + 1) \in Roots
        BY <1>13, RootType DEF UpdateHash, TypeOK, HistReach, HasGen, Highest
    <2> QED BY <1>13, <2>1, EndTickType DEF UpdateHash, TypeOK, StoreTypeOK,
               Steps, storeVars, boundVars
<1>14. CASE Prune
    <2>1. PICK k \in pruning : /\ rows' = [rows EXCEPT ![k] = NoRow]
                               /\ pruning' = pruning \ {k}
        BY <1>14 DEF Prune
    <2>2. rows' \in Roots
        BY <2>1 DEF TypeOK, Roots
    <2> QED BY <1>14, <2>1, <2>2 DEF Prune, TypeOK, StoreTypeOK, storeVars,
               tickVars, boundVars, HistReach
<1>15. CASE Fail \/ Crash
    <2>1. /\ EndTick /\ UNCHANGED <<storeVars, dbVars, resets>>
          /\ faults' = faults + 1 /\ faults < MaxFaults
          /\ pruning' \subseteq Keys
        BY <1>15 DEF Fail, Crash, TypeOK
    <2> QED BY <2>1, EndTickType DEF TypeOK, StoreTypeOK, Steps, storeVars, dbVars
<1>16. CASE ResetToGeneration
    <2>1. audit' \subseteq AuditRow
        BY <1>16 DEF ResetToGeneration, KeptBy, TypeOK
    <2> QED BY <1>16, <2>1 DEF ResetToGeneration, TypeOK, StoreTypeOK,
               storeVars, tickVars, HistReach
<1>17. CASE UNCHANGED vars
    BY <1>17 DEF vars, TypeOK, StoreTypeOK, storeVars, dbVars, tickVars,
       boundVars, HistReach
<1> QED
    BY <1>1, <1>2, <1>3, <1>4, <1>5, <1>6, <1>7, <1>8, <1>9, <1>10, <1>11,
       <1>12, <1>13, <1>14, <1>15, <1>16, <1>17 DEF Next, Tick

\* Every variable keeps its type, and the tick never indexes the root history
\* it read out of range, whatever the store, the API and the faults do.
THEOREM TypeCorrect == Spec => []TypeOK
<1>1. Spec => []TypeInv
    BY InitType, NextType, PTL DEF Spec
<1> QED BY <1>1, PTL DEF TypeInv

-----------------------------------------------------------------------------
(* One row per generation.  The newest row was read two awaits before the    *)
(* next one is written; what makes the write unique is that the log can only *)
(* have lost rows in between.                                                *)

LogBelowCursor ==
    /\ pc = "create" => audit = {}
    /\ Ingesting => \A r \in audit : r.generation <= cursor

LogInv == LogBelowCursor /\ UniqueGenerations

\* The steps of which LogInv speaks: the others leave the log alone and neither
\* enter nor stay in the part of the tick that has read it.
LEMMA QuietStep ==
    ASSUME LogInv, UNCHANGED audit,
           \/ UNCHANGED <<pc, cursor>>
           \/ pc' \in {"idle", "history", "status", "audit", "mirror", "hash"}
           \/ pc \in {"mark", "check"} /\ pc' \in {"check", "commit"}
              /\ UNCHANGED cursor
    PROVE  LogInv'
BY DEF LogInv, LogBelowCursor, UniqueGenerations, Ingesting

LEMMA KeepStep ==
    ASSUME LogInv, NEW g \in Int, audit' = KeptBy(g),
           UNCHANGED <<pc, cursor>> \/ pc' = "idle"
    PROVE  LogInv'
BY DEF LogInv, LogBelowCursor, UniqueGenerations, Ingesting, KeptBy

LEMMA NextLogInv ==
    ASSUME TypeInv, LogInv, [Next]_vars
    PROVE  LogInv'
<1>1. CASE Store \/ Prune \/ UNCHANGED vars
    BY <1>1, QuietStep DEF Store, SyncUnchanged, Prune, vars, dbVars, tickVars
<1>2. CASE StartTickV1 \/ StartTickV2 \/ ReadHistory
    BY <1>2, QuietStep DEF StartTickV1, StartTickV2, ReadHistory, Goto, dbVars
<1>3. CASE ReadStatus
    BY <1>3, QuietStep DEF ReadStatus, EndTick, Goto, dbVars
<1>4. CASE ReadAudit
    <2>1. CASE audit = {}
        BY <1>4, <2>1 DEF ReadAudit, Goto, dbVars, LogInv, LogBelowCursor,
           UniqueGenerations, Ingesting, IsLatest
    <2>2. CASE audit # {}
        <3>1. PICK r \in audit : IsLatest(r) /\ cursor' = r.generation /\ pc' = "mark"
            BY <1>4, <2>2 DEF ReadAudit, Goto
        <3>2. UNCHANGED audit
            BY <1>4 DEF ReadAudit, dbVars
        <3> QED BY <3>1, <3>2 DEF LogInv, LogBelowCursor, UniqueGenerations,
                   Ingesting, IsLatest
    <2> QED BY <2>1, <2>2
<1>5. CASE CreateRegistryV1 \/ CreateRegistryV2
    <2>1. /\ audit = {} /\ pc' = "idle"
          /\ audit' = audit \cup {[generation |-> 0, root |-> RootAt(hist, 0)]}
        BY <1>5 DEF CreateRegistryV1, CreateRegistryV2, CreateRegistry, EndTick,
           Goto, LogInv, LogBelowCursor
    <2> QED BY <2>1 DEF LogInv, LogBelowCursor, UniqueGenerations, Ingesting
<1>6. CASE MarkSynced
    BY <1>6, QuietStep DEF MarkSynced, EndTick, Goto
<1>7. CASE ResetAhead
    <2>1. status.generation - 2 \in Int
        BY DEF TypeInv, TypeOK, Status
    <2> QED BY <1>7, <2>1, KeepStep DEF ResetAhead, EndTick, Goto
<1>8. CASE FetchDiff
    BY <1>8, QuietStep DEF FetchDiff, EndTick, Goto, dbVars
<1>9. CASE CommitV1 \/ CommitV2
    <2>1. /\ pc' \in {"mirror", "hash"} /\ pc = "commit"
          /\ audit' = audit \cup {[generation |-> cursor + 1,
                                   root |-> RootAt(hist, cursor + 1)]}
        BY <1>9 DEF CommitV1, CommitV2, Commit, Goto
    <2>2. \A r \in audit : r.generation < cursor + 1
        BY <2>1 DEF LogInv, LogBelowCursor, Ingesting, TypeInv, TypeOK, AuditRow
    <2>3. UniqueGenerations'
        BY <2>1, <2>2 DEF LogInv, UniqueGenerations, TypeInv, TypeOK, AuditRow
    <2> QED BY <2>1, <2>3 DEF LogInv, LogBelowCursor, Ingesting
<1>10. CASE MirrorCommit \/ UpdateHash
    BY <1>10, QuietStep DEF MirrorCommit, UpdateHash, EndTick, Goto, dbVars
<1>11. CASE Fail \/ Crash
    BY <1>11, QuietStep DEF Fail, Crash, EndTick, Goto, dbVars
<1>12. CASE ResetToGeneration
    <2>1. PICK g \in -1 .. MaxGen : audit' = KeptBy(g)
        BY <1>12 DEF ResetToGeneration
    <2>2. g \in Int
        BY <2>1, StoreConstants
    <2> QED BY <1>12, <2>1, <2>2, KeepStep DEF ResetToGeneration, tickVars
<1> QED
    BY <1>1, <1>2, <1>3, <1>4, <1>5, <1>6, <1>7, <1>8, <1>9, <1>10, <1>11, <1>12
    DEF Next, Tick

\* A generation enters the audit log once, even when the audit API removes rows
\* while a tick is about to add one, and through any reorganisation or crash.
THEOREM IngestsOnce == Spec => []OneRowPerGeneration
<1>1. Init => LogInv
    BY DEF Init, LogInv, LogBelowCursor, UniqueGenerations, Ingesting
<1>2. Spec => [](TypeInv /\ LogInv)
    BY InitType, NextType, <1>1, NextLogInv, PTL DEF Spec
<1>3. TypeInv /\ LogInv => OneRowPerGeneration
    BY DEF TypeInv, TypeOK, AuditRow, LogInv, LogBelowCursor, Ingesting,
       OneRowPerGeneration
<1> QED BY <1>2, <1>3, PTL

-----------------------------------------------------------------------------
(* No gap.  The row a tick adds continues the log because the row it read is *)
(* still there, which a reset inside the tick would spoil.                   *)

GapInv ==
    /\ AuditHasNoGaps
    /\ Ingesting => \E q \in audit : q.generation = cursor

LEMMA QuietGap ==
    ASSUME GapInv, UNCHANGED audit,
           \/ UNCHANGED <<pc, cursor>>
           \/ pc' \in {"idle", "history", "status", "audit", "mirror", "hash",
                       "create"}
           \/ pc \in {"mark", "check"} /\ pc' \in {"check", "commit"}
              /\ UNCHANGED cursor
    PROVE  GapInv'
BY DEF GapInv, AuditHasNoGaps, Ingesting

\* Cutting the log from its end opens no gap.
LEMMA KeepGap ==
    ASSUME TypeOK, GapInv, NEW g \in Int, audit' = KeptBy(g), pc' = "idle"
    PROVE  GapInv'
<1>1. ASSUME NEW r \in audit', NEW h \in 0 .. r.generation
      PROVE  \E q \in audit' : q.generation = h
    <2>1. r \in audit /\ r.generation <= g /\ r.generation \in Nat
        BY DEF KeptBy, TypeOK, AuditRow
    <2>2. PICK q \in audit : q.generation = h
        BY <2>1 DEF GapInv, AuditHasNoGaps
    <2> QED BY <2>1, <2>2 DEF KeptBy
<1> QED BY <1>1 DEF GapInv, AuditHasNoGaps, Ingesting

LEMMA NextGapInv ==
    ASSUME RacyResets = FALSE, TypeInv, LogInv, GapInv, [Next]_vars
    PROVE  GapInv'
<1>1. CASE Store \/ Prune \/ UNCHANGED vars
    BY <1>1, QuietGap DEF Store, SyncUnchanged, Prune, vars, dbVars, tickVars
<1>2. CASE StartTickV1 \/ StartTickV2 \/ ReadHistory
    BY <1>2, QuietGap DEF StartTickV1, StartTickV2, ReadHistory, Goto, dbVars
<1>3. CASE ReadStatus
    BY <1>3, QuietGap DEF ReadStatus, EndTick, Goto, dbVars
<1>4. CASE ReadAudit
    <2>1. CASE audit = {}
        BY <1>4, <2>1, QuietGap DEF ReadAudit, Goto, dbVars
    <2>2. CASE audit # {}
        <3>1. PICK r \in audit : cursor' = r.generation /\ pc' = "mark"
            BY <1>4, <2>2 DEF ReadAudit, Goto
        <3>2. UNCHANGED audit
            BY <1>4 DEF ReadAudit, dbVars
        <3> QED BY <3>1, <3>2 DEF GapInv, AuditHasNoGaps, Ingesting
    <2> QED BY <2>1, <2>2
<1>5. CASE CreateRegistryV1 \/ CreateRegistryV2
    <2>1. /\ audit = {} /\ pc' = "idle"
          /\ audit' = audit \cup {[generation |-> 0, root |-> RootAt(hist, 0)]}
        BY <1>5 DEF CreateRegistryV1, CreateRegistryV2, CreateRegistry, EndTick,
           Goto, LogInv, LogBelowCursor
    <2> QED BY <2>1 DEF GapInv, AuditHasNoGaps, Ingesting
<1>6. CASE MarkSynced
    BY <1>6, QuietGap DEF MarkSynced, EndTick, Goto
<1>7. CASE ResetAhead
    <2>1. status.generation - 2 \in Int
        BY DEF TypeInv, TypeOK, Status
    <2> QED BY <1>7, <2>1, KeepGap DEF ResetAhead, EndTick, Goto, TypeInv
<1>8. CASE FetchDiff
    BY <1>8, QuietGap DEF FetchDiff, EndTick, Goto, dbVars
<1>9. CASE CommitV1 \/ CommitV2
    <2>1. /\ pc' \in {"mirror", "hash"} /\ pc = "commit"
          /\ audit' = audit \cup {[generation |-> cursor + 1,
                                   root |-> RootAt(hist, cursor + 1)]}
        BY <1>9 DEF CommitV1, CommitV2, Commit, Goto
    <2>2. PICK p \in audit : p.generation = cursor
        BY <2>1 DEF GapInv, Ingesting
    <2>3. cursor \in Nat
        BY DEF TypeInv, TypeOK
    <2>4. ASSUME NEW r \in audit', NEW h \in 0 .. r.generation
          PROVE  \E q \in audit' : q.generation = h
        <3>1. CASE r \in audit
            BY <3>1, <2>1 DEF GapInv, AuditHasNoGaps
        <3>2. CASE r \notin audit /\ h = cursor + 1
            BY <3>2, <2>1
        <3>3. CASE r \notin audit /\ h # cursor + 1
            <4>1. r.generation = cursor + 1
                BY <3>3, <2>1
            <4>2. h \in 0 .. p.generation
                BY <3>3, <4>1, <2>2, <2>3
            <4> QED BY <4>2, <2>1 DEF GapInv, AuditHasNoGaps
        <3> QED BY <3>1, <3>2, <3>3
    <2> QED BY <2>1, <2>4 DEF GapInv, AuditHasNoGaps, Ingesting
<1>10. CASE MirrorCommit \/ UpdateHash
    BY <1>10, QuietGap DEF MirrorCommit, UpdateHash, EndTick, Goto, dbVars
<1>11. CASE Fail \/ Crash
    BY <1>11, QuietGap DEF Fail, Crash, EndTick, Goto, dbVars
<1>12. CASE ResetToGeneration
    <2>1. PICK g \in -1 .. MaxGen : audit' = KeptBy(g)
        BY <1>12 DEF ResetToGeneration
    <2>2. g \in Int /\ pc' = "idle"
        BY <1>12, <2>1, StoreConstants DEF ResetToGeneration, tickVars
    <2> QED BY <2>1, <2>2, KeepGap DEF TypeInv
<1> QED
    BY <1>1, <1>2, <1>3, <1>4, <1>5, <1>6, <1>7, <1>8, <1>9, <1>10, <1>11, <1>12
    DEF Next, Tick

\* While resets wait for the running tick, the audit log never has a gap, not
\* even across reorganisations, failed commits and crashes.
THEOREM LogHasNoGaps == (RacyResets = FALSE) /\ Spec => []AuditHasNoGaps
<1> SUFFICES ASSUME RacyResets = FALSE PROVE Spec => []AuditHasNoGaps
    OBVIOUS
<1>1. Init => LogInv /\ GapInv
    BY DEF Init, LogInv, LogBelowCursor, UniqueGenerations, Ingesting, GapInv,
       AuditHasNoGaps
<1>2. Spec => [](TypeInv /\ LogInv /\ GapInv)
    BY InitType, NextType, <1>1, NextLogInv, NextGapInv, PTL DEF Spec
<1> QED BY <1>2, PTL DEF GapInv

-----------------------------------------------------------------------------
(* A true log.  Unless the chain was reorganised the history a tick has read *)
(* is a beginning of the store's, so what it writes is still true there.     *)

\* A step that is no reorganisation only adds roots.
LEMMA HistoryGrows ==
    ASSUME reorgs' = 0, StoreTypeOK, StoreNext
    PROVE  /\ Len(history') >= Len(history)
           /\ \A i \in 1 .. Len(history) : history'[i].root = history[i].root
<1> USE DEF StoreTypeOK
<1>1. CASE Publish
    <2>1. PICK r \in Roots : history' = Append(history, [root |-> r, confirmed |-> FALSE])
        BY <1>1 DEF Publish
    <2>2. [root |-> r, confirmed |-> FALSE] \in Entry
        BY DEF Entry
    <2> QED BY <2>1, <2>2, AppendHistory
<1>2. CASE Confirm
    BY <1>2, ConfirmHistory DEF Confirm
<1>3. CASE Download
    BY <1>3 DEF Download
<1>4. CASE Reorg
    BY <1>4 DEF Reorg
<1> QED BY <1>1, <1>2, <1>3, <1>4 DEF StoreNext

\* A longer history with the same beginning keeps what the log says of it.
LEMMA StoreLog ==
    ASSUME TypeOK, LogIsOfStore,
           Len(history') >= Len(history), Len(history') \in Nat,
           \A i \in 1 .. Len(history) : history'[i].root = history[i].root,
           UNCHANGED <<audit, pc, hist, cursor>>
    PROVE  LogIsOfStore'
<1> USE DEF TypeOK, StoreTypeOK
<1>1. \A g \in 0 .. Highest(history) :
          RootAt(history', g) = RootAt(history, g) /\ g \in 0 .. Highest(history')
    BY DEF Highest, RootAt
<1>2. (RootAt(history, 0) = Empty)'
    BY <1>1 DEF LogIsOfStore, Empty, Highest
<1>3. HistIsPrefix'
    BY DEF LogIsOfStore, HistIsPrefix
<1>4. CursorBounds'
    BY <1>1 DEF LogIsOfStore, CursorBounds, Ingesting, HasGen
<1>5. AuditIsOfStore'
    BY <1>1 DEF LogIsOfStore, AuditIsOfStore, HasGen
<1> QED BY <1>2, <1>3, <1>4, <1>5 DEF LogIsOfStore

\* The steps that add nothing to the log and read no new cursor.
LEMMA QuietLog ==
    ASSUME TypeOK, LogIsOfStore, UNCHANGED history, audit' \subseteq audit,
           \/ UNCHANGED <<pc, hist, cursor>>
           \/ pc' \in {"idle", "history"}
           \/ pc = "history" /\ pc' = "status" /\ hist' = history
           \/ pc = "status" /\ pc' = "audit" /\ UNCHANGED hist
           \/ pc = "mark" /\ pc' = "check" /\ UNCHANGED <<hist, cursor>>
           \/ pc = "check" /\ pc' = "commit" /\ UNCHANGED <<hist, cursor>>
              /\ HasGen(hist, cursor + 1)
           \/ pc = "mirror" /\ pc' = "hash" /\ UNCHANGED <<hist, cursor>>
    PROVE  LogIsOfStore'
<1> USE DEF LogIsOfStore
<1>1. HistIsPrefix'
    BY DEF HistIsPrefix, TypeOK, StoreTypeOK
<1>2. CursorBounds'
    BY DEF CursorBounds, Ingesting
<1>3. AuditIsOfStore'
    BY DEF AuditIsOfStore
<1> QED BY <1>1, <1>2, <1>3

LEMMA CreateLog ==
    ASSUME TypeInv, LogIsOfStore, CreateRegistryV1 \/ CreateRegistryV2
    PROVE  LogIsOfStore'
<1>1. /\ UNCHANGED history /\ pc = "create" /\ pc' = "idle"
      /\ audit' = audit \cup {[generation |-> 0, root |-> RootAt(hist, 0)]}
    BY DEF CreateRegistryV1, CreateRegistryV2, CreateRegistry, EndTick, Goto,
       storeVars
<1>2. audit = {}
    BY <1>1 DEF LogIsOfStore, CursorBounds
<1>3. RootAt(hist, 0) = RootAt(history, 0) /\ HasGen(history, 0)
    BY <1>1 DEF LogIsOfStore, HistIsPrefix, RootAt, HasGen, Highest, TypeInv,
       TypeOK, StoreTypeOK
<1>4. AuditIsOfStore'
    BY <1>1, <1>2, <1>3 DEF AuditIsOfStore
<1> QED BY <1>1, <1>2, <1>4 DEF LogIsOfStore, HistIsPrefix, CursorBounds, Ingesting

\* The row a tick adds names the next generation of the store and its root.
LEMMA CommitLog ==
    ASSUME TypeInv, LogInv, LogIsOfStore, CommitV1 \/ CommitV2
    PROVE  /\ LogIsOfStore'
           /\ RootAt(hist, cursor) = RootAt(history, cursor)
           /\ RootAt(hist, cursor + 1) = RootAt(history, cursor + 1)
           /\ HasGen(history, cursor + 1)
<1>1. /\ UNCHANGED <<history, hist, cursor>>
      /\ pc = "commit" /\ pc' \in {"mirror", "hash"}
      /\ audit' = audit \cup {[generation |-> cursor + 1,
                               root |-> RootAt(hist, cursor + 1)]}
    BY DEF CommitV1, CommitV2, Commit, Goto, storeVars
<1>2. /\ cursor \in Nat /\ Len(history) \in Nat /\ Len(hist) \in Nat
      /\ \A r \in audit : r.generation \in Nat /\ r.generation <= cursor
    BY <1>1 DEF TypeInv, TypeOK, StoreTypeOK, AuditRow, LogInv, LogBelowCursor,
       Ingesting
<1>3. HasGen(hist, cursor + 1) /\ HasGen(hist, cursor)
    BY <1>1, <1>2 DEF LogIsOfStore, CursorBounds, HasGen, Highest
<1>4. /\ RootAt(hist, cursor + 1) = RootAt(history, cursor + 1)
      /\ RootAt(hist, cursor) = RootAt(history, cursor)
      /\ HasGen(history, cursor + 1)
    BY <1>1, <1>2, <1>3 DEF LogIsOfStore, HistIsPrefix, RootAt, HasGen, Highest
<1>5. HistIsPrefix' /\ CursorBounds'
    BY <1>1, <1>3 DEF LogIsOfStore, HistIsPrefix, CursorBounds, Ingesting
<1>6. AuditIsOfStore'
    BY <1>1, <1>4 DEF LogIsOfStore, AuditIsOfStore
<1> QED BY <1>1, <1>4, <1>5, <1>6 DEF LogIsOfStore

LEMMA ReadAuditLog ==
    ASSUME TypeInv, LogIsOfStore, ReadAudit
    PROVE  LogIsOfStore'
<1>1. /\ UNCHANGED <<history, audit, hist>>
      /\ pc = "audit" /\ pc' \in {"create", "mark"}
      /\ pc' = "create" => audit = {}
      /\ pc' = "mark" => \E r \in audit : IsLatest(r) /\ cursor' = r.generation
    BY DEF ReadAudit, Goto, storeVars, dbVars
<1>2. HistIsPrefix'
    BY <1>1 DEF LogIsOfStore, HistIsPrefix
<1>3. CursorBounds'
    BY <1>1 DEF LogIsOfStore, CursorBounds, AuditIsOfStore, Ingesting, IsLatest
<1> QED BY <1>1, <1>2, <1>3 DEF LogIsOfStore, AuditIsOfStore

LEMMA NextLog ==
    ASSUME reorgs' = 0, TypeInv, LogInv, LogIsOfStore, [Next]_vars
    PROVE  LogIsOfStore'
<1> USE DEF TypeInv
<1>1. CASE Store
    <2>1. Len(history') \in Nat
        BY <1>1, StoreStepType DEF Store, TypeOK, StoreTypeOK
    <2> QED BY <1>1, <2>1, HistoryGrows, StoreLog
            DEF Store, SyncUnchanged, dbVars, tickVars, TypeOK
<1>2. CASE StartTickV1 \/ StartTickV2
    BY <1>2, QuietLog DEF StartTickV1, StartTickV2, Goto, storeVars, dbVars
<1>3. CASE ReadHistory
    BY <1>3, QuietLog DEF ReadHistory, Goto, storeVars, dbVars
<1>4. CASE ReadStatus
    BY <1>4, QuietLog DEF ReadStatus, EndTick, Goto, storeVars, dbVars
<1>5. CASE ReadAudit
    BY <1>5, ReadAuditLog
<1>6. CASE CreateRegistryV1 \/ CreateRegistryV2
    BY <1>6, CreateLog
<1>7. CASE MarkSynced
    BY <1>7, QuietLog DEF MarkSynced, EndTick, Goto, storeVars
<1>8. CASE ResetAhead
    BY <1>8, QuietLog DEF ResetAhead, KeptBy, EndTick, Goto, storeVars
<1>9. CASE FetchDiff
    BY <1>9, QuietLog DEF FetchDiff, Ingestible, EndTick, Goto, storeVars, dbVars
<1>10. CASE CommitV1 \/ CommitV2
    BY <1>10, CommitLog
<1>11. CASE MirrorCommit \/ UpdateHash
    BY <1>11, QuietLog DEF MirrorCommit, UpdateHash, EndTick, Goto, storeVars, dbVars
<1>12. CASE Prune
    BY <1>12, QuietLog DEF Prune, storeVars, tickVars
<1>13. CASE Fail \/ Crash
    BY <1>13, QuietLog DEF Fail, Crash, EndTick, Goto, storeVars, dbVars
<1>14. CASE ResetToGeneration
    BY <1>14, QuietLog DEF ResetToGeneration, KeptBy, storeVars, tickVars
<1>15. CASE UNCHANGED vars
    BY <1>15, QuietLog DEF vars, storeVars, dbVars, tickVars
<1> QED
    BY <1>1, <1>2, <1>3, <1>4, <1>5, <1>6, <1>7, <1>8, <1>9, <1>10, <1>11,
       <1>12, <1>13, <1>14, <1>15 DEF Next, Tick

\* Nothing takes a reorganisation back.
LEMMA NoReorgBefore ==
    ASSUME TypeInv, reorgs' = 0, [Next]_vars
    PROVE  reorgs = 0
<1>1. reorgs \in Nat
    BY StoreConstants DEF TypeInv, TypeOK, StoreTypeOK
<1>2. CASE Store
    BY <1>1, <1>2 DEF Store, StoreNext, Publish, Confirm, Download, Reorg
<1>3. CASE ~Store
    BY <1>3 DEF Next, vars, storeVars, Tick, StartTickV1, StartTickV2, ReadHistory,
       ReadStatus, ReadAudit, CreateRegistryV1, CreateRegistryV2, CreateRegistry,
       MarkSynced, ResetAhead, FetchDiff, CommitV1, CommitV2, Commit, MirrorCommit,
       UpdateHash, Prune, Fail, Crash, ResetToGeneration
<1> QED BY <1>2, <1>3

LEMMA InitLog == Init => LogIsOfStore
<1> SUFFICES ASSUME Init PROVE LogIsOfStore
    OBVIOUS
<1> USE DEF Init, StoreInit
<1>1. Len(history) = 1 /\ RootAt(history, 0) = Empty
    BY DEF RootAt
<1> QED BY <1>1 DEF LogIsOfStore, HistIsPrefix, CursorBounds, Ingesting, AuditIsOfStore

LEMMA LogHolds == Spec => [](TypeInv /\ LogInv /\ LogOfStoreInv)
<1>1. Init => LogInv
    BY DEF Init, LogInv, LogBelowCursor, UniqueGenerations, Ingesting
<1>2. Init => LogOfStoreInv
    BY InitLog DEF LogOfStoreInv
<1>3. TypeInv /\ LogInv /\ LogOfStoreInv /\ [Next]_vars => LogOfStoreInv'
    BY NoReorgBefore, NextLog DEF LogOfStoreInv
<1> QED BY InitType, NextType, <1>1, NextLogInv, <1>2, <1>3, PTL DEF Spec

\* Unless the chain was reorganised, every audit row names a generation of the
\* store with its root, although the tick writes from a history it read
\* several awaits ago.
THEOREM LogMatchesStore == Spec => []AuditMatchesStore
<1>1. LogOfStoreInv => AuditMatchesStore
    BY DEF LogOfStoreInv, LogIsOfStore, AuditMatchesStore
<1> QED BY <1>1, LogHolds, PTL

-----------------------------------------------------------------------------
(* Convergence.  Replay says of every key that its row is one the store      *)
(* had at some generation the log has not passed; when the log is at the tip *)
(* only the tip is left.                                                     *)

LEMMA AsOfEarlier ==
    ASSUME NEW k, NEW g \in Nat, NEW h \in Nat, g <= h, TypeOK, AsOf(k, h)
    PROVE  AsOf(k, g)
BY DEF AsOf, Highest, TypeOK, StoreTypeOK

\* A longer history keeps the tables' rows among those of the store.
LEMMA StoreReplay ==
    ASSUME TypeOK, Replay,
           Len(history') >= Len(history), Len(history') \in Nat,
           \A i \in 1 .. Len(history) : history'[i].root = history[i].root,
           UNCHANGED <<audit, rows, pc, cursor, pruning>>
    PROVE  RowsAreOf' /\ PruningIsEarly'
<1> USE DEF TypeOK, StoreTypeOK
<1>1. \A g \in 0 .. Highest(history) :
          RootAt(history', g) = RootAt(history, g) /\ g \in 0 .. Highest(history')
    BY DEF Highest, RootAt
<1>2. ASSUME NEW k \in Keys, NEW g \in Nat, AsOf(k, g)
      PROVE  AsOf(k, g)'
    <2>1. PICK j \in g .. Highest(history) : rows[k] = RootAt(history, j)[k]
        BY <1>2 DEF AsOf
    <2>2. j \in 0 .. Highest(history)
        BY <2>1 DEF Highest
    <2>3. j \in g .. Highest(history') /\ rows'[k] = RootAt(history', j)[k]
        BY <2>1, <2>2, <1>1 DEF Highest
    <2> QED BY <2>3 DEF AsOf
<1>3. RowsAreOf'
    <2>1. \A r \in audit : r.generation \in Nat
        BY DEF AuditRow
    <2> QED BY <1>2, <2>1 DEF Replay, RowsAreOf, Ingesting
<1>4. PruningIsEarly'
    BY DEF Replay, PruningIsEarly
<1> QED BY <1>3, <1>4

\* Steps that add nothing to the log or the tables and read no new cursor.
LEMMA QuietReplay ==
    ASSUME TypeOK, Replay, UNCHANGED <<history, rows>>,
           audit' \subseteq audit, pruning' \subseteq pruning,
           \/ UNCHANGED <<pc, cursor>>
           \/ pc' = "idle"
           \/ pc = "idle" /\ pc' = "history" /\ pruning = {}
           \/ pc = "mirror" /\ pc' = "hash"
           \/ pc \in {"history", "status"} /\ pc' \in {"status", "audit"}
           \/ pc \in {"mark", "check"} /\ pc' \in {"check", "commit"} /\ UNCHANGED cursor
    PROVE  RowsAreOf' /\ PruningIsEarly'
<1> USE DEF Replay
<1>1. RowsAreOf'
    BY DEF RowsAreOf, AsOf, Ingesting
<1>2. PruningIsEarly'
    BY DEF PruningIsEarly
<1> QED BY <1>1, <1>2

\* Replaying one generation brings every key to that generation or later.
LEMMA CommitReplay ==
    ASSUME TypeInv, LogInv, Replay, CommitV1 \/ CommitV2
    PROVE  RowsAreOf' /\ PruningIsEarly'
<1> DEFINE new == RootAt(hist, cursor + 1)
           old == RootAt(hist, cursor)
<1>1. /\ UNCHANGED <<history, hist, cursor, pruning>>
      /\ pc = "commit" /\ pc' \in {"mirror", "hash"}
      /\ audit' = audit \cup {[generation |-> cursor + 1, root |-> new]}
      /\ rows' = Patched(rows, old, new)
    BY DEF CommitV1, CommitV2, Commit, Goto, storeVars
<1>2. /\ cursor \in Nat /\ Len(history) \in Nat
      /\ \A r \in audit : r.generation \in Nat /\ r.generation <= cursor
    BY <1>1 DEF TypeInv, TypeOK, StoreTypeOK, AuditRow, LogInv, LogBelowCursor,
       Ingesting
<1>3. /\ new = RootAt(history, cursor + 1) /\ old = RootAt(history, cursor)
      /\ HasGen(history, cursor + 1)
    BY CommitLog DEF Replay
<1> HIDE DEF new, old
<1>4. PruningIsEarly'
    BY <1>1 DEF Replay, PruningIsEarly
<1>5. ASSUME NEW k \in Keys
      PROVE  AsOf(k, cursor + 1)'
    <2>1. PICK j \in cursor .. Highest(history) : rows[k] = RootAt(history, j)[k]
        BY <1>1 DEF Replay, RowsAreOf, AsOf, Ingesting
    <2>2. cursor + 1 \in cursor + 1 .. Highest(history)
        BY <1>2, <1>3 DEF HasGen, Highest
    <2>3. rows'[k] = IF old[k] = new[k] THEN rows[k] ELSE new[k]
        BY <1>1 DEF Patched
    <2>4. CASE old[k] = new[k] /\ j # cursor
        <3>1. j \in cursor + 1 .. Highest(history)
            BY <2>4, <1>2 DEF Highest
        <3> QED BY <2>4, <2>1, <2>3, <3>1, <1>1 DEF AsOf
    <2>5. CASE old[k] # new[k] \/ j = cursor
        <3>1. rows'[k] = RootAt(history, cursor + 1)[k]
            BY <2>5, <2>1, <2>3, <1>3
        <3> QED BY <3>1, <2>2, <1>1 DEF AsOf
    <2> QED BY <2>4, <2>5
<1>6. \A k \in Keys, g \in Nat : g <= cursor + 1 => AsOf(k, g)'
    BY <1>1, <1>2, <1>5 DEF AsOf, Highest
<1>7. \A r \in audit' : r.generation \in Nat /\ r.generation <= cursor + 1
    BY <1>1, <1>2
<1>8. RowsAreOf'
    BY <1>1, <1>2, <1>6, <1>7 DEF RowsAreOf, Ingesting
<1> QED BY <1>4, <1>8

LEMMA PruneReplay ==
    ASSUME TypeInv, Replay, Prune
    PROVE  RowsAreOf' /\ PruningIsEarly'
<1>1. PICK k \in pruning : /\ rows' = [rows EXCEPT ![k] = NoRow]
                           /\ pruning' = pruning \ {k}
    BY DEF Prune
<1>2. UNCHANGED <<history, audit, pc, cursor>>
    BY DEF Prune, storeVars, tickVars
<1>3. pc = "idle" /\ \A r \in audit : r.generation = 0
    BY <1>1 DEF Replay, PruningIsEarly
<1>4. ASSUME NEW x \in Keys PROVE AsOf(x, 0)'
    <2>1. CASE x = k
        <3>1. rows'[x] = NoRow
            BY <1>1, <2>1 DEF TypeInv, TypeOK, Roots
        <3>2. RootAt(history', 0)[x] = NoRow
            BY <1>2 DEF Replay, LogIsOfStore, Empty
        <3>3. 0 \in 0 .. Highest(history')
            BY <1>2 DEF Highest, TypeInv, TypeOK, StoreTypeOK
        <3> QED BY <3>1, <3>2, <3>3 DEF AsOf
    <2>2. CASE x # k
        BY <2>2, <1>1, <1>2 DEF Replay, RowsAreOf, AsOf, TypeInv, TypeOK, Roots
    <2> QED BY <2>1, <2>2
<1>5. RowsAreOf'
    BY <1>2, <1>3, <1>4 DEF RowsAreOf, Ingesting
<1> QED BY <1>1, <1>2, <1>3, <1>5 DEF PruningIsEarly

LEMMA ReadAuditReplay ==
    ASSUME TypeInv, Replay, ReadAudit
    PROVE  RowsAreOf' /\ PruningIsEarly'
<1>1. /\ UNCHANGED <<history, rows, audit, pruning>>
      /\ pc = "audit" /\ pc' \in {"create", "mark"}
      /\ pc' = "mark" => \E r \in audit : IsLatest(r) /\ cursor' = r.generation
    BY DEF ReadAudit, Goto, storeVars, dbVars
<1>2. PruningIsEarly'
    BY <1>1 DEF Replay, PruningIsEarly
<1>3. RowsAreOf'
    BY <1>1 DEF Replay, RowsAreOf, AsOf, Ingesting
<1> QED BY <1>2, <1>3

\* Both versions' CREATE REGISTRY end a tick that found an empty log.
LEMMA CreateReplay ==
    ASSUME TypeInv, Replay, CreateRegistryV1 \/ CreateRegistryV2
    PROVE  RowsAreOf' /\ PruningIsEarly'
<1>1. /\ UNCHANGED <<history, rows>> /\ pc = "create" /\ pc' = "idle"
      /\ audit' = audit \cup {[generation |-> 0, root |-> RootAt(hist, 0)]}
    BY DEF CreateRegistryV1, CreateRegistryV2, CreateRegistry, EndTick, Goto,
       storeVars
<1>2. audit = {}
    BY <1>1 DEF Replay, LogIsOfStore, CursorBounds
<1>3. RowsAreOf'
    BY <1>1, <1>2 DEF Replay, RowsAreOf, AsOf, Ingesting
<1> QED BY <1>1, <1>2, <1>3 DEF PruningIsEarly

LEMMA NextReplay ==
    ASSUME reorgs' = 0, PrunesLate = FALSE,
           TypeInv, Replay, LogInv, [Next]_vars
    PROVE  RowsAreOf' /\ PruningIsEarly'
<1> USE DEF TypeInv
<1>1. CASE Store
    <2>1. Len(history') \in Nat
        BY <1>1, StoreStepType DEF Store, TypeOK, StoreTypeOK
    <2> QED BY <1>1, <2>1, HistoryGrows, StoreReplay
            DEF Store, SyncUnchanged, dbVars, tickVars, TypeOK
<1>2. CASE StartTickV1 \/ StartTickV2
    BY <1>2, QuietReplay DEF StartTickV1, StartTickV2, TickDue, Goto, storeVars,
       dbVars
<1>3. CASE ReadHistory
    BY <1>3, QuietReplay DEF ReadHistory, Goto, storeVars, dbVars
<1>4. CASE ReadStatus
    BY <1>4, QuietReplay DEF ReadStatus, EndTick, Goto, storeVars, dbVars
<1>5. CASE ReadAudit
    BY <1>5, ReadAuditReplay
<1>6. CASE CreateRegistryV1 \/ CreateRegistryV2
    BY <1>6, CreateReplay
<1>7. CASE MarkSynced
    BY <1>7, QuietReplay DEF MarkSynced, EndTick, Goto, storeVars
<1>8. CASE ResetAhead
    BY <1>8, QuietReplay DEF ResetAhead, KeptBy, EndTick, Goto, storeVars
<1>9. CASE FetchDiff
    BY <1>9, QuietReplay DEF FetchDiff, Ingestible, EndTick, Goto, storeVars, dbVars
<1>10. CASE CommitV1 \/ CommitV2
    BY <1>10, CommitReplay
<1>11. CASE MirrorCommit \/ UpdateHash
    BY <1>11, QuietReplay DEF MirrorCommit, UpdateHash, EndTick, Goto, storeVars,
       dbVars
<1>12. CASE Prune
    BY <1>12, PruneReplay
<1>13. CASE Fail \/ Crash
    BY <1>13, QuietReplay DEF Fail, Crash, EndTick, Goto, storeVars, dbVars
<1>14. CASE ResetToGeneration
    BY <1>14, QuietReplay DEF ResetToGeneration, KeptBy, storeVars, tickVars
<1>15. CASE UNCHANGED vars
    BY <1>15, QuietReplay DEF vars, storeVars, dbVars, tickVars
<1> QED
    BY <1>1, <1>2, <1>3, <1>4, <1>5, <1>6, <1>7, <1>8, <1>9, <1>10, <1>11,
       <1>12, <1>13, <1>14, <1>15 DEF Next, Tick

LEMMA InitReplay == Init => Replay
<1> SUFFICES ASSUME Init PROVE Replay
    OBVIOUS
<1>1. \A k \in Keys : AsOf(k, 0)
    BY DEF Init, StoreInit, AsOf, Highest, RootAt
<1> QED BY <1>1, InitLog DEF Init, Replay, Ingesting, RowsAreOf, PruningIsEarly

LEMMA NextReplayInv ==
    ASSUME PrunesLate = FALSE, TypeInv, LogInv, ReplayInv, [Next]_vars
    PROVE  ReplayInv'
<1> SUFFICES ASSUME reorgs' = 0 PROVE Replay'
    BY DEF ReplayInv
<1>1. Replay
    BY NoReorgBefore DEF ReplayInv
<1> QED BY <1>1, NextLog, NextReplay DEF Replay

\* The invariant convergence rests on.
THEOREM ReplayIsInvariant == (PrunesLate = FALSE) /\ Spec => []ReplayInv
<1> SUFFICES ASSUME PrunesLate = FALSE PROVE Spec => []ReplayInv
    OBVIOUS
<1>1. Init => LogInv
    BY DEF Init, LogInv, LogBelowCursor, UniqueGenerations, Ingesting
<1>2. Init => ReplayInv
    BY InitReplay DEF ReplayInv
<1> QED BY InitType, NextType, <1>1, NextLogInv, <1>2, NextReplayInv, PTL
        DEF Spec

\* A log at the tip means data tables equal to the store's newest root, through
\* resets that replay old differences over newer rows, failed ticks and
\* crashes, racy or not, unless the chain was reorganised.
THEOREM TablesConverge == (PrunesLate = FALSE) /\ Spec => []RowsConverge
<1> SUFFICES ASSUME PrunesLate = FALSE PROVE Spec => []RowsConverge
    OBVIOUS
<1>1. TypeInv /\ ReplayInv => RowsConverge
    <2> SUFFICES ASSUME TypeInv, Replay, AuditAtTip
                 PROVE  rows = RootAt(history, Highest(history))
        BY DEF RowsConverge, ReplayInv
    <2> DEFINE tip == Highest(history)
    <2>1. tip \in 0 .. Len(history) - 1 /\ tip \in Int
        BY DEF Highest, TypeInv, TypeOK, StoreTypeOK
    <2>2. RootAt(history, tip) \in Roots /\ rows \in Roots
        BY <2>1, RootType DEF TypeInv, TypeOK, StoreTypeOK
    <2>3. \A k \in Keys : AsOf(k, tip)
        BY DEF Replay, RowsAreOf, AuditAtTip
    <2>4. ASSUME NEW k \in Keys PROVE rows[k] = RootAt(history, tip)[k]
        <3>1. PICK j \in tip .. tip : rows[k] = RootAt(history, j)[k]
            BY <2>3 DEF AsOf
        <3>2. j = tip
            BY <2>1
        <3> QED BY <3>1, <3>2
    <2> QED BY <2>2, <2>4 DEF Roots
<1>2. Spec => []TypeInv
    BY InitType, NextType, PTL DEF Spec
<1> QED BY <1>1, <1>2, ReplayIsInvariant, PTL
-----------------------------------------------------------------------------
(* Refinement.  The audit table, read by generation, is a copy of the        *)
(* beginning of the root history; so is it after every step, and a step      *)
(* lengthens the copy by one generation at most.                             *)

SmallerThan == {pair \in Nat \X Nat : pair[1] < pair[2]}

\* Every set of naturals that is not empty has a least element.
LEMMA LeastNat ==
    ASSUME NEW S \in SUBSET Nat, S # {}
    PROVE  \E x \in S : \A y \in S : x <= y
<1>1. IsWellFoundedOn(SmallerThan, Nat)
    BY NatLessThanWellFounded DEF OpToRel, SmallerThan
<1>2. \E x \in S : \A y \in S : ~ (<<y, x>> \in SmallerThan)
    BY <1>1, WFMin
<1>3. \A x, y \in S : y < x => <<y, x>> \in SmallerThan
    BY DEF SmallerThan
<1>4. \A x, y \in Nat : y < x \/ x <= y
    OBVIOUS
<1> QED BY <1>2, <1>3, <1>4

\* What the proofs above found of a log A and a history h, once resets wait.
LogOf(A, h) ==
    /\ A \subseteq AuditRow /\ h \in Seq(Entry)
    /\ \A q, r \in A : q.generation = r.generation => q = r
    /\ \A r \in A : \A g \in 0 .. r.generation : \E q \in A : q.generation = g
    /\ \A r \in A : HasGen(h, r.generation) /\ r.root = RootAt(h, r.generation)

\* The table read by generation, as the refinement reads it.
Copy(A)         == [i \in 1 .. Cardinality(A) |->
                       (CHOOSE r \in A : r.generation = i - 1).root]
RootsUpTo(h, n) == [i \in 1 .. n |-> h[i].root]

\* A log of the store without gaps or doubles has the generations below some n.
LEMMA LogReach ==
    ASSUME NEW A, NEW h, LogOf(A, h)
    PROVE  \E n \in 0 .. Len(h) :
              /\ \A r \in A : r.generation \in 0 .. n - 1
              /\ \A g \in 0 .. n - 1 : \E r \in A : r.generation = g
<1> DEFINE missing == {g \in Nat : \A r \in A : r.generation # g}
<1>1. /\ Len(h) \in Nat
      /\ \A r \in A : r.generation \in Nat /\ r.generation < Len(h)
    BY DEF LogOf, AuditRow, HasGen, Highest
<1>2. missing \in SUBSET Nat /\ Len(h) \in missing
    BY <1>1
<1>3. PICK n \in missing : \A g \in missing : n <= g
    BY <1>2, LeastNat
<1>4. n \in Nat /\ n <= Len(h) /\ \A r \in A : r.generation # n
    BY <1>2, <1>3
<1>5. ASSUME NEW r \in A PROVE r.generation < n
    BY <1>1, <1>4 DEF LogOf
<1>6. ASSUME NEW g \in 0 .. n - 1 PROVE \E r \in A : r.generation = g
    BY <1>3, <1>4
<1> QED BY <1>1, <1>4, <1>5, <1>6

\* Such a table is finite, and what the refinement reads is a copy.
LEMMA LogIsCopy ==
    ASSUME NEW A, NEW h, LogOf(A, h)
    PROVE  /\ IsFiniteSet(A)
           /\ Cardinality(A) \in 0 .. Len(h)
           /\ Copy(A) = RootsUpTo(h, Cardinality(A))
<1>1. PICK n \in 0 .. Len(h) :
              /\ \A r \in A : r.generation \in 0 .. n - 1
              /\ \A g \in 0 .. n - 1 : \E r \in A : r.generation = g
    BY LogReach
<1>2. Len(h) \in Nat /\ n \in Nat
    BY DEF LogOf
<1> DEFINE row == [i \in 1 .. n |-> CHOOSE r \in A : r.generation = i - 1]
<1>3. ASSUME NEW i \in 1 .. n
      PROVE  row[i] \in A /\ row[i].generation = i - 1
    <2>1. \E r \in A : r.generation = i - 1
        BY <1>1, <1>2
    <2> QED BY <2>1
<1>4. \A r \in A : \E i \in 1 .. n : row[i] = r
    <2> TAKE r \in A
    <2> DEFINE i == r.generation + 1
    <2>1. i \in 1 .. n /\ i - 1 = r.generation
        BY <1>1, <1>2
    <2> HIDE DEF i, row
    <2>2. row[i] \in A /\ row[i].generation = r.generation
        BY <1>3, <2>1
    <2>3. row[i] = r
        BY <2>2 DEF LogOf
    <2> QED BY <2>1, <2>3
<1>5. \A i, j \in 1 .. n : row[i] = row[j] => i = j
    <2> TAKE i \in 1 .. n, j \in 1 .. n
    <2> HIDE DEF row
    <2>1. row[i].generation = i - 1 /\ row[j].generation = j - 1
        BY <1>3
    <2> QED BY <2>1, <1>2
<1>6. row \in [1 .. n -> A]
    BY <1>3
<1>7. Cardinality(A) = n => Copy(A) = [i \in 1 .. n |-> row[i].root]
    BY DEF Copy
<1> HIDE DEF row
<1>8. ExistsBijection(1 .. n, A)
    BY <1>4, <1>5, <1>6 DEF ExistsBijection, Bijection, Injection, Surjection,
       IsInjective
<1>9. IsFiniteSet(1 .. n) /\ Cardinality(1 .. n) = n
    BY <1>2, FS_Interval
<1>10. IsFiniteSet(A) /\ Cardinality(A) = n
    BY <1>8, <1>9, FS_Bijection
<1>11. ASSUME NEW i \in 1 .. n PROVE row[i].root = h[i].root
    <2>1. row[i].root = RootAt(h, i - 1)
        BY <1>3 DEF LogOf
    <2> QED BY <2>1, <1>2 DEF RootAt
<1> QED BY <1>1, <1>2, <1>7, <1>10, <1>11 DEF RootsUpTo

\* What a step may do to the log and to the roots of the store.
LEMMA StepGrowth ==
    ASSUME TypeInv, reorgs' = 0, [Next]_vars
    PROVE  \/ /\ UNCHANGED audit
              /\ \E r \in Roots, c \in BOOLEAN :
                    history' = Append(history, [root |-> r, confirmed |-> c])
           \/ /\ Len(history') = Len(history)
              /\ \A i \in 1 .. Len(history) : history'[i].root = history[i].root
              /\ \E x : audit' \subseteq audit \cup {x}
<1> USE DEF TypeInv
<1>1. CASE Store
    <2>1. UNCHANGED audit
        BY <1>1 DEF Store, SyncUnchanged, dbVars
    <2>2. CASE Publish
        BY <2>1, <2>2 DEF Publish
    <2>3. CASE Confirm
        BY <2>1, <2>3, ConfirmHistory DEF Confirm, TypeOK, StoreTypeOK
    <2>4. CASE Download
        BY <2>1, <2>4 DEF Download
    <2>5. CASE Reorg
        BY <2>5 DEF Reorg, TypeOK, StoreTypeOK
    <2> QED BY <1>1, <2>2, <2>3, <2>4, <2>5 DEF Store, StoreNext
<1>2. CASE ~Store
    <2>1. UNCHANGED history
        BY <1>2 DEF Next, vars, storeVars, Tick, StartTickV1, StartTickV2,
           ReadHistory, ReadStatus, ReadAudit, CreateRegistryV1, CreateRegistryV2,
           CreateRegistry, MarkSynced, ResetAhead, FetchDiff, CommitV1, CommitV2,
           Commit, MirrorCommit, UpdateHash, Prune, Fail, Crash, ResetToGeneration
    <2>2. \E x : audit' \subseteq audit \cup {x}
        <3>1. CASE CreateRegistryV1 \/ CreateRegistryV2
            BY <3>1 DEF CreateRegistryV1, CreateRegistryV2, CreateRegistry
        <3>2. CASE CommitV1 \/ CommitV2
            BY <3>2 DEF CommitV1, CommitV2, Commit
        <3>3. CASE ResetAhead \/ ResetToGeneration
            BY <3>3 DEF ResetAhead, ResetToGeneration, KeptBy
        <3>4. CASE UNCHANGED audit
            BY <3>4
        <3> QED BY <1>2, <3>1, <3>2, <3>3, <3>4 DEF Next, vars, dbVars, Tick,
                StartTickV1, StartTickV2, ReadHistory, ReadStatus, ReadAudit,
                MarkSynced, FetchDiff, MirrorCommit, UpdateHash, Prune, Fail, Crash
    <2> QED BY <2>1, <2>2
<1> QED BY <1>1, <1>2

\* Two beginnings of the same roots, of which the second is at most one longer,
\* are one step of the abstract log apart.
LEMMA CopiesApart ==
    ASSUME NEW h, NEW N \in Nat, NEW n \in 0 .. N, NEW m \in 0 .. N, m <= n + 1,
           NEW P, P = RootsUpTo(h, N), NEW L, L = RootsUpTo(h, n),
           NEW M, M = RootsUpTo(h, m)
    PROVE  \/ M = L
           \/ Len(L) < Len(P) /\ M = Append(L, P[Len(L) + 1])
           \/ \E k \in 0 .. Len(L) - 1 : M = SubSeq(L, 1, k)
<1>1. CASE m = n
    BY <1>1
<1>2. CASE m = n + 1
    BY <1>2 DEF RootsUpTo
<1>3. CASE m < n
    <2>1. Len(L) = n /\ m \in 0 .. Len(L) - 1
        BY <1>3 DEF RootsUpTo
    <2>2. M = SubSeq(L, 1, m)
        BY <1>3 DEF RootsUpTo
    <2> QED BY <2>1, <2>2
<1> QED BY <1>1, <1>2, <1>3

LEMMA LogStep ==
    ASSUME LogOf(audit, history), LogOf(audit', history'),
           TypeInv, reorgs' = 0, [Next]_vars
    PROVE  Log!LogNext \/ UNCHANGED Log!logVars
<1> DEFINE n == Cardinality(audit)
           m == Cardinality(audit')
           N == Len(history)
           P == RootsUpTo(history, N)
           L == RootsUpTo(history, n)
<1>1. /\ IsFiniteSet(audit) /\ n \in 0 .. N /\ Copy(audit) = L
      /\ IsFiniteSet(audit') /\ m \in 0 .. Len(history')
      /\ Copy(audit') = RootsUpTo(history', m)
    BY LogIsCopy
<1>2. N \in Nat /\ history \in Seq(Entry)
    BY DEF TypeInv, TypeOK, StoreTypeOK
<1>3. CASE /\ UNCHANGED audit
           /\ \E r \in Roots, c \in BOOLEAN :
                 history' = Append(history, [root |-> r, confirmed |-> c])
    <2>1. PICK r \in Roots, c \in BOOLEAN :
              history' = Append(history, [root |-> r, confirmed |-> c])
        BY <1>3
    <2>2. RootsUpTo(history', Len(history')) = Append(P, r)
        BY <2>1, <1>2 DEF RootsUpTo
    <2>3. Log!Extend
        BY <1>3, <2>2 DEF Log!Extend, RootsUpTo
    <2> QED BY <2>3 DEF Log!LogNext
<1>4. CASE /\ Len(history') = Len(history)
           /\ \A i \in 1 .. Len(history) : history'[i].root = history[i].root
           /\ \E x : audit' \subseteq audit \cup {x}
    <2>1. RootsUpTo(history', Len(history')) = P
        BY <1>4, <1>2 DEF RootsUpTo
    <2>2. m <= n + 1
        <3>1. PICK x : audit' \subseteq audit \cup {x}
            BY <1>4
        <3>2. /\ IsFiniteSet(audit \cup {x})
              /\ Cardinality(audit \cup {x}) = IF x \in audit THEN n ELSE n + 1
            BY <1>1, FS_AddElement
        <3>3. m <= Cardinality(audit \cup {x})
            BY <3>1, <3>2, FS_Subset
        <3> QED BY <1>1, <1>2, <3>2, <3>3
    <2>3. Copy(audit') = RootsUpTo(history, m)
        BY <1>1, <1>2, <1>4 DEF RootsUpTo
    <2> DEFINE M == RootsUpTo(history, m)
    <2>4. \/ M = L
          \/ Len(L) < Len(P) /\ M = Append(L, P[Len(L) + 1])
          \/ \E k \in 0 .. Len(L) - 1 : M = SubSeq(L, 1, k)
        <3>1. n \in 0 .. N /\ m \in 0 .. N
            BY <1>1, <1>4
        <3> HIDE DEF n, m, N
        <3> QED BY <1>2, <2>2, <3>1, CopiesApart
    <2>5. /\ [i \in 1 .. Len(history) |-> history[i].root] = P
          /\ [i \in 1 .. Len(history') |-> history'[i].root] = P
          /\ Copy(audit) = L /\ Copy(audit') = M
        BY <1>1, <2>1, <2>3 DEF RootsUpTo
    <2> HIDE DEF P, L, M, n, m, N
    <2> QED BY <2>4, <2>5 DEF Log!LogNext, Log!Ingest, Log!Rewind, Log!logVars, Copy
<1> QED BY <1>3, <1>4, StepGrowth

LEMMA LogStart == Init => Log!LogInit
<1> SUFFICES ASSUME Init PROVE Log!LogInit
    OBVIOUS
<1>1. history = <<[root |-> Empty, confirmed |-> TRUE]>> /\ audit = {}
    BY DEF Init, StoreInit
<1>2. Cardinality(audit) = 0
    BY <1>1, FS_EmptySet
<1>3. [i \in 1 .. Len(history) |-> history[i].root] = <<Empty>>
    BY <1>1
<1>4. Copy(audit) = <<>>
    BY <1>2 DEF Copy
<1> QED BY <1>3, <1>4 DEF Log!LogInit, Copy

\* While the store is not reorganised and resets wait for the running tick, the
\* audit table is, at every step, a beginning of the root history: it takes the
\* next generation, is cut from its end, or is left alone.
THEOREM LogIsImplemented ==
    (RacyResets = FALSE) /\ (MaxReorgs = 0) /\ Spec => Log!LogSafe
<1> SUFFICES ASSUME RacyResets = FALSE, MaxReorgs = 0
             PROVE  Spec => Log!LogSafe
    OBVIOUS
<1> DEFINE Whole == TypeInv /\ reorgs = 0 /\ LogOf(audit, history)
<1>1. Spec => []AuditHasNoGaps
    BY LogHasNoGaps
<1>2. TypeInv /\ LogInv /\ LogOfStoreInv /\ AuditHasNoGaps => Whole
    <2>1. TypeInv => reorgs = 0
        BY DEF TypeInv, TypeOK, StoreTypeOK
    <2> QED BY <2>1 DEF TypeInv, TypeOK, StoreTypeOK, LogInv, UniqueGenerations,
            LogOfStoreInv, LogIsOfStore, AuditIsOfStore, AuditHasNoGaps, LogOf
<1>3. Whole /\ Whole' /\ [Next]_vars => [Log!LogNext]_(Log!logVars)
    BY LogStep
<1> HIDE DEF Whole
<1> QED BY <1>1, LogHolds, <1>2, <1>3, LogStart, PTL DEF Spec, Log!LogSafe
=============================================================================
