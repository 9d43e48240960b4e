---------------------------- MODULE RegistrySync ----------------------------
(***************************************************************************)
(* The sync-registries task for one subscribed organization, in its V1     *)
(* (src/src/tasks/sync-registries.js) and V2 (sync-registries-v2.js)       *)
(* forms.  Every tick reads the store's root history and sync status,      *)
(* compares them with the newest row of the audit table, and ingests at    *)
(* most one generation: the rows of the difference and one audit row, in   *)
(* one SQLite transaction.  A mutex keeps ticks from overlapping, but      *)
(* between the awaits of a tick the store moves, the audit API deletes     *)
(* audit rows, and the process dies.                                       *)
(***************************************************************************)
EXTENDS DataLayerStore

CONSTANTS
    Version,      \* "v1" or "v2"
    IsHome,       \* the organization is this node's own (homeOrg)
    PrunesLate,   \* un-awaited destroys may outlast the 5 s task interval
    RacyResets,   \* POST audit/resetToGeneration may land inside a tick
    MaxResets,    \* bound: calls of the audit reset API
    MaxFaults,    \* bound: crashes, failed RPCs and failed transactions
    MaxIncidents  \* bound: after so many resets, faults and reorganisations no
                  \* further reset or fault

ASSUME SyncConstants ==
    /\ Version \in {"v1", "v2"}
    /\ IsHome \in BOOLEAN /\ PrunesLate \in BOOLEAN /\ RacyResets \in BOOLEAN
    /\ MaxResets \in Nat /\ MaxFaults \in Nat /\ MaxIncidents \in Nat

VARIABLES
    \* SQLite: survives a crash
    audit,        \* audit rows of the organization: [generation, root]
    rows,         \* the organization's rows in the data tables
    registryHash, \* Organization.registryHash
    synced,       \* Organization.synced
    \* memory of the running tick
    pc,           \* the await at which syncOrganizationAudit stands
    hist,         \* rootHistory as this tick read it
    status,       \* sync_status as this tick read it
    cursor,       \* lastRootSavedToAuditTable.generation
    pruning,      \* keys whose detached ModelKeys.destroy has not run yet
    \* bounds
    resets,
    faults

dbVars    == <<audit, rows, registryHash, synced>>
tickVars  == <<pc, hist, status, cursor>>
boundVars == <<resets, faults>>
vars      == <<storeVars, dbVars, tickVars, pruning, boundVars>>

AuditRow == [generation : Nat, root : Roots]
Steps    == {"idle", "history", "status", "audit", "create", "mark",
             "check", "commit", "mirror", "hash"}
NoStatus == [generation |-> -1, target |-> -1]
Status   == [generation : Int, target : Int]

TypeOK ==
    /\ StoreTypeOK
    /\ audit \subseteq AuditRow
    /\ rows \in Roots
    /\ registryHash \in Roots
    /\ synced \in BOOLEAN
    /\ pc \in Steps
    /\ hist \in Seq(Entry)
    /\ status \in Status
    /\ cursor \in Nat
    /\ pruning \subseteq Keys
    /\ resets \in 0 .. MaxResets
    /\ faults \in 0 .. MaxFaults

Init ==
    /\ StoreInit
    /\ audit = {}
    /\ rows = Empty
    /\ registryHash = Empty
    /\ synced = FALSE
    /\ pc = "idle"
    /\ hist = <<>>
    /\ status = NoStatus
    /\ cursor = 0
    /\ pruning = {}
    /\ resets = 0
    /\ faults = 0

-----------------------------------------------------------------------------
\* Mutant: the query lost its ORDER BY.
AnyRow(r) == r \in audit

\* Audit.findOne({ order: [['generation', 'DESC']], limit: 1 })
IsLatest(r) == r \in audit /\ \A q \in audit : q.generation <= r.generation

\* Mutant: the comparison of the destroy is the wrong way round.
KeptBySwapped(g) == {r \in audit : r.generation >= g}

\* Audit.resetToGeneration(g) destroys the rows with generation > g.
KeptBy(g) == {r \in audit : r.generation <= g}

\* Mutant: the DELETEs of the diff are not applied.
PatchedInserts(table, old, new) ==
    [k \in Keys |-> IF old[k] = new[k] \/ new[k] = NoRow THEN table[k] ELSE new[k]]

\* Mutant: the diff replaces the table.
PatchedOnly(table, old, new) == [k \in {j \in Keys : old[j] # new[j]} |-> new[k]]

\* The upserts and destroys of the diff between two roots: the keys on which
\* they differ take the newer root's row, the others keep what the table holds.
Patched(table, old, new) ==
    [k \in Keys |-> IF old[k] = new[k] THEN table[k] ELSE new[k]]

Goto(step) == pc' = step

\* Every early return, and the end of a tick, forgets the tick's memory.
EndTick ==
    /\ Goto("idle")
    /\ hist' = <<>>
    /\ status' = NoStatus
    /\ cursor' = 0

-----------------------------------------------------------------------------
(* The tick, one action between two awaits *)

\* The next tick starts 5 s after the last one ended; unless PrunesLate the
\* destroys the last one left behind have finished by then.
TickDue == pc = "idle" /\ (PrunesLate \/ pruning = {})

\* V1's processJob first corrects registryHash when it is not the root of the
\* newest audit row: a crash or an error came between the two writes.
StartTickV1 ==
    /\ Version = "v1"
    /\ TickDue
    /\ Goto("history")
    /\ \/ audit = {} /\ UNCHANGED registryHash
       \/ \E r \in audit : IsLatest(r) /\ registryHash' = r.root
    /\ UNCHANGED <<storeVars, audit, rows, synced, hist, status, cursor,
                   pruning, boundVars>>

StartTickV2 ==
    /\ Version = "v2"
    /\ TickDue
    /\ Goto("history")
    /\ UNCHANGED <<storeVars, dbVars, hist, status, cursor, pruning, boundVars>>

ReadHistory ==
    /\ pc = "history"
    /\ Goto("status")
    /\ hist' = history
    /\ UNCHANGED <<storeVars, dbVars, status, cursor, pruning, boundVars>>

\* sync_status is a second RPC.  For a foreign organization a status that
\* disagrees with the history just read ends the tick (SyncMismatchBackoff
\* .shouldSkip holds on every mismatch; its delays only space the log lines).
\* The home organization's status is only logged.
ReadStatus ==
    /\ pc = "status"
    /\ \/ IsHome /\ Goto("audit") /\ UNCHANGED <<hist, status, cursor>>
       \/ /\ ~IsHome
          /\ Highest(hist) = localGen /\ Highest(hist) = Highest(history)
          /\ Goto("audit")
          /\ status' = [generation |-> localGen, target |-> Highest(history)]
          /\ UNCHANGED <<hist, cursor>>
       \/ /\ ~IsHome
          /\ Highest(hist) # localGen \/ Highest(hist) # Highest(history)
          /\ EndTick
    /\ UNCHANGED <<storeVars, dbVars, pruning, boundVars>>

ReadAudit ==
    /\ pc = "audit"
    /\ \/ audit = {} /\ Goto("create") /\ UNCHANGED cursor
       \/ \E r \in audit :
             IsLatest(r) /\ cursor' = r.generation /\ Goto("mark")
    /\ UNCHANGED <<storeVars, dbVars, hist, status, pruning, boundVars>>

\* A new (or fully reset) registry gets its CREATE REGISTRY row.  V1 then
\* starts one destroy per data table without awaiting it; V2's loop over the
\* tables destroys nothing.
CreateRegistry ==
    /\ pc = "create"
    /\ audit' = audit \cup {[generation |-> 0, root |-> RootAt(hist, 0)]}
    /\ EndTick
    /\ UNCHANGED <<storeVars, rows, registryHash, synced, boundVars>>

CreateRegistryV1 == Version = "v1" /\ CreateRegistry /\ pruning' = Keys
CreateRegistryV2 == Version = "v2" /\ CreateRegistry /\ UNCHANGED pruning

\* One of the detached destroys reaches the database.
Prune ==
    /\ \E k \in pruning :
          /\ rows' = [rows EXCEPT ![k] = NoRow]
          /\ pruning' = pruning \ {k}
    /\ UNCHANGED <<storeVars, audit, registryHash, synced, tickVars, boundVars>>

\* Organization.update({ synced, sync_remaining }); a synced org is done.
MarkSynced ==
    /\ pc = "mark"
    /\ synced' = (cursor = Highest(hist))
    /\ \/ cursor = Highest(hist) /\ EndTick
       \/ /\ cursor # Highest(hist)
          /\ Goto("check")
          /\ UNCHANGED <<hist, status, cursor>>
    /\ UNCHANGED <<storeVars, audit, rows, registryHash, pruning, boundVars>>

\* Mutant: one generation too many is tolerated.
AheadByTwo ==
    /\ ~IsHome
    /\ status.generation = status.target
    /\ cursor > Highest(hist) + 1

\* orgGenerationMismatchCheck: the log is ahead of a fully synced store.
AheadOfStore ==
    /\ ~IsHome
    /\ status.generation = status.target
    /\ cursor > Highest(hist)

ResetAhead ==
    /\ pc = "check"
    /\ AheadOfStore
    /\ audit' = KeptBy(status.generation - 2)
    /\ EndTick
    /\ UNCHANGED <<storeVars, rows, registryHash, synced, pruning, boundVars>>

\* Mutant: the newest local generation is not yet ingestible.
IngestibleBelow ==
    /\ IsHome \/ cursor + 1 < status.generation
    /\ HasGen(hist, cursor + 1)
    /\ hist[cursor + 2].confirmed

\* The guards between the mismatch check and getRootDiff.
Ingestible ==
    /\ IsHome \/ cursor + 1 <= status.generation
    /\ HasGen(hist, cursor + 1)
    /\ hist[cursor + 2].confirmed

FetchDiff ==
    /\ pc = "check"
    /\ ~AheadOfStore
    /\ \/ Ingestible /\ Goto("commit") /\ UNCHANGED <<hist, status, cursor>>
       \/ ~Ingestible /\ EndTick
    /\ UNCHANGED <<storeVars, dbVars, pruning, boundVars>>

\* Mutant: the audit row names the root the diff starts from.
CommitLastRoot ==
    /\ pc = "commit"
    /\ LET new == RootAt(hist, cursor + 1)
           old == RootAt(hist, cursor)
       IN  /\ audit' = audit \cup {[generation |-> cursor + 1, root |-> old]}
           /\ rows' = Patched(rows, old, new)
    /\ UNCHANGED <<storeVars, registryHash, synced, hist, status, cursor,
                   pruning, boundVars>>

\* updateAuditTransaction commits: the diff's rows and the audit rows.
Commit ==
    /\ pc = "commit"
    /\ LET new == RootAt(hist, cursor + 1)
       IN  /\ audit' = audit \cup {[generation |-> cursor + 1, root |-> new]}
           /\ rows' = Patched(rows, RootAt(hist, cursor), new)
    /\ UNCHANGED <<storeVars, registryHash, synced, hist, status, cursor,
                   pruning, boundVars>>

\* V1 commits SQLite first, then the mirror, and reports success after both.
CommitV1 == Version = "v1" /\ Commit /\ Goto("mirror")
CommitV2 == Version = "v2" /\ Commit /\ Goto("hash")

MirrorCommit ==
    /\ pc = "mirror"
    /\ Goto("hash")
    /\ UNCHANGED <<storeVars, dbVars, hist, status, cursor, pruning, boundVars>>

UpdateHash ==
    /\ pc = "hash"
    /\ registryHash' = RootAt(hist, cursor + 1)
    /\ EndTick
    /\ UNCHANGED <<storeVars, audit, rows, synced, pruning, boundVars>>

-----------------------------------------------------------------------------
(* What happens around the tick *)

MoreIncidents == resets + faults + reorgs < MaxIncidents

\* An RPC or a statement of the tick fails: the error is caught, an open
\* transaction is rolled back, and the next tick starts over.  At "mirror"
\* this is the mirror's commit failing after SQLite's.
Fail ==
    /\ pc # "idle"
    /\ faults < MaxFaults /\ MoreIncidents
    /\ faults' = faults + 1
    /\ EndTick
    /\ UNCHANGED <<storeVars, dbVars, pruning, resets>>

\* The process dies: the tick and the detached destroys are gone.
Crash ==
    /\ faults < MaxFaults /\ MoreIncidents
    /\ faults' = faults + 1
    /\ EndTick
    /\ pruning' = {}
    /\ UNCHANGED <<storeVars, dbVars, resets>>

\* POST audit/resetToGeneration: audit rows go, the data tables stay.
ResetToGeneration ==
    /\ resets < MaxResets /\ MoreIncidents
    /\ RacyResets \/ pc = "idle"
    /\ resets' = resets + 1
    /\ \E g \in -1 .. MaxGen : audit' = KeptBy(g)
    /\ UNCHANGED <<storeVars, rows, registryHash, synced, tickVars, pruning,
                   faults>>

-----------------------------------------------------------------------------
Tick ==
    \/ StartTickV1 \/ StartTickV2
    \/ ReadHistory \/ ReadStatus \/ ReadAudit
    \/ CreateRegistryV1 \/ CreateRegistryV2
    \/ MarkSynced \/ ResetAhead \/ FetchDiff
    \/ CommitV1 \/ CommitV2 \/ MirrorCommit \/ UpdateHash

SyncUnchanged == UNCHANGED <<dbVars, tickVars, pruning, boundVars>>

Store == StoreNext /\ SyncUnchanged

Next == Store \/ Tick \/ Prune \/ Fail \/ Crash \/ ResetToGeneration

Spec == Init /\ [][Next]_vars

\* The scheduler keeps running the task (SimpleIntervalJob), detached promises
\* settle, the chain confirms what it lists and the node downloads it.
Fairness ==
    /\ WF_vars(Tick)
    /\ WF_vars(Prune)
    /\ WF_vars((Confirm \/ Download) /\ SyncUnchanged)

FairSpec == Spec /\ Fairness

-----------------------------------------------------------------------------
(* Properties *)

AuditAtTip ==
    \E r \in audit : IsLatest(r) /\ r.generation = Highest(history)

AuditIsOfStore ==
    \A r \in audit : /\ HasGen(history, r.generation)
                     /\ r.root = RootAt(history, r.generation)

\* Unless the chain was reorganised, every audit row names a generation of the
\* store and that generation's root, through crashes, failed commits and
\* resets: the tick writes from a root history it read several awaits ago.
AuditMatchesStore == reorgs = 0 => AuditIsOfStore

\* The audit log of an organization has no gap: below the newest generation
\* every generation has its row.
AuditHasNoGaps ==
    \A r \in audit : \A g \in 0 .. r.generation :
        \E q \in audit : q.generation = g

UniqueGenerations ==
    \A q, r \in audit : q.generation = r.generation => q = r

\* A generation is ingested once: the generation a tick is about to add is not
\* in the log, although the log changed since the tick read it and the store
\* may by now have another root at that generation.
OneRowPerGeneration ==
    /\ UniqueGenerations
    /\ pc = "create" => audit = {}
    /\ pc = "commit" => \A r \in audit : r.generation # cursor + 1

\* Once the log has reached the tip, the data tables hold exactly the tip's
\* rows, however often the log was reset and replayed over newer data, unless
\* the chain was reorganised.
RowsConverge ==
    (reorgs = 0 /\ pc = "idle" /\ pruning = {} /\ AuditAtTip)
        => rows = RootAt(history, Highest(history))

\* "when the audit table is reset this will ensure that this organizations
\* registry data is cleaned up ... and ready to resync": a registry that is
\* created anew gets to empty data tables before anything is replayed.
FullResetCleansRows == (pc = "create") ~> (rows = Empty)

\* The sync never stops short: when the store is quiet the log reaches its
\* tip, the org is marked synced and registryHash names the newest root.
CatchesUp ==
    <>[](/\ AuditAtTip
         /\ synced
         /\ \E r \in audit : IsLatest(r) /\ registryHash = r.root)

\* An audit log that is ahead of its store is reset to a generation it has.
AheadIsResolved ==
    (\E r \in audit : r.generation > Highest(history))
        ~> (\A r \in audit : r.generation <= Highest(history))

-----------------------------------------------------------------------------
(* Inductive invariants *)

\* The tick's history, once read, is a prefix of the store's (no reorgs).
HistIsPrefix ==
    pc \notin {"idle", "history"} =>
        /\ Len(hist) \in 1 .. Len(history)
        /\ \A i \in 1 .. Len(hist) : hist[i].root = history[i].root

\* A tick that has read the log stands at its newest row; resets since then can
\* only have removed rows.
Ingesting == pc \in {"mark", "check", "commit"}

CursorBounds ==
    /\ pc = "create" => audit = {}
    /\ Ingesting => \A r \in audit : r.generation <= cursor
    /\ Ingesting => HasGen(history, cursor)
    /\ pc \in {"commit", "mirror", "hash"} => HasGen(hist, cursor + 1)

\* Key k of the data tables is a row of the store at generation g or later:
\* replaying the generations after g brings it to the tip's row.
AsOf(k, g) ==
    \E j \in g .. Highest(history) : rows[k] = RootAt(history, j)[k]

RowsAreOf ==
    /\ \A k \in Keys : AsOf(k, 0)
    /\ \A r \in audit, k \in Keys : AsOf(k, r.generation)
    /\ Ingesting => \A k \in Keys : AsOf(k, cursor)

\* While destroys are pending the log holds the CREATE REGISTRY row at most.
PruningIsEarly ==
    pruning # {} => pc = "idle" /\ \A r \in audit : r.generation = 0

LogIsOfStore ==
    /\ RootAt(history, 0) = Empty
    /\ HistIsPrefix
    /\ CursorBounds
    /\ AuditIsOfStore

\* Inductive.
LogOfStoreInv == reorgs = 0 => LogIsOfStore

Replay == LogIsOfStore /\ RowsAreOf /\ PruningIsEarly

\* Inductive when PrunesLate = FALSE.
ReplayInv == reorgs = 0 => Replay
=============================================================================
