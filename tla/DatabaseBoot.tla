----------------------------- MODULE DatabaseBoot -----------------------------
(***************************************************************************)
(* A start of the program brings a database up to date: checkForMigrations *)
(* runs, one statement after another and outside any transaction, what is  *)
(* not recorded yet; then full-text triggers that a sync had dropped while *)
(* it caught up are restored (utils/fts5-deferral.js and -v2).  The        *)
(* process may die between any two statements and start again.             *)
(***************************************************************************)
EXTENDS Migrations, FiniteSets, SequencesExt

CONSTANTS
    Databases,  \* the databases: [version, dialect]
    MaxCrashes  \* bound: crashes, restarts and failed restores of each

ASSUME BootConstants ==
    /\ Databases \subseteq [version : {"v1", "v2"}, dialect : Dialects]
    /\ MaxCrashes \in [Databases -> Nat]

VARIABLES
    db,       \* the database
    schema,   \* its tables, columns, indexes and triggers
    meta,     \* SequelizeMeta: the recorded names
    phase,    \* "start" or down, "migrate", "restore" or "ready"
    todo,     \* notCompletedMigrations: numbers of the list that are left
    at,       \* the next statement of the first of them
    failed,   \* the first error of a Promise.all
    loose,    \* statements nobody waits for, in other connections of the pool
    rejected, \* a promise nobody waits for has failed: the process will die
    flag,     \* the deferral flag, in the database's meta table
    snapshot, \* the dropped triggers, in the same table
    stale,    \* the search tables lack a write
    crashes

searchVars == <<flag, snapshot, stale>>
bootVars == <<phase, todo, at, failed, loose, rejected>>
vars == <<db, schema, meta, bootVars, searchVars, crashes>>

V2 == db.version = "v2"
OnSqlite == db.dialect = "sqlite"
List == IF V2 THEN V2Migrations ELSE V1Migrations

\* The number after the list's stands for the migration of the triggers that is
\* run once more.
Again == Len(List) + 1
Migration(i) == List[IF i = Again THEN TriggersMigration ELSE i]
Triggers(sch) == {o \in sch : o[1] = "trigger"}

Error(sch, s) ==
    LET kind == s.what[1]
        mine == <<"table", s.what[2], s.what[2]>>
        needsTable == \/ s.do \in {"create", "rebuild", "ensure"} /\ kind # "table"
                      \/ s.do \in {"drop", "data"}
    IN  IF needsTable /\ mine \notin sch THEN "missing"
        ELSE IF s.do = "create" /\ s.what \in sch THEN "exists" ELSE "none"

\* A table of SQLite is built anew without its indexes and triggers.
Rebuilt(sch, t, dialect) ==
    {o \in sch : o[2] = t /\ o[1] \in {"index", "trigger"} => dialect = "mysql"}

Effect(sch, s, dialect) ==
    CASE s.do = "createIfMissing" -> IF s.what \in sch THEN sch ELSE sch \cup {s.what} \cup s.cols
      [] s.do = "create" -> sch \cup {s.what}
      [] s.do \in {"drop", "dropIfThere"} ->
           IF s.what[1] = "table" THEN {o \in sch : o[2] # s.what[2]} ELSE sch \ {s.what}
      [] s.do = "rebuild" -> Rebuilt(sch, s.what[2], dialect) \ {s.what}
      [] s.do = "ensure" ->
           IF s.what \in sch THEN sch
           ELSE IF s.old \in sch THEN (Rebuilt(sch, s.what[2], dialect) \ {s.old}) \cup {s.what}
           ELSE sch \cup {s.what}
      [] s.do = "data" -> sch

Current == Min(todo)
Up == Migration(Current).up
Migrating == phase = "migrate" /\ todo # {}

TypeOK ==
    /\ db \in Databases
    /\ phase \in {"start", "migrate", "restore", "ready"}
    /\ \A o \in schema : o[1] # "table" => <<"table", o[2], o[2]>> \in schema
    /\ meta \subseteq {List[i].name : i \in DOMAIN List}
    /\ todo \subseteq 1 .. Again
    /\ todo # {} => phase = "migrate" /\ at \in 1 .. Len(Up) + 1
    /\ failed \in {"none", "exists", "missing"}
    /\ loose # {} => ~OnSqlite
    /\ flag => snapshot # {}
    /\ {rejected, flag, stale} \subseteq BOOLEAN
    /\ crashes \in 0 .. MaxCrashes[db]

Idle == todo = {} /\ at = 1 /\ failed = "none" /\ loose = {} /\ rejected = FALSE

Init ==
    /\ db \in Databases
    /\ schema = {} /\ meta = {}
    /\ phase = "start" /\ Idle
    /\ flag = FALSE /\ snapshot = {} /\ stale = FALSE
    /\ crashes = 0

-----------------------------------------------------------------------------
(* checkForMigrations, checkForV2Migrations *)

\* V2 looks whether the six triggers are there, whatever is recorded.
TriggersLost == V2 /\ OnSqlite /\ TriggersMigration \in meta /\ Cardinality(Triggers(schema)) # 6

NotCompleted == {i \in DOMAIN List : List[i].name \notin meta}

\* Mutant: what is left is recorded before it runs.
RecordFirst ==
    /\ phase = "start"
    /\ phase' = "migrate"
    /\ todo' = NotCompleted
    /\ meta' = {List[i].name : i \in DOMAIN List}
    /\ UNCHANGED <<db, schema, at, failed, loose, rejected, searchVars, crashes>>

StartMigrations ==
    /\ phase = "start"
    /\ phase' = "migrate"
    /\ IF TriggersLost
       THEN meta' = meta \ {TriggersMigration} /\ todo' = NotCompleted \cup {Again}
       ELSE meta' = meta /\ todo' = NotCompleted
    /\ UNCHANGED <<db, schema, at, failed, loose, rejected, searchVars, crashes>>

NextMigration == todo' = todo \ {Current} /\ at' = 1 /\ failed' = "none"

\* Mutant: no error is taken for an earlier run's work.
AnyFailure(error) == NextMigration

\* V2 takes an error that something exists already for the end of the migration
\* and records it; any other one, and every one of V1, is logged.
GiveUp(error) ==
    IF V2 /\ OnSqlite /\ error = "exists"
    THEN todo' = todo /\ at' = Len(Up) + 1 /\ failed' = "none"
    ELSE NextMigration

\* The statement is for the other dialect.
SkipStatement ==
    /\ Migrating /\ at <= Len(Up) /\ db.dialect \notin Up[at].on
    /\ at' = at + 1
    /\ UNCHANGED <<db, schema, meta, phase, todo, failed, loose, rejected, searchVars, crashes>>

RunStatement ==
    /\ Migrating /\ at <= Len(Up) /\ db.dialect \in Up[at].on
    /\ LET s == Up[at]
           error == IF s.mode = "ifMissing" /\ Error(schema, s) = "exists" THEN "none"
                    ELSE Error(schema, s)
           worst == IF failed # "none" THEN failed ELSE error
       IN  IF s.mode = "loose" /\ ~OnSqlite
           THEN /\ loose' = loose \cup {s}
                /\ at' = at + 1
                /\ UNCHANGED <<schema, todo, failed, rejected>>
           ELSE /\ schema' = IF Error(schema, s) = "none" THEN Effect(schema, s, db.dialect)
                             ELSE schema
                /\ rejected' = (rejected \/ (s.mode = "loose" /\ error # "none"))
                /\ loose' = loose
                /\ IF s.mode \in {"await", "ifMissing", "last"} /\ worst # "none" THEN GiveUp(worst)
                   ELSE /\ at' = at + 1 /\ todo' = todo
                        /\ failed' = IF s.mode = "all" THEN worst ELSE "none"
    /\ UNCHANGED <<db, meta, phase, searchVars, crashes>>

RecordMigration ==
    /\ Migrating /\ at = Len(Up) + 1
    /\ meta' = meta \cup {Migration(Current).name}
    /\ NextMigration
    /\ UNCHANGED <<db, schema, phase, loose, rejected, searchVars, crashes>>

\* A statement that nobody waited for.
RunLoose ==
    /\ \E s \in loose :
         /\ loose' = loose \ {s}
         /\ schema' = IF Error(schema, s) = "none" THEN Effect(schema, s, db.dialect) ELSE schema
         /\ rejected' = (rejected \/ Error(schema, s) # "none")
    /\ UNCHANGED <<db, meta, phase, todo, at, failed, searchVars, crashes>>

EndMigrations ==
    /\ phase = "migrate" /\ todo = {}
    /\ phase' = IF OnSqlite THEN "restore" ELSE "ready"
    /\ UNCHANGED <<db, schema, meta, todo, at, failed, loose, rejected, searchVars, crashes>>

-----------------------------------------------------------------------------
(* The full-text triggers: one transaction each *)

\* Mutant: the search tables are not built anew.
RestoredUnbuilt ==
    /\ schema' = schema \cup snapshot
    /\ flag' = FALSE /\ snapshot' = {} /\ stale' = stale

\* recreateFtsTriggers, rebuildFtsTables, clearDeferralState.
Restored ==
    /\ schema' = schema \cup snapshot
    /\ flag' = FALSE /\ snapshot' = {} /\ stale' = FALSE

\* prepareDb, after the migrations; a failure is logged and swallowed.
RestoreAtBoot ==
    /\ phase = "restore"
    /\ phase' = "ready"
    /\ IF flag THEN Restored ELSE UNCHANGED <<schema, searchVars>>
    /\ UNCHANGED <<db, meta, todo, at, failed, loose, rejected, crashes>>

RestoreFails ==
    /\ phase = "restore" /\ flag
    /\ phase' = "ready"
    /\ UNCHANGED <<db, schema, meta, todo, at, failed, loose, rejected, searchVars, crashes>>

Ticking == phase = "ready" /\ OnSqlite

\* The tick finds every organization caught up.
RestoreAtTick ==
    /\ Ticking /\ flag
    /\ Restored
    /\ UNCHANGED <<db, meta, bootVars, crashes>>

\* The tick finds an organization behind: ensureFtsTriggersDeferred.
Defer ==
    /\ Ticking /\ ~flag
    /\ Triggers(schema) \cup snapshot # {}
    /\ snapshot' = IF Triggers(schema) # {} THEN Triggers(schema) ELSE snapshot
    /\ schema' = schema \ Triggers(schema)
    /\ flag' = TRUE
    /\ UNCHANGED <<db, meta, bootVars, stale, crashes>>

\* A project or a unit is written: the triggers put it into the search tables.
WriteRecord ==
    /\ Ticking
    /\ stale' = (stale \/ Cardinality(Triggers(schema)) # 6)
    /\ UNCHANGED <<db, schema, meta, bootVars, flag, snapshot, crashes>>

-----------------------------------------------------------------------------
Down ==
    /\ phase' = "start"
    /\ todo' = {} /\ at' = 1 /\ failed' = "none" /\ loose' = {} /\ rejected' = FALSE
    /\ UNCHANGED <<db, schema, meta, searchVars>>

Crash ==
    /\ phase # "start"
    /\ crashes < MaxCrashes[db]
    /\ crashes' = crashes + 1
    /\ Down

\* Nobody handles the rejection: node ends the process.
Die ==
    /\ rejected
    /\ UNCHANGED crashes
    /\ Down

Next ==
    \/ StartMigrations \/ SkipStatement \/ RunStatement \/ RecordMigration \/ RunLoose
    \/ EndMigrations
    \/ RestoreAtBoot \/ RestoreFails \/ RestoreAtTick \/ Defer \/ WriteRecord
    \/ Crash \/ Die

Spec == Init /\ [][Next]_vars

-----------------------------------------------------------------------------
(* Properties *)

Settled == phase = "ready" /\ ~rejected /\ loose = {}

\* The tables that a statement of the list creates on the database's dialect.
Creates(s) == s.do \in {"createIfMissing", "create"} /\ s.what[1] = "table"
Created ==
    {s.what : s \in {x \in UNION {ToSet(List[i].up) : i \in DOMAIN List} :
                        Creates(x) /\ db.dialect \in x.on}}

\* Wherever the process died, the next complete start brings every table of V1
\* and every table that V2 creates with createTable (checkForMigrations,
\* checkForV2Migrations).
TablesComplete ==
    Settled =>
        \A o \in Created :
            ~(V2 /\ o[2] \in {"projects_v2_fts", "units_v2_fts"}) => o \in schema

\* Wherever the process died, V2's main database has every migration recorded
\* when it has started: none is tried again for ever (checkForV2Migrations).
NothingIsStuck == Settled /\ V2 /\ OnSqlite => meta = DOMAIN V2Migrations

\* Unless a sync has deferred them, all six triggers are there and the search
\* tables lack no write (fts5-deferral, checkForV2Migrations): in V2 always, in V1
\* unless add-serial-number-fields was interrupted, which rebuilds the table of
\* units, and loses its triggers, at every start from then on.
SearchIsWhole ==
    Settled /\ OnSqlite /\ ~flag /\ (V2 \/ SerialNumbers \in meta) =>
        Cardinality(Triggers(schema)) = 6 /\ ~stale

\* The same without the exception: it fails in V1 after two restarts.
SearchStaysWhole ==
    Settled /\ OnSqlite /\ ~flag => Cardinality(Triggers(schema)) = 6 /\ ~stale

\* What a start that nothing interrupts leaves behind.
Goal(d) ==
    LET list == IF d.version = "v2" THEN V2Migrations ELSE V1Migrations
        all == FlattenSeq([i \in DOMAIN list |-> list[i].up])
        step(sch, s) ==
            IF d.dialect \in s.on /\ Error(sch, s) = "none" THEN Effect(sch, s, d.dialect) ELSE sch
    IN  FoldLeft(step, {}, all)
Goals == [d \in Databases |-> Goal(d)]

\* Once every migration is recorded, the tables and columns of an uninterrupted
\* start are there: the comment on the errors that checkForV2Migrations takes
\* for an earlier run's work.
SchemaComplete ==
    Settled /\ (\A i \in DOMAIN List : List[i].name \in meta) =>
        {o \in Goals[db] : o[1] \in {"table", "column"}} \subseteq schema
=============================================================================
