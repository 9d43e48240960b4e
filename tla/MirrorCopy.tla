------------------------------ MODULE MirrorCopy ------------------------------
(***************************************************************************)
(* The MySQL mirror of the SQLite database (database/v2/index.js,          *)
(* database/mirror-sync-gate.js; database/index.js does the same for V1).  *)
(* A model writes to the mirror first, without waiting, and then to the    *)
(* main table; the tick's transaction writes to both.  A write that finds  *)
(* the mirror gone is dropped; the first one that finds it again runs a    *)
(* recovery, and the writes that come meanwhile wait for it.  A recovery,  *)
(* like a start of the program, sets the mirror up if that never worked    *)
(* and copies the main table: it sweeps rows the main table does not have, *)
(* compares counts and newest timestamps, and upserts page after page.     *)
(* One table is modelled; the tables of a copy do not depend on each other.*)
(***************************************************************************)
EXTENDS Integers, FiniteSets, FiniteSetsExt

CONSTANTS
    Rows,        \* primary keys: numbers, in the order of the keyset walk
    NoRow,       \* the table has no such row
    MaxWrites,   \* bound: writes
    MaxTime,     \* bound: whole seconds that pass
    MaxTroubles  \* bound: statements of the mirror that fail while it is up,
                 \* times it goes away, process restarts

ASSUME MirrorConstants ==
    /\ Rows \subseteq Nat \ {0} /\ Rows # {} /\ IsFiniteSet(Rows)
    /\ {MaxWrites, MaxTime, MaxTroubles} \subseteq Nat

VARIABLES
    main,     \* the main table: key -> row or NoRow
    mirror,   \* the mirror's table
    up,       \* the mirror's server answers
    auth,     \* mirrorAuthState: what the last authenticate found
    setup,    \* the mirror's database and tables have been set up
    recovery, \* the reconnect promise: "none", "start" or "copy"
    copy,     \* the backfill in flight
    writes,   \* model writes with a part still to do
    missed,   \* a write was dropped and no copy has ended since
    behind,   \* the last copy that ended was a recovery's and had failed
    clock,    \* whole seconds
    used      \* bounds: [writes, troubles]

dbVars   == <<main, mirror>>
linkVars == <<up, auth, setup>>
vars == <<dbVars, linkVars, recovery, copy, writes, missed, behind, clock, used>>

\* A row: the write that made it and the second of its updatedAt.
Row == [val : 0 .. MaxWrites, at : 0 .. MaxTime]

ASSUME MirrorNoRow == NoRow \notin Row

Keys(table) == {r \in Rows : table[r] # NoRow}

\* A backfill: the step it is at, the orphan candidates, the page it has read;
\* kept are rows the main table has had since it began, quiet tells that
\* nothing else has written since.
NoCopy == [at |-> "none", cand |-> {}, next |-> 0, row |-> NoRow, kept |-> {}, quiet |-> TRUE,
           full |-> FALSE]

TypeOK ==
    /\ main \in [Rows -> Row \cup {NoRow}] /\ mirror \in [Rows -> Row \cup {NoRow}]
    /\ {up, setup, missed, behind} \subseteq BOOLEAN
    /\ auth \in {"unknown", "connected", "disconnected"}
    /\ recovery \in {"none", "start", "copy"}
    /\ copy \in [at : {"none", "mirrorKeys", "sourceKeys", "remove", "gate", "read", "write"},
                 cand : SUBSET Rows, next : Nat, row : Row \cup {NoRow},
                 kept : SUBSET Rows, quiet : BOOLEAN, full : BOOLEAN]
    /\ writes \subseteq [n : 1 .. MaxWrites, key : Rows, del : BOOLEAN,
                         main : BOOLEAN, mirror : {"auth", "wait", "apply", "done"}]
    /\ clock \in 0 .. MaxTime
    /\ used \in [writes : 0 .. MaxWrites, troubles : 0 .. MaxTroubles]
    /\ recovery = "copy" => copy.at # "none"
    /\ copy.at = "write" => copy.row # NoRow /\ copy.next \in Rows
    /\ \A w \in writes :
         /\ w.main \/ w.mirror # "done"
         /\ w.mirror = "wait" => recovery # "none"

-----------------------------------------------------------------------------
(* The tables *)

Put(table, k, n, t) == [table EXCEPT ![k] = [val |-> n, at |-> t]]
Remove(table, S) == [r \in Rows |-> IF r \in S THEN NoRow ELSE table[r]]
Written(table, w) == IF w.del THEN Remove(table, {w.key}) ELSE Put(table, w.key, w.n, clock)

\* What a write means to a copy that is under way.
Disturbed(c, w, inMain) ==
    IF c.at = "none" THEN c
    ELSE [c EXCEPT !.quiet = FALSE, !.kept = IF inMain /\ w.del THEN @ \ {w.key} ELSE @]

\* The write w moves on, and goes when both parts are done.
Moves(w, onMain, onMirror) ==
    (writes \ {w}) \cup
    (IF ~onMain /\ onMirror = "done" THEN {} ELSE {[w EXCEPT !.main = onMain, !.mirror = onMirror]})

Trouble == used.troubles < MaxTroubles
CountTrouble == used' = [used EXCEPT !.troubles = @ + 1]

\* backfillMirrorV2 begins.
StartCopy == [NoCopy EXCEPT !.at = "mirrorKeys", !.kept = Keys(main)]

\* prepareDb at a start: if the mirror can be set up, it is copied to.
Boot(reachable) ==
    /\ setup' = reachable
    /\ copy' = IF reachable THEN StartCopy ELSE NoCopy
    /\ auth' = "unknown"
    /\ recovery' = "none"
    /\ missed' = FALSE
    /\ behind' = FALSE

\* Any earlier run of the program may have left the tables apart.
Init ==
    /\ main \in [Rows -> {NoRow, [val |-> 0, at |-> 0]}]
    /\ mirror \in [Rows -> {NoRow, [val |-> 0, at |-> 0]}]
    /\ up \in BOOLEAN
    /\ setup = up
    /\ copy = IF up THEN StartCopy ELSE NoCopy
    /\ auth = "unknown"
    /\ recovery = "none"
    /\ writes = {}
    /\ missed = FALSE
    /\ behind = FALSE
    /\ clock = 0
    /\ used = [writes |-> 0, troubles |-> 0]

-----------------------------------------------------------------------------
(* Model writes: create, upsert, update, destroy *)

\* The mirror write is started and not waited for.
BeginWrite ==
    /\ used.writes < MaxWrites
    /\ used' = [used EXCEPT !.writes = @ + 1]
    /\ \E k \in Rows, d \in BOOLEAN :
         writes' = writes \cup {[n |-> used.writes + 1, key |-> k, del |-> d,
                                 main |-> TRUE, mirror |-> "auth"]}
    /\ UNCHANGED <<dbVars, linkVars, recovery, copy, missed, behind, clock>>

\* The main table is written, in the order the writes began.
WriteMain(w) ==
    /\ w.main
    /\ \A x \in writes : x.main => w.n <= x.n
    /\ main' = Written(main, w)
    /\ copy' = Disturbed(copy, w, TRUE)
    /\ writes' = Moves(w, FALSE, w.mirror)
    /\ UNCHANGED <<mirror, linkVars, recovery, missed, behind, clock, used>>

\* safeMirrorDbHandlerV2: authenticate fails, the write is dropped.
AuthFails(w) ==
    /\ w.mirror = "auth"
    /\ ~up
    /\ auth' = "disconnected"
    /\ missed' = TRUE
    /\ writes' = Moves(w, w.main, "done")
    /\ UNCHANGED <<dbVars, up, setup, recovery, copy, behind, clock, used>>

\* Mutant: only a setup that never ran starts a recovery.
LostTheMirrorBefore == ~setup

\* wasDisconnected || setupNeverRan
LostTheMirror == auth = "disconnected" \/ ~setup

\* authenticate succeeds: recover, wait for a recovery, or write.
AuthSucceeds(w) ==
    /\ w.mirror = "auth"
    /\ up
    /\ auth' = "connected"
    /\ recovery' = IF LostTheMirror /\ recovery = "none" THEN "start" ELSE recovery
    /\ writes' = Moves(w, w.main, IF LostTheMirror \/ recovery # "none" THEN "wait" ELSE "apply")
    /\ UNCHANGED <<dbVars, up, setup, copy, missed, behind, clock, used>>

\* The callback writes, or its error is logged and swallowed.
Apply(w) ==
    /\ w.mirror = "apply"
    /\ up
    /\ mirror' = Written(mirror, w)
    /\ copy' = Disturbed(copy, w, FALSE)
    /\ writes' = Moves(w, w.main, "done")
    /\ UNCHANGED <<main, linkVars, recovery, missed, behind, clock, used>>

ApplyFails(w) ==
    /\ w.mirror = "apply"
    /\ ~up \/ Trouble
    /\ IF up THEN CountTrouble ELSE UNCHANGED used
    /\ writes' = Moves(w, w.main, "done")
    /\ UNCHANGED <<dbVars, linkVars, recovery, copy, missed, behind, clock>>

\* mirrorWrite with the tick's transaction: the two tables are written
\* together, or the mirror's part fails unnoticed.
TickWrite ==
    /\ used.writes < MaxWrites
    /\ \E k \in Rows, d \in BOOLEAN :
         LET w == [n |-> used.writes + 1, key |-> k, del |-> d]
         IN  /\ main' = Written(main, w)
             /\ copy' = Disturbed(copy, w, TRUE)
             /\ \/ up /\ setup /\ mirror' = Written(mirror, w)
                   /\ used' = [used EXCEPT !.writes = @ + 1]
                \/ (~up \/ ~setup) /\ mirror' = mirror
                   /\ used' = [used EXCEPT !.writes = @ + 1]
                \/ up /\ Trouble /\ mirror' = mirror
                   /\ used' = [used EXCEPT !.writes = @ + 1, !.troubles = @ + 1]
    /\ \A x \in writes : ~x.main
    /\ UNCHANGED <<linkVars, recovery, writes, missed, behind, clock>>

-----------------------------------------------------------------------------
(* startV2ReconnectBackfill *)

\* The waiting writes go on when the promise settles: they write if the mirror
\* is set up, whether or not the copy failed.
Resumed(isSetup) ==
    {[w EXCEPT !.mirror = IF @ # "wait" THEN @ ELSE IF isSetup THEN "apply" ELSE "done"] :
        w \in writes}
Unfinished(S) == {w \in S : w.main \/ w.mirror # "done"}

\* The mirror is there and set up: join the copy in flight or start one.
RecoveryCopies ==
    /\ recovery = "start"
    /\ setup \/ up
    /\ setup' = TRUE
    /\ recovery' = "copy"
    /\ copy' = IF copy.at = "none" THEN StartCopy ELSE copy
    /\ UNCHANGED <<dbVars, up, auth, writes, missed, behind, clock, used>>

\* prepareMysqlMirrorV2 fails: the next authenticate tries again.
RecoverySetupFails ==
    /\ recovery = "start"
    /\ ~setup
    /\ ~up \/ Trouble
    /\ IF up THEN CountTrouble ELSE UNCHANGED used
    /\ recovery' = "none"
    /\ auth' = "disconnected"
    /\ writes' = Unfinished(Resumed(FALSE))
    /\ UNCHANGED <<dbVars, up, setup, copy, missed, behind, clock>>

-----------------------------------------------------------------------------
(* runBackfillMirrorV2 *)

\* Mutant: the recovery's promise is not reset.
CopyEndsUnseen(failed) ==
    /\ copy' = NoCopy
    /\ behind' = (failed /\ recovery = "copy")
    /\ missed' = FALSE
    /\ UNCHANGED <<recovery, writes>>

\* The backfill ends and with it the recovery that waited for it.
CopyEnds(failed) ==
    /\ copy' = NoCopy
    /\ behind' = (failed /\ recovery = "copy")
    /\ missed' = FALSE
    /\ recovery' = IF recovery = "copy" THEN "none" ELSE recovery
    /\ writes' = IF recovery = "copy" THEN Unfinished(Resumed(setup)) ELSE writes

CopyGoesOn(c) ==
    /\ copy' = c
    /\ UNCHANGED <<behind, missed, recovery, writes>>

\* sweepMirrorOrphansV2: the mirror's keys are orphan candidates, ...
SweepMirrorKeys ==
    /\ copy.at = "mirrorKeys"
    /\ up
    /\ CopyGoesOn([copy EXCEPT !.at = "sourceKeys", !.cand = Keys(mirror)])
    /\ UNCHANGED <<dbVars, linkVars, clock, used>>

\* Mutant: the main table's keys are not taken off.
SweepTakesAll ==
    /\ copy.at = "sourceKeys"
    /\ CopyGoesOn([copy EXCEPT !.at = "remove"])
    /\ UNCHANGED <<dbVars, linkVars, clock, used>>

\* ... those of the main table are taken off, ...
SweepSourceKeys ==
    /\ copy.at = "sourceKeys"
    /\ CopyGoesOn([copy EXCEPT !.at = "remove", !.cand = @ \ Keys(main)])
    /\ UNCHANGED <<dbVars, linkVars, clock, used>>

\* Mutant: nothing is removed.
SweepRemovesNothing ==
    /\ copy.at = "remove"
    /\ up
    /\ CopyGoesOn([copy EXCEPT !.at = "gate", !.cand = {}])
    /\ UNCHANGED <<dbVars, linkVars, clock, used>>

\* ... and what is left is removed.
SweepRemove ==
    /\ copy.at = "remove"
    /\ up \/ copy.cand = {}
    /\ mirror' = Remove(mirror, copy.cand)
    /\ CopyGoesOn([copy EXCEPT !.at = "gate", !.cand = {}])
    /\ UNCHANGED <<main, linkVars, clock, used>>

Newest(table) == Max({table[r].at : r \in Keys(table)})

\* isMirrorInSync: the counts and the newest seconds.
InSync ==
    /\ Cardinality(Keys(main)) = Cardinality(Keys(mirror))
    /\ Keys(main) # {} => Newest(mirror) >= Newest(main)

GateSkips ==
    /\ copy.at = "gate"
    /\ up
    /\ InSync
    /\ CopyEnds(FALSE)
    /\ UNCHANGED <<dbVars, linkVars, clock, used>>

\* Out of sync, or the gate's own queries fail: the table is copied.
GateCopies ==
    /\ copy.at = "gate"
    /\ IF up /\ InSync THEN Trouble /\ CountTrouble ELSE UNCHANGED used
    /\ CopyGoesOn([copy EXCEPT !.at = "read", !.next = 0, !.full = TRUE])
    /\ UNCHANGED <<dbVars, linkVars, clock>>

\* The next page of the keyset walk, here of one row.
After(k) == {r \in Keys(main) : r > k}

ReadPage ==
    /\ copy.at = "read"
    /\ \E k \in After(copy.next) :
         /\ \A r \in After(copy.next) : k <= r
         /\ CopyGoesOn([copy EXCEPT !.at = "write", !.next = k, !.row = main[k]])
    /\ UNCHANGED <<dbVars, linkVars, clock, used>>

\* bulkCreate with updateOnDuplicate, which keeps the page's updatedAt.
WritePage ==
    /\ copy.at = "write"
    /\ up
    /\ mirror' = [mirror EXCEPT ![copy.next] = copy.row]
    /\ CopyGoesOn([copy EXCEPT !.at = "read", !.row = NoRow])
    /\ UNCHANGED <<main, linkVars, clock, used>>

LastPage ==
    /\ copy.at = "read"
    /\ After(copy.next) = {}
    /\ CopyEnds(FALSE)
    /\ UNCHANGED <<dbVars, linkVars, clock, used>>

\* A statement of the mirror fails: the table's error is logged and swallowed.
CopyFails ==
    /\ copy.at \in {"mirrorKeys", "remove", "write"}
    /\ copy.at = "remove" => copy.cand # {}
    /\ ~up \/ Trouble
    /\ IF up THEN CountTrouble ELSE UNCHANGED used
    /\ CopyEnds(TRUE)
    /\ UNCHANGED <<dbVars, linkVars, clock>>

-----------------------------------------------------------------------------
(* The environment *)

Outage ==
    /\ up
    /\ Trouble
    /\ CountTrouble
    /\ up' = FALSE
    /\ UNCHANGED <<dbVars, auth, setup, recovery, copy, writes, missed, behind, clock>>

Return ==
    /\ ~up
    /\ up' = TRUE
    /\ UNCHANGED <<dbVars, auth, setup, recovery, copy, writes, missed, behind, clock, used>>

Second ==
    /\ clock < MaxTime
    /\ clock' = clock + 1
    /\ UNCHANGED <<dbVars, linkVars, recovery, copy, writes, missed, behind, used>>

Restart ==
    /\ Trouble
    /\ CountTrouble
    /\ Boot(up)
    /\ writes' = {}
    /\ UNCHANGED <<dbVars, up, clock>>

Writing(w) == WriteMain(w) \/ AuthFails(w) \/ AuthSucceeds(w) \/ Apply(w) \/ ApplyFails(w)

Recovering == RecoveryCopies \/ RecoverySetupFails

Copying ==
    \/ SweepMirrorKeys \/ SweepSourceKeys \/ SweepRemove \/ GateSkips \/ GateCopies
    \/ ReadPage \/ WritePage \/ LastPage \/ CopyFails

Next ==
    \/ BeginWrite \/ TickWrite
    \/ \E w \in writes : Writing(w)
    \/ Recovering \/ Copying
    \/ Outage \/ Return \/ Second \/ Restart

Spec == Init /\ [][Next]_vars

\* A started write, a recovery and a copy go on, for the event loop runs what
\* is ready; the mirror may stay away, for a statement that is refused fails.
\* Writes are bounded, so that one condition for all of them starves none.
FairSpec ==
    /\ Spec
    /\ WF_vars(\E w \in writes : Writing(w))
    /\ WF_vars(Recovering)
    /\ WF_vars(Copying)

-----------------------------------------------------------------------------
(* Properties *)

\* The sweep removes no row that the main table has had since the backfill
\* began: the main table's keys are read after the mirror's and before the
\* removal (sweepMirrorOrphansV2).
SweepKeepsKnown == [][SweepRemove => copy.cand \cap copy.kept = {}]_vars

\* When a write was dropped, no later write reaches the mirror before a
\* backfill has run: it starts one, waits for one, or is dropped too
\* (safeMirrorDbHandlerV2, startV2ReconnectBackfill).
Applying(S) == {w.n : w \in {x \in S : x.mirror = "apply"}}

NoWriteBeforeBackfill == [][missed' => Applying(writes') \subseteq Applying(writes)]_vars

\* A backfill that nothing wrote beside and that did not fail leaves the mirror
\* with the main table's keys, and with its rows too unless the gate skipped
\* the copy (runBackfillMirrorV2, isMirrorInSync).
BackfillAligns ==
    [][(GateSkips \/ LastPage) /\ copy.quiet =>
          /\ Keys(mirror) = Keys(main)
          /\ copy.full => mirror = main]_vars

\* No write waits for ever, whatever the mirror does: each one started is
\* applied, fails, or is dropped (safeMirrorDbHandlerV2).
WritesSettle == []<>(writes = {})

\* A recovery whose backfill failed is tried again by the next write, without
\* waiting for another outage: the comment of startV2ReconnectBackfill's catch.
FailureIsRetried == behind => auth = "disconnected" \/ recovery # "none" \/ copy.at # "none" \/ ~up
=============================================================================
