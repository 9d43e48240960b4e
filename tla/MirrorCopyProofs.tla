-------------------------- MODULE MirrorCopyProofs --------------------------
(***************************************************************************)
(* Safety of the mirror's backfill and of its recovery, for any table, any *)
(* number of writes, outages, failures and restarts.                       *)
(***************************************************************************)
EXTENDS MirrorCopy, FiniteSetTheorems, TLAPS

\* What the copy knows of the main table.
KeptInv ==
    /\ copy.at # "none" => copy.kept \subseteq Keys(main)
    /\ copy.at = "remove" => copy.cand \cap copy.kept = {}

\* A write was dropped: the next one that reaches the mirror starts a recovery.
MissedInv == missed => auth = "disconnected" \/ recovery # "none"

\* While nothing writes beside it, the sweep leaves no orphan, ...
SweepInv ==
    copy.quiet =>
        /\ copy.at = "sourceKeys" => Keys(mirror) \subseteq copy.cand
        /\ copy.at = "remove" => Keys(mirror) \ copy.cand \subseteq Keys(main)
        /\ copy.at \in {"gate", "read", "write"} => Keys(mirror) \subseteq Keys(main)

\* ... and the rows behind the walk are those of the main table.
Walking == copy.at \in {"read", "write"}
WalkInv ==
    /\ copy.full => Walking
    /\ copy.quiet /\ Walking =>
         \A r \in Keys(main) : r < copy.next => mirror[r] = main[r]
    /\ copy.quiet /\ copy.at = "read" =>
         \A r \in Keys(main) : r = copy.next => mirror[r] = main[r]
    /\ copy.quiet /\ copy.at = "write" =>
         copy.next \in Keys(main) /\ copy.row = main[copy.next]

IInv == TypeOK /\ KeptInv /\ MissedInv /\ SweepInv /\ WalkInv

-----------------------------------------------------------------------------
(* Types *)

LEMMA Constants ==
    /\ Rows \subseteq Nat \ {0} /\ IsFiniteSet(Rows)
    /\ MaxWrites \in Nat /\ MaxTime \in Nat /\ MaxTroubles \in Nat
    /\ NoRow \notin Row
BY MirrorConstants, MirrorNoRow

Table == [Rows -> Row \cup {NoRow}]
Copy == [at : {"none", "mirrorKeys", "sourceKeys", "remove", "gate", "read", "write"},
         cand : SUBSET Rows, next : Nat, row : Row \cup {NoRow},
         kept : SUBSET Rows, quiet : BOOLEAN, full : BOOLEAN]
Write == [n : 1 .. MaxWrites, key : Rows, del : BOOLEAN,
          main : BOOLEAN, mirror : {"auth", "wait", "apply", "done"}]

LEMMA WrittenType ==
    ASSUME TypeOK, NEW t \in Table, NEW w,
           w.n \in 1 .. MaxWrites, w.key \in Rows, w.del \in BOOLEAN
    PROVE  /\ Written(t, w) \in Table
           /\ w.del => Keys(Written(t, w)) = Keys(t) \ {w.key}
           /\ ~w.del => Keys(Written(t, w)) = Keys(t) \cup {w.key}
<1>1. [val |-> w.n, at |-> clock] \in Row
    BY Constants DEF TypeOK, Row
<1>2. [val |-> w.n, at |-> clock] # NoRow
    BY <1>1, Constants
<1> QED BY <1>1, <1>2 DEF Written, Remove, Put, Table, Keys

LEMMA StartCopyType ==
    /\ NoCopy \in Copy
    /\ StartCopy \in Copy /\ StartCopy.at = "mirrorKeys" /\ StartCopy.kept = Keys(main)
    /\ ~StartCopy.full
BY DEF NoCopy, StartCopy, Copy, Keys

LEMMA DisturbedType ==
    ASSUME NEW c \in Copy, NEW w, NEW inMain \in BOOLEAN
    PROVE  /\ Disturbed(c, w, inMain) \in Copy
           /\ Disturbed(c, w, inMain).at = c.at
           /\ Disturbed(c, w, inMain).row = c.row
           /\ Disturbed(c, w, inMain).next = c.next
           /\ Disturbed(c, w, inMain).full = c.full
           /\ Disturbed(c, w, inMain).cand = c.cand
           /\ Disturbed(c, w, inMain).kept \subseteq c.kept
           /\ inMain /\ w.del /\ c.at # "none" => w.key \notin Disturbed(c, w, inMain).kept
           /\ c.at # "none" => ~Disturbed(c, w, inMain).quiet
BY DEF Disturbed, Copy

LEMMA MovesType ==
    ASSUME TypeOK, NEW w \in writes, NEW onMain \in BOOLEAN,
           NEW onMirror \in {"auth", "wait", "apply", "done"}
    PROVE  \A x \in Moves(w, onMain, onMirror) :
             /\ x \in Write
             /\ x.main \/ x.mirror # "done"
             /\ x.mirror = "wait" => (x \in writes \/ onMirror = "wait")
             /\ x.mirror = "apply" => x \in writes \/ (onMirror = "apply" /\ x.n = w.n)
<1> TAKE x \in Moves(w, onMain, onMirror)
<1>1. w \in Write /\ \A y \in writes : y \in Write /\ (y.main \/ y.mirror # "done")
    BY DEF TypeOK, Write
<1>2. CASE x \in writes
    <2>1. x \in Write /\ (x.main \/ x.mirror # "done")
        BY <1>1, <1>2
    <2> QED BY <1>2, <2>1
<1>3. CASE x \notin writes
    <2>1. x = [w EXCEPT !.main = onMain, !.mirror = onMirror] /\ ~(~onMain /\ onMirror = "done")
        BY <1>3 DEF Moves
    <2>2. x \in Write /\ x.main = onMain /\ x.mirror = onMirror /\ x.n = w.n
        BY <1>1, <2>1 DEF Write
    <2> QED BY <2>1, <2>2
<1> QED BY <1>2, <1>3

LEMMA ResumedType ==
    ASSUME TypeOK, NEW isSetup \in BOOLEAN
    PROVE  \A x \in Unfinished(Resumed(isSetup)) :
             /\ x \in Write
             /\ x.main \/ x.mirror # "done"
             /\ x.mirror # "wait"
             /\ ~isSetup /\ x.mirror = "apply" => x \in writes
BY DEF TypeOK, Unfinished, Resumed, Write

-----------------------------------------------------------------------------
(* Steps *)

LEMMA Fields ==
    ASSUME TypeOK
    PROVE  /\ main \in Table /\ mirror \in Table /\ copy \in Copy
           /\ writes \subseteq Write /\ clock \in 0 .. MaxTime
           /\ used.writes \in 0 .. MaxWrites /\ used.troubles \in 0 .. MaxTroubles
BY DEF TypeOK, Table, Copy, Write

\* A count of troubles stays within its bound.
LEMMA CountType ==
    ASSUME TypeOK, (Trouble /\ CountTrouble) \/ UNCHANGED used
    PROVE  used' \in [writes : 0 .. MaxWrites, troubles : 0 .. MaxTroubles]
<1>1. used \in [writes : 0 .. MaxWrites, troubles : 0 .. MaxTroubles]
    BY DEF TypeOK
<1> QED BY <1>1, Constants DEF Trouble, CountTrouble

LEMMA InitIInv == Init => IInv
<1> SUFFICES ASSUME Init PROVE IInv
    OBVIOUS
<1>1. [val |-> 0, at |-> 0] \in Row
    BY Constants DEF Row
<1>2. main \in Table /\ mirror \in Table
    BY <1>1 DEF Init, Table
<1>3. copy \in Copy /\ copy.at \in {"none", "mirrorKeys"}
    BY StartCopyType DEF Init, NoCopy
<1>4. used \in [writes : 0 .. MaxWrites, troubles : 0 .. MaxTroubles] /\ clock \in 0 .. MaxTime
    BY Constants DEF Init
<1>5. TypeOK
    BY <1>2, <1>3, <1>4 DEF Init, TypeOK, Copy, Table
<1>6. KeptInv /\ MissedInv /\ SweepInv /\ WalkInv
    BY StartCopyType DEF Init, KeptInv, MissedInv, SweepInv, WalkInv, Walking, NoCopy
<1> QED BY <1>5, <1>6 DEF IInv

LEMMA BeginWriteIInv == IInv /\ BeginWrite => IInv'
<1> SUFFICES ASSUME IInv, BeginWrite PROVE IInv'
    OBVIOUS
<1>1. PICK k \in Rows, d \in BOOLEAN :
         writes' = writes \cup {[n |-> used.writes + 1, key |-> k, del |-> d,
                                 main |-> TRUE, mirror |-> "auth"]}
    BY DEF BeginWrite
<1>2. used.writes + 1 \in 1 .. MaxWrites
    BY Constants, Fields DEF IInv, BeginWrite
<1>3. used' \in [writes : 0 .. MaxWrites, troubles : 0 .. MaxTroubles]
    BY <1>2 DEF IInv, TypeOK, BeginWrite
<1>4. \A x \in writes' : /\ x \in Write /\ (x.main \/ x.mirror # "done")
                         /\ x.mirror = "wait" => recovery # "none"
    <2> SUFFICES ASSUME NEW x \in writes'
                 PROVE  /\ x \in Write /\ (x.main \/ x.mirror # "done")
                        /\ x.mirror = "wait" => recovery # "none"
        OBVIOUS
    <2>1. CASE x \in writes
        BY <2>1 DEF IInv, TypeOK, Write
    <2>2. CASE x = [n |-> used.writes + 1, key |-> k, del |-> d,
                    main |-> TRUE, mirror |-> "auth"]
        BY <1>2, <2>2 DEF Write
    <2> QED BY <1>1, <2>1, <2>2
<1>5. TypeOK'
    BY <1>3, <1>4 DEF IInv, TypeOK, BeginWrite, Write, dbVars, linkVars
<1> QED
    BY <1>5 DEF IInv, BeginWrite, KeptInv, MissedInv, SweepInv, WalkInv, Walking, Keys,
                dbVars, linkVars

\* A write to the main table disturbs the copy and keeps what it has kept.
LEMMA MainWriteKeeps ==
    ASSUME IInv, NEW w, w.n \in 1 .. MaxWrites, w.key \in Rows, w.del \in BOOLEAN,
           main' = Written(main, w), copy' = Disturbed(copy, w, TRUE)
    PROVE  KeptInv' /\ SweepInv' /\ WalkInv' /\ copy' \in Copy /\ copy'.at = copy.at
           /\ main' \in Table
           /\ (copy.at = "write" => copy'.row = copy.row /\ copy'.next = copy.next)
<1>1. main \in Table /\ copy \in Copy
    BY Fields DEF IInv
<1>2. /\ main' \in Table
      /\ w.del => Keys(main)' = Keys(main) \ {w.key}
      /\ ~w.del => Keys(main)' = Keys(main) \cup {w.key}
    BY <1>1, WrittenType DEF IInv, Keys
<1>3. /\ copy' \in Copy /\ copy'.at = copy.at /\ copy'.full = copy.full
      /\ copy'.cand = copy.cand /\ copy'.kept \subseteq copy.kept
      /\ copy'.row = copy.row /\ copy'.next = copy.next
      /\ w.del /\ copy.at # "none" => w.key \notin copy'.kept
      /\ copy.at # "none" => ~copy'.quiet
    BY <1>1, DisturbedType
<1>4. KeptInv'
    BY <1>2, <1>3 DEF IInv, KeptInv, Keys
<1>5. SweepInv' /\ WalkInv'
    BY <1>3 DEF IInv, SweepInv, WalkInv, Walking
<1> QED BY <1>2, <1>3, <1>4, <1>5

LEMMA WriteMainIInv == \A w \in writes : IInv /\ WriteMain(w) => IInv'
<1> SUFFICES ASSUME NEW w \in writes, IInv, WriteMain(w) PROVE IInv'
    OBVIOUS
<1>1. w \in Write
    BY Fields DEF IInv
<1>2. /\ KeptInv' /\ SweepInv' /\ WalkInv' /\ copy' \in Copy /\ copy'.at = copy.at
      /\ main' \in Table
      /\ (copy.at = "write" => copy'.row = copy.row /\ copy'.next = copy.next)
    BY <1>1, MainWriteKeeps DEF WriteMain, Write
<1>3. MissedInv'
    BY DEF IInv, MissedInv, WriteMain, linkVars
<1>4. \A x \in writes' : /\ x \in Write /\ (x.main \/ x.mirror # "done")
                         /\ x.mirror = "wait" => x \in writes \/ w.mirror = "wait"
    BY <1>1, MovesType DEF IInv, WriteMain, Write
<1>5. TypeOK'
    BY <1>1, <1>2, <1>4 DEF IInv, TypeOK, WriteMain, Write, Copy, Table, linkVars
<1> QED BY <1>2, <1>3, <1>5 DEF IInv

\* What a step that leaves tables and copy alone has to show.
LEMMA CopyUntouched ==
    ASSUME IInv, UNCHANGED <<main, mirror, copy>>
    PROVE  KeptInv' /\ SweepInv' /\ WalkInv'
BY DEF IInv, KeptInv, SweepInv, WalkInv, Walking, Keys

LEMMA AuthFailsIInv == \A w \in writes : IInv /\ AuthFails(w) => IInv'
<1> SUFFICES ASSUME NEW w \in writes, IInv, AuthFails(w) PROVE IInv'
    OBVIOUS
<1>1. KeptInv' /\ SweepInv' /\ WalkInv'
    BY CopyUntouched DEF AuthFails, dbVars
<1>2. MissedInv'
    BY DEF AuthFails, MissedInv
<1>3. \A x \in writes' : /\ x \in Write /\ (x.main \/ x.mirror # "done")
                         /\ x.mirror = "wait" => x \in writes
    BY MovesType, Fields DEF IInv, AuthFails, Write
<1>4. TypeOK'
    BY <1>3 DEF IInv, TypeOK, AuthFails, Write, dbVars
<1> QED BY <1>1, <1>2, <1>4 DEF IInv

LEMMA AuthSucceedsIInv == \A w \in writes : IInv /\ AuthSucceeds(w) => IInv'
<1> SUFFICES ASSUME NEW w \in writes, IInv, AuthSucceeds(w) PROVE IInv'
    OBVIOUS
<1>1. KeptInv' /\ SweepInv' /\ WalkInv'
    BY CopyUntouched DEF AuthSucceeds, dbVars
<1>2. MissedInv'
    BY DEF IInv, AuthSucceeds, MissedInv, LostTheMirror
<1>3. \A x \in writes' : /\ x \in Write /\ (x.main \/ x.mirror # "done")
                         /\ x.mirror = "wait" =>
                              x \in writes \/ LostTheMirror \/ recovery # "none"
    <2> DEFINE to == IF LostTheMirror \/ recovery # "none" THEN "wait" ELSE "apply"
    <2>1. w.main \in BOOLEAN /\ to \in {"auth", "wait", "apply", "done"}
        BY Fields DEF IInv, Write
    <2>2. writes' = Moves(w, w.main, to)
        BY DEF AuthSucceeds
    <2> HIDE DEF to
    <2>3. \A x \in writes' : /\ x \in Write /\ (x.main \/ x.mirror # "done")
                             /\ x.mirror = "wait" => x \in writes \/ to = "wait"
        BY <2>1, <2>2, MovesType DEF IInv
    <2> QED BY <2>3 DEF to
<1>4. recovery' # "copy" \/ recovery = "copy"
    BY DEF AuthSucceeds
<1>5. LostTheMirror \/ recovery # "none" => recovery' # "none"
    BY DEF AuthSucceeds
<1>6. recovery' \in {"none", "start", "copy"} /\ auth' = "connected"
    BY DEF IInv, TypeOK, AuthSucceeds
<1>7. TypeOK'
    BY <1>3, <1>4, <1>5, <1>6 DEF IInv, TypeOK, AuthSucceeds, Write, dbVars
<1> QED BY <1>1, <1>2, <1>7 DEF IInv

\* A write to the mirror disturbs the copy.
LEMMA MirrorWriteKeeps ==
    ASSUME IInv, NEW w, w.n \in 1 .. MaxWrites, w.key \in Rows, w.del \in BOOLEAN,
           mirror' = Written(mirror, w), copy' = Disturbed(copy, w, FALSE), UNCHANGED main
    PROVE  KeptInv' /\ SweepInv' /\ WalkInv' /\ copy' \in Copy /\ copy'.at = copy.at
           /\ mirror' \in Table /\ copy'.row = copy.row /\ copy'.next = copy.next
<1>1. mirror \in Table /\ copy \in Copy
    BY Fields DEF IInv
<1>2. mirror' \in Table
    BY <1>1, WrittenType DEF IInv
<1>3. /\ copy' \in Copy /\ copy'.at = copy.at /\ copy'.full = copy.full
      /\ copy'.cand = copy.cand /\ copy'.kept \subseteq copy.kept
      /\ copy'.row = copy.row /\ copy'.next = copy.next
      /\ copy.at # "none" => ~copy'.quiet
    BY <1>1, DisturbedType
<1>4. KeptInv'
    BY <1>3 DEF IInv, KeptInv, Keys
<1>5. SweepInv' /\ WalkInv'
    BY <1>3 DEF IInv, SweepInv, WalkInv, Walking
<1> QED BY <1>2, <1>3, <1>4, <1>5

LEMMA ApplyIInv == \A w \in writes : IInv /\ Apply(w) => IInv'
<1> SUFFICES ASSUME NEW w \in writes, IInv, Apply(w) PROVE IInv'
    OBVIOUS
<1>1. w \in Write
    BY Fields DEF IInv
<1>2. /\ KeptInv' /\ SweepInv' /\ WalkInv' /\ copy' \in Copy /\ copy'.at = copy.at
      /\ mirror' \in Table /\ copy'.row = copy.row /\ copy'.next = copy.next
    BY <1>1, MirrorWriteKeeps DEF Apply, Write
<1>3. MissedInv'
    BY DEF IInv, MissedInv, Apply, linkVars
<1>4. \A x \in writes' : /\ x \in Write /\ (x.main \/ x.mirror # "done")
                         /\ x.mirror = "wait" => x \in writes
    BY <1>1, MovesType DEF IInv, Apply, Write
<1>5. TypeOK'
    BY <1>2, <1>4 DEF IInv, TypeOK, Apply, Write, Copy, Table, linkVars
<1> QED BY <1>2, <1>3, <1>5 DEF IInv

LEMMA ApplyFailsIInv == \A w \in writes : IInv /\ ApplyFails(w) => IInv'
<1> SUFFICES ASSUME NEW w \in writes, IInv, ApplyFails(w) PROVE IInv'
    OBVIOUS
<1>1. KeptInv' /\ SweepInv' /\ WalkInv'
    BY CopyUntouched DEF ApplyFails, dbVars
<1>2. MissedInv'
    BY DEF IInv, ApplyFails, MissedInv, linkVars
<1>3. \A x \in writes' : /\ x \in Write /\ (x.main \/ x.mirror # "done")
                         /\ x.mirror = "wait" => x \in writes
    BY MovesType, Fields DEF IInv, ApplyFails, Write
<1>4. used' \in [writes : 0 .. MaxWrites, troubles : 0 .. MaxTroubles]
    BY CountType DEF IInv, TypeOK, ApplyFails
<1>5. TypeOK'
    BY <1>3, <1>4 DEF IInv, TypeOK, ApplyFails, Write, dbVars, linkVars
<1> QED BY <1>1, <1>2, <1>5 DEF IInv

LEMMA TickWriteIInv == IInv /\ TickWrite => IInv'
<1> SUFFICES ASSUME IInv, TickWrite PROVE IInv'
    OBVIOUS
<1>1. PICK k \in Rows, d \in BOOLEAN :
         LET w == [n |-> used.writes + 1, key |-> k, del |-> d]
         IN  /\ main' = Written(main, w)
             /\ copy' = Disturbed(copy, w, TRUE)
             /\ \/ up /\ setup /\ mirror' = Written(mirror, w)
                   /\ used' = [used EXCEPT !.writes = @ + 1]
                \/ (~up \/ ~setup) /\ mirror' = mirror
                   /\ used' = [used EXCEPT !.writes = @ + 1]
                \/ up /\ Trouble /\ mirror' = mirror
                   /\ used' = [used EXCEPT !.writes = @ + 1, !.troubles = @ + 1]
    BY DEF TickWrite
<1> DEFINE w == [n |-> used.writes + 1, key |-> k, del |-> d]
<1>2. w.n \in 1 .. MaxWrites /\ w.key \in Rows /\ w.del \in BOOLEAN
    BY Constants, Fields DEF IInv, TickWrite
<1>3. main' = Written(main, w) /\ copy' = Disturbed(copy, w, TRUE)
    BY <1>1
<1>4. mirror' = mirror \/ mirror' = Written(mirror, w)
    BY <1>1
<1>5. used' \in [writes : 0 .. MaxWrites, troubles : 0 .. MaxTroubles]
    <2>1. used.writes + 1 \in 0 .. MaxWrites
        BY <1>2, Constants
    <2>2. Trouble => used.troubles + 1 \in 0 .. MaxTroubles
        BY Constants, Fields DEF Trouble, IInv
    <2> QED BY <1>1, <2>1, <2>2 DEF IInv, TypeOK
<1> HIDE DEF w
<1>6. KeptInv' /\ SweepInv' /\ WalkInv' /\ copy' \in Copy /\ copy'.at = copy.at
      /\ main' \in Table
      /\ (copy.at = "write" => copy'.row = copy.row /\ copy'.next = copy.next)
    BY <1>2, <1>3, MainWriteKeeps
<1>7. mirror' \in Table
    BY <1>2, <1>4, WrittenType, Fields DEF IInv
<1>8. MissedInv'
    BY DEF IInv, MissedInv, TickWrite, linkVars
<1>9. TypeOK'
    BY <1>5, <1>6, <1>7 DEF IInv, TypeOK, TickWrite, Copy, Table, linkVars
<1> QED BY <1>6, <1>8, <1>9 DEF IInv

-----------------------------------------------------------------------------
(* Recoveries *)

LEMMA RecoveryCopiesIInv == IInv /\ RecoveryCopies => IInv'
<1> SUFFICES ASSUME IInv, RecoveryCopies PROVE IInv'
    OBVIOUS
<1>1. MissedInv'
    BY DEF IInv, MissedInv, RecoveryCopies
<1>2. CASE copy.at = "none"
    <2>1. /\ copy' \in Copy /\ copy'.at = "mirrorKeys" /\ copy'.kept = Keys(main)
          /\ ~copy'.full
        BY <1>2, StartCopyType DEF RecoveryCopies
    <2>2. KeptInv' /\ SweepInv' /\ WalkInv'
        BY <2>1 DEF KeptInv, SweepInv, WalkInv, Walking, RecoveryCopies, Keys, dbVars
    <2>3. TypeOK'
        BY <2>1 DEF IInv, TypeOK, RecoveryCopies, Copy, dbVars
    <2> QED BY <1>1, <2>2, <2>3 DEF IInv
<1>3. CASE copy.at # "none"
    <2>1. copy' = copy
        BY <1>3 DEF RecoveryCopies
    <2>2. KeptInv' /\ SweepInv' /\ WalkInv'
        BY <2>1, CopyUntouched DEF RecoveryCopies, dbVars
    <2>3. TypeOK'
        BY <1>3, <2>1 DEF IInv, TypeOK, RecoveryCopies, dbVars
    <2> QED BY <1>1, <2>2, <2>3 DEF IInv
<1> QED BY <1>2, <1>3

LEMMA RecoverySetupFailsIInv == IInv /\ RecoverySetupFails => IInv'
<1> SUFFICES ASSUME IInv, RecoverySetupFails PROVE IInv'
    OBVIOUS
<1>1. KeptInv' /\ SweepInv' /\ WalkInv'
    BY CopyUntouched DEF RecoverySetupFails, dbVars
<1>2. MissedInv'
    BY DEF MissedInv, RecoverySetupFails
<1>3. \A x \in writes' : /\ x \in Write /\ (x.main \/ x.mirror # "done")
                         /\ x.mirror # "wait"
    BY ResumedType DEF IInv, RecoverySetupFails
<1>4. used' \in [writes : 0 .. MaxWrites, troubles : 0 .. MaxTroubles]
    BY CountType DEF IInv, TypeOK, RecoverySetupFails
<1>5. TypeOK'
    BY <1>3, <1>4 DEF IInv, TypeOK, RecoverySetupFails, Write, dbVars
<1> QED BY <1>1, <1>2, <1>5 DEF IInv

-----------------------------------------------------------------------------
(* The copy *)

\* The end of a copy, whatever it did, and of the recovery that waited for it.
LEMMA CopyEndsIInv ==
    ASSUME IInv, NEW failed \in BOOLEAN, CopyEnds(failed), copy.at # "none",
           main' \in Table, mirror' \in Table, UNCHANGED <<linkVars, clock>>,
           used' \in [writes : 0 .. MaxWrites, troubles : 0 .. MaxTroubles]
    PROVE  IInv'
<1>1. copy' = NoCopy /\ copy' \in Copy /\ copy'.at = "none" /\ ~copy'.full
    BY StartCopyType DEF CopyEnds, NoCopy
<1>2. KeptInv' /\ MissedInv' /\ SweepInv' /\ WalkInv'
    BY <1>1 DEF KeptInv, MissedInv, SweepInv, WalkInv, Walking, CopyEnds
<1>3. behind' \in BOOLEAN /\ missed' \in BOOLEAN
    BY DEF CopyEnds
<1>4. CASE recovery = "copy"
    <2>1. \A x \in writes' : /\ x \in Write /\ (x.main \/ x.mirror # "done")
                             /\ x.mirror # "wait"
        BY <1>4, ResumedType DEF IInv, CopyEnds, TypeOK
    <2> QED
        BY <1>1, <1>2, <1>3, <1>4, <2>1
        DEF IInv, TypeOK, CopyEnds, Write, Copy, Table, linkVars
<1>5. CASE recovery # "copy"
    BY <1>1, <1>2, <1>3, <1>5 DEF IInv, TypeOK, CopyEnds, Copy, Table, linkVars
<1> QED BY <1>4, <1>5

\* A copy that goes on leaves everything but itself alone.
LEMMA CopyGoesOnIInv ==
    ASSUME IInv, NEW c \in Copy, CopyGoesOn(c), c.at # "none",
           c.at = "write" => c.row # NoRow /\ c.next \in Rows,
           main' = main, mirror' \in Table, UNCHANGED <<linkVars, clock>>,
           used' \in [writes : 0 .. MaxWrites, troubles : 0 .. MaxTroubles]
    PROVE  TypeOK' /\ MissedInv' /\ copy' = c
<1>1. TypeOK'
    BY DEF IInv, TypeOK, CopyGoesOn, Copy, Table, linkVars
<1>2. MissedInv'
    BY DEF IInv, MissedInv, CopyGoesOn, linkVars
<1> QED BY <1>1, <1>2 DEF CopyGoesOn

LEMMA SweepMirrorKeysIInv == IInv /\ SweepMirrorKeys => IInv'
<1> SUFFICES ASSUME IInv, SweepMirrorKeys PROVE IInv'
    OBVIOUS
<1> DEFINE c == [copy EXCEPT !.at = "sourceKeys", !.cand = Keys(mirror)]
<1>1. /\ c \in Copy /\ c.at = "sourceKeys" /\ c.cand = Keys(mirror)
      /\ c.kept = copy.kept /\ c.full = copy.full
    BY Fields DEF IInv, Copy, Keys
<1>2. CopyGoesOn(c) /\ UNCHANGED <<main, mirror, linkVars, clock, used>>
    BY DEF SweepMirrorKeys, dbVars
<1> HIDE DEF c
<1>3. TypeOK' /\ MissedInv' /\ copy' = c
    BY <1>1, <1>2, CopyGoesOnIInv, Fields DEF IInv, TypeOK
<1>4. KeptInv' /\ SweepInv' /\ WalkInv'
    BY <1>1, <1>2, <1>3
    DEF IInv, KeptInv, SweepInv, WalkInv, Walking, SweepMirrorKeys, Keys
<1> QED BY <1>3, <1>4 DEF IInv

LEMMA SweepSourceKeysIInv == IInv /\ SweepSourceKeys => IInv'
<1> SUFFICES ASSUME IInv, SweepSourceKeys PROVE IInv'
    OBVIOUS
<1> DEFINE c == [copy EXCEPT !.at = "remove", !.cand = @ \ Keys(main)]
<1>1. /\ c \in Copy /\ c.at = "remove" /\ c.cand = copy.cand \ Keys(main)
      /\ c.kept = copy.kept /\ c.full = copy.full /\ c.quiet = copy.quiet
    BY Fields DEF IInv, Copy, Keys
<1>2. CopyGoesOn(c) /\ UNCHANGED <<main, mirror, linkVars, clock, used>>
    BY DEF SweepSourceKeys, dbVars
<1> HIDE DEF c
<1>3. TypeOK' /\ MissedInv' /\ copy' = c
    BY <1>1, <1>2, CopyGoesOnIInv, Fields DEF IInv, TypeOK
<1>4. KeptInv' /\ SweepInv' /\ WalkInv'
    BY <1>1, <1>2, <1>3
    DEF IInv, KeptInv, SweepInv, WalkInv, Walking, SweepSourceKeys, Keys
<1> QED BY <1>3, <1>4 DEF IInv

LEMMA SweepRemoveIInv == IInv /\ SweepRemove => IInv'
<1> SUFFICES ASSUME IInv, SweepRemove PROVE IInv'
    OBVIOUS
<1> DEFINE c == [copy EXCEPT !.at = "gate", !.cand = {}]
<1>1. /\ c \in Copy /\ c.at = "gate"
      /\ c.kept = copy.kept /\ c.full = copy.full /\ c.quiet = copy.quiet
    BY Fields DEF IInv, Copy, Keys
<1>2. CopyGoesOn(c) /\ UNCHANGED <<main, linkVars, clock, used>>
    BY DEF SweepRemove
<1>3. mirror' \in Table /\ Keys(mirror)' = Keys(mirror) \ copy.cand
    BY Fields DEF IInv, SweepRemove, Remove, Table, Keys
<1> HIDE DEF c
<1>4. TypeOK' /\ MissedInv' /\ copy' = c
    BY <1>1, <1>2, <1>3, CopyGoesOnIInv, Fields DEF IInv, TypeOK
<1>5. KeptInv' /\ SweepInv' /\ WalkInv'
    BY <1>1, <1>2, <1>3, <1>4
    DEF IInv, KeptInv, SweepInv, WalkInv, Walking, SweepRemove, Keys
<1> QED BY <1>4, <1>5 DEF IInv

LEMMA GateCopiesIInv == IInv /\ GateCopies => IInv'
<1> SUFFICES ASSUME IInv, GateCopies PROVE IInv'
    OBVIOUS
<1> DEFINE c == [copy EXCEPT !.at = "read", !.next = 0, !.full = TRUE]
<1>1. /\ c \in Copy /\ c.at = "read" /\ c.next = 0
      /\ c.kept = copy.kept /\ c.quiet = copy.quiet
    BY Fields DEF IInv, Copy, Keys
<1>2. CopyGoesOn(c) /\ UNCHANGED <<main, mirror, linkVars, clock>>
    BY DEF GateCopies, dbVars
<1>3. used' \in [writes : 0 .. MaxWrites, troubles : 0 .. MaxTroubles]
    BY CountType DEF IInv, TypeOK, GateCopies
<1> HIDE DEF c
<1>4. TypeOK' /\ MissedInv' /\ copy' = c
    BY <1>1, <1>2, <1>3, CopyGoesOnIInv, Fields DEF IInv, TypeOK
<1>5. \A r \in Keys(main) : r \in Nat \ {0}
    BY Constants DEF Keys
<1>6. KeptInv' /\ SweepInv' /\ WalkInv'
    BY <1>1, <1>2, <1>4, <1>5
    DEF IInv, KeptInv, SweepInv, WalkInv, Walking, GateCopies, Keys
<1> QED BY <1>4, <1>6 DEF IInv

LEMMA ReadPageIInv == IInv /\ ReadPage => IInv'
<1> SUFFICES ASSUME IInv, ReadPage PROVE IInv'
    OBVIOUS
<1>0. PICK k \in After(copy.next) :
         /\ \A r \in After(copy.next) : k <= r
         /\ CopyGoesOn([copy EXCEPT !.at = "write", !.next = k, !.row = main[k]])
    BY DEF ReadPage
<1> DEFINE c == [copy EXCEPT !.at = "write", !.next = k, !.row = main[k]]
<1>1. k \in Keys(main) /\ k \in Rows /\ k \in Nat /\ main[k] \in Row \cup {NoRow} /\ main[k] # NoRow
    BY Constants, Fields DEF IInv, After, Keys, Table
<1>2. /\ c \in Copy /\ c.at = "write" /\ c.next = k /\ c.row = main[k]
      /\ c.kept = copy.kept /\ c.quiet = copy.quiet /\ c.full = copy.full
    BY <1>1, Fields DEF IInv, Copy
<1>3. CopyGoesOn(c) /\ UNCHANGED <<main, mirror, linkVars, clock, used>>
    BY <1>0 DEF ReadPage, dbVars
<1> HIDE DEF c
<1>4. TypeOK' /\ MissedInv' /\ copy' = c
    BY <1>1, <1>2, <1>3, CopyGoesOnIInv, Fields DEF IInv, TypeOK
<1>5. \A r \in Keys(main) : r < k => r < copy.next \/ r = copy.next
    BY <1>0, <1>1, Constants, Fields DEF IInv, Copy, After, Keys
<1>6. KeptInv' /\ SweepInv'
    BY <1>2, <1>3, <1>4 DEF IInv, KeptInv, SweepInv, ReadPage, Keys
<1>7. WalkInv'
    BY <1>1, <1>2, <1>3, <1>4, <1>5 DEF IInv, WalkInv, Walking, ReadPage, Keys
<1> QED BY <1>4, <1>6, <1>7 DEF IInv

LEMMA WritePageIInv == IInv /\ WritePage => IInv'
<1> SUFFICES ASSUME IInv, WritePage PROVE IInv'
    OBVIOUS
<1> DEFINE c == [copy EXCEPT !.at = "read", !.row = NoRow]
<1>1. /\ c \in Copy /\ c.at = "read" /\ c.next = copy.next
      /\ c.kept = copy.kept /\ c.quiet = copy.quiet /\ c.full = copy.full
    BY Fields DEF IInv, Copy
<1>2. CopyGoesOn(c) /\ UNCHANGED <<main, linkVars, clock, used>>
    BY DEF WritePage
<1>3. /\ mirror' \in Table
      /\ \A r \in Rows : mirror'[r] = IF r = copy.next THEN copy.row ELSE mirror[r]
    BY Fields DEF IInv, WritePage, Table, Copy
<1> HIDE DEF c
<1>4. TypeOK' /\ MissedInv' /\ copy' = c
    BY <1>1, <1>2, <1>3, CopyGoesOnIInv, Fields DEF IInv, TypeOK
<1>5. KeptInv'
    BY <1>1, <1>2, <1>4 DEF IInv, KeptInv, WritePage, Keys
<1>6. SweepInv'
    BY <1>1, <1>2, <1>3, <1>4 DEF IInv, SweepInv, WalkInv, Walking, WritePage, Keys
<1>7. WalkInv'
    BY <1>1, <1>2, <1>3, <1>4 DEF IInv, WalkInv, Walking, WritePage, Keys
<1> QED BY <1>4, <1>5, <1>6, <1>7 DEF IInv

LEMMA CopyingIInv == IInv /\ Copying => IInv'
<1> SUFFICES ASSUME IInv, Copying PROVE IInv'
    OBVIOUS
<1>1. CASE GateSkips \/ LastPage
    <2>1. copy.at # "none" /\ CopyEnds(FALSE) /\ UNCHANGED <<main, mirror, linkVars, clock, used>>
        BY <1>1 DEF GateSkips, LastPage, dbVars
    <2> QED BY <2>1, CopyEndsIInv, Fields DEF IInv, TypeOK
<1>2. CASE CopyFails
    <2>1. copy.at # "none" /\ CopyEnds(TRUE) /\ UNCHANGED <<main, mirror, linkVars, clock>>
        BY <1>2 DEF CopyFails, dbVars
    <2>2. used' \in [writes : 0 .. MaxWrites, troubles : 0 .. MaxTroubles]
        BY <1>2, CountType DEF IInv, TypeOK, CopyFails
    <2> QED BY <2>1, <2>2, CopyEndsIInv, Fields DEF IInv
<1> QED
    BY <1>1, <1>2, SweepMirrorKeysIInv, SweepSourceKeysIInv, SweepRemoveIInv, GateCopiesIInv,
       ReadPageIInv, WritePageIInv DEF Copying

-----------------------------------------------------------------------------
(* The environment *)

LEMMA OutageIInv == IInv /\ (Outage \/ Return) => IInv'
<1> SUFFICES ASSUME IInv, Outage \/ Return PROVE IInv'
    OBVIOUS
<1>1. KeptInv' /\ SweepInv' /\ WalkInv'
    BY CopyUntouched DEF Outage, Return, dbVars
<1>2. used' \in [writes : 0 .. MaxWrites, troubles : 0 .. MaxTroubles]
    BY CountType DEF IInv, TypeOK, Outage, Return
<1>3. up' \in BOOLEAN /\ UNCHANGED <<main, mirror, auth, setup, recovery, copy, writes,
                                   missed, behind, clock>>
    BY DEF Outage, Return, dbVars
<1>4. TypeOK'
    BY <1>2, <1>3 DEF IInv, TypeOK
<1>5. MissedInv'
    BY <1>3 DEF IInv, MissedInv
<1> QED BY <1>1, <1>4, <1>5 DEF IInv

LEMMA SecondIInv == IInv /\ Second => IInv'
<1> SUFFICES ASSUME IInv, Second PROVE IInv'
    OBVIOUS
<1>1. KeptInv' /\ SweepInv' /\ WalkInv'
    BY CopyUntouched DEF Second, dbVars
<1>2. TypeOK' /\ MissedInv'
    BY Constants DEF IInv, TypeOK, MissedInv, Second, dbVars, linkVars
<1> QED BY <1>1, <1>2 DEF IInv

LEMMA RestartIInv == IInv /\ Restart => IInv'
<1> SUFFICES ASSUME IInv, Restart PROVE IInv'
    OBVIOUS
<1>1. /\ copy' \in Copy /\ copy'.at \in {"none", "mirrorKeys"}
      /\ copy'.at # "none" => copy'.kept = Keys(main)
      /\ ~copy'.full
    BY StartCopyType DEF Restart, Boot, NoCopy
<1>2. used' \in [writes : 0 .. MaxWrites, troubles : 0 .. MaxTroubles]
    BY CountType DEF IInv, TypeOK, Restart
<1>3. TypeOK'
    BY <1>1, <1>2 DEF IInv, TypeOK, Restart, Boot, Copy, dbVars
<1>4. KeptInv' /\ MissedInv' /\ SweepInv' /\ WalkInv'
    BY <1>1 DEF KeptInv, MissedInv, SweepInv, WalkInv, Walking, Restart, Boot, Keys, dbVars
<1> QED BY <1>3, <1>4 DEF IInv

LEMMA NextIInv == IInv /\ [Next]_vars => IInv'
<1> SUFFICES ASSUME IInv, [Next]_vars PROVE IInv'
    OBVIOUS
<1>1. CASE UNCHANGED vars
    BY <1>1 DEF IInv, TypeOK, KeptInv, MissedInv, SweepInv, WalkInv, Walking, Keys,
                vars, dbVars, linkVars
<1>2. ASSUME NEW w \in writes, Writing(w) PROVE IInv'
    BY <1>2, WriteMainIInv, AuthFailsIInv, AuthSucceedsIInv, ApplyIInv, ApplyFailsIInv
    DEF Writing
<1> QED
    BY <1>1, <1>2, BeginWriteIInv, TickWriteIInv, RecoveryCopiesIInv, RecoverySetupFailsIInv,
       CopyingIInv, OutageIInv, SecondIInv, RestartIInv DEF Next, Recovering

LEMMA Invariance == Spec => []IInv
BY InitIInv, NextIInv, PTL DEF Spec

-----------------------------------------------------------------------------
(* Theorems *)

\* The types of all variables; a write waits only while there is a recovery to
\* wait for, and a recovery that copies has a copy in flight.
THEOREM TypeCorrect == Spec => []TypeOK
<1>1. IInv => TypeOK
    BY DEF IInv
<1> QED BY <1>1, Invariance, PTL

\* The sweep keeps every row that the main table has had since the backfill
\* began, however writes, ticks and outages fall between its three statements.
THEOREM SweepKeeps == Spec => SweepKeepsKnown
<1>1. IInv => (SweepRemove => copy.cand \cap copy.kept = {})
    BY DEF IInv, KeptInv, SweepRemove
<1>2. IInv /\ [Next]_vars => [SweepRemove => copy.cand \cap copy.kept = {}]_vars
    BY <1>1
<1> QED BY <1>2, Invariance, PTL DEF Spec, SweepKeepsKnown

\* After a dropped write nothing reaches the mirror before a backfill has run.
THEOREM BackfillGoesFirst == Spec => NoWriteBeforeBackfill
<1>1. ASSUME IInv, [Next]_vars
      PROVE  [missed' => Applying(writes') \subseteq Applying(writes)]_vars
    <2>0. CASE UNCHANGED vars
        BY <2>0
    <2> SUFFICES ASSUME Next, missed' PROVE Applying(writes') \subseteq Applying(writes)
        BY <2>0, <1>1
    <2>1. CASE UNCHANGED writes \/ writes' = {}
        BY <2>1 DEF Applying
    <2>2. CASE BeginWrite
        BY <2>2 DEF BeginWrite, Applying
    <2>3. ASSUME NEW w \in writes, Writing(w)
          PROVE  Applying(writes') \subseteq Applying(writes)
        <3>1. w \in Write
            BY <1>1, Fields DEF IInv
        <3>2. /\ w.main \in BOOLEAN /\ w.mirror \in {"auth", "wait", "apply", "done"}
              /\ w.mirror = "apply" => w \in {x \in writes : x.mirror = "apply"}
            BY <3>1 DEF Write
        <3>3. ASSUME NEW m \in BOOLEAN, NEW to \in {"auth", "wait", "done", w.mirror},
                     writes' = Moves(w, m, to)
              PROVE  Applying(writes') \subseteq Applying(writes)
            <4>1. \A x \in writes' : x.mirror = "apply" =>
                    x \in writes \/ (w.mirror = "apply" /\ x.n = w.n)
                BY <1>1, <3>2, <3>3, MovesType DEF IInv
            <4> QED BY <4>1 DEF Applying
        <3>4. CASE AuthSucceeds(w)
            <4>1. LostTheMirror \/ recovery # "none"
                BY <1>1, <3>4 DEF IInv, MissedInv, LostTheMirror, AuthSucceeds
            <4>2. writes' = Moves(w, w.main, "wait")
                BY <3>4, <4>1 DEF AuthSucceeds
            <4> QED BY <3>2, <3>3, <4>2
        <3>5. CASE WriteMain(w)
            BY <3>2, <3>3, <3>5 DEF WriteMain
        <3>6. CASE AuthFails(w) \/ Apply(w) \/ ApplyFails(w)
            BY <3>2, <3>3, <3>6 DEF AuthFails, Apply, ApplyFails
        <3> QED BY <2>3, <3>4, <3>5, <3>6 DEF Writing
    <2>4. CASE RecoverySetupFails
        <3>1. \A x \in writes' : x.mirror = "apply" => x \in writes
            BY <1>1, <2>4, ResumedType DEF IInv, RecoverySetupFails
        <3> QED BY <3>1 DEF Applying
    <2>5. CASE Copying
        <3>1. UNCHANGED writes
            BY <2>5 DEF Copying, SweepMirrorKeys, SweepSourceKeys, SweepRemove, GateSkips,
                        GateCopies, ReadPage, WritePage, LastPage, CopyFails,
                        CopyGoesOn, CopyEnds
        <3> QED BY <3>1, <2>1
    <2> QED
        BY <2>1, <2>2, <2>3, <2>4, <2>5
        DEF Next, TickWrite, Recovering, RecoveryCopies, Outage, Return, Second, Restart
<1> QED BY <1>1, Invariance, PTL DEF Spec, NoWriteBeforeBackfill

\* A backfill that nothing wrote beside aligns the keys, and the rows too if it
\* copied them: what the sweep leaves is in the main table, so equal counts mean
\* equal keys, and the walk passes every row.
THEOREM QuietBackfillAligns == Spec => BackfillAligns
<1> DEFINE Aligned == /\ Keys(mirror) = Keys(main)
                      /\ copy.full => mirror = main
<1>1. IInv /\ GateSkips /\ copy.quiet => Aligned
    <2> SUFFICES ASSUME IInv, GateSkips, copy.quiet PROVE Aligned
        OBVIOUS
    <2>1. Keys(mirror) \subseteq Keys(main) /\ ~copy.full
        BY DEF IInv, SweepInv, WalkInv, Walking, GateSkips
    <2>2. IsFiniteSet(Keys(main))
        BY Constants, FS_Subset DEF Keys
    <2>3. Cardinality(Keys(main)) = Cardinality(Keys(mirror))
        BY DEF GateSkips, InSync
    <2>4. Keys(mirror) = Keys(main)
        BY <2>1, <2>2, <2>3, FS_Subset
    <2> QED BY <2>1, <2>4
<1>2. IInv /\ LastPage /\ copy.quiet => Aligned
    <2> SUFFICES ASSUME IInv, LastPage, copy.quiet PROVE Aligned
        OBVIOUS
    <2>1. Keys(mirror) \subseteq Keys(main)
        BY DEF IInv, SweepInv, LastPage
    <2>2. \A r \in Keys(main) : r < copy.next \/ r = copy.next
        BY Constants, Fields DEF IInv, Copy, After, Keys, LastPage
    <2>3. \A r \in Keys(main) : mirror[r] = main[r]
        BY <2>2 DEF IInv, WalkInv, Walking, LastPage
    <2>4. Keys(mirror) = Keys(main)
        BY <2>1, <2>3 DEF Keys
    <2>5. \A r \in Rows : mirror[r] = main[r]
        BY <2>3, <2>4 DEF Keys
    <2> QED BY <2>4, <2>5, Fields DEF IInv, Table
<1>3. IInv /\ [Next]_vars =>
        [(GateSkips \/ LastPage) /\ copy.quiet =>
            /\ Keys(mirror) = Keys(main)
            /\ copy.full => mirror = main]_vars
    BY <1>1, <1>2
<1> QED BY <1>3, Invariance, PTL DEF Spec, BackfillAligns
=============================================================================
