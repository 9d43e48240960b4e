---------------------------- MODULE RecordStaging ----------------------------
(***************************************************************************)
(* The V2 record controllers: POST, PUT and DELETE of every table, splits, *)
(* spreadsheet imports and transfers, the staged rows they leave, and the  *)
(* change list a commit makes of them.  A request is checked against the   *)
(* main tables and the staging table (foreign keys, references, ownership) *)
(* and stages rows; a delete stages the deletes of what it cascades to in  *)
(* the same transaction.  Here a request is one step; StagingCommit models *)
(* the awaits inside requests, commits and pushes.                         *)
(*                                                                         *)
(* A behaviour is about a few related tables, its family; a reference to a *)
(* table outside the family is to a record of the same organization that   *)
(* stays.                                                                  *)
(***************************************************************************)
EXTENDS RecordSchema, Integers, FiniteSets, FiniteSetsExt

CONSTANTS
    Families,   \* sets of tables, one of which is chosen at the start
    MaxEdits,   \* bound: requests that stage something
    MaxCommits, \* bound: change lists pushed
    NoPush      \* no change list is in flight

ASSUME RecordConstants ==
    /\ \A F \in Families : F \subseteq Tables
    /\ {MaxEdits, MaxCommits} \subseteq Nat

VARIABLES
    family,  \* the tables that the behaviour is about
    main,    \* the main tables: the records they hold, by key
    staging, \* the staging table
    pushed,  \* the change list in flight, or NoPush
    used     \* bounds: [edits, commits]

vars == <<family, main, staging, pushed, used>>

\* Ids of a home organization's record, of a new one, of another's.
Old    == 1
New    == 2
Theirs == 9

KeysOf(t) == {t} \X {Old, New, Theirs}
Keys == UNION {KeysOf(t) : t \in family}
AllKeys == Tables \X {Old, New, Theirs}

\* A record: who created it, what it refers to and which edit it comes from.
Contents == [refs : SUBSET AllKeys, at : 0 .. MaxEdits]
Records  == [org : {"home", "theirs"}, refs : SUBSET AllKeys, at : 0 .. MaxEdits]

\* A staged row: recs has the contents it gives records, key names the first;
\* own tells that its uuid is that key.
Row(n, key, act, recs, own) ==
    [n |-> n, key |-> key, act |-> act, recs |-> recs, own |-> own, st |-> "staged"]

Init ==
    /\ family \in Families
    /\ \E linked \in BOOLEAN :
         main = [k \in UNION {{t} \X {Old, Theirs} : t \in family} |->
            [org  |-> IF k[2] = Old THEN "home" ELSE "theirs",
             refs |-> {<<p, k[2]>> : p \in
                ((IF linked THEN Models[k[1]].refs ELSE Required(k[1])) \cap family) \ {k[1]}},
             at   |-> 0]]
    /\ staging = {}
    /\ pushed = NoPush
    /\ used = [edits |-> 0, commits |-> 0]

Put(k, refs, at) == [x \in {k} |-> [refs |-> refs, at |-> at]]

TypeOK ==
    /\ family \in Families
    /\ DOMAIN main \subseteq AllKeys
    /\ \A k \in DOMAIN main : main[k] \in Records
    /\ \A r \in staging :
         /\ r.n \in 1 .. MaxEdits
         /\ r.key \in AllKeys
         /\ r.act \in {"INSERT", "UPDATE", "DELETE"}
         /\ r.key \in DOMAIN r.recs /\ DOMAIN r.recs \subseteq AllKeys
         /\ \A k \in DOMAIN r.recs : r.recs[k] \in Contents
         /\ r.own \in BOOLEAN
         /\ r.st \in {"staged", "committed", "failed", "transfer"}
    /\ pushed # NoPush =>
         /\ pushed.dels \subseteq AllKeys
         /\ DOMAIN pushed.puts \subseteq AllKeys
    /\ used \in [edits : 0 .. MaxEdits, commits : 0 .. MaxCommits]

-----------------------------------------------------------------------------
(* What the requests check *)

Uncommitted == {r \in staging : r.st = "staged"}
Writes      == {r \in staging : r.act # "DELETE"}

\* assertNoPendingCommitsExcludingTransfers
NothingPending == \A r \in staging : r.st # "committed"

\* assertRecordExistanceOrStaged: any staged INSERT or UPDATE row will do.
ExistsOrStaged(k) == k \in DOMAIN main \/ \E r \in Writes : k \in DOMAIN r.recs

\* findPendingStagedDeleteIds
PendingDeletes == {r.key : r \in {s \in Uncommitted : s.act = "DELETE"}}

\* countStagedReferences
StagedReferrers(k) ==
    UNION {{x \in DOMAIN r.recs : k \in r.recs[x].refs} : r \in Uncommitted \cap Writes}

\* checkReferences
Unreferenced(k) ==
    LET from == IF k[1] \in DOMAIN References THEN References[k[1]] ELSE {}
        referrers == {x \in DOMAIN main : k \in main[x].refs} \ PendingDeletes
    IN  {x \in referrers \cup StagedReferrers(k) : x[1] \in from} \ {k} = {}

\* Parents that tell a record's owner: of a join table only one counts, and a
\* project's reference project does not.
OwnersAmong(t, refs) ==
    IF t \in DOMAIN OwnershipFks THEN {p \in refs : p[1] \in OwnershipFks[t]}
                                 ELSE {p \in refs : p[1] # t}

\* A parent that tells the owner and is outside the family.
OwnedOutside(t) ==
    (IF t \in DOMAIN OwnershipFks THEN OwnershipFks[t] ELSE Required(t)) \ family # {}

\* collectOwnerOrgUids of a parent: its organization column, or the owners of
\* its own parents; "?" for a record that is not in the main tables.
Owners[k \in AllKeys] ==
    IF k \notin DOMAIN main THEN {"?"}
    ELSE IF Models[k[1]].org THEN {main[k].org}
    ELSE (IF Required(k[1]) \subseteq family THEN {} ELSE {main[k].org})
         \cup UNION {Owners[p] : p \in main[k].refs}

\* Mutant: the organization is taken from the request.
OwnersTrusted(k) == {"home"}

\* The same of the record itself.
OwnersOf(k) ==
    IF Models[k[1]].org THEN {main[k].org}
    ELSE (IF OwnedOutside(k[1]) THEN {main[k].org} ELSE {})
         \cup UNION {Owners[p] : p \in OwnersAmong(k[1], main[k].refs)}

\* assertMutationOwnedByHomeOrg: a delete of what is not there is let through,
\* and so is a record that names no owner.
MayDelete(k) == k \in DOMAIN main => OwnersOf(k) \subseteq {"home"}

MayUpdate(k, refs) ==
    /\ k \in DOMAIN main => OwnersOf(k) \subseteq {"home"}
    /\ k \notin DOMAIN main =>
         Models[k[1]].org \/ OwnersAmong(k[1], refs) # {} \/ OwnedOutside(k[1])
    /\ \A p \in OwnersAmong(k[1], refs) : Owners[p] \subseteq {"home"}

\* The references a request may make: at most one to each parent table.
RefChoices(t) ==
    {R \in SUBSET UNION {KeysOf(p) : p \in Models[t].refs \cap family} :
        /\ \A p \in Models[t].refs : Cardinality(R \cap KeysOf(p)) <= 1
        /\ \A p \in Required(t) \cap family : R \cap KeysOf(p) # {}}

-----------------------------------------------------------------------------
(* Staging *)

Edit == used.edits + 1

\* Bound: one edit in a family of more than three tables.
MayEdit == used.edits < MaxEdits /\ (Cardinality(family) > 3 => used.edits = 0)

Stages(rows) ==
    /\ MayEdit
    /\ used' = [used EXCEPT !.edits = Edit]
    /\ staging' = staging \cup rows
    /\ UNCHANGED <<family, main, pushed>>

\* The staging table's uuid is unique.
UuidFree(k) == \A r \in staging : ~(r.own /\ r.key = k)

\* POST: validate, check the foreign keys the controller checks, stage.
Create(t, checked, own) ==
    /\ t \in family
    /\ NothingPending
    /\ \E k \in KeysOf(t), R \in RefChoices(t) :
         /\ k[2] = New
         /\ ~ExistsOrStaged(k)
         /\ \A p \in R : p[1] \in checked => ExistsOrStaged(p)
         /\ Stages({Row(Edit, k, "INSERT", Put(k, R, Edit), own)})

\* PUT of a record that is there, or only staged where the controller allows.
Update(t, checked, stagedToo) ==
    /\ t \in family
    /\ NothingPending
    /\ \E k \in KeysOf(t), R \in RefChoices(t) :
         /\ k \in DOMAIN main \/ (stagedToo /\ ExistsOrStaged(k))
         /\ \A p \in R : p[1] \in checked => ExistsOrStaged(p)
         /\ MayUpdate(k, R)
         /\ Stages({Row(Edit, k, "UPDATE", Put(k, R, Edit), FALSE)})

\* POST of a join table: the pair must be new, in the table and among the
\* staged inserts.
Join(t, own) ==
    /\ t \in family
    /\ NothingPending
    /\ \E k \in KeysOf(t), R \in RefChoices(t) :
         /\ k[2] = New
         /\ ~ExistsOrStaged(k)
         /\ \A p \in R : ExistsOrStaged(p)
         /\ \A x \in DOMAIN main \cap KeysOf(t) : main[x].refs # R
         /\ \A r \in Uncommitted : r.act = "INSERT" => r.recs[r.key].refs # R \/ r.key[1] # t
         /\ Stages({Row(Edit, k, "INSERT", Put(k, R, Edit), own)})

\* PUT of a join table: only a changed reference is checked, not the pair.
Rejoin(t, own) ==
    /\ t \in family
    /\ NothingPending
    /\ \E k \in KeysOf(t) \cap DOMAIN main, R \in RefChoices(t) :
         /\ \A p \in R \ main[k].refs : ExistsOrStaged(p)
         /\ MayUpdate(k, R)
         /\ own => UuidFree(k)
         /\ Stages({Row(Edit, k, "UPDATE", Put(k, R, Edit), own)})

\* DELETE of a record with what it cascades to, one transaction; the guard
\* looks at each row, and one that is refused refuses them all.
Delete(k, children, own) ==
    /\ \A x \in children \cup {k} : MayDelete(x)
    /\ own => UuidFree(k)
    /\ Stages({Row(Edit, x, "DELETE", Put(x, {}, Edit), own) : x \in children \cup {k}})

\* A record that the table has and nothing checked refers to.
Destroy(t, own) ==
    /\ t \in family
    /\ NothingPending
    /\ \E k \in KeysOf(t) \cap DOMAIN main : Unreferenced(k) /\ Delete(k, {}, own)

\* The AEF tables but the first have no guard and delete staged records too.
DestroyAef(t) ==
    /\ t \in family
    /\ NothingPending
    /\ \E k \in KeysOf(t) : ExistsOrStaged(k) /\ Delete(k, {}, FALSE)

\* The records of table t that refer to one of the parents.
ChildrenIn(t, parents) == {x \in DOMAIN main : x[1] = t /\ main[x].refs \cap parents # {}}

\* Mutant: the labels of a unit are forgotten.
NoUnitChildren(units) == {}

UnitChildren(units) == ChildrenIn("unit_label", units)

IssuanceChildren(issuances) ==
    LET units == ChildrenIn("unit", issuances) IN units \cup UnitChildren(units)

VerificationChildren(verifications) ==
    LET issuances == ChildrenIn("issuance", verifications)
    IN  issuances \cup IssuanceChildren(issuances)

ProjectChildren(p) ==
    LET verifications == ChildrenIn("verification", {p})
    IN  verifications \cup VerificationChildren(verifications)
        \cup UNION {ChildrenIn(t, {p}) : t \in {"location", "estimation", "rating",
               "co_benefit", "validation", "project_methodology", "stakeholder_projects"}}

CascadeUnits(p) == {x \in VerificationChildren(ChildrenIn("verification", {p})) : x[1] = "unit"}

-----------------------------------------------------------------------------
(* The controllers *)

CreateProgram == Create("program", {}, FALSE)
UpdateProgram == Update("program", {}, FALSE)
DestroyProgram == Destroy("program", FALSE)

CreateMethodology == Create("methodology", {}, FALSE)
UpdateMethodology == Update("methodology", {}, FALSE)
DestroyMethodology == Destroy("methodology", FALSE)

CreateLabel == Create("label", {}, FALSE)
UpdateLabel == Update("label", {}, TRUE)
DestroyLabel == Destroy("label", FALSE)

CreateStakeholder == Create("stakeholder", {}, FALSE)
UpdateStakeholder == Update("stakeholder", {}, FALSE)
DestroyStakeholder == Destroy("stakeholder", FALSE)

\* The reference project is not looked up.
CreateProject == Create("project", {"program"}, FALSE)
UpdateProject == Update("project", {"program"}, FALSE)

DestroyProject ==
    /\ "project" \in family
    /\ NothingPending
    /\ \E p \in KeysOf("project") \cap DOMAIN main :
         /\ Unreferenced(p)
         /\ \A u \in CascadeUnits(p) : Unreferenced(u)
         /\ Delete(p, ProjectChildren(p), FALSE)

CreateLocation == Create("location", {"project"}, FALSE)
UpdateLocation == Update("location", {"project"}, FALSE)
DestroyLocation == Destroy("location", FALSE)

CreateEstimation == Create("estimation", {"project"}, FALSE)
UpdateEstimation == Update("estimation", {"project"}, FALSE)
DestroyEstimation == Destroy("estimation", FALSE)

CreateRating == Create("rating", {"project"}, FALSE)
UpdateRating == Update("rating", {"project"}, FALSE)
DestroyRating == Destroy("rating", FALSE)

CreateCoBenefit == Create("co_benefit", {"project"}, FALSE)
UpdateCoBenefit == Update("co_benefit", {"project"}, FALSE)
DestroyCoBenefit == Destroy("co_benefit", FALSE)

CreateValidation == Create("validation", {"project"}, FALSE)
UpdateValidation == Update("validation", {"project"}, FALSE)
DestroyValidation == Destroy("validation", FALSE)

CreateVerification == Create("verification", {"project", "validation"}, FALSE)
UpdateVerification == Update("verification", {"project", "validation"}, FALSE)

DestroyVerification ==
    /\ "verification" \in family
    /\ NothingPending
    /\ \E v \in KeysOf("verification") \cap DOMAIN main :
         Delete(v, VerificationChildren({v}), FALSE)

CreateProjectMethodology == Join("project_methodology", TRUE)
UpdateProjectMethodology == Rejoin("project_methodology", TRUE)
DestroyProjectMethodology == Destroy("project_methodology", TRUE)

CreateStakeholderProject == Join("stakeholder_projects", FALSE)
UpdateStakeholderProject == Rejoin("stakeholder_projects", FALSE)
DestroyStakeholderProject == Destroy("stakeholder_projects", FALSE)

CreateIssuance ==
    Create("issuance", {"verification", "project_methodology", "location"}, FALSE)
UpdateIssuance ==
    Update("issuance", {"verification", "project_methodology", "location"}, FALSE)

DestroyIssuance ==
    /\ "issuance" \in family
    /\ NothingPending
    /\ \E i \in KeysOf("issuance") \cap DOMAIN main : Delete(i, IssuanceChildren({i}), FALSE)

CreateUnit == Create("unit", {"issuance"}, FALSE)
UpdateUnit == Update("unit", {"issuance"}, FALSE)

DestroyUnit ==
    /\ "unit" \in family
    /\ NothingPending
    /\ \E u \in KeysOf("unit") \cap DOMAIN main :
         Unreferenced(u) /\ Delete(u, UnitChildren({u}), FALSE)

\* The first of the split records keeps the unit's key, the others are new;
\* all are one UPDATE row, and the split itself asks only for a home
\* organization: the guard of the staging table checks the owner.
SplitUnit ==
    /\ "unit" \in family
    /\ NothingPending
    /\ \E u \in KeysOf("unit") \cap DOMAIN main, k \in KeysOf("unit") :
         /\ k[2] = New /\ ~ExistsOrStaged(k)
         /\ \A p \in main[u].refs : ExistsOrStaged(p)
         /\ MayUpdate(u, main[u].refs) /\ MayUpdate(k, main[u].refs)
         /\ Stages({Row(Edit, u, "UPDATE",
               [x \in {u, k} |-> [refs |-> main[u].refs, at |-> Edit]], FALSE)})

CreateUnitLabel == Join("unit_label", TRUE)
UpdateUnitLabel == Rejoin("unit_label", TRUE)
DestroyUnitLabel == Destroy("unit_label", TRUE)

CreateAefT1 == Create("aef_t1", {}, FALSE)
UpdateAefT1 == Update("aef_t1", {}, FALSE)
DestroyAefT1 == Destroy("aef_t1", FALSE)

CreateAefT2 == Create("aef_t2", {"aef_t1", "unit", "project", "aef_t5"}, FALSE)
UpdateAefT2 == Update("aef_t2", {"aef_t1", "unit", "project", "aef_t5"}, TRUE)
DestroyAefT2 == DestroyAef("aef_t2")

CreateAefT3 == Create("aef_t3", {"aef_t1", "unit", "project", "aef_t2"}, FALSE)
UpdateAefT3 == Update("aef_t3", {"aef_t1", "unit", "project", "aef_t2"}, TRUE)
DestroyAefT3 == DestroyAef("aef_t3")

CreateAefT4 == Create("aef_t4", {"aef_t1", "unit", "project", "aef_t2"}, FALSE)
UpdateAefT4 == Update("aef_t4", {"aef_t1", "unit", "project", "aef_t2"}, TRUE)
DestroyAefT4 == DestroyAef("aef_t4")

CreateAefT5 == Create("aef_t5", {"aef_t1", "unit", "project"}, FALSE)
UpdateAefT5 == Update("aef_t5", {"aef_t1", "unit", "project"}, TRUE)
DestroyAefT5 == DestroyAef("aef_t5")

-----------------------------------------------------------------------------
(* Spreadsheets, CSV files and transfers *)

\* The tables of the sheets: projects and units with their children.
Sheets == {"project", "location", "estimation", "rating", "co_benefit", "unit"}

\* An upsert on the uuid: a row that has it keeps its id and its state.
Upserted(rows, row) ==
    LET same == {r \in rows : r.own /\ r.key = row.key}
    IN  IF same = {} THEN rows \cup {row}
        ELSE (rows \ same) \cup {[row EXCEPT !.n = r.n, !.st = r.st] : r \in same}

\* The staged rows become these.
Restages(rows) ==
    /\ MayEdit
    /\ used' = [used EXCEPT !.edits = Edit]
    /\ staging' = rows
    /\ UNCHANGED <<family, main, pushed>>

\* stageV2XlsRecords, a sheet of one row: the row's uuid is the record's key.
ImportXls ==
    /\ NothingPending
    /\ \E t \in Sheets \cap family : \E k \in KeysOf(t), R \in RefChoices(t) :
         LET act == IF k \in DOMAIN main THEN "UPDATE" ELSE "INSERT"
         IN  /\ \A p \in R : ExistsOrStaged(p)
             /\ act = "UPDATE" => MayUpdate(k, R)
             /\ Restages(Upserted(staging, Row(Edit, k, act, Put(k, R, Edit), TRUE)))

\* Rows of a record that wait for a commit.
PendingFor(k) == {r \in Uncommitted : k \in DOMAIN r.recs}

\* The newest of them is replaced in place, the older ones go.
Consolidated(pending, row) ==
    (staging \ pending) \cup {[row EXCEPT !.n = Max({r.n : r \in pending})]}

\* batchUpload: a CSV row updates a record of the organization, in the table or
\* staged, or makes a new one; it stays an INSERT if a pending row is one.
BatchUpload ==
    /\ NothingPending
    /\ \E t \in {"project", "unit"} \cap family : \E k \in KeysOf(t), R \in RefChoices(t) :
         LET pending == PendingFor(k)
             act == IF k \notin DOMAIN main \/ \E r \in pending : r.act = "INSERT"
                    THEN "INSERT" ELSE "UPDATE"
             row == Row(Edit, k, act, Put(k, R, Edit), TRUE)
         IN  /\ IF k \in DOMAIN main THEN main[k].org = "home" ELSE k[2] = New
             /\ \A r \in pending : r.act # "DELETE" /\ DOMAIN r.recs = {k}
             /\ \A p \in R : ExistsOrStaged(p)
             /\ act = "UPDATE" => MayUpdate(k, R)
             /\ IF pending = {} THEN Restages(Upserted(staging, row))
                ELSE /\ \A r \in staging \ pending : ~(r.own /\ r.key = k)
                     /\ Restages(Consolidated(pending, row))

\* Another's project is staged as committed, outside the ownership guard.
Transfer ==
    /\ "project" \in family
    /\ NothingPending
    /\ \E k \in KeysOf("project") \cap DOMAIN main :
         /\ UuidFree(k)
         /\ Stages({[Row(Edit, k, "UPDATE", Put(k, main[k].refs, Edit), TRUE)
                      EXCEPT !.st = "transfer"]})

-----------------------------------------------------------------------------
(* Commit, push and sync *)

\* DELETE staging/:uuid
Discard ==
    /\ \E r \in staging \ {x \in staging : x.st = "committed"} : staging' = staging \ {r}
    /\ UNCHANGED <<family, main, pushed, used>>

\* The row whose contents a key is put with: the first of the INSERT rows, or
\* else the first of the UPDATE rows, in the order of their ids.
PutFrom(rows, k) ==
    LET holding == {r \in rows \cap Writes : k \in DOMAIN r.recs}
        inserts == {r \in holding : r.act = "INSERT"}
        among   == IF inserts # {} THEN inserts ELSE holding
    IN  CHOOSE r \in among : \A s \in among : r.n <= s.n

\* Mutant: a split publishes its first record only.
PutsOfFirst(rows) ==
    [k \in {r.key : r \in rows \cap Writes} |-> PutFrom(rows, k).recs[k]]

\* transformFullXslsToChangeList
Puts(rows) ==
    [k \in UNION {DOMAIN r.recs : r \in rows \cap Writes} |-> PutFrom(rows, k).recs[k]]

\* seperateStagingDataIntoActionGroups, and what the records replace.
Dels(rows) == {r.key : r \in {s \in rows : s.act # "INSERT"}} \cup (DOMAIN Puts(rows) \cap DOMAIN main)

\* assertChangeListNotNullCompleteness
Complete(puts) == \A k \in DOMAIN puts : Models[k[1]].notNull \subseteq Supplied(k[1])

\* POST staging/commit, of all rows or of some.
Commit ==
    /\ NothingPending
    /\ pushed = NoPush
    /\ used.commits < MaxCommits
    /\ \E rows \in (SUBSET Uncommitted) \ {{}} :
         /\ Complete(Puts(rows))
         /\ pushed' = [dels |-> Dels(rows), puts |-> Puts(rows)]
         /\ staging' = (staging \ rows) \cup {[r EXCEPT !.st = "committed"] : r \in rows}
    /\ used' = [used EXCEPT !.commits = @ + 1]
    /\ UNCHANGED <<family, main>>

\* Records that the home store holds: the organization's own, and another's
\* that was published from here.
Ours == {k \in DOMAIN main : main[k].org = "home" \/ main[k].at > 0}

\* The store takes the change list and the sync ingests it; the store leaves
\* out the deletes of keys it does not hold, and deletes come first.
Ingest ==
    /\ pushed # NoPush
    /\ main' = [k \in (DOMAIN main \ (pushed.dels \cap Ours)) \cup DOMAIN pushed.puts |->
          IF k \in DOMAIN pushed.puts
          THEN [org  |-> IF k \in DOMAIN main THEN main[k].org ELSE "home",
                refs |-> pushed.puts[k].refs, at |-> pushed.puts[k].at]
          ELSE main[k]]
    /\ staging' = {r \in staging : r.st # "committed"}
    /\ pushed' = NoPush
    /\ UNCHANGED <<family, used>>

PushFails ==
    /\ pushed # NoPush
    /\ staging' = {IF r.st = "committed" THEN [r EXCEPT !.st = "failed"] ELSE r : r \in staging}
    /\ pushed' = NoPush
    /\ UNCHANGED <<family, main, used>>

\* POST staging/retry
Retry ==
    /\ NothingPending
    /\ \E r \in staging : r.st = "failed" /\ staging' = (staging \ {r}) \cup {[r EXCEPT !.st = "staged"]}
    /\ UNCHANGED <<family, main, pushed, used>>

Creates ==
    \/ CreateProgram \/ CreateMethodology \/ CreateLabel \/ CreateStakeholder
    \/ CreateProject \/ CreateLocation \/ CreateEstimation \/ CreateRating
    \/ CreateCoBenefit \/ CreateValidation \/ CreateVerification
    \/ CreateProjectMethodology \/ CreateStakeholderProject \/ CreateIssuance
    \/ CreateUnit \/ CreateUnitLabel \/ CreateAefT1 \/ CreateAefT2 \/ CreateAefT3
    \/ CreateAefT4 \/ CreateAefT5

Updates ==
    \/ UpdateProgram \/ UpdateMethodology \/ UpdateLabel \/ UpdateStakeholder
    \/ UpdateProject \/ UpdateLocation \/ UpdateEstimation \/ UpdateRating
    \/ UpdateCoBenefit \/ UpdateValidation \/ UpdateVerification
    \/ UpdateProjectMethodology \/ UpdateStakeholderProject \/ UpdateIssuance
    \/ UpdateUnit \/ SplitUnit \/ UpdateUnitLabel \/ UpdateAefT1 \/ UpdateAefT2
    \/ UpdateAefT3 \/ UpdateAefT4 \/ UpdateAefT5

Destroys ==
    \/ DestroyProgram \/ DestroyMethodology \/ DestroyLabel \/ DestroyStakeholder
    \/ DestroyProject \/ DestroyLocation \/ DestroyEstimation \/ DestroyRating
    \/ DestroyCoBenefit \/ DestroyValidation \/ DestroyVerification
    \/ DestroyProjectMethodology \/ DestroyStakeholderProject \/ DestroyIssuance
    \/ DestroyUnit \/ DestroyUnitLabel \/ DestroyAefT1 \/ DestroyAefT2
    \/ DestroyAefT3 \/ DestroyAefT4 \/ DestroyAefT5

Next ==
    \/ Creates \/ Updates \/ Destroys
    \/ ImportXls \/ BatchUpload \/ Transfer
    \/ Discard \/ Commit \/ Ingest \/ PushFails \/ Retry

Spec == Init /\ [][Next]_vars

-----------------------------------------------------------------------------
(* Properties *)

Touched == pushed.dels \cup DOMAIN pushed.puts

\* Only the home organization's records are published: a commit never puts or
\* deletes the key of a record that another organization created
\* (docs/cadt_rpc_api_v2.md, Ownership Restrictions).  The code breaks it for
\* the AEF tables that have no organization column, see OnlyOwnedPublished.
OnlyOwnPublished == pushed # NoPush => Touched \cap DOMAIN main \subseteq Ours

\* An AEF record that is linked at most to others of its kind.
Unowned(k) == k[1] \in ReferencingAef /\ \A p \in main[k].refs : p[1] \in ReferencingAef

\* The same, except for the AEF records that name no owner: through any mix of
\* requests, imports, splits, transfers, retries and partial commits, the
\* guard that each staged row passes keeps another organization's records
\* out of the change list.
OnlyOwnedPublished ==
    pushed # NoPush => \A k \in Touched \cap DOMAIN main : k \in Ours \/ Unowned(k)

\* What a commit publishes is what was staged: a record with one row in the
\* commit is put with that row's contents, after the delete of what it
\* replaces, or only deleted; and nothing else is put.
PublishesEdits ==
    pushed # NoPush =>
      LET rows == {r \in staging : r.st = "committed"}
      IN  /\ DOMAIN pushed.puts \subseteq UNION {DOMAIN r.recs : r \in rows}
          /\ \A r \in rows : \A k \in DOMAIN r.recs :
               (\A s \in rows \ {r} : k \notin DOMAIN s.recs) =>
                  IF r.act = "DELETE" THEN k \in pushed.dels \ DOMAIN pushed.puts
                  ELSE /\ k \in DOMAIN pushed.puts /\ pushed.puts[k] = r.recs[k]
                       /\ k \in DOMAIN main => k \in pushed.dels

\* A delete takes along what cannot stand without it: when a record's delete is
\* staged, so is that of every record in the tables with a NOT NULL reference
\* to it.  Issuances of one project's verification under another project's
\* methodology are left out, see the README.
DeletesLeaveNoOrphan ==
    [][used'.edits # used.edits =>
         \A k \in PendingDeletes' \ PendingDeletes : \A x \in DOMAIN main :
            /\ k \in main[x].refs
            /\ k[1] \in Required(x[1])
            /\ ~(k[1] = "project_methodology" /\ x[1] = "issuance")
            => x \in PendingDeletes']_vars

\* The last edit of a record is the one that is published ("the latest logical
\* row for a record by replaying any pending staging rows",
\* utils/v2-xls.js).  Not so: the change list keeps the first row of a key, and
\* puts a record whose delete was staged last.
LatestEditWins ==
    pushed # NoPush =>
      LET rows == {r \in staging : r.st = "committed"}
      IN  \A r \in rows : \A k \in DOMAIN r.recs :
            (\A s \in rows : k \in DOMAIN s.recs => s.recs[k].at <= r.recs[k].at) =>
              IF r.act = "DELETE" THEN k \notin DOMAIN pushed.puts
                                  ELSE pushed.puts[k] = r.recs[k]

\* A record that the organization published refers to records that are there
\* (a project's reference project, which nothing looks up, apart).  Not so: a
\* request that refers to a record whose delete is staged passes.
NoDanglingReference ==
    \A k \in Ours : \A p \in main[k].refs : p[1] # k[1] => p \in DOMAIN main
=============================================================================
