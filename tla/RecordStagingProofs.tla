------------------------ MODULE RecordStagingProofs --------------------------
(***************************************************************************)
(* What the record controllers promise for any families of tables, any     *)
(* number of requests, imports, splits, transfers, partial commits,        *)
(* failures and retries: that a commit publishes what was staged, that a   *)
(* delete leaves no orphan, and that other organizations' records are not  *)
(* published.                                                              *)
(***************************************************************************)
EXTENDS RecordStaging, NaturalsInduction, WellFoundedInduction, TLAPS

-----------------------------------------------------------------------------
(* The tables.  Owners are found by following references from table to       *)
(* table, to the tables that have an organization column: Level0.            *)

Level0 == {"program", "methodology", "label", "stakeholder", "project", "unit", "aef_t1"}
Level1 == {"location", "estimation", "rating", "co_benefit", "validation",
           "project_methodology", "stakeholder_projects", "unit_label", "aef_t5"}
Level2 == {"verification", "aef_t2"}
Level3 == {"issuance", "aef_t3", "aef_t4"}

LEMMA AllTables == Tables = Level0 \cup Level1 \cup Level2 \cup Level3
BY DEF Tables, Models, Level0, Level1, Level2, Level3

LEMMA OrgTables ==
    /\ \A t \in Level0 : Models[t].org
    /\ \A t \in Level1 \cup Level2 \cup Level3 : ~ Models[t].org
<1> USE DEF Models, Table
<1>1. \A t \in Level0 : Models[t].org
    BY DEF Level0, Program, Methodology, Label, Stakeholder, Project, Unit, AefT1
<1>2. \A t \in Level1 : ~ Models[t].org
    BY DEF Level1, Location, Estimation, Rating, CoBenefit, Validation,
       ProjectMethodology, StakeholderProject, UnitLabel, AefT5
<1>3. \A t \in Level2 : ~ Models[t].org
    BY DEF Level2, Verification, AefT2
<1>4. \A t \in Level3 : ~ Models[t].org
    BY DEF Level3, Issuance, AefT3, AefT4
<1> QED BY <1>1, <1>2, <1>3, <1>4

\* A table refers to tables of lower levels.
LEMMA LevelsFall ==
    /\ \A t \in Level1 : Models[t].refs \subseteq Level0
    /\ \A t \in Level2 : Models[t].refs \subseteq Level0 \cup Level1
    /\ \A t \in Level3 : Models[t].refs \subseteq Level0 \cup Level1 \cup Level2
<1> USE DEF Models, Table
<1>1. \A t \in Level1 : Models[t].refs \subseteq Level0
    BY DEF Level0, Level1, Location, Estimation, Rating, CoBenefit, Validation,
       ProjectMethodology, StakeholderProject, UnitLabel, AefT5
<1>2. \A t \in Level2 : Models[t].refs \subseteq Level0 \cup Level1
    BY DEF Level0, Level1, Level2, Verification, AefT2
<1>3. \A t \in Level3 : Models[t].refs \subseteq Level0 \cup Level1 \cup Level2
    BY DEF Level0, Level1, Level2, Level3, Issuance, AefT3, AefT4
<1> QED BY <1>1, <1>2, <1>3

\* The tables that belong to a project.
OfProject == {"location", "estimation", "rating", "co_benefit", "validation",
              "verification", "project_methodology", "stakeholder_projects"}

\* The parents that a record cannot do without.
LEMMA RequiredParents ==
    /\ \A t \in OfProject : "project" \in Required(t)
    /\ "verification" \in Required("issuance")
    /\ "unit" \in Required("unit_label")
    /\ Required("verification") = {"project"}
<1> USE DEF Required, Models, Schemas, Table
<1>1. \A t \in OfProject : "project" \in Required(t)
    BY DEF OfProject, Location, LocationSchema, Estimation, EstimationSchema, Rating,
       RatingSchema, CoBenefit, CoBenefitSchema, Validation, ValidationSchema,
       Verification, VerificationSchema, ProjectMethodology, ProjectMethodologySchema,
       StakeholderProject, StakeholderProjectSchema
<1>2. "verification" \in Required("issuance")
    BY DEF Issuance, IssuanceSchema
<1>3. "unit" \in Required("unit_label")
    BY DEF UnitLabel, UnitLabelSchema
<1>4. Required("verification") = {"project"}
    BY DEF Verification, VerificationSchema
<1> QED BY <1>1, <1>2, <1>3, <1>4

\* No other table demands one.
LEMMA RequiredChildren ==
    ASSUME NEW t, NEW u \in Tables, t \in Required(u)
    PROVE  \/ t = "project" /\ u \in OfProject
           \/ t = "methodology" /\ u = "project_methodology"
           \/ t = "stakeholder" /\ u = "stakeholder_projects"
           \/ t = "verification" /\ u = "issuance"
           \/ t = "project_methodology" /\ u = "issuance"
           \/ t = "issuance" /\ u = "unit"
           \/ t = "label" /\ u = "unit_label"
           \/ t = "unit" /\ u = "unit_label"
<1> USE DEF Required, Models, Schemas, Table, OfProject
<1>1. CASE u \in {"program", "methodology", "label", "stakeholder"}
    BY <1>1 DEF Program, Methodology, Label, Stakeholder
<1>2. CASE u \in {"project", "location", "estimation", "rating"}
    BY <1>2 DEF Project, ProjectSchema, Location, LocationSchema, Estimation,
       EstimationSchema, Rating, RatingSchema
<1>3. CASE u \in {"co_benefit", "validation", "verification", "project_methodology"}
    BY <1>3 DEF CoBenefit, CoBenefitSchema, Validation, ValidationSchema, Verification,
       VerificationSchema, ProjectMethodology, ProjectMethodologySchema
<1>4. CASE u \in {"stakeholder_projects", "issuance", "unit", "unit_label"}
    BY <1>4 DEF StakeholderProject, StakeholderProjectSchema, Issuance, IssuanceSchema,
       Unit, UnitSchema, UnitLabel, UnitLabelSchema
<1>5. CASE u \in {"aef_t1", "aef_t5", "aef_t2"}
    BY <1>5 DEF AefT1, AefT5, AefT5Schema, AefT2, AefT2Schema
<1>6. CASE u \in {"aef_t3", "aef_t4"}
    BY <1>6 DEF AefT3, AefT3Schema, AefT4, AefT4Schema, Itmo
<1> QED BY <1>1, <1>2, <1>3, <1>4, <1>5, <1>6, AllTables DEF Level0, Level1, Level2, Level3
-----------------------------------------------------------------------------
(* Owners.  The definition is recursive along the references of the main     *)
(* tables; it has a value because these fall from level to level.            *)

\* Records refer to the tables that their model names.
Linked(k, refs) == refs \subseteq AllKeys /\ \A p \in refs : p[1] \in Models[k[1]].refs

MainLinked == DOMAIN main \subseteq AllKeys /\ \A k \in DOMAIN main : Linked(k, main[k].refs)

\* The owners that follow from the parents' owners o.
OwnersFrom(o, k) ==
    IF k \notin DOMAIN main THEN {"?"}
    ELSE IF Models[k[1]].org THEN {main[k].org}
    ELSE (IF Required(k[1]) \subseteq family THEN {} ELSE {main[k].org})
         \cup UNION {o[p] : p \in main[k].refs}

Again(o) == [k \in AllKeys |-> OwnersFrom(o, k)]

LEMMA KeyTable ==
    ASSUME NEW k \in AllKeys
    PROVE  k[1] \in Tables /\ k[2] \in {Old, New, Theirs} /\ k = <<k[1], k[2]>>
BY DEF AllKeys

\* Owners that agree on the parents give the same owners.
LEMMA OwnersAgree ==
    ASSUME NEW o, NEW q, NEW k,
           k \in DOMAIN main => \A p \in main[k].refs : o[p] = q[p]
    PROVE  OwnersFrom(o, k) = OwnersFrom(q, k)
<1>1. CASE k \in DOMAIN main
    <2>1. {o[p] : p \in main[k].refs} = {q[p] : p \in main[k].refs}
        BY <1>1
    <2> QED BY <2>1 DEF OwnersFrom
<1>2. CASE k \notin DOMAIN main
    BY <1>2 DEF OwnersFrom
<1> QED BY <1>1, <1>2

LEMMA OwnersExist ==
    ASSUME MainLinked
    PROVE  \E o : o = Again(o)
<1> DEFINE o1 == Again([k \in AllKeys |-> {}])
           o2 == Again(o1)
           o3 == Again(o2)
           o4 == Again(o3)
           Upto1 == Level0 \cup Level1
           Upto2 == Upto1 \cup Level2
<1>1. ASSUME NEW k \in AllKeys, NEW o, NEW q, NEW L, k \in DOMAIN main,
             k[1] \notin Level0 => Models[k[1]].refs \subseteq L,
             \A p \in AllKeys : p[1] \in L => o[p] = q[p]
      PROVE  Again(o)[k] = Again(q)[k]
    <2>1. CASE k[1] \in Level0
        BY <2>1, OrgTables DEF Again, OwnersFrom
    <2>2. CASE k[1] \notin Level0
        <3>1. \A p \in main[k].refs : p \in AllKeys /\ p[1] \in L
            BY <1>1, <2>2 DEF MainLinked, Linked
        <3>2. \A p \in main[k].refs : o[p] = q[p]
            BY <1>1, <3>1
        <3>3. OwnersFrom(o, k) = OwnersFrom(q, k)
            BY <3>2, OwnersAgree
        <3> QED BY <3>3 DEF Again
    <2> QED BY <2>1, <2>2
<1>2. ASSUME NEW k \in AllKeys, NEW o, NEW q, k \notin DOMAIN main
      PROVE  Again(o)[k] = Again(q)[k]
    BY <1>2 DEF Again, OwnersFrom
<1>3. \A p \in AllKeys : p[1] \in Level0 => o2[p] = o1[p]
    <2> HIDE DEF o1
    <2>1. ASSUME NEW p \in AllKeys, p[1] \in Level0
          PROVE  Again(o1)[p] = Again([k \in AllKeys |-> {}])[p]
        BY <2>1, OrgTables DEF Again, OwnersFrom
    <2> QED BY <2>1 DEF o1
<1>4. \A p \in AllKeys : p[1] \in Upto1 => o3[p] = o2[p]
    <2>1. \A t \in Upto1 \ Level0 : Models[t].refs \subseteq Level0
        BY LevelsFall
    <2>2. Level0 \subseteq Upto1
        OBVIOUS
    <2> HIDE DEF o1, o2, Upto1
    <2>3. ASSUME NEW p \in AllKeys, p[1] \in Upto1
          PROVE  Again(o2)[p] = Again(o1)[p]
        <3>1. p[1] \notin Level0 => Models[p[1]].refs \subseteq Level0
            BY <2>1, <2>3
        <3> QED BY <1>3, <3>1, <1>1, <1>2
    <2> QED BY <2>3 DEF o2
<1>5. \A p \in AllKeys : p[1] \in Upto2 => o4[p] = o3[p]
    <2>1. \A t \in Upto2 \ Level0 : Models[t].refs \subseteq Upto1
        BY LevelsFall
    <2>2. Level0 \subseteq Upto2
        OBVIOUS
    <2> HIDE DEF o2, o3, Upto1, Upto2
    <2>3. ASSUME NEW p \in AllKeys, p[1] \in Upto2
          PROVE  Again(o3)[p] = Again(o2)[p]
        <3>1. p[1] \notin Level0 => Models[p[1]].refs \subseteq Upto1
            BY <2>1, <2>3
        <3> QED BY <1>4, <3>1, <1>1, <1>2
    <2> QED BY <2>3 DEF o3
<1>6. \A p \in AllKeys : p[1] \in Tables => Again(o4)[p] = o4[p]
    <2>1. \A t \in Tables \ Level0 : Models[t].refs \subseteq Upto2
        BY LevelsFall, AllTables
    <2>2. Level0 \subseteq Tables
        BY AllTables
    <2> HIDE DEF o3, o4, Upto2
    <2>3. ASSUME NEW p \in AllKeys, p[1] \in Tables
          PROVE  Again(o4)[p] = Again(o3)[p]
        <3>1. p[1] \notin Level0 => Models[p[1]].refs \subseteq Upto2
            BY <2>1, <2>3
        <3> QED BY <1>5, <3>1, <1>1, <1>2
    <2> QED BY <2>3 DEF o4
<1>7. \A p \in AllKeys : Again(o4)[p] = o4[p]
    BY <1>6, KeyTable
<1>8. /\ Again(o4) = [p \in AllKeys |-> Again(o4)[p]]
      /\ o4 = [p \in AllKeys |-> o4[p]]
    BY DEF Again
<1> HIDE DEF o4
<1> QED BY <1>7, <1>8

\* The owners of a record, from its parents'.
LEMMA OwnersEquation ==
    ASSUME MainLinked, NEW k \in AllKeys
    PROVE  Owners[k] = OwnersFrom(Owners, k)
<1>1. PICK o : o = Again(o)
    BY OwnersExist
<1>2. Owners = Again(Owners)
    BY <1>1 DEF Owners, Again, OwnersFrom
<1> QED BY <1>2 DEF Again
-----------------------------------------------------------------------------
(* The invariant *)

Acts == {"INSERT", "UPDATE", "DELETE"}
States == {"staged", "committed", "failed", "transfer"}

StagedRow ==
    [n : 1 .. MaxEdits, key : AllKeys, act : Acts,
     recs : UNION {[D -> Contents] : D \in SUBSET AllKeys}, own : BOOLEAN, st : States]

\* A staged row names its record among those it gives contents to; a delete
\* names no other one.
Formed(r) ==
    /\ r \in StagedRow
    /\ r.key \in DOMAIN r.recs
    /\ r.act = "DELETE" => DOMAIN r.recs = {r.key}
    /\ \A k \in DOMAIN r.recs : Linked(k, r.recs[k].refs) /\ r.recs[k].at > 0

\* While a change list is in flight its rows are pending.
PushFormed ==
    pushed # NoPush =>
        /\ pushed.dels \subseteq AllKeys /\ DOMAIN pushed.puts \subseteq AllKeys
        /\ \A k \in DOMAIN pushed.puts :
              /\ pushed.puts[k] \in Contents
              /\ Linked(k, pushed.puts[k].refs) /\ pushed.puts[k].at > 0
        /\ ~ NothingPending

AllFormed ==
    /\ family \in Families
    /\ MainLinked /\ \A k \in DOMAIN main : main[k] \in Records
    /\ \A r \in staging : Formed(r)
    /\ PushFormed
    /\ used \in [edits : 0 .. MaxEdits, commits : 0 .. MaxCommits]

\* A record that a commit may touch.
Mine(k) == k \in Ours \/ Unowned(k)

RowMine(r) == r.st # "transfer" => \A k \in DOMAIN r.recs \cap DOMAIN main : Mine(k)

\* Another organization's record is as it was imported: it refers to others of
\* its organization, to all that it cannot do without; and but for the AEF
\* records all of them are there.
OthersStay ==
    /\ \A k \in DOMAIN main \ Ours :
          /\ k[1] \in family
          /\ \A p \in main[k].refs : p[1] \in family /\ p[2] = Theirs
          /\ \A t \in (Required(k[1]) \cap family) \ {k[1]} : <<t, Theirs>> \in main[k].refs
    /\ \A t \in family \ ReferencingAef : <<t, Theirs>> \in DOMAIN main \ Ours

Inv ==
    /\ AllFormed /\ OthersStay
    /\ \A r \in staging : RowMine(r)
    /\ OnlyOwnedPublished

-----------------------------------------------------------------------------
(* The guard *)

LEMMA TheirsAreTheirs ==
    ASSUME AllFormed, NEW k \in DOMAIN main \ Ours
    PROVE  main[k].org = "theirs"
BY DEF AllFormed, Records, Ours

\* The owner of a record with an organization column.
LEMMA OwnersOfOrg ==
    ASSUME AllFormed, OthersStay, NEW t \in Level0 \cap family
    PROVE  /\ <<t, Theirs>> \in DOMAIN main \ Ours
           /\ Owners[<<t, Theirs>>] = {"theirs"}
<1> DEFINE p == <<t, Theirs>>
<1>1. t \notin ReferencingAef
    BY DEF Level0, ReferencingAef
<1>2. p \in DOMAIN main \ Ours
    BY <1>1 DEF OthersStay
<1>3. p \in AllKeys /\ MainLinked
    BY <1>2 DEF AllFormed, MainLinked
<1>4. Models[p[1]].org
    BY OrgTables
<1>5. main[p].org = "theirs"
    BY <1>2, TheirsAreTheirs
<1> HIDE DEF p
<1>6. Owners[p] = {"theirs"}
    BY <1>2, <1>3, <1>4, <1>5, OwnersEquation DEF OwnersFrom
<1> QED BY <1>2, <1>6 DEF p

LEMMA OwnersOfVerification ==
    ASSUME AllFormed, OthersStay, "verification" \in family
    PROVE  ~ Owners[<<"verification", Theirs>>] \subseteq {"home"}
<1> DEFINE v == <<"verification", Theirs>>
<1>1. v \in DOMAIN main \ Ours
    BY DEF OthersStay, ReferencingAef
<1>2. v \in AllKeys /\ MainLinked
    BY <1>1 DEF AllFormed, MainLinked
<1>3. main[v].org = "theirs" /\ ~ Models[v[1]].org /\ Required(v[1]) = {"project"}
    BY <1>1, TheirsAreTheirs, OrgTables, RequiredParents DEF Level2
<1>4. Owners[v] = OwnersFrom(Owners, v)
    BY <1>2, OwnersEquation
<1>5. CASE "project" \in family
    <2>1. <<"project", Theirs>> \in main[v].refs
        BY <1>1, <1>3, <1>5 DEF OthersStay
    <2>2. Owners[<<"project", Theirs>>] = {"theirs"}
        BY <1>5, OwnersOfOrg DEF Level0
    <2> QED BY <1>1, <1>3, <1>4, <2>1, <2>2 DEF OwnersFrom
<1>6. CASE "project" \notin family
    BY <1>1, <1>3, <1>4, <1>6 DEF OwnersFrom
<1> QED BY <1>5, <1>6

\* What the guard lets through is the organization's, or an AEF record that
\* names no owner.
LEMMA GuardKeepsOthers ==
    ASSUME AllFormed, OthersStay, NEW k \in DOMAIN main, OwnersOf(k) \subseteq {"home"}
    PROVE  Mine(k)
<1> SUFFICES ASSUME k \notin Ours, ~ Unowned(k) PROVE FALSE
    BY DEF Mine
<1> DEFINE t == k[1]
<1>1. t \in Tables /\ k \in DOMAIN main \ Ours /\ main[k].org = "theirs"
    BY TheirsAreTheirs, KeyTable DEF AllFormed, MainLinked
<1>2. ~ Models[t].org /\ ~ OwnedOutside(t)
    BY <1>1 DEF OwnersOf
<1>3. \A p \in OwnersAmong(t, main[k].refs) : Owners[p] \subseteq {"home"}
    BY <1>2 DEF OwnersOf
<1>4. ASSUME NEW q \in Level0 \cap family, <<q, Theirs>> \in OwnersAmong(t, main[k].refs)
      PROVE  FALSE
    BY <1>3, <1>4, OwnersOfOrg
<1>5. ASSUME NEW q, q \in Required(t) \cap family, q # t
      PROVE  <<q, Theirs>> \in main[k].refs
    BY <1>1, <1>5 DEF OthersStay
<1>6. t \notin Level0
    BY <1>2, OrgTables
<1>7. CASE t \in {"location", "estimation", "rating", "co_benefit", "validation", "verification"}
    <2>1. t \notin DOMAIN OwnershipFks /\ t # "project" /\ "project" \in Required(t)
        BY <1>7, RequiredParents DEF OwnershipFks, OfProject
    <2>2. "project" \in family
        BY <1>2, <2>1 DEF OwnedOutside
    <2>3. <<"project", Theirs>> \in OwnersAmong(t, main[k].refs)
        BY <1>5, <2>1, <2>2 DEF OwnersAmong
    <2> QED BY <1>4, <2>2, <2>3 DEF Level0
<1>8. CASE t \in {"project_methodology", "stakeholder_projects"}
    <2>1. /\ t \in DOMAIN OwnershipFks /\ OwnershipFks[t] = {"project"}
          /\ t # "project" /\ "project" \in Required(t)
        BY <1>8, RequiredParents DEF OwnershipFks, OfProject
    <2>2. "project" \in family
        BY <1>2, <2>1 DEF OwnedOutside
    <2>3. <<"project", Theirs>> \in OwnersAmong(t, main[k].refs)
        BY <1>5, <2>1, <2>2 DEF OwnersAmong
    <2> QED BY <1>4, <2>2, <2>3 DEF Level0
<1>9. CASE t = "unit_label"
    <2>1. /\ t \in DOMAIN OwnershipFks /\ OwnershipFks[t] = {"unit"}
          /\ t # "unit" /\ "unit" \in Required(t)
        BY <1>9, RequiredParents DEF OwnershipFks
    <2>2. "unit" \in family
        BY <1>2, <2>1 DEF OwnedOutside
    <2>3. <<"unit", Theirs>> \in OwnersAmong(t, main[k].refs)
        BY <1>5, <2>1, <2>2 DEF OwnersAmong
    <2> QED BY <1>4, <2>2, <2>3 DEF Level0
<1>10. CASE t = "issuance"
    <2>1. t \notin DOMAIN OwnershipFks /\ t # "verification" /\ "verification" \in Required(t)
        BY <1>10, RequiredParents DEF OwnershipFks
    <2>2. "verification" \in family
        BY <1>2, <2>1 DEF OwnedOutside
    <2>3. <<"verification", Theirs>> \in OwnersAmong(t, main[k].refs)
        BY <1>5, <2>1, <2>2 DEF OwnersAmong
    <2> QED BY <1>3, <2>2, <2>3, OwnersOfVerification
<1>11. CASE t \in ReferencingAef
    <2>1. PICK p \in main[k].refs : p[1] \notin ReferencingAef
        BY <1>11 DEF Unowned
    <2>2. p \in AllKeys /\ p[1] \in Models[t].refs /\ p[1] \in family /\ p[2] = Theirs
        BY <1>1, <2>1 DEF AllFormed, MainLinked, Linked, OthersStay
    <2>3. p[1] \in Level0
        BY <1>11, <2>1, <2>2, LevelsFall DEF Level0, Level1, Level2, Level3, ReferencingAef,
           Models, Table, AefT2, AefT3, AefT4, AefT5
    <2>4. t \notin DOMAIN OwnershipFks /\ p[1] # t
        BY <1>11, <2>1 DEF OwnershipFks, ReferencingAef
    <2>5. p = <<p[1], Theirs>> /\ p \in OwnersAmong(t, main[k].refs)
        BY <2>1, <2>2, <2>4, KeyTable DEF OwnersAmong
    <2> QED BY <1>4, <2>2, <2>3, <2>5
<1> QED BY <1>1, <1>6, <1>7, <1>8, <1>9, <1>10, <1>11, AllTables
        DEF Level1, Level2, Level3, ReferencingAef
-----------------------------------------------------------------------------
(* Requests: what they stage is formed and of the organization *)

NewRow(r) == r.st # "committed" /\ Formed(r) /\ RowMine(r)

\* What every request does.
Requested ==
    /\ NothingPending
    /\ used' = [used EXCEPT !.edits = Edit] /\ Edit \in 1 .. MaxEdits
    /\ UNCHANGED <<family, main, pushed>>
    /\ \A r \in staging' : r \in staging \/ NewRow(r)

LEMMA FamilyTables ==
    ASSUME AllFormed
    PROVE  /\ family \subseteq Tables
           /\ \A t \in family : KeysOf(t) \subseteq AllKeys
           /\ \A t \in family : \A k \in KeysOf(t) : k[1] = t
BY RecordConstants DEF AllFormed, KeysOf, AllKeys

LEMMA EditCounts ==
    ASSUME AllFormed, MayEdit
    PROVE  Edit \in 1 .. MaxEdits
BY RecordConstants DEF AllFormed, MayEdit, Edit

LEMMA RowIsFormed ==
    ASSUME NEW n \in 1 .. MaxEdits, NEW D \in SUBSET AllKeys, NEW k \in D,
           NEW act \in Acts, NEW own \in BOOLEAN, NEW recs \in [D -> Contents],
           act = "DELETE" => D = {k},
           \A x \in D : Linked(x, recs[x].refs) /\ recs[x].at > 0
    PROVE  /\ Formed(Row(n, k, act, recs, own))
           /\ Row(n, k, act, recs, own).st = "staged"
           /\ Row(n, k, act, recs, own).key = k
           /\ DOMAIN Row(n, k, act, recs, own).recs = D
<1> DEFINE r == Row(n, k, act, recs, own)
<1>1. /\ r.key = k /\ r.act = act /\ r.recs = recs /\ r.st = "staged"
      /\ r = [n |-> n, key |-> k, act |-> act, recs |-> recs, own |-> own, st |-> "staged"]
    BY DEF Row
<1>2. recs \in UNION {[E -> Contents] : E \in SUBSET AllKeys}
    OBVIOUS
<1>3. r \in StagedRow
    BY <1>1, <1>2 DEF StagedRow, States
<1>4. DOMAIN recs = D
    OBVIOUS
<1> HIDE DEF r
<1>5. Formed(r)
    BY <1>1, <1>3, <1>4 DEF Formed
<1> QED BY <1>1, <1>4, <1>5 DEF r

\* A row with the contents of one record.
LEMMA PutIsFormed ==
    ASSUME NEW n \in 1 .. MaxEdits, NEW k \in AllKeys, NEW act \in Acts,
           NEW own \in BOOLEAN, NEW refs, Linked(k, refs)
    PROVE  /\ Formed(Row(n, k, act, Put(k, refs, n), own))
           /\ Row(n, k, act, Put(k, refs, n), own).st = "staged"
           /\ Row(n, k, act, Put(k, refs, n), own).key = k
           /\ DOMAIN Row(n, k, act, Put(k, refs, n), own).recs = {k}
<1> DEFINE recs == Put(k, refs, n)
           D == {k}
<1>1. [refs |-> refs, at |-> n] \in Contents
    BY RecordConstants DEF Contents, Linked
<1>2. recs \in [D -> Contents] /\ recs[k].refs = refs /\ recs[k].at = n
    BY <1>1 DEF Put
<1>3. D \in SUBSET AllKeys /\ k \in D /\ n > 0
    OBVIOUS
<1>4. \A x \in D : Linked(x, recs[x].refs) /\ recs[x].at > 0
    BY <1>2, <1>3
<1>5. act = "DELETE" => D = {k}
    OBVIOUS
<1> HIDE DEF recs, D
<1>6. /\ Formed(Row(n, k, act, recs, own))
      /\ Row(n, k, act, recs, own).st = "staged"
      /\ Row(n, k, act, recs, own).key = k
      /\ DOMAIN Row(n, k, act, recs, own).recs = D
    BY <1>2, <1>3, <1>4, <1>5, RowIsFormed
<1> QED BY <1>6 DEF recs, D

\* Such a row of a new record, or of one that the guard let through.
LEMMA PutIsNew ==
    ASSUME AllFormed, OthersStay, MayEdit, NEW k \in AllKeys, NEW act \in Acts,
           NEW own \in BOOLEAN, NEW refs, Linked(k, refs),
           k \in DOMAIN main => Mine(k)
    PROVE  NewRow(Row(Edit, k, act, Put(k, refs, Edit), own))
<1> DEFINE e == Edit
           r == Row(e, k, act, Put(k, refs, e), own)
<1>1. e \in 1 .. MaxEdits
    BY EditCounts
<1> HIDE DEF e
<1>2. Formed(r) /\ r.st = "staged" /\ DOMAIN r.recs = {k}
    BY <1>1, PutIsFormed
<1> HIDE DEF r
<1>3. NewRow(r)
    BY <1>2 DEF NewRow, RowMine
<1> QED BY <1>3 DEF e, r

LEMMA ChoiceIsLinked ==
    ASSUME AllFormed, NEW t \in family, NEW k \in KeysOf(t), NEW R \in RefChoices(t)
    PROVE  Linked(k, R)
<1>1. k[1] = t /\ R \subseteq UNION {KeysOf(p) : p \in Models[t].refs \cap family}
    BY FamilyTables DEF RefChoices
<1>2. ASSUME NEW p \in R
      PROVE  p \in AllKeys /\ p[1] \in Models[t].refs
    <2>1. PICK u \in Models[t].refs \cap family : p \in KeysOf(u)
        BY <1>1
    <2> QED BY <2>1, FamilyTables
<1> QED BY <1>1, <1>2 DEF Linked

LEMMA StagesNew ==
    ASSUME AllFormed, NothingPending, NEW rows, Stages(rows),
           \A r \in rows : NewRow(r)
    PROVE  Requested
<1>1. Edit \in 1 .. MaxEdits
    BY EditCounts DEF Stages
<1> QED BY <1>1 DEF Stages, Requested

\* A request that stages one record's contents.
LEMMA StagesPut ==
    ASSUME AllFormed, OthersStay, NothingPending, NEW t \in family, NEW k \in KeysOf(t),
           NEW R, Linked(k, R), NEW act \in Acts, NEW own \in BOOLEAN,
           k \in DOMAIN main => Mine(k),
           Stages({Row(Edit, k, act, Put(k, R, Edit), own)})
    PROVE  Requested
<1> DEFINE r == Row(Edit, k, act, Put(k, R, Edit), own)
           rows == {r}
<1>1. k \in AllKeys /\ MayEdit
    BY FamilyTables DEF Stages
<1>2. NewRow(r)
    BY <1>1, PutIsNew
<1> HIDE DEF r
<1>3. Stages(rows) /\ \A x \in rows : NewRow(x)
    BY <1>2 DEF r
<1> HIDE DEF rows
<1> QED BY <1>3, StagesNew

LEMMA CreateRequests ==
    ASSUME AllFormed, OthersStay, NEW t, NEW checked, NEW own \in BOOLEAN,
           Create(t, checked, own)
    PROVE  Requested
<1>1. t \in family /\ NothingPending
    BY DEF Create
<1>2. PICK k \in KeysOf(t), R \in RefChoices(t) :
          /\ k \notin DOMAIN main
          /\ Stages({Row(Edit, k, "INSERT", Put(k, R, Edit), own)})
    BY DEF Create, ExistsOrStaged
<1>3. Linked(k, R) /\ "INSERT" \in Acts
    BY <1>1, ChoiceIsLinked DEF Acts
<1> QED BY <1>1, <1>2, <1>3, StagesPut

LEMMA JoinRequests ==
    ASSUME AllFormed, OthersStay, NEW t, NEW own \in BOOLEAN, Join(t, own)
    PROVE  Requested
<1>1. t \in family /\ NothingPending
    BY DEF Join
<1>2. PICK k \in KeysOf(t), R \in RefChoices(t) :
          /\ k \notin DOMAIN main
          /\ Stages({Row(Edit, k, "INSERT", Put(k, R, Edit), own)})
    BY DEF Join, ExistsOrStaged
<1>3. Linked(k, R) /\ "INSERT" \in Acts
    BY <1>1, ChoiceIsLinked DEF Acts
<1> QED BY <1>1, <1>2, <1>3, StagesPut

LEMMA UpdateRequests ==
    ASSUME AllFormed, OthersStay, NEW t, NEW checked, NEW stagedToo,
           Update(t, checked, stagedToo)
    PROVE  Requested
<1>1. t \in family /\ NothingPending
    BY DEF Update
<1>2. PICK k \in KeysOf(t), R \in RefChoices(t) :
          /\ MayUpdate(k, R)
          /\ Stages({Row(Edit, k, "UPDATE", Put(k, R, Edit), FALSE)})
    BY DEF Update
<1>3. Linked(k, R) /\ "UPDATE" \in Acts /\ FALSE \in BOOLEAN
    BY <1>1, ChoiceIsLinked DEF Acts
<1>4. k \in DOMAIN main => Mine(k)
    BY <1>2, GuardKeepsOthers DEF MayUpdate
<1> QED BY <1>1, <1>2, <1>3, <1>4, StagesPut

LEMMA RejoinRequests ==
    ASSUME AllFormed, OthersStay, NEW t, NEW own \in BOOLEAN, Rejoin(t, own)
    PROVE  Requested
<1>1. t \in family /\ NothingPending
    BY DEF Rejoin
<1>2. PICK k \in KeysOf(t), R \in RefChoices(t) :
          /\ MayUpdate(k, R)
          /\ Stages({Row(Edit, k, "UPDATE", Put(k, R, Edit), own)})
    BY DEF Rejoin
<1>3. Linked(k, R) /\ "UPDATE" \in Acts
    BY <1>1, ChoiceIsLinked DEF Acts
<1>4. k \in DOMAIN main => Mine(k)
    BY <1>2, GuardKeepsOthers DEF MayUpdate
<1> QED BY <1>1, <1>2, <1>3, <1>4, StagesPut

LEMMA DeleteRequests ==
    ASSUME AllFormed, OthersStay, NothingPending, NEW k \in AllKeys,
           NEW children \in SUBSET AllKeys, NEW own \in BOOLEAN, Delete(k, children, own)
    PROVE  Requested
<1> DEFINE rows == {Row(Edit, x, "DELETE", Put(x, {}, Edit), own) : x \in children \cup {k}}
<1>1. Stages(rows) /\ MayEdit /\ \A x \in children \cup {k} : MayDelete(x)
    BY DEF Delete, Stages
<1>2. ASSUME NEW x \in children \cup {k}
      PROVE  NewRow(Row(Edit, x, "DELETE", Put(x, {}, Edit), own))
    <2>1. x \in DOMAIN main => Mine(x)
        BY <1>1, GuardKeepsOthers DEF MayDelete
    <2>2. Linked(x, {}) /\ "DELETE" \in Acts /\ x \in AllKeys
        BY DEF Linked, Acts
    <2> QED BY <1>1, <2>1, <2>2, PutIsNew
<1>3. \A r \in rows : NewRow(r)
    BY <1>2
<1> HIDE DEF rows
<1> QED BY <1>1, <1>3, StagesNew

LEMMA DestroyRequests ==
    ASSUME AllFormed, OthersStay, NEW t, NEW own \in BOOLEAN, Destroy(t, own)
    PROVE  Requested
<1>1. PICK k \in KeysOf(t) : Delete(k, {}, own) /\ t \in family /\ NothingPending
    BY DEF Destroy
<1>2. k \in AllKeys /\ {} \in SUBSET AllKeys
    BY <1>1, FamilyTables
<1> QED BY <1>1, <1>2, DeleteRequests

LEMMA DestroyAefRequests ==
    ASSUME AllFormed, OthersStay, NEW t, DestroyAef(t)
    PROVE  Requested
<1>1. PICK k \in KeysOf(t) : Delete(k, {}, FALSE) /\ t \in family /\ NothingPending
    BY DEF DestroyAef
<1>2. k \in AllKeys /\ {} \in SUBSET AllKeys /\ FALSE \in BOOLEAN
    BY <1>1, FamilyTables
<1> QED BY <1>1, <1>2, DeleteRequests
\* What a delete cascades to is in the main tables.
LEMMA CascadesAreMain ==
    ASSUME NEW p
    PROVE  /\ UnitChildren({p}) \subseteq DOMAIN main
           /\ IssuanceChildren({p}) \subseteq DOMAIN main
           /\ VerificationChildren({p}) \subseteq DOMAIN main
           /\ ProjectChildren(p) \subseteq DOMAIN main
<1>1. \A t, s : ChildrenIn(t, s) \subseteq DOMAIN main
    BY DEF ChildrenIn
<1>2. \A s : UnitChildren(s) \subseteq DOMAIN main
    BY <1>1 DEF UnitChildren
<1>3. \A s : IssuanceChildren(s) \subseteq DOMAIN main
    BY <1>1, <1>2 DEF IssuanceChildren
<1>4. \A s : VerificationChildren(s) \subseteq DOMAIN main
    BY <1>1, <1>3 DEF VerificationChildren
<1>5. ProjectChildren(p) \subseteq DOMAIN main
    <2> DEFINE direct == UNION {ChildrenIn(t, {p}) : t \in {"location", "estimation", "rating",
                    "co_benefit", "validation", "project_methodology", "stakeholder_projects"}}
               verifications == ChildrenIn("verification", {p})
    <2>1. direct \subseteq DOMAIN main
        BY <1>1
    <2>2. verifications \subseteq DOMAIN main /\ VerificationChildren(verifications) \subseteq DOMAIN main
        BY <1>1, <1>4
    <2>3. ProjectChildren(p) = (verifications \cup VerificationChildren(verifications)) \cup direct
        BY DEF ProjectChildren
    <2> HIDE DEF direct, verifications
    <2> QED BY <2>1, <2>2, <2>3
<1> QED BY <1>2, <1>3, <1>4, <1>5

LEMMA CascadeRequests ==
    ASSUME AllFormed, OthersStay,
           DestroyProject \/ DestroyVerification \/ DestroyIssuance \/ DestroyUnit
    PROVE  Requested
<1>1. NothingPending /\ DOMAIN main \subseteq AllKeys /\ FALSE \in BOOLEAN
    BY DEF DestroyProject, DestroyVerification, DestroyIssuance, DestroyUnit, AllFormed,
       MainLinked
<1>2. PICK k \in DOMAIN main, children \in SUBSET AllKeys : Delete(k, children, FALSE)
    <2>1. CASE DestroyProject
        <3>1. PICK p \in DOMAIN main : Delete(p, ProjectChildren(p), FALSE)
            BY <2>1 DEF DestroyProject
        <3>2. ProjectChildren(p) \in SUBSET AllKeys
            BY <1>1, CascadesAreMain
        <3> QED BY <3>1, <3>2
    <2>2. CASE DestroyVerification
        <3>1. PICK p \in DOMAIN main : Delete(p, VerificationChildren({p}), FALSE)
            BY <2>2 DEF DestroyVerification
        <3>2. VerificationChildren({p}) \in SUBSET AllKeys
            BY <1>1, CascadesAreMain
        <3> QED BY <3>1, <3>2
    <2>3. CASE DestroyIssuance
        <3>1. PICK p \in DOMAIN main : Delete(p, IssuanceChildren({p}), FALSE)
            BY <2>3 DEF DestroyIssuance
        <3>2. IssuanceChildren({p}) \in SUBSET AllKeys
            BY <1>1, CascadesAreMain
        <3> QED BY <3>1, <3>2
    <2>4. CASE DestroyUnit
        <3>1. PICK p \in DOMAIN main : Delete(p, UnitChildren({p}), FALSE)
            BY <2>4 DEF DestroyUnit
        <3>2. UnitChildren({p}) \in SUBSET AllKeys
            BY <1>1, CascadesAreMain
        <3> QED BY <3>1, <3>2
    <2> QED BY <2>1, <2>2, <2>3, <2>4
<1>3. k \in AllKeys
    BY <1>1
<1> QED BY <1>1, <1>2, <1>3, DeleteRequests

LEMMA SplitRequests ==
    ASSUME AllFormed, OthersStay, SplitUnit
    PROVE  Requested
<1>1. "unit" \in family /\ NothingPending
    BY DEF SplitUnit
<1>2. PICK u \in KeysOf("unit") \cap DOMAIN main, k \in KeysOf("unit") :
          /\ k \notin DOMAIN main
          /\ MayUpdate(u, main[u].refs)
          /\ Stages({Row(Edit, u, "UPDATE",
               [x \in {u, k} |-> [refs |-> main[u].refs, at |-> Edit]], FALSE)})
    BY DEF SplitUnit, ExistsOrStaged
<1> DEFINE e == Edit
           D == {u, k}
           refs == main[u].refs
           recs == [x \in D |-> [refs |-> refs, at |-> e]]
           r == Row(e, u, "UPDATE", recs, FALSE)
           rows == {r}
<1>3. /\ e \in 1 .. MaxEdits /\ D \in SUBSET AllKeys /\ u \in D
      /\ "UPDATE" \in Acts /\ FALSE \in BOOLEAN /\ "UPDATE" # "DELETE"
    BY <1>1, <1>2, EditCounts, FamilyTables DEF Stages, Acts
<1>4. u[1] = "unit" /\ k[1] = "unit" /\ Linked(u, refs)
    BY <1>1, <1>2, FamilyTables DEF AllFormed, MainLinked
<1>5. Linked(u, refs) /\ Linked(k, refs)
    BY <1>4 DEF Linked
<1>6. [refs |-> refs, at |-> e] \in Contents
    BY <1>3, <1>5, RecordConstants DEF Contents, Linked
<1>7. /\ Stages(rows)
      /\ recs \in [D -> Contents]
      /\ \A x \in D : recs[x].refs = refs /\ recs[x].at = e
      /\ \A x \in D \cap DOMAIN main : Mine(x)
    <2>1. Mine(u)
        BY <1>2, GuardKeepsOthers DEF MayUpdate
    <2> QED BY <1>2, <1>6, <2>1
<1>8. \A x \in D : Linked(x, recs[x].refs) /\ recs[x].at > 0
    BY <1>3, <1>5, <1>7
<1> HIDE DEF e, D, recs, rows
<1>9. Formed(r) /\ r.st = "staged" /\ DOMAIN r.recs = D
    <2> PICK own \in BOOLEAN, act \in Acts : own = FALSE /\ act = "UPDATE"
        BY DEF Acts
    <2>1. recs \in [D -> Contents]
        BY <1>7
    <2>2. act = "DELETE" => D = {u}
        OBVIOUS
    <2>3. /\ Formed(Row(e, u, act, recs, own))
          /\ Row(e, u, act, recs, own).st = "staged"
          /\ DOMAIN Row(e, u, act, recs, own).recs = D
        BY <1>3, <1>8, <2>1, <2>2, RowIsFormed
    <2> QED BY <2>3
<1> HIDE DEF r
<1> USE DEF rows
<1>10. NewRow(r)
    BY <1>7, <1>9 DEF NewRow, RowMine
<1>11. Stages(rows) /\ \A x \in rows : NewRow(x)
    BY <1>7, <1>10
<1> HIDE DEF rows
<1> QED BY <1>1, <1>11, StagesNew

\* A row whose id and state are an older row's.
LEMMA TakesPlace ==
    ASSUME NEW r, NEW s, NewRow(r), s \in StagedRow, s.st # "committed",
           r.st = "staged"
    PROVE  NewRow([r EXCEPT !.n = s.n, !.st = s.st])
<1> DEFINE q == [r EXCEPT !.n = s.n, !.st = s.st]
<1>1. r \in StagedRow /\ s.n \in 1 .. MaxEdits /\ s.st \in States
    BY DEF NewRow, Formed, StagedRow
<1>2. q \in StagedRow
    BY <1>1 DEF StagedRow
<1>3. q.key = r.key /\ q.act = r.act /\ q.recs = r.recs /\ q.st = s.st
    BY <1>1 DEF StagedRow
<1> HIDE DEF q
<1>4. Formed(q)
    BY <1>2, <1>3 DEF NewRow, Formed
<1>5. RowMine(q)
    BY <1>3 DEF NewRow, RowMine
<1>6. NewRow(q)
    BY <1>3, <1>4, <1>5 DEF NewRow
<1> QED BY <1>6 DEF q

\* A row of a spreadsheet is added or takes the place of those with its uuid.
LEMMA UpsertRequests ==
    ASSUME AllFormed, NothingPending, NEW row, NewRow(row), row.st = "staged",
           Restages(Upserted(staging, row))
    PROVE  Requested
<1>1. ASSUME NEW r \in staging' PROVE r \in staging \/ NewRow(r)
    <2>1. \/ r \in staging \/ r = row
          \/ \E s \in staging : r = [row EXCEPT !.n = s.n, !.st = s.st]
        BY <1>1 DEF Restages, Upserted
    <2>2. ASSUME NEW s \in staging, r = [row EXCEPT !.n = s.n, !.st = s.st]
          PROVE  NewRow(r)
        <3>1. s \in StagedRow /\ s.st # "committed"
            BY DEF AllFormed, Formed, NothingPending
        <3> QED BY <2>2, <3>1, TakesPlace
    <2> QED BY <2>1, <2>2
<1>2. Edit \in 1 .. MaxEdits
    BY EditCounts DEF Restages
<1> QED BY <1>1, <1>2 DEF Restages, Requested

LEMMA ImportRequests ==
    ASSUME AllFormed, OthersStay, ImportXls
    PROVE  Requested
<1>1. NothingPending /\ MayEdit
    BY DEF ImportXls, Restages
<1>2. PICK t \in Sheets \cap family : \E k \in KeysOf(t), R \in RefChoices(t), act \in Acts :
          /\ k \in DOMAIN main => MayUpdate(k, R)
          /\ Restages(Upserted(staging, Row(Edit, k, act, Put(k, R, Edit), TRUE)))
    BY DEF ImportXls, Acts
<1> PICK k \in KeysOf(t), R \in RefChoices(t), act \in Acts :
          /\ k \in DOMAIN main => MayUpdate(k, R)
          /\ Restages(Upserted(staging, Row(Edit, k, act, Put(k, R, Edit), TRUE)))
    BY <1>2
<1> DEFINE row == Row(Edit, k, act, Put(k, R, Edit), TRUE)
<1>3. k \in AllKeys /\ Linked(k, R) /\ TRUE \in BOOLEAN
    BY FamilyTables, ChoiceIsLinked
<1>4. k \in DOMAIN main => Mine(k)
    BY GuardKeepsOthers DEF MayUpdate
<1>5. NewRow(row) /\ row.st = "staged"
    <2>1. row.st = "staged"
        BY DEF Row
    <2> QED BY <1>1, <1>3, <1>4, <2>1, PutIsNew
<1>6. Restages(Upserted(staging, row))
    OBVIOUS
<1> HIDE DEF row
<1> QED BY <1>1, <1>5, <1>6, UpsertRequests

\* The order of the naturals, as a relation.
SmallerThan == {nm \in Nat \X Nat : nm[1] < nm[2]}

\* The least of some numbers, and the greatest of the numbers of some rows.
LEMMA LeastNumber ==
    ASSUME NEW S \in SUBSET Nat, S # {}
    PROVE  \E n \in S : \A m \in S : n <= m
<1>1. IsWellFoundedOn(SmallerThan, Nat)
    BY NatLessThanWellFounded DEF OpToRel, SmallerThan
<1>2. \E n \in S : \A m \in S : ~ (<<m, n>> \in SmallerThan)
    BY <1>1, WFMin
<1>3. \A n, m \in S : m < n => <<m, n>> \in SmallerThan
    BY DEF SmallerThan
<1>4. \A n, m \in Nat : m < n \/ n <= m
    OBVIOUS
<1> QED BY <1>2, <1>3, <1>4

LEMMA GreatestNumber ==
    ASSUME NEW S, S # {}, \A n \in S : n \in 1 .. MaxEdits
    PROVE  Max(S) \in S
<1> DEFINE D == {MaxEdits - n : n \in S}
<1>1. MaxEdits \in Nat
    BY RecordConstants
<1>2. D \in SUBSET Nat /\ D # {}
    BY <1>1
<1>3. PICK d \in D : \A c \in D : d <= c
    <2> HIDE DEF D
    <2> QED BY <1>2, LeastNumber
<1>4. PICK m \in S : d = MaxEdits - m
    OBVIOUS
<1>5. ASSUME NEW n \in S PROVE m >= n
    <2>1. MaxEdits - n \in D
        OBVIOUS
    <2>2. MaxEdits - m <= MaxEdits - n
        <3> HIDE DEF D
        <3> QED BY <1>3, <1>4, <2>1
    <2>3. m \in 1 .. MaxEdits /\ n \in 1 .. MaxEdits
        OBVIOUS
    <2> HIDE DEF D
    <2> QED BY <1>1, <2>2, <2>3
<1> QED BY <1>5 DEF Max

LEMMA UploadRequests ==
    ASSUME AllFormed, OthersStay, \A r \in staging : RowMine(r), BatchUpload
    PROVE  Requested
<1>1. NothingPending
    BY DEF BatchUpload
<1>2. PICK t \in {"project", "unit"} \cap family :
          \E k \in KeysOf(t), R \in RefChoices(t), act \in Acts :
              LET row == Row(Edit, k, act, Put(k, R, Edit), TRUE)
              IN  /\ k \in DOMAIN main => main[k].org = "home"
                  /\ IF PendingFor(k) = {} THEN Restages(Upserted(staging, row))
                                           ELSE Restages(Consolidated(PendingFor(k), row))
    <2>1. "INSERT" \in Acts /\ "UPDATE" \in Acts
        BY DEF Acts
    <2> QED BY <2>1 DEF BatchUpload
<1> PICK k \in KeysOf(t), R \in RefChoices(t), act \in Acts :
        LET row == Row(Edit, k, act, Put(k, R, Edit), TRUE)
        IN  /\ k \in DOMAIN main => main[k].org = "home"
            /\ IF PendingFor(k) = {} THEN Restages(Upserted(staging, row))
                                     ELSE Restages(Consolidated(PendingFor(k), row))
    BY <1>2
<1> DEFINE row == Row(Edit, k, act, Put(k, R, Edit), TRUE)
           pending == PendingFor(k)
<1>3. /\ k \in DOMAIN main => main[k].org = "home"
      /\ pending = {} => Restages(Upserted(staging, row))
      /\ pending # {} => Restages(Consolidated(pending, row))
    OBVIOUS
<1>4. MayEdit /\ Edit \in 1 .. MaxEdits
    BY <1>3, EditCounts DEF Restages
<1>5. k \in AllKeys /\ Linked(k, R) /\ TRUE \in BOOLEAN
    BY FamilyTables, ChoiceIsLinked
<1>6. k \in DOMAIN main => Mine(k)
    BY <1>3 DEF Mine, Ours
<1>7. row.st = "staged"
    BY DEF Row
<1>8. NewRow(row)
    BY <1>4, <1>5, <1>6, PutIsNew
<1>9. pending \subseteq staging
    BY DEF PendingFor, Uncommitted
<1> HIDE DEF row, pending
<1>10. CASE pending = {}
    BY <1>1, <1>3, <1>7, <1>8, <1>10, UpsertRequests
<1>11. CASE pending # {}
    <2> DEFINE S == {r.n : r \in pending}
               q == [row EXCEPT !.n = Max(S)]
    <2>1. S # {} /\ \A n \in S : n \in 1 .. MaxEdits
        BY <1>9, <1>11 DEF AllFormed, Formed, StagedRow
    <2>2. Max(S) \in S
        <3> HIDE DEF S
        <3> QED BY <2>1, GreatestNumber
    <2>3. PICK s \in pending : s.n = Max(S)
        BY <2>2
    <2>4. s \in StagedRow /\ row \in StagedRow
        BY <1>8, <1>9 DEF AllFormed, NewRow, Formed
    <2> HIDE DEF S
    <2> DEFINE like == [s EXCEPT !.st = "staged"]
    <2>5. like \in StagedRow
        BY <2>4 DEF StagedRow, States
    <2>6. like.n = Max(S) /\ like.st = "staged"
        BY <2>3, <2>4 DEF StagedRow
    <2> HIDE DEF like
    <2>7. q = [row EXCEPT !.n = like.n, !.st = like.st]
        BY <2>4, <2>6, <1>7 DEF StagedRow
    <2> HIDE DEF q
    <2>8. NewRow(q)
        BY <1>7, <1>8, <2>5, <2>6, <2>7, TakesPlace
    <2> USE DEF q
    <2>9. Restages((staging \ pending) \cup {q})
        BY <1>3, <1>11 DEF Consolidated, S
    <2> HIDE DEF q
    <2> QED BY <1>1, <1>4, <2>8, <2>9 DEF Restages, Requested
<1> QED BY <1>10, <1>11

LEMMA TransferRequests ==
    ASSUME AllFormed, OthersStay, Transfer
    PROVE  Requested
<1>1. "project" \in family /\ NothingPending
    BY DEF Transfer
<1>2. PICK k \in KeysOf("project") \cap DOMAIN main :
          Stages({[Row(Edit, k, "UPDATE", Put(k, main[k].refs, Edit), TRUE)
                      EXCEPT !.st = "transfer"]})
    BY DEF Transfer
<1> DEFINE e == Edit
           refs == main[k].refs
           r == Row(e, k, "UPDATE", Put(k, refs, e), TRUE)
           q == [r EXCEPT !.st = "transfer"]
           rows == {q}
<1>3. /\ e \in 1 .. MaxEdits /\ k \in AllKeys /\ Linked(k, refs)
      /\ "UPDATE" \in Acts /\ TRUE \in BOOLEAN
    BY <1>1, <1>2, EditCounts, FamilyTables DEF Stages, Acts, AllFormed, MainLinked
<1>4. Stages(rows)
    BY <1>2
<1> HIDE DEF e, refs
<1>5. Formed(r)
    BY <1>3, PutIsFormed
<1> HIDE DEF r
<1>6. /\ q \in StagedRow /\ q.key = r.key /\ q.act = r.act /\ q.recs = r.recs
      /\ q.st = "transfer"
    BY <1>5 DEF Formed, StagedRow, States
<1> HIDE DEF q
<1>7. NewRow(q)
    BY <1>5, <1>6 DEF Formed, NewRow, RowMine
<1>8. \A x \in rows : NewRow(x)
    BY <1>7
<1> HIDE DEF rows
<1> QED BY <1>1, <1>4, <1>8, StagesNew

LEMMA AllRequests ==
    ASSUME AllFormed, OthersStay, \A r \in staging : RowMine(r),
           Creates \/ Updates \/ Destroys \/ ImportXls \/ BatchUpload \/ Transfer
    PROVE  Requested
<1>1. CASE Creates
    BY <1>1, CreateRequests, JoinRequests
       DEF Creates, CreateProgram, CreateMethodology, CreateLabel, CreateStakeholder, CreateProject,
           CreateLocation, CreateEstimation, CreateRating, CreateCoBenefit,
           CreateValidation, CreateVerification, CreateProjectMethodology,
           CreateStakeholderProject, CreateIssuance, CreateUnit, CreateUnitLabel,
           CreateAefT1, CreateAefT2, CreateAefT3, CreateAefT4, CreateAefT5
<1>2. CASE Updates
    BY <1>2, UpdateRequests, RejoinRequests, SplitRequests
       DEF Updates, UpdateProgram, UpdateMethodology, UpdateLabel, UpdateStakeholder,
           UpdateProject, UpdateLocation, UpdateEstimation, UpdateRating, UpdateCoBenefit,
           UpdateValidation, UpdateVerification, UpdateProjectMethodology,
           UpdateStakeholderProject, UpdateIssuance, UpdateUnit, UpdateUnitLabel,
           UpdateAefT1, UpdateAefT2, UpdateAefT3, UpdateAefT4, UpdateAefT5
<1>3. CASE Destroys
    BY <1>3, DestroyRequests, DestroyAefRequests, CascadeRequests
       DEF Destroys, DestroyProgram, DestroyMethodology, DestroyLabel, DestroyStakeholder,
           DestroyLocation, DestroyEstimation, DestroyRating, DestroyCoBenefit,
           DestroyValidation, DestroyProjectMethodology, DestroyStakeholderProject,
           DestroyUnitLabel, DestroyAefT1, DestroyAefT2, DestroyAefT3, DestroyAefT4,
           DestroyAefT5
<1>4. CASE ImportXls \/ BatchUpload \/ Transfer
    BY <1>4, ImportRequests, UploadRequests, TransferRequests
<1> QED BY <1>1, <1>2, <1>3, <1>4
-----------------------------------------------------------------------------
(* Commits *)

LEMMA FirstRow ==
    ASSUME NEW S, S # {}, \A r \in S : r.n \in Nat
    PROVE  \E r \in S : \A s \in S : r.n <= s.n
<1> DEFINE N == {r.n : r \in S}
<1>1. N \in SUBSET Nat /\ N # {}
    OBVIOUS
<1>2. PICK n \in N : \A m \in N : n <= m
    <2> HIDE DEF N
    <2> QED BY <1>1, LeastNumber
<1>3. PICK r \in S : r.n = n
    OBVIOUS
<1> QED BY <1>2, <1>3

\* A key's contents come from one of the rows that give it any.
LEMMA PutFromHolds ==
    ASSUME AllFormed, NEW rows \in SUBSET staging, NEW k,
           NEW w \in rows \cap Writes, k \in DOMAIN w.recs
    PROVE  PutFrom(rows, k) \in rows \cap Writes /\ k \in DOMAIN PutFrom(rows, k).recs
<1> DEFINE holding == {r \in rows \cap Writes : k \in DOMAIN r.recs}
           inserts == {r \in holding : r.act = "INSERT"}
           among == IF inserts # {} THEN inserts ELSE holding
<1>1. among # {} /\ among \subseteq holding
    OBVIOUS
<1>2. \A r \in among : r.n \in Nat
    <2>1. holding \subseteq staging
        OBVIOUS
    <2> HIDE DEF holding, among
    <2> QED BY <1>1, <2>1, RecordConstants DEF AllFormed, Formed, StagedRow
<1>3. PutFrom(rows, k) = CHOOSE r \in among : \A s \in among : r.n <= s.n
    BY DEF PutFrom
<1>4. PutFrom(rows, k) \in among
    <2> HIDE DEF among
    <2> QED BY <1>1, <1>2, <1>3, FirstRow
<1> HIDE DEF inserts, among
<1> QED BY <1>1, <1>4

LEMMA PutsOfRows ==
    ASSUME AllFormed, NEW rows \in SUBSET staging
    PROVE  /\ DOMAIN Puts(rows) = UNION {DOMAIN r.recs : r \in rows \cap Writes}
           /\ \A k \in DOMAIN Puts(rows) :
                 \E r \in rows \cap Writes :
                    k \in DOMAIN r.recs /\ r = PutFrom(rows, k) /\ Puts(rows)[k] = r.recs[k]
<1> DEFINE K == UNION {DOMAIN r.recs : r \in rows \cap Writes}
<1>1. DOMAIN Puts(rows) = K /\ \A k \in K : Puts(rows)[k] = PutFrom(rows, k).recs[k]
    BY DEF Puts
<1>2. ASSUME NEW k \in K
      PROVE  PutFrom(rows, k) \in rows \cap Writes /\ k \in DOMAIN PutFrom(rows, k).recs
    <2>1. PICK w \in rows \cap Writes : k \in DOMAIN w.recs
        OBVIOUS
    <2> QED BY <2>1, PutFromHolds
<1> QED BY <1>1, <1>2

LEMMA RowKeys ==
    ASSUME AllFormed, NEW r \in staging
    PROVE  /\ DOMAIN r.recs \subseteq AllKeys /\ r.key \in DOMAIN r.recs
           /\ \A k \in DOMAIN r.recs : r.recs[k] \in Contents
<1>1. PICK D \in SUBSET AllKeys : r.recs \in [D -> Contents]
    BY DEF AllFormed, Formed, StagedRow
<1> QED BY <1>1 DEF AllFormed, Formed

LEMMA StateChanges ==
    ASSUME NEW r, Formed(r), NEW st \in States
    PROVE  LET q == [r EXCEPT !.st = st]
           IN  /\ Formed(q) /\ q.st = st /\ q.key = r.key /\ q.act = r.act /\ q.recs = r.recs
               /\ q.n = r.n /\ q.own = r.own
<1> DEFINE q == [r EXCEPT !.st = st]
<1>1. q \in StagedRow
    BY DEF Formed, StagedRow
<1>2. q.st = st /\ q.key = r.key /\ q.act = r.act /\ q.recs = r.recs /\ q.n = r.n /\ q.own = r.own
    BY DEF Formed, StagedRow
<1> HIDE DEF q
<1>3. Formed(q)
    BY <1>1, <1>2 DEF Formed
<1> QED BY <1>2, <1>3 DEF q

\* A commit's rows, change list and what it leaves.
Taken(rows) ==
    /\ rows \in SUBSET Uncommitted /\ rows # {}
    /\ NothingPending
    /\ pushed' = [dels |-> Dels(rows), puts |-> Puts(rows)]
    /\ staging' = (staging \ rows) \cup {[r EXCEPT !.st = "committed"] : r \in rows}
    /\ UNCHANGED <<family, main>>

LEMMA CommitTakes ==
    ASSUME Commit
    PROVE  \E rows : Taken(rows)
BY DEF Commit, Taken

LEMMA CommitOwned ==
    ASSUME Inv, Commit
    PROVE  Inv'
<1>1. PICK rows : Taken(rows)
    BY CommitTakes
<1>2. /\ AllFormed /\ rows \in SUBSET staging
      /\ \A r \in rows : r.st = "staged"
      /\ UNCHANGED <<family, main>>
    BY <1>1 DEF Inv, Taken, Uncommitted
<1>3. /\ pushed'.dels = Dels(rows) /\ pushed'.puts = Puts(rows)
    BY <1>1 DEF Taken
<1>4. \A r \in staging' : Formed(r)
    <2>1. ASSUME NEW r \in rows PROVE Formed([r EXCEPT !.st = "committed"])
        BY <1>2, StateChanges DEF AllFormed, States
    <2> QED BY <1>1, <1>2, <2>1 DEF Taken, AllFormed
<1>5. \A r \in staging' : RowMine(r)
    <2>1. ASSUME NEW r \in rows PROVE RowMine([r EXCEPT !.st = "committed"])
        <3>1. Formed(r) /\ "committed" \in States
            BY <1>2 DEF AllFormed, States
        <3>2. [r EXCEPT !.st = "committed"].recs = r.recs
            BY <3>1, StateChanges
        <3>3. RowMine(r) /\ r.st = "staged"
            BY <1>2 DEF Inv
        <3> QED BY <3>2, <3>3 DEF RowMine
    <2> QED BY <1>1, <1>2, <2>1 DEF Taken, Inv
<1>6. DOMAIN Puts(rows) \subseteq AllKeys
    BY <1>2, PutsOfRows, RowKeys
<1>7. Dels(rows) \subseteq AllKeys
    BY <1>2, <1>6, RowKeys DEF Dels
<1>8. ASSUME NEW k \in DOMAIN Puts(rows)
      PROVE  Puts(rows)[k] \in Contents /\ Linked(k, Puts(rows)[k].refs) /\ Puts(rows)[k].at > 0
    <2>1. PICK r \in rows : k \in DOMAIN r.recs /\ Puts(rows)[k] = r.recs[k]
        BY <1>2, PutsOfRows
    <2> QED BY <1>2, <2>1, RowKeys DEF AllFormed, Formed
<1>9. ~ NothingPending'
    <2>1. PICK r \in rows : TRUE
        BY <1>1 DEF Taken
    <2>2. [r EXCEPT !.st = "committed"] \in staging'
        BY <1>1, <2>1 DEF Taken
    <2>3. [r EXCEPT !.st = "committed"].st = "committed"
        BY <1>2, <2>1, StateChanges DEF AllFormed, States
    <2> QED BY <2>2, <2>3 DEF NothingPending
<1>10. PushFormed'
    BY <1>3, <1>6, <1>7, <1>8, <1>9 DEF PushFormed
<1>11. used' \in [edits : 0 .. MaxEdits, commits : 0 .. MaxCommits]
    <2>1. used \in [edits : 0 .. MaxEdits, commits : 0 .. MaxCommits]
        BY <1>2 DEF AllFormed
    <2>2. used.commits + 1 \in 0 .. MaxCommits
        BY <2>1, RecordConstants DEF Commit
    <2> QED BY <2>1, <2>2 DEF Commit
<1>12. AllFormed'
    BY <1>2, <1>4, <1>10, <1>11 DEF AllFormed, MainLinked
<1>13. OthersStay' /\ (\A r \in staging : RowMine(r))'
    BY <1>2, <1>5 DEF Inv, OthersStay, RowMine, Mine, Ours, Unowned
<1>14. ASSUME NEW k \in Touched' \cap DOMAIN main
       PROVE  Mine(k)
    <2>1. PICK r \in rows : k \in DOMAIN r.recs
        <3>1. CASE k \in DOMAIN Puts(rows)
            BY <1>2, <3>1, PutsOfRows
        <3>2. CASE \E r \in rows : k = r.key
            BY <1>2, <3>2, RowKeys
        <3> QED BY <1>3, <1>14, <3>1, <3>2 DEF Touched, Dels
    <2>2. RowMine(r) /\ r.st = "staged"
        BY <1>2, <2>1 DEF Inv
    <2> QED BY <1>14, <2>1, <2>2 DEF RowMine
<1>15. OnlyOwnedPublished'
    BY <1>2, <1>14 DEF OnlyOwnedPublished, Mine, Ours, Unowned
<1> QED BY <1>12, <1>13, <1>15 DEF Inv

-----------------------------------------------------------------------------
(* The store's answer *)

\* A record after the change list is ingested: put by it, or as it was.
LEMMA IngestOwned ==
    ASSUME Inv, Ingest
    PROVE  Inv'
<1> DEFINE D == (DOMAIN main \ (pushed.dels \cap Ours)) \cup DOMAIN pushed.puts
<1>1. /\ AllFormed /\ OthersStay /\ pushed # NoPush
      /\ pushed' = NoPush /\ staging' = {r \in staging : r.st # "committed"}
      /\ UNCHANGED <<family, used>>
    BY DEF Inv, Ingest
<1>2. /\ DOMAIN pushed.puts \subseteq AllKeys
      /\ \A k \in DOMAIN pushed.puts :
            /\ pushed.puts[k] \in Contents
            /\ Linked(k, pushed.puts[k].refs) /\ pushed.puts[k].at > 0
      /\ \A k \in Touched \cap DOMAIN main : Mine(k)
    BY <1>1 DEF Inv, AllFormed, PushFormed, OnlyOwnedPublished, Mine
<1>3. DOMAIN main' = D
    BY DEF Ingest
<1>4. ASSUME NEW k \in DOMAIN pushed.puts
      PROVE  /\ main'[k].org \in {"home", "theirs"}
             /\ main'[k].refs = pushed.puts[k].refs /\ main'[k].at = pushed.puts[k].at
             /\ main'[k] = [org |-> main'[k].org, refs |-> main'[k].refs, at |-> main'[k].at]
    BY <1>1 DEF Ingest, AllFormed, Records
<1>5. ASSUME NEW k \in D \ DOMAIN pushed.puts
      PROVE  k \in DOMAIN main /\ main'[k] = main[k]
    BY DEF Ingest
<1>6. MainLinked'
    <2>1. D \subseteq AllKeys
        BY <1>1, <1>2 DEF AllFormed, MainLinked
    <2>2. ASSUME NEW k \in D PROVE Linked(k, main'[k].refs)
        BY <1>1, <1>2, <1>4, <1>5 DEF AllFormed, MainLinked
    <2> QED BY <1>3, <2>1, <2>2 DEF MainLinked
<1>7. \A k \in DOMAIN main' : main'[k] \in Records
    <2>1. ASSUME NEW k \in DOMAIN pushed.puts PROVE main'[k] \in Records
        <3>1. pushed.puts[k].refs \in SUBSET AllKeys /\ pushed.puts[k].at \in 0 .. MaxEdits
            BY <1>2 DEF Contents
        <3>2. /\ main'[k].refs \in SUBSET AllKeys /\ main'[k].at \in 0 .. MaxEdits
              /\ main'[k].org \in {"home", "theirs"}
            BY <1>4, <3>1
        <3>3. main'[k] = [org |-> main'[k].org, refs |-> main'[k].refs, at |-> main'[k].at]
            BY <1>4
        <3> QED BY <3>2, <3>3 DEF Records
    <2> QED BY <1>1, <1>3, <1>5, <2>1 DEF AllFormed
<1>8. AllFormed'
    BY <1>1, <1>6, <1>7 DEF AllFormed, PushFormed
<1> HIDE DEF D
<1>9. ASSUME NEW k \in DOMAIN main' \ Ours'
      PROVE  k \in DOMAIN main \ Ours /\ main'[k] = main[k]
    <2>1. k \notin DOMAIN pushed.puts
        BY <1>2, <1>4 DEF Ours
    <2>2. k \in DOMAIN main /\ main'[k] = main[k]
        BY <1>3, <1>5, <2>1
    <2> QED BY <2>2 DEF Ours
<1>10. ASSUME NEW t \in family \ ReferencingAef
       PROVE  <<t, Theirs>> \in DOMAIN main' \ Ours'
    <2> DEFINE p == <<t, Theirs>>
    <2>1. p \in DOMAIN main \ Ours
        BY <1>1 DEF OthersStay
    <2>2. ~ Mine(p)
        BY <2>1 DEF Mine, Unowned
    <2>3. p \notin Touched
        BY <1>2, <2>1, <2>2
    <2>4. p \in D \ DOMAIN pushed.puts
        BY <2>1, <2>3 DEF Touched, D
    <2>5. p \in DOMAIN main' /\ main'[p] = main[p]
        BY <1>3, <1>5, <2>4
    <2> QED BY <2>1, <2>5 DEF Ours
<1>11. OthersStay'
    <2>1. family' = family
        BY <1>1
    <2>2. ASSUME NEW k \in DOMAIN main' \ Ours'
          PROVE  /\ k[1] \in family
                 /\ \A p \in main'[k].refs : p[1] \in family /\ p[2] = Theirs
                 /\ \A t \in (Required(k[1]) \cap family) \ {k[1]} : <<t, Theirs>> \in main'[k].refs
        BY <1>1, <1>9, <2>2 DEF OthersStay
    <2> QED BY <1>10, <2>1, <2>2 DEF OthersStay
<1>12. ASSUME NEW k \in DOMAIN main', k \in DOMAIN main => Mine(k)
       PROVE  Mine(k)'
    <2>1. CASE k \in Ours'
        BY <2>1 DEF Mine
    <2>2. CASE k \notin Ours'
        BY <1>9, <1>12, <2>2 DEF Mine, Unowned
    <2> QED BY <2>1, <2>2
<1>13. (\A r \in staging : RowMine(r))'
    <2>1. \A r \in staging' : RowMine(r)
        BY <1>1 DEF Inv
    <2> QED BY <1>12, <2>1 DEF RowMine
<1>14. OnlyOwnedPublished'
    BY <1>1 DEF OnlyOwnedPublished
<1> QED BY <1>8, <1>11, <1>13, <1>14 DEF Inv

\* Steps that leave the tables alone.
LEMMA OthersOwned ==
    ASSUME Inv, Discard \/ PushFails \/ Retry \/ UNCHANGED vars
    PROVE  Inv'
<1>1. /\ AllFormed /\ UNCHANGED <<family, main, used>>
      /\ pushed' = pushed \/ pushed' = NoPush
      /\ \A r \in staging : Formed(r) /\ RowMine(r)
    BY DEF Inv, AllFormed, Discard, PushFails, Retry, vars
<1>2. ASSUME NEW r \in staging, r.st \in {"committed", "failed"}, NEW st \in States
      PROVE  Formed([r EXCEPT !.st = st]) /\ RowMine([r EXCEPT !.st = st])
    <2>1. /\ Formed([r EXCEPT !.st = st]) /\ [r EXCEPT !.st = st].recs = r.recs
        BY <1>1, StateChanges
    <2> QED BY <1>1, <1>2, <2>1 DEF RowMine
<1>3. \A r \in staging' : Formed(r) /\ RowMine(r)
    <2>1. CASE Discard \/ UNCHANGED vars
        BY <1>1, <2>1 DEF Discard, vars
    <2>2. CASE PushFails
        <3>1. "failed" \in States
            BY DEF States
        <3>2. ASSUME NEW r \in staging
              PROVE  LET q == IF r.st = "committed" THEN [r EXCEPT !.st = "failed"] ELSE r
                     IN  Formed(q) /\ RowMine(q)
            BY <1>1, <1>2, <3>1
        <3> QED BY <2>2, <3>2 DEF PushFails
    <2>3. CASE Retry
        <3>1. "staged" \in States
            BY DEF States
        <3> QED BY <1>1, <1>2, <2>3, <3>1 DEF Retry
    <2> QED BY <2>1, <2>2, <2>3
<1>4. pushed' # NoPush => pushed' = pushed /\ (~ NothingPending => ~ NothingPending')
    BY DEF Discard, PushFails, Retry, vars, NothingPending
<1>5. AllFormed'
    <2>1. PushFormed'
        BY <1>1, <1>4 DEF AllFormed, PushFormed
    <2> QED BY <1>1, <1>3, <2>1 DEF AllFormed, MainLinked
<1>6. OthersStay' /\ (\A r \in staging : RowMine(r))'
    BY <1>1, <1>3 DEF Inv, OthersStay, RowMine, Mine, Ours, Unowned
<1>7. OnlyOwnedPublished'
    BY <1>1, <1>4 DEF Inv, OnlyOwnedPublished, Touched, Ours, Unowned
<1> QED BY <1>5, <1>6, <1>7 DEF Inv

LEMMA RequestOwned ==
    ASSUME Inv, Requested
    PROVE  Inv'
<1>1. /\ AllFormed /\ UNCHANGED <<family, main, pushed>> /\ NothingPending
      /\ Edit \in 1 .. MaxEdits /\ used' = [used EXCEPT !.edits = Edit]
      /\ \A r \in staging' : Formed(r) /\ RowMine(r)
    BY DEF Inv, Requested, AllFormed, NewRow
<1>2. pushed = NoPush
    BY <1>1 DEF AllFormed, PushFormed
<1>3. used' \in [edits : 0 .. MaxEdits, commits : 0 .. MaxCommits]
    BY <1>1, RecordConstants DEF AllFormed
<1>4. AllFormed'
    BY <1>1, <1>2, <1>3 DEF AllFormed, MainLinked, PushFormed
<1>5. OthersStay' /\ (\A r \in staging : RowMine(r))'
    BY <1>1 DEF Inv, OthersStay, RowMine, Mine, Ours, Unowned
<1>6. OnlyOwnedPublished'
    BY <1>1, <1>2 DEF OnlyOwnedPublished
<1> QED BY <1>4, <1>5, <1>6 DEF Inv

LEMMA NextOwned ==
    ASSUME Inv, [Next]_vars
    PROVE  Inv'
<1>1. CASE Creates \/ Updates \/ Destroys \/ ImportXls \/ BatchUpload \/ Transfer
    BY <1>1, AllRequests, RequestOwned DEF Inv
<1> QED BY <1>1, CommitOwned, IngestOwned, OthersOwned DEF Next

LEMMA InitOwned == Init => Inv
<1> SUFFICES ASSUME Init PROVE Inv
    OBVIOUS
<1> DEFINE K == UNION {{t} \X {Old, Theirs} : t \in family}
<1>1. family \in Families /\ family \subseteq Tables
    BY RecordConstants DEF Init
<1>2. PICK linked \in BOOLEAN :
         main = [k \in K |->
            [org  |-> IF k[2] = Old THEN "home" ELSE "theirs",
             refs |-> {<<p, k[2]>> : p \in
                ((IF linked THEN Models[k[1]].refs ELSE Required(k[1])) \cap family) \ {k[1]}},
             at   |-> 0]]
    BY DEF Init
<1>3. ASSUME NEW k \in K
      PROVE  k[1] \in family /\ k[2] \in {Old, Theirs} /\ k \in AllKeys
    BY <1>1 DEF AllKeys
<1> DEFINE Refs(k) == ((IF linked THEN Models[k[1]].refs ELSE Required(k[1])) \cap family) \ {k[1]}
<1>4. ASSUME NEW k \in K
      PROVE  /\ \A p \in Refs(k) : <<p, k[2]>> \in main[k].refs
             /\ \A q \in main[k].refs : \E p \in Refs(k) : q = <<p, k[2]>>
             /\ main[k].org = IF k[2] = Old THEN "home" ELSE "theirs"
             /\ main[k].at = 0
             /\ main[k] = [org |-> main[k].org, refs |-> main[k].refs, at |-> main[k].at]
    <2> DEFINE o == IF k[2] = Old THEN "home" ELSE "theirs"
               rs == {<<p, k[2]>> : p \in Refs(k)}
    <2>1. main[k] = [org |-> o, refs |-> rs, at |-> 0]
        BY <1>2
    <2>2. /\ \A p \in Refs(k) : <<p, k[2]>> \in rs
          /\ \A q \in rs : \E p \in Refs(k) : q = <<p, k[2]>>
        OBVIOUS
    <2>3. o = IF k[2] = Old THEN "home" ELSE "theirs"
        OBVIOUS
    <2> HIDE DEF o, rs, K, Refs
    <2>4. /\ main[k].refs = rs /\ main[k].org = o /\ main[k].at = 0
          /\ main[k] = [org |-> main[k].org, refs |-> main[k].refs, at |-> main[k].at]
        BY <2>1
    <2> QED BY <2>2, <2>3, <2>4
<1>5. DOMAIN main = K
    BY <1>2
<1>6. \A k \in K : /\ Refs(k) \subseteq Models[k[1]].refs /\ Refs(k) \subseteq family
                   /\ (Required(k[1]) \cap family) \ {k[1]} \subseteq Refs(k)
    BY DEF Required
<1> HIDE DEF Refs
<1>67. \A k \in K : (main[k].org = "home" \/ main[k].org = "theirs") /\ main[k].at = 0
    BY <1>4
<1>7. ASSUME NEW k \in K PROVE Linked(k, main[k].refs)
    <2>1. ASSUME NEW q \in main[k].refs
          PROVE  q \in AllKeys /\ q[1] \in Models[k[1]].refs
        <3>1. PICK p \in Refs(k) : q = <<p, k[2]>>
            BY <1>4
        <3>2. p \in Tables /\ p \in Models[k[1]].refs /\ k[2] \in {Old, New, Theirs}
            BY <1>1, <1>3, <1>6
        <3> QED BY <3>1, <3>2 DEF AllKeys
    <2> QED BY <2>1 DEF Linked
<1>8. MainLinked /\ \A k \in DOMAIN main : main[k] \in Records
    <2>1. ASSUME NEW k \in K PROVE main[k] \in Records
        <3>1. main[k].refs \in SUBSET AllKeys
            BY <1>7 DEF Linked
        <3>2. main[k].org \in {"home", "theirs"}
            BY <1>67
        <3>3. main[k].at \in 0 .. MaxEdits
            BY <1>67, RecordConstants
        <3>4. main[k] = [org |-> main[k].org, refs |-> main[k].refs, at |-> main[k].at]
            BY <1>4
        <3> QED BY <3>1, <3>2, <3>3, <3>4 DEF Records
    <2> QED BY <1>3, <1>5, <1>7, <2>1 DEF MainLinked
<1>9. staging = {} /\ pushed = NoPush /\ used = [edits |-> 0, commits |-> 0]
    BY DEF Init
<1>10. used \in [edits : 0 .. MaxEdits, commits : 0 .. MaxCommits]
    BY <1>9, RecordConstants
<1>11. AllFormed
    BY <1>1, <1>8, <1>9, <1>10 DEF AllFormed, PushFormed
<1>12. \A k \in DOMAIN main \ Ours : k \in K /\ k[2] = Theirs
    BY <1>3, <1>4, <1>5 DEF Ours
<1>13. ASSUME NEW k \in DOMAIN main \ Ours
       PROVE  /\ k[1] \in family
              /\ \A p \in main[k].refs : p[1] \in family /\ p[2] = Theirs
              /\ \A t \in (Required(k[1]) \cap family) \ {k[1]} : <<t, Theirs>> \in main[k].refs
    <2>1. k \in K /\ k[2] = Theirs /\ k[1] \in family
        BY <1>3, <1>12
    <2>2. /\ \A p \in Refs(k) : <<p, Theirs>> \in main[k].refs
          /\ \A q \in main[k].refs : \E p \in Refs(k) : q = <<p, Theirs>>
        BY <1>4, <2>1
    <2>3. Refs(k) \subseteq family /\ (Required(k[1]) \cap family) \ {k[1]} \subseteq Refs(k)
        BY <1>6, <2>1
    <2> HIDE DEF K
    <2>4. \A p \in main[k].refs : p[1] \in family /\ p[2] = Theirs
        BY <2>2, <2>3
    <2> QED BY <2>1, <2>2, <2>3, <2>4
<1>14. ASSUME NEW t \in family PROVE <<t, Theirs>> \in DOMAIN main \ Ours
    <2>1. <<t, Theirs>> \in K
        OBVIOUS
    <2>2. <<t, Theirs>>[2] = Theirs /\ Theirs # Old
        BY DEF Theirs, Old
    <2>3. main[<<t, Theirs>>].org = "theirs" /\ main[<<t, Theirs>>].at = 0
        BY <1>4, <2>1, <2>2
    <2> HIDE DEF K
    <2> QED BY <1>5, <2>1, <2>3 DEF Ours
<1>15. OthersStay
    BY <1>13, <1>14 DEF OthersStay
<1> HIDE DEF K
<1> QED BY <1>9, <1>11, <1>15 DEF Inv, OnlyOwnedPublished

LEMMA OwnedHolds == Spec => []Inv
BY InitOwned, NextOwned, PTL DEF Spec

\* Another organization's record is never in a change list, but for the AEF
\* records that name no owner: whatever is staged passed the guard, and what the
\* guard looked at cannot have changed when the commit comes.
THEOREM OthersUntouched == Spec => []OnlyOwnedPublished
<1>1. Inv => OnlyOwnedPublished
    BY DEF Inv
<1> QED BY <1>1, OwnedHolds, PTL
-----------------------------------------------------------------------------
(* What a commit publishes *)

\* The row as a commit leaves it.
Pending(r) == [r EXCEPT !.st = "committed"]

LEMMA PendingRow ==
    ASSUME NEW r, Formed(r)
    PROVE  /\ Pending(r).key = r.key /\ Pending(r).act = r.act /\ Pending(r).recs = r.recs
           /\ Pending(r).n = r.n /\ Pending(r).own = r.own /\ Pending(r).st = "committed"
BY StateChanges DEF Pending, States

\* No two rows become one.
LEMMA PendingApart ==
    ASSUME NEW r, NEW s, Formed(r), Formed(s), r.st = s.st, Pending(r) = Pending(s)
    PROVE  r = s
<1>1. r.n = s.n /\ r.key = s.key /\ r.act = s.act /\ r.recs = s.recs /\ r.own = s.own
    BY PendingRow
<1>2. r \in StagedRow /\ s \in StagedRow
    BY DEF Formed
<1> QED BY <1>1, <1>2 DEF StagedRow

\* Of a change list P with puts and dels, the rows C it was made of, the main
\* tables' keys M: what the property says.
Publishes(P, C, M) ==
    /\ DOMAIN P.puts \subseteq UNION {DOMAIN r.recs : r \in C}
    /\ \A r \in C : \A k \in DOMAIN r.recs :
         (\A s \in C \ {r} : k \notin DOMAIN s.recs) =>
            IF r.act = "DELETE" THEN k \in P.dels \ DOMAIN P.puts
            ELSE /\ k \in DOMAIN P.puts /\ P.puts[k] = r.recs[k]
                 /\ k \in M => k \in P.dels

LEMMA CommitPublishes ==
    ASSUME AllFormed, NEW rows, Taken(rows)
    PROVE  Publishes(pushed', {r \in staging' : r.st = "committed"}, DOMAIN main')
<1> DEFINE C == {r \in staging' : r.st = "committed"}
<1>1. /\ rows \in SUBSET staging /\ \A r \in rows : Formed(r) /\ r.st = "staged"
      /\ \A r \in staging : r.st # "committed"
      /\ staging' = (staging \ rows) \cup {Pending(r) : r \in rows}
      /\ main' = main
    BY DEF Taken, AllFormed, Uncommitted, NothingPending, Pending
<1>2. pushed'.dels = Dels(rows) /\ pushed'.puts = Puts(rows)
    BY DEF Taken
<1>3. C = {Pending(r) : r \in rows}
    BY <1>1, PendingRow
<1> HIDE DEF C
<1>4. DOMAIN Puts(rows) \subseteq UNION {DOMAIN r.recs : r \in C}
    <2>1. ASSUME NEW k \in DOMAIN Puts(rows) PROVE \E q \in C : k \in DOMAIN q.recs
        <3>1. PICK r \in rows : k \in DOMAIN r.recs
            BY <1>1, PutsOfRows
        <3>2. Pending(r) \in C /\ Pending(r).recs = r.recs
            BY <1>1, <1>3, PendingRow
        <3> QED BY <3>1, <3>2
    <2> QED BY <2>1
<1>5. ASSUME NEW q \in C, NEW k \in DOMAIN q.recs, \A s \in C \ {q} : k \notin DOMAIN s.recs
      PROVE  IF q.act = "DELETE" THEN k \in Dels(rows) \ DOMAIN Puts(rows)
             ELSE /\ k \in DOMAIN Puts(rows) /\ Puts(rows)[k] = q.recs[k]
                  /\ k \in DOMAIN main => k \in Dels(rows)
    <2>1. PICK r \in rows : q = Pending(r)
        BY <1>3
    <2>2. q.recs = r.recs /\ q.act = r.act
        BY <1>1, <2>1, PendingRow
    <2>3. ASSUME NEW s \in rows, k \in DOMAIN s.recs PROVE s = r
        <3>1. Pending(s) \in C /\ k \in DOMAIN Pending(s).recs
            BY <1>1, <1>3, <2>3, PendingRow
        <3>2. Pending(s) = Pending(r)
            BY <1>5, <2>1, <3>1
        <3> QED BY <1>1, <3>2, PendingApart
    <2>4. CASE r.act = "DELETE"
        <3>1. k = r.key
            BY <1>1, <2>2, <2>4 DEF Formed
        <3>2. k \in Dels(rows)
            BY <2>4, <3>1 DEF Dels
        <3>3. k \notin DOMAIN Puts(rows)
            BY <1>1, <2>3, <2>4, PutsOfRows DEF Writes
        <3> QED BY <2>2, <2>4, <3>2, <3>3
    <2>5. CASE r.act # "DELETE"
        <3>1. r \in rows \cap Writes
            BY <1>1, <2>5 DEF Writes
        <3>2. k \in DOMAIN Puts(rows)
            <4>1. DOMAIN Puts(rows) = UNION {DOMAIN s.recs : s \in rows \cap Writes}
                BY <1>1, PutsOfRows
            <4>2. k \in DOMAIN r.recs
                BY <2>2
            <4> QED BY <3>1, <4>1, <4>2
        <3>3. Puts(rows)[k] = r.recs[k]
            BY <1>1, <2>3, <3>2, PutsOfRows
        <3>4. k \in DOMAIN main => k \in Dels(rows)
            BY <3>2 DEF Dels
        <3> QED BY <2>2, <2>5, <3>2, <3>3, <3>4
    <2> QED BY <2>4, <2>5
<1> QED BY <1>1, <1>2, <1>4, <1>5 DEF Publishes, C

LEMMA NextPublishes ==
    ASSUME Inv, PublishesEdits, [Next]_vars
    PROVE  PublishesEdits'
<1> DEFINE C == {r \in staging : r.st = "committed"}
<1>1. AllFormed /\ (NothingPending => pushed = NoPush)
    BY DEF Inv, AllFormed, PushFormed
<1>2. CASE Creates \/ Updates \/ Destroys \/ ImportXls \/ BatchUpload \/ Transfer
    <2>1. Requested
        BY <1>2, AllRequests DEF Inv
    <2> QED BY <1>1, <2>1 DEF Requested, PublishesEdits
<1>3. CASE Commit
    <2>1. PICK rows : Taken(rows)
        BY <1>3, CommitTakes
    <2>2. Publishes(pushed', {r \in staging' : r.st = "committed"}, DOMAIN main')
        BY <1>1, <2>1, CommitPublishes
    <2> QED BY <2>2 DEF Publishes, PublishesEdits
<1>4. CASE Ingest \/ PushFails
    BY <1>4 DEF Ingest, PushFails, PublishesEdits
<1>5. CASE Retry
    BY <1>1, <1>5 DEF Retry, PublishesEdits
<1>6. CASE Discard \/ UNCHANGED vars
    <2>1. /\ pushed' = pushed /\ main' = main
          /\ {r \in staging' : r.st = "committed"} = C
        BY <1>6 DEF Discard, vars
    <2>2. pushed # NoPush => Publishes(pushed, C, DOMAIN main)
        BY DEF PublishesEdits, Publishes
    <2> HIDE DEF C
    <2>3. pushed' # NoPush =>
              Publishes(pushed', {r \in staging' : r.st = "committed"}, DOMAIN main')
        BY <2>1, <2>2
    <2> QED BY <2>3 DEF PublishesEdits, Publishes
<1> QED BY <1>2, <1>3, <1>4, <1>5, <1>6 DEF Next

\* A change list says of each record what its one row in the commit says, and
\* stays true to the rows until the store has answered.
THEOREM ListIsWhatWasStaged == Spec => []PublishesEdits
<1>1. Init => PublishesEdits
    BY DEF Init, PublishesEdits
<1>2. Inv /\ PublishesEdits /\ [Next]_vars => PublishesEdits'
    BY NextPublishes
<1> QED BY <1>1, <1>2, OwnedHolds, PTL DEF Spec
-----------------------------------------------------------------------------
(* What a delete takes along *)

\* Record x cannot stand without c; issuances under a methodology apart.
Depends(x, c) ==
    /\ x \in DOMAIN main /\ c \in main[x].refs /\ c[1] \in Required(x[1])
    /\ ~ (c[1] = "project_methodology" /\ x[1] = "issuance")

\* The records of S and no others cannot stand without those of S.
Closed(S) == \A c \in S : \A x : Depends(x, c) => x \in S

\* The tables of the records that depend on one.
LEMMA DependentTables ==
    ASSUME AllFormed, NEW x, NEW c, Depends(x, c)
    PROVE  \/ c[1] = "project" /\ x[1] \in OfProject
           \/ c[1] = "methodology" /\ x[1] = "project_methodology"
           \/ c[1] = "stakeholder" /\ x[1] = "stakeholder_projects"
           \/ c[1] = "verification" /\ x[1] = "issuance"
           \/ c[1] = "issuance" /\ x[1] = "unit"
           \/ c[1] = "label" /\ x[1] = "unit_label"
           \/ c[1] = "unit" /\ x[1] = "unit_label"
<1>1. x[1] \in Tables
    BY DEF Depends, AllFormed, MainLinked, AllKeys
<1> QED BY <1>1, RequiredChildren DEF Depends

LEMMA DependentIsChild ==
    ASSUME NEW P, NEW c \in P, NEW x, Depends(x, c)
    PROVE  x \in ChildrenIn(x[1], P)
BY DEF Depends, ChildrenIn

LEMMA ChildTable ==
    ASSUME NEW t, NEW P
    PROVE  \A x \in ChildrenIn(t, P) : x[1] = t
BY DEF ChildrenIn

LEMMA UnitTree ==
    ASSUME AllFormed, NEW U, \A u \in U : u[1] = "unit"
    PROVE  Closed(U \cup UnitChildren(U))
<1>1. \A x \in UnitChildren(U) : x[1] = "unit_label"
    BY ChildTable DEF UnitChildren
<1>2. ASSUME NEW c \in U, NEW x, Depends(x, c) PROVE x \in UnitChildren(U)
    <2>1. x[1] = "unit_label"
        BY <1>2, DependentTables
    <2> QED BY <1>2, <2>1, DependentIsChild DEF UnitChildren
<1>3. ASSUME NEW c \in UnitChildren(U), NEW x, Depends(x, c) PROVE FALSE
    BY <1>1, <1>3, DependentTables
<1> QED BY <1>2, <1>3 DEF Closed

LEMMA IssuanceTree ==
    ASSUME AllFormed, NEW I, \A i \in I : i[1] = "issuance"
    PROVE  Closed(I \cup IssuanceChildren(I))
<1> DEFINE U == ChildrenIn("unit", I)
<1>1. IssuanceChildren(I) = U \cup UnitChildren(U)
    BY DEF IssuanceChildren
<1>2. Closed(U \cup UnitChildren(U))
    BY ChildTable, UnitTree
<1>3. ASSUME NEW c \in I, NEW x, Depends(x, c) PROVE x \in U
    <2>1. x[1] = "unit"
        BY <1>3, DependentTables
    <2> QED BY <1>3, <2>1, DependentIsChild
<1> HIDE DEF U
<1> QED BY <1>1, <1>2, <1>3 DEF Closed

LEMMA VerificationTree ==
    ASSUME AllFormed, NEW V, \A v \in V : v[1] = "verification"
    PROVE  Closed(V \cup VerificationChildren(V))
<1> DEFINE I == ChildrenIn("issuance", V)
<1>1. VerificationChildren(V) = I \cup IssuanceChildren(I)
    BY DEF VerificationChildren
<1>2. Closed(I \cup IssuanceChildren(I))
    BY ChildTable, IssuanceTree
<1>3. ASSUME NEW c \in V, NEW x, Depends(x, c) PROVE x \in I
    <2>1. x[1] = "issuance"
        BY <1>3, DependentTables
    <2> QED BY <1>3, <2>1, DependentIsChild
<1> HIDE DEF I
<1> QED BY <1>1, <1>2, <1>3 DEF Closed

LEMMA ProjectTree ==
    ASSUME AllFormed, NEW p, p[1] = "project"
    PROVE  Closed({p} \cup ProjectChildren(p))
<1> DEFINE V == ChildrenIn("verification", {p})
           kinds == {"location", "estimation", "rating", "co_benefit", "validation",
                     "project_methodology", "stakeholder_projects"}
           direct == UNION {ChildrenIn(t, {p}) : t \in kinds}
           tree == V \cup VerificationChildren(V)
<1>1. ProjectChildren(p) = tree \cup direct
    BY DEF ProjectChildren
<1>2. Closed(tree)
    BY ChildTable, VerificationTree
<1>3. \A x \in direct : x[1] \in kinds
    BY ChildTable
<1>4. \A t \in kinds : ChildrenIn(t, {p}) \subseteq direct
    OBVIOUS
<1>5. OfProject = kinds \cup {"verification"}
    BY DEF OfProject
<1>6. ASSUME NEW x, Depends(x, p) PROVE x \in tree \cup direct
    <2>1. x[1] \in OfProject /\ x \in ChildrenIn(x[1], {p})
        BY <1>6, DependentTables, DependentIsChild
    <2> HIDE DEF direct, kinds
    <2> QED BY <1>4, <1>5, <2>1
<1>7. ASSUME NEW c \in direct, NEW x, Depends(x, c) PROVE FALSE
    <2>1. c[1] \in kinds
        BY <1>3
    <2> QED BY <1>7, <2>1, DependentTables
<1> HIDE DEF tree, direct
<1> QED BY <1>1, <1>2, <1>6, <1>7 DEF Closed

\* What depends on a record that nothing refers to has a delete staged.
LEMMA UnreferencedStands ==
    ASSUME AllFormed, NEW k, Unreferenced(k), NEW x, Depends(x, k),
           k[1] \notin {"project", "verification", "issuance", "unit"}
    PROVE  x = k \/ x \in PendingDeletes
<1>1. \/ k[1] = "methodology" /\ x[1] = "project_methodology"
      \/ k[1] = "stakeholder" /\ x[1] = "stakeholder_projects"
      \/ k[1] = "label" /\ x[1] = "unit_label"
    BY DependentTables
<1>2. k[1] \in DOMAIN References /\ x[1] \in References[k[1]]
    BY <1>1 DEF References
<1>3. x \in DOMAIN main /\ k \in main[x].refs
    BY DEF Depends
<1> QED BY <1>2, <1>3 DEF Unreferenced

-----------------------------------------------------------------------------
(* The deletes that a request adds *)

Writing == \A r \in staging' : r \in staging \/ r.act # "DELETE"

LEMMA WritingDeletesNothing ==
    ASSUME Writing
    PROVE  PendingDeletes' \subseteq PendingDeletes
BY DEF Writing, PendingDeletes, Uncommitted

LEMMA StagesWriting ==
    ASSUME NEW n, NEW k, NEW act, NEW recs, NEW own, act # "DELETE",
           Stages({Row(n, k, act, recs, own)})
    PROVE  Writing
BY DEF Stages, Writing, Row

LEMMA RestagesWriting ==
    ASSUME NEW n, NEW k, NEW act, NEW recs, NEW own, act # "DELETE"
    PROVE  LET row == Row(n, k, act, recs, own)
           IN  /\ Restages(Upserted(staging, row)) => Writing
               /\ \A pending : Restages(Consolidated(pending, row)) => Writing
<1> DEFINE row == Row(n, k, act, recs, own)
<1>1. \A m, st : [row EXCEPT !.n = m].act = act /\ [row EXCEPT !.n = m, !.st = st].act = act
    BY DEF Row
<1>2. row.act = act
    BY DEF Row
<1> HIDE DEF row
<1>3. Restages(Upserted(staging, row)) => Writing
    <2> DEFINE same == {r \in staging : r.own /\ r.key = row.key}
               put == {[row EXCEPT !.n = r.n, !.st = r.st] : r \in same}
    <2>1. Upserted(staging, row) = IF same = {} THEN staging \cup {row}
                                             ELSE (staging \ same) \cup put
        BY DEF Upserted
    <2>2. \A q \in put : q.act = act
        <3> TAKE q \in put
        <3>1. PICK r \in same : q = [row EXCEPT !.n = r.n, !.st = r.st]
            OBVIOUS
        <3> HIDE DEF same, put
        <3> QED BY <1>1, <3>1
    <2> HIDE DEF same, put
    <2>3. \A q \in Upserted(staging, row) : q \in staging \/ q.act = act
        BY <1>2, <2>1, <2>2
    <2> QED BY <2>3 DEF Restages, Writing
<1>4. \A pending : Restages(Consolidated(pending, row)) => Writing
    BY <1>1, <1>2 DEF Restages, Consolidated, Writing
<1> QED BY <1>3, <1>4 DEF row

LEMMA CreatesWrite ==
    ASSUME Creates
    PROVE  Writing
<1>1. ASSUME NEW t, NEW checked, NEW own, Create(t, checked, own) PROVE Writing
    BY <1>1, StagesWriting DEF Create
<1>2. ASSUME NEW t, NEW own, Join(t, own) PROVE Writing
    BY <1>2, StagesWriting DEF Join
<1> QED BY <1>1, <1>2
       DEF Creates, CreateProgram, CreateMethodology, CreateLabel, CreateStakeholder, CreateProject,
           CreateLocation, CreateEstimation, CreateRating, CreateCoBenefit,
           CreateValidation, CreateVerification, CreateProjectMethodology,
           CreateStakeholderProject, CreateIssuance, CreateUnit, CreateUnitLabel,
           CreateAefT1, CreateAefT2, CreateAefT3, CreateAefT4, CreateAefT5

LEMMA UpdatesWrite ==
    ASSUME Updates
    PROVE  Writing
<1>1. ASSUME NEW t, NEW checked, NEW stagedToo, Update(t, checked, stagedToo) PROVE Writing
    BY <1>1, StagesWriting DEF Update
<1>2. ASSUME NEW t, NEW own, Rejoin(t, own) PROVE Writing
    BY <1>2, StagesWriting DEF Rejoin
<1>3. ASSUME SplitUnit PROVE Writing
    BY <1>3, StagesWriting DEF SplitUnit
<1> QED BY <1>1, <1>2, <1>3
       DEF Updates, UpdateProgram, UpdateMethodology, UpdateLabel, UpdateStakeholder,
           UpdateProject, UpdateLocation, UpdateEstimation, UpdateRating, UpdateCoBenefit,
           UpdateValidation, UpdateVerification, UpdateProjectMethodology,
           UpdateStakeholderProject, UpdateIssuance, UpdateUnit, UpdateUnitLabel,
           UpdateAefT1, UpdateAefT2, UpdateAefT3, UpdateAefT4, UpdateAefT5

LEMMA ImportsWrite ==
    ASSUME ImportXls \/ BatchUpload \/ Transfer
    PROVE  Writing
<1>1. CASE ImportXls
    <2>1. PICK k, R, act :
              /\ act # "DELETE"
              /\ Restages(Upserted(staging, Row(Edit, k, act, Put(k, R, Edit), TRUE)))
        BY <1>1 DEF ImportXls
    <2> QED BY <2>1, RestagesWriting
<1>2. CASE BatchUpload
    <2>1. PICK k, R, act, pending :
              /\ act # "DELETE"
              /\ \/ Restages(Upserted(staging, Row(Edit, k, act, Put(k, R, Edit), TRUE)))
                 \/ Restages(Consolidated(pending, Row(Edit, k, act, Put(k, R, Edit), TRUE)))
        BY <1>2 DEF BatchUpload
    <2> QED BY <2>1, RestagesWriting
<1>3. CASE Transfer
    <2>1. PICK k, refs :
              Stages({[Row(Edit, k, "UPDATE", Put(k, refs, Edit), TRUE) EXCEPT !.st = "transfer"]})
        BY <1>3 DEF Transfer
    <2>2. [Row(Edit, k, "UPDATE", Put(k, refs, Edit), TRUE) EXCEPT !.st = "transfer"].act = "UPDATE"
        BY DEF Row
    <2> QED BY <2>1, <2>2 DEF Stages, Writing
<1> QED BY <1>1, <1>2, <1>3

\* A delete request's rows.
LEMMA DeleteStages ==
    ASSUME NEW k, NEW children, NEW own, Delete(k, children, own)
    PROVE  /\ PendingDeletes' = PendingDeletes \cup children \cup {k}
           /\ main' = main
<1> DEFINE del(x) == Row(Edit, x, "DELETE", Put(x, {}, Edit), own)
           rows == {del(x) : x \in children \cup {k}}
<1>1. staging' = staging \cup rows /\ main' = main
    BY DEF Delete, Stages
<1>2. \A x : del(x).key = x /\ del(x).act = "DELETE" /\ del(x).st = "staged"
    BY DEF Row
<1> HIDE DEF del
<1>3. \A x \in children \cup {k} : \E r \in rows : r.key = x
    BY <1>2
<1>4. \A r \in rows : r.key \in children \cup {k} /\ r.act = "DELETE" /\ r.st = "staged"
    BY <1>2
<1> HIDE DEF rows
<1>5. children \cup {k} \subseteq PendingDeletes'
    BY <1>1, <1>3, <1>4 DEF PendingDeletes, Uncommitted
<1>6. PendingDeletes \subseteq PendingDeletes'
    BY <1>1 DEF PendingDeletes, Uncommitted
<1>7. PendingDeletes' \subseteq PendingDeletes \cup children \cup {k}
    BY <1>1, <1>4 DEF PendingDeletes, Uncommitted
<1> QED BY <1>1, <1>5, <1>6, <1>7

\* What the property asks of a request.
NoOrphan ==
    \A k \in PendingDeletes' \ PendingDeletes : \A x : Depends(x, k) => x \in PendingDeletes'

LEMMA CascadeNoOrphan ==
    ASSUME NEW k, NEW children, NEW own, Delete(k, children, own), Closed({k} \cup children)
    PROVE  NoOrphan
BY DeleteStages DEF Closed, NoOrphan

LEMMA DestroyNoOrphan ==
    ASSUME AllFormed, NEW t, NEW own, Destroy(t, own),
           t \notin {"project", "verification", "issuance", "unit"}
    PROVE  NoOrphan
<1>1. PICK k \in KeysOf(t) : Unreferenced(k) /\ Delete(k, {}, own)
    BY DEF Destroy
<1>2. k[1] = t
    BY DEF KeysOf
<1>3. PendingDeletes' = PendingDeletes \cup {k}
    <2>1. PendingDeletes' = PendingDeletes \cup {} \cup {k}
        BY <1>1, DeleteStages
    <2> QED BY <2>1
<1> QED BY <1>1, <1>2, <1>3, UnreferencedStands DEF NoOrphan

LEMMA DestroyAefNoOrphan ==
    ASSUME AllFormed, NEW t \in ReferencingAef, DestroyAef(t)
    PROVE  NoOrphan
<1>1. PICK k \in KeysOf(t) : Delete(k, {}, FALSE)
    BY DEF DestroyAef
<1>2. k[1] = t
    BY DEF KeysOf
<1>3. ASSUME NEW x, Depends(x, k) PROVE FALSE
    BY <1>2, <1>3, DependentTables DEF ReferencingAef
<1>4. PendingDeletes' = PendingDeletes \cup {k}
    <2>1. PendingDeletes' = PendingDeletes \cup {} \cup {k}
        BY <1>1, DeleteStages
    <2> QED BY <2>1
<1> QED BY <1>3, <1>4 DEF NoOrphan

LEMMA CascadesNoOrphan ==
    ASSUME AllFormed,
           DestroyProject \/ DestroyVerification \/ DestroyIssuance \/ DestroyUnit
    PROVE  NoOrphan
<1>1. CASE DestroyProject
    <2>1. PICK p \in KeysOf("project") : Delete(p, ProjectChildren(p), FALSE)
        BY <1>1 DEF DestroyProject
    <2>2. p[1] = "project"
        BY DEF KeysOf
    <2> QED BY <2>1, <2>2, ProjectTree, CascadeNoOrphan
<1>2. CASE DestroyVerification
    <2>1. PICK v \in KeysOf("verification") : Delete(v, VerificationChildren({v}), FALSE)
        BY <1>2 DEF DestroyVerification
    <2>2. \A c \in {v} : c[1] = "verification"
        BY DEF KeysOf
    <2> QED BY <2>1, <2>2, VerificationTree, CascadeNoOrphan
<1>3. CASE DestroyIssuance
    <2>1. PICK i \in KeysOf("issuance") : Delete(i, IssuanceChildren({i}), FALSE)
        BY <1>3 DEF DestroyIssuance
    <2>2. \A c \in {i} : c[1] = "issuance"
        BY DEF KeysOf
    <2> QED BY <2>1, <2>2, IssuanceTree, CascadeNoOrphan
<1>4. CASE DestroyUnit
    <2>1. PICK u \in KeysOf("unit") : Delete(u, UnitChildren({u}), FALSE)
        BY <1>4 DEF DestroyUnit
    <2>2. \A c \in {u} : c[1] = "unit"
        BY DEF KeysOf
    <2> QED BY <2>1, <2>2, UnitTree, CascadeNoOrphan
<1> QED BY <1>1, <1>2, <1>3, <1>4

LEMMA DestroysNoOrphan ==
    ASSUME AllFormed, Destroys
    PROVE  NoOrphan
<1>1. CASE DestroyProject \/ DestroyVerification \/ DestroyIssuance \/ DestroyUnit
    BY <1>1, CascadesNoOrphan
<1>2. CASE DestroyAefT2 \/ DestroyAefT3 \/ DestroyAefT4 \/ DestroyAefT5
    BY <1>2, DestroyAefNoOrphan
       DEF DestroyAefT2, DestroyAefT3, DestroyAefT4, DestroyAefT5, ReferencingAef
<1>3. CASE \/ DestroyProgram \/ DestroyMethodology \/ DestroyLabel \/ DestroyStakeholder
           \/ DestroyLocation \/ DestroyEstimation \/ DestroyRating
    BY <1>3, DestroyNoOrphan
       DEF DestroyProgram, DestroyMethodology, DestroyLabel, DestroyStakeholder,
           DestroyLocation, DestroyEstimation, DestroyRating
<1>4. CASE \/ DestroyCoBenefit \/ DestroyValidation \/ DestroyProjectMethodology
           \/ DestroyStakeholderProject \/ DestroyUnitLabel \/ DestroyAefT1
    BY <1>4, DestroyNoOrphan
       DEF DestroyCoBenefit, DestroyValidation, DestroyProjectMethodology,
           DestroyStakeholderProject, DestroyUnitLabel, DestroyAefT1
<1> QED BY <1>1, <1>2, <1>3, <1>4 DEF Destroys

\* No request stages a delete and leaves a record behind that cannot stand
\* without the one it deletes: the cascades follow the references to the last
\* table, and where there is no cascade the reference check stops the request.
THEOREM NoOrphansLeft == Spec => DeletesLeaveNoOrphan
<1> DEFINE A == used'.edits # used.edits =>
         \A k \in PendingDeletes' \ PendingDeletes : \A x \in DOMAIN main :
            /\ k \in main[x].refs
            /\ k[1] \in Required(x[1])
            /\ ~(k[1] = "project_methodology" /\ x[1] = "issuance")
            => x \in PendingDeletes'
<1>1. ASSUME NoOrphan PROVE A
    BY <1>1 DEF NoOrphan, Depends
<1>2. ASSUME Inv, Next PROVE A
    <2>1. AllFormed /\ used \in [edits : 0 .. MaxEdits, commits : 0 .. MaxCommits]
        BY <1>2 DEF Inv, AllFormed
    <2>2. CASE Creates \/ Updates \/ ImportXls \/ BatchUpload \/ Transfer
        <3>1. PendingDeletes' \subseteq PendingDeletes
            BY <2>2, CreatesWrite, UpdatesWrite, ImportsWrite, WritingDeletesNothing
        <3> QED BY <3>1
    <2>3. CASE Destroys
        BY <1>1, <2>1, <2>3, DestroysNoOrphan
    <2>4. CASE Discard \/ Commit \/ Ingest \/ PushFails \/ Retry
        <3>1. used'.edits = used.edits
            BY <2>1, <2>4 DEF Discard, Commit, Ingest, PushFails, Retry
        <3> QED BY <3>1
    <2> QED BY <1>2, <2>2, <2>3, <2>4 DEF Next
<1>3. Spec => [][A]_vars
    BY <1>2, OwnedHolds, PTL DEF Spec
<1> QED BY <1>3 DEF DeletesLeaveNoOrphan
\* The rows and the change list stay of their types.
THEOREM RecordsTypeCorrect == Spec => []TypeOK
<1>1. Inv => TypeOK
    <2>1. ASSUME Inv PROVE AllFormed
        BY <2>1 DEF Inv
    <2>2. ASSUME AllFormed, NEW r \in staging
          PROVE  /\ r.n \in 1 .. MaxEdits /\ r.key \in AllKeys
                 /\ r.act \in {"INSERT", "UPDATE", "DELETE"}
                 /\ r.key \in DOMAIN r.recs /\ DOMAIN r.recs \subseteq AllKeys
                 /\ \A k \in DOMAIN r.recs : r.recs[k] \in Contents
                 /\ r.own \in BOOLEAN
                 /\ r.st \in {"staged", "committed", "failed", "transfer"}
        BY <2>2, RowKeys DEF AllFormed, Formed, StagedRow, Acts, States
    <2>3. ASSUME AllFormed, pushed # NoPush
          PROVE  pushed.dels \subseteq AllKeys /\ DOMAIN pushed.puts \subseteq AllKeys
        BY <2>3 DEF AllFormed, PushFormed
    <2> QED BY <2>1, <2>2, <2>3 DEF TypeOK, AllFormed, MainLinked
<1> QED BY <1>1, OwnedHolds, PTL
=============================================================================
