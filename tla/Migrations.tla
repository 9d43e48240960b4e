------------------------------ MODULE Migrations ------------------------------
(***************************************************************************)
(* The migrations of the two databases, statement by statement             *)
(* (database/migrations, database/v2/migrations): what each creates, drops *)
(* or needs, and what a failing statement does to the rest of its          *)
(* migration.  Of a table's columns only those that some migration adds,   *)
(* drops or renames are named, the others belong to the table.             *)
(***************************************************************************)
EXTENDS Integers, Sequences

Dialects == {"sqlite", "mysql"}

\* A statement: what it does to the object what = <<kind, table, name>> (a
\* table's name is the table), the columns a new table has, the column it
\* replaces, how its error is taken, and the dialects it runs on.
Statement(do, kind, table, name) ==
    [do |-> do, what |-> <<kind, table, name>>, cols |-> {}, old |-> <<>>,
     mode |-> "await", on |-> Dialects]

\* createTable adds IF NOT EXISTS; CREATE VIRTUAL TABLE and CREATE TRIGGER fail.
Table(t) == Statement("createIfMissing", "table", t, t)
TableOf(t, cols) == [Table(t) EXCEPT !.cols = {<<"column", t, c>> : c \in cols}]
Virtual(t) == Statement("create", "table", t, t)
Trigger(t, n) == Statement("create", "trigger", t, n)
Column(t, c) == Statement("create", "column", t, c)
Index(t, n) == Statement("create", "index", t, n)
Indexes(t, ns) == [i \in DOMAIN ns |-> Index(t, ns[i])]

\* dropTable adds IF EXISTS; SQLite's removeColumn rebuilds the table, and its
\* indexes and triggers go with the old one.
Drop(t) == Statement("dropIfThere", "table", t, t)
DropRaw(t) == Statement("drop", "table", t, t)
DropTrigger(t, n) == Statement("dropIfThere", "trigger", t, n)
DropColumn(t, c) == Statement("rebuild", "column", t, c)
DropIndex(t, n) == Statement("dropIfThere", "index", t, n)

\* Renames the old column, or adds the new one, where neither is there yet.
Ensure(t, old, new) ==
    [Statement("ensure", "column", t, new) EXCEPT !.old = <<"column", t, old>>]

\* Reads and writes the rows of a table.
Data(t) == Statement("data", "table", t, t)

Sqlite(s) == [s EXCEPT !.on = {"sqlite"}]
Mysql(s) == [s EXCEPT !.on = {"mysql"}]
Each(F(_), ss) == [i \in DOMAIN ss |-> F(ss[i])]

\* Errors: all of them caught; those of something that is there already caught;
\* a member of a Promise.all, whose other members run on; a promise that nobody
\* waits for.
Caught(s) == [s EXCEPT !.mode = "caught"]
IfMissing(s) == [s EXCEPT !.mode = "ifMissing"]
Together(ss) ==
    [i \in DOMAIN ss |-> [ss[i] EXCEPT !.mode = IF i = Len(ss) THEN "last" ELSE "all"]]
Loose(s) == [s EXCEPT !.mode = "loose"]

-----------------------------------------------------------------------------
(* V1 *)

CreateProjectsTable == <<Table("projects")>>
CreateIssuancesTable == <<Table("issuances")>>
CreateUnitsTable == <<TableOf("units", {"serialNumberPattern"})>>
CreateLabelsTable == <<Table("labels")>>
CreateRelatedProjectsTable == <<Table("relatedProjects")>>
CreateProjectRatingsTable == <<Table("projectRatings")>>
CreateCoBenefitsTable == <<Table("coBenefits")>>
CreateProjectLocationTable == <<Table("projectLocations")>>
CreateStagingTable == <<Table("staging")>>
CreateLabelUnitsTable == <<Table("label_unit")>>
CreateSimulatorTable == <<Table("simulator")>>
CreateOrganizationTable == <<Table("organizations")>>
CreateEstimationTable == <<Table("estimations")>>
CreateAuditTable == <<Table("audit")>>
CreateMetaTable == <<Table("meta")>>
CreateGoveranceTable == <<Table("governance")>>

InitFtsModule == Each(Sqlite, <<Virtual("projects_fts"), Virtual("units_fts")>>)
CreateProjectTriggers ==
    Each(Sqlite, <<Trigger("projects", "insert"), Trigger("projects", "delete"),
                   Trigger("projects", "update")>>)
CreateUnitTriggers ==
    Each(Sqlite, <<Trigger("units", "insert"), Trigger("units", "delete"),
                   Trigger("units", "update")>>)

AddOrgUidIndex == Each(Loose, <<Index("projects", "orgUid"), Index("units", "orgUid")>>)
AddCommentColumnToDataModelTables == <<Loose(Column("audit", "comment"))>>
AddSerialNumberFields ==
    Together(<<Column("units", "unitBlockStart"), Column("units", "unitBlockEnd"),
               Column("units", "unitCount"), DropColumn("units", "serialNumberPattern")>>)
AddDescriptionFieldToProjects ==
    <<Column("projects", "description")>> \o
    Each(Sqlite, Together(<<DropRaw("projects_fts"), Virtual("projects_fts")>>))
RepopulateVirtualTables == <<Sqlite(Data("projects_fts"))>>
AddAuthorColumnToAuditTable == <<Loose(Column("audit", "author"))>>
CreateFileStore ==
    Together(<<Column("organizations", "fileStoreId"), Column("projectLocations", "fileId"),
               Table("fileStore")>>)
AddOptionalMethodology2FieldToProject == <<Loose(Column("projects", "methodology2"))>>
AddFiltStoreSubscribedColumnToProject ==
    <<Loose(Column("organizations", "fileStoreSubscribed"))>>
PopulateUnitsFTS ==
    Each(Sqlite, <<Drop("units_fts"), Virtual("units_fts"), Data("units_fts")>>)
    \o CreateUnitTriggers

\* Every table is emptied by a promise that nobody waits for.
ResetDBForNewSingletons ==
    Each(Sqlite,
      <<DropTrigger("projects", "delete"), DropTrigger("projects", "insert"),
        DropTrigger("projects", "update"), DropTrigger("units", "delete"),
        DropTrigger("units", "insert"), DropTrigger("units", "update")>>
      \o Each(Loose, Each(Data,
           <<"audit", "coBenefits", "estimations", "fileStore", "governance", "issuances",
             "label_unit", "labels", "meta", "organizations", "projectLocations",
             "projectRatings", "projects", "relatedProjects", "simulator", "staging",
             "units">>))
      \o <<Drop("units_fts"), Virtual("units_fts"), Data("units_fts")>>
      \o CreateUnitTriggers
      \o <<Drop("projects_fts"), Virtual("projects_fts")>>
      \o CreateProjectTriggers)

AddIsTransferColumn == <<Column("staging", "isTransfer")>>
AddOrgMetadata == <<Loose(Column("organizations", "metadata"))>>
OrgSyncStatus == <<Loose(Column("organizations", "synced"))>>
OrgSyncRemaining == <<Loose(Column("organizations", "sync_remaining"))>>
AddGenerationIndexToAudit == <<Loose(Column("audit", "generation"))>>
AddDataModelVersionStoreToOrganizationTable ==
    Each(IfMissing, <<Column("organizations", "dataModelVersionStoreId"),
                      Column("organizations", "dataModelVersionStoreHash")>>)
AddAuditSyncIndexes ==
    Each(IfMissing, Indexes("audit", <<"audit_registry_id_generation", "audit_org_uid_generation">>))
AddAuditListIndex == Each(IfMissing, Indexes("audit", <<"audit_org_uid_onchain_timestamp">>))

V1Ups ==
    <<CreateProjectsTable, CreateIssuancesTable, CreateUnitsTable, CreateLabelsTable,
      CreateRelatedProjectsTable, CreateProjectRatingsTable, CreateCoBenefitsTable,
      CreateProjectLocationTable, CreateStagingTable, CreateLabelUnitsTable,
      CreateLabelUnitsTable, CreateSimulatorTable, CreateOrganizationTable,
      CreateEstimationTable, CreateAuditTable, CreateMetaTable, InitFtsModule,
      CreateProjectTriggers, CreateUnitTriggers, AddOrgUidIndex, CreateGoveranceTable,
      AddCommentColumnToDataModelTables, AddSerialNumberFields,
      AddDescriptionFieldToProjects, RepopulateVirtualTables, AddAuthorColumnToAuditTable,
      CreateFileStore, AddOptionalMethodology2FieldToProject,
      AddFiltStoreSubscribedColumnToProject, PopulateUnitsFTS, ResetDBForNewSingletons,
      AddIsTransferColumn, AddOrgMetadata, OrgSyncStatus, OrgSyncRemaining,
      AddGenerationIndexToAudit, AddDataModelVersionStoreToOrganizationTable,
      AddAuditSyncIndexes, AddAuditListIndex>>

\* A number stands for each recorded name; two names are recorded for two
\* migrations each, the label units' and the project locations'.
V1Name(i) == CASE i = 11 -> 10 [] i = 17 -> 8 [] OTHER -> i
V1Migrations == [i \in DOMAIN V1Ups |-> [name |-> V1Name(i), up |-> V1Ups[i]]]
SerialNumbers == 23

-----------------------------------------------------------------------------
(* V2 *)

CreateStagingV2 == <<Table("staging")>>
CreateAuditV2 == <<Table("audit")>>
CreateOrganizationsV2 == <<Table("organizations")>>
CreateMetaV2 == <<Table("meta")>>
CreateSimulatorV2 == <<Table("simulator")>>
CreateMethodologyV2 == <<Table("methodology")>>
CreateProgramV2 == <<Table("program")>> \o Indexes("program", <<"program_name",
    "program_registry", "program_registry_activity_id">>)
CreateProjectV2 == <<Table("project")>> \o Indexes("project", <<"org_uid",
    "project_registry_name", "project_id", "project_name", "project_sector", "project_type",
    "project_status", "cad_trust_program_id">>)
CreateValidationV2 == <<Table("validation")>> \o Indexes("validation", <<"validation_id",
    "validation_type", "validation_body", "validation_date", "cad_trust_project_id">>)
CreateVerificationV2 == <<Table("verification")>> \o Indexes("verification",
    <<"verification_id", "verification_body", "verification_start_date",
    "verification_end_date", "cad_trust_project_id", "cad_trust_validation_id">>)
CreateIssuanceV2 == <<TableOf("issuance", {"cad_trust_project_methodology_id"})>> \o
    Indexes("issuance", <<"issuance_id", "issuance_date", "cad_trust_verification_id",
    "cad_trust_project_methodology_id", "cad_trust_location_id">>)
CreateUnitV2 == <<Table("unit")>> \o Indexes("unit", <<"org_uid", "unit_serial_id",
    "unit_vintage_year", "unit_status", "cad_trust_issuance_id">>)
CreateLocationV2 == <<Table("location")>>
CreateEstimationV2 == <<Table("estimation")>> \o Indexes("estimation",
    <<"estimation_start_date", "estimation_end_date", "cad_trust_project_id">>)
CreateRatingV2 == <<Table("rating")>> \o Indexes("rating", <<"rating_type",
    "cad_trust_project_id">>)
CreateCoBenefitV2 == <<Table("co_benefit")>> \o Indexes("co_benefit", <<"co_benefit_id",
    "cad_trust_project_id">>)
CreateProjectMethodologyV2 == <<Table("project_methodology")>> \o Indexes("project_methodology",
    <<"cad_trust_project_id", "cad_trust_methodology_id", "project_methodology_date">>)
CreateStakeholderV2 == <<Table("stakeholder")>> \o Indexes("stakeholder", <<"stakeholder_name",
    "stakeholder_type">>)
CreateLabelV2 == <<Table("label")>> \o Indexes("label", <<"label_name", "label_type",
    "label_date">>)
CreateUnitLabelV2 == <<Table("unit_label")>> \o Indexes("unit_label", <<"cad_trust_label_id",
    "cad_trust_unit_id", "label_unit_date">>)
CreateAefT1SubmissionV2 == <<Table("aef_t1_submission")>> \o Indexes("aef_t1_submission",
    <<"aef_t1_submission_party", "aef_t1_submission_version", "aef_t1_submission_report_year",
    "aef_t1_submission_submission_date">>)
CreateAefT3ActionsV2 == <<TableOf("aef_t3_actions",
    {"aef_t3_actions_cooperative_approach_id"})>> \o Indexes("aef_t3_actions",
    <<"aef_t3_actions_date", "aef_t3_actions_type", "aef_t3_actions_cooperative_approach_id",
    "aef_t3_actions_authorization_id", "aef_t3_actions_vintage_year",
    "cad_trust_aef_t1_submission_id", "cad_trust_unit_id", "cad_trust_project_id",
    "cad_trust_aef_t2_authorizations_id">>)
CreateAefT4HoldingsV2 == <<TableOf("aef_t4_holdings",
    {"aef_t4_holdings_cooperative_approach_id"})>> \o Indexes("aef_t4_holdings",
    <<"aef_t4_holdings_cooperative_approach_id", "aef_t4_holdings_authorization_id",
    "aef_t4_holdings_vintage_year", "cad_trust_aef_t1_submission_id", "cad_trust_unit_id",
    "cad_trust_project_id", "cad_trust_aef_t2_authorizations_id">>)
CreateFilestoreV2 == <<Table("file_store")>>

CreateGovernanceV2 == <<Sqlite(Table("governance"))>>
CreateStakeholderProjectsV2 ==
    <<Table("stakeholder_projects")>> \o
    Indexes("stakeholder_projects", <<"cad_trust_stakeholder_id", "cad_trust_project_id",
                                      "stakeholder_projects_unique_constraint">>)
CreateAefT5AuthorizedEntitiesV2 ==
    <<Table("aef_t5_authorized_entities")>> \o
    Each(Caught, Indexes("aef_t5_authorized_entities",
      <<"auth_date", "name", "incorp_country", "cad_trust_aef_t1_submission_id",
        "cad_trust_unit_id", "cad_trust_project_id">>))
CreateAefT2AuthorizationsV2 ==
    <<Table("aef_t2_authorizations")>> \o
    Each(Caught, Indexes("aef_t2_authorizations",
      <<"date", "coop_approach_id", "sector", "activity_type", "cad_trust_aef_t1_submission_id",
        "cad_trust_unit_id", "cad_trust_project_id", "cad_trust_aef_t5_authorized_entities_id">>))

CreateFts5TablesV2 ==
    Each(Sqlite, <<Virtual("projects_v2_fts"), Virtual("units_v2_fts"),
                   Data("projects_v2_fts"), Data("units_v2_fts")>>)
CreateFts5TriggersV2 ==
    Each(Sqlite,
      <<DropTrigger("project", "insert"), DropTrigger("project", "update"),
        DropTrigger("project", "delete"), DropTrigger("unit", "insert"),
        DropTrigger("unit", "update"), DropTrigger("unit", "delete"),
        Trigger("project", "insert"), Trigger("project", "update"), Trigger("project", "delete"),
        Trigger("unit", "insert"), Trigger("unit", "update"), Trigger("unit", "delete")>>)

RenameIssuanceMethodologyToProjectMethodologyV2 ==
    <<Ensure("issuance", "cad_trust_methodology_id", "cad_trust_project_methodology_id")>>
FixLongAefIndexNamesV2 ==
    Each(Caught,
      <<DropIndex("aef_t5_authorized_entities", "long_auth_date"),
        Index("aef_t5_authorized_entities", "auth_date"),
        DropIndex("aef_t5_authorized_entities", "long_incorp_country"),
        Index("aef_t5_authorized_entities", "incorp_country"),
        DropIndex("aef_t2_authorizations", "long_coop_approach_id"),
        Index("aef_t2_authorizations", "coop_approach_id")>>)
DropGovernanceFromMirrorV2 == <<Mysql(Drop("governance"))>>

\* Neither the column nor the index is guarded.
AddOrgUidToStandaloneTablesV2 ==
    <<Column("methodology", "org_uid"), Index("methodology", "methodology_org_uid"),
      Column("program", "org_uid"), Index("program", "program_org_uid"),
      Column("stakeholder", "org_uid"), Index("stakeholder", "stakeholder_org_uid"),
      Column("label", "org_uid"), Index("label", "label_org_uid"),
      Column("aef_t1_submission", "org_uid"), Index("aef_t1_submission", "aef_t1_submission_org_uid")>>
AddAuditSyncIndexesV2 ==
    Each(IfMissing, Indexes("audit", <<"audit_v2_registry_id_generation", "audit_v2_org_uid_generation">>))
AddAuditListIndexV2 == Each(IfMissing, Indexes("audit", <<"audit_v2_org_uid_onchain_timestamp">>))
RepairIssuanceProjectMethodologyColumnV2 ==
    <<Ensure("issuance", "cad_trust_methodology_id", "cad_trust_project_methodology_id"),
      IfMissing(Index("issuance", "cad_trust_project_methodology_id"))>>
RenameAefCooperativeApproachColumnsV2 ==
    <<Ensure("aef_t3_actions", "aef_t3_actions_coopoerative_approach_id",
             "aef_t3_actions_cooperative_approach_id"),
      Caught(Index("aef_t3_actions", "aef_t3_actions_cooperative_approach_id")),
      Data("staging"),
      Ensure("aef_t4_holdings", "aef_t4_holdings_coopoerative_approach_id",
             "aef_t4_holdings_cooperative_approach_id"),
      Caught(Index("aef_t4_holdings", "aef_t4_holdings_cooperative_approach_id")),
      Data("staging")>>

CreatedByTables ==
    <<"validation", "verification", "location", "co_benefit", "estimation", "rating",
      "project_methodology", "stakeholder_projects", "issuance", "unit_label",
      "aef_t2_authorizations", "aef_t3_actions", "aef_t4_holdings",
      "aef_t5_authorized_entities">>

\* Columns and indexes first, each only if missing, then the values.
AddCreatedByOrgUidV2 ==
    [i \in 1 .. 2 * Len(CreatedByTables) |->
        LET t == CreatedByTables[(i + 1) \div 2]
        IN  IfMissing(IF i % 2 = 1 THEN Column(t, "created_by_org_uid")
                      ELSE Index(t, "created_by_org_uid"))]
    \o Each(Data, CreatedByTables)

V2Ups ==
    <<CreateStagingV2, CreateAuditV2, CreateOrganizationsV2, CreateMetaV2, CreateGovernanceV2,
      CreateSimulatorV2, CreateMethodologyV2, CreateProgramV2, CreateProjectV2,
      CreateValidationV2, CreateVerificationV2, CreateIssuanceV2, CreateUnitV2,
      CreateLocationV2, CreateEstimationV2, CreateRatingV2, CreateCoBenefitV2,
      CreateProjectMethodologyV2, CreateStakeholderV2, CreateStakeholderProjectsV2,
      CreateLabelV2, CreateUnitLabelV2, CreateAefT1SubmissionV2,
      CreateAefT5AuthorizedEntitiesV2, CreateAefT2AuthorizationsV2, CreateAefT3ActionsV2,
      CreateAefT4HoldingsV2, CreateFilestoreV2, CreateFts5TablesV2, CreateFts5TriggersV2,
      RenameIssuanceMethodologyToProjectMethodologyV2, FixLongAefIndexNamesV2,
      DropGovernanceFromMirrorV2, AddOrgUidToStandaloneTablesV2, AddAuditSyncIndexesV2,
      AddAuditListIndexV2, RepairIssuanceProjectMethodologyColumnV2,
      RenameAefCooperativeApproachColumnsV2, AddCreatedByOrgUidV2>>

\* V2's names are distinct.
V2Migrations == [i \in DOMAIN V2Ups |-> [name |-> i, up |-> V2Ups[i]]]
TriggersMigration == 30
=============================================================================
