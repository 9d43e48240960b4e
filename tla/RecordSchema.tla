----------------------------- MODULE RecordSchema -----------------------------
(***************************************************************************)
(* The V2 record tables: for each, the columns its model declares NOT NULL *)
(* (models/v2/*.model.js, *.modeltypes.js), the tables its foreign keys    *)
(* point to, and the fields its request schema demands                     *)
(* (validations/v2/*.validations.js).  A foreign-key column goes by the    *)
(* name of the table it points to.  Keys, timestamps and free columns are  *)
(* left out.                                                               *)
(***************************************************************************)

\* The model's declaration: org tells that the table has an org_uid column,
\* which the controllers fill in; the other tables only name their creator.
Table(org, notNull, refs) == [org |-> org, notNull |-> notNull, refs |-> refs]

Program == Table(TRUE, {"programName", "programRegistry", "programRegistryActivityId"}, {})
ProgramSchema == {"programName", "programRegistry", "programRegistryActivityId"}

Methodology == Table(TRUE, {"methodologyCode", "methodologyName"}, {})
MethodologySchema == {"methodologyCode", "methodologyName"}

Label == Table(TRUE, {"labelName"}, {})
LabelSchema == {"labelName", "labelType"}

Stakeholder == Table(TRUE, {"stakeholderName"}, {})
StakeholderSchema == {"stakeholderName", "stakeholderType"}

Project == Table(TRUE, {"orgUid", "projectRegistryName", "projectId", "projectName"},
                 {"program", "project"})
ProjectSchema == {"projectRegistryName", "projectId", "projectName", "projectSector",
                  "projectType", "projectStatus", "projectStatusDate", "unitMetric"}

Location == Table(FALSE, {"project"}, {"project"})
LocationSchema == {"locationCountry", "project"}

Estimation == Table(FALSE, {"estimationStartDate", "estimationEndDate", "project"}, {"project"})
EstimationSchema == {"estimationStartDate", "estimationEndDate", "estimationUnitCount", "project"}

Rating == Table(FALSE, {"ratingName", "ratingValue", "project"}, {"project"})
RatingSchema == {"ratingType", "ratingName", "ratingValue", "project"}

CoBenefit == Table(FALSE, {"coBenefitId", "project"}, {"project"})
CoBenefitSchema == {"coBenefitId", "project"}

Validation == Table(FALSE, {"validationId", "project"}, {"project"})
ValidationSchema == {"validationId", "validationType", "validationBody", "project"}

Verification == Table(FALSE, {"verificationId", "project"}, {"project", "validation"})
VerificationSchema == {"verificationId", "verificationBody", "project"}

ProjectMethodology == Table(FALSE, {"project", "methodology"}, {"project", "methodology"})
ProjectMethodologySchema == {"project", "methodology"}

StakeholderProject == Table(FALSE, {"stakeholder", "project"}, {"stakeholder", "project"})
StakeholderProjectSchema == {"stakeholder", "project"}

Issuance == Table(FALSE, {"issuanceId", "verification", "project_methodology"},
                  {"verification", "project_methodology", "location"})
IssuanceSchema == {"issuanceId", "verification", "project_methodology"}

Unit == Table(TRUE, {"orgUid", "unitSerialId", "unitStartBlock", "unitEndBlock",
                     "unitVintageYear", "issuance"}, {"issuance"})
UnitSchema == {"unitSerialId", "unitStartBlock", "unitEndBlock", "unitCount", "unitType",
               "unitVintageYear", "unitStatus", "unitStatusReason", "unitMetric", "issuance"}

UnitLabel == Table(FALSE, {"label", "unit"}, {"label", "unit"})
UnitLabelSchema == {"label", "unit", "labelUnitDate"}

AefT1 == Table(TRUE, {"party", "version", "reportYear", "submissionDate"}, {})
AefT1Schema == {"party", "version", "reportYear", "submissionDate"}

AefT5 == Table(FALSE, {"authorizationDate", "name", "id", "cooperativeApproachId"},
               {"aef_t1", "unit", "project"})
AefT5Schema == {"authorizationDate", "name", "id", "cooperativeApproachId"}

AefT2 == Table(FALSE, {"id", "date", "cooperativeApproachId", "authorizedPartyId"},
               {"aef_t1", "unit", "project", "aef_t5"})
AefT2Schema == {"id", "date", "cooperativeApproachId", "authorizedPartyId"}

\* Columns that the tables of actions and of holdings share.
Itmo == {"cooperativeApproachId", "authorizationId", "firstTransferringPartyId",
         "partyItmoRegistryId", "itmoFirstId", "itmoLastId", "unitRegistryId",
         "unitFirstId", "unitLastId", "quantityTCo2", "vintageYear"}

AefT3 == Table(FALSE, Itmo \cup {"date", "transferringPartyId", "acquiringPartyId"},
               {"aef_t1", "unit", "project", "aef_t2"})
AefT3Schema == Itmo \cup {"date", "transferringPartyId", "acquiringPartyId"}

AefT4 == Table(FALSE, Itmo, {"aef_t1", "unit", "project", "aef_t2"})
AefT4Schema == Itmo

\* getMutationGuardModelMap: the tables that have a model.
Models == [
    program |-> Program, methodology |-> Methodology, label |-> Label,
    stakeholder |-> Stakeholder, project |-> Project, location |-> Location,
    estimation |-> Estimation, rating |-> Rating, co_benefit |-> CoBenefit,
    validation |-> Validation, verification |-> Verification,
    project_methodology |-> ProjectMethodology,
    stakeholder_projects |-> StakeholderProject, issuance |-> Issuance,
    unit |-> Unit, unit_label |-> UnitLabel,
    aef_t1 |-> AefT1, aef_t5 |-> AefT5, aef_t2 |-> AefT2, aef_t3 |-> AefT3, aef_t4 |-> AefT4]

Tables == DOMAIN Models

\* What a request demands; the controllers fill in the organization.
Schemas == [
    program |-> ProgramSchema, methodology |-> MethodologySchema, label |-> LabelSchema,
    stakeholder |-> StakeholderSchema, project |-> ProjectSchema,
    location |-> LocationSchema, estimation |-> EstimationSchema, rating |-> RatingSchema,
    co_benefit |-> CoBenefitSchema, validation |-> ValidationSchema,
    verification |-> VerificationSchema, project_methodology |-> ProjectMethodologySchema,
    stakeholder_projects |-> StakeholderProjectSchema, issuance |-> IssuanceSchema,
    unit |-> UnitSchema, unit_label |-> UnitLabelSchema,
    aef_t1 |-> AefT1Schema, aef_t5 |-> AefT5Schema, aef_t2 |-> AefT2Schema,
    aef_t3 |-> AefT3Schema, aef_t4 |-> AefT4Schema]

Supplied(t) == Schemas[t] \cup IF Models[t].org THEN {"orgUid"} ELSE {}

\* The foreign keys a request must give.
Required(t) == Models[t].refs \cap Schemas[t]

-----------------------------------------------------------------------------
\* REFERENCE_MAP: a record of the first table is not deleted while records of
\* the others refer to it.
ReferencingAef == {"aef_t5", "aef_t2", "aef_t3", "aef_t4"}

References == [
    methodology |-> {"project_methodology"}, stakeholder |-> {"stakeholder_projects"},
    program |-> {"project"}, label |-> {"unit_label"}, project_methodology |-> {"issuance"},
    location |-> {"issuance"}, validation |-> {"verification"},
    project |-> {"project"} \cup ReferencingAef, unit |-> ReferencingAef]

\* getJoinTableOwnershipFks: the parent that owns a row of a join table.
OwnershipFks == [project_methodology |-> {"project"}, stakeholder_projects |-> {"project"},
                 unit_label |-> {"unit"}]
=============================================================================
