---------------------------- MODULE MCRecordStaging ----------------------------
(* Families of tables that refer to one another, for TLC. *)
EXTENDS RecordStaging

AllFamilies == {
    {"program", "project"},
    {"methodology", "project_methodology"},
    {"project_methodology", "issuance"},
    {"stakeholder", "stakeholder_projects"},
    {"label", "unit_label", "unit"},
    {"validation", "verification"},
    {"verification", "issuance"},
    {"location", "issuance"},
    {"project", "location"},
    {"project", "stakeholder_projects"},
    {"estimation"}, {"rating"}, {"co_benefit"},
    {"aef_t1", "aef_t5"},
    {"aef_t2", "aef_t3"},
    {"unit", "aef_t4"},
    {"project", "aef_t5"},
    {"project", "verification", "issuance", "unit", "unit_label"}}
=============================================================================
