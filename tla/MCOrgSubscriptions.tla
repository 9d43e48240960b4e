------------------------- MODULE MCOrgSubscriptions -------------------------
(* Small instances of OrgSubscriptions for TLC: one pointer store, V2 *)
(* with ONLY_CADT_SUBSCRIPTIONS and V1 without.                             *)
EXTENDS OrgSubscriptions

MCChain == <<"org", "registry">>

MCConfigs == {[v2 |-> TRUE, onlyCadt |-> TRUE], [v2 |-> FALSE, onlyCadt |-> FALSE]}
=============================================================================
