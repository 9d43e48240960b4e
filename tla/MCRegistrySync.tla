--------------------------- MODULE MCRegistrySync ---------------------------
(* Small instances of RegistrySync for TLC. *)
EXTENDS RegistrySyncRefinement
=============================================================================
