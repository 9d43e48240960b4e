----------------------- MODULE RegistrySyncRefinement -----------------------
(* RegistrySync implements RegistryLog while the store is not reorganised    *)
(* and the reset API is called between ticks.                                *)
EXTENDS RegistrySync, FiniteSets

Log == INSTANCE RegistryLog WITH
    Contents  <- Roots,
    Nothing   <- Empty,
    published <- [i \in 1 .. Len(history) |-> history[i].root],
    log       <- [i \in 1 .. Cardinality(audit) |->
                    (CHOOSE r \in audit : r.generation = i - 1).root]

\* The audit table, read by generation, is a prefix copy of the root history
\* that grows in order and eventually reaches the history's end.
ImplementsRegistryLog == Log!LogSpec
=============================================================================
