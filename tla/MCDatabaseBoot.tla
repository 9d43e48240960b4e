---------------------------- MODULE MCDatabaseBoot ----------------------------
(* The main databases and the mirrors of both versions. *)
EXTENDS DatabaseBoot

AllDatabases == [version : {"v1", "v2"}, dialect : Dialects]

\* Three restarts of V1's main database, one of the others.
Crashes ==
    [d \in AllDatabases |-> IF d.version = "v1" /\ d.dialect = "sqlite" THEN 3 ELSE 1]
=============================================================================
