--------------------------- MODULE MCStagingCommit ---------------------------
(* Small instances of StagingCommit for TLC.                               *)
EXTENDS StagingCommit, TLC

\* Records are interchangeable, and so are requests.
Symmetry == Permutations(Uuids) \cup Permutations(Clients)

EveryCall == [r \in Releases |-> OpNames]

\* V2 with retries, V1 with transfers and edits.
SomeCalls ==
    [r \in Releases |-> IF r = "v2" THEN {"ids", "retry"} ELSE {"ids", "transfer", "edit"}]
=============================================================================
