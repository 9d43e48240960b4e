----------------------------- MODULE RegistryLog -----------------------------
(***************************************************************************)
(* What registry synchronisation promises about one organization: its      *)
(* audit log is a copy of the store's root history that grows one          *)
(* generation at a time, in order, from its beginning, and is only ever    *)
(* cut back from its end.                                                  *)
(***************************************************************************)
EXTENDS Integers, Sequences

CONSTANTS Contents, Nothing

VARIABLES
    published,  \* roots of the store, by generation
    log         \* roots the log has ingested, by generation

logVars == <<published, log>>

LogInit == published = <<Nothing>> /\ log = <<>>

Extend ==
    /\ \E r \in Contents : published' = Append(published, r)
    /\ UNCHANGED log

Ingest ==
    /\ Len(log) < Len(published)
    /\ log' = Append(log, published[Len(log) + 1])
    /\ UNCHANGED published

Rewind ==
    /\ \E n \in 0 .. Len(log) - 1 : log' = SubSeq(log, 1, n)
    /\ UNCHANGED published

LogNext == Extend \/ Ingest \/ Rewind

LogSafe == LogInit /\ [][LogNext]_logVars

LogSpec == LogSafe /\ WF_logVars(Ingest)
=============================================================================
