--------------------------- MODULE DataLayerStore ---------------------------
(***************************************************************************)
(* One DataLayer store (a singleton on the Chia blockchain) as CADT sees   *)
(* it through the RPCs wrapped by src/src/datalayer/persistance.js:        *)
(* getRootHistory, getRootDiff and getDataLayerStoreSyncStatus.  The store *)
(* itself is outside this repository, so every action here is external.    *)
(*                                                                         *)
(* A root is identified with the table of rows it commits to: two roots    *)
(* have the same hash exactly when they hold the same rows.  Generation    *)
(* index g is entry g+1 of the history; generation 0 is the empty store.   *)
(***************************************************************************)
EXTENDS Integers, Sequences

CONSTANTS
    Keys,       \* primary keys of the rows an organization publishes
    Vals,       \* contents a row may have
    NoRow,      \* the key has no row
    MaxGen,     \* bound: the highest generation index the store reaches
    MaxReorgs   \* bound: blockchain reorganisations that drop generations

ASSUME StoreConstants ==
    /\ NoRow \notin Vals
    /\ MaxGen \in Nat
    /\ MaxReorgs \in Nat

VARIABLES
    history,    \* root history, oldest first: <<[root, confirmed], ...>>
    localGen,   \* sync_status.generation: newest generation held locally
    reorgs      \* reorganisations so far

storeVars == <<history, localGen, reorgs>>

Roots   == [Keys -> Vals \cup {NoRow}]
Empty   == [k \in Keys |-> NoRow]
Entry   == [root : Roots, confirmed : BOOLEAN]

Highest(h)    == Len(h) - 1                 \* rootHistory.length - 1
RootAt(h, g)  == h[g + 1].root
HasGen(h, g)  == g \in 0 .. Highest(h)

StoreTypeOK ==
    /\ history \in Seq(Entry)
    /\ Len(history) \in 1 .. MaxGen + 1
    /\ localGen \in 0 .. Highest(history)
    /\ reorgs \in 0 .. MaxReorgs

StoreInit ==
    /\ history = <<[root |-> Empty, confirmed |-> TRUE]>>
    /\ localGen = 0
    /\ reorgs = 0

-----------------------------------------------------------------------------
\* The owner publishes a new root.  It is listed before it is confirmed, and
\* the next one waits for the confirmation.
Publish ==
    /\ Highest(history) < MaxGen
    /\ history[Len(history)].confirmed
    /\ \E r \in Roots :
          history' = Append(history, [root |-> r, confirmed |-> FALSE])
    /\ UNCHANGED <<localGen, reorgs>>

Confirm ==
    /\ ~history[Len(history)].confirmed
    /\ history' = [history EXCEPT ![Len(history)] = [@ EXCEPT !.confirmed = TRUE]]
    /\ UNCHANGED <<localGen, reorgs>>

\* DataLayer downloads and validates the next generation.
Download ==
    /\ localGen < Highest(history)
    /\ localGen' = localGen + 1
    /\ UNCHANGED <<history, reorgs>>

\* "datalayer store singletons can lose generation indexes due to blockchain
\* reorgs": the chain forgets every generation above g.
Reorg ==
    /\ reorgs < MaxReorgs
    /\ \E g \in 0 .. Highest(history) - 1 :
          /\ history' = SubSeq(history, 1, g + 1)
          /\ localGen' = IF localGen > g THEN g ELSE localGen
    /\ reorgs' = reorgs + 1

StoreNext == Publish \/ Confirm \/ Download \/ Reorg
=============================================================================
