---------------------------- MODULE OrgCreation ----------------------------
(***************************************************************************)
(* The creation of the V2 home organization: POST organizations            *)
(* (controllers/v2/organizations-v2.controller.js), the saved state        *)
(* machine (utils/organization-creation-state.js and                       *)
(* models/v2/organizations-v2.model.js), the recovery that runs once when  *)
(* the process starts (tasks/clean-up-failed-org-v2.js) and the in-memory  *)
(* lock (utils/org-operation-lock.js).  The process may die at every       *)
(* await; the Meta row, the organizations table and the stores on the      *)
(* chain survive it.                                                       *)
(***************************************************************************)
EXTENDS Integers, Sequences, FiniteSets

CONSTANTS
    StoreTypes,  \* the stores of an organization
    OrgUid,      \* the store type that names the organization
    DataStores,  \* store types that data is written to
    Requests,    \* POST organizations calls that may be in progress at once
    NoState,     \* there is no saved state
    MaxRetries,  \* MAX_RETRIES
    MaxStores,   \* bound: stores created on the chain
    MaxTime,     \* bound: half hours that pass
    MaxErrors,   \* bound: failed RPCs
    MaxCrashes   \* bound: process restarts

ASSUME OrgConstants ==
    /\ OrgUid \in DataStores
    /\ DataStores \subseteq StoreTypes
    /\ {MaxRetries, MaxStores, MaxTime, MaxErrors, MaxCrashes} \subseteq Nat

Recovery == "recovery"
Procs == Requests \cup {Recovery}

VARIABLES
    meta,       \* the saved state, or NoState
    pending,    \* the PENDING row is in the organizations table
    homes,      \* the other home organization rows
    subscribed, \* organizations whose row says subscribed
    stores,     \* stores created on the chain so far, numbered from 1
    data,       \* stores whose data was accepted
    proc,       \* what each request and the recovery are doing
    lock,       \* holder of the org operation lock and when it took it
    hasRun,     \* the recovery has begun in this process
    now,        \* half hours passed
    errors, crashes

dbVars    == <<meta, pending, homes, subscribed>>
chainVars == <<stores, data>>
lockVars  == <<lock, hasRun>>
boundVars == <<now, errors, crashes>>
vars == <<dbVars, chainVars, proc, lockVars, boundVars>>

Ids    == 0 .. MaxStores      \* 0: the store has no id yet
States == {"INITIALIZING", "STORES_CREATING", "STORES_CONFIRMED",
           "DATA_PUSHING", "FINALIZING", "FAILED"}
Unlocked == [by |-> "nobody", at |-> 0]

Creation == [state : States, ids : [StoreTypes -> Ids], confirmed : SUBSET StoreTypes,
             written : SUBSET StoreTypes, retries : Nat,
             startedAt : 0 .. MaxTime]

ASSUME NamesDiffer == NoState \notin Creation /\ {Recovery, "nobody"} \cap Requests = {}

createInitialState ==
    [state |-> "INITIALIZING", ids |-> [t \in StoreTypes |-> 0], confirmed |-> {},
     written |-> {}, retries |-> 0, startedAt |-> now]

\* What an invocation knows: the state it saves, the stores it created but has
\* not saved, the stores it failed at and the pushes that were accepted.
Quiet == [pc |-> "idle", state |-> NoState, made |-> [t \in StoreTypes |-> 0],
          bad |-> {}, sent |-> {}, todo |-> <<>>]

Waiting  == {"coins", "make", "confirm", "push", "finalize", "subscribe"}
Creating == Waiting \cup {"begin", "load", "pend", "run", "row", "clear", "fail", "unpend"}
Steps    == Creating \cup {"idle", "lock", "exists", "count", "giveUp", "missed", "tidy"}

Invocation == [pc : Steps, state : Creation \cup {NoState}, made : [StoreTypes -> Ids],
               bad : SUBSET StoreTypes, sent : SUBSET DataStores,
               todo : Seq({"clear", "unpend"})]

TypeOK ==
    /\ meta \in Creation \cup {NoState}
    /\ pending \in BOOLEAN
    /\ homes \subseteq [StoreTypes -> Ids]
    /\ subscribed \subseteq 1 .. MaxStores
    /\ stores \in Ids
    /\ data \subseteq 1 .. stores
    /\ proc \in [Procs -> Invocation]
    /\ \A p \in Procs, t \in StoreTypes : proc[p].made[t] <= stores
    /\ lock \in [by : Procs \cup {"nobody"}, at : 0 .. MaxTime]
    /\ hasRun \in BOOLEAN
    /\ now \in 0 .. MaxTime /\ errors \in 0 .. MaxErrors /\ crashes \in 0 .. MaxCrashes

Init ==
    /\ meta = NoState
    /\ pending = FALSE
    /\ homes = {}
    /\ subscribed = {}
    /\ stores = 0
    /\ data = {}
    /\ proc = [p \in Procs |-> Quiet]
    /\ lock = Unlocked
    /\ hasRun = FALSE
    /\ now = 0 /\ errors = 0 /\ crashes = 0

-----------------------------------------------------------------------------
InProgress == meta # NoState /\ meta.state # "FAILED"
hasTimedOut == now > meta.startedAt
hasInProgressCreation == InProgress /\ ~hasTimedOut

\* Mutant: the lock is taken away after half an hour.
LockHalfHour == lock.by = "nobody" \/ now >= lock.at + 1

\* Free, or held for an hour: tryAcquireOrgLock takes it.
LockFree == lock.by = "nobody" \/ now >= lock.at + 2

\* Timing: between two consecutive database calls of the recovery the chain
\* does not answer and the lock does not change hands.
Unhurried == proc[Recovery].pc # "count"

Goes(p, step)  == proc' = [proc EXCEPT ![p].pc = step]

\* saveCreationState(s), and the invocation goes on with s.
Saves(p, step, s) ==
    /\ proc' = [proc EXCEPT ![p].pc = step, ![p].state = s]
    /\ meta' = s

\* releaseOrgLock(token) by an invocation that ends.
Leaves(p) ==
    /\ proc' = [proc EXCEPT ![p] = Quiet]
    /\ lock' = IF lock.by = p THEN Unlocked ELSE lock

-----------------------------------------------------------------------------
(* POST organizations *)

\* hasInProgressCreation; a refused request changes nothing.
PostCreate(r) ==
    /\ proc[r].pc = "idle"
    /\ ~hasInProgressCreation
    /\ Goes(r, "lock")
    /\ UNCHANGED <<dbVars, chainVars, lockVars, boundVars>>

TakeLock(r) ==
    /\ proc[r].pc = "lock"
    /\ Unhurried
    /\ IF LockFree
       THEN lock' = [by |-> r, at |-> now] /\ Goes(r, "exists")
       ELSE lock' = lock /\ Goes(r, "idle")
    /\ UNCHANGED <<dbVars, chainVars, hasRun, boundVars>>

\* "V2 home organization already exists", also for the PENDING row.
RefuseSecondHome(r) ==
    /\ proc[r].pc = "exists"
    /\ pending \/ homes # {}
    /\ Leaves(r)
    /\ UNCHANGED <<dbVars, chainVars, hasRun, boundVars>>

AcceptCreate(r) ==
    /\ proc[r].pc = "exists"
    /\ ~pending /\ homes = {}
    /\ Goes(r, "begin")
    /\ UNCHANGED <<dbVars, chainVars, lockVars, boundVars>>

-----------------------------------------------------------------------------
(* The recovery at startup: attemptRecovery *)

\* The API answers before the task runs: requests come before, during and
\* after it.
RecoveryLoads ==
    /\ ~hasRun
    /\ hasRun' = TRUE
    /\ proc' = [proc EXCEPT
          ![Recovery].pc = IF InProgress THEN "count" ELSE "tidy",
          ![Recovery].state = meta,
          ![Recovery].todo = CASE InProgress     -> <<>>
                               [] meta = NoState -> <<"unpend">>
                               [] OTHER          -> <<"clear", "unpend">>]
    /\ UNCHANGED <<dbVars, chainVars, lock, boundVars>>

\* Each restart that finds a creation in progress counts as a retry; the state
\* is saved as it was loaded.
RecoveryCounts ==
    LET s == [proc[Recovery].state EXCEPT !.retries = @ + 1] IN
    /\ proc[Recovery].pc = "count"
    /\ Saves(Recovery, IF s.retries >= MaxRetries THEN "giveUp" ELSE "lock", s)
    /\ UNCHANGED <<pending, homes, subscribed, chainVars, lockVars, boundVars>>

RecoveryGivesUp ==
    /\ proc[Recovery].pc = "giveUp"
    /\ meta' = [proc[Recovery].state EXCEPT !.state = "FAILED"]
    /\ proc' = [proc EXCEPT ![Recovery].pc = "tidy",
                            ![Recovery].todo = <<"unpend", "clear">>]
    /\ UNCHANGED <<pending, homes, subscribed, chainVars, lockVars, boundVars>>

\* Without the lock the recovery is over until the next start.
RecoveryTakesLock ==
    /\ proc[Recovery].pc = "lock"
    /\ IF LockFree
       THEN lock' = [by |-> Recovery, at |-> now] /\ Goes(Recovery, "begin")
       ELSE lock' = lock /\ Goes(Recovery, "missed")
    /\ UNCHANGED <<dbVars, chainVars, hasRun, boundVars>>

\* Clearing the state and destroying the PENDING row, one await each.
Tidy ==
    LET todo == proc[Recovery].todo IN
    /\ proc[Recovery].pc = "tidy"
    /\ todo # <<>>
    /\ meta' = IF Head(todo) = "clear" THEN NoState ELSE meta
    /\ pending' = (pending /\ Head(todo) # "unpend")
    /\ IF Tail(todo) = <<>>
       THEN Leaves(Recovery)
       ELSE lock' = lock /\ proc' = [proc EXCEPT ![Recovery].todo = Tail(todo)]
    /\ UNCHANGED <<homes, subscribed, chainVars, hasRun, boundVars>>

-----------------------------------------------------------------------------
(* createHomeOrganization, in a request or in the recovery *)

\* The oldest is_home row decides, the PENDING row while there is one; the
\* saved state is left as it is.
AlreadyHome(p) ==
    /\ proc[p].pc = "begin"
    /\ ~pending /\ homes # {}
    /\ Leaves(p)
    /\ UNCHANGED <<dbVars, chainVars, hasRun, boundVars>>

NotYetHome(p) ==
    /\ proc[p].pc = "begin"
    /\ pending \/ homes = {}
    /\ Goes(p, "load")
    /\ UNCHANGED <<dbVars, chainVars, lockVars, boundVars>>

Begin(p) ==
    /\ proc[p].pc = "load"
    /\ ~InProgress
    /\ Saves(p, "pend", createInitialState)
    /\ UNCHANGED <<pending, homes, subscribed, chainVars, lockVars, boundVars>>

AddPending(p) ==
    /\ proc[p].pc = "pend"
    /\ pending' = TRUE
    /\ Goes(p, "coins")
    /\ UNCHANGED <<meta, homes, subscribed, chainVars, lockVars, boundVars>>

\* Mutant: the creation starts over.
ResumeAnew(p) ==
    /\ proc[p].pc = "load"
    /\ InProgress
    /\ Saves(p, "coins", createInitialState)
    /\ UNCHANGED <<pending, homes, subscribed, chainVars, lockVars, boundVars>>

\* _resumeOrganizationCreation: a timed out creation counts one more retry and
\* starts its clock anew.
Resume(p) ==
    /\ proc[p].pc = "load"
    /\ InProgress
    /\ ~hasTimedOut \/ meta.retries + 1 < MaxRetries
    /\ Saves(p, "coins", IF hasTimedOut
                         THEN [meta EXCEPT !.retries = @ + 1, !.startedAt = now]
                         ELSE meta)
    /\ UNCHANGED <<pending, homes, subscribed, chainVars, lockVars, boundVars>>

ResumeTooOften(p) ==
    /\ proc[p].pc = "load"
    /\ InProgress
    /\ hasTimedOut
    /\ meta.retries + 1 >= MaxRetries
    /\ meta' = [meta EXCEPT !.retries = @ + 1, !.state = "FAILED"]
    /\ Goes(p, "unpend")
    /\ UNCHANGED <<pending, homes, subscribed, chainVars, lockVars, boundVars>>

Coins(p) ==
    /\ proc[p].pc = "coins"
    /\ Goes(p, "run")
    /\ UNCHANGED <<dbVars, chainVars, lockVars, boundVars>>

\* The state machine picks up where the saved state stands.
Run(p) ==
    LET s == proc[p].state IN
    /\ proc[p].pc = "run"
    /\ \/ /\ s.state \in {"INITIALIZING", "STORES_CREATING"}
          /\ Saves(p, "make", [s EXCEPT !.state = "STORES_CREATING"])
       \/ /\ s.state \in {"STORES_CONFIRMED", "DATA_PUSHING"}
          /\ Saves(p, "push", [s EXCEPT !.state = "DATA_PUSHING"])
       \/ /\ s.state = "FINALIZING"
          /\ Goes(p, "finalize")
          /\ meta' = meta
    /\ UNCHANGED <<pending, homes, subscribed, chainVars, lockVars, boundVars>>

ToCreate(p) == {t \in StoreTypes : proc[p].state.ids[t] = 0}

\* Mutant: the new store's number is not taken.
CreateStoreUncounted(p) ==
    /\ proc[p].pc = "make"
    /\ \E t \in ToCreate(p) \ proc[p].bad :
          /\ proc[p].made[t] = 0
          /\ proc' = [proc EXCEPT ![p].made[t] = stores + 1]
    /\ UNCHANGED <<dbVars, chainVars, lockVars, boundVars>>

\* createDataLayerStoreWithRetry returns when the store is on the chain; its
\* id is saved later.
CreateStore(p) ==
    /\ proc[p].pc = "make"
    /\ Unhurried
    /\ stores < MaxStores
    /\ \E t \in ToCreate(p) \ proc[p].bad :
          /\ proc[p].made[t] = 0
          /\ proc' = [proc EXCEPT ![p].made[t] = stores + 1]
    /\ stores' = stores + 1
    /\ UNCHANGED <<dbVars, data, lockVars, boundVars>>

\* If the store is on the chain all the same, nobody knows its id.
CreateStoreFails(p) ==
    /\ proc[p].pc = "make"
    /\ Unhurried
    /\ errors < MaxErrors
    /\ errors' = errors + 1
    /\ \E t \in ToCreate(p) \ proc[p].bad :
          /\ proc[p].made[t] = 0
          /\ proc' = [proc EXCEPT ![p].bad = @ \cup {t}]
    /\ UNCHANGED <<dbVars, chainVars, lockVars, now, crashes>>

\* persistStoreCreated, one store at a time.
PersistStoreCreated(p) ==
    /\ proc[p].pc = "make"
    /\ \E t \in ToCreate(p) :
          /\ proc[p].made[t] # 0
          /\ Saves(p, "make", [proc[p].state EXCEPT !.ids[t] = proc[p].made[t]])
    /\ UNCHANGED <<pending, homes, subscribed, chainVars, lockVars, boundVars>>

\* Promise.all over the stores: all are created, or some failed.
StoresCreated(p) ==
    /\ proc[p].pc = "make"
    /\ ToCreate(p) \subseteq proc[p].bad
    /\ proc' = [proc EXCEPT ![p].pc = IF proc[p].bad = {} THEN "confirm" ELSE "fail",
                            ![p].bad = {}]
    /\ UNCHANGED <<dbVars, chainVars, lockVars, boundVars>>

\* _waitForStoresConfirmation: some stores may not confirm in time.
StoresConfirmed(p) ==
    LET s == proc[p].state IN
    /\ proc[p].pc = "confirm"
    /\ Unhurried
    /\ Saves(p, "run", [s EXCEPT !.confirmed = StoreTypes, !.state = "STORES_CONFIRMED"])
    /\ UNCHANGED <<pending, homes, subscribed, chainVars, lockVars, boundVars>>

StoresUnconfirmed(p) ==
    LET s == proc[p].state IN
    /\ proc[p].pc = "confirm"
    /\ Unhurried
    /\ errors < MaxErrors
    /\ errors' = errors + 1
    /\ \E S \in SUBSET StoreTypes :
          /\ s.confirmed \subseteq S
          /\ S # StoreTypes
          /\ Saves(p, "fail", [s EXCEPT !.confirmed = S])
    /\ UNCHANGED <<pending, homes, subscribed, chainVars, lockVars, now, crashes>>

NeedingData(p) ==
    (DataStores \cap proc[p].state.confirmed) \ proc[p].state.written

\* syncDataLayer returns when the store's change list is accepted.
PushData(p) ==
    /\ proc[p].pc = "push"
    /\ Unhurried
    /\ \E t \in NeedingData(p) \ (proc[p].sent \cup proc[p].bad) :
          /\ data' = data \cup {proc[p].state.ids[t]}
          /\ proc' = [proc EXCEPT ![p].sent = @ \cup {t}]
    /\ UNCHANGED <<dbVars, stores, lockVars, boundVars>>

PushDataFails(p) ==
    /\ proc[p].pc = "push"
    /\ Unhurried
    /\ errors < MaxErrors
    /\ errors' = errors + 1
    /\ \E t \in NeedingData(p) \ (proc[p].sent \cup proc[p].bad) :
          proc' = [proc EXCEPT ![p].bad = @ \cup {t}]
    /\ UNCHANGED <<dbVars, chainVars, lockVars, now, crashes>>

\* Mutant: the results of the pushes are not looked at.
DataPushedAnyway(p) ==
    /\ proc[p].pc = "push"
    /\ NeedingData(p) \subseteq proc[p].sent \cup proc[p].bad
    /\ Saves(p, "finalize", [proc[p].state EXCEPT !.written = DataStores])
    /\ UNCHANGED <<pending, homes, subscribed, chainVars, lockVars, boundVars>>

\* The pushes that succeeded are saved together, after the last has ended.
DataPushed(p) ==
    LET s == proc[p].state IN
    /\ proc[p].pc = "push"
    /\ NeedingData(p) \subseteq proc[p].sent \cup proc[p].bad
    /\ Saves(p, IF proc[p].bad = {} THEN "finalize" ELSE "fail",
             [s EXCEPT !.written = @ \cup proc[p].sent])
    /\ UNCHANGED <<pending, homes, subscribed, chainVars, lockVars, boundVars>>

Uid(h) == h[OrgUid]

\* The org's old row goes, then the new row is created and the PENDING row
\* destroyed, in either order.
Finalize(p) ==
    LET s == [proc[p].state EXCEPT !.state = "FINALIZING"] IN
    /\ proc[p].pc = "finalize"
    /\ Saves(p, "row", s)
    /\ homes' = {h \in homes : Uid(h) # s.ids[OrgUid]}
    /\ subscribed' = subscribed \ {s.ids[OrgUid]}
    /\ UNCHANGED <<pending, chainVars, lockVars, boundVars>>

AddHome(p) ==
    /\ proc[p].pc = "row"
    /\ proc[p].state.ids \notin homes
    /\ homes' = homes \cup {proc[p].state.ids}
    /\ UNCHANGED <<meta, pending, subscribed, chainVars, proc, lockVars, boundVars>>

DestroyPending(p) ==
    /\ proc[p].pc = "row"
    /\ pending
    /\ pending' = FALSE
    /\ UNCHANGED <<meta, homes, subscribed, chainVars, proc, lockVars, boundVars>>

RowsWritten(p) ==
    /\ proc[p].pc = "row"
    /\ ~pending /\ proc[p].state.ids \in homes
    /\ Goes(p, "subscribe")
    /\ UNCHANGED <<dbVars, chainVars, lockVars, boundVars>>

\* getStoreData has answered: the organization is in use.
MarkSubscribed(p) ==
    /\ proc[p].pc = "subscribe"
    /\ subscribed' = subscribed \cup {proc[p].state.ids[OrgUid]}
    /\ Goes(p, "clear")
    /\ UNCHANGED <<meta, pending, homes, chainVars, lockVars, boundVars>>

ClearCreationState(p) ==
    /\ proc[p].pc = "clear"
    /\ meta' = NoState
    /\ Leaves(p)
    /\ UNCHANGED <<pending, homes, subscribed, chainVars, hasRun, boundVars>>

\* Waiting for coins, for the pushes to confirm or for the new store fails.
Throw(p) ==
    /\ Unhurried
    /\ \/ proc[p].pc = "coins" /\ ToCreate(p) # {}
       \/ proc[p].pc = "finalize" /\ proc[p].state.state = "DATA_PUSHING"
       \/ proc[p].pc = "subscribe"
    /\ errors < MaxErrors
    /\ errors' = errors + 1
    /\ Goes(p, "fail")
    /\ UNCHANGED <<dbVars, chainVars, lockVars, now, crashes>>

\* Mutant: the catch block leaves the PENDING row.
MarkAsFailedOnly(p) ==
    /\ proc[p].pc = "fail"
    /\ meta' = IF meta = NoState THEN meta ELSE [meta EXCEPT !.state = "FAILED"]
    /\ Leaves(p)
    /\ UNCHANGED <<pending, homes, subscribed, chainVars, hasRun, boundVars>>

\* The catch block: FAILED is saved, then the PENDING row destroyed.
MarkAsFailed(p) ==
    /\ proc[p].pc = "fail"
    /\ meta' = IF meta = NoState THEN meta ELSE [meta EXCEPT !.state = "FAILED"]
    /\ Goes(p, "unpend")
    /\ UNCHANGED <<pending, homes, subscribed, chainVars, lockVars, boundVars>>

\* The recovery forgets a creation that has used up its retries.
Unpend(p) ==
    /\ proc[p].pc = "unpend"
    /\ pending' = FALSE
    /\ IF p = Recovery /\ meta # NoState /\ meta.retries >= MaxRetries
       THEN /\ proc' = [proc EXCEPT ![p].pc = "tidy", ![p].todo = <<"clear">>]
            /\ lock' = lock
       ELSE Leaves(p)
    /\ UNCHANGED <<meta, homes, subscribed, chainVars, hasRun, boundVars>>

-----------------------------------------------------------------------------
(* Time and restarts *)

\* Half an hour passes only while everybody waits for the chain or for
\* nothing.
Tick ==
    /\ now < MaxTime
    /\ \A p \in Procs : proc[p].pc \in Waiting \cup {"idle", "missed"}
    /\ now' = now + 1
    /\ UNCHANGED <<dbVars, chainVars, proc, lockVars, errors, crashes>>

Crash ==
    /\ crashes < MaxCrashes
    /\ crashes' = crashes + 1
    /\ proc' = [p \in Procs |-> Quiet]
    /\ lock' = Unlocked
    /\ hasRun' = FALSE
    /\ UNCHANGED <<dbVars, chainVars, now, errors>>

-----------------------------------------------------------------------------
Recover == RecoveryLoads \/ RecoveryCounts \/ RecoveryGivesUp \/ RecoveryTakesLock \/ Tidy

Creates(p) ==
    \/ AlreadyHome(p) \/ NotYetHome(p) \/ Begin(p) \/ AddPending(p)
    \/ Resume(p) \/ ResumeTooOften(p) \/ Coins(p) \/ Run(p)
    \/ CreateStore(p) \/ PersistStoreCreated(p) \/ StoresCreated(p) \/ StoresConfirmed(p)
    \/ PushData(p) \/ DataPushed(p)
    \/ Finalize(p) \/ AddHome(p) \/ DestroyPending(p) \/ RowsWritten(p)
    \/ MarkSubscribed(p) \/ ClearCreationState(p) \/ MarkAsFailed(p) \/ Unpend(p)

Fails(p) ==
    CreateStoreFails(p) \/ StoresUnconfirmed(p) \/ PushDataFails(p) \/ Throw(p)

Handles(r) == TakeLock(r) \/ RefuseSecondHome(r) \/ AcceptCreate(r)

Next ==
    \/ \E r \in Requests : PostCreate(r) \/ Handles(r)
    \/ Recover
    \/ \E p \in Procs : Creates(p) \/ Fails(p)
    \/ Tick \/ Crash

Spec == Init /\ [][Next]_vars

\* What has begun goes on, and the process is started again after a crash.
Fairness ==
    /\ WF_vars(Recover \/ Creates(Recovery))
    /\ \A r \in Requests : WF_vars(Handles(r) \/ Creates(r))

FairSpec == Spec /\ Fairness

-----------------------------------------------------------------------------
(* Properties *)

\* A home organization's stores are its own, all exist, and those that
\* describe it have been written, however often the creation was interrupted.
HomeIsReady ==
    \A h \in homes :
        /\ \A t \in StoreTypes : h[t] \in 1 .. stores
        /\ \A t, u \in StoreTypes : t # u => h[t] # h[u]
        /\ \A t \in DataStores : h[t] \in data

\* Two requests, a recovery and a lock that can be taken away never make two
\* home organizations.
OneHome == Cardinality(homes) <= 1

\* A store the saved state names is never created again by the same creation:
\* it has been paid for.  Only the recovery's retry count may write an older
\* copy over the state of a request that runs already.
StoresAreKept ==
    [][(InProgress /\ InProgress' /\ proc[Recovery].pc # "count") =>
          \A t \in StoreTypes : meta.ids[t] # 0 => meta'.ids[t] = meta.ids[t]]_vars

\* The PENDING row, which refuses every request, does not outlive the creation
\* it stands for, unless the recovery found the lock taken: it never comes back.
PendingEnds == pending ~> (~pending \/ proc[Recovery].pc = "missed")

\* A home organization gets to be subscribed: writes are refused until then,
\* and the validation task unsubscribes from its stores.
HomeIsSubscribed == (homes # {}) ~> (\E h \in homes : Uid(h) \in subscribed)

-----------------------------------------------------------------------------
(* Inductive invariant of HomeIsReady *)

Late  == {"STORES_CONFIRMED", "DATA_PUSHING", "FINALIZING"}
Early == {"idle", "lock", "exists", "begin", "load", "missed", "count", "giveUp"}
Knows == (Creating \ {"begin", "load", "clear", "fail", "unpend"}) \cup {"count", "giveUp"}

\* Of a state, saved or remembered and however old, when n stores exist and the
\* stores in D have their data: what it says of stores is so.
Sound(s, n, D) ==
    /\ \A t \in StoreTypes : s.ids[t] <= n
    /\ \A t, u \in StoreTypes : t # u /\ s.ids[t] # 0 => s.ids[t] # s.ids[u]
    /\ \A t \in s.written : s.ids[t] \in D
    /\ s.state \in Late => s.confirmed = StoreTypes /\ \A t \in StoreTypes : s.ids[t] # 0
    /\ s.state = "FINALIZING" => DataStores \subseteq s.written

\* Of an invocation: its state is sound, the stores it made are different ones,
\* the pushes it has seen accepted are, and its state is as far as it is.
Steady(i, n, D) ==
    /\ i.pc \in Knows => i.state # NoState
    /\ i.state # NoState => Sound(i.state, n, D)
    /\ \A t, u \in StoreTypes : t # u /\ i.made[t] # 0 =>
          /\ i.made[t] # i.made[u]
          /\ i.state # NoState => i.made[t] # i.state.ids[u]
    /\ i.pc \in Early => \A t \in StoreTypes : i.made[t] = 0
    /\ i.pc \in Early \cup {"pend", "coins", "run", "make", "confirm"} => i.sent = {}
    /\ i.state # NoState => \A t \in i.sent : i.state.ids[t] \in D
    /\ i.pc \in {"make", "confirm"} => i.state.state = "STORES_CREATING"
    /\ i.pc = "confirm" => \A t \in StoreTypes : i.state.ids[t] # 0
    /\ i.pc = "push" => i.state.state = "DATA_PUSHING"
    /\ i.pc = "finalize" => i.state.state \in Late /\ DataStores \subseteq i.state.written
    /\ i.pc \in {"row", "subscribe"} => i.state.state = "FINALIZING"

\* Whatever a request or the recovery remembers, and whatever copy of it was
\* saved last, a home row can only be written from a finished state.
ReadyInv ==
    /\ meta # NoState => Sound(meta, stores, data)
    /\ \A p \in Procs : Steady(proc[p], stores, data)
    /\ ~hasRun => proc[Recovery].pc = "idle"
    /\ HomeIsReady

-----------------------------------------------------------------------------
(* Inductive invariant of OneHome *)

\* Whoever is at work has had the lock for less than an hour.
LockIsYoung == LockFree => lock.by = "nobody"

Held    == Creating \cup {"exists"}
Working == Knows \ {"count", "giveUp"}

\* Who is at work has the lock; it works on the organization that has a row, if
\* one has; and so would whoever resumed the saved state.
WorkInv ==
    /\ \A p \in Procs : proc[p].pc \in Held => lock.by = p
    /\ \A h, g \in homes : h = g
    /\ InProgress => \A h \in homes : meta.ids = h
    /\ \A p \in Procs : proc[p].pc \in Working =>
          /\ \A h \in homes : proc[p].state.ids = h
          /\ InProgress /\ proc[p].state.state \in Late => meta.ids = proc[p].state.ids
    /\ \A p \in Procs : proc[p].pc \in {"subscribe", "clear"} => ~pending
    /\ \A p \in Procs : proc[p].pc = "pend" => homes = {}
    /\ \A r \in Requests : proc[r].pc \in {"begin", "load"} => homes = {}

\* The copy that the recovery is about to save is as good, although a request may
\* have gone on since it was loaded.
CopyInv ==
    LET copy == proc[Recovery].state IN
    proc[Recovery].pc = "count" =>
      /\ copy.state # "FAILED"
      /\ \A h \in homes : copy.ids = h
      /\ \A r \in Requests :
            /\ proc[r].pc \in Working /\ proc[r].state.state \in Late =>
                  copy.ids = proc[r].state.ids
            /\ proc[r].pc \in {"exists", "begin", "load"} /\ InProgress =>
                  copy.ids = meta.ids

\* Where the PENDING row lets the recovery pass beside a home row, there is a
\* state to resume: it starts no second organization.
PassInv ==
    LET step == proc[Recovery].pc IN
    /\ step = "lock" =>
          /\ pending /\ homes # {} =>
                InProgress \/ \E r \in Requests : proc[r].pc = "unpend"
          /\ (\E r \in Requests : proc[r].pc = "row") => InProgress
    /\ step = "begin" /\ pending /\ homes # {} => InProgress
    /\ step = "load" /\ homes # {} => InProgress

HomeInv == WorkInv /\ CopyInv /\ PassInv

-----------------------------------------------------------------------------
(* Inductive invariant of StoresAreKept *)

\* State s has every store that state u names.
Extends(s, u) == \A t \in StoreTypes : u.ids[t] # 0 => s.ids[t] = u.ids[t]

\* Whoever is at work knows every store that the saved state names, and every one
\* that the recovery's copy names.
KeepInv ==
    /\ InProgress => \A p \in Procs : proc[p].pc \in Working => Extends(proc[p].state, meta)
    /\ proc[Recovery].pc = "count" =>
          \A r \in Requests :
             /\ proc[r].pc \in Working => Extends(proc[r].state, proc[Recovery].state)
             /\ proc[r].pc \in {"exists", "begin", "load"} => InProgress
=============================================================================
