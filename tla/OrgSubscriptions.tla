-------------------------- MODULE OrgSubscriptions --------------------------
(***************************************************************************)
(* One foreign organization on a node: its row and registry data in SQLite,*)
(* the DataLayer subscriptions of its three stores, the list of            *)
(* organizations the user deleted, and the list the governance body        *)
(* publishes.  The scheduler's tasks (sync-default-organizations,          *)
(* validate-organization-table, sync-organization-meta, sync-registries    *)
(* and sync-governance-body, -v2 each) and the organization API change     *)
(* them side by side, one await at a time.                                 *)
(*                                                                         *)
(* A flow is the sequence of awaited calls that is left of it.             *)
(***************************************************************************)
EXTENDS Integers, Sequences, SequencesExt, FiniteSets

CONSTANTS
    Chain,        \* the organization's stores, each naming the next: the org store,
                  \* the data model version singleton, the registry store
    Configs,      \* configurations: [v2, onlyCadt], the API version and
                  \* ONLY_CADT_SUBSCRIPTIONS
    MaxRequests,  \* bound: calls of the organization API
    MaxChanges,   \* bound: changes of the governance orgList
    MaxFaults     \* bound: crashes, failed calls, unsynced stores, stale governance

ASSUME SubscriptionConstants ==
    /\ Chain \in Seq(STRING) /\ Len(Chain) > 1
    /\ Configs \subseteq [v2 : BOOLEAN, onlyCadt : BOOLEAN]
    /\ MaxRequests \in Nat /\ MaxChanges \in Nat /\ MaxFaults \in Nat

VARIABLES
    config,      \* the configuration of the node
    row,         \* the Organization row: "none", or its column subscribed, "on" or "off"
    data,        \* the parts of its registry data that SQLite holds
    dl,          \* stores of the organization the DataLayer is subscribed to
    suppressed,  \* on the list of user-deleted organizations (meta table)
    list,        \* orgList in the governance table
    ready,       \* governance readiness, a timestamp in memory that expires
    streak,      \* offOrgListStreaksByVersion, in memory
    todo,        \* what is left of each process's flow
    holder,      \* addOrDeleteOrganizationRecordMutex
    syncHeld,    \* processingSyncRegistriesTransactionMutex is held by a delete
    ticking,     \* the sync tick is past reading the subscribed rows
    passes,      \* passes of the default task begun since validate last ran
    offList,     \* history: sweeps in a row that found the row off the orgList
    used         \* bounds: [requests, changes, faults]

orgVars  == <<row, data, suppressed>>
govVars  == <<list, ready>>
flowVars == <<todo, holder, syncHeld>>
vars     == <<config, orgVars, dl, govVars, streak, flowVars, ticking, passes,
              offList, used>>

Stores  == ToSet(Chain)
Parts   == {"records", "audit"}
Process == {"default", "upkeep", "client"}
Lists   == {"absent", "empty", "names", "others"}
Grace   == 3   \* DEFAULT_PURGE_GRACE_CYCLES
Passes  == 2

\* An awaited call, with what it was given.
Call ==
    {<<call>> : call \in {"lock", "lockSync", "unlock", "unsuppress", "suppress",
                         "create", "mark", "unmark", "wipe", "calm"}}
    \cup {"read"} \X Stores
    \cup {"subscriptions", "unsub"} \X (SUBSET Stores)
    \cup {"erase"} \X (SUBSET Parts) \X BOOLEAN
    \cup {"sweep"} \X Lists

TypeOK ==
    /\ config \in Configs
    /\ row \in {"none", "on", "off"}
    /\ data \subseteq Parts
    /\ dl \subseteq Stores
    /\ suppressed \in BOOLEAN
    /\ list \in Lists
    /\ ready \in BOOLEAN
    /\ streak \in 0 .. Grace + MaxFaults
    /\ todo \in [Process -> Seq(Call)]
    /\ holder \in Process \cup {"free"}
    /\ syncHeld \in BOOLEAN /\ ticking \in BOOLEAN
    /\ passes \in 0 .. Passes
    /\ syncHeld => holder # "free"
    /\ offList \in 0 .. Grace
    /\ used \in [requests : 0 .. MaxRequests, changes : 0 .. MaxChanges,
                faults : 0 .. MaxFaults]

\* The process starts on a fresh node, or on one where the organization is
\* imported and synced.
Init ==
    /\ config \in Configs
    /\ \/ row = "none" /\ data = {} /\ dl = {} /\ list = "absent"
       \/ row = "on" /\ data = Parts /\ dl = Stores /\ list = "names"
    /\ suppressed = FALSE
    /\ ready = FALSE
    /\ streak = 0
    /\ todo = [p \in Process |-> <<>>]
    /\ holder = "free"
    /\ syncHeld = FALSE
    /\ ticking = FALSE
    /\ passes = Passes
    /\ offList = 0
    /\ used = [requests |-> 0, changes |-> 0, faults |-> 0]

-----------------------------------------------------------------------------
(* The flows *)

Read(stores) == [i \in DOMAIN stores |-> <<"read", stores[i]>>]

\* subscribeToOrganization: read each store for the id of the next one,
\* subscribing to what is not subscribed, then mark the row.
SubscribeTo == Read(Chain) \o << <<"mark">> >>

\* importOrganization: nothing under the mutex before both pointer stores have
\* synced.
Import ==
    Read(Front(Chain)) \o << <<"lock">>, <<"unsuppress">> >> \o SubscribeTo
      \o << <<"create">>, <<"unlock">> >>

Reconcile == Read(Front(Chain)) \o SubscribeTo

Unsubscribing(stores) == << <<"subscriptions", stores>>, <<"unmark">> >>

\* The loop over the stores, which may be over before its first call.
Unsubs(stores) == IF stores = {} THEN <<>> ELSE << <<"unsub", stores>> >>

\* Mutant: the registry store is not among the stores to unsubscribe.
UnsubscribePointers == Unsubscribing(ToSet(Front(Chain)))

\* unsubscribeFromOrganizationStores
Unsubscribe == Unsubscribing(Stores)

\* Mutant: the mutexes are released before the deletion is recorded.
DeleteUnlocksFirst ==
    << <<"lock">>, <<"lockSync">>, <<"erase", Parts, TRUE>>, <<"unlock">>, <<"suppress">> >>

\* deleteAllOrganizationData called by the API: one transaction.
Delete ==
    << <<"lock">>, <<"lockSync">>, <<"erase", Parts, TRUE>>, <<"suppress">>, <<"unlock">> >>

\* The same in the background: committed batches, and not a user's deletion.
Purge ==
    << <<"lock">>, <<"lockSync">>, <<"erase", {"records"}, FALSE>>,
       <<"erase", {"audit"}, FALSE>>, <<"erase", {}, TRUE>>, <<"unlock">>, <<"calm">> >>

\* syncOrganizationMeta subscribes to the org store before it reads it.
Meta == << <<"read", Chain[1]>> >>

-----------------------------------------------------------------------------
Idle(p) == todo[p] = <<>>

Begin(p, flow) == Idle(p) /\ todo' = [todo EXCEPT ![p] = flow]

At(p, call) == ~Idle(p) /\ Head(todo[p])[1] = call

Done(p) == todo' = [todo EXCEPT ![p] = Tail(@)]

Count(f) == used' = [used EXCEPT ![f] = @ + 1]

FlowOnly == UNCHANGED <<config, govVars, ticking, passes, offList, used>>

\* The store is subscribed and, once it has synced, read.
ReadStore(p) ==
    /\ At(p, "read")
    /\ dl' = dl \cup {Head(todo[p])[2]}
    /\ Done(p)
    /\ UNCHANGED <<orgVars, streak, holder, syncHeld>> /\ FlowOnly

Lock(p) ==
    /\ At(p, "lock")
    /\ holder = "free"
    /\ holder' = p
    /\ Done(p)
    /\ UNCHANGED <<orgVars, dl, streak, syncHeld>> /\ FlowOnly

LockSync(p) ==
    /\ At(p, "lockSync")
    /\ syncHeld' = TRUE
    /\ Done(p)
    /\ UNCHANGED <<orgVars, dl, streak, holder>> /\ FlowOnly

Unlock(p) ==
    /\ At(p, "unlock")
    /\ holder' = "free"
    /\ syncHeld' = FALSE
    /\ Done(p)
    /\ UNCHANGED <<orgVars, dl, streak>> /\ FlowOnly

RemoveUserDeletedOrgUid(p) ==
    /\ At(p, "unsuppress")
    /\ suppressed' = FALSE
    /\ Done(p)
    /\ UNCHANGED <<row, data, dl, streak, holder, syncHeld>> /\ FlowOnly

AddUserDeletedOrgUid(p) ==
    /\ At(p, "suppress")
    /\ suppressed' = TRUE
    /\ Done(p)
    /\ UNCHANGED <<row, data, dl, streak, holder, syncHeld>> /\ FlowOnly

\* Organization.update({ subscribed }) of the row, if it exists.
SetSubscribed(p, call, value) ==
    /\ At(p, call)
    /\ row' = IF row = "none" THEN "none" ELSE value
    /\ Done(p)
    /\ UNCHANGED <<data, suppressed, dl, streak, holder, syncHeld>> /\ FlowOnly

\* Organization.create; orgUid is unique, so a second row is refused.
Create(p) ==
    /\ At(p, "create")
    /\ row' = IF row = "none" THEN "on" ELSE row
    /\ Done(p)
    /\ UNCHANGED <<data, suppressed, dl, streak, holder, syncHeld>> /\ FlowOnly

\* What is not subscribed now is not unsubscribed later.
GetSubscriptions(p) ==
    /\ At(p, "subscriptions")
    /\ todo' = [todo EXCEPT ![p] = Unsubs(Head(@)[2] \cap dl) \o Tail(@)]
    /\ UNCHANGED <<orgVars, dl, streak, holder, syncHeld>> /\ FlowOnly

\* The store whose turn it is in the loop over the stores.
IsFirst(store, stores) ==
    \E i \in DOMAIN Chain : /\ store = Chain[i] /\ store \in stores
                           /\ \A j \in 1 .. i - 1 : Chain[j] \notin stores

UnsubscribeStore(p) ==
    /\ At(p, "unsub")
    /\ \E store \in Stores :
          /\ IsFirst(store, Head(todo[p])[2])
          /\ dl' = dl \ {store}
          /\ todo' = [todo EXCEPT ![p] = Unsubs(Head(@)[2] \ {store}) \o Tail(@)]
    /\ UNCHANGED <<orgVars, streak, holder, syncHeld>> /\ FlowOnly

\* One transaction of a delete or purge: parts of the data, or the row too.
Erase(p) ==
    /\ At(p, "erase")
    /\ data' = data \ Head(todo[p])[2]
    /\ row' = IF Head(todo[p])[3] THEN "none" ELSE row
    /\ Done(p)
    /\ UNCHANGED <<suppressed, dl, streak, holder, syncHeld>> /\ FlowOnly

\* resyncOrganization's transaction: V1 drops all data, V2 the audit rows.
Wipe(p) ==
    /\ At(p, "wipe")
    /\ data' = IF config.v2 THEN data \ {"audit"} ELSE {}
    /\ Done(p)
    /\ UNCHANGED <<row, suppressed, dl, streak, holder, syncHeld>> /\ FlowOnly

ForgetStreak(p) ==
    /\ At(p, "calm")
    /\ streak' = 0
    /\ Done(p)
    /\ UNCHANGED <<orgVars, dl, holder, syncHeld>> /\ FlowOnly

-----------------------------------------------------------------------------
(* sync-default-organizations, every 30 s *)

\* Mutant: an organization the user deleted is skipped under
\* ONLY_CADT_SUBSCRIPTIONS too.
WantedUnlessDeleted == list = "names" /\ ~suppressed

Validating == ~Idle("upkeep") /\ todo["upkeep"] # Meta

Wanted == list = "names" /\ (config.onlyCadt \/ ~suppressed)

\* The orgList and the row are read; an import, or under
\* ONLY_CADT_SUBSCRIPTIONS a new subscription, comes before the sweep.
StartDefault ==
    /\ Begin("default",
             (IF Wanted /\ row = "none" THEN Import
              ELSE IF Wanted /\ config.onlyCadt /\ row = "off" THEN SubscribeTo
              ELSE <<>>) \o << <<"sweep", list>> >>)
    /\ passes' = IF ~Validating /\ passes < Passes THEN passes + 1 ELSE passes
    /\ UNCHANGED <<config, orgVars, dl, govVars, streak, holder, syncHeld, ticking,
                   offList, used>>

\* The orgList the pass read when it started.
SweptList == Head(todo["default"])[2]

\* removeOrgsNotInOrgList runs: under ONLY_CADT_SUBSCRIPTIONS, with an orgList
\* that is not empty and that a governance sync has vouched for lately.
Sweeps == config.onlyCadt /\ SweptList \in {"names", "others"} /\ ready

EndSweep(flow, newStreak) ==
    /\ todo' = [todo EXCEPT !["default"] = flow]
    /\ streak' = newStreak
    /\ UNCHANGED <<config, orgVars, dl, govVars, holder, syncHeld, ticking, passes, used>>

\* Nothing to remove; being on the orgList resets the streak.
SweepSpares ==
    /\ At("default", "sweep")
    /\ ~Sweeps \/ row = "none" \/ SweptList = "names"
    /\ EndSweep(<<>>, IF Sweeps /\ row # "none" THEN 0 ELSE streak)
    /\ offList' = IF Sweeps /\ row # "none" THEN 0 ELSE offList

OffOrgList ==
    /\ At("default", "sweep") /\ Sweeps /\ SweptList = "others"
    /\ offList' = IF offList < Grace THEN offList + 1 ELSE offList

SweepUnsubscribes ==
    /\ OffOrgList
    /\ row = "on"
    /\ EndSweep(Unsubscribe, 0)

\* areOrganizationStoresUnsubscribed says no.
SweepStillSubscribed ==
    /\ OffOrgList
    /\ row = "off" /\ dl # {}
    /\ EndSweep(<<>>, 0)

\* Mutant: the comparison with the grace cycles is off by one.
SweepCountsOnce ==
    /\ OffOrgList
    /\ row = "off" /\ dl = {}
    /\ EndSweep(IF streak + 2 < Grace THEN <<>> ELSE Purge, streak + 1)

\* Mutant: the comparison with the grace cycles never succeeds.
SweepNeverPurges ==
    /\ OffOrgList
    /\ row = "off" /\ dl = {}
    /\ EndSweep(<<>>, streak + 1)

\* Mutant: every pass counts from the beginning.
SweepCountsFresh ==
    /\ OffOrgList
    /\ row = "off" /\ dl = {}
    /\ EndSweep(<<>>, 1)

SweepCounts ==
    /\ OffOrgList
    /\ row = "off" /\ dl = {}
    /\ EndSweep(IF streak + 1 < Grace THEN <<>> ELSE Purge, streak + 1)

Sweep == SweepSpares \/ SweepUnsubscribes \/ SweepStillSubscribed \/ SweepCounts

-----------------------------------------------------------------------------
(* validate-organization-table, every 1800 s, and sync-organization-meta *)

\* validate: a subscribed row is reconciled, an unsubscribed one gets its stores
\* unsubscribed unless the default task is about to subscribe it.  A pass of the
\* default task fits between two runs: two have begun, so one has ended.
StartValidate ==
    /\ passes = Passes
    /\ row # "none" /\ ~suppressed
    /\ row = "off" => ~(config.onlyCadt /\ list = "names")
    /\ Begin("upkeep", IF row = "on" THEN Reconcile ELSE Unsubscribe)
    /\ passes' = 0
    /\ UNCHANGED <<config, orgVars, dl, govVars, streak, holder, syncHeld,
                   ticking, offList, used>>

StartMeta ==
    /\ row = "on"
    /\ Begin("upkeep", Meta)
    /\ UNCHANGED <<config, orgVars, dl, govVars, streak, holder, syncHeld,
                   ticking, passes, offList, used>>

-----------------------------------------------------------------------------
(* The organization API *)

Request ==
    /\ used.requests < MaxRequests
    /\ Count("requests")
    /\ UNCHANGED <<config, data, suppressed, dl, govVars, streak, holder,
                   syncHeld, ticking, passes, offList>>

RequestImport == row = "none" /\ Begin("client", Import) /\ Request /\ UNCHANGED row

RequestSubscribe == Begin("client", SubscribeTo) /\ Request /\ UNCHANGED row

\* V1 only marks the row: validate does the rest.
RequestUnsubscribeV1 ==
    /\ ~config.v2 /\ row # "none"
    /\ Idle("client")
    /\ row' = "off"
    /\ Request /\ UNCHANGED todo

RequestUnsubscribeV2 ==
    /\ config.v2 /\ row # "none"
    /\ Begin("client", Unsubscribe) /\ Request /\ UNCHANGED row

\* The row is gone, the subscriptions are left.
RequestUnsubscribeStores ==
    /\ row = "none" /\ Chain[1] \in dl
    /\ Begin("client", (IF config.v2 THEN Read(Tail(Front(Chain))) ELSE <<>>) \o Unsubscribe)
    /\ Request /\ UNCHANGED row

RequestResync ==
    /\ row = "on"
    /\ Begin("client", Reconcile \o << <<"wipe">> >>) /\ Request /\ UNCHANGED row

RequestDelete ==
    /\ row # "none"
    /\ Begin("client", Delete \o Unsubscribe) /\ Request /\ UNCHANGED row

-----------------------------------------------------------------------------
(* sync-governance-body and sync-registries *)

\* A download that brings the stored orgList again renews readiness.
ListUnchanged ==
    /\ list # "absent"
    /\ ready' = TRUE
    /\ UNCHANGED <<config, orgVars, dl, list, streak, flowVars, ticking, passes,
                   offList, used>>

ListChanges ==
    /\ used.changes < MaxChanges
    /\ Count("changes")
    /\ \E l \in Lists \ {"absent", list} : list' = l
    /\ ready' = TRUE
    /\ UNCHANGED <<config, orgVars, dl, streak, flowVars, ticking, passes, offList>>

\* A download without an orgList cannot vouch for the stored one.
ListMissing ==
    /\ used.changes < MaxChanges
    /\ Count("changes")
    /\ ready' = FALSE
    /\ UNCHANGED <<config, orgVars, dl, list, streak, flowVars, ticking, passes, offList>>

\* No download succeeded for several intervals.
ReadinessExpires ==
    /\ ready /\ used.faults < MaxFaults
    /\ Count("faults")
    /\ ready' = FALSE
    /\ UNCHANGED <<config, orgVars, dl, list, streak, flowVars, ticking, passes, offList>>

StartTick ==
    /\ ~ticking /\ row = "on"
    /\ ticking' = TRUE
    /\ UNCHANGED <<config, orgVars, dl, govVars, streak, flowVars, passes, offList, used>>

\* The tick's transaction, under the processing mutex.  It does not look at the
\* organization's row again.
Ingest ==
    /\ ticking /\ ~syncHeld
    /\ ticking' = FALSE
    /\ data' = Parts
    /\ UNCHANGED <<config, row, suppressed, dl, govVars, streak, flowVars, passes,
                   offList, used>>

\* Nothing new, or the tick returned early.
TickEnds ==
    /\ ticking
    /\ ticking' = FALSE
    /\ UNCHANGED <<config, orgVars, dl, govVars, streak, flowVars, passes, offList, used>>

-----------------------------------------------------------------------------
\* A call fails, or a store has not synced: the flow ends and its mutexes are
\* released.  A failed import or subscription does not keep the task from its
\* sweep, and a failed confirmation resets the streak.
Fail(p) ==
    /\ ~Idle(p) /\ used.faults < MaxFaults
    /\ Count("faults")
    /\ ~At(p, "unsub")
    /\ todo' = [todo EXCEPT ![p] =
         IF ~At(p, "sweep") /\ Last(@)[1] = "sweep" THEN << Last(@) >> ELSE <<>>]
    /\ streak' = IF At(p, "sweep") /\ row = "off" THEN 0 ELSE streak
    /\ holder' = IF holder = p THEN "free" ELSE holder
    /\ syncHeld' = (syncHeld /\ holder # p)
    /\ UNCHANGED <<config, orgVars, dl, govVars, ticking, passes, offList>>

\* A failed unsubscribe does not keep the other stores from theirs, only the row
\* from its mark.
FailUnsubscribe(p) ==
    /\ At(p, "unsub") /\ used.faults < MaxFaults
    /\ Count("faults")
    /\ \E store \in Stores :
          /\ IsFirst(store, Head(todo[p])[2])
          /\ todo' = [todo EXCEPT ![p] = Unsubs(Head(@)[2] \ {store})]
    /\ UNCHANGED <<config, orgVars, dl, govVars, streak, holder, syncHeld, ticking,
                   passes, offList>>

\* The process restarts: flows, mutexes, streak and readiness are in memory.
Crash ==
    /\ used.faults < MaxFaults
    /\ Count("faults")
    /\ todo' = [p \in Process |-> <<>>]
    /\ holder' = "free" /\ syncHeld' = FALSE
    /\ streak' = 0 /\ ready' = FALSE /\ ticking' = FALSE /\ passes' = Passes
    /\ UNCHANGED <<config, orgVars, dl, list, offList>>

Carry(p) ==
    \/ ReadStore(p) \/ Lock(p) \/ LockSync(p) \/ Unlock(p)
    \/ RemoveUserDeletedOrgUid(p) \/ AddUserDeletedOrgUid(p)
    \/ SetSubscribed(p, "mark", "on") \/ SetSubscribed(p, "unmark", "off") \/ Create(p)
    \/ GetSubscriptions(p) \/ UnsubscribeStore(p) \/ Erase(p) \/ Wipe(p) \/ ForgetStreak(p)

Next ==
    \/ \E p \in Process : Carry(p) \/ Fail(p) \/ FailUnsubscribe(p)
    \/ StartDefault \/ Sweep
    \/ StartValidate \/ StartMeta
    \/ RequestImport \/ RequestSubscribe \/ RequestUnsubscribeV1
    \/ RequestUnsubscribeV2 \/ RequestUnsubscribeStores \/ RequestResync \/ RequestDelete
    \/ ListUnchanged \/ ListChanges \/ ListMissing \/ ReadinessExpires
    \/ StartTick \/ Ingest \/ TickEnds
    \/ Crash

Spec == Init /\ [][Next]_vars

\* The scheduler keeps running the tasks and awaited calls return.  validate and
\* the meta task are two jobs that take turns here, hence strong fairness.
Fairness ==
    /\ \A p \in Process : WF_vars(Carry(p))
    /\ WF_vars(StartDefault) /\ WF_vars(Sweep)
    /\ SF_vars(StartValidate)
    /\ WF_vars(Ingest \/ TickEnds)

FairSpec == Spec /\ Fairness

-----------------------------------------------------------------------------
(* Properties *)

\* An organization the user deleted has no row: an import takes it off the list
\* before it creates the row, a delete lists it before another import may run.
DeletedHasNoRow == suppressed => row = "none"

\* A row is removed last and when it is due.  "delete the org last so an
\* interrupted purge remains visible and can be retried": whoever removes it, no
\* registry data is left at that moment.  And the background takes it only if as
\* many sweeps as the grace cycles, of those that found a row of the
\* organization, in a row found it off a vouched orgList: a truncated orgList, a
\* restart or a stale pass in between does not shorten them.  A sweep that finds
\* no row counts for nothing, even with the organization on the orgList: streaks
\* are kept by orgUid and outlive the row.
RemovalIsDue ==
    [][row # "none" /\ row' = "none" =>
          /\ data' = {}
          /\ At("default", "erase") => offList >= Grace]_vars

\* Whatever requests, failures and restarts left behind, the stores of a row
\* are in the end subscribed exactly if the row says so.
SubscriptionsSettle ==
    <>[](row # "none" => dl = IF row = "on" THEN Stores ELSE {})

\* An organization that stays on the orgList is imported, and under
\* ONLY_CADT_SUBSCRIPTIONS stays subscribed, even if the user deletes it.
ListedIsImported ==
    <>[](list = "names" /\ (config.onlyCadt \/ ~suppressed))
      => <>[](row # "none" /\ (config.onlyCadt => row = "on"))

\* Under ONLY_CADT_SUBSCRIPTIONS an organization that stays off a vouched
\* orgList is removed.
UnlistedIsRemoved ==
    <>[](config.onlyCadt /\ list = "others" /\ ready) => <>[](row = "none")

\* "Removed all organization records": once a user's delete and the sync tick are
\* over, none of the organization's data is left.
DeleteIsComplete ==
    (suppressed /\ ~ticking /\ Idle("client")) => data = {}
=============================================================================
