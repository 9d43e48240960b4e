----------------------------- MODULE StorePush -----------------------------
(***************************************************************************)
(* Pushes of changes to one DataLayer store this node owns, and the other  *)
(* users of its wallet: mirror announcements, store creation and coin      *)
(* splits.  DataLayer stages a pending root and then has the wallet create *)
(* the transaction that publishes it; everything CADT knows of either it   *)
(* learns from one RPC and acts on with a later one.                       *)
(*                                                                         *)
(* An actor's pc is the RPC it sends next, with what it needs for it.      *)
(***************************************************************************)
EXTENDS Integers, Sequences, SequencesExt, FiniteSets, CoinSplit

CONSTANTS
    Pushes, Mirrors, Creators, Splitters,  \* the actors, by what they do
    Casts,        \* which of them run together
    Wallets,      \* initial coins of the wallet
    MaxAttempts,  \* maxAttempts of one push: 5 in the code
    MaxRetries,   \* MAX_PUSH_RETRIES: 60 in the code
    Diagnose,     \* retries between two looks at the wallet's health: 5
    MaxFaults     \* bound: failed calls, rejected transactions, restarts

Actors == Pushes \cup Mirrors \cup Creators \cup Splitters

ASSUME PushConstants ==
    /\ Casts \subseteq SUBSET Actors
    /\ Pushes \cap (Mirrors \cup Creators \cup Splitters) = {}
    /\ Mirrors \cap (Creators \cup Splitters) = {} /\ Creators \cap Splitters = {}
    /\ Wallets \subseteq Seq(Nat \ {0})
    /\ MaxAttempts \in Nat \ {0} /\ Diagnose \in Nat \ {0}
    /\ MaxRetries \in Nat /\ MaxFaults \in Nat

VARIABLES
    pc,         \* what each actor does next
    tries,      \* retries of a push, attempts of a creation
    attempts,   \* attempts of one pushChangeListToDataLayer
    sightings,  \* of a pending root in it; counts to 2
    cleared,    \* it has cleared one
    root,       \* the pending root of the store, 0 for none
    staged,     \* roots staged so far, and who staged each
    published,  \* pushes whose changes the store has
    txs,        \* transactions: [by, of, state]
    mirrors,    \* mirror coins of the store on the chain
    stores,     \* confirmed stores of each creator
    coins,      \* amounts of the wallet's unspent coins
    planned,    \* how many there were when the split was planned
    seen,       \* history: the root each push saw last, and how often in a row
    mishaps,    \* history: "unanswered" questions, "lost" transactions
    faults      \* bound

pushVars  == <<tries, attempts, sightings, cleared>>
storeVars == <<root, staged, published>>
chainVars == <<mirrors, stores, coins, planned>>
vars == <<pc, pushVars, storeVars, txs, chainVars, seen, mishaps, faults>>

MaxStores == 3   \* maxRetries of createDataLayerStoreWithRetry

\* The wallet a transaction belongs to.  The fee an update pays from the
\* standard wallet is left out.
WalletOf(a) == IF a \in Splitters THEN "xch" ELSE "dl"

Transaction == [by : Actors, of : Nat, state : {"live", "rejected", "lost"}]

TypeOK ==
    /\ DOMAIN pc = Actors
    /\ tries \in [Pushes \cup Creators -> 0 .. MaxRetries + MaxStores]
    /\ attempts \in [Pushes -> 0 .. MaxAttempts]
    /\ sightings \in [Pushes -> 0 .. 2]
    /\ cleared \in [Pushes -> BOOLEAN]
    /\ root \in 0 .. Len(staged)
    /\ staged \in Seq(Pushes)
    /\ published \subseteq Pushes
    /\ txs \subseteq Transaction
    /\ mirrors \in Nat
    /\ stores \in [Creators -> Nat]
    /\ coins \in Seq(Nat \ {0})
    /\ planned \in Nat
    /\ seen \in [Pushes -> (0 .. Len(staged)) \X (0 .. 2)]
    /\ mishaps \subseteq {"unanswered", "lost"}
    /\ faults \in 0 .. MaxFaults

First(a) ==
    IF a \in Pushes THEN <<"check">> ELSE IF a \in Creators THEN <<"settle">> ELSE <<"idle">>

Init ==
    /\ \E cast \in Casts :
          /\ pc = [a \in Actors |-> IF a \in cast THEN First(a) ELSE <<"off">>]
          /\ coins \in IF cast \cap Splitters = {} THEN {<<>>} ELSE Wallets
    /\ tries = [a \in Pushes \cup Creators |-> 0]
    /\ attempts = [p \in Pushes |-> 0]
    /\ sightings = [p \in Pushes |-> 0]
    /\ cleared = [p \in Pushes |-> FALSE]
    /\ root = 0 /\ staged = <<>> /\ published = {}
    /\ txs = {} /\ mirrors = 0
    /\ stores = [c \in Creators |-> 0]
    /\ planned = 0
    /\ seen = [p \in Pushes |-> <<0, 0>>]
    /\ mishaps = {} /\ faults = 0

-----------------------------------------------------------------------------
At(a, step) == pc[a][1] = step
Goto(a, step) == pc' = [pc EXCEPT ![a] = step]

In(wallet, state) == {t \in txs : WalletOf(t.by) = wallet /\ t.state = state}
Live == {t \in txs : t.state = "live"}
Unconfirmed == {t \in txs : t.state # "lost"}

Fault == faults < MaxFaults /\ faults' = faults + 1

\* What an actor did changes only where it stands.
Steps(a, step) ==
    /\ Goto(a, step)
    /\ UNCHANGED <<pushVars, storeVars, txs, chainVars, seen, mishaps, faults>>

\* waitForAllTransactionsToConfirm and hasAnyUnconfirmedTransactions take an
\* RPC that reports failure for a settled wallet.
Unanswered == Fault /\ mishaps' = mishaps \cup {"unanswered"}

\* waitForAllTransactionsToConfirm gives up after half an hour and goes on.  A
\* live transaction is taken to confirm or be rejected within that time; a
\* rejected one stays.
Settles == \/ Live = {} /\ UNCHANGED <<mishaps, faults>>
           \/ Live # {} /\ Unanswered

-----------------------------------------------------------------------------
(* pushChangesWhenStoreIsAvailable *)

\* The next of the retries, 30 s later.
NextTry(p) ==
    /\ pc' = [pc EXCEPT ![p] = IF tries[p] < MaxRetries THEN <<"check">> ELSE <<"failed">>]
    /\ tries' = [tries EXCEPT ![p] = IF @ < MaxRetries THEN @ + 1 ELSE @]

PushReady(p) ==
    /\ At(p, "check")
    /\ \/ Unconfirmed = {} /\ UNCHANGED <<mishaps, faults>>
       \/ Unconfirmed # {} /\ Unanswered
    /\ Goto(p, <<"wait">>)
    /\ attempts' = [attempts EXCEPT ![p] = 0]
    /\ sightings' = [sightings EXCEPT ![p] = 0]
    /\ cleared' = [cleared EXCEPT ![p] = FALSE]
    /\ seen' = [seen EXCEPT ![p] = <<0, 0>>]
    /\ UNCHANGED <<tries, storeVars, txs, chainVars>>

\* Mutant: rejected transactions are never looked for.
PushNeverDiagnoses(p) ==
    /\ At(p, "check")
    /\ Unconfirmed # {}
    /\ Live = {} \/ tries[p] < MaxRetries \div 2
    /\ NextTry(p)
    /\ UNCHANGED <<attempts, sightings, cleared, storeVars, txs, chainVars, seen, mishaps, faults>>

\* The retries last half an hour.  What is live is taken to settle while half of
\* them are left; the code calls a transaction stuck by then.
PushNotReady(p) ==
    /\ At(p, "check")
    /\ Unconfirmed # {}
    /\ Live = {} \/ tries[p] < MaxRetries \div 2
    /\ IF tries[p] > 0 /\ tries[p] % Diagnose = 0
       THEN Goto(p, <<"health", "xch", TRUE>>) /\ UNCHANGED tries
       ELSE NextTry(p)
    /\ UNCHANGED <<attempts, sightings, cleared, storeVars, txs, chainVars, seen, mishaps, faults>>

\* The wallet does not answer, or the store has lost its local data: the push
\* ends with an exception and without its failedCallback.
PushDropped(p) ==
    /\ At(p, "check")
    /\ Fault
    /\ Goto(p, <<"dropped">>)
    /\ UNCHANGED <<pushVars, storeVars, txs, chainVars, seen, mishaps>>

-----------------------------------------------------------------------------
(* pushChangeListToDataLayer *)

PushWaits(p) ==
    /\ At(p, "wait")
    /\ Settles
    /\ Goto(p, <<"call">>)
    /\ UNCHANGED <<pushVars, storeVars, txs, chainVars, seen>>

\* "Already have a pending root waiting for confirmation"
SeesPendingRoot(p) ==
    /\ At(p, "call") /\ root # 0
    /\ attempts' = [attempts EXCEPT ![p] = @ + 1]
    /\ sightings' = [sightings EXCEPT ![p] = Least(@ + 1, 2)]
    /\ seen' = [seen EXCEPT ![p] = <<root, IF @[1] = root THEN 2 ELSE 1>>]
    /\ Goto(p, <<"settle">>)
    /\ UNCHANGED <<tries, cleared, storeVars, txs, chainVars, mishaps, faults>>

\* "Key already present" and "no change to tree data" count as success.
AlreadyPresent(p) ==
    /\ At(p, "call") /\ root = 0
    /\ p \in published
    /\ Steps(p, <<"ok">>)

StageRoot(p) ==
    /\ At(p, "call") /\ root = 0
    /\ p \notin published
    /\ staged' = Append(staged, p)
    /\ root' = Len(staged')
    /\ Goto(p, <<"staged", root'>>)
    /\ UNCHANGED <<pushVars, published, txs, chainVars, seen, mishaps, faults>>

Publishes(p) == txs' = txs \cup {[by |-> p, of |-> pc[p][2], state |-> "live"]}

CreateTransaction(p) ==
    /\ At(p, "staged")
    /\ Publishes(p)
    /\ Goto(p, <<"ok">>)
    /\ UNCHANGED <<pushVars, storeVars, chainVars, seen, mishaps, faults>>

\* The call fails with the root staged, or its answer is lost.
PushFails(p) ==
    /\ At(p, "staged")
    /\ Fault
    /\ UNCHANGED txs \/ Publishes(p)
    /\ NextTry(p)
    /\ UNCHANGED <<attempts, sightings, cleared, storeVars, chainVars, seen, mishaps>>

\* "is not owned by DL Wallet": permanent, failedCallback at once.
PushDisowned(p) ==
    /\ At(p, "call")
    /\ Fault
    /\ Goto(p, <<"disowned">>)
    /\ UNCHANGED <<pushVars, storeVars, txs, chainVars, seen, mishaps>>

\* PENDING_ROOT_GRACE_MS before the next attempt, or the attempts are used up.
\* DataLayer is taken to stage a root and create its transaction in less.
GiveGrace(p) ==
    IF attempts[p] < MaxAttempts
    THEN /\ Goto(p, <<"grace", root>>) /\ UNCHANGED tries
    ELSE NextTry(p)

\* Mutant: the next attempt comes at once.
GraceIsOverAtOnce(p) ==
    /\ At(p, "grace")
    /\ Steps(p, <<"wait">>)

GraceIsOver(p) ==
    /\ At(p, "grace")
    /\ ~\E q \in Pushes : pc[q] = <<"staged", pc[p][2]>>
    /\ Steps(p, <<"wait">>)

\* A root seen for the second time may be one nobody will confirm.
PendingRootSettles(p) ==
    /\ At(p, "settle") /\ p \in Pushes
    /\ Settles
    /\ IF sightings[p] > 1 /\ ~cleared[p]
       THEN Goto(p, <<"ask">>) /\ UNCHANGED tries
       ELSE GiveGrace(p)
    /\ UNCHANGED <<attempts, sightings, cleared, storeVars, txs, chainVars, seen>>

\* clearOrphanedPendingRoot: both wallets are asked; only a transaction that can
\* still confirm keeps the root.
ClearsOrphan(p) ==
    /\ At(p, "ask")
    /\ Live = {}
    /\ Steps(p, <<"clear">>)

LeavesRoot(p) ==
    /\ \/ At(p, "ask") /\ Live # {} /\ UNCHANGED faults
       \/ At(p, "ask") /\ Fault          \* or the wallet cannot be asked
       \/ At(p, "clear") /\ Fault
    /\ GiveGrace(p)
    /\ UNCHANGED <<attempts, sightings, cleared, storeVars, txs, chainVars, seen, mishaps>>

\* The clear gives its attempt back.
ClearPendingRoots(p) ==
    /\ At(p, "clear")
    /\ root' = 0
    /\ cleared' = [cleared EXCEPT ![p] = TRUE]
    /\ attempts' = [attempts EXCEPT ![p] = @ - 1]
    /\ Goto(p, <<"wait">>)
    /\ UNCHANGED <<tries, sightings, staged, published, txs, chainVars, seen, mishaps, faults>>

-----------------------------------------------------------------------------
(* getTransactionHealth and clearRejectedTransactions *)

\* Where an actor goes on once a wallet has been looked at.
GoOn(a, wallet, deleted, settled) ==
    \/ a \in Creators /\ Goto(a, <<"settle">>) /\ UNCHANGED tries
    \/ a \in Pushes /\ (deleted \/ wallet = "dl") /\ NextTry(a)
    \/ /\ wallet = "xch"
       /\ a \in Splitters \/ (a \in Pushes /\ ~deleted)
       /\ Goto(a, <<"health", "dl", settled>>) /\ UNCHANGED tries
    \/ /\ wallet = "dl" /\ a \in Splitters
       /\ Goto(a, IF settled THEN <<"split">> ELSE <<"idle">>) /\ UNCHANGED tries

\* Rejected transactions are cleared only if no other is unconfirmed.
Health(a) ==
    /\ At(a, "health")
    /\ LET w == pc[a][2]
           busy == In(w, "live") # {}
       IN  IF In(w, "rejected") # {} /\ ~busy
           THEN Goto(a, <<"delete", w, pc[a][3]>>) /\ UNCHANGED tries
           ELSE GoOn(a, w, FALSE, pc[a][3] /\ ~busy)
    /\ UNCHANGED <<attempts, sightings, cleared, storeVars, txs, chainVars, seen, mishaps, faults>>

\* delete_unconfirmed_transactions takes all of the wallet's: one that came after
\* the question is forgotten, though the network has it.
DeleteUnconfirmed(a) ==
    /\ At(a, "delete")
    /\ LET w == pc[a][2]
       IN  /\ txs' = (txs \ (In(w, "live") \cup In(w, "rejected")))
                       \cup {[t EXCEPT !.state = "lost"] : t \in In(w, "live")}
           /\ mishaps' = IF In(w, "live") = {} THEN mishaps ELSE mishaps \cup {"lost"}
           /\ GoOn(a, w, TRUE, pc[a][3])
    /\ UNCHANGED <<attempts, sightings, cleared, storeVars, chainVars, seen, faults>>

DeleteFails(a) ==
    /\ At(a, "delete")
    /\ Fault
    /\ GoOn(a, pc[a][2], FALSE, FALSE)
    /\ UNCHANGED <<attempts, sightings, cleared, storeVars, txs, chainVars, seen, mishaps>>

\* The wallet does not answer: a push tries again, a creation fails, a cycle ends.
HealthFails(a) ==
    /\ At(a, "health")
    /\ Fault
    /\ \/ a \in Pushes /\ NextTry(a)
       \/ a \in Creators /\ Goto(a, <<"failed">>) /\ UNCHANGED tries
       \/ a \in Splitters /\ Goto(a, <<"idle">>) /\ UNCHANGED tries
    /\ UNCHANGED <<attempts, sightings, cleared, storeVars, txs, chainVars, seen, mishaps>>

-----------------------------------------------------------------------------
(* addMirror *)

InFlight(m) == \E n \in Mirrors : n # m /\ ~At(n, "idle") /\ ~At(n, "off")

\* Mutant: callers do not look for one another.
StartMirrorAnyway(m) == At(m, "idle") /\ m \in Mirrors /\ Steps(m, <<"settle">>)

\* pendingMirrorCreations: one announcement of a store and url at a time.
StartMirror(m) == At(m, "idle") /\ m \in Mirrors /\ ~InFlight(m) /\ Steps(m, <<"settle">>)

MirrorSettles(m) ==
    /\ At(m, "settle") /\ m \in Mirrors
    /\ Settles
    /\ Goto(m, <<"look">>)
    /\ UNCHANGED <<pushVars, storeVars, txs, chainVars, seen>>

\* getMirrors answers a failure with no mirrors.
LookForMirror(m) ==
    /\ At(m, "look")
    /\ \/ mirrors = 0 /\ Goto(m, <<"add">>) /\ UNCHANGED <<mishaps, faults>>
       \/ mirrors > 0 /\ Goto(m, <<"idle">>) /\ UNCHANGED <<mishaps, faults>>
       \/ mirrors > 0 /\ Goto(m, <<"add">>) /\ Unanswered
    /\ UNCHANGED <<pushVars, storeVars, txs, chainVars, seen>>

AddMirror(m) ==
    /\ At(m, "add")
    /\ txs' = txs \cup {[by |-> m, of |-> 0, state |-> "live"]}
    /\ Goto(m, <<"idle">>)
    /\ UNCHANGED <<pushVars, storeVars, chainVars, seen, mishaps, faults>>

\* checkWalletBalanceForMirror finds too little, or the call fails.
NoMirror(m) == At(m, "add") /\ Steps(m, <<"idle">>)

-----------------------------------------------------------------------------
(* createDataLayerStoreWithRetry *)

CreatorSettles(c) ==
    /\ At(c, "settle") /\ c \in Creators
    /\ Settles
    /\ Goto(c, <<"create">>)
    /\ UNCHANGED <<pushVars, storeVars, txs, chainVars, seen>>

CreateStore(c) ==
    /\ At(c, "create")
    /\ txs' = txs \cup {[by |-> c, of |-> tries[c], state |-> "live"]}
    /\ Goto(c, <<"poll">>)
    /\ UNCHANGED <<pushVars, storeVars, chainVars, seen, mishaps, faults>>

\* waitForNewStoreToBeConfirmed
StoreConfirmed(c) == At(c, "poll") /\ stores[c] > 0 /\ Steps(c, <<"ok">>)

StoreRejected(c) ==
    /\ At(c, "poll") /\ stores[c] = 0
    /\ [by |-> c, of |-> tries[c], state |-> "rejected"] \in txs
    /\ IF tries[c] + 1 < MaxStores
       THEN /\ tries' = [tries EXCEPT ![c] = @ + 1]
            /\ Goto(c, <<"health", "dl", TRUE>>)
       ELSE Goto(c, <<"failed">>) /\ UNCHANGED tries
    /\ UNCHANGED <<attempts, sightings, cleared, storeVars, txs, chainVars, seen, mishaps, faults>>

\* Mutant: a creation that takes too long is tried again.
StoreTriesAgain(c) ==
    /\ At(c, "create") \/ At(c, "poll")
    /\ Fault
    /\ tries' = [tries EXCEPT ![c] = Least(@ + 1, MaxStores)]
    /\ Goto(c, <<"create">>)
    /\ UNCHANGED <<attempts, sightings, cleared, storeVars, txs, chainVars, seen, mishaps>>

\* The call fails, or the store is not confirmed after an hour: only a rejection
\* is tried again.
StoreFails(c) ==
    /\ At(c, "create") \/ At(c, "poll")
    /\ Fault
    /\ Goto(c, <<"failed">>)
    /\ UNCHANGED <<pushVars, storeVars, txs, chainVars, seen, mishaps>>

-----------------------------------------------------------------------------
(* runCoinManagement *)

Usable(cs)  == Cardinality({i \in DOMAIN cs : cs[i] >= MinUsable})
Largest(cs) == CHOOSE amount \in ToSet(cs) : \A other \in ToSet(cs) : other <= amount

Plan == IF coins = <<>> THEN 0 ELSE PlanCoinSplit(Usable(coins), Largest(coins))

StartCycle(k) ==
    /\ At(k, "idle") /\ k \in Splitters
    /\ Plan > 0
    /\ Goto(k, <<"health", "xch", TRUE>>)
    /\ planned' = Len(coins)
    /\ UNCHANGED <<pushVars, storeVars, txs, mirrors, stores, coins, seen, mishaps, faults>>

\* The transaction names the coin it spends, here by how many coins there were;
\* the wallet refuses one that is spent.
SplitCoins(k) ==
    /\ At(k, "split")
    /\ txs' = IF planned = Len(coins)
              THEN txs \cup {[by |-> k, of |-> planned, state |-> "live"]} ELSE txs
    /\ Goto(k, <<"idle">>)
    /\ UNCHANGED <<pushVars, storeVars, chainVars, seen, mishaps, faults>>

SplitFails(k) ==
    /\ At(k, "split")
    /\ Fault
    /\ Goto(k, <<"idle">>)
    /\ UNCHANGED <<pushVars, storeVars, txs, chainVars, seen, mishaps>>

\* The largest coin becomes Plan coins and their change.
AfterSplit ==
    LET change == Remainder(Largest(coins), Plan)
        n == CHOOSE i \in DOMAIN coins : coins[i] = Largest(coins)
    IN  RemoveAt(coins, n) \o [i \in 1 .. Plan |-> CoinSize]
          \o (IF change > 0 THEN <<change>> ELSE <<>>)

-----------------------------------------------------------------------------
(* The network *)

\* The block publishes the root if it is still pending.
ConfirmUpdate(t) ==
    /\ t.by \in Pushes
    /\ published' = IF root = t.of THEN published \cup {t.by} ELSE published
    /\ root' = IF root = t.of THEN 0 ELSE root
    /\ UNCHANGED <<staged, mirrors, stores, coins>>

ConfirmOther(t) ==
    /\ \/ t.by \in Mirrors /\ mirrors' = mirrors + 1 /\ UNCHANGED <<stores, coins>>
       \/ t.by \in Creators /\ stores' = [stores EXCEPT ![t.by] = @ + 1]
          /\ UNCHANGED <<mirrors, coins>>
       \/ t.by \in Splitters /\ t.of = Len(coins) /\ coins' = AfterSplit
          /\ UNCHANGED <<mirrors, stores>>
    /\ UNCHANGED storeVars

Confirm(t) ==
    /\ t.state # "rejected"
    /\ ConfirmUpdate(t) \/ ConfirmOther(t)
    /\ txs' = txs \ {t}
    /\ UNCHANGED <<pc, pushVars, planned, seen, mishaps, faults>>

\* Every peer refuses the transaction; a coin that is spent already is one
\* reason.  A rejected transaction is taken never to confirm.
Reject(t) ==
    /\ t.state # "rejected"
    /\ IF t.by \in Splitters /\ t.of # Len(coins) THEN UNCHANGED faults ELSE Fault
    /\ txs' = (txs \ {t})
                \cup (IF t.state = "live" THEN {[t EXCEPT !.state = "rejected"]} ELSE {})
    /\ UNCHANGED <<pc, pushVars, storeVars, chainVars, seen, mishaps>>

\* The process restarts: pushes and creations are gone, tasks begin again.
Crash ==
    /\ Fault
    /\ pc' = [a \in Actors |->
         CASE a \in Mirrors \cup Splitters /\ ~At(a, "off") -> <<"idle">>
           [] a \in Pushes \cup Creators /\ pc[a][1] \notin {"off", "ok"} -> <<"dropped">>
           [] OTHER -> pc[a]]
    /\ UNCHANGED <<pushVars, storeVars, txs, chainVars, seen, mishaps>>

PushStep(p) ==
    \/ PushReady(p) \/ PushNotReady(p) \/ PushWaits(p) \/ SeesPendingRoot(p)
    \/ AlreadyPresent(p) \/ StageRoot(p) \/ CreateTransaction(p) \/ GraceIsOver(p)
    \/ PendingRootSettles(p) \/ ClearsOrphan(p) \/ LeavesRoot(p) \/ ClearPendingRoots(p)

PushTrouble(p) == PushDropped(p) \/ PushFails(p) \/ PushDisowned(p)

WalletStep(a) == Health(a) \/ DeleteUnconfirmed(a)

MirrorStep(m) ==
    StartMirror(m) \/ MirrorSettles(m) \/ LookForMirror(m) \/ AddMirror(m) \/ NoMirror(m)

CreatorStep(c) ==
    \/ CreatorSettles(c) \/ CreateStore(c) \/ StoreConfirmed(c) \/ StoreRejected(c)
    \/ StoreFails(c)

SplitterStep(k) == StartCycle(k) \/ SplitCoins(k) \/ SplitFails(k)

Settle == \E t \in txs : Confirm(t) \/ Reject(t)

Next ==
    \/ \E p \in Pushes : PushStep(p) \/ PushTrouble(p)
    \/ \E a \in Actors : WalletStep(a) \/ HealthFails(a) \/ DeleteFails(a)
    \/ \E m \in Mirrors : MirrorStep(m)
    \/ \E c \in Creators : CreatorStep(c)
    \/ \E k \in Splitters : SplitterStep(k)
    \/ Settle
    \/ Crash

Spec == Init /\ [][Next]_vars

\* RPCs return and timers fire; the network confirms or refuses a transaction.
Fairness ==
    /\ \A p \in Pushes : WF_vars(PushStep(p) \/ WalletStep(p))
    /\ \A k \in Splitters : WF_vars(SplitterStep(k) \/ WalletStep(k))
    /\ \A c \in Creators : WF_vars(CreatorStep(c) \/ WalletStep(c))
    /\ WF_vars(Settle)

FairSpec == Spec /\ Fairness

-----------------------------------------------------------------------------
(* Properties *)

\* A root is to be published: the wallet has its transaction, or DataLayer is
\* about to create it.
Alive(r) ==
    \/ \E t \in txs : t.of = r /\ t.by \in Pushes /\ t.state = "live"
    \/ \E p \in Pushes : pc[p] = <<"staged", r>>

\* "Dropping the root is only safe once the wallet is known to be settled": a
\* root a push saw twice in a row and then clears has no transaction in the wallet
\* that could still publish it, and none on its way there.
SeenRootIsDead ==
    [][\A p \in Pushes :
         At(p, "clear") /\ root # 0 /\ root' = 0 /\ pc'[p] = <<"wait">>
           /\ seen[p] = <<root, 2>> => ~Alive(root)]_vars

\* A root left behind, a rejected transaction or a lost answer does not keep a
\* store from being written: a push gets through before its retries run out,
\* unless it is ended by the process, the wallet or the loss of the store.
PushGetsThrough ==
    \A p \in Pushes : <>(pc[p][1] \in {"off", "ok", "dropped", "disowned"})

\* "prevent duplicates from concurrent callers": a store is announced once,
\* as long as every question was answered and no transaction was deleted.
OneMirror ==
    mishaps = {} =>
      mirrors + Cardinality({t \in txs : t.by \in Mirrors /\ t.state = "live"}) <= 1

\* A creation that is tried again after a rejection never leaves a second store.
OneStore ==
    \A c \in Creators :
      stores[c] + Cardinality({t \in txs : t.by = c /\ t.state # "rejected"}) <= 1

\* A split pays for itself: it leaves more usable coins than there were.
SplitGains == [][coins' # coins => Usable(coins') > Usable(coins)]_vars

\* "should leave a pending root alone until it has been seen twice"
RootSeenTwice ==
    [][\A p \in Pushes :
         At(p, "clear") /\ root # 0 /\ root' = 0 /\ pc'[p] = <<"wait">>
           => seen[p] = <<root, 2>>]_vars
=============================================================================
