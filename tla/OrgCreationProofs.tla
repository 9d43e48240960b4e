-------------------------- MODULE OrgCreationProofs ---------------------------
(***************************************************************************)
(* Theorems about OrgCreation, for any number of requests, restarts and    *)
(* failures and any time they take: types, that a home organization is     *)
(* complete, although every invocation saves the whole state it remembers, *)
(* and, as long as nobody works longer than the lock lasts, that there are *)
(* never two home organizations and no saved store is forgotten.           *)
(***************************************************************************)
EXTENDS OrgCreation, SequenceTheorems, FiniteSetTheorems, TLAPS

IInv == TypeOK /\ ReadyInv

-----------------------------------------------------------------------------
(* What is true of a state stays true while the chain grows *)

LEMMA SoundGrows ==
    ASSUME NEW s \in Creation, NEW n \in Nat, NEW m \in Nat, n <= m,
           NEW D, NEW E, D \subseteq E, Sound(s, n, D)
    PROVE  Sound(s, m, E)
<1>1. \A t \in StoreTypes : s.ids[t] \in Nat
    BY OrgConstants DEF Creation, Ids
<1> QED BY <1>1 DEF Sound

LEMMA SteadyGrows ==
    ASSUME NEW i \in Invocation, NEW n \in Nat, NEW m \in Nat, n <= m,
           NEW D, NEW E, D \subseteq E, Steady(i, n, D)
    PROVE  Steady(i, m, E)
<1>1. i.state # NoState => i.state \in Creation
    BY DEF Invocation
<1>2. i.state # NoState => Sound(i.state, m, E)
    BY <1>1, SoundGrows DEF Steady
<1> QED BY <1>2 DEF Steady

LEMMA HomesStay ==
    ASSUME TypeOK, ReadyInv, stores' \in Ids, stores <= stores', data \subseteq data',
           homes' \subseteq homes
    PROVE  HomeIsReady'
<1>1. \A h \in homes' : \A t \in StoreTypes : h[t] \in 1 .. stores
    BY DEF ReadyInv, HomeIsReady
<1>2. \A h \in homes' : \A t \in StoreTypes : h[t] \in 1 .. stores'
    BY <1>1, OrgConstants DEF TypeOK, Ids
<1> QED BY <1>2 DEF ReadyInv, HomeIsReady

LEMMA QuietSteady ==
    ASSUME NEW n \in Nat, NEW D
    PROVE  Quiet \in Invocation /\ Steady(Quiet, n, D)
<1>1. <<>> \in Seq({"clear", "unpend"})
    OBVIOUS
<1>2. [t \in StoreTypes |-> 0] \in [StoreTypes -> Ids]
    BY OrgConstants DEF Ids
<1>3. "idle" \in Steps
    BY DEF Steps
<1>4. Quiet \in Invocation
    BY <1>1, <1>2, <1>3 DEF Quiet, Invocation
<1>5. "idle" \notin Knows
    BY DEF Knows, Creating, Waiting
<1> QED BY <1>4, <1>5 DEF Quiet, Steady

-----------------------------------------------------------------------------
(* A step of one invocation *)

Work == /\ proc \in [Procs -> Invocation]
        /\ \A p \in Procs, t \in StoreTypes : proc[p].made[t] <= stores
        /\ \A p \in Procs : Steady(proc[p], stores, data)

\* One invocation moves on to i; what the others remember is as true as it was.
LEMMA Moves ==
    ASSUME IInv, NEW p \in Procs, NEW i \in Invocation,
           proc' = [proc EXCEPT ![p] = i],
           stores' \in Ids, stores <= stores', data \subseteq data',
           \A t \in StoreTypes : i.made[t] <= stores',
           Steady(i, stores', data')
    PROVE  Work'
<1>1. stores \in Nat /\ stores' \in Nat
    BY OrgConstants DEF IInv, TypeOK, Ids
<1>2. proc' \in [Procs -> Invocation]
    BY DEF IInv, TypeOK
<1>3. ASSUME NEW q \in Procs, q # p
      PROVE  /\ proc'[q] = proc[q]
             /\ \A t \in StoreTypes : proc'[q].made[t] <= stores'
             /\ Steady(proc'[q], stores', data')
    <2>1. proc'[q] = proc[q] /\ proc[q] \in Invocation
        BY <1>3 DEF IInv, TypeOK
    <2>2. \A t \in StoreTypes : proc[q].made[t] \in Nat /\ proc[q].made[t] <= stores
        BY <2>1, OrgConstants DEF IInv, TypeOK, Invocation, Ids
    <2>3. Steady(proc[q], stores, data)
        BY DEF IInv, ReadyInv
    <2>4. Steady(proc[q], stores', data')
        BY <1>1, <2>1, <2>3, SteadyGrows
    <2> QED BY <1>1, <2>1, <2>2, <2>4
<1>4. proc'[p] = i
    BY DEF IInv, TypeOK
<1> QED BY <1>2, <1>3, <1>4 DEF Work

\* The rest of the state, when a step leaves the chain as it is.
LEMMA SavedStays ==
    ASSUME IInv, stores' \in Ids, stores <= stores', data \subseteq data', meta' = meta
    PROVE  meta' # NoState => Sound(meta', stores', data')
<1>1. stores \in Nat /\ stores' \in Nat
    BY OrgConstants DEF IInv, TypeOK, Ids
<1> QED BY <1>1, SoundGrows DEF IInv, ReadyInv, TypeOK

-----------------------------------------------------------------------------
(* The steps there are: on to another await, with a new state, to the end    *)

\* The parts of the state that no copy of the creation is in.
Side == /\ pending \in BOOLEAN
        /\ subscribed \subseteq 1 .. MaxStores
        /\ lock \in [by : Procs \cup {"nobody"}, at : 0 .. MaxTime]
        /\ hasRun \in BOOLEAN
        /\ now \in 0 .. MaxTime /\ errors \in 0 .. MaxErrors /\ crashes \in 0 .. MaxCrashes

LEMMA IsSide == ASSUME TypeOK PROVE Side
BY DEF TypeOK, Side

LEMMA Awake ==
    ASSUME IInv, NEW p \in Procs, proc[p].pc # "idle"
    PROVE  p # Recovery \/ hasRun
BY DEF IInv, ReadyInv

LEMMA Step ==
    ASSUME IInv, NEW p \in Procs, NEW i \in Invocation,
           proc' = [proc EXCEPT ![p] = i], Steady(i, stores', data'),
           \A t \in StoreTypes : i.made[t] <= stores',
           stores' \in Ids, stores <= stores', data \subseteq data', data' \subseteq 1 .. stores',
           meta' \in Creation \cup {NoState}, meta' # NoState => Sound(meta', stores', data'),
           homes' \subseteq [StoreTypes -> Ids], HomeIsReady',
           Side', UNCHANGED hasRun, p # Recovery \/ hasRun
    PROVE  IInv'
<1>1. Work'
    BY Moves
<1>2. ~hasRun' => proc'[Recovery] = proc[Recovery]
    BY DEF IInv, TypeOK, Procs
<1>3. TypeOK'
    BY <1>1 DEF TypeOK, Side, Work
<1>4. ReadyInv'
    BY <1>1, <1>2 DEF ReadyInv, Work, IInv
<1> QED BY <1>3, <1>4 DEF IInv

LEMMA GoesStep ==
    ASSUME IInv, NEW p \in Procs, NEW step \in Steps, Goes(p, step),
           Steady([proc[p] EXCEPT !.pc = step], stores, data),
           UNCHANGED <<meta, chainVars, hasRun>>, homes' \subseteq homes,
           Side', p # Recovery \/ hasRun
    PROVE  IInv'
<1> DEFINE i == [proc[p] EXCEPT !.pc = step]
<1>1. proc[p] \in Invocation /\ \A t \in StoreTypes : proc[p].made[t] <= stores
    BY DEF IInv, TypeOK
<1>2. i \in Invocation /\ i.made = proc[p].made
    BY <1>1 DEF Invocation
<1>3. proc' = [proc EXCEPT ![p] = i]
    BY <1>1 DEF Goes, IInv, TypeOK
<1>4. UNCHANGED <<stores, data>> /\ stores \in Ids /\ data \subseteq 1 .. stores /\ stores <= stores
    BY OrgConstants DEF chainVars, IInv, TypeOK, Ids
<1>5. HomeIsReady'
    BY <1>4, HomesStay DEF IInv
<1>6. meta' \in Creation \cup {NoState} /\ (meta' # NoState => Sound(meta', stores', data'))
    BY <1>4, SavedStays DEF IInv, TypeOK
<1>7. homes' \subseteq [StoreTypes -> Ids]
    BY DEF IInv, TypeOK
<1> HIDE DEF i
<1>8. Steady(i, stores', data')
    BY <1>4 DEF i
<1> QED BY <1>1, <1>2, <1>3, <1>4, <1>5, <1>6, <1>7, <1>8, Step

LEMMA SavesStep ==
    ASSUME IInv, NEW p \in Procs, NEW step \in Steps, NEW s \in Creation,
           Saves(p, step, s), Sound(s, stores, data),
           Steady([proc[p] EXCEPT !.pc = step, !.state = s], stores, data),
           UNCHANGED <<chainVars, hasRun>>, homes' \subseteq homes,
           Side', p # Recovery \/ hasRun
    PROVE  IInv'
<1> DEFINE i == [proc[p] EXCEPT !.pc = step, !.state = s]
<1>1. proc[p] \in Invocation /\ \A t \in StoreTypes : proc[p].made[t] <= stores
    BY DEF IInv, TypeOK
<1>2. i \in Invocation /\ i.made = proc[p].made
    BY <1>1 DEF Invocation
<1>3. proc' = [proc EXCEPT ![p] = i]
    BY <1>1 DEF Saves, IInv, TypeOK
<1>4. UNCHANGED <<stores, data>> /\ stores \in Ids /\ data \subseteq 1 .. stores /\ stores <= stores
    BY OrgConstants DEF chainVars, IInv, TypeOK, Ids
<1>5. HomeIsReady'
    BY <1>4, HomesStay DEF IInv
<1>6. meta' \in Creation \cup {NoState} /\ (meta' # NoState => Sound(meta', stores', data'))
    BY <1>4 DEF Saves
<1>7. homes' \subseteq [StoreTypes -> Ids]
    BY DEF IInv, TypeOK
<1> HIDE DEF i
<1>8. Steady(i, stores', data')
    BY <1>4 DEF i
<1> QED BY <1>1, <1>2, <1>3, <1>4, <1>5, <1>6, <1>7, <1>8, Step

LEMMA LeavesStep ==
    ASSUME IInv, NEW p \in Procs, Leaves(p), meta' \in {meta, NoState},
           pending' \in BOOLEAN,
           UNCHANGED <<homes, subscribed, chainVars, hasRun, boundVars>>,
           p # Recovery \/ hasRun
    PROVE  IInv'
<1>1. proc' = [proc EXCEPT ![p] = Quiet] /\ Quiet \in Invocation
    BY QuietSteady DEF Leaves
<1>2. UNCHANGED <<stores, data>> /\ stores \in Ids /\ data \subseteq 1 .. stores /\ stores <= stores
    BY OrgConstants DEF chainVars, IInv, TypeOK, Ids
<1>3. Steady(Quiet, stores', data')
    <2>1. stores' \in Nat
        BY <1>2, OrgConstants DEF Ids
    <2> QED BY <2>1, QuietSteady
<1>4. \A t \in StoreTypes : Quiet.made[t] <= stores'
    BY <1>2, OrgConstants DEF Quiet, Ids
<1>5. HomeIsReady'
    BY <1>2, HomesStay DEF IInv
<1>6. meta' \in Creation \cup {NoState} /\ (meta' # NoState => Sound(meta', stores', data'))
    BY <1>2, SavedStays DEF IInv, TypeOK
<1>7. Unlocked \in [by : Procs \cup {"nobody"}, at : 0 .. MaxTime]
    BY OrgConstants DEF Unlocked
<1>8. Side'
    BY <1>7 DEF Leaves, IInv, TypeOK, Side, boundVars
<1>9. homes' \subseteq [StoreTypes -> Ids]
    BY DEF IInv, TypeOK
<1> QED BY <1>1, <1>2, <1>3, <1>4, <1>5, <1>6, <1>8, <1>9, Step

-----------------------------------------------------------------------------
(* Requests and the recovery *)

LEMMA InitIInv == Init => IInv
<1> SUFFICES ASSUME Init PROVE IInv
    OBVIOUS
<1>1. 0 \in Nat /\ stores = 0 /\ data = {}
    BY DEF Init
<1>2. Quiet \in Invocation /\ Steady(Quiet, stores, data)
    BY <1>1, QuietSteady
<1>3. \A p \in Procs : proc[p] = Quiet
    BY DEF Init
<1>4. TypeOK
    <2>1. proc \in [Procs -> Invocation]
        BY <1>2 DEF Init
    <2>2. \A p \in Procs, t \in StoreTypes : proc[p].made[t] <= stores
        BY <1>1, <1>3 DEF Quiet
    <2>3. Unlocked \in [by : Procs \cup {"nobody"}, at : 0 .. MaxTime]
        BY OrgConstants DEF Unlocked
    <2>4. stores \in Ids /\ now \in 0 .. MaxTime /\ errors \in 0 .. MaxErrors
              /\ crashes \in 0 .. MaxCrashes
        BY OrgConstants DEF Init, Ids
    <2> QED BY <2>1, <2>2, <2>3, <2>4 DEF Init, TypeOK
<1>5. ReadyInv
    BY <1>2, <1>3 DEF Init, ReadyInv, HomeIsReady, Quiet, Procs
<1> QED BY <1>4, <1>5 DEF IInv

LEMMA HandlesIInv ==
    ASSUME IInv, NEW r \in Requests, PostCreate(r) \/ Handles(r)
    PROVE  IInv'
<1>1. r \in Procs /\ r # Recovery
    BY NamesDiffer DEF Procs
<1>2. proc[r] \in Invocation /\ Steady(proc[r], stores, data)
    BY <1>1 DEF IInv, TypeOK, ReadyInv
<1>3. {"lock", "exists", "idle", "begin"} \subseteq Steps
    BY DEF Steps, Creating
<1>4. {"lock", "exists", "idle", "begin"} \subseteq Early /\ {"lock", "exists", "idle", "begin"} \cap Knows = {}
    BY DEF Early, Knows, Creating, Waiting
<1>5. ASSUME NEW step \in {"lock", "exists", "idle", "begin"}, proc[r].pc \in Early
      PROVE  Steady([proc[r] EXCEPT !.pc = step], stores, data)
    BY <1>2, <1>4, <1>5 DEF Steady, Invocation, Early
<1>6. ASSUME NEW step \in {"lock", "exists", "idle", "begin"}, proc[r].pc \in Early, Goes(r, step),
             UNCHANGED <<dbVars, chainVars, hasRun, boundVars>>,
             lock' \in [by : Procs \cup {"nobody"}, at : 0 .. MaxTime]
      PROVE  IInv'
    <2>1. Side'
        BY <1>6 DEF dbVars, boundVars, Side, IInv, TypeOK
    <2>2. step \in Steps /\ UNCHANGED <<meta, chainVars, hasRun>> /\ homes' \subseteq homes
        BY <1>3, <1>6 DEF dbVars
    <2> QED BY <1>1, <1>5, <1>6, <2>1, <2>2, GoesStep
<1>7. CASE PostCreate(r)
    <2>1. proc[r].pc \in Early /\ lock' \in [by : Procs \cup {"nobody"}, at : 0 .. MaxTime]
        BY <1>7 DEF PostCreate, Early, lockVars, IInv, TypeOK
    <2> QED BY <1>6, <1>7, <2>1 DEF PostCreate, lockVars
<1>8. CASE TakeLock(r)
    <2>1. proc[r].pc \in Early /\ lock' \in [by : Procs \cup {"nobody"}, at : 0 .. MaxTime]
        BY <1>1, <1>8 DEF TakeLock, Early, IInv, TypeOK
    <2> QED BY <1>6, <1>8, <2>1 DEF TakeLock
<1>9. CASE AcceptCreate(r)
    <2>1. proc[r].pc \in Early /\ lock' \in [by : Procs \cup {"nobody"}, at : 0 .. MaxTime]
        BY <1>9 DEF AcceptCreate, Early, lockVars, IInv, TypeOK
    <2> QED BY <1>6, <1>9, <2>1 DEF AcceptCreate, lockVars
<1>10. CASE RefuseSecondHome(r)
    <2>1. meta' \in {meta, NoState} /\ pending' \in BOOLEAN
        BY <1>10 DEF RefuseSecondHome, dbVars, IInv, TypeOK
    <2> QED BY <1>1, <1>10, <2>1, LeavesStep DEF RefuseSecondHome, dbVars
<1> QED BY <1>7, <1>8, <1>9, <1>10 DEF Handles

LEMMA RecoverIInv ==
    ASSUME IInv, Recover
    PROVE  IInv'
<1>1. Recovery \in Procs
    BY DEF Procs
<1>2. proc[Recovery] \in Invocation /\ Steady(proc[Recovery], stores, data)
    BY <1>1 DEF IInv, TypeOK, ReadyInv
<1>3. \A t \in StoreTypes : proc[Recovery].made[t] <= stores
    BY <1>1 DEF IInv, TypeOK
<1>4. stores \in Ids /\ data \subseteq 1 .. stores /\ stores <= stores /\ Side
    BY OrgConstants, IsSide DEF IInv, TypeOK, Ids
<1>5. CASE RecoveryLoads
    <2> DEFINE todo == CASE InProgress     -> <<>>
                         [] meta = NoState -> <<"unpend">>
                         [] OTHER          -> <<"clear", "unpend">>
               next == IF InProgress THEN "count" ELSE "tidy"
               i == [proc[Recovery] EXCEPT !.pc = next, !.state = meta, !.todo = todo]
    <2>1. proc' = [proc EXCEPT ![Recovery].pc = next, ![Recovery].state = meta,
                               ![Recovery].todo = todo]
        BY <1>5 DEF RecoveryLoads
    <2>2. todo \in Seq({"clear", "unpend"})
        <3>1. <<>> \in Seq({"clear", "unpend"})
            OBVIOUS
        <3>2. <<"unpend">> \in Seq({"clear", "unpend"})
            OBVIOUS
        <3>3. <<"clear", "unpend">> \in Seq({"clear", "unpend"})
            OBVIOUS
        <3>4. todo \in {<<>>, <<"unpend">>, <<"clear", "unpend">>}
            <4>1. CASE InProgress
                BY <4>1, Zenon DEF InProgress
            <4>2. CASE ~InProgress /\ meta = NoState
                BY <4>2, Zenon
            <4>3. CASE ~InProgress /\ meta # NoState
                BY <4>3, Zenon
            <4> QED BY <4>1, <4>2, <4>3
        <3> QED BY <3>1, <3>2, <3>3, <3>4
    <2> HIDE DEF todo
    <2>14. proc' = [proc EXCEPT ![Recovery] = i]
        BY <1>1, <1>2, <2>1 DEF IInv, TypeOK
    <2>3. i \in Invocation
        BY <1>2, <2>2 DEF Invocation, Steps, IInv, TypeOK
    <2>4. proc[Recovery].pc = "idle"
        BY <1>5 DEF RecoveryLoads, IInv, ReadyInv
    <2>5. "count" \in Early /\ "idle" \in Early /\ "tidy" \notin Early \cup Knows
        BY DEF Early, Knows, Creating, Waiting
    <2>6. meta # NoState => Sound(meta, stores, data)
        BY DEF IInv, ReadyInv
    <2>7. i.pc \in {"count", "tidy"} /\ (i.pc = "count" => meta # NoState) /\ i.state = meta
              /\ i.made = proc[Recovery].made /\ i.sent = proc[Recovery].sent
        BY <1>2 DEF Invocation, InProgress
    <2>8. proc[Recovery].sent = {} /\ \A t \in StoreTypes : proc[Recovery].made[t] = 0
        BY <1>2, <2>4, <2>5 DEF Steady
    <2> HIDE DEF i
    <2>9. Steady(i, stores, data)
        BY <2>5, <2>6, <2>7, <2>8 DEF Steady
    <2>10. UNCHANGED <<stores, data, meta, homes>> /\ hasRun'
        BY <1>5 DEF RecoveryLoads, chainVars, dbVars
    <2>11. Work'
        BY <1>1, <1>3, <1>4, <2>14, <2>3, <2>7, <2>9, <2>10, Moves
    <2>12. TypeOK'
        BY <1>5, <2>10, <2>11 DEF RecoveryLoads, chainVars, dbVars, boundVars, Work, TypeOK, IInv
    <2>13. ReadyInv'
        BY <2>10, <2>11 DEF Work, ReadyInv, IInv, HomeIsReady
    <2> QED BY <2>12, <2>13 DEF IInv
<1>6. CASE RecoveryCounts
    <2> DEFINE s == [proc[Recovery].state EXCEPT !.retries = @ + 1]
               step == IF s.retries >= MaxRetries THEN "giveUp" ELSE "lock"
    <2>1. proc[Recovery].pc = "count" /\ Saves(Recovery, step, s)
        BY <1>6 DEF RecoveryCounts
    <2>2. "count" \in Knows /\ "count" \in Early /\ step \in Steps /\ step \in Early
              /\ step # "confirm" /\ step # "make"
        BY DEF Knows, Early, Steps, Creating
    <2>3. proc[Recovery].state \in Creation /\ Sound(proc[Recovery].state, stores, data)
        BY <1>2, <2>1, <2>2 DEF Steady, Invocation
    <2>4. s \in Creation /\ Sound(s, stores, data) /\ s.ids = proc[Recovery].state.ids
        BY <2>3 DEF Creation, Sound
    <2> HIDE DEF s
    <2>5. Steady([proc[Recovery] EXCEPT !.pc = step, !.state = s], stores, data)
        BY <1>2, <2>1, <2>2, <2>3, <2>4, NamesDiffer DEF Steady, Invocation
    <2>6. Side'
        BY <1>4, <1>6 DEF RecoveryCounts, Side, lockVars, boundVars
    <2> HIDE DEF step
    <2>7. UNCHANGED <<chainVars, hasRun>> /\ homes' \subseteq homes
        BY <1>6 DEF RecoveryCounts, lockVars
    <2> QED BY <1>1, <2>1, <2>2, <2>4, <2>5, <2>6, <2>7, Awake, SavesStep
<1>7. CASE RecoveryGivesUp
    <2> DEFINE i == [proc[Recovery] EXCEPT !.pc = "tidy", !.todo = <<"unpend", "clear">>]
    <2>1. proc[Recovery].pc = "giveUp" /\ meta' = [proc[Recovery].state EXCEPT !.state = "FAILED"]
        BY <1>7 DEF RecoveryGivesUp
    <2>2. "giveUp" \in Knows /\ "tidy" \notin Early \cup Knows /\ "tidy" \in Steps
        BY DEF Knows, Early, Steps, Creating, Waiting
    <2>3. proc[Recovery].state \in Creation /\ Sound(proc[Recovery].state, stores, data)
        BY <1>2, <2>1, <2>2 DEF Steady, Invocation
    <2>4. meta' \in Creation /\ Sound(meta', stores, data)
        BY <2>1, <2>3 DEF Creation, States, Sound, Late
    <2>5. proc' = [proc EXCEPT ![Recovery] = i]
        BY <1>1, <1>2, <1>7 DEF RecoveryGivesUp, IInv, TypeOK
    <2>6. <<"unpend", "clear">> \in Seq({"clear", "unpend"})
        OBVIOUS
    <2>7. i \in Invocation /\ i.made = proc[Recovery].made /\ i.sent = proc[Recovery].sent
              /\ i.state = proc[Recovery].state /\ i.pc = "tidy"
        BY <1>2, <2>2, <2>6 DEF Invocation
    <2> HIDE DEF i
    <2>8. Steady(i, stores, data)
        BY <1>2, <2>2, <2>7 DEF Steady
    <2>9. UNCHANGED <<stores, data, homes, hasRun>> /\ Side'
        BY <1>4, <1>7 DEF RecoveryGivesUp, chainVars, lockVars, boundVars, Side
    <2>10. HomeIsReady' /\ homes' \subseteq [StoreTypes -> Ids]
        BY <2>9 DEF HomeIsReady, ReadyInv, IInv, TypeOK
    <2> QED BY <1>1, <1>3, <1>4, <2>1, <2>4, <2>5, <2>7, <2>8, <2>9, <2>10, Awake, Step
<1>8. CASE RecoveryTakesLock
    <2>1. proc[Recovery].pc = "lock"
        BY <1>8 DEF RecoveryTakesLock
    <2>2. PICK step \in {"begin", "missed"} : Goes(Recovery, step)
        BY <1>8 DEF RecoveryTakesLock
    <2>3. {"begin", "missed"} \subseteq Steps /\ {"begin", "missed", "lock"} \subseteq Early
              /\ {"begin", "missed"} \cap Knows = {}
        BY DEF Steps, Creating, Early, Knows, Waiting
    <2>4. Steady([proc[Recovery] EXCEPT !.pc = step], stores, data)
        BY <1>2, <2>1, <2>3 DEF Steady, Invocation
    <2>5. Side'
        BY <1>1, <1>4, <1>8 DEF RecoveryTakesLock, dbVars, boundVars, Side
    <2>6. UNCHANGED <<meta, chainVars, hasRun>> /\ homes' \subseteq homes /\ step \in Steps
        BY <1>8, <2>3 DEF RecoveryTakesLock, dbVars
    <2> QED BY <1>1, <2>1, <2>2, <2>4, <2>5, <2>6, Awake, GoesStep
<1>9. CASE Tidy
    <2> DEFINE todo == proc[Recovery].todo
    <2>1. /\ proc[Recovery].pc = "tidy" /\ todo # <<>>
          /\ meta' \in {meta, NoState} /\ pending' \in BOOLEAN
          /\ UNCHANGED <<homes, subscribed, chainVars, hasRun, boundVars>>
        BY <1>9 DEF Tidy, IInv, TypeOK
    <2>2. CASE Leaves(Recovery)
        BY <1>1, <2>1, <2>2, Awake, LeavesStep
    <2>3. CASE lock' = lock /\ proc' = [proc EXCEPT ![Recovery].todo = Tail(todo)]
        <3> DEFINE i == [proc[Recovery] EXCEPT !.todo = Tail(todo)]
        <3>1. Tail(todo) \in Seq({"clear", "unpend"})
            BY <1>2, <2>1 DEF Invocation
        <3>2. proc' = [proc EXCEPT ![Recovery] = i]
            BY <1>1, <1>2, <2>3 DEF IInv, TypeOK
        <3>3. i \in Invocation /\ i.made = proc[Recovery].made /\ i.sent = proc[Recovery].sent
                  /\ i.state = proc[Recovery].state /\ i.pc = proc[Recovery].pc
            BY <1>2, <3>1 DEF Invocation
        <3> HIDE DEF i
        <3>4. UNCHANGED <<stores, data, homes, hasRun>> /\ Side'
            BY <1>4, <2>1, <2>3 DEF chainVars, boundVars, Side
        <3>5. Steady(i, stores', data')
            BY <1>2, <3>3, <3>4 DEF Steady
        <3>6. meta' \in Creation \cup {NoState} /\ (meta' # NoState => Sound(meta', stores', data'))
            BY <2>1, <3>4 DEF IInv, TypeOK, ReadyInv
        <3>7. HomeIsReady' /\ homes' \subseteq [StoreTypes -> Ids]
            BY <3>4 DEF HomeIsReady, ReadyInv, IInv, TypeOK
        <3> QED BY <1>1, <1>3, <1>4, <2>1, <3>2, <3>3, <3>4, <3>5, <3>6, <3>7, Awake, Step
    <2> QED BY <1>9, <2>2, <2>3 DEF Tidy
<1> QED BY <1>5, <1>6, <1>7, <1>8, <1>9 DEF Recover

-----------------------------------------------------------------------------
(* createHomeOrganization *)

LEMMA PcSets ==
    /\ Knows = {"coins", "make", "confirm", "push", "finalize", "subscribe",
                "pend", "run", "row", "count", "giveUp"}
    /\ Early = {"idle", "lock", "exists", "begin", "load", "missed", "count", "giveUp"}
    /\ Late = {"STORES_CONFIRMED", "DATA_PUSHING", "FINALIZING"}
    /\ Knows \cup {"load", "fail", "unpend", "clear", "begin", "tidy"} \subseteq Steps
BY DEF Knows, Early, Late, Creating, Waiting, Steps

LEMMA Known ==
    ASSUME IInv, NEW p \in Procs
    PROVE  /\ proc[p] \in Invocation /\ Steady(proc[p], stores, data)
           /\ \A t \in StoreTypes : proc[p].made[t] \in Nat /\ proc[p].made[t] <= stores
           /\ stores \in Nat /\ stores \in Ids /\ stores <= stores /\ data \subseteq 1 .. stores
           /\ Side
           /\ proc[p].pc \in Knows => /\ proc[p].state \in Creation
                                      /\ Sound(proc[p].state, stores, data)
           /\ meta \in Creation \cup {NoState}
           /\ meta # NoState => Sound(meta, stores, data)
           /\ homes \subseteq [StoreTypes -> Ids] /\ HomeIsReady
<1>1. proc[p] \in Invocation /\ Steady(proc[p], stores, data)
    BY DEF IInv, TypeOK, ReadyInv
<1>2. stores \in Nat /\ stores \in Ids /\ stores <= stores
    BY OrgConstants DEF IInv, TypeOK, Ids
<1>3. \A t \in StoreTypes : proc[p].made[t] \in Nat /\ proc[p].made[t] <= stores
    BY <1>1, OrgConstants DEF IInv, TypeOK, Invocation, Ids
<1>4. proc[p].pc \in Knows => proc[p].state \in Creation /\ Sound(proc[p].state, stores, data)
    BY <1>1 DEF Steady, Invocation
<1> QED BY <1>1, <1>2, <1>3, <1>4, IsSide DEF IInv, TypeOK, ReadyInv

\* A creation that fails: FAILED is saved over whatever was saved last.
LEMMA FailsStep ==
    ASSUME IInv, NEW p \in Procs, NEW step \in {"unpend"}, Goes(p, step),
           proc[p].pc \in {"load", "fail"},
           NEW s \in Creation \cup {NoState}, meta' = s, s # NoState => Sound(s, stores, data),
           UNCHANGED <<pending, homes, subscribed, chainVars, lockVars, boundVars>>
    PROVE  IInv'
<1> DEFINE i == [proc[p] EXCEPT !.pc = step]
<1>1. proc[p] \in Invocation /\ Steady(proc[p], stores, data)
    BY Known
<1>2. i \in Invocation /\ i.made = proc[p].made /\ i.state = proc[p].state /\ i.pc = "unpend"
          /\ i.sent = proc[p].sent
    BY <1>1, PcSets DEF Invocation
<1>3. proc' = [proc EXCEPT ![p] = i]
    BY <1>1 DEF Goes, IInv, TypeOK
<1>4. UNCHANGED <<stores, data, homes, hasRun>> /\ Side'
    BY Known DEF chainVars, lockVars, boundVars, Side
<1> HIDE DEF i
<1>5. Steady(i, stores', data')
    BY <1>1, <1>2, <1>4, PcSets DEF Steady
<1>6. HomeIsReady' /\ homes' \subseteq [StoreTypes -> Ids]
    BY <1>4, Known DEF HomeIsReady
<1>7. p # Recovery \/ hasRun
    BY Awake
<1>8. \A t \in StoreTypes : i.made[t] <= stores'
    BY <1>2, <1>4, Known
<1>9. stores' \in Ids /\ stores <= stores' /\ data \subseteq data' /\ data' \subseteq 1 .. stores'
    BY <1>4, Known
<1> QED BY <1>2, <1>3, <1>4, <1>5, <1>6, <1>7, <1>8, <1>9, Step

LEMMA BeginsIInv ==
    ASSUME IInv, NEW p \in Procs,
           AlreadyHome(p) \/ NotYetHome(p) \/ Begin(p) \/ AddPending(p) \/ Coins(p)
    PROVE  IInv'
<1>1. proc[p] \in Invocation /\ Steady(proc[p], stores, data) /\ Side
    BY Known
<1>2. CASE AlreadyHome(p)
    <2>1. p # Recovery \/ hasRun
        BY <1>2, Awake DEF AlreadyHome
    <2> QED BY <1>1, <1>2, <2>1, LeavesStep DEF AlreadyHome, dbVars, Side
<1>3. CASE NotYetHome(p)
    <2>1. proc[p].pc = "begin" /\ Goes(p, "load")
        BY <1>3 DEF NotYetHome
    <2>2. Steady([proc[p] EXCEPT !.pc = "load"], stores, data)
        BY <1>1, <2>1, PcSets DEF Steady, Invocation
    <2>3. Side' /\ UNCHANGED <<meta, chainVars, hasRun>> /\ homes' \subseteq homes
        BY <1>1, <1>3 DEF NotYetHome, dbVars, lockVars, boundVars, Side
    <2> QED BY <2>1, <2>2, <2>3, PcSets, Awake, GoesStep
<1>4. CASE Begin(p)
    <2> DEFINE s == createInitialState
    <2>1. proc[p].pc = "load" /\ Saves(p, "pend", s)
        BY <1>4 DEF Begin
    <2>2. s \in Creation /\ s # NoState
        BY OrgConstants, NamesDiffer, <1>1 DEF createInitialState, Creation, States, Ids, Side
    <2>3. Sound(s, stores, data) /\ \A t \in StoreTypes : s.ids[t] = 0
        BY Known, PcSets DEF createInitialState, Sound
    <2> HIDE DEF s
    <2>4. Steady([proc[p] EXCEPT !.pc = "pend", !.state = s], stores, data)
        BY <1>1, <2>1, <2>2, <2>3, PcSets DEF Steady, Invocation
    <2>5. Side' /\ UNCHANGED <<chainVars, hasRun>> /\ homes' \subseteq homes
        BY <1>1, <1>4 DEF Begin, lockVars, boundVars, Side
    <2> QED BY <2>1, <2>2, <2>3, <2>4, <2>5, PcSets, Awake, SavesStep
<1>5. CASE AddPending(p)
    <2>1. proc[p].pc = "pend" /\ Goes(p, "coins")
        BY <1>5 DEF AddPending
    <2>2. Steady([proc[p] EXCEPT !.pc = "coins"], stores, data)
        BY <1>1, <2>1, PcSets DEF Steady, Invocation
    <2>3. Side' /\ UNCHANGED <<meta, chainVars, hasRun>> /\ homes' \subseteq homes
        BY <1>1, <1>5 DEF AddPending, lockVars, boundVars, Side
    <2> QED BY <2>1, <2>2, <2>3, PcSets, Awake, GoesStep
<1>6. CASE Coins(p)
    <2>1. proc[p].pc = "coins" /\ Goes(p, "run")
        BY <1>6 DEF Coins
    <2>2. Steady([proc[p] EXCEPT !.pc = "run"], stores, data)
        BY <1>1, <2>1, PcSets DEF Steady, Invocation
    <2>3. Side' /\ UNCHANGED <<meta, chainVars, hasRun>> /\ homes' \subseteq homes
        BY <1>1, <1>6 DEF Coins, dbVars, lockVars, boundVars, Side
    <2> QED BY <2>1, <2>2, <2>3, PcSets, Awake, GoesStep
<1> QED BY <1>2, <1>3, <1>4, <1>5, <1>6

LEMMA ResumesIInv ==
    ASSUME IInv, NEW p \in Procs, Resume(p) \/ ResumeTooOften(p) \/ Run(p)
    PROVE  IInv'
<1>1. proc[p] \in Invocation /\ Steady(proc[p], stores, data) /\ Side
    BY Known
<1>2. CASE Resume(p)
    <2>1. proc[p].pc = "load" /\ meta \in Creation /\ Sound(meta, stores, data)
        BY <1>2, Known DEF Resume, InProgress
    <2>2. PICK s \in {[meta EXCEPT !.retries = @ + 1, !.startedAt = now], meta} :
              Saves(p, "coins", s)
        BY <1>2 DEF Resume
    <2>3. s \in Creation /\ s.ids = meta.ids /\ s.state = meta.state /\ s.written = meta.written
              /\ s.confirmed = meta.confirmed
        <3>1. now \in 0 .. MaxTime
            BY <1>1 DEF Side
        <3>2. CASE s = meta
            BY <2>1, <3>2
        <3>3. CASE s = [meta EXCEPT !.retries = @ + 1, !.startedAt = now]
            <4> DEFINE c == [meta EXCEPT !.retries = @ + 1]
            <4>1. /\ c \in Creation /\ c.ids = meta.ids /\ c.state = meta.state
                  /\ c.written = meta.written /\ c.confirmed = meta.confirmed
                BY <2>1 DEF Creation
            <4>2. s = [c EXCEPT !.startedAt = now]
                BY <3>3
            <4> HIDE DEF c
            <4> QED BY <3>1, <4>1, <4>2 DEF Creation
        <3> QED BY <3>2, <3>3
    <2>4. Sound(s, stores, data)
        BY <2>1, <2>3 DEF Sound
    <2>5. Steady([proc[p] EXCEPT !.pc = "coins", !.state = s], stores, data)
        <3>1. proc[p].sent = {} /\ \A t \in StoreTypes : proc[p].made[t] = 0
            BY <1>1, <2>1, PcSets DEF Steady
        <3> QED BY <1>1, <2>3, <2>4, <3>1, NamesDiffer, PcSets DEF Steady, Invocation
    <2>6. Side' /\ UNCHANGED <<chainVars, hasRun>> /\ homes' \subseteq homes
        BY <1>1, <1>2 DEF Resume, lockVars, boundVars, Side
    <2> QED BY <2>1, <2>2, <2>3, <2>4, <2>5, <2>6, PcSets, Awake, SavesStep
<1>3. CASE ResumeTooOften(p)
    <2> DEFINE s == [meta EXCEPT !.retries = @ + 1, !.state = "FAILED"]
    <2>1. /\ proc[p].pc = "load" /\ meta \in Creation /\ Sound(meta, stores, data)
          /\ meta' = s /\ Goes(p, "unpend")
        BY <1>3, Known DEF ResumeTooOften, InProgress
    <2>2. s \in Creation
        <3> DEFINE c == [meta EXCEPT !.retries = @ + 1]
        <3>1. c \in Creation
            BY <2>1 DEF Creation
        <3>2. s = [c EXCEPT !.state = "FAILED"]
            OBVIOUS
        <3> HIDE DEF c, s
        <3> QED BY <3>1, <3>2 DEF Creation, States
    <2>3. Sound(s, stores, data)
        BY <2>1, PcSets DEF Sound, Creation
    <2> HIDE DEF s
    <2> QED BY <1>3, <2>1, <2>2, <2>3, FailsStep DEF ResumeTooOften
<1>4. CASE Run(p)
    <2> DEFINE s == proc[p].state
    <2>1. proc[p].pc = "run" /\ s \in Creation /\ Sound(s, stores, data) /\ s # NoState
        BY <1>4, Known, PcSets, NamesDiffer DEF Run
    <2>2. Side' /\ UNCHANGED <<chainVars, hasRun>> /\ homes' \subseteq homes
              /\ (p # Recovery \/ hasRun)
        BY <1>1, <1>4, <2>1, Awake DEF Run, lockVars, boundVars, Side
    <2>3. proc[p].sent = {}
        BY <1>1, <2>1, PcSets DEF Steady
    <2>4. CASE /\ s.state \in {"INITIALIZING", "STORES_CREATING"}
               /\ Saves(p, "make", [s EXCEPT !.state = "STORES_CREATING"])
        <3> DEFINE n == [s EXCEPT !.state = "STORES_CREATING"]
        <3>1. n \in Creation /\ n.ids = s.ids /\ n.state = "STORES_CREATING"
            BY <2>1 DEF Creation, States
        <3>2. Sound(n, stores, data)
            BY <2>1, PcSets DEF Sound, Creation
        <3> HIDE DEF n
        <3>3. Steady([proc[p] EXCEPT !.pc = "make", !.state = n], stores, data)
            BY <1>1, <2>1, <2>3, <3>1, <3>2, NamesDiffer, PcSets DEF Steady, Invocation
        <3> QED BY <2>2, <2>4, <3>1, <3>2, <3>3, PcSets, SavesStep DEF n
    <2>5. CASE /\ s.state \in {"STORES_CONFIRMED", "DATA_PUSHING"}
               /\ Saves(p, "push", [s EXCEPT !.state = "DATA_PUSHING"])
        <3> DEFINE n == [s EXCEPT !.state = "DATA_PUSHING"]
        <3>1. n \in Creation /\ n.ids = s.ids /\ n.state = "DATA_PUSHING"
            BY <2>1 DEF Creation, States
        <3>2. Sound(n, stores, data)
            BY <2>1, <2>5, PcSets DEF Sound, Creation
        <3> HIDE DEF n
        <3>3. Steady([proc[p] EXCEPT !.pc = "push", !.state = n], stores, data)
            BY <1>1, <2>1, <2>3, <3>1, <3>2, NamesDiffer, PcSets DEF Steady, Invocation
        <3> QED BY <2>2, <2>5, <3>1, <3>2, <3>3, PcSets, SavesStep DEF n
    <2>6. CASE s.state = "FINALIZING" /\ Goes(p, "finalize") /\ meta' = meta
        <3>1. Steady([proc[p] EXCEPT !.pc = "finalize"], stores, data)
            BY <1>1, <2>1, <2>3, <2>6, PcSets DEF Steady, Invocation, Sound
        <3> QED BY <2>2, <2>6, <3>1, PcSets, GoesStep
    <2> QED BY <1>4, <2>4, <2>5, <2>6 DEF Run
<1> QED BY <1>2, <1>3, <1>4

LEMMA StoresIInv ==
    ASSUME IInv, NEW p \in Procs,
           CreateStore(p) \/ PersistStoreCreated(p) \/ StoresCreated(p) \/ StoresConfirmed(p)
    PROVE  IInv'
<1>1. proc[p] \in Invocation /\ Steady(proc[p], stores, data) /\ Side
    BY Known
<1>2. CASE CreateStore(p)
    <2>1. PICK t \in ToCreate(p) \ proc[p].bad :
              proc[p].made[t] = 0 /\ proc' = [proc EXCEPT ![p].made[t] = stores + 1]
        BY <1>2 DEF CreateStore
    <2> DEFINE i == [proc[p] EXCEPT !.made[t] = stores + 1]
    <2>2. /\ proc[p].pc = "make" /\ t \in StoreTypes
          /\ proc[p].state \in Creation /\ Sound(proc[p].state, stores, data)
        BY <1>2, Known, PcSets DEF CreateStore, ToCreate
    <2>3. /\ stores' = stores + 1 /\ stores' \in Ids /\ stores' \in Nat /\ stores <= stores'
          /\ data' = data /\ data' \subseteq 1 .. stores'
        BY <1>2, Known, OrgConstants DEF CreateStore, Ids
    <2>4. proc' = [proc EXCEPT ![p] = i]
        BY <1>1, <2>1 DEF IInv, TypeOK
    <2>5. proc[p].made \in [StoreTypes -> Ids]
        BY <1>1 DEF Invocation
    <2>6. /\ i \in Invocation /\ i.pc = "make" /\ i.state = proc[p].state /\ i.sent = proc[p].sent
          /\ i.made = [proc[p].made EXCEPT ![t] = stores']
        BY <1>1, <2>2, <2>3, <2>5 DEF Invocation
    <2> HIDE DEF i
    <2>7. \A u \in StoreTypes : i.made[u] = IF u = t THEN stores' ELSE proc[p].made[u]
        BY <2>2, <2>5, <2>6
    <2>8. \A u \in StoreTypes : i.made[u] <= stores' /\ (u # t => i.made[u] <= stores)
        BY <2>3, <2>7, Known
    <2>9. \A u \in StoreTypes : i.state.ids[u] \in Nat /\ i.state.ids[u] <= stores
        BY <2>2, <2>6, OrgConstants DEF Sound, Creation, Ids
    <2>10. Sound(i.state, stores', data')
        BY <2>2, <2>3, <2>6, Known, SoundGrows
    <2>11. \A u, v \in StoreTypes : u # v /\ i.made[u] # 0 =>
               i.made[u] # i.made[v] /\ i.made[u] # i.state.ids[v]
        <3> SUFFICES ASSUME NEW u \in StoreTypes, NEW v \in StoreTypes, u # v, i.made[u] # 0
                     PROVE  i.made[u] # i.made[v] /\ i.made[u] # i.state.ids[v]
            OBVIOUS
        <3>1. CASE u = t
            BY <2>3, <2>7, <2>8, <2>9, <3>1, Known
        <3>2. CASE u # t /\ v = t
            <4>1. i.made[v] = stores + 1 /\ i.made[u] <= stores
                BY <2>3, <2>7, <2>8, <3>2
            <4>2. i.made[u] # i.state.ids[v]
                BY <1>1, <2>2, <2>6, <2>7, <3>2, NamesDiffer DEF Steady
            <4> QED BY <2>3, <2>7, <3>2, <4>1, <4>2, Known
        <3>3. CASE u # t /\ v # t
            BY <1>1, <2>2, <2>6, <2>7, <3>3, NamesDiffer DEF Steady
        <3> QED BY <3>1, <3>2, <3>3
    <2>12. i.state.state = "STORES_CREATING" /\ i.sent = {} /\ i.state # NoState
        BY <1>1, <2>2, <2>6, NamesDiffer DEF Steady
    <2>13. Steady(i, stores', data')
        BY <2>6, <2>10, <2>11, <2>12, PcSets DEF Steady
    <2>14. UNCHANGED <<meta, homes, hasRun>> /\ Side' /\ (p # Recovery \/ hasRun)
        BY <1>1, <1>2, <2>2, Awake DEF CreateStore, dbVars, lockVars, boundVars, Side
    <2>15. HomeIsReady'
        BY <2>3, <2>14, HomesStay DEF IInv
    <2>16. meta' \in Creation \cup {NoState} /\ (meta' # NoState => Sound(meta', stores', data'))
        BY <2>3, <2>14, Known, SavedStays
    <2>17. homes' \subseteq [StoreTypes -> Ids] /\ data \subseteq data'
        BY <2>3, <2>14, Known
    <2> QED BY <2>3, <2>4, <2>6, <2>8, <2>13, <2>14, <2>15, <2>16, <2>17, Step
<1>3. CASE PersistStoreCreated(p)
    <2>1. PICK t \in ToCreate(p) :
              /\ proc[p].made[t] # 0
              /\ Saves(p, "make", [proc[p].state EXCEPT !.ids[t] = proc[p].made[t]])
        BY <1>3 DEF PersistStoreCreated
    <2> DEFINE s == proc[p].state
               n == [s EXCEPT !.ids[t] = proc[p].made[t]]
    <2>2. /\ proc[p].pc = "make" /\ t \in StoreTypes /\ s \in Creation /\ s # NoState
          /\ Sound(s, stores, data) /\ s.ids[t] = 0 /\ s.state = "STORES_CREATING"
        BY <1>1, <1>3, Known, PcSets, NamesDiffer DEF PersistStoreCreated, ToCreate, Steady
    <2>3. s.ids \in [StoreTypes -> Ids] /\ proc[p].made \in [StoreTypes -> Ids]
        BY <1>1, <2>2 DEF Invocation, Creation
    <2>4. /\ n \in Creation /\ n.ids = [s.ids EXCEPT ![t] = proc[p].made[t]]
          /\ n.state = s.state /\ n.written = s.written
        BY <2>2, <2>3 DEF Creation
    <2> HIDE DEF n
    <2>5. \A u \in StoreTypes : n.ids[u] = IF u = t THEN proc[p].made[t] ELSE s.ids[u]
        BY <2>2, <2>3, <2>4
    <2>6. \A u, v \in StoreTypes : u # v /\ n.ids[u] # 0 => n.ids[u] # n.ids[v]
        <3> SUFFICES ASSUME NEW u \in StoreTypes, NEW v \in StoreTypes, u # v, n.ids[u] # 0
                     PROVE  n.ids[u] # n.ids[v]
            OBVIOUS
        <3>1. CASE u = t
            BY <1>1, <2>1, <2>2, <2>5, <3>1 DEF Steady
        <3>2. CASE v = t
            BY <1>1, <2>1, <2>2, <2>5, <3>2 DEF Steady
        <3>3. CASE u # t /\ v # t
            BY <2>2, <2>5, <3>3 DEF Sound
        <3> QED BY <3>1, <3>2, <3>3
    <2>7. data \subseteq 1 .. stores /\ s.written \subseteq StoreTypes
        BY <2>2, Known DEF Creation
    <2>8. \A u \in s.written : n.ids[u] \in data
        <3>1. \A u \in s.written : s.ids[u] \in data /\ s.ids[u] # 0
            BY <2>2, <2>7, Known DEF Sound
        <3> QED BY <2>2, <2>5, <2>7, <3>1
    <2>9. \A u \in StoreTypes : n.ids[u] <= stores
        BY <2>2, <2>5, Known DEF Sound
    <2>10. Sound(n, stores, data)
        BY <2>2, <2>4, <2>6, <2>8, <2>9, PcSets DEF Sound
    <2>11. \A u, v \in StoreTypes : u # v /\ proc[p].made[u] # 0 =>
               proc[p].made[u] # proc[p].made[v] /\ proc[p].made[u] # n.ids[v]
        BY <1>1, <2>2, <2>5 DEF Steady
    <2>12. Steady([proc[p] EXCEPT !.pc = "make", !.state = n], stores, data)
        <3> DEFINE i == [proc[p] EXCEPT !.pc = "make", !.state = n]
        <3>1. i.pc = "make" /\ i.state = n /\ i.made = proc[p].made /\ i.sent = proc[p].sent
            BY <1>1 DEF Invocation
        <3>2. proc[p].sent = {}
            BY <1>1, <2>2 DEF Steady
        <3> HIDE DEF i
        <3>3. n.state = "STORES_CREATING"
            BY <2>2, <2>4
        <3>4. \A u, v \in StoreTypes : u # v /\ i.made[u] # 0 =>
                  i.made[u] # i.made[v] /\ i.made[u] # i.state.ids[v]
            BY <2>11, <3>1
        <3>5. i.pc \notin Early /\ n # NoState
            BY <2>4, <3>1, PcSets, NamesDiffer
        <3>6. Steady(i, stores, data)
            BY <2>10, <3>1, <3>2, <3>3, <3>4, <3>5 DEF Steady
        <3> QED BY <3>6 DEF i
    <2>13. Side' /\ UNCHANGED <<chainVars, hasRun>> /\ homes' \subseteq homes
        BY <1>1, <1>3 DEF PersistStoreCreated, lockVars, boundVars, Side
    <2> QED BY <2>1, <2>2, <2>4, <2>10, <2>12, <2>13, PcSets, Awake, SavesStep DEF n
<1>4. CASE StoresCreated(p)
    <2> DEFINE next == IF proc[p].bad = {} THEN "confirm" ELSE "fail"
               i == [proc[p] EXCEPT !.pc = next, !.bad = {}]
    <2>1. /\ proc[p].pc = "make" /\ proc[p].state \in Creation
          /\ proc[p].state.state = "STORES_CREATING" /\ proc[p].sent = {}
          /\ (next = "confirm" => \A t \in StoreTypes : proc[p].state.ids[t] # 0)
        BY <1>1, <1>4, Known, PcSets DEF StoresCreated, Steady, ToCreate
    <2>2. proc' = [proc EXCEPT ![p] = i]
        BY <1>1, <1>4 DEF StoresCreated, IInv, TypeOK
    <2>3. next \in {"confirm", "fail"}
        OBVIOUS
    <2> HIDE DEF next
    <2>4. /\ i \in Invocation /\ i.pc = next /\ i.state = proc[p].state
          /\ i.made = proc[p].made /\ i.sent = {}
        BY <1>1, <2>1, <2>3, PcSets DEF Invocation
    <2> HIDE DEF i
    <2>5. Steady(i, stores, data)
        BY <1>1, <2>1, <2>3, <2>4, NamesDiffer, PcSets DEF Steady
    <2>6. UNCHANGED <<meta, homes, hasRun, stores, data>> /\ Side' /\ (p # Recovery \/ hasRun)
        BY <1>1, <1>4, <2>1, Awake
           DEF StoresCreated, dbVars, chainVars, lockVars, boundVars, Side
    <2>7. HomeIsReady'
        BY <2>6, Known, HomesStay DEF IInv
    <2> QED BY <2>2, <2>4, <2>5, <2>6, <2>7, Known, Step
<1>5. CASE StoresConfirmed(p)
    <2> DEFINE s == proc[p].state
               n == [s EXCEPT !.confirmed = StoreTypes, !.state = "STORES_CONFIRMED"]
    <2>1. /\ proc[p].pc = "confirm" /\ s \in Creation /\ Sound(s, stores, data) /\ s # NoState
          /\ \A t \in StoreTypes : s.ids[t] # 0
          /\ proc[p].sent = {}
        BY <1>1, <1>5, Known, PcSets, NamesDiffer DEF StoresConfirmed, Steady
    <2>2. /\ n \in Creation /\ n.ids = s.ids /\ n.state = "STORES_CONFIRMED"
          /\ n.confirmed = StoreTypes /\ n.written = s.written
        BY <2>1 DEF Creation, States
    <2> HIDE DEF n
    <2>3. Sound(n, stores, data)
        BY <2>1, <2>2 DEF Sound
    <2>4. Steady([proc[p] EXCEPT !.pc = "run", !.state = n], stores, data)
        BY <1>1, <2>1, <2>2, <2>3, NamesDiffer, PcSets DEF Steady, Invocation
    <2>5. Side' /\ UNCHANGED <<chainVars, hasRun>> /\ homes' \subseteq homes
        BY <1>1, <1>5 DEF StoresConfirmed, lockVars, boundVars, Side
    <2> QED BY <1>5, <2>1, <2>2, <2>3, <2>4, <2>5, PcSets, Awake, SavesStep
              DEF StoresConfirmed, n
<1> QED BY <1>2, <1>3, <1>4, <1>5

LEMMA PushesIInv ==
    ASSUME IInv, NEW p \in Procs, PushData(p) \/ DataPushed(p)
    PROVE  IInv'
<1> DEFINE s == proc[p].state
<1>1. proc[p] \in Invocation /\ Steady(proc[p], stores, data) /\ Side
    BY Known
<1>2. proc[p].pc = "push"
    BY DEF PushData, DataPushed
<1>3. /\ s \in Creation /\ s # NoState /\ Sound(s, stores, data)
      /\ s.state = "DATA_PUSHING" /\ s.confirmed = StoreTypes
      /\ \A t \in StoreTypes : s.ids[t] \in 1 .. stores
      /\ \A t \in proc[p].sent : s.ids[t] \in data
    <2>1. s \in Creation /\ s # NoState /\ Sound(s, stores, data)
        BY <1>2, Known, PcSets, NamesDiffer
    <2>2. s.state = "DATA_PUSHING" /\ \A t \in proc[p].sent : s.ids[t] \in data
        BY <1>1, <1>2, <2>1 DEF Steady
    <2>3. s.confirmed = StoreTypes /\ \A t \in StoreTypes : s.ids[t] # 0 /\ s.ids[t] <= stores
        BY <2>1, <2>2, PcSets DEF Sound
    <2>4. \A t \in StoreTypes : s.ids[t] \in Nat
        BY <2>1, OrgConstants DEF Creation, Ids
    <2> QED BY <2>1, <2>2, <2>3, <2>4, Known
<1>4. CASE PushData(p)
    <2>1. PICK t \in NeedingData(p) \ (proc[p].sent \cup proc[p].bad) :
              /\ data' = data \cup {s.ids[t]}
              /\ proc' = [proc EXCEPT ![p].sent = @ \cup {t}]
        BY <1>4 DEF PushData
    <2> DEFINE i == [proc[p] EXCEPT !.sent = @ \cup {t}]
    <2>2. t \in DataStores /\ t \in StoreTypes
        BY <2>1, OrgConstants DEF NeedingData
    <2>3. proc' = [proc EXCEPT ![p] = i]
        BY <1>1, <2>1 DEF IInv, TypeOK
    <2>4. /\ i \in Invocation /\ i.pc = "push" /\ i.state = s /\ i.made = proc[p].made
          /\ i.sent = proc[p].sent \cup {t}
        BY <1>1, <1>2, <2>2 DEF Invocation
    <2> HIDE DEF i
    <2>5. stores' = stores /\ data \subseteq data' /\ data' \subseteq 1 .. stores'
        BY <1>3, <1>4, <2>1, <2>2, Known DEF PushData
    <2>6. Sound(s, stores', data')
        BY <1>3, <2>5, Known, SoundGrows
    <2>7. \A u \in i.sent : s.ids[u] \in data'
        BY <1>3, <2>1, <2>4
    <2> HIDE DEF s
    <2>8. \A u, v \in StoreTypes : u # v /\ i.made[u] # 0 =>
               i.made[u] # i.made[v] /\ i.made[u] # s.ids[v]
        BY <1>1, <1>3, <2>4 DEF Steady, s
    <2>9. Steady(i, stores', data')
        BY <1>3, <2>4, <2>6, <2>7, <2>8, PcSets DEF Steady
    <2>10. UNCHANGED <<meta, homes, hasRun>> /\ Side' /\ (p # Recovery \/ hasRun)
        BY <1>1, <1>2, <1>4, Awake DEF PushData, dbVars, lockVars, boundVars, Side
    <2>11. stores' \in Ids /\ stores <= stores'
        BY <2>5, Known
    <2>12. HomeIsReady'
        BY <2>5, <2>10, <2>11, HomesStay DEF IInv
    <2>13. meta' \in Creation \cup {NoState} /\ (meta' # NoState => Sound(meta', stores', data'))
        BY <2>5, <2>10, <2>11, Known, SavedStays
    <2>14. \A u \in StoreTypes : i.made[u] <= stores'
        BY <2>4, <2>5, Known
    <2>15. homes' \subseteq [StoreTypes -> Ids]
        BY <2>10, Known
    <2> QED BY <2>3, <2>4, <2>5, <2>9, <2>10, <2>11, <2>12, <2>13, <2>14, <2>15, Step
<1>5. CASE DataPushed(p)
    <2> DEFINE n == [s EXCEPT !.written = @ \cup proc[p].sent]
               next == IF proc[p].bad = {} THEN "finalize" ELSE "fail"
    <2>1. proc[p].sent \subseteq DataStores
        BY <1>1 DEF Invocation
    <2>2. /\ n \in Creation /\ n.ids = s.ids /\ n.state = "DATA_PUSHING"
          /\ n.confirmed = StoreTypes /\ n.written = s.written \cup proc[p].sent
        BY <1>3, <2>1, OrgConstants DEF Creation
    <2>3. Saves(p, next, n) /\ next \in {"finalize", "fail"}
        BY <1>5 DEF DataPushed
    <2>4. next = "finalize" => DataStores \subseteq n.written
        BY <1>3, <1>5, <2>2, OrgConstants DEF DataPushed, NeedingData
    <2> HIDE DEF n, next
    <2>5. Sound(n, stores, data)
        BY <1>3, <2>2 DEF Sound
    <2>6. Steady([proc[p] EXCEPT !.pc = next, !.state = n], stores, data)
        <3> DEFINE i == [proc[p] EXCEPT !.pc = next, !.state = n]
        <3>1. i.pc = next /\ i.state = n /\ i.made = proc[p].made /\ i.sent = proc[p].sent
            BY <1>1 DEF Invocation
        <3>2. \A u, v \in StoreTypes : u # v /\ i.made[u] # 0 =>
                  i.made[u] # i.made[v] /\ i.made[u] # i.state.ids[v]
            BY <1>1, <1>3, <2>2, <3>1 DEF Steady
        <3>3. \A u \in i.sent : n.ids[u] \in data
            BY <1>3, <2>2, <3>1
        <3>4. n # NoState /\ n.state \in Late
            BY <2>2, NamesDiffer, PcSets
        <3> HIDE DEF i
        <3>5. Steady(i, stores, data)
            BY <2>3, <2>4, <2>5, <3>1, <3>2, <3>3, <3>4, PcSets DEF Steady
        <3> QED BY <3>5 DEF i
    <2>7. Side' /\ UNCHANGED <<chainVars, hasRun>> /\ homes' \subseteq homes
        BY <1>1, <1>5 DEF DataPushed, lockVars, boundVars, Side
    <2>8. next \in Steps
        BY <2>3, PcSets
    <2> QED BY <1>2, <2>2, <2>3, <2>5, <2>6, <2>7, <2>8, Awake, SavesStep
<1> QED BY <1>4, <1>5

LEMMA RowsIInv ==
    ASSUME IInv, NEW p \in Procs,
           Finalize(p) \/ AddHome(p) \/ DestroyPending(p) \/ RowsWritten(p) \/ MarkSubscribed(p)
    PROVE  IInv'
<1> DEFINE s == proc[p].state
<1>1. proc[p] \in Invocation /\ Steady(proc[p], stores, data) /\ Side
    BY Known
<1>2. proc[p].pc \in {"finalize", "row", "subscribe"}
    BY DEF Finalize, AddHome, DestroyPending, RowsWritten, MarkSubscribed
<1>3. /\ s \in Creation /\ s # NoState /\ Sound(s, stores, data)
      /\ \A t \in StoreTypes : s.ids[t] \in Nat
    BY <1>2, Known, PcSets, NamesDiffer, OrgConstants DEF Creation, Ids
<1>4. p # Recovery \/ hasRun
    BY <1>2, Awake
<1>5. CASE Finalize(p)
    <2> DEFINE n == [s EXCEPT !.state = "FINALIZING"]
    <2>1. proc[p].pc = "finalize" /\ Saves(p, "row", n)
        BY <1>5 DEF Finalize
    <2>2. s.state \in Late /\ DataStores \subseteq s.written
        BY <1>1, <2>1 DEF Steady
    <2>3. n \in Creation /\ n.ids = s.ids /\ n.state = "FINALIZING" /\ n.written = s.written
              /\ n.confirmed = s.confirmed
        BY <1>3 DEF Creation, States
    <2> HIDE DEF n
    <2>4. Sound(n, stores, data)
        BY <1>3, <2>2, <2>3, PcSets DEF Sound
    <2>5. Steady([proc[p] EXCEPT !.pc = "row", !.state = n], stores, data)
        BY <1>1, <1>3, <2>1, <2>3, <2>4, NamesDiffer, PcSets DEF Steady, Invocation
    <2>6. Side' /\ UNCHANGED <<chainVars, hasRun>> /\ homes' \subseteq homes
        BY <1>1, <1>5 DEF Finalize, lockVars, boundVars, Side
    <2> QED BY <1>4, <2>1, <2>3, <2>4, <2>5, <2>6, PcSets, SavesStep
<1>6. CASE AddHome(p)
    <2>1. /\ homes' = homes \cup {s.ids} /\ proc[p].pc = "row" /\ s.state = "FINALIZING"
          /\ UNCHANGED <<stores, data>>
        BY <1>1, <1>6 DEF AddHome, Steady, chainVars
    <2>2. \A t \in StoreTypes : s.ids[t] \in 1 .. stores
        BY <1>3, <2>1, PcSets, Known DEF Sound
    <2>3. \A t, u \in StoreTypes : t # u => s.ids[t] # s.ids[u]
        BY <1>3, <2>1, <2>2 DEF Sound
    <2>4. \A t \in DataStores : s.ids[t] \in data
        BY <1>3, <2>1 DEF Sound
    <2>5. s.ids \in [StoreTypes -> Ids]
        BY <1>3 DEF Creation
    <2> HIDE DEF s
    <2>6. HomeIsReady'
        BY <2>1, <2>2, <2>3, <2>4, Known DEF HomeIsReady
    <2>7. homes' \subseteq [StoreTypes -> Ids]
        BY <2>1, <2>5, Known
    <2>8. TypeOK'
        BY <1>6, <2>1, <2>7 DEF AddHome, lockVars, boundVars, IInv, TypeOK
    <2> QED BY <1>6, <2>1, <2>6, <2>8 DEF AddHome, lockVars, IInv, ReadyInv
<1>7. CASE DestroyPending(p)
    <2>1. HomeIsReady'
        BY <1>7, Known DEF DestroyPending, chainVars, HomeIsReady
    <2>2. TypeOK'
        BY <1>7 DEF DestroyPending, chainVars, lockVars, boundVars, IInv, TypeOK
    <2> QED BY <1>7, <2>1, <2>2 DEF DestroyPending, chainVars, lockVars, IInv, ReadyInv
<1>8. CASE RowsWritten(p)
    <2>1. proc[p].pc = "row" /\ Goes(p, "subscribe")
        BY <1>8 DEF RowsWritten
    <2>2. Steady([proc[p] EXCEPT !.pc = "subscribe"], stores, data)
        BY <1>1, <1>3, <2>1, PcSets DEF Steady, Invocation
    <2>3. Side' /\ UNCHANGED <<meta, chainVars, hasRun>> /\ homes' \subseteq homes
        BY <1>1, <1>8 DEF RowsWritten, dbVars, lockVars, boundVars, Side
    <2> QED BY <1>4, <2>1, <2>2, <2>3, PcSets, GoesStep
<1>9. CASE MarkSubscribed(p)
    <2>1. proc[p].pc = "subscribe" /\ Goes(p, "clear")
        BY <1>9 DEF MarkSubscribed
    <2>2. Steady([proc[p] EXCEPT !.pc = "clear"], stores, data)
        BY <1>1, <2>1, PcSets DEF Steady, Invocation
    <2>3. Side' /\ UNCHANGED <<meta, chainVars, hasRun>> /\ homes' \subseteq homes
        <3>1. s.ids[OrgUid] \in 1 .. MaxStores
            <4>1. s.ids[OrgUid] # 0
                BY <1>1, <1>3, <2>1, PcSets, OrgConstants DEF Steady, Sound
            <4> QED BY <1>3, <4>1, OrgConstants DEF Creation, Ids
        <3>2. subscribed' \subseteq 1 .. MaxStores
            BY <1>1, <1>9, <3>1 DEF MarkSubscribed, Side
        <3> QED BY <1>1, <1>9, <3>2 DEF MarkSubscribed, lockVars, boundVars, Side
    <2> QED BY <1>4, <2>1, <2>2, <2>3, PcSets, GoesStep
<1> QED BY <1>5, <1>6, <1>7, <1>8, <1>9

LEMMA EndsIInv ==
    ASSUME IInv, NEW p \in Procs, ClearCreationState(p) \/ MarkAsFailed(p) \/ Unpend(p)
    PROVE  IInv'
<1>1. proc[p] \in Invocation /\ Steady(proc[p], stores, data) /\ Side
    BY Known
<1>2. CASE ClearCreationState(p)
    <2>1. p # Recovery \/ hasRun
        BY <1>2, Awake DEF ClearCreationState
    <2> QED BY <1>1, <1>2, <2>1, LeavesStep DEF ClearCreationState, Side
<1>3. CASE MarkAsFailed(p)
    <2>1. proc[p].pc = "fail" /\ Goes(p, "unpend")
        BY <1>3 DEF MarkAsFailed
    <2>2. meta' \in Creation \cup {NoState} /\ (meta' # NoState => Sound(meta', stores, data))
        <3>1. CASE meta = NoState
            BY <1>3, <3>1 DEF MarkAsFailed
        <3>2. CASE meta # NoState
            <4>1. /\ meta \in Creation /\ Sound(meta, stores, data)
                  /\ meta' = [meta EXCEPT !.state = "FAILED"]
                BY <1>3, <3>2, Known DEF MarkAsFailed
            <4>2. meta' \in Creation
                BY <4>1 DEF Creation, States
            <4>3. Sound(meta', stores, data)
                BY <4>1, PcSets DEF Sound, Creation
            <4> QED BY <4>2, <4>3
        <3> QED BY <3>1, <3>2
    <2> QED BY <1>3, <2>1, <2>2, FailsStep DEF MarkAsFailed
<1>4. CASE Unpend(p)
    <2>1. /\ proc[p].pc = "unpend" /\ pending' = FALSE
          /\ UNCHANGED <<meta, homes, subscribed, chainVars, hasRun, boundVars>>
        BY <1>4 DEF Unpend
    <2>2. CASE Leaves(p)
        BY <2>1, <2>2, Awake, LeavesStep
    <2>3. CASE /\ proc' = [proc EXCEPT ![p].pc = "tidy", ![p].todo = <<"clear">>]
               /\ lock' = lock
        <3> DEFINE i == [proc[p] EXCEPT !.pc = "tidy", !.todo = <<"clear">>]
        <3>1. proc' = [proc EXCEPT ![p] = i]
            BY <1>1, <2>3 DEF IInv, TypeOK
        <3>2. <<"clear">> \in Seq({"clear", "unpend"})
            OBVIOUS
        <3>3. i \in Invocation /\ i.made = proc[p].made /\ i.sent = proc[p].sent
                  /\ i.state = proc[p].state /\ i.pc = "tidy"
            BY <1>1, <3>2, PcSets DEF Invocation
        <3> HIDE DEF i
        <3>4. Steady(i, stores, data)
            BY <1>1, <3>3, PcSets DEF Steady
        <3>5. UNCHANGED <<meta, stores, data, homes, hasRun>> /\ Side'
            BY <1>1, <2>1, <2>3 DEF chainVars, boundVars, Side
        <3>6. HomeIsReady'
            BY <3>5, Known DEF HomeIsReady
        <3> QED BY <2>1, <3>1, <3>3, <3>4, <3>5, <3>6, Known, Awake, Step
    <2> QED BY <1>4, <2>2, <2>3 DEF Unpend
<1> QED BY <1>2, <1>3, <1>4

LEMMA FailsIInv ==
    ASSUME IInv, NEW p \in Procs, Fails(p)
    PROVE  IInv'
<1> DEFINE s == proc[p].state
<1>1. proc[p] \in Invocation /\ Steady(proc[p], stores, data) /\ Side
    BY Known
<1>2. proc[p].pc \in {"make", "confirm", "push", "coins", "finalize", "subscribe"}
    BY DEF Fails, CreateStoreFails, StoresUnconfirmed, PushDataFails, Throw
<1>3. s \in Creation /\ s # NoState /\ Sound(s, stores, data) /\ (p # Recovery \/ hasRun)
    BY <1>2, Known, PcSets, NamesDiffer, Awake
<1>4. UNCHANGED <<pending, homes, subscribed, stores, data, lock, hasRun, now, crashes>>
    BY DEF Fails, CreateStoreFails, StoresUnconfirmed, PushDataFails, Throw,
           dbVars, chainVars, lockVars
<1>5. errors' \in 0 .. MaxErrors
    BY <1>1, OrgConstants
       DEF Fails, CreateStoreFails, StoresUnconfirmed, PushDataFails, Throw, Side
<1>6. Side' /\ HomeIsReady'
    BY <1>1, <1>4, <1>5, Known DEF Side, HomeIsReady
<1>7. ASSUME NEW B \in SUBSET StoreTypes, UNCHANGED meta,
             proc' = [proc EXCEPT ![p].bad = B]
      PROVE  IInv'
    <2> DEFINE i == [proc[p] EXCEPT !.bad = B]
    <2>1. proc' = [proc EXCEPT ![p] = i]
        BY <1>1, <1>7 DEF IInv, TypeOK
    <2>2. i \in Invocation /\ i.made = proc[p].made /\ i.sent = proc[p].sent
              /\ i.state = s /\ i.pc = proc[p].pc
        BY <1>1 DEF Invocation
    <2> HIDE DEF i
    <2>3. Steady(i, stores, data)
        BY <1>1, <2>2 DEF Steady
    <2> QED BY <1>3, <1>4, <1>6, <1>7, <2>1, <2>2, <2>3, Known, Step
<1>8. CASE CreateStoreFails(p)
    <2>1. PICK t \in ToCreate(p) : proc' = [proc EXCEPT ![p].bad = @ \cup {t}]
        BY <1>8 DEF CreateStoreFails
    <2> DEFINE B == proc[p].bad \cup {t}
    <2>2. B \in SUBSET StoreTypes
        BY <1>1, <2>1 DEF ToCreate, Invocation
    <2>3. proc' = [proc EXCEPT ![p].bad = B] /\ UNCHANGED meta
        BY <1>8, <2>1 DEF CreateStoreFails, dbVars
    <2> HIDE DEF B
    <2> QED BY <1>7, <2>2, <2>3
<1>9. CASE PushDataFails(p)
    <2>1. PICK t \in NeedingData(p) : proc' = [proc EXCEPT ![p].bad = @ \cup {t}]
        BY <1>9 DEF PushDataFails
    <2> DEFINE B == proc[p].bad \cup {t}
    <2>2. B \in SUBSET StoreTypes
        BY <1>1, <2>1, OrgConstants DEF NeedingData, Invocation
    <2>3. proc' = [proc EXCEPT ![p].bad = B] /\ UNCHANGED meta
        BY <1>9, <2>1 DEF PushDataFails, dbVars
    <2> HIDE DEF B
    <2> QED BY <1>7, <2>2, <2>3
<1>10. CASE StoresUnconfirmed(p)
    <2>1. PICK S \in SUBSET StoreTypes : Saves(p, "fail", [s EXCEPT !.confirmed = S])
        BY <1>10 DEF StoresUnconfirmed
    <2> DEFINE n == [s EXCEPT !.confirmed = S]
    <2>2. /\ n \in Creation /\ n.ids = s.ids /\ n.state = s.state /\ n.written = s.written
        BY <1>3 DEF Creation
    <2>3. proc[p].pc = "confirm" /\ s.state = "STORES_CREATING" /\ proc[p].sent = {}
        BY <1>1, <1>10, PcSets DEF StoresUnconfirmed, Steady
    <2> HIDE DEF n
    <2>4. Sound(n, stores, data)
        BY <1>3, <2>2, <2>3, PcSets DEF Sound
    <2>5. Steady([proc[p] EXCEPT !.pc = "fail", !.state = n], stores, data)
        BY <1>1, <1>3, <2>2, <2>3, <2>4, NamesDiffer, PcSets DEF Steady, Invocation
    <2>6. UNCHANGED <<chainVars, hasRun>> /\ homes' \subseteq homes
        BY <1>4 DEF chainVars
    <2> QED BY <1>3, <1>6, <2>1, <2>2, <2>4, <2>5, <2>6, PcSets, SavesStep DEF n
<1>11. CASE Throw(p)
    <2>1. Goes(p, "fail") /\ UNCHANGED <<meta, chainVars, hasRun>> /\ homes' \subseteq homes
        BY <1>4, <1>11 DEF Throw, dbVars, chainVars
    <2>2. Steady([proc[p] EXCEPT !.pc = "fail"], stores, data)
        BY <1>1, PcSets DEF Steady, Invocation
    <2> QED BY <1>3, <1>6, <2>1, <2>2, PcSets, GoesStep
<1> QED BY <1>8, <1>9, <1>10, <1>11 DEF Fails

LEMMA CreatesIInv ==
    ASSUME IInv, NEW p \in Procs, Creates(p)
    PROVE  IInv'
BY BeginsIInv, ResumesIInv, StoresIInv, PushesIInv, RowsIInv, EndsIInv DEF Creates

-----------------------------------------------------------------------------
(* Time, restarts and the theorems *)

LEMMA TickIInv == ASSUME IInv, Tick PROVE IInv'
<1>1. now' \in 0 .. MaxTime
    BY OrgConstants DEF Tick, IInv, TypeOK
<1> QED BY <1>1 DEF Tick, IInv, TypeOK, ReadyInv, HomeIsReady, dbVars, chainVars, lockVars

LEMMA CrashIInv == ASSUME IInv, Crash PROVE IInv'
<1>1. crashes' \in 0 .. MaxCrashes /\ Unlocked \in [by : Procs \cup {"nobody"}, at : 0 .. MaxTime]
    BY OrgConstants DEF Crash, Unlocked, IInv, TypeOK
<1>2. UNCHANGED <<meta, pending, homes, subscribed, stores, data, now, errors>>
    BY DEF Crash, dbVars, chainVars
<1>3. stores \in Nat
    BY OrgConstants DEF IInv, TypeOK, Ids
<1>4. Quiet \in Invocation /\ Steady(Quiet, stores, data)
    BY <1>3, QuietSteady
<1>5. proc' \in [Procs -> Invocation] /\ \A p \in Procs : proc'[p] = Quiet
    BY <1>4 DEF Crash
<1>6. \A p \in Procs, t \in StoreTypes : proc'[p].made[t] <= stores
    BY <1>3, <1>5 DEF Quiet
<1>7. TypeOK'
    BY <1>1, <1>2, <1>5, <1>6 DEF Crash, IInv, TypeOK
<1>8. ReadyInv'
    BY <1>2, <1>4, <1>5 DEF Crash, IInv, ReadyInv, HomeIsReady, Quiet, Procs
<1> QED BY <1>7, <1>8 DEF IInv

LEMMA NextIInv == IInv /\ [Next]_vars => IInv'
<1> SUFFICES ASSUME IInv, [Next]_vars PROVE IInv'
    OBVIOUS
<1>1. CASE UNCHANGED vars
    BY <1>1 DEF vars, dbVars, chainVars, lockVars, boundVars, IInv, TypeOK, ReadyInv, HomeIsReady
<1>2. CASE \E r \in Requests : PostCreate(r) \/ Handles(r)
    BY <1>2, HandlesIInv
<1>3. CASE Recover
    BY <1>3, RecoverIInv
<1>4. CASE \E p \in Procs : Creates(p) \/ Fails(p)
    BY <1>4, CreatesIInv, FailsIInv
<1>5. CASE Tick
    BY <1>5, TickIInv
<1>6. CASE Crash
    BY <1>6, CrashIInv
<1> QED BY <1>1, <1>2, <1>3, <1>4, <1>5, <1>6 DEF Next

\* Every variable keeps its type, and no invocation holds a store that does not
\* exist, whatever the process was doing when it was interrupted.
THEOREM TypeCorrect == Spec => []TypeOK
<1>1. Init => IInv
    BY InitIInv
<1>2. IInv /\ [Next]_vars => IInv'
    BY NextIInv
<1>3. IInv => TypeOK
    BY DEF IInv
<1> QED BY <1>1, <1>2, <1>3, PTL DEF Spec

\* A home organization row names stores of its own that exist and whose data
\* was accepted, for any number of requests, restarts and failures: the row is
\* written by _finalizeOrganization from whatever copy of the state its caller
\* remembers, and every copy is sound.
THEOREM HomesAreReady == Spec => []HomeIsReady
<1>1. Init => IInv
    BY InitIInv
<1>2. IInv /\ [Next]_vars => IInv'
    BY NextIInv
<1>3. IInv => HomeIsReady
    BY DEF IInv, ReadyInv
<1> QED BY <1>1, <1>2, <1>3, PTL DEF Spec

-----------------------------------------------------------------------------
(* Nobody works longer than the lock lasts *)

(* Steps by one invocation that has the lock *)

LEMMA StepSets ==
    /\ Working = {"coins", "make", "confirm", "push", "finalize", "subscribe",
                  "pend", "run", "row"}
    /\ Held = Working \cup {"exists", "begin", "load", "clear", "fail", "unpend"}
    /\ Late = {"STORES_CONFIRMED", "DATA_PUSHING", "FINALIZING"}
BY DEF Working, Held, Knows, Creating, Waiting, Late

\* Only p moves, to step and state s.
Moved(p, step, s) ==
    /\ proc'[p].pc = step /\ proc'[p].state = s
    /\ \A q \in Procs \ {p} : proc'[q] = proc[q]

LEMMA Alone ==
    ASSUME WorkInv, NEW p \in Procs, proc[p].pc \in Held
    PROVE  /\ lock.by = p
           /\ \A q \in Procs \ {p} : proc[q].pc \notin Held
BY DEF WorkInv

LEMMA Recoverer ==
    Recovery \in Procs /\ Procs = Requests \cup {Recovery} /\ Recovery \notin Requests
BY NamesDiffer DEF Procs

\* p saves s, a state of the organization that has a row.
LEMMA SaveHome ==
    ASSUME HomeInv, NEW p \in Procs, proc[p].pc \in Held,
           NEW step \in (Working \ {"subscribe"}) \cup {"fail"}, NEW s,
           Moved(p, step, s), meta' = s, s # NoState, s.state # "FAILED",
           homes' \subseteq homes, \A h \in homes' : s.ids = h,
           lock' = lock, pending' = pending, step = "pend" => homes' = {},
           p \in Requests /\ proc[Recovery].pc = "count" /\ s.state \in Late =>
              proc[Recovery].state.ids = s.ids
    PROVE  HomeInv'
<1>1. \A q \in Procs \ {p} : proc'[q] = proc[q] /\ proc'[q].pc \notin Held
    BY Alone DEF Moved, HomeInv
<1>2. InProgress'
    BY DEF InProgress
<1>3. WorkInv'
    <2>1. \A q \in Procs : proc'[q].pc \in Held => lock'.by = q
        BY <1>1, Alone DEF HomeInv
    <2>2. \A h, g \in homes' : h = g
        BY DEF HomeInv, WorkInv
    <2>3. InProgress' => \A h \in homes' : meta'.ids = h
        BY <1>2 DEF HomeInv, WorkInv
    <2>4. \A q \in Procs : proc'[q].pc \in Working =>
            /\ \A h \in homes' : proc'[q].state.ids = h
            /\ InProgress' /\ proc'[q].state.state \in Late => meta'.ids = proc'[q].state.ids
        BY <1>1, <1>2, StepSets DEF HomeInv, WorkInv, Moved
    <2>5. \A q \in Procs : proc'[q].pc \in {"subscribe", "clear"} => ~pending'
        BY <1>1, StepSets DEF Moved
    <2>6. \A r \in Requests : proc'[r].pc \in {"begin", "load"} => homes' = {}
        BY <1>1, StepSets, Recoverer DEF Moved
    <2>7. \A q \in Procs : proc'[q].pc = "pend" => homes' = {}
        BY <1>1, StepSets, Recoverer DEF Moved
    <2> QED BY <2>1, <2>2, <2>3, <2>4, <2>5, <2>6, <2>7 DEF WorkInv
<1>4. CopyInv'
    <2>1. CASE p = Recovery
        BY <2>1, StepSets DEF CopyInv, Moved
    <2>2. CASE p # Recovery
        BY <2>2, <1>1, Recoverer, StepSets DEF HomeInv, CopyInv, Moved
    <2> QED BY <2>1, <2>2
<1>5. PassInv'
    BY <1>2 DEF PassInv
<1> QED BY <1>3, <1>4, <1>5 DEF HomeInv

\* p goes on and leaves the saved state and the rows as they are.
LEMMA GoHome ==
    ASSUME HomeInv, NEW p \in Procs, proc[p].pc \in Held \ {"unpend"},
           NEW step \in Held \ {"exists", "begin", "load", "pend"},
           Moved(p, step, proc[p].state),
           step \in Working => proc[p].pc \in Working,
           step = "row" => proc[p].pc = "row",
           step \in {"subscribe", "clear"} => ~pending',
           pending' => pending \/ homes = {},
           meta' = meta, homes' = homes, lock' = lock
    PROVE  HomeInv'
<1>1. \A q \in Procs \ {p} : proc'[q] = proc[q] /\ proc'[q].pc \notin Held
    BY Alone DEF Moved, HomeInv
<1>2. InProgress' <=> InProgress
    BY DEF InProgress
<1>3. WorkInv'
    <2>1. \A q \in Procs : proc'[q].pc \in Held => lock'.by = q
        BY <1>1, Alone DEF HomeInv
    <2>2. \A h, g \in homes' : h = g
        BY DEF HomeInv, WorkInv
    <2>3. InProgress' => \A h \in homes' : meta'.ids = h
        BY <1>2 DEF HomeInv, WorkInv
    <2>4. \A q \in Procs : proc'[q].pc \in Working =>
            /\ \A h \in homes' : proc'[q].state.ids = h
            /\ InProgress' /\ proc'[q].state.state \in Late => meta'.ids = proc'[q].state.ids
        BY <1>1, <1>2, StepSets DEF HomeInv, WorkInv, Moved
    <2>5. \A q \in Procs : proc'[q].pc \in {"subscribe", "clear"} => ~pending'
        BY <1>1, StepSets DEF Moved
    <2>6. \A r \in Requests : proc'[r].pc \in {"begin", "load"} => homes' = {}
        BY <1>1, StepSets, Recoverer DEF Moved
    <2>7. \A q \in Procs : proc'[q].pc = "pend" => homes' = {}
        BY <1>1, StepSets, Recoverer DEF Moved
    <2> QED BY <2>1, <2>2, <2>3, <2>4, <2>5, <2>6, <2>7 DEF WorkInv
<1>4. CopyInv'
    <2>1. CASE p = Recovery
        BY <2>1, StepSets DEF CopyInv, Moved
    <2>2. CASE p # Recovery
        <3>1. proc'[Recovery] = proc[Recovery]
            BY <2>2, <1>1, Recoverer
        <3>2. \A r \in Requests :
                /\ proc'[r].pc \in Working => /\ proc[r].pc \in Working
                                              /\ proc'[r].state = proc[r].state
                /\ proc'[r].pc \in {"exists", "begin", "load"} =>
                      proc[r].pc \in {"exists", "begin", "load"}
            BY <1>1, Recoverer, StepSets DEF Moved
        <3> QED BY <3>1, <3>2, <1>2 DEF HomeInv, CopyInv
    <2> QED BY <2>1, <2>2
<1>5. PassInv'
    <2>1. CASE p = Recovery
        BY <2>1, StepSets DEF PassInv, Moved
    <2>2. CASE p # Recovery
        BY <2>2, <1>1, <1>2, Recoverer, StepSets DEF HomeInv, PassInv, Moved
    <2> QED BY <2>1, <2>2
<1> QED BY <1>3, <1>4, <1>5 DEF HomeInv

\* p ends; it may have cleared the saved state.
LEMMA EndHome ==
    ASSUME HomeInv, NEW p \in Procs, proc[p].pc \in Held,
           NEW step \in {"idle", "tidy"}, NEW s, Moved(p, step, s),
           lock' \in {Unlocked, lock}, meta' \in {meta, NoState}, homes' = homes,
           pending' => pending,
           p \in Requests /\ proc[Recovery].pc = "lock" /\ pending' /\ homes # {} => InProgress'
    PROVE  HomeInv'
<1>1. \A q \in Procs : proc'[q].pc \notin Held
    BY Alone, StepSets DEF Moved, HomeInv
<1>2. \A q \in Procs \ {p} : proc'[q] = proc[q]
    BY DEF Moved
<1>3. InProgress' => InProgress /\ meta' = meta
    BY DEF InProgress
<1>4. WorkInv'
    <2>1. \A q \in Procs : proc'[q].pc \in Held => lock'.by = q
        BY <1>1
    <2>2. \A h, g \in homes' : h = g
        BY DEF HomeInv, WorkInv
    <2>3. InProgress' => \A h \in homes' : meta'.ids = h
        BY <1>3 DEF HomeInv, WorkInv
    <2>4. \A q \in Procs : proc'[q].pc \in Working =>
            /\ \A h \in homes' : proc'[q].state.ids = h
            /\ InProgress' /\ proc'[q].state.state \in Late => meta'.ids = proc'[q].state.ids
        BY <1>1, StepSets
    <2>5. \A q \in Procs : proc'[q].pc \in {"subscribe", "clear"} => ~pending'
        BY <1>1, StepSets
    <2>6. \A r \in Requests : proc'[r].pc \in {"begin", "load"} => homes' = {}
        BY <1>1, StepSets, Recoverer
    <2>7. \A q \in Procs : proc'[q].pc = "pend" => homes' = {}
        BY <1>1, StepSets, Recoverer
    <2> QED BY <2>1, <2>2, <2>3, <2>4, <2>5, <2>6, <2>7 DEF WorkInv
<1>5. CopyInv'
    <2>1. CASE p = Recovery
        BY <2>1, StepSets DEF CopyInv, Moved
    <2>2. CASE p # Recovery
        BY <2>2, <1>1, <1>2, Recoverer, StepSets DEF HomeInv, CopyInv
    <2> QED BY <2>1, <2>2
<1>6. PassInv'
    <2>1. CASE p = Recovery
        BY <2>1, StepSets DEF PassInv, Moved
    <2>2. CASE p # Recovery
        BY <2>2, <1>1, <1>2, Recoverer, StepSets DEF HomeInv, PassInv
    <2> QED BY <2>1, <2>2
<1> QED BY <1>4, <1>5, <1>6 DEF HomeInv

\* p gives the creation up.
LEMMA FailHome ==
    ASSUME HomeInv, NEW p \in Procs, proc[p].pc \in Held, NEW s, Moved(p, "unpend", s),
           ~InProgress', UNCHANGED <<homes, lock, pending>>
    PROVE  HomeInv'
<1>1. \A q \in Procs \ {p} : proc'[q] = proc[q] /\ proc'[q].pc \notin Held
    BY Alone DEF Moved, HomeInv
<1>2. WorkInv'
    <2>1. \A q \in Procs : proc'[q].pc \in Held => lock'.by = q
        BY <1>1, Alone DEF HomeInv
    <2>2. \A h, g \in homes' : h = g
        BY DEF HomeInv, WorkInv
    <2>3. InProgress' => \A h \in homes' : meta'.ids = h
        BY DEF HomeInv, WorkInv
    <2>4. \A q \in Procs : proc'[q].pc \in Working =>
            /\ \A h \in homes' : proc'[q].state.ids = h
            /\ InProgress' /\ proc'[q].state.state \in Late => meta'.ids = proc'[q].state.ids
        BY <1>1, StepSets DEF Moved
    <2>5. \A q \in Procs : proc'[q].pc \in {"subscribe", "clear"} => ~pending'
        BY <1>1, StepSets DEF Moved
    <2>6. \A r \in Requests : proc'[r].pc \in {"begin", "load"} => homes' = {}
        BY <1>1, StepSets, Recoverer DEF Moved
    <2>7. \A q \in Procs : proc'[q].pc = "pend" => homes' = {}
        BY <1>1, StepSets, Recoverer DEF Moved
    <2> QED BY <2>1, <2>2, <2>3, <2>4, <2>5, <2>6, <2>7 DEF WorkInv
<1>3. CASE p = Recovery
    <2>1. CopyInv' /\ PassInv'
        BY <1>3 DEF CopyInv, PassInv, Moved
    <2> QED BY <1>2, <2>1 DEF HomeInv
<1>4. CASE p # Recovery
    <2>1. p \in Requests /\ proc'[Recovery] = proc[Recovery]
        BY <1>1, <1>4, Recoverer
    <2>2. CopyInv'
        BY <1>1, <2>1, Recoverer, StepSets DEF HomeInv, CopyInv, Moved
    <2>3. PassInv'
        BY <1>1, <1>4, <2>1, Recoverer, StepSets DEF PassInv, Moved
    <2> QED BY <1>2, <2>2, <2>3 DEF HomeInv
<1> QED BY <1>3, <1>4
-----------------------------------------------------------------------------
(* Every step is one of these or stands alone *)

LEMMA GoesMoved ==
    ASSUME IInv, NEW p \in Procs, NEW step, Goes(p, step)
    PROVE  Moved(p, step, proc[p].state)
<1>1. proc \in [Procs -> Invocation] /\ proc[p] \in Invocation
    BY Known DEF IInv, TypeOK
<1> QED BY <1>1 DEF Goes, Moved, Invocation

LEMMA SavesMoved ==
    ASSUME IInv, NEW p \in Procs, NEW step, NEW s, Saves(p, step, s)
    PROVE  Moved(p, step, s) /\ meta' = s
<1>1. proc \in [Procs -> Invocation] /\ proc[p] \in Invocation
    BY Known DEF IInv, TypeOK
<1> QED BY <1>1 DEF Saves, Moved, Invocation

LEMMA LeavesMoved ==
    ASSUME IInv, NEW p \in Procs, Leaves(p)
    PROVE  Moved(p, "idle", NoState) /\ lock' \in {Unlocked, lock}
BY DEF Leaves, Moved, Quiet, IInv, TypeOK

\* Any other change of what p remembers leaves its step and state.
LEMMA StaysMoved ==
    ASSUME IInv, NEW p \in Procs,
           \/ \E m : proc' = [proc EXCEPT ![p].made = m]
           \/ \E b : proc' = [proc EXCEPT ![p].bad = b]
           \/ \E t : proc' = [proc EXCEPT ![p].sent = t]
           \/ proc' = proc
    PROVE  Moved(p, proc[p].pc, proc[p].state)
<1>1. proc \in [Procs -> Invocation] /\ proc[p] \in Invocation
    BY Known DEF IInv, TypeOK
<1> QED BY <1>1 DEF Moved, Invocation

\* The state that p has at a working step is one.
LEMMA KnownAfter ==
    ASSUME IInv', NEW p \in Procs, NEW step \in Knows, NEW s, Moved(p, step, s)
    PROVE  s # NoState
BY DEF IInv, ReadyInv, Steady, Moved

\* A creation starts without a home row or resumes the one that has it.
LEMMA Begins ==
    ASSUME IInv, HomeInv, NEW p \in Procs,
           AlreadyHome(p) \/ Begin(p) \/ AddPending(p) \/ Resume(p) \/ ResumeTooOften(p)
             \/ Coins(p)
    PROVE  HomeInv'
<1>0. /\ proc[p] \in Invocation /\ meta \in Creation \cup {NoState} /\ NoState \notin Creation
      /\ proc[p].pc \in Knows => proc[p].state \in Creation
    BY Known, NamesDiffer
<1>1. CASE AlreadyHome(p)
    <2>1. proc[p].pc = "begin" /\ ~pending /\ pending' = pending /\ meta' = meta /\ homes' = homes
        BY <1>1 DEF AlreadyHome, dbVars
    <2>2. Moved(p, "idle", NoState) /\ lock' \in {Unlocked, lock}
        BY <1>1, LeavesMoved DEF AlreadyHome
    <2> QED BY <2>1, <2>2, EndHome, StepSets
<1>2. CASE Begin(p)
    <2>1. /\ proc[p].pc = "load" /\ ~InProgress /\ lock' = lock
          /\ UNCHANGED <<homes, pending>>
        BY <1>2 DEF Begin, lockVars
    <2>2. Moved(p, "pend", createInitialState) /\ meta' = createInitialState
        BY <1>2, SavesMoved DEF Begin
    <2>3. homes = {}
        BY <2>1, Recoverer DEF HomeInv, WorkInv, PassInv
    <2>4. createInitialState \in Creation
        BY OrgConstants, Known DEF createInitialState, Creation, States, Ids, Side
    <2>5. createInitialState.state = "INITIALIZING" /\ createInitialState # NoState
        BY <1>0, <2>4 DEF createInitialState
    <2> QED BY <2>1, <2>2, <2>3, <2>5, SaveHome, StepSets
<1>3. CASE AddPending(p)
    <2>1. /\ proc[p].pc = "pend" /\ lock' = lock /\ meta' = meta /\ homes' = homes
          /\ Moved(p, "coins", proc[p].state)
        BY <1>3, GoesMoved DEF AddPending, lockVars
    <2>2. homes = {}
        BY <2>1 DEF HomeInv, WorkInv
    <2> QED BY <2>1, <2>2, GoHome, StepSets
<1>4. CASE Resume(p)
    <2> DEFINE s == IF hasTimedOut THEN [meta EXCEPT !.retries = @ + 1, !.startedAt = now]
                                   ELSE meta
    <2>1. /\ proc[p].pc = "load" /\ InProgress /\ lock' = lock
          /\ UNCHANGED <<homes, pending>>
        BY <1>4 DEF Resume, lockVars
    <2>2. Moved(p, "coins", s) /\ meta' = s
        BY <1>4, SavesMoved DEF Resume
    <2>3. /\ meta \in Creation /\ meta.state # "FAILED"
          /\ s.state = meta.state /\ s.ids = meta.ids
        <3>1. meta \in Creation /\ meta.state # "FAILED"
            BY <1>0, <2>1 DEF InProgress
        <3> QED BY <3>1 DEF Creation
    <2>4. s # NoState
        BY <1>4, <2>2, ResumesIInv, KnownAfter, PcSets
    <2> HIDE DEF s
    <2>5. \A h \in homes : s.ids = h
        BY <2>1, <2>3 DEF HomeInv, WorkInv
    <2>6. p \in Requests /\ proc[Recovery].pc = "count" => proc[Recovery].state.ids = s.ids
        BY <2>1, <2>3 DEF HomeInv, CopyInv
    <2> QED BY <2>1, <2>2, <2>3, <2>4, <2>5, <2>6, SaveHome, StepSets
<1>5. CASE ResumeTooOften(p)
    <2>1. /\ proc[p].pc = "load" /\ meta \in Creation
          /\ meta' = [meta EXCEPT !.retries = @ + 1, !.state = "FAILED"]
          /\ Moved(p, "unpend", proc[p].state) /\ UNCHANGED <<homes, lock, pending>>
        BY <1>0, <1>5, GoesMoved DEF ResumeTooOften, InProgress, lockVars
    <2>2. ~InProgress'
        BY <2>1 DEF InProgress, Creation
    <2> QED BY <2>1, <2>2, FailHome, StepSets
<1>6. CASE Coins(p)
    <2>1. /\ proc[p].pc = "coins" /\ Moved(p, "run", proc[p].state)
          /\ UNCHANGED <<meta, homes, pending, lock>>
        BY <1>6, GoesMoved DEF Coins, dbVars, lockVars
    <2> QED BY <2>1, GoHome, StepSets
<1> QED BY <1>1, <1>2, <1>3, <1>4, <1>5, <1>6

\* Each save leaves the ids alone; only before any row is one filled in.
LEMMA Copying ==
    ASSUME IInv, HomeInv, NEW p \in Procs,
           \/ Run(p) \/ PersistStoreCreated(p) \/ StoresConfirmed(p) \/ StoresUnconfirmed(p)
           \/ DataPushed(p) \/ Finalize(p)
    PROVE  HomeInv'
<1> DEFINE s == proc[p].state
<1>0. /\ proc[p] \in Invocation /\ NoState \notin Creation
      /\ Steady(proc[p], stores, data)
      /\ proc[p].pc \in Knows => s \in Creation
      /\ UNCHANGED <<pending, lock>>
    BY Known, NamesDiffer DEF Run, PersistStoreCreated, StoresConfirmed, StoresUnconfirmed,
       DataPushed, Finalize, lockVars
<1>1. \A u : u.ids = s.ids /\ proc[p].pc \in Working => \A h \in homes : u.ids = h
    BY DEF HomeInv, WorkInv
<1>2. p \in Requests /\ proc[Recovery].pc = "count" /\ proc[p].pc \in Working /\ s.state \in Late =>
        proc[Recovery].state.ids = s.ids
    BY DEF HomeInv, CopyInv
<1> HIDE DEF s
<1>3. CASE Run(p)
    <2>1. proc[p].pc = "run" /\ homes' = homes /\ s \in Creation
        BY <1>0, <1>3, PcSets DEF Run
    <2>2. CASE s.state \in {"INITIALIZING", "STORES_CREATING"}
        <3> DEFINE u == [s EXCEPT !.state = "STORES_CREATING"]
        <3>1. Moved(p, "make", u) /\ meta' = u
            BY <1>3, <2>2, SavesMoved DEF Run, s
        <3>2. u \in Creation /\ u.ids = s.ids /\ u.state = "STORES_CREATING"
            BY <2>1 DEF Creation, States
        <3> HIDE DEF u
        <3> QED BY <1>0, <1>1, <2>1, <3>1, <3>2, SaveHome, StepSets
    <2>3. CASE s.state \in {"STORES_CONFIRMED", "DATA_PUSHING"}
        <3> DEFINE u == [s EXCEPT !.state = "DATA_PUSHING"]
        <3>1. Moved(p, "push", u) /\ meta' = u
            BY <1>3, <2>3, SavesMoved DEF Run, s
        <3>2. u \in Creation /\ u.ids = s.ids /\ u.state = "DATA_PUSHING"
            BY <2>1 DEF Creation, States
        <3> HIDE DEF u
        <3> QED BY <1>0, <1>1, <1>2, <2>1, <2>3, <3>1, <3>2, SaveHome, StepSets
    <2>4. CASE s.state = "FINALIZING"
        <3>1. Moved(p, "finalize", proc[p].state) /\ meta' = meta
            BY <1>3, <2>4, GoesMoved DEF Run, s
        <3> QED BY <1>0, <2>1, <3>1, GoHome, StepSets
    <2> QED BY <1>3, <2>2, <2>3, <2>4 DEF Run, s
<1>4. CASE PersistStoreCreated(p)
    <2>1. PICK t \in ToCreate(p) :
              Saves(p, "make", [s EXCEPT !.ids[t] = proc[p].made[t]])
        BY <1>4 DEF PersistStoreCreated, s
    <2> DEFINE u == [s EXCEPT !.ids[t] = proc[p].made[t]]
    <2>2. /\ proc[p].pc = "make" /\ homes' = homes /\ t \in StoreTypes /\ s.ids[t] = 0
          /\ s \in Creation /\ s.state = "STORES_CREATING"
        BY <1>0, <1>4, PcSets DEF PersistStoreCreated, ToCreate, Steady, s
    <2>3. Moved(p, "make", u) /\ meta' = u
        BY <2>1, SavesMoved
    <2>4. u.state = "STORES_CREATING"
        BY <2>2 DEF Creation
    <2>5. u # NoState
        BY <1>4, <2>3, StoresIInv, KnownAfter, PcSets
    <2> HIDE DEF u
    <2>6. homes = {}
        <3>1. \A h \in homes : h = s.ids /\ h[t] \in 1 .. stores
            BY <1>1, <2>2, Known, StepSets DEF HomeIsReady
        <3> QED BY <2>2, <3>1, Known
    <2> QED BY <1>0, <2>2, <2>3, <2>4, <2>5, <2>6, SaveHome, StepSets
<1>5. CASE StoresConfirmed(p)
    <2> DEFINE u == [s EXCEPT !.confirmed = StoreTypes, !.state = "STORES_CONFIRMED"]
    <2>1. /\ proc[p].pc = "confirm" /\ proc[Recovery].pc # "count" /\ homes' = homes
          /\ Moved(p, "run", u) /\ meta' = u
        BY <1>5, SavesMoved DEF StoresConfirmed, Unhurried, s
    <2>2. s \in Creation
        BY <1>0, <2>1, PcSets
    <2>3. u \in Creation /\ u.ids = s.ids /\ u.state = "STORES_CONFIRMED"
        BY <2>2 DEF Creation, States
    <2> HIDE DEF u
    <2> QED BY <1>0, <1>1, <2>1, <2>3, SaveHome, StepSets
<1>6. CASE StoresUnconfirmed(p)
    <2>1. PICK S \in SUBSET StoreTypes : Saves(p, "fail", [s EXCEPT !.confirmed = S])
        BY <1>6 DEF StoresUnconfirmed, s
    <2> DEFINE u == [s EXCEPT !.confirmed = S]
    <2>2. /\ proc[p].pc = "confirm" /\ homes' = homes /\ s \in Creation
          /\ s.state = "STORES_CREATING"
        BY <1>0, <1>6, PcSets DEF StoresUnconfirmed, Steady, s
    <2>3. u \in Creation /\ u.ids = s.ids /\ u.state = "STORES_CREATING"
        BY <2>2 DEF Creation
    <2>4. Moved(p, "fail", u) /\ meta' = u
        BY <2>1, SavesMoved
    <2> HIDE DEF u
    <2> QED BY <1>0, <1>1, <2>2, <2>3, <2>4, SaveHome, StepSets
<1>7. CASE DataPushed(p)
    <2> DEFINE u == [s EXCEPT !.written = @ \cup proc[p].sent]
    <2>1. /\ proc[p].pc = "push" /\ homes' = homes /\ s \in Creation
          /\ s.state = "DATA_PUSHING" /\ proc[p].sent \subseteq StoreTypes
        BY <1>0, <1>7, PcSets, OrgConstants DEF DataPushed, Steady, s, Invocation
    <2>2. u \in Creation /\ u.ids = s.ids /\ u.state = "DATA_PUSHING"
        BY <2>1 DEF Creation
    <2>3. PICK step \in {"finalize", "fail"} : Saves(p, step, u)
        BY <1>7 DEF DataPushed, s
    <2>4. Moved(p, step, u) /\ meta' = u
        BY <2>3, SavesMoved
    <2> HIDE DEF u
    <2> QED BY <1>0, <1>1, <1>2, <2>1, <2>2, <2>3, <2>4, SaveHome, StepSets
<1>8. CASE Finalize(p)
    <2> DEFINE u == [s EXCEPT !.state = "FINALIZING"]
    <2>1. proc[p].pc = "finalize" /\ homes' \subseteq homes /\ Moved(p, "row", u) /\ meta' = u
        BY <1>8, SavesMoved DEF Finalize, s
    <2>2. s \in Creation /\ s.state \in Late
        BY <1>0, <2>1, PcSets DEF Steady, s
    <2>3. u \in Creation /\ u.ids = s.ids /\ u.state = "FINALIZING"
        BY <2>2 DEF Creation, States
    <2> HIDE DEF u
    <2> QED BY <1>0, <1>1, <1>2, <2>1, <2>2, <2>3, SaveHome, StepSets
<1> QED BY <1>3, <1>4, <1>5, <1>6, <1>7, <1>8

\* On-chain work and its failures change no row and no saved state.
LEMMA Waits ==
    ASSUME IInv, HomeInv, NEW p \in Procs,
           \/ CreateStore(p) \/ CreateStoreFails(p) \/ StoresCreated(p)
           \/ PushData(p) \/ PushDataFails(p) \/ Throw(p)
    PROVE  HomeInv'
<1>0. /\ proc \in [Procs -> Invocation] /\ proc[p] \in Invocation
      /\ Steady(proc[p], stores, data)
      /\ UNCHANGED <<meta, pending, homes, lock>>
    BY Known DEF IInv, TypeOK, CreateStore, CreateStoreFails, StoresCreated, PushData,
       PushDataFails, Throw, dbVars, lockVars
<1>1. CASE CreateStore(p) \/ CreateStoreFails(p)
    <2>1. proc[p].pc = "make"
        BY <1>1 DEF CreateStore, CreateStoreFails
    <2>2. Moved(p, "make", proc[p].state)
        BY <1>0, <1>1, <2>1 DEF CreateStore, CreateStoreFails, Moved, Invocation
    <2> QED BY <1>0, <2>1, <2>2, GoHome, StepSets
<1>2. CASE StoresCreated(p)
    <2>1. PICK step \in {"confirm", "fail"} :
              proc' = [proc EXCEPT ![p].pc = step, ![p].bad = {}]
        BY <1>2 DEF StoresCreated
    <2>2. proc[p].pc = "make" /\ Moved(p, step, proc[p].state)
        BY <1>0, <1>2, <2>1 DEF StoresCreated, Moved, Invocation
    <2> QED BY <1>0, <2>2, GoHome, StepSets
<1>3. CASE PushData(p) \/ PushDataFails(p)
    <2>1. proc[p].pc = "push"
        BY <1>3 DEF PushData, PushDataFails
    <2>2. Moved(p, "push", proc[p].state)
        BY <1>0, <1>3, <2>1 DEF PushData, PushDataFails, Moved, Invocation
    <2> QED BY <1>0, <2>1, <2>2, GoHome, StepSets
<1>4. CASE Throw(p)
    <2>1. proc[p].pc \in Working /\ proc[p].pc # "unpend" /\ Moved(p, "fail", proc[p].state)
        BY <1>4, GoesMoved, StepSets DEF Throw
    <2> QED BY <1>0, <2>1, GoHome, StepSets
<1> QED BY <1>1, <1>2, <1>3, <1>4

\* The row that is added is of the organization every copy is of.
LEMMA Adds ==
    ASSUME IInv, HomeInv, NEW p \in Procs, AddHome(p)
    PROVE  HomeInv'
<1>1. /\ proc[p].pc = "row" /\ homes' = homes \cup {proc[p].state.ids}
      /\ UNCHANGED <<meta, pending, proc, lock>>
    BY DEF AddHome, lockVars
<1>2. \A q \in Procs \ {p} : proc[q].pc \notin Held
    BY <1>1, Alone, StepSets DEF HomeInv
<1>3. proc[p].state.state = "FINALIZING"
    BY <1>1, Known DEF Steady
<1>4. \A h \in homes' : h = proc[p].state.ids
    BY <1>1, StepSets DEF HomeInv, WorkInv
<1>5. InProgress' <=> InProgress
    BY <1>1 DEF InProgress
<1>6. WorkInv'
    <2>1. InProgress => meta.ids = proc[p].state.ids
        BY <1>1, <1>3, StepSets DEF HomeInv, WorkInv
    <2>2. \A q \in Procs : proc[q].pc \in Working => q = p
        BY <1>2, StepSets
    <2>3. \A r \in Requests : proc[r].pc \notin {"begin", "load"}
        BY <1>1, <1>2, StepSets, Recoverer
    <2>4. \A q \in Procs : proc[q].pc # "pend"
        BY <1>1, <2>2, StepSets
    <2>5. \A h, g \in homes' : h = g
        BY <1>4
    <2>6. \A h \in homes' : InProgress => meta.ids = h
        BY <1>4, <2>1
    <2>7. \A q \in Procs : proc[q].pc \in Working => \A h \in homes' : proc[q].state.ids = h
        BY <1>4, <2>2
    <2> QED BY <1>1, <1>5, <2>3, <2>4, <2>5, <2>6, <2>7 DEF HomeInv, WorkInv
<1>7. CopyInv'
    <2>1. proc[Recovery].pc = "count" =>
              p \in Requests /\ proc[Recovery].state.ids = proc[p].state.ids
        BY <1>1, <1>3, Recoverer, StepSets DEF HomeInv, CopyInv
    <2> QED BY <1>1, <1>4, <1>5, <2>1 DEF HomeInv, CopyInv
<1>8. PassInv'
    <2>1. CASE p = Recovery
        BY <1>1, <2>1 DEF PassInv
    <2>2. CASE p # Recovery
        <3>1. p \in Requests /\ proc[Recovery].pc \notin {"begin", "load"}
            BY <1>2, <2>2, Recoverer, StepSets
        <3> QED BY <1>1, <1>5, <3>1 DEF HomeInv, PassInv
    <2> QED BY <2>1, <2>2
<1> QED BY <1>6, <1>7, <1>8 DEF HomeInv

LEMMA Rows ==
    ASSUME IInv, HomeInv, NEW p \in Procs,
           DestroyPending(p) \/ RowsWritten(p) \/ MarkSubscribed(p) \/ ClearCreationState(p)
    PROVE  HomeInv'
<1>1. CASE DestroyPending(p)
    <2>1. /\ proc[p].pc = "row" /\ pending' = FALSE /\ UNCHANGED <<meta, homes, proc, lock>>
        BY <1>1 DEF DestroyPending, lockVars
    <2>2. Moved(p, "row", proc[p].state)
        BY <2>1 DEF Moved
    <2> QED BY <2>1, <2>2, GoHome, StepSets
<1>2. CASE RowsWritten(p)
    <2>1. /\ proc[p].pc = "row" /\ ~pending /\ UNCHANGED <<meta, pending, homes, lock>>
          /\ Moved(p, "subscribe", proc[p].state)
        BY <1>2, GoesMoved DEF RowsWritten, dbVars, lockVars
    <2> QED BY <2>1, GoHome, StepSets
<1>3. CASE MarkSubscribed(p)
    <2>1. /\ proc[p].pc = "subscribe" /\ UNCHANGED <<meta, pending, homes, lock>>
          /\ Moved(p, "clear", proc[p].state)
        BY <1>3, GoesMoved DEF MarkSubscribed, lockVars
    <2>2. ~pending
        BY <2>1 DEF HomeInv, WorkInv
    <2> QED BY <2>1, <2>2, GoHome, StepSets
<1>4. CASE ClearCreationState(p)
    <2>1. /\ proc[p].pc = "clear" /\ meta' = NoState /\ UNCHANGED <<pending, homes>>
          /\ Moved(p, "idle", NoState) /\ lock' \in {Unlocked, lock}
        BY <1>4, LeavesMoved DEF ClearCreationState
    <2>2. ~pending
        BY <2>1 DEF HomeInv, WorkInv
    <2> QED BY <2>1, <2>2, EndHome, StepSets
<1> QED BY <1>1, <1>2, <1>3, <1>4

LEMMA Ends ==
    ASSUME IInv, HomeInv, NEW p \in Procs, MarkAsFailed(p) \/ Unpend(p)
    PROVE  HomeInv'
<1>0. proc \in [Procs -> Invocation] /\ proc[p] \in Invocation /\ meta \in Creation \cup {NoState}
    BY Known DEF IInv, TypeOK
<1>1. CASE MarkAsFailed(p)
    <2>1. /\ proc[p].pc = "fail" /\ UNCHANGED <<pending, homes, lock>>
          /\ meta' = IF meta = NoState THEN meta ELSE [meta EXCEPT !.state = "FAILED"]
          /\ Moved(p, "unpend", proc[p].state)
        BY <1>1, GoesMoved DEF MarkAsFailed, lockVars
    <2>2. ~InProgress'
        BY <1>0, <2>1 DEF InProgress, Creation
    <2> QED BY <2>1, <2>2, FailHome, StepSets
<1>2. CASE Unpend(p)
    <2>1. proc[p].pc = "unpend" /\ pending' = FALSE /\ UNCHANGED <<meta, homes>>
        BY <1>2 DEF Unpend
    <2>2. CASE proc' = [proc EXCEPT ![p].pc = "tidy", ![p].todo = <<"clear">>] /\ lock' = lock
        <3>1. Moved(p, "tidy", proc[p].state)
            BY <1>0, <2>2 DEF Moved, Invocation
        <3> QED BY <2>1, <2>2, <3>1, EndHome, StepSets
    <2>3. CASE Leaves(p)
        BY <2>1, <2>3, LeavesMoved, EndHome, StepSets
    <2> QED BY <1>2, <2>2, <2>3 DEF Unpend
<1> QED BY <1>1, <1>2

-----------------------------------------------------------------------------
(* Taking the lock, the recovery, time and restarts *)

\* A lock that is young and free is nobody's, and nobody is at work.
LEMMA NobodyWorks ==
    ASSUME HomeInv, LockIsYoung, LockFree
    PROVE  \A p \in Procs : proc[p].pc \notin Held
BY NamesDiffer DEF HomeInv, WorkInv, LockIsYoung, Procs, Recovery

LEMMA Accepts ==
    ASSUME IInv, HomeInv, NEW p \in Procs,
           NotYetHome(p) \/ (p \in Requests /\ AcceptCreate(p))
    PROVE  HomeInv'
<1> DEFINE step == IF proc[p].pc = "begin" THEN "load" ELSE "begin"
<1>1. /\ proc[p].pc \in {"exists", "begin"} /\ Moved(p, step, proc[p].state)
      /\ UNCHANGED <<meta, pending, homes, lock>>
    BY GoesMoved DEF NotYetHome, AcceptCreate, dbVars, lockVars
<1>2. \A q \in Procs \ {p} : proc'[q] = proc[q] /\ proc[q].pc \notin Held
    BY <1>1, Alone, StepSets DEF HomeInv, Moved
<1>3. InProgress' <=> InProgress
    BY <1>1 DEF InProgress
<1>4. p \in Requests => homes = {}
    BY <1>1, Recoverer DEF NotYetHome, AcceptCreate, HomeInv, WorkInv
<1>5. WorkInv'
    <2>1. \A q \in Procs : proc'[q].pc \in Held => lock.by = q
        BY <1>1, <1>2, StepSets, Alone DEF HomeInv
    <2>2. \A q \in Procs : proc'[q].pc \notin Working \cup {"clear"}
        BY <1>1, <1>2, StepSets DEF Moved
    <2>3. \A r \in Requests : proc'[r].pc \in {"begin", "load"} => homes = {}
        BY <1>1, <1>2, <1>4, StepSets, Recoverer
    <2> QED BY <1>1, <1>3, <2>1, <2>2, <2>3, StepSets DEF HomeInv, WorkInv
<1>6. CASE p = Recovery
    <2>1. proc[p].pc = "begin" /\ (homes # {} => pending)
        BY <1>6, Recoverer DEF NotYetHome
    <2>2. proc'[p].pc = "load"
        BY <1>1, <2>1 DEF Moved
    <2>3. PassInv'
        BY <1>1, <1>3, <1>6, <2>1, <2>2 DEF HomeInv, PassInv
    <2>4. CopyInv'
        BY <1>6, <2>2 DEF CopyInv
    <2> QED BY <1>5, <2>3, <2>4 DEF HomeInv
<1>7. CASE p # Recovery
    <2>1. p \in Requests /\ proc'[Recovery] = proc[Recovery]
        BY <1>2, <1>7, Recoverer
    <2>2. \A r \in Requests :
            /\ proc'[r].pc \notin Working \cup {"unpend"}
            /\ proc'[r].pc \in {"exists", "begin", "load"} =>
                  proc[r].pc \in {"exists", "begin", "load"}
            /\ proc[r].pc # "unpend"
        BY <1>1, <1>2, StepSets, Recoverer DEF Moved
    <2>3. CopyInv'
        BY <1>1, <1>3, <2>1, <2>2 DEF HomeInv, CopyInv
    <2>4. PassInv'
        BY <1>1, <1>3, <2>1, <2>2, StepSets DEF HomeInv, PassInv
    <2> QED BY <1>5, <2>3, <2>4 DEF HomeInv
<1> QED BY <1>6, <1>7

LEMMA Asks ==
    ASSUME IInv, HomeInv, LockIsYoung, NEW r \in Requests,
           PostCreate(r) \/ TakeLock(r) \/ RefuseSecondHome(r)
    PROVE  HomeInv'
<1>0. r \in Procs /\ r # Recovery
    BY Recoverer
<1>1. ASSUME NEW step \in {"lock", "idle"}, proc[r].pc \in {"lock", "idle"},
             Moved(r, step, proc[r].state), UNCHANGED <<meta, pending, homes, lock>>
      PROVE  HomeInv'
    <2>1. /\ proc'[Recovery] = proc[Recovery]
          /\ \A q \in Procs : proc'[q] = proc[q] \/ (q = r /\ proc'[q].pc = step)
        BY <1>0, <1>1, Recoverer DEF Moved
    <2>2. InProgress' <=> InProgress
        BY <1>1 DEF InProgress
    <2>3. WorkInv'
        BY <1>1, <2>1, <2>2, StepSets, Recoverer DEF HomeInv, WorkInv
    <2>4. CopyInv'
        BY <1>1, <2>1, <2>2, StepSets, Recoverer DEF HomeInv, CopyInv
    <2>5. PassInv'
        <3>1. \A q \in Requests : proc[q].pc = "unpend" => proc'[q].pc = "unpend"
            BY <1>1, <2>1, Recoverer
        <3>2. \A q \in Requests : proc'[q].pc = "row" => proc[q].pc = "row"
            BY <1>1, <2>1, Recoverer
        <3> QED BY <1>1, <2>1, <2>2, <3>1, <3>2 DEF HomeInv, PassInv
    <2> QED BY <2>3, <2>4, <2>5 DEF HomeInv
<1>2. CASE PostCreate(r)
    <2>1. /\ proc[r].pc = "idle" /\ Moved(r, "lock", proc[r].state)
          /\ UNCHANGED <<meta, pending, homes, lock>>
        BY <1>0, <1>2, GoesMoved DEF PostCreate, dbVars, lockVars
    <2> QED BY <1>1, <2>1
<1>3. CASE TakeLock(r) /\ ~LockFree
    <2>1. /\ proc[r].pc = "lock" /\ Moved(r, "idle", proc[r].state)
          /\ UNCHANGED <<meta, pending, homes, lock>>
        BY <1>0, <1>3, GoesMoved DEF TakeLock, dbVars
    <2> QED BY <1>1, <2>1
<1>4. CASE TakeLock(r) /\ LockFree
    <2>1. /\ proc[Recovery].pc # "count" /\ Moved(r, "exists", proc[r].state)
          /\ lock'.by = r /\ UNCHANGED <<meta, pending, homes>>
        BY <1>0, <1>4, GoesMoved DEF TakeLock, Unhurried, dbVars
    <2>2. \A q \in Procs : proc[q].pc \notin Held
        BY <1>4, NobodyWorks
    <2>3. /\ proc'[Recovery] = proc[Recovery] /\ proc'[r].pc = "exists"
          /\ \A q \in Procs \ {r} : proc'[q] = proc[q]
        BY <1>0, <2>1, Recoverer DEF Moved
    <2>4. InProgress' <=> InProgress
        BY <2>1 DEF InProgress
    <2>5. WorkInv'
        <3>1. \A q \in Procs : proc'[q].pc \in Held => q = r
            BY <2>2, <2>3
        <3>2. \A q \in Procs : proc'[q].pc \notin (Held \ {"exists"})
            BY <2>2, <2>3
        <3> QED BY <2>1, <2>4, <3>1, <3>2, StepSets, Recoverer DEF HomeInv, WorkInv
    <2>6. CopyInv'
        BY <2>1, <2>3 DEF CopyInv
    <2>7. PassInv'
        <3>1. \A q \in Requests : proc[q].pc # "unpend" /\ proc'[q].pc # "row"
            BY <2>2, <2>3, StepSets, Recoverer
        <3> QED BY <2>1, <2>3, <2>4, <3>1 DEF HomeInv, PassInv
    <2> QED BY <2>5, <2>6, <2>7 DEF HomeInv
<1>5. CASE RefuseSecondHome(r)
    <2>1. /\ proc[r].pc = "exists" /\ UNCHANGED <<meta, pending, homes>>
          /\ Moved(r, "idle", NoState) /\ lock' \in {Unlocked, lock}
        BY <1>0, <1>5, LeavesMoved DEF RefuseSecondHome, dbVars
    <2>2. \A q \in Requests : proc[q].pc # "unpend"
        BY <1>0, <2>1, Alone, StepSets, Recoverer DEF HomeInv
    <2>3. proc[Recovery].pc = "lock" /\ pending /\ homes # {} => InProgress
        BY <2>2 DEF HomeInv, PassInv
    <2>4. InProgress' <=> InProgress
        BY <2>1 DEF InProgress
    <2> QED BY <1>0, <2>1, <2>3, <2>4, EndHome, StepSets
<1> QED BY <1>2, <1>3, <1>4, <1>5

\* The recovery moves outside the creation, or takes the lock for it.
LEMMA Recovers ==
    ASSUME IInv, HomeInv, LockIsYoung, Recover
    PROVE  HomeInv'
<1>0. /\ Recovery \in Procs /\ proc \in [Procs -> Invocation] /\ proc[Recovery] \in Invocation
      /\ meta \in Creation \cup {NoState} /\ NoState \notin Creation
      /\ Steady(proc[Recovery], stores, data)
    BY Recoverer, Known, NamesDiffer DEF IInv, TypeOK
<1>1. ASSUME NEW step \in {"tidy", "idle", "missed"}, NEW s, Moved(Recovery, step, s),
             proc[Recovery].pc \notin Held, UNCHANGED homes, pending' => pending,
             InProgress' => meta' = meta,
             lock' = lock \/ (lock.by = Recovery /\ lock' = Unlocked)
      PROVE  HomeInv'
    <2>1. /\ \A q \in Procs : proc'[q].pc \in Held => proc'[q] = proc[q] /\ q # Recovery
          /\ proc'[Recovery].pc = step
        BY <1>1, StepSets DEF Moved
    <2>2. \A q \in Procs : q # Recovery => proc'[q] = proc[q]
        BY <1>1 DEF Moved
    <2>3. InProgress' => InProgress /\ meta' = meta
        BY <1>1 DEF InProgress
    <2>4. WorkInv'
        <3>1. \A q \in Procs : proc'[q].pc \in Held => lock'.by = q
            BY <1>1, <2>1 DEF HomeInv, WorkInv
        <3> QED BY <1>1, <2>1, <2>2, <2>3, <3>1, StepSets, Recoverer DEF HomeInv, WorkInv
    <2>5. CopyInv' /\ PassInv'
        BY <2>1 DEF CopyInv, PassInv
    <2> QED BY <2>4, <2>5 DEF HomeInv
<1>2. CASE RecoveryLoads
    <2> DEFINE step == IF InProgress THEN "count" ELSE "tidy"
    <2>1. /\ proc[Recovery].pc = "idle" /\ Moved(Recovery, step, meta)
          /\ UNCHANGED <<meta, pending, homes, lock>>
        BY <1>0, <1>2 DEF RecoveryLoads, Moved, Invocation, dbVars, IInv, ReadyInv
    <2>2. InProgress' <=> InProgress
        BY <2>1 DEF InProgress
    <2>3. \A q \in Procs : proc'[q].pc \in Held => proc'[q] = proc[q]
        BY <2>1, StepSets DEF Moved
    <2>4. WorkInv'
        BY <2>1, <2>2, <2>3, StepSets, Recoverer DEF HomeInv, WorkInv
    <2>5. CopyInv'
        <3>1. \A r \in Requests : r \in Procs /\ proc'[r] = proc[r]
            BY <2>1, Recoverer DEF Moved
        <3>2. InProgress => meta.state # "FAILED"
            BY DEF InProgress
        <3>3. proc'[Recovery].pc = "count" => InProgress
            BY <2>1 DEF Moved
        <3>4. proc'[Recovery].state = meta
            BY <2>1 DEF Moved
        <3> QED BY <2>1, <2>2, <3>1, <3>2, <3>3, <3>4 DEF HomeInv, WorkInv, CopyInv
    <2>6. PassInv'
        BY <2>1 DEF PassInv, Moved
    <2> QED BY <2>4, <2>5, <2>6 DEF HomeInv
<1>3. CASE RecoveryCounts
    <2> DEFINE copy == proc[Recovery].state
               s == [copy EXCEPT !.retries = @ + 1]
    <2>1. /\ proc[Recovery].pc = "count" /\ copy \in Creation /\ copy.state # "FAILED"
          /\ UNCHANGED <<pending, homes, lock>>
        BY <1>0, <1>3, Known, PcSets DEF RecoveryCounts, lockVars, HomeInv, CopyInv
    <2>2. s \in Creation /\ s.ids = copy.ids /\ s.state = copy.state
        BY <2>1 DEF Creation
    <2>3. PICK step \in {"giveUp", "lock"} : Saves(Recovery, step, s)
        BY <1>3 DEF RecoveryCounts
    <2>4. Moved(Recovery, step, s) /\ meta' = s
        BY <1>0, <2>3, SavesMoved
    <2> HIDE DEF s
    <2>5. InProgress'
        BY <1>0, <2>1, <2>2, <2>4 DEF InProgress
    <2>6. \A q \in Procs : proc'[q].pc \in Held => proc'[q] = proc[q] /\ q \in Requests
        BY <2>4, StepSets, Recoverer DEF Moved
    <2>7. \A h \in homes : s.ids = h
        BY <2>1, <2>2 DEF HomeInv, CopyInv
    <2>8. \A q \in Procs : proc'[q].pc \in Working /\ proc'[q].state.state \in Late =>
              s.ids = proc'[q].state.ids
        BY <2>1, <2>2, <2>6, StepSets DEF HomeInv, CopyInv
    <2>9. WorkInv'
        BY <2>1, <2>4, <2>6, <2>7, <2>8, StepSets, Recoverer DEF HomeInv, WorkInv
    <2>10. CopyInv' /\ PassInv'
        BY <2>4, <2>5 DEF CopyInv, PassInv, Moved
    <2> QED BY <2>9, <2>10 DEF HomeInv
<1>4. CASE RecoveryGivesUp
    <2>1. /\ proc[Recovery].pc = "giveUp" /\ UNCHANGED <<pending, homes, lock>>
          /\ proc[Recovery].state \in Creation
          /\ meta' = [proc[Recovery].state EXCEPT !.state = "FAILED"]
        BY <1>0, <1>4, Known, PcSets DEF RecoveryGivesUp, lockVars
    <2>2. Moved(Recovery, "tidy", proc[Recovery].state)
        BY <1>0, <1>4 DEF RecoveryGivesUp, Moved, Invocation
    <2>3. ~InProgress'
        BY <2>1 DEF InProgress, Creation
    <2> QED BY <1>1, <2>1, <2>2, <2>3, StepSets
<1>5. CASE RecoveryTakesLock /\ ~LockFree
    <2>1. /\ proc[Recovery].pc = "lock" /\ UNCHANGED <<meta, pending, homes, lock>>
          /\ Moved(Recovery, "missed", proc[Recovery].state)
        BY <1>0, <1>5, GoesMoved DEF RecoveryTakesLock, dbVars
    <2> QED BY <1>1, <2>1, StepSets
<1>6. CASE RecoveryTakesLock /\ LockFree
    <2>1. /\ proc[Recovery].pc = "lock" /\ UNCHANGED <<meta, pending, homes>>
          /\ lock'.by = Recovery /\ Moved(Recovery, "begin", proc[Recovery].state)
        BY <1>0, <1>6, GoesMoved DEF RecoveryTakesLock, dbVars
    <2>2. \A q \in Procs : proc[q].pc \notin Held
        BY <1>6, NobodyWorks
    <2>3. /\ proc'[Recovery].pc = "begin"
          /\ \A q \in Procs : q # Recovery => proc'[q] = proc[q]
        BY <2>1 DEF Moved
    <2>4. InProgress' <=> InProgress
        BY <2>1 DEF InProgress
    <2>5. WorkInv'
        <3>1. \A q \in Procs : proc'[q].pc \in Held => q = Recovery
            BY <2>2, <2>3
        <3>2. \A q \in Procs : proc'[q].pc \notin (Held \ {"begin"})
            BY <2>2, <2>3
        <3> QED BY <2>1, <2>4, <3>1, <3>2, StepSets, Recoverer DEF HomeInv, WorkInv
    <2>6. CopyInv'
        BY <2>3 DEF CopyInv
    <2>7. PassInv'
        <3>1. \A q \in Requests : proc[q].pc # "unpend"
            BY <2>2, StepSets, Recoverer
        <3> QED BY <2>1, <2>3, <2>4, <3>1 DEF HomeInv, PassInv
    <2> QED BY <2>5, <2>6, <2>7 DEF HomeInv
<1>7. CASE Tidy
    <2>1. /\ proc[Recovery].pc = "tidy" /\ UNCHANGED homes
          /\ meta' \in {meta, NoState} /\ (pending' => pending)
        BY <1>7 DEF Tidy
    <2>2. InProgress' => meta' = meta
        BY <2>1 DEF InProgress
    <2>3. CASE Leaves(Recovery)
        <3>1. lock' = lock \/ (lock.by = Recovery /\ lock' = Unlocked)
            BY <2>3 DEF Leaves
        <3> QED BY <1>0, <1>1, <2>1, <2>2, <2>3, <3>1, LeavesMoved, StepSets
    <2>4. CASE ~Leaves(Recovery)
        <3>1. /\ lock' = lock
              /\ proc' = [proc EXCEPT ![Recovery].todo = Tail(proc[Recovery].todo)]
            BY <1>7, <2>4 DEF Tidy
        <3>2. Moved(Recovery, "tidy", proc[Recovery].state)
            BY <1>0, <2>1, <3>1 DEF Moved, Invocation
        <3> QED BY <1>1, <2>1, <2>2, <3>1, <3>2, StepSets
    <2> QED BY <2>3, <2>4
<1> QED BY <1>2, <1>3, <1>4, <1>5, <1>6, <1>7 DEF Recover

LEMMA InitHomeInv == Init => HomeInv
<1> SUFFICES ASSUME Init PROVE HomeInv
    OBVIOUS
<1>1. \A p \in Procs : proc[p].pc = "idle" /\ meta = NoState /\ homes = {}
    BY DEF Init, Quiet
<1> QED BY <1>1, Recoverer, StepSets DEF HomeInv, WorkInv, CopyInv, PassInv, InProgress, Init

LEMMA NextHomeInv == IInv /\ HomeInv /\ LockIsYoung /\ [Next]_vars => HomeInv'
<1> SUFFICES ASSUME IInv, HomeInv, LockIsYoung, [Next]_vars PROVE HomeInv'
    OBVIOUS
<1>1. CASE UNCHANGED <<meta, pending, homes, proc, lock>>
    BY <1>1 DEF HomeInv, WorkInv, CopyInv, PassInv, InProgress
<1>2. CASE UNCHANGED vars \/ Tick
    BY <1>1, <1>2 DEF vars, Tick, dbVars, lockVars
<1>3. CASE \E r \in Requests : PostCreate(r) \/ Handles(r)
    BY <1>3, Asks, Accepts, Recoverer DEF Handles
<1>4. CASE Recover
    BY <1>4, Recovers
<1>5. ASSUME NEW p \in Procs, Creates(p) \/ Fails(p)
      PROVE  HomeInv'
    BY <1>5, Begins, Accepts, Copying, Waits, Adds, Rows, Ends DEF Creates, Fails
<1>6. CASE Crash
    <2>1. /\ \A p \in Procs : proc'[p].pc = "idle"
          /\ UNCHANGED <<meta, pending, homes>>
        BY <1>6 DEF Crash, Quiet, dbVars
    <2> QED BY <2>1, Recoverer, StepSets DEF HomeInv, WorkInv, CopyInv, PassInv, InProgress
<1> QED BY <1>2, <1>3, <1>4, <1>5, <1>6 DEF Next

\* "V2 home organization already exists": requests, the recovery after each
\* restart and the state they save over one another make one home organization,
\* as long as nobody is at work longer than the hour after which the lock can be
\* taken away (MAX_LOCK_AGE_MS).
THEOREM OnlyHome == Spec /\ []LockIsYoung => []OneHome
<1>1. Init => IInv /\ HomeInv
    BY InitIInv, InitHomeInv
<1>2. IInv /\ HomeInv /\ LockIsYoung /\ [Next]_vars => IInv' /\ HomeInv'
    BY NextIInv, NextHomeInv
<1>3. HomeInv => OneHome
    <2> SUFFICES ASSUME HomeInv PROVE OneHome
        OBVIOUS
    <2>1. \A h, g \in homes : h = g
        BY DEF HomeInv, WorkInv
    <2>2. CASE homes = {}
        BY <2>2, FS_EmptySet DEF OneHome
    <2>3. CASE homes # {}
        <3>1. PICK h \in homes : homes = {h}
            BY <2>1, <2>3
        <3>2. Cardinality({h}) = 1
            BY FS_Singleton
        <3> QED BY <3>1, <3>2 DEF OneHome
    <2> QED BY <2>2, <2>3
<1> QED BY <1>1, <1>2, <1>3, PTL DEF Spec

-----------------------------------------------------------------------------
(* A store that was saved is kept *)

Keeps ==
    InProgress /\ InProgress' /\ proc[Recovery].pc # "count" =>
        \A t \in StoreTypes : meta.ids[t] # 0 => meta'.ids[t] = meta.ids[t]

\* p saves a state that extends what was saved and what the recovery copied.
LEMMA SaveKeeps ==
    ASSUME HomeInv, KeepInv, NEW p \in Procs, proc[p].pc \in Held,
           NEW step \in Working \cup {"fail"}, NEW s, Moved(p, step, s), meta' = s,
           InProgress => Extends(s, meta),
           p \in Requests /\ proc[Recovery].pc = "count" =>
              Extends(s, proc[Recovery].state)
    PROVE  KeepInv' /\ Keeps
<1>1. \A q \in Procs \ {p} : proc'[q] = proc[q] /\ proc[q].pc \notin Held
    BY Alone DEF HomeInv, Moved
<1>2. Keeps
    BY DEF Keeps, Extends
<1>3. \A q \in Procs : proc'[q].pc \in Working => Extends(proc'[q].state, meta')
    BY <1>1, StepSets DEF Moved, Extends
<1>4. proc'[Recovery].pc = "count" =>
        \A r \in Requests :
           /\ proc'[r].pc \in Working => Extends(proc'[r].state, proc'[Recovery].state)
           /\ proc'[r].pc \notin {"exists", "begin", "load"}
    <2>1. CASE p = Recovery
        BY <2>1, StepSets DEF Moved
    <2>2. CASE p # Recovery
        BY <2>2, <1>1, StepSets, Recoverer DEF Moved
    <2> QED BY <2>1, <2>2
<1> QED BY <1>2, <1>3, <1>4 DEF KeepInv

\* p saves nothing, or ends what could be resumed.
LEMMA ElseKeeps ==
    ASSUME HomeInv, KeepInv, NEW p \in Procs, NEW step, NEW s, Moved(p, step, s),
           meta' = meta \/ (~InProgress' /\ (proc[p].pc \in Held \/ p = Recovery)),
           step # "count",
           step \in Working => proc[p].pc \in Working /\ s = proc[p].state,
           p \in Requests /\ step \in {"exists", "begin", "load"} =>
              /\ meta' = meta
              /\ \/ proc[Recovery].pc # "count"
                 \/ proc[p].pc \in {"exists", "begin", "load"}
    PROVE  KeepInv' /\ Keeps
<1>1. \A q \in Procs \ {p} : proc'[q] = proc[q]
    BY DEF Moved
<1>2. proc'[p].pc = step /\ proc'[p].state = s
    BY DEF Moved
<1>3. meta' = meta => (InProgress' <=> InProgress)
    BY DEF InProgress
<1>4. Keeps
    BY DEF Keeps
<1>5. InProgress' => \A q \in Procs : proc'[q].pc \in Working => Extends(proc'[q].state, meta')
    BY <1>1, <1>2, <1>3 DEF KeepInv
<1>6. ASSUME proc'[Recovery].pc = "count", NEW r \in Requests
      PROVE  /\ proc'[r].pc \in Working => Extends(proc'[r].state, proc'[Recovery].state)
             /\ proc'[r].pc \in {"exists", "begin", "load"} => InProgress'
    <2>1. p # Recovery /\ proc'[Recovery] = proc[Recovery] /\ r \in Procs
        BY <1>1, <1>2, <1>6, Recoverer
    <2>2. proc'[r].pc \in Working => Extends(proc'[r].state, proc'[Recovery].state)
        BY <1>1, <1>2, <1>6, <2>1 DEF KeepInv
    <2>3. CASE meta' = meta
        BY <1>1, <1>2, <1>3, <1>6, <2>1, <2>2, <2>3, Recoverer DEF KeepInv
    <2>4. CASE meta' # meta
        <3>1. \A q \in Procs \ {p} : proc[q].pc \notin Held
            BY <2>1, <2>4, Alone DEF HomeInv
        <3> QED BY <1>1, <1>2, <2>1, <2>2, <2>4, <3>1, StepSets, Recoverer
    <2> QED BY <2>3, <2>4
<1> QED BY <1>4, <1>5, <1>6 DEF KeepInv

LEMMA CreatesKeeps ==
    ASSUME IInv, HomeInv, KeepInv, NEW p \in Procs, Creates(p) \/ Fails(p)
    PROVE  KeepInv' /\ Keeps
<1> DEFINE s == proc[p].state
<1>0. /\ proc \in [Procs -> Invocation] /\ proc[p] \in Invocation
      /\ meta \in Creation \cup {NoState} /\ Steady(proc[p], stores, data)
      /\ proc[p].pc \in Knows => s \in Creation
    BY Known DEF IInv, TypeOK
<1>s. ASSUME proc[p].pc \in Working, NEW step \in Working \cup {"fail"}, NEW u,
             Saves(p, step, u), \A t \in StoreTypes : s.ids[t] # 0 => u.ids[t] = s.ids[t]
      PROVE  KeepInv' /\ Keeps
    <2>1. Moved(p, step, u) /\ meta' = u
        BY <1>s, SavesMoved
    <2>2. InProgress => Extends(u, meta)
        BY <1>s DEF KeepInv, Extends
    <2>3. p \in Requests /\ proc[Recovery].pc = "count" => Extends(u, proc[Recovery].state)
        BY <1>s DEF KeepInv, Extends
    <2> QED BY <1>s, <2>1, <2>2, <2>3, SaveKeeps, StepSets
<1>1. CASE AlreadyHome(p) \/ NotYetHome(p) \/ AddPending(p) \/ Coins(p)
    <2>1. CASE AlreadyHome(p)
        <3>1. meta' = meta /\ Moved(p, "idle", NoState)
            BY <2>1, LeavesMoved DEF AlreadyHome, dbVars
        <3> QED BY <3>1, ElseKeeps, StepSets
    <2>2. CASE NotYetHome(p)
        <3>1. meta' = meta /\ proc[p].pc = "begin" /\ Moved(p, "load", s)
            BY <2>2, GoesMoved DEF NotYetHome, dbVars
        <3> QED BY <3>1, ElseKeeps, StepSets
    <2>3. CASE AddPending(p)
        <3>1. meta' = meta /\ proc[p].pc = "pend" /\ Moved(p, "coins", s)
            BY <2>3, GoesMoved DEF AddPending
        <3> QED BY <3>1, ElseKeeps, StepSets
    <2>4. CASE Coins(p)
        <3>1. meta' = meta /\ proc[p].pc = "coins" /\ Moved(p, "run", s)
            BY <2>4, GoesMoved DEF Coins, dbVars
        <3> QED BY <3>1, ElseKeeps, StepSets
    <2> QED BY <1>1, <2>1, <2>2, <2>3, <2>4
<1>2. CASE Begin(p)
    <2>1. /\ proc[p].pc = "load" /\ ~InProgress
          /\ Moved(p, "pend", createInitialState) /\ meta' = createInitialState
        BY <1>2, SavesMoved DEF Begin
    <2>2. p \in Requests => proc[Recovery].pc # "count"
        BY <2>1 DEF KeepInv
    <2> QED BY <2>1, <2>2, SaveKeeps, StepSets
<1>3. CASE Resume(p)
    <2> DEFINE u == IF hasTimedOut THEN [meta EXCEPT !.retries = @ + 1, !.startedAt = now]
                                   ELSE meta
    <2>1. proc[p].pc = "load" /\ InProgress /\ Moved(p, "coins", u) /\ meta' = u
        BY <1>3, SavesMoved DEF Resume
    <2>2. u.ids = meta.ids
        <3>1. meta \in Creation
            BY <1>0, <2>1 DEF InProgress
        <3> QED BY <3>1 DEF Creation
    <2> HIDE DEF u
    <2>3. p \in Requests /\ proc[Recovery].pc = "count" => Extends(u, proc[Recovery].state)
        BY <2>1, <2>2 DEF HomeInv, CopyInv, Extends
    <2>4. Extends(u, meta)
        BY <2>2 DEF Extends
    <2> QED BY <2>1, <2>3, <2>4, SaveKeeps, StepSets
<1>4. CASE ResumeTooOften(p) \/ MarkAsFailed(p)
    <2>1. proc[p].pc \in {"load", "fail"} /\ Moved(p, "unpend", s)
        BY <1>4, GoesMoved DEF ResumeTooOften, MarkAsFailed
    <2>2. ~InProgress'
        BY <1>0, <1>4 DEF ResumeTooOften, MarkAsFailed, InProgress, Creation
    <2> QED BY <2>1, <2>2, ElseKeeps, StepSets
<1>5. CASE Run(p)
    <2>1. proc[p].pc = "run" /\ s \in Creation
        BY <1>0, <1>5, PcSets DEF Run
    <2>2. \A x : [s EXCEPT !.state = x].ids = s.ids
        BY <2>1 DEF Creation
    <2>3. CASE Saves(p, "make", [s EXCEPT !.state = "STORES_CREATING"])
        BY <1>s, <2>1, <2>2, <2>3, StepSets
    <2>4. CASE Saves(p, "push", [s EXCEPT !.state = "DATA_PUSHING"])
        BY <1>s, <2>1, <2>2, <2>4, StepSets
    <2>5. CASE Goes(p, "finalize") /\ meta' = meta
        BY <2>1, <2>5, GoesMoved, ElseKeeps, StepSets
    <2> QED BY <1>5, <2>3, <2>4, <2>5 DEF Run
<1>6. CASE PersistStoreCreated(p)
    <2>1. PICK t \in ToCreate(p) :
              Saves(p, "make", [s EXCEPT !.ids[t] = proc[p].made[t]])
        BY <1>6 DEF PersistStoreCreated
    <2> DEFINE u == [s EXCEPT !.ids[t] = proc[p].made[t]]
    <2>2. proc[p].pc = "make" /\ s \in Creation /\ t \in StoreTypes /\ s.ids[t] = 0
        BY <1>0, <1>6, PcSets DEF PersistStoreCreated, ToCreate
    <2>3. \A v \in StoreTypes : s.ids[v] # 0 => u.ids[v] = s.ids[v]
        BY <2>2 DEF Creation
    <2> HIDE DEF u
    <2> QED BY <1>s, <2>1, <2>2, <2>3, StepSets DEF u
<1>7. CASE StoresConfirmed(p) \/ StoresUnconfirmed(p)
    <2>1. proc[p].pc = "confirm" /\ s \in Creation
        BY <1>0, <1>7, PcSets DEF StoresConfirmed, StoresUnconfirmed
    <2>2. CASE StoresConfirmed(p)
        <3> DEFINE u == [s EXCEPT !.confirmed = StoreTypes, !.state = "STORES_CONFIRMED"]
        <3>1. Saves(p, "run", u)
            BY <2>2 DEF StoresConfirmed
        <3>2. u.ids = s.ids
            BY <2>1 DEF Creation
        <3> HIDE DEF u
        <3> QED BY <1>s, <2>1, <3>1, <3>2, StepSets
    <2>3. CASE StoresUnconfirmed(p)
        <3>1. PICK S \in SUBSET StoreTypes : Saves(p, "fail", [s EXCEPT !.confirmed = S])
            BY <2>3 DEF StoresUnconfirmed
        <3>2. [s EXCEPT !.confirmed = S].ids = s.ids
            BY <2>1 DEF Creation
        <3> QED BY <1>s, <2>1, <3>1, <3>2, StepSets
    <2> QED BY <1>7, <2>2, <2>3
<1>8. CASE DataPushed(p) \/ Finalize(p)
    <2>1. proc[p].pc \in {"push", "finalize"} /\ s \in Creation
        BY <1>0, <1>8, PcSets DEF DataPushed, Finalize
    <2>2. CASE DataPushed(p)
        <3> DEFINE u == [s EXCEPT !.written = @ \cup proc[p].sent]
        <3>1. PICK step \in {"finalize", "fail"} : Saves(p, step, u)
            BY <2>2 DEF DataPushed
        <3>2. u.ids = s.ids
            BY <2>1 DEF Creation
        <3> HIDE DEF u
        <3> QED BY <1>s, <2>1, <3>1, <3>2, StepSets
    <2>3. CASE Finalize(p)
        <3> DEFINE u == [s EXCEPT !.state = "FINALIZING"]
        <3>1. Saves(p, "row", u)
            BY <2>3 DEF Finalize
        <3>2. u.ids = s.ids
            BY <2>1 DEF Creation
        <3> HIDE DEF u
        <3> QED BY <1>s, <2>1, <3>1, <3>2, StepSets
    <2> QED BY <1>8, <2>2, <2>3
<1>9. CASE \/ CreateStore(p) \/ CreateStoreFails(p) \/ PushData(p) \/ PushDataFails(p)
           \/ AddHome(p) \/ DestroyPending(p)
    <2>1. meta' = meta /\ proc[p].pc \in {"make", "push", "row"}
        BY <1>9 DEF CreateStore, CreateStoreFails, PushData, PushDataFails, AddHome,
           DestroyPending, dbVars
    <2>2. Moved(p, proc[p].pc, s)
        BY <1>0, <1>9 DEF CreateStore, CreateStoreFails, PushData, PushDataFails, AddHome,
           DestroyPending, Moved, Invocation
    <2> QED BY <2>1, <2>2, ElseKeeps, StepSets
<1>10. CASE StoresCreated(p)
    <2>1. PICK step \in {"confirm", "fail"} :
              proc' = [proc EXCEPT ![p].pc = step, ![p].bad = {}]
        BY <1>10 DEF StoresCreated
    <2>2. proc[p].pc = "make" /\ meta' = meta /\ Moved(p, step, s)
        BY <1>0, <1>10, <2>1 DEF StoresCreated, Moved, Invocation, dbVars
    <2> QED BY <2>2, ElseKeeps, StepSets
<1>11. CASE RowsWritten(p)
    <2>1. meta' = meta /\ proc[p].pc = "row" /\ Moved(p, "subscribe", s)
        BY <1>11, GoesMoved DEF RowsWritten, dbVars
    <2> QED BY <2>1, ElseKeeps, StepSets
<1>12. CASE MarkSubscribed(p)
    <2>1. meta' = meta /\ Moved(p, "clear", s)
        BY <1>12, GoesMoved DEF MarkSubscribed
    <2> QED BY <2>1, ElseKeeps, StepSets
<1>13. CASE Throw(p)
    <2>1. meta' = meta /\ Moved(p, "fail", s)
        BY <1>13, GoesMoved DEF Throw, dbVars
    <2> QED BY <2>1, ElseKeeps, StepSets
<1>14. CASE ClearCreationState(p)
    <2>1. meta' = NoState /\ proc[p].pc = "clear" /\ Moved(p, "idle", NoState)
        BY <1>14, LeavesMoved DEF ClearCreationState
    <2> QED BY <2>1, ElseKeeps, StepSets DEF InProgress
<1>15. CASE Unpend(p)
    <2>1. meta' = meta /\ proc[p].pc = "unpend"
        BY <1>15 DEF Unpend
    <2>2. Moved(p, "tidy", s) \/ Moved(p, "idle", NoState)
        <3>1. CASE proc' = [proc EXCEPT ![p].pc = "tidy", ![p].todo = <<"clear">>]
            BY <1>0, <3>1 DEF Moved, Invocation
        <3> QED BY <1>15, <3>1, LeavesMoved DEF Unpend
    <2> QED BY <2>1, <2>2, ElseKeeps, StepSets
<1> HIDE DEF s
<1> QED BY <1>1, <1>2, <1>3, <1>4, <1>5, <1>6, <1>7, <1>8, <1>9, <1>10, <1>11, <1>12,
           <1>13, <1>14, <1>15 DEF Creates, Fails

LEMMA AsksKeeps ==
    ASSUME IInv, HomeInv, KeepInv, NEW r \in Requests, PostCreate(r) \/ Handles(r)
    PROVE  KeepInv' /\ Keeps
<1>0. r \in Procs /\ r # Recovery
    BY Recoverer
<1>1. CASE PostCreate(r)
    <2>1. meta' = meta /\ Moved(r, "lock", proc[r].state)
        BY <1>0, <1>1, GoesMoved DEF PostCreate, dbVars
    <2> QED BY <1>0, <2>1, ElseKeeps, StepSets
<1>2. CASE TakeLock(r)
    <2>1. PICK step \in {"exists", "idle"} : Goes(r, step)
        BY <1>2 DEF TakeLock
    <2>2. meta' = meta /\ proc[Recovery].pc # "count" /\ Moved(r, step, proc[r].state)
        BY <1>0, <1>2, <2>1, GoesMoved DEF TakeLock, Unhurried, dbVars
    <2> QED BY <1>0, <2>2, ElseKeeps, StepSets
<1>3. CASE RefuseSecondHome(r)
    <2>1. meta' = meta /\ Moved(r, "idle", NoState)
        BY <1>0, <1>3, LeavesMoved DEF RefuseSecondHome, dbVars
    <2> QED BY <1>0, <2>1, ElseKeeps, StepSets
<1>4. CASE AcceptCreate(r)
    <2>1. meta' = meta /\ proc[r].pc = "exists" /\ Moved(r, "begin", proc[r].state)
        BY <1>0, <1>4, GoesMoved DEF AcceptCreate, dbVars
    <2> QED BY <1>0, <2>1, ElseKeeps, StepSets
<1> QED BY <1>1, <1>2, <1>3, <1>4 DEF Handles

LEMMA RecoverKeeps ==
    ASSUME IInv, HomeInv, KeepInv, Recover
    PROVE  KeepInv' /\ Keeps
<1>0. /\ Recovery \in Procs /\ proc \in [Procs -> Invocation] /\ proc[Recovery] \in Invocation
      /\ Steady(proc[Recovery], stores, data)
    BY Recoverer, Known DEF IInv, TypeOK
<1>1. CASE RecoveryLoads
    <2> DEFINE step == IF InProgress THEN "count" ELSE "tidy"
    <2>1. meta' = meta /\ Moved(Recovery, step, meta)
        BY <1>0, <1>1 DEF RecoveryLoads, Moved, Invocation, dbVars
    <2>2. InProgress' <=> InProgress
        BY <2>1 DEF InProgress
    <2>3. \A q \in Procs : proc'[q].pc \in Held => proc'[q] = proc[q]
        BY <2>1, StepSets DEF Moved
    <2>4. proc'[Recovery].pc = "count" => InProgress /\ proc'[Recovery].state = meta
        BY <2>1 DEF Moved
    <2>5. Keeps
        BY <2>1 DEF Keeps
    <2> QED BY <2>1, <2>2, <2>3, <2>4, <2>5, StepSets, Recoverer DEF KeepInv
<1>2. CASE RecoveryCounts
    <2> DEFINE copy == proc[Recovery].state
               s == [copy EXCEPT !.retries = @ + 1]
    <2>1. proc[Recovery].pc = "count" /\ copy \in Creation
        BY <1>0, <1>2, Known, PcSets DEF RecoveryCounts
    <2>2. s.ids = copy.ids
        BY <2>1 DEF Creation
    <2>3. PICK step \in {"giveUp", "lock"} : Saves(Recovery, step, s)
        BY <1>2 DEF RecoveryCounts
    <2>4. Moved(Recovery, step, s) /\ meta' = s
        BY <1>0, <2>3, SavesMoved
    <2> HIDE DEF s
    <2>5. \A q \in Procs : proc'[q].pc \in Working => proc'[q] = proc[q] /\ q \in Requests
        BY <2>4, StepSets, Recoverer DEF Moved
    <2>6. \A q \in Procs : proc'[q].pc \in Working => Extends(proc'[q].state, meta')
        BY <2>1, <2>2, <2>4, <2>5 DEF KeepInv, Extends
    <2>7. proc'[Recovery].pc # "count" /\ Keeps
        BY <2>1, <2>4 DEF Moved, Keeps
    <2> QED BY <2>6, <2>7 DEF KeepInv
<1>3. CASE RecoveryGivesUp
    <2>1. /\ proc[Recovery].state \in Creation
          /\ meta' = [proc[Recovery].state EXCEPT !.state = "FAILED"]
        BY <1>0, <1>3, Known, PcSets DEF RecoveryGivesUp
    <2>2. ~InProgress'
        BY <2>1 DEF InProgress, Creation
    <2>3. Moved(Recovery, "tidy", proc[Recovery].state)
        BY <1>0, <1>3 DEF RecoveryGivesUp, Moved, Invocation
    <2> QED BY <1>0, <2>2, <2>3, ElseKeeps, StepSets, Recoverer
<1>4. CASE RecoveryTakesLock
    <2>1. PICK step \in {"begin", "missed"} : Goes(Recovery, step)
        BY <1>4 DEF RecoveryTakesLock
    <2>2. meta' = meta /\ Moved(Recovery, step, proc[Recovery].state)
        BY <1>0, <1>4, <2>1, GoesMoved DEF RecoveryTakesLock, dbVars
    <2> QED BY <1>0, <2>2, ElseKeeps, StepSets, Recoverer
<1>5. CASE Tidy
    <2>1. proc[Recovery].pc = "tidy" /\ (meta' = meta \/ ~InProgress')
        BY <1>5 DEF Tidy, InProgress
    <2>2. CASE Leaves(Recovery)
        BY <1>0, <2>1, <2>2, LeavesMoved, ElseKeeps, StepSets, Recoverer
    <2>3. CASE ~Leaves(Recovery)
        <3>1. Moved(Recovery, "tidy", proc[Recovery].state)
            BY <1>0, <1>5, <2>1, <2>3 DEF Tidy, Moved, Invocation
        <3> QED BY <1>0, <2>1, <3>1, ElseKeeps, StepSets, Recoverer
    <2> QED BY <2>2, <2>3
<1> QED BY <1>1, <1>2, <1>3, <1>4, <1>5 DEF Recover

LEMMA NextKeeps == IInv /\ HomeInv /\ KeepInv /\ [Next]_vars => KeepInv' /\ Keeps
<1> SUFFICES ASSUME IInv, HomeInv, KeepInv, [Next]_vars PROVE KeepInv' /\ Keeps
    OBVIOUS
<1>1. CASE UNCHANGED vars \/ Tick
    <2>1. UNCHANGED <<meta, proc>>
        BY <1>1 DEF vars, Tick, dbVars
    <2> QED BY <2>1 DEF KeepInv, Keeps, InProgress, Extends
<1>2. CASE \E r \in Requests : PostCreate(r) \/ Handles(r)
    BY <1>2, AsksKeeps
<1>3. CASE Recover
    BY <1>3, RecoverKeeps
<1>4. CASE \E p \in Procs : Creates(p) \/ Fails(p)
    BY <1>4, CreatesKeeps
<1>5. CASE Crash
    <2>1. meta' = meta /\ \A p \in Procs : proc'[p].pc = "idle"
        BY <1>5 DEF Crash, Quiet, dbVars
    <2> QED BY <2>1, StepSets, Recoverer DEF KeepInv, Keeps
<1> QED BY <1>1, <1>2, <1>3, <1>4, <1>5 DEF Next

\* persistStoreCreated saves the id of a store as soon as it is known, so that a
\* resumed creation does not pay for it again: while a creation is in progress no
\* save loses or replaces an id that is saved, but for the recovery's retry count,
\* on the same assumption as OnlyHome.
THEOREM StoresStay == Spec /\ []LockIsYoung => StoresAreKept
<1>1. Init => IInv /\ HomeInv /\ KeepInv
    <2>1. Init => KeepInv
        <3> SUFFICES ASSUME Init PROVE KeepInv
            OBVIOUS
        <3>1. meta = NoState /\ \A p \in Procs : proc[p].pc = "idle"
            BY DEF Init, Quiet
        <3> QED BY <3>1, Recoverer DEF KeepInv, InProgress
    <2> QED BY <2>1, InitIInv, InitHomeInv
<1>2. IInv /\ HomeInv /\ KeepInv /\ LockIsYoung /\ [Next]_vars => (IInv /\ HomeInv /\ KeepInv)'
    BY NextIInv, NextHomeInv, NextKeeps
<1>3. IInv /\ HomeInv /\ KeepInv /\ [Next]_vars =>
        [(InProgress /\ InProgress' /\ proc[Recovery].pc # "count") =>
           \A t \in StoreTypes : meta.ids[t] # 0 => meta'.ids[t] = meta.ids[t]]_vars
    BY NextKeeps DEF Keeps
<1> QED BY <1>1, <1>2, <1>3, PTL DEF Spec, StoresAreKept
=============================================================================
