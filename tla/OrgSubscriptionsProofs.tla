----------------------- MODULE OrgSubscriptionsProofs ------------------------
(***************************************************************************)
(* What imports, deletes, purges, sweeps and subscriptions of one foreign  *)
(* organization promise for any number of requests, changes of the         *)
(* orgList, failures and restarts, and for chains of any length: types, no *)
(* row for a deleted organization, and no row removed before its data or   *)
(* before its time.                                                        *)
(***************************************************************************)
EXTENDS OrgSubscriptions, SequenceTheorems, TLAPS

-----------------------------------------------------------------------------
(* What is left of a flow.  Every condition says of each call to come that   *)
(* what it relies on is still to be done by a call before it, or has been    *)
(* done and cannot be undone while the process holds the mutex.  The         *)
(* operators take the state's values, so that they can be carried from one   *)
(* state to the next: f is the flow of process p, and h, su, r, sy and d are *)
(* holder, suppressed, row, syncHeld and data.                               *)

\* The calls of an import or a delete that are made under its mutex.
Critical == {"lockSync", "unlock", "unsuppress", "suppress", "create", "erase"}

Earlier(f, i, call) == \E j \in 1 .. i - 1 : f[j][1] = call

InMutex(f, p, h) ==
    \A i \in 1 .. Len(f) :
        f[i][1] \in Critical => Earlier(f, i, "lock") \/ h = p

UnlocksLast(f) ==
    \A i, j \in 1 .. Len(f) :
        f[i][1] = "unlock" /\ i < j => f[j][1] \notin Critical

OneAim(f) ==
    \A i, j \in 1 .. Len(f) : ~(f[i][1] = "create" /\ f[j][1] = "suppress")

Admitted(f, p, h, su) ==
    \A i \in 1 .. Len(f) :
        f[i][1] = "create" => Earlier(f, i, "unsuppress") \/ (h = p /\ ~su)

RowGone(f, p, h, r) ==
    \A i \in 1 .. Len(f) :
        f[i][1] = "suppress" =>
            \/ \E j \in 1 .. i - 1 : f[j][1] = "erase" /\ f[j][3]
            \/ h = p /\ r = "none"

SyncPaused(f, p, h, sy) ==
    \A i \in 1 .. Len(f) :
        f[i][1] = "erase" => Earlier(f, i, "lockSync") \/ (h = p /\ sy)

DataGone(f, p, h, sy, d) ==
    \A i \in 1 .. Len(f) : \A x \in Parts :
        f[i][1] = "erase" /\ f[i][3] =>
            \/ \E j \in 1 .. i : f[j][1] = "erase" /\ x \in f[j][2]
            \/ h = p /\ sy /\ x \notin d

Guarded(f, p, h, su, r, sy, d) ==
    /\ InMutex(f, p, h) /\ UnlocksLast(f) /\ OneAim(f)
    /\ Admitted(f, p, h, su) /\ RowGone(f, p, h, r)
    /\ SyncPaused(f, p, h, sy) /\ DataGone(f, p, h, sy, d)

\* A flow without such calls.
Harmless(f) == \A i \in 1 .. Len(f) : f[i][1] \notin Critical

LEMMA HarmlessIsGuarded ==
    ASSUME NEW f, NEW p, NEW h, NEW su, NEW r, NEW sy, NEW d, Harmless(f)
    PROVE  Guarded(f, p, h, su, r, sy, d)
BY DEF Harmless, Critical, Guarded, InMutex, UnlocksLast, OneAim, Admitted,
   RowGone, SyncPaused, DataGone

\* What holds of a process's flow goes on holding while the others leave alone
\* what the mutex protects.
LEMMA StillGuarded ==
    ASSUME NEW f, NEW p, NEW h, NEW su, NEW r, NEW sy, NEW d,
           NEW h2, NEW su2, NEW r2, NEW sy2, NEW d2,
           Guarded(f, p, h, su, r, sy, d),
           h = p => /\ h2 = p /\ (su2 => su) /\ (r = "none" => r2 = "none")
                    /\ (sy => sy2 /\ d2 \subseteq d)
    PROVE  Guarded(f, p, h2, su2, r2, sy2, d2)
<1>1. InMutex(f, p, h2) /\ UnlocksLast(f) /\ OneAim(f)
    BY DEF Guarded, InMutex
<1>2. Admitted(f, p, h2, su2)
    BY DEF Guarded, Admitted
<1>3. RowGone(f, p, h2, r2)
    BY DEF Guarded, RowGone
<1>4. SyncPaused(f, p, h2, sy2)
    BY DEF Guarded, SyncPaused
<1>5. DataGone(f, p, h2, sy2, d2)
    BY DEF Guarded, DataGone
<1> QED BY <1>1, <1>2, <1>3, <1>4, <1>5 DEF Guarded

\* The calls of the rest of a flow.
LEMMA Rest ==
    ASSUME NEW f \in Seq(Call), f # <<>>
    PROVE  /\ Tail(f) \in Seq(Call) /\ Head(f) = f[1] /\ Head(f) \in Call
           /\ Len(f) \in Nat \ {0} /\ Len(Tail(f)) = Len(f) - 1
           /\ \A i \in 1 .. Len(Tail(f)) : Tail(f)[i] = f[i + 1] /\ i + 1 \in 1 .. Len(f)
OBVIOUS

\* A call is made: what the calls after it relied on it for has been done.
LEMMA RestIsGuarded ==
    ASSUME NEW f \in Seq(Call), f # <<>>,
           NEW p, NEW h, NEW su, NEW r, NEW sy, NEW d,
           NEW h2, NEW su2, NEW r2, NEW sy2, NEW d2,
           Guarded(f, p, h, su, r, sy, d),
           NEW c, c = Head(f),
           c[1] = "lock" => h2 = p,
           h = p /\ c[1] # "unlock" =>
               /\ h2 = p
               /\ su2 => su \/ c[1] = "suppress"
               /\ r = "none" => r2 = "none" \/ c[1] = "create"
               /\ sy => sy2 /\ d2 \subseteq d,
           c[1] = "unsuppress" => ~su2,
           c[1] = "lockSync" => sy2,
           c[1] = "erase" => d2 \cap c[2] = {} /\ (c[3] => r2 = "none")
    PROVE  Guarded(Tail(f), p, h2, su2, r2, sy2, d2)
<1> DEFINE g == Tail(f)
<1>1. /\ f[1] = c /\ Len(f) \in Nat \ {0} /\ Len(g) = Len(f) - 1
      /\ \A i \in 1 .. Len(g) : g[i] = f[i + 1] /\ i + 1 \in 1 .. Len(f)
    BY Rest
<1>2. 1 \in 1 .. Len(f) /\ Len(g) \in Nat
    BY <1>1
<1> HIDE DEF g
\* An earlier call is the one made or is still to come.
<1>3. ASSUME NEW i \in 1 .. Len(g), NEW call, Earlier(f, i + 1, call), c[1] # call
      PROVE  Earlier(g, i, call)
    <2>1. PICK j \in 1 .. i : f[j][1] = call
        BY <1>3 DEF Earlier
    <2>2. j # 1
        BY <1>1, <1>3, <2>1
    <2>3. j - 1 \in 1 .. i - 1 /\ g[j - 1] = f[j]
        BY <1>1, <1>2, <2>1, <2>2
    <2> QED BY <2>1, <2>3 DEF Earlier
\* Nothing critical comes after unlock, and what is critical is under the mutex.
<1>4. c[1] = "unlock" => Harmless(g)
    BY <1>1, <1>2 DEF Guarded, UnlocksLast, Harmless
<1>5. c[1] \in Critical => h = p
    BY <1>1, <1>2 DEF Guarded, InMutex, Earlier
<1> SUFFICES ASSUME c[1] # "unlock" PROVE Guarded(g, p, h2, su2, r2, sy2, d2)
    BY <1>4, HarmlessIsGuarded DEF g
<1>6. InMutex(g, p, h2)
    BY <1>1, <1>3 DEF Guarded, InMutex
<1>7. UnlocksLast(g) /\ OneAim(g)
    <2>1. \A i, j \in 1 .. Len(g) : i < j => i + 1 < j + 1
        OBVIOUS
    <2> HIDE DEF Critical
    <2>2. UnlocksLast(g)
        BY <1>1, <2>1 DEF Guarded, UnlocksLast
    <2>3. OneAim(g)
        BY <1>1 DEF Guarded, OneAim
    <2> QED BY <2>2, <2>3
<1>8. Admitted(g, p, h2, su2)
    <2> SUFFICES ASSUME NEW i \in 1 .. Len(g), g[i][1] = "create",
                        ~ Earlier(g, i, "unsuppress")
                 PROVE  h2 = p /\ ~su2
        BY DEF Admitted
    <2>1. f[i + 1][1] = "create" /\ i + 1 \in 1 .. Len(f) /\ c[1] # "suppress"
        BY <1>1, <1>2 DEF Guarded, OneAim
    <2>2. CASE c[1] = "unsuppress"
        BY <2>2, <1>5 DEF Critical
    <2>3. CASE c[1] # "unsuppress"
        BY <2>1, <2>3, <1>3 DEF Guarded, Admitted
    <2> QED BY <2>2, <2>3
<1>9. RowGone(g, p, h2, r2)
    <2> SUFFICES ASSUME NEW i \in 1 .. Len(g), g[i][1] = "suppress",
                        ~ \E j \in 1 .. i - 1 : g[j][1] = "erase" /\ g[j][3]
                 PROVE  h2 = p /\ r2 = "none"
        BY DEF RowGone
    <2>1. f[i + 1][1] = "suppress" /\ i + 1 \in 1 .. Len(f) /\ c[1] # "create"
        BY <1>1, <1>2 DEF Guarded, OneAim
    <2>2. CASE c[1] = "erase" /\ c[3]
        BY <2>2, <1>5 DEF Critical
    <2>3. CASE ~(c[1] = "erase" /\ c[3])
        <3>1. ~ \E j \in 1 .. (i + 1) - 1 : f[j][1] = "erase" /\ f[j][3]
            <4> SUFFICES ASSUME NEW j \in 1 .. i, f[j][1] = "erase", f[j][3]
                         PROVE  FALSE
                OBVIOUS
            <4>1. j # 1
                BY <1>1, <2>3
            <4>2. j - 1 \in 1 .. i - 1 /\ g[j - 1] = f[j]
                BY <1>1, <1>2, <4>1
            <4> QED BY <4>2
        <3> QED BY <2>1, <3>1 DEF Guarded, RowGone
    <2> QED BY <2>2, <2>3
<1>10. SyncPaused(g, p, h2, sy2)
    <2> SUFFICES ASSUME NEW i \in 1 .. Len(g), g[i][1] = "erase",
                        ~ Earlier(g, i, "lockSync")
                 PROVE  h2 = p /\ sy2
        BY DEF SyncPaused
    <2>1. f[i + 1][1] = "erase" /\ i + 1 \in 1 .. Len(f)
        BY <1>1
    <2>2. CASE c[1] = "lockSync"
        BY <2>2, <1>5 DEF Critical
    <2>3. CASE c[1] # "lockSync"
        BY <2>1, <2>3, <1>3 DEF Guarded, SyncPaused
    <2> QED BY <2>2, <2>3
<1>11. DataGone(g, p, h2, sy2, d2)
    <2> SUFFICES ASSUME NEW i \in 1 .. Len(g), NEW x \in Parts,
                        g[i][1] = "erase", g[i][3],
                        ~ \E j \in 1 .. i : g[j][1] = "erase" /\ x \in g[j][2]
                 PROVE  h2 = p /\ sy2 /\ x \notin d2
        BY DEF DataGone
    <2>1. f[i + 1][1] = "erase" /\ f[i + 1][3] /\ i + 1 \in 1 .. Len(f)
        BY <1>1
    <2>2. CASE c[1] = "erase" /\ x \in c[2]
        <3>1. h = p /\ sy
            BY <2>2, <1>1, <1>2 DEF Guarded, SyncPaused, Earlier
        <3> QED BY <2>2, <3>1
    <2>3. CASE ~(c[1] = "erase" /\ x \in c[2])
        <3>1. ~ \E j \in 1 .. i + 1 : f[j][1] = "erase" /\ x \in f[j][2]
            <4> SUFFICES ASSUME NEW j \in 1 .. i + 1, f[j][1] = "erase", x \in f[j][2]
                         PROVE  FALSE
                OBVIOUS
            <4>1. j # 1
                BY <1>1, <2>3
            <4>2. j - 1 \in 1 .. i /\ g[j - 1] = f[j]
                BY <1>1, <1>2, <4>1
            <4> QED BY <4>2
        <3> QED BY <2>1, <3>1 DEF Guarded, DataGone
    <2> QED BY <2>2, <2>3
<1> QED BY <1>6, <1>7, <1>8, <1>9, <1>10, <1>11 DEF Guarded, g
-----------------------------------------------------------------------------
(* The flows as they begin *)

Plain       == {"read", "mark", "unmark", "subscriptions", "unsub", "sweep", "wipe"}
ImportCalls == Plain \cup {"lock", "unsuppress", "create", "unlock"}

\* A flow of calls of the kinds K.
Only(f, K) == f \in Seq(Call) /\ \A i \in 1 .. Len(f) : f[i][1] \in K

LEMMA PlainIsHarmless ==
    ASSUME NEW f, Only(f, Plain)
    PROVE  Harmless(f)
BY DEF Only, Plain, Harmless, Critical

LEMMA OnlyConcat ==
    ASSUME NEW K, NEW f, NEW g, Only(f, K), Only(g, K)
    PROVE  Only(f \o g, K)
<1>1. f \o g \in Seq(Call) /\ Len(f \o g) = Len(f) + Len(g)
    BY DEF Only
<1>2. \A i \in 1 .. Len(f \o g) :
          (f \o g)[i] = IF i <= Len(f) THEN f[i] ELSE g[i - Len(f)]
    BY DEF Only
<1>3. \A i \in 1 .. Len(f) + Len(g) : i <= Len(f) \/ i - Len(f) \in 1 .. Len(g)
    BY DEF Only
<1> QED BY <1>1, <1>2, <1>3 DEF Only

LEMMA OnlyEmpty == ASSUME NEW K PROVE Only(<<>>, K)
BY DEF Only

LEMMA OnlyOne ==
    ASSUME NEW K, NEW c \in Call, c[1] \in K
    PROVE  Only(<<c>>, K)
BY DEF Only

LEMMA OnlyMore ==
    ASSUME NEW K, NEW M, NEW f, Only(f, K), K \subseteq M
    PROVE  Only(f, M)
BY DEF Only

\* Plain calls before what is guarded do not disturb it: they only move it.
LEMMA PlainThenGuarded ==
    ASSUME NEW f, NEW g \in Seq(Call), Only(f, Plain),
           NEW p, NEW h, NEW su, NEW r, NEW sy, NEW d,
           Guarded(g, p, h, su, r, sy, d)
    PROVE  Guarded(f \o g, p, h, su, r, sy, d)
<1> DEFINE m == Len(f)
           e == f \o g
<1>1. /\ m \in Nat /\ Len(g) \in Nat /\ Len(e) = m + Len(g)
      /\ \A i \in 1 .. m : e[i] = f[i] /\ f[i][1] \in Plain
      /\ \A i \in 1 .. Len(g) : e[m + i] = g[i] /\ m + i \in 1 .. Len(e)
    BY DEF Only
<1>2. \A i \in 1 .. Len(e) : i \in 1 .. m \/ i - m \in 1 .. Len(g)
    BY <1>1
<1> HIDE DEF m, e
\* What is not plain is in g.
<1>3. ASSUME NEW i \in 1 .. Len(e), e[i][1] \notin Plain
      PROVE  i - m \in 1 .. Len(g) /\ e[i] = g[i - m]
    <2>1. i - m \in 1 .. Len(g)
        BY <1>1, <1>2, <1>3
    <2> QED BY <1>1, <2>1
<1>4. ASSUME NEW i \in 1 .. Len(e), NEW call, Earlier(g, i - m, call), i - m \in 1 .. Len(g)
      PROVE  Earlier(e, i, call)
    <2>1. PICK j \in 1 .. (i - m) - 1 : g[j][1] = call
        BY <1>4 DEF Earlier
    <2>2. m + j \in 1 .. i - 1 /\ j \in 1 .. Len(g)
        BY <1>1, <1>4
    <2> QED BY <1>1, <2>1, <2>2 DEF Earlier
<1>5. \A c \in Critical : c \notin Plain
    BY DEF Critical, Plain
<1>6. InMutex(e, p, h)
    BY <1>3, <1>4, <1>5 DEF Guarded, InMutex
<1>7. OneAim(e)
    BY <1>3, <1>5 DEF Guarded, OneAim, Critical
<1>8. UnlocksLast(e)
    <2> SUFFICES ASSUME NEW i \in 1 .. Len(e), NEW j \in 1 .. Len(e),
                        e[i][1] = "unlock", i < j, e[j][1] \in Critical
                 PROVE  FALSE
        BY DEF UnlocksLast
    <2>1. /\ i - m \in 1 .. Len(g) /\ e[i] = g[i - m]
          /\ j - m \in 1 .. Len(g) /\ e[j] = g[j - m]
        BY <1>3, <1>5 DEF Critical
    <2>2. i - m < j - m
        BY <1>1
    <2> QED BY <2>1, <2>2 DEF Guarded, UnlocksLast
<1>9. Admitted(e, p, h, su)
    BY <1>3, <1>4, <1>5 DEF Guarded, Admitted, Critical
<1>10. SyncPaused(e, p, h, sy)
    BY <1>3, <1>4, <1>5 DEF Guarded, SyncPaused, Critical
<1>11. ASSUME NEW i \in 1 .. Len(e), i - m \in 1 .. Len(g), NEW j \in 1 .. i - m
       PROVE  /\ m + j \in 1 .. i /\ e[m + j] = g[j]
              /\ j <= (i - m) - 1 => m + j \in 1 .. i - 1
    BY <1>1, <1>11
<1>12. RowGone(e, p, h, r)
    <2> SUFFICES ASSUME NEW i \in 1 .. Len(e), e[i][1] = "suppress"
                 PROVE  \/ \E j \in 1 .. i - 1 : e[j][1] = "erase" /\ e[j][3]
                        \/ h = p /\ r = "none"
        BY DEF RowGone
    <2>1. i - m \in 1 .. Len(g) /\ e[i] = g[i - m]
        BY <1>3, <1>5 DEF Critical
    <2>2. \/ \E j \in 1 .. (i - m) - 1 : g[j][1] = "erase" /\ g[j][3]
          \/ h = p /\ r = "none"
        BY <2>1 DEF Guarded, RowGone
    <2>3. ASSUME NEW j \in 1 .. (i - m) - 1, g[j][1] = "erase", g[j][3]
          PROVE  \E k \in 1 .. i - 1 : e[k][1] = "erase" /\ e[k][3]
        <3>1. j \in 1 .. i - m /\ j <= (i - m) - 1
            BY <2>1
        <3>2. m + j \in 1 .. i - 1 /\ e[m + j] = g[j]
            BY <3>1, <2>1, <1>11
        <3> QED BY <3>2, <2>3
    <2> QED BY <2>2, <2>3
<1>13. DataGone(e, p, h, sy, d)
    <2> SUFFICES ASSUME NEW i \in 1 .. Len(e), NEW x \in Parts,
                        e[i][1] = "erase", e[i][3]
                 PROVE  \/ \E j \in 1 .. i : e[j][1] = "erase" /\ x \in e[j][2]
                        \/ h = p /\ sy /\ x \notin d
        BY DEF DataGone
    <2>1. i - m \in 1 .. Len(g) /\ e[i] = g[i - m]
        BY <1>3, <1>5 DEF Critical
    <2>2. \/ \E j \in 1 .. i - m : g[j][1] = "erase" /\ x \in g[j][2]
          \/ h = p /\ sy /\ x \notin d
        BY <2>1 DEF Guarded, DataGone
    <2>3. ASSUME NEW j \in 1 .. i - m, g[j][1] = "erase", x \in g[j][2]
          PROVE  \E k \in 1 .. i : e[k][1] = "erase" /\ x \in e[k][2]
        BY <2>1, <2>3, <1>11
    <2> QED BY <2>2, <2>3
<1> QED BY <1>6, <1>7, <1>8, <1>9, <1>10, <1>12, <1>13 DEF Guarded, e

\* Nor do plain calls after it.
LEMMA GuardedThenPlain ==
    ASSUME NEW f \in Seq(Call), NEW g, Only(g, Plain),
           NEW p, NEW h, NEW su, NEW r, NEW sy, NEW d,
           Guarded(f, p, h, su, r, sy, d)
    PROVE  Guarded(f \o g, p, h, su, r, sy, d)
<1> DEFINE m == Len(f)
           e == f \o g
<1>1. /\ m \in Nat /\ Len(g) \in Nat /\ Len(e) = m + Len(g)
      /\ \A i \in 1 .. m : e[i] = f[i]
      /\ \A i \in 1 .. Len(e) : i \in 1 .. m \/ e[i][1] \in Plain
    <2>1. \A i \in 1 .. Len(g) : g[i][1] \in Plain
        BY DEF Only
    <2>2. \A i \in 1 .. Len(e) : i \in 1 .. m \/ (i - m \in 1 .. Len(g) /\ e[i] = g[i - m])
        BY DEF Only
    <2> QED BY <2>1, <2>2 DEF Only
<1> HIDE DEF m, e
<1>2. \A c \in Critical : c \notin Plain
    BY DEF Critical, Plain
<1>3. \A i \in 1 .. Len(e) : e[i][1] \in Critical => i \in 1 .. m /\ e[i] = f[i]
    BY <1>1, <1>2
<1>4. \A i \in 1 .. m : \A j \in 1 .. i : j \in 1 .. m /\ e[j] = f[j]
    BY <1>1
<1>5. \A i \in 1 .. m : \A j \in 1 .. i - 1 : j \in 1 .. i
    BY <1>1
<1>6. \A i \in 1 .. m : \A call : Earlier(f, i, call) => Earlier(e, i, call)
    BY <1>4, <1>5 DEF Earlier
<1>7. InMutex(e, p, h)
    BY <1>3, <1>6 DEF Guarded, InMutex, m
<1>8. UnlocksLast(e) /\ OneAim(e)
    BY <1>3 DEF Guarded, UnlocksLast, OneAim, Critical, m
<1>9. Admitted(e, p, h, su) /\ SyncPaused(e, p, h, sy)
    BY <1>3, <1>6 DEF Guarded, Admitted, SyncPaused, Critical, m
<1>10. RowGone(e, p, h, r)
    BY <1>3, <1>4, <1>5 DEF Guarded, RowGone, Critical, m
<1>11. DataGone(e, p, h, sy, d)
    BY <1>3, <1>4 DEF Guarded, DataGone, Critical, m
<1> QED BY <1>7, <1>8, <1>9, <1>10, <1>11 DEF Guarded, e
\* The calls an import or a delete makes under its mutex.
LEMMA ImportIsGuarded ==
    ASSUME NEW f, Only(f, Plain), NEW p, NEW h, NEW su, NEW r, NEW sy, NEW d
    PROVE  Guarded(<< <<"lock">>, <<"unsuppress">> >> \o f
                     \o << <<"create">>, <<"unlock">> >>, p, h, su, r, sy, d)
<1> DEFINE m == Len(f)
           e == << <<"lock">>, <<"unsuppress">> >> \o f \o << <<"create">>, <<"unlock">> >>
<1>1. /\ m \in Nat /\ Len(e) = m + 4
      /\ e[1] = <<"lock">> /\ e[2] = <<"unsuppress">>
      /\ e[m + 3] = <<"create">> /\ e[m + 4] = <<"unlock">>
      /\ \A i \in 3 .. m + 2 : e[i] = f[i - 2] /\ f[i - 2][1] \in Plain
    BY DEF Only
<1>2. \A i \in 1 .. Len(e) : i = 1 \/ i = 2 \/ i \in 3 .. m + 2 \/ i = m + 3 \/ i = m + 4
    BY <1>1
<1> HIDE DEF m, e
<1>3. \A c \in Critical : c \notin Plain
    BY DEF Critical, Plain
<1>4. \A i \in 1 .. Len(e) :
          /\ e[i][1] \in Critical => i = 2 \/ i = m + 3 \/ i = m + 4
          /\ e[i][1] = "create" => i = m + 3
          /\ e[i][1] = "unlock" => i = m + 4
          /\ e[i][1] # "suppress" /\ e[i][1] # "erase"
    BY <1>1, <1>2, <1>3 DEF Critical, Plain
<1>5. /\ 1 \in 1 .. 1 /\ 1 \in 1 .. m + 2 /\ 2 \in 1 .. m + 2 /\ 1 \in 1 .. m + 3
      /\ (m + 3) - 1 = m + 2 /\ (m + 4) - 1 = m + 3
    BY <1>1
<1>6. InMutex(e, p, h)
    BY <1>1, <1>4, <1>5 DEF InMutex, Earlier
<1>7. UnlocksLast(e)
    BY <1>1, <1>4 DEF UnlocksLast
<1>8. Admitted(e, p, h, su)
    BY <1>1, <1>4, <1>5 DEF Admitted, Earlier
<1>9. OneAim(e) /\ RowGone(e, p, h, r) /\ SyncPaused(e, p, h, sy) /\ DataGone(e, p, h, sy, d)
    BY <1>4 DEF OneAim, RowGone, SyncPaused, DataGone
<1> QED BY <1>6, <1>7, <1>8, <1>9 DEF Guarded, e

LEMMA DeleteIsGuarded ==
    ASSUME NEW p, NEW h, NEW su, NEW r, NEW sy, NEW d
    PROVE  Delete \in Seq(Call) /\ Guarded(Delete, p, h, su, r, sy, d)
<1>1. Delete \in Seq(Call)
    <2>1. <<"erase", Parts, TRUE>> \in {"erase"} \X (SUBSET Parts) \X BOOLEAN
        OBVIOUS
    <2>2. <<"erase", Parts, TRUE>> \in Call
        BY <2>1 DEF Call
    <2>3. /\ <<"lock">> \in Call /\ <<"lockSync">> \in Call
          /\ <<"suppress">> \in Call /\ <<"unlock">> \in Call
        BY DEF Call
    <2> QED BY <2>2, <2>3 DEF Delete
<1> DEFINE e == Delete
<1>2. /\ Len(e) = 5 /\ e[1] = <<"lock">> /\ e[2] = <<"lockSync">>
      /\ e[3] = <<"erase", Parts, TRUE>> /\ e[4] = <<"suppress">> /\ e[5] = <<"unlock">>
    BY DEF Delete
<1> HIDE DEF e
<1>3. \A i \in 1 .. Len(e) :
          /\ e[i][1] \in Critical => i \in 2 .. 5
          /\ e[i][1] = "unlock" => i = 5
          /\ e[i][1] = "suppress" => i = 4
          /\ e[i][1] = "erase" => i = 3
          /\ e[i][1] # "create"
    BY <1>2 DEF Critical
<1>4. InMutex(e, p, h)
    BY <1>2, <1>3 DEF InMutex, Earlier
<1>5. UnlocksLast(e) /\ OneAim(e) /\ Admitted(e, p, h, su)
    BY <1>2, <1>3 DEF UnlocksLast, OneAim, Admitted
<1>6. RowGone(e, p, h, r)
    <2>1. e[3][1] = "erase" /\ e[3][3] /\ 3 \in 1 .. 4 - 1
        BY <1>2
    <2> QED BY <1>3, <2>1 DEF RowGone
<1>7. SyncPaused(e, p, h, sy)
    BY <1>2, <1>3 DEF SyncPaused, Earlier
<1>8. DataGone(e, p, h, sy, d)
    <2>1. e[3][1] = "erase" /\ e[3][2] = Parts /\ 3 \in 1 .. 3
        BY <1>2
    <2> QED BY <1>3, <2>1 DEF DataGone
<1> QED BY <1>1, <1>4, <1>5, <1>6, <1>7, <1>8 DEF Guarded, e

LEMMA PurgeIsGuarded ==
    ASSUME NEW p, NEW h, NEW su, NEW r, NEW sy, NEW d
    PROVE  Purge \in Seq(Call) /\ Guarded(Purge, p, h, su, r, sy, d)
<1>1. Purge \in Seq(Call)
    <2>1. /\ <<"erase", {"records"}, FALSE>> \in {"erase"} \X (SUBSET Parts) \X BOOLEAN
          /\ <<"erase", {"audit"}, FALSE>> \in {"erase"} \X (SUBSET Parts) \X BOOLEAN
          /\ <<"erase", {}, TRUE>> \in {"erase"} \X (SUBSET Parts) \X BOOLEAN
        BY DEF Parts
    <2>2. /\ <<"erase", {"records"}, FALSE>> \in Call
          /\ <<"erase", {"audit"}, FALSE>> \in Call
          /\ <<"erase", {}, TRUE>> \in Call
        BY <2>1 DEF Call
    <2>3. /\ <<"lock">> \in Call /\ <<"lockSync">> \in Call
          /\ <<"unlock">> \in Call /\ <<"calm">> \in Call
        BY DEF Call
    <2> QED BY <2>2, <2>3 DEF Purge
<1> DEFINE e == Purge
<1>2. /\ Len(e) = 7 /\ e[1] = <<"lock">> /\ e[2] = <<"lockSync">>
      /\ e[3] = <<"erase", {"records"}, FALSE>> /\ e[4] = <<"erase", {"audit"}, FALSE>>
      /\ e[5] = <<"erase", {}, TRUE>> /\ e[6] = <<"unlock">> /\ e[7] = <<"calm">>
    BY DEF Purge
<1> HIDE DEF e
<1>3. \A i \in 1 .. Len(e) :
          /\ e[i][1] \in Critical => i \in 2 .. 6
          /\ e[i][1] = "unlock" => i = 6
          /\ e[i][1] = "erase" => i \in 3 .. 5
          /\ e[i][1] = "erase" /\ e[i][3] => i = 5
          /\ e[i][1] # "create" /\ e[i][1] # "suppress"
    <2>1. \A i \in 1 .. Len(e) :
              i = 1 \/ i = 2 \/ i = 3 \/ i = 4 \/ i = 5 \/ i = 6 \/ i = 7
        BY <1>2
    <2>2. /\ e[1][1] = "lock" /\ e[2][1] = "lockSync" /\ e[3][1] = "erase"
          /\ e[4][1] = "erase" /\ e[5][1] = "erase" /\ e[6][1] = "unlock"
          /\ e[7][1] = "calm" /\ ~e[3][3] /\ ~e[4][3]
        BY <1>2
    <2> QED BY <2>1, <2>2 DEF Critical
<1>4. InMutex(e, p, h)
    BY <1>2, <1>3 DEF InMutex, Earlier
<1>5. OneAim(e) /\ Admitted(e, p, h, su) /\ RowGone(e, p, h, r)
    BY <1>3 DEF OneAim, Admitted, RowGone
<1>6. UnlocksLast(e)
    BY <1>2, <1>3 DEF UnlocksLast, Critical
<1>7. SyncPaused(e, p, h, sy)
    BY <1>2, <1>3 DEF SyncPaused, Earlier
<1>8. DataGone(e, p, h, sy, d)
    <2>1. /\ e[3][1] = "erase" /\ e[3][2] = {"records"} /\ 3 \in 1 .. 5
          /\ e[4][1] = "erase" /\ e[4][2] = {"audit"} /\ 4 \in 1 .. 5
        BY <1>2
    <2>2. \A x \in Parts : x \in e[3][2] \/ x \in e[4][2]
        BY <2>1 DEF Parts
    <2> QED BY <1>3, <2>1, <2>2 DEF DataGone
<1> QED BY <1>1, <1>4, <1>5, <1>6, <1>7, <1>8 DEF Guarded, e

\* The stores of the chain, its first ones and the one it begins with.
LEMMA ChainStores ==
    /\ Chain \in Seq(Stores) /\ Len(Chain) \in Nat /\ Len(Chain) > 1
    /\ Front(Chain) \in Seq(Stores) /\ Front(Chain) # <<>>
    /\ Tail(Front(Chain)) \in Seq(Stores)
    /\ Chain[1] \in Stores
<1>1. Chain \in Seq(STRING) /\ Len(Chain) > 1 /\ Len(Chain) \in Nat
    BY SubscriptionConstants
<1>2. \A i \in 1 .. Len(Chain) : Chain[i] \in Stores
    BY <1>1 DEF Stores, ToSet
<1>3. Chain \in Seq(Stores)
    BY <1>1, <1>2
<1>4. Front(Chain) \in Seq(Stores) /\ Len(Front(Chain)) = Len(Chain) - 1
    BY <1>1, <1>3 DEF Front
<1> QED BY <1>1, <1>2, <1>3, <1>4

LEMMA ReadIsPlain ==
    ASSUME NEW s \in Seq(Stores)
    PROVE  Only(Read(s), Plain)
<1>1. Len(s) \in Nat /\ DOMAIN s = 1 .. Len(s) /\ \A i \in 1 .. Len(s) : s[i] \in Stores
    OBVIOUS
<1>2. \A i \in 1 .. Len(s) : <<"read", s[i]>> \in Call
    BY <1>1 DEF Call
<1>3. Read(s) \in Seq(Call) /\ Len(Read(s)) = Len(s)
    BY <1>1, <1>2 DEF Read
<1> QED BY <1>1, <1>3 DEF Read, Only, Plain

LEMMA SubscribeToIsPlain == Only(SubscribeTo, Plain)
<1>1. Only(<< <<"mark">> >>, Plain)
    BY OnlyOne, <<"mark">> \in Call DEF Call, Plain
<1> QED BY <1>1, ChainStores, ReadIsPlain, OnlyConcat DEF SubscribeTo

LEMMA ReconcileIsPlain == Only(Reconcile, Plain)
BY ChainStores, ReadIsPlain, SubscribeToIsPlain, OnlyConcat DEF Reconcile

LEMMA UnsubscribeIsPlain == Only(Unsubscribe, Plain)
<1>1. Unsubscribe \in Seq(Call)
    BY DEF Unsubscribe, Unsubscribing, Call
<1> QED BY <1>1 DEF Unsubscribe, Unsubscribing, Only, Plain

LEMMA UnsubsIsPlain ==
    ASSUME NEW s \in SUBSET Stores
    PROVE  Only(Unsubs(s), Plain)
<1>1. <<"unsub", s>> \in Call
    BY DEF Call
<1> QED BY <1>1, OnlyOne, OnlyEmpty DEF Unsubs, Plain

LEMMA MetaIsPlain == Only(Meta, Plain)
<1>1. <<"read", Chain[1]>> \in Call
    BY ChainStores DEF Call
<1> QED BY <1>1, OnlyOne DEF Meta, Plain

\* An import does not touch what a purge does.
LEMMA ImportFlow ==
    ASSUME NEW p, NEW h, NEW su, NEW r, NEW sy, NEW d
    PROVE  /\ Only(Import, ImportCalls)
           /\ Guarded(Import, p, h, su, r, sy, d)
<1> DEFINE reads == Read(Front(Chain))
           core  == << <<"lock">>, <<"unsuppress">> >> \o SubscribeTo
                      \o << <<"create">>, <<"unlock">> >>
<1>1. Only(reads, Plain) /\ Only(SubscribeTo, Plain)
    BY ChainStores, ReadIsPlain, SubscribeToIsPlain
<1>2. /\ Only(<< <<"lock">>, <<"unsuppress">> >>, ImportCalls)
      /\ Only(<< <<"create">>, <<"unlock">> >>, ImportCalls)
    BY DEF Only, Call, ImportCalls
<1>3. Only(reads, ImportCalls) /\ Only(SubscribeTo, ImportCalls)
    BY <1>1, OnlyMore DEF ImportCalls
<1>4. Only(core, ImportCalls)
    BY <1>2, <1>3, OnlyConcat
<1>5. core \in Seq(Call)
    BY <1>4 DEF Only
<1>6. Guarded(core, p, h, su, r, sy, d)
    BY <1>1, ImportIsGuarded
<1>7. Import = reads \o core
    <2>1. reads \in Seq(Call) /\ SubscribeTo \in Seq(Call)
        BY <1>1 DEF Only
    <2>2. << <<"lock">>, <<"unsuppress">> >> \in Seq(Call) /\ << <<"create">>, <<"unlock">> >> \in Seq(Call)
        BY <1>2 DEF Only
    <2> DEFINE a == << <<"lock">>, <<"unsuppress">> >>
               b == << <<"create">>, <<"unlock">> >>
    <2>3. Import = ((reads \o a) \o SubscribeTo) \o b
        BY DEF Import
    <2> HIDE DEF a, b, reads
    <2> DEFINE c == a \o SubscribeTo
    <2>4. a \in Seq(Call) /\ b \in Seq(Call) /\ c \in Seq(Call)
        BY <2>1, <2>2 DEF a, b
    <2>5. (reads \o a) \o SubscribeTo = reads \o c
        BY <2>1, <2>4, ConcatAssociative, SMTT(60)
    <2> HIDE DEF c
    <2>6. (reads \o c) \o b = reads \o (c \o b)
        BY <2>1, <2>4, ConcatAssociative, SMTT(60)
    <2> QED BY <2>3, <2>5, <2>6 DEF a, b, c
<1> HIDE DEF reads, core
<1>8. Guarded(reads \o core, p, h, su, r, sy, d)
    BY <1>1, <1>5, <1>6, PlainThenGuarded
<1> QED BY <1>3, <1>4, <1>7, <1>8, OnlyConcat
-----------------------------------------------------------------------------
(* Steps *)

FlowsGuarded ==
    \A p \in Process :
        Guarded(todo[p], p, holder, suppressed, row, syncHeld, data)

\* The flow of one process changes; the others lose nothing of what they hold
\* the mutex for.
LEMMA OneFlow ==
    ASSUME TypeOK, FlowsGuarded, NEW p \in Process, NEW g,
           todo' = [todo EXCEPT ![p] = g],
           Guarded(g, p, holder', suppressed', row', syncHeld', data'),
           \A q \in Process \ {p} : holder = q =>
               /\ holder' = q /\ (suppressed' => suppressed)
               /\ row = "none" => row' = "none"
               /\ syncHeld => syncHeld' /\ data' \subseteq data
    PROVE  FlowsGuarded'
<1>1. \A q \in Process : todo'[q] = IF q = p THEN g ELSE todo[q]
    BY DEF TypeOK
<1>2. ASSUME NEW q \in Process \ {p}
      PROVE  Guarded(todo[q], q, holder', suppressed', row', syncHeld', data')
    BY StillGuarded DEF FlowsGuarded
<1> QED BY <1>1, <1>2 DEF FlowsGuarded

\* No flow changes.
LEMMA NoFlow ==
    ASSUME FlowsGuarded, UNCHANGED <<todo, holder, suppressed>>,
           row = "none" => row' = "none", syncHeld => syncHeld' /\ data' \subseteq data
    PROVE  FlowsGuarded'
<1>1. ASSUME NEW q \in Process
      PROVE  Guarded(todo[q], q, holder', suppressed', row', syncHeld', data')
    BY StillGuarded DEF FlowsGuarded
<1> QED BY <1>1 DEF FlowsGuarded

\* A process makes its next call, which changes what such a call may change.
LEMMA NextCall ==
    ASSUME TypeOK, FlowsGuarded, NEW p \in Process, todo[p] # <<>>,
           NEW c, c = Head(todo[p]),
           NEW g, todo' = [todo EXCEPT ![p] = g],
           g = Tail(todo[p]) \/ \E e : Only(e, Plain) /\ g = e \o Tail(todo[p]),
           c[1] = "lock" => holder = "free" /\ holder' = p,
           c[1] \notin {"lock", "unlock"} => holder' = holder,
           suppressed' => suppressed \/ c[1] = "suppress",
           c[1] = "unsuppress" => ~suppressed',
           row = "none" => row' = "none" \/ c[1] = "create",
           c[1] # "unlock" => (syncHeld => syncHeld'),
           c[1] = "lockSync" => syncHeld',
           data' \subseteq data,
           c[1] = "erase" => data' \cap c[2] = {} /\ (c[3] => row' = "none")
    PROVE  FlowsGuarded'
<1> DEFINE f == todo[p]
<1>1. /\ f \in Seq(Call) /\ f # <<>>
      /\ Guarded(f, p, holder, suppressed, row, syncHeld, data)
    BY DEF TypeOK, FlowsGuarded
<1>2. "free" \notin Process
    BY DEF Process
<1> HIDE DEF f
<1>3. Tail(f) \in Seq(Call)
    BY <1>1
<1>4. Guarded(Tail(f), p, holder', suppressed', row', syncHeld', data')
    BY <1>1, <1>2, RestIsGuarded DEF f
<1>5. Guarded(g, p, holder', suppressed', row', syncHeld', data')
    BY <1>3, <1>4, PlainThenGuarded DEF f
<1>6. c[1] \in Critical => holder = p
    <2>1. f[1] = c /\ 1 \in 1 .. Len(f)
        BY <1>1 DEF f
    <2>2. ~ Earlier(f, 1, "lock")
        BY DEF Earlier
    <2> QED BY <1>1, <2>1, <2>2 DEF Guarded, InMutex
<1>7. ASSUME NEW q \in Process \ {p}, holder = q
      PROVE  /\ holder' = q /\ (suppressed' => suppressed)
             /\ row = "none" => row' = "none"
             /\ syncHeld => syncHeld' /\ data' \subseteq data
    BY <1>2, <1>6, <1>7 DEF Critical
<1> QED BY <1>5, <1>7, OneFlow

LEMMA CarryGuarded ==
    ASSUME TypeOK, FlowsGuarded, NEW p \in Process, Carry(p)
    PROVE  FlowsGuarded'
<1> DEFINE c == Head(todo[p])
           rest == Tail(todo[p])
<1> USE DEF Done
<1>0. todo[p] \in Seq(Call)
    BY DEF TypeOK
<1>1. CASE ReadStore(p)
    BY <1>1, NextCall DEF ReadStore, At, Idle, orgVars
<1>2. CASE Lock(p)
    BY <1>2, NextCall DEF Lock, At, Idle, orgVars
<1>3. CASE LockSync(p)
    BY <1>3, NextCall DEF LockSync, At, Idle, orgVars
<1>4. CASE Unlock(p)
    BY <1>4, NextCall DEF Unlock, At, Idle, orgVars
<1>5. CASE RemoveUserDeletedOrgUid(p)
    BY <1>5, NextCall DEF RemoveUserDeletedOrgUid, At, Idle
<1>6. CASE AddUserDeletedOrgUid(p)
    BY <1>6, NextCall DEF AddUserDeletedOrgUid, At, Idle
<1>7. CASE SetSubscribed(p, "mark", "on") \/ SetSubscribed(p, "unmark", "off")
    <2>1. /\ c[1] \in {"mark", "unmark"} /\ todo[p] # <<>>
          /\ todo' = [todo EXCEPT ![p] = rest]
          /\ UNCHANGED <<data, suppressed, holder, syncHeld>>
          /\ row = "none" => row' = "none"
        BY <1>7 DEF SetSubscribed, At, Idle
    <2> QED BY <2>1, NextCall
<1>8. CASE Create(p)
    BY <1>8, NextCall DEF Create, At, Idle
<1>9. CASE Erase(p)
    BY <1>9, NextCall DEF Erase, At, Idle
<1>10. CASE Wipe(p)
    BY <1>10, NextCall DEF Wipe, At, Idle
<1>11. CASE ForgetStreak(p)
    BY <1>11, NextCall DEF ForgetStreak, At, Idle, orgVars
<1>12. CASE GetSubscriptions(p)
    <2>1. Only(Unsubs(c[2] \cap dl), Plain)
        BY UnsubsIsPlain DEF TypeOK
    <2>2. c[1] = "subscriptions" /\ todo[p] # <<>>
        BY <1>12 DEF GetSubscriptions, At, Idle
    <2>3. /\ todo' = [todo EXCEPT ![p] = Unsubs(c[2] \cap dl) \o rest]
          /\ UNCHANGED <<row, data, suppressed, holder, syncHeld>>
        BY <1>12 DEF GetSubscriptions, orgVars
    <2> QED BY <2>1, <2>2, <2>3, NextCall
<1>13. CASE UnsubscribeStore(p)
    <2>1. c[1] = "unsub" /\ todo[p] # <<>>
        BY <1>13 DEF UnsubscribeStore, At, Idle
    <2>2. PICK store \in Stores :
              todo' = [todo EXCEPT ![p] = Unsubs(c[2] \ {store}) \o rest]
        BY <1>13 DEF UnsubscribeStore
    <2>3. c \in Call /\ c[2] \subseteq Stores
        <3>1. c \in Call
            BY <1>0, <2>1
        <3> QED BY <2>1, <3>1 DEF Call
    <2>4. Only(Unsubs(c[2] \ {store}), Plain)
        BY <2>3, UnsubsIsPlain
    <2>5. UNCHANGED <<row, data, suppressed, holder, syncHeld>>
        BY <1>13 DEF UnsubscribeStore, orgVars
    <2> QED BY <2>1, <2>2, <2>4, <2>5, NextCall
<1> QED BY <1>1, <1>2, <1>3, <1>4, <1>5, <1>6, <1>7, <1>8, <1>9, <1>10, <1>11,
           <1>12, <1>13 DEF Carry

\* A process begins a flow, or goes on with another one.
LEMMA BeginGuarded ==
    ASSUME TypeOK, FlowsGuarded, NEW p \in Process, NEW g,
           todo' = [todo EXCEPT ![p] = g],
           UNCHANGED <<row, data, suppressed, holder, syncHeld>>,
           Guarded(g, p, holder, suppressed, row, syncHeld, data)
    PROVE  FlowsGuarded'
BY OneFlow
\* The flows the tasks and the API begin.
LEMMA StartsGuarded ==
    ASSUME TypeOK, FlowsGuarded,
           \/ StartDefault \/ Sweep \/ StartValidate \/ StartMeta
           \/ RequestImport \/ RequestSubscribe \/ RequestUnsubscribeV2
           \/ RequestUnsubscribeStores \/ RequestResync \/ RequestDelete
    PROVE  FlowsGuarded'
<1> DEFINE Sound(g) == g \in Seq(Call) /\ \A p \in Process :
                          Guarded(g, p, holder, suppressed, row, syncHeld, data)
<1>1. ASSUME NEW g, Only(g, Plain) PROVE Sound(g)
    BY <1>1, PlainIsHarmless, HarmlessIsGuarded DEF Only
<1>2. Sound(Import)
    BY ImportFlow DEF Only
<1>3. Sound(Purge) /\ Sound(Delete)
    BY PurgeIsGuarded, DeleteIsGuarded
<1>4. ASSUME NEW g, NEW e, Sound(g), Only(e, Plain) PROVE Sound(g \o e)
    <2>1. e \in Seq(Call)
        BY <1>4 DEF Only
    <2> QED BY <1>4, <2>1, GuardedThenPlain
<1>5. ASSUME NEW p \in Process, NEW g, Sound(g), todo' = [todo EXCEPT ![p] = g],
             UNCHANGED <<row, data, suppressed, holder, syncHeld>>
      PROVE  FlowsGuarded'
    BY <1>5, BeginGuarded
<1> HIDE DEF Sound
<1>6. Sound(<<>>) /\ Sound(SubscribeTo) /\ Sound(Reconcile) /\ Sound(Unsubscribe) /\ Sound(Meta)
    BY <1>1, OnlyEmpty, SubscribeToIsPlain, ReconcileIsPlain, UnsubscribeIsPlain, MetaIsPlain
<1>7. Process = {"default", "upkeep", "client"}
    BY DEF Process
<1>8. CASE StartDefault
    <2>1. \A l \in Lists : <<"sweep", l>> \in Call
        BY DEF Call
    <2>2. Only(<< <<"sweep", list>> >>, Plain)
        BY <2>1, OnlyOne DEF TypeOK, Plain
    <2> DEFINE g == (IF Wanted /\ row = "none" THEN Import
                     ELSE IF Wanted /\ config.onlyCadt /\ row = "off" THEN SubscribeTo
                     ELSE <<>>)
    <2>3. Sound(g)
        BY <1>2, <1>6
    <2>4. Sound(g \o << <<"sweep", list>> >>)
        BY <2>2, <2>3, <1>4
    <2>5. /\ todo' = [todo EXCEPT !["default"] = g \o << <<"sweep", list>> >>]
          /\ UNCHANGED <<row, data, suppressed, holder, syncHeld>>
        BY <1>8 DEF StartDefault, Begin, orgVars
    <2> HIDE DEF g
    <2> QED BY <2>4, <2>5, <1>5, <1>7
<1>9. CASE Sweep
    <2>1. PICK g : /\ Sound(g) /\ todo' = [todo EXCEPT !["default"] = g]
                   /\ UNCHANGED <<row, data, suppressed, holder, syncHeld>>
        BY <1>9, <1>3, <1>6 DEF Sweep, SweepSpares, SweepUnsubscribes,
           SweepStillSubscribed, SweepCounts, EndSweep, orgVars
    <2> QED BY <2>1, <1>5, <1>7
<1>10. CASE StartValidate
    <2>1. PICK g : /\ Sound(g) /\ todo' = [todo EXCEPT !["upkeep"] = g]
                   /\ UNCHANGED <<row, data, suppressed, holder, syncHeld>>
        BY <1>10, <1>6 DEF StartValidate, Begin, orgVars
    <2> QED BY <2>1, <1>5, <1>7
<1>11. CASE StartMeta
    <2>1. /\ todo' = [todo EXCEPT !["upkeep"] = Meta]
          /\ UNCHANGED <<row, data, suppressed, holder, syncHeld>>
        BY <1>11 DEF StartMeta, Begin, orgVars
    <2> QED BY <2>1, <1>5, <1>6, <1>7
<1>12. CASE RequestImport \/ RequestSubscribe \/ RequestUnsubscribeV2
    <2>1. PICK g : /\ Sound(g) /\ todo' = [todo EXCEPT !["client"] = g]
                   /\ UNCHANGED <<row, data, suppressed, holder, syncHeld>>
        BY <1>12, <1>2, <1>6 DEF RequestImport, RequestSubscribe, RequestUnsubscribeV2,
           Begin, Request
    <2> QED BY <2>1, <1>5, <1>7
<1>13. CASE RequestUnsubscribeStores
    <2> DEFINE g == IF config.v2 THEN Read(Tail(Front(Chain))) ELSE <<>>
    <2>1. Only(g, Plain)
        BY ChainStores, ReadIsPlain, OnlyEmpty
    <2>2. Sound(g \o Unsubscribe)
        BY <2>1, <1>1, OnlyConcat, UnsubscribeIsPlain
    <2>3. /\ todo' = [todo EXCEPT !["client"] = g \o Unsubscribe]
          /\ UNCHANGED <<row, data, suppressed, holder, syncHeld>>
        BY <1>13 DEF RequestUnsubscribeStores, Begin, Request
    <2> HIDE DEF g
    <2> QED BY <2>2, <2>3, <1>5, <1>7
<1>14. CASE RequestResync
    <2>1. <<"wipe">> \in Call /\ "wipe" \in Plain
        BY DEF Call, Plain
    <2>2. Sound(Reconcile \o << <<"wipe">> >>)
        BY <2>1, <1>4, <1>6, OnlyOne
    <2>3. /\ todo' = [todo EXCEPT !["client"] = Reconcile \o << <<"wipe">> >>]
          /\ UNCHANGED <<row, data, suppressed, holder, syncHeld>>
        BY <1>14 DEF RequestResync, Begin, Request
    <2> QED BY <2>2, <2>3, <1>5, <1>7
<1>15. CASE RequestDelete
    <2>1. Sound(Delete \o Unsubscribe)
        BY <1>3, <1>4, UnsubscribeIsPlain
    <2>2. /\ todo' = [todo EXCEPT !["client"] = Delete \o Unsubscribe]
          /\ UNCHANGED <<row, data, suppressed, holder, syncHeld>>
        BY <1>15 DEF RequestDelete, Begin, Request
    <2> QED BY <2>1, <2>2, <1>5, <1>7
<1> QED BY <1>8, <1>9, <1>10, <1>11, <1>12, <1>13, <1>14, <1>15

\* A failure leaves calls that need no mutex.
LEMMA AfterFailure ==
    ASSUME TypeOK, NEW p \in Process, Fail(p) \/ FailUnsubscribe(p)
    PROVE  \E g : Only(g, Plain) /\ todo' = [todo EXCEPT ![p] = g]
<1> DEFINE f == todo[p]
<1>1. f \in Seq(Call) /\ f # <<>>
    BY DEF TypeOK, Fail, FailUnsubscribe, At, Idle
<1>2. Head(f) \in Call /\ Last(f) \in Call
    BY <1>1 DEF Last
<1>3. CASE Fail(p)
    <2>1. Last(f)[1] = "sweep" => Only(<< Last(f) >>, Plain)
        BY <1>2, OnlyOne DEF Plain
    <2>2. Only(<<>>, Plain)
        BY OnlyEmpty
    <2> QED BY <1>3, <2>1, <2>2 DEF Fail
<1>4. CASE FailUnsubscribe(p)
    <2>1. PICK store \in Stores :
              todo' = [todo EXCEPT ![p] = Unsubs(Head(f)[2] \ {store})]
        BY <1>4 DEF FailUnsubscribe
    <2>2. Head(f)[2] \subseteq Stores
        BY <1>2, <1>4 DEF FailUnsubscribe, At, Call
    <2> QED BY <2>1, <2>2, UnsubsIsPlain
<1> QED BY <1>3, <1>4

LEMMA NextGuarded ==
    ASSUME TypeOK, FlowsGuarded, [Next]_vars
    PROVE  FlowsGuarded'
<1>1. CASE \E p \in Process : Carry(p)
    BY <1>1, CarryGuarded
<1>2. ASSUME NEW p \in Process, Fail(p) \/ FailUnsubscribe(p)
      PROVE  FlowsGuarded'
    <2>1. PICK g : Only(g, Plain) /\ todo' = [todo EXCEPT ![p] = g]
        BY <1>2, AfterFailure
    <2>2. Guarded(g, p, holder', suppressed', row', syncHeld', data')
        BY <2>1, PlainIsHarmless, HarmlessIsGuarded
    <2>3. UNCHANGED <<row, data, suppressed>>
        BY <1>2 DEF Fail, FailUnsubscribe, orgVars
    <2>4. holder # p => holder' = holder /\ (syncHeld => syncHeld')
        <3>1. CASE Fail(p)
            BY <3>1 DEF Fail
        <3>2. CASE FailUnsubscribe(p)
            BY <3>2 DEF FailUnsubscribe
        <3> QED BY <1>2, <3>1, <3>2
    <2>5. todo' = [todo EXCEPT ![p] = g]
        BY <2>1
    <2> QED BY <2>2, <2>3, <2>4, <2>5, OneFlow
<1>3. CASE \/ StartDefault \/ Sweep \/ StartValidate \/ StartMeta
           \/ RequestImport \/ RequestSubscribe \/ RequestUnsubscribeV2
           \/ RequestUnsubscribeStores \/ RequestResync \/ RequestDelete
    BY <1>3, StartsGuarded
<1>4. CASE RequestUnsubscribeV1
    BY <1>4, NoFlow DEF RequestUnsubscribeV1, Request
<1>5. CASE ListUnchanged \/ ListChanges \/ ListMissing \/ ReadinessExpires \/ StartTick \/ TickEnds
    BY <1>5, NoFlow DEF ListUnchanged, ListChanges, ListMissing, ReadinessExpires,
       StartTick, TickEnds, orgVars, flowVars
<1>6. CASE Ingest
    BY <1>6, NoFlow DEF Ingest, flowVars
<1>7. CASE Crash
    <2>1. \A p \in Process : Only(todo'[p], Plain)
        BY <1>7, OnlyEmpty DEF Crash
    <2> QED BY <2>1, PlainIsHarmless, HarmlessIsGuarded DEF FlowsGuarded
<1>8. CASE UNCHANGED vars
    BY <1>8, NoFlow DEF vars, orgVars, flowVars
<1> QED BY <1>1, <1>2, <1>3, <1>4, <1>5, <1>6, <1>7, <1>8 DEF Next
-----------------------------------------------------------------------------
(* The sweep's count.  A streak is never ahead of the sweeps that were       *)
(* counted, so a purge begins when as many as the grace cycles have been; it *)
(* ends with the streak forgotten unless a failure stops it.                 *)

Has(f, call) == \E i \in 1 .. Len(f) : f[i][1] = call

SweepInv ==
    LET f == todo["default"]
    IN  /\ Has(f, "erase") => offList = Grace
        /\ streak <= offList \/ offList = Grace
        /\ streak <= Grace + used.faults
        /\ Has(f, "calm") \/ streak < Grace + used.faults
        /\ ~(Has(f, "sweep") /\ Has(f, "calm"))

LEMMA OnlyHas ==
    ASSUME NEW f, NEW K, Only(f, K), NEW call, call \notin K
    PROVE  ~ Has(f, call)
BY DEF Only, Has

LEMMA HasHead ==
    ASSUME NEW f \in Seq(Call), f # <<>>
    PROVE  Has(f, Head(f)[1])
<1>1. Head(f) = f[1] /\ 1 \in 1 .. Len(f)
    OBVIOUS
<1> QED BY <1>1 DEF Has

\* The rest of a flow, behind calls that a plain call goes on with, has the
\* calls that are neither made nor plain.
LEMMA HasRest ==
    ASSUME NEW f \in Seq(Call), f # <<>>,
           NEW g, g = Tail(f) \/ \E e : Only(e, Plain \ {"sweep"}) /\ g = e \o Tail(f),
           NEW call, call \notin Plain \ {"sweep"}
    PROVE  /\ Has(g, call) => Has(f, call)
           /\ Has(f, call) /\ Head(f)[1] # call => Has(g, call)
<1> DEFINE t == Tail(f)
<1>1. /\ Len(f) \in Nat \ {0} /\ Len(t) = Len(f) - 1 /\ Head(f) = f[1] /\ t \in Seq(Call)
      /\ \A i \in 1 .. Len(t) : t[i] = f[i + 1] /\ i + 1 \in 1 .. Len(f)
      /\ \A i \in 1 .. Len(f) : i = 1 \/ (i - 1 \in 1 .. Len(t) /\ t[i - 1] = f[i])
    OBVIOUS
<1> HIDE DEF t
<1>2. /\ Has(t, call) => Has(f, call)
      /\ Has(f, call) /\ Head(f)[1] # call => Has(t, call)
    BY <1>1 DEF Has
<1>3. ASSUME NEW e, Only(e, Plain \ {"sweep"})
      PROVE  Has(e \o t, call) <=> Has(t, call)
    <2>1. /\ e \in Seq(Call) /\ Len(e) \in Nat /\ Len(t) \in Nat
          /\ \A i \in 1 .. Len(e) : e[i][1] # call
        BY <1>1, <1>3 DEF Only
    <2> DEFINE w == e \o t
    <2>2. /\ Len(w) = Len(e) + Len(t)
          /\ \A i \in 1 .. Len(w) :
                 w[i] = IF i <= Len(e) THEN e[i] ELSE t[i - Len(e)]
        <3>1. e \in Seq(Call) /\ t \in Seq(Call)
            BY <1>1, <2>1
        <3>2. /\ Len(e \o t) = Len(e) + Len(t)
              /\ \A i \in 1 .. Len(e) + Len(t) :
                     (e \o t)[i] = IF i <= Len(e) THEN e[i] ELSE t[i - Len(e)]
            BY <3>1, ConcatProperties, Zenon
        <3> QED BY <3>2
    <2> HIDE DEF w
    <2>3. ASSUME NEW i \in 1 .. Len(w), w[i][1] = call
          PROVE  \E j \in 1 .. Len(t) : t[j][1] = call
        <3>1. i > Len(e)
            BY <2>1, <2>2, <2>3
        <3>2. i - Len(e) \in 1 .. Len(t)
            BY <2>1, <2>2, <3>1
        <3>3. t[i - Len(e)][1] = call
            BY <2>1, <2>2, <2>3, <3>1
        <3> QED BY <3>2, <3>3
    <2>4. ASSUME NEW i \in 1 .. Len(t), t[i][1] = call
          PROVE  \E j \in 1 .. Len(w) : w[j][1] = call
        <3>1. Len(e) + i \in 1 .. Len(w) /\ ~ (Len(e) + i <= Len(e))
            BY <2>1, <2>2
        <3>2. Len(e) + i - Len(e) = i
            BY <2>1
        <3>3. w[Len(e) + i][1] = call
            BY <2>2, <2>4, <3>1, <3>2
        <3> QED BY <3>1, <3>3
    <2> QED BY <2>3, <2>4 DEF Has, w
<1> QED BY <1>2, <1>3 DEF t

LEMMA UnsubsHas ==
    ASSUME NEW s \in SUBSET Stores
    PROVE  Only(Unsubs(s), Plain \ {"sweep"})
<1>1. <<"unsub", s>> \in Call
    BY DEF Call
<1> QED BY <1>1, OnlyOne, OnlyEmpty DEF Unsubs, Plain

\* What a call leaves of a flow.
LEMMA CarryFlow ==
    ASSUME TypeOK, NEW p \in Process, Carry(p)
    PROVE  /\ todo[p] \in Seq(Call) /\ todo[p] # <<>>
           /\ \E g : /\ todo' = [todo EXCEPT ![p] = g]
                     /\ \/ g = Tail(todo[p])
                        \/ \E e : Only(e, Plain \ {"sweep"}) /\ g = e \o Tail(todo[p])
<1> DEFINE f == todo[p]
<1>1. f \in Seq(Call) /\ f # <<>>
    BY DEF TypeOK, Carry, At, Idle, ReadStore, Lock, LockSync, Unlock,
       RemoveUserDeletedOrgUid, AddUserDeletedOrgUid, SetSubscribed, Create,
       GetSubscriptions, UnsubscribeStore, Erase, Wipe, ForgetStreak
<1>2. CASE GetSubscriptions(p)
    <2>1. Only(Unsubs(Head(f)[2] \cap dl), Plain \ {"sweep"})
        BY UnsubsHas DEF TypeOK
    <2> QED BY <1>1, <1>2, <2>1 DEF GetSubscriptions
<1>3. CASE UnsubscribeStore(p)
    <2>1. PICK store \in Stores :
              todo' = [todo EXCEPT ![p] = Unsubs(Head(f)[2] \ {store}) \o Tail(f)]
        BY <1>3 DEF UnsubscribeStore
    <2>2. Head(f) \in Call
        BY <1>1
    <2>3. Head(f)[2] \subseteq Stores
        BY <1>3, <2>2 DEF UnsubscribeStore, At, Call
    <2>4. Only(Unsubs(Head(f)[2] \ {store}), Plain \ {"sweep"})
        BY <2>3, UnsubsHas
    <2> QED BY <1>1, <2>1, <2>4
<1>4. CASE ~GetSubscriptions(p) /\ ~UnsubscribeStore(p)
    BY <1>1, <1>4 DEF Carry, Done, ReadStore, Lock, LockSync, Unlock,
       RemoveUserDeletedOrgUid, AddUserDeletedOrgUid, SetSubscribed, Create,
       Erase, Wipe, ForgetStreak
<1> QED BY <1>2, <1>3, <1>4

\* The streak and the count stay, and so does what the default task has to do,
\* or no more than that.
LEMMA SweepStill ==
    ASSUME TypeOK, SweepInv, UNCHANGED <<streak, offList>>,
           used'.faults \in Nat, used'.faults >= used.faults,
           LET f == todo["default"]
               g == todo'["default"]
           IN  /\ Has(g, "erase") => Has(f, "erase")
               /\ Has(f, "calm") => Has(g, "calm") \/ used'.faults > used.faults
               /\ ~(Has(g, "sweep") /\ Has(g, "calm"))
    PROVE  SweepInv'
<1>1. streak \in Nat /\ used.faults \in Nat
    BY SubscriptionConstants DEF TypeOK, Grace
<1> QED BY <1>1 DEF SweepInv, Grace

LEMMA CarrySweep ==
    ASSUME TypeOK, SweepInv, NEW p \in Process, Carry(p)
    PROVE  SweepInv'
<1> DEFINE f == todo["default"]
<1>1. PICK g : /\ todo' = [todo EXCEPT ![p] = g]
               /\ \/ g = Tail(todo[p])
                  \/ \E e : Only(e, Plain \ {"sweep"}) /\ g = e \o Tail(todo[p])
    BY CarryFlow
<1>2. todo[p] \in Seq(Call) /\ todo[p] # <<>>
    BY CarryFlow
<1>3. /\ UNCHANGED <<offList, used>> /\ used.faults \in Nat /\ streak \in Nat
      /\ todo'["default"] = IF p = "default" THEN g ELSE f
    BY <1>1, SubscriptionConstants DEF Carry, ReadStore, Lock, LockSync, Unlock, Process,
       RemoveUserDeletedOrgUid, AddUserDeletedOrgUid, SetSubscribed, Create, FlowOnly,
       GetSubscriptions, UnsubscribeStore, Erase, Wipe, ForgetStreak, TypeOK, Grace
<1>4. CASE p # "default" /\ ~ForgetStreak(p)
    <2>1. UNCHANGED streak
        BY <1>4 DEF Carry, ReadStore, Lock, LockSync, Unlock, RemoveUserDeletedOrgUid,
           AddUserDeletedOrgUid, SetSubscribed, Create, GetSubscriptions,
           UnsubscribeStore, Erase, Wipe
    <2> QED BY <1>3, <1>4, <2>1, SweepStill DEF SweepInv
<1>5. "erase" \notin Plain /\ "calm" \notin Plain
    BY DEF Plain
<1>6. CASE p = "default" /\ ~ForgetStreak(p)
    <2>1. /\ UNCHANGED streak /\ Head(f)[1] # "calm"
        BY <1>6 DEF Carry, ReadStore, Lock, LockSync, Unlock, RemoveUserDeletedOrgUid,
           AddUserDeletedOrgUid, SetSubscribed, Create, GetSubscriptions,
           UnsubscribeStore, Erase, Wipe, At
    <2>2. /\ Has(g, "erase") => Has(f, "erase")
          /\ Has(f, "calm") <=> Has(g, "calm")
          /\ Has(g, "sweep") => Has(f, "sweep")
        BY <1>1, <1>2, <1>5, <1>6, <2>1, HasRest
    <2> QED BY <1>3, <1>6, <2>1, <2>2, SweepStill DEF SweepInv
<1>7. CASE ForgetStreak(p)
    <2>1. streak' = 0
        BY <1>7 DEF ForgetStreak
    <2>2. p = "default" => /\ Has(g, "erase") => Has(f, "erase")
                           /\ Has(g, "calm") => Has(f, "calm")
                           /\ Has(g, "sweep") => Has(f, "sweep")
        BY <1>1, <1>2, <1>5, HasRest
    <2>3. offList \in Nat
        BY DEF TypeOK
    <2> QED BY <1>3, <2>1, <2>2, <2>3 DEF SweepInv, Grace
<1> QED BY <1>4, <1>6, <1>7

\* The sweep itself.
LEMMA SweepCountsUp ==
    ASSUME TypeOK, SweepInv, Sweep
    PROVE  SweepInv'
<1> DEFINE f == todo["default"]
           g == todo'["default"]
<1>1. f \in Seq(Call) /\ f # <<>> /\ Head(f)[1] = "sweep"
    BY DEF TypeOK, Process, Sweep, SweepSpares, SweepUnsubscribes, SweepStillSubscribed,
       SweepCounts, OffOrgList, At, Idle
<1>2. ~ Has(f, "calm")
    BY <1>1, HasHead DEF SweepInv
<1>3. /\ streak \in Nat /\ offList \in 0 .. Grace /\ used.faults \in Nat /\ UNCHANGED used
      /\ streak < Grace + used.faults
    BY <1>2, SubscriptionConstants DEF TypeOK, Grace, SweepInv, Sweep, SweepSpares,
       SweepUnsubscribes, SweepStillSubscribed, SweepCounts, EndSweep
<1>4. /\ Only(<<>>, Plain \ {"sweep"}) /\ Only(Unsubscribe, Plain)
      /\ \A call : ~ Has(<<>>, call)
    BY OnlyEmpty, UnsubscribeIsPlain DEF Has
<1>5. ~ Has(Unsubscribe, "erase") /\ ~ Has(Unsubscribe, "calm")
    BY <1>4, OnlyHas DEF Plain
<1>6. CASE SweepSpares
    <2>1. /\ g = <<>>
          /\ (streak' = 0 /\ offList' = 0) \/ UNCHANGED <<streak, offList>>
        BY <1>6 DEF SweepSpares, EndSweep, TypeOK, Process
    <2> QED BY <1>3, <1>4, <2>1 DEF SweepInv, Grace
<1>7. CASE SweepUnsubscribes \/ SweepStillSubscribed
    <2>1. /\ g = <<>> \/ g = Unsubscribe
          /\ streak' = 0
          /\ offList' \in Nat
        BY <1>3, <1>7 DEF SweepUnsubscribes, SweepStillSubscribed, OffOrgList, EndSweep,
           TypeOK, Process, Grace
    <2> QED BY <1>3, <1>4, <1>5, <2>1 DEF SweepInv, Grace
<1>8. CASE SweepCounts
    <2>1. /\ streak' = streak + 1
          /\ offList' = IF offList < Grace THEN offList + 1 ELSE offList
          /\ g = IF streak + 1 < Grace THEN <<>> ELSE Purge
        BY <1>8 DEF SweepCounts, OffOrgList, EndSweep, TypeOK, Process
    <2>2. Has(Purge, "calm") /\ ~ Has(Purge, "sweep")
        <3>1. Len(Purge) = 7 /\ Purge[7] = <<"calm">> /\ 7 \in 1 .. 7
            BY DEF Purge
        <3>2. \A i \in 1 .. 7 : Purge[i][1] # "sweep"
            BY DEF Purge
        <3> QED BY <3>1, <3>2 DEF Has
    <2>3. streak <= offList \/ offList = Grace
        BY DEF SweepInv
    <2>4. streak' <= offList' \/ offList' = Grace
        BY <1>3, <2>1, <2>3 DEF Grace
    <2>5. ~(streak + 1 < Grace) => offList' = Grace
        BY <1>3, <2>1, <2>3 DEF Grace
    <2> QED BY <1>3, <1>4, <2>1, <2>2, <2>4, <2>5 DEF SweepInv, Grace
<1> QED BY <1>6, <1>7, <1>8 DEF Sweep
LEMMA NextSweep ==
    ASSUME TypeOK, SweepInv, [Next]_vars
    PROVE  SweepInv'
<1> DEFINE f == todo["default"]
           g == todo'["default"]
<1>1. /\ used.faults \in Nat /\ streak \in Nat /\ offList \in Nat
      /\ used \in [requests : 0 .. MaxRequests, changes : 0 .. MaxChanges,
                   faults : 0 .. MaxFaults]
      /\ todo \in [Process -> Seq(Call)]
      /\ "default" \in Process /\ "upkeep" \in Process /\ "client" \in Process
    BY SubscriptionConstants DEF TypeOK, Grace, Process
<1>2. ~(Has(f, "sweep") /\ Has(f, "calm"))
    BY DEF SweepInv
<1>3. CASE \E p \in Process : Carry(p)
    BY <1>3, CarrySweep
<1>4. CASE Sweep
    BY <1>4, SweepCountsUp
<1>5. ASSUME NEW p \in Process, Fail(p) \/ FailUnsubscribe(p)
      PROVE  SweepInv'
    <2>1. PICK h : Only(h, Plain) /\ todo' = [todo EXCEPT ![p] = h]
        BY <1>5, AfterFailure
    <2>2. ~ Has(h, "erase") /\ ~ Has(h, "calm")
        BY <2>1, OnlyHas DEF Plain
    <2>3. /\ used'.faults = used.faults + 1 /\ UNCHANGED offList
          /\ streak' = 0 \/ streak' = streak
        <3>1. CASE Fail(p)
            BY <1>1, <3>1 DEF Fail, Count
        <3>2. CASE FailUnsubscribe(p)
            BY <1>1, <3>2 DEF FailUnsubscribe, Count
        <3> QED BY <1>5, <3>1, <3>2
    <2>4. g = IF p = "default" THEN h ELSE f
        BY <1>1, <2>1
    <2> QED BY <1>1, <2>2, <2>3, <2>4 DEF SweepInv, Grace
<1>6. CASE StartDefault
    <2>1. f = <<>> /\ ~ Has(f, "calm")
        BY <1>6 DEF StartDefault, Begin, Idle, Has
    <2>2. UNCHANGED <<streak, offList, used>>
        BY <1>6 DEF StartDefault
    <2>3. Only(g, ImportCalls)
        <3>1. <<"sweep", list>> \in Call
            BY DEF TypeOK, Call
        <3>2. Only(<< <<"sweep", list>> >>, ImportCalls)
            BY <3>1, OnlyOne DEF ImportCalls, Plain
        <3> DEFINE e == (IF Wanted /\ row = "none" THEN Import
                         ELSE IF Wanted /\ config.onlyCadt /\ row = "off" THEN SubscribeTo
                         ELSE <<>>)
        <3>3. Only(SubscribeTo, ImportCalls)
            BY SubscribeToIsPlain, OnlyMore DEF ImportCalls
        <3>4. Only(e, ImportCalls)
            BY <3>3, ImportFlow, OnlyEmpty
        <3>5. g = e \o << <<"sweep", list>> >>
            BY <1>1, <1>6 DEF StartDefault, Begin
        <3> HIDE DEF e
        <3> QED BY <3>2, <3>4, <3>5, OnlyConcat
    <2>4. ~ Has(g, "erase") /\ ~ Has(g, "calm")
        BY <2>3, OnlyHas DEF ImportCalls, Plain
    <2> QED BY <1>1, <2>1, <2>2, <2>4 DEF SweepInv, Grace
<1>7. CASE Crash
    <2>1. /\ g = <<>> /\ streak' = 0 /\ used'.faults = used.faults + 1
          /\ UNCHANGED offList
        BY <1>1, <1>7 DEF Crash, Count
    <2>2. \A call : ~ Has(<<>>, call)
        BY DEF Has
    <2> QED BY <1>1, <2>1, <2>2 DEF SweepInv, Grace
<1>8. CASE \/ StartValidate \/ StartMeta \/ RequestImport \/ RequestSubscribe
           \/ RequestUnsubscribeV1 \/ RequestUnsubscribeV2 \/ RequestUnsubscribeStores
           \/ RequestResync \/ RequestDelete
    <2>1. g = f
        BY <1>1, <1>8 DEF StartValidate, StartMeta, RequestImport, RequestSubscribe,
           RequestUnsubscribeV1, RequestUnsubscribeV2, RequestUnsubscribeStores,
           RequestResync, RequestDelete, Begin
    <2>2. UNCHANGED <<streak, offList>> /\ used'.faults = used.faults
        BY <1>1, <1>8 DEF StartValidate, StartMeta, RequestImport, RequestSubscribe,
           RequestUnsubscribeV1, RequestUnsubscribeV2, RequestUnsubscribeStores,
           RequestResync, RequestDelete, Request, Count
    <2> QED BY <1>1, <1>2, <2>1, <2>2, SweepStill
<1>9. CASE \/ ListUnchanged \/ ListChanges \/ ListMissing \/ ReadinessExpires
           \/ StartTick \/ Ingest \/ TickEnds \/ UNCHANGED vars
    <2>1. UNCHANGED <<todo, streak, offList>>
        BY <1>9 DEF ListUnchanged, ListChanges, ListMissing, ReadinessExpires,
           StartTick, Ingest, TickEnds, vars, flowVars
    <2>2. used'.faults \in Nat /\ used'.faults >= used.faults
        BY <1>1, <1>9 DEF ListUnchanged, ListChanges, ListMissing, ReadinessExpires,
           StartTick, Ingest, TickEnds, vars, Count
    <2> QED BY <1>2, <2>1, <2>2, SweepStill
<1> QED BY <1>3, <1>4, <1>5, <1>6, <1>7, <1>8, <1>9 DEF Next

-----------------------------------------------------------------------------
(* Types *)

LEMMA FlowTypes ==
    ASSUME TypeOK, [Next]_vars
    PROVE  todo' \in [Process -> Seq(Call)]
<1>1. /\ todo \in [Process -> Seq(Call)]
      /\ "default" \in Process /\ "upkeep" \in Process /\ "client" \in Process
    BY DEF TypeOK, Process
<1>2. /\ Import \in Seq(Call) /\ Purge \in Seq(Call) /\ Delete \in Seq(Call)
      /\ SubscribeTo \in Seq(Call) /\ Reconcile \in Seq(Call) /\ Unsubscribe \in Seq(Call)
      /\ Meta \in Seq(Call) /\ <<>> \in Seq(Call)
      /\ Read(Tail(Front(Chain))) \in Seq(Call)
    BY ImportFlow, PurgeIsGuarded, DeleteIsGuarded, SubscribeToIsPlain, ReconcileIsPlain,
       UnsubscribeIsPlain, MetaIsPlain, OnlyEmpty, ChainStores, ReadIsPlain DEF Only
<1>3. <<"wipe">> \in Call /\ <<"sweep", list>> \in Call
    BY DEF TypeOK, Call
<1>4. ASSUME NEW p \in Process, Carry(p)
      PROVE  todo' \in [Process -> Seq(Call)]
    <2>1. PICK g : /\ todo' = [todo EXCEPT ![p] = g]
                   /\ \/ g = Tail(todo[p])
                      \/ \E e : Only(e, Plain \ {"sweep"}) /\ g = e \o Tail(todo[p])
        BY <1>4, CarryFlow
    <2>2. todo[p] \in Seq(Call) /\ todo[p] # <<>> /\ Tail(todo[p]) \in Seq(Call)
        BY <1>4, CarryFlow
    <2>3. g \in Seq(Call)
        <3>1. CASE g = Tail(todo[p])
            BY <2>2, <3>1
        <3>2. ASSUME NEW e, Only(e, Plain \ {"sweep"}), g = e \o Tail(todo[p])
              PROVE  g \in Seq(Call)
            <4>1. e \in Seq(Call)
                BY <3>2 DEF Only
            <4> QED BY <2>2, <3>2, <4>1, ConcatProperties
        <3> QED BY <2>1, <3>1, <3>2
    <2> QED BY <1>1, <2>1, <2>3
<1>5. ASSUME NEW p \in Process, Fail(p) \/ FailUnsubscribe(p)
      PROVE  todo' \in [Process -> Seq(Call)]
    BY <1>1, <1>5, AfterFailure DEF Only
<1>6. CASE StartDefault
    <2> DEFINE e == (IF Wanted /\ row = "none" THEN Import
                     ELSE IF Wanted /\ config.onlyCadt /\ row = "off" THEN SubscribeTo
                     ELSE <<>>)
    <2>1. e \in Seq(Call)
        BY <1>2
    <2>2. todo' = [todo EXCEPT !["default"] = e \o << <<"sweep", list>> >>]
        BY <1>6 DEF StartDefault, Begin
    <2> HIDE DEF e
    <2> QED BY <1>1, <1>3, <2>1, <2>2
<1>7. CASE Sweep
    BY <1>1, <1>2, <1>7 DEF Sweep, SweepSpares, SweepUnsubscribes, SweepStillSubscribed,
       SweepCounts, EndSweep
<1>8. CASE StartValidate \/ StartMeta \/ RequestImport \/ RequestSubscribe
           \/ RequestUnsubscribeV1 \/ RequestUnsubscribeV2
    BY <1>1, <1>2, <1>8 DEF StartValidate, StartMeta, RequestImport, RequestSubscribe,
       RequestUnsubscribeV1, RequestUnsubscribeV2, Begin
<1>9. CASE RequestUnsubscribeStores \/ RequestResync \/ RequestDelete
    <2>1. << <<"wipe">> >> \in Seq(Call)
        BY <1>3
    <2>2. /\ Read(Tail(Front(Chain))) \o Unsubscribe \in Seq(Call)
          /\ <<>> \o Unsubscribe \in Seq(Call)
          /\ Reconcile \o << <<"wipe">> >> \in Seq(Call)
          /\ Delete \o Unsubscribe \in Seq(Call)
        BY <1>2, <2>1, ConcatProperties
    <2>3. \E g \in Seq(Call) : todo' = [todo EXCEPT !["client"] = g]
        <3>1. CASE RequestUnsubscribeStores
            BY <2>2, <3>1 DEF RequestUnsubscribeStores, Begin
        <3>2. CASE RequestResync
            BY <2>2, <3>2 DEF RequestResync, Begin
        <3>3. CASE RequestDelete
            BY <2>2, <3>3 DEF RequestDelete, Begin
        <3> QED BY <1>9, <3>1, <3>2, <3>3
    <2> QED BY <1>1, <2>3
<1>10. CASE Crash
    BY <1>10 DEF Crash
<1>11. CASE \/ ListUnchanged \/ ListChanges \/ ListMissing \/ ReadinessExpires
            \/ StartTick \/ Ingest \/ TickEnds \/ UNCHANGED vars
    BY <1>1, <1>11 DEF ListUnchanged, ListChanges, ListMissing, ReadinessExpires,
       StartTick, Ingest, TickEnds, vars, flowVars
<1> QED BY <1>4, <1>5, <1>6, <1>7, <1>8, <1>9, <1>10, <1>11 DEF Next

LEMMA StreakIsNat == ASSUME TypeOK PROVE streak \in Nat
BY SubscriptionConstants DEF TypeOK, Grace

\* The bounds of what is counted.
Bounds == [requests : 0 .. MaxRequests, changes : 0 .. MaxChanges, faults : 0 .. MaxFaults]

LEMMA Counted ==
    ASSUME TypeOK
    PROVE  /\ Count("requests") /\ used.requests < MaxRequests => used' \in Bounds
           /\ Count("changes") /\ used.changes < MaxChanges => used' \in Bounds
           /\ Count("faults") /\ used.faults < MaxFaults => used' \in Bounds
<1>1. used \in Bounds
    BY DEF TypeOK, Bounds
<1>2. \A m \in Nat : \A n \in 0 .. m : n < m => n + 1 \in 0 .. m
    OBVIOUS
<1>3. used.requests \in 0 .. MaxRequests /\ used.changes \in 0 .. MaxChanges
      /\ used.faults \in 0 .. MaxFaults
    BY <1>1 DEF Bounds
<1>4. /\ used.requests < MaxRequests => used.requests + 1 \in 0 .. MaxRequests
      /\ used.changes < MaxChanges => used.changes + 1 \in 0 .. MaxChanges
      /\ used.faults < MaxFaults => used.faults + 1 \in 0 .. MaxFaults
    BY <1>2, <1>3, SubscriptionConstants
<1>5. /\ \A n \in 0 .. MaxRequests : [used EXCEPT !["requests"] = n] \in Bounds
      /\ \A n \in 0 .. MaxChanges : [used EXCEPT !["changes"] = n] \in Bounds
      /\ \A n \in 0 .. MaxFaults : [used EXCEPT !["faults"] = n] \in Bounds
    BY <1>1 DEF Bounds
<1> QED BY <1>4, <1>5 DEF Count

\* The types of what a step of a flow changes.
LEMMA CarryTypes ==
    ASSUME TypeOK, NEW p \in Process, Carry(p)
    PROVE  /\ row' \in {"none", "on", "off"} /\ data' \subseteq Parts /\ dl' \subseteq Stores
           /\ suppressed' \in BOOLEAN /\ streak' \in Nat
           /\ holder' \in Process \cup {"free"} /\ syncHeld' \in BOOLEAN
           /\ UNCHANGED <<config, list, ready, ticking, passes, offList, used>>
<1>1. /\ row \in {"none", "on", "off"} /\ data \subseteq Parts /\ dl \subseteq Stores
      /\ suppressed \in BOOLEAN
      /\ holder \in Process \cup {"free"} /\ syncHeld \in BOOLEAN
    BY DEF TypeOK
<1>2. streak \in Nat
    BY StreakIsNat
<1>3. UNCHANGED <<config, list, ready, ticking, passes, offList, used>>
    BY DEF Carry, ReadStore, Lock, LockSync, Unlock, RemoveUserDeletedOrgUid,
       AddUserDeletedOrgUid, SetSubscribed, Create, GetSubscriptions, UnsubscribeStore,
       Erase, Wipe, ForgetStreak, FlowOnly, govVars
<1>4. row' \in {"none", "on", "off"}
    BY <1>1 DEF Carry, ReadStore, Lock, LockSync, Unlock, RemoveUserDeletedOrgUid,
       AddUserDeletedOrgUid, SetSubscribed, Create, GetSubscriptions, UnsubscribeStore,
       Erase, Wipe, ForgetStreak, orgVars
<1>5. data' \subseteq Parts
    BY <1>1 DEF Carry, ReadStore, Lock, LockSync, Unlock, RemoveUserDeletedOrgUid,
       AddUserDeletedOrgUid, SetSubscribed, Create, GetSubscriptions, UnsubscribeStore,
       Erase, Wipe, ForgetStreak, orgVars
<1>6. dl' \subseteq Stores
    <2>1. CASE ReadStore(p)
        <3>1. Head(todo[p]) \in Call /\ Head(todo[p])[1] = "read"
            BY <2>1 DEF TypeOK, ReadStore, At, Idle
        <3>2. Head(todo[p])[2] \in Stores
            BY <3>1 DEF Call
        <3> QED BY <1>1, <2>1, <3>2 DEF ReadStore
    <2>2. CASE UnsubscribeStore(p)
        BY <1>1, <2>2 DEF UnsubscribeStore
    <2>3. CASE ~ReadStore(p) /\ ~UnsubscribeStore(p)
        BY <1>1, <2>3 DEF Carry, Lock, LockSync, Unlock, RemoveUserDeletedOrgUid,
           AddUserDeletedOrgUid, SetSubscribed, Create, GetSubscriptions,
           Erase, Wipe, ForgetStreak
    <2> QED BY <2>1, <2>2, <2>3
<1>7. suppressed' \in BOOLEAN
    BY <1>1 DEF Carry, ReadStore, Lock, LockSync, Unlock, RemoveUserDeletedOrgUid,
       AddUserDeletedOrgUid, SetSubscribed, Create, GetSubscriptions, UnsubscribeStore,
       Erase, Wipe, ForgetStreak, orgVars
<1>8. streak' \in Nat
    BY <1>2 DEF Carry, ReadStore, Lock, LockSync, Unlock, RemoveUserDeletedOrgUid,
       AddUserDeletedOrgUid, SetSubscribed, Create, GetSubscriptions, UnsubscribeStore,
       Erase, Wipe, ForgetStreak
<1>9. holder' \in Process \cup {"free"} /\ syncHeld' \in BOOLEAN
    BY <1>1 DEF Carry, ReadStore, Lock, LockSync, Unlock, RemoveUserDeletedOrgUid,
       AddUserDeletedOrgUid, SetSubscribed, Create, GetSubscriptions, UnsubscribeStore,
       Erase, Wipe, ForgetStreak
<1> QED BY <1>3, <1>4, <1>5, <1>6, <1>7, <1>8, <1>9

\* The delete mutex of the sync tick is only held with the other one.
LEMMA SyncUnderMutex ==
    ASSUME TypeOK, FlowsGuarded, NEW p \in Process, Carry(p)
    PROVE  syncHeld' => holder' # "free"
<1>1. ASSUME LockSync(p) \/ Unlock(p)
      PROVE  holder = p
    <2>1. /\ todo[p] \in Seq(Call) /\ todo[p] # <<>>
          /\ Head(todo[p])[1] \in Critical
        BY <1>1 DEF TypeOK, LockSync, Unlock, At, Idle, Critical
    <2>2. 1 \in 1 .. Len(todo[p]) /\ Head(todo[p]) = todo[p][1] /\ ~ Earlier(todo[p], 1, "lock")
        BY <2>1 DEF Earlier
    <2> QED BY <2>1, <2>2 DEF FlowsGuarded, Guarded, InMutex
<1>2. "free" \notin Process
    BY DEF Process
<1> QED BY <1>1, <1>2 DEF TypeOK, Carry, ReadStore, Lock, LockSync, Unlock,
        RemoveUserDeletedOrgUid, AddUserDeletedOrgUid, SetSubscribed, Create,
        GetSubscriptions, UnsubscribeStore, Erase, Wipe, ForgetStreak

LEMMA InitTypes == Init => TypeOK
<1> SUFFICES ASSUME Init PROVE TypeOK
    OBVIOUS
<1> USE SubscriptionConstants DEF Init
<1>1. todo \in [Process -> Seq(Call)]
    OBVIOUS
<1>2. used \in [requests : 0 .. MaxRequests, changes : 0 .. MaxChanges, faults : 0 .. MaxFaults]
    OBVIOUS
<1>3. streak \in 0 .. Grace + MaxFaults /\ offList \in 0 .. Grace /\ passes \in 0 .. Passes
    BY DEF Grace, Passes
<1>4. row \in {"none", "on", "off"} /\ data \subseteq Parts /\ dl \subseteq Stores /\ list \in Lists
    BY DEF Lists
<1> QED BY <1>1, <1>2, <1>3, <1>4 DEF TypeOK

\* The types, one by one, in the state a step leads to.
LEMMA TypesAfter ==
    ASSUME SweepInv',
           config' \in Configs, row' \in {"none", "on", "off"}, data' \subseteq Parts,
           dl' \subseteq Stores, suppressed' \in BOOLEAN, list' \in Lists,
           ready' \in BOOLEAN, streak' \in Nat, todo' \in [Process -> Seq(Call)],
           holder' \in Process \cup {"free"}, syncHeld' \in BOOLEAN, ticking' \in BOOLEAN,
           passes' \in 0 .. Passes, syncHeld' => holder' # "free", offList' \in 0 .. Grace,
           used' \in Bounds
    PROVE  TypeOK'
<1>1. used'.faults \in 0 .. MaxFaults
    BY DEF Bounds
<1>2. streak' \in 0 .. Grace + MaxFaults
    BY <1>1, SubscriptionConstants DEF SweepInv, Grace
<1> QED BY <1>2 DEF TypeOK, Bounds

LEMMA NextTypes ==
    ASSUME TypeOK, FlowsGuarded, SweepInv, [Next]_vars
    PROVE  TypeOK'
<1> USE DEF orgVars, govVars, flowVars
<1>1. todo' \in [Process -> Seq(Call)] /\ SweepInv'
    BY FlowTypes, NextSweep
<1>2. /\ config \in Configs /\ row \in {"none", "on", "off"} /\ data \subseteq Parts
      /\ dl \subseteq Stores /\ suppressed \in BOOLEAN /\ list \in Lists
      /\ ready \in BOOLEAN /\ holder \in Process \cup {"free"} /\ syncHeld \in BOOLEAN
      /\ ticking \in BOOLEAN /\ passes \in 0 .. Passes
      /\ (syncHeld => holder # "free") /\ offList \in 0 .. Grace /\ used \in Bounds
    BY DEF TypeOK, Bounds
<1>3. streak \in Nat
    BY StreakIsNat
<1>4. ASSUME NEW p \in Process, Carry(p) PROVE TypeOK'
    <2>1. /\ row' \in {"none", "on", "off"} /\ data' \subseteq Parts /\ dl' \subseteq Stores
          /\ suppressed' \in BOOLEAN /\ streak' \in Nat
          /\ holder' \in Process \cup {"free"} /\ syncHeld' \in BOOLEAN
          /\ UNCHANGED <<config, list, ready, ticking, passes, offList, used>>
        BY <1>4, CarryTypes
    <2>2. syncHeld' => holder' # "free"
        BY <1>4, SyncUnderMutex
    <2> QED BY <1>1, <1>2, <2>1, <2>2, TypesAfter
<1>5. ASSUME NEW p \in Process, Fail(p) PROVE TypeOK'
    <2>1. used' \in Bounds
        BY <1>5, Counted DEF Fail
    <2>2. streak' \in Nat
        BY <1>3, <1>5 DEF Fail
    <2>3. /\ holder' \in Process \cup {"free"} /\ syncHeld' \in BOOLEAN
          /\ (syncHeld' => holder' # "free")
          /\ UNCHANGED <<config, orgVars, dl, govVars, ticking, passes, offList>>
        BY <1>2, <1>5 DEF Fail
    <2> QED BY <1>1, <1>2, <2>1, <2>2, <2>3, TypesAfter
<1>6. ASSUME NEW p \in Process, FailUnsubscribe(p) PROVE TypeOK'
    <2>1. used' \in Bounds
        BY <1>6, Counted DEF FailUnsubscribe
    <2>2. UNCHANGED <<config, orgVars, dl, govVars, streak, holder, syncHeld, ticking,
                      passes, offList>>
        BY <1>6 DEF FailUnsubscribe
    <2> QED BY <1>1, <1>2, <1>3, <2>1, <2>2, TypesAfter
<1>7. CASE Crash
    <2>1. used' \in Bounds
        BY <1>7, Counted DEF Crash
    <2>2. /\ holder' = "free" /\ syncHeld' = FALSE /\ streak' = 0 /\ ready' = FALSE
          /\ ticking' = FALSE /\ passes' = Passes
          /\ UNCHANGED <<config, orgVars, dl, list, offList>>
        BY <1>7 DEF Crash
    <2>3. passes' \in 0 .. Passes
        BY <2>2 DEF Passes
    <2> QED BY <1>1, <1>2, <2>1, <2>2, <2>3, TypesAfter
<1>8. CASE Sweep
    <2>1. UNCHANGED <<config, orgVars, dl, govVars, holder, syncHeld, ticking, passes, used>>
        BY <1>8 DEF Sweep, SweepSpares, SweepUnsubscribes, SweepStillSubscribed,
           SweepCounts, EndSweep
    <2>2. streak' \in Nat
        BY <1>3, <1>8 DEF Sweep, SweepSpares, SweepUnsubscribes, SweepStillSubscribed,
           SweepCounts, EndSweep
    <2>3. offList' \in 0 .. Grace
        BY <1>2, <1>8 DEF Sweep, SweepSpares, SweepUnsubscribes, SweepStillSubscribed,
           SweepCounts, OffOrgList, Grace
    <2> QED BY <1>1, <1>2, <2>1, <2>2, <2>3, TypesAfter
<1>9. CASE StartDefault \/ StartValidate \/ StartMeta
    <2>1. passes' \in 0 .. Passes
        BY <1>2, <1>9 DEF StartDefault, StartValidate, StartMeta, Passes
    <2>2. UNCHANGED <<config, orgVars, dl, govVars, streak, holder, syncHeld, ticking,
                      offList, used>>
        BY <1>9 DEF StartDefault, StartValidate, StartMeta
    <2> QED BY <1>1, <1>2, <1>3, <2>1, <2>2, TypesAfter
<1>10. CASE \/ RequestImport \/ RequestSubscribe \/ RequestUnsubscribeV1
            \/ RequestUnsubscribeV2 \/ RequestUnsubscribeStores \/ RequestResync
            \/ RequestDelete
    <2>1. row' \in {"none", "on", "off"} /\ Request
        BY <1>2, <1>10 DEF RequestImport, RequestSubscribe, RequestUnsubscribeV1,
           RequestUnsubscribeV2, RequestUnsubscribeStores, RequestResync, RequestDelete
    <2>2. used' \in Bounds
        BY <2>1, Counted DEF Request
    <2>3. UNCHANGED <<config, data, suppressed, dl, govVars, streak, holder, syncHeld,
                      ticking, passes, offList>>
        BY <2>1 DEF Request
    <2> QED BY <1>1, <1>2, <1>3, <2>1, <2>2, <2>3, TypesAfter
<1>11. CASE ListUnchanged \/ ListChanges \/ ListMissing \/ ReadinessExpires
    <2>1. used' \in Bounds
        BY <1>2, <1>11, Counted DEF ListUnchanged, ListChanges, ListMissing, ReadinessExpires
    <2>2. list' \in Lists /\ ready' \in BOOLEAN
        BY <1>2, <1>11 DEF ListUnchanged, ListChanges, ListMissing, ReadinessExpires
    <2>3. UNCHANGED <<config, orgVars, dl, streak, flowVars, ticking, passes, offList>>
        BY <1>11 DEF ListUnchanged, ListChanges, ListMissing, ReadinessExpires
    <2> QED BY <1>1, <1>2, <1>3, <2>1, <2>2, <2>3, TypesAfter
<1>12. CASE StartTick \/ Ingest \/ TickEnds \/ UNCHANGED vars
    <2>1. ticking' \in BOOLEAN /\ data' \subseteq Parts
        BY <1>2, <1>12 DEF StartTick, Ingest, TickEnds, vars
    <2>2. UNCHANGED <<config, row, suppressed, dl, govVars, streak, flowVars, passes,
                      offList, used>>
        BY <1>12 DEF StartTick, Ingest, TickEnds, vars
    <2> QED BY <1>1, <1>2, <1>3, <2>1, <2>2, TypesAfter
<1> QED BY <1>4, <1>5, <1>6, <1>7, <1>8, <1>9, <1>10, <1>11, <1>12 DEF Next

LEMMA FlowsHold == Spec => [](TypeOK /\ FlowsGuarded /\ SweepInv)
<1>1. Init => FlowsGuarded
    <2>1. Only(<<>>, Plain)
        BY OnlyEmpty
    <2>2. Harmless(<<>>)
        BY <2>1, PlainIsHarmless
    <2> QED BY <2>2, HarmlessIsGuarded DEF Init, FlowsGuarded
<1>2. Init => SweepInv
    <2>1. \A call : ~ Has(<<>>, call)
        BY DEF Has
    <2> QED BY <2>1 DEF Init, SweepInv, Process, Grace
<1> QED BY InitTypes, NextTypes, NextGuarded, NextSweep, <1>1, <1>2, PTL DEF Spec

\* The variables keep their types; the streak is below the grace cycles but for
\* the purges that failed.
THEOREM TypeCorrect == Spec => []TypeOK
BY FlowsHold, PTL

-----------------------------------------------------------------------------
(* Rows *)

\* What the guarded flow of a process says of the call it makes.
LEMMA CallIsGuarded ==
    ASSUME TypeOK, FlowsGuarded, NEW p \in Process, todo[p] # <<>>,
           NEW c, c = Head(todo[p])
    PROVE  /\ c[1] = "create" => ~suppressed
           /\ c[1] = "suppress" => row = "none"
           /\ c[1] = "erase" /\ c[3] => data \ c[2] = {}
<1> DEFINE f == todo[p]
<1>1. f \in Seq(Call)
    BY DEF TypeOK
<1>2. c = f[1] /\ 1 \in 1 .. Len(f)
    BY <1>1
<1>3. Guarded(f, p, holder, suppressed, row, syncHeld, data)
    BY DEF FlowsGuarded
<1> HIDE DEF f
<1>4. c[1] = "create" => ~suppressed
    BY <1>2, <1>3 DEF Guarded, Admitted, Earlier
<1>5. c[1] = "suppress" => row = "none"
    BY <1>2, <1>3 DEF Guarded, RowGone
<1>6. c[1] = "erase" /\ c[3] => \A x \in Parts : x \in c[2] \/ x \notin data
    <2> SUFFICES ASSUME c[1] = "erase", c[3], NEW x \in Parts
                 PROVE  x \in c[2] \/ x \notin data
        OBVIOUS
    <2>1. \/ \E j \in 1 .. 1 : f[j][1] = "erase" /\ x \in f[j][2]
          \/ x \notin data
        BY <1>2, <1>3 DEF Guarded, DataGone
    <2> QED BY <1>2, <2>1
<1>7. data \subseteq Parts
    BY DEF TypeOK
<1> QED BY <1>4, <1>5, <1>6, <1>7

\* No row comes up for a deleted organization and no organization with a row is
\* put on the list of the deleted ones.
LEMMA NextDeleted ==
    ASSUME TypeOK, FlowsGuarded, DeletedHasNoRow, [Next]_vars
    PROVE  DeletedHasNoRow'
<1> USE DEF DeletedHasNoRow
<1>1. ASSUME NEW p \in Process, Carry(p) PROVE DeletedHasNoRow'
    <2>1. CASE Create(p)
        BY <2>1, CallIsGuarded DEF Create, At, Idle
    <2>2. CASE AddUserDeletedOrgUid(p)
        BY <2>2, CallIsGuarded DEF AddUserDeletedOrgUid, At, Idle
    <2>3. CASE ~Create(p) /\ ~AddUserDeletedOrgUid(p)
        BY <1>1, <2>3 DEF Carry, ReadStore, Lock, LockSync, Unlock, orgVars,
           RemoveUserDeletedOrgUid, SetSubscribed, GetSubscriptions,
           UnsubscribeStore, Erase, Wipe, ForgetStreak
    <2> QED BY <2>1, <2>2, <2>3
<1>2. ASSUME NEW p \in Process, Fail(p) \/ FailUnsubscribe(p) PROVE DeletedHasNoRow'
    BY <1>2 DEF Fail, FailUnsubscribe, orgVars
<1>3. CASE ~ \E p \in Process : Carry(p) \/ Fail(p) \/ FailUnsubscribe(p)
    BY <1>3 DEF Next, vars, orgVars, Crash, StartDefault, Sweep, SweepSpares,
       SweepUnsubscribes, SweepStillSubscribed, SweepCounts, EndSweep, StartValidate,
       StartMeta, RequestImport, RequestSubscribe, RequestUnsubscribeV1,
       RequestUnsubscribeV2, RequestUnsubscribeStores, RequestResync, RequestDelete,
       Request, ListUnchanged, ListChanges, ListMissing, ReadinessExpires, StartTick,
       Ingest, TickEnds
<1> QED BY <1>1, <1>2, <1>3

\* An organization the user deleted has no row, for any number of imports,
\* deletes and sweeps that overlap, fail or are cut off by a restart.
THEOREM DeletedStaysDeleted == Spec => []DeletedHasNoRow
<1>1. Init => DeletedHasNoRow
    BY DEF Init, DeletedHasNoRow
<1> QED BY <1>1, NextDeleted, FlowsHold, PTL DEF Spec

\* Only the last transaction of a delete or a purge takes a row.
LEMMA RowGoesByErase ==
    ASSUME TypeOK, [Next]_vars, row # "none", row' = "none"
    PROVE  \E p \in Process : Erase(p)
<1>1. ASSUME NEW p \in Process, Carry(p) PROVE Erase(p)
    BY <1>1 DEF Carry, ReadStore, Lock, LockSync, Unlock, orgVars, Create,
       RemoveUserDeletedOrgUid, AddUserDeletedOrgUid, SetSubscribed, GetSubscriptions,
       UnsubscribeStore, Wipe, ForgetStreak
<1>2. ASSUME NEW p \in Process, Fail(p) \/ FailUnsubscribe(p) PROVE FALSE
    BY <1>2 DEF Fail, FailUnsubscribe, orgVars
<1>3. CASE ~ \E p \in Process : Carry(p) \/ Fail(p) \/ FailUnsubscribe(p)
    BY <1>3 DEF Next, vars, orgVars, Crash, StartDefault, Sweep, SweepSpares,
       SweepUnsubscribes, SweepStillSubscribed, SweepCounts, EndSweep, StartValidate,
       StartMeta, RequestImport, RequestSubscribe, RequestUnsubscribeV1,
       RequestUnsubscribeV2, RequestUnsubscribeStores, RequestResync, RequestDelete,
       Request, ListUnchanged, ListChanges, ListMissing, ReadinessExpires, StartTick,
       Ingest, TickEnds
<1> QED BY <1>1, <1>2, <1>3

\* A row goes last, when nothing of the organization's data is left, and in the
\* background not before as many sweeps as the grace cycles have found it off a
\* vouched orgList, through any failures, restarts and changes of the list.
THEOREM RowsGoWhenDue == Spec => RemovalIsDue
<1>1. ASSUME TypeOK, FlowsGuarded, SweepInv, [Next]_vars, row # "none", row' = "none"
      PROVE  data' = {} /\ (At("default", "erase") => offList >= Grace)
    <2>1. PICK p \in Process : Erase(p)
        BY <1>1, RowGoesByErase
    <2> DEFINE c == Head(todo[p])
    <2>2. todo[p] # <<>> /\ c[1] = "erase" /\ c[3] /\ data' = data \ c[2]
        BY <2>1, <1>1 DEF Erase, At, Idle
    <2>3. data' = {}
        BY <2>2, <1>1, CallIsGuarded
    <2>4. ASSUME At("default", "erase") PROVE offList = Grace
        <3>1. /\ todo["default"] \in Seq(Call) /\ todo["default"] # <<>>
              /\ Head(todo["default"])[1] = "erase"
            BY <1>1, <2>4 DEF TypeOK, Process, At, Idle
        <3>2. Has(todo["default"], "erase")
            BY <3>1, HasHead
        <3> QED BY <1>1, <3>2 DEF SweepInv
    <2> QED BY <2>3, <2>4 DEF Grace
<1>2. TypeOK /\ FlowsGuarded /\ SweepInv /\ [Next]_vars =>
        [row # "none" /\ row' = "none" =>
             data' = {} /\ (At("default", "erase") => offList >= Grace)]_vars
    BY <1>1
<1> QED BY <1>2, FlowsHold, PTL DEF Spec, RemovalIsDue
=============================================================================
