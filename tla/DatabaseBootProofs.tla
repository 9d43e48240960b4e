-------------------------- MODULE DatabaseBootProofs --------------------------
(***************************************************************************)
(* Proofs about DatabaseBoot, for any number of restarts.                  *)
(***************************************************************************)
EXTENDS DatabaseBoot, TLAPS, FiniteSetTheorems, SequenceTheorems, WellFoundedInduction

-----------------------------------------------------------------------------
(* The least number of a set *)

LEMMA LeastNat ==
    ASSUME NEW S \in SUBSET Nat, S # {}
    PROVE  \E x \in S : \A y \in S : x <= y
<1>1. IsWellFoundedOn(OpToRel(<, Nat), Nat)
    BY NatLessThanWellFounded, Zenon
<1>2. PICK x \in S : \A y \in S : ~ (<<y, x>> \in OpToRel(<, Nat))
    BY <1>1, WFMin, Zenon
<1>3. \A y \in S : ~ (y < x)
    BY <1>2 DEF OpToRel
<1> QED BY <1>3

LEMMA MinOf ==
    ASSUME NEW S \in SUBSET Nat, S # {}
    PROVE  Min(S) \in S /\ \A y \in S : Min(S) <= y
BY LeastNat DEF Min

-----------------------------------------------------------------------------
(* The statements of the migrations *)

SearchTablesV1 == {"projects_fts", "units_fts"}
TableNamed(t) == <<"table", t, t>>

\* What the proofs rely on: a new table has its own columns; only search tables
\* are dropped, and a mirror's governance; a table is built anew for a column.
Sound(s) ==
    /\ s = [do |-> s.do, what |-> s.what, cols |-> s.cols, old |-> s.old, mode |-> s.mode, on |-> s.on]
    /\ s.do \in {"createIfMissing", "create", "drop", "dropIfThere", "rebuild", "ensure", "data"}
    /\ s.mode \in {"await", "caught", "ifMissing", "all", "last", "loose"}
    /\ s.on \subseteq Dialects
    /\ \A c \in s.cols : c[1] = "column" /\ c[2] = s.what[2]
    /\ s.do = "createIfMissing" => s.what = <<"table", s.what[2], s.what[2]>>
    /\ s.do \in {"rebuild", "ensure"} => s.what[1] = "column"
    /\ s.do = "ensure" => s.old[1] = "column"
    /\ s.do \in {"drop", "dropIfThere"} /\ s.what[1] = "table" =>
          s.what[2] \in SearchTablesV1 \/ (s.what[2] = "governance" /\ s.on = {"mysql"})

LEMMA CreateStmt ==
    ASSUME NEW t, NEW n
    PROVE  /\ Sound(Table(t)) /\ Sound(Virtual(t)) /\ Sound(Trigger(t, n))
           /\ Sound(Column(t, n)) /\ Sound(Index(t, n))
BY DEF Table, Virtual, Trigger, Column, Index, Statement, Dialects, Sound

LEMMA TableOfStmt ==
    ASSUME NEW t, NEW cs
    PROVE  /\ Sound(TableOf(t, cs))
           /\ TableOf(t, cs).do = "createIfMissing" /\ TableOf(t, cs).what = <<"table", t, t>>
           /\ TableOf(t, cs).mode = "await" /\ TableOf(t, cs).on = Dialects
<1>1. PICK s : s = Table(t)
    OBVIOUS
<1>2. s = [do |-> "createIfMissing", what |-> <<"table", t, t>>, cols |-> {}, old |-> <<>>,
           mode |-> "await", on |-> Dialects]
    BY <1>1 DEF Table, Statement
<1>3. PICK X : X = {<<"column", t, c>> : c \in cs}
    OBVIOUS
<1>4. TableOf(t, cs) = [s EXCEPT !.cols = X]
    BY <1>1, <1>3 DEF TableOf
<1>5. TableOf(t, cs) = [do |-> "createIfMissing", what |-> <<"table", t, t>>, cols |-> X, old |-> <<>>,
                        mode |-> "await", on |-> Dialects]
    BY <1>2, <1>4
<1>6. \A c \in X : c[1] = "column" /\ c[2] = t
    BY <1>3
<1> QED BY <1>5, <1>6 DEF Sound

LEMMA DropStmt ==
    ASSUME NEW t, NEW n
    PROVE  /\ t \in SearchTablesV1 => Sound(Drop(t)) /\ Sound(DropRaw(t))
           /\ Sound(DropTrigger(t, n)) /\ Sound(DropColumn(t, n)) /\ Sound(DropIndex(t, n))
           /\ Sound(Data(t))
BY DEF Drop, DropRaw, DropTrigger, DropColumn, DropIndex, Data, Statement, Dialects, SearchTablesV1, Sound

LEMMA EnsureStmt ==
    ASSUME NEW t, NEW o, NEW n
    PROVE  /\ Sound(Ensure(t, o, n))
           /\ Ensure(t, o, n).do = "ensure" /\ Ensure(t, o, n).what = <<"column", t, n>>
           /\ Ensure(t, o, n).mode = "await" /\ Ensure(t, o, n).on = Dialects
<1>1. PICK s : s = Statement("ensure", "column", t, n)
    OBVIOUS
<1>2. /\ s = [do |-> "ensure", what |-> <<"column", t, n>>, cols |-> {}, old |-> <<>>, mode |-> "await",
              on |-> Dialects]
    BY <1>1 DEF Statement
<1>3. Ensure(t, o, n) = [s EXCEPT !.old = <<"column", t, o>>]
    BY <1>1 DEF Ensure
<1>4. Ensure(t, o, n) = [do |-> "ensure", what |-> <<"column", t, n>>, cols |-> {},
                         old |-> <<"column", t, o>>, mode |-> "await", on |-> Dialects]
    BY <1>2, <1>3
<1> QED BY <1>4 DEF Sound

LEMMA ModifiedStmt ==
    ASSUME NEW s, Sound(s), s.on = Dialects
    PROVE  /\ Sound(Sqlite(s)) /\ Sound(Caught(s)) /\ Sound(IfMissing(s)) /\ Sound(Loose(s))
           /\ \A m \in {Sqlite(s), Caught(s), IfMissing(s), Loose(s)} : m.do = s.do /\ m.what = s.what
           /\ Sqlite(s).mode = s.mode /\ Sqlite(s).on = {"sqlite"}
           /\ Caught(s).mode = "caught" /\ IfMissing(s).mode = "ifMissing" /\ Loose(s).mode = "loose"
           /\ \A m \in {Caught(s), IfMissing(s), Loose(s)} : m.on = Dialects
<1>1. ASSUME NEW r, NEW m \in {"caught", "ifMissing", "loose"}, r = [s EXCEPT !.mode = m]
      PROVE  Sound(r) /\ r.do = s.do /\ r.what = s.what /\ r.mode = m /\ r.on = Dialects
  <2>1. /\ r.do = s.do /\ r.what = s.what /\ r.cols = s.cols /\ r.old = s.old /\ r.mode = m /\ r.on = s.on
        /\ r = [do |-> r.do, what |-> r.what, cols |-> r.cols, old |-> r.old, mode |-> r.mode, on |-> r.on]
    BY <1>1 DEF Sound
  <2> QED BY <2>1 DEF Sound
<1>2. Sound(Sqlite(s)) /\ Sqlite(s).do = s.do /\ Sqlite(s).what = s.what /\ Sqlite(s).mode = s.mode
      /\ Sqlite(s).on = {"sqlite"}
  <2>1. PICK r : r = Sqlite(s)
    OBVIOUS
  <2>2. /\ r.do = s.do /\ r.what = s.what /\ r.cols = s.cols /\ r.old = s.old /\ r.mode = s.mode /\ r.on = {"sqlite"}
        /\ r = [do |-> r.do, what |-> r.what, cols |-> r.cols, old |-> r.old, mode |-> r.mode, on |-> r.on]
    BY <2>1 DEF Sqlite, Sound
  <2>3. s.on # {"mysql"}
    BY DEF Dialects
  <2> QED BY <2>1, <2>2, <2>3 DEF Sound, Dialects
<1>3. /\ Caught(s) = [s EXCEPT !.mode = "caught"] /\ IfMissing(s) = [s EXCEPT !.mode = "ifMissing"]
      /\ Loose(s) = [s EXCEPT !.mode = "loose"]
    BY DEF Caught, IfMissing, Loose
<1>4. /\ Sound(Caught(s)) /\ Caught(s).do = s.do /\ Caught(s).what = s.what
      /\ Caught(s).mode = "caught" /\ Caught(s).on = Dialects
    BY <1>1, <1>3
<1>5. /\ Sound(IfMissing(s)) /\ IfMissing(s).do = s.do /\ IfMissing(s).what = s.what
      /\ IfMissing(s).mode = "ifMissing" /\ IfMissing(s).on = Dialects
    BY <1>1, <1>3
<1>6. /\ Sound(Loose(s)) /\ Loose(s).do = s.do /\ Loose(s).what = s.what
      /\ Loose(s).mode = "loose" /\ Loose(s).on = Dialects
    BY <1>1, <1>3
<1> QED BY <1>2, <1>4, <1>5, <1>6

IsSeq(ns) == \E N : ns \in Seq(N)

LEMMA IndexesSeq ==
    ASSUME NEW t, NEW ns, IsSeq(ns)
    PROVE  /\ IsSeq(Indexes(t, ns)) /\ Len(Indexes(t, ns)) = Len(ns)
           /\ \A j \in 1 .. Len(ns) : Indexes(t, ns)[j] = Index(t, ns[j])
<1>1. PICK N : ns \in Seq(N)
    BY DEF IsSeq
<1>2. Indexes(t, ns) = [j \in 1 .. Len(ns) |-> Index(t, ns[j])] /\ Len(ns) \in Nat
    BY <1>1 DEF Indexes
<1> DEFINE T == {Index(t, n) : n \in N}
<1>3. \A j \in 1 .. Len(ns) : Index(t, ns[j]) \in T
    BY <1>1
<1>4. [j \in 1 .. Len(ns) |-> Index(t, ns[j])] \in Seq(T)
    BY <1>3, <1>2
<1>5. IsSeq(Indexes(t, ns))
    BY <1>2, <1>4 DEF IsSeq
<1> QED BY <1>2, <1>5

LEMMA Tuples ==
    ASSUME NEW a, NEW b, NEW c, NEW d, NEW e, NEW f, NEW g, NEW h, NEW i, NEW j
    PROVE  /\ IsSeq(<<a>>) /\ IsSeq(<<a, b>>) /\ IsSeq(<<a, b, c>>) /\ IsSeq(<<a, b, c, d>>)
           /\ IsSeq(<<a, b, c, d, e>>) /\ IsSeq(<<a, b, c, d, e, f>>) /\ IsSeq(<<a, b, c, d, e, f, g>>)
           /\ IsSeq(<<a, b, c, d, e, f, g, h>>) /\ IsSeq(<<a, b, c, d, e, f, g, h, i>>)
           /\ IsSeq(<<a, b, c, d, e, f, g, h, i, j>>)
<1> DEFINE S == {a, b, c, d, e, f, g, h, i, j}
<1>1. /\ <<a>> \in Seq(S) /\ <<a, b>> \in Seq(S) /\ <<a, b, c>> \in Seq(S) /\ <<a, b, c, d>> \in Seq(S)
      /\ <<a, b, c, d, e>> \in Seq(S) /\ <<a, b, c, d, e, f>> \in Seq(S) /\ <<a, b, c, d, e, f, g>> \in Seq(S)
      /\ <<a, b, c, d, e, f, g, h>> \in Seq(S) /\ <<a, b, c, d, e, f, g, h, i>> \in Seq(S)
      /\ <<a, b, c, d, e, f, g, h, i, j>> \in Seq(S)
    OBVIOUS
<1> QED BY <1>1, Zenon DEF IsSeq

LEMMA MapSeq ==
    ASSUME NEW ss, IsSeq(ss), NEW ys, DOMAIN ys = DOMAIN ss, ys = [j \in DOMAIN ss |-> ys[j]]
    PROVE  IsSeq(ys) /\ Len(ys) = Len(ss) /\ Len(ss) \in Nat /\ DOMAIN ss = 1 .. Len(ss)
<1>1. Len(ss) \in Nat /\ DOMAIN ss = 1 .. Len(ss)
    BY DEF IsSeq
<1> DEFINE T == {ys[j] : j \in 1 .. Len(ss)}
<1>2. \A j \in 1 .. Len(ss) : ys[j] \in T
    OBVIOUS
<1>3. [j \in 1 .. Len(ss) |-> ys[j]] \in Seq(T)
    BY <1>1, <1>2
<1>4. IsSeq(ys)
    BY <1>1, <1>3 DEF IsSeq
<1> QED BY <1>1, <1>4

LEMMA EachIs ==
    ASSUME NEW ss, IsSeq(ss), NEW ys
    PROVE  /\ ys = Each(Caught, ss) =>
              IsSeq(ys) /\ Len(ys) = Len(ss) /\ \A j \in 1 .. Len(ss) : ys[j] = Caught(ss[j])
           /\ ys = Each(IfMissing, ss) =>
              IsSeq(ys) /\ Len(ys) = Len(ss) /\ \A j \in 1 .. Len(ss) : ys[j] = IfMissing(ss[j])
           /\ ys = Each(Sqlite, ss) =>
              IsSeq(ys) /\ Len(ys) = Len(ss) /\ \A j \in 1 .. Len(ss) : ys[j] = Sqlite(ss[j])
           /\ ys = Each(Loose, ss) =>
              IsSeq(ys) /\ Len(ys) = Len(ss) /\ \A j \in 1 .. Len(ss) : ys[j] = Loose(ss[j])
           /\ ys = Each(Data, ss) =>
              IsSeq(ys) /\ Len(ys) = Len(ss) /\ \A j \in 1 .. Len(ss) : ys[j] = Data(ss[j])
<1>1. Len(ss) \in Nat /\ DOMAIN ss = 1 .. Len(ss)
    BY DEF IsSeq
<1>2. ASSUME ys = Each(Caught, ss)
      PROVE  IsSeq(ys) /\ Len(ys) = Len(ss) /\ \A j \in 1 .. Len(ss) : ys[j] = Caught(ss[j])
    BY <1>1, <1>2, MapSeq DEF Each
<1>3. ASSUME ys = Each(IfMissing, ss)
      PROVE  IsSeq(ys) /\ Len(ys) = Len(ss) /\ \A j \in 1 .. Len(ss) : ys[j] = IfMissing(ss[j])
    BY <1>1, <1>3, MapSeq DEF Each
<1>4. ASSUME ys = Each(Sqlite, ss)
      PROVE  IsSeq(ys) /\ Len(ys) = Len(ss) /\ \A j \in 1 .. Len(ss) : ys[j] = Sqlite(ss[j])
    BY <1>1, <1>4, MapSeq DEF Each
<1>5. ASSUME ys = Each(Loose, ss)
      PROVE  IsSeq(ys) /\ Len(ys) = Len(ss) /\ \A j \in 1 .. Len(ss) : ys[j] = Loose(ss[j])
    BY <1>1, <1>5, MapSeq DEF Each
<1>6. ASSUME ys = Each(Data, ss)
      PROVE  IsSeq(ys) /\ Len(ys) = Len(ss) /\ \A j \in 1 .. Len(ss) : ys[j] = Data(ss[j])
    BY <1>1, <1>6, MapSeq DEF Each
<1> QED BY <1>2, <1>3, <1>4, <1>5, <1>6

LEMMA EachSeq ==
    ASSUME NEW ss, IsSeq(ss)
    PROVE  /\ Len(ss) \in Nat
           /\ /\ IsSeq(Each(Caught, ss)) /\ Len(Each(Caught, ss)) = Len(ss)
              /\ \A j \in 1 .. Len(ss) : Each(Caught, ss)[j] = Caught(ss[j])
           /\ /\ IsSeq(Each(IfMissing, ss)) /\ Len(Each(IfMissing, ss)) = Len(ss)
              /\ \A j \in 1 .. Len(ss) : Each(IfMissing, ss)[j] = IfMissing(ss[j])
           /\ /\ IsSeq(Each(Sqlite, ss)) /\ Len(Each(Sqlite, ss)) = Len(ss)
              /\ \A j \in 1 .. Len(ss) : Each(Sqlite, ss)[j] = Sqlite(ss[j])
           /\ /\ IsSeq(Each(Loose, ss)) /\ Len(Each(Loose, ss)) = Len(ss)
              /\ \A j \in 1 .. Len(ss) : Each(Loose, ss)[j] = Loose(ss[j])
           /\ /\ IsSeq(Each(Data, ss)) /\ Len(Each(Data, ss)) = Len(ss)
              /\ \A j \in 1 .. Len(ss) : Each(Data, ss)[j] = Data(ss[j])
<1>1. Len(ss) \in Nat /\ DOMAIN ss = 1 .. Len(ss)
    BY DEF IsSeq
<1>2. ASSUME NEW ys, ys = Each(Caught, ss)
      PROVE  IsSeq(ys) /\ Len(ys) = Len(ss) /\ \A j \in 1 .. Len(ss) : ys[j] = Caught(ss[j])
    BY <1>1, <1>2, MapSeq DEF Each
<1>3. ASSUME NEW ys, ys = Each(IfMissing, ss)
      PROVE  IsSeq(ys) /\ Len(ys) = Len(ss) /\ \A j \in 1 .. Len(ss) : ys[j] = IfMissing(ss[j])
    BY <1>1, <1>3, MapSeq DEF Each
<1>4. ASSUME NEW ys, ys = Each(Sqlite, ss)
      PROVE  IsSeq(ys) /\ Len(ys) = Len(ss) /\ \A j \in 1 .. Len(ss) : ys[j] = Sqlite(ss[j])
    BY <1>1, <1>4, MapSeq DEF Each
<1>5. ASSUME NEW ys, ys = Each(Loose, ss)
      PROVE  IsSeq(ys) /\ Len(ys) = Len(ss) /\ \A j \in 1 .. Len(ss) : ys[j] = Loose(ss[j])
    BY <1>1, <1>5, MapSeq DEF Each
<1>6. ASSUME NEW ys, ys = Each(Data, ss)
      PROVE  IsSeq(ys) /\ Len(ys) = Len(ss) /\ \A j \in 1 .. Len(ss) : ys[j] = Data(ss[j])
    BY <1>1, <1>6, MapSeq DEF Each
<1> QED BY <1>1, <1>2, <1>3, <1>4, <1>5, <1>6

LEMMA ConcatSeq ==
    ASSUME NEW s, NEW t, IsSeq(s), IsSeq(t)
    PROVE  /\ IsSeq(s \o t) /\ Len(s \o t) = Len(s) + Len(t)
           /\ Len(s) \in Nat /\ Len(t) \in Nat
           /\ \A j \in 1 .. Len(s) + Len(t) : (s \o t)[j] = IF j <= Len(s) THEN s[j] ELSE t[j - Len(s)]
<1>1. PICK S : s \in Seq(S)
    BY DEF IsSeq
<1>2. PICK T : t \in Seq(T)
    BY DEF IsSeq
<1> DEFINE U == S \cup T
<1>3. s \in Seq(U) /\ t \in Seq(U)
    BY <1>1, <1>2
<1> HIDE DEF U
<1>4. /\ s \o t \in Seq(U) /\ Len(s \o t) = Len(s) + Len(t)
      /\ \A j \in 1 .. Len(s) + Len(t) : (s \o t)[j] = IF j <= Len(s) THEN s[j] ELSE t[j - Len(s)]
    BY <1>3, ConcatProperties, Zenon
<1> QED BY <1>3, <1>4 DEF IsSeq

\* A migration that creates a table and then its indexes.
Opening(ss, t, on) ==
    /\ IsSeq(ss) /\ Len(ss) \in Nat \ {0}
    /\ \A j \in 1 .. Len(ss) : Sound(ss[j])
    /\ ss[1].do = "createIfMissing" /\ ss[1].what = <<"table", t, t>> /\ ss[1].mode = "await" /\ ss[1].on = on
    /\ \A j \in 2 .. Len(ss) :
         /\ ss[j].do = "create" /\ ss[j].mode \in {"await", "caught"} /\ ss[j].on = Dialects
         /\ ss[j].what[1] = "index" /\ ss[j].what[2] = t

LEMMA OpeningTable ==
    ASSUME NEW t, NEW cs
    PROVE  /\ Opening(<<Table(t)>>, t, Dialects) /\ Opening(<<Sqlite(Table(t))>>, t, {"sqlite"})
           /\ Opening(<<TableOf(t, cs)>>, t, Dialects)
<1>1. PICK s : s = Table(t)
    OBVIOUS
<1>2. Sound(s) /\ s.do = "createIfMissing" /\ s.what = <<"table", t, t>> /\ s.mode = "await" /\ s.on = Dialects
    BY <1>1, CreateStmt, Zenon DEF Table, Statement
<1>3. /\ Sound(Sqlite(s)) /\ Sqlite(s).do = "createIfMissing" /\ Sqlite(s).what = <<"table", t, t>>
      /\ Sqlite(s).mode = "await" /\ Sqlite(s).on = {"sqlite"}
    BY <1>2, ModifiedStmt
<1>4. ASSUME NEW r PROVE IsSeq(<<r>>) /\ Len(<<r>>) = 1 /\ <<r>>[1] = r
    BY Tuples
<1>5. Opening(<<s>>, t, Dialects)
    BY <1>2, <1>4 DEF Opening
<1>6. Opening(<<Sqlite(s)>>, t, {"sqlite"})
    BY <1>3, <1>4 DEF Opening
<1>7. PICK r : r = TableOf(t, cs)
    OBVIOUS
<1>8. Sound(r) /\ r.do = "createIfMissing" /\ r.what = <<"table", t, t>> /\ r.mode = "await" /\ r.on = Dialects
    BY <1>7, TableOfStmt
<1>9. Opening(<<r>>, t, Dialects)
    BY <1>4, <1>8 DEF Opening
<1> QED BY <1>1, <1>5, <1>6, <1>7, <1>9

LEMMA OpeningIndexes ==
    ASSUME NEW t, NEW cs, NEW ns, IsSeq(ns),
           NEW s, s = Table(t) \/ s = TableOf(t, cs)
    PROVE  Opening(<<s>> \o Indexes(t, ns), t, Dialects)
<1>1. Sound(s) /\ IsSeq(<<s>>) /\ Len(<<s>>) = 1 /\ <<s>>[1] = s
    BY CreateStmt, TableOfStmt, Tuples
<1> DEFINE xs == Indexes(t, ns)
           ss == <<s>> \o xs
<1>2. IsSeq(xs) /\ Len(xs) = Len(ns) /\ Len(ns) \in Nat /\ \A j \in 1 .. Len(ns) : xs[j] = Index(t, ns[j])
    BY IndexesSeq, ConcatSeq
<1> HIDE DEF xs
<1>3. /\ IsSeq(ss) /\ Len(ss) = 1 + Len(ns)
      /\ \A j \in 1 .. 1 + Len(ns) : ss[j] = IF j <= 1 THEN <<s>>[j] ELSE xs[j - 1]
    BY <1>1, <1>2, ConcatSeq
<1> HIDE DEF ss
<1>4. ASSUME NEW j \in 2 .. Len(ss) PROVE ss[j] = Index(t, ns[j - 1])
    BY <1>2, <1>3
<1>5. ASSUME NEW n PROVE Sound(Index(t, n)) /\ Index(t, n).do = "create" /\ Index(t, n).mode = "await"
                         /\ Index(t, n).on = Dialects /\ Index(t, n).what[1] = "index" /\ Index(t, n).what[2] = t
    BY CreateStmt, Zenon DEF Index, Statement
<1>6. s.do = "createIfMissing" /\ s.what = <<"table", t, t>> /\ s.mode = "await" /\ s.on = Dialects
  <2>1. /\ Table(t).do = "createIfMissing" /\ Table(t).what = <<"table", t, t>>
        /\ Table(t).mode = "await" /\ Table(t).on = Dialects
    BY DEF Table, Statement
  <2> QED BY <2>1, TableOfStmt
<1>7. ss[1] = s
    BY <1>1, <1>2, <1>3
<1>8. \A j \in 1 .. Len(ss) : j = 1 \/ j \in 2 .. Len(ss)
    BY <1>2, <1>3
<1>9. \A j \in 1 .. Len(ss) : Sound(ss[j])
    BY <1>1, <1>4, <1>5, <1>7, <1>8
<1>10. Len(ss) \in Nat \ {0}
    BY <1>2, <1>3
<1>11. Opening(ss, t, Dialects)
    BY <1>3, <1>4, <1>5, <1>6, <1>7, <1>9, <1>10 DEF Opening
<1> QED BY <1>11 DEF ss, xs

LEMMA OpeningCaught ==
    ASSUME NEW t, NEW ns, IsSeq(ns)
    PROVE  Opening(<<Table(t)>> \o Each(Caught, Indexes(t, ns)), t, Dialects)
<1>1. PICK s : s = Table(t)
    OBVIOUS
<1>2. /\ Sound(s) /\ s.do = "createIfMissing" /\ s.what = <<"table", t, t>> /\ s.mode = "await" /\ s.on = Dialects
      /\ IsSeq(<<s>>) /\ Len(<<s>>) = 1 /\ <<s>>[1] = s
    BY <1>1, CreateStmt, Tuples, Zenon DEF Table, Statement
<1> DEFINE xs == Indexes(t, ns)
           ys == Each(Caught, xs)
           ss == <<s>> \o ys
<1>3. IsSeq(xs) /\ Len(xs) = Len(ns) /\ Len(ns) \in Nat /\ \A j \in 1 .. Len(ns) : xs[j] = Index(t, ns[j])
    BY IndexesSeq, ConcatSeq
<1> HIDE DEF xs
<1>4. IsSeq(ys) /\ Len(ys) = Len(ns) /\ \A j \in 1 .. Len(ns) : ys[j] = Caught(xs[j])
    BY <1>3, EachSeq
<1> HIDE DEF ys
<1>5. /\ IsSeq(ss) /\ Len(ss) = 1 + Len(ns)
      /\ \A j \in 1 .. 1 + Len(ns) : ss[j] = IF j <= 1 THEN <<s>>[j] ELSE ys[j - 1]
    BY <1>2, <1>3, <1>4, ConcatSeq
<1> HIDE DEF ss
<1>6. ASSUME NEW j \in 2 .. Len(ss) PROVE ss[j] = Caught(Index(t, ns[j - 1]))
    BY <1>3, <1>4, <1>5
<1>7. ASSUME NEW n
      PROVE  /\ Sound(Caught(Index(t, n))) /\ Caught(Index(t, n)).do = "create"
             /\ Caught(Index(t, n)).mode = "caught" /\ Caught(Index(t, n)).on = Dialects
             /\ Caught(Index(t, n)).what[1] = "index" /\ Caught(Index(t, n)).what[2] = t
  <2>1. PICK x : x = Index(t, n)
    OBVIOUS
  <2>2. Sound(x) /\ x.do = "create" /\ x.on = Dialects /\ x.what = <<"index", t, n>>
    BY <2>1, CreateStmt, Zenon DEF Index, Statement
  <2>3. Sound(Caught(x)) /\ Caught(x).do = "create" /\ Caught(x).what = <<"index", t, n>>
        /\ Caught(x).mode = "caught" /\ Caught(x).on = Dialects
    BY <2>2, ModifiedStmt
  <2> QED BY <2>1, <2>3
<1>8. ss[1] = s
    BY <1>2, <1>3, <1>5
<1>9. \A j \in 1 .. Len(ss) : j = 1 \/ j \in 2 .. Len(ss)
    BY <1>3, <1>5
<1>10. \A j \in 1 .. Len(ss) : Sound(ss[j])
    BY <1>2, <1>6, <1>7, <1>8, <1>9
<1>11. Len(ss) \in Nat \ {0}
    BY <1>3, <1>5
<1>12. Opening(ss, t, Dialects)
    BY <1>2, <1>5, <1>6, <1>7, <1>8, <1>10, <1>11 DEF Opening
<1> QED BY <1>1, <1>12 DEF ss, ys, xs

\* The tables that V2's first 28 migrations create.
Opened ==
    <<"staging", "audit", "organizations", "meta", "governance", "simulator",
      "methodology", "program", "project", "validation", "verification",
      "issuance", "unit", "location", "estimation", "rating", "co_benefit",
      "project_methodology", "stakeholder", "stakeholder_projects", "label",
      "unit_label", "aef_t1_submission", "aef_t5_authorized_entities",
      "aef_t2_authorizations", "aef_t3_actions", "aef_t4_holdings",
      "file_store">>

LEMMA OpenedV2 == \A i \in 1 .. 28 : Opening(V2Ups[i], Opened[i], IF i = 5 THEN {"sqlite"} ELSE Dialects)
<1>1. Opening(CreateStagingV2, "staging", Dialects)
    BY OpeningTable DEF CreateStagingV2
<1>2. Opening(CreateAuditV2, "audit", Dialects)
    BY OpeningTable DEF CreateAuditV2
<1>3. Opening(CreateOrganizationsV2, "organizations", Dialects)
    BY OpeningTable DEF CreateOrganizationsV2
<1>4. Opening(CreateMetaV2, "meta", Dialects)
    BY OpeningTable DEF CreateMetaV2
<1>5. Opening(CreateGovernanceV2, "governance", {"sqlite"})
    BY OpeningTable DEF CreateGovernanceV2
<1>6. Opening(CreateSimulatorV2, "simulator", Dialects)
    BY OpeningTable DEF CreateSimulatorV2
<1>7. Opening(CreateMethodologyV2, "methodology", Dialects)
    BY OpeningTable DEF CreateMethodologyV2
<1>8. Opening(CreateProgramV2, "program", Dialects)
    BY OpeningIndexes, Tuples DEF CreateProgramV2
<1>9. Opening(CreateProjectV2, "project", Dialects)
    BY OpeningIndexes, Tuples DEF CreateProjectV2
<1>10. Opening(CreateValidationV2, "validation", Dialects)
    BY OpeningIndexes, Tuples DEF CreateValidationV2
<1>11. Opening(CreateVerificationV2, "verification", Dialects)
    BY OpeningIndexes, Tuples DEF CreateVerificationV2
<1>12. Opening(CreateIssuanceV2, "issuance", Dialects)
    BY OpeningIndexes, Tuples DEF CreateIssuanceV2
<1>13. Opening(CreateUnitV2, "unit", Dialects)
    BY OpeningIndexes, Tuples DEF CreateUnitV2
<1>14. Opening(CreateLocationV2, "location", Dialects)
    BY OpeningTable DEF CreateLocationV2
<1>15. Opening(CreateEstimationV2, "estimation", Dialects)
    BY OpeningIndexes, Tuples DEF CreateEstimationV2
<1>16. Opening(CreateRatingV2, "rating", Dialects)
    BY OpeningIndexes, Tuples DEF CreateRatingV2
<1>17. Opening(CreateCoBenefitV2, "co_benefit", Dialects)
    BY OpeningIndexes, Tuples DEF CreateCoBenefitV2
<1>18. Opening(CreateProjectMethodologyV2, "project_methodology", Dialects)
    BY OpeningIndexes, Tuples DEF CreateProjectMethodologyV2
<1>19. Opening(CreateStakeholderV2, "stakeholder", Dialects)
    BY OpeningIndexes, Tuples DEF CreateStakeholderV2
<1>20. Opening(CreateStakeholderProjectsV2, "stakeholder_projects", Dialects)
    BY OpeningIndexes, Tuples DEF CreateStakeholderProjectsV2
<1>21. Opening(CreateLabelV2, "label", Dialects)
    BY OpeningIndexes, Tuples DEF CreateLabelV2
<1>22. Opening(CreateUnitLabelV2, "unit_label", Dialects)
    BY OpeningIndexes, Tuples DEF CreateUnitLabelV2
<1>23. Opening(CreateAefT1SubmissionV2, "aef_t1_submission", Dialects)
    BY OpeningIndexes, Tuples DEF CreateAefT1SubmissionV2
<1>24. Opening(CreateAefT5AuthorizedEntitiesV2, "aef_t5_authorized_entities", Dialects)
    BY OpeningCaught, Tuples DEF CreateAefT5AuthorizedEntitiesV2
<1>25. Opening(CreateAefT2AuthorizationsV2, "aef_t2_authorizations", Dialects)
    BY OpeningCaught, Tuples DEF CreateAefT2AuthorizationsV2
<1>26. Opening(CreateAefT3ActionsV2, "aef_t3_actions", Dialects)
    BY OpeningIndexes, Tuples DEF CreateAefT3ActionsV2
<1>27. Opening(CreateAefT4HoldingsV2, "aef_t4_holdings", Dialects)
    BY OpeningIndexes, Tuples DEF CreateAefT4HoldingsV2
<1>28. Opening(CreateFilestoreV2, "file_store", Dialects)
    BY OpeningTable DEF CreateFilestoreV2
<1>29. ASSUME NEW i \in 1 .. 28 PROVE Opening(V2Ups[i], Opened[i], IF i = 5 THEN {"sqlite"} ELSE Dialects)
    BY <1>1, <1>2, <1>3, <1>4, <1>5, <1>6, <1>7, <1>8, <1>9, <1>10, <1>11, <1>12, <1>13, <1>14, <1>15, <1>16, <1>17, <1>18, <1>19, <1>20, <1>21, <1>22, <1>23, <1>24, <1>25, <1>26, <1>27, <1>28 DEF V2Ups, Opened
<1> QED BY <1>29

IsOpened(t) == \E i \in 1 .. 28 : Opened[i] = t

\* A statement of V2's last nine migrations.
Later(s) ==
    /\ Sound(s)
    /\ s.do \in {"create", "ensure", "dropIfThere", "data"}
    /\ s.mode \in {"await", "caught", "ifMissing"}
    /\ s.do = "create" => s.what[1] \in {"column", "index"}
    /\ s.do = "ensure" => s.what[2] \notin {"project", "unit"}
    /\ s.do = "dropIfThere" => s.what[1] = "index" \/ s.on = {"mysql"}
    /\ IsOpened(s.what[2])

LEMMA OpenedNames ==
    /\ IsOpened("issuance") /\ IsOpened("aef_t5_authorized_entities")
    /\ IsOpened("aef_t2_authorizations") /\ IsOpened("governance") /\ IsOpened("methodology")
    /\ IsOpened("program") /\ IsOpened("stakeholder") /\ IsOpened("label")
    /\ IsOpened("aef_t1_submission") /\ IsOpened("audit") /\ IsOpened("aef_t3_actions")
    /\ IsOpened("aef_t4_holdings") /\ IsOpened("staging") /\ IsOpened("project") /\ IsOpened("unit")
    /\ \A i \in 1 .. 14 : IsOpened(CreatedByTables[i])
BY DEF Opened, IsOpened, CreatedByTables

LEMMA LaterStatements ==
    ASSUME NEW t, NEW n, NEW o, IsOpened(t)
    PROVE  /\ Later(Column(t, n)) /\ Later(Index(t, n)) /\ Later(Data(t))
           /\ Later(IfMissing(Column(t, n))) /\ Later(IfMissing(Index(t, n)))
           /\ Later(Caught(Index(t, n))) /\ Later(Caught(DropIndex(t, n)))
           /\ t \notin {"project", "unit"} => Later(Ensure(t, o, n))
<1>1. /\ Sound(Column(t, n)) /\ Sound(Index(t, n)) /\ Sound(Data(t)) /\ Sound(DropIndex(t, n))
      /\ Sound(Ensure(t, o, n))
    BY CreateStmt, DropStmt, EnsureStmt
<1>2. ASSUME NEW s, s = Column(t, n) \/ s = Index(t, n) \/ s = Data(t)
      PROVE  Later(s) /\ Later(Caught(s)) /\ Later(IfMissing(s))
  <2>1. Sound(s) /\ s.on = Dialects /\ s.do \in {"create", "data"} /\ s.mode = "await"
        /\ s.what[2] = t /\ (s.do = "create" => s.what[1] \in {"column", "index"})
    <3>1. CASE s = Column(t, n)
        BY <1>1, <3>1 DEF Column, Statement
    <3>2. CASE s = Index(t, n)
        BY <1>1, <3>2 DEF Index, Statement
    <3>3. CASE s = Data(t)
        BY <1>1, <3>3 DEF Data, Statement
    <3> QED BY <1>2, <3>1, <3>2, <3>3
  <2> QED BY <2>1, ModifiedStmt DEF Later
<1>3. Later(Caught(DropIndex(t, n)))
  <2>1. PICK s : s = DropIndex(t, n)
    OBVIOUS
  <2>2. Sound(s) /\ s.on = Dialects /\ s.do = "dropIfThere" /\ s.what[1] = "index" /\ s.what[2] = t
    BY <1>1, <2>1 DEF DropIndex, Statement
  <2>3. Later(Caught(s))
    BY <2>2, ModifiedStmt DEF Later
  <2> QED BY <2>1, <2>3
<1>4. t \notin {"project", "unit"} => Later(Ensure(t, o, n))
    BY <1>1, EnsureStmt DEF Later
<1> QED BY <1>2, <1>3, <1>4

\* Every statement of a migration is such a one.
AllLater(ss) == IsSeq(ss) /\ \A j \in 1 .. Len(ss) : Later(ss[j])

LEMMA LaterIndexes ==
    ASSUME NEW t, NEW ns, IsSeq(ns), IsOpened(t)
    PROVE  AllLater(Each(IfMissing, Indexes(t, ns)))
<1>1. IsSeq(Indexes(t, ns)) /\ \A j \in 1 .. Len(Indexes(t, ns)) : Indexes(t, ns)[j] = Index(t, ns[j])
    BY IndexesSeq
<1>2. PICK xs : xs = Indexes(t, ns)
    OBVIOUS
<1>3. IsSeq(Each(IfMissing, xs)) /\ Len(Each(IfMissing, xs)) = Len(xs)
      /\ \A j \in 1 .. Len(xs) : Each(IfMissing, xs)[j] = IfMissing(xs[j])
    BY <1>1, <1>2, EachSeq
<1>4. \A n : Later(IfMissing(Index(t, n)))
    BY LaterStatements
<1>5. AllLater(Each(IfMissing, xs))
    BY <1>1, <1>2, <1>3, <1>4 DEF AllLater
<1> QED BY <1>2, <1>5

LEMMA LaterRename == AllLater(RenameIssuanceMethodologyToProjectMethodologyV2)
<1>1. \A o, n : Later(Ensure("issuance", o, n))
    BY LaterStatements, OpenedNames
<1> DEFINE xs == RenameIssuanceMethodologyToProjectMethodologyV2
<1>2. IsSeq(xs) /\ Len(xs) = 1
    BY Tuples DEF RenameIssuanceMethodologyToProjectMethodologyV2
<1>3. \A j \in 1 .. 1 : Later(xs[j])
    BY <1>1 DEF RenameIssuanceMethodologyToProjectMethodologyV2
<1> QED BY <1>2, <1>3 DEF AllLater

LEMMA LaterFix == AllLater(FixLongAefIndexNamesV2)
<1>1. \A t \in {"aef_t5_authorized_entities", "aef_t2_authorizations"} :
        \A n : Later(Caught(DropIndex(t, n))) /\ Later(Caught(Index(t, n)))
    BY LaterStatements, OpenedNames
<1> DEFINE xs == <<DropIndex("aef_t5_authorized_entities", "long_auth_date"),
                   Index("aef_t5_authorized_entities", "auth_date"),
                   DropIndex("aef_t5_authorized_entities", "long_incorp_country"),
                   Index("aef_t5_authorized_entities", "incorp_country"),
                   DropIndex("aef_t2_authorizations", "long_coop_approach_id"),
                   Index("aef_t2_authorizations", "coop_approach_id")>>
<1>2. IsSeq(xs) /\ Len(xs) = 6
    BY Tuples
<1>3. \A j \in 1 .. 6 : Later(Caught(xs[j]))
    BY <1>1
<1> HIDE DEF xs
<1>4. IsSeq(Each(Caught, xs)) /\ Len(Each(Caught, xs)) = 6
      /\ \A j \in 1 .. 6 : Each(Caught, xs)[j] = Caught(xs[j])
    BY <1>2, EachSeq
<1>5. AllLater(Each(Caught, xs))
    BY <1>3, <1>4 DEF AllLater
<1> QED BY <1>5 DEF FixLongAefIndexNamesV2, xs

LEMMA LaterOrgUid == AllLater(AddOrgUidToStandaloneTablesV2)
<1>1. \A t \in {"methodology", "program", "stakeholder", "label", "aef_t1_submission"} :
        \A n : Later(Column(t, n)) /\ Later(Index(t, n))
    BY LaterStatements, OpenedNames
<1> DEFINE xs == AddOrgUidToStandaloneTablesV2
<1>2. IsSeq(xs) /\ Len(xs) = 10
    BY Tuples DEF AddOrgUidToStandaloneTablesV2
<1>3. \A j \in 1 .. 10 : Later(xs[j])
    BY <1>1 DEF AddOrgUidToStandaloneTablesV2
<1> QED BY <1>2, <1>3 DEF AllLater

LEMMA LaterAudit == AllLater(AddAuditSyncIndexesV2) /\ AllLater(AddAuditListIndexV2)
BY LaterIndexes, Tuples, OpenedNames DEF AddAuditSyncIndexesV2, AddAuditListIndexV2

LEMMA LaterRepair == AllLater(RepairIssuanceProjectMethodologyColumnV2)
<1>1. \A o, n : Later(Ensure("issuance", o, n)) /\ Later(IfMissing(Index("issuance", n)))
    BY LaterStatements, OpenedNames
<1> DEFINE xs == RepairIssuanceProjectMethodologyColumnV2
<1>2. IsSeq(xs) /\ Len(xs) = 2
    BY Tuples DEF RepairIssuanceProjectMethodologyColumnV2
<1>3. \A j \in 1 .. 2 : Later(xs[j])
    BY <1>1 DEF RepairIssuanceProjectMethodologyColumnV2
<1> QED BY <1>2, <1>3 DEF AllLater

LEMMA LaterCooperative == AllLater(RenameAefCooperativeApproachColumnsV2)
<1>1. \A t \in {"aef_t3_actions", "aef_t4_holdings"} :
        \A o, n : Later(Ensure(t, o, n)) /\ Later(Caught(Index(t, n)))
    BY LaterStatements, OpenedNames
<1>2. Later(Data("staging"))
    BY LaterStatements, OpenedNames
<1> DEFINE xs == RenameAefCooperativeApproachColumnsV2
<1>3. IsSeq(xs) /\ Len(xs) = 6
    BY Tuples DEF RenameAefCooperativeApproachColumnsV2
<1>4. \A j \in 1 .. 6 : Later(xs[j])
    BY <1>1, <1>2 DEF RenameAefCooperativeApproachColumnsV2
<1> QED BY <1>3, <1>4 DEF AllLater

LEMMA LaterGovernance == AllLater(DropGovernanceFromMirrorV2)
<1>1. PICK s : s = Drop("governance")
    OBVIOUS
<1>2. s = [do |-> "dropIfThere", what |-> <<"table", "governance", "governance">>, cols |-> {},
           old |-> <<>>, mode |-> "await", on |-> Dialects]
    BY <1>1 DEF Drop, Statement
<1>3. Mysql(s) = [s EXCEPT !.on = {"mysql"}]
    BY DEF Mysql
<1>4. Mysql(s) = [do |-> "dropIfThere", what |-> <<"table", "governance", "governance">>, cols |-> {},
                  old |-> <<>>, mode |-> "await", on |-> {"mysql"}]
    BY <1>2, <1>3
<1>5. Sound(Mysql(s))
    BY <1>4 DEF Sound, Dialects
<1>6. Later(Mysql(s))
    BY <1>4, <1>5, OpenedNames DEF Later
<1>7. IsSeq(<<Mysql(s)>>) /\ Len(<<Mysql(s)>>) = 1 /\ <<Mysql(s)>>[1] = Mysql(s)
    BY Tuples
<1>8. AllLater(<<Mysql(s)>>)
    BY <1>6, <1>7 DEF AllLater
<1> QED BY <1>1, <1>8 DEF DropGovernanceFromMirrorV2

LEMMA LaterCreatedBy == AllLater(AddCreatedByOrgUidV2)
<1> DEFINE xs == [i \in 1 .. 2 * Len(CreatedByTables) |->
                    LET t == CreatedByTables[(i + 1) \div 2]
                    IN  IfMissing(IF i % 2 = 1 THEN Column(t, "created_by_org_uid")
                                  ELSE Index(t, "created_by_org_uid"))]
           ys == Each(Data, CreatedByTables)
<1>1. Len(CreatedByTables) = 14 /\ DOMAIN CreatedByTables = 1 .. 14
    BY DEF CreatedByTables
<1>2. IsSeq(CreatedByTables)
  <2>1. CreatedByTables \in Seq({CreatedByTables[i] : i \in 1 .. 14})
    BY DEF CreatedByTables
  <2> QED BY <2>1 DEF IsSeq
<1>3. ASSUME NEW i \in 1 .. 28 PROVE Later(xs[i])
  <2>1. (i + 1) \div 2 \in 1 .. 14
    OBVIOUS
  <2>2. PICK t : t = CreatedByTables[(i + 1) \div 2]
    OBVIOUS
  <2>3. IsOpened(t)
    BY <2>1, <2>2, OpenedNames
  <2>4. \A n : Later(IfMissing(Column(t, n))) /\ Later(IfMissing(Index(t, n)))
    BY <2>3, LaterStatements
  <2>5. xs[i] = IfMissing(Column(t, "created_by_org_uid")) \/ xs[i] = IfMissing(Index(t, "created_by_org_uid"))
    BY <1>1, <2>2
  <2> QED BY <2>4, <2>5
<1>4. DOMAIN xs = 1 .. 28 /\ xs = [i \in 1 .. 28 |-> xs[i]]
    BY <1>1
<1> HIDE DEF xs
<1>5. IsSeq(xs) /\ Len(xs) = 28
  <2> DEFINE T == {xs[i] : i \in 1 .. 28}
  <2>1. \A i \in 1 .. 28 : xs[i] \in T
    OBVIOUS
  <2>2. [i \in 1 .. 28 |-> xs[i]] \in Seq(T)
    BY <2>1
  <2>3. IsSeq(xs)
    BY <1>4, <2>2 DEF IsSeq
  <2>4. Len(xs) = 28
    BY <1>4, <2>2
  <2> QED BY <2>3, <2>4
<1>6. IsSeq(ys) /\ Len(ys) = 14 /\ \A j \in 1 .. 14 : ys[j] = Data(CreatedByTables[j])
    BY <1>1, <1>2, EachSeq
<1>7. \A j \in 1 .. 14 : Later(Data(CreatedByTables[j]))
    BY LaterStatements, OpenedNames
<1> HIDE DEF ys
<1> DEFINE zs == xs \o ys
<1>8. /\ IsSeq(zs) /\ Len(zs) = Len(xs) + Len(ys)
      /\ \A j \in 1 .. Len(xs) + Len(ys) : zs[j] = IF j <= Len(xs) THEN xs[j] ELSE ys[j - Len(xs)]
    BY <1>5, <1>6, ConcatSeq, Zenon
<1> HIDE DEF zs
<1>9. ASSUME NEW j \in 1 .. Len(zs) PROVE Later(zs[j])
  <2>1. CASE j <= 28
    BY <1>3, <1>5, <1>6, <1>8, <2>1
  <2>2. CASE ~ (j <= 28)
    <3>1. j - 28 \in 1 .. 14 /\ zs[j] = ys[j - 28]
        BY <1>5, <1>6, <1>8, <2>2
    <3> QED BY <1>6, <1>7, <3>1
  <2> QED BY <2>1, <2>2
<1>10. AllLater(zs)
    BY <1>8, <1>9 DEF AllLater
<1> QED BY <1>10 DEF AddCreatedByOrgUidV2, xs, ys, zs

LEMMA LaterV2 == \A i \in 31 .. 39 : AllLater(V2Ups[i])
BY LaterRename, LaterFix, LaterGovernance, LaterOrgUid, LaterAudit, LaterRepair, LaterCooperative,
   LaterCreatedBy DEF V2Ups

\* The full-text migrations of V2: the tables and, dropped first, the triggers.
SixV2 ==
    <<<<"trigger", "project", "insert">>, <<"trigger", "project", "update">>,
      <<"trigger", "project", "delete">>, <<"trigger", "unit", "insert">>,
      <<"trigger", "unit", "update">>, <<"trigger", "unit", "delete">>>>

\* A statement that runs on SQLite, and is waited for.
Does(s, do, what) == Sound(s) /\ s.do = do /\ s.what = what /\ s.mode = "await" /\ s.on = {"sqlite"}

LEMMA SqliteStatements ==
    ASSUME NEW t, NEW n
    PROVE  /\ Does(Sqlite(Virtual(t)), "create", <<"table", t, t>>)
           /\ Does(Sqlite(Data(t)), "data", <<"table", t, t>>)
           /\ Does(Sqlite(Trigger(t, n)), "create", <<"trigger", t, n>>)
           /\ Does(Sqlite(DropTrigger(t, n)), "dropIfThere", <<"trigger", t, n>>)
           /\ t \in SearchTablesV1 => Does(Sqlite(Drop(t)), "dropIfThere", <<"table", t, t>>)
<1>1. ASSUME NEW s, NEW do, NEW what, Sound(s), s.do = do, s.what = what, s.mode = "await", s.on = Dialects
      PROVE  Does(Sqlite(s), do, what)
    BY <1>1, ModifiedStmt DEF Does
<1>2. /\ Virtual(t).do = "create" /\ Virtual(t).what = <<"table", t, t>>
      /\ Virtual(t).mode = "await" /\ Virtual(t).on = Dialects
    BY DEF Virtual, Statement
<1>3. /\ Data(t).do = "data" /\ Data(t).what = <<"table", t, t>>
      /\ Data(t).mode = "await" /\ Data(t).on = Dialects
    BY DEF Data, Statement
<1>4. /\ Trigger(t, n).do = "create" /\ Trigger(t, n).what = <<"trigger", t, n>>
      /\ Trigger(t, n).mode = "await" /\ Trigger(t, n).on = Dialects
    BY DEF Trigger, Statement
<1>5. /\ DropTrigger(t, n).do = "dropIfThere" /\ DropTrigger(t, n).what = <<"trigger", t, n>>
      /\ DropTrigger(t, n).mode = "await" /\ DropTrigger(t, n).on = Dialects
    BY DEF DropTrigger, Statement
<1>6. /\ Drop(t).do = "dropIfThere" /\ Drop(t).what = <<"table", t, t>>
      /\ Drop(t).mode = "await" /\ Drop(t).on = Dialects
    BY DEF Drop, Statement
<1>7. /\ Sound(Virtual(t)) /\ Sound(Data(t)) /\ Sound(Trigger(t, n)) /\ Sound(DropTrigger(t, n))
      /\ t \in SearchTablesV1 => Sound(Drop(t))
    BY CreateStmt, DropStmt
<1>8. Does(Sqlite(Virtual(t)), "create", <<"table", t, t>>)
    BY <1>1, <1>2, <1>7
<1>9. Does(Sqlite(Data(t)), "data", <<"table", t, t>>)
    BY <1>1, <1>3, <1>7
<1>10. Does(Sqlite(Trigger(t, n)), "create", <<"trigger", t, n>>)
    BY <1>1, <1>4, <1>7
<1>11. Does(Sqlite(DropTrigger(t, n)), "dropIfThere", <<"trigger", t, n>>)
    BY <1>1, <1>5, <1>7
<1>12. t \in SearchTablesV1 => Does(Sqlite(Drop(t)), "dropIfThere", <<"table", t, t>>)
    BY <1>1, <1>6, <1>7
<1> QED BY <1>8, <1>9, <1>10, <1>11, <1>12

LEMMA SearchTablesV2 ==
    /\ IsSeq(V2Ups[29]) /\ Len(V2Ups[29]) = 4
    /\ Does(V2Ups[29][1], "create", <<"table", "projects_v2_fts", "projects_v2_fts">>)
    /\ Does(V2Ups[29][2], "create", <<"table", "units_v2_fts", "units_v2_fts">>)
    /\ Does(V2Ups[29][3], "data", <<"table", "projects_v2_fts", "projects_v2_fts">>)
    /\ Does(V2Ups[29][4], "data", <<"table", "units_v2_fts", "units_v2_fts">>)
<1> DEFINE xs == <<Virtual("projects_v2_fts"), Virtual("units_v2_fts"),
                   Data("projects_v2_fts"), Data("units_v2_fts")>>
<1>1. /\ IsSeq(xs) /\ Len(xs) = 4
      /\ xs[1] = Virtual("projects_v2_fts") /\ xs[2] = Virtual("units_v2_fts")
      /\ xs[3] = Data("projects_v2_fts") /\ xs[4] = Data("units_v2_fts")
    BY Tuples
<1>2. V2Ups[29] = Each(Sqlite, xs)
    BY DEF V2Ups, CreateFts5TablesV2
<1> HIDE DEF xs
<1>3. IsSeq(Each(Sqlite, xs)) /\ Len(Each(Sqlite, xs)) = 4 /\ \A j \in 1 .. 4 : Each(Sqlite, xs)[j] = Sqlite(xs[j])
    BY <1>1, EachSeq
<1>4. PICK ys : ys = V2Ups[29]
    OBVIOUS
<1>5. IsSeq(ys) /\ Len(ys) = 4 /\ \A j \in 1 .. 4 : ys[j] = Sqlite(xs[j])
    BY <1>2, <1>3, <1>4
<1>6. /\ ys[1] = Sqlite(Virtual("projects_v2_fts")) /\ ys[2] = Sqlite(Virtual("units_v2_fts"))
      /\ ys[3] = Sqlite(Data("projects_v2_fts")) /\ ys[4] = Sqlite(Data("units_v2_fts"))
    BY <1>1, <1>5
<1> QED BY <1>4, <1>5, <1>6, SqliteStatements

LEMMA TriggersV2 ==
    /\ IsSeq(V2Ups[30]) /\ Len(V2Ups[30]) = 12
    /\ \A j \in 1 .. 6 : /\ Does(V2Ups[30][j], "dropIfThere", SixV2[j])
                         /\ Does(V2Ups[30][6 + j], "create", SixV2[j])
<1> DEFINE xs == <<DropTrigger("project", "insert"), DropTrigger("project", "update"),
        DropTrigger("project", "delete"), DropTrigger("unit", "insert"),
        DropTrigger("unit", "update"), DropTrigger("unit", "delete"),
        Trigger("project", "insert"), Trigger("project", "update"), Trigger("project", "delete"),
        Trigger("unit", "insert"), Trigger("unit", "update"), Trigger("unit", "delete")>>
<1>1. IsSeq(xs) /\ Len(xs) = 12
  <2>1. xs \in Seq({xs[j] : j \in 1 .. 12})
    OBVIOUS
  <2> QED BY <2>1 DEF IsSeq
<1>2. \A j \in 1 .. 6 : /\ xs[j] = DropTrigger(SixV2[j][2], SixV2[j][3])
                        /\ xs[6 + j] = Trigger(SixV2[j][2], SixV2[j][3])
                        /\ SixV2[j] = <<"trigger", SixV2[j][2], SixV2[j][3]>>
    BY DEF SixV2
<1>3. V2Ups[30] = Each(Sqlite, xs)
    BY DEF V2Ups, CreateFts5TriggersV2
<1> HIDE DEF xs
<1>6. IsSeq(Each(Sqlite, xs)) /\ Len(Each(Sqlite, xs)) = 12 /\ \A j \in 1 .. 12 : Each(Sqlite, xs)[j] = Sqlite(xs[j])
    BY <1>1, EachSeq
<1>4. IsSeq(V2Ups[30]) /\ Len(V2Ups[30]) = 12 /\ \A j \in 1 .. 12 : V2Ups[30][j] = Sqlite(xs[j])
    BY <1>3, <1>6
<1>5. ASSUME NEW j \in 1 .. 6
      PROVE  Does(V2Ups[30][j], "dropIfThere", SixV2[j]) /\ Does(V2Ups[30][6 + j], "create", SixV2[j])
  <2>1. PICK t, n : t = SixV2[j][2] /\ n = SixV2[j][3]
    OBVIOUS
  <2>2. V2Ups[30][j] = Sqlite(DropTrigger(t, n)) /\ V2Ups[30][6 + j] = Sqlite(Trigger(t, n))
    BY <1>2, <1>4, <2>1
  <2>3. SixV2[j] = <<"trigger", t, n>>
    BY <1>2, <2>1
  <2> QED BY <2>2, <2>3, SqliteStatements
<1> QED BY <1>4, <1>5

-----------------------------------------------------------------------------
(* V1's migrations *)

\* The numbers of V1's migrations that create one table, and the tables.
OpensV1 == 1 .. 16 \cup {21}
OpenedV1 ==
    <<"projects", "issuances", "units", "labels", "relatedProjects",
      "projectRatings", "coBenefits", "projectLocations", "staging",
      "label_unit", "label_unit", "simulator", "organizations", "estimations",
      "audit", "meta", "none", "none", "none", "none", "governance">>

LEMMA OpensAreV1 == \A i \in OpensV1 : Opening(V1Ups[i], OpenedV1[i], Dialects)
<1>1. Opening(CreateProjectsTable, "projects", Dialects)
    BY OpeningTable DEF CreateProjectsTable
<1>2. Opening(CreateIssuancesTable, "issuances", Dialects)
    BY OpeningTable DEF CreateIssuancesTable
<1>3. Opening(CreateUnitsTable, "units", Dialects)
    BY OpeningTable DEF CreateUnitsTable
<1>4. Opening(CreateLabelsTable, "labels", Dialects)
    BY OpeningTable DEF CreateLabelsTable
<1>5. Opening(CreateRelatedProjectsTable, "relatedProjects", Dialects)
    BY OpeningTable DEF CreateRelatedProjectsTable
<1>6. Opening(CreateProjectRatingsTable, "projectRatings", Dialects)
    BY OpeningTable DEF CreateProjectRatingsTable
<1>7. Opening(CreateCoBenefitsTable, "coBenefits", Dialects)
    BY OpeningTable DEF CreateCoBenefitsTable
<1>8. Opening(CreateProjectLocationTable, "projectLocations", Dialects)
    BY OpeningTable DEF CreateProjectLocationTable
<1>9. Opening(CreateStagingTable, "staging", Dialects)
    BY OpeningTable DEF CreateStagingTable
<1>10. Opening(CreateLabelUnitsTable, "label_unit", Dialects)
    BY OpeningTable DEF CreateLabelUnitsTable
<1>11. Opening(CreateSimulatorTable, "simulator", Dialects)
    BY OpeningTable DEF CreateSimulatorTable
<1>12. Opening(CreateOrganizationTable, "organizations", Dialects)
    BY OpeningTable DEF CreateOrganizationTable
<1>13. Opening(CreateEstimationTable, "estimations", Dialects)
    BY OpeningTable DEF CreateEstimationTable
<1>14. Opening(CreateAuditTable, "audit", Dialects)
    BY OpeningTable DEF CreateAuditTable
<1>15. Opening(CreateMetaTable, "meta", Dialects)
    BY OpeningTable DEF CreateMetaTable
<1>16. Opening(CreateGoveranceTable, "governance", Dialects)
    BY OpeningTable DEF CreateGoveranceTable
<1> QED BY <1>1, <1>2, <1>3, <1>4, <1>5, <1>6, <1>7, <1>8, <1>9, <1>10, <1>11, <1>12, <1>13, <1>14, <1>15, <1>16 DEF V1Ups, OpenedV1, OpensV1

\* V1's triggers, in the order the reset drops them.
SixV1 ==
    <<<<"trigger", "projects", "delete">>, <<"trigger", "projects", "insert">>,
      <<"trigger", "projects", "update">>, <<"trigger", "units", "delete">>,
      <<"trigger", "units", "insert">>, <<"trigger", "units", "update">>>>

\* A statement that only adds: columns, indexes, search tables, triggers and rows.
Plain(s) ==
    /\ Sound(s)
    /\ s.do \in {"create", "data"} /\ s.mode # "all"
    /\ s.do = "create" => \/ s.what[1] \in {"column", "index"}
                          \/ s.on = {"sqlite"} /\ \E t \in SearchTablesV1 : s.what = TableNamed(t)
                          \/ \E j \in 1 .. 6 : s.what = SixV1[j]

AllPlain(ss) == IsSeq(ss) /\ \A j \in 1 .. Len(ss) : Plain(ss[j])

LEMMA PlainStatements ==
    ASSUME NEW t, NEW n
    PROVE  /\ Plain(Column(t, n)) /\ Plain(Loose(Column(t, n))) /\ Plain(IfMissing(Column(t, n)))
           /\ Plain(Loose(Index(t, n))) /\ Plain(IfMissing(Index(t, n)))
           /\ Plain(Sqlite(Data(t)))
           /\ t \in SearchTablesV1 => Plain(Sqlite(Virtual(t)))
           /\ \A j \in 1 .. 6 : <<"trigger", t, n>> = SixV1[j] => Plain(Sqlite(Trigger(t, n)))
<1>1. ASSUME NEW s, s = Column(t, n) \/ s = Index(t, n)
      PROVE  Plain(s) /\ Plain(Loose(s)) /\ Plain(IfMissing(s))
  <2>1. /\ Sound(s) /\ s.on = Dialects /\ s.do = "create" /\ s.what[1] \in {"column", "index"}
        /\ s.mode = "await"
    <3>1. CASE s = Column(t, n)
        BY <3>1, CreateStmt, Zenon DEF Column, Statement
    <3>2. CASE s = Index(t, n)
        BY <3>2, CreateStmt, Zenon DEF Index, Statement
    <3> QED BY <1>1, <3>1, <3>2
  <2> QED BY <2>1, ModifiedStmt DEF Plain
<1>2. Plain(Sqlite(Data(t)))
    BY SqliteStatements DEF Plain, Does
<1>3. t \in SearchTablesV1 => Plain(Sqlite(Virtual(t)))
    BY SqliteStatements DEF Plain, Does, TableNamed
<1>4. \A j \in 1 .. 6 : <<"trigger", t, n>> = SixV1[j] => Plain(Sqlite(Trigger(t, n)))
    BY SqliteStatements DEF Plain, Does
<1> QED BY <1>1, <1>2, <1>3, <1>4

\* The trigger migrations.
LEMMA TriggerUps ==
    /\ IsSeq(CreateProjectTriggers) /\ Len(CreateProjectTriggers) = 3
    /\ Does(CreateProjectTriggers[1], "create", SixV1[2])
    /\ Does(CreateProjectTriggers[2], "create", SixV1[1])
    /\ Does(CreateProjectTriggers[3], "create", SixV1[3])
    /\ IsSeq(CreateUnitTriggers) /\ Len(CreateUnitTriggers) = 3
    /\ Does(CreateUnitTriggers[1], "create", SixV1[5])
    /\ Does(CreateUnitTriggers[2], "create", SixV1[4])
    /\ Does(CreateUnitTriggers[3], "create", SixV1[6])
<1> DEFINE three(t) == <<Trigger(t, "insert"), Trigger(t, "delete"), Trigger(t, "update")>>
<1>1. ASSUME NEW t
      PROVE  /\ IsSeq(Each(Sqlite, three(t))) /\ Len(Each(Sqlite, three(t))) = 3
             /\ Does(Each(Sqlite, three(t))[1], "create", <<"trigger", t, "insert">>)
             /\ Does(Each(Sqlite, three(t))[2], "create", <<"trigger", t, "delete">>)
             /\ Does(Each(Sqlite, three(t))[3], "create", <<"trigger", t, "update">>)
  <2>1. PICK xs : xs = three(t)
    OBVIOUS
  <2>2. /\ IsSeq(xs) /\ Len(xs) = 3
        /\ xs[1] = Trigger(t, "insert") /\ xs[2] = Trigger(t, "delete") /\ xs[3] = Trigger(t, "update")
    BY <2>1, Tuples
  <2>4. PICK ys : ys = Each(Sqlite, xs)
    OBVIOUS
  <2>3. IsSeq(ys) /\ Len(ys) = Len(xs) /\ \A j \in 1 .. Len(xs) : ys[j] = Sqlite(xs[j])
    BY <2>2, <2>4, EachIs, Zenon
  <2>5. /\ IsSeq(ys) /\ Len(ys) = 3 /\ ys[1] = Sqlite(Trigger(t, "insert"))
        /\ ys[2] = Sqlite(Trigger(t, "delete")) /\ ys[3] = Sqlite(Trigger(t, "update"))
    BY <2>2, <2>3
  <2>6. /\ Does(ys[1], "create", <<"trigger", t, "insert">>)
        /\ Does(ys[2], "create", <<"trigger", t, "delete">>)
        /\ Does(ys[3], "create", <<"trigger", t, "update">>)
    BY <2>5, SqliteStatements
  <2> QED BY <2>1, <2>4, <2>5, <2>6
<1>2. /\ CreateProjectTriggers = Each(Sqlite, three("projects"))
      /\ CreateUnitTriggers = Each(Sqlite, three("units"))
    BY DEF CreateProjectTriggers, CreateUnitTriggers
<1>3. /\ SixV1[2] = <<"trigger", "projects", "insert">> /\ SixV1[1] = <<"trigger", "projects", "delete">>
      /\ SixV1[3] = <<"trigger", "projects", "update">> /\ SixV1[5] = <<"trigger", "units", "insert">>
      /\ SixV1[4] = <<"trigger", "units", "delete">> /\ SixV1[6] = <<"trigger", "units", "update">>
    BY DEF SixV1
<1> HIDE DEF three
<1> QED BY <1>1, <1>2, <1>3

LEMMA PlainTriggers == AllPlain(CreateProjectTriggers) /\ AllPlain(CreateUnitTriggers)
BY TriggerUps DEF AllPlain, Plain, Does

LEMMA PlainFts == AllPlain(InitFtsModule)
<1>1. PICK xs : xs = <<Virtual("projects_fts"), Virtual("units_fts")>>
    OBVIOUS
<1>2. IsSeq(xs) /\ Len(xs) = 2 /\ xs[1] = Virtual("projects_fts") /\ xs[2] = Virtual("units_fts")
    BY <1>1, Tuples
<1>4. "projects_fts" \in SearchTablesV1 /\ "units_fts" \in SearchTablesV1
    BY DEF SearchTablesV1
<1>5. PICK ys : ys = Each(Sqlite, xs)
    OBVIOUS
<1>3. IsSeq(ys) /\ Len(ys) = Len(xs) /\ \A j \in 1 .. Len(xs) : ys[j] = Sqlite(xs[j])
    BY <1>2, <1>5, EachIs, Zenon
<1>6. Plain(ys[1]) /\ Plain(ys[2])
    BY <1>2, <1>3, <1>4, PlainStatements
<1>7. AllPlain(ys)
    BY <1>2, <1>3, <1>6 DEF AllPlain
<1> QED BY <1>1, <1>5, <1>7 DEF InitFtsModule

LEMMA PlainOrgUid == AllPlain(AddOrgUidIndex)
<1>1. PICK xs : xs = <<Index("projects", "orgUid"), Index("units", "orgUid")>>
    OBVIOUS
<1>2. IsSeq(xs) /\ Len(xs) = 2 /\ xs[1] = Index("projects", "orgUid") /\ xs[2] = Index("units", "orgUid")
    BY <1>1, Tuples
<1>4. PICK ys : ys = Each(Loose, xs)
    OBVIOUS
<1>3. IsSeq(ys) /\ Len(ys) = Len(xs) /\ \A j \in 1 .. Len(xs) : ys[j] = Loose(xs[j])
    BY <1>2, <1>4, EachIs, Zenon
<1>6. Plain(ys[1]) /\ Plain(ys[2])
    BY <1>2, <1>3, PlainStatements
<1>7. AllPlain(ys)
    BY <1>2, <1>3, <1>6 DEF AllPlain
<1> QED BY <1>1, <1>4, <1>7 DEF AddOrgUidIndex

LEMMA PlainDataModelVersion == AllPlain(AddDataModelVersionStoreToOrganizationTable)
<1>1. PICK xs : xs = <<Column("organizations", "dataModelVersionStoreId"),
                       Column("organizations", "dataModelVersionStoreHash")>>
    OBVIOUS
<1>2. /\ IsSeq(xs) /\ Len(xs) = 2 /\ xs[1] = Column("organizations", "dataModelVersionStoreId")
      /\ xs[2] = Column("organizations", "dataModelVersionStoreHash")
    BY <1>1, Tuples
<1>4. PICK ys : ys = Each(IfMissing, xs)
    OBVIOUS
<1>3. IsSeq(ys) /\ Len(ys) = Len(xs) /\ \A j \in 1 .. Len(xs) : ys[j] = IfMissing(xs[j])
    BY <1>2, <1>4, EachIs, Zenon
<1>6. Plain(ys[1]) /\ Plain(ys[2])
    BY <1>2, <1>3, PlainStatements
<1>7. AllPlain(ys)
    BY <1>2, <1>3, <1>6 DEF AllPlain
<1> QED BY <1>1, <1>4, <1>7 DEF AddDataModelVersionStoreToOrganizationTable

LEMMA PlainAudit == AllPlain(AddAuditSyncIndexes) /\ AllPlain(AddAuditListIndex)
<1>1. ASSUME NEW t, NEW ns, IsSeq(ns)
      PROVE  AllPlain(Each(IfMissing, Indexes(t, ns)))
  <2>1. PICK xs : xs = Indexes(t, ns)
    OBVIOUS
  <2>2. IsSeq(xs) /\ \A j \in 1 .. Len(xs) : xs[j] = Index(t, ns[j])
    BY <1>1, <2>1, IndexesSeq
  <2>3. IsSeq(Each(IfMissing, xs)) /\ Len(Each(IfMissing, xs)) = Len(xs)
        /\ \A j \in 1 .. Len(xs) : Each(IfMissing, xs)[j] = IfMissing(xs[j])
    BY <2>2, EachSeq
  <2>4. AllPlain(Each(IfMissing, xs))
    BY <2>2, <2>3, PlainStatements DEF AllPlain
  <2> QED BY <2>1, <2>4
<1> QED BY <1>1, Tuples DEF AddAuditSyncIndexes, AddAuditListIndex

LEMMA PlainOnes ==
    /\ AllPlain(AddCommentColumnToDataModelTables)
    /\ AllPlain(AddAuthorColumnToAuditTable)
    /\ AllPlain(AddOptionalMethodology2FieldToProject)
    /\ AllPlain(AddFiltStoreSubscribedColumnToProject)
    /\ AllPlain(AddOrgMetadata)
    /\ AllPlain(OrgSyncStatus)
    /\ AllPlain(OrgSyncRemaining)
    /\ AllPlain(AddGenerationIndexToAudit)
    /\ AllPlain(RepopulateVirtualTables) /\ AllPlain(AddIsTransferColumn)
<1>1. ASSUME NEW s, Plain(s) PROVE AllPlain(<<s>>)
  <2>1. IsSeq(<<s>>) /\ Len(<<s>>) = 1 /\ <<s>>[1] = s
    BY Tuples
  <2> QED BY <1>1, <2>1 DEF AllPlain
<1>2. \A t, n : /\ AllPlain(<<Loose(Column(t, n))>>) /\ AllPlain(<<Column(t, n)>>)
                /\ AllPlain(<<Sqlite(Data(t))>>)
    BY <1>1, PlainStatements
<1> QED BY <1>2 DEF AddCommentColumnToDataModelTables, AddAuthorColumnToAuditTable,
    AddOptionalMethodology2FieldToProject, AddFiltStoreSubscribedColumnToProject,
    AddOrgMetadata, OrgSyncStatus,
    OrgSyncRemaining, AddGenerationIndexToAudit,
    RepopulateVirtualTables, AddIsTransferColumn

LEMMA PlainV1 ==
    \A i \in (17 .. 39) \ {21, 23, 24, 27, 30, 31} : AllPlain(V1Ups[i])
BY PlainFts, PlainTriggers, PlainOrgUid, PlainOnes, PlainDataModelVersion, PlainAudit DEF V1Ups

LEMMA TogetherIs ==
    ASSUME NEW ss, IsSeq(ss), \A j \in 1 .. Len(ss) : Sound(ss[j]), NEW ys, ys = Together(ss)
    PROVE  /\ IsSeq(ys) /\ Len(ys) = Len(ss)
           /\ \A j \in 1 .. Len(ss) :
                /\ Sound(ys[j]) /\ ys[j].do = ss[j].do /\ ys[j].what = ss[j].what /\ ys[j].on = ss[j].on
                /\ ys[j].mode = IF j = Len(ss) THEN "last" ELSE "all"
<1>1. Len(ss) \in Nat /\ DOMAIN ss = 1 .. Len(ss)
    BY DEF IsSeq
<1>2. /\ DOMAIN ys = DOMAIN ss
      /\ \A j \in 1 .. Len(ss) : ys[j] = [ss[j] EXCEPT !.mode = IF j = Len(ss) THEN "last" ELSE "all"]
    BY <1>1 DEF Together
<1>3. IsSeq(ys) /\ Len(ys) = Len(ss)
    BY <1>1, <1>2, MapSeq DEF Together
<1>4. ASSUME NEW s, Sound(s), NEW m \in {"last", "all"}, NEW r, r = [s EXCEPT !.mode = m]
      PROVE  Sound(r) /\ r.do = s.do /\ r.what = s.what /\ r.on = s.on /\ r.mode = m
    BY <1>4 DEF Sound
<1>5. ASSUME NEW j \in 1 .. Len(ss)
      PROVE  /\ Sound(ys[j]) /\ ys[j].do = ss[j].do /\ ys[j].what = ss[j].what /\ ys[j].on = ss[j].on
             /\ ys[j].mode = IF j = Len(ss) THEN "last" ELSE "all"
  <2>1. PICK m \in {"last", "all"} : m = IF j = Len(ss) THEN "last" ELSE "all"
    OBVIOUS
  <2>2. ys[j] = [ss[j] EXCEPT !.mode = m]
    BY <1>2, <2>1
  <2> QED BY <1>4, <2>1, <2>2
<1> QED BY <1>3, <1>5

\* A statement of a Promise.all.
Member(s, do, what, mode, on) == Sound(s) /\ s.do = do /\ s.what = what /\ s.mode = mode /\ s.on = on

LEMMA SerialNumbersUp ==
    /\ IsSeq(V1Ups[23]) /\ Len(V1Ups[23]) = 4
    /\ Member(V1Ups[23][1], "create", <<"column", "units", "unitBlockStart">>, "all", Dialects)
    /\ Member(V1Ups[23][2], "create", <<"column", "units", "unitBlockEnd">>, "all", Dialects)
    /\ Member(V1Ups[23][3], "create", <<"column", "units", "unitCount">>, "all", Dialects)
    /\ Member(V1Ups[23][4], "rebuild", <<"column", "units", "serialNumberPattern">>, "last", Dialects)
<1>1. PICK xs : xs = <<Column("units", "unitBlockStart"), Column("units", "unitBlockEnd"),
                       Column("units", "unitCount"), DropColumn("units", "serialNumberPattern")>>
    OBVIOUS
<1>2. /\ IsSeq(xs) /\ Len(xs) = 4
      /\ xs[1] = Column("units", "unitBlockStart") /\ xs[2] = Column("units", "unitBlockEnd")
      /\ xs[3] = Column("units", "unitCount") /\ xs[4] = DropColumn("units", "serialNumberPattern")
    BY <1>1, Tuples
<1>3. \A t, n : /\ Sound(Column(t, n)) /\ Column(t, n).do = "create"
                /\ Column(t, n).what = <<"column", t, n>> /\ Column(t, n).on = Dialects
                /\ Sound(DropColumn(t, n)) /\ DropColumn(t, n).do = "rebuild"
                /\ DropColumn(t, n).what = <<"column", t, n>> /\ DropColumn(t, n).on = Dialects
    BY CreateStmt, DropStmt, Zenon DEF Column, DropColumn, Statement
<1>4. \A j \in 1 .. Len(xs) : Sound(xs[j])
    BY <1>2, <1>3
<1>5. PICK ys : ys = V1Ups[23]
    OBVIOUS
<1>6. ys = Together(xs)
    BY <1>1, <1>5 DEF V1Ups, AddSerialNumberFields
<1>s. IsSeq(xs)
    BY <1>2
<1>7. /\ IsSeq(ys) /\ Len(ys) = Len(xs)
      /\ \A j \in 1 .. Len(xs) :
           /\ Sound(ys[j]) /\ ys[j].do = xs[j].do /\ ys[j].what = xs[j].what /\ ys[j].on = xs[j].on
           /\ ys[j].mode = IF j = Len(xs) THEN "last" ELSE "all"
    BY <1>s, <1>4, <1>6, TogetherIs
<1>8. /\ Member(ys[1], "create", <<"column", "units", "unitBlockStart">>, "all", Dialects)
      /\ Member(ys[2], "create", <<"column", "units", "unitBlockEnd">>, "all", Dialects)
      /\ Member(ys[3], "create", <<"column", "units", "unitCount">>, "all", Dialects)
      /\ Member(ys[4], "rebuild", <<"column", "units", "serialNumberPattern">>, "last", Dialects)
    BY <1>2, <1>3, <1>7 DEF Member
<1> QED BY <1>2, <1>5, <1>7, <1>8

LEMMA FileStoreUp ==
    /\ IsSeq(V1Ups[27]) /\ Len(V1Ups[27]) = 3
    /\ Member(V1Ups[27][1], "create", <<"column", "organizations", "fileStoreId">>, "all", Dialects)
    /\ Member(V1Ups[27][2], "create", <<"column", "projectLocations", "fileId">>, "all", Dialects)
    /\ Member(V1Ups[27][3], "createIfMissing", <<"table", "fileStore", "fileStore">>, "last", Dialects)
<1>1. PICK xs : xs = <<Column("organizations", "fileStoreId"), Column("projectLocations", "fileId"),
                       Table("fileStore")>>
    OBVIOUS
<1>2. /\ IsSeq(xs) /\ Len(xs) = 3
      /\ xs[1] = Column("organizations", "fileStoreId") /\ xs[2] = Column("projectLocations", "fileId")
      /\ xs[3] = Table("fileStore")
    BY <1>1, Tuples
<1>3. \A t, n : /\ Sound(Column(t, n)) /\ Column(t, n).do = "create"
                /\ Column(t, n).what = <<"column", t, n>> /\ Column(t, n).on = Dialects
                /\ Sound(Table(t)) /\ Table(t).do = "createIfMissing"
                /\ Table(t).what = <<"table", t, t>> /\ Table(t).on = Dialects
    BY CreateStmt, Zenon DEF Column, Table, Statement
<1>4. \A j \in 1 .. Len(xs) : Sound(xs[j])
    BY <1>2, <1>3
<1>5. PICK ys : ys = V1Ups[27]
    OBVIOUS
<1>6. ys = Together(xs)
    BY <1>1, <1>5 DEF V1Ups, CreateFileStore
<1>s. IsSeq(xs)
    BY <1>2
<1>7. /\ IsSeq(ys) /\ Len(ys) = Len(xs)
      /\ \A j \in 1 .. Len(xs) :
           /\ Sound(ys[j]) /\ ys[j].do = xs[j].do /\ ys[j].what = xs[j].what /\ ys[j].on = xs[j].on
           /\ ys[j].mode = IF j = Len(xs) THEN "last" ELSE "all"
    BY <1>s, <1>4, <1>6, TogetherIs
<1>8. /\ Member(ys[1], "create", <<"column", "organizations", "fileStoreId">>, "all", Dialects)
      /\ Member(ys[2], "create", <<"column", "projectLocations", "fileId">>, "all", Dialects)
      /\ Member(ys[3], "createIfMissing", <<"table", "fileStore", "fileStore">>, "last", Dialects)
    BY <1>2, <1>3, <1>7 DEF Member
<1> QED BY <1>2, <1>5, <1>7, <1>8

LEMMA DescriptionUp ==
    /\ IsSeq(V1Ups[24]) /\ Len(V1Ups[24]) = 3
    /\ Member(V1Ups[24][1], "create", <<"column", "projects", "description">>, "await", Dialects)
    /\ Member(V1Ups[24][2], "drop", <<"table", "projects_fts", "projects_fts">>, "all", {"sqlite"})
    /\ Member(V1Ups[24][3], "create", <<"table", "projects_fts", "projects_fts">>, "last", {"sqlite"})
<1>1. PICK xs : xs = <<DropRaw("projects_fts"), Virtual("projects_fts")>>
    OBVIOUS
<1>2. IsSeq(xs) /\ Len(xs) = 2 /\ xs[1] = DropRaw("projects_fts") /\ xs[2] = Virtual("projects_fts")
    BY <1>1, Tuples
<1>3. LET t == "projects_fts"
      IN  /\ Sound(DropRaw(t)) /\ DropRaw(t).do = "drop"
          /\ DropRaw(t).what = <<"table", t, t>> /\ DropRaw(t).on = Dialects
          /\ Sound(Virtual(t)) /\ Virtual(t).do = "create"
          /\ Virtual(t).what = <<"table", t, t>> /\ Virtual(t).on = Dialects
    BY CreateStmt, DropStmt, Zenon DEF DropRaw, Virtual, Statement, SearchTablesV1
<1>4. \A j \in 1 .. Len(xs) : Sound(xs[j])
    BY <1>2, <1>3
<1>5. PICK ys : ys = Together(xs)
    OBVIOUS
<1>s. IsSeq(xs)
    BY <1>2
<1>6. /\ IsSeq(ys) /\ Len(ys) = Len(xs)
      /\ \A j \in 1 .. Len(xs) :
           /\ Sound(ys[j]) /\ ys[j].do = xs[j].do /\ ys[j].what = xs[j].what /\ ys[j].on = xs[j].on
           /\ ys[j].mode = IF j = Len(xs) THEN "last" ELSE "all"
    BY <1>s, <1>4, <1>5, TogetherIs
<1>7. PICK zs : zs = Each(Sqlite, ys)
    OBVIOUS
<1>8. IsSeq(zs) /\ Len(zs) = Len(ys) /\ \A j \in 1 .. Len(ys) : zs[j] = Sqlite(ys[j])
    BY <1>6, <1>7, EachIs, Zenon
<1>9. /\ zs[1] = Sqlite(ys[1]) /\ zs[2] = Sqlite(ys[2]) /\ Len(zs) = 2
      /\ Member(ys[1], "drop", <<"table", "projects_fts", "projects_fts">>, "all", Dialects)
      /\ Member(ys[2], "create", <<"table", "projects_fts", "projects_fts">>, "last", Dialects)
    BY <1>2, <1>3, <1>6, <1>8 DEF Member
<1>10. /\ Member(zs[1], "drop", <<"table", "projects_fts", "projects_fts">>, "all", {"sqlite"})
       /\ Member(zs[2], "create", <<"table", "projects_fts", "projects_fts">>, "last", {"sqlite"})
    BY <1>9, ModifiedStmt DEF Member
<1>11. PICK c : c = Column("projects", "description")
    OBVIOUS
<1>12. /\ Member(c, "create", <<"column", "projects", "description">>, "await", Dialects)
       /\ IsSeq(<<c>>) /\ Len(<<c>>) = 1 /\ <<c>>[1] = c
    BY <1>11, CreateStmt, Tuples, Zenon DEF Member, Column, Statement
<1>13. V1Ups[24] = <<c>> \o zs
    BY <1>1, <1>5, <1>7, <1>11 DEF V1Ups, AddDescriptionFieldToProjects
<1> DEFINE us == <<c>> \o zs
<1>14. /\ IsSeq(us) /\ Len(us) = Len(<<c>>) + Len(zs)
       /\ \A j \in 1 .. Len(<<c>>) + Len(zs) : us[j] = IF j <= Len(<<c>>) THEN <<c>>[j] ELSE zs[j - Len(<<c>>)]
    BY <1>8, <1>12, ConcatSeq, Zenon
<1> HIDE DEF us
<1>15. Len(us) = 3 /\ us[1] = c /\ us[2] = zs[1] /\ us[3] = zs[2]
    BY <1>9, <1>12, <1>14
<1>16. V1Ups[24] = us
    BY <1>13 DEF us
<1> QED BY <1>10, <1>12, <1>14, <1>15, <1>16

LEMMA UnitsFtsUp ==
    /\ IsSeq(V1Ups[30]) /\ Len(V1Ups[30]) = 6
    /\ Does(V1Ups[30][1], "dropIfThere", <<"table", "units_fts", "units_fts">>)
    /\ Does(V1Ups[30][2], "create", <<"table", "units_fts", "units_fts">>)
    /\ Does(V1Ups[30][3], "data", <<"table", "units_fts", "units_fts">>)
    /\ Does(V1Ups[30][4], "create", SixV1[5])
    /\ Does(V1Ups[30][5], "create", SixV1[4])
    /\ Does(V1Ups[30][6], "create", SixV1[6])
<1>1. PICK xs : xs = <<Drop("units_fts"), Virtual("units_fts"), Data("units_fts")>>
    OBVIOUS
<1>2. /\ IsSeq(xs) /\ Len(xs) = 3 /\ xs[1] = Drop("units_fts") /\ xs[2] = Virtual("units_fts")
      /\ xs[3] = Data("units_fts")
    BY <1>1, Tuples
<1>3. PICK ys : ys = Each(Sqlite, xs)
    OBVIOUS
<1>4. IsSeq(ys) /\ Len(ys) = Len(xs) /\ \A j \in 1 .. Len(xs) : ys[j] = Sqlite(xs[j])
    BY <1>2, <1>3, EachIs, Zenon
<1>5. /\ IsSeq(ys) /\ Len(ys) = 3 /\ ys[1] = Sqlite(Drop("units_fts"))
      /\ ys[2] = Sqlite(Virtual("units_fts")) /\ ys[3] = Sqlite(Data("units_fts"))
    BY <1>2, <1>4
<1>6. /\ Does(ys[1], "dropIfThere", <<"table", "units_fts", "units_fts">>)
      /\ Does(ys[2], "create", <<"table", "units_fts", "units_fts">>)
      /\ Does(ys[3], "data", <<"table", "units_fts", "units_fts">>)
    BY <1>5, SqliteStatements DEF SearchTablesV1
<1>7. PICK ts : ts = CreateUnitTriggers
    OBVIOUS
<1>8. /\ IsSeq(ts) /\ Len(ts) = 3 /\ Does(ts[1], "create", SixV1[5])
      /\ Does(ts[2], "create", SixV1[4]) /\ Does(ts[3], "create", SixV1[6])
    BY <1>7, TriggerUps
<1> DEFINE us == ys \o ts
<1>9. /\ IsSeq(us) /\ Len(us) = Len(ys) + Len(ts)
      /\ \A j \in 1 .. Len(ys) + Len(ts) : us[j] = IF j <= Len(ys) THEN ys[j] ELSE ts[j - Len(ys)]
    BY <1>5, <1>8, ConcatSeq, Zenon
<1>10. V1Ups[30] = us
    BY <1>1, <1>3, <1>7 DEF V1Ups, PopulateUnitsFTS
<1> HIDE DEF us
<1>11. /\ Len(us) = 6 /\ us[1] = ys[1] /\ us[2] = ys[2] /\ us[3] = ys[3]
       /\ us[4] = ts[1] /\ us[5] = ts[2] /\ us[6] = ts[3]
    BY <1>5, <1>8, <1>9
<1> QED BY <1>6, <1>8, <1>9, <1>10, <1>11

\* The parts of a concatenation.
Parts(u, s, t) ==
    /\ IsSeq(u) /\ Len(u) = Len(s) + Len(t) /\ Len(s) \in Nat /\ Len(t) \in Nat
    /\ \A j \in 1 .. Len(s) : u[j] = s[j]
    /\ \A j \in 1 .. Len(t) : u[Len(s) + j] = t[j]

LEMMA ConcatIs ==
    ASSUME NEW s, NEW t, IsSeq(s), IsSeq(t), NEW u, u = s \o t
    PROVE  Parts(u, s, t)
<1>1. /\ IsSeq(u) /\ Len(u) = Len(s) + Len(t) /\ Len(s) \in Nat /\ Len(t) \in Nat
      /\ \A j \in 1 .. Len(s) + Len(t) : u[j] = IF j <= Len(s) THEN s[j] ELSE t[j - Len(s)]
    BY ConcatSeq, Zenon
<1>2. PICK m \in Nat, n \in Nat : m = Len(s) /\ n = Len(t)
    BY <1>1
<1>3. \A j \in 1 .. m + n : u[j] = IF j <= m THEN s[j] ELSE t[j - m]
    BY <1>1, <1>2
<1>4. ASSUME NEW j \in 1 .. m PROVE u[j] = s[j]
  <2>1. j \in 1 .. m + n /\ j <= m
    OBVIOUS
  <2> QED BY <1>3, <2>1
<1>5. ASSUME NEW j \in 1 .. n PROVE u[m + j] = t[j]
  <2>1. m + j \in 1 .. m + n /\ ~ (m + j <= m) /\ (m + j) - m = j
    OBVIOUS
  <2> QED BY <1>3, <2>1
<1> QED BY <1>1, <1>2, <1>4, <1>5 DEF Parts

LEMMA SqliteTwice ==
    ASSUME NEW s, Sound(s), s.on = Dialects \/ s.on = {"sqlite"}
    PROVE  /\ Sound(Sqlite(s)) /\ Sqlite(s).do = s.do /\ Sqlite(s).what = s.what
           /\ Sqlite(s).mode = s.mode /\ Sqlite(s).on = {"sqlite"}
<1>1. PICK r : r = Sqlite(s)
    OBVIOUS
<1>2. /\ r.do = s.do /\ r.what = s.what /\ r.cols = s.cols /\ r.old = s.old /\ r.mode = s.mode /\ r.on = {"sqlite"}
      /\ r = [do |-> r.do, what |-> r.what, cols |-> r.cols, old |-> r.old, mode |-> r.mode, on |-> r.on]
    BY <1>1 DEF Sqlite, Sound
<1>3. s.on # {"mysql"}
    BY DEF Dialects
<1> QED BY <1>1, <1>2, <1>3 DEF Sound, Dialects

\* The positions at which the reset creates the triggers again.
AgainAt == <<33, 32, 34, 28, 27, 29>>

LEMMA ResetUp ==
    /\ IsSeq(V1Ups[31]) /\ Len(V1Ups[31]) = 34
    /\ \A j \in 1 .. 6 : /\ Does(V1Ups[31][j], "dropIfThere", SixV1[j])
                         /\ Does(V1Ups[31][AgainAt[j]], "create", SixV1[j])
    /\ \A j \in 7 .. 23 : /\ Sound(V1Ups[31][j]) /\ V1Ups[31][j].do = "data" /\ V1Ups[31][j].mode = "loose"
                          /\ V1Ups[31][j].on = {"sqlite"}
    /\ Does(V1Ups[31][24], "dropIfThere", <<"table", "units_fts", "units_fts">>)
    /\ Does(V1Ups[31][25], "create", <<"table", "units_fts", "units_fts">>)
    /\ Does(V1Ups[31][26], "data", <<"table", "units_fts", "units_fts">>)
    /\ Does(V1Ups[31][30], "dropIfThere", <<"table", "projects_fts", "projects_fts">>)
    /\ Does(V1Ups[31][31], "create", <<"table", "projects_fts", "projects_fts">>)
<1> DEFINE Basic(x, do, what) ==
              Sound(x) /\ x.do = do /\ x.what = what /\ x.mode = "await" /\ (x.on = Dialects \/ x.on = {"sqlite"})
<1>1. \A t, n : /\ Basic(DropTrigger(t, n), "dropIfThere", <<"trigger", t, n>>)
                /\ Basic(Virtual(t), "create", <<"table", t, t>>)
                /\ Basic(Data(t), "data", <<"table", t, t>>)
                /\ t \in SearchTablesV1 => Basic(Drop(t), "dropIfThere", <<"table", t, t>>)
    BY CreateStmt, DropStmt, Zenon DEF DropTrigger, Virtual, Data, Drop, Statement
<1>2. PICK ks : ks = <<DropTrigger("projects", "delete"), DropTrigger("projects", "insert"),
                       DropTrigger("projects", "update"), DropTrigger("units", "delete"),
                       DropTrigger("units", "insert"), DropTrigger("units", "update")>>
    OBVIOUS
<1>3. IsSeq(ks) /\ Len(ks) = 6
    BY <1>2, Tuples
<1>4. ASSUME NEW j \in 1 .. 6 PROVE Basic(ks[j], "dropIfThere", SixV1[j])
  <2>1. PICK t, n : ks[j] = DropTrigger(t, n) /\ SixV1[j] = <<"trigger", t, n>>
    <3>1. /\ ks[j] = DropTrigger(SixV1[j][2], SixV1[j][3])
          /\ SixV1[j] = <<"trigger", SixV1[j][2], SixV1[j][3]>>
        BY <1>2 DEF SixV1
    <3> QED BY <3>1
  <2> QED BY <1>1, <2>1
<1>5. PICK ns : ns = <<"audit", "coBenefits", "estimations", "fileStore", "governance", "issuances",
             "label_unit", "labels", "meta", "organizations", "projectLocations",
             "projectRatings", "projects", "relatedProjects", "simulator", "staging", "units">>
    OBVIOUS
<1>6. IsSeq(ns) /\ Len(ns) = 17
  <2>1. ns \in Seq({ns[j] : j \in 1 .. 17}) /\ Len(ns) = 17
    BY <1>5
  <2> QED BY <2>1 DEF IsSeq
<1>7. PICK ds : ds = Each(Data, ns)
    OBVIOUS
<1>8. IsSeq(ds) /\ Len(ds) = Len(ns) /\ \A j \in 1 .. Len(ns) : ds[j] = Data(ns[j])
    BY <1>6, <1>7, EachIs, Zenon
<1>9. PICK ls : ls = Each(Loose, ds)
    OBVIOUS
<1>10. IsSeq(ls) /\ Len(ls) = Len(ds) /\ \A j \in 1 .. Len(ds) : ls[j] = Loose(ds[j])
    BY <1>8, <1>9, EachIs, Zenon
<1>11. ASSUME NEW j \in 1 .. 17
       PROVE  Sound(ls[j]) /\ ls[j].do = "data" /\ ls[j].mode = "loose" /\ ls[j].on = Dialects
  <2>1. ls[j] = Loose(Data(ns[j]))
    BY <1>6, <1>8, <1>10
  <2>2. Sound(Data(ns[j])) /\ Data(ns[j]).do = "data" /\ Data(ns[j]).on = Dialects
    BY DropStmt, Zenon DEF Data, Statement
  <2> QED BY <2>1, <2>2, ModifiedStmt
<1>12. PICK bs : bs = <<Drop("units_fts"), Virtual("units_fts"), Data("units_fts")>>
    OBVIOUS
<1>13. /\ IsSeq(bs) /\ Len(bs) = 3
       /\ Basic(bs[1], "dropIfThere", <<"table", "units_fts", "units_fts">>)
       /\ Basic(bs[2], "create", <<"table", "units_fts", "units_fts">>)
       /\ Basic(bs[3], "data", <<"table", "units_fts", "units_fts">>)
    BY <1>1, <1>12, Tuples DEF SearchTablesV1
<1>14. PICK us : us = CreateUnitTriggers
    OBVIOUS
<1>15. /\ IsSeq(us) /\ Len(us) = 3 /\ Basic(us[1], "create", SixV1[5])
       /\ Basic(us[2], "create", SixV1[4]) /\ Basic(us[3], "create", SixV1[6])
    BY <1>14, TriggerUps DEF Does
<1>16. PICK es : es = <<Drop("projects_fts"), Virtual("projects_fts")>>
    OBVIOUS
<1>17. /\ IsSeq(es) /\ Len(es) = 2
       /\ Basic(es[1], "dropIfThere", <<"table", "projects_fts", "projects_fts">>)
       /\ Basic(es[2], "create", <<"table", "projects_fts", "projects_fts">>)
    BY <1>1, <1>16, Tuples DEF SearchTablesV1
<1>18. PICK ps : ps = CreateProjectTriggers
    OBVIOUS
<1>19. /\ IsSeq(ps) /\ Len(ps) = 3 /\ Basic(ps[1], "create", SixV1[2])
       /\ Basic(ps[2], "create", SixV1[1]) /\ Basic(ps[3], "create", SixV1[3])
    BY <1>18, TriggerUps DEF Does
<1> HIDE DEF Basic
<1>20. PICK c2 : c2 = ks \o ls
    OBVIOUS
<1>21. IsSeq(c2) /\ Len(c2) = 23 /\ (\A j \in 1 .. 6 : c2[j] = ks[j]) /\ \A j \in 1 .. 17 : c2[6 + j] = ls[j]
  <2>1. IsSeq(ks) /\ IsSeq(ls)
    BY <1>3, <1>6, <1>8, <1>10
  <2>2. Parts(c2, ks, ls)
    BY <1>20, <2>1, ConcatIs, Zenon
  <2>3. Len(ks) = 6 /\ Len(ls) = 17
    BY <1>3, <1>6, <1>8, <1>10
  <2>4. IsSeq(c2) /\ Len(c2) = 23
    BY <2>2, <2>3 DEF Parts
  <2>5. \A j \in 1 .. 6 : c2[j] = ks[j]
    BY <2>2, <2>3 DEF Parts
  <2>6. \A j \in 1 .. 17 : c2[6 + j] = ls[j]
    BY <2>2, <2>3 DEF Parts
  <2> QED BY <2>4, <2>5, <2>6
<1>22. PICK c3 : c3 = c2 \o bs
    OBVIOUS
<1>23. IsSeq(c3) /\ Len(c3) = 26 /\ (\A j \in 1 .. 23 : c3[j] = c2[j]) /\ \A j \in 1 .. 3 : c3[23 + j] = bs[j]
  <2>1. IsSeq(c2) /\ IsSeq(bs)
    BY <1>13, <1>21
  <2>2. Parts(c3, c2, bs)
    BY <1>22, <2>1, ConcatIs, Zenon
  <2> QED BY <2>2, <1>13, <1>21 DEF Parts
<1>24. PICK c4 : c4 = c3 \o us
    OBVIOUS
<1>25. IsSeq(c4) /\ Len(c4) = 29 /\ (\A j \in 1 .. 26 : c4[j] = c3[j]) /\ \A j \in 1 .. 3 : c4[26 + j] = us[j]
  <2>1. IsSeq(c3) /\ IsSeq(us)
    BY <1>15, <1>23
  <2>2. Parts(c4, c3, us)
    BY <1>24, <2>1, ConcatIs, Zenon
  <2> QED BY <2>2, <1>15, <1>23 DEF Parts
<1>26. PICK c5 : c5 = c4 \o es
    OBVIOUS
<1>27. IsSeq(c5) /\ Len(c5) = 31 /\ (\A j \in 1 .. 29 : c5[j] = c4[j]) /\ \A j \in 1 .. 2 : c5[29 + j] = es[j]
  <2>1. IsSeq(c4) /\ IsSeq(es)
    BY <1>17, <1>25
  <2>2. Parts(c5, c4, es)
    BY <1>26, <2>1, ConcatIs, Zenon
  <2> QED BY <2>2, <1>17, <1>25 DEF Parts
<1>28. PICK c6 : c6 = c5 \o ps
    OBVIOUS
<1>29. IsSeq(c6) /\ Len(c6) = 34 /\ (\A j \in 1 .. 31 : c6[j] = c5[j]) /\ \A j \in 1 .. 3 : c6[31 + j] = ps[j]
  <2>1. IsSeq(c5) /\ IsSeq(ps)
    BY <1>19, <1>27
  <2>2. Parts(c6, c5, ps)
    BY <1>28, <2>1, ConcatIs, Zenon
  <2> QED BY <2>2, <1>19, <1>27 DEF Parts
<1>30. V1Ups[31] = Each(Sqlite, c6)
    BY <1>2, <1>5, <1>7, <1>9, <1>12, <1>14, <1>16, <1>18, <1>20, <1>22, <1>24, <1>26, <1>28
       DEF V1Ups, ResetDBForNewSingletons
<1>31. PICK zs : zs = Each(Sqlite, c6)
    OBVIOUS
<1>32. IsSeq(zs) /\ Len(zs) = Len(c6) /\ \A j \in 1 .. Len(c6) : zs[j] = Sqlite(c6[j])
  <2>1. IsSeq(c6)
    BY <1>29
  <2> QED BY <2>1, <1>31, EachIs, Zenon
<1>33. \A x, do, what : Basic(x, do, what) => Does(Sqlite(x), do, what)
    BY SqliteTwice DEF Basic, Does
<1>34. ASSUME NEW j \in 1 .. 6 PROVE Does(zs[j], "dropIfThere", SixV1[j])
  <2>1. c6[j] = ks[j]
    <3>1. j \in 1 .. 23 /\ j \in 1 .. 26 /\ j \in 1 .. 29 /\ j \in 1 .. 31 /\ j \in 1 .. 34
        OBVIOUS
    <3>2. c6[j] = c5[j] /\ c5[j] = c4[j]
        BY <1>27, <1>29, <3>1
    <3>3. c4[j] = c3[j] /\ c3[j] = c2[j] /\ c2[j] = ks[j]
        BY <1>21, <1>23, <1>25, <3>1
    <3> QED BY <3>2, <3>3
  <2>2. zs[j] = Sqlite(ks[j])
    <3>1. j \in 1 .. Len(c6)
        BY <1>29
    <3> QED BY <1>32, <2>1, <3>1
  <2> QED BY <2>2, <1>4, <1>33, <2>1
<1>35. ASSUME NEW j \in 7 .. 23
       PROVE  Sound(zs[j]) /\ zs[j].do = "data" /\ zs[j].mode = "loose" /\ zs[j].on = {"sqlite"}
  <2>1. PICK k \in 1 .. 17 : j = 6 + k
    BY j - 6 \in 1 .. 17
  <2>2. zs[j] = Sqlite(c6[j]) /\ c6[j] = c2[j] /\ c2[j] = ls[k]
    BY <1>21, <1>23, <1>25, <1>27, <1>29, <1>32, <2>1
  <2> QED BY <1>11, <2>2, SqliteTwice
<1>36. /\ zs[24] = Sqlite(bs[1]) /\ zs[25] = Sqlite(bs[2]) /\ zs[26] = Sqlite(bs[3])
       /\ zs[27] = Sqlite(us[1]) /\ zs[28] = Sqlite(us[2]) /\ zs[29] = Sqlite(us[3])
       /\ zs[30] = Sqlite(es[1]) /\ zs[31] = Sqlite(es[2])
       /\ zs[32] = Sqlite(ps[1]) /\ zs[33] = Sqlite(ps[2]) /\ zs[34] = Sqlite(ps[3])
  <2>1. /\ c3[24] = bs[1] /\ c3[25] = bs[2] /\ c3[26] = bs[3]
        /\ c4[27] = us[1] /\ c4[28] = us[2] /\ c4[29] = us[3]
        /\ c5[30] = es[1] /\ c5[31] = es[2]
        /\ c6[32] = ps[1] /\ c6[33] = ps[2] /\ c6[34] = ps[3]
    BY <1>23, <1>25, <1>27, <1>29
  <2> QED BY <2>1, <1>25, <1>27, <1>29, <1>32
<1>37. /\ Does(zs[24], "dropIfThere", <<"table", "units_fts", "units_fts">>)
       /\ Does(zs[25], "create", <<"table", "units_fts", "units_fts">>)
       /\ Does(zs[26], "data", <<"table", "units_fts", "units_fts">>)
       /\ Does(zs[30], "dropIfThere", <<"table", "projects_fts", "projects_fts">>)
       /\ Does(zs[31], "create", <<"table", "projects_fts", "projects_fts">>)
    BY <1>13, <1>17, <1>33, <1>36
<1>38. /\ Does(zs[27], "create", SixV1[5]) /\ Does(zs[28], "create", SixV1[4]) /\ Does(zs[29], "create", SixV1[6])
       /\ Does(zs[32], "create", SixV1[2]) /\ Does(zs[33], "create", SixV1[1]) /\ Does(zs[34], "create", SixV1[3])
    BY <1>15, <1>19, <1>33, <1>36
<1>39. \A j \in 1 .. 6 : Does(zs[AgainAt[j]], "create", SixV1[j])
    BY <1>38 DEF AgainAt
<1>40. IsSeq(zs) /\ Len(zs) = 34
    BY <1>29, <1>32
<1> QED BY <1>30, <1>31, <1>34, <1>35, <1>37, <1>39, <1>40

-----------------------------------------------------------------------------
(* What the proofs need of the two lists *)

\* The statement j of V2's migration i.
OfV2(s, i, j) ==
    /\ Sound(s) /\ s.mode \in {"await", "caught", "ifMissing"}
    /\ s.do \in {"drop", "dropIfThere"} =>
         \/ s.on = {"mysql"}
         \/ s.what[1] = "index"
         \/ i = 30 /\ j \in 1 .. 6 /\ s.what = SixV2[j]
    /\ s.do # "rebuild"
    /\ s.do = "ensure" => s.what[2] \notin {"project", "unit"}
    /\ s.do = "create" /\ s.what[1] = "trigger" => i = 30 /\ j \in 7 .. 12 /\ s.what = SixV2[j - 6]
    /\ Creates(s) => (i <= 28 /\ j = 1) \/ s.what[2] \in {"projects_v2_fts", "units_v2_fts"}

LEMMA V2Statements ==
    ASSUME NEW i \in 1 .. 39
    PROVE  IsSeq(V2Ups[i]) /\ \A j \in 1 .. Len(V2Ups[i]) : OfV2(V2Ups[i][j], i, j)
<1>1. CASE i \in 1 .. 28
  <2>1. Opening(V2Ups[i], Opened[i], IF i = 5 THEN {"sqlite"} ELSE Dialects)
    BY <1>1, OpenedV2
  <2>2. PICK u : u = V2Ups[i]
    OBVIOUS
  <2>3. IsSeq(u) /\ Len(u) \in Nat
    BY <2>1, <2>2 DEF Opening
  <2>4. ASSUME NEW j \in 1 .. Len(u), NEW s, s = u[j] PROVE OfV2(s, i, j)
    <3>1. CASE j = 1
      <4>1. Sound(s) /\ s.do = "createIfMissing" /\ s.mode = "await"
        BY <2>1, <2>2, <2>4, <3>1 DEF Opening
      <4> QED BY <1>1, <3>1, <4>1 DEF Creates, OfV2
    <3>2. CASE j # 1
      <4>0. j \in 2 .. Len(u)
        BY <2>3, <3>2
      <4>1. Sound(s) /\ s.do = "create" /\ s.mode \in {"await", "caught"} /\ s.what[1] = "index"
        BY <2>1, <2>2, <2>4, <4>0 DEF Opening
      <4> QED BY <4>1 DEF Creates, OfV2
    <3> QED BY <3>1, <3>2
  <2> QED BY <2>2, <2>3, <2>4
<1>2. CASE i = 29
  <2>1. \A j \in 1 .. 4 : j = 1 \/ j = 2 \/ j = 3 \/ j = 4
    OBVIOUS
  <2> QED BY <1>2, <2>1, SearchTablesV2 DEF Does, Creates, OfV2
<1>3. CASE i = 30
  <2>1. \A m \in 1 .. 6 : SixV2[m][1] = "trigger"
    BY DEF SixV2
  <2>2. ASSUME NEW m \in 1 .. 6, NEW s, Does(s, "dropIfThere", SixV2[m]) PROVE OfV2(s, 30, m)
    BY <2>1, <2>2 DEF Does, Creates, OfV2
  <2>3. ASSUME NEW m \in 1 .. 6, NEW s, Does(s, "create", SixV2[m]) PROVE OfV2(s, 30, 6 + m)
    <3>1. 6 + m \in 7 .. 12 /\ (6 + m) - 6 = m
        OBVIOUS
    <3> QED BY <2>1, <2>3, <3>1 DEF Does, Creates, OfV2
  <2>4. ASSUME NEW j \in 1 .. 12 PROVE OfV2(V2Ups[30][j], 30, j)
    <3>1. CASE j \in 1 .. 6
        BY <2>2, <3>1, TriggersV2
    <3>2. CASE j \in 7 .. 12
      <4>1. PICK m \in 1 .. 6 : j = 6 + m
        BY <3>2, j - 6 \in 1 .. 6
      <4> QED BY <2>3, <4>1, TriggersV2
    <3> QED BY <3>1, <3>2
  <2> QED BY <1>3, <2>4, TriggersV2
<1>4. CASE i \in 31 .. 39
    BY <1>4, LaterV2 DEF AllLater, Later, Creates, OfV2
<1> QED BY <1>1, <1>2, <1>3, <1>4

\* The statement j of V1's migration i.
OfV1(s, i, j) ==
    /\ Sound(s)
    /\ s.mode = "loose" => s.do \in {"create", "data"}
    /\ s.mode = "all" => i \in {23, 24, 27}
    /\ s.do \in {"drop", "dropIfThere"} =>
         \/ i = 24 /\ j = 2 /\ s.what = TableNamed("projects_fts")
         \/ i = 30 /\ j = 1 /\ s.what = TableNamed("units_fts")
         \/ i = 31 /\ j = 24 /\ s.what = TableNamed("units_fts")
         \/ i = 31 /\ j = 30 /\ s.what = TableNamed("projects_fts")
         \/ i = 31 /\ j \in 1 .. 6 /\ s.what = SixV1[j]
    /\ s.do = "rebuild" => i = 23 /\ s.what = <<"column", "units", "serialNumberPattern">>
    /\ s.do # "ensure"
    /\ Creates(s) => \/ i \in OpensV1 /\ j = 1
                     \/ i = 27 /\ j = 3
                     \/ s.on = {"sqlite"} /\ \E t \in SearchTablesV1 : s.what = TableNamed(t)
    /\ s.do = "create" /\ s.what[1] = "trigger" =>
         \E m \in 1 .. 6 : s.what = SixV1[m] /\ (i = 31 => j = AgainAt[m])

LEMMA V1Statements ==
    ASSUME NEW i \in 1 .. 39
    PROVE  IsSeq(V1Ups[i]) /\ \A j \in 1 .. Len(V1Ups[i]) : OfV1(V1Ups[i][j], i, j)
<1>1. CASE i \in OpensV1
  <2>1. Opening(V1Ups[i], OpenedV1[i], Dialects)
    BY <1>1, OpensAreV1
  <2>2. \A j \in 1 .. Len(V1Ups[i]) : j = 1 \/ j \in 2 .. Len(V1Ups[i])
    BY <2>1 DEF Opening
  <2> QED BY <1>1, <2>1, <2>2 DEF Opening, Creates, OfV1
<1>2. CASE i \in (17 .. 39) \ {21, 23, 24, 27, 30, 31}
  <2>1. \A m \in 1 .. 6 : SixV1[m][1] = "trigger"
    BY DEF SixV1
  <2>2. AllPlain(V1Ups[i])
    BY <1>2, PlainV1
  <2>3. ASSUME NEW s, Plain(s), NEW j PROVE OfV1(s, i, j)
    <3>1. Sound(s) /\ s.do \in {"create", "data"} /\ s.mode # "all"
        BY <2>3 DEF Plain
    <3>2. Creates(s) => s.on = {"sqlite"} /\ \E t \in SearchTablesV1 : s.what = TableNamed(t)
        BY <2>1, <2>3 DEF Plain, Creates
    <3>3. s.do = "create" /\ s.what[1] = "trigger" => \E m \in 1 .. 6 : s.what = SixV1[m]
        BY <2>3 DEF Plain, TableNamed
    <3>4. i # 31
        BY <1>2
    <3> QED BY <3>1, <3>2, <3>3, <3>4 DEF OfV1
  <2> QED BY <2>2, <2>3 DEF AllPlain
<1>3. CASE i = 23
  <2>1. \A j \in 1 .. 4 : j = 1 \/ j = 2 \/ j = 3 \/ j = 4
    OBVIOUS
  <2> QED BY <1>3, <2>1, SerialNumbersUp DEF Member, Creates, OfV1
<1>4. CASE i = 24
  <2>1. \A j \in 1 .. 3 : j = 1 \/ j = 2 \/ j = 3
    OBVIOUS
  <2>2. PICK u : u = V1Ups[24]
    OBVIOUS
  <2>3. "projects_fts" \in SearchTablesV1
    BY DEF SearchTablesV1
  <2>4. OfV1(u[1], 24, 1)
    BY <2>2, DescriptionUp DEF Member, Creates, OfV1
  <2>5. OfV1(u[2], 24, 2)
    BY <2>2, DescriptionUp DEF Member, Creates, OfV1, TableNamed
  <2>6. OfV1(u[3], 24, 3)
    BY <2>2, <2>3, DescriptionUp DEF Member, Creates, OfV1, TableNamed
  <2> QED BY <1>4, <2>1, <2>2, <2>4, <2>5, <2>6, DescriptionUp
<1>5. CASE i = 27
  <2>1. \A j \in 1 .. 3 : j = 1 \/ j = 2 \/ j = 3
    OBVIOUS
  <2> QED BY <1>5, <2>1, FileStoreUp DEF Member, Creates, OfV1
<1>6. CASE i = 30
  <2>1. \A j \in 1 .. 6 : j = 1 \/ j = 2 \/ j = 3 \/ j = 4 \/ j = 5 \/ j = 6
    OBVIOUS
  <2>2. \A m \in 1 .. 6 : SixV1[m][1] = "trigger"
    BY DEF SixV1
  <2>3. PICK u : u = V1Ups[30]
    OBVIOUS
  <2>4. "units_fts" \in SearchTablesV1
    BY DEF SearchTablesV1
  <2>5. OfV1(u[1], 30, 1)
    BY <2>3, UnitsFtsUp DEF Does, Creates, OfV1, TableNamed
  <2>6. OfV1(u[2], 30, 2)
    BY <2>3, <2>4, UnitsFtsUp DEF Does, Creates, OfV1, TableNamed
  <2>7. OfV1(u[3], 30, 3)
    BY <2>3, UnitsFtsUp DEF Does, Creates, OfV1
  <2>8. ASSUME NEW m \in 1 .. 6, NEW s, Does(s, "create", SixV1[m]), NEW j PROVE OfV1(s, 30, j)
    BY <2>2, <2>8 DEF Does, Creates, OfV1
  <2>9. OfV1(u[4], 30, 4) /\ OfV1(u[5], 30, 5) /\ OfV1(u[6], 30, 6)
    BY <2>3, <2>8, UnitsFtsUp
  <2> QED BY <1>6, <2>1, <2>3, <2>5, <2>6, <2>7, <2>9, UnitsFtsUp
<1>7. CASE i = 31
  <2>1. PICK u : u = V1Ups[31]
    OBVIOUS
  <2>2. \A m \in 1 .. 6 : SixV1[m][1] = "trigger"
    BY DEF SixV1
  <2>3. ASSUME NEW j \in 1 .. 6 PROVE OfV1(u[j], 31, j)
    <3>1. Does(u[j], "dropIfThere", SixV1[j])
        BY <2>1, ResetUp
    <3> QED BY <2>2, <3>1 DEF Does, Creates, OfV1
  <2>4. ASSUME NEW j \in 7 .. 23 PROVE OfV1(u[j], 31, j)
    <3>1. Sound(u[j]) /\ u[j].do = "data" /\ u[j].mode = "loose"
        BY <2>1, ResetUp
    <3> QED BY <3>1 DEF Creates, OfV1
  <2>5. ASSUME NEW m \in 1 .. 6 PROVE OfV1(u[AgainAt[m]], 31, AgainAt[m])
    <3>1. Does(u[AgainAt[m]], "create", SixV1[m])
        BY <2>1, ResetUp
    <3> QED BY <2>2, <3>1 DEF Does, Creates, OfV1
  <2>6. OfV1(u[24], 31, 24)
    BY <2>1, ResetUp, Zenon DEF Does, Creates, OfV1, TableNamed
  <2>7. OfV1(u[30], 31, 30)
    BY <2>1, ResetUp, Zenon DEF Does, Creates, OfV1, TableNamed
  <2>8. OfV1(u[26], 31, 26)
    BY <2>1, ResetUp, Zenon DEF Does, Creates, OfV1
  <2>9. ASSUME NEW s, NEW t \in SearchTablesV1, Does(s, "create", <<"table", t, t>>), NEW j PROVE OfV1(s, 31, j)
    BY <2>9 DEF Does, Creates, OfV1, TableNamed
  <2>10. "units_fts" \in SearchTablesV1 /\ "projects_fts" \in SearchTablesV1
    BY DEF SearchTablesV1
  <2>11. OfV1(u[25], 31, 25) /\ OfV1(u[31], 31, 31)
    BY <2>1, <2>9, <2>10, ResetUp
  <2>12. ASSUME NEW j \in 1 .. 34 PROVE OfV1(u[j], 31, j)
    <3>1. CASE j \in 1 .. 6 \/ j \in 7 .. 23
        BY <2>3, <2>4, <3>1
    <3>2. CASE j \in {24, 25, 26, 30, 31}
        BY <2>6, <2>7, <2>8, <2>11, <3>2
    <3>3. CASE j \in {27, 28, 29, 32, 33, 34}
      <4>1. \E m \in 1 .. 6 : j = AgainAt[m]
        BY <3>3 DEF AgainAt
      <4> QED BY <2>5, <4>1
    <3> QED BY <3>1, <3>2, <3>3
  <2> QED BY <1>7, <2>1, <2>12, ResetUp, Zenon
<1>8. \/ i \in OpensV1 \/ i \in (17 .. 39) \ {21, 23, 24, 27, 30, 31}
      \/ i = 23 \/ i = 24 \/ i = 27 \/ i = 30 \/ i = 31
    BY DEF OpensV1
<1> QED BY <1>1, <1>2, <1>3, <1>4, <1>5, <1>6, <1>7, <1>8

-----------------------------------------------------------------------------
(* The lists in a state *)

LEMMA ListFacts ==
    ASSUME db \in Databases
    PROVE  /\ db.version \in {"v1", "v2"} /\ db.dialect \in Dialects
           /\ DOMAIN List = 1 .. 39 /\ Again = 40
           /\ \A i \in 1 .. 39 : Migration(i) = List[i]
           /\ Migration(40) = List[30]
           /\ V2 => \A i \in 1 .. 39 : List[i].name = i /\ List[i].up = V2Ups[i]
           /\ ~V2 => \A i \in 1 .. 39 : List[i].name = V1Name(i) /\ List[i].up = V1Ups[i]
           /\ \A i \in 1 .. 39 : List[i].name \in 1 .. 39 /\ IsSeq(List[i].up)
<1>1. db.version \in {"v1", "v2"} /\ db.dialect \in Dialects
    BY BootConstants
<1>2. DOMAIN V1Ups = 1 .. 39 /\ DOMAIN V2Ups = 1 .. 39
    BY DEF V1Ups, V2Ups
<1>3. /\ DOMAIN V1Migrations = 1 .. 39 /\ Len(V1Migrations) = 39
      /\ \A i \in 1 .. 39 : V1Migrations[i] = [name |-> V1Name(i), up |-> V1Ups[i]]
    BY <1>2 DEF V1Migrations
<1>4. /\ DOMAIN V2Migrations = 1 .. 39 /\ Len(V2Migrations) = 39
      /\ \A i \in 1 .. 39 : V2Migrations[i] = [name |-> i, up |-> V2Ups[i]]
    BY <1>2 DEF V2Migrations
<1>5. DOMAIN List = 1 .. 39 /\ Len(List) = 39
    BY <1>3, <1>4 DEF List
<1>6. Again = 40
    BY <1>5 DEF Again
<1>7. \A i \in 1 .. 39 : Migration(i) = List[i]
    BY <1>6 DEF Migration
<1>8. Migration(40) = List[30]
    BY <1>6 DEF Migration, TriggersMigration
<1>9. V2 => \A i \in 1 .. 39 : List[i].name = i /\ List[i].up = V2Ups[i]
    BY <1>4 DEF List
<1>10. ~V2 => \A i \in 1 .. 39 : List[i].name = V1Name(i) /\ List[i].up = V1Ups[i]
    BY <1>3 DEF List
<1>11. \A i \in 1 .. 39 : V1Name(i) \in 1 .. 39
    BY DEF V1Name
<1>12. \A i \in 1 .. 39 : List[i].name \in 1 .. 39 /\ IsSeq(List[i].up)
    BY <1>9, <1>10, <1>11, V1Statements, V2Statements, Zenon
<1> QED BY <1>1, <1>5, <1>6, <1>7, <1>8, <1>9, <1>10, <1>12, Zenon

-----------------------------------------------------------------------------
(* What a start keeps in its variables *)

StartType ==
    /\ db \in Databases
    /\ phase \in {"start", "migrate", "restore", "ready"}
    /\ meta \subseteq 1 .. 39
    /\ todo \subseteq 1 .. 40
    /\ 40 \in todo => V2 /\ OnSqlite
    /\ todo # {} => phase = "migrate" /\ at \in 1 .. Len(Up) + 1
    /\ todo = {} => at = 1 /\ failed = "none"
    /\ failed \in {"none", "exists", "missing"}
    /\ failed # "none" => ~V2 /\ Current \in {23, 24, 27}
    /\ \A s \in loose : s.do \in {"create", "data"}
    /\ loose # {} => ~OnSqlite
    /\ phase = "start" => loose = {} /\ rejected = FALSE
    /\ rejected \in BOOLEAN /\ flag \in BOOLEAN /\ stale \in BOOLEAN

\* The migration that runs.
LEMMA CurrentFacts ==
    ASSUME StartType, todo # {}
    PROVE  /\ Current \in todo /\ Current \in 1 .. 40 /\ \A i \in todo : Current <= i
           /\ Current = 40 => V2 /\ OnSqlite /\ Up = List[30].up
           /\ Current # 40 => Current \in 1 .. 39 /\ Up = List[Current].up
           /\ Migration(Current) = List[IF Current = 40 THEN 30 ELSE Current]
           /\ Migration(Current).name \in 1 .. 39
           /\ IsSeq(Up) /\ Len(Up) \in Nat /\ at \in 1 .. Len(Up) + 1
<1>1. todo \in SUBSET Nat /\ todo \subseteq 1 .. 40
    BY DEF StartType
<1>2. Current \in todo /\ \A i \in todo : Current <= i
    BY <1>1, MinOf DEF Current
<1>3. Current \in 1 .. 40
    BY <1>1, <1>2
<1>4. Current = 40 => V2 /\ OnSqlite
    BY <1>2 DEF StartType
<1>5. db \in Databases
    BY DEF StartType
<1> HIDE DEF Current
<1>6. Migration(Current) = List[IF Current = 40 THEN 30 ELSE Current]
  <2>1. CASE Current = 40
    BY <1>5, <2>1, ListFacts, Zenon
  <2>2. CASE Current # 40
    <3>1. Current \in 1 .. 39
        BY <1>3, <2>2
    <3> QED BY <1>5, <2>2, <3>1, ListFacts, Zenon
  <2> QED BY <2>1, <2>2
<1>7. Up = List[IF Current = 40 THEN 30 ELSE Current].up
    BY <1>6 DEF Up
<1>8. (IF Current = 40 THEN 30 ELSE Current) \in 1 .. 39
    BY <1>3
<1>9. Migration(Current).name \in 1 .. 39 /\ IsSeq(Up)
    BY <1>5, <1>6, <1>7, <1>8, ListFacts, Zenon
<1>10. Len(Up) \in Nat
    BY <1>9 DEF IsSeq
<1>11. at \in 1 .. Len(Up) + 1
    BY DEF StartType
<1> QED BY <1>2, <1>3, <1>4, <1>6, <1>7, <1>9, <1>10, <1>11

\* Every statement of the list, whatever the version.
LEMMA ListStatements ==
    ASSUME db \in Databases, NEW i \in 1 .. 39, NEW j \in 1 .. Len(List[i].up)
    PROVE  /\ Sound(List[i].up[j])
           /\ List[i].up[j].mode = "loose" => List[i].up[j].do \in {"create", "data"}
           /\ V2 => OfV2(List[i].up[j], i, j)
           /\ ~V2 => OfV1(List[i].up[j], i, j)
<1>1. CASE V2
  <2>1. OfV2(List[i].up[j], i, j)
    BY <1>1, ListFacts, V2Statements, Zenon
  <2> QED BY <1>1, <2>1 DEF OfV2
<1>2. CASE ~V2
  <2>1. OfV1(List[i].up[j], i, j)
    BY <1>2, ListFacts, V1Statements, Zenon
  <2> QED BY <1>2, <2>1 DEF OfV1
<1> QED BY <1>1, <1>2

-----------------------------------------------------------------------------
(* What a statement does to the schema *)

LEMMA EffectAdds ==
    ASSUME NEW s, Sound(s), NEW sch, NEW d, NEW o \in Effect(sch, s, d), o \notin sch
    PROVE  \/ s.do \in {"createIfMissing", "create", "ensure"} /\ o = s.what
           \/ s.do = "createIfMissing" /\ o \in s.cols
BY DEF Sound, Effect, Rebuilt

LEMMA EffectDrops ==
    ASSUME NEW s, Sound(s), NEW sch, NEW d, NEW o \in sch, o \notin Effect(sch, s, d)
    PROVE  \/ s.do \in {"drop", "dropIfThere"} /\ (o = s.what \/ (s.what[1] = "table" /\ o[2] = s.what[2]))
           \/ s.do = "rebuild" /\ o = s.what
           \/ s.do = "ensure" /\ o = s.old
           \/ s.do \in {"rebuild", "ensure"} /\ d # "mysql" /\ o[2] = s.what[2] /\ o[1] \in {"index", "trigger"}
BY DEF Sound, Effect, Rebuilt

LEMMA EffectMakes ==
    ASSUME NEW s, Sound(s), NEW sch, NEW d
    PROVE  /\ s.do \in {"createIfMissing", "create", "ensure"} => s.what \in Effect(sch, s, d)
           /\ s.do \in {"drop", "dropIfThere"} /\ s.what[1] # "table" => s.what \notin Effect(sch, s, d)
           /\ s.do \in {"drop", "dropIfThere"} /\ s.what[1] = "table" =>
                 \A o \in Effect(sch, s, d) : o[2] # s.what[2]
           /\ s.do \in {"create", "createIfMissing"} => sch \subseteq Effect(sch, s, d)
           /\ s.do = "data" => Effect(sch, s, d) = sch
BY DEF Sound, Effect, Rebuilt

-----------------------------------------------------------------------------
(* A step of the migrations *)

\* The next migration of what is left.
LEMMA CurrentNext ==
    ASSUME db \in Databases, db' = db, todo' \subseteq 1 .. 40, todo' # {}
    PROVE  /\ Current' \in todo' /\ Current' \in 1 .. 40 /\ \A i \in todo' : Current' <= i
           /\ Up' = Migration(Current').up /\ Len(Up') \in Nat
<1>1. todo' \in SUBSET Nat
    OBVIOUS
<1>2. Min(todo') \in todo' /\ \A i \in todo' : Min(todo') <= i
    BY <1>1, MinOf
<1>3. PICK c \in 1 .. 40 : c = Min(todo')
    BY <1>2
<1>4. Current' = c
    BY <1>3 DEF Current
<1>5. List' = List
    BY DEF List, V2
<1>6. \A i : Migration(i)' = Migration(i)
    BY <1>5 DEF Migration, Again
<1>7. Up' = Migration(c).up
    BY <1>4, <1>5 DEF Up, Migration, Again
<1>8. IsSeq(Migration(c).up)
  <2>1. CASE c = 40
    <3>1. Migration(40) = List[30] /\ \A i \in 1 .. 39 : IsSeq(List[i].up)
        BY ListFacts, Zenon
    <3> QED BY <2>1, <3>1
  <2>2. CASE c # 40
    <3>1. c \in 1 .. 39
        BY <2>2
    <3> QED BY <3>1, ListFacts, Zenon
  <2> QED BY <2>1, <2>2
<1>9. Len(Up') \in Nat
    BY <1>7, <1>8 DEF IsSeq
<1> QED BY <1>2, <1>3, <1>4, <1>7, <1>9

\* The statement that runs.
LEMMA StatementFacts ==
    ASSUME StartType, todo # {}, at <= Len(Up)
    PROVE  LET i == IF Current = 40 THEN 30 ELSE Current
           IN  /\ i \in 1 .. 39 /\ at \in 1 .. Len(List[i].up) /\ Up = List[i].up
               /\ Sound(Up[at])
               /\ Up[at].mode = "loose" => Up[at].do \in {"create", "data"}
               /\ V2 => OfV2(Up[at], i, at)
               /\ ~V2 => OfV1(Up[at], i, at) /\ i = Current
<1> DEFINE i == IF Current = 40 THEN 30 ELSE Current
<1>1. i \in 1 .. 39 /\ Up = List[i].up /\ at \in 1 .. Len(Up) /\ (~V2 => i = Current)
    BY CurrentFacts
<1>2. db \in Databases
    BY DEF StartType
<1> HIDE DEF i
<1>3. at \in 1 .. Len(List[i].up)
    BY <1>1
<1>4. /\ Sound(List[i].up[at])
      /\ List[i].up[at].mode = "loose" => List[i].up[at].do \in {"create", "data"}
      /\ V2 => OfV2(List[i].up[at], i, at)
      /\ ~V2 => OfV1(List[i].up[at], i, at)
    BY <1>1, <1>2, <1>3, ListStatements
<1>5. /\ Sound(Up[at])
      /\ Up[at].mode = "loose" => Up[at].do \in {"create", "data"}
      /\ V2 => OfV2(Up[at], i, at)
      /\ ~V2 => OfV1(Up[at], i, at)
    BY <1>1, <1>4
<1> QED BY <1>1, <1>3, <1>5 DEF i

\* It goes on to the next one, or it ends the migration.
LEMMA RunFacts ==
    ASSUME StartType, RunStatement
    PROVE  /\ Migrating /\ todo # {} /\ phase = "migrate" /\ at \in 1 .. Len(Up)
           /\ Len(Up) \in Nat /\ db.dialect \in Up[at].on
           /\ UNCHANGED <<db, meta, phase, searchVars, crashes>>
           /\ Error(schema, Up[at]) \in {"none", "exists", "missing"}
<1>1. Migrating /\ todo # {} /\ phase = "migrate" /\ at <= Len(Up) /\ db.dialect \in Up[at].on
    BY DEF RunStatement, Migrating
<1>2. at \in 1 .. Len(Up) /\ Len(Up) \in Nat
    BY <1>1, CurrentFacts
<1>3. UNCHANGED <<db, meta, phase, searchVars, crashes>>
    BY DEF RunStatement
<1>4. Error(schema, Up[at]) \in {"none", "exists", "missing"}
    BY DEF Error
<1> QED BY <1>1, <1>2, <1>3, <1>4

LEMMA RunLooseOne ==
    ASSUME StartType, RunStatement, Up[at].mode = "loose", ~OnSqlite
    PROVE  /\ schema' = schema /\ at' = at + 1 /\ todo' = todo /\ failed' = failed /\ rejected' = rejected
           /\ loose' = loose \cup {Up[at]}
BY DEF RunStatement

LEMMA RunWaited ==
    ASSUME StartType, RunStatement, Up[at].mode # "loose" \/ OnSqlite
    PROVE  LET s == Up[at]
               e == Error(schema, s)
               error == IF s.mode = "ifMissing" /\ e = "exists" THEN "none" ELSE e
               worst == IF failed # "none" THEN failed ELSE error
           IN  /\ schema' = IF e = "none" THEN Effect(schema, s, db.dialect) ELSE schema
               /\ loose' = loose
               /\ rejected' = (rejected \/ (s.mode = "loose" /\ error # "none"))
               /\ \/ /\ s.mode \in {"await", "ifMissing", "last"} /\ worst # "none"
                     /\ GiveUp(worst)
                  \/ /\ ~(s.mode \in {"await", "ifMissing", "last"} /\ worst # "none")
                     /\ at' = at + 1 /\ todo' = todo
                     /\ failed' = IF s.mode = "all" THEN worst ELSE "none"
BY DEF RunStatement

LEMMA RunOutcome ==
    ASSUME StartType, RunStatement
    PROVE  /\ \/ at' = at + 1 /\ todo' = todo
              \/ todo' = todo \ {Current} /\ at' = 1 /\ failed' = "none"
              \/ todo' = todo /\ at' = Len(Up) + 1 /\ failed' = "none" /\ V2 /\ OnSqlite
           /\ failed' \in {"none", "exists", "missing"}
           /\ failed' # "none" => /\ at' = at + 1 /\ todo' = todo
                                  /\ failed = "none" => Up[at].mode = "all"
           /\ loose' = loose \/ (loose' = loose \cup {Up[at]} /\ Up[at].mode = "loose" /\ ~OnSqlite)
           /\ rejected' \in BOOLEAN
<1>1. failed \in {"none", "exists", "missing"} /\ rejected \in BOOLEAN
    BY DEF StartType
<1>2. CASE Up[at].mode = "loose" /\ ~OnSqlite
    BY <1>1, <1>2, RunLooseOne
<1>3. CASE Up[at].mode # "loose" \/ OnSqlite
  <2>1. PICK e \in {"none", "exists", "missing"} : e = Error(schema, Up[at])
    BY RunFacts
  <2>2. PICK m : m = Up[at].mode
    OBVIOUS
  <2>3. PICK error \in {"none", "exists", "missing"} : error = IF m = "ifMissing" /\ e = "exists" THEN "none" ELSE e
    OBVIOUS
  <2>4. PICK worst \in {"none", "exists", "missing"} : worst = IF failed # "none" THEN failed ELSE error
    BY <1>1
  <2>5. /\ loose' = loose
        /\ rejected' = (rejected \/ (m = "loose" /\ error # "none"))
        /\ \/ /\ m \in {"await", "ifMissing", "last"} /\ worst # "none"
              /\ GiveUp(worst)
           \/ /\ at' = at + 1 /\ todo' = todo
              /\ failed' = IF m = "all" THEN worst ELSE "none"
    BY <1>3, <2>1, <2>2, <2>3, <2>4, RunWaited
  <2>6. rejected' \in BOOLEAN
    BY <2>5
  <2>7. CASE m \in {"await", "ifMissing", "last"} /\ worst # "none" /\ GiveUp(worst)
    BY <2>5, <2>6, <2>7 DEF GiveUp, NextMigration
  <2>8. CASE at' = at + 1 /\ todo' = todo /\ failed' = IF m = "all" THEN worst ELSE "none"
    BY <1>1, <2>2, <2>4, <2>5, <2>6, <2>8
  <2> QED BY <2>5, <2>7, <2>8
<1> QED BY <1>2, <1>3

\* Only an error, of this statement or of an earlier one of its Promise.all, ends
\* the migration early; V2 records one that ended with an object that exists.
LEMMA RunGoesOn ==
    ASSUME StartType, RunStatement
    PROVE  /\ Up[at].mode \in {"all", "caught", "loose"} => at' = at + 1 /\ todo' = todo
           /\ failed = "none" /\ Error(schema, Up[at]) = "none" => at' = at + 1 /\ todo' = todo
           /\ failed = "none" /\ Error(schema, Up[at]) # "missing" /\ V2 /\ OnSqlite => todo' = todo
           /\ ~OnSqlite /\ Up[at].mode = "loose" => schema' = schema
           /\ OnSqlite \/ Up[at].mode # "loose" =>
                schema' = IF Error(schema, Up[at]) = "none" THEN Effect(schema, Up[at], db.dialect) ELSE schema
<1>1. CASE Up[at].mode = "loose" /\ ~OnSqlite
    BY <1>1, RunLooseOne
<1>2. CASE Up[at].mode # "loose" \/ OnSqlite
  <2>1. PICK e \in {"none", "exists", "missing"} : e = Error(schema, Up[at])
    BY RunFacts
  <2>2. PICK m : m = Up[at].mode
    OBVIOUS
  <2>3. PICK error : error = IF m = "ifMissing" /\ e = "exists" THEN "none" ELSE e
    OBVIOUS
  <2>4. PICK worst : worst = IF failed # "none" THEN failed ELSE error
    OBVIOUS
  <2>5. /\ schema' = IF e = "none" THEN Effect(schema, Up[at], db.dialect) ELSE schema
        /\ \/ /\ m \in {"await", "ifMissing", "last"} /\ worst # "none"
              /\ GiveUp(worst)
           \/ at' = at + 1 /\ todo' = todo
    BY <1>2, <2>1, <2>2, <2>3, <2>4, RunWaited
  <2>6. failed = "none" /\ e # "missing" /\ V2 /\ OnSqlite => todo' = todo
    BY <2>1, <2>3, <2>4, <2>5 DEF GiveUp
  <2>7. failed = "none" /\ e = "none" => at' = at + 1 /\ todo' = todo
    BY <2>3, <2>4, <2>5
  <2>8. m \in {"all", "caught", "loose"} => at' = at + 1 /\ todo' = todo
    BY <2>5
  <2> QED BY <1>2, <2>1, <2>2, <2>5, <2>6, <2>7, <2>8
<1> QED BY <1>1, <1>2

LEMMA StartTypeInit == Init => StartType
BY DEF Init, Idle, StartType

LEMMA StartTypeStep == StartType /\ [Next]_vars => StartType'
<1> SUFFICES ASSUME StartType, [Next]_vars PROVE StartType'
    OBVIOUS
<1>0. db \in Databases /\ db.dialect \in Dialects
    BY ListFacts, Zenon DEF StartType
<1>1. CASE StartMigrations
  <2>1. todo = {} /\ at = 1 /\ failed = "none" /\ loose = {} /\ rejected = FALSE
    BY <1>1 DEF StartType, StartMigrations
  <2>2. NotCompleted \subseteq 1 .. 39 /\ Again = 40
    BY <1>0, ListFacts, Zenon DEF NotCompleted
  <2>3. todo' \subseteq 1 .. 40 /\ meta' \subseteq 1 .. 39 /\ (40 \in todo' => V2 /\ OnSqlite)
    <3>1. meta' \subseteq meta /\ (todo' = NotCompleted \/ (todo' = NotCompleted \cup {40} /\ V2 /\ OnSqlite))
        BY <1>1, <2>2 DEF StartMigrations, TriggersLost
    <3>2. meta \subseteq 1 .. 39
        BY DEF StartType
    <3>3. todo' \subseteq 1 .. 40 /\ (40 \in todo' => V2 /\ OnSqlite)
      <4>1. CASE todo' = NotCompleted
        BY <2>2, <4>1
      <4>2. CASE todo' = NotCompleted \cup {40} /\ V2 /\ OnSqlite
        <5>1. todo' \subseteq 1 .. 40
            BY <2>2, <4>2
        <5> QED BY <4>2, <5>1
      <4> QED BY <3>1, <4>1, <4>2
    <3> QED BY <3>1, <3>2, <3>3
  <2>4. /\ db' = db /\ phase' = "migrate" /\ at' = 1 /\ failed' = "none" /\ loose' = {} /\ rejected' = FALSE
        /\ flag' = flag /\ stale' = stale
    BY <1>1, <2>1 DEF StartMigrations, searchVars
  <2>5. todo' # {} => Len(Up') \in Nat
    BY <1>0, <2>3, <2>4, CurrentNext
  <2>6. todo' # {} => at' \in 1 .. Len(Up') + 1
    BY <2>4, <2>5
  <2>7. (40 \in todo' => V2' /\ OnSqlite') /\ flag' \in BOOLEAN /\ stale' \in BOOLEAN
    BY <2>3, <2>4 DEF V2, OnSqlite, StartType
  <2> QED BY <1>0, <2>3, <2>4, <2>6, <2>7, Zenon DEF StartType
<1>2. CASE SkipStatement
  <2>1. Migrating /\ todo # {} /\ at <= Len(Up) /\ at' = at + 1
        /\ UNCHANGED <<db, schema, meta, phase, todo, failed, loose, rejected, searchVars, crashes>>
    BY <1>2 DEF SkipStatement, Migrating
  <2>2. Up' = Up /\ Current' = Current /\ V2' = V2 /\ OnSqlite' = OnSqlite
    BY <2>1 DEF Up, Current, Migration, List, Again, V2, OnSqlite
  <2>3. at' \in 1 .. Len(Up) + 1
    BY <2>1, CurrentFacts
  <2> QED BY <2>1, <2>2, <2>3 DEF StartType, searchVars
<1>3. CASE RunStatement
  <2>1. /\ todo # {} /\ phase = "migrate" /\ at \in 1 .. Len(Up) /\ Len(Up) \in Nat
        /\ UNCHANGED <<db, meta, phase, searchVars, crashes>>
    BY <1>3, RunFacts
  <2>2. V2' = V2 /\ OnSqlite' = OnSqlite
    BY <2>1 DEF V2, OnSqlite
  <2>3. todo' = todo => Up' = Up /\ Current' = Current
    BY <2>1 DEF Up, Current, Migration, List, Again, V2
  <2>4. todo' \subseteq todo /\ todo' \subseteq 1 .. 40 /\ (40 \in todo' => V2 /\ OnSqlite)
    BY <1>3, RunOutcome DEF StartType
  <2>5. todo' # {} => at' \in 1 .. Len(Up') + 1
    <3>1. CASE todo' = todo
        BY <1>3, <2>1, <2>3, <3>1, RunOutcome
    <3>2. CASE todo' # todo
        BY <1>0, <1>3, <2>1, <2>4, <3>2, RunOutcome, CurrentNext
    <3> QED BY <3>1, <3>2
  <2>6. todo' = {} => at' = 1 /\ failed' = "none"
    BY <1>3, <2>1, RunOutcome
  <2>7. failed' # "none" => ~V2' /\ Current' \in {23, 24, 27}
    <3> SUFFICES ASSUME failed' # "none" PROVE ~V2' /\ Current' \in {23, 24, 27}
        OBVIOUS
    <3>1. todo' = todo /\ (failed = "none" => Up[at].mode = "all")
        BY <1>3, RunOutcome
    <3>2. CASE failed # "none"
        BY <2>2, <2>3, <3>1, <3>2 DEF StartType
    <3>3. CASE Up[at].mode = "all"
        <4>1. V2 => OfV2(Up[at], IF Current = 40 THEN 30 ELSE Current, at)
            BY <2>1, StatementFacts
        <4>2. ~V2 => OfV1(Up[at], Current, at)
            BY <2>1, StatementFacts
        <4>3. ~V2
            BY <3>3, <4>1 DEF OfV2
        <4>4. Current \in {23, 24, 27}
            BY <3>3, <4>2, <4>3 DEF OfV1
        <4> QED BY <2>2, <2>3, <3>1, <4>3, <4>4
    <3> QED BY <3>1, <3>2, <3>3
  <2>8. \A s \in loose' : s.do \in {"create", "data"}
    <3>1. Up[at].mode = "loose" => Up[at].do \in {"create", "data"}
        BY <2>1, StatementFacts
    <3> QED BY <1>3, <3>1, RunOutcome DEF StartType
  <2>9. loose' # {} => ~OnSqlite'
    BY <1>3, <2>2, RunOutcome DEF StartType
  <2>10. failed' \in {"none", "exists", "missing"} /\ rejected' \in BOOLEAN
    BY <1>3, RunOutcome
  <2> QED BY <2>1, <2>2, <2>4, <2>5, <2>6, <2>7, <2>8, <2>9, <2>10 DEF StartType, searchVars
<1>4. CASE RecordMigration
  <2>1. /\ Migrating /\ todo # {} /\ phase = "migrate" /\ meta' = meta \cup {Migration(Current).name}
        /\ todo' = todo \ {Current} /\ at' = 1 /\ failed' = "none"
        /\ UNCHANGED <<db, schema, phase, loose, rejected, searchVars, crashes>>
    BY <1>4 DEF RecordMigration, Migrating, NextMigration
  <2>2. Migration(Current).name \in 1 .. 39
    BY <2>1, CurrentFacts
  <2>3. todo' \subseteq 1 .. 40 /\ meta' \subseteq 1 .. 39 /\ (40 \in todo' => V2 /\ OnSqlite)
    BY <2>1, <2>2 DEF StartType
  <2>4. todo' # {} => Len(Up') \in Nat
    BY <1>0, <2>1, <2>3, CurrentNext
  <2>5. todo' # {} => at' \in 1 .. Len(Up') + 1
    BY <2>1, <2>4
  <2>6. (40 \in todo' => V2' /\ OnSqlite') /\ (loose' # {} => ~OnSqlite')
    BY <2>1, <2>3 DEF V2, OnSqlite, StartType
  <2> QED BY <1>0, <2>1, <2>3, <2>5, <2>6 DEF StartType, searchVars
<1>5. CASE RunLoose
  <2>1. /\ loose' \subseteq loose /\ loose # {} /\ rejected' \in BOOLEAN
        /\ UNCHANGED <<db, meta, phase, todo, at, failed, searchVars, crashes>>
    BY <1>5 DEF RunLoose, StartType
  <2>2. Up' = Up /\ Current' = Current /\ V2' = V2 /\ OnSqlite' = OnSqlite
    BY <2>1 DEF Up, Current, Migration, List, Again, V2, OnSqlite
  <2> QED BY <2>1, <2>2 DEF StartType, searchVars
<1>6. CASE EndMigrations \/ RestoreAtBoot \/ RestoreFails
  <2>1. /\ phase # "start" /\ todo = {} /\ phase' \in {"restore", "ready"} /\ flag' \in BOOLEAN /\ stale' \in BOOLEAN
        /\ UNCHANGED <<db, meta, todo, at, failed, loose, rejected>>
    BY <1>6 DEF EndMigrations, RestoreAtBoot, RestoreFails, Restored, StartType, searchVars
  <2> QED BY <2>1 DEF StartType, V2, OnSqlite
<1>7. CASE RestoreAtTick \/ Defer \/ WriteRecord
  <2>1. phase = "ready" /\ flag' \in BOOLEAN /\ stale' \in BOOLEAN /\ UNCHANGED <<db, meta, bootVars>>
    BY <1>7 DEF RestoreAtTick, Defer, WriteRecord, Restored, Ticking, StartType
  <2>2. Up' = Up /\ Current' = Current /\ V2' = V2 /\ OnSqlite' = OnSqlite
    BY <2>1 DEF Up, Current, Migration, List, Again, V2, OnSqlite, bootVars
  <2> QED BY <2>1, <2>2 DEF StartType, bootVars
<1>8. CASE Crash \/ Die
  <2>1. /\ phase' = "start" /\ todo' = {} /\ at' = 1 /\ failed' = "none" /\ loose' = {} /\ rejected' = FALSE
        /\ UNCHANGED <<db, schema, meta, searchVars>>
    BY <1>8 DEF Crash, Die, Down
  <2> QED BY <2>1 DEF StartType, searchVars
<1>9. CASE UNCHANGED vars
  <2>1. UNCHANGED <<db, schema, meta, bootVars, searchVars>>
    BY <1>9 DEF vars
  <2>2. Up' = Up /\ Current' = Current /\ V2' = V2 /\ OnSqlite' = OnSqlite
    BY <2>1 DEF Up, Current, Migration, List, Again, V2, OnSqlite, bootVars
  <2> QED BY <2>1, <2>2 DEF StartType, bootVars, searchVars
<1> QED BY <1>1, <1>2, <1>3, <1>4, <1>5, <1>6, <1>7, <1>8, <1>9 DEF Next

-----------------------------------------------------------------------------
(* What is still to come *)

\* The statement k of migration i is still to run: it is not recorded, and this
\* start has it before it.
PendingAt(i, k) ==
    /\ List[i].name \notin meta
    /\ phase \in {"start", "migrate"}
    /\ phase = "migrate" => i \in todo /\ (i = Current => at <= k)

\* The migration ends before its statement k, by an error.
StopsBefore(i, k) == RunStatement /\ Current = i /\ at < k /\ ~(at' = at + 1 /\ todo' = todo)

\* The list has such a statement for the dialect, and no earlier migration is
\* recorded by the name of its own.
Listed(i, k) ==
    /\ i \in 1 .. 39 /\ k \in 1 .. Len(List[i].up) /\ db.dialect \in List[i].up[k].on
    /\ \A j \in 1 .. 39 : j < i => List[j].name # List[i].name

LEMMA PendingStep ==
    ASSUME StartType, [Next]_vars, NEW i, NEW k, Listed(i, k), PendingAt(i, k), ~(RunStatement /\ Current = i /\ at = k), ~StopsBefore(i, k)
    PROVE  PendingAt(i, k)'
<1>0. /\ db \in Databases /\ Len(List[i].up) \in Nat /\ k \in Nat /\ phase \in {"start", "migrate"}
      /\ i \in 1 .. 39 /\ k \in 1 .. Len(List[i].up)
  <2>1. db \in Databases
    BY DEF StartType
  <2>2. i \in 1 .. 39 /\ k \in 1 .. Len(List[i].up)
    BY DEF Listed
  <2>3. IsSeq(List[i].up)
    BY <2>1, <2>2, ListFacts, Zenon
  <2>4. Len(List[i].up) \in Nat
    BY <2>3 DEF IsSeq
  <2> QED BY <2>1, <2>2, <2>4 DEF PendingAt
<1>1. CASE StartMigrations
  <2>1. db' = db /\ phase' = "migrate" /\ meta' \subseteq meta /\ at' = at /\ NotCompleted \subseteq todo'
    BY <1>1 DEF StartMigrations
  <2>2. phase = "start" /\ todo = {} /\ at = 1
    BY <1>1 DEF StartMigrations, StartType
  <2>3. DOMAIN List = 1 .. 39 /\ List' = List
    BY <1>0, <2>1, ListFacts, Zenon DEF List, V2
  <2>4. i \in todo'
    BY <1>0, <2>1, <2>3 DEF PendingAt, NotCompleted
  <2> QED BY <1>0, <2>1, <2>2, <2>3, <2>4 DEF PendingAt
<1>2. CASE SkipStatement
  <2>1. Migrating /\ todo # {} /\ at' = at + 1 /\ db.dialect \notin Up[at].on /\ at <= Len(Up)
        /\ UNCHANGED <<db, meta, phase, todo>>
    BY <1>2 DEF SkipStatement, Migrating
  <2>2. Up' = Up /\ Current' = Current /\ List' = List
    BY <2>1 DEF Up, Current, Migration, List, Again, V2
  <2>3. i = Current => Up = List[i].up /\ at \in Nat
    <3>1. i # 40
        BY <1>0
    <3>2. /\ Current # 40 => Up = List[Current].up
          /\ Len(Up) \in Nat /\ at \in 1 .. Len(Up) + 1
        BY <2>1, CurrentFacts
    <3> QED BY <3>1, <3>2
  <2>4. i = Current => at # k
    BY <2>1, <2>3 DEF Listed
  <2> QED BY <1>0, <2>1, <2>2, <2>3, <2>4 DEF PendingAt
<1>3. CASE RunStatement
  <2>1. /\ todo # {} /\ phase = "migrate" /\ at \in 1 .. Len(Up) /\ Len(Up) \in Nat /\ UNCHANGED <<db, meta, phase>>
    BY <1>3, RunFacts
  <2>2. List' = List /\ (todo' = todo => Current' = Current)
    BY <2>1 DEF Current, List, V2
  <2>3. i \in todo /\ (i = Current => at <= k)
    BY <2>1 DEF PendingAt
  <2>4. CASE Current = i
    BY <1>0, <1>3, <2>1, <2>2, <2>3, <2>4 DEF PendingAt, StopsBefore
  <2>5. CASE Current # i
    <3>1. i \in todo' /\ (todo' = todo \/ at' = 1)
        BY <1>3, <2>3, <2>5, RunOutcome
    <3> QED BY <1>0, <2>1, <2>2, <2>5, <3>1 DEF PendingAt
  <2> QED BY <2>4, <2>5
<1>4. CASE RecordMigration
  <2>1. /\ todo # {} /\ phase = "migrate" /\ meta' = meta \cup {Migration(Current).name} /\ at = Len(Up) + 1
        /\ todo' = todo \ {Current} /\ at' = 1 /\ phase' = phase /\ db' = db
    BY <1>4 DEF RecordMigration, Migrating, NextMigration
  <2>2. List' = List
    BY <2>1 DEF List, V2
  <2>3. i \in todo /\ (i = Current => at <= k)
    BY <2>1 DEF PendingAt
  <2>4. Current <= i /\ Current \in 1 .. 40 /\ (Current # 40 => Current \in 1 .. 39 /\ Up = List[Current].up)
    BY <2>1, <2>3, CurrentFacts
  <2>5. Current \in 1 .. 39 /\ Current < i
    <3>1. Current \in 1 .. 39
        BY <1>0, <2>4
    <3>2. ASSUME Current = i PROVE FALSE
      <4>1. Up = List[i].up /\ at <= k
        BY <2>3, <2>4, <3>1, <3>2
      <4>2. at = Len(List[i].up) + 1
        BY <2>1, <4>1
      <4> QED BY <1>0, <4>1, <4>2
    <3>3. i \in Nat /\ Current \in Nat /\ Current <= i
        BY <1>0, <2>4, <3>1
    <3> QED BY <3>1, <3>2, <3>3
  <2>6. Migration(Current) = List[Current]
    BY <1>0, <2>5, ListFacts, Zenon
  <2>7. List[i].name \notin meta'
    BY <2>1, <2>5, <2>6 DEF PendingAt, Listed
  <2>8. i \in todo'
    BY <2>1, <2>3, <2>5
  <2> QED BY <1>0, <2>1, <2>2, <2>7, <2>8 DEF PendingAt
<1>5. CASE RunLoose
  <2>1. UNCHANGED <<db, meta, phase, todo, at>>
    BY <1>5 DEF RunLoose
  <2>2. Current' = Current /\ List' = List
    BY <2>1 DEF Current, List, V2
  <2> QED BY <2>1, <2>2 DEF PendingAt
<1>6. CASE EndMigrations \/ RestoreAtBoot \/ RestoreFails \/ RestoreAtTick \/ Defer \/ WriteRecord
  <2>1. phase \in {"restore", "ready"} \/ (phase = "migrate" /\ todo = {})
    BY <1>6 DEF EndMigrations, RestoreAtBoot, RestoreFails, RestoreAtTick, Defer, WriteRecord, Ticking
  <2> QED BY <1>0, <2>1 DEF PendingAt
<1>7. CASE Crash \/ Die
  <2>1. phase' = "start" /\ UNCHANGED <<db, meta>>
    BY <1>7 DEF Crash, Die, Down
  <2>2. List' = List
    BY <2>1 DEF List, V2
  <2> QED BY <2>1, <2>2 DEF PendingAt
<1>8. CASE UNCHANGED vars
  <2>1. UNCHANGED <<db, meta, phase, todo, at>>
    BY <1>8 DEF vars, bootVars
  <2>2. Current' = Current /\ List' = List
    BY <2>1 DEF Current, List, V2
  <2> QED BY <2>1, <2>2 DEF PendingAt
<1> QED BY <1>1, <1>2, <1>3, <1>4, <1>5, <1>6, <1>7, <1>8 DEF Next

\* The schema changes by a statement that succeeds, by triggers that come back or
\* by triggers that are put off.
SchemaChange ==
    \/ schema' = schema
    \/ /\ RunStatement /\ schema' = Effect(schema, Up[at], db.dialect) /\ Error(schema, Up[at]) = "none"
       /\ (OnSqlite \/ Up[at].mode # "loose")
    \/ RunLoose /\ \E s \in loose : /\ s.do \in {"create", "data"} /\ ~OnSqlite
                                    /\ Error(schema, s) = "none" /\ schema' = Effect(schema, s, db.dialect)
    \/ (RestoreAtBoot \/ RestoreAtTick) /\ flag /\ schema' = schema \cup snapshot
    \/ Defer /\ schema' = schema \ Triggers(schema)

LEMMA SchemaStep ==
    ASSUME StartType, [Next]_vars
    PROVE  SchemaChange
<1>1. CASE RunStatement
    BY <1>1, RunGoesOn DEF SchemaChange
<1>2. CASE RunLoose
  <2>1. PICK s \in loose : schema' = IF Error(schema, s) = "none" THEN Effect(schema, s, db.dialect) ELSE schema
    BY <1>2 DEF RunLoose
  <2>2. s.do \in {"create", "data"} /\ ~OnSqlite
    BY DEF StartType
  <2> QED BY <1>2, <2>1, <2>2 DEF SchemaChange
<1>3. CASE RestoreAtBoot \/ RestoreAtTick
    BY <1>3 DEF RestoreAtBoot, RestoreAtTick, Restored, SchemaChange
<1>4. CASE Defer
    BY <1>4 DEF Defer, SchemaChange
<1>5. CASE ~(RunStatement \/ RunLoose \/ RestoreAtBoot \/ RestoreAtTick \/ Defer)
  <2>1. schema' = schema
    BY <1>5 DEF Next, vars, StartMigrations, SkipStatement, RecordMigration, EndMigrations, RestoreFails, WriteRecord,
       Crash, Die, Down
  <2> QED BY <2>1 DEF SchemaChange
<1> QED BY <1>1, <1>2, <1>3, <1>4, <1>5

-----------------------------------------------------------------------------
(* The tables *)

\* A table is dropped by name, or stays.
LEMMA TableStays ==
    ASSUME StartType, [Next]_vars, NEW t, TableNamed(t) \in schema, TableNamed(t) \notin schema'
    PROVE  /\ RunStatement /\ Up[at].do \in {"drop", "dropIfThere"}
           /\ Up[at].what[1] = "table" /\ Up[at].what[2] = t
<1>1. SchemaChange
    BY SchemaStep
<1>2. TableNamed(t)[1] = "table" /\ TableNamed(t)[2] = t
    BY DEF TableNamed
<1>3. CASE RunStatement /\ schema' = Effect(schema, Up[at], db.dialect)
  <2>1. Sound(Up[at])
    BY <1>3, RunFacts, StatementFacts
  <2>2. \/ /\ Up[at].do \in {"drop", "dropIfThere"}
           /\ (TableNamed(t) = Up[at].what \/ (Up[at].what[1] = "table" /\ TableNamed(t)[2] = Up[at].what[2]))
        \/ TableNamed(t)[1] \in {"column", "index", "trigger"}
    BY <1>3, <2>1, EffectDrops DEF Sound
  <2> QED BY <1>2, <1>3, <2>2
<1>4. CASE RunLoose /\ \E s \in loose : s.do \in {"create", "data"} /\ schema' = Effect(schema, s, db.dialect)
  <2>1. PICK s : s.do \in {"create", "data"} /\ schema' = Effect(schema, s, db.dialect)
    BY <1>4
  <2>2. schema \subseteq schema'
    BY <2>1 DEF Effect
  <2> QED BY <2>2
<1>5. CASE schema' = schema \/ schema' = schema \cup snapshot
    BY <1>5
<1>6. CASE schema' = schema \ Triggers(schema)
    BY <1>2, <1>6 DEF Triggers
<1> QED BY <1>1, <1>3, <1>4, <1>5, <1>6 DEF SchemaChange

\* The tables that are created if they are missing: by the migration, at its statement.
OwedTable(i, k, t) ==
    \/ V2 /\ i \in 1 .. 28 /\ (OnSqlite \/ i # 5) /\ k = 1 /\ t = Opened[i]
    \/ ~V2 /\ i \in OpensV1 \ {11} /\ k = 1 /\ t = OpenedV1[i]
    \/ ~V2 /\ i = 27 /\ k = 3 /\ t = "fileStore"

\* Each is there, or its statement is still to run.
TablesInv == \A i, k, t : OwedTable(i, k, t) => TableNamed(t) \in schema \/ PendingAt(i, k)

LEMMA OwedFacts ==
    ASSUME StartType, NEW i, NEW k, NEW t, OwedTable(i, k, t)
    PROVE  /\ Listed(i, k)
           /\ Sound(List[i].up[k]) /\ List[i].up[k].do = "createIfMissing" /\ List[i].up[k].what = TableNamed(t)
           /\ List[i].up[k].mode # "loose"
           /\ \A j \in 1 .. Len(List[i].up) : j < k => List[i].up[j].mode = "all"
           /\ t \notin SearchTablesV1 /\ (V2 /\ ~OnSqlite => t # "governance")
           /\ i # 30 /\ i \in 1 .. 39
<1>1. db \in Databases /\ db.dialect \in Dialects
    BY ListFacts, Zenon DEF StartType
<1>2. CASE V2 /\ i \in 1 .. 28 /\ (OnSqlite \/ i # 5) /\ k = 1 /\ t = Opened[i]
  <2>1. \A j \in 1 .. 39 : List[j].name = j /\ List[j].up = V2Ups[j]
    BY <1>1, <1>2, ListFacts, Zenon
  <2>2. Opening(V2Ups[i], t, IF i = 5 THEN {"sqlite"} ELSE Dialects)
    BY <1>2, OpenedV2
  <2>3. PICK u : u = V2Ups[i]
    OBVIOUS
  <2>4. List[i].up = u /\ Len(u) \in Nat \ {0} /\ 1 \in 1 .. Len(u)
    <3>1. List[i].up = u
        BY <1>2, <2>1, <2>3
    <3>2. Len(u) \in Nat \ {0}
        BY <2>2, <2>3 DEF Opening
    <3> QED BY <3>1, <3>2
  <2>5. db.dialect \in u[1].on
    <3>1. u[1].on = IF i = 5 THEN {"sqlite"} ELSE Dialects
        BY <2>2, <2>3 DEF Opening
    <3> QED BY <1>1, <1>2, <3>1 DEF OnSqlite
  <2>6. \A j \in 1 .. 39 : j < i => List[j].name # List[i].name
    BY <1>2, <2>1
  <2>7. Listed(i, 1)
    BY <1>2, <2>4, <2>5, <2>6 DEF Listed
  <2>8. Sound(u[1]) /\ u[1].do = "createIfMissing" /\ u[1].what = TableNamed(t) /\ u[1].mode = "await"
    BY <2>2, <2>3, <2>4 DEF Opening, TableNamed
  <2>9. t \notin SearchTablesV1 /\ (i # 5 => t # "governance")
    BY <1>2 DEF Opened, SearchTablesV1
  <2>10. \A j \in 1 .. Len(u) : ~(j < 1)
    BY <2>4
  <2>11. V2 /\ ~OnSqlite => t # "governance"
    BY <1>2, <2>9
  <2>12. i # 30 /\ i \in 1 .. 39
    BY <1>2
  <2> QED BY <1>2, <2>4, <2>7, <2>8, <2>9, <2>10, <2>11, <2>12
<1>3. CASE ~V2 /\ i \in OpensV1 \ {11} /\ k = 1 /\ t = OpenedV1[i]
  <2>1. \A j \in 1 .. 39 : List[j].name = V1Name(j) /\ List[j].up = V1Ups[j]
    BY <1>1, <1>3, ListFacts, Zenon
  <2>2. Opening(V1Ups[i], t, Dialects)
    BY <1>3, OpensAreV1
  <2>3. PICK u : u = V1Ups[i]
    OBVIOUS
  <2>0. i \in 1 .. 39 /\ i # 30
    BY <1>3 DEF OpensV1
  <2>4. List[i].up = u /\ Len(u) \in Nat \ {0} /\ 1 \in 1 .. Len(u)
    <3>1. List[i].up = u
        BY <2>0, <2>1, <2>3
    <3>2. Len(u) \in Nat \ {0}
        BY <2>2, <2>3 DEF Opening
    <3> QED BY <3>1, <3>2
  <2>5. db.dialect \in u[1].on
    BY <1>1, <2>2, <2>3 DEF Opening
  <2>6. \A j \in 1 .. 39 : j < i => List[j].name # List[i].name
    <3>1. \A j \in 1 .. 39 : j < i => V1Name(j) # V1Name(i)
        BY <1>3 DEF OpensV1, V1Name
    <3>2. List[i].name = V1Name(i)
        BY <2>0, <2>1
    <3> QED BY <2>1, <3>1, <3>2
  <2>7. Listed(i, 1)
    BY <2>0, <2>4, <2>5, <2>6 DEF Listed
  <2>8. Sound(u[1]) /\ u[1].do = "createIfMissing" /\ u[1].what = TableNamed(t) /\ u[1].mode = "await"
    BY <2>2, <2>3, <2>4 DEF Opening, TableNamed
  <2>9. t \notin SearchTablesV1
    BY <1>3 DEF OpenedV1, OpensV1, SearchTablesV1
  <2>10. \A j \in 1 .. Len(u) : ~(j < 1)
    BY <2>4
  <2> QED BY <1>3, <2>0, <2>4, <2>7, <2>8, <2>9, <2>10
<1>4. CASE ~V2 /\ i = 27 /\ k = 3 /\ t = "fileStore"
  <2>1. \A j \in 1 .. 39 : List[j].name = V1Name(j) /\ List[j].up = V1Ups[j]
    BY <1>1, <1>4, ListFacts, Zenon
  <2>2. PICK u : u = V1Ups[27]
    OBVIOUS
  <2>3. /\ Len(u) = 3 /\ Sound(u[3]) /\ u[3].do = "createIfMissing" /\ u[3].what = TableNamed(t)
        /\ u[3].mode = "last" /\ u[3].on = Dialects /\ u[1].mode = "all" /\ u[2].mode = "all"
    BY <1>4, <2>2, FileStoreUp DEF Member, TableNamed
  <2>4. List[27].up = u
    BY <2>1, <2>2
  <2>6. \A j \in 1 .. 39 : j < 27 => List[j].name # List[27].name
    <3>1. \A j \in 1 .. 39 : j < 27 => V1Name(j) # V1Name(27)
        BY DEF V1Name
    <3>2. List[27].name = V1Name(27)
        BY <2>1
    <3> QED BY <2>1, <3>1, <3>2
  <2>7. Listed(27, 3)
    <3>1. 27 \in 1 .. 39 /\ 3 \in 1 .. Len(u)
        BY <2>3
    <3> QED BY <1>1, <2>3, <2>4, <2>6, <3>1 DEF Listed
  <2>8. \A j \in 1 .. Len(u) : j < 3 => u[j].mode = "all"
    <3>1. \A j \in 1 .. 3 : j < 3 => j = 1 \/ j = 2
        OBVIOUS
    <3> QED BY <2>3, <3>1
  <2>9. t \notin SearchTablesV1
    BY <1>4 DEF SearchTablesV1
  <2> QED BY <1>4, <2>3, <2>4, <2>7, <2>8, <2>9
<1> QED BY <1>2, <1>3, <1>4 DEF OwedTable

LEMMA TablesInit == Init => TablesInv
<1> SUFFICES ASSUME Init, NEW i, NEW k, NEW t, OwedTable(i, k, t) PROVE PendingAt(i, k)
    BY DEF TablesInv
<1>1. meta = {} /\ phase = "start"
    BY DEF Init
<1> QED BY <1>1 DEF PendingAt

LEMMA TablesStep == StartType /\ TablesInv /\ [Next]_vars => TablesInv'
<1> SUFFICES ASSUME StartType, TablesInv, [Next]_vars, NEW i, NEW k, NEW t, OwedTable(i, k, t)'
             PROVE  TableNamed(t) \in schema' \/ PendingAt(i, k)'
    BY DEF TablesInv
<1>1. db' = db
    BY DEF Next, vars, StartMigrations, SkipStatement, RunStatement, RecordMigration, RunLoose, EndMigrations,
       RestoreAtBoot, RestoreFails, RestoreAtTick, Defer, WriteRecord, Crash, Die, Down
<1>2. OwedTable(i, k, t)
    BY <1>1 DEF OwedTable, V2, OnSqlite
<1>3. PICK s : s = List[i].up[k]
    OBVIOUS
<1>4. /\ Listed(i, k) /\ Sound(s) /\ s.do = "createIfMissing" /\ s.what = TableNamed(t) /\ s.mode # "loose"
      /\ \A j \in 1 .. Len(List[i].up) : j < k => List[i].up[j].mode = "all"
      /\ t \notin SearchTablesV1 /\ (V2 /\ ~OnSqlite => t # "governance")
      /\ i # 30 /\ i \in 1 .. 39
    BY <1>2, <1>3, OwedFacts
<1>5. CASE TableNamed(t) \in schema
  <2> SUFFICES ASSUME TableNamed(t) \notin schema' PROVE FALSE
    OBVIOUS
  <2>1. /\ RunStatement /\ Up[at].do \in {"drop", "dropIfThere"}
        /\ Up[at].what[1] = "table" /\ Up[at].what[2] = t
    BY <1>5, TableStays
  <2>2. todo # {} /\ at <= Len(Up) /\ db.dialect \in Up[at].on
    BY <2>1, RunFacts
  <2>3. CASE V2
    <3>1. OfV2(Up[at], IF Current = 40 THEN 30 ELSE Current, at)
        BY <2>2, <2>3, StatementFacts
    <3>0. \A m \in 1 .. 6 : SixV2[m][1] = "trigger"
        BY DEF SixV2
    <3>2. Up[at].on = {"mysql"} /\ Sound(Up[at])
        BY <2>1, <3>0, <3>1 DEF OfV2
    <3>3. ~OnSqlite
        BY <2>2, <3>2 DEF OnSqlite
    <3> QED BY <1>4, <2>1, <2>3, <3>2, <3>3 DEF Sound
  <2>4. CASE ~V2
    <3>1. OfV1(Up[at], Current, at)
        BY <2>2, <2>4, StatementFacts
    <3>2. \A m \in 1 .. 6 : SixV1[m][1] = "trigger"
        BY DEF SixV1
    <3>3. t \in SearchTablesV1
        BY <2>1, <3>1, <3>2 DEF OfV1, TableNamed, SearchTablesV1
    <3> QED BY <1>4, <3>3
  <2> QED BY <2>3, <2>4
<1>6. CASE PendingAt(i, k) /\ RunStatement /\ Current = i /\ at = k
  <2>1. todo # {}
    BY <1>6, RunFacts
  <2>2. Up[at] = s
    <3>1. Current # 40
        BY <1>4, <1>6
    <3>2. Up = List[Current].up
        BY <2>1, <3>1, CurrentFacts
    <3> QED BY <1>3, <1>6, <3>2
  <2>3. Error(schema, s) = "none"
    BY <1>4 DEF Error
  <2>4. schema' = Effect(schema, s, db.dialect)
    BY <1>4, <1>6, <2>2, <2>3, RunGoesOn
  <2> QED BY <1>4, <2>4, EffectMakes
<1>7. CASE PendingAt(i, k) /\ ~(RunStatement /\ Current = i /\ at = k)
  <2>1. ~StopsBefore(i, k)
    <3> SUFFICES ASSUME StopsBefore(i, k) PROVE FALSE
        OBVIOUS
    <3>1. RunStatement /\ Current = i /\ at < k /\ ~(at' = at + 1 /\ todo' = todo)
        BY DEF StopsBefore
    <3>2. todo # {} /\ at \in 1 .. Len(Up)
        BY <3>1, RunFacts
    <3>3. Current # 40
        BY <1>4, <3>1
    <3>4. Up = List[i].up
        BY <3>1, <3>2, <3>3, CurrentFacts
    <3>5. Up[at].mode = "all"
        BY <1>4, <3>1, <3>2, <3>4
    <3> QED BY <3>1, <3>5, RunGoesOn
  <2> QED BY <1>4, <1>7, <2>1, PendingStep
<1> QED BY <1>2, <1>5, <1>6, <1>7 DEF TablesInv

\* A table that a statement creates is one of those, or a search table.
LEMMA CreatedTables ==
    ASSUME StartType, NEW o \in Created
    PROVE  \/ \E i, k, t : OwedTable(i, k, t) /\ o = TableNamed(t)
           \/ V2 /\ o[2] \in {"projects_v2_fts", "units_v2_fts"}
           \/ ~V2 /\ OnSqlite /\ \E t \in SearchTablesV1 : o = TableNamed(t)
<1>1. db \in Databases /\ DOMAIN List = 1 .. 39
    BY ListFacts, Zenon DEF StartType
<1>2. PICK i \in 1 .. 39 : \E x \in ToSet(List[i].up) : Creates(x) /\ db.dialect \in x.on /\ o = x.what
    BY <1>1 DEF Created
<1>7. PICK s \in ToSet(List[i].up) : Creates(s) /\ db.dialect \in s.on /\ o = s.what
    BY <1>2
<1>3. IsSeq(List[i].up)
    BY <1>1, ListFacts, Zenon
<1>4. PICK j \in 1 .. Len(List[i].up) : s = List[i].up[j]
    BY <1>3 DEF ToSet, IsSeq
<1>5. CASE V2
  <2>1. OfV2(s, i, j) /\ List[i].up = V2Ups[i]
    BY <1>1, <1>4, <1>5, ListFacts, ListStatements, Zenon
  <2>2. CASE s.what[2] \in {"projects_v2_fts", "units_v2_fts"}
    BY <1>7, <1>5, <2>2
  <2>3. CASE i <= 28 /\ j = 1
    <3>0. i \in 1 .. 28
        BY <2>3
    <3>1. Opening(V2Ups[i], Opened[i], IF i = 5 THEN {"sqlite"} ELSE Dialects)
        BY <3>0, OpenedV2
    <3>2. PICK t : t = Opened[i]
        OBVIOUS
    <3>3. s.what = TableNamed(t) /\ s.on = IF i = 5 THEN {"sqlite"} ELSE Dialects
        BY <1>4, <2>1, <2>3, <3>1, <3>2 DEF Opening, TableNamed
    <3>4. OnSqlite \/ i # 5
        BY <1>7, <3>3 DEF OnSqlite
    <3>5. OwedTable(i, 1, t)
        BY <1>5, <3>0, <3>2, <3>4 DEF OwedTable
    <3> QED BY <1>7, <3>3, <3>5
  <2> QED BY <1>7, <2>1, <2>2, <2>3 DEF OfV2
<1>6. CASE ~V2
  <2>1. OfV1(s, i, j) /\ List[i].up = V1Ups[i]
    BY <1>1, <1>4, <1>6, ListFacts, ListStatements, Zenon
  <2>2. CASE s.on = {"sqlite"} /\ \E t \in SearchTablesV1 : s.what = TableNamed(t)
    BY <1>7, <1>6, <2>2 DEF OnSqlite
  <2>3. CASE i \in OpensV1 /\ j = 1
    <3>1. Opening(V1Ups[i], OpenedV1[i], Dialects)
        BY <2>3, OpensAreV1
    <3>2. PICK t : t = OpenedV1[i]
        OBVIOUS
    <3>3. s.what = TableNamed(t)
        BY <1>4, <2>1, <2>3, <3>1, <3>2 DEF Opening, TableNamed
    <3>4. OwedTable(IF i = 11 THEN 10 ELSE i, 1, t)
        BY <1>6, <2>3, <3>2 DEF OwedTable, OpensV1, OpenedV1
    <3> QED BY <1>7, <3>3, <3>4
  <2>4. CASE i = 27 /\ j = 3
    <3>1. s.what = TableNamed("fileStore")
        BY <1>4, <2>1, <2>4, FileStoreUp DEF Member, TableNamed
    <3>2. OwedTable(27, 3, "fileStore")
        BY <1>6 DEF OwedTable
    <3> QED BY <1>7, <3>1, <3>2
  <2> QED BY <1>7, <2>1, <2>2, <2>3, <2>4 DEF OfV1
<1> QED BY <1>5, <1>6

-----------------------------------------------------------------------------
(* V2's main database *)

\* What is recorded, what is left, and the migration of the triggers that is run
\* once more.
LeftV2 ==
    /\ \A i \in todo : i <= 39 => i \notin meta
    /\ 40 \in todo => 30 \notin meta /\ 30 \notin todo
    /\ phase = "migrate" => \A i \in 1 .. 39 : i \in meta \/ i \in todo \/ (i = 30 /\ 40 \in todo)
    /\ phase \in {"restore", "ready"} => 1 .. 39 \subseteq meta

\* The search tables are there when they are filled.
FilledV2 ==
    todo # {} /\ Current = 29 =>
        /\ at \in 2 .. 4 => TableNamed("projects_v2_fts") \in schema
        /\ at \in 3 .. 4 => TableNamed("units_v2_fts") \in schema

LEMMA TableThereV2 ==
    ASSUME StartType, TablesInv, V2, OnSqlite, todo # {}, NEW m \in 1 .. 28,
           m < Current \/ (m = Current /\ at > 1)
    PROVE  TableNamed(Opened[m]) \in schema
<1>1. OwedTable(m, 1, Opened[m])
    BY DEF OwedTable
<1>2. TableNamed(Opened[m]) \in schema \/ PendingAt(m, 1)
    BY <1>1 DEF TablesInv
<1>3. phase = "migrate" /\ at \in Nat
    BY CurrentFacts DEF StartType
<1>4. \A i \in todo : Current <= i /\ Current \in 1 .. 40
    BY CurrentFacts
<1>5. ASSUME PendingAt(m, 1) PROVE FALSE
  <2>1. m \in todo /\ (m = Current => at <= 1)
    BY <1>3, <1>5 DEF PendingAt
  <2>2. Current <= m /\ Current \in 1 .. 40
    BY <1>4, <2>1
  <2>3. m = Current
    BY <2>2
  <2> QED BY <1>3, <2>1, <2>3
<1> QED BY <1>2, <1>5

\* No statement of V2's main database lacks its table.
LEMMA NoneMissingV2 ==
    ASSUME StartType, TablesInv, FilledV2, V2, OnSqlite, RunStatement
    PROVE  Error(schema, Up[at]) # "missing"
<1>1. todo # {} /\ at \in 1 .. Len(Up) /\ Len(Up) \in Nat
    BY RunFacts
<1>2. PICK i \in 1 .. 39 : i = (IF Current = 40 THEN 30 ELSE Current) /\ Up = List[i].up
  <2>1. at <= Len(Up)
    BY <1>1
  <2>2. LET i == IF Current = 40 THEN 30 ELSE Current IN i \in 1 .. 39 /\ Up = List[i].up
    BY <1>1, <2>1, StatementFacts
  <2> QED BY <2>2
<1>3. db \in Databases
    BY DEF StartType
<1>4. PICK u : u = V2Ups[i]
    OBVIOUS
<1>5. Up = u
    BY <1>2, <1>3, <1>4, ListFacts, Zenon
<1>6. PICK s : s = u[at]
    OBVIOUS
<1>7. i <= Current /\ (i <= 29 => i = Current) /\ (i >= 31 => i = Current) /\ Current \in 1 .. 40
    BY <1>1, <1>2, CurrentFacts
<1>8. SUFFICES Error(schema, s) # "missing"
    BY <1>5, <1>6
<1>9. CASE i \in 1 .. 28
  <2>1. Opening(u, Opened[i], IF i = 5 THEN {"sqlite"} ELSE Dialects)
    BY <1>4, <1>9, OpenedV2
  <2>2. CASE at = 1
    <3>1. s.do = "createIfMissing"
        BY <1>6, <2>1, <2>2 DEF Opening
    <3> QED BY <3>1 DEF Error
  <2>3. CASE at # 1
    <3>1. at \in 2 .. Len(u) /\ at > 1
        BY <1>1, <1>5, <2>3
    <3>2. s.what[2] = Opened[i]
        BY <1>6, <2>1, <3>1 DEF Opening
    <3>3. TableNamed(Opened[i]) \in schema
      <4>1. i = Current
        BY <1>7, <1>9
      <4> QED BY <1>1, <1>9, <3>1, <4>1, TableThereV2
    <3> QED BY <3>2, <3>3 DEF Error, TableNamed
  <2> QED BY <2>2, <2>3
<1>10. CASE i = 29
  <2>1. Len(u) = 4 /\ Current = 29
    BY <1>4, <1>7, <1>10, SearchTablesV2
  <2>2. at = 1 \/ at = 2 \/ at = 3 \/ at = 4
    BY <1>1, <1>5, <2>1
  <2>3. CASE at = 1 \/ at = 2
    <3>1. s.do = "create" /\ s.what[1] = "table"
        BY <1>4, <1>6, <1>10, <2>3, SearchTablesV2 DEF Does
    <3> QED BY <3>1 DEF Error
  <2>4. CASE at = 3 \/ at = 4
    <3>1. s.what[2] = "projects_v2_fts" \/ s.what[2] = "units_v2_fts"
        BY <1>4, <1>6, <1>10, <2>4, SearchTablesV2 DEF Does
    <3>2. TableNamed("projects_v2_fts") \in schema /\ TableNamed("units_v2_fts") \in schema
        BY <1>1, <2>1, <2>4 DEF FilledV2
    <3> QED BY <3>1, <3>2 DEF Error, TableNamed
  <2> QED BY <2>2, <2>3, <2>4
<1>11. CASE i = 30
  <2>1. Len(u) = 12
    BY <1>4, <1>11, TriggersV2
  <2>2. CASE at \in 1 .. 6
    <3>1. s.do = "dropIfThere"
        BY <1>4, <1>6, <1>11, <2>2, TriggersV2 DEF Does
    <3> QED BY <3>1 DEF Error
  <2>3. CASE at \in 7 .. 12
    <3>1. PICK j \in 1 .. 6 : at = 6 + j
        BY <2>3, at - 6 \in 1 .. 6
    <3>2. s.what = SixV2[j]
        BY <1>4, <1>6, <1>11, <3>1, TriggersV2 DEF Does
    <3>3. s.what[2] = Opened[9] \/ s.what[2] = Opened[13]
        BY <3>2 DEF SixV2, Opened
    <3>4. 9 < Current /\ 13 < Current
        BY <1>7, <1>11
    <3>5. TableNamed(Opened[9]) \in schema /\ TableNamed(Opened[13]) \in schema
        BY <1>1, <3>4, TableThereV2
    <3> QED BY <3>3, <3>5 DEF Error, TableNamed
  <2> QED BY <1>1, <1>5, <2>1, <2>2, <2>3
<1>12. CASE i \in 31 .. 39
  <2>1. IsOpened(s.what[2])
    BY <1>1, <1>4, <1>5, <1>6, <1>12, LaterV2 DEF AllLater, Later
  <2>2. PICK m \in 1 .. 28 : Opened[m] = s.what[2]
    BY <2>1 DEF IsOpened
  <2>3. m < Current
    BY <1>7, <1>12
  <2>4. TableNamed(Opened[m]) \in schema
    BY <1>1, <2>3, TableThereV2
  <2> QED BY <2>2, <2>4 DEF Error, TableNamed
<1> QED BY <1>9, <1>10, <1>11, <1>12

\* So none of its migrations is given up.
LEMMA NoneLeftV2 ==
    ASSUME StartType, TablesInv, FilledV2, V2, OnSqlite, RunStatement
    PROVE  todo' = todo /\ failed = "none" /\ (at' = at + 1 \/ at' = Len(Up) + 1)
<1>1. failed = "none"
    BY DEF StartType
<1>2. todo' = todo
    BY <1>1, NoneMissingV2, RunGoesOn
<1>3. todo # {} /\ Current \in todo
    BY RunFacts, CurrentFacts
<1> QED BY <1>1, <1>2, <1>3, RunOutcome

LEMMA LeftStepV2 ==
    ASSUME StartType, TablesInv, FilledV2, LeftV2, V2, OnSqlite, [Next]_vars
    PROVE  LeftV2'
<1>0. /\ db \in Databases /\ DOMAIN List = 1 .. 39 /\ Again = 40
      /\ Migration(40) = List[30] /\ \A i \in 1 .. 39 : List[i].name = i /\ Migration(i) = List[i]
    BY ListFacts, Zenon DEF StartType
<1>1. CASE StartMigrations
  <2>1. phase = "start" /\ phase' = "migrate"
    BY <1>1 DEF StartMigrations
  <2>2. NotCompleted = {i \in 1 .. 39 : i \notin meta}
    BY <1>0 DEF NotCompleted
  <2>3. CASE TriggersLost
    <3>1. meta' = meta \ {30} /\ todo' = NotCompleted \cup {40} /\ 30 \in meta
        BY <1>0, <1>1, <2>3 DEF StartMigrations, TriggersLost, TriggersMigration
    <3> QED BY <2>1, <2>2, <3>1 DEF LeftV2
  <2>4. CASE ~TriggersLost
    <3>1. meta' = meta /\ todo' = NotCompleted
        BY <1>1, <2>4 DEF StartMigrations
    <3> QED BY <2>1, <2>2, <3>1 DEF LeftV2
  <2> QED BY <2>3, <2>4
<1>2. CASE RecordMigration
  <2>1. /\ todo # {} /\ phase = "migrate" /\ phase' = "migrate" /\ meta' = meta \cup {Migration(Current).name}
        /\ todo' = todo \ {Current}
    BY <1>2 DEF RecordMigration, Migrating, NextMigration
  <2>2. Current \in todo /\ Current \in 1 .. 40
    BY <2>1, CurrentFacts
  <2>3. PICK c \in 1 .. 40 : c = Current
    BY <2>2
  <2>4. CASE c = 40
    <3>1. meta' = meta \cup {30} /\ todo' = todo \ {40} /\ 40 \in todo
        BY <1>0, <2>1, <2>2, <2>3, <2>4
    <3> QED BY <2>1, <3>1 DEF LeftV2
  <2>5. CASE c # 40
    <3>1. c \in 1 .. 39 /\ meta' = meta \cup {c} /\ todo' = todo \ {c} /\ c \in todo
        BY <1>0, <2>1, <2>2, <2>3, <2>5
    <3> QED BY <2>1, <3>1 DEF LeftV2
  <2> QED BY <2>4, <2>5
<1>3. CASE EndMigrations
  <2>1. phase = "migrate" /\ todo = {} /\ phase' \in {"restore", "ready"} /\ UNCHANGED <<meta, todo>>
    BY <1>3 DEF EndMigrations
  <2> QED BY <2>1 DEF LeftV2
<1>4. CASE RestoreAtBoot \/ RestoreFails
  <2>1. phase = "restore" /\ phase' = "ready" /\ UNCHANGED <<meta, todo>>
    BY <1>4 DEF RestoreAtBoot, RestoreFails
  <2> QED BY <2>1 DEF LeftV2
<1>5. CASE Crash \/ Die
  <2>1. phase' = "start" /\ meta' = meta /\ todo' = {}
    BY <1>5 DEF Crash, Die, Down
  <2> QED BY <2>1 DEF LeftV2
<1>6. CASE SkipStatement \/ RunStatement \/ RunLoose \/ RestoreAtTick \/ Defer \/ WriteRecord \/ UNCHANGED vars
  <2>1. UNCHANGED <<meta, phase, todo>>
    BY <1>6, NoneLeftV2, RunFacts
       DEF SkipStatement, RunLoose, RestoreAtTick, Defer, WriteRecord, vars, bootVars
  <2> QED BY <2>1 DEF LeftV2
<1> QED BY <1>1, <1>2, <1>3, <1>4, <1>5, <1>6 DEF Next

LEMMA FilledStepV2 ==
    ASSUME StartType, TablesInv, FilledV2, V2, OnSqlite, [Next]_vars
    PROVE  FilledV2'
<1> SUFFICES ASSUME todo' # {}, Current' = 29
             PROVE  /\ at' \in 2 .. 4 => TableNamed("projects_v2_fts") \in schema'
                    /\ at' \in 3 .. 4 => TableNamed("units_v2_fts") \in schema'
    BY DEF FilledV2
<1>0. db \in Databases
    BY DEF StartType
<1>u. PICK u : u = V2Ups[29]
    OBVIOUS
<1>l. List[29].up = u
  <2>1. \A i \in 1 .. 39 : List[i].up = V2Ups[i]
    BY <1>0, ListFacts, Zenon
  <2> QED BY <1>u, <2>1
<1>1. CASE RunStatement
  <2>1. todo' = todo /\ failed = "none" /\ (at' = at + 1 \/ at' = Len(Up) + 1)
    BY <1>1, NoneLeftV2
  <2>2. todo # {} /\ at \in 1 .. Len(Up) /\ db' = db
    BY <1>1, RunFacts
  <2>3. Current = 29
    BY <2>1, <2>2 DEF Current
  <2>4. Up = u
    BY <2>2, <2>3, <1>l, CurrentFacts
  <2>5. /\ Len(u) = 4
        /\ u[1].do = "create" /\ u[1].what = TableNamed("projects_v2_fts")
        /\ u[2].do = "create" /\ u[2].what = TableNamed("units_v2_fts")
        /\ u[3].do = "data" /\ u[4].do = "data"
        /\ Sound(u[1]) /\ Sound(u[2])
    BY <1>u, SearchTablesV2 DEF Does, TableNamed
  <2>6. at = 1 \/ at = 2 \/ at = 3 \/ at = 4
    BY <2>2, <2>4, <2>5
  <2>7. ASSUME NEW t, TableNamed(t) \in schema PROVE TableNamed(t) \in schema'
    <3>1. Up[at].do \notin {"drop", "dropIfThere"}
        BY <2>4, <2>5, <2>6
    <3> QED BY <2>7, <3>1, TableStays
  <2>8. ASSUME at = 1 \/ at = 2, NEW t, u[at].what = TableNamed(t) PROVE TableNamed(t) \in schema'
    <3>1. u[at].do = "create" /\ Sound(u[at])
        BY <2>5, <2>8
    <3>2. Error(schema, u[at]) # "missing"
        BY <1>1, <2>4, NoneMissingV2
    <3>3. CASE Error(schema, u[at]) = "exists"
      <4>1. TableNamed(t) \in schema
        BY <2>8, <3>3 DEF Error
      <4> QED BY <2>7, <4>1
    <3>4. CASE Error(schema, u[at]) = "none"
      <4>1. schema' = Effect(schema, u[at], db.dialect)
        BY <1>1, <2>4, <3>4, RunGoesOn
      <4> QED BY <2>8, <3>1, <4>1, EffectMakes
    <3>5. Error(schema, u[at]) \in {"none", "exists", "missing"}
        BY <1>1, <2>4, RunFacts
    <3> QED BY <3>2, <3>3, <3>4, <3>5
  <2>9. at = 1 => TableNamed("projects_v2_fts") \in schema'
    BY <2>5, <2>8
  <2>10. at = 2 => TableNamed("units_v2_fts") \in schema'
    BY <2>5, <2>8
  <2>11. at # 1 => TableNamed("projects_v2_fts") \in schema
    BY <2>2, <2>3, <2>6 DEF FilledV2
  <2>12. at \in {3, 4} => TableNamed("units_v2_fts") \in schema
    BY <2>2, <2>3, <2>6 DEF FilledV2
  <2>13. TableNamed("projects_v2_fts") \in schema'
    BY <2>6, <2>7, <2>9, <2>11
  <2>14. at # 1 => TableNamed("units_v2_fts") \in schema'
    BY <2>6, <2>7, <2>10, <2>12
  <2>15. at' \in 3 .. 4 => at # 1
    BY <2>1, <2>4, <2>5, <2>6
  <2> QED BY <2>13, <2>14, <2>15
<1>2. CASE SkipStatement
  <2>1. todo # {} /\ at <= Len(Up) /\ db.dialect \notin Up[at].on /\ UNCHANGED <<db, todo>>
    BY <1>2 DEF SkipStatement, Migrating
  <2>2. Current = 29
    BY <2>1 DEF Current
  <2>3. Up = u /\ at \in 1 .. Len(u)
    BY <2>1, <2>2, <1>l, CurrentFacts
  <2>4. /\ Len(u) = 4 /\ u[1].on = {"sqlite"} /\ u[2].on = {"sqlite"} /\ u[3].on = {"sqlite"}
        /\ u[4].on = {"sqlite"}
    BY <1>u, SearchTablesV2 DEF Does
  <2>5. at = 1 \/ at = 2 \/ at = 3 \/ at = 4
    BY <2>3, <2>4
  <2> QED BY <2>1, <2>3, <2>4, <2>5 DEF OnSqlite
<1>3. CASE StartMigrations \/ RecordMigration
  <2>1. at' = 1
    BY <1>3 DEF StartMigrations, RecordMigration, NextMigration, StartType
  <2> QED BY <2>1
<1>4. CASE RunLoose \/ EndMigrations \/ RestoreAtBoot \/ RestoreFails \/ RestoreAtTick \/ Defer \/ WriteRecord
           \/ Crash \/ Die
  <2>1. todo' = {} \/ (RunLoose /\ loose # {})
    BY <1>4 DEF RunLoose, EndMigrations, RestoreAtBoot, RestoreFails, RestoreAtTick, Defer, WriteRecord,
       Crash, Die, Down, StartType, bootVars, Ticking
  <2> QED BY <2>1 DEF StartType
<1>5. CASE UNCHANGED vars
  <2>1. UNCHANGED <<schema, todo, at>>
    BY <1>5 DEF vars, bootVars
  <2>2. Current' = Current
    BY <2>1 DEF Current
  <2> QED BY <2>1, <2>2 DEF FilledV2
<1> QED BY <1>1, <1>2, <1>3, <1>4, <1>5 DEF Next

-----------------------------------------------------------------------------
(* The six triggers *)

LEMMA SixAre ==
    ASSUME NEW f, \A j, m \in 1 .. 6 : f[j] = f[m] => j = m,
           NEW T \in SUBSET {f[j] : j \in 1 .. 6}
    PROVE  Cardinality(T) = 6 <=> \A j \in 1 .. 6 : f[j] \in T
<1> DEFINE S == {f[j] : j \in 1 .. 6}
           g == [j \in 1 .. 6 |-> f[j]]
<1>1. g \in Bijection(1 .. 6, S)
    BY DEF Bijection, Injection, Surjection, IsInjective
<1>2. ExistsBijection(1 .. 6, S)
    BY <1>1 DEF ExistsBijection
<1>3. IsFiniteSet(1 .. 6) /\ Cardinality(1 .. 6) = 6
  <2>1. ASSUME NEW n \in Nat \ {0} PROVE IsFiniteSet(1 .. n) /\ Cardinality(1 .. n) = n
    BY FS_Interval
  <2>2. 6 \in Nat \ {0}
    OBVIOUS
  <2> QED BY <2>1, <2>2, Zenon
<1>4. IsFiniteSet(S) /\ Cardinality(S) = 6
    BY <1>2, <1>3, FS_Bijection
<1>5. Cardinality(T) = Cardinality(S) => T = S
    BY <1>4, FS_Subset
<1>6. (\A j \in 1 .. 6 : f[j] \in T) <=> T = S
    OBVIOUS
<1> QED BY <1>4, <1>5, <1>6

LEMMA SixV2Facts ==
    /\ \A j \in 1 .. 6 : /\ SixV2[j][1] = "trigger" /\ SixV2[j][2] \in {"project", "unit"}
    /\ \A j, m \in 1 .. 6 : SixV2[j] = SixV2[m] => j = m
BY DEF SixV2

\* The triggers of V2's main database: only the migration of the triggers drops
\* and creates them, and only a sync puts them off.
KeptV2 ==
    /\ Triggers(schema) \subseteq {SixV2[j] : j \in 1 .. 6}
    /\ todo # {} /\ Current \in {30, 40} =>
         \A j \in 1 .. 6 : /\ at > j /\ at <= 6 + j => SixV2[j] \notin schema
                           /\ at > 6 + j => SixV2[j] \in schema
    /\ 30 \in meta /\ phase \in {"migrate", "restore"} => \A j \in 1 .. 6 : SixV2[j] \in schema
    /\ phase = "ready" /\ ~flag => \A j \in 1 .. 6 : SixV2[j] \in schema
    /\ flag => snapshot = {SixV2[j] : j \in 1 .. 6}
    /\ stale => flag

LEMMA TriggerAddsV2 ==
    ASSUME StartType, V2, OnSqlite, [Next]_vars, NEW o \in schema', o \notin schema, o[1] = "trigger"
    PROVE  \/ /\ RunStatement /\ Current \in {30, 40} /\ at \in 7 .. 12 /\ o = SixV2[at - 6]
              /\ Error(schema, Up[at]) = "none"
           \/ (RestoreAtBoot \/ RestoreAtTick) /\ flag /\ o \in snapshot
<1>1. SchemaChange
    BY SchemaStep
<1>2. CASE RunStatement /\ schema' = Effect(schema, Up[at], db.dialect) /\ Error(schema, Up[at]) = "none"
  <2>1. todo # {} /\ at <= Len(Up)
    BY <1>2, RunFacts
  <2>2. PICK i : i = IF Current = 40 THEN 30 ELSE Current
    OBVIOUS
  <2>3. Sound(Up[at]) /\ OfV2(Up[at], i, at)
    BY <2>1, <2>2, StatementFacts
  <2>4. \/ Up[at].do \in {"createIfMissing", "create", "ensure"} /\ o = Up[at].what
        \/ Up[at].do = "createIfMissing" /\ o \in Up[at].cols
    BY <1>2, <2>3, EffectAdds
  <2>5. Up[at].do = "create" /\ o = Up[at].what
    BY <2>3, <2>4 DEF Sound
  <2>6. i = 30 /\ at \in 7 .. 12 /\ o = SixV2[at - 6]
    BY <2>3, <2>5 DEF OfV2
  <2> QED BY <1>2, <2>2, <2>6
<1> QED BY <1>1, <1>2 DEF SchemaChange

LEMMA TriggerDropsV2 ==
    ASSUME StartType, V2, OnSqlite, [Next]_vars, NEW j \in 1 .. 6, SixV2[j] \in schema, SixV2[j] \notin schema'
    PROVE  \/ RunStatement /\ Current \in {30, 40} /\ at = j
           \/ Defer
<1>1. SchemaChange
    BY SchemaStep
<1>2. CASE RunStatement /\ schema' = Effect(schema, Up[at], db.dialect) /\ Error(schema, Up[at]) = "none"
  <2>1. todo # {} /\ at <= Len(Up) /\ db.dialect \in Up[at].on
    BY <1>2, RunFacts
  <2>2. PICK i : i = IF Current = 40 THEN 30 ELSE Current
    OBVIOUS
  <2>3. Sound(Up[at]) /\ OfV2(Up[at], i, at)
    BY <2>1, <2>2, StatementFacts
  <2>4. PICK o : o = SixV2[j]
    OBVIOUS
  <2>5. o[1] = "trigger" /\ o[2] \in {"project", "unit"}
    BY <2>4, SixV2Facts
  <2>6. Up[at].do \in {"drop", "dropIfThere"} /\ (o = Up[at].what \/ Up[at].what[1] = "table")
    <3>1. \/ Up[at].do \in {"drop", "dropIfThere"} /\ (o = Up[at].what \/ Up[at].what[1] = "table")
          \/ Up[at].do = "rebuild"
          \/ Up[at].do = "ensure" /\ o = Up[at].old
          \/ Up[at].do = "ensure" /\ o[2] = Up[at].what[2]
        BY <1>2, <2>3, <2>4, EffectDrops
    <3> QED BY <2>3, <2>5, <3>1 DEF OfV2, Sound
  <2>7. Up[at].on # {"mysql"}
    BY <2>1 DEF OnSqlite
  <2>8. i = 30 /\ at \in 1 .. 6 /\ Up[at].what = SixV2[at]
    <3>1. Up[at].what[1] # "index"
        BY <2>5, <2>6
    <3> QED BY <2>3, <2>6, <2>7, <3>1 DEF OfV2
  <2>9. o = SixV2[at]
    BY <2>6, <2>8, SixV2Facts
  <2>10. at = j
    BY <2>4, <2>8, <2>9, SixV2Facts
  <2> QED BY <1>2, <2>2, <2>8, <2>10
<1>3. CASE schema' = schema \/ schema' = schema \cup snapshot
    BY <1>3
<1> QED BY <1>1, <1>2, <1>3 DEF SchemaChange

LEMMA RunTriggersV2 ==
    ASSUME StartType, TablesInv, FilledV2, KeptV2, V2, OnSqlite, RunStatement, Current \in {30, 40}
    PROVE  /\ at \in 1 .. 12 /\ at' = at + 1 /\ todo' = todo
           /\ schema' = Effect(schema, Up[at], db.dialect) /\ Sound(Up[at])
           /\ at <= 6 => Up[at].do = "dropIfThere" /\ Up[at].what = SixV2[at]
           /\ at > 6 => Up[at].do = "create" /\ Up[at].what = SixV2[at - 6]
<1>0. todo # {} /\ at \in 1 .. Len(Up) /\ db \in Databases
    BY RunFacts DEF StartType
<1>1. PICK u : u = V2Ups[30]
    OBVIOUS
<1>2. Up = u
  <2>1. List[30].up = u
    <3>1. \A i \in 1 .. 39 : List[i].up = V2Ups[i]
        BY <1>0, ListFacts, Zenon
    <3> QED BY <1>1, <3>1
  <2>2. Up = List[30].up
    BY <1>0, CurrentFacts
  <2> QED BY <2>1, <2>2
<1>3. Len(u) = 12
    BY <1>1, TriggersV2
<1>4. at \in 1 .. 12
    BY <1>0, <1>2, <1>3
<1>5. ASSUME at <= 6 PROVE Sound(u[at]) /\ u[at].do = "dropIfThere" /\ u[at].what = SixV2[at]
  <2>1. at \in 1 .. 6
    BY <1>4, <1>5
  <2> QED BY <1>1, <2>1, TriggersV2 DEF Does
<1>6. ASSUME at > 6 PROVE Sound(u[at]) /\ u[at].do = "create" /\ u[at].what = SixV2[at - 6] /\ at - 6 \in 1 .. 6
  <2>1. PICK j \in 1 .. 6 : j = at - 6 /\ at = 6 + j
    BY <1>4, <1>6
  <2> QED BY <1>1, <2>1, TriggersV2 DEF Does
<1>7. Error(schema, u[at]) = "none"
  <2>1. Error(schema, u[at]) # "missing" /\ Error(schema, u[at]) \in {"none", "exists", "missing"}
    BY <1>2, NoneMissingV2, RunFacts
  <2>2. ASSUME Error(schema, u[at]) = "exists" PROVE FALSE
    <3>1. u[at].do = "create" /\ u[at].what \in schema
        BY <2>2 DEF Error
    <3>2. at > 6
        BY <1>4, <1>5, <3>1
    <3>3. PICK j \in 1 .. 6 : j = at - 6 /\ at = 6 + j
        BY <1>4, <3>2
    <3>4. SixV2[j] \in schema
        BY <1>6, <3>1, <3>2, <3>3
    <3>5. at > j /\ at <= 6 + j
        BY <3>2, <3>3
    <3> QED BY <1>0, <3>4, <3>5 DEF KeptV2
  <2> QED BY <2>1, <2>2
<1>8. failed = "none"
    BY DEF StartType
<1>9. at' = at + 1 /\ todo' = todo
    BY <1>2, <1>7, <1>8, RunGoesOn
<1>10. schema' = Effect(schema, Up[at], db.dialect)
    BY <1>2, <1>7, RunGoesOn
<1> QED BY <1>2, <1>4, <1>5, <1>6, <1>9, <1>10

\* The triggers while their migration runs.
LEMMA KeptRunningV2 ==
    ASSUME StartType, TablesInv, FilledV2, KeptV2, V2, OnSqlite, [Next]_vars,
           todo' # {}, Current' \in {30, 40}, NEW j \in 1 .. 6
    PROVE  /\ at' > j /\ at' <= 6 + j => SixV2[j] \notin schema'
           /\ at' > 6 + j => SixV2[j] \in schema'
<1>1. CASE RunStatement
  <2>1. todo' = todo /\ todo # {} /\ db' = db
    BY <1>1, NoneLeftV2, RunFacts
  <2>2. Current \in {30, 40}
    BY <2>1 DEF Current
  <2>3. /\ at \in 1 .. 12 /\ at' = at + 1
        /\ schema' = Effect(schema, Up[at], db.dialect) /\ Sound(Up[at])
        /\ at <= 6 => Up[at].do = "dropIfThere" /\ Up[at].what = SixV2[at]
        /\ at > 6 => Up[at].do = "create" /\ Up[at].what = SixV2[at - 6]
    BY <1>1, <2>2, RunTriggersV2
  <2>4. ASSUME at' > j, at' <= 6 + j PROVE SixV2[j] \notin schema'
    <3>1. CASE at = j
      <4>1. Up[at].do = "dropIfThere" /\ Up[at].what = SixV2[j] /\ SixV2[j][1] # "table"
        BY <2>3, <3>1, SixV2Facts
      <4> QED BY <2>3, <4>1, EffectMakes
    <3>2. CASE at # j
      <4>1. at > j /\ at <= 6 + j
        BY <2>3, <2>4, <3>2
      <4>2. SixV2[j] \notin schema
        BY <2>1, <2>2, <4>1 DEF KeptV2
      <4>3. ASSUME SixV2[j] \in schema' PROVE FALSE
        <5>1. at \in 7 .. 12 /\ SixV2[j] = SixV2[at - 6]
            <6>1. SixV2[j][1] = "trigger"
                BY SixV2Facts
            <6>2. ~ (RestoreAtBoot \/ RestoreAtTick)
                BY <2>1 DEF RestoreAtBoot, RestoreAtTick, Ticking, StartType
            <6> QED BY <4>2, <4>3, <6>1, <6>2, TriggerAddsV2
        <5>2. PICK m \in 1 .. 6 : m = at - 6
            BY <5>1
        <5>3. j = m
            BY <5>1, <5>2, SixV2Facts
        <5> QED BY <2>3, <2>4, <5>1, <5>2, <5>3
      <4> QED BY <4>3
    <3> QED BY <3>1, <3>2
  <2>5. ASSUME at' > 6 + j PROVE SixV2[j] \in schema'
    <3>1. CASE at = 6 + j
      <4>1. Up[at].do = "create" /\ Up[at].what = SixV2[j]
        BY <2>3, <3>1
      <4> QED BY <2>3, <4>1, EffectMakes
    <3>2. CASE at # 6 + j
      <4>1. at > 6 + j
        BY <2>3, <2>5, <3>2
      <4>2. SixV2[j] \in schema
        BY <2>1, <2>2, <4>1 DEF KeptV2
      <4>3. at # j /\ ~Defer
        BY <2>1, <2>3, <4>1 DEF Defer, Ticking, StartType
      <4> QED BY <4>2, <4>3, TriggerDropsV2
    <3> QED BY <3>1, <3>2
  <2> QED BY <2>4, <2>5
<1>2. CASE SkipStatement
  <2>1. todo # {} /\ at <= Len(Up) /\ db.dialect \notin Up[at].on /\ UNCHANGED <<db, todo>>
    BY <1>2 DEF SkipStatement, Migrating
  <2>2. Current \in {30, 40}
    BY <2>1 DEF Current
  <2>3. PICK u : u = V2Ups[30]
    OBVIOUS
  <2>4. \A i \in 1 .. 39 : List[i].up = V2Ups[i]
    BY ListFacts, Zenon DEF StartType
  <2>5. Up = u /\ at \in 1 .. Len(u)
    <3>1. Up = List[30].up /\ at \in 1 .. Len(Up) + 1 /\ Len(Up) \in Nat
        BY <2>1, <2>2, CurrentFacts
    <3>2. List[30].up = u
        BY <2>3, <2>4
    <3> QED BY <2>1, <3>1, <3>2
  <2>6. u[at].on = {"sqlite"}
    <3>1. Len(u) = 12
        BY <2>3, TriggersV2
    <3>2. CASE at \in 1 .. 6
        BY <2>3, <3>2, TriggersV2 DEF Does
    <3>3. CASE at \in 7 .. 12
      <4>1. PICK m \in 1 .. 6 : at = 6 + m
        BY <3>3, at - 6 \in 1 .. 6
      <4> QED BY <2>3, <4>1, TriggersV2 DEF Does
    <3> QED BY <2>5, <3>1, <3>2, <3>3
  <2> QED BY <2>1, <2>5, <2>6 DEF OnSqlite
<1>3. CASE StartMigrations \/ RecordMigration
  <2>1. at' = 1
    BY <1>3 DEF StartMigrations, RecordMigration, NextMigration, StartType
  <2> QED BY <2>1
<1>4. CASE RunLoose \/ EndMigrations \/ RestoreAtBoot \/ RestoreFails \/ RestoreAtTick \/ Defer \/ WriteRecord
           \/ Crash \/ Die
  <2>1. todo' = {} \/ (RunLoose /\ loose # {})
    BY <1>4 DEF RunLoose, EndMigrations, RestoreAtBoot, RestoreFails, RestoreAtTick, Defer, WriteRecord,
       Crash, Die, Down, StartType, bootVars, Ticking
  <2> QED BY <2>1 DEF StartType
<1>5. CASE UNCHANGED vars
  <2>1. UNCHANGED <<schema, todo, at>>
    BY <1>5 DEF vars, bootVars
  <2>2. Current' = Current
    BY <2>1 DEF Current
  <2> QED BY <2>1, <2>2 DEF KeptV2
<1> QED BY <1>1, <1>2, <1>3, <1>4, <1>5 DEF Next

LEMMA KeptStepV2 ==
    ASSUME StartType, TablesInv, FilledV2, LeftV2, KeptV2, V2, OnSqlite, [Next]_vars
    PROVE  KeptV2'
<1> DEFINE All(sch) == \A j \in 1 .. 6 : SixV2[j] \in sch
           Six == {SixV2[j] : j \in 1 .. 6}
<1>0. /\ db \in Databases /\ DOMAIN List = 1 .. 39 /\ Again = 40
      /\ Migration(40) = List[30] /\ \A i \in 1 .. 39 : List[i].name = i /\ Migration(i) = List[i]
    BY ListFacts, Zenon DEF StartType
<1>a. Triggers(schema) \subseteq Six /\ (Cardinality(Triggers(schema)) = 6 <=> All(schema))
  <2>1. Triggers(schema) \in SUBSET {SixV2[j] : j \in 1 .. 6}
    BY DEF KeptV2
  <2>2. Cardinality(Triggers(schema)) = 6 <=> \A j \in 1 .. 6 : SixV2[j] \in Triggers(schema)
    BY <2>1, SixV2Facts, SixAre
  <2>3. \A j \in 1 .. 6 : SixV2[j] \in Triggers(schema) <=> SixV2[j] \in schema
    BY SixV2Facts DEF Triggers
  <2> QED BY <2>1, <2>2, <2>3
<1>b. phase = "ready" /\ ~flag => All(schema)
    BY DEF KeptV2
<1>c. phase = "restore" => All(schema)
    BY DEF KeptV2, LeftV2
<1>1. Triggers(schema') \subseteq Six
  <2> SUFFICES ASSUME NEW o \in schema', o[1] = "trigger", o \notin schema PROVE o \in Six
    BY <1>a DEF Triggers
  <2>1. CASE at \in 7 .. 12 /\ o = SixV2[at - 6]
    <3>1. at - 6 \in 1 .. 6
        BY <2>1
    <3> QED BY <2>1, <3>1
  <2>2. CASE flag /\ o \in snapshot
    BY <2>2 DEF KeptV2
  <2> QED BY <2>1, <2>2, TriggerAddsV2
<1>2. todo' # {} /\ Current' \in {30, 40} =>
        \A j \in 1 .. 6 : /\ at' > j /\ at' <= 6 + j => SixV2[j] \notin schema'
                          /\ at' > 6 + j => SixV2[j] \in schema'
    BY KeptRunningV2
<1>3. ASSUME 30 \in meta', phase' \in {"migrate", "restore"} PROVE All(schema')
  <2>1. CASE StartMigrations
    <3>1. ~TriggersLost /\ meta' = meta /\ schema' = schema
        BY <1>3, <2>1 DEF StartMigrations, TriggersMigration
    <3>2. All(schema)
        BY <1>3, <1>a, <3>1 DEF TriggersLost, TriggersMigration
    <3> QED BY <3>1, <3>2
  <2>2. CASE RecordMigration
    <3>1. /\ todo # {} /\ phase = "migrate" /\ schema' = schema /\ at = Len(Up) + 1
          /\ meta' = meta \cup {Migration(Current).name}
        BY <2>2 DEF RecordMigration, Migrating
    <3>2. CASE Current \in {30, 40}
      <4>1. Up = List[30].up
        BY <3>1, <3>2, CurrentFacts
      <4>2. \A i \in 1 .. 39 : List[i].up = V2Ups[i]
        BY <1>0, ListFacts, Zenon
      <4>3. Len(Up) = 12
        BY <4>1, <4>2, TriggersV2
      <4>4. \A j \in 1 .. 6 : at > 6 + j
        BY <3>1, <4>3
      <4> QED BY <3>1, <3>2, <4>4 DEF KeptV2
    <3>3. CASE Current \notin {30, 40}
      <4>1. Current \in 1 .. 40
        BY <3>1, CurrentFacts
      <4>2. PICK c \in 1 .. 39 : c = Current /\ c # 30
        BY <3>3, <4>1
      <4>3. Migration(Current).name = c
        BY <1>0, <4>2
      <4>4. 30 \in meta
        BY <1>3, <3>1, <4>2, <4>3
      <4> QED BY <3>1, <4>4 DEF KeptV2
    <3> QED BY <3>2, <3>3
  <2>3. CASE EndMigrations
    <3>1. phase = "migrate" /\ UNCHANGED <<schema, meta>>
        BY <2>3 DEF EndMigrations
    <3> QED BY <1>3, <3>1 DEF KeptV2
  <2>4. CASE RunStatement
    <3>1. phase = "migrate" /\ meta' = meta /\ todo # {}
        BY <2>4, RunFacts
    <3>2. All(schema)
        BY <1>3, <3>1 DEF KeptV2
    <3>3. Current \notin {30, 40}
      <4>1. Current \in todo
        BY <3>1, CurrentFacts
      <4> QED BY <1>3, <3>1, <4>1 DEF LeftV2
    <3>4. ~Defer
        BY <3>1 DEF Defer, Ticking
    <3> QED BY <3>2, <3>3, <3>4, TriggerDropsV2
  <2>5. CASE SkipStatement \/ UNCHANGED vars
    <3>1. UNCHANGED <<schema, meta, phase>>
        BY <2>5 DEF SkipStatement, vars, bootVars
    <3> QED BY <1>3, <3>1 DEF KeptV2
  <2>6. ~RunLoose
    BY DEF RunLoose, StartType
  <2>7. ~ (RestoreAtBoot \/ RestoreFails \/ RestoreAtTick \/ Defer \/ WriteRecord \/ Crash \/ Die)
    BY <1>3 DEF RestoreAtBoot, RestoreFails, RestoreAtTick, Defer, WriteRecord, Ticking, Crash, Die, Down, bootVars
  <2> QED BY <2>1, <2>2, <2>3, <2>4, <2>5, <2>6, <2>7 DEF Next
<1>4. ASSUME phase' = "ready", ~flag' PROVE All(schema')
  <2>1. CASE RestoreAtBoot \/ RestoreFails
    <3>1. phase = "restore"
        BY <2>1 DEF RestoreAtBoot, RestoreFails
    <3>2. ~RunStatement /\ ~Defer
        BY <3>1 DEF RunStatement, Migrating, Defer, Ticking
    <3> QED BY <1>c, <3>1, <3>2, TriggerDropsV2
  <2>2. CASE RestoreAtTick
    <3>1. schema' = schema \cup snapshot /\ flag
        BY <2>2 DEF RestoreAtTick, Restored
    <3> QED BY <3>1 DEF KeptV2
  <2>3. CASE WriteRecord \/ UNCHANGED vars
    <3>1. UNCHANGED <<schema, phase, flag>>
        BY <2>3 DEF WriteRecord, vars, bootVars, searchVars
    <3> QED BY <1>4, <1>b, <3>1
  <2>4. ~EndMigrations
    BY <1>4 DEF EndMigrations
  <2>5. ~RunStatement /\ ~RunLoose
    <3>1. ~RunStatement
        BY <1>4, RunFacts
    <3> QED BY <3>1 DEF RunLoose, StartType
  <2>6. ~ (StartMigrations \/ SkipStatement \/ RecordMigration \/ Defer \/ Crash \/ Die)
    BY <1>4 DEF StartMigrations, SkipStatement, RecordMigration, Migrating, Defer, Crash, Die, Down
  <2> QED BY <2>1, <2>2, <2>3, <2>4, <2>5, <2>6 DEF Next
<1>5. (flag' => snapshot' = Six) /\ (stale' => flag')
  <2>1. CASE Defer
    <3>1. phase = "ready" /\ ~flag /\ flag' = TRUE /\ stale' = stale
          /\ snapshot' = IF Triggers(schema) # {} THEN Triggers(schema) ELSE snapshot
        BY <2>1 DEF Defer, Ticking
    <3>2. All(schema)
        BY <1>b, <3>1
    <3>3. Triggers(schema) = Six
      <4>1. \A j \in 1 .. 6 : SixV2[j] \in Triggers(schema)
        BY <3>2, SixV2Facts DEF Triggers
      <4> QED BY <1>a, <4>1
    <3>4. Six # {}
      <4>1. SixV2[1] \in Six
        OBVIOUS
      <4> QED BY <4>1
    <3> HIDE DEF Six
    <3> QED BY <3>1, <3>3, <3>4
  <2>2. CASE (RestoreAtBoot /\ flag) \/ RestoreAtTick
    BY <2>2 DEF RestoreAtBoot, RestoreAtTick, Restored
  <2>3. CASE WriteRecord
    <3>1. phase = "ready" /\ UNCHANGED <<flag, snapshot>>
          /\ stale' = (stale \/ Cardinality(Triggers(schema)) # 6)
        BY <2>3 DEF WriteRecord, Ticking
    <3>2. stale' => flag
      <4>1. CASE flag
        BY <4>1
      <4>2. CASE ~flag
        <5>1. Cardinality(Triggers(schema)) = 6
            BY <1>a, <1>b, <3>1, <4>2
        <5> QED BY <3>1, <5>1 DEF KeptV2
      <4> QED BY <4>1, <4>2
    <3> QED BY <3>1, <3>2 DEF KeptV2
  <2>4. CASE UNCHANGED searchVars
    BY <2>4 DEF KeptV2, searchVars
  <2>5. CASE RunStatement
    BY <2>4, <2>5, RunFacts
  <2>6. CASE ~ (Defer \/ (RestoreAtBoot /\ flag) \/ RestoreAtTick \/ WriteRecord \/ RunStatement)
    <3>1. UNCHANGED searchVars
      <4>1. CASE RestoreAtBoot
        BY <2>6, <4>1 DEF RestoreAtBoot
      <4>2. CASE StartMigrations \/ SkipStatement \/ RecordMigration \/ RunLoose
        BY <4>2 DEF StartMigrations, SkipStatement, RecordMigration, RunLoose
      <4>3. CASE EndMigrations \/ RestoreFails \/ Crash \/ Die \/ UNCHANGED vars
        BY <4>3 DEF EndMigrations, RestoreFails, Crash, Die, Down, vars
      <4> QED BY <2>6, <4>1, <4>2, <4>3 DEF Next
    <3> QED BY <2>4, <3>1
  <2> QED BY <2>1, <2>2, <2>3, <2>5, <2>6
<1> QED BY <1>1, <1>2, <1>3, <1>4, <1>5 DEF KeptV2, Triggers

\* Everything about V2's main database.
MainV2 == V2 /\ OnSqlite => FilledV2 /\ LeftV2 /\ KeptV2

LEMMA MainInitV2 == Init => MainV2
<1> SUFFICES ASSUME Init PROVE FilledV2 /\ LeftV2 /\ KeptV2
    BY DEF MainV2
<1>1. todo = {} /\ phase = "start" /\ schema = {} /\ flag = FALSE /\ stale = FALSE
    BY DEF Init, Idle
<1> QED BY <1>1 DEF FilledV2, LeftV2, KeptV2, Triggers

LEMMA MainStepV2 == StartType /\ TablesInv /\ MainV2 /\ [Next]_vars => MainV2'
<1> SUFFICES ASSUME StartType, TablesInv, MainV2, [Next]_vars, V2', OnSqlite'
             PROVE  FilledV2' /\ LeftV2' /\ KeptV2'
    BY DEF MainV2
<1>1. db' = db
    BY DEF Next, vars, StartMigrations, SkipStatement, RunStatement, RecordMigration, RunLoose, EndMigrations,
       RestoreAtBoot, RestoreFails, RestoreAtTick, Defer, WriteRecord, Crash, Die, Down
<1>2. V2 /\ OnSqlite
    BY <1>1 DEF V2, OnSqlite
<1>3. FilledV2 /\ LeftV2 /\ KeptV2
    BY <1>2 DEF MainV2
<1> QED BY <1>2, <1>3, FilledStepV2, LeftStepV2, KeptStepV2

-----------------------------------------------------------------------------
(* V1's main database *)

ProjectColumn == <<"column", "projects", "description">>
UnitColumn == <<"column", "units", "unitBlockStart">>

\* The migrations that matter here: 23 and 24 fail where a column is there, 31
\* resets the search; and what each of them has reached.
LeftV1 ==
    /\ ProjectColumn \in schema \/ PendingAt(24, 1)
    /\ UnitColumn \in schema \/ PendingAt(23, 1)
    /\ 31 \in meta => ProjectColumn \in schema /\ UnitColumn \in schema
    /\ \A i \in {23, 24, 30, 31} : i \in todo => i \notin meta
    /\ todo # {} /\ Current = 24 /\ at > 1 => 31 \notin meta
    /\ todo # {} /\ Current = 23 /\ at > 1 /\ (failed = "none" \/ at = 5) => 31 \notin meta
    /\ phase = "migrate" => 31 \in meta \/ 31 \in todo
    /\ phase \in {"restore", "ready"} => 31 \in meta

\* The search tables: each is there, or a migration that is left creates it.
FilledV1 ==
    /\ TableNamed("units_fts") \in schema \/ PendingAt(30, 2) \/ PendingAt(31, 25)
    /\ TableNamed("projects_fts") \in schema \/ PendingAt(31, 31)
    /\ todo # {} /\ Current = 31 =>
         /\ at = 25 => TableNamed("units_fts") \notin schema
         /\ at = 31 => TableNamed("projects_fts") \notin schema
         /\ \A j \in 1 .. 6 : at > j /\ at <= AgainAt[j] => SixV1[j] \notin schema

\* The triggers, once the serial numbers' migration is recorded.
KeptV1 ==
    /\ Triggers(schema) \cup snapshot \subseteq {SixV1[j] : j \in 1 .. 6}
    /\ 23 \in meta => \A j \in 1 .. 6 : \/ SixV1[j] \in schema
                                        \/ PendingAt(31, AgainAt[j])
                                        \/ flag /\ SixV1[j] \in snapshot
    /\ 31 \notin meta => ~stale /\ ~flag /\ snapshot = {}
    /\ 23 \in meta /\ stale => flag

LEMMA SixV1Facts ==
    /\ \A j \in 1 .. 6 : SixV1[j][1] = "trigger" /\ SixV1[j][2] \in {"projects", "units"}
    /\ \A j, m \in 1 .. 6 : SixV1[j] = SixV1[m] => j = m
BY DEF SixV1

LEMMA AgainFacts ==
    /\ \A j \in 1 .. 6 : AgainAt[j] \in {27, 28, 29, 32, 33, 34} /\ AgainAt[j] \in Nat
    /\ \A j, m \in 1 .. 6 : AgainAt[j] = AgainAt[m] => j = m
BY DEF AgainAt

LEMMA DoesOn ==
    ASSUME NEW s, NEW do, NEW what, Does(s, do, what)
    PROVE  s.on = {"sqlite"} /\ s.do = do /\ s.what = what /\ Sound(s)
BY DEF Does

\* The whole reset is for SQLite.
LEMMA ResetOn == \A k \in 1 .. 34 : V1Ups[31][k].on = {"sqlite"}
<1>1. PICK u : u = V1Ups[31]
    OBVIOUS
<1>2. \A j \in 1 .. 6 : Does(u[j], "dropIfThere", SixV1[j]) /\ Does(u[AgainAt[j]], "create", SixV1[j])
    BY <1>1, ResetUp, Zenon
<1>3. \A j \in 1 .. 6 : u[j].on = {"sqlite"} /\ u[AgainAt[j]].on = {"sqlite"}
    BY <1>2, DoesOn, Zenon
<1>4. \A j \in 7 .. 23 : u[j].on = {"sqlite"}
    BY <1>1, ResetUp, Zenon
<1>5. u[24].on = {"sqlite"} /\ u[25].on = {"sqlite"} /\ u[26].on = {"sqlite"} /\ u[30].on = {"sqlite"} /\ u[31].on = {"sqlite"}
  <2>1. \E d, w : Does(u[24], d, w)
    BY <1>1, ResetUp, Zenon
  <2>2. \E d, w : Does(u[25], d, w)
    BY <1>1, ResetUp, Zenon
  <2>3. \E d, w : Does(u[26], d, w)
    BY <1>1, ResetUp, Zenon
  <2>4. \E d, w : Does(u[30], d, w)
    BY <1>1, ResetUp, Zenon
  <2>5. \E d, w : Does(u[31], d, w)
    BY <1>1, ResetUp, Zenon
  <2> QED BY <2>1, <2>2, <2>3, <2>4, <2>5, DoesOn, Zenon
<1>6. u[27].on = {"sqlite"} /\ u[28].on = {"sqlite"} /\ u[29].on = {"sqlite"}
      /\ u[32].on = {"sqlite"} /\ u[33].on = {"sqlite"} /\ u[34].on = {"sqlite"}
  <2>1. AgainAt[1] = 33 /\ AgainAt[2] = 32 /\ AgainAt[3] = 34 /\ AgainAt[4] = 28 /\ AgainAt[5] = 27 /\ AgainAt[6] = 29
    BY DEF AgainAt
  <2>2. 1 \in 1 .. 6 /\ 2 \in 1 .. 6 /\ 3 \in 1 .. 6 /\ 4 \in 1 .. 6 /\ 5 \in 1 .. 6 /\ 6 \in 1 .. 6
    OBVIOUS
  <2> QED BY <1>3, <2>1, <2>2
<1>7. \A k \in 24 .. 34 : k = 24 \/ k = 25 \/ k = 26 \/ k = 27 \/ k = 28 \/ k = 29 \/ k = 30 \/ k = 31
                            \/ k = 32 \/ k = 33 \/ k = 34
    OBVIOUS
<1>8. \A k \in 24 .. 34 : u[k].on = {"sqlite"}
    BY <1>5, <1>6, <1>7, Zenon
<1>9. \A k \in 1 .. 34 : k \in 1 .. 6 \/ k \in 7 .. 23 \/ k \in 24 .. 34
    OBVIOUS
<1> QED BY <1>1, <1>3, <1>4, <1>8, <1>9, Zenon

LEMMA CurrentV1 ==
    ASSUME StartType, ~V2, todo # {}
    PROVE  /\ Current \in 1 .. 39 /\ Current \in todo /\ \A i \in todo : Current <= i
           /\ Up = V1Ups[Current] /\ Migration(Current).name = V1Name(Current)
           /\ Len(Up) \in Nat /\ at \in 1 .. Len(Up) + 1 /\ at \in Nat
           /\ phase = "migrate"
<1>1. Current \in todo /\ Current \in 1 .. 40 /\ (\A i \in todo : Current <= i) /\ Current # 40
    BY CurrentFacts
<1>2. Current \in 1 .. 39 /\ Up = List[Current].up /\ Len(Up) \in Nat /\ at \in 1 .. Len(Up) + 1
    BY <1>1, CurrentFacts
<1>3. /\ \A i \in 1 .. 39 : List[i].name = V1Name(i) /\ List[i].up = V1Ups[i]
      /\ \A i \in 1 .. 39 : Migration(i) = List[i]
    BY ListFacts, Zenon DEF StartType
<1>4. Up = V1Ups[Current]
    BY <1>2, <1>3
<1>5. Migration(Current).name = V1Name(Current)
    BY <1>2, <1>3
<1>6. phase = "migrate"
    BY DEF StartType
<1>7. at \in Nat
    BY <1>2
<1> QED BY <1>1, <1>2, <1>4, <1>5, <1>6, <1>7

LEMMA TableThereV1 ==
    ASSUME StartType, TablesInv, ~V2, todo # {}, NEW m \in {1, 3}, m < Current
    PROVE  TableNamed(OpenedV1[m]) \in schema
<1>1. OwedTable(m, 1, OpenedV1[m])
    BY DEF OwedTable, OpensV1
<1>2. TableNamed(OpenedV1[m]) \in schema \/ PendingAt(m, 1)
    BY <1>1 DEF TablesInv
<1>3. \A i \in todo : Current <= i
    BY CurrentV1
<1>4. phase = "migrate" /\ Current \in 1 .. 39
    BY CurrentV1
<1>5. ~PendingAt(m, 1)
    BY <1>3, <1>4 DEF PendingAt
<1> QED BY <1>2, <1>5

\* The statements that the proofs wait for.
LEMMA ListedV1 ==
    ASSUME db \in Databases, ~V2, OnSqlite
    PROVE  /\ Listed(24, 1) /\ Listed(23, 1) /\ Listed(30, 2) /\ Listed(31, 25) /\ Listed(31, 31)
           /\ \A j \in 1 .. 6 : Listed(31, AgainAt[j])
           /\ List[23].name = 23 /\ List[24].name = 24 /\ List[30].name = 30 /\ List[31].name = 31
<1>1. \A i \in 1 .. 39 : List[i].name = V1Name(i) /\ List[i].up = V1Ups[i]
    BY ListFacts, Zenon
<1>2. ASSUME NEW i \in {23, 24, 30, 31}
      PROVE  List[i].name = i /\ i \in 1 .. 39 /\ \A j \in 1 .. 39 : j < i => List[j].name # List[i].name
  <2>1. List[i].name = i /\ i \in 1 .. 39
    BY <1>1 DEF V1Name
  <2>2. \A j \in 1 .. 39 : j < i => V1Name(j) # i
    BY DEF V1Name
  <2> QED BY <1>1, <2>1, <2>2
<1>3. db.dialect = "sqlite"
    BY DEF OnSqlite
<1>4. ASSUME NEW i \in {23, 24, 30, 31}, NEW k \in Nat, NEW u, u = V1Ups[i], k \in 1 .. Len(u),
             u[k].on = {"sqlite"} \/ u[k].on = Dialects
      PROVE  Listed(i, k)
  <2>1. List[i].up = u
    BY <1>1, <1>2, <1>4
  <2>2. db.dialect \in List[i].up[k].on
    BY <1>3, <1>4, <2>1 DEF Dialects
  <2> QED BY <1>2, <1>4, <2>1, <2>2 DEF Listed
<1>5. Listed(23, 1)
  <2>1. PICK u : u = V1Ups[23]
    OBVIOUS
  <2> QED BY <1>4, <2>1, SerialNumbersUp DEF Member
<1>6. Listed(24, 1)
  <2>1. PICK u : u = V1Ups[24]
    OBVIOUS
  <2> QED BY <1>4, <2>1, DescriptionUp DEF Member
<1>7. Listed(30, 2)
  <2>1. PICK u : u = V1Ups[30]
    OBVIOUS
  <2> QED BY <1>4, <2>1, UnitsFtsUp DEF Does
<1>8. Listed(31, 25) /\ Listed(31, 31) /\ \A j \in 1 .. 6 : Listed(31, AgainAt[j])
  <2>1. PICK u : u = V1Ups[31]
    OBVIOUS
  <2>2. Len(u) = 34 /\ \A k \in 1 .. 34 : u[k].on = {"sqlite"}
    BY <2>1, ResetUp, ResetOn, Zenon
  <2>3. Listed(31, 25)
    BY <1>4, <2>1, <2>2
  <2>4. Listed(31, 31)
    BY <1>4, <2>1, <2>2
  <2>5. ASSUME NEW j \in 1 .. 6 PROVE Listed(31, AgainAt[j])
    <3>1. PICK k \in Nat : k = AgainAt[j] /\ k \in 1 .. 34
        BY AgainFacts
    <3>2. Listed(31, k)
        BY <1>4, <2>1, <2>2, <3>1
    <3> QED BY <3>1, <3>2
  <2> QED BY <2>3, <2>4, <2>5
<1> QED BY <1>2, <1>5, <1>6, <1>7, <1>8

\* What goes from the schema, and what triggers come.
LEMMA DropsV1 ==
    ASSUME StartType, ~V2, OnSqlite, [Next]_vars, NEW o \in schema, o \notin schema'
    PROVE  \/ /\ RunStatement
              /\ \/ Current = 24 /\ at = 2 /\ o[2] = "projects_fts"
                 \/ Current = 30 /\ at = 1 /\ o[2] = "units_fts"
                 \/ Current = 31 /\ at = 24 /\ o[2] = "units_fts"
                 \/ Current = 31 /\ at = 30 /\ o[2] = "projects_fts"
                 \/ Current = 31 /\ at \in 1 .. 6 /\ o = SixV1[at]
                 \/ Current = 23 /\ o = <<"column", "units", "serialNumberPattern">>
                 \/ Current = 23 /\ o[1] \in {"index", "trigger"}
           \/ Defer /\ o[1] = "trigger"
<1>1. SchemaChange
    BY SchemaStep
<1>2. CASE RunStatement /\ schema' = Effect(schema, Up[at], db.dialect)
  <2>1. todo # {} /\ at <= Len(Up)
    BY <1>2, RunFacts
  <2>2. PICK s : s = Up[at]
    OBVIOUS
  <2>3. Sound(s) /\ OfV1(s, Current, at)
    BY <2>1, <2>2, StatementFacts
  <2>4. \/ s.do \in {"drop", "dropIfThere"} /\ (o = s.what \/ (s.what[1] = "table" /\ o[2] = s.what[2]))
        \/ s.do = "rebuild" /\ o = s.what
        \/ s.do = "ensure"
        \/ s.do = "rebuild" /\ o[1] \in {"index", "trigger"}
    BY <1>2, <2>2, <2>3, EffectDrops
  <2>5. CASE s.do = "rebuild"
    BY <1>2, <2>3, <2>4, <2>5 DEF OfV1
  <2>6. CASE s.do \in {"drop", "dropIfThere"}
    <3>1. o = s.what \/ (s.what[1] = "table" /\ o[2] = s.what[2])
        BY <2>4, <2>6
    <3>2. TableNamed("units_fts")[2] = "units_fts" /\ TableNamed("projects_fts")[2] = "projects_fts"
        BY DEF TableNamed
    <3>3. \A j \in 1 .. 6 : SixV1[j][1] # "table"
        BY SixV1Facts
    <3>4. \/ Current = 24 /\ at = 2 /\ s.what = TableNamed("projects_fts")
          \/ Current = 30 /\ at = 1 /\ s.what = TableNamed("units_fts")
          \/ Current = 31 /\ at = 24 /\ s.what = TableNamed("units_fts")
          \/ Current = 31 /\ at = 30 /\ s.what = TableNamed("projects_fts")
          \/ Current = 31 /\ at \in 1 .. 6 /\ s.what = SixV1[at]
        BY <2>3, <2>6 DEF OfV1
    <3> QED BY <1>2, <3>1, <3>2, <3>3, <3>4
  <2> QED BY <2>3, <2>4, <2>5, <2>6 DEF OfV1
<1>3. CASE schema' = schema \/ schema' = schema \cup snapshot
    BY <1>3
<1>4. CASE Defer /\ schema' = schema \ Triggers(schema)
    BY <1>4 DEF Triggers
<1> QED BY <1>1, <1>2, <1>3, <1>4 DEF SchemaChange

LEMMA TriggerAddsV1 ==
    ASSUME StartType, ~V2, OnSqlite, [Next]_vars, NEW o \in schema', o \notin schema, o[1] = "trigger"
    PROVE  \/ RunStatement /\ \E m \in 1 .. 6 : o = SixV1[m] /\ (Current = 31 => at = AgainAt[m])
           \/ (RestoreAtBoot \/ RestoreAtTick) /\ flag /\ o \in snapshot
<1>1. SchemaChange
    BY SchemaStep
<1>2. CASE RunStatement /\ schema' = Effect(schema, Up[at], db.dialect)
  <2>1. todo # {} /\ at <= Len(Up)
    BY <1>2, RunFacts
  <2>2. PICK s : s = Up[at]
    OBVIOUS
  <2>3. Sound(s) /\ OfV1(s, Current, at)
    BY <2>1, <2>2, StatementFacts
  <2>4. \/ s.do \in {"createIfMissing", "create", "ensure"} /\ o = s.what
        \/ s.do = "createIfMissing" /\ o \in s.cols
    BY <1>2, <2>2, <2>3, EffectAdds
  <2>5. s.do = "create" /\ o = s.what
    BY <2>3, <2>4 DEF Sound
  <2> QED BY <1>2, <2>3, <2>5 DEF OfV1
<1> QED BY <1>1, <1>2 DEF SchemaChange

LEMMA ColumnStaysV1 ==
    ASSUME StartType, ~V2, OnSqlite, [Next]_vars
    PROVE  /\ ProjectColumn \in schema => ProjectColumn \in schema'
           /\ UnitColumn \in schema => UnitColumn \in schema'
<1>1. ASSUME NEW o \in {ProjectColumn, UnitColumn}
      PROVE  /\ o[1] = "column" /\ o[2] \notin {"projects_fts", "units_fts"}
             /\ o # <<"column", "units", "serialNumberPattern">> /\ \A j \in 1 .. 6 : o # SixV1[j]
  <2>1. /\ o[1] = "column" /\ o[2] \notin {"projects_fts", "units_fts"}
        /\ o # <<"column", "units", "serialNumberPattern">>
    BY DEF ProjectColumn, UnitColumn
  <2> QED BY <2>1, SixV1Facts
<1>2. ASSUME NEW o \in {ProjectColumn, UnitColumn}, o \in schema, o \notin schema' PROVE FALSE
    BY <1>1, <1>2, DropsV1
<1> QED BY <1>2

\* The reset of V1's search tables never fails: its tables are there, and what it
\* creates is not.
LEMMA RunResetV1 ==
    ASSUME StartType, TablesInv, FilledV1, ~V2, OnSqlite, RunStatement, Current = 31
    PROVE  /\ at \in 1 .. 34 /\ at' = at + 1 /\ todo' = todo
           /\ schema' = (IF Error(schema, Up[at]) = "none" THEN Effect(schema, Up[at], db.dialect) ELSE schema)
           /\ Sound(Up[at])
           /\ at \notin 7 .. 23 => Error(schema, Up[at]) = "none"
           /\ at \in 1 .. 6 => Up[at].do = "dropIfThere" /\ Up[at].what = SixV1[at]
           /\ at = 24 => Up[at].do = "dropIfThere" /\ Up[at].what = TableNamed("units_fts")
           /\ at = 25 => Up[at].do = "create" /\ Up[at].what = TableNamed("units_fts")
           /\ at = 30 => Up[at].do = "dropIfThere" /\ Up[at].what = TableNamed("projects_fts")
           /\ at = 31 => Up[at].do = "create" /\ Up[at].what = TableNamed("projects_fts")
           /\ \A j \in 1 .. 6 : at = AgainAt[j] => Up[at].do = "create" /\ Up[at].what = SixV1[j]
<1>0. todo # {} /\ at \in 1 .. Len(Up) /\ Len(Up) \in Nat /\ phase = "migrate"
    BY RunFacts
<1>1. PICK u : u = V1Ups[31]
    OBVIOUS
<1>2. Up = u
    BY <1>0, <1>1, CurrentV1
<1>3. Len(u) = 34
    BY <1>1, ResetUp
<1>4. at \in 1 .. 34
    BY <1>0, <1>2, <1>3
<1>5. at \in 1 .. 6 => Does(u[at], "dropIfThere", SixV1[at])
    BY <1>1, ResetUp
<1>6. \A j \in 1 .. 6 : at = AgainAt[j] => Does(u[at], "create", SixV1[j])
    BY <1>1, ResetUp
<1>7. at \in 7 .. 23 => Sound(u[at]) /\ u[at].do = "data" /\ u[at].mode = "loose"
    BY <1>1, ResetUp
<1>8. /\ at = 24 => Does(u[at], "dropIfThere", TableNamed("units_fts"))
      /\ at = 25 => Does(u[at], "create", TableNamed("units_fts"))
      /\ at = 26 => Does(u[at], "data", TableNamed("units_fts"))
      /\ at = 30 => Does(u[at], "dropIfThere", TableNamed("projects_fts"))
      /\ at = 31 => Does(u[at], "create", TableNamed("projects_fts"))
    BY <1>1, ResetUp DEF TableNamed
<1>9. at \in 1 .. 6 \/ at \in 7 .. 23 \/ at \in {24, 25, 26, 30, 31} \/ \E j \in 1 .. 6 : at = AgainAt[j]
  <2>1. AgainAt[1] = 33 /\ AgainAt[2] = 32 /\ AgainAt[3] = 34 /\ AgainAt[4] = 28 /\ AgainAt[5] = 27 /\ AgainAt[6] = 29
    BY DEF AgainAt
  <2>2. \/ at \in 1 .. 6 \/ at \in 7 .. 23 \/ at \in {24, 25, 26, 30, 31}
        \/ at = 27 \/ at = 28 \/ at = 29 \/ at = 32 \/ at = 33 \/ at = 34
    BY <1>4
  <2>3. 1 \in 1 .. 6 /\ 2 \in 1 .. 6 /\ 3 \in 1 .. 6 /\ 4 \in 1 .. 6 /\ 5 \in 1 .. 6 /\ 6 \in 1 .. 6
    OBVIOUS
  <2>4. at \in {27, 28, 29, 32, 33, 34} => \E j \in 1 .. 6 : at = AgainAt[j]
    BY <2>1, <2>3, Zenon
  <2> QED BY <2>2, <2>4
<1>10. failed = "none"
    BY <1>0 DEF StartType
<1>11. TableNamed("projects") \in schema /\ TableNamed("units") \in schema
  <2>1. OpenedV1[1] = "projects" /\ OpenedV1[3] = "units"
    BY DEF OpenedV1
  <2>2. TableNamed(OpenedV1[1]) \in schema
    BY <1>0, TableThereV1
  <2>3. TableNamed(OpenedV1[3]) \in schema
    BY <1>0, TableThereV1
  <2> QED BY <2>1, <2>2, <2>3
<1>12. at = 26 => TableNamed("units_fts") \in schema
  <2> SUFFICES ASSUME at = 26, PendingAt(30, 2) \/ PendingAt(31, 25) PROVE FALSE
    BY DEF FilledV1
  <2>1. 30 \notin todo
    BY <1>0, CurrentV1
  <2> QED BY <1>0, <2>1 DEF PendingAt
<1>13. at \notin 7 .. 23 => Error(schema, u[at]) = "none"
  <2>1. CASE at \in 1 .. 6 \/ at = 24 \/ at = 30
    <3>1. u[at].do = "dropIfThere"
        BY <1>5, <1>8, <2>1 DEF Does
    <3> QED BY <3>1 DEF Error
  <2>2. CASE at = 25 \/ at = 31
    <3>1. PICK t \in SearchTablesV1 : Does(u[at], "create", TableNamed(t)) /\ TableNamed(t) \notin schema
        BY <1>0, <1>8, <2>2 DEF FilledV1, SearchTablesV1
    <3>2. u[at].do = "create" /\ u[at].what[1] = "table" /\ u[at].what \notin schema
        BY <3>1 DEF Does, TableNamed
    <3> QED BY <3>2 DEF Error
  <2>3. CASE at = 26
    <3>1. u[at].do = "data" /\ u[at].what[2] = "units_fts"
        BY <1>8, <2>3 DEF Does, TableNamed
    <3> QED BY <1>12, <2>3, <3>1 DEF Error, TableNamed
  <2>4. CASE \E j \in 1 .. 6 : at = AgainAt[j]
    <3>1. PICK j \in 1 .. 6 : at = AgainAt[j]
        BY <2>4
    <3>2. u[at].do = "create" /\ u[at].what = SixV1[j]
        BY <1>6, <3>1 DEF Does
    <3>3. at > j /\ at <= AgainAt[j]
        BY <1>4, <3>1, AgainFacts
    <3>4. SixV1[j] \notin schema
        BY <1>0, <3>3 DEF FilledV1
    <3>5. SixV1[j][2] = "projects" \/ SixV1[j][2] = "units"
        BY SixV1Facts
    <3> QED BY <1>11, <3>2, <3>4, <3>5 DEF Error, TableNamed
  <2> QED BY <1>9, <2>1, <2>2, <2>3, <2>4
<1>14. at' = at + 1 /\ todo' = todo
  <2>1. CASE at \in 7 .. 23
    BY <1>2, <1>7, <2>1, RunGoesOn
  <2>2. CASE at \notin 7 .. 23
    BY <1>2, <1>10, <1>13, <2>2, RunGoesOn
  <2> QED BY <2>1, <2>2
<1>15. schema' = IF Error(schema, Up[at]) = "none" THEN Effect(schema, Up[at], db.dialect) ELSE schema
    BY RunGoesOn
<1>16. Sound(u[at])
  <2>1. CASE at \in {24, 25, 26, 30, 31}
    BY <1>8, <2>1 DEF Does
  <2>2. CASE \E j \in 1 .. 6 : at = AgainAt[j]
    BY <1>6, <2>2 DEF Does
  <2> QED BY <1>5, <1>7, <1>9, <2>1, <2>2 DEF Does
<1>17. /\ at \in 1 .. 6 => Up[at].do = "dropIfThere" /\ Up[at].what = SixV1[at]
       /\ \A j \in 1 .. 6 : at = AgainAt[j] => Up[at].do = "create" /\ Up[at].what = SixV1[j]
    BY <1>2, <1>5, <1>6 DEF Does
<1>18. /\ at = 24 => Up[at].do = "dropIfThere" /\ Up[at].what = TableNamed("units_fts")
       /\ at = 25 => Up[at].do = "create" /\ Up[at].what = TableNamed("units_fts")
       /\ at = 30 => Up[at].do = "dropIfThere" /\ Up[at].what = TableNamed("projects_fts")
       /\ at = 31 => Up[at].do = "create" /\ Up[at].what = TableNamed("projects_fts")
    BY <1>2, <1>8 DEF Does
<1> QED BY <1>2, <1>4, <1>13, <1>14, <1>15, <1>16, <1>17, <1>18

\* The reset goes on, whatever it does: nothing that it has still to do is lost
\* before it runs.
LEMMA ResetGoesOnV1 ==
    ASSUME StartType, TablesInv, FilledV1, ~V2, OnSqlite, [Next]_vars, NEW k \in Nat
    PROVE  ~StopsBefore(31, k)
BY RunResetV1 DEF StopsBefore

\* What is recorded, whatever the step.
LEMMA RecordedV1 ==
    ASSUME StartType, ~V2, OnSqlite, [Next]_vars
    PROVE  /\ db' = db /\ ~V2' /\ OnSqlite' /\ meta \subseteq meta'
           /\ \A i \in {23, 24, 30, 31} : i \in meta' /\ i \notin meta =>
                RecordMigration /\ Current = i /\ at = Len(Up) + 1
<1>1. db' = db
    BY DEF Next, vars, StartMigrations, SkipStatement, RunStatement, RecordMigration, RunLoose, EndMigrations,
       RestoreAtBoot, RestoreFails, RestoreAtTick, Defer, WriteRecord, Crash, Die, Down
<1>2. ~V2' /\ OnSqlite'
    BY <1>1 DEF V2, OnSqlite
<1>3. CASE RecordMigration
  <2>1. /\ todo # {} /\ meta' = meta \cup {Migration(Current).name} /\ at = Len(Up) + 1
    BY <1>3 DEF RecordMigration, Migrating
  <2>2. Migration(Current).name = V1Name(Current) /\ Current \in 1 .. 39
    BY <2>1, CurrentV1
  <2>3. \A i \in {23, 24, 30, 31} : V1Name(Current) = i => Current = i
    BY <2>2 DEF V1Name
  <2> QED BY <1>1, <1>2, <1>3, <2>1, <2>2, <2>3
<1>4. CASE ~RecordMigration
  <2> SUFFICES meta' = meta
    BY <1>1, <1>2
  <2>1. CASE StartMigrations
    <3>1. ~TriggersLost
        BY DEF TriggersLost
    <3> QED BY <2>1, <3>1 DEF StartMigrations
  <2>2. CASE RunStatement
    BY <2>2, RunFacts
  <2>3. CASE SkipStatement \/ RunLoose \/ EndMigrations \/ RestoreAtBoot \/ RestoreFails
    BY <2>3 DEF SkipStatement, RunLoose, EndMigrations, RestoreAtBoot, RestoreFails
  <2>4. CASE RestoreAtTick \/ Defer \/ WriteRecord \/ Crash \/ Die \/ UNCHANGED vars
    BY <2>4 DEF RestoreAtTick, Defer, WriteRecord, Crash, Die, Down, vars
  <2> QED BY <1>4, <2>1, <2>2, <2>3, <2>4 DEF Next
<1> QED BY <1>3, <1>4

\* A column that its migration owes: the migration's first statement makes it, or
\* finds it there.
LEMMA ColumnMadeV1 ==
    ASSUME StartType, TablesInv, ~V2, OnSqlite, RunStatement, at = 1, Current \in {23, 24}
    PROVE  /\ Current = 24 => ProjectColumn \in schema'
           /\ Current = 23 => UnitColumn \in schema'
           /\ Current = 24 /\ at' # 1 => ProjectColumn \notin schema
           /\ Current = 23 /\ at' # 1 /\ failed' = "none" => UnitColumn \notin schema
           /\ Current = 23 => at' # 5
<1>0. todo # {} /\ at \in 1 .. Len(Up) /\ Len(Up) \in Nat /\ phase = "migrate"
    BY RunFacts
<1>1. PICK s : s = Up[at]
    OBVIOUS
<1>2. PICK o : o = IF Current = 24 THEN ProjectColumn ELSE UnitColumn
    OBVIOUS
<1>3. Sound(s) /\ s.do = "create" /\ s.what = o /\ s.mode = IF Current = 24 THEN "await" ELSE "all"
  <2>1. CASE Current = 24
    <3>1. Up = V1Ups[24]
        BY <1>0, <2>1, CurrentV1
    <3> QED BY <1>1, <1>2, <2>1, <3>1, DescriptionUp DEF Member, ProjectColumn
  <2>2. CASE Current = 23
    <3>1. Up = V1Ups[23]
        BY <1>0, <2>2, CurrentV1
    <3> QED BY <1>1, <1>2, <2>2, <3>1, SerialNumbersUp DEF Member, UnitColumn
  <2> QED BY <2>1, <2>2
<1>4. o[2] \in {"projects", "units"} /\ o[1] = "column"
    BY <1>2 DEF ProjectColumn, UnitColumn
<1>5. TableNamed("projects") \in schema /\ TableNamed("units") \in schema
  <2>1. OpenedV1[1] = "projects" /\ OpenedV1[3] = "units"
    BY DEF OpenedV1
  <2>2. TableNamed(OpenedV1[1]) \in schema
    BY <1>0, TableThereV1
  <2>3. TableNamed(OpenedV1[3]) \in schema
    BY <1>0, TableThereV1
  <2> QED BY <2>1, <2>2, <2>3
<1>6. Error(schema, s) = IF o \in schema THEN "exists" ELSE "none"
    BY <1>3, <1>4, <1>5 DEF Error, TableNamed
<1>7. schema' = IF Error(schema, s) = "none" THEN Effect(schema, s, db.dialect) ELSE schema
    BY <1>1, RunGoesOn
<1>8. o \in schema'
  <2>1. CASE o \in schema
    BY <1>6, <1>7, <2>1
  <2>2. CASE o \notin schema
    BY <1>3, <1>6, <1>7, <2>2, EffectMakes
  <2> QED BY <2>1, <2>2
<1>9. o \in schema =>
        /\ Current = 24 => at' = 1
        /\ Current = 23 => failed' # "none"
  <2> SUFFICES ASSUME o \in schema
               PROVE  /\ Current = 24 => at' = 1
                      /\ Current = 23 => failed' # "none"
    OBVIOUS
  <2> DEFINE e == Error(schema, s)
             error == IF s.mode = "ifMissing" /\ e = "exists" THEN "none" ELSE e
             worst == IF failed # "none" THEN failed ELSE error
  <2>1. e = "exists" /\ error = "exists" /\ worst # "none"
    BY <1>3, <1>6
  <2>2. \/ /\ s.mode \in {"await", "ifMissing", "last"} /\ worst # "none"
           /\ GiveUp(worst)
        \/ /\ ~(s.mode \in {"await", "ifMissing", "last"} /\ worst # "none")
           /\ at' = at + 1 /\ todo' = todo
           /\ failed' = IF s.mode = "all" THEN worst ELSE "none"
    BY <1>1, RunWaited
  <2> HIDE DEF e, error, worst
  <2>3. CASE Current = 24
    <3>1. GiveUp(worst)
        BY <1>3, <2>1, <2>2, <2>3
    <3> QED BY <2>3, <3>1 DEF GiveUp, NextMigration
  <2>4. CASE Current = 23
    <3>1. failed' = worst
        BY <1>3, <2>2, <2>4
    <3> QED BY <2>1, <2>4, <3>1
  <2> QED BY <2>3, <2>4
<1>10. Current = 23 => at' = 2
    BY <1>1, <1>3, RunGoesOn
<1> QED BY <1>2, <1>8, <1>9, <1>10

\* What runs once a migration of two, or of four, statements has begun.
LEMMA BegunV1 ==
    ASSUME StartType, ~V2, OnSqlite, RunStatement, Current \in {23, 24}
    PROVE  /\ at' # 1 => at' = at + 1 /\ todo' = todo
           /\ Current = 23 => at \in 1 .. 4
           /\ Current = 23 /\ at' # 1 /\ (failed' = "none" \/ at' = 5) => failed = "none"
<1>0. todo # {} /\ at \in 1 .. Len(Up) /\ Len(Up) \in Nat /\ phase = "migrate"
    BY RunFacts
<1>1. at' # 1 => at' = at + 1 /\ todo' = todo
    BY RunOutcome
<1>2. Current = 23 => Up = V1Ups[23] /\ at \in 1 .. 4
    BY <1>0, CurrentV1, SerialNumbersUp
<1>3. ASSUME Current = 23, at' # 1, failed' = "none" \/ at' = 5, failed # "none" PROVE FALSE
  <2>1. PICK s : s = Up[at]
    OBVIOUS
  <2> DEFINE e == Error(schema, s)
             error == IF s.mode = "ifMissing" /\ e = "exists" THEN "none" ELSE e
             worst == IF failed # "none" THEN failed ELSE error
  <2>2. worst = failed
    BY <1>3
  <2>3. \/ /\ s.mode \in {"await", "ifMissing", "last"} /\ worst # "none"
           /\ GiveUp(worst)
        \/ /\ ~(s.mode \in {"await", "ifMissing", "last"} /\ worst # "none")
           /\ at' = at + 1 /\ todo' = todo
           /\ failed' = IF s.mode = "all" THEN worst ELSE "none"
    BY <2>1, RunWaited
  <2> HIDE DEF e, error, worst
  <2>4. ~GiveUp(worst)
    BY <1>3 DEF GiveUp, NextMigration
  <2>5. s.mode = IF at = 4 THEN "last" ELSE "all"
    <3>1. s = V1Ups[23][at] /\ (at = 1 \/ at = 2 \/ at = 3 \/ at = 4)
        BY <1>2, <1>3, <2>1
    <3> QED BY <3>1, SerialNumbersUp DEF Member
  <2>6. at # 4 /\ failed' = failed
    BY <1>3, <2>2, <2>3, <2>4, <2>5
  <2> QED BY <1>1, <1>2, <1>3, <2>6
<1> QED BY <1>1, <1>2, <1>3

LEMMA ColumnsOwedV1 ==
    ASSUME StartType, TablesInv, LeftV1, ~V2, OnSqlite, [Next]_vars
    PROVE  /\ ProjectColumn \in schema' \/ PendingAt(24, 1)'
           /\ UnitColumn \in schema' \/ PendingAt(23, 1)'
<1>0. Listed(24, 1) /\ Listed(23, 1)
    BY ListedV1 DEF StartType
<1>1. \A i : ~StopsBefore(i, 1)
  <2> SUFFICES ASSUME NEW i, RunStatement, at < 1 PROVE FALSE
    BY DEF StopsBefore
  <2> QED BY RunFacts
<1>2. CASE RunStatement /\ Current = 24 /\ at = 1
  <2>1. ProjectColumn \in schema'
    BY <1>2, ColumnMadeV1
  <2>2. UnitColumn \in schema' \/ PendingAt(23, 1)'
    BY <1>0, <1>1, <1>2, ColumnStaysV1, PendingStep DEF LeftV1
  <2> QED BY <2>1, <2>2
<1>3. CASE RunStatement /\ Current = 23 /\ at = 1
  <2>1. UnitColumn \in schema'
    BY <1>3, ColumnMadeV1
  <2>2. ProjectColumn \in schema' \/ PendingAt(24, 1)'
    BY <1>0, <1>1, <1>3, ColumnStaysV1, PendingStep DEF LeftV1
  <2> QED BY <2>1, <2>2
<1>4. CASE ~(RunStatement /\ Current \in {23, 24} /\ at = 1)
  <2>1. ProjectColumn \in schema' \/ PendingAt(24, 1)'
    BY <1>0, <1>1, <1>4, ColumnStaysV1, PendingStep DEF LeftV1
  <2>2. UnitColumn \in schema' \/ PendingAt(23, 1)'
    BY <1>0, <1>1, <1>4, ColumnStaysV1, PendingStep DEF LeftV1
  <2> QED BY <2>1, <2>2
<1> QED BY <1>2, <1>3, <1>4

LEMMA LeftStepV1 ==
    ASSUME StartType, TablesInv, LeftV1, FilledV1, ~V2, OnSqlite, [Next]_vars
    PROVE  LeftV1'
<1>0. /\ db \in Databases /\ DOMAIN List = 1 .. 39
      /\ List[23].name = 23 /\ List[24].name = 24 /\ List[30].name = 30 /\ List[31].name = 31
  <2>1. db \in Databases
    BY DEF StartType
  <2>2. DOMAIN List = 1 .. 39
    BY <2>1, ListFacts, Zenon
  <2> QED BY <2>1, <2>2, ListedV1
<1>1. /\ ProjectColumn \in schema' \/ PendingAt(24, 1)'
      /\ UnitColumn \in schema' \/ PendingAt(23, 1)'
    BY ColumnsOwedV1
<1>2. ASSUME 31 \in meta' PROVE ProjectColumn \in schema' /\ UnitColumn \in schema'
  <2>1. CASE 31 \in meta
    BY <2>1, ColumnStaysV1 DEF LeftV1
  <2>2. CASE 31 \notin meta
    <3>1. RecordMigration /\ Current = 31
        BY <1>2, <2>2, RecordedV1
    <3>2. todo # {} /\ phase = "migrate" /\ schema' = schema
        BY <3>1 DEF RecordMigration, Migrating
    <3>3. 23 \notin todo /\ 24 \notin todo
        BY <3>1, <3>2, CurrentV1
    <3> QED BY <3>2, <3>3 DEF LeftV1, PendingAt
  <2> QED BY <2>1, <2>2
<1>3. ASSUME NEW i \in {23, 24, 30, 31}, i \in todo' PROVE i \notin meta'
  <2>1. CASE StartMigrations
    <3>1. meta' = meta /\ todo' = NotCompleted
        BY <2>1 DEF StartMigrations, TriggersLost
    <3> QED BY <1>0, <1>3, <3>1 DEF NotCompleted
  <2>2. CASE RecordMigration
    <3>1. todo' = todo \ {Current}
        BY <2>2 DEF RecordMigration, NextMigration
    <3> QED BY <1>3, <3>1, RecordedV1 DEF LeftV1
  <2>3. CASE ~StartMigrations /\ ~RecordMigration
    <3>1. todo' \subseteq todo
      <4>1. CASE RunStatement
        BY <4>1, RunOutcome
      <4>2. CASE ~RunStatement
        BY <2>3, <4>2 DEF Next, SkipStatement, RunLoose, EndMigrations, RestoreAtBoot, RestoreFails,
           RestoreAtTick, Defer, WriteRecord, Crash, Die, Down, vars, bootVars
      <4> QED BY <4>1, <4>2
    <3> QED BY <1>3, <2>3, <3>1, RecordedV1 DEF LeftV1
  <2> QED BY <2>1, <2>2, <2>3
<1>4. ASSUME todo' # {}, Current' \in {23, 24}, at' > 1,
             Current' = 23 => failed' = "none" \/ at' = 5
      PROVE  31 \notin meta'
  <2>1. CASE RunStatement
    <3>1. todo # {} /\ meta' = meta /\ at \in Nat \ {0}
        BY <2>1, RunFacts
    <3>2. todo' = todo
        BY <1>4, <2>1, <3>1, RunOutcome
    <3>3. Current' = Current
        BY <3>2 DEF Current
    <3>4. at' = at + 1
        BY <1>4, <2>1, <3>3, BegunV1
    <3>5. CASE at = 1
        BY <1>4, <2>1, <3>1, <3>3, <3>5, ColumnMadeV1 DEF LeftV1
    <3>6. CASE at > 1
        BY <1>4, <2>1, <3>1, <3>3, <3>4, <3>6, BegunV1 DEF LeftV1
    <3> QED BY <3>1, <3>5, <3>6
  <2>2. CASE SkipStatement
    <3>1. todo # {} /\ at <= Len(Up) /\ db.dialect \notin Up[at].on /\ at' = at + 1
          /\ UNCHANGED <<meta, todo, failed>>
        BY <2>2 DEF SkipStatement, Migrating
    <3>2. Current' = Current
        BY <3>1 DEF Current
    <3>3. at \in 1 .. Len(Up) /\ Len(Up) \in Nat /\ Up = V1Ups[Current]
        BY <3>1, CurrentV1
    <3>4. PICK u : u = V1Ups[Current]
        OBVIOUS
    <3>5. \A k \in 1 .. Len(u) : u[k].on \in {Dialects, {"sqlite"}}
      <4>1. CASE Current = 23
        <5>1. Len(u) = 4 /\ u[1].on = Dialects /\ u[2].on = Dialects /\ u[3].on = Dialects /\ u[4].on = Dialects
            BY <3>4, <4>1, SerialNumbersUp DEF Member
        <5>2. \A k \in 1 .. 4 : k = 1 \/ k = 2 \/ k = 3 \/ k = 4
            OBVIOUS
        <5> QED BY <5>1, <5>2
      <4>2. CASE Current = 24
        <5>1. Len(u) = 3 /\ u[1].on = Dialects /\ u[2].on = {"sqlite"} /\ u[3].on = {"sqlite"}
            BY <3>4, <4>2, DescriptionUp DEF Member
        <5>2. \A k \in 1 .. 3 : k = 1 \/ k = 2 \/ k = 3
            OBVIOUS
        <5> QED BY <5>1, <5>2
      <4> QED BY <1>4, <3>2, <4>1, <4>2
    <3>6. Up[at].on \in {Dialects, {"sqlite"}}
        BY <3>3, <3>4, <3>5
    <3> QED BY <3>1, <3>6 DEF OnSqlite, Dialects
  <2>3. CASE StartMigrations \/ RecordMigration
    <3>1. at' = 1
        BY <2>3 DEF StartMigrations, RecordMigration, NextMigration, StartType
    <3> QED BY <1>4, <3>1
  <2>4. CASE RunLoose \/ EndMigrations \/ RestoreAtBoot \/ RestoreFails \/ RestoreAtTick \/ Defer \/ WriteRecord
             \/ UNCHANGED vars
    <3>1. UNCHANGED <<meta, todo, at, failed>>
        BY <2>4 DEF RunLoose, EndMigrations, RestoreAtBoot, RestoreFails, RestoreAtTick, Defer, WriteRecord,
           vars, bootVars
    <3>2. Current' = Current
        BY <3>1 DEF Current
    <3> QED BY <1>4, <3>1, <3>2 DEF LeftV1
  <2>5. CASE Crash \/ Die
    <3>1. todo' = {}
        BY <2>5 DEF Crash, Die, Down
    <3> QED BY <1>4, <3>1
  <2> QED BY <2>1, <2>2, <2>3, <2>4, <2>5 DEF Next
<1>5. (phase' = "migrate" => 31 \in meta' \/ 31 \in todo')
  <2>1. CASE StartMigrations
    <3>1. meta' = meta /\ todo' = NotCompleted
        BY <2>1 DEF StartMigrations, TriggersLost
    <3> QED BY <1>0, <3>1 DEF NotCompleted
  <2>2. CASE RecordMigration
    <3>1. /\ todo' = todo \ {Current} /\ todo # {} /\ phase = "migrate"
          /\ meta' = meta \cup {Migration(Current).name}
        BY <2>2 DEF RecordMigration, NextMigration, Migrating
    <3>2. Current = 31 => Migration(Current).name = 31
        BY <3>1, CurrentV1 DEF V1Name
    <3> QED BY <3>1, <3>2 DEF LeftV1
  <2>3. CASE RunStatement
    <3>1. meta' = meta /\ phase = "migrate"
        BY <2>3, RunFacts
    <3>2. Current = 31 => todo' = todo
        BY <2>3, RunResetV1
    <3>3. todo' = todo \/ todo' = todo \ {Current}
        BY <2>3, RunOutcome
    <3> QED BY <3>1, <3>2, <3>3 DEF LeftV1
  <2>4. CASE SkipStatement \/ RunLoose \/ RestoreAtTick \/ Defer \/ WriteRecord \/ UNCHANGED vars
    <3>1. UNCHANGED <<meta, todo, phase>>
        BY <2>4 DEF SkipStatement, RunLoose, RestoreAtTick, Defer, WriteRecord, vars, bootVars
    <3> QED BY <3>1 DEF LeftV1
  <2>5. CASE EndMigrations \/ RestoreAtBoot \/ RestoreFails \/ Crash \/ Die
    BY <2>5 DEF EndMigrations, RestoreAtBoot, RestoreFails, Crash, Die, Down
  <2> QED BY <2>1, <2>2, <2>3, <2>4, <2>5 DEF Next
<1>6. (phase' \in {"restore", "ready"} => 31 \in meta')
  <2>1. CASE EndMigrations
    BY <2>1 DEF EndMigrations, LeftV1
  <2>2. CASE RestoreAtBoot \/ RestoreFails \/ RestoreAtTick \/ Defer \/ WriteRecord \/ UNCHANGED vars
    <3>1. meta' = meta /\ (phase' \in {"restore", "ready"} => phase \in {"restore", "ready"})
        BY <2>2 DEF RestoreAtBoot, RestoreFails, RestoreAtTick, Defer, WriteRecord, Ticking, vars, bootVars
    <3> QED BY <3>1 DEF LeftV1
  <2>3. CASE RunLoose
    BY <2>3 DEF RunLoose, LeftV1
  <2>4. CASE StartMigrations \/ SkipStatement \/ RecordMigration
    BY <2>4 DEF StartMigrations, SkipStatement, RecordMigration, Migrating
  <2>5. CASE RunStatement
    BY <2>5, RunFacts
  <2>6. CASE Crash \/ Die
    BY <2>6 DEF Crash, Die, Down
  <2> QED BY <2>1, <2>2, <2>3, <2>4, <2>5, <2>6 DEF Next
<1>7. todo' # {} /\ Current' = 24 /\ at' > 1 => 31 \notin meta'
    BY <1>4
<1>8. todo' # {} /\ Current' = 23 /\ at' > 1 /\ (failed' = "none" \/ at' = 5) => 31 \notin meta'
    BY <1>4
<1> QED BY <1>1, <1>2, <1>3, <1>5, <1>6, <1>7, <1>8 DEF LeftV1

\* A search table that is dropped: a statement that creates it is still to run.
LEMMA DroppedTableV1 ==
    ASSUME StartType, TablesInv, LeftV1, FilledV1, ~V2, OnSqlite, [Next]_vars, NEW t \in SearchTablesV1,
           TableNamed(t) \in schema, TableNamed(t) \notin schema'
    PROVE  /\ t = "units_fts" => PendingAt(30, 2)' \/ PendingAt(31, 25)'
           /\ t = "projects_fts" => PendingAt(31, 31)'
<1>0. /\ List[30].name = 30 /\ List[31].name = 31 /\ db' = db /\ db \in Databases
    BY ListedV1, RecordedV1 DEF StartType
<1>1. List' = List
    BY <1>0 DEF List, V2
<1>2. TableNamed(t)[1] = "table" /\ TableNamed(t)[2] = t /\ t \in {"units_fts", "projects_fts"}
    BY DEF TableNamed, SearchTablesV1
<1>3. /\ \A j \in 1 .. 6 : TableNamed(t) # SixV1[j]
      /\ TableNamed(t) # <<"column", "units", "serialNumberPattern">>
  <2>1. TableNamed(t) # <<"column", "units", "serialNumberPattern">>
    BY DEF TableNamed
  <2> QED BY <1>2, <2>1, SixV1Facts
<1>4. /\ RunStatement
      /\ \/ Current = 24 /\ at = 2 /\ t = "projects_fts"
         \/ Current = 30 /\ at = 1 /\ t = "units_fts"
         \/ Current = 31 /\ at = 24 /\ t = "units_fts"
         \/ Current = 31 /\ at = 30 /\ t = "projects_fts"
  <2>1. TableNamed(t)[1] \notin {"index", "trigger"} /\ TableNamed(t)[1] # "trigger"
    BY <1>2
  <2> QED BY <1>2, <1>3, <2>1, DropsV1
<1>5. /\ todo # {} /\ phase = "migrate" /\ UNCHANGED <<phase, meta>> /\ Current \in todo
      /\ at \in 1 .. Len(Up) /\ Len(Up) \in Nat
    BY <1>4, RunFacts, CurrentV1
<1>6. CASE Current = 24
  <2>1. 31 \notin meta /\ 31 \in todo
    BY <1>4, <1>5, <1>6 DEF LeftV1
  <2>2. 31 \in todo' /\ (31 = Current' => at' <= 31)
    <3>1. \/ at' = at + 1 /\ todo' = todo
          \/ todo' = todo \ {Current} /\ at' = 1
        BY <1>4, RunOutcome
    <3>2. at = 2
        BY <1>4, <1>6
    <3> QED BY <1>6, <2>1, <3>1, <3>2
  <2> QED BY <1>0, <1>1, <1>4, <1>5, <1>6, <2>1, <2>2 DEF PendingAt
<1>7. CASE Current = 30
  <2>1. Up = V1Ups[30]
    BY <1>5, <1>7, CurrentV1
  <2>2. Up[at].do = "dropIfThere" /\ at = 1
    BY <1>4, <1>7, <2>1, UnitsFtsUp DEF Does
  <2>3. Error(schema, Up[at]) = "none"
    BY <2>2 DEF Error
  <2>4. failed = "none"
    BY <1>5, <1>7 DEF StartType
  <2>5. at' = at + 1 /\ todo' = todo
    BY <1>4, <2>3, <2>4, RunGoesOn
  <2>6. PendingAt(30, 2)'
    BY <1>0, <1>1, <1>5, <1>7, <2>2, <2>5 DEF PendingAt, LeftV1
  <2> QED BY <1>4, <1>7, <2>6
<1>8. CASE Current = 31
  <2>1. at' = at + 1 /\ todo' = todo
    BY <1>4, <1>8, RunResetV1
  <2>2. 31 \notin meta'
    BY <1>5, <1>8 DEF LeftV1
  <2> QED BY <1>0, <1>1, <1>4, <1>5, <1>8, <2>1, <2>2 DEF PendingAt
<1> QED BY <1>4, <1>6, <1>7, <1>8

\* The second statement of populateUnits creates the table, or finds it there.
LEMMA PopulatedV1 ==
    ASSUME StartType, ~V2, OnSqlite, RunStatement, Current = 30
    PROVE  /\ at = 2 => TableNamed("units_fts") \in schema'
           /\ ~StopsBefore(30, 2)
<1>0. todo # {} /\ at \in 1 .. Len(Up) /\ Len(Up) \in Nat
    BY RunFacts
<1>1. Up = V1Ups[30]
    BY <1>0, CurrentV1
<1>2. PICK s : s = Up[at]
    OBVIOUS
<1>3. ASSUME at = 2 PROVE TableNamed("units_fts") \in schema'
  <2>1. Sound(s) /\ s.do = "create" /\ s.what = TableNamed("units_fts")
    BY <1>1, <1>2, <1>3, UnitsFtsUp DEF Does, TableNamed
  <2>2. schema' = IF Error(schema, s) = "none" THEN Effect(schema, s, db.dialect) ELSE schema
    BY <1>2, RunGoesOn
  <2>3. Error(schema, s) # "none" => TableNamed("units_fts") \in schema
    BY <2>1 DEF Error, TableNamed
  <2>4. TableNamed("units_fts") \in Effect(schema, s, db.dialect)
    BY <2>1, EffectMakes
  <2> QED BY <2>2, <2>3, <2>4
<1>4. ~StopsBefore(30, 2)
  <2> SUFFICES ASSUME at < 2 PROVE at' = at + 1 /\ todo' = todo
    BY DEF StopsBefore
  <2>1. at = 1
    BY <1>0
  <2>2. Up[at].do = "dropIfThere"
    BY <1>1, <2>1, UnitsFtsUp DEF Does
  <2>3. Error(schema, Up[at]) = "none" /\ failed = "none"
    BY <1>0, <2>2 DEF Error, StartType
  <2> QED BY <2>3, RunGoesOn
<1> QED BY <1>3, <1>4

LEMMA FilledStepV1 ==
    ASSUME StartType, TablesInv, LeftV1, FilledV1, ~V2, OnSqlite, [Next]_vars
    PROVE  FilledV1'
<1>0. Listed(30, 2) /\ Listed(31, 25) /\ Listed(31, 31)
    BY ListedV1 DEF StartType
<1>1. \A k \in Nat : ~StopsBefore(31, k)
    BY ResetGoesOnV1
<1>2. ~StopsBefore(30, 2)
    BY PopulatedV1 DEF StopsBefore
<1>3. TableNamed("units_fts") \in schema' \/ PendingAt(30, 2)' \/ PendingAt(31, 25)'
  <2>1. CASE TableNamed("units_fts") \in schema
    BY <2>1, DroppedTableV1 DEF SearchTablesV1
  <2>2. CASE PendingAt(30, 2)
    BY <1>0, <1>2, <2>2, PendingStep, PopulatedV1
  <2>3. CASE PendingAt(31, 25)
    <3>1. CASE RunStatement /\ Current = 31 /\ at = 25
      <4>1. Up[at].do = "create" /\ Up[at].what = TableNamed("units_fts") /\ Sound(Up[at])
            /\ schema' = Effect(schema, Up[at], db.dialect)
        BY <3>1, RunResetV1
      <4> QED BY <4>1, EffectMakes
    <3>2. CASE ~(RunStatement /\ Current = 31 /\ at = 25)
        BY <1>0, <1>1, <2>3, <3>2, PendingStep
    <3> QED BY <3>1, <3>2
  <2> QED BY <2>1, <2>2, <2>3 DEF FilledV1
<1>4. TableNamed("projects_fts") \in schema' \/ PendingAt(31, 31)'
  <2>1. CASE TableNamed("projects_fts") \in schema
    BY <2>1, DroppedTableV1 DEF SearchTablesV1
  <2>2. CASE PendingAt(31, 31)
    <3>1. CASE RunStatement /\ Current = 31 /\ at = 31
      <4>1. Up[at].do = "create" /\ Up[at].what = TableNamed("projects_fts") /\ Sound(Up[at])
            /\ schema' = Effect(schema, Up[at], db.dialect)
        BY <3>1, RunResetV1
      <4> QED BY <4>1, EffectMakes
    <3>2. CASE ~(RunStatement /\ Current = 31 /\ at = 31)
        BY <1>0, <1>1, <2>2, <3>2, PendingStep
    <3> QED BY <3>1, <3>2
  <2> QED BY <2>1, <2>2 DEF FilledV1
<1>5. ASSUME todo' # {}, Current' = 31, at' > 1
      PROVE  \/ /\ RunStatement /\ Current = 31 /\ todo # {} /\ at \in 1 .. 34 /\ at' = at + 1 /\ phase = "migrate"
             \/ UNCHANGED <<schema, at, todo>> /\ Current = 31 /\ todo # {}
  <2>1. CASE RunStatement
    <3>1. todo # {} /\ phase = "migrate" /\ at \in Nat
        BY <2>1, RunFacts
    <3>2. todo' = todo
        BY <1>5, <2>1, <3>1, RunOutcome
    <3>3. Current = 31
        BY <1>5, <3>2 DEF Current
    <3> QED BY <2>1, <3>1, <3>3, RunResetV1
  <2>2. CASE SkipStatement
    <3>1. todo # {} /\ at <= Len(Up) /\ db.dialect \notin Up[at].on /\ todo' = todo
        BY <2>2 DEF SkipStatement, Migrating
    <3>2. Current = 31
        BY <1>5, <3>1 DEF Current
    <3>3. PICK u : u = V1Ups[31]
        OBVIOUS
    <3>4. Up = u /\ at \in 1 .. 34
      <4>1. Up = V1Ups[31] /\ Len(Up) \in Nat /\ at \in 1 .. Len(Up) + 1
        BY <3>1, <3>2, CurrentV1
      <4>2. Up = u /\ Len(u) = 34
        BY <3>3, <4>1, ResetUp
      <4> QED BY <3>1, <4>1, <4>2
    <3>5. \A j \in 1 .. 34 : u[j].on = {"sqlite"}
        BY <3>3, ResetOn, Zenon
    <3> QED BY <3>1, <3>4, <3>5 DEF OnSqlite
  <2>3. CASE StartMigrations \/ RecordMigration
    <3>1. at' = 1
        BY <2>3 DEF StartMigrations, RecordMigration, NextMigration, StartType
    <3> QED BY <1>5, <3>1
  <2>4. CASE EndMigrations \/ RestoreAtBoot \/ RestoreFails \/ RestoreAtTick \/ Defer \/ WriteRecord \/ Crash \/ Die
    <3>1. todo' = {}
        BY <2>4 DEF EndMigrations, RestoreAtBoot, RestoreFails, RestoreAtTick, Defer, WriteRecord, Crash, Die, Down,
           Ticking, bootVars, StartType
    <3> QED BY <1>5, <3>1
  <2>5. CASE UNCHANGED vars
    <3>1. UNCHANGED <<schema, at, todo>>
        BY <2>5 DEF vars, bootVars
    <3>2. Current = 31
        BY <1>5, <3>1 DEF Current
    <3> QED BY <1>5, <3>1, <3>2
  <2>6. ~RunLoose
    BY DEF RunLoose, StartType
  <2> QED BY <2>1, <2>2, <2>3, <2>4, <2>5, <2>6 DEF Next
<1>6. ASSUME todo' # {}, Current' = 31, at' > 1
      PROVE  /\ at' = 25 => TableNamed("units_fts") \notin schema'
             /\ at' = 31 => TableNamed("projects_fts") \notin schema'
             /\ \A j \in 1 .. 6 : at' > j /\ at' <= AgainAt[j] => SixV1[j] \notin schema'
  <2>1. CASE UNCHANGED <<schema, at, todo>> /\ Current = 31 /\ todo # {}
    BY <2>1 DEF FilledV1
  <2>2. CASE RunStatement /\ Current = 31 /\ todo # {} /\ at \in 1 .. 34 /\ at' = at + 1 /\ phase = "migrate"
    <3>1. /\ Sound(Up[at]) /\ (at \notin 7 .. 23 => schema' = Effect(schema, Up[at], db.dialect))
          /\ at = 24 => Up[at].do = "dropIfThere" /\ Up[at].what = TableNamed("units_fts")
          /\ at = 30 => Up[at].do = "dropIfThere" /\ Up[at].what = TableNamed("projects_fts")
          /\ at \in 1 .. 6 => Up[at].do = "dropIfThere" /\ Up[at].what = SixV1[at]
        BY <2>2, RunResetV1
    <3>2. \A t : TableNamed(t)[1] = "table" /\ TableNamed(t)[2] = t
        BY DEF TableNamed
    <3>3. at' = 25 => TableNamed("units_fts") \notin schema'
      <4> SUFFICES ASSUME at' = 25 PROVE TableNamed("units_fts") \notin schema'
        OBVIOUS
      <4>1. at = 24
        BY <2>2
      <4>2. schema' = Effect(schema, Up[at], db.dialect) /\ Up[at].do = "dropIfThere" /\ Up[at].what = TableNamed("units_fts")
        BY <3>1, <4>1
      <4> QED BY <3>1, <3>2, <4>2, EffectMakes
    <3>4. at' = 31 => TableNamed("projects_fts") \notin schema'
      <4> SUFFICES ASSUME at' = 31 PROVE TableNamed("projects_fts") \notin schema'
        OBVIOUS
      <4>1. at = 30
        BY <2>2
      <4>2. schema' = Effect(schema, Up[at], db.dialect) /\ Up[at].do = "dropIfThere" /\ Up[at].what = TableNamed("projects_fts")
        BY <3>1, <4>1
      <4> QED BY <3>1, <3>2, <4>2, EffectMakes
    <3>5. ASSUME NEW j \in 1 .. 6, at' > j, at' <= AgainAt[j] PROVE SixV1[j] \notin schema'
      <4>1. CASE at = j
        <5>1. schema' = Effect(schema, Up[at], db.dialect) /\ Up[at].do = "dropIfThere" /\ Up[at].what = SixV1[j]
              /\ SixV1[j][1] # "table"
            <6>1. at \in 1 .. 6 /\ at \notin 7 .. 23
                BY <4>1
            <6> QED BY <3>1, <4>1, <6>1, SixV1Facts
        <5> QED BY <3>1, <5>1, EffectMakes
      <4>2. CASE at # j
        <5>1. at > j /\ at < AgainAt[j] /\ AgainAt[j] \in Nat
            BY <2>2, <3>5, <4>2, AgainFacts
        <5>2. SixV1[j] \notin schema
            BY <2>2, <5>1 DEF FilledV1
        <5>3. ASSUME SixV1[j] \in schema' PROVE FALSE
            <6>1. SixV1[j][1] = "trigger"
                BY SixV1Facts
            <6>2. ~(RestoreAtBoot \/ RestoreAtTick)
                BY <2>2 DEF RestoreAtBoot, RestoreAtTick, Ticking
            <6>3. PICK m \in 1 .. 6 : SixV1[j] = SixV1[m] /\ at = AgainAt[m]
                BY <2>2, <5>2, <5>3, <6>1, <6>2, TriggerAddsV1
            <6>4. j = m
                BY <6>3, SixV1Facts
            <6> QED BY <5>1, <6>3, <6>4
        <5> QED BY <5>3
      <4> QED BY <4>1, <4>2
    <3> QED BY <3>3, <3>4, <3>5
  <2> QED BY <1>5, <1>6, <2>1, <2>2
<1>7. todo' # {} /\ Current' = 31 =>
         /\ at' = 25 => TableNamed("units_fts") \notin schema'
         /\ at' = 31 => TableNamed("projects_fts") \notin schema'
         /\ \A j \in 1 .. 6 : at' > j /\ at' <= AgainAt[j] => SixV1[j] \notin schema'
  <2> SUFFICES ASSUME todo' # {}, Current' = 31, at' \in {25, 31} \/ \E j \in 1 .. 6 : at' > j PROVE at' > 1
    BY <1>6
  <2>1. StartType'
    BY StartTypeStep
  <2>2. Len(Up)' \in Nat
    BY <2>1, CurrentNext, RecordedV1 DEF StartType
  <2>3. at' \in Nat
    BY <2>1, <2>2 DEF StartType
  <2> QED BY <2>3
<1> QED BY <1>3, <1>4, <1>7 DEF FilledV1

\* A trigger of V1's main database: there, put off, or still to be created.
LEMMA TriggerKeptV1 ==
    ASSUME StartType, TablesInv, LeftV1, FilledV1, KeptV1, ~V2, OnSqlite, [Next]_vars, NEW j \in 1 .. 6,
           23 \in meta'
    PROVE  SixV1[j] \in schema' \/ PendingAt(31, AgainAt[j])' \/ (flag' /\ SixV1[j] \in snapshot')
<1>0. /\ List[23].name = 23 /\ List[31].name = 31 /\ db' = db /\ db \in Databases /\ Listed(31, AgainAt[j])
    BY ListedV1, RecordedV1 DEF StartType
<1>1. List' = List
    BY <1>0 DEF List, V2
<1>2. PICK k \in Nat : k = AgainAt[j] /\ k > 6
    BY AgainFacts
<1>3. SixV1[j][1] = "trigger" /\ SixV1[j][2] \in {"projects", "units"}
    BY SixV1Facts
<1>4. CASE 23 \notin meta
  <2>1. RecordMigration /\ Current = 23 /\ at = Len(Up) + 1
    BY <1>4, RecordedV1
  <2>2. /\ todo # {} /\ phase = "migrate" /\ todo' = todo \ {Current} /\ at' = 1 /\ phase' = phase
        /\ meta' = meta \cup {Migration(Current).name}
    BY <2>1 DEF RecordMigration, NextMigration, Migrating
  <2>3. at = 5
    <3>1. Up = V1Ups[23] /\ Len(V1Ups[23]) = 4
        BY <2>1, <2>2, CurrentV1, SerialNumbersUp
    <3> QED BY <2>1, <3>1
  <2>4. 31 \notin meta /\ 31 \in todo
    BY <2>1, <2>2, <2>3 DEF LeftV1
  <2>5. 31 \notin meta' /\ 31 \in todo'
    BY <2>1, <2>2, <2>4, RecordedV1
  <2>6. PendingAt(31, k)'
    BY <1>0, <1>1, <1>2, <2>2, <2>5 DEF PendingAt
  <2> QED BY <1>2, <2>6
<1>5. CASE 23 \in meta /\ SixV1[j] \in schema
  <2> SUFFICES ASSUME SixV1[j] \notin schema'
               PROVE  PendingAt(31, k)' \/ (flag' /\ SixV1[j] \in snapshot')
    BY <1>2
  <2>1. \/ RunStatement /\ Current = 31 /\ at \in 1 .. 6
        \/ RunStatement /\ Current = 23
        \/ Defer
    <3>1. SixV1[j] # <<"column", "units", "serialNumberPattern">>
        BY <1>3
    <3> QED BY <1>3, <1>5, <3>1, DropsV1
  <2>2. CASE RunStatement /\ Current = 31 /\ at \in 1 .. 6
    <3>1. at' = at + 1 /\ todo' = todo
        BY <2>2, RunResetV1
    <3>2. /\ todo # {} /\ phase = "migrate" /\ UNCHANGED <<phase, meta>> /\ Current \in todo
        BY <2>2, RunFacts, CurrentV1
    <3>3. 31 \notin meta'
        BY <2>2, <3>2 DEF LeftV1
    <3>4. PendingAt(31, k)'
        BY <1>0, <1>1, <1>2, <2>2, <3>1, <3>2, <3>3 DEF PendingAt
    <3> QED BY <3>4
  <2>3. CASE RunStatement /\ Current = 23
    <3>1. Current \in todo
        BY <2>3, RunFacts, CurrentV1
    <3> QED BY <1>5, <2>3, <3>1 DEF LeftV1
  <2>4. CASE Defer
    <3>1. SixV1[j] \in Triggers(schema)
        BY <1>3, <1>5 DEF Triggers
    <3>2. flag' = TRUE /\ snapshot' = IF Triggers(schema) # {} THEN Triggers(schema) ELSE snapshot
        BY <2>4 DEF Defer
    <3> QED BY <3>1, <3>2
  <2> QED BY <2>1, <2>2, <2>3, <2>4
<1>6. CASE PendingAt(31, AgainAt[j])
  <2>1. CASE RunStatement /\ Current = 31 /\ at = k
    <3>1. Up[at].do = "create" /\ Up[at].what = SixV1[j] /\ Sound(Up[at])
        BY <1>2, <2>1, RunResetV1
    <3>2. at \notin 7 .. 23
        BY <1>2, <2>1, AgainFacts
    <3>3. schema' = Effect(schema, Up[at], db.dialect)
        BY <2>1, <3>2, RunResetV1
    <3> QED BY <3>1, <3>3, EffectMakes
  <2>2. CASE ~(RunStatement /\ Current = 31 /\ at = k)
    <3>1. ~StopsBefore(31, k)
        BY ResetGoesOnV1
    <3> QED BY <1>0, <1>2, <1>6, <2>2, <3>1, PendingStep
  <2> QED BY <2>1, <2>2
<1>7. CASE flag /\ SixV1[j] \in snapshot
  <2>1. CASE Defer
    BY <1>7, <2>1 DEF Defer
  <2>2. CASE RestoreAtBoot \/ RestoreAtTick
    BY <1>7, <2>2 DEF RestoreAtBoot, RestoreAtTick, Restored
  <2>3. CASE RunStatement
    BY <1>7, <2>3, RunFacts DEF searchVars
  <2>4. CASE StartMigrations \/ SkipStatement \/ RecordMigration \/ RunLoose \/ EndMigrations \/ RestoreFails
    BY <1>7, <2>4 DEF StartMigrations, SkipStatement, RecordMigration, RunLoose, EndMigrations, RestoreFails, searchVars
  <2>5. CASE WriteRecord \/ Crash \/ Die \/ UNCHANGED vars
    BY <1>7, <2>5 DEF WriteRecord, Crash, Die, Down, vars, searchVars
  <2> QED BY <2>1, <2>2, <2>3, <2>4, <2>5 DEF Next
<1> QED BY <1>4, <1>5, <1>6, <1>7 DEF KeptV1

\* Where the triggers are not put off, all of them are there.
LEMMA AllThereV1 ==
    ASSUME StartType, KeptV1, ~V2, OnSqlite, phase \in {"restore", "ready"}, ~flag, 23 \in meta
    PROVE  Cardinality(Triggers(schema)) = 6
<1>1. \A j \in 1 .. 6 : SixV1[j] \in schema
    BY DEF KeptV1, PendingAt
<1>2. \A j \in 1 .. 6 : SixV1[j] \in Triggers(schema)
    BY <1>1, SixV1Facts DEF Triggers
<1>3. Triggers(schema) \in SUBSET {SixV1[j] : j \in 1 .. 6}
    BY DEF KeptV1
<1> QED BY <1>2, <1>3, SixV1Facts, SixAre

LEMMA KeptStepV1 ==
    ASSUME StartType, TablesInv, LeftV1, FilledV1, KeptV1, ~V2, OnSqlite, [Next]_vars
    PROVE  KeptV1'
<1> DEFINE Six == {SixV1[j] : j \in 1 .. 6}
<1>1. /\ meta \subseteq meta'
      /\ 23 \in meta' /\ 23 \notin meta => RecordMigration /\ Current = 23 /\ at = Len(Up) + 1
    BY RecordedV1
<1>2. \/ UNCHANGED searchVars
      \/ (RestoreAtBoot \/ RestoreAtTick) /\ flag' = FALSE /\ snapshot' = {} /\ stale' = FALSE
      \/ Defer /\ flag' = TRUE /\ stale' = stale
               /\ snapshot' = IF Triggers(schema) # {} THEN Triggers(schema) ELSE snapshot
      \/ WriteRecord /\ UNCHANGED <<flag, snapshot>> /\ stale' = (stale \/ Cardinality(Triggers(schema)) # 6)
  <2>1. CASE RunStatement
    BY <2>1, RunFacts
  <2>2. CASE StartMigrations \/ SkipStatement \/ RecordMigration \/ RunLoose \/ EndMigrations \/ RestoreFails
    BY <2>2 DEF StartMigrations, SkipStatement, RecordMigration, RunLoose, EndMigrations, RestoreFails
  <2>3. CASE Crash \/ Die \/ UNCHANGED vars
    BY <2>3 DEF Crash, Die, Down, vars
  <2>4. CASE RestoreAtBoot \/ RestoreAtTick
    BY <2>4 DEF RestoreAtBoot, RestoreAtTick, Restored
  <2>5. CASE Defer
    BY <2>5 DEF Defer
  <2>6. CASE WriteRecord
    BY <2>6 DEF WriteRecord
  <2> QED BY <2>1, <2>2, <2>3, <2>4, <2>5, <2>6 DEF Next
<1>3. (RestoreAtBoot \/ RestoreAtTick \/ Defer \/ WriteRecord) => phase \in {"restore", "ready"}
    BY DEF RestoreAtBoot, RestoreAtTick, Defer, WriteRecord, Ticking
<1>4. Triggers(schema') \cup snapshot' \subseteq Six
  <2>1. Triggers(schema) \subseteq Six /\ snapshot \subseteq Six
    BY DEF KeptV1
  <2>2. snapshot' \subseteq Six
    <3> HIDE DEF Six
    <3>1. snapshot' = snapshot \/ snapshot' = {} \/ snapshot' = Triggers(schema)
        BY <1>2 DEF searchVars
    <3> QED BY <2>1, <3>1
  <2>3. Triggers(schema') \subseteq Six
    <3> SUFFICES ASSUME NEW o \in schema', o[1] = "trigger", o \notin schema PROVE o \in Six
        BY <2>1 DEF Triggers
    <3>1. (\E m \in 1 .. 6 : o = SixV1[m]) \/ o \in snapshot
        BY TriggerAddsV1
    <3> QED BY <2>1, <3>1
  <2> QED BY <2>2, <2>3
<1>5. 23 \in meta' => \A j \in 1 .. 6 : \/ SixV1[j] \in schema'
                                        \/ PendingAt(31, AgainAt[j])'
                                        \/ flag' /\ SixV1[j] \in snapshot'
    BY TriggerKeptV1
<1>6. ASSUME 31 \notin meta' PROVE ~stale' /\ ~flag' /\ snapshot' = {}
  <2>1. 31 \notin meta /\ phase \notin {"restore", "ready"}
    BY <1>1, <1>6 DEF LeftV1
  <2>2. UNCHANGED searchVars
    BY <1>2, <1>3, <2>1
  <2> QED BY <2>1, <2>2 DEF KeptV1, searchVars
<1>7. ASSUME 23 \in meta', stale' PROVE flag'
  <2>1. CASE 23 \notin meta
    <3>1. RecordMigration /\ Current = 23 /\ at = Len(Up) + 1
        BY <1>1, <1>7, <2>1
    <3>2. todo # {} /\ phase = "migrate"
        BY <3>1 DEF RecordMigration, Migrating
    <3>3. at = 5
      <4>1. Up = V1Ups[23] /\ Len(V1Ups[23]) = 4
        BY <3>1, <3>2, CurrentV1, SerialNumbersUp
      <4> QED BY <3>1, <4>1
    <3>4. 31 \notin meta
        BY <3>1, <3>2, <3>3 DEF LeftV1
    <3>5. stale' = stale
        BY <1>2, <1>3, <3>2 DEF searchVars
    <3> QED BY <1>7, <3>4, <3>5 DEF KeptV1
  <2>2. CASE 23 \in meta
    <3>1. CASE UNCHANGED searchVars
        BY <1>7, <2>2, <3>1 DEF KeptV1, searchVars
    <3>2. CASE WriteRecord /\ UNCHANGED <<flag, snapshot>> /\ stale' = (stale \/ Cardinality(Triggers(schema)) # 6)
      <4>1. ~flag => Cardinality(Triggers(schema)) = 6
        BY <1>3, <2>2, <3>2, AllThereV1
      <4> QED BY <1>7, <2>2, <3>2, <4>1 DEF KeptV1
    <3> QED BY <1>2, <1>7, <3>1, <3>2
  <2> QED BY <2>1, <2>2
<1> QED BY <1>4, <1>5, <1>6, <1>7 DEF KeptV1, Triggers

\* Everything about V1's main database.
MainV1 == ~V2 /\ OnSqlite => FilledV1 /\ LeftV1 /\ KeptV1

LEMMA MainInitV1 == StartType /\ Init => MainV1
<1> SUFFICES ASSUME StartType, Init, ~V2, OnSqlite PROVE FilledV1 /\ LeftV1 /\ KeptV1
    BY DEF MainV1
<1>1. todo = {} /\ phase = "start" /\ schema = {} /\ meta = {} /\ flag = FALSE /\ snapshot = {} /\ stale = FALSE
    BY DEF Init, Idle
<1>2. \A i, k : PendingAt(i, k)
    BY <1>1 DEF PendingAt
<1> QED BY <1>1, <1>2 DEF FilledV1, LeftV1, KeptV1, Triggers

LEMMA MainStepV1 == StartType /\ TablesInv /\ MainV1 /\ [Next]_vars => MainV1'
<1> SUFFICES ASSUME StartType, TablesInv, MainV1, [Next]_vars, ~V2', OnSqlite'
             PROVE  FilledV1' /\ LeftV1' /\ KeptV1'
    BY DEF MainV1
<1>1. db' = db
    BY DEF Next, vars, StartMigrations, SkipStatement, RunStatement, RecordMigration, RunLoose, EndMigrations,
       RestoreAtBoot, RestoreFails, RestoreAtTick, Defer, WriteRecord, Crash, Die, Down
<1>2. ~V2 /\ OnSqlite
    BY <1>1 DEF V2, OnSqlite
<1>3. FilledV1 /\ LeftV1 /\ KeptV1
    BY <1>2 DEF MainV1
<1> QED BY <1>2, <1>3, FilledStepV1, LeftStepV1, KeptStepV1

-----------------------------------------------------------------------------
(* The theorems *)

\* The inductive invariant of a start: what a database's migrations have left
\* behind and what is still to run (checkForMigrations, checkForV2Migrations).
BootInv == StartType /\ TablesInv /\ MainV2 /\ MainV1

\* It holds in every state that the program reaches, however often the process
\* dies between two statements.
THEOREM BootInvariant == Spec => []BootInv
<1>1. Init => BootInv
    BY StartTypeInit, TablesInit, MainInitV2, MainInitV1 DEF BootInv
<1>2. BootInv /\ [Next]_vars => BootInv'
    BY StartTypeStep, TablesStep, MainStepV2, MainStepV1 DEF BootInv
<1> QED BY <1>1, <1>2, PTL DEF Spec

\* A start that completes leaves every table that the list creates, of V1 and,
\* with createTable, of V2: whatever has been interrupted before, on SQLite and
\* on MySQL, and however often.
THEOREM EveryTableComesBack == Spec => []TablesComplete
<1>1. BootInv => TablesComplete
  <2> SUFFICES ASSUME BootInv, phase = "ready", NEW o \in Created,
                      ~(V2 /\ o[2] \in {"projects_v2_fts", "units_v2_fts"})
               PROVE  o \in schema
    BY DEF TablesComplete, Settled
  <2>1. StartType /\ TablesInv /\ MainV1
    BY DEF BootInv
  <2>2. \A i, k : ~PendingAt(i, k)
    BY DEF PendingAt
  <2>3. CASE \E i, k, t : OwedTable(i, k, t) /\ o = TableNamed(t)
    BY <2>1, <2>2, <2>3 DEF TablesInv
  <2>4. CASE ~V2 /\ OnSqlite /\ \E t \in SearchTablesV1 : o = TableNamed(t)
    BY <2>1, <2>2, <2>4 DEF MainV1, FilledV1, SearchTablesV1
  <2> QED BY <2>1, <2>3, <2>4, CreatedTables
<1> QED BY <1>1, BootInvariant, PTL

\* V2's main database has every migration recorded once a start has completed:
\* no error of a statement that is run again leaves one unrecorded.
THEOREM NoMigrationIsStuck == Spec => []NothingIsStuck
<1>1. BootInv => NothingIsStuck
  <2> SUFFICES ASSUME BootInv, phase = "ready", V2, OnSqlite
               PROVE  meta = DOMAIN V2Migrations
    BY DEF NothingIsStuck, Settled
  <2>1. meta \subseteq 1 .. 39 /\ 1 .. 39 \subseteq meta
    BY DEF BootInv, StartType, MainV2, LeftV2
  <2>2. DOMAIN V2Migrations = 1 .. 39
    BY ListFacts, Zenon DEF BootInv, StartType, List
  <2> QED BY <2>1, <2>2, Zenon
<1> QED BY <1>1, BootInvariant, PTL

\* The search of a main database is whole once a start has completed: the six
\* triggers are there and no write is missing, unless a sync has put them off; in
\* V1, once the migration of the serial numbers is recorded.
THEOREM SearchComesBackWhole == Spec => []SearchIsWhole
<1>1. BootInv => SearchIsWhole
  <2> SUFFICES ASSUME BootInv, phase = "ready", OnSqlite, ~flag, V2 \/ SerialNumbers \in meta
               PROVE  Cardinality(Triggers(schema)) = 6 /\ ~stale
    BY DEF SearchIsWhole, Settled
  <2>1. CASE V2
    <3>1. KeptV2
        BY <2>1 DEF BootInv, MainV2
    <3>2. \A j \in 1 .. 6 : SixV2[j] \in Triggers(schema)
        BY <3>1, SixV2Facts DEF KeptV2, Triggers
    <3>3. Triggers(schema) \in SUBSET {SixV2[j] : j \in 1 .. 6}
        BY <3>1 DEF KeptV2
    <3>4. Cardinality(Triggers(schema)) = 6
        BY <3>2, <3>3, SixV2Facts, SixAre
    <3> QED BY <3>1, <3>4 DEF KeptV2
  <2>2. CASE ~V2
    <3>1. KeptV1 /\ StartType /\ 23 \in meta
        BY <2>2 DEF BootInv, MainV1, SerialNumbers
    <3>2. Cardinality(Triggers(schema)) = 6
        BY <2>2, <3>1, AllThereV1
    <3> QED BY <3>1, <3>2 DEF KeptV1
  <2> QED BY <2>1, <2>2
<1> QED BY <1>1, BootInvariant, PTL

-----------------------------------------------------------------------------
(* The type invariant *)

\* What TypeOK says beyond the inductive invariant: no object without its table.
ObjectsInv == \A o \in schema : o[1] # "table" => TableNamed(o[2]) \in schema
RestInv ==
    /\ meta \subseteq {List[i].name : i \in DOMAIN List}
    /\ flag => snapshot # {}
    /\ phase = "restore" => OnSqlite
    /\ crashes \in 0 .. MaxCrashes[db]

\* The tables of a main database's triggers, once it has started.
LEMMA TriggerTables ==
    ASSUME BootInv, OnSqlite, phase \in {"restore", "ready"}, flag, NEW o \in snapshot
    PROVE  TableNamed(o[2]) \in schema
<1>1. \A i, k : ~PendingAt(i, k)
    BY DEF PendingAt
<1>2. \A i, k, t : OwedTable(i, k, t) => TableNamed(t) \in schema
    BY <1>1 DEF BootInv, TablesInv
<1>3. CASE V2
  <2>1. o[2] \in {"project", "unit"}
    BY <1>3, SixV2Facts DEF BootInv, MainV2, KeptV2
  <2>2. Opened[9] = "project" /\ Opened[13] = "unit"
    BY DEF Opened
  <2>3. OwedTable(9, 1, Opened[9]) /\ OwedTable(13, 1, Opened[13])
    BY <1>3 DEF OwedTable
  <2> QED BY <1>2, <2>1, <2>2, <2>3
<1>4. CASE ~V2
  <2>1. o[2] \in {"projects", "units"}
    BY <1>4, SixV1Facts DEF BootInv, MainV1, KeptV1
  <2>2. OpenedV1[1] = "projects" /\ OpenedV1[3] = "units"
    BY DEF OpenedV1
  <2>3. OwedTable(1, 1, OpenedV1[1]) /\ OwedTable(3, 1, OpenedV1[3])
    BY <1>4 DEF OwedTable, OpensV1
  <2> QED BY <1>2, <2>1, <2>2, <2>3
<1> QED BY <1>3, <1>4

\* An object that comes finds its table there.
LEMMA NewObject ==
    ASSUME BootInv, RestInv, [Next]_vars, NEW o \in schema', o \notin schema, o[1] # "table"
    PROVE  TableNamed(o[2]) \in schema \/ TableNamed(o[2]) \in schema'
<1>0. StartType
    BY DEF BootInv
<1>1. SchemaChange
    BY <1>0, SchemaStep
<1>2. CASE RunStatement /\ schema' = Effect(schema, Up[at], db.dialect) /\ Error(schema, Up[at]) = "none"
  <2>1. todo # {} /\ at <= Len(Up)
    BY <1>0, <1>2, RunFacts
  <2>2. PICK s : s = Up[at]
    OBVIOUS
  <2>3. Sound(s)
    BY <1>0, <2>1, <2>2, StatementFacts
  <2>4. \/ s.do \in {"createIfMissing", "create", "ensure"} /\ o = s.what
        \/ s.do = "createIfMissing" /\ o \in s.cols
    BY <1>2, <2>2, <2>3, EffectAdds
  <2>5. CASE s.do = "createIfMissing" /\ o \in s.cols
    <3>1. s.what = TableNamed(o[2])
        BY <2>3, <2>5 DEF Sound, TableNamed
    <3> QED BY <1>2, <2>2, <2>3, <2>5, <3>1, EffectMakes
  <2>6. CASE s.do \in {"create", "ensure"} /\ o = s.what
    BY <1>2, <2>2, <2>6 DEF Error, TableNamed
  <2>7. ~(s.do = "createIfMissing" /\ o = s.what)
    BY <2>3 DEF Sound
  <2> QED BY <2>4, <2>5, <2>6, <2>7
<1>3. CASE RunLoose /\ \E s \in loose : /\ s.do \in {"create", "data"} /\ ~OnSqlite
                                        /\ Error(schema, s) = "none" /\ schema' = Effect(schema, s, db.dialect)
  <2>1. PICK s \in loose : /\ s.do \in {"create", "data"}
                           /\ Error(schema, s) = "none" /\ schema' = Effect(schema, s, db.dialect)
    BY <1>3
  <2>2. s.do = "create" /\ o = s.what
    BY <2>1 DEF Effect
  <2> QED BY <2>1, <2>2 DEF Error, TableNamed
<1>4. CASE (RestoreAtBoot \/ RestoreAtTick) /\ flag /\ schema' = schema \cup snapshot
  <2>1. phase \in {"restore", "ready"} /\ OnSqlite
    BY <1>4 DEF RestoreAtBoot, RestoreAtTick, Ticking, RestInv
  <2> QED BY <1>4, <2>1, TriggerTables
<1> QED BY <1>1, <1>2, <1>3, <1>4 DEF SchemaChange

LEMMA ObjectsStep == BootInv /\ RestInv /\ ObjectsInv /\ [Next]_vars => ObjectsInv'
<1> SUFFICES ASSUME BootInv, RestInv, ObjectsInv, [Next]_vars, NEW o \in schema', o[1] # "table",
                    TableNamed(o[2]) \notin schema'
             PROVE  FALSE
    BY DEF ObjectsInv
<1>1. TableNamed(o[2]) \in schema
    BY NewObject DEF ObjectsInv
<1>2. StartType
    BY DEF BootInv
<1>3. /\ RunStatement /\ Up[at].do \in {"drop", "dropIfThere"}
      /\ Up[at].what[1] = "table" /\ Up[at].what[2] = o[2]
    BY <1>1, <1>2, TableStays
<1>4. Sound(Up[at])
    BY <1>2, <1>3, RunFacts, StatementFacts
<1>5. schema' = Effect(schema, Up[at], db.dialect)
  <2>1. schema' # schema /\ (schema' # schema => schema' = Effect(schema, Up[at], db.dialect))
    BY <1>1, <1>2, <1>3, RunGoesOn
  <2> QED BY <2>1
<1> QED BY <1>3, <1>4, <1>5, EffectMakes

LEMMA RestStep == BootInv /\ RestInv /\ [Next]_vars => RestInv'
<1> SUFFICES ASSUME BootInv, RestInv, [Next]_vars PROVE RestInv'
    OBVIOUS
<1>0. StartType /\ db \in Databases /\ MaxCrashes[db] \in Nat
    BY BootConstants DEF BootInv, StartType
<1>1. db' = db
    BY DEF Next, vars, StartMigrations, SkipStatement, RunStatement, RecordMigration, RunLoose, EndMigrations,
       RestoreAtBoot, RestoreFails, RestoreAtTick, Defer, WriteRecord, Crash, Die, Down
<1>2. List' = List /\ OnSqlite' = OnSqlite
    BY <1>1 DEF List, V2, OnSqlite
<1>3. meta' \subseteq {List[i].name : i \in DOMAIN List}
  <2>1. CASE StartMigrations
    BY <2>1 DEF StartMigrations, RestInv
  <2>2. CASE RecordMigration
    <3>1. meta' = meta \cup {Migration(Current).name} /\ todo # {}
        BY <2>2 DEF RecordMigration, Migrating
    <3>2. PICK i \in 1 .. 39 : Migration(Current) = List[i]
      <4>1. /\ Migration(Current) = List[IF Current = 40 THEN 30 ELSE Current]
            /\ Current \in 1 .. 40
        BY <1>0, <3>1, CurrentFacts, Zenon
      <4>2. (IF Current = 40 THEN 30 ELSE Current) \in 1 .. 39
        BY <4>1
      <4> QED BY <4>1, <4>2, Zenon
    <3>3. DOMAIN List = 1 .. 39
        BY <1>0, ListFacts, Zenon
    <3> QED BY <3>1, <3>2, <3>3 DEF RestInv
  <2>3. CASE RunStatement
    BY <1>0, <2>3, RunFacts DEF RestInv
  <2>4. CASE SkipStatement \/ RunLoose \/ EndMigrations \/ RestoreAtBoot \/ RestoreFails
    BY <2>4 DEF SkipStatement, RunLoose, EndMigrations, RestoreAtBoot, RestoreFails, RestInv
  <2>5. CASE RestoreAtTick \/ Defer \/ WriteRecord \/ Crash \/ Die \/ UNCHANGED vars
    BY <2>5 DEF RestoreAtTick, Defer, WriteRecord, Crash, Die, Down, vars, RestInv
  <2> QED BY <2>1, <2>2, <2>3, <2>4, <2>5 DEF Next
<1>4. flag' => snapshot' # {}
  <2>1. CASE RunStatement
    BY <1>0, <2>1, RunFacts DEF RestInv, searchVars
  <2>2. CASE StartMigrations \/ SkipStatement \/ RecordMigration \/ RunLoose \/ EndMigrations \/ RestoreFails
    BY <2>2 DEF StartMigrations, SkipStatement, RecordMigration, RunLoose, EndMigrations, RestoreFails, RestInv, searchVars
  <2>3. CASE WriteRecord \/ Crash \/ Die \/ UNCHANGED vars
    BY <2>3 DEF WriteRecord, Crash, Die, Down, vars, RestInv, searchVars
  <2>4. CASE RestoreAtBoot \/ RestoreAtTick
    BY <2>4 DEF RestoreAtBoot, RestoreAtTick, Restored, RestInv, searchVars
  <2>5. CASE Defer
    BY <2>5 DEF Defer
  <2> QED BY <2>1, <2>2, <2>3, <2>4, <2>5 DEF Next
<1>5. phase' = "restore" => OnSqlite
  <2>1. CASE RunStatement
    BY <1>0, <2>1, RunFacts
  <2>2. CASE StartMigrations \/ RestoreAtBoot \/ RestoreFails \/ RestoreAtTick \/ Defer \/ WriteRecord \/ Crash \/ Die
    BY <2>2 DEF StartMigrations, RestoreAtBoot, RestoreFails, RestoreAtTick, Defer, WriteRecord, Ticking, bootVars,
       Crash, Die, Down
  <2>3. CASE SkipStatement \/ RecordMigration \/ RunLoose \/ UNCHANGED vars
    BY <2>3 DEF SkipStatement, RecordMigration, RunLoose, vars, bootVars, RestInv
  <2>4. CASE EndMigrations
    BY <2>4 DEF EndMigrations
  <2> QED BY <2>1, <2>2, <2>3, <2>4 DEF Next
<1>6. crashes' \in 0 .. MaxCrashes[db]
  <2>1. CASE Crash
    BY <1>0, <2>1 DEF Crash, RestInv
  <2>2. CASE ~Crash
    <3>1. CASE RunStatement
        BY <1>0, <3>1, RunFacts DEF RestInv
    <3>2. CASE ~RunStatement
      <4>1. crashes' = crashes
        BY <2>2, <3>2 DEF Next, vars, StartMigrations, SkipStatement, RecordMigration, RunLoose, EndMigrations,
           RestoreAtBoot, RestoreFails, RestoreAtTick, Defer, WriteRecord, Die
      <4> QED BY <4>1 DEF RestInv
    <3> QED BY <3>1, <3>2
  <2> QED BY <2>1, <2>2
<1> QED BY <1>1, <1>2, <1>3, <1>4, <1>5, <1>6 DEF RestInv

\* Every variable keeps its type, and no column, index or trigger is in the schema
\* without its table.
THEOREM TypeCorrect == Spec => []TypeOK
<1>1. Init => ObjectsInv /\ RestInv
  <2> SUFFICES ASSUME Init PROVE ObjectsInv /\ RestInv
    OBVIOUS
  <2>1. schema = {} /\ meta = {} /\ flag = FALSE /\ phase = "start" /\ crashes = 0 /\ MaxCrashes[db] \in Nat
    BY BootConstants DEF Init
  <2> QED BY <2>1 DEF ObjectsInv, RestInv
<1>2. BootInv /\ ObjectsInv /\ RestInv /\ [Next]_vars => (ObjectsInv /\ RestInv)'
    BY ObjectsStep, RestStep
<1>3. BootInv /\ ObjectsInv /\ RestInv => TypeOK
  <2> SUFFICES ASSUME BootInv, ObjectsInv, RestInv PROVE TypeOK
    OBVIOUS
  <2>1. StartType
    BY DEF BootInv
  <2>2. Again = 40
    BY <2>1, ListFacts, Zenon DEF StartType
  <2>3. {rejected, flag, stale} \subseteq BOOLEAN
    BY <2>1 DEF StartType
  <2>4. \A o \in schema : o[1] # "table" => <<"table", o[2], o[2]>> \in schema
    BY DEF ObjectsInv, TableNamed
  <2>5. /\ meta \subseteq {List[i].name : i \in DOMAIN List} /\ (flag => snapshot # {})
        /\ crashes \in 0 .. MaxCrashes[db]
    BY DEF RestInv
  <2>6. /\ db \in Databases /\ phase \in {"start", "migrate", "restore", "ready"} /\ todo \subseteq 1 .. Again
        /\ todo # {} => phase = "migrate" /\ at \in 1 .. Len(Up) + 1
        /\ failed \in {"none", "exists", "missing"} /\ (loose # {} => ~OnSqlite)
    BY <2>1, <2>2 DEF StartType
  <2> QED BY <2>3, <2>4, <2>5, <2>6 DEF TypeOK
<1> QED BY <1>1, <1>2, <1>3, BootInvariant, PTL DEF Spec
=============================================================================
