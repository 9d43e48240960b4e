--------------------------- MODULE StorePushProofs ----------------------------
(***************************************************************************)
(* What the pushes, the mirror announcements, the store creation and the   *)
(* coin management promise for any number of them beside one another, of   *)
(* retries, of coins and of failures: no store or mirror is made twice, a  *)
(* root seen twice is dropped only when dead, a split of the largest coin  *)
(* is paid for, leaves no dust and more usable coins, and all variables    *)
(* keep their types.                                                       *)
(***************************************************************************)
EXTENDS StorePush, FiniteSetTheorems, SequenceTheorems, WellFoundedInduction, TLAPS

-----------------------------------------------------------------------------
(* Coin splits *)

\* A quotient is what fits, and one more does not.
LEMMA Quotient ==
    ASSUME NEW a \in Nat, NEW b \in Nat \ {0}
    PROVE  /\ a \div b \in Nat
           /\ (a \div b) * b <= a
           /\ a < (a \div b) * b + b
OBVIOUS

\* The coins that Affordable plans for are coins the largest one can pay.
LEMMA AffordableIsPaid ==
    ASSUME NEW usable \in Nat, NEW largest \in Nat,
           NEW n, n = Affordable(usable, largest), n >= 1
    PROVE  /\ n \in Nat
           /\ largest >= n * CoinSize + SplitFee
           /\ usable + n <= Greatest(Target, LowWater)
<1>1. /\ CoinSize \in Nat \ {0} /\ SplitFee \in Nat
      /\ Target \in Nat /\ LowWater \in Nat
    BY CoinConstants
<1>2. largest >= SplitFee
    BY <1>1 DEF Affordable
<1> DEFINE fits == (largest - SplitFee) \div CoinSize
<1>3. fits \in Nat /\ fits * CoinSize <= largest - SplitFee
    BY <1>1, <1>2, Quotient
<1>4. n <= fits /\ n \in Nat /\ n <= Greatest(Target, LowWater) - usable
    BY <1>1, <1>2, <1>3 DEF Affordable, Least, Greatest
<1>5. n * CoinSize <= fits * CoinSize
    BY <1>1, <1>3, <1>4
<1> QED BY <1>1, <1>3, <1>4, <1>5, n * CoinSize \in Nat DEF Greatest

\* The split that is planned: at least one coin, paid for, no change or a change
\* above the dust floor, and never a lone coin without change.
LEMMA PlanIsSound ==
    ASSUME NEW usable \in Nat, NEW largest \in Nat,
           NEW n, n = PlanCoinSplit(usable, largest), n # 0
    PROVE  /\ n \in Nat \ {0} /\ usable < LowWater
           /\ Remainder(largest, n) = 0 \/ Remainder(largest, n) >= CoinSize
           /\ n = 1 => Remainder(largest, n) >= CoinSize
           /\ usable + n <= Greatest(Target, LowWater)
<1> DEFINE m == Affordable(usable, largest)
<1>1. /\ CoinSize \in Nat \ {0} /\ SplitFee \in Nat
      /\ Target \in Nat /\ LowWater \in Nat
    BY CoinConstants
<1>2. /\ usable < LowWater /\ m >= 1 /\ n = Rounded(m, largest)
      /\ m > 1 \/ Remainder(largest, m) > 0
    <2>1. usable < LowWater
        BY <1>1 DEF PlanCoinSplit
    <2>2. m \in Int
        <3>1. CASE largest < SplitFee
            BY <3>1 DEF Affordable
        <3>2. CASE largest >= SplitFee
            BY <1>1, <3>2, Quotient DEF Affordable, Least, Greatest
        <3> QED BY <1>1, <3>1, <3>2
    <2> QED BY <2>1, <2>2, <1>1 DEF PlanCoinSplit
<1>3. m \in Nat /\ largest >= m * CoinSize + SplitFee /\ usable + m <= Greatest(Target, LowWater)
    BY <1>2, AffordableIsPaid
<1>4. m * CoinSize \in Nat /\ (m - 1) * CoinSize = m * CoinSize - CoinSize
    BY <1>1, <1>3
<1> DEFINE r == Remainder(largest, m)
<1>5. r \in Nat /\ Remainder(largest, m - 1) = r + CoinSize
    BY <1>1, <1>3, <1>4 DEF Remainder
<1>6. CASE r \in 1 .. CoinSize - 1
    <2>1. n = m - 1 /\ Remainder(largest, n) = r + CoinSize
        BY <1>2, <1>5, <1>6 DEF Rounded
    <2> QED BY <1>1, <1>2, <1>3, <1>5, <2>1 DEF Greatest
<1>7. CASE r \notin 1 .. CoinSize - 1
    <2>1. n = m
        BY <1>2, <1>7 DEF Rounded
    <2>2. r = 0 \/ r >= CoinSize
        BY <1>1, <1>5, <1>7
    <2> QED BY <1>1, <1>2, <1>3, <1>5, <2>1, <2>2
<1> QED BY <1>6, <1>7

\* The usable coins once the largest has become n coins and their change.
One(isUsable) == IF isUsable THEN 1 ELSE 0
UsableAfter(usable, largest, n) ==
    usable - One(largest >= MinUsable) + n + One(Remainder(largest, n) >= MinUsable)

\* Whatever the wallet holds and however coin management is configured: a planned
\* split is paid for by the largest coin to the mojo, leaves no change below the
\* dust floor, leaves the wallet with more usable coins than it had, and makes
\* no more than the target asks for (planCoinSplit).
THEOREM SplitsGain ==
    ASSUME NEW usable \in Nat, NEW largest \in Nat,
           NEW n, n = PlanCoinSplit(usable, largest), n # 0
    PROVE  /\ largest = n * CoinSize + SplitFee + Remainder(largest, n)
           /\ Remainder(largest, n) = 0 \/ Remainder(largest, n) >= CoinSize
           /\ UsableAfter(usable, largest, n) > usable
           /\ usable + n <= Greatest(Target, LowWater)
<1>1. /\ CoinSize \in Nat /\ SplitFee \in Nat /\ MinUsable \in Nat \ {0}
      /\ CoinSize >= MinUsable
    BY CoinConstants
<1>2. /\ n \in Nat \ {0}
      /\ Remainder(largest, n) = 0 \/ Remainder(largest, n) >= CoinSize
      /\ n = 1 => Remainder(largest, n) >= CoinSize
      /\ usable + n <= Greatest(Target, LowWater)
    BY PlanIsSound
<1>3. n * CoinSize \in Nat /\ Remainder(largest, n) \in Int
    BY <1>1, <1>2 DEF Remainder
<1>4. largest = n * CoinSize + SplitFee + Remainder(largest, n)
    BY <1>1, <1>3 DEF Remainder
<1>5. One(largest >= MinUsable) <= 1 /\ One(largest >= MinUsable) \in Nat
    BY DEF One
<1>6. n = 1 => One(Remainder(largest, n) >= MinUsable) = 1
    BY <1>1, <1>2, <1>3 DEF One
<1>7. One(Remainder(largest, n) >= MinUsable) \in Nat
    BY DEF One
<1>8. UsableAfter(usable, largest, n) > usable
    BY <1>2, <1>5, <1>6, <1>7 DEF UsableAfter
<1> QED BY <1>2, <1>4, <1>8

-----------------------------------------------------------------------------
(* A split leaves more usable coins *)

\* Every set of naturals has a least element, which is what the library's theorem
\* on well-founded relations says of the order of the naturals.
SmallerThan == {pair \in Nat \X Nat : pair[1] < pair[2]}

LEMMA LeastNat ==
    ASSUME NEW S \in SUBSET Nat, S # {}
    PROVE  \E x \in S : \A y \in S : x <= y
<1>1. IsWellFoundedOn(SmallerThan, Nat)
    BY NatLessThanWellFounded DEF OpToRel, SmallerThan
<1>2. \E x \in S : \A y \in S : ~ (<<y, x>> \in SmallerThan)
    BY <1>1, WFMin
<1>3. \A x, y \in S : y < x => <<y, x>> \in SmallerThan
    BY DEF SmallerThan
<1>4. \A x, y \in Nat : y < x \/ x <= y
    OBVIOUS
<1> QED BY <1>2, <1>3, <1>4

\* A wallet with coins has a largest one.
LEMMA LargestExists ==
    ASSUME NEW cs \in Seq(Nat), cs # <<>>
    PROVE  /\ Largest(cs) \in Nat
           /\ \E i \in DOMAIN cs : cs[i] = Largest(cs)
<1> DEFINE n == Len(cs)
           Tops(m) == {j \in 1 .. m : \A i \in 1 .. m : cs[i] <= cs[j]}
           bad == {m \in 1 .. n : Tops(m) = {}}
<1>1. n \in Nat \ {0} /\ DOMAIN cs = 1 .. n /\ \A i \in 1 .. n : cs[i] \in Nat
    OBVIOUS
<1>2. bad = {}
    <2> SUFFICES ASSUME bad # {} PROVE FALSE
        OBVIOUS
    <2>0. PICK m \in bad : \A k \in bad : m <= k
        BY <1>1, LeastNat, bad \in SUBSET Nat
    <2>1. m \in 1 .. n /\ Tops(m) = {} /\ \A k \in 1 .. n : Tops(k) = {} => m <= k
        BY <2>0
    <2>2. CASE m = 1
        <3>1. 1 \in Tops(1)
            BY <1>1
        <3> QED BY <2>1, <2>2, <3>1
    <2>3. CASE m # 1
        <3>0. m - 1 \in 1 .. n /\ ~(m <= m - 1) /\ 1 .. m = 1 .. m - 1 \cup {m}
            BY <1>1, <2>1, <2>3
        <3>1. Tops(m - 1) # {}
            BY <2>1, <3>0
        <3>2. PICK j \in Tops(m - 1) : TRUE
            BY <3>1
        <3>3. j \in 1 .. m - 1 /\ \A i \in 1 .. m - 1 : cs[i] <= cs[j]
            BY <3>2
        <3>4. cs[j] \in Nat /\ cs[m] \in Nat /\ \A i \in 1 .. m - 1 : cs[i] \in Nat
            BY <1>1, <2>1, <3>3
        <3>5. CASE cs[m] <= cs[j]
            <4>1. j \in Tops(m)
                BY <3>0, <3>3, <3>5
            <4> QED BY <2>1, <4>1
        <3>6. CASE cs[j] < cs[m]
            <4>1. m \in Tops(m)
                BY <2>1, <3>0, <3>3, <3>4, <3>6
            <4> QED BY <2>1, <4>1
        <3> QED BY <3>4, <3>5, <3>6
    <2> QED BY <2>2, <2>3
<1>3. PICK j \in Tops(n) : TRUE
    <2>1. n \notin bad /\ n \in 1 .. n
        BY <1>1, <1>2
    <2> QED BY <2>1
<1>4. cs[j] \in ToSet(cs) /\ \A other \in ToSet(cs) : other <= cs[j]
    BY <1>1, <1>3 DEF ToSet
<1>5. Largest(cs) \in ToSet(cs)
    BY <1>4 DEF Largest
<1> QED BY <1>1, <1>5 DEF ToSet

\* Usable coins of two parts of a wallet add up.
LEMMA UsableConcat ==
    ASSUME NEW s \in Seq(Nat), NEW t \in Seq(Nat)
    PROVE  /\ Usable(s) \in Nat /\ Usable(t) \in Nat
           /\ Usable(s \o t) = Usable(s) + Usable(t)
<1> DEFINE S == {i \in DOMAIN s : s[i] >= MinUsable}
           T == {i \in DOMAIN t : t[i] >= MinUsable}
           U == {i \in DOMAIN (s \o t) : (s \o t)[i] >= MinUsable}
           n == Len(s)
           Shifted == {i \in U : i > n}
           shift == [i \in T |-> i + n]
<1>1. /\ DOMAIN s = 1 .. n /\ DOMAIN t = 1 .. Len(t) /\ n \in Nat /\ Len(t) \in Nat
      /\ DOMAIN (s \o t) = 1 .. n + Len(t)
      /\ \A i \in 1 .. n + Len(t) : (s \o t)[i] = IF i <= n THEN s[i] ELSE t[i - n]
    OBVIOUS
<1>2. /\ IsFiniteSet(S) /\ IsFiniteSet(T)
      /\ Cardinality(S) \in Nat /\ Cardinality(T) \in Nat
    <2>1. IsFiniteSet(1 .. n) /\ IsFiniteSet(1 .. Len(t))
        BY <1>1, FS_Interval
    <2>2. S \in SUBSET (1 .. n) /\ T \in SUBSET (1 .. Len(t))
        BY <1>1
    <2>3. IsFiniteSet(S) /\ IsFiniteSet(T)
        BY <2>1, <2>2, FS_Subset
    <2> QED BY <2>3, FS_CardinalityType
<1>3. Cardinality(Shifted) = Cardinality(T) /\ IsFiniteSet(Shifted)
    <2>1. shift \in [T -> Shifted]
        BY <1>1
    <2>2. \A i, j \in T : shift[i] = shift[j] => i = j
        BY <1>1
    <2>3. \A j \in Shifted : \E i \in T : shift[i] = j
        <3> SUFFICES ASSUME NEW j \in Shifted
                     PROVE  j - n \in T /\ (j - n) + n = j
            OBVIOUS
        <3> QED BY <1>1
    <2> HIDE DEF shift, T, Shifted
    <2>4. shift \in Bijection(T, Shifted)
        BY <2>1, <2>2, <2>3 DEF Bijection, Injection, Surjection, IsInjective
    <2> QED BY <2>4, <1>2, FS_Bijection DEF ExistsBijection
<1>4. S \cup Shifted = U /\ S \cap Shifted = {}
    BY <1>1
<1>0. Cardinality(S \cap Shifted) = 0
    BY <1>4, FS_EmptySet
<1> HIDE DEF S, T, U, Shifted
<1>5. Cardinality(U) = Cardinality(S) + Cardinality(Shifted) - 0
    BY <1>0, <1>2, <1>3, <1>4, FS_Union
<1>6. Usable(s) = Cardinality(S) /\ Usable(t) = Cardinality(T)
      /\ Usable(s \o t) = Cardinality(U)
    BY DEF Usable, S, T, U
<1> QED BY <1>2, <1>3, <1>5, <1>6

LEMMA UsableOne ==
    ASSUME NEW x \in Nat
    PROVE  Usable(<<x>>) = One(x >= MinUsable)
<1> DEFINE S == {i \in DOMAIN <<x>> : <<x>>[i] >= MinUsable}
<1>1. CASE x >= MinUsable
    <2>1. S = {1}
        BY <1>1
    <2> QED BY <1>1, <2>1, FS_Singleton DEF Usable, One
<1>2. CASE ~(x >= MinUsable)
    <2>1. S = {}
        BY <1>2
    <2> QED BY <1>2, <2>1, FS_EmptySet DEF Usable, One
<1> QED BY <1>1, <1>2

LEMMA UsableEmpty == Usable(<<>>) = 0
<1>1. {i \in DOMAIN <<>> : <<>>[i] >= MinUsable} = {}
    OBVIOUS
<1> QED BY <1>1, FS_EmptySet DEF Usable

\* A split of the largest coin: more coins, and more of them usable.
LEMMA AfterSplitGains ==
    ASSUME coins \in Seq(Nat \ {0}), Plan > 0
    PROVE  /\ AfterSplit \in Seq(Nat \ {0})
           /\ Len(AfterSplit) > Len(coins)
           /\ Usable(AfterSplit) > Usable(coins)
<1>0. /\ CoinSize \in Nat \ {0} /\ SplitFee \in Nat /\ MinUsable \in Nat \ {0}
      /\ CoinSize >= MinUsable
    BY CoinConstants
<1>1. coins # <<>> /\ coins \in Seq(Nat)
    BY DEF Plan
<1> DEFINE largest == Largest(coins)
           n == Plan
           change == Remainder(largest, n)
           at == CHOOSE i \in DOMAIN coins : coins[i] = largest
           before == SubSeq(coins, 1, at - 1)
           after == SubSeq(coins, at + 1, Len(coins))
           made == [i \in 1 .. n |-> CoinSize]
           rest == IF change > 0 THEN <<change>> ELSE <<>>
<1>2. largest \in Nat /\ at \in 1 .. Len(coins) /\ coins[at] = largest
    BY <1>1, LargestExists
<1>3. n = PlanCoinSplit(Usable(coins), largest) /\ Usable(coins) \in Nat
    BY <1>1, UsableConcat DEF Plan
<1>4. /\ n \in Nat \ {0} /\ change \in Int /\ change >= 0
      /\ n = 1 => change > 0
      /\ UsableAfter(Usable(coins), largest, n) > Usable(coins)
    <2>1. n # 0
        OBVIOUS
    <2>2. n \in Nat \ {0} /\ (change = 0 \/ change >= CoinSize) /\ (n = 1 => change >= CoinSize)
        BY <1>2, <1>3, <2>1, PlanIsSound
    <2>3. UsableAfter(Usable(coins), largest, n) > Usable(coins)
        BY <1>2, <1>3, <2>1, SplitsGain
    <2>4. change \in Int
        BY <1>0, <1>2, <2>2 DEF Remainder
    <2> QED BY <1>0, <2>2, <2>3, <2>4
<1>5. /\ before \in Seq(Nat \ {0}) /\ Len(before) = at - 1
      /\ after \in Seq(Nat \ {0}) /\ Len(after) = Len(coins) - at
      /\ before \in Seq(Nat) /\ after \in Seq(Nat)
      /\ coins = (before \o <<largest>>) \o after
    <2>1. /\ before \in Seq(Nat \ {0}) /\ Len(before) = at - 1
          /\ \A i \in 1 .. at - 1 : before[i] = coins[i]
        BY <1>1, <1>2
    <2>2. /\ after \in Seq(Nat \ {0}) /\ Len(after) = Len(coins) - at
          /\ \A i \in 1 .. Len(coins) - at : after[i] = coins[at + i]
        <3> HIDE DEF at, largest
        <3>1. at \in Nat /\ Len(coins) \in Nat /\ at <= Len(coins)
            BY <1>1, <1>2
        <3>2. /\ after \in Seq(Nat \ {0})
              /\ Len(after) = Len(coins) - at
            BY <1>1, <3>1
        <3>3. \A i \in 1 .. Len(coins) - at : after[i] = coins[(at + 1) + i - 1]
            BY <1>1, <3>1
        <3>4. \A i \in 1 .. Len(coins) - at : (at + 1) + i - 1 = at + i
            BY <3>1
        <3> QED BY <3>2, <3>3, <3>4
    <2>3. before \in Seq(Nat) /\ after \in Seq(Nat)
        BY <2>1, <2>2
    <2> HIDE DEF before, after, largest, at
    <2>4. /\ before \o <<largest>> \in Seq(Nat)
          /\ Len(before \o <<largest>>) = at
          /\ \A i \in 1 .. at : (before \o <<largest>>)[i] = coins[i]
        BY <1>2, <2>1, <2>3
    <2> DEFINE front == before \o <<largest>>
    <2> HIDE DEF front
    <2>5. /\ front \o after \in Seq(Nat) /\ Len(front \o after) = Len(coins)
          /\ \A i \in 1 .. Len(coins) : (front \o after)[i] = coins[i]
        <3>1. front \in Seq(Nat) /\ Len(front) = at
              /\ \A i \in 1 .. at : front[i] = coins[i]
            BY <2>4 DEF front
        <3>2. /\ Len(front \o after) = Len(front) + Len(after)
              /\ front \o after \in Seq(Nat)
              /\ \A i \in 1 .. Len(front) + Len(after) :
                   (front \o after)[i] = IF i <= Len(front) THEN front[i]
                                          ELSE after[i - Len(front)]
            BY <2>3, <3>1, ConcatProperties
        <3>3. at \in Nat /\ Len(coins) \in Nat /\ at <= Len(coins)
            BY <1>1, <1>2
        <3>4. \A i \in 1 .. Len(coins) : ~(i <= at) => i - at \in 1 .. Len(coins) - at /\ at + (i - at) = i
            BY <3>3
        <3>5. \A i \in 1 .. Len(coins) : i <= at => i \in 1 .. at
            BY <3>3
        <3>6. Len(front) + Len(after) = Len(coins)
            BY <2>2, <3>1, <3>3
        <3> QED BY <2>2, <3>1, <3>2, <3>4, <3>5, <3>6
    <2>6. front \o after = coins
        BY <1>1, <2>5, SeqEqual
    <2> QED BY <2>1, <2>2, <2>3, <2>6 DEF front
<1>6. made \in Seq(Nat \ {0}) /\ Len(made) = n
    BY <1>0, <1>4
<1>7. /\ rest \in Seq(Nat \ {0})
      /\ Len(rest) = IF change > 0 THEN 1 ELSE 0
    <2>1. CASE change > 0
        <3>1. change \in Nat \ {0} /\ rest = <<change>>
            BY <1>4, <2>1
        <3> HIDE DEF change, rest
        <3> QED BY <2>1, <3>1
    <2>2. CASE ~(change > 0)
        <3>1. rest = <<>>
            BY <2>2
        <3> QED BY <2>2, <3>1
    <2> QED BY <2>1, <2>2
<1>8. AfterSplit = ((before \o after) \o made) \o rest
    BY DEF AfterSplit, RemoveAt
<1>9. Usable(made) = n
    <2>1. {i \in DOMAIN made : made[i] >= MinUsable} = 1 .. n
        BY <1>0, <1>4
    <2>2. Cardinality(1 .. n) = n
        <3> HIDE DEF n
        <3> QED BY <1>4, FS_Interval
    <2> QED BY <2>1, <2>2 DEF Usable
<1>10. Usable(rest) = One(change >= MinUsable)
    BY <1>0, <1>4, UsableOne, UsableEmpty DEF One
<1> HIDE DEF before, after, made, rest, largest, change, n, at
<1>16. \A s \in Seq(Nat \ {0}) : s \in Seq(Nat)
    OBVIOUS
<1>11. Usable(coins) = Usable(before) + One(largest >= MinUsable) + Usable(after)
    <2>1. Usable(before \o <<largest>>) = Usable(before) + One(largest >= MinUsable)
        BY <1>2, <1>5, UsableConcat, UsableOne, <<largest>> \in Seq(Nat)
    <2>2. before \o <<largest>> \in Seq(Nat)
        BY <1>2, <1>5
    <2> QED BY <1>2, <1>5, <2>1, <2>2, UsableConcat
<1>12. Usable(AfterSplit) = Usable(before) + Usable(after) + n + One(change >= MinUsable)
    <2>1. /\ Usable(before \o after) = Usable(before) + Usable(after)
          /\ before \o after \in Seq(Nat)
        BY <1>5, UsableConcat
    <2>2. /\ Usable((before \o after) \o made) = Usable(before) + Usable(after) + n
          /\ (before \o after) \o made \in Seq(Nat)
        <3>1. made \in Seq(Nat)
            BY <1>6, <1>16
        <3> HIDE DEF made
        <3> QED BY <1>9, <2>1, <3>1, UsableConcat, ConcatProperties
    <2> QED BY <1>7, <1>8, <1>10, <1>16, <2>2, UsableConcat
<1>13. One(largest >= MinUsable) \in Nat /\ One(change >= MinUsable) \in Nat
       /\ Usable(before) \in Nat /\ Usable(after) \in Nat
    BY <1>5, UsableConcat DEF One
<1>14. Usable(AfterSplit) > Usable(coins)
    <2>1. Usable(coins) - One(largest >= MinUsable) + n + One(change >= MinUsable)
            > Usable(coins)
        BY <1>4 DEF UsableAfter, change
    <2> QED BY <1>3, <1>4, <1>11, <1>12, <1>13, <2>1
<1>15. Len(AfterSplit) > Len(coins)
    BY <1>1, <1>2, <1>4, <1>5, <1>6, <1>7, <1>8
<1> QED BY <1>5, <1>6, <1>7, <1>8, <1>14, <1>15

\* A splitter that is past the start of its cycle.
Splitting(k) == pc[k][1] \notin {"off", "idle"}

\* Coins only become more, and a split, planned or in a transaction, that names
\* as many coins as there are was planned for these coins.
SplitInv ==
    /\ coins \in Seq(Nat \ {0})
    /\ planned \in Nat /\ planned <= Len(coins)
    /\ planned = Len(coins) /\ (\E k \in Splitters : Splitting(k)) => Plan > 0
    /\ \A t \in txs : t.by \in Splitters =>
          t.of \in Nat /\ t.of <= Len(coins) /\ (t.of = Len(coins) => Plan > 0)

LEMMA SplitInit == Init => SplitInv
<1> SUFFICES ASSUME Init PROVE SplitInv
    OBVIOUS
<1>1. coins \in Seq(Nat \ {0}) /\ planned = 0 /\ txs = {}
    BY PushConstants, <<>> \in Seq(Nat \ {0}) DEF Init
<1>2. \A k \in Splitters : ~Splitting(k)
    BY PushConstants DEF Init, Splitting, First, Actors
<1> QED BY <1>1, <1>2 DEF SplitInv

\* Whoever leaves the coins and the plan alone, starts no cycle and adds no split
\* keeps the invariant.
LEMMA SplitByOthers ==
    ASSUME SplitInv, UNCHANGED <<coins, planned>>,
           \A k \in Splitters : Splitting(k)' => Splitting(k),
           \A u \in txs' : u.by \in Splitters =>
              \E t \in txs : t.by = u.by /\ t.of = u.of
    PROVE  SplitInv'
<1>1. Plan' = Plan
    BY DEF Plan, Usable, Largest
<1> QED BY <1>1 DEF SplitInv

-----------------------------------------------------------------------------
(* What every step keeps *)

\* The transactions an actor has made that the network may still confirm.
Open(a) == {t \in txs : t.by = a /\ t.state # "rejected"}

\* As much of the types as the arguments need.
Typed ==
    /\ DOMAIN pc = Actors
    /\ DOMAIN tries = Pushes \cup Creators /\ \A c \in Creators : tries[c] \in Nat
    /\ stores \in [Creators -> Nat]
    /\ mirrors \in Nat
    /\ \A t \in txs : /\ DOMAIN t = {"by", "of", "state"} /\ t.by \in Actors
                      /\ t.by \in Creators => t.of \in Nat
                      /\ t.state \in {"live", "rejected", "lost"}

\* What actor a does beside others: its own place and counters change, and
\* the transactions by one of its own.
StepOf(a) ==
    /\ \E step : pc' = [pc EXCEPT ![a] = step]
    /\ \A x \in (Pushes \cup Creators) \ {a} : tries'[x] = tries[x]
    /\ DOMAIN tries' = DOMAIN tries
    /\ stores' = stores /\ mirrors' = mirrors
    /\ mishaps \subseteq mishaps'
    /\ \/ txs' = txs
       \/ \E n : txs' = txs \cup {[by |-> a, of |-> n, state |-> "live"]}

LEMMA PushSteps ==
    ASSUME Typed, NEW p \in Pushes, PushStep(p) \/ PushTrouble(p)
    PROVE  StepOf(p)
<1> p \in Actors
    BY DEF Actors
<1> USE DEF StepOf, Typed, Goto, Steps, NextTry, GiveGrace, Publishes, Settles,
            Unanswered, Fault, pushVars, storeVars, chainVars
<1>1. CASE PushReady(p)
    BY <1>1 DEF PushReady
<1>2. CASE PushNotReady(p)
    BY <1>2 DEF PushNotReady
<1>3. CASE PushWaits(p)
    BY <1>3 DEF PushWaits
<1>4. CASE SeesPendingRoot(p)
    BY <1>4 DEF SeesPendingRoot
<1>5. CASE AlreadyPresent(p)
    BY <1>5 DEF AlreadyPresent
<1>6. CASE StageRoot(p)
    BY <1>6 DEF StageRoot
<1>7. CASE CreateTransaction(p)
    BY <1>7 DEF CreateTransaction
<1>8. CASE GraceIsOver(p)
    BY <1>8 DEF GraceIsOver
<1>9. CASE PendingRootSettles(p)
    BY <1>9 DEF PendingRootSettles
<1>10. CASE ClearsOrphan(p)
    BY <1>10 DEF ClearsOrphan
<1>11. CASE LeavesRoot(p)
    BY <1>11 DEF LeavesRoot
<1>12. CASE ClearPendingRoots(p)
    BY <1>12 DEF ClearPendingRoots
<1>13. CASE PushDropped(p)
    BY <1>13 DEF PushDropped
<1>14. CASE PushFails(p)
    BY <1>14 DEF PushFails
<1>15. CASE PushDisowned(p)
    BY <1>15 DEF PushDisowned
<1> QED BY <1>1, <1>2, <1>3, <1>4, <1>5, <1>6, <1>7, <1>8, <1>9, <1>10, <1>11,
           <1>12, <1>13, <1>14, <1>15 DEF PushStep, PushTrouble

LEMMA MirrorSteps ==
    ASSUME Typed, NEW m \in Mirrors, MirrorStep(m)
    PROVE  StepOf(m)
<1> m \in Actors
    BY DEF Actors
<1> USE DEF StepOf, Typed, Goto, Steps, Settles, Unanswered, Fault, pushVars, storeVars,
            chainVars
<1>1. CASE StartMirror(m)
    BY <1>1 DEF StartMirror
<1>2. CASE MirrorSettles(m)
    BY <1>2 DEF MirrorSettles
<1>3. CASE LookForMirror(m)
    BY <1>3 DEF LookForMirror
<1>4. CASE AddMirror(m)
    BY <1>4 DEF AddMirror
<1>5. CASE NoMirror(m)
    BY <1>5 DEF NoMirror
<1> QED BY <1>1, <1>2, <1>3, <1>4, <1>5 DEF MirrorStep

LEMMA CreatorSteps ==
    ASSUME Typed, NEW c \in Creators, CreatorStep(c)
    PROVE  StepOf(c)
<1> c \in Actors
    BY DEF Actors
<1> USE DEF StepOf, Typed, Goto, Steps, Settles, Unanswered, Fault, pushVars, storeVars,
            chainVars
<1>1. CASE CreatorSettles(c)
    BY <1>1 DEF CreatorSettles
<1>2. CASE CreateStore(c)
    BY <1>2 DEF CreateStore
<1>3. CASE StoreConfirmed(c)
    BY <1>3 DEF StoreConfirmed
<1>4. CASE StoreRejected(c)
    BY <1>4 DEF StoreRejected
<1>5. CASE StoreFails(c)
    BY <1>5 DEF StoreFails
<1> QED BY <1>1, <1>2, <1>3, <1>4, <1>5 DEF CreatorStep

LEMMA SplitterSteps ==
    ASSUME Typed, NEW k \in Splitters, SplitterStep(k)
    PROVE  StepOf(k)
<1> k \in Actors
    BY DEF Actors
<1> USE DEF StepOf, Typed, Goto, Steps, Fault, pushVars, storeVars, chainVars
<1>1. CASE StartCycle(k)
    BY <1>1 DEF StartCycle
<1>2. CASE SplitCoins(k)
    BY <1>2 DEF SplitCoins
<1>3. CASE SplitFails(k)
    BY <1>3 DEF SplitFails
<1> QED BY <1>1, <1>2, <1>3 DEF SplitterStep

\* Looking at a wallet's health changes no transaction.
LEMMA HealthSteps ==
    ASSUME Typed, NEW a \in Actors, Health(a) \/ HealthFails(a) \/ DeleteFails(a)
    PROVE  StepOf(a) /\ txs' = txs
<1> USE DEF StepOf, Typed, Goto, Steps, NextTry, GoOn, Fault, pushVars, storeVars, chainVars
<1>1. CASE Health(a)
    BY <1>1 DEF Health
<1>2. CASE HealthFails(a)
    BY <1>2 DEF HealthFails
<1>3. CASE DeleteFails(a)
    BY <1>3 DEF DeleteFails
<1> QED BY <1>1, <1>2, <1>3

\* Deleting a wallet's transactions takes the rejected ones away and makes live
\* ones lost, which is recorded.
Deletes(a) ==
    /\ \E step : pc' = [pc EXCEPT ![a] = step]
    /\ \A x \in (Pushes \cup Creators) \ {a} : tries'[x] = tries[x]
    /\ DOMAIN tries' = DOMAIN tries
    /\ stores' = stores /\ mirrors' = mirrors
    /\ mishaps \subseteq mishaps'
    /\ \A u \in txs' : \/ u \in txs
                       \/ \E t \in txs : /\ t.state = "live"
                                         /\ u = [t EXCEPT !.state = "lost"]
                                         /\ t \notin txs' /\ "lost" \in mishaps'

LEMMA DeleteSteps ==
    ASSUME Typed, NEW a \in Actors, DeleteUnconfirmed(a)
    PROVE  Deletes(a)
<1> DEFINE w == pc[a][2]
<1>1. /\ txs' = (txs \ (In(w, "live") \cup In(w, "rejected")))
                  \cup {[t EXCEPT !.state = "lost"] : t \in In(w, "live")}
      /\ mishaps' = IF In(w, "live") = {} THEN mishaps ELSE mishaps \cup {"lost"}
      /\ GoOn(a, w, TRUE, pc[a][3])
      /\ UNCHANGED <<stores, mirrors>>
    BY DEF DeleteUnconfirmed, chainVars
<1>2. ASSUME NEW u \in txs', u \notin txs
      PROVE  \E t \in txs : /\ t.state = "live" /\ u = [t EXCEPT !.state = "lost"]
                           /\ t \notin txs' /\ "lost" \in mishaps'
    <2>1. PICK t \in In(w, "live") : u = [t EXCEPT !.state = "lost"]
        BY <1>1, <1>2
    <2>2. t \in txs /\ t.state = "live"
        BY <2>1 DEF In
    <2>3. t \notin txs'
        <3> SUFFICES ASSUME t \in txs' PROVE FALSE
            OBVIOUS
        <3>1. PICK v \in In(w, "live") : t = [v EXCEPT !.state = "lost"]
            BY <1>1, <2>1
        <3>2. v \in txs /\ DOMAIN v = {"by", "of", "state"}
            BY <3>1 DEF In, Typed
        <3> QED BY <2>2, <3>1, <3>2
    <2> QED BY <1>1, <2>1, <2>2, <2>3
<1>3. /\ \E step : pc' = [pc EXCEPT ![a] = step]
      /\ \A x \in (Pushes \cup Creators) \ {a} : tries'[x] = tries[x]
      /\ DOMAIN tries' = DOMAIN tries
    BY <1>1 DEF GoOn, Goto, NextTry, Typed
<1> QED BY <1>1, <1>2, <1>3 DEF Deletes

-----------------------------------------------------------------------------
(* Typed is an invariant *)

LEMMA TypedInit == Init => Typed
<1> QED BY DEF Init, Typed, Actors

LEMMA CreatorTries ==
    ASSUME Typed, NEW c \in Creators,
           \/ CreatorStep(c) \/ Health(c) \/ HealthFails(c) \/ DeleteFails(c)
           \/ DeleteUnconfirmed(c)
    PROVE  tries'[c] \in Nat
<1> c \notin Pushes /\ c \notin Splitters
    BY PushConstants
<1> USE DEF Typed, Goto, Steps, GoOn, Fault, pushVars
<1>1. CASE CreatorStep(c)
    <2>1. CASE StoreRejected(c)
        <3>1. tries' = [tries EXCEPT ![c] = @ + 1] \/ tries' = tries
            BY <2>1 DEF StoreRejected
        <3>2. c \in DOMAIN tries /\ tries[c] \in Nat
            OBVIOUS
        <3> QED BY ONLY <3>1, <3>2
    <2>2. CASE CreatorSettles(c) \/ CreateStore(c) \/ StoreConfirmed(c) \/ StoreFails(c)
        BY <2>2 DEF CreatorSettles, CreateStore, StoreConfirmed, StoreFails
    <2> QED BY <1>1, <2>1, <2>2 DEF CreatorStep
<1>2. CASE Health(c)
    BY <1>2 DEF Health
<1>3. CASE HealthFails(c)
    BY <1>3 DEF HealthFails
<1>4. CASE DeleteFails(c)
    BY <1>4 DEF DeleteFails
<1>5. CASE DeleteUnconfirmed(c)
    BY <1>5 DEF DeleteUnconfirmed
<1> QED BY <1>1, <1>2, <1>3, <1>4, <1>5

\* The steps of one actor, of whatever kind, and the wallet's answers to it.
Acts(a) ==
    \/ a \in Pushes /\ (PushStep(a) \/ PushTrouble(a))
    \/ a \in Mirrors /\ MirrorStep(a)
    \/ a \in Creators /\ CreatorStep(a)
    \/ a \in Splitters /\ SplitterStep(a)
    \/ Health(a) \/ HealthFails(a) \/ DeleteFails(a)

LEMMA ActsIsStep ==
    ASSUME Typed, NEW a \in Actors, Acts(a)
    PROVE  StepOf(a)
<1> QED BY PushSteps, MirrorSteps, CreatorSteps, SplitterSteps, HealthSteps DEF Acts

LEMMA NextSteps ==
    ASSUME [Next]_vars
    PROVE  \/ \E a \in Actors : Acts(a) \/ DeleteUnconfirmed(a)
           \/ \E t \in txs : Confirm(t) \/ Reject(t)
           \/ Crash
           \/ UNCHANGED vars
<1> QED BY DEF Next, Acts, Actors, WalletStep, Settle

LEMMA TypedNext ==
    ASSUME Typed, [Next]_vars
    PROVE  Typed'
<1> USE DEF Typed
<1>1. ASSUME NEW a \in Actors, Acts(a)
      PROVE  Typed'
    <2>1. StepOf(a)
        BY <1>1, ActsIsStep
    <2>2. \A c \in Creators : tries'[c] \in Nat
        <3>1. ASSUME NEW c \in Creators, c # a
              PROVE  tries'[c] \in Nat
            BY <2>1, <3>1 DEF StepOf
        <3>2. ASSUME a \in Creators
              PROVE  tries'[a] \in Nat
            BY <1>1, <3>2, CreatorTries, PushConstants DEF Acts
        <3> QED BY <3>1, <3>2
    <2>3. ASSUME NEW t \in txs', t \notin txs
          PROVE  /\ DOMAIN t = {"by", "of", "state"} /\ t.by \in Actors
                 /\ t.by \in Creators => t.of \in Nat
                 /\ t.state \in {"live", "rejected", "lost"}
        <3>1. PICK n : /\ txs' = txs \cup {[by |-> a, of |-> n, state |-> "live"]}
                       /\ t = [by |-> a, of |-> n, state |-> "live"]
            BY <2>1, <2>3 DEF StepOf
        <3>2. ASSUME a \in Creators
              PROVE  t.of \in Nat
            <4>1. CreatorStep(a)
                BY <1>1, <2>3, <3>2, HealthSteps, PushConstants DEF Acts
            <4>2. CASE CreateStore(a)
                BY <2>3, <3>2, <4>2 DEF CreateStore
            <4>3. CASE ~CreateStore(a)
                BY <2>3, <4>1, <4>3 DEF CreatorStep, CreatorSettles, StoreConfirmed,
                   StoreRejected, StoreFails, Steps
            <4> QED BY <4>2, <4>3
        <3> QED BY <1>1, <3>1, <3>2
    <2> QED BY <2>1, <2>2, <2>3 DEF StepOf
<1>2. ASSUME NEW a \in Actors, DeleteUnconfirmed(a)
      PROVE  Typed'
    <2>1. Deletes(a)
        BY <1>2, DeleteSteps
    <2>2. \A c \in Creators : tries'[c] \in Nat
        BY <1>2, <2>1, CreatorTries DEF Deletes
    <2>3. ASSUME NEW t \in txs'
          PROVE  /\ DOMAIN t = {"by", "of", "state"} /\ t.by \in Actors
                 /\ t.by \in Creators => t.of \in Nat
                 /\ t.state \in {"live", "rejected", "lost"}
        BY <2>1 DEF Deletes
    <2> QED BY <2>1, <2>2, <2>3 DEF Deletes
<1>3. ASSUME NEW t \in txs, Confirm(t)
      PROVE  Typed'
    <2>1. stores' \in [Creators -> Nat] /\ mirrors' \in Nat
        BY <1>3 DEF Confirm, ConfirmUpdate, ConfirmOther, storeVars
    <2> QED BY <1>3, <2>1 DEF Confirm, pushVars
<1>4. ASSUME NEW t \in txs, Reject(t)
      PROVE  Typed'
    <2>1. ASSUME NEW u \in txs'
          PROVE  u \in txs \/ u = [t EXCEPT !.state = "rejected"]
        BY <1>4 DEF Reject
    <2> QED BY <1>4, <2>1 DEF Reject, pushVars, chainVars
<1>5. CASE Crash
    BY <1>5 DEF Crash, pushVars, chainVars
<1>6. CASE UNCHANGED vars
    BY <1>6 DEF vars, pushVars, chainVars
<1> QED BY <1>1, <1>2, <1>3, <1>4, <1>5, <1>6, NextSteps

-----------------------------------------------------------------------------
(* Splits beside the other actors *)

LEMMA SplitSteps ==
    ASSUME Typed, SplitInv, NEW a \in Actors, Acts(a)
    PROVE  SplitInv' /\ UNCHANGED coins
<1>1. StepOf(a)
    BY ActsIsStep
<1>2. \A k \in Splitters : k # a => (Splitting(k)' <=> Splitting(k))
    BY <1>1 DEF StepOf, Typed, Splitting, Actors
<1>3. CASE a \notin Splitters
    <2>1. UNCHANGED <<coins, planned>>
        BY <1>3 DEF Acts, PushStep, PushTrouble, MirrorStep, CreatorStep, PushReady,
           PushNotReady, PushWaits, SeesPendingRoot, AlreadyPresent, StageRoot,
           CreateTransaction, GraceIsOver, PendingRootSettles, ClearsOrphan, LeavesRoot,
           ClearPendingRoots, PushDropped, PushFails, PushDisowned, StartMirror,
           MirrorSettles, LookForMirror, AddMirror, NoMirror, CreatorSettles, CreateStore,
           StoreConfirmed, StoreRejected, StoreFails, Health, HealthFails, DeleteFails,
           Steps, chainVars
    <2>2. \A u \in txs' : u.by \in Splitters => u \in txs
        BY <1>1, <1>3 DEF StepOf
    <2> QED BY <1>2, <1>3, <2>1, <2>2, SplitByOthers
<1>4. CASE a \in Splitters /\ (Health(a) \/ HealthFails(a) \/ DeleteFails(a))
    <2>1. UNCHANGED <<coins, planned, txs>>
        BY <1>4 DEF Health, HealthFails, DeleteFails, chainVars
    <2>2. Splitting(a)
        BY <1>4 DEF Health, HealthFails, DeleteFails, At, Splitting
    <2> QED BY <1>2, <2>1, <2>2, SplitByOthers
<1>5. CASE a \in Splitters /\ StartCycle(a)
    <2>1. Plan > 0 /\ planned' = Len(coins) /\ UNCHANGED <<coins, txs>>
        BY <1>5 DEF StartCycle
    <2>2. Plan' = Plan
        BY <2>1 DEF Plan, Usable, Largest
    <2>3. Len(coins) \in Nat
        BY DEF SplitInv
    <2> QED BY <2>1, <2>2, <2>3 DEF SplitInv
<1>6. CASE a \in Splitters /\ SplitCoins(a)
    <2>1. UNCHANGED <<coins, planned>>
        BY <1>6 DEF SplitCoins, chainVars
    <2>2. Splitting(a) /\ ~Splitting(a)'
        BY <1>6 DEF SplitCoins, At, Splitting, Goto, Typed
    <2>3. Plan' = Plan
        BY <2>1 DEF Plan, Usable, Largest
    <2>4. \A t \in txs' : t.by \in Splitters =>
             t.of \in Nat /\ t.of <= Len(coins) /\ (t.of = Len(coins) => Plan > 0)
        <3>1. CASE planned = Len(coins)
            <4>1. Plan > 0
                BY <1>6, <2>2, <3>1 DEF SplitInv
            <4>2. txs' = txs \cup {[by |-> a, of |-> planned, state |-> "live"]}
                BY <1>6, <3>1 DEF SplitCoins
            <4> QED BY <3>1, <4>1, <4>2 DEF SplitInv
        <3>2. CASE planned # Len(coins)
            <4>1. txs' = txs
                BY <1>6, <3>2 DEF SplitCoins
            <4> QED BY <4>1 DEF SplitInv
        <3> QED BY <3>1, <3>2
    <2> QED BY <1>2, <2>1, <2>2, <2>3, <2>4 DEF SplitInv
<1>7. CASE a \in Splitters /\ SplitFails(a)
    <2>1. UNCHANGED <<coins, planned, txs>>
        BY <1>7 DEF SplitFails, chainVars
    <2>2. Splitting(a)
        BY <1>7 DEF SplitFails, At, Splitting
    <2> QED BY <1>2, <2>1, <2>2, SplitByOthers
<1> QED BY <1>3, <1>4, <1>5, <1>6, <1>7, PushConstants DEF Acts, SplitterStep

LEMMA SplitNext ==
    ASSUME Typed, SplitInv, [Next]_vars
    PROVE  SplitInv' /\ (coins' # coins => Usable(coins') > Usable(coins))
<1>1. ASSUME NEW a \in Actors, DeleteUnconfirmed(a)
      PROVE  SplitInv' /\ UNCHANGED coins
    <2>1. Deletes(a)
        BY <1>1, DeleteSteps
    <2>2. UNCHANGED <<coins, planned>>
        BY <1>1 DEF DeleteUnconfirmed, chainVars
    <2>3. \A u \in txs' : \E t \in txs : t.by = u.by /\ t.of = u.of
        BY <2>1 DEF Deletes, Typed
    <2>4. \A k \in Splitters : Splitting(k)' => Splitting(k)
        <3>1. Splitting(a)
            BY <1>1 DEF DeleteUnconfirmed, At, Splitting
        <3> QED BY <2>1, <3>1 DEF Deletes, Splitting, Typed, Actors
    <2> QED BY <2>2, <2>3, <2>4, SplitByOthers
<1>2. ASSUME NEW t \in txs, Confirm(t)
      PROVE  SplitInv' /\ (coins' # coins => Usable(coins') > Usable(coins))
    <2>1. txs' \subseteq txs /\ UNCHANGED <<pc, planned>>
        BY <1>2 DEF Confirm
    <2>2. CASE coins' = coins
        <3>1. \A k \in Splitters : Splitting(k)' => Splitting(k)
            BY <2>1 DEF Splitting
        <3> QED BY <2>1, <2>2, <3>1, SplitByOthers
    <2>3. CASE coins' # coins
        <3>1. t.by \in Splitters /\ t.of = Len(coins) /\ coins' = AfterSplit
            BY <1>2, <2>3 DEF Confirm, ConfirmUpdate, ConfirmOther
        <3>2. coins \in Seq(Nat \ {0}) /\ Plan > 0
            BY <3>1 DEF SplitInv
        <3>3. /\ coins' \in Seq(Nat \ {0}) /\ Len(coins') > Len(coins)
              /\ Usable(coins') > Usable(coins)
            BY <3>1, <3>2, AfterSplitGains
        <3>4. Len(coins) \in Nat /\ Len(coins') \in Nat
            BY <3>2, <3>3
        <3> QED BY <2>1, <3>3, <3>4 DEF SplitInv
    <2> QED BY <2>2, <2>3
<1>3. ASSUME NEW t \in txs, Reject(t)
      PROVE  SplitInv' /\ UNCHANGED coins
    <2>1. txs' \subseteq txs \cup {[t EXCEPT !.state = "rejected"]}
        BY <1>3 DEF Reject
    <2>2. UNCHANGED <<pc, coins, planned>>
        BY <1>3 DEF Reject, chainVars
    <2>3. \A u \in txs' : \E v \in txs : v.by = u.by /\ v.of = u.of
        BY <2>1 DEF Typed
    <2> QED BY <2>2, <2>3, SplitByOthers DEF Splitting
<1>4. CASE Crash
    <2>1. UNCHANGED <<coins, planned, txs>>
        BY <1>4 DEF Crash, chainVars
    <2>2. \A k \in Splitters : Splitting(k)' => Splitting(k)
        BY <1>4, PushConstants DEF Crash, Splitting, At, Actors
    <2> QED BY <2>1, <2>2, SplitByOthers
<1>5. CASE UNCHANGED vars
    <2>1. UNCHANGED <<pc, coins, planned, txs>>
        BY <1>5 DEF vars, chainVars
    <2> QED BY <2>1, SplitByOthers DEF Splitting
<1> QED BY <1>1, <1>2, <1>3, <1>4, <1>5, SplitSteps, NextSteps

\* Coin management never spends a coin for nothing: a split that confirms, however
\* long after it was planned and whatever happened to the wallet meanwhile, leaves
\* more usable coins than there were.  A split planned for other coins names fewer
\* of them than there are, and the wallet refuses it (runCycle).
THEOREM SplitAlwaysGains == Spec => SplitGains
<1>1. Init => Typed /\ SplitInv
    BY TypedInit, SplitInit
<1>2. Typed /\ SplitInv /\ [Next]_vars => (Typed /\ SplitInv)'
    BY TypedNext, SplitNext
<1>3. Typed /\ SplitInv /\ [Next]_vars =>
        [coins' # coins => Usable(coins') > Usable(coins)]_vars
    BY SplitNext
<1> QED BY <1>1, <1>2, <1>3, PTL DEF Spec, SplitGains

-----------------------------------------------------------------------------
(* A creation leaves one store *)

\* Before a creation has made its transaction, or when it has to be made again,
\* nothing of it is open; while the answer is awaited only the transaction of
\* this attempt is.
CreatorInv(c) ==
    /\ \A t, u \in Open(c) : t = u
    /\ stores[c] > 0 => stores[c] = 1 /\ Open(c) = {}
    /\ pc[c][1] \in {"settle", "create", "health", "delete"} =>
          /\ stores[c] = 0 /\ Open(c) = {}
          /\ \A t \in txs : t.by = c => t.of < tries[c]
    /\ At(c, "poll") =>
          \A t \in txs : t.by = c =>
             /\ t.of <= tries[c]
             /\ t.of = tries[c] /\ t.state = "rejected" => stores[c] = 0 /\ Open(c) = {}

LEMMA CreatorInit ==
    ASSUME Init, NEW c \in Creators
    PROVE  CreatorInv(c)
<1> QED BY DEF Init, CreatorInv, Open, At

LEMMA CreatorOthers ==
    ASSUME Typed, NEW c \in Creators, CreatorInv(c),
           NEW a \in Actors, a # c, StepOf(a)
    PROVE  CreatorInv(c)'
<1>1. pc'[c] = pc[c] /\ tries'[c] = tries[c] /\ stores'[c] = stores[c]
    BY DEF StepOf, Typed, Actors
<1>2. \A t : t.by = c => (t \in txs' <=> t \in txs)
    BY DEF StepOf
<1>3. Open(c)' = Open(c)
    BY <1>2 DEF Open
<1> QED BY <1>1, <1>2, <1>3 DEF CreatorInv, At

LEMMA CreatorOwn ==
    ASSUME Typed, NEW c \in Creators, CreatorInv(c), CreatorStep(c)
    PROVE  CreatorInv(c)'
<1> /\ c \in Actors /\ c \in DOMAIN tries /\ tries[c] \in Nat /\ stores[c] \in Nat
    BY DEF Actors, Typed
<1>1. CASE CreatorSettles(c)
    BY <1>1 DEF CreatorSettles, CreatorInv, Open, At, Goto, Typed, pushVars, chainVars
<1>2. CASE CreateStore(c)
    <2> DEFINE new == [by |-> c, of |-> tries[c], state |-> "live"]
    <2>1. /\ At(c, "create") /\ txs' = txs \cup {new} /\ pc'[c] = <<"poll">>
          /\ tries' = tries /\ stores' = stores
        BY <1>2 DEF CreateStore, Goto, Typed, pushVars, chainVars
    <2>2. /\ stores[c] = 0 /\ Open(c) = {}
          /\ \A t \in txs : t.by = c => t.of < tries[c]
        BY <2>1 DEF CreatorInv, At
    <2>3. \A t \in Open(c)' : t = new
        BY <2>1, <2>2 DEF Open
    <2>4. \A t \in txs' : t.by = c =>
             /\ t.of <= tries[c]
             /\ ~(t.of = tries[c] /\ t.state = "rejected")
        <3> SUFFICES ASSUME NEW t \in txs', t.by = c
                     PROVE  /\ t.of <= tries[c]
                            /\ ~(t.of = tries[c] /\ t.state = "rejected")
            OBVIOUS
        <3>1. CASE t = new
            BY <3>1
        <3>2. CASE t \in txs
            BY <2>2, <3>2 DEF Typed
        <3> QED BY <2>1, <3>1, <3>2
    <2> QED BY <2>1, <2>2, <2>3, <2>4 DEF CreatorInv, At
<1>3. CASE StoreConfirmed(c)
    BY <1>3 DEF StoreConfirmed, CreatorInv, Open, At, Goto, Steps, Typed, pushVars, chainVars
<1>4. CASE StoreRejected(c)
    <2>1. At(c, "poll") /\ txs' = txs /\ stores' = stores
        BY <1>4 DEF StoreRejected, chainVars
    <2>2. stores[c] = 0 /\ Open(c) = {} /\ \A t \in txs : t.by = c => t.of <= tries[c]
        <3>1. PICK t \in txs : t = [by |-> c, of |-> tries[c], state |-> "rejected"]
            BY <1>4 DEF StoreRejected
        <3> QED BY <2>1, <3>1 DEF CreatorInv
    <2>3. Open(c)' = {} /\ stores'[c] = 0
        BY <2>1, <2>2 DEF Open
    <2>4. \/ pc'[c][1] = "health" /\ tries'[c] = tries[c] + 1
          \/ pc'[c][1] = "failed"
        <3>1. \/ /\ pc' = [pc EXCEPT ![c] = <<"health", "dl", TRUE>>]
                 /\ tries' = [tries EXCEPT ![c] = @ + 1]
              \/ pc' = [pc EXCEPT ![c] = <<"failed">>]
            BY <1>4 DEF StoreRejected, Goto
        <3>2. c \in DOMAIN pc
            BY DEF Typed
        <3>3. CASE pc' = [pc EXCEPT ![c] = <<"failed">>]
            BY ONLY <3>2, <3>3
        <3>4. CASE /\ pc' = [pc EXCEPT ![c] = <<"health", "dl", TRUE>>]
                   /\ tries' = [tries EXCEPT ![c] = @ + 1]
            <4>1. pc'[c] = <<"health", "dl", TRUE>>
                BY ONLY <3>2, <3>4
            <4>2. tries'[c] = tries[c] + 1
                BY <3>4
            <4> QED BY ONLY <4>1, <4>2
        <3> QED BY <3>1, <3>3, <3>4
    <2>5. \A t \in txs' : t.by = c => t.of < tries[c] + 1
        BY <2>1, <2>2 DEF Typed
    <2> QED BY <2>3, <2>4, <2>5 DEF CreatorInv, At
<1>5. CASE StoreFails(c)
    BY <1>5 DEF StoreFails, CreatorInv, Open, At, Goto, Typed, pushVars, chainVars
<1> QED BY <1>1, <1>2, <1>3, <1>4, <1>5 DEF CreatorStep

LEMMA CreatorHealth ==
    ASSUME Typed, NEW c \in Creators, CreatorInv(c),
           Health(c) \/ HealthFails(c) \/ DeleteFails(c)
    PROVE  CreatorInv(c)'
<1>1. c \in Actors /\ c \notin Pushes /\ c \notin Splitters
    BY PushConstants DEF Actors
<1>2. txs' = txs /\ stores' = stores
    BY <1>1, HealthSteps DEF StepOf
<1>3. tries' = tries /\ pc[c][1] \in {"health", "delete"}
      /\ pc'[c][1] \in {"delete", "settle", "failed"}
    <2> USE DEF GoOn, Goto, At, Typed
    <2>1. CASE Health(c)
        BY <1>1, <2>1 DEF Health
    <2>2. CASE HealthFails(c)
        BY <1>1, <2>2 DEF HealthFails
    <2>3. CASE DeleteFails(c)
        <3>1. pc[c][1] = "delete" /\ Goto(c, <<"settle">>) /\ tries' = tries
            BY <1>1, <2>3 DEF DeleteFails
        <3> QED BY <1>1, <3>1
    <2> QED BY <2>1, <2>2, <2>3
<1> QED BY <1>2, <1>3 DEF CreatorInv, Open, At

\* Whoever deletes the wallet's transactions, what was live is still open.
LEMMA CreatorDelete ==
    ASSUME Typed, NEW c \in Creators, CreatorInv(c), NEW a \in Actors, DeleteUnconfirmed(a)
    PROVE  CreatorInv(c)'
<1>1. Deletes(a)
    BY DeleteSteps
<1> DEFINE Same(u, t) ==
        /\ t.by = c /\ t.of = u.of
        /\ u.state = "rejected" => u = t
        /\ t.state = "rejected" => u = t
        /\ \/ u = t /\ t \in txs'
           \/ u = [t EXCEPT !.state = "lost"] /\ t \notin txs'
<1>2. \A u \in txs' : u.by = c => \E t \in txs : Same(u, t)
    <2> SUFFICES ASSUME NEW u \in txs', u.by = c
                 PROVE  \E t \in txs : Same(u, t)
        OBVIOUS
    <2>1. CASE u \in txs
        BY <2>1
    <2>2. CASE u \notin txs
        <3>1. PICK t \in txs : /\ t.state = "live" /\ u = [t EXCEPT !.state = "lost"]
                               /\ t \notin txs'
            BY <1>1, <2>2 DEF Deletes
        <3>2. u.by = t.by /\ u.of = t.of /\ u.state = "lost"
            BY <3>1 DEF Typed
        <3> QED BY <3>1, <3>2
    <2> QED BY <2>1, <2>2
<1>o. \A u \in Open(c)' : \E t \in Open(c) : Same(u, t)
    <2> SUFFICES ASSUME NEW u \in Open(c)'
                 PROVE  \E t \in Open(c) : Same(u, t)
        OBVIOUS
    <2>1. u \in txs' /\ u.by = c /\ u.state # "rejected"
        BY DEF Open
    <2>2. PICK t \in txs : Same(u, t)
        BY <1>2, <2>1
    <2>3. t \in Open(c)
        BY <2>1, <2>2 DEF Open
    <2> QED BY <2>2, <2>3
<1>3. \A u, v \in Open(c)' : u = v
    <2> SUFFICES ASSUME NEW u \in Open(c)', NEW v \in Open(c)'
                 PROVE  u = v
        OBVIOUS
    <2>1. PICK t \in Open(c) : Same(u, t)
        BY <1>o
    <2>2. PICK x \in Open(c) : Same(v, x)
        BY <1>o
    <2>3. t = x
        BY DEF CreatorInv
    <2> QED BY <2>1, <2>2, <2>3
<1>4. Open(c) = {} => Open(c)' = {}
    BY <1>o
<1>5. stores' = stores
    BY <1>1 DEF Deletes
<1>6. \/ pc'[c] = pc[c]
      \/ pc[c][1] = "delete" /\ pc'[c][1] = "settle"
    <2>1. CASE a = c
        BY <2>1, PushConstants DEF DeleteUnconfirmed, GoOn, Goto, At, Typed
    <2>2. CASE a # c
        BY <1>1, <2>2 DEF Deletes, Typed, Actors
    <2> QED BY <2>1, <2>2
<1>7. tries'[c] = tries[c]
    <2>1. CASE a = c
        BY <2>1, PushConstants DEF DeleteUnconfirmed, GoOn
    <2>2. CASE a # c
        BY <1>1, <2>2 DEF Deletes
    <2> QED BY <2>1, <2>2
<1>8. pc'[c][1] \in {"settle", "create", "health", "delete"} =>
        /\ stores'[c] = 0 /\ Open(c)' = {}
        /\ \A t \in txs' : t.by = c => t.of < tries'[c]
    <2> SUFFICES ASSUME pc'[c][1] \in {"settle", "create", "health", "delete"}
                 PROVE  /\ stores'[c] = 0 /\ Open(c)' = {}
                        /\ \A t \in txs' : t.by = c => t.of < tries'[c]
        OBVIOUS
    <2>1. /\ stores[c] = 0 /\ Open(c) = {}
          /\ \A t \in txs : t.by = c => t.of < tries[c]
        BY <1>6 DEF CreatorInv
    <2> QED BY <1>2, <1>4, <1>5, <1>7, <2>1
<1>9. At(c, "poll")' =>
        \A t \in txs' : t.by = c =>
           /\ t.of <= tries'[c]
           /\ t.of = tries'[c] /\ t.state = "rejected" => stores'[c] = 0 /\ Open(c)' = {}
    <2> SUFFICES ASSUME At(c, "poll")', NEW u \in txs', u.by = c
                 PROVE  /\ u.of <= tries'[c]
                        /\ u.of = tries'[c] /\ u.state = "rejected" =>
                              stores'[c] = 0 /\ Open(c)' = {}
        OBVIOUS
    <2>1. PICK t \in txs : Same(u, t)
        BY <1>2
    <2>2. /\ t.of <= tries[c]
          /\ t.of = tries[c] /\ t.state = "rejected" => stores[c] = 0 /\ Open(c) = {}
        BY <1>6, <2>1 DEF CreatorInv, At
    <2> QED BY <1>4, <1>5, <1>7, <2>1, <2>2
<1> QED BY <1>3, <1>4, <1>5, <1>8, <1>9 DEF CreatorInv

LEMMA CreatorConfirm ==
    ASSUME Typed, NEW c \in Creators, CreatorInv(c), NEW t \in txs, Confirm(t)
    PROVE  CreatorInv(c)'
<1>1. /\ txs' = txs \ {t} /\ pc' = pc /\ tries' = tries /\ t.state # "rejected"
      /\ ConfirmUpdate(t) \/ ConfirmOther(t)
    BY DEF Confirm, pushVars
<1>2. CASE t.by # c
    <2>1. stores'[c] = stores[c]
        BY <1>1, <1>2 DEF ConfirmUpdate, ConfirmOther, Typed
    <2>2. Open(c)' = Open(c)
        BY <1>1, <1>2 DEF Open
    <2> QED BY <1>1, <2>1, <2>2 DEF CreatorInv, At
<1>3. CASE t.by = c
    <2>1. t \in Open(c)
        BY <1>1, <1>3 DEF Open
    <2>2. stores[c] = 0
        BY <2>1 DEF CreatorInv, Typed
    <2>3. stores'[c] = 1
        BY <1>1, <1>3, <2>2, PushConstants DEF ConfirmUpdate, ConfirmOther, Typed
    <2>4. Open(c)' = {}
        BY <1>1, <2>1 DEF Open, CreatorInv
    <2>5. pc'[c][1] \notin {"settle", "create", "health", "delete"}
        BY <1>1, <2>1 DEF CreatorInv
    <2>6. At(c, "poll") =>
            \A u \in txs : u.by = c => /\ u.of <= tries[c]
                                      /\ ~(u.of = tries[c] /\ u.state = "rejected")
        BY <2>1 DEF CreatorInv
    <2> QED BY <1>1, <2>3, <2>4, <2>5, <2>6 DEF CreatorInv, At
<1> QED BY <1>2, <1>3

LEMMA CreatorReject ==
    ASSUME Typed, NEW c \in Creators, CreatorInv(c), NEW t \in txs, Reject(t)
    PROVE  CreatorInv(c)'
<1> DEFINE r == [t EXCEPT !.state = "rejected"]
<1>1. /\ txs' \subseteq (txs \ {t}) \cup {r}
      /\ pc' = pc /\ tries' = tries /\ stores' = stores /\ t.state # "rejected"
    BY DEF Reject, pushVars, chainVars
<1>2. r.by = t.by /\ r.of = t.of /\ r.state = "rejected"
    BY DEF Typed
<1>3. Open(c)' \subseteq Open(c)
    BY <1>1, <1>2 DEF Open
<1>4. ASSUME t.by = c
      PROVE  t \in Open(c) /\ stores[c] = 0 /\ Open(c)' = {}
    <2>1. t \in Open(c)
        BY <1>1, <1>4 DEF Open
    <2>2. stores[c] = 0
        BY <2>1 DEF CreatorInv, Typed
    <2>3. t \notin Open(c)'
        BY <1>1, <1>2 DEF Open
    <2> QED BY <1>3, <2>1, <2>2, <2>3 DEF CreatorInv
<1>5. \A u \in txs' : u.by = c => (u \in txs \/ (u = r /\ t.by = c))
    BY <1>1, <1>2
<1>6. pc'[c][1] \in {"settle", "create", "health", "delete"} =>
        /\ stores'[c] = 0 /\ Open(c)' = {}
        /\ \A u \in txs' : u.by = c => u.of < tries'[c]
    BY <1>1, <1>2, <1>3, <1>5 DEF CreatorInv
<1>7. At(c, "poll")' =>
        \A u \in txs' : u.by = c =>
           /\ u.of <= tries'[c]
           /\ u.of = tries'[c] /\ u.state = "rejected" => stores'[c] = 0 /\ Open(c)' = {}
    BY <1>1, <1>2, <1>3, <1>4, <1>5 DEF CreatorInv, At
<1>8. \A u, v \in Open(c)' : u = v
    BY <1>3 DEF CreatorInv
<1>9. stores'[c] > 0 => stores'[c] = 1 /\ Open(c)' = {}
    BY <1>1, <1>3 DEF CreatorInv
<1> QED BY <1>6, <1>7, <1>8, <1>9 DEF CreatorInv

LEMMA CreatorNext ==
    ASSUME Typed, NEW c \in Creators, CreatorInv(c), [Next]_vars
    PROVE  CreatorInv(c)'
<1>1. ASSUME NEW a \in Actors, Acts(a)
      PROVE  CreatorInv(c)'
    <2>1. CASE a # c
        BY <1>1, <2>1, ActsIsStep, CreatorOthers
    <2>2. CASE a = c
        BY <1>1, <2>2, CreatorOwn, CreatorHealth, PushConstants DEF Acts
    <2> QED BY <2>1, <2>2
<1>2. ASSUME NEW a \in Actors, DeleteUnconfirmed(a)
      PROVE  CreatorInv(c)'
    BY <1>2, CreatorDelete
<1>3. ASSUME NEW t \in txs, Confirm(t) \/ Reject(t)
      PROVE  CreatorInv(c)'
    BY <1>3, CreatorConfirm, CreatorReject
<1>4. CASE Crash
    <2>1. pc'[c] = pc[c] \/ pc'[c] = <<"dropped">>
        BY <1>4, PushConstants DEF Crash, Actors
    <2> QED BY <1>4, <2>1 DEF Crash, CreatorInv, Open, At, pushVars, chainVars
<1>5. CASE UNCHANGED vars
    BY <1>5 DEF vars, CreatorInv, Open, At, pushVars, chainVars
<1> QED BY <1>1, <1>2, <1>3, <1>4, <1>5, NextSteps

LEMMA AtMostOne ==
    ASSUME NEW S, \A t, u \in S : t = u
    PROVE  IsFiniteSet(S) /\ Cardinality(S) \in {0, 1} /\ (S = {} => Cardinality(S) = 0)
<1>1. CASE S = {}
    BY <1>1, FS_EmptySet
<1>2. CASE S # {}
    <2>1. PICK t \in S : S = {t}
        BY <1>2
    <2> QED BY <2>1, FS_Singleton
<1> QED BY <1>1, <1>2

\* A creation that is tried again after a rejection never leaves a second store:
\* createDataLayerStoreWithRetry makes a new transaction only when the one before
\* can no longer confirm.
THEOREM StoreMadeOnce == Spec => []OneStore
<1> DEFINE Inv == Typed /\ \A c \in Creators : CreatorInv(c)
<1>1. Init => Inv
    BY TypedInit, CreatorInit
<1>2. Inv /\ [Next]_vars => Inv'
    BY TypedNext, CreatorNext
<1>3. Inv => OneStore
    <2> SUFFICES ASSUME Inv, NEW c \in Creators
                 PROVE  stores[c] + Cardinality(Open(c)) <= 1
        BY DEF OneStore, Open
    <2>1. stores[c] \in Nat /\ CreatorInv(c)
        BY DEF Typed
    <2>2. Cardinality(Open(c)) \in {0, 1} /\ (Open(c) = {} => Cardinality(Open(c)) = 0)
        BY <2>1, AtMostOne DEF CreatorInv
    <2> QED BY <2>1, <2>2 DEF CreatorInv
<1> QED BY <1>1, <1>2, <1>3, PTL DEF Spec

-----------------------------------------------------------------------------
(* A mirror is announced once *)

Away(m)     == pc[m][1] \in {"off", "idle"}
Announced   == {t \in txs : t.by \in Mirrors /\ t.state = "live"}

\* One caller at a time is past the look for another one; it announces the mirror
\* after it has found none on the chain and none on its way there.
MirrorInv ==
    /\ \A m \in Mirrors : pc[m][1] \in {"off", "idle", "settle", "look", "add"}
    /\ \A m, n \in Mirrors : Away(m) \/ Away(n) \/ m = n
    /\ mishaps = {} =>
         /\ \A t \in txs : t.state # "lost"
         /\ \A t, u \in Announced : t = u
         /\ mirrors \in {0, 1} /\ (mirrors = 1 => Announced = {})
         /\ \A m \in Mirrors :
               /\ At(m, "look") => Announced = {}
               /\ At(m, "add") => Announced = {} /\ mirrors = 0

LEMMA MirrorInit == Init => MirrorInv
<1> SUFFICES ASSUME Init PROVE MirrorInv
    OBVIOUS
<1>1. \A m \in Mirrors : pc[m][1] \in {"off", "idle"}
    BY PushConstants DEF Init, Actors, First
<1> QED BY <1>1 DEF Init, MirrorInv, Away, Announced, At

\* Actors of other kinds leave the mirrors to themselves.
LEMMA MirrorOthers ==
    ASSUME Typed, MirrorInv, NEW a \in Actors, a \notin Mirrors, StepOf(a)
    PROVE  MirrorInv'
<1>1. \A m \in Mirrors : pc'[m] = pc[m]
    BY DEF StepOf, Typed, Actors
<1>2. mishaps \subseteq mishaps' /\ mirrors' = mirrors
    BY DEF StepOf
<1>3. \A t \in txs' : t \in txs \/ (t.by = a /\ t.state = "live")
    BY DEF StepOf
<1>4. Announced' = Announced
    BY DEF StepOf, Announced
<1>5. (\A t \in txs : t.state # "lost") => (\A t \in txs' : t.state # "lost")
    BY <1>3
<1>6. mishaps' = {} => mishaps = {}
    BY <1>2
<1> QED BY <1>1, <1>2, <1>4, <1>5, <1>6 DEF MirrorInv, Away, At

LEMMA MirrorOwn ==
    ASSUME Typed, MirrorInv, NEW m \in Mirrors, MirrorStep(m)
    PROVE  MirrorInv'
<1> m \in Actors /\ m \in DOMAIN pc
    BY DEF Actors, Typed
<1>0. \A n \in Mirrors : n # m => pc'[n] = pc[n]
    <2>1. StepOf(m)
        BY MirrorSteps
    <2> QED BY <2>1 DEF StepOf, Typed, Actors
<1>1. CASE StartMirror(m)
    <2>1. /\ pc'[m] = <<"settle">> /\ \A n \in Mirrors : n # m => Away(n)
          /\ UNCHANGED <<txs, mirrors, mishaps>>
        BY <1>1 DEF StartMirror, Steps, Goto, InFlight, At, Away, chainVars
    <2> QED BY <1>0, <2>1 DEF MirrorInv, Away, At, Announced
<1>2. CASE MirrorSettles(m)
    <2>1. /\ pc'[m] = <<"look">> /\ ~Away(m) /\ UNCHANGED <<txs, mirrors>>
          /\ \/ Live = {} /\ mishaps' = mishaps
             \/ mishaps' # {}
        BY <1>2 DEF MirrorSettles, Settles, Unanswered, Goto, At, Away, chainVars
    <2>2. Live = {} => Announced = {}
        BY DEF Live, Announced
    <2> QED BY <1>0, <2>1, <2>2 DEF MirrorInv, Away, At, Announced
<1>3. CASE LookForMirror(m)
    <2>1. /\ pc'[m] \in {<<"idle">>, <<"add">>} /\ At(m, "look") /\ UNCHANGED <<txs, mirrors>>
          /\ \/ pc'[m] = <<"idle">> /\ mishaps' = mishaps
             \/ mirrors = 0 /\ mishaps' = mishaps
             \/ mishaps' # {}
        BY <1>3 DEF LookForMirror, Unanswered, Goto, chainVars
    <2>2. ~Away(m)
        BY <2>1 DEF Away, At
    <2>3. CASE mishaps' # {}
        BY <1>0, <2>1, <2>2, <2>3 DEF MirrorInv, Away
    <2>4. CASE mishaps' = {} /\ mishaps' = mishaps
        BY <1>0, <2>1, <2>2, <2>4 DEF MirrorInv, Away, At, Announced
    <2> QED BY <2>1, <2>3, <2>4
<1>4. CASE AddMirror(m)
    <2> DEFINE new == [by |-> m, of |-> 0, state |-> "live"]
    <2>1. /\ pc'[m] = <<"idle">> /\ At(m, "add") /\ UNCHANGED <<mirrors, mishaps>>
          /\ txs' = txs \cup {new}
        BY <1>4 DEF AddMirror, Goto, chainVars
    <2>2. ~Away(m) /\ Away(m)'
        BY <2>1 DEF Away, At
    <2>3. \A n \in Mirrors : Away(n)'
        BY <1>0, <2>2 DEF MirrorInv, Away
    <2>4. mishaps = {} => Announced' = {new} /\ mirrors = 0
        BY <2>1 DEF MirrorInv, Announced
    <2>5. \A t \in txs' : t \in txs \/ t.state = "live"
        BY <2>1
    <2> QED BY <1>0, <2>1, <2>3, <2>4, <2>5 DEF MirrorInv, Away, At
<1>5. CASE NoMirror(m)
    <2>1. /\ pc'[m] = <<"idle">> /\ UNCHANGED <<txs, mirrors, mishaps>>
        BY <1>5 DEF NoMirror, Steps, Goto, chainVars
    <2> QED BY <1>0, <2>1 DEF MirrorInv, Away, At, Announced
<1> QED BY <1>1, <1>2, <1>3, <1>4, <1>5 DEF MirrorStep

\* Once the wallet forgot a live transaction nothing more is claimed.
LEMMA MirrorDelete ==
    ASSUME Typed, MirrorInv, NEW a \in Actors, DeleteUnconfirmed(a)
    PROVE  MirrorInv'
<1>1. Deletes(a)
    BY DeleteSteps
<1>2. a \notin Mirrors
    BY PushConstants DEF DeleteUnconfirmed, GoOn
<1>3. \A m \in Mirrors : pc'[m] = pc[m]
    BY <1>1, <1>2 DEF Deletes, Typed, Actors
<1>4. mishaps' = {} => txs' \subseteq txs /\ mishaps = {}
    BY <1>1 DEF Deletes
<1>5. mirrors' = mirrors
    BY <1>1 DEF Deletes
<1>6. txs' \subseteq txs => Announced' \subseteq Announced
    BY DEF Announced
<1> QED BY <1>3, <1>4, <1>5, <1>6 DEF MirrorInv, Away, At

LEMMA MirrorNetwork ==
    ASSUME Typed, MirrorInv, NEW t \in txs, Confirm(t) \/ Reject(t)
    PROVE  MirrorInv'
<1>1. CASE Confirm(t)
    <2>1. txs' = txs \ {t} /\ UNCHANGED <<pc, mishaps>>
        BY <1>1 DEF Confirm
    <2>2. Announced' = Announced \ {t}
        BY <2>1 DEF Announced
    <2>3. CASE t.by \in Mirrors
        <3>1. mirrors' = mirrors + 1
            BY <1>1, <2>3, PushConstants DEF Confirm, ConfirmUpdate, ConfirmOther
        <3>2. mishaps = {} => t \in Announced
            BY <1>1, <2>3 DEF Confirm, MirrorInv, Announced, Typed
        <3> QED BY <2>1, <2>2, <3>1, <3>2 DEF MirrorInv, Away, At
    <2>4. CASE t.by \notin Mirrors
        <3>1. mirrors' = mirrors
            BY <1>1, <2>4 DEF Confirm, ConfirmUpdate, ConfirmOther
        <3> QED BY <2>1, <2>2, <3>1 DEF MirrorInv, Away, At
    <2> QED BY <2>3, <2>4
<1>2. CASE Reject(t)
    <2>1. /\ txs' \subseteq (txs \ {t}) \cup {[t EXCEPT !.state = "rejected"]}
          /\ UNCHANGED <<pc, mishaps, mirrors>>
        BY <1>2 DEF Reject, chainVars
    <2>2. [t EXCEPT !.state = "rejected"].state = "rejected"
        BY DEF Typed
    <2>3. Announced' \subseteq Announced
        BY <2>1, <2>2 DEF Announced
    <2>4. (\A u \in txs : u.state # "lost") => (\A u \in txs' : u.state # "lost")
        BY <2>1, <2>2
    <2> QED BY <2>1, <2>3, <2>4 DEF MirrorInv, Away, At
<1> QED BY <1>1, <1>2

LEMMA MirrorNext ==
    ASSUME Typed, MirrorInv, [Next]_vars
    PROVE  MirrorInv'
<1>1. ASSUME NEW a \in Actors, Acts(a)
      PROVE  MirrorInv'
    <2>1. CASE a \notin Mirrors
        BY <1>1, <2>1, ActsIsStep, MirrorOthers
    <2>2. CASE a \in Mirrors
        <3>1. ~Health(a) /\ ~HealthFails(a) /\ ~DeleteFails(a)
            BY <2>2 DEF MirrorInv, Health, HealthFails, DeleteFails, At
        <3> QED BY <1>1, <2>2, <3>1, MirrorOwn, PushConstants DEF Acts
    <2> QED BY <2>1, <2>2
<1>2. ASSUME NEW a \in Actors, DeleteUnconfirmed(a)
      PROVE  MirrorInv'
    BY <1>2, MirrorDelete
<1>3. ASSUME NEW t \in txs, Confirm(t) \/ Reject(t)
      PROVE  MirrorInv'
    BY <1>3, MirrorNetwork
<1>4. CASE Crash
    <2>1. \A m \in Mirrors : pc'[m] = <<"idle">> \/ (pc'[m] = pc[m] /\ At(m, "off"))
        BY <1>4, PushConstants DEF Crash, Actors
    <2>2. \A m \in Mirrors : pc'[m][1] \in {"off", "idle"}
        BY <2>1 DEF At
    <2>3. UNCHANGED <<txs, mirrors, mishaps>>
        BY <1>4 DEF Crash, chainVars
    <2> QED BY <2>2, <2>3 DEF MirrorInv, Away, At, Announced
<1>5. CASE UNCHANGED vars
    BY <1>5 DEF vars, MirrorInv, Away, At, Announced, chainVars
<1> QED BY <1>1, <1>2, <1>3, <1>4, <1>5, NextSteps

\* "prevent duplicates from concurrent callers": as long as the wallet answered
\* every question and no transaction was deleted, however many callers announce
\* the mirror of a store, whatever else runs beside them and wherever the process
\* restarts, there is one mirror on the chain or on its way there.
THEOREM MirrorMadeOnce == Spec => []OneMirror
<1>1. Init => Typed /\ MirrorInv
    BY TypedInit, MirrorInit
<1>2. Typed /\ MirrorInv /\ [Next]_vars => (Typed /\ MirrorInv)'
    BY TypedNext, MirrorNext
<1>3. Typed /\ MirrorInv => OneMirror
    <2> SUFFICES ASSUME MirrorInv, mishaps = {}
                 PROVE  mirrors + Cardinality(Announced) <= 1
        BY DEF OneMirror, Announced
    <2>1. Cardinality(Announced) \in {0, 1} /\ (Announced = {} => Cardinality(Announced) = 0)
        BY AtMostOne DEF MirrorInv
    <2> QED BY <2>1 DEF MirrorInv
<1> QED BY <1>1, <1>2, <1>3, PTL DEF Spec

-----------------------------------------------------------------------------
(* A root that was seen twice is dead *)

\* Somebody has staged root r and is about to create its transaction.
InWork(r) == \E q \in Pushes : pc[q] = <<"staged", r>>

\* The wallet can still publish root r.
Publishable(r) == \E t \in txs : t.by \in Pushes /\ t.of = r /\ t.state = "live"

\* A push that meets its root again has left it the time in between; a root is
\* never staged twice.
SeenInv ==
    /\ staged \in Seq(Pushes)
    /\ root \in 0 .. Len(staged)
    /\ DOMAIN seen = Pushes
    /\ \A p \in Pushes :
          /\ seen[p][1] \in 0 .. Len(staged)
          /\ At(p, "staged") => pc[p] = <<"staged", pc[p][2]>> /\ pc[p][2] \in 1 .. Len(staged)
          /\ seen[p][2] = 2 => ~InWork(seen[p][1])
          /\ At(p, "grace") /\ root # 0 /\ root = seen[p][1] => pc[p][2] = root
          /\ (At(p, "wait") \/ At(p, "call")) /\ root # 0 /\ root = seen[p][1] =>
                ~InWork(root)
          /\ At(p, "clear") /\ seen[p][2] = 2 => ~Publishable(seen[p][1])

LEMMA SeenInit == Init => SeenInv
<1> SUFFICES ASSUME Init PROVE SeenInv
    OBVIOUS
<1>1. \A p \in Pushes : pc[p][1] \in {"off", "check"} /\ seen[p] = <<0, 0>>
    BY DEF Init, Actors, First
<1>2. staged \in Seq(Pushes) /\ Len(staged) = 0 /\ root = 0 /\ DOMAIN seen = Pushes
    BY DEF Init
<1> QED BY <1>1, <1>2 DEF SeenInv, At

\* New transactions publish roots that were in work, or none.
NoRootRevives ==
    \A t \in txs' : t \in txs \/ t.state # "live" \/ t.by \notin Pushes \/ InWork(t.of)

\* A push moves on and stages nothing.
LEMMA SeenByStep ==
    ASSUME Typed, SeenInv, NEW a \in Pushes, NEW step,
           pc' = [pc EXCEPT ![a] = step], UNCHANGED <<root, staged, seen>>, NoRootRevives,
           step[1] # "staged",
           step[1] = "grace" => step[2] = root,
           step[1] \in {"wait", "call"} /\ root # 0 /\ root = seen[a][1] => ~InWork(root),
           step[1] = "clear" => ~Publishable(seen[a][1])'
    PROVE  SeenInv'
<1>1. pc'[a] = step /\ \A p \in Pushes : p # a => pc'[p] = pc[p]
    BY DEF Typed, Actors
<1>2. \A r : InWork(r)' => InWork(r)
    BY <1>1 DEF InWork
<1>3. \A r : Publishable(r)' => Publishable(r) \/ InWork(r)
    BY DEF Publishable, NoRootRevives
<1>4. ASSUME NEW p \in Pushes
      PROVE  /\ seen'[p][1] \in 0 .. Len(staged')
             /\ At(p, "staged")' =>
                   pc'[p] = <<"staged", pc'[p][2]>> /\ pc'[p][2] \in 1 .. Len(staged')
             /\ seen'[p][2] = 2 => ~InWork(seen[p][1])'
             /\ At(p, "grace")' /\ root' # 0 /\ root' = seen'[p][1] => pc'[p][2] = root'
             /\ (At(p, "wait") \/ At(p, "call"))' /\ root' # 0 /\ root' = seen'[p][1] =>
                   ~InWork(root)'
             /\ At(p, "clear")' /\ seen'[p][2] = 2 => ~Publishable(seen[p][1])'
    <2>1. CASE p = a
        BY <1>1, <1>2, <2>1 DEF SeenInv, At
    <2>2. CASE p # a
        BY <1>1, <1>2, <1>3, <2>2 DEF SeenInv, At
    <2> QED BY <2>1, <2>2
<1> QED BY <1>4 DEF SeenInv

\* Nothing that concerns pushes happens but to transactions.
LEMMA SeenByOthers ==
    ASSUME Typed, SeenInv, \A p \in Pushes : pc'[p] = pc[p],
           UNCHANGED <<root, staged, seen>>, NoRootRevives
    PROVE  SeenInv'
<1>1. \A r : InWork(r)' <=> InWork(r)
    BY DEF InWork
<1>2. \A r : Publishable(r)' => Publishable(r) \/ InWork(r)
    BY DEF Publishable, NoRootRevives
<1> QED BY <1>1, <1>2 DEF SeenInv, At

LEMMA SeenPush ==
    ASSUME Typed, SeenInv, NEW p \in Pushes, PushStep(p) \/ PushTrouble(p)
    PROVE  SeenInv'
<1> /\ p \in Actors /\ p \in DOMAIN pc /\ p \in DOMAIN seen
    BY DEF Actors, Typed, SeenInv
<1>k. txs' = txs => NoRootRevives
    BY DEF NoRootRevives
<1>r. /\ Len(staged) \in Nat /\ root \in Nat
      /\ \A q \in Pushes : seen[q][1] \in 0 .. Len(staged)
    BY DEF SeenInv
<1>n. ASSUME NextTry(p), UNCHANGED <<root, staged, seen>>, NoRootRevives
      PROVE  SeenInv'
    <2>1. PICK step \in {<<"check">>, <<"failed">>} : pc' = [pc EXCEPT ![p] = step]
        BY <1>n DEF NextTry
    <2>2. step[1] \in {"check", "failed"}
        BY <2>1
    <2> QED BY <1>n, <2>1, <2>2, SeenByStep
<1>g. ASSUME GiveGrace(p), UNCHANGED <<root, staged, seen, txs>>
      PROVE  SeenInv'
    <2>1. CASE NextTry(p)
        BY <1>g, <1>k, <1>n, <2>1
    <2>2. CASE Goto(p, <<"grace", root>>)
        BY <1>g, <1>k, <2>2, SeenByStep DEF Goto
    <2> QED BY <1>g, <2>1, <2>2 DEF GiveGrace
<1>1. CASE PushReady(p)
    <2>1. /\ pc' = [pc EXCEPT ![p] = <<"wait">>] /\ seen' = [seen EXCEPT ![p] = <<0, 0>>]
          /\ UNCHANGED <<root, staged, txs>>
        BY <1>1 DEF PushReady, Goto, storeVars
    <2>2. \A q \in Pushes : q # p => pc'[q] = pc[q] /\ seen'[q] = seen[q]
        BY <2>1 DEF Typed, Actors, SeenInv
    <2>3. pc'[p] = <<"wait">> /\ seen'[p] = <<0, 0>>
        BY <2>1
    <2>4. \A r : InWork(r)' => InWork(r)
        BY <2>2, <2>3 DEF InWork
    <2>5. \A r : Publishable(r)' <=> Publishable(r)
        BY <2>1 DEF Publishable
    <2>6. DOMAIN seen' = Pushes
        BY <2>1 DEF SeenInv
    <2> QED BY <1>r, <2>1, <2>2, <2>3, <2>4, <2>5, <2>6 DEF SeenInv, At
<1>2. CASE PushNotReady(p)
    <2>1. UNCHANGED <<root, staged, seen, txs>>
        BY <1>2 DEF PushNotReady, storeVars
    <2>2. NextTry(p) \/ Goto(p, <<"health", "xch", TRUE>>)
        BY <1>2 DEF PushNotReady
    <2> QED BY <1>k, <1>n, <2>1, <2>2, SeenByStep DEF Goto
<1>3. CASE PushWaits(p)
    <2>1. At(p, "wait") /\ pc' = [pc EXCEPT ![p] = <<"call">>]
          /\ UNCHANGED <<root, staged, seen, txs>>
        BY <1>3 DEF PushWaits, Goto, storeVars
    <2>2. root # 0 /\ root = seen[p][1] => ~InWork(root)
        BY <2>1 DEF SeenInv
    <2> QED BY <1>k, <2>1, <2>2, SeenByStep
<1>4. CASE SeesPendingRoot(p)
    <2> DEFINE n == IF seen[p][1] = root THEN 2 ELSE 1
    <2>1. /\ At(p, "call") /\ root # 0 /\ pc' = [pc EXCEPT ![p] = <<"settle">>]
          /\ seen' = [seen EXCEPT ![p] = <<root, n>>]
          /\ UNCHANGED <<root, staged, txs>>
        BY <1>4 DEF SeesPendingRoot, Goto, storeVars
    <2>2. \A q \in Pushes : q # p => pc'[q] = pc[q] /\ seen'[q] = seen[q]
        BY <2>1 DEF Typed, Actors, SeenInv
    <2>3. pc'[p] = <<"settle">> /\ seen'[p] = <<root, n>>
        BY <2>1
    <2>4. \A r : InWork(r)' => InWork(r)
        BY <2>2, <2>3 DEF InWork
    <2>5. \A r : Publishable(r)' <=> Publishable(r)
        BY <2>1 DEF Publishable
    <2>6. n = 2 => ~InWork(root)
        BY <2>1 DEF SeenInv
    <2>7. DOMAIN seen' = Pushes
        BY <2>1 DEF SeenInv
    <2> QED BY <1>r, <2>1, <2>2, <2>3, <2>4, <2>5, <2>6, <2>7 DEF SeenInv, At
<1>5. CASE AlreadyPresent(p)
    BY <1>5, <1>k, SeenByStep DEF AlreadyPresent, Steps, Goto, storeVars
<1>6. CASE StageRoot(p)
    <2> DEFINE r0 == Len(staged) + 1
    <2>1. /\ staged' = Append(staged, p) /\ UNCHANGED <<seen, txs>> /\ root' = Len(staged')
          /\ pc' = [pc EXCEPT ![p] = <<"staged", root'>>]
        BY <1>6 DEF StageRoot, Goto
    <2>2. staged' \in Seq(Pushes) /\ Len(staged') = r0 /\ root' = r0
        BY <2>1 DEF SeenInv
    <2>3. pc'[p] = <<"staged", r0>> /\ \A q \in Pushes : q # p => pc'[q] = pc[q]
        BY <2>1, <2>2 DEF Typed, Actors
    <2>4. \A r : r # r0 /\ InWork(r)' => InWork(r)
        BY <2>3 DEF InWork
    <2>5. \A r : Publishable(r)' <=> Publishable(r)
        BY <2>1 DEF Publishable
    <2>6. \A q \in Pushes : seen'[q] = seen[q] /\ seen[q][1] # r0
        BY <1>r, <2>1
    <2>7. \A q \in Pushes :
             /\ seen'[q][1] \in 0 .. Len(staged')
             /\ At(q, "staged")' =>
                   pc'[q] = <<"staged", pc'[q][2]>> /\ pc'[q][2] \in 1 .. Len(staged')
        BY <1>r, <2>2, <2>3, <2>6 DEF SeenInv, At
    <2>8. root' \in 0 .. Len(staged') /\ DOMAIN seen' = Pushes
        BY <1>r, <2>1, <2>2 DEF SeenInv
    <2> QED BY <2>2, <2>3, <2>4, <2>5, <2>6, <2>7, <2>8 DEF SeenInv, At
<1>7. CASE CreateTransaction(p) \/ PushFails(p)
    <2>1. At(p, "staged") /\ UNCHANGED <<root, staged, seen>> /\ (txs' = txs \/ Publishes(p))
        BY <1>7 DEF CreateTransaction, PushFails, storeVars
    <2>2. Publishes(p) => NoRootRevives
        <3> SUFFICES ASSUME Publishes(p), NEW t \in txs', t \notin txs, t.state = "live",
                            t.by \in Pushes
                     PROVE  InWork(t.of)
            BY DEF NoRootRevives
        <3>1. t.of = pc[p][2]
            BY DEF Publishes
        <3>2. pc[p] = <<"staged", pc[p][2]>>
            BY <2>1 DEF SeenInv, At
        <3> QED BY <3>1, <3>2 DEF InWork
    <2>3. NextTry(p) \/ Goto(p, <<"ok">>)
        BY <1>7 DEF CreateTransaction, PushFails
    <2> QED BY <1>k, <1>n, <2>1, <2>2, <2>3, SeenByStep DEF Goto
<1>8. CASE GraceIsOver(p)
    <2>1. /\ At(p, "grace") /\ ~InWork(pc[p][2]) /\ pc' = [pc EXCEPT ![p] = <<"wait">>]
          /\ UNCHANGED <<root, staged, seen, txs>>
        BY <1>8 DEF GraceIsOver, InWork, Steps, Goto, storeVars
    <2>2. root # 0 /\ root = seen[p][1] => ~InWork(root)
        BY <2>1 DEF SeenInv
    <2> QED BY <1>k, <2>1, <2>2, SeenByStep
<1>9. CASE PendingRootSettles(p)
    <2>1. UNCHANGED <<root, staged, seen, txs>>
        BY <1>9 DEF PendingRootSettles, storeVars
    <2>2. GiveGrace(p) \/ Goto(p, <<"ask">>)
        BY <1>9 DEF PendingRootSettles
    <2> QED BY <1>g, <1>k, <2>1, <2>2, SeenByStep DEF Goto
<1>10. CASE ClearsOrphan(p)
    <2>1. /\ Live = {} /\ pc' = [pc EXCEPT ![p] = <<"clear">>]
          /\ UNCHANGED <<root, staged, seen, txs>>
        BY <1>10 DEF ClearsOrphan, Steps, Goto, storeVars
    <2>2. ~Publishable(seen[p][1])'
        BY <2>1 DEF Publishable, Live
    <2> QED BY <1>k, <2>1, <2>2, SeenByStep
<1>11. CASE LeavesRoot(p)
    BY <1>11, <1>g DEF LeavesRoot, storeVars
<1>12. CASE ClearPendingRoots(p)
    <2>1. /\ root' = 0 /\ pc' = [pc EXCEPT ![p] = <<"wait">>]
          /\ UNCHANGED <<staged, seen, txs>>
        BY <1>12 DEF ClearPendingRoots, Goto
    <2>2. pc'[p] = <<"wait">> /\ \A q \in Pushes : q # p => pc'[q] = pc[q]
        BY <2>1 DEF Typed, Actors
    <2>3. \A r : InWork(r)' => InWork(r)
        BY <2>2 DEF InWork
    <2>4. \A r : Publishable(r)' <=> Publishable(r)
        BY <2>1 DEF Publishable
    <2> QED BY <1>r, <2>1, <2>2, <2>3, <2>4 DEF SeenInv, At
<1>13. CASE PushDropped(p)
    BY <1>13, <1>k, SeenByStep DEF PushDropped, Goto, storeVars
<1>14. CASE PushDisowned(p)
    BY <1>14, <1>k, SeenByStep DEF PushDisowned, Goto, storeVars
<1> QED BY <1>1, <1>2, <1>3, <1>4, <1>5, <1>6, <1>7, <1>8, <1>9, <1>10, <1>11,
           <1>12, <1>13, <1>14 DEF PushStep, PushTrouble

LEMMA SeenOthers ==
    ASSUME Typed, SeenInv, NEW a \in Actors, a \notin Pushes, Acts(a)
    PROVE  SeenInv'
<1>1. StepOf(a)
    BY ActsIsStep
<1>2. \A p \in Pushes : pc'[p] = pc[p]
    BY <1>1 DEF StepOf, Typed, Actors
<1>3. NoRootRevives
    BY <1>1 DEF StepOf, NoRootRevives
<1>4. CASE MirrorStep(a)
    BY <1>2, <1>3, <1>4, SeenByOthers DEF MirrorStep, StartMirror, MirrorSettles,
       LookForMirror, AddMirror, NoMirror, Steps, storeVars
<1>5. CASE CreatorStep(a)
    BY <1>2, <1>3, <1>5, SeenByOthers DEF CreatorStep, CreatorSettles, CreateStore,
       StoreConfirmed, StoreRejected, StoreFails, Steps, storeVars
<1>6. CASE SplitterStep(a)
    BY <1>2, <1>3, <1>6, SeenByOthers DEF SplitterStep, StartCycle, SplitCoins, SplitFails,
       storeVars
<1>7. CASE Health(a) \/ HealthFails(a) \/ DeleteFails(a)
    BY <1>2, <1>3, <1>7, SeenByOthers DEF Health, HealthFails, DeleteFails, storeVars
<1> QED BY <1>4, <1>5, <1>6, <1>7 DEF Acts

LEMMA SeenWallet ==
    ASSUME Typed, SeenInv, NEW p \in Pushes,
           Health(p) \/ HealthFails(p) \/ DeleteFails(p) \/ DeleteUnconfirmed(p)
    PROVE  SeenInv'
<1> p \in Actors /\ p \notin Creators /\ p \notin Splitters
    BY PushConstants DEF Actors
<1>1. UNCHANGED <<root, staged, seen>>
    BY DEF Health, HealthFails, DeleteFails, DeleteUnconfirmed, storeVars
<1>2. NoRootRevives
    <2>1. CASE DeleteUnconfirmed(p)
        <3>1. \A u \in txs' : u \in txs \/ \E t \in txs : u = [t EXCEPT !.state = "lost"]
            BY <2>1, DeleteSteps DEF Deletes
        <3> QED BY <3>1 DEF NoRootRevives, Typed
    <2>2. CASE Health(p) \/ HealthFails(p) \/ DeleteFails(p)
        BY <2>2, HealthSteps DEF NoRootRevives
    <2> QED BY <2>1, <2>2
<1>3. \/ pc' = [pc EXCEPT ![p] = <<"check">>] \/ pc' = [pc EXCEPT ![p] = <<"failed">>]
      \/ \E w, s : pc' = [pc EXCEPT ![p] = <<"health", w, s>>]
      \/ \E w, s : pc' = [pc EXCEPT ![p] = <<"delete", w, s>>]
    <2>1. ASSUME NEW w, NEW d, NEW s, GoOn(p, w, d, s)
          PROVE  NextTry(p) \/ pc' = [pc EXCEPT ![p] = <<"health", "dl", s>>]
        BY <2>1 DEF GoOn, Goto
    <2>2. NextTry(p) => \/ pc' = [pc EXCEPT ![p] = <<"check">>]
                        \/ pc' = [pc EXCEPT ![p] = <<"failed">>]
        BY DEF NextTry
    <2>3. CASE Health(p)
        <3> DEFINE idle == pc[p][3] /\ ~(In(pc[p][2], "live") # {})
        <3>1. \/ pc' = [pc EXCEPT ![p] = <<"delete", pc[p][2], pc[p][3]>>]
              \/ NextTry(p)
              \/ pc' = [pc EXCEPT ![p] = <<"health", "dl", idle>>]
            BY <2>3 DEF Health, Goto, GoOn
        <3> HIDE DEF idle
        <3> QED BY <3>1, <2>2
    <2>4. CASE HealthFails(p)
        BY <2>4, <2>2 DEF HealthFails
    <2>5. CASE DeleteFails(p)
        BY <2>5, <2>1, <2>2 DEF DeleteFails
    <2>6. CASE DeleteUnconfirmed(p)
        BY <2>6, <2>1, <2>2 DEF DeleteUnconfirmed
    <2> QED BY <2>3, <2>4, <2>5, <2>6
<1>4. CASE pc' = [pc EXCEPT ![p] = <<"check">>] \/ pc' = [pc EXCEPT ![p] = <<"failed">>]
    BY <1>1, <1>2, <1>4, SeenByStep
<1>5. ASSUME NEW w, NEW s, pc' = [pc EXCEPT ![p] = <<"health", w, s>>]
      PROVE  SeenInv'
    BY <1>1, <1>2, <1>5, SeenByStep
<1>6. ASSUME NEW w, NEW s, pc' = [pc EXCEPT ![p] = <<"delete", w, s>>]
      PROVE  SeenInv'
    BY <1>1, <1>2, <1>6, SeenByStep
<1> QED BY <1>3, <1>4, <1>5, <1>6

\* A confirmation takes the root away or leaves it.
LEMMA SeenConfirm ==
    ASSUME Typed, SeenInv, NEW t \in txs, Confirm(t)
    PROVE  SeenInv'
<1>1. UNCHANGED <<pc, staged, seen>> /\ txs' \subseteq txs /\ root' \in {0, root}
    BY DEF Confirm, ConfirmUpdate, ConfirmOther, storeVars
<1>2. \A r : InWork(r)' <=> InWork(r)
    BY <1>1 DEF InWork
<1>3. \A r : Publishable(r)' => Publishable(r)
    BY <1>1 DEF Publishable
<1>4. root' \in 0 .. Len(staged)
    BY <1>1 DEF SeenInv
<1> QED BY <1>1, <1>2, <1>3, <1>4 DEF SeenInv, At

LEMMA SeenNext ==
    ASSUME Typed, SeenInv, [Next]_vars
    PROVE  SeenInv'
<1>1. ASSUME NEW a \in Actors, Acts(a) \/ DeleteUnconfirmed(a)
      PROVE  SeenInv'
    <2>1. CASE a \in Pushes
        BY <1>1, <2>1, SeenPush, SeenWallet, PushConstants DEF Acts
    <2>2. CASE a \notin Pushes /\ Acts(a)
        BY <2>2, SeenOthers
    <2>3. CASE a \notin Pushes /\ DeleteUnconfirmed(a)
        <3>1. Deletes(a)
            BY <2>3, DeleteSteps
        <3>2. \A p \in Pushes : pc'[p] = pc[p]
            BY <2>3, <3>1 DEF Deletes, Typed, Actors
        <3>3. \A u \in txs' : u \in txs \/ \E t \in txs : u = [t EXCEPT !.state = "lost"]
            BY <3>1 DEF Deletes
        <3>4. NoRootRevives
            BY <3>3 DEF NoRootRevives, Typed
        <3>5. UNCHANGED <<root, staged, seen>>
            BY <2>3 DEF DeleteUnconfirmed, storeVars
        <3> QED BY <3>2, <3>4, <3>5, SeenByOthers
    <2> QED BY <1>1, <2>1, <2>2, <2>3
<1>2. ASSUME NEW t \in txs, Reject(t)
      PROVE  SeenInv'
    <2>1. /\ txs' \subseteq txs \cup {[t EXCEPT !.state = "rejected"]}
          /\ UNCHANGED <<pc, root, staged, seen>>
        BY <1>2 DEF Reject, storeVars
    <2>2. NoRootRevives
        BY <2>1 DEF NoRootRevives, Typed
    <2> QED BY <2>1, <2>2, SeenByOthers
<1>3. CASE Crash
    <2>1. \A p \in Pushes : \/ pc'[p] = <<"dropped">>
                            \/ pc'[p] = pc[p] /\ pc[p][1] \in {"off", "ok"}
        BY <1>3, PushConstants DEF Crash, Actors
    <2>2. UNCHANGED <<root, staged, seen, txs>>
        BY <1>3 DEF Crash, storeVars
    <2>3. \A p \in Pushes : pc'[p][1] \in {"dropped", "off", "ok"}
        BY <2>1
    <2>4. \A r : ~InWork(r)'
        BY <2>3 DEF InWork
    <2> QED BY <2>2, <2>3, <2>4 DEF SeenInv, At
<1>4. CASE UNCHANGED vars
    <2>1. UNCHANGED <<pc, root, staged, seen, txs>>
        BY <1>4 DEF vars, storeVars
    <2> QED BY <2>1, SeenByOthers DEF NoRootRevives
<1> QED BY <1>1, <1>2, <1>3, <1>4, SeenConfirm, NextSteps

\* "Dropping the root is only safe once the wallet is known to be settled": a push
\* that clears a root it saw twice in a row drops nothing the network could still
\* publish.  The wallet was found empty of transactions that can confirm before
\* the clear, and between the two sightings the push waited until whoever staged
\* the root had created its transaction, or failed to.
THEOREM SeenRootDead == Spec => SeenRootIsDead
<1>1. Init => Typed /\ SeenInv
    BY TypedInit, SeenInit
<1>2. Typed /\ SeenInv /\ [Next]_vars => (Typed /\ SeenInv)'
    BY TypedNext, SeenNext
<1>3. Typed /\ SeenInv /\ [Next]_vars =>
        [\A p \in Pushes :
           At(p, "clear") /\ root # 0 /\ root' = 0 /\ pc'[p] = <<"wait">>
             /\ seen[p] = <<root, 2>> => ~Alive(root)]_vars
    <2> SUFFICES ASSUME SeenInv, NEW p \in Pushes, At(p, "clear"), seen[p] = <<root, 2>>
                 PROVE  ~Alive(root)
        OBVIOUS
    <2>1. ~InWork(root) /\ ~Publishable(root)
        BY DEF SeenInv
    <2> QED BY <2>1 DEF Alive, InWork, Publishable
<1> QED BY <1>1, <1>2, <1>3, PTL DEF Spec, SeenRootIsDead

-----------------------------------------------------------------------------
(* Types and the attempts of a push *)

\* A push that is about to call has an attempt left, one that saw a pending root
\* has used one: the clear gives that one back.
AttemptsInv ==
    /\ attempts \in [Pushes -> 0 .. MaxAttempts]
    /\ \A p \in Pushes :
          /\ pc[p][1] \in {"wait", "call", "grace"} => attempts[p] < MaxAttempts
          /\ pc[p][1] \in {"settle", "ask", "clear"} => attempts[p] > 0

\* A push retries, and a creation tries, as often as the code lets it.
TriesInv ==
    /\ tries \in [Pushes \cup Creators -> Nat]
    /\ \A p \in Pushes : tries[p] <= MaxRetries
    /\ \A c \in Creators : tries[c] < MaxStores

\* The store's roots and what pushes remember of them.
RootsInv ==
    /\ sightings \in [Pushes -> 0 .. 2] /\ cleared \in [Pushes -> BOOLEAN]
    /\ staged \in Seq(Pushes) /\ root \in 0 .. Len(staged)
    /\ published \subseteq Pushes
    /\ seen \in [Pushes -> (0 .. Len(staged)) \X (0 .. 2)]

RecordsInv ==
    /\ txs \subseteq Transaction
    /\ \A p \in Pushes : pc[p][1] = "staged" => pc[p][2] \in Nat
    /\ mishaps \subseteq {"unanswered", "lost"}
    /\ faults \in 0 .. MaxFaults

PushTypes == AttemptsInv /\ TriesInv /\ RootsInv /\ RecordsInv

\* An actor that goes on to a step, and the attempts it has left there.
LEMMA GoesTo ==
    ASSUME Typed, NEW a \in Actors, NEW step, Goto(a, step)
    PROVE  /\ pc'[a] = step
           /\ \A x \in Actors : x # a => pc'[x] = pc[x]
BY DEF Typed, Goto

\* A fault is counted up to its bound.
LEMMA FaultCounts ==
    ASSUME RecordsInv, Fault \/ UNCHANGED faults
    PROVE  faults' \in 0 .. MaxFaults
BY PushConstants DEF RecordsInv, Fault

\* Retries of a push stop at MaxRetries.
LEMMA NextTryCounts ==
    ASSUME Typed, TriesInv, NEW p \in Pushes, NextTry(p)
    PROVE  /\ TriesInv'
           /\ pc'[p] \in {<<"check">>, <<"failed">>}
           /\ \A x \in Actors : x # p => pc'[x] = pc[x]
<1>1. p \in Actors /\ p \notin Creators /\ MaxRetries \in Nat
    BY PushConstants DEF Actors
<1>2. pc'[p] \in {<<"check">>, <<"failed">>} /\ \A x \in Actors : x # p => pc'[x] = pc[x]
    BY <1>1 DEF NextTry, Typed
<1>3. tries' = [tries EXCEPT ![p] = IF tries[p] < MaxRetries THEN tries[p] + 1 ELSE tries[p]]
    BY DEF NextTry
<1>4. TriesInv'
    BY <1>1, <1>3 DEF TriesInv
<1> QED BY <1>2, <1>4

\* Where a push goes on counts its attempts; the other pushes stay where they are.
LEMMA AttemptsOf ==
    ASSUME AttemptsInv, NEW a \in Actors,
           \A x \in Actors : x # a => pc'[x] = pc[x],
           attempts' \in [Pushes -> 0 .. MaxAttempts],
           \A x \in Pushes : x # a => attempts'[x] = attempts[x],
           a \in Pushes =>
               /\ pc'[a][1] \in {"wait", "call", "grace"} => attempts'[a] < MaxAttempts
               /\ pc'[a][1] \in {"settle", "ask", "clear"} => attempts'[a] > 0
    PROVE  AttemptsInv'
BY DEF AttemptsInv, Actors

LEMMA PushAttempts ==
    ASSUME Typed, PushTypes, NEW p \in Pushes, PushStep(p) \/ PushTrouble(p)
    PROVE  AttemptsInv'
<1>u. /\ p \in Actors /\ MaxAttempts \in Nat \ {0}
      /\ attempts \in [Pushes -> 0 .. MaxAttempts] /\ attempts[p] \in 0 .. MaxAttempts
      /\ pc[p][1] \in {"wait", "call", "grace"} => attempts[p] < MaxAttempts
      /\ pc[p][1] \in {"settle", "ask", "clear"} => attempts[p] > 0
    BY PushConstants DEF PushTypes, AttemptsInv, Actors
<1>s. AttemptsInv /\ TriesInv
    BY DEF PushTypes
\* A step that counts no attempt: to a place where none are looked at, to one as
\* strict as the one before, or to a later attempt.
<1>k. ASSUME UNCHANGED attempts,
             \/ NextTry(p)
             \/ \E step : /\ Goto(p, step)
                          /\ step[1] \in {"wait", "call", "grace"} => attempts[p] < MaxAttempts
                          /\ step[1] \in {"settle", "ask", "clear"} => attempts[p] > 0
      PROVE  AttemptsInv'
    <2>1. CASE NextTry(p)
        <3>1. /\ pc'[p] \in {<<"check">>, <<"failed">>}
              /\ \A x \in Actors : x # p => pc'[x] = pc[x]
            BY <1>s, <2>1, NextTryCounts
        <3>2. pc'[p][1] \in {"check", "failed"}
            BY <3>1
        <3> QED BY <1>k, <1>u, <1>s, <3>1, <3>2, AttemptsOf
    <2>2. CASE ~NextTry(p)
        <3>1. PICK step : /\ Goto(p, step)
                          /\ step[1] \in {"wait", "call", "grace"} => attempts[p] < MaxAttempts
                          /\ step[1] \in {"settle", "ask", "clear"} => attempts[p] > 0
            BY <1>k, <2>2
        <3>2. pc'[p] = step /\ \A x \in Actors : x # p => pc'[x] = pc[x]
            BY <1>u, <3>1, GoesTo
        <3> QED BY <1>k, <1>u, <1>s, <3>1, <3>2, AttemptsOf
    <2> QED BY <2>1, <2>2
<1> USE DEF At, Steps, pushVars
<1>1. CASE PushReady(p)
    <2>1. attempts' = [attempts EXCEPT ![p] = 0] /\ Goto(p, <<"wait">>)
        BY <1>1 DEF PushReady
    <2>2. pc'[p] = <<"wait">> /\ \A x \in Actors : x # p => pc'[x] = pc[x]
        BY <1>u, <2>1, GoesTo
    <2> QED BY <1>u, <1>s, <2>1, <2>2, AttemptsOf
<1>2. CASE SeesPendingRoot(p)
    <2>1. /\ attempts' = [attempts EXCEPT ![p] = @ + 1] /\ Goto(p, <<"settle">>)
          /\ attempts[p] < MaxAttempts
        BY <1>2, <1>u DEF SeesPendingRoot
    <2>2. pc'[p] = <<"settle">> /\ \A x \in Actors : x # p => pc'[x] = pc[x]
        BY <1>u, <2>1, GoesTo
    <2>3. attempts' \in [Pushes -> 0 .. MaxAttempts] /\ attempts'[p] = attempts[p] + 1
          /\ \A x \in Pushes : x # p => attempts'[x] = attempts[x]
        BY <1>u, <2>1
    <2> QED BY <1>u, <1>s, <2>2, <2>3, AttemptsOf
<1>3. CASE ClearPendingRoots(p)
    <2>1. /\ attempts' = [attempts EXCEPT ![p] = @ - 1] /\ Goto(p, <<"wait">>)
          /\ attempts[p] > 0
        BY <1>3, <1>u DEF ClearPendingRoots
    <2>2. pc'[p] = <<"wait">> /\ \A x \in Actors : x # p => pc'[x] = pc[x]
        BY <1>u, <2>1, GoesTo
    <2>3. attempts' \in [Pushes -> 0 .. MaxAttempts] /\ attempts'[p] = attempts[p] - 1
          /\ \A x \in Pushes : x # p => attempts'[x] = attempts[x]
        BY <1>u, <2>1
    <2> QED BY <1>u, <1>s, <2>2, <2>3, AttemptsOf
<1>4. CASE PushNotReady(p) \/ PushDropped(p) \/ PushFails(p)
    <2>1. UNCHANGED attempts
        BY <1>4 DEF PushNotReady, PushDropped, PushFails
    <2>2. NextTry(p) \/ Goto(p, <<"health", "xch", TRUE>>) \/ Goto(p, <<"dropped">>)
        BY <1>4 DEF PushNotReady, PushDropped, PushFails
    <2>3. <<"health", "xch", TRUE>>[1] = "health" /\ <<"dropped">>[1] = "dropped"
        OBVIOUS
    <2> QED BY <1>k, <2>1, <2>2, <2>3
<1>5. CASE PushWaits(p) \/ GraceIsOver(p) \/ ClearsOrphan(p)
    <2>1. UNCHANGED attempts
        BY <1>5 DEF PushWaits, GraceIsOver, ClearsOrphan
    <2>2. \/ Goto(p, <<"call">>) /\ pc[p][1] = "wait"
          \/ Goto(p, <<"wait">>) /\ pc[p][1] = "grace"
          \/ Goto(p, <<"clear">>) /\ pc[p][1] = "ask"
        BY <1>5 DEF PushWaits, GraceIsOver, ClearsOrphan
    <2>3. \A name : <<name>>[1] = name
        OBVIOUS
    <2> QED BY <1>k, <1>u, <2>1, <2>2, <2>3
<1>6. CASE AlreadyPresent(p) \/ CreateTransaction(p) \/ PushDisowned(p)
    <2>1. UNCHANGED attempts /\ (Goto(p, <<"ok">>) \/ Goto(p, <<"disowned">>))
        BY <1>6 DEF AlreadyPresent, CreateTransaction, PushDisowned
    <2>2. \A name : <<name>>[1] = name
        OBVIOUS
    <2> QED BY <1>k, <2>1, <2>2
<1>7. CASE StageRoot(p)
    <2>1. UNCHANGED attempts /\ Goto(p, <<"staged", root'>>)
        BY <1>7 DEF StageRoot
    <2> QED BY <1>k, <2>1
<1>8. CASE PendingRootSettles(p) \/ LeavesRoot(p)
    <2>1. UNCHANGED attempts /\ pc[p][1] \in {"settle", "ask", "clear"}
          /\ (Goto(p, <<"ask">>) \/ GiveGrace(p))
        BY <1>8 DEF PendingRootSettles, LeavesRoot
    <2>2. CASE Goto(p, <<"ask">>)
        BY <1>k, <1>u, <2>1, <2>2
    <2>3. CASE GiveGrace(p) /\ attempts[p] < MaxAttempts
        <3>1. Goto(p, <<"grace", root>>)
            BY <2>3 DEF GiveGrace
        <3> QED BY <1>k, <2>1, <2>3, <3>1
    <2>4. CASE GiveGrace(p) /\ ~(attempts[p] < MaxAttempts)
        BY <1>k, <2>1, <2>4 DEF GiveGrace
    <2> QED BY <2>1, <2>2, <2>3, <2>4
<1> QED BY <1>1, <1>2, <1>3, <1>4, <1>5, <1>6, <1>7, <1>8 DEF PushStep, PushTrouble

\* A step of the wallet's questions: where its actor goes, no attempt is counted.
LEMMA WalletGoes ==
    ASSUME Typed, TriesInv, NEW a \in Actors,
           Health(a) \/ HealthFails(a) \/ DeleteFails(a) \/ DeleteUnconfirmed(a)
    PROVE  /\ UNCHANGED <<attempts, sightings, cleared, staged, root, published, seen>>
           /\ \A x \in Actors : x # a => pc'[x] = pc[x]
           /\ a \in Pushes => pc'[a][1] \in {"check", "failed", "health", "delete"}
           /\ TriesInv'
<1>1. UNCHANGED <<attempts, sightings, cleared, staged, root, published, seen>>
    BY DEF Health, HealthFails, DeleteFails, DeleteUnconfirmed, storeVars
<1>2. \/ \E w, b : Goto(a, <<"delete", w, b>>) /\ UNCHANGED tries
      \/ \E w, d, b : GoOn(a, w, d, b)
      \/ a \in Pushes /\ NextTry(a)
      \/ a \notin Pushes /\ \E step : Goto(a, step) /\ UNCHANGED tries
    BY PushConstants DEF Health, HealthFails, DeleteFails, DeleteUnconfirmed
<1>3. \/ a \in Pushes /\ NextTry(a)
      \/ \E w, b : Goto(a, <<"delete", w, b>>) /\ UNCHANGED tries
      \/ \E w, b : Goto(a, <<"health", w, b>>) /\ UNCHANGED tries
      \/ a \notin Pushes /\ \E step : Goto(a, step) /\ UNCHANGED tries
    BY <1>2, PushConstants DEF GoOn
<1>4. CASE a \in Pushes /\ NextTry(a)
    <2>1. /\ TriesInv' /\ pc'[a] \in {<<"check">>, <<"failed">>}
          /\ \A x \in Actors : x # a => pc'[x] = pc[x]
        BY <1>4, NextTryCounts
    <2>2. pc'[a][1] \in {"check", "failed"}
        BY <2>1
    <2> QED BY <1>1, <2>1, <2>2
<1>5. ASSUME UNCHANGED tries PROVE TriesInv'
    BY <1>5 DEF TriesInv
<1>6. ASSUME NEW w, NEW b, NEW name \in {"health", "delete"}, Goto(a, <<name, w, b>>)
      PROVE  /\ \A x \in Actors : x # a => pc'[x] = pc[x]
             /\ pc'[a][1] \in {"health", "delete"}
    BY <1>6, GoesTo
<1>7. ASSUME NEW step, Goto(a, step)
      PROVE  \A x \in Actors : x # a => pc'[x] = pc[x]
    BY <1>7, GoesTo
<1> QED BY <1>1, <1>3, <1>4, <1>5, <1>6, <1>7

LEMMA AttemptsNext ==
    ASSUME Typed, PushTypes, [Next]_vars
    PROVE  AttemptsInv'
<1>s. AttemptsInv /\ TriesInv /\ Pushes \subseteq Actors
    BY DEF PushTypes, Actors
<1>1. ASSUME NEW p \in Pushes, PushStep(p) \/ PushTrouble(p) PROVE AttemptsInv'
    BY <1>1, PushAttempts
<1>2. ASSUME NEW a \in Actors, Health(a) \/ HealthFails(a) \/ DeleteFails(a) \/ DeleteUnconfirmed(a)
      PROVE  AttemptsInv'
    <2>1. /\ UNCHANGED attempts
          /\ \A x \in Actors : x # a => pc'[x] = pc[x]
          /\ a \in Pushes => pc'[a][1] \in {"check", "failed", "health", "delete"}
        BY <1>s, <1>2, WalletGoes
    <2>2. attempts' \in [Pushes -> 0 .. MaxAttempts]
        BY <1>s, <2>1 DEF AttemptsInv
    <2> QED BY <1>s, <2>1, <2>2, AttemptsOf
<1>3. ASSUME NEW a \in Actors, a \notin Pushes, StepOf(a), UNCHANGED attempts PROVE AttemptsInv'
    <2>1. \A x \in Pushes : pc'[x] = pc[x]
        BY <1>s, <1>3 DEF StepOf, Typed
    <2> QED BY <1>s, <1>3, <2>1 DEF AttemptsInv
<1>4. ASSUME NEW a \in Mirrors, MirrorStep(a) PROVE AttemptsInv'
    <2>1. UNCHANGED attempts
        BY <1>4 DEF MirrorStep, StartMirror, MirrorSettles, LookForMirror, AddMirror, NoMirror,
           Steps, pushVars
    <2> QED BY <1>3, <1>4, <2>1, MirrorSteps, PushConstants DEF Actors
<1>5. ASSUME NEW a \in Creators, CreatorStep(a) PROVE AttemptsInv'
    <2>1. UNCHANGED attempts
        BY <1>5 DEF CreatorStep, CreatorSettles, CreateStore, StoreConfirmed, StoreRejected,
           StoreFails, Steps, pushVars
    <2> QED BY <1>3, <1>5, <2>1, CreatorSteps, PushConstants DEF Actors
<1>6. ASSUME NEW a \in Splitters, SplitterStep(a) PROVE AttemptsInv'
    <2>1. UNCHANGED attempts
        BY <1>6 DEF SplitterStep, StartCycle, SplitCoins, SplitFails, pushVars
    <2> QED BY <1>3, <1>6, <2>1, SplitterSteps, PushConstants DEF Actors
<1>7. ASSUME NEW t \in txs, Confirm(t) \/ Reject(t) PROVE AttemptsInv'
    BY <1>s, <1>7 DEF Confirm, Reject, AttemptsInv, pushVars
<1>8. CASE Crash
    <2>1. UNCHANGED attempts
        BY <1>8 DEF Crash, pushVars
    <2>2. \A p \in Pushes : pc'[p][1] \in {"off", "ok", "dropped"}
        BY <1>8, <1>s, PushConstants DEF Crash
    <2> QED BY <1>s, <2>1, <2>2 DEF AttemptsInv
<1>9. CASE UNCHANGED vars
    BY <1>s, <1>9 DEF vars, pushVars, AttemptsInv
<1> QED BY <1>1, <1>2, <1>4, <1>5, <1>6, <1>7, <1>8, <1>9, NextSteps DEF Acts

LEMMA TriesNext ==
    ASSUME Typed, PushTypes, [Next]_vars
    PROVE  TriesInv'
<1>s. TriesInv
    BY DEF PushTypes
<1>k. ASSUME UNCHANGED tries PROVE TriesInv'
    BY <1>s, <1>k DEF TriesInv
<1>1. ASSUME NEW p \in Pushes, PushStep(p) \/ PushTrouble(p) PROVE TriesInv'
    <2>1. NextTry(p) \/ UNCHANGED tries
        BY <1>1 DEF PushStep, PushTrouble, PushReady, PushNotReady, PushWaits, SeesPendingRoot,
           AlreadyPresent, StageRoot, CreateTransaction, GraceIsOver, PendingRootSettles,
           ClearsOrphan, LeavesRoot, ClearPendingRoots, PushDropped, PushFails, PushDisowned,
           GiveGrace, Steps, pushVars
    <2> QED BY <1>s, <1>k, <2>1, NextTryCounts
<1>2. ASSUME NEW a \in Actors, Health(a) \/ HealthFails(a) \/ DeleteFails(a) \/ DeleteUnconfirmed(a)
      PROVE  TriesInv'
    BY <1>s, <1>2, WalletGoes
<1>3. ASSUME NEW a \in Mirrors, MirrorStep(a) PROVE TriesInv'
    BY <1>k, <1>3 DEF MirrorStep, StartMirror, MirrorSettles, LookForMirror, AddMirror, NoMirror,
       Steps, pushVars
<1>4. ASSUME NEW c \in Creators, CreatorStep(c) PROVE TriesInv'
    <2>1. CASE UNCHANGED tries
        BY <1>k, <2>1
    <2>2. CASE StoreRejected(c) /\ tries[c] + 1 < MaxStores
        <3>1. tries' = [tries EXCEPT ![c] = @ + 1]
            BY <2>2 DEF StoreRejected
        <3>2. c \notin Pushes
            BY PushConstants
        <3> QED BY <1>s, <2>2, <3>1, <3>2 DEF TriesInv
    <2> QED BY <1>4, <2>1, <2>2 DEF CreatorStep, CreatorSettles, CreateStore, StoreConfirmed,
            StoreRejected, StoreFails, Steps, pushVars
<1>5. ASSUME NEW k \in Splitters, SplitterStep(k) PROVE TriesInv'
    BY <1>k, <1>5 DEF SplitterStep, StartCycle, SplitCoins, SplitFails, pushVars
<1>6. ASSUME NEW t \in txs, Confirm(t) \/ Reject(t) PROVE TriesInv'
    BY <1>k, <1>6 DEF Confirm, Reject, pushVars
<1>7. CASE Crash \/ UNCHANGED vars
    BY <1>k, <1>7 DEF Crash, vars, pushVars
<1> QED BY <1>1, <1>2, <1>3, <1>4, <1>5, <1>6, <1>7, NextSteps DEF Acts

LEMMA RootsNext ==
    ASSUME Typed, PushTypes, [Next]_vars
    PROVE  RootsInv'
<1>s. RootsInv /\ Len(staged) \in Nat
    BY DEF PushTypes, RootsInv
<1>k. ASSUME UNCHANGED <<sightings, cleared, staged, root, published, seen>> PROVE RootsInv'
    BY <1>s, <1>k DEF RootsInv
<1>1. ASSUME NEW p \in Pushes, PushStep(p) \/ PushTrouble(p) PROVE RootsInv'
    <2>1. CASE PushReady(p)
        <3>1. /\ sightings' = [sightings EXCEPT ![p] = 0] /\ cleared' = [cleared EXCEPT ![p] = FALSE]
              /\ seen' = [seen EXCEPT ![p] = <<0, 0>>]
              /\ UNCHANGED <<staged, root, published>>
            BY <2>1 DEF PushReady, storeVars
        <3> QED BY <1>s, <3>1 DEF RootsInv
    <2>2. CASE SeesPendingRoot(p)
        <3>1. /\ sightings' = [sightings EXCEPT ![p] = Least(sightings[p] + 1, 2)]
              /\ seen' = [seen EXCEPT ![p] = <<root, IF seen[p][1] = root THEN 2 ELSE 1>>]
              /\ UNCHANGED <<cleared, staged, root, published>>
            BY <2>2 DEF SeesPendingRoot, storeVars
        <3>2. Least(sightings[p] + 1, 2) \in 0 .. 2
            BY <1>s DEF RootsInv, Least
        <3> QED BY <1>s, <3>1, <3>2 DEF RootsInv
    <2>3. CASE StageRoot(p)
        <3>1. /\ staged' = Append(staged, p) /\ root' = Len(staged')
              /\ UNCHANGED <<sightings, cleared, published, seen>>
            BY <2>3 DEF StageRoot, pushVars
        <3>2. staged' \in Seq(Pushes) /\ Len(staged') = Len(staged) + 1
            BY <1>s, <3>1, AppendProperties DEF RootsInv
        <3>3. (0 .. Len(staged)) \X (0 .. 2) \subseteq (0 .. Len(staged')) \X (0 .. 2)
            BY <1>s, <3>2
        <3> QED BY <1>s, <3>1, <3>2, <3>3 DEF RootsInv
    <2>4. CASE ClearPendingRoots(p)
        <3>1. /\ root' = 0 /\ cleared' = [cleared EXCEPT ![p] = TRUE]
              /\ UNCHANGED <<sightings, staged, published, seen>>
            BY <2>4 DEF ClearPendingRoots
        <3> QED BY <1>s, <3>1 DEF RootsInv
    <2> QED BY <1>1, <1>k, <2>1, <2>2, <2>3, <2>4 DEF PushStep, PushTrouble, PushNotReady,
           PushWaits, AlreadyPresent, CreateTransaction, GraceIsOver, PendingRootSettles,
           ClearsOrphan, LeavesRoot, PushDropped, PushFails, PushDisowned, Steps, pushVars, storeVars
<1>2. ASSUME NEW a \in Actors, Health(a) \/ HealthFails(a) \/ DeleteFails(a) \/ DeleteUnconfirmed(a)
      PROVE  RootsInv'
    BY <1>k, <1>2, WalletGoes DEF PushTypes
<1>3. ASSUME NEW a \in Mirrors, MirrorStep(a) PROVE RootsInv'
    BY <1>k, <1>3 DEF MirrorStep, StartMirror, MirrorSettles, LookForMirror, AddMirror, NoMirror,
       Steps, pushVars, storeVars
<1>4. ASSUME NEW c \in Creators, CreatorStep(c) PROVE RootsInv'
    BY <1>k, <1>4 DEF CreatorStep, CreatorSettles, CreateStore, StoreConfirmed, StoreRejected,
       StoreFails, Steps, pushVars, storeVars
<1>5. ASSUME NEW k \in Splitters, SplitterStep(k) PROVE RootsInv'
    BY <1>k, <1>5 DEF SplitterStep, StartCycle, SplitCoins, SplitFails, pushVars, storeVars
<1>6. ASSUME NEW t \in txs, Confirm(t) PROVE RootsInv'
    <2>1. UNCHANGED <<sightings, cleared, staged, seen>>
        BY <1>6 DEF Confirm, ConfirmUpdate, ConfirmOther, pushVars, storeVars
    <2>2. root' \in {0, root} /\ published' \subseteq Pushes
        BY <1>6, <1>s DEF Confirm, ConfirmUpdate, ConfirmOther, storeVars, RootsInv
    <2> QED BY <1>s, <2>1, <2>2 DEF RootsInv
<1>7. ASSUME NEW t \in txs, Reject(t) PROVE RootsInv'
    BY <1>k, <1>7 DEF Reject, pushVars, storeVars
<1>8. CASE Crash \/ UNCHANGED vars
    BY <1>k, <1>8 DEF Crash, vars, pushVars, storeVars
<1> QED BY <1>1, <1>2, <1>3, <1>4, <1>5, <1>6, <1>7, <1>8, NextSteps DEF Acts

LEMMA RecordsNext ==
    ASSUME Typed, PushTypes, SplitInv, [Next]_vars
    PROVE  RecordsInv'
<1>s. RecordsInv /\ TriesInv /\ Pushes \subseteq Actors /\ planned \in Nat
    BY DEF PushTypes, Actors, SplitInv
<1>f. \A b : b = "unanswered" => mishaps \cup {b} \subseteq {"unanswered", "lost"}
    BY <1>s DEF RecordsInv
<1>1. ASSUME NEW p \in Pushes, PushStep(p) \/ PushTrouble(p) PROVE RecordsInv'
    <2>1. /\ p \in Actors /\ \A x \in Actors : x # p => pc'[x] = pc[x]
        BY <1>s, <1>1, PushSteps DEF StepOf, Typed
    <2>2. mishaps' \in {mishaps, mishaps \cup {"unanswered"}} /\ (Fault \/ UNCHANGED faults)
        BY <1>1 DEF PushStep, PushTrouble, PushReady, PushNotReady, PushWaits, SeesPendingRoot,
           AlreadyPresent, StageRoot, CreateTransaction, GraceIsOver, PendingRootSettles,
           ClearsOrphan, LeavesRoot, ClearPendingRoots, PushDropped, PushFails, PushDisowned,
           Settles, Unanswered, Steps
    <2>3. mishaps' \subseteq {"unanswered", "lost"} /\ faults' \in 0 .. MaxFaults
        BY <1>s, <2>2, FaultCounts DEF RecordsInv
    <2>4. txs' \subseteq Transaction
        <3>1. \/ UNCHANGED txs
              \/ pc[p][1] = "staged" /\ Publishes(p)
            BY <1>1 DEF PushStep, PushTrouble, PushReady, PushNotReady, PushWaits,
               SeesPendingRoot, AlreadyPresent, StageRoot, CreateTransaction, GraceIsOver,
               PendingRootSettles, ClearsOrphan, LeavesRoot, ClearPendingRoots, PushDropped,
               PushFails, PushDisowned, Steps, At
        <3> QED BY <1>s, <2>1, <3>1 DEF RecordsInv, Publishes, Transaction
    <2>5. pc'[p][1] = "staged" => pc'[p][2] \in Nat
        <3>1. CASE StageRoot(p)
            <4>1. Goto(p, <<"staged", root'>>) /\ root' = Len(staged') /\ staged' = Append(staged, p)
                BY <3>1 DEF StageRoot
            <4>2. pc'[p] = <<"staged", root'>>
                BY <4>1, <2>1, GoesTo
            <4>3. root' \in Nat
                BY <4>1, AppendProperties DEF PushTypes, RootsInv
            <4> QED BY <4>2, <4>3
        <3>2. ASSUME NEW step, Goto(p, step), step[1] # "staged" PROVE pc'[p][1] # "staged"
            BY <2>1, <3>2, GoesTo
        <3>3. CASE NextTry(p)
            <4>1. pc'[p] \in {<<"check">>, <<"failed">>}
                BY <1>s, <3>3, NextTryCounts
            <4> QED BY <4>1
        <3>4. CASE ~StageRoot(p) /\ ~NextTry(p)
            <4>1. \/ \E name \in {"wait", "call", "settle", "ok", "ask", "clear", "dropped",
                                  "disowned"} : Goto(p, <<name>>)
                  \/ Goto(p, <<"health", "xch", TRUE>>) \/ Goto(p, <<"grace", root>>)
                BY <1>1, <3>4 DEF PushStep, PushTrouble, PushReady, PushNotReady, PushWaits,
                   SeesPendingRoot, AlreadyPresent, CreateTransaction, GraceIsOver,
                   PendingRootSettles, ClearsOrphan, LeavesRoot, ClearPendingRoots, PushDropped,
                   PushFails, PushDisowned, Steps, GiveGrace
            <4>2. /\ \A name : <<name>>[1] = name
                  /\ <<"health", "xch", TRUE>>[1] = "health" /\ <<"grace", root>>[1] = "grace"
                OBVIOUS
            <4> QED BY <3>2, <4>1, <4>2
        <3> QED BY <3>1, <3>3, <3>4
    <2>6. \A x \in Pushes : pc'[x][1] = "staged" => pc'[x][2] \in Nat
        BY <1>s, <2>1, <2>5 DEF RecordsInv
    <2> QED BY <2>3, <2>4, <2>6 DEF RecordsInv
<1>2. ASSUME NEW a \in Actors, Health(a) \/ HealthFails(a) \/ DeleteFails(a) \/ DeleteUnconfirmed(a)
      PROVE  RecordsInv'
    <2>1. \A x \in Pushes : pc'[x][1] = "staged" => pc'[x][2] \in Nat
        <3>1. /\ \A x \in Actors : x # a => pc'[x] = pc[x]
              /\ a \in Pushes => pc'[a][1] \in {"check", "failed", "health", "delete"}
            BY <1>s, <1>2, WalletGoes
        <3> QED BY <1>s, <3>1 DEF RecordsInv
    <2>2. /\ mishaps' \in {mishaps, mishaps \cup {"lost"}} /\ (Fault \/ UNCHANGED faults)
        BY <1>2 DEF Health, HealthFails, DeleteFails, DeleteUnconfirmed
    <2>3. mishaps' \subseteq {"unanswered", "lost"} /\ faults' \in 0 .. MaxFaults
        BY <1>s, <2>2, FaultCounts DEF RecordsInv
    <2>4. txs' \subseteq Transaction
        <3>1. CASE DeleteUnconfirmed(a)
            <4>1. \A u \in txs' : u \in txs \/ \E t \in txs : u = [t EXCEPT !.state = "lost"]
                BY <3>1, DeleteSteps DEF Deletes
            <4>2. \A t \in Transaction : [t EXCEPT !.state = "lost"] \in Transaction
                BY DEF Transaction
            <4> QED BY <1>s, <4>1, <4>2 DEF RecordsInv
        <3>2. CASE ~DeleteUnconfirmed(a)
            BY <1>s, <1>2, <3>2, HealthSteps DEF RecordsInv
        <3> QED BY <3>1, <3>2
    <2> QED BY <2>1, <2>3, <2>4 DEF RecordsInv
\* The other actors: their transactions name an attempt or a number of coins.
<1>3. ASSUME NEW a \in Actors, a \notin Pushes, StepOf(a),
             mishaps' \in {mishaps, mishaps \cup {"unanswered"}}, Fault \/ UNCHANGED faults,
             \/ UNCHANGED txs
             \/ \E n \in Nat : txs' = txs \cup {[by |-> a, of |-> n, state |-> "live"]}
      PROVE  RecordsInv'
    <2>1. \A x \in Pushes : pc'[x] = pc[x]
        BY <1>s, <1>3 DEF StepOf, Typed
    <2>2. mishaps' \subseteq {"unanswered", "lost"} /\ faults' \in 0 .. MaxFaults
        BY <1>s, <1>3, FaultCounts DEF RecordsInv
    <2>3. \A n \in Nat : [by |-> a, of |-> n, state |-> "live"] \in Transaction
        BY DEF Transaction
    <2> QED BY <1>s, <1>3, <2>1, <2>2, <2>3 DEF RecordsInv
<1>4. ASSUME NEW a \in Mirrors, MirrorStep(a) PROVE RecordsInv'
    <2>1. /\ mishaps' \in {mishaps, mishaps \cup {"unanswered"}} /\ (Fault \/ UNCHANGED faults)
          /\ \/ UNCHANGED txs
             \/ txs' = txs \cup {[by |-> a, of |-> 0, state |-> "live"]}
        BY <1>4 DEF MirrorStep, StartMirror, MirrorSettles, LookForMirror, AddMirror, NoMirror,
           Settles, Unanswered, Steps
    <2> QED BY <1>3, <1>4, <2>1, MirrorSteps, PushConstants DEF Actors
<1>5. ASSUME NEW c \in Creators, CreatorStep(c) PROVE RecordsInv'
    <2>1. /\ mishaps' \in {mishaps, mishaps \cup {"unanswered"}} /\ (Fault \/ UNCHANGED faults)
          /\ \/ UNCHANGED txs
             \/ txs' = txs \cup {[by |-> c, of |-> tries[c], state |-> "live"]}
        BY <1>5 DEF CreatorStep, CreatorSettles, CreateStore, StoreConfirmed, StoreRejected,
           StoreFails, Settles, Unanswered, Steps
    <2>2. tries[c] \in Nat
        BY DEF Typed
    <2> QED BY <1>3, <1>5, <2>1, <2>2, CreatorSteps, PushConstants DEF Actors
<1>6. ASSUME NEW k \in Splitters, SplitterStep(k) PROVE RecordsInv'
    <2>1. /\ UNCHANGED mishaps /\ (Fault \/ UNCHANGED faults)
          /\ \/ UNCHANGED txs
             \/ txs' = txs \cup {[by |-> k, of |-> planned, state |-> "live"]}
        BY <1>6 DEF SplitterStep, StartCycle, SplitCoins, SplitFails
    <2> QED BY <1>s, <1>3, <1>6, <2>1, SplitterSteps, PushConstants DEF Actors
<1>7. ASSUME NEW t \in txs, Confirm(t) PROVE RecordsInv'
    BY <1>s, <1>7 DEF Confirm, RecordsInv
<1>8. ASSUME NEW t \in txs, Reject(t) PROVE RecordsInv'
    <2>1. /\ txs' \subseteq txs \cup {[t EXCEPT !.state = "rejected"]}
          /\ UNCHANGED <<pc, mishaps>> /\ (Fault \/ UNCHANGED faults)
        BY <1>8 DEF Reject
    <2>2. t \in Transaction => [t EXCEPT !.state = "rejected"] \in Transaction
        BY DEF Transaction
    <2> QED BY <1>s, <2>1, <2>2, FaultCounts DEF RecordsInv
<1>9. CASE Crash
    <2>1. UNCHANGED <<txs, mishaps>> /\ Fault
        BY <1>9 DEF Crash
    <2>2. \A p \in Pushes : pc'[p][1] \in {"off", "ok", "dropped"}
        BY <1>9, <1>s, PushConstants DEF Crash
    <2> QED BY <1>s, <2>1, <2>2, FaultCounts DEF RecordsInv
<1>10. CASE UNCHANGED vars
    BY <1>s, <1>10 DEF vars, RecordsInv
<1> QED BY <1>1, <1>2, <1>4, <1>5, <1>6, <1>7, <1>8, <1>9, <1>10, NextSteps DEF Acts

\* All variables keep their types.  In particular a push makes no more than
\* maxAttempts attempts, although clearing a pending root gives one back, and
\* retries no more than MAX_PUSH_RETRIES times (pushChangeListToDataLayer,
\* pushChangesWhenStoreIsAvailable).
THEOREM TypeCorrect == Spec => []TypeOK
<1>1. Init => Typed /\ SplitInv /\ PushTypes
    <2>1. Init => AttemptsInv /\ TriesInv
        BY PushConstants DEF Init, AttemptsInv, TriesInv, MaxStores, First, Actors
    <2>2. Init => RootsInv /\ RecordsInv
        <3>1. <<>> \in Seq(Pushes) /\ Len(<<>>) = 0
            OBVIOUS
        <3>2. \A p \in Pushes : <<"check">>[1] # "staged" /\ <<"off">>[1] # "staged"
            OBVIOUS
        <3> QED BY <3>1, <3>2, PushConstants DEF Init, RootsInv, RecordsInv, First, Actors
    <2> QED BY <2>1, <2>2, TypedInit, SplitInit DEF PushTypes
<1>2. Typed /\ SplitInv /\ PushTypes /\ [Next]_vars => (Typed /\ SplitInv /\ PushTypes)'
    BY TypedNext, SplitNext, AttemptsNext, TriesNext, RootsNext, RecordsNext DEF PushTypes
<1>3. Typed /\ SplitInv /\ PushTypes => TypeOK
    <2> SUFFICES ASSUME Typed, SplitInv, PushTypes PROVE TypeOK
        OBVIOUS
    <2>1. tries \in [Pushes \cup Creators -> 0 .. MaxRetries + MaxStores]
        BY PushConstants DEF PushTypes, TriesInv, MaxStores
    <2> QED BY <2>1 DEF TypeOK, Typed, SplitInv, PushTypes, AttemptsInv, RootsInv, RecordsInv
<1> QED BY <1>1, <1>2, <1>3, PTL DEF Spec
=============================================================================
