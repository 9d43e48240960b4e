----------------------------- MODULE CoinSplit -----------------------------
(***************************************************************************)
(* How coin management (tasks/coin-management.js) splits the wallet's      *)
(* largest coin so that several operations can each spend one of their     *)
(* own.  Amounts are in mojos.                                             *)
(***************************************************************************)
EXTENDS Integers

CONSTANTS
    MinUsable,  \* MIN_USABLE_COIN_SIZE: what one operation costs with its fee
    CoinSize,   \* size of the coins a split makes
    SplitFee,   \* fee of the split
    LowWater,   \* LOW_WATER_MARK: split only below this many usable coins
    Target      \* TARGET_COIN_COUNT

ASSUME CoinConstants ==
    /\ MinUsable \in Nat \ {0} /\ SplitFee \in Nat
    /\ CoinSize \in Nat /\ CoinSize >= MinUsable   \* resolveCoinSize
    /\ LowWater \in Nat /\ Target \in Nat

Least(a, b)    == IF a < b THEN a ELSE b
Greatest(a, b) == IF a < b THEN b ELSE a

\* Coins the largest coin can pay for, up to what is missing.
Affordable(usable, largest) ==
    IF largest < SplitFee THEN 0
    ELSE Least(Greatest(Target, LowWater) - usable, (largest - SplitFee) \div CoinSize)

\* The change of a split of the largest coin into n.
Remainder(largest, n) == largest - (n * CoinSize + SplitFee)

\* Change below CoinSize would be swept up by the wallet's dust filter: one coin
\* is given up for it.
Rounded(n, largest) ==
    IF Remainder(largest, n) \in 1 .. CoinSize - 1 THEN n - 1 ELSE n

\* Mutant: one coin without change is worth a split too.
SplitAnyway(usable, largest) ==
    LET n == Affordable(usable, largest)
    IN  IF usable >= LowWater \/ n < 1 THEN 0 ELSE Rounded(n, largest)

\* planCoinSplit: into how many coins the largest one is split, 0 for no split.
PlanCoinSplit(usable, largest) ==
    LET n == Affordable(usable, largest)
        netGain == n > 1 \/ Remainder(largest, n) > 0
    IN  IF usable >= LowWater \/ n < 1 \/ ~netGain THEN 0 ELSE Rounded(n, largest)
=============================================================================
