-------------------------- MODULE LockerMathProofs --------------------------
(***************************************************************************)
(* What the arithmetic of LockerMath bounds, for every rate, amount and    *)
(* word width; and at the end, what the sums of module Sums are: for every *)
(* finite set, SumOver counts the single units of the balances, and so     *)
(* changes with a balance by as much as the balance does.                  *)
(***************************************************************************)
EXTENDS LockerMath, Sums, FiniteSetTheorems, WellFoundedInduction, TLAPS

\* Integer division of naturals rounds down.
LEMMA DivFloor ==
    ASSUME NEW a \in Nat, NEW d \in Nat \ {0}
    PROVE  /\ a \div d \in Nat
           /\ d * (a \div d) <= a
           /\ a < d * (a \div d) + d
  BY SMT

\* A quotient is at most q when the dividend is at most d times q.
LEMMA DivAtMost ==
    ASSUME NEW a \in Nat, NEW d \in Nat \ {0}, NEW q \in Nat, a <= d * q
    PROVE  a \div d <= q
  BY SMT

\* A remainder is at most the dividend.
LEMMA ModAtMost ==
    ASSUME NEW a \in Nat, NEW d \in Nat \ {0}
    PROVE  a % d \in Nat /\ a % d <= a
<1>1. a % d \in Nat
  BY SMT
<1>2. CASE a < d
  BY <1>2, SMT
<1>3. CASE a >= d
  BY <1>3, SMT
<1> QED
  BY <1>1, <1>2, <1>3

\* Multiplication by a natural is monotone.
LEMMA MulMono ==
    ASSUME NEW a \in Nat, NEW b \in Nat, NEW c \in Nat, a <= b
    PROVE  /\ a * c \in Nat /\ b * c \in Nat
           /\ a * c <= b * c /\ c * a <= c * b
  BY SMT

-----------------------------------------------------------------------------
\* SaturatingSub and MinOf on naturals.
LEMMA SaturatingSubBounds ==
    ASSUME NEW a \in Nat, NEW b \in Nat
    PROVE  /\ SaturatingSub(a, b) \in Nat
           /\ SaturatingSub(a, b) <= a
           /\ a <= SaturatingSub(a, b) + b
           /\ a >= b => SaturatingSub(a, b) = a - b
           /\ SaturatingSub(a, b) > 0 => SaturatingSub(a, b) = a - b
  BY DEF SaturatingSub

LEMMA MinOfBounds ==
    ASSUME NEW a \in Nat, NEW b \in Nat
    PROVE  MinOf(a, b) \in Nat /\ MinOf(a, b) <= a /\ MinOf(a, b) <= b
  BY DEF MinOf

\* split_fee never takes more than there is, and loses nothing: whatever the
\* gross amount, fee and payout are naturals that add up to it.
THEOREM SplitFeeExact ==
    ASSUME NEW gross \in Nat, NEW bps \in Nat, bps <= BPS_DENOMINATOR
    PROVE  /\ FeeOf(gross, bps) \in Nat
           /\ PayoutOf(gross, bps) \in Nat
           /\ FeeOf(gross, bps) + PayoutOf(gross, bps) = gross
<1>1. BPS_DENOMINATOR \in Nat \ {0}
  BY MathAssumption
<1>2. /\ gross * bps \in Nat
      /\ gross * bps <= BPS_DENOMINATOR * gross
  BY <1>1, MulMono
<1>3. FeeOf(gross, bps) \in Nat /\ FeeOf(gross, bps) <= gross
  BY <1>1, <1>2, DivFloor, DivAtMost DEF FeeOf
<1> QED
  BY <1>3 DEF PayoutOf

\* The fee of one claim is at most the share m of it when the rate is.
LEMMA FeeShare ==
    ASSUME NEW gross \in Nat, NEW bps \in Nat, NEW m \in Nat, bps <= m
    PROVE  FeeOf(gross, bps) * BPS_DENOMINATOR <= m * gross
<1>1. BPS_DENOMINATOR \in Nat \ {0}
  BY MathAssumption
<1>2. gross * bps \in Nat /\ gross * bps <= gross * m
  BY MulMono
<1>3. /\ FeeOf(gross, bps) \in Nat
      /\ BPS_DENOMINATOR * FeeOf(gross, bps) <= gross * bps
  BY <1>1, <1>2, DivFloor DEF FeeOf
<1> QED
  BY <1>1, <1>2, <1>3

\* bonus_for returns a natural, whatever the lock.
LEMMA BonusNat ==
    ASSUME NEW r, r.amount \in Nat, r.bonus_bps \in Nat, r.boosted_amount \in Nat,
           NEW payout \in Nat
    PROVE  BonusFor(r, payout) \in Nat
<1>1. CASE ~EarnsBonus(r)
  BY <1>1 DEF BonusFor
<1>2. CASE EarnsBonus(r)
  <2>1. r.amount # 0
    BY <1>2 DEF EarnsBonus
  <2>2. BPS_DENOMINATOR * r.amount \in Nat \ {0}
    BY <2>1, MathAssumption
  <2>3. payout * r.bonus_bps * r.boosted_amount \in Nat
    OBVIOUS
  <2>4. (payout * r.bonus_bps * r.boosted_amount)
            \div (BPS_DENOMINATOR * r.amount) \in Nat
    BY <2>2, <2>3, DivFloor
  <2>5. \A n \in Nat : n % U64 \in Nat
    BY MathAssumption
  <2> QED
    BY <1>2, <2>4, <2>5 DEF BonusFor
<1> QED
  BY <1>1, <1>2

\* A lock that has no more boosted than locked earns at most bonus_bps of the
\* payout: neither the rounding nor the truncation to u64 adds anything.
THEOREM BonusAtMostRate ==
    ASSUME NEW r, r.amount \in Nat, r.bonus_bps \in Nat, r.boosted_amount \in Nat,
           r.boosted_amount <= r.amount, NEW payout \in Nat
    PROVE  BonusFor(r, payout) * BPS_DENOMINATOR <= r.bonus_bps * payout
<1> DEFINE top == payout * r.bonus_bps
           q   == (top * r.boosted_amount) \div (BPS_DENOMINATOR * r.amount)
<1>1. top \in Nat /\ BPS_DENOMINATOR \in Nat \ {0}
  BY MathAssumption
<1>2. CASE ~EarnsBonus(r)
  BY <1>1, <1>2 DEF BonusFor
<1>3. CASE EarnsBonus(r)
  <2>1. r.amount \in Nat \ {0}
    BY <1>3 DEF EarnsBonus
  <2>2. BPS_DENOMINATOR * r.amount \in Nat \ {0}
    BY <1>1, <2>1
  <2>3. /\ top * r.boosted_amount \in Nat
        /\ top * r.boosted_amount <= top * r.amount
    BY <1>1, MulMono
  <2> DEFINE d == BPS_DENOMINATOR * r.amount
             n == top * r.boosted_amount
  <2>4. q \in Nat /\ (BPS_DENOMINATOR * r.amount) * q <= top * r.amount
    <3>1. n \in Nat /\ d \in Nat \ {0} /\ q = n \div d
      BY <2>2, <2>3
    <3> HIDE DEF n, d, q
    <3>2. q \in Nat /\ d * q <= n
      BY <3>1, DivFloor
    <3>3. n <= top * r.amount
      BY <2>3 DEF n
    <3>4. d * q \in Nat /\ top * r.amount \in Nat
      BY <1>1, <3>1, <3>2
    <3> QED
      BY <3>1, <3>2, <3>3, <3>4 DEF d
  <2>5. r.amount * (q * BPS_DENOMINATOR) <= r.amount * top
    BY <1>1, <2>1, <2>4
  <2>6. q * BPS_DENOMINATOR <= top
    BY <1>1, <2>1, <2>4, <2>5
  <2>7. q % U64 \in Nat /\ q % U64 <= q
    <3> HIDE DEF q
    <3> QED
      BY <2>4, MathAssumption, ModAtMost
  <2>8. (q % U64) * BPS_DENOMINATOR <= q * BPS_DENOMINATOR
    BY <1>1, <2>4, <2>7, MulMono
  <2>9. BonusFor(r, payout) = q % U64
    BY <1>3 DEF BonusFor
  <2>10. /\ (q % U64) * BPS_DENOMINATOR \in Nat
         /\ q * BPS_DENOMINATOR \in Nat
    BY <1>1, <2>4, <2>7
  <2>11. (q % U64) * BPS_DENOMINATOR <= top
    BY <1>1, <2>6, <2>8, <2>10
  <2> QED
    BY <2>9, <2>11
<1> QED
  BY <1>2, <1>3

\* enroll_boost takes at most the deposit, and only up to the capacity.
LEMMA EnrollBounds ==
    ASSUME NEW p, p.capacity \in Nat, p.enrolled \in Nat,
           NEW amount \in Nat, NEW remaining \in Int
    PROVE  LET n == EnrollBoost(p, amount, remaining)
           IN  /\ n \in Nat /\ n <= amount
               /\ n > 0 => p.enrolled + n <= p.capacity
  BY DEF EnrollBoost, MinOf, SaturatingSub

-----------------------------------------------------------------------------
\* Sums

\* The single units that a sum counts.
Units(S, f) == {u \in S \X Nat : u[2] >= 1 /\ u[2] <= f[u[1]]}

\* A nonempty collection of subsets of a finite set has a member none of whose
\* elements can be taken out without leaving the collection: what takes the place of
\* induction over the size of a set.
LEMMA SmallestSet ==
    ASSUME NEW S, IsFiniteSet(S), NEW bad, bad \subseteq SUBSET S, bad # {}
    PROVE  \E T \in bad : \A x \in T : T \ {x} \notin bad
<1>1. FiniteSubsetsOf(S) = SUBSET S
  BY FS_FiniteSubsetsOfFinite
<1>2. IsWellFoundedOn(StrictSubsetOrdering(S), SUBSET S)
  BY <1>1, FS_StrictSubsetOrderingWellFounded
<1>3. PICK T \in bad : \A U \in bad : ~(<<U, T>> \in StrictSubsetOrdering(S))
  <2> HIDE DEF StrictSubsetOrdering
  <2> QED
    BY <1>2, WFMin
<1>4. \A x \in T : T \ {x} \subseteq S /\ T \ {x} \subseteq T /\ T \ {x} # T
  OBVIOUS
<1>5. \A x \in T : T \ {x} \in bad => <<T \ {x}, T>> \in StrictSubsetOrdering(S)
  BY <1>4 DEF StrictSubsetOrdering
<1> QED
  BY <1>3, <1>5

LEMMA UnitsOfOne ==
    ASSUME NEW S, NEW f, NEW x \in S, f[x] \in Nat
    PROVE  /\ Units(S, f) = Units(S \ {x}, f) \cup ({x} \X (1..f[x]))
           /\ Units(S \ {x}, f) \cap ({x} \X (1..f[x])) = {}
           /\ IsFiniteSet({x} \X (1..f[x]))
           /\ Cardinality({x} \X (1..f[x])) = f[x]
<1>1. IsFiniteSet(1..f[x]) /\ Cardinality(1..f[x]) = f[x]
  BY FS_Interval
<1>2. IsFiniteSet({x}) /\ Cardinality({x}) = 1
  BY FS_Singleton
<1>3. IsFiniteSet({x} \X (1..f[x])) /\ Cardinality({x} \X (1..f[x])) = 1 * f[x]
  BY <1>1, <1>2, FS_Product
<1>4. Units(S, f) = Units(S \ {x}, f) \cup ({x} \X (1..f[x]))
  BY DEF Units
<1>5. Units(S \ {x}, f) \cap ({x} \X (1..f[x])) = {}
  BY DEF Units
<1> DEFINE V == {x} \X (1..f[x])
<1>6. IsFiniteSet(V) /\ Cardinality(V) = f[x]
  <2>1. IsFiniteSet(V) /\ Cardinality(V) = 1 * f[x]
    BY <1>3
  <2> HIDE DEF V
  <2> QED
    BY <2>1
<1> HIDE DEF V
<1> QED
  BY <1>4, <1>5, <1>6 DEF V

LEMMA UnitsFinite ==
    ASSUME NEW S, IsFiniteSet(S), NEW f, \A x \in S : f[x] \in Nat
    PROVE  IsFiniteSet(Units(S, f))
<1> DEFINE bad == {T \in SUBSET S : ~IsFiniteSet(Units(T, f))}
<1>1. SUFFICES ASSUME bad # {} PROVE FALSE
  OBVIOUS
<1>2. PICK T \in bad : \A x \in T : T \ {x} \notin bad
  BY <1>1, SmallestSet
<1>3. CASE T = {}
  <2>1. Units(T, f) = {}
    BY <1>3 DEF Units
  <2> QED
    BY <2>1, FS_EmptySet
<1>4. CASE T # {}
  <2>1. PICK x \in T : TRUE
    BY <1>4
  <2>2. IsFiniteSet(Units(T \ {x}, f)) /\ f[x] \in Nat
    BY <1>2, <2>1
  <2> DEFINE U == Units(T \ {x}, f)
             V == {x} \X (1..f[x])
  <2>3. Units(T, f) = U \cup V /\ IsFiniteSet(U) /\ IsFiniteSet(V)
    BY <2>1, <2>2, UnitsOfOne
  <2> HIDE DEF U, V
  <2>4. IsFiniteSet(U \cup V)
    BY <2>3, FS_Union
  <2> QED
    BY <1>2, <2>3, <2>4
<1> QED
  BY <1>3, <1>4

\* Taking out one account takes out as many units as its balance.
LEMMA UnitsAdd ==
    ASSUME NEW S, IsFiniteSet(S), NEW f, \A x \in S : f[x] \in Nat, NEW x \in S
    PROVE  Cardinality(Units(S, f)) = f[x] + Cardinality(Units(S \ {x}, f))
<1>1. IsFiniteSet(S \ {x}) /\ \A y \in S \ {x} : f[y] \in Nat
  BY FS_RemoveElement
<1>2. IsFiniteSet(Units(S \ {x}, f))
  BY <1>1, UnitsFinite
<1>3. Cardinality(Units(S \ {x}, f)) \in Nat /\ Cardinality({}) = 0
  BY <1>2, FS_CardinalityType, FS_EmptySet
<1> HIDE DEF Units
<1>4. f[x] \in Nat
  OBVIOUS
<1> DEFINE U == Units(S \ {x}, f)
           V == {x} \X (1..f[x])
<1>5. /\ Units(S, f) = U \cup V /\ U \cap V = {}
      /\ IsFiniteSet(V) /\ Cardinality(V) = f[x] /\ IsFiniteSet(U)
  BY <1>2, <1>4, UnitsOfOne
<1> HIDE DEF U, V
<1>6. Cardinality(U \cup V) = Cardinality(U) + Cardinality(V) - Cardinality(U \cap V)
  BY <1>5, FS_Union
<1>7. Cardinality(U) \in Nat
  BY <1>3 DEF U
<1>8. Cardinality(U \cup V) = f[x] + Cardinality(U)
  <2>1. Cardinality(U \cap V) = 0
    BY <1>3, <1>5
  <2>2. Cardinality(V) = f[x]
    BY <1>5
  <2> HIDE DEF U, V
  <2> QED
    BY <1>4, <1>6, <1>7, <2>1, <2>2
<1> QED
  BY <1>5, <1>8 DEF U

\* The fold that computes a sum takes the elements in the order of CHOOSE.
Chosen(s) == CHOOSE x \in s : TRUE

Folds(S, f, it) ==
    it = [s \in SUBSET S |-> IF s = {} THEN 0 ELSE f[Chosen(s)] + it[s \ {Chosen(s)}]]

LEMMA SumIsFold ==
    ASSUME NEW S, NEW f
    PROVE  SumOver(S, f) = (CHOOSE it : Folds(S, f, it))[S]
  BY DEF SumOver, MapThenSumSet, MapThenFoldSet, Chosen, Folds

\* The number of units satisfies the recursion of the fold, so a solution exists ...
LEMMA UnitsFold ==
    ASSUME NEW S, IsFiniteSet(S), NEW f, \A x \in S : f[x] \in Nat
    PROVE  Folds(S, f, [s \in SUBSET S |-> Cardinality(Units(s, f))])
<1> DEFINE it == [s \in SUBSET S |-> Cardinality(Units(s, f))]
<1>1. ASSUME NEW s \in SUBSET S
      PROVE  it[s] = IF s = {} THEN 0 ELSE f[Chosen(s)] + it[s \ {Chosen(s)}]
  <2>1. CASE s = {}
    <3>1. Units(s, f) = {}
      BY <2>1 DEF Units
    <3> QED
      BY <2>1, <3>1, FS_EmptySet
  <2>2. CASE s # {}
    <3>1. Chosen(s) \in s
      BY <2>2 DEF Chosen
    <3>2. IsFiniteSet(s) /\ \A x \in s : f[x] \in Nat
      BY FS_Subset
    <3>3. Cardinality(Units(s, f)) = f[Chosen(s)] + Cardinality(Units(s \ {Chosen(s)}, f))
      BY <3>1, <3>2, UnitsAdd
    <3>4. s \ {Chosen(s)} \in SUBSET S
      OBVIOUS
    <3> QED
      BY <2>2, <3>3, <3>4
  <2> QED
    BY <2>1, <2>2
<1> HIDE DEF Chosen
<1>2. it = [s \in SUBSET S |-> it[s]]
  OBVIOUS
<1>3. it = [s \in SUBSET S |-> IF s = {} THEN 0 ELSE f[Chosen(s)] + it[s \ {Chosen(s)}]]
  <2> HIDE DEF it
  <2> QED
    BY <1>1, <1>2
<1> QED
  BY <1>3 DEF Folds

\* ... and every solution is the number of units.
LEMMA FoldIsUnits ==
    ASSUME NEW S, IsFiniteSet(S), NEW f, \A x \in S : f[x] \in Nat,
           NEW it, Folds(S, f, it)
    PROVE  it[S] = Cardinality(Units(S, f))
<1> DEFINE bad == {T \in SUBSET S : it[T] # Cardinality(Units(T, f))}
<1>1. SUFFICES ASSUME bad # {} PROVE FALSE
  OBVIOUS
<1>2. PICK T \in bad : \A x \in T : T \ {x} \notin bad
  BY <1>1, SmallestSet
<1>3. it[T] = IF T = {} THEN 0 ELSE f[Chosen(T)] + it[T \ {Chosen(T)}]
  BY <1>2 DEF Folds
<1>4. CASE T = {}
  <2>1. Units(T, f) = {}
    BY <1>4 DEF Units
  <2> QED
    BY <1>3, <1>4, <2>1, <1>2, FS_EmptySet
<1>5. CASE T # {}
  <2>1. Chosen(T) \in T
    BY <1>5 DEF Chosen
  <2>2. it[T \ {Chosen(T)}] = Cardinality(Units(T \ {Chosen(T)}, f))
    BY <1>2, <2>1
  <2>3. IsFiniteSet(T) /\ \A x \in T : f[x] \in Nat
    BY <1>2, FS_Subset
  <2>4. Cardinality(Units(T, f)) = f[Chosen(T)] + Cardinality(Units(T \ {Chosen(T)}, f))
    BY <2>1, <2>3, UnitsAdd
  <2> QED
    BY <1>2, <1>3, <1>5, <2>2, <2>4
<1> QED
  BY <1>4, <1>5

LEMMA SumIsUnits ==
    ASSUME NEW S, IsFiniteSet(S), NEW f, \A x \in S : f[x] \in Nat
    PROVE  SumOver(S, f) = Cardinality(Units(S, f))
<1>1. \E it : Folds(S, f, it)
  BY UnitsFold
<1>2. Folds(S, f, CHOOSE it : Folds(S, f, it))
  BY <1>1
<1> QED
  BY <1>2, SumIsFold, FoldIsUnits

\* What is used of sums: type, empty set, one account, equal balances, one change.
LEMMA SumNat ==
    ASSUME NEW S, IsFiniteSet(S), NEW f, \A x \in S : f[x] \in Nat
    PROVE  SumOver(S, f) \in Nat
  BY SumIsUnits, UnitsFinite, FS_CardinalityType

LEMMA SumEmpty == ASSUME NEW f PROVE SumOver({}, f) = 0
<1>1. IsFiniteSet({}) /\ Cardinality({}) = 0
  BY FS_EmptySet
<1>2. Units({}, f) = {}
  BY DEF Units
<1> QED
  BY <1>1, <1>2, SumIsUnits

LEMMA SumOfOne ==
    ASSUME NEW S, IsFiniteSet(S), NEW f, \A x \in S : f[x] \in Nat, NEW x \in S
    PROVE  SumOver(S, f) = f[x] + SumOver(S \ {x}, f)
<1>1. IsFiniteSet(S \ {x}) /\ \A y \in S \ {x} : f[y] \in Nat
  BY FS_RemoveElement
<1> QED
  BY <1>1, SumIsUnits, UnitsAdd

LEMMA SumSame ==
    ASSUME NEW S, IsFiniteSet(S), NEW f, NEW g,
           \A x \in S : f[x] \in Nat /\ g[x] = f[x]
    PROVE  SumOver(S, g) = SumOver(S, f)
<1>1. Units(S, g) = Units(S, f)
  BY DEF Units
<1> QED
  BY <1>1, SumIsUnits

\* One balance of S changes from f[x] to g[x].
LEMMA SumChange ==
    ASSUME NEW S, IsFiniteSet(S), NEW f, NEW g, NEW x \in S,
           \A y \in S : f[y] \in Nat /\ g[y] \in Nat,
           \A y \in S : y # x => g[y] = f[y]
    PROVE  SumOver(S, g) = SumOver(S, f) - f[x] + g[x]
<1>1. SumOver(S, f) = f[x] + SumOver(S \ {x}, f) /\ SumOver(S, g) = g[x] + SumOver(S \ {x}, g)
  BY SumOfOne
<1>2. IsFiniteSet(S \ {x})
  BY FS_RemoveElement
<1>3. SumOver(S \ {x}, g) = SumOver(S \ {x}, f) /\ SumOver(S \ {x}, f) \in Nat
  BY <1>2, SumSame, SumNat
<1>4. f[x] \in Nat /\ g[x] \in Nat
  OBVIOUS
<1> QED
  BY <1>1, <1>3, <1>4

\* An account outside S joins it.
LEMMA SumJoin ==
    ASSUME NEW S, IsFiniteSet(S), NEW f, NEW x, x \notin S,
           \A y \in S \cup {x} : f[y] \in Nat
    PROVE  SumOver(S \cup {x}, f) = SumOver(S, f) + f[x]
<1>1. IsFiniteSet(S \cup {x}) /\ (S \cup {x}) \ {x} = S
  BY FS_AddElement
<1>2. SumOver(S \cup {x}, f) = f[x] + SumOver(S, f) /\ SumOver(S, f) \in Nat
  BY <1>1, SumOfOne, SumNat
<1> QED
  BY <1>2

\* One balance is part of the sum.
LEMMA SumAtLeast ==
    ASSUME NEW S, IsFiniteSet(S), NEW f, NEW x \in S, \A y \in S : f[y] \in Nat
    PROVE  f[x] <= SumOver(S, f)
<1>1. SumOver(S, f) = f[x] + SumOver(S \ {x}, f)
  BY SumOfOne
<1>2. IsFiniteSet(S \ {x})
  BY FS_RemoveElement
<1>3. SumOver(S \ {x}, f) \in Nat
  BY <1>2, SumNat
<1> QED
  BY <1>1, <1>3

\* Balances of zero sum up to zero.
LEMMA SumZero ==
    ASSUME NEW S, IsFiniteSet(S), NEW f, \A y \in S : f[y] = 0
    PROVE  SumOver(S, f) = 0
<1>1. Units(S, f) = {}
  BY DEF Units
<1> QED
  BY <1>1, SumIsUnits, FS_EmptySet
=============================================================================
