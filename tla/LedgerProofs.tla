----------------------------- MODULE LedgerProofs -----------------------------
(***************************************************************************)
(* Facts about the sums and transfers of module Ledger, for every finite   *)
(* set of positions and every amount.                                      *)
(***************************************************************************)
EXTENDS Ledger, FiniteSetTheorems, FunctionTheorems, WellFoundedInduction, TLAPS

\* The units of a sum of naturals over a finite set are finitely many.
LEMMA UnitsFinite ==
    ASSUME NEW S, IsFiniteSet(S), NEW F, \A x \in S : F[x] \in Nat
    PROVE  IsFiniteSet(Units(S, F))
<1> DEFINE U == [x \in S |-> {x} \X (1 .. F[x])]
           T == {{x} \X (1 .. F[x]) : x \in S}
<1>1. U \in Surjection(S, T)
  BY DEF Surjection
<1>2. IsFiniteSet(T)
  <2> HIDE DEF U, T
  <2> QED BY <1>1, FS_Surjection
<1>3. ASSUME NEW t \in T PROVE IsFiniteSet(t)
  <2>1. PICK x \in S : t = {x} \X (1 .. F[x])
    BY <1>3
  <2>2. IsFiniteSet({x})
    BY FS_Singleton
  <2>3. 1 \in Int /\ F[x] \in Int
    OBVIOUS
  <2>4. IsFiniteSet(1 .. F[x])
    BY ONLY <2>3, FS_Interval
  <2> QED BY ONLY <2>1, <2>2, <2>4, FS_Product
<1>4. IsFiniteSet(UNION T)
  <2> HIDE DEF T
  <2> QED BY <1>2, <1>3, FS_UNION
<1> QED BY <1>4 DEF Units

\* A sum of naturals is a natural.
LEMMA SumType ==
    ASSUME NEW S, IsFiniteSet(S), NEW F, \A x \in S : F[x] \in Nat
    PROVE  SumOver(S, F) \in Nat
BY UnitsFinite, FS_CardinalityType DEF SumOver

\* The empty sum.
LEMMA SumEmpty == ASSUME NEW F PROVE SumOver({}, F) = 0
<1>1. Units({}, F) = {}
  BY DEF Units
<1> QED BY <1>1, FS_EmptySet DEF SumOver

\* Terms that are not positive come to nothing.
LEMMA SumOfNothing ==
    ASSUME NEW S, NEW F, \A x \in S : F[x] \in Int /\ F[x] <= 0
    PROVE  SumOver(S, F) = 0
<1>1. \A x \in S : 1 .. F[x] = {}
  OBVIOUS
<1>2. Units(S, F) = {}
  BY <1>1 DEF Units
<1> QED BY <1>2, FS_EmptySet DEF SumOver

\* A sum of one term.
LEMMA SumSingleton ==
    ASSUME NEW x, NEW F, F[x] \in Nat
    PROVE  SumOver({x}, F) = F[x]
<1>1. Units({x}, F) = {x} \X (1 .. F[x])
  BY DEF Units
<1>2. IsFiniteSet({x}) /\ Cardinality({x}) = 1
  BY FS_Singleton
<1>3. IsFiniteSet(1 .. F[x]) /\ Cardinality(1 .. F[x]) = F[x]
  <2>1. 1 \in Int /\ F[x] \in Int
    OBVIOUS
  <2>2. /\ IsFiniteSet(1 .. F[x])
        /\ Cardinality(1 .. F[x]) = IF 1 > F[x] THEN 0 ELSE F[x] - 1 + 1
    BY ONLY <2>1, FS_Interval
  <2> QED BY <2>2
<1>4. Cardinality({x} \X (1 .. F[x])) = Cardinality({x}) * Cardinality(1 .. F[x])
  BY ONLY <1>2, <1>3, FS_Product
<1>5. Cardinality({x}) * Cardinality(1 .. F[x]) = F[x]
  <2>1. 1 * F[x] = F[x]
    OBVIOUS
  <2> QED BY ONLY <1>2, <1>3, <2>1
<1> QED BY ONLY <1>1, <1>4, <1>5 DEF SumOver

\* A sum depends on the terms only.
LEMMA SumSame ==
    ASSUME NEW S, NEW F, NEW G, \A x \in S : F[x] = G[x]
    PROVE  SumOver(S, F) = SumOver(S, G)
<1>1. Units(S, F) = Units(S, G)
  BY DEF Units
<1> QED BY <1>1 DEF SumOver

\* Sums over disjoint sets add up.
LEMMA SumDisjoint ==
    ASSUME NEW S, NEW T, IsFiniteSet(S), IsFiniteSet(T), S \cap T = {},
           NEW F, \A x \in S \cup T : F[x] \in Nat
    PROVE  SumOver(S \cup T, F) = SumOver(S, F) + SumOver(T, F)
<1>1. Units(S \cup T, F) = Units(S, F) \cup Units(T, F)
  BY DEF Units
<1>2. Units(S, F) \cap Units(T, F) = {}
  BY DEF Units
<1>3. IsFiniteSet(Units(S, F)) /\ IsFiniteSet(Units(T, F))
  BY UnitsFinite
<1>4. Cardinality(Units(S, F) \cap Units(T, F)) = 0
  BY <1>2, FS_EmptySet
<1>5. Cardinality(Units(S, F)) \in Nat /\ Cardinality(Units(T, F)) \in Nat
  BY <1>3, FS_CardinalityType
<1>6. Cardinality(Units(S, F) \cup Units(T, F))
        = Cardinality(Units(S, F)) + Cardinality(Units(T, F))
              - Cardinality(Units(S, F) \cap Units(T, F))
  BY ONLY <1>3, FS_Union
<1>7. Cardinality(Units(S, F) \cup Units(T, F))
        = Cardinality(Units(S, F)) + Cardinality(Units(T, F))
  BY ONLY <1>4, <1>5, <1>6
<1> QED BY ONLY <1>1, <1>7 DEF SumOver

\* One more term.
LEMMA SumAdd ==
    ASSUME NEW S, IsFiniteSet(S), NEW x, x \notin S,
           NEW F, \A y \in S \cup {x} : F[y] \in Nat
    PROVE  SumOver(S \cup {x}, F) = SumOver(S, F) + F[x]
<1>1. SumOver(S \cup {x}, F) = SumOver(S, F) + SumOver({x}, F)
  <2>1. IsFiniteSet({x}) /\ S \cap {x} = {}
    BY FS_Singleton
  <2> QED BY <2>1, SumDisjoint
<1> QED BY <1>1, SumSingleton

\* Changing one term changes the sum by the difference.
LEMMA SumUpdate ==
    ASSUME NEW S, IsFiniteSet(S), NEW x \in S, NEW F, NEW G,
           \A y \in S : F[y] \in Nat /\ G[y] \in Nat,
           \A y \in S \ {x} : F[y] = G[y]
    PROVE  SumOver(S, G) = SumOver(S, F) + G[x] - F[x]
<1> DEFINE R == S \ {x}
<1>1. IsFiniteSet(R) /\ x \notin R /\ S = R \cup {x}
  BY FS_RemoveElement
<1>2. SumOver(R, F) = SumOver(R, G)
  BY SumSame
<1>3. SumOver(R, F) \in Nat
  BY <1>1, SumType
<1>4. SumOver(R \cup {x}, F) = SumOver(R, F) + F[x]
  <2> HIDE DEF R
  <2> QED BY <1>1, SumAdd
<1>5. SumOver(R \cup {x}, G) = SumOver(R, G) + G[x]
  <2> HIDE DEF R
  <2> QED BY <1>1, SumAdd
<1> HIDE DEF R
<1> QED BY <1>1, <1>2, <1>3, <1>4, <1>5

\* A part of a sum of naturals is at most the sum.
LEMMA SumSubset ==
    ASSUME NEW S, IsFiniteSet(S), NEW T \in SUBSET S,
           NEW F, \A x \in S : F[x] \in Nat
    PROVE  SumOver(T, F) <= SumOver(S, F)
<1>1. Units(T, F) \subseteq Units(S, F)
  BY DEF Units
<1> QED BY <1>1, UnitsFinite, FS_Subset DEF SumOver

\* Terms that go into larger terms of another sum, no two into the same, come
\* to no more than that sum.
LEMMA SumInjected ==
    ASSUME NEW S, NEW T, IsFiniteSet(T), NEW F, NEW G, NEW into,
           \A x \in S : F[x] \in Nat, \A y \in T : G[y] \in Nat,
           \A x \in S : F[x] > 0 => into[x] \in T /\ F[x] <= G[into[x]],
           \A x, y \in S : F[x] > 0 /\ F[y] > 0 /\ into[x] = into[y] => x = y
    PROVE  SumOver(S, F) <= SumOver(T, G)
<1> DEFINE U == Units(S, F)
           V == Units(T, G)
           h == [u \in U |-> <<into[u[1]], u[2]>>]
<1>1. ASSUME NEW u \in U
      PROVE  u = <<u[1], u[2]>> /\ u[1] \in S /\ u[2] \in 1 .. F[u[1]] /\ F[u[1]] > 0
  <2>1. PICK x \in S : u \in {x} \X (1 .. F[x])
    BY DEF Units
  <2>2. u = <<u[1], u[2]>> /\ u[1] = x /\ u[2] \in 1 .. F[x]
    BY <2>1
  <2>3. F[x] \in Nat
    OBVIOUS
  <2>4. F[x] > 0
    BY <2>2, <2>3
  <2> QED BY <2>2, <2>4
<1>2. ASSUME NEW u \in U PROVE h[u] \in V
  <2>1. /\ u[1] \in S /\ u[2] \in 1 .. F[u[1]] /\ F[u[1]] > 0
        /\ into[u[1]] \in T /\ F[u[1]] <= G[into[u[1]]]
    BY <1>1
  <2> DEFINE y == into[u[1]]
  <2>2. F[u[1]] \in Nat /\ G[y] \in Nat
    BY <2>1
  <2> HIDE DEF y
  <2>3. y \in T /\ u[2] \in 1 .. G[y]
    BY <2>1, <2>2 DEF y
  <2>4. <<y, u[2]>> \in {y} \X (1 .. G[y])
    BY <2>3
  <2>5. <<y, u[2]>> \in V
    BY <2>3, <2>4 DEF Units
  <2> QED BY <2>5 DEF y
<1>3. ASSUME NEW u \in U, NEW v \in U, h[u] = h[v] PROVE u = v
  <2>1. into[u[1]] = into[v[1]] /\ u[2] = v[2]
    BY <1>3
  <2>2. u[1] = v[1]
    BY <1>1, <2>1
  <2>3. u = <<u[1], u[2]>> /\ v = <<v[1], v[2]>>
    BY <1>1
  <2> QED BY <2>1, <2>2, <2>3
<1> HIDE DEF U, V
<1>4. h \in Injection(U, V)
  <2>1. h \in [U -> V]
    BY <1>2
  <2> HIDE DEF h
  <2> QED BY <1>3, <2>1 DEF Injection, IsInjective
<1>5. IsFiniteSet(V)
  BY UnitsFinite DEF V
<1> HIDE DEF h
<1>6. Cardinality(U) <= Cardinality(V)
  BY <1>4, <1>5, FS_Injection
<1> QED BY <1>6 DEF SumOver, U, V

(***************************************************************************)
(* If n times each term of G is at most p times the term of F, the same    *)
(* holds of the sums.  A set of terms for which it fails would have a      *)
(* smallest part for which it fails, and that part is neither empty nor    *)
(* one term more than a part for which it holds.                           *)
(***************************************************************************)
LEMMA SumScaled ==
    ASSUME NEW S, IsFiniteSet(S), NEW F, NEW G, NEW n \in Nat, NEW p \in Nat,
           \A x \in S : F[x] \in Nat /\ G[x] \in Nat /\ n * G[x] <= p * F[x]
    PROVE  n * SumOver(S, G) <= p * SumOver(S, F)
<1> DEFINE Holds(T) == n * SumOver(T, G) <= p * SumOver(T, F)
           Bad == {m \in Nat : \E T \in SUBSET S : Cardinality(T) = m /\ ~Holds(T)}
<1>1. SUFFICES ASSUME ~Holds(S) PROVE FALSE
  OBVIOUS
<1>2. Cardinality(S) \in Bad
  BY <1>1, FS_CardinalityType
<1>3. PICK m \in Bad : \A k \in Bad : ~(<<k, m>> \in OpToRel(<, Nat))
  <2>1. Bad \subseteq Nat /\ Bad # {}
    BY <1>2
  <2> HIDE DEF Bad
  <2> QED BY <2>1, WFMin, NatLessThanWellFounded
<1>4. PICK T \in SUBSET S : Cardinality(T) = m /\ ~Holds(T)
  OBVIOUS
<1>5. IsFiniteSet(T)
  BY FS_Subset
<1>6. T # {}
  <2>1. SumOver({}, F) = 0 /\ SumOver({}, G) = 0
    BY SumEmpty
  <2>2. Holds({})
    <3>1. n * 0 <= p * 0
      OBVIOUS
    <3> QED BY ONLY <2>1, <3>1
  <2> QED BY ONLY <1>4, <2>2
<1>7. PICK x \in T : TRUE
  BY <1>6
<1> DEFINE R == T \ {x}
<1>8. /\ IsFiniteSet(R) /\ x \notin R /\ T = R \cup {x} /\ R \in SUBSET S /\ x \in S
      /\ Cardinality(R) = m - 1
  <2>1. x \notin R /\ T = R \cup {x} /\ R \in SUBSET S /\ x \in S
    BY <1>7
  <2>2. /\ IsFiniteSet(T \ {x})
        /\ Cardinality(T \ {x})
                = IF x \in T THEN Cardinality(T) - 1 ELSE Cardinality(T)
    BY ONLY <1>5, FS_RemoveElement
  <2>3. Cardinality(R) = m - 1
    BY ONLY <1>4, <1>7, <2>2
  <2> QED BY <2>1, <2>2, <2>3
<1>9. Cardinality(R) \in Nat
  BY <1>8, FS_CardinalityType
<1>10. Holds(R)
  <2>1. SUFFICES ASSUME ~Holds(R) PROVE FALSE
    OBVIOUS
  <2>2. m - 1 \in Bad
    BY <1>8, <1>9, <2>1
  <2>3. <<m - 1, m>> \in OpToRel(<, Nat)
    <3>1. m \in Nat /\ m - 1 \in Nat /\ m - 1 < m
      BY <1>8, <1>9
    <3> QED BY <3>1 DEF OpToRel
  <2> QED BY <1>3, <2>2, <2>3
<1>11. SumOver(R, F) \in Nat /\ SumOver(R, G) \in Nat
  <2>1. \A y \in R : F[y] \in Nat /\ G[y] \in Nat
    BY <1>8
  <2> HIDE DEF R
  <2> QED BY <1>8, <2>1, SumType
<1>12. SumOver(T, F) = SumOver(R, F) + F[x] /\ SumOver(T, G) = SumOver(R, G) + G[x]
  <2>1. \A y \in R \cup {x} : F[y] \in Nat /\ G[y] \in Nat
    BY <1>8
  <2> HIDE DEF R
  <2> QED BY <1>8, <2>1, SumAdd
<1>13. F[x] \in Nat /\ G[x] \in Nat /\ n * G[x] <= p * F[x]
  BY <1>8
<1>14. ASSUME NEW a \in Nat, NEW b \in Nat, NEW c \in Nat, NEW d \in Nat,
              n * a <= p * b, n * c <= p * d
       PROVE  n * (a + c) <= p * (b + d)
  <2>1. n * (a + c) = n * a + n * c /\ p * (b + d) = p * b + p * d
    OBVIOUS
  <2>2. n * a \in Nat /\ n * c \in Nat /\ p * b \in Nat /\ p * d \in Nat
    OBVIOUS
  <2> QED BY <1>14, <2>1, <2>2
<1>15. Holds(T)
  <2>1. n * (SumOver(R, G) + G[x]) <= p * (SumOver(R, F) + F[x])
    <3> HIDE DEF R
    <3>1. n * SumOver(R, G) <= p * SumOver(R, F)
      BY <1>10
    <3> QED BY ONLY <1>11, <1>13, <1>14, <3>1, n \in Nat, p \in Nat
  <2> QED BY ONLY <1>12, <2>1
<1> QED BY <1>4, <1>15

-----------------------------------------------------------------------------

\* What a run of payments adds up to, and what it leaves the payer: the
\* payments of CanPayAll never overdraw the payer, also when the payer is
\* among the payees.
LEMMA PaymentsCovered ==
    ASSUME NEW lo \in Int, NEW hi \in Int, lo <= hi,
           NEW pay, DOMAIN pay = lo .. hi, \A k \in lo .. hi : pay[k].amount \in Nat,
           NEW bals, NEW from, bals[from] \in Nat, CanPayAll(bals, from, pay)
    PROVE  /\ PayTotal(pay) \in Nat
           /\ \A a : PaidTo(pay, a) \in Nat
           /\ PayTotal(pay) - PaidTo(pay, from) <= bals[from]
<1> DEFINE D == lo .. hi
           A == PayAmounts(pay)
           Self == {k \in D : pay[k].to = from}
           Others == {k \in D : pay[k].to # from}
           Before == {j \in D : j < hi /\ pay[j].to # from}
<1>1. IsFiniteSet(D)
  BY FS_Interval
<1>2. \A k \in D : A[k] = pay[k].amount /\ A[k] \in Nat
  BY DEF PayAmounts
<1>3. \A T \in SUBSET D : IsFiniteSet(T) /\ SumOver(T, A) \in Nat
  <2> HIDE DEF D, A
  <2> QED BY <1>1, <1>2, FS_Subset, SumType
<1>4. PayTotal(pay) = SumOver(D, A) /\ PayTotal(pay) \in Nat
  BY <1>3 DEF PayTotal
<1>5. \A a : PaidTo(pay, a) \in Nat
  <2>1. ASSUME NEW a PROVE PaidTo(pay, a) \in Nat
    <3>1. {k \in D : pay[k].to = a} \in SUBSET D
      OBVIOUS
    <3>2. PaidTo(pay, a) = SumOver({k \in D : pay[k].to = a}, A)
      BY DEF PaidTo
    <3> QED BY ONLY <1>3, <3>1, <3>2
  <2> QED BY <2>1
<1>6. PaidTo(pay, from) = SumOver(Self, A)
  BY DEF PaidTo
<1>7. SumOver(D, A) = SumOver(Self, A) + SumOver(Others, A)
  <2>1. D = Self \cup Others /\ Self \cap Others = {} /\ Self \in SUBSET D /\ Others \in SUBSET D
    OBVIOUS
  <2>2. \A x \in Self \cup Others : A[x] \in Nat
    BY <1>2
  <2> HIDE DEF D, A, Self, Others
  <2>3. IsFiniteSet(Self) /\ IsFiniteSet(Others)
    BY ONLY <1>3, <2>1
  <2>4. SumOver(Self \cup Others, A) = SumOver(Self, A) + SumOver(Others, A)
    BY ONLY <2>1, <2>2, <2>3, SumDisjoint
  <2> QED BY ONLY <2>1, <2>4
<1>8. hi \in D /\ SumOver(Before, A) + pay[hi].amount <= bals[from]
  BY DEF CanPayAll
<1>9. Before \in SUBSET D /\ SumOver(Before, A) \in Nat /\ IsFiniteSet(Before)
  <2>1. Before \in SUBSET D
    OBVIOUS
  <2> HIDE DEF D, A, Before
  <2> QED BY ONLY <1>3, <2>1
<1>10. SumOver(Others, A) <= bals[from]
  <2>1. CASE pay[hi].to # from
    <3>1. Others = Before \cup {hi} /\ hi \notin Before
      BY <2>1
    <3>2. \A y \in Before \cup {hi} : A[y] \in Nat
      BY <1>2, <1>8
    <3>3. A[hi] = pay[hi].amount
      BY <1>2, <1>8
    <3> HIDE DEF D, A, Before, Others
    <3>4. SumOver(Before \cup {hi}, A) = SumOver(Before, A) + A[hi]
      BY ONLY <1>9, <3>1, <3>2, SumAdd
    <3> QED BY ONLY <1>8, <3>1, <3>3, <3>4
  <2>2. CASE pay[hi].to = from
    <3>1. Others = Before
      BY <2>2
    <3>2. pay[hi].amount \in Nat
      BY <1>8
    <3> HIDE DEF D, A, Before, Others
    <3> QED BY <1>8, <1>9, <3>1, <3>2
  <2> QED BY <2>1, <2>2
<1>11. SumOver(Self, A) \in Nat /\ SumOver(Others, A) \in Nat
  <2>1. Self \in SUBSET D /\ Others \in SUBSET D
    OBVIOUS
  <2> HIDE DEF D, A, Self, Others
  <2> QED BY ONLY <1>3, <2>1
<1> HIDE DEF D, A, Self, Others, Before
<1>12. PayTotal(pay) - PaidTo(pay, from) <= bals[from]
  BY <1>4, <1>6, <1>7, <1>10, <1>11
<1> QED BY <1>4, <1>5, <1>12

\* A run of payments keeps every balance a natural number, costs the payer at
\* most its total, and costs nobody else anything.
LEMMA PayAllBounds ==
    ASSUME NEW Acc, NEW bals \in [Acc -> Nat], NEW from \in Acc,
           NEW lo \in Int, NEW hi \in Int, lo <= hi,
           NEW pay, DOMAIN pay = lo .. hi, \A k \in lo .. hi : pay[k].amount \in Nat,
           CanPayAll(bals, from, pay)
    PROVE  /\ PayAll(bals, from, pay) \in [Acc -> Nat]
           /\ PayAll(bals, from, pay)[from] >= bals[from] - PayTotal(pay)
           /\ \A a \in Acc \ {from} : PayAll(bals, from, pay)[a] >= bals[a]
<1>1. /\ PayTotal(pay) \in Nat
      /\ \A a : PaidTo(pay, a) \in Nat
      /\ PayTotal(pay) - PaidTo(pay, from) <= bals[from]
  BY PaymentsCovered
<1>2. DOMAIN bals = Acc /\ \A a \in Acc : bals[a] \in Nat
  OBVIOUS
<1>3. \A a \in Acc : PayAll(bals, from, pay)[a]
            = bals[a] + PaidTo(pay, a) - (IF a = from THEN PayTotal(pay) ELSE 0)
  BY <1>2 DEF PayAll
<1>4. \A a \in Acc : bals[a] + PaidTo(pay, a) - (IF a = from THEN PayTotal(pay) ELSE 0) \in Nat
  BY <1>1, <1>2
<1>5. PayAll(bals, from, pay) \in [Acc -> Nat]
  BY <1>2, <1>4 DEF PayAll
<1> QED BY <1>1, <1>2, <1>3, <1>5

\* A transfer that goes through keeps every balance a natural number and
\* moves exactly the amount, or nothing when the payer pays itself.
LEMMA TransferBounds ==
    ASSUME NEW Acc, NEW bals \in [Acc -> Nat], NEW from \in Acc, NEW to \in Acc,
           NEW amount \in Int, CanTransfer(bals, from, amount)
    PROVE  /\ Transfer(bals, from, to, amount) \in [Acc -> Nat]
           /\ from # to => /\ Transfer(bals, from, to, amount)[from] = bals[from] - amount
                           /\ Transfer(bals, from, to, amount)[to] = bals[to] + amount
           /\ from = to => Transfer(bals, from, to, amount)[from] = bals[from]
           /\ \A a \in Acc \ {from, to} : Transfer(bals, from, to, amount)[a] = bals[a]
BY DEF CanTransfer, Transfer

\* A nonempty set of naturals has a least element.
LEMMA LeastExists ==
    ASSUME NEW S \in SUBSET Nat, S # {}
    PROVE  \E m \in S : \A j \in S : m <= j
<1>1. PICK m \in S : \A k \in S : ~(<<k, m>> \in OpToRel(<, Nat))
  BY WFMin, NatLessThanWellFounded
<1>2. \A k \in S : ~(k < m)
  BY <1>1 DEF OpToRel
<1> QED BY <1>2

\* g goes from one number to the next by the function step.
Iterates(g, N, S, base, step) ==
    /\ g \in [0 .. N -> S]
    /\ g[0] = base
    /\ \A n \in 1 .. N : g[n] = step[<<n, g[n - 1]>>]

\* Such an iteration exists: a smallest N for which there were none would be one
\* more than an N for which there is one.
LEMMA IterationExists ==
    ASSUME NEW S, NEW base \in S, NEW N \in Nat, NEW step \in [(1 .. N) \X S -> S]
    PROVE  \E g : Iterates(g, N, S, base, step)
<1> DEFINE Goes(g, m) == /\ g \in [0 .. m -> S]
                        /\ g[0] = base
                        /\ \A n \in 1 .. m : g[n] = step[<<n, g[n - 1]>>]
           Bad == {m \in 0 .. N : ~ \E g : Goes(g, m)}
<1>1. Bad = {}
  <2> SUFFICES ASSUME Bad # {} PROVE FALSE
    OBVIOUS
  <2>1. PICK m \in Bad : m \in 0 .. N /\ \A k \in Bad : m <= k
    <3>1. Bad \in SUBSET Nat /\ \A k \in Bad : k \in 0 .. N
      OBVIOUS
    <3> HIDE DEF Bad
    <3> QED BY <3>1, LeastExists
  <2>2. ~ \E g : Goes(g, m)
    BY <2>1
  <2>3. CASE m = 0
    <3>1. Goes([i \in 0 .. 0 |-> base], 0)
      OBVIOUS
    <3> HIDE DEF Goes
    <3> QED BY <2>2, <2>3, <3>1
  <2>4. CASE m # 0
    <3>1. m - 1 \in 0 .. N /\ m - 1 \notin Bad
      <4>1. m - 1 \in 0 .. N /\ ~(m <= m - 1)
        BY <2>1, <2>4
      <4> HIDE DEF Bad
      <4> QED BY <2>1, <4>1
    <3>2. PICK g : Goes(g, m - 1)
      <4> HIDE DEF Goes
      <4> QED BY <3>1
    <3> DEFINE h == [i \in 0 .. m |-> IF i = m THEN step[<<m, g[m - 1]>>] ELSE g[i]]
    <3>3. m - 1 \in 0 .. m - 1 /\ m \in 1 .. N /\ m \in 0 .. m /\ 0 \in 0 .. m - 1
      BY <2>1, <2>4
    <3>4. g[m - 1] \in S /\ step[<<m, g[m - 1]>>] \in S
      BY <3>2, <3>3
    <3>5. \A i \in 0 .. m : i # m => i \in 0 .. m - 1
      BY <2>1
    <3>6. h[m] = step[<<m, g[m - 1]>>] /\ \A i \in 0 .. m - 1 : h[i] = g[i] /\ i \in 0 .. m
      BY <2>1, <3>3
    <3>7. h \in [0 .. m -> S]
      BY <3>2, <3>4, <3>5
    <3> HIDE DEF h
    <3>8. ASSUME NEW n \in 1 .. m PROVE h[n] = step[<<n, h[n - 1]>>]
      <4>1. CASE n = m
        BY <3>3, <3>6, <4>1
      <4>2. CASE n # m
        <5>1. n \in 1 .. m - 1 /\ n \in 0 .. m - 1 /\ n - 1 \in 0 .. m - 1
          BY <2>1, <4>2
        <5> QED BY <3>2, <3>6, <5>1
      <4> QED BY <4>1, <4>2
    <3>9. Goes(h, m)
      BY <3>2, <3>3, <3>6, <3>7, <3>8
    <3> HIDE DEF Goes
    <3> QED BY <2>2, <3>9
  <2> QED BY <2>3, <2>4
<1>2. N \in 0 .. N
  OBVIOUS
<1>3. PICK g : Goes(g, N)
  <2> HIDE DEF Goes
  <2> QED BY <1>1, <1>2
<1> QED BY <1>3 DEF Iterates

-----------------------------------------------------------------------------

\* Payments that come to no more than the payer holds go through.
LEMMA CoveredIsPayable ==
    ASSUME NEW lo \in Int, NEW hi \in Int,
           NEW pay, DOMAIN pay = lo .. hi, \A k \in lo .. hi : pay[k].amount \in Nat,
           NEW bals, NEW from, bals[from] \in Nat, PayTotal(pay) <= bals[from]
    PROVE  CanPayAll(bals, from, pay)
<1> DEFINE D == lo .. hi
           A == PayAmounts(pay)
<1>1. IsFiniteSet(D)
  BY FS_Interval
<1>2. \A k \in D : A[k] = pay[k].amount /\ A[k] \in Nat
  BY DEF PayAmounts
<1>3. SUFFICES ASSUME NEW k \in D
               PROVE  SumOver({j \in D : j < k /\ pay[j].to # from}, A)
                        + pay[k].amount <= bals[from]
  BY DEF CanPayAll
<1> DEFINE T == {j \in D : j < k /\ pay[j].to # from}
<1>4. T \in SUBSET D /\ k \notin T /\ T \cup {k} \in SUBSET D
  OBVIOUS
<1>5. PayTotal(pay) = SumOver(D, A)
  BY DEF PayTotal
<1> HIDE DEF D, A, T
<1>6. IsFiniteSet(T) /\ \A y \in T \cup {k} : A[y] \in Nat
  BY <1>1, <1>2, <1>4, FS_Subset
<1>7. SumOver(T \cup {k}, A) = SumOver(T, A) + A[k]
  BY ONLY <1>4, <1>6, SumAdd
<1>8. SumOver(T \cup {k}, A) <= SumOver(D, A)
  BY ONLY <1>1, <1>2, <1>4, SumSubset
<1>9. SumOver(T, A) + A[k] <= bals[from]
  <2>1. SumOver(T, A) \in Nat /\ SumOver(D, A) \in Nat /\ A[k] \in Nat
    BY <1>1, <1>2, <1>6, SumType
  <2> QED BY <1>5, <1>7, <1>8, <2>1
<1> QED BY <1>2, <1>9 DEF T

\* No payments change nothing.
LEMMA PayNothing ==
    ASSUME NEW Acc, NEW bals \in [Acc -> Nat], NEW from \in Acc, NEW pay, DOMAIN pay = {}
    PROVE  PayAll(bals, from, pay) = bals
<1>1. \A a : PaidTo(pay, a) = 0
  <2>1. ASSUME NEW a PROVE PaidTo(pay, a) = 0
    <3>1. {k \in DOMAIN pay : pay[k].to = a} = {}
      OBVIOUS
    <3> QED BY <3>1, SumEmpty DEF PaidTo
  <2> QED BY <2>1
<1>2. PayTotal(pay) = 0
  BY SumEmpty DEF PayTotal
<1> QED BY <1>1, <1>2 DEF PayAll

\* Two payments come to the sum of their amounts.
LEMMA PayTwo ==
    ASSUME NEW pay, DOMAIN pay = 1 .. 2, pay[1].amount \in Nat, pay[2].amount \in Nat
    PROVE  PayTotal(pay) = pay[1].amount + pay[2].amount
<1> DEFINE A == PayAmounts(pay)
<1>1. A[1] = pay[1].amount /\ A[2] = pay[2].amount
  BY DEF PayAmounts
<1>2. SumOver({1} \cup {2}, A) = SumOver({1}, A) + A[2]
  <2>1. IsFiniteSet({1}) /\ 2 \notin {1}
    <3>1. IsFiniteSet({1})
      BY ONLY FS_Singleton
    <3>2. 2 \notin {1}
      OBVIOUS
    <3> QED BY ONLY <3>1, <3>2
  <2>2. \A y \in {1} \cup {2} : A[y] \in Nat
    BY <1>1
  <2> HIDE DEF A
  <2> QED BY ONLY <2>1, <2>2, SumAdd
<1>3. SumOver({1}, A) = A[1]
  BY <1>1, SumSingleton
<1>4. DOMAIN pay = {1} \cup {2}
  OBVIOUS
<1>5. PayTotal(pay) = SumOver(DOMAIN pay, A)
  BY DEF PayTotal
<1> HIDE DEF A
<1>6. PayTotal(pay) = SumOver({1} \cup {2}, A)
  BY ONLY <1>4, <1>5
<1> QED BY ONLY <1>1, <1>2, <1>3, <1>6

\* One more payment at the end of a run of payments is a transfer from what the
\* run left: possible exactly when that transfer is, and with its effect.
LEMMA PayOneMore ==
    ASSUME NEW Acc, NEW bals \in [Acc -> Nat], NEW from \in Acc,
           NEW S \in SUBSET Int, IsFiniteSet(S), NEW k \in Int, \A j \in S : j < k,
           NEW pay, DOMAIN pay = S, \A j \in S : pay[j].amount \in Nat,
           NEW more, DOMAIN more = S \cup {k}, \A j \in S : more[j] = pay[j],
           more[k].to \in Acc, more[k].amount \in Nat,
           CanPayAll(bals, from, pay), PayAll(bals, from, pay) \in [Acc -> Nat]
    PROVE  LET left == PayAll(bals, from, pay)
           IN  /\ CanPayAll(bals, from, more) <=> CanTransfer(left, from, more[k].amount)
               /\ PayAll(bals, from, more) = Transfer(left, from, more[k].to, more[k].amount)
<1> SUFFICES
        ASSUME NEW to, to = more[k].to, to \in Acc, NEW amount, amount = more[k].amount,
               amount \in Nat, NEW left, left = PayAll(bals, from, pay), left \in [Acc -> Nat]
        PROVE  /\ CanPayAll(bals, from, more) <=> CanTransfer(left, from, amount)
               /\ PayAll(bals, from, more) = Transfer(left, from, to, amount)
  OBVIOUS
<1> DEFINE A == PayAmounts(pay)
           B == PayAmounts(more)
           Others == {j \in S : pay[j].to # from}
           To(a) == {j \in S : pay[j].to = a}
<1>1. /\ \A j \in S : A[j] = pay[j].amount /\ B[j] = A[j] /\ A[j] \in Nat
      /\ B[k] = amount
  BY DEF PayAmounts
<1>2. k \notin S
  OBVIOUS
<1>3. ASSUME NEW T \in SUBSET S
      PROVE  /\ SumOver(T, A) \in Nat
             /\ SumOver(T, B) = SumOver(T, A)
             /\ SumOver(T \cup {k}, B) = SumOver(T, A) + amount
  <2> HIDE DEF A, B
  <2>1. IsFiniteSet(T) /\ k \notin T /\ \A j \in T \cup {k} : B[j] \in Nat
    BY <1>1, <1>2, FS_Subset
  <2>2. SumOver(T, B) = SumOver(T, A)
    BY <1>1, SumSame
  <2>3. SumOver(T, A) \in Nat
    BY <1>1, <2>1, SumType
  <2>4. SumOver(T \cup {k}, B) = SumOver(T, B) + B[k]
    BY ONLY <2>1, SumAdd
  <2> QED BY <1>1, <2>2, <2>3, <2>4
<1>4. /\ PayTotal(pay) = SumOver(S, A) /\ PayTotal(more) = SumOver(S \cup {k}, B)
      /\ \A a : PaidTo(pay, a) = SumOver(To(a), A)
  BY DEF PayTotal, PaidTo
<1>5. ASSUME NEW a
      PROVE  PaidTo(more, a) = PaidTo(pay, a) + (IF a = to THEN amount ELSE 0)
  <2> DEFINE T == {j \in DOMAIN more : more[j].to = a}
  <2>1. T = IF a = to THEN To(a) \cup {k} ELSE To(a)
    BY <1>2
  <2>2. PaidTo(more, a) = SumOver(T, B)
    BY DEF PaidTo
  <2>3. To(a) \in SUBSET S
    OBVIOUS
  <2> HIDE DEF T, A, B, To
  <2> QED BY <1>3, <1>4, <2>1, <2>2, <2>3
<1>6. SumOver(S, A) = SumOver(Others, A) + SumOver(To(from), A)
  <2> DEFINE Self == To(from)
  <2>1. /\ Others \cup Self = S /\ Others \cap Self = {}
        /\ Others \in SUBSET S /\ Self \in SUBSET S
    OBVIOUS
  <2> HIDE DEF Others, Self, A
  <2>2. /\ IsFiniteSet(Others) /\ IsFiniteSet(Self) /\ Others \cap Self = {}
        /\ \A j \in Others \cup Self : A[j] \in Nat
    BY <1>1, <2>1, FS_Subset
  <2>3. SumOver(Others \cup Self, A) = SumOver(Others, A) + SumOver(Self, A)
    BY ONLY <2>2, SumDisjoint
  <2> QED BY <2>1, <2>3 DEF Self
<1>7. /\ DOMAIN bals = Acc /\ \A a \in Acc : bals[a] \in Nat
      /\ \A a \in Acc : left[a] = bals[a] + PaidTo(pay, a)
                                    - (IF a = from THEN PayTotal(pay) ELSE 0)
  BY DEF PayAll
<1>8. \A a : PaidTo(pay, a) \in Nat
  <2> SUFFICES ASSUME NEW a PROVE PaidTo(pay, a) \in Nat
    OBVIOUS
  <2>1. To(a) \in SUBSET S
    OBVIOUS
  <2>2. SumOver(To(a), A) \in Nat
    BY ONLY <1>3, <2>1
  <2> QED BY <1>4, <2>2
<1>9. PayTotal(pay) \in Nat /\ PayTotal(more) = PayTotal(pay) + amount
  BY <1>3, <1>4
<1>10. left[from] = bals[from] - SumOver(Others, A) /\ SumOver(Others, A) \in Nat
  <2>1. SumOver(Others, A) \in Nat /\ SumOver(To(from), A) \in Nat
    BY <1>3
  <2> HIDE DEF Others, To, A
  <2> QED BY <1>4, <1>6, <1>7, <2>1
<1>11. CanPayAll(bals, from, more) <=> CanTransfer(left, from, amount)
  <2> DEFINE Before(i) == {j \in DOMAIN more : j < i /\ more[j].to # from}
  <2>1. Before(k) = Others
    <3>1. ASSUME NEW j PROVE j \in Before(k) <=> j \in Others
      <4>1. CASE j = k
        BY <1>2, <4>1
      <4>2. CASE j # k
        BY <4>2
      <4> QED BY <4>1, <4>2
    <3> HIDE DEF Before, Others
    <3> QED BY <3>1
  <2>2. ASSUME NEW i \in S
        PROVE  SumOver(Before(i), B) + more[i].amount <= bals[from]
    <3>1. Before(i) = {j \in DOMAIN pay : j < i /\ pay[j].to # from}
      <4>1. i < k
        OBVIOUS
      <4>2. ~(k < i)
        BY <4>1
      <4>3. Before(i) = {j \in S : j < i /\ more[j].to # from}
        BY ONLY <4>2, DOMAIN more = S \cup {k}
      <4>4. \A j \in S : more[j].to = pay[j].to
        OBVIOUS
      <4> HIDE DEF Before
      <4> QED BY <4>3, <4>4
    <3>2. SumOver({j \in DOMAIN pay : j < i /\ pay[j].to # from}, A) + pay[i].amount <= bals[from]
      BY DEF CanPayAll
    <3>3. Before(i) \in SUBSET S
      BY <3>1
    <3>4. SumOver(Before(i), B) = SumOver(Before(i), A)
      BY <1>3, <3>3
    <3> HIDE DEF Before, A, B
    <3> QED BY <3>1, <3>2, <3>4
  <2>3. CanPayAll(bals, from, more) <=>
            \A i \in S \cup {k} : SumOver(Before(i), B) + more[i].amount <= bals[from]
    BY DEF CanPayAll
  <2>4. SumOver(Before(k), B) = SumOver(Others, A)
    BY <1>3, <2>1
  <2>5. bals[from] \in Nat
    BY <1>7
  <2> HIDE DEF Before, Others, A, B
  <2>6. CanPayAll(bals, from, more) <=> SumOver(Others, A) + amount <= bals[from]
    BY <2>2, <2>3, <2>4
  <2> QED BY <1>10, <2>5, <2>6 DEF CanTransfer
<1>12. PayAll(bals, from, more) = Transfer(left, from, to, amount)
  <2> HIDE DEF A, B, Others, To
  <2> DEFINE T == Transfer(left, from, to, amount)
             M == PayAll(bals, from, more)
  <2>1. DOMAIN T = Acc
    BY DEF Transfer
  <2>2. M = [a \in Acc |-> bals[a] + PaidTo(more, a) - (IF a = from THEN PayTotal(more) ELSE 0)]
    BY <1>7 DEF PayAll
  <2>3. ASSUME NEW a \in Acc PROVE M[a] = T[a]
    <3>1. M[a] = bals[a] + PaidTo(more, a) - (IF a = from THEN PayTotal(more) ELSE 0)
      BY <2>2
    <3>2. T[a] = left[a] - (IF a = from THEN amount ELSE 0) + (IF a = to THEN amount ELSE 0)
      BY DEF Transfer
    <3>3. bals[a] \in Nat /\ PaidTo(pay, a) \in Nat /\ PayTotal(pay) \in Nat
      BY <1>7, <1>8, <1>9
    <3>4. left[a] = bals[a] + PaidTo(pay, a) - (IF a = from THEN PayTotal(pay) ELSE 0)
      BY <1>7
    <3>5. PaidTo(more, a) = PaidTo(pay, a) + (IF a = to THEN amount ELSE 0)
      BY <1>5
    <3> HIDE DEF T, M
    <3> QED BY <1>9, <3>1, <3>2, <3>3, <3>4, <3>5
  <2>4. DOMAIN M = Acc /\ M = [a \in Acc |-> M[a]] /\ T = [a \in Acc |-> T[a]]
    BY <2>1, <2>2 DEF Transfer
  <2> HIDE DEF T, M
  <2>5. M = T
    BY <2>3, <2>4
  <2> QED BY <2>5 DEF T, M
<1> QED BY <1>11, <1>12
=============================================================================
