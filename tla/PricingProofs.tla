----------------------------- MODULE PricingProofs -----------------------------
(***************************************************************************)
(* However a draft is edited, its lines, its codes and its footer are one  *)
(* total, the one a person reckons by hand, and no line is given more or   *)
(* less than its own tax to a minor unit; a tax is charged on the net and, *)
(* when it is compound, on the taxes before it: proved for every quantity  *)
(* and price, discounts among them, every set of tax groups and rates,     *)
(* every minor unit and any number of lines.                               *)
(*                                                                         *)
(* The model computes with folds and sums of the community modules, and a  *)
(* fold is a CHOOSE of a recursive function over the subsets of a finite   *)
(* set.  The first half shows that such a function exists, that a sum does *)
(* not depend on the order it is taken in, and that a fold over a sequence *)
(* is a run of its steps; the second half reads the document as such a run *)
(* and keeps an account of each code along it.                             *)
(***************************************************************************)
EXTENDS Pricing, TLAPS, FiniteSetTheorems, WellFoundedInduction, SequenceTheorems

-----------------------------------------------------------------------------
(* Divisions                                                               *)

LEMMA Division ==
    ASSUME NEW n \in Nat, NEW d \in Nat \ {0}
    PROVE  /\ n \div d \in Nat /\ n % d \in Nat
           /\ n = d * (n \div d) + (n % d) /\ (n % d) < d
  BY SMTT(30)

LEMMA MagnitudeType ==
    ASSUME NEW n \in Int
    PROVE  /\ Magnitude(n) \in Nat
           /\ n = Signed(n, Magnitude(n))
  BY DEF Magnitude, Signed

\* A quotient is a whole number and as near as one gets: no rounding in the program
\* is off by more than half of what it rounds to (money/amount.rs:510-542).
THEOREM RoundedToNearest ==
    ASSUME NEW value \in Int, NEW divisor \in Nat \ {0}, NEW mode
    PROVE  /\ round_div(value, divisor, mode) \in Int
           /\ 2 * Magnitude(divisor * round_div(value, divisor, mode) - value) <= divisor
<1> DEFINE m == Magnitude(value)
           q == m \div divisor
           r == m % divisor
           up == \/ 2 * r > divisor
                 \/ 2 * r = divisor /\ (mode = "half_up" \/ q % 2 # 0)
           k == IF up THEN q + 1 ELSE q
<1>1. m \in Nat /\ value = Signed(value, m)
  BY MagnitudeType
<1>2. q \in Nat /\ r \in Nat /\ m = divisor * q + r /\ r < divisor
  BY <1>1, Division
<1>3. round_div(value, divisor, mode) = Signed(value, k)
  BY DEF round_div
<1>4. k \in Nat
  BY <1>2
<1> HIDE DEF m, q, r
<1>5. 2 * Magnitude(divisor * k - m) <= divisor
  <2>1. CASE up
    <3>1. divisor * k = divisor * q + divisor
      BY <1>2, <2>1
    <3>2. 2 * r >= divisor
      BY <2>1, <1>2
    <3> HIDE DEF k, up
    <3> QED BY <3>1, <3>2, <1>2, <1>1 DEF Magnitude
  <2>2. CASE ~up
    <3>1. divisor * k = divisor * q
      BY <2>2
    <3>2. 2 * r <= divisor
      BY <2>2, <1>2
    <3> HIDE DEF k, up
    <3> QED BY <3>1, <3>2, <1>2, <1>1 DEF Magnitude
  <2> QED BY <2>1, <2>2
<1> HIDE DEF k, up
<1>6. CASE value < 0
  <2>1. Signed(value, k) = -k /\ value = -m
    BY <1>6, <1>1 DEF Signed
  <2>2. divisor * (-k) - value = -(divisor * k - m)
    BY <2>1, <1>1, <1>4
  <2>3. divisor * k - m \in Int
    BY <1>1, <1>4
  <2>4. Magnitude(-(divisor * k - m)) = Magnitude(divisor * k - m)
    BY <2>3 DEF Magnitude
  <2> QED BY <1>3, <1>4, <1>5, <2>1, <2>2, <2>4
<1>7. CASE ~(value < 0)
  BY <1>7, <1>1, <1>3, <1>4, <1>5 DEF Signed
<1> QED BY <1>6, <1>7

\* The minor unit is a positive number: what rounding to it needs of the constants.
LEMMA RoundedToMinor ==
    ASSUME NEW amount \in Int, NEW mode
    PROVE  /\ round_to_minor(amount, mode) \in Int
           /\ 2 * Magnitude(round_to_minor(amount, mode) - amount) <= MinorUnit
<1>1. MinorUnit \in Nat \ {0}
  BY PricingAssumption DEF PricingAssumption
<1> QED BY <1>1, RoundedToNearest DEF round_to_minor

-----------------------------------------------------------------------------

\* Of the sets that a collection has, one has none of its own parts in it.
LEMMA SmallestSet ==
    ASSUME NEW S, IsFiniteSet(S), NEW Bad \in SUBSET SUBSET S, Bad # {}
    PROVE  \E T \in Bad : \A U \in SUBSET T : U # T => U \notin Bad
<1> DEFINE R == StrictSubsetOrdering(S)
<1>1. Bad \subseteq FiniteSubsetsOf(S)
  BY FS_Subset DEF FiniteSubsetsOf
<1>2. IsWellFoundedOn(R, FiniteSubsetsOf(S))
  BY FS_StrictSubsetOrderingWellFounded
<1>3. PICK T \in Bad : \A U \in Bad : ~(<<U, T>> \in R)
  <2> HIDE DEF R
  <2> QED BY <1>1, <1>2, WFMin
<1>4. ASSUME NEW U \in SUBSET T, U # T PROVE U \notin Bad
  BY <1>3, <1>4 DEF StrictSubsetOrdering
<1> QED BY <1>3, <1>4

\* Counting from nothing, one at a time, reaches every count.
LEMMA Counting ==
    ASSUME NEW N \in Nat, NEW P \in SUBSET (0..N), 0 \in P,
           \A k \in P : k < N => k + 1 \in P
    PROVE  \A k \in 0..N : k \in P
<1> SUFFICES ASSUME NEW k0 \in 0..N, k0 \notin P PROVE FALSE
  OBVIOUS
<1> DEFINE Bad == {0..k : k \in (0..N) \ P}
<1>1. Bad \in SUBSET SUBSET (0..N) /\ Bad # {}
  OBVIOUS
<1>2. IsFiniteSet(0..N)
  BY FS_Interval
<1> HIDE DEF Bad
<1>3. PICK T \in Bad : \A U \in SUBSET T : U # T => U \notin Bad
  BY <1>1, <1>2, SmallestSet
<1>4. PICK k \in (0..N) \ P : T = 0..k
  BY DEF Bad
<1>5. k # 0 /\ k - 1 \in 0..N /\ k - 1 < N
  BY <1>4
<1>6. 0..(k-1) \in SUBSET T /\ 0..(k-1) # T
  BY <1>4, <1>5
<1>7. k - 1 \in P
  BY <1>3, <1>5, <1>6 DEF Bad
<1> QED BY <1>4, <1>5, <1>7

\* A fold over the elements of S from base, each step taking what pick picks of
\* what is left, by the step function G over the values of V.
Foldable(S, V, base, G, pick) ==
    /\ IsFiniteSet(S) /\ base \in V /\ G \in [S \X V -> V]
    /\ \A T \in SUBSET S : T # {} => pick[T] \in T

FoldOf(h, S, V, base, G, pick) ==
    /\ h \in [SUBSET S -> V]
    /\ \A T \in SUBSET S :
          h[T] = IF T = {} THEN base ELSE G[<<pick[T], h[T \ {pick[T]}]>>]

\* Such a fold is a function: the recursion of the library's folds has a solution.
LEMMA FoldExists ==
    ASSUME NEW S, NEW V, NEW base, NEW G, NEW pick, Foldable(S, V, base, G, pick)
    PROVE  \E h : FoldOf(h, S, V, base, G, pick)
<1> USE DEF Foldable
<1> DEFINE Rule(h, T) == h[T] = IF T = {} THEN base ELSE G[<<pick[T], h[T \ {pick[T]}]>>]
           Small(k) == {T \in SUBSET S : Cardinality(T) <= k}
           Solves(h, k) == h \in [Small(k) -> V] /\ \A T \in Small(k) : Rule(h, T)
           N == Cardinality(S)
           P == {k \in 0..N : \E h : Solves(h, k)}
<1>1. N \in Nat /\ Small(N) = SUBSET S
  BY FS_CardinalityType, FS_Subset
<1>2. \A T \in SUBSET S : IsFiniteSet(T) /\ Cardinality(T) \in Nat
  BY FS_Subset, FS_CardinalityType
<1>3. 0 \in P
  <2>1. Small(0) = {{}}
    BY <1>2, FS_EmptySet
  <2>2. Solves([T \in Small(0) |-> base], 0)
    BY <2>1
  <2>3. \E h : Solves(h, 0)
    <3> HIDE DEF Solves
    <3> QED BY <2>2
  <2> HIDE DEF Solves
  <2> QED BY <2>3, <1>1
<1>4. ASSUME NEW k \in P, k < N PROVE k + 1 \in P
  <2>1. PICK h : Solves(h, k)
    OBVIOUS
  <2> DEFINE g == [T \in Small(k+1) |-> IF T = {} THEN base
                                        ELSE G[<<pick[T], h[T \ {pick[T]}]>>]]
  <2>2. ASSUME NEW T \in Small(k+1), T # {}
        PROVE  pick[T] \in S /\ T \ {pick[T]} \in Small(k)
    <3>1. T \in SUBSET S /\ pick[T] \in T /\ IsFiniteSet(T)
      BY <1>2, <2>2
    <3>2. Cardinality(T \ {pick[T]}) = Cardinality(T) - 1
      BY <3>1, FS_RemoveElement
    <3> QED BY <1>2, <3>1, <3>2
  <2>3. g \in [Small(k+1) -> V]
    BY <2>1, <2>2
  <2>4. ASSUME NEW T \in Small(k) PROVE T \in Small(k+1) /\ g[T] = h[T]
    <3>1. T \in Small(k+1)
      BY <1>2
    <3>2. Rule(h, T)
      BY <2>1
    <3> QED BY <3>1, <3>2
  <2>5. ASSUME NEW T \in Small(k+1) PROVE Rule(g, T)
    <3>1. CASE T = {}
      BY <3>1
    <3>2. CASE T # {}
      <4>1. g[T] = G[<<pick[T], h[T \ {pick[T]}]>>]
        BY <3>2
      <4>2. g[T \ {pick[T]}] = h[T \ {pick[T]}]
        BY <2>2, <2>4, <3>2
      <4> QED BY <4>1, <4>2, <3>2
    <3> QED BY <3>1, <3>2
  <2>6. Solves(g, k+1)
    BY <2>3, <2>5
  <2> HIDE DEF g, Solves
  <2> QED BY <2>6, <1>1, <1>4
<1>5. N \in P
  <2> HIDE DEF P, N
  <2>1. P \in SUBSET (0..N)
    BY DEF P
  <2>2. \A k \in 0..N : k \in P
    BY <1>1, <1>3, <1>4, <2>1, Counting
  <2> QED BY <1>1, <2>2
<1>6. PICK h : Solves(h, N)
  BY <1>5
<1>7. h \in [SUBSET S -> V] /\ \A T \in SUBSET S : Rule(h, T)
  BY <1>1, <1>6
<1> QED BY <1>7 DEF FoldOf

-----------------------------------------------------------------------------
(* Sums                                                                    *)

Picked(T) == CHOOSE x \in T : TRUE

\* h sums up f over every part of S, as the library does it.
SumsUp(h, f, S) ==
    h = [T \in SUBSET S |-> IF T = {} THEN 0 ELSE f[Picked(T)] + h[T \ {Picked(T)}]]

\* h sums up f over every part of S, in whatever order.
Sums(h, f, S) ==
    /\ h \in [SUBSET S -> Int] /\ h[{}] = 0
    /\ \A T \in SUBSET S : \A x \in T : h[T] = f[x] + h[T \ {x}]

Summable(f, S) == IsFiniteSet(S) /\ f \in [S -> Int]

LEMMA SumRuns ==
    ASSUME NEW S, NEW f, Summable(f, S)
    PROVE  \E h \in [SUBSET S -> Int] : SumsUp(h, f, S) /\ SumFunction(f) = h[S]
<1> IsFiniteSet(S) /\ f \in [S -> Int]
  BY DEF Summable
<1> DEFINE G == [p \in S \X Int |-> f[p[1]] + p[2]]
           pick == [T \in SUBSET S |-> Picked(T)]
           H(h) == h = [T \in SUBSET S |-> IF T = {} THEN 0
                                           ELSE f[Picked(T)] + h[T \ {Picked(T)}]]
           it == CHOOSE h : H(h)
<1>1. /\ \A T \in SUBSET S : T # {} => pick[T] \in T
      /\ \A T \in SUBSET S : pick[T] = Picked(T)
  BY DEF Picked
<1>2. G \in [S \X Int -> Int]
  OBVIOUS
<1>3. PICK h : FoldOf(h, S, Int, 0, G, pick)
  <2> HIDE DEF G, pick
  <2>1. Foldable(S, Int, 0, G, pick)
    BY <1>1, <1>2 DEF Foldable
  <2> QED BY <2>1, FoldExists
<1>4. ASSUME NEW T \in SUBSET S
      PROVE  h[T] = IF T = {} THEN 0 ELSE f[Picked(T)] + h[T \ {Picked(T)}]
  <2>1. h[T] = IF T = {} THEN 0 ELSE G[<<pick[T], h[T \ {pick[T]}]>>]
    BY <1>3, Zenon DEF FoldOf
  <2>2. CASE T # {}
    <3>1. Picked(T) \in S /\ pick[T] = Picked(T) /\ h[T \ {Picked(T)}] \in Int
      BY <1>1, <1>3, <2>2 DEF FoldOf
    <3> QED BY <2>1, <2>2, <3>1
  <2> QED BY <2>1, <2>2
<1>5. h \in [SUBSET S -> Int] /\ H(h)
  BY <1>3, <1>4 DEF FoldOf
<1>6. H(it)
  BY <1>5, Zenon
<1>7. SumFunction(f) = it[S]
  BY DEF SumFunction, SumFunctionOnSet, FoldFunctionOnSet, MapThenFoldSet, Picked
<1>8. it = h
  <2> DEFINE Bad == {T \in SUBSET S : it[T] # h[T]}
  <2>1. SUFFICES Bad = {}
    <3>1. \A T \in SUBSET S : it[T] = h[T]
      BY <2>1
    <3> HIDE DEF it
    <3> QED BY <1>5, <1>6, <3>1
  <2>2. SUFFICES ASSUME Bad # {} PROVE FALSE
    OBVIOUS
  <2> HIDE DEF it
  <2>3. PICK T \in Bad : \A U \in SUBSET T : U # T => U \notin Bad
    <3>1. Bad \in SUBSET SUBSET S
      OBVIOUS
    <3> HIDE DEF Bad
    <3> QED BY <2>2, <3>1, SmallestSet
  <2>4. CASE T = {}
    BY <2>4, <1>4, <1>6
  <2>5. CASE T # {}
    <3>1. Picked(T) \in T
      BY <1>1, <2>5
    <3>2. it[T \ {Picked(T)}] = h[T \ {Picked(T)}]
      BY <2>3, <3>1
    <3>3. it[T] = f[Picked(T)] + it[T \ {Picked(T)}]
      BY <1>6, <2>5
    <3> QED BY <3>2, <3>3, <1>4, <2>5
  <2> QED BY <2>4, <2>5
<1> HIDE DEF it
<1> QED BY <1>5, <1>7, <1>8 DEF SumsUp

LEMMA AnyOrder ==
    ASSUME NEW S, NEW f, Summable(f, S),
           NEW h \in [SUBSET S -> Int], SumsUp(h, f, S)
    PROVE  Sums(h, f, S)
<1> IsFiniteSet(S) /\ f \in [S -> Int]
  BY DEF Summable
<1>1. ASSUME NEW T \in SUBSET S
      PROVE  h[T] = IF T = {} THEN 0 ELSE f[Picked(T)] + h[T \ {Picked(T)}]
  BY DEF SumsUp
<1>2. \A T \in SUBSET S : T # {} => Picked(T) \in T
  BY DEF Picked
<1> DEFINE Bad == {T \in SUBSET S : \E x \in T : h[T] # f[x] + h[T \ {x}]}
<1>3. SUFFICES Bad = {}
  BY <1>1, <1>3 DEF Sums
<1>4. SUFFICES ASSUME Bad # {} PROVE FALSE
  OBVIOUS
<1>5. PICK T \in Bad : \A U \in SUBSET T : U # T => U \notin Bad
  <2>1. Bad \in SUBSET SUBSET S
    OBVIOUS
  <2> HIDE DEF Bad
  <2> QED BY <1>4, <2>1, SmallestSet
<1>6. PICK x \in T : h[T] # f[x] + h[T \ {x}]
  BY <1>5
<1> DEFINE c == Picked(T)
<1>7. c \in T /\ h[T] = f[c] + h[T \ {c}]
  BY <1>1, <1>2, <1>6
<1> HIDE DEF c
<1>8. x # c
  BY <1>6, <1>7
<1>9. h[T \ {c}] = f[x] + h[(T \ {c}) \ {x}]
  BY <1>5, <1>6, <1>7, <1>8
<1>10. h[T \ {x}] = f[c] + h[(T \ {x}) \ {c}]
  BY <1>5, <1>6, <1>7, <1>8
<1>11. (T \ {c}) \ {x} = (T \ {x}) \ {c}
  OBVIOUS
<1>12. h[(T \ {x}) \ {c}] \in Int /\ f[x] \in Int /\ f[c] \in Int
  <2>1. (T \ {x}) \ {c} \in SUBSET S /\ x \in S /\ c \in S
    BY <1>5, <1>6, <1>7
  <2> QED BY <2>1
<1> HIDE DEF Bad
<1>13. h[T] = f[c] + (f[x] + h[(T \ {x}) \ {c}])
  BY <1>7, <1>9, <1>11
<1>14. h[T] = f[x] + (f[c] + h[(T \ {x}) \ {c}])
  BY <1>12, <1>13
<1> QED BY <1>6, <1>10, <1>14

LEMMA SumsOf ==
    ASSUME NEW S, NEW f, Summable(f, S)
    PROVE  \E h : Sums(h, f, S) /\ SumFunction(f) = h[S]
<1>1. PICK h \in [SUBSET S -> Int] : SumsUp(h, f, S) /\ SumFunction(f) = h[S]
  BY SumRuns
<1>2. IsFiniteSet(S) /\ f \in [S -> Int]
  BY DEF Summable
<1>3. Sums(h, f, S)
  BY <1>1, <1>2, AnyOrder
<1> QED BY <1>1, <1>3

\* A sum over a part is what the table of sums over the whole says of the part.
LEMMA SumTable ==
    ASSUME NEW S, NEW f, Summable(f, S)
    PROVE  \E h : /\ Sums(h, f, S)
                  /\ \A T \in SUBSET S : SumFunction([x \in T |-> f[x]]) = h[T]
<1> IsFiniteSet(S) /\ f \in [S -> Int]
  BY DEF Summable
<1>1. PICK h \in [SUBSET S -> Int] : SumsUp(h, f, S)
  BY SumRuns
<1>2. Sums(h, f, S)
  BY <1>1, AnyOrder
<1>3. ASSUME NEW T \in SUBSET S
      PROVE  SumFunction([x \in T |-> f[x]]) = h[T]
  <2> DEFINE g == [x \in T |-> f[x]]
  <2>1. \A x \in T : g[x] = f[x]
    OBVIOUS
  <2>2. IsFiniteSet(T) /\ Summable(g, T)
    BY FS_Subset DEF Summable
  <2> HIDE DEF g
  <2>3. PICK k \in [SUBSET T -> Int] : SumsUp(k, g, T) /\ SumFunction(g) = k[T]
    BY <2>2, SumRuns
  <2>4. Sums(k, g, T)
    BY <2>2, <2>3, AnyOrder
  <2> DEFINE Bad == {U \in SUBSET T : k[U] # h[U]}
  <2>5. SUFFICES Bad = {}
    BY <2>3, <2>5 DEF g
  <2>6. SUFFICES ASSUME Bad # {} PROVE FALSE
    OBVIOUS
  <2>7. PICK U \in Bad : \A W \in SUBSET U : W # U => W \notin Bad
    <3>1. Bad \in SUBSET SUBSET T
      OBVIOUS
    <3> HIDE DEF Bad
    <3> QED BY <2>2, <2>6, <3>1, SmallestSet
  <2>8. CASE U = {}
    BY <2>7, <2>8, <2>4, <1>2 DEF Sums
  <2>9. CASE U # {}
    <3>1. PICK x \in U : TRUE
      BY <2>9
    <3>2. k[U \ {x}] = h[U \ {x}]
      BY <2>7, <3>1
    <3>3. k[U] = g[x] + k[U \ {x}]
      BY <2>4, <2>7, <3>1 DEF Sums
    <3>4. h[U] = f[x] + h[U \ {x}]
      BY <1>2, <2>7, <3>1 DEF Sums
    <3> QED BY <2>1, <2>7, <3>1, <3>2, <3>3, <3>4
  <2> QED BY <2>8, <2>9
<1> QED BY <1>2, <1>3

LEMMA SumType ==
    ASSUME NEW S, NEW f, Summable(f, S)
    PROVE  SumFunction(f) \in Int
<1>1. PICK h \in [SUBSET S -> Int] : SumFunction(f) = h[S]
  BY SumRuns
<1> QED BY <1>1

LEMMA SumOfNone ==
    ASSUME NEW f \in [{} -> Int]
    PROVE  SumFunction(f) = 0
<1>1. PICK h : Sums(h, f, {}) /\ \A T \in SUBSET {} : SumFunction([x \in T |-> f[x]]) = h[T]
  <2>1. Summable(f, {})
    BY FS_EmptySet DEF Summable
  <2> QED BY <2>1, SumTable
<1>2. [x \in {} |-> f[x]] = f
  OBVIOUS
<1> QED BY <1>1, <1>2 DEF Sums

\* One of the summands can be taken out, whichever it is.
LEMMA SumTakes ==
    ASSUME NEW S, NEW f, Summable(f, S), NEW x \in S
    PROVE  SumFunction(f) = f[x] + SumFunction(Restrict(f, S \ {x}))
<1> IsFiniteSet(S) /\ f \in [S -> Int]
  BY DEF Summable
<1>1. PICK h : Sums(h, f, S) /\ \A T \in SUBSET S : SumFunction([y \in T |-> f[y]]) = h[T]
  BY SumTable
<1>2. [y \in S |-> f[y]] = f
  OBVIOUS
<1>3. SumFunction(f) = h[S]
  <2>1. SumFunction([y \in S |-> f[y]]) = h[S]
    BY <1>1
  <2> QED BY <1>2, <2>1
<1>4. SumFunction([y \in S \ {x} |-> f[y]]) = h[S \ {x}]
  BY <1>1
<1> QED BY <1>1, <1>3, <1>4 DEF Sums, Restrict

\* Sums are added summand by summand.
LEMMA SumAdds ==
    ASSUME NEW S, NEW f, Summable(f, S), NEW g, Summable(g, S)
    PROVE  SumFunction([x \in S |-> f[x] + g[x]]) = SumFunction(f) + SumFunction(g)
<1> IsFiniteSet(S) /\ f \in [S -> Int] /\ g \in [S -> Int]
  BY DEF Summable
<1> DEFINE e == [x \in S |-> f[x] + g[x]]
<1>1. Summable(e, S) /\ \A x \in S : e[x] = f[x] + g[x]
  BY DEF Summable
<1>2. PICK hf : Sums(hf, f, S) /\ SumFunction(f) = hf[S]
  BY SumsOf
<1>3. PICK hg : Sums(hg, g, S) /\ SumFunction(g) = hg[S]
  BY SumsOf
<1> HIDE DEF e
<1>4. PICK he : Sums(he, e, S) /\ SumFunction(e) = he[S]
  BY <1>1, SumsOf
<1> DEFINE Bad == {T \in SUBSET S : he[T] # hf[T] + hg[T]}
<1>5. SUFFICES Bad = {}
  BY <1>2, <1>3, <1>4, <1>5 DEF e
<1>6. SUFFICES ASSUME Bad # {} PROVE FALSE
  OBVIOUS
<1>7. PICK T \in Bad : \A U \in SUBSET T : U # T => U \notin Bad
  <2>1. Bad \in SUBSET SUBSET S
    OBVIOUS
  <2> HIDE DEF Bad
  <2> QED BY <1>6, <2>1, SmallestSet
<1>8. CASE T = {}
  BY <1>2, <1>3, <1>4, <1>7, <1>8 DEF Sums
<1>9. CASE T # {}
  <2>1. PICK x \in T : TRUE
    BY <1>9
  <2>2. T \in SUBSET S /\ x \in S /\ T \ {x} \in SUBSET S /\ T \ {x} # T
    BY <1>7, <2>1
  <2>3. he[T \ {x}] = hf[T \ {x}] + hg[T \ {x}]
    BY <1>7, <2>2
  <2>4. /\ he[T] = e[x] + he[T \ {x}]
        /\ hf[T] = f[x] + hf[T \ {x}]
        /\ hg[T] = g[x] + hg[T \ {x}]
        /\ hf[T \ {x}] \in Int /\ hg[T \ {x}] \in Int /\ f[x] \in Int /\ g[x] \in Int
    BY <1>2, <1>3, <1>4, <2>1, <2>2 DEF Sums
  <2>5. he[T] # hf[T] + hg[T]
    BY <1>7
  <2> HIDE DEF Bad
  <2> QED BY <1>1, <2>2, <2>3, <2>4, <2>5
<1> QED BY <1>8, <1>9

LEMMA SumOfZeros ==
    ASSUME NEW S, NEW f, Summable(f, S), \A x \in S : f[x] = 0
    PROVE  SumFunction(f) = 0
<1> IsFiniteSet(S) /\ f \in [S -> Int]
  BY DEF Summable
<1>1. [x \in S |-> f[x] + f[x]] = f
  OBVIOUS
<1>2. SumFunction(f) = SumFunction(f) + SumFunction(f)
  BY <1>1, SumAdds
<1> DEFINE t == SumFunction(f)
<1>3. t \in Int
  BY SumType
<1>4. t = t + t
  BY <1>2
<1> HIDE DEF t
<1>5. t = 0
  BY <1>3, <1>4
<1> QED BY <1>5 DEF t

\* A sum of which only one summand is not zero.
LEMMA SumOfOne ==
    ASSUME NEW S, NEW f, Summable(f, S), NEW x \in S,
           \A y \in S \ {x} : f[y] = 0
    PROVE  SumFunction(f) = f[x]
<1> IsFiniteSet(S) /\ f \in [S -> Int]
  BY DEF Summable
<1> DEFINE g == Restrict(f, S \ {x})
<1>1. \A y \in S \ {x} : g[y] = 0
  BY DEF Restrict
<1>2. Summable(g, S \ {x})
  BY FS_RemoveElement DEF Summable, Restrict
<1>3. SumFunction(f) = f[x] + SumFunction(g)
  BY SumTakes
<1> HIDE DEF g
<1>4. SumFunction(g) = 0
  BY <1>1, <1>2, SumOfZeros
<1> QED BY <1>3, <1>4

\* What is left out of a sum counts as nothing.
LEMMA SumOfPart ==
    ASSUME NEW S, NEW f, Summable(f, S), NEW T \in SUBSET S
    PROVE  SumFunction(Restrict(f, T)) = SumFunction([x \in S |-> IF x \in T THEN f[x] ELSE 0])
<1> IsFiniteSet(S) /\ f \in [S -> Int]
  BY DEF Summable
<1> DEFINE g == [x \in S |-> IF x \in T THEN f[x] ELSE 0]
<1>1. Summable(g, S) /\ \A x \in S : g[x] = IF x \in T THEN f[x] ELSE 0
  BY DEF Summable
<1>2. PICK hf : /\ Sums(hf, f, S)
                /\ \A U \in SUBSET S : SumFunction([x \in U |-> f[x]]) = hf[U]
  BY SumTable
<1> HIDE DEF g
<1>3. PICK hg : Sums(hg, g, S) /\ SumFunction(g) = hg[S]
  BY <1>1, SumsOf
<1> DEFINE Bad == {U \in SUBSET S : hg[U] # hf[U \cap T]}
<1>4. SUFFICES Bad = {}
  <2>1. hg[S] = hf[S \cap T] /\ S \cap T = T
    BY <1>4
  <2>2. SumFunction(Restrict(f, T)) = hf[T]
    BY <1>2 DEF Restrict
  <2> QED BY <1>3, <2>1, <2>2 DEF g
<1>5. SUFFICES ASSUME Bad # {} PROVE FALSE
  OBVIOUS
<1>6. PICK U \in Bad : \A W \in SUBSET U : W # U => W \notin Bad
  <2>1. Bad \in SUBSET SUBSET S
    OBVIOUS
  <2> HIDE DEF Bad
  <2> QED BY <1>5, <2>1, SmallestSet
<1>7. CASE U = {}
  <2>1. U \cap T = {}
    BY <1>7
  <2> QED BY <1>2, <1>3, <1>6, <1>7, <2>1 DEF Sums
<1>8. CASE U # {}
  <2>1. PICK x \in U : TRUE
    BY <1>8
  <2>2. U \in SUBSET S /\ x \in S /\ U \ {x} \in SUBSET S /\ U \ {x} # U
    BY <1>6, <2>1
  <2>3. hg[U \ {x}] = hf[(U \ {x}) \cap T]
    BY <1>6, <2>2
  <2>4. hg[U] = g[x] + hg[U \ {x}] /\ hg[U \ {x}] \in Int
    BY <1>3, <2>1, <2>2 DEF Sums
  <2>5. hg[U] # hf[U \cap T]
    BY <1>6
  <2> HIDE DEF Bad
  <2>6. CASE x \in T
    <3>1. U \cap T \in SUBSET S /\ x \in U \cap T /\ (U \cap T) \ {x} = (U \ {x}) \cap T
      BY <2>1, <2>2, <2>6
    <3>2. hf[U \cap T] = f[x] + hf[(U \cap T) \ {x}]
      BY <1>2, <3>1 DEF Sums
    <3> QED BY <1>1, <2>2, <2>3, <2>4, <2>5, <2>6, <3>1, <3>2
  <2>7. CASE x \notin T
    <3>1. (U \ {x}) \cap T = U \cap T
      BY <2>7
    <3>2. g[x] = 0
      BY <1>1, <2>2, <2>7
    <3>3. hg[U] = hg[U \ {x}]
      BY <2>4, <3>2
    <3> QED BY <2>3, <2>5, <3>1, <3>3
  <2> QED BY <2>6, <2>7
<1> QED BY <1>7, <1>8

\* A table adds up to the same by its rows and by its columns.
Table(F, S, T) == IsFiniteSet(S) /\ IsFiniteSet(T) /\ F \in [S -> [T -> Int]]

LEMMA SumSwaps ==
    ASSUME NEW S, NEW T, NEW F, Table(F, S, T)
    PROVE  SumFunction([x \in S |-> SumFunction(F[x])])
              = SumFunction([y \in T |-> SumFunction([x \in S |-> F[x][y]])])
<1> IsFiniteSet(S) /\ IsFiniteSet(T) /\ F \in [S -> [T -> Int]]
  BY DEF Table
<1> DEFINE r == [x \in S |-> SumFunction(F[x])]
           Column(U) == [y \in T |-> SumFunction([x \in U |-> F[x][y]])]
<1>1. Summable(r, S) /\ \A x \in S : r[x] = SumFunction(F[x])
  <2>1. \A x \in S : Summable(F[x], T)
    BY DEF Summable
  <2>2. \A x \in S : SumFunction(F[x]) \in Int
    BY <2>1, SumType
  <2> QED BY <2>2 DEF Summable
<1>2. ASSUME NEW U \in SUBSET S, NEW y \in T
      PROVE  /\ Summable([x \in U |-> F[x][y]], U)
             /\ SumFunction([x \in U |-> F[x][y]]) \in Int
  <2>1. Summable([x \in U |-> F[x][y]], U)
    BY FS_Subset DEF Summable
  <2> QED BY <2>1, SumType
<1>3. ASSUME NEW U \in SUBSET S PROVE Summable(Column(U), T)
  <2>1. \A y \in T : SumFunction([x \in U |-> F[x][y]]) \in Int
    BY <1>2
  <2>2. Column(U) \in [T -> Int]
    BY <2>1
  <2> QED BY <2>2 DEF Summable
<1>4. PICK hr : /\ Sums(hr, r, S) /\ SumFunction(r) = hr[S]
  <2> HIDE DEF r
  <2> QED BY <1>1, SumsOf
<1> DEFINE Bad == {U \in SUBSET S : hr[U] # SumFunction(Column(U))}
<1>5. SUFFICES Bad = {}
  BY <1>4, <1>5
<1>6. SUFFICES ASSUME Bad # {} PROVE FALSE
  OBVIOUS
<1>7. PICK U \in Bad : \A W \in SUBSET U : W # U => W \notin Bad
  <2>1. Bad \in SUBSET SUBSET S
    OBVIOUS
  <2> HIDE DEF Bad
  <2> QED BY <1>6, <2>1, SmallestSet
<1>8. U \in SUBSET S /\ hr[U] # SumFunction(Column(U))
  BY <1>7
<1>9. CASE U = {}
  <2>1. ASSUME NEW y \in T PROVE Column(U)[y] = 0
    <3>1. [x \in U |-> F[x][y]] \in [{} -> Int]
      BY <1>9
    <3> QED BY <3>1, SumOfNone
  <2>2. SumFunction(Column(U)) = 0
    <3> HIDE DEF Column
    <3> QED BY <1>3, <1>8, <2>1, SumOfZeros
  <2>3. hr[U] = 0
    BY <1>4, <1>9 DEF Sums
  <2> QED BY <1>8, <2>2, <2>3
<1>10. CASE U # {}
  <2>1. PICK x \in U : TRUE
    BY <1>10
  <2>2. x \in S /\ U \ {x} \in SUBSET S /\ U \ {x} # U
    BY <1>8, <2>1
  <2>3. hr[U \ {x}] = SumFunction(Column(U \ {x}))
    BY <1>7, <2>2
  <2>4. hr[U] = r[x] + hr[U \ {x}]
    BY <1>4, <1>8, <2>1 DEF Sums
  <2>5. ASSUME NEW y \in T PROVE Column(U)[y] = F[x][y] + Column(U \ {x})[y]
    <3> DEFINE c == [z \in U |-> F[z][y]]
    <3>1. Summable(c, U) /\ c[x] = F[x][y]
      BY <1>2, <1>8, <2>1
    <3>2. Restrict(c, U \ {x}) = [z \in U \ {x} |-> F[z][y]]
      BY DEF Restrict
    <3>3. SumFunction(c) = c[x] + SumFunction(Restrict(c, U \ {x}))
      <4> HIDE DEF c
      <4> QED BY <3>1, <2>1, SumTakes
    <3> QED BY <3>1, <3>2, <3>3
  <2>6. Summable(F[x], T)
    BY <2>2 DEF Summable
  <2> DEFINE a == Column(U)
             b == Column(U \ {x})
  <2>7. Summable(a, T) /\ Summable(b, T) /\ \A y \in T : a[y] = F[x][y] + b[y]
    BY <1>3, <1>8, <2>2, <2>5
  <2>8. SumFunction(a) = SumFunction(F[x]) + SumFunction(b)
    <3> HIDE DEF a, b
    <3>1. a = [y \in T |-> F[x][y] + b[y]]
      BY <2>7 DEF Summable
    <3> QED BY <2>6, <2>7, <3>1, SumAdds
  <2> HIDE DEF r, Column
  <2> QED BY <1>1, <1>8, <2>2, <2>3, <2>4, <2>8
<1> QED BY <1>9, <1>10

-----------------------------------------------------------------------------
(* Sequences                                                               *)

\* The steps of a fold are counted by the last position there is.
LEMMA LastPosition ==
    ASSUME NEW k \in Nat \ {0}
    PROVE  /\ Max(1..k) = k /\ 1..k # {}
           /\ (1..k) \ {Max(1..k)} = 1..(k-1)
<1>1. k \in 1..k /\ \A y \in 1..k : k >= y
  OBVIOUS
<1>2. \A x \in 1..k : (\A y \in 1..k : x >= y) => x = k
  BY <1>1
<1>3. Max(1..k) = k
  BY <1>1, <1>2 DEF Max
<1>4. (1..k) \ {k} = 1..(k-1)
  OBVIOUS
<1> QED BY <1>1, <1>3, <1>4

LEMMA LastPick ==
    ASSUME NEW n \in Nat
    PROVE  /\ IsFiniteSet(1..n)
           /\ \A T \in SUBSET (1..n) : T # {} => Max(T) \in T
<1>1. IsFiniteSet(1..n)
  BY FS_Interval
<1> DEFINE Bad == {T \in SUBSET (1..n) : T # {} /\ ~\E x \in T : \A y \in T : x >= y}
<1>2. Bad = {}
  <2>1. SUFFICES ASSUME Bad # {} PROVE FALSE
    OBVIOUS
  <2>2. PICK T \in Bad : \A U \in SUBSET T : U # T => U \notin Bad
    <3>1. Bad \in SUBSET SUBSET (1..n)
      OBVIOUS
    <3> HIDE DEF Bad
    <3> QED BY <1>1, <2>1, <3>1, SmallestSet
  <2>3. PICK z \in T : TRUE
    BY <2>2
  <2>4. CASE T = {z}
    BY <2>2, <2>3, <2>4
  <2>5. CASE T # {z}
    <3>1. T \ {z} \in SUBSET T /\ T \ {z} # T /\ T \ {z} # {}
      BY <2>3, <2>5
    <3>2. PICK x \in T \ {z} : \A y \in T \ {z} : x >= y
      BY <2>2, <3>1
    <3>3. CASE x >= z
      BY <2>2, <3>2, <3>3
    <3>4. CASE ~(x >= z)
      <4>1. \A y \in T : z >= y
        BY <2>2, <2>3, <3>2, <3>4
      <4> QED BY <2>2, <2>3, <4>1
    <3> QED BY <3>3, <3>4
  <2> QED BY <2>4, <2>5
<1>3. ASSUME NEW T \in SUBSET (1..n), T # {} PROVE Max(T) \in T
  <2>1. \E x \in T : \A y \in T : x >= y
    BY <1>2, <1>3
  <2> QED BY <2>1 DEF Max
<1> QED BY <1>1, <1>3

-----------------------------------------------------------------------------
(* The taxes of a group in sequence                                        *)

\* A set of positions can be listed by a key that tells them apart.
LEMMA Listing ==
    ASSUME NEW n \in Nat, NEW key \in [1..n -> Int],
           \A i, j \in 1..n : i # j => key[i] # key[j]
    PROVE  \E p \in [1..n -> 1..n] : \A i, j \in 1..n : i < j => key[p[i]] < key[p[j]]
<1> DEFINE Listed(T) == \E p \in [1..Cardinality(T) -> T] :
                           \A i, j \in 1..Cardinality(T) : i < j => key[p[i]] < key[p[j]]
           Highest(T) == \E m \in T : \A i \in T : key[i] <= key[m]
           Bad == {T \in SUBSET (1..n) : ~Listed(T)}
           Flat == {T \in SUBSET (1..n) : T # {} /\ ~Highest(T)}
<1>1. IsFiniteSet(1..n) /\ Cardinality(1..n) = n
  BY FS_Interval
<1>2. Flat = {}
  <2>1. SUFFICES ASSUME Flat # {} PROVE FALSE
    OBVIOUS
  <2>2. PICK T \in Flat : \A U \in SUBSET T : U # T => U \notin Flat
    <3>1. Flat \in SUBSET SUBSET (1..n)
      OBVIOUS
    <3> HIDE DEF Flat
    <3> QED BY <1>1, <2>1, <3>1, SmallestSet
  <2>3. PICK z \in T : TRUE
    BY <2>2
  <2>4. CASE T = {z}
    BY <2>2, <2>3, <2>4
  <2>5. CASE T # {z}
    <3>1. T \ {z} \in SUBSET T /\ T \ {z} # T /\ T \ {z} # {}
      BY <2>3, <2>5
    <3>2. PICK m \in T \ {z} : \A i \in T \ {z} : key[i] <= key[m]
      BY <2>2, <3>1
    <3>3. key[m] \in Int /\ key[z] \in Int /\ \A i \in T : key[i] \in Int
      BY <2>2, <2>3, <3>2
    <3>4. CASE key[z] <= key[m]
      BY <2>2, <3>2, <3>4
    <3>5. CASE ~(key[z] <= key[m])
      <4>1. ASSUME NEW i \in T PROVE key[i] <= key[z]
        <5>1. CASE i = z
          BY <5>1, <3>3
        <5>2. CASE i # z
          <6>1. key[i] <= key[m] /\ key[i] \in Int
            BY <3>2, <3>3, <5>2
          <6>2. \A a, b, c \in Int : a <= b /\ ~(c <= b) => a <= c
            OBVIOUS
          <6> QED BY <3>3, <3>5, <6>1, <6>2
        <5> QED BY <5>1, <5>2
      <4> QED BY <2>2, <2>3, <4>1
    <3> QED BY <3>4, <3>5
  <2> QED BY <2>4, <2>5
<1>3. Bad = {}
  <2>1. SUFFICES ASSUME Bad # {} PROVE FALSE
    OBVIOUS
  <2>2. PICK T \in Bad : \A U \in SUBSET T : U # T => U \notin Bad
    <3>1. Bad \in SUBSET SUBSET (1..n)
      OBVIOUS
    <3> HIDE DEF Bad
    <3> QED BY <1>1, <2>1, <3>1, SmallestSet
  <2>3. IsFiniteSet(T) /\ Cardinality(T) \in Nat /\ T \in SUBSET (1..n)
    BY <1>1, <2>2, FS_Subset, FS_CardinalityType
  <2> DEFINE c == Cardinality(T)
  <2>4. CASE T = {}
    <3>1. Cardinality(T) = 0
      BY <2>4, FS_EmptySet
    <3>2. [i \in {} |-> 0] \in [1..Cardinality(T) -> T] /\ 1..Cardinality(T) = {}
      BY <3>1
    <3>3. Listed(T)
      BY <3>2
    <3> QED BY <2>2, <3>3
  <2>5. CASE T # {}
    <3>1. PICK m \in T : \A i \in T : key[i] <= key[m]
      BY <1>2, <2>3, <2>5
    <3>2. Cardinality(T \ {m}) = c - 1 /\ c \in Nat /\ c # 0
      BY <2>3, <2>5, <3>1, FS_RemoveElement, FS_EmptySet
    <3>3. Listed(T \ {m})
      <4> DEFINE U == T \ {m}
      <4>1. U \in SUBSET T /\ U # T /\ U \in SUBSET (1..n)
        BY <2>3, <3>1
      <4> HIDE DEF U, Listed
      <4>2. Listed(U)
        BY <2>2, <4>1
      <4> QED BY <4>2 DEF U
    <3> HIDE DEF c
    <3>4. PICK q \in [1..(c-1) -> T \ {m}] :
             \A i, j \in 1..(c-1) : i < j => key[q[i]] < key[q[j]]
      BY <3>2, <3>3
    <3> DEFINE p == [i \in 1..c |-> IF i = c THEN m ELSE q[i]]
    <3>5. \A i \in 1..c : i # c => i \in 1..(c-1)
      BY <3>2
    <3>6. p \in [1..c -> T]
      BY <3>1, <3>4, <3>5
    <3>7. ASSUME NEW i \in 1..c, NEW j \in 1..c, i < j PROVE key[p[i]] < key[p[j]]
      <4>1. i \in 1..(c-1) /\ p[i] = q[i] /\ q[i] \in T /\ q[i] # m
        BY <3>2, <3>4, <3>5, <3>7
      <4>2. CASE j = c
        <5>1. p[j] = m /\ key[q[i]] <= key[m] /\ key[q[i]] # key[m]
          BY <2>3, <3>1, <4>1, <4>2
        <5>2. key[q[i]] \in Int /\ key[m] \in Int
          BY <2>3, <3>1, <4>1
        <5> HIDE DEF p
        <5> QED BY <4>1, <5>1, <5>2
      <4>3. CASE j # c
        BY <3>4, <3>5, <3>7, <4>1, <4>3
      <4> QED BY <4>2, <4>3
    <3> HIDE DEF p
    <3>8. Listed(T)
      BY <3>6, <3>7 DEF c
    <3> QED BY <2>2, <3>8
  <2> QED BY <2>4, <2>5
<1>4. Listed(1..n)
  BY <1>3
<1> QED BY <1>1, <1>4

Sorted(members) ==
    \A i, j \in DOMAIN members : i < j => members[i].sequence < members[j].sequence

\* There is an order to put the members of a group in, and it leaves none out.
LEMMA GroupInSequence ==
    ASSUME NEW g \in DOMAIN Groups, NEW n, n = Len(Groups[g])
    PROVE  /\ n \in Nat /\ DOMAIN Groups[g] = 1..n
           /\ InSequence[g] \in [1..n -> ToSet(Groups[g])] /\ Sorted(InSequence[g])
<1>1. /\ n \in Nat /\ DOMAIN Groups[g] = 1..n
      /\ \A i, j \in 1..n : i # j => Groups[g][i].sequence # Groups[g][j].sequence
      /\ \A i \in 1..n : Groups[g][i].sequence \in Int
  BY PricingAssumption DEF PricingAssumption
<1> DEFINE key == [i \in 1..n |-> Groups[g][i].sequence]
           C(s) == s \in [1..n -> ToSet(Groups[g])] /\ Sorted(s)
<1>2. key \in [1..n -> Int] /\ \A i, j \in 1..n : i # j => key[i] # key[j]
  BY <1>1
<1>3. PICK p \in [1..n -> 1..n] : \A i, j \in 1..n : i < j => key[p[i]] < key[p[j]]
  <2> HIDE DEF key
  <2> QED BY <1>1, <1>2, Listing
<1> DEFINE s0 == [i \in 1..n |-> Groups[g][p[i]]]
<1>4. s0 \in [1..n -> ToSet(Groups[g])]
  BY <1>1, <1>3 DEF ToSet
<1>5. Sorted(s0)
  BY <1>1, <1>3 DEF Sorted
<1>6. C(s0)
  BY <1>4, <1>5
<1>7. InSequence[g] = CHOOSE s : C(s)
  <2>1. InSequence[g] = CHOOSE members \in [DOMAIN Groups[g] -> ToSet(Groups[g])] :
            \A i, j \in DOMAIN members : i < j => members[i].sequence < members[j].sequence
    BY DEF InSequence
  <2> QED BY <2>1, <1>1, Zenon DEF Sorted
<1>8. C(InSequence[g])
  <2> HIDE DEF C
  <2> QED BY <1>6, <1>7
<1> QED BY <1>1, <1>8

Taxes == [code : DOMAIN Windows, compound : BOOLEAN, sequence : Int, rate : Nat]

Resolvable(group, day) ==
    group \in DOMAIN Groups \cup {OutOfScope} /\ (group # OutOfScope => resolvable(group, day))

\* A line whose group has a rate for every member bears each tax once.
LEMMA Resolved ==
    ASSUME NEW group, NEW day, Resolvable(group, day), NEW taxes, taxes = resolve(group, day)
    PROVE  /\ taxes \in Seq(Taxes)
           /\ \A i, j \in DOMAIN taxes : i # j => taxes[i].code # taxes[j].code
<1>1. CASE group = OutOfScope
  BY <1>1 DEF resolve
<1>2. CASE group # OutOfScope
  <2>1. group \in DOMAIN Groups /\ resolvable(group, day)
    BY <1>2 DEF Resolvable
  <2> DEFINE n == Len(Groups[group])
             s == InSequence[group]
  <2>2. n \in Nat /\ DOMAIN Groups[group] = 1..n /\ s \in [1..n -> ToSet(Groups[group])] /\ Sorted(s)
    BY <2>1, GroupInSequence
  <2>3. taxes = [i \in 1..n |-> Applied(s[i], day)]
    BY <1>2, <2>2 DEF resolve
  <2> HIDE DEF n, s
  <2>4. ASSUME NEW i \in 1..n
        PROVE  \E a \in 1..n : s[i] = Groups[group][a]
    BY <2>2 DEF ToSet
  <2>5. ASSUME NEW i \in 1..n PROVE Applied(s[i], day) \in Taxes
    <3>1. PICK a \in 1..n : s[i] = Groups[group][a]
      BY <2>4
    <3>2. /\ s[i].code \in DOMAIN Windows /\ s[i].sequence \in Int
          /\ s[i].compound \in BOOLEAN
      BY <2>1, <2>2, <3>1, PricingAssumption DEF PricingAssumption
    <3>3. \E w \in Windows[s[i].code] : covers(w, day)
      BY <2>1, <2>2, <3>1 DEF resolvable
    <3>4. (CHOOSE w \in Windows[s[i].code] : covers(w, day)) \in Windows[s[i].code]
      BY <3>3
    <3>5. RateOn(s[i].code, day) \in Nat
      BY <3>2, <3>4, PricingAssumption DEF PricingAssumption, RateOn
    <3> QED BY <3>2, <3>5 DEF Applied, Taxes
  <2>6. ASSUME NEW i \in 1..n, NEW j \in 1..n, i < j
        PROVE  taxes[i].code # taxes[j].code
    <3>1. PICK a \in 1..n : s[i] = Groups[group][a]
      BY <2>4
    <3>2. PICK c \in 1..n : s[j] = Groups[group][c]
      BY <2>4
    <3>3. s[i].sequence < s[j].sequence /\ s[i].sequence \in Int
      BY <2>1, <2>2, <2>6, <3>1, PricingAssumption DEF Sorted, PricingAssumption
    <3>4. a # c
      BY <3>1, <3>2, <3>3
    <3>5. s[i].code # s[j].code
      BY <2>1, <2>2, <3>1, <3>2, <3>4, PricingAssumption DEF PricingAssumption
    <3> QED BY <2>3, <3>5 DEF Applied
  <2>7. ASSUME NEW i \in 1..n, NEW j \in 1..n, i # j
        PROVE  taxes[i].code # taxes[j].code
    <3>1. i < j \/ j < i
      BY <2>7
    <3> QED BY <2>6, <3>1
  <2>8. taxes \in [1..n -> Taxes]
    BY <2>3, <2>5
  <2>9. taxes \in Seq(Taxes) /\ DOMAIN taxes = 1..n
    BY <2>2, <2>8
  <2> QED BY <2>7, <2>9
<1> QED BY <1>1, <1>2

-----------------------------------------------------------------------------
(* The factors of a line                                                   *)

LEMMA Units ==
    /\ RateOne \in Nat \ {0} /\ MinorUnit \in Nat \ {0} /\ QuantityOne \in Nat \ {0}
    /\ FactorOne \in Nat \ {0}
<1>1. RateOne \in Nat \ {0} /\ MinorUnit \in Nat \ {0} /\ QuantityOne \in Nat \ {0}
  BY PricingAssumption DEF PricingAssumption
<1>2. \A x \in Nat \ {0} : x * x \in Nat \ {0}
  OBVIOUS
<1> QED BY <1>1, <1>2 DEF FactorOne

LEMMA Product ==
    ASSUME NEW a \in Nat, NEW b \in Nat PROVE a * b \in Nat
  OBVIOUS

FactorsOf == [code : DOMAIN Windows, base : Nat, factor : Nat]
Factored == [accumulated : Nat, of : Seq(FactorsOf)]

LEMMA FactorStep ==
    ASSUME NEW sofar \in Factored, NEW tax \in Taxes
    PROVE  Factor(sofar, tax) \in Factored
<1> DEFINE base == FactorOne + IF tax.compound THEN sofar.accumulated ELSE 0
           factor == (base * tax.rate) \div RateOne
<1>1. /\ sofar.accumulated \in Nat /\ sofar.of \in Seq(FactorsOf)
      /\ tax.rate \in Nat /\ tax.code \in DOMAIN Windows /\ tax.compound \in BOOLEAN
  BY DEF Factored, Taxes
<1>2. base \in Nat
  BY <1>1, Units
<1>3. base * tax.rate \in Nat
  <2> HIDE DEF base
  <2> QED BY <1>1, <1>2, Product
<1>4. factor \in Nat
  <2> HIDE DEF base
  <2>1. \A x \in Nat : x \div RateOne \in Nat
    BY Units, Division
  <2> QED BY <1>3, <2>1
<1> HIDE DEF base, factor
<1>5. [code |-> tax.code, base |-> base, factor |-> factor] \in FactorsOf
  BY <1>1, <1>2, <1>4 DEF FactorsOf
<1>6. Factor(sofar, tax) = [accumulated |-> sofar.accumulated + factor,
         of |-> Append(sofar.of, [code |-> tax.code, base |-> base, factor |-> factor])]
  BY DEF Factor, base, factor
<1> QED BY <1>1, <1>4, <1>5, <1>6 DEF Factored

NoFactors == [accumulated |-> 0, of |-> <<>>]

\* The fold over the taxes takes them one after the other.
LEMMA FactorsRun ==
    ASSUME NEW taxes \in Seq(Taxes), NEW n, n = Len(taxes)
    PROVE  \E r \in [0..n -> Factored] :
              /\ r[0] = NoFactors /\ Factors(taxes) = r[n]
              /\ \A k \in 1..n : r[k] = Factor(r[k-1], taxes[k])
<1> DEFINE D == 1..n
           G == [p \in D \X Factored |-> Factor(p[2], taxes[p[1]])]
           pick == [T \in SUBSET D |-> Max(T)]
           H(h) == h = [T \in SUBSET D |-> IF T = {} THEN NoFactors
                                           ELSE Factor(h[T \ {Max(T)}], taxes[Max(T)])]
           it == CHOOSE h : H(h)
           r == [k \in 0..n |-> it[1..k]]
<1>1. /\ n \in Nat /\ DOMAIN taxes = D /\ \A i \in D : taxes[i] \in Taxes
      /\ NoFactors \in Factored
  BY DEF NoFactors, Factored
<1>2. PICK h : FoldOf(h, D, Factored, NoFactors, G, pick)
  <2>1. G \in [D \X Factored -> Factored]
    BY <1>1, FactorStep
  <2>2. \A T \in SUBSET D : T # {} => pick[T] \in T
    BY <1>1, LastPick
  <2>3. IsFiniteSet(D)
    BY <1>1, LastPick
  <2> HIDE DEF G, pick, D
  <2>4. Foldable(D, Factored, NoFactors, G, pick)
    BY <1>1, <2>1, <2>2, <2>3 DEF Foldable
  <2> QED BY <2>4, FoldExists
<1>3. ASSUME NEW T \in SUBSET D
      PROVE  h[T] = IF T = {} THEN NoFactors ELSE Factor(h[T \ {Max(T)}], taxes[Max(T)])
  <2>1. h[T] = IF T = {} THEN NoFactors ELSE G[<<pick[T], h[T \ {pick[T]}]>>]
    BY <1>2, Zenon DEF FoldOf
  <2>2. CASE T # {}
    <3>1. Max(T) \in D /\ pick[T] = Max(T) /\ h[T \ {Max(T)}] \in Factored
      BY <1>1, <1>2, <2>2, LastPick DEF FoldOf
    <3> QED BY <2>1, <2>2, <3>1
  <2> QED BY <2>1, <2>2
<1>4. H(h)
  BY <1>2, <1>3 DEF FoldOf
<1>5. H(it)
  BY <1>4, Zenon
<1>6. Factors(taxes) = it[D]
  BY <1>1 DEF Factors, FoldLeft, MapThenFoldSet, NoFactors
<1> HIDE DEF it
<1>7. it[{}] = NoFactors
  BY <1>5
<1>8. ASSUME NEW k \in 1..n PROVE it[1..k] = Factor(it[1..(k-1)], taxes[k])
  <2>1. 1..k \in SUBSET D /\ k \in Nat \ {0}
    BY <1>1
  <2>2. Max(1..k) = k /\ 1..k # {} /\ (1..k) \ {Max(1..k)} = 1..(k-1)
    BY <2>1, LastPosition
  <2>3. it[1..k] = Factor(it[(1..k) \ {Max(1..k)}], taxes[Max(1..k)])
    BY <1>5, <2>1, <2>2
  <2> QED BY <2>2, <2>3
<1> DEFINE P == {k \in 0..n : it[1..k] \in Factored}
<1>9. 0 \in P
  <2>1. 1..0 = {}
    OBVIOUS
  <2> QED BY <1>1, <1>7, <2>1
<1>10. ASSUME NEW k \in P, k < n PROVE k + 1 \in P
  <2>1. k + 1 \in 1..n /\ (k + 1) - 1 = k
    BY <1>1, <1>10
  <2>2. it[1..(k+1)] = Factor(it[1..k], taxes[k+1])
    BY <1>8, <2>1
  <2>3. it[1..(k+1)] \in Factored
    BY <1>1, <2>1, <2>2, FactorStep
  <2> QED BY <2>1, <2>3
<1>11. \A k \in 0..n : it[1..k] \in Factored
  <2>1. P \in SUBSET (0..n)
    OBVIOUS
  <2> HIDE DEF P
  <2>2. \A k \in 0..n : k \in P
    BY <1>1, <1>9, <1>10, <2>1, Counting
  <2> QED BY <2>2 DEF P
<1>12. r \in [0..n -> Factored]
  BY <1>11
<1>13. r[0] = NoFactors /\ Factors(taxes) = r[n]
  <2>1. 1..0 = {}
    OBVIOUS
  <2> QED BY <1>1, <1>6, <1>7, <2>1
<1>14. \A k \in 1..n : r[k] = Factor(r[k-1], taxes[k])
  BY <1>1, <1>8
<1> HIDE DEF r
<1> QED BY <1>12, <1>13, <1>14

\* What the fold over n taxes came to after each of them: r counts the taxes before.
Charges(r, taxes, of, n) ==
    /\ n = Len(taxes) /\ of \in Seq(FactorsOf) /\ Len(of) = n
    /\ r \in [0..n -> Nat] /\ r[0] = 0
    /\ \A i \in 1..n :
          /\ of[i].code = taxes[i].code
          /\ of[i].base = FactorOne + IF taxes[i].compound THEN r[i-1] ELSE 0
          /\ of[i].factor = (of[i].base * taxes[i].rate) \div RateOne
          /\ r[i] = r[i-1] + of[i].factor

\* Every tax has its factor, of a base that holds the factors before it.
LEMMA FactorsShape ==
    ASSUME NEW taxes \in Seq(Taxes), NEW n, n = Len(taxes)
    PROVE  \E r : Charges(r, taxes, Factors(taxes).of, n) /\ Factors(taxes).accumulated = r[n]
<1>1. PICK f \in [0..n -> Factored] :
         /\ f[0] = NoFactors /\ Factors(taxes) = f[n]
         /\ \A k \in 1..n : f[k] = Factor(f[k-1], taxes[k])
  BY FactorsRun
<1>2. n \in Nat /\ \A i \in 1..n : taxes[i] \in Taxes
  OBVIOUS
<1> DEFINE base(i) == FactorOne + IF taxes[i].compound THEN f[i-1].accumulated ELSE 0
           factor(i) == (base(i) * taxes[i].rate) \div RateOne
           it(i) == [code |-> taxes[i].code, base |-> base(i), factor |-> factor(i)]
<1>3. ASSUME NEW i \in 1..n
      PROVE  /\ i - 1 \in 0..n /\ i \in 0..n
             /\ f[i].of = Append(f[i-1].of, it(i))
             /\ f[i].accumulated = f[i-1].accumulated + factor(i)
             /\ f[i-1].of \in Seq(FactorsOf) /\ f[i].of \in Seq(FactorsOf)
  <2>1. i - 1 \in 0..n /\ i \in 0..n
    BY <1>2
  <2>2. f[i] = Factor(f[i-1], taxes[i])
    BY <1>1
  <2>3. f[i] \in Factored /\ f[i-1] \in Factored
    BY <1>1, <2>1
  <2>4. f[i] = [accumulated |-> f[i-1].accumulated + factor(i), of |-> Append(f[i-1].of, it(i))]
    BY <2>2 DEF Factor
  <2> QED BY <2>1, <2>3, <2>4 DEF Factored
<1> HIDE DEF it
<1> DEFINE P == {k \in 0..n : Len(f[k].of) = k /\ \A i \in 1..k : f[k].of[i] = it(i)}
<1>4. 0 \in P
  BY <1>1, <1>2 DEF NoFactors
<1>5. ASSUME NEW k \in P, k < n PROVE k + 1 \in P
  <2>1. k + 1 \in 1..n /\ (k + 1) - 1 = k /\ k \in Nat
    BY <1>2, <1>5
  <2> DEFINE s == f[k].of
             t == f[k+1].of
  <2>2. t = Append(s, it(k+1)) /\ s \in Seq(FactorsOf) /\ Len(s) = k
    BY <1>3, <2>1
  <2>3. \A i \in 1..k : s[i] = it(i)
    OBVIOUS
  <2> HIDE DEF s, t
  <2>4. Len(t) = k + 1 /\ t[k+1] = it(k+1) /\ \A i \in 1..k : t[i] = s[i]
    BY <2>1, <2>2
  <2>5. \A i \in 1..(k+1) : t[i] = it(i)
    <3> TAKE i \in 1..(k+1)
    <3>1. i = k + 1 \/ i \in 1..k
      BY <2>1
    <3> QED BY <2>3, <2>4, <3>1
  <2> QED BY <2>1, <2>4, <2>5 DEF t
<1>6. n \in P
  <2>1. P \in SUBSET (0..n)
    OBVIOUS
  <2> HIDE DEF P
  <2>2. \A k \in 0..n : k \in P
    BY <1>2, <1>4, <1>5, <2>1, Counting
  <2> QED BY <1>2, <2>2
<1> DEFINE r == [k \in 0..n |-> f[k].accumulated]
           of == Factors(taxes).of
<1>7. r \in [0..n -> Nat] /\ r[0] = 0 /\ Factors(taxes).accumulated = r[n]
  <2>1. \A k \in 0..n : f[k].accumulated \in Nat
    BY <1>1 DEF Factored
  <2> QED BY <1>1, <1>2, <2>1 DEF NoFactors
<1>8. of \in Seq(FactorsOf) /\ Len(of) = n /\ \A i \in 1..n : of[i] = it(i)
  BY <1>1, <1>2, <1>6 DEF Factored
<1>9. ASSUME NEW i \in 1..n
      PROVE  /\ of[i].code = taxes[i].code /\ of[i].base = base(i) /\ of[i].factor = factor(i)
             /\ base(i) = FactorOne + IF taxes[i].compound THEN r[i-1] ELSE 0
             /\ r[i] = r[i-1] + factor(i)
  <2>1. r[i-1] = f[i-1].accumulated /\ r[i] = f[i].accumulated
    BY <1>3
  <2> HIDE DEF r, of
  <2>2. base(i) = FactorOne + IF taxes[i].compound THEN r[i-1] ELSE 0
    BY <2>1
  <2>3. of[i].code = taxes[i].code /\ of[i].base = base(i) /\ of[i].factor = factor(i)
    <3>1. of[i] = it(i)
      BY <1>8
    <3> QED BY <3>1 DEF it
  <2> HIDE DEF factor, base
  <2>4. r[i] = r[i-1] + factor(i)
    BY <1>3, <2>1
  <2> QED BY <2>2, <2>3, <2>4
<1>10. Charges(r, taxes, of, n)
  <2> HIDE DEF r, of, base
  <2> QED BY <1>7, <1>8, <1>9 DEF Charges
<1> HIDE DEF r, of
<1> QED BY <1>7, <1>10 DEF of

-----------------------------------------------------------------------------
(* A line before its rounding                                              *)

Shares == [code : DOMAIN Windows, taxable : Int, amount : Int]
RawLines == [net : Int, given : Int, taxes : Seq(Shares)]

Priced(b) == {l \in Lines : Resolvable(l.group, b.day)}

LEMMA ScaledType ==
    ASSUME NEW amount \in Int, NEW numerator \in Int, NEW denominator \in Nat \ {0}, NEW mode
    PROVE  scale_by(amount, numerator, denominator, mode) \in Int
<1>1. amount * numerator \in Int
  OBVIOUS
<1>2. \A v \in Int : round_div(v, denominator, mode) \in Int
  BY RoundedToNearest
<1> QED BY <1>1, <1>2 DEF scale_by

LEMMA ExactLine ==
    ASSUME NEW b, NEW line \in Priced(b), NEW raw, raw = exact_line(line, b)
    PROVE  /\ raw \in RawLines
           /\ \A i, j \in DOMAIN raw.taxes : i # j => raw.taxes[i].code # raw.taxes[j].code
<1> DEFINE taxes == resolve(line.group, b.day)
           n == Len(taxes)
           factors == Factors(taxes)
           of == factors.of
           amount == scale_by(line.price, line.quantity, QuantityOne, b.mode)
           net == IF b.pricing = "exclusive" THEN amount
                  ELSE scale_by(amount, FactorOne, FactorOne + factors.accumulated, b.mode)
           charged == [i \in DOMAIN of |->
                         [code |-> of[i].code,
                          taxable |-> scale_by(net, of[i].base, FactorOne, b.mode),
                          amount |-> scale_by(net, of[i].factor, FactorOne, b.mode)]]
<1>1. raw = [net |-> net, given |-> amount, taxes |-> charged]
  BY DEF exact_line
<1>2. line.price \in Int /\ line.quantity \in Int /\ Resolvable(line.group, b.day)
  BY PricingAssumption DEF PricingAssumption, Priced, Lines
<1>3. taxes \in Seq(Taxes) /\ \A i, j \in DOMAIN taxes : i # j => taxes[i].code # taxes[j].code
  BY <1>2, Resolved
<1> HIDE DEF taxes
<1>4. PICK r : Charges(r, taxes, of, n) /\ factors.accumulated = r[n]
  BY <1>3, FactorsShape
<1>5. n \in Nat
  BY <1>3
<1> HIDE DEF n, of
<1>6. /\ of \in Seq(FactorsOf) /\ Len(of) = n /\ DOMAIN of = 1..n /\ r[n] \in Nat
      /\ \A i \in 1..n : of[i].code = taxes[i].code
  BY <1>4, <1>5 DEF Charges
<1>7. \A i \in 1..n : of[i] \in FactorsOf
  BY <1>6
<1>8. amount \in Int
  BY <1>2, Units, ScaledType
<1> HIDE DEF amount, factors
<1>9. net \in Int
  <2>1. FactorOne + factors.accumulated \in Nat \ {0} /\ FactorOne \in Int
    BY <1>4, <1>6, Units
  <2> QED BY <1>8, <2>1, ScaledType
<1> HIDE DEF net
<1>10. ASSUME NEW i \in 1..n
       PROVE  /\ scale_by(net, of[i].base, FactorOne, b.mode) \in Int
              /\ scale_by(net, of[i].factor, FactorOne, b.mode) \in Int
  <2>1. of[i].base \in Int /\ of[i].factor \in Int
    BY <1>7 DEF FactorsOf
  <2> QED BY <1>9, <2>1, Units, ScaledType
<1>11. charged \in Seq(Shares)
  <2>1. \A i \in 1..n : charged[i] \in Shares
    BY <1>6, <1>7, <1>10 DEF Shares, FactorsOf
  <2>2. charged \in [1..n -> Shares]
    BY <1>6, <2>1
  <2> HIDE DEF charged
  <2> QED BY <1>5, <2>2
<1>12. DOMAIN charged = 1..n /\ \A i \in 1..n : charged[i].code = taxes[i].code
  BY <1>6
<1> HIDE DEF charged
<1>13. raw \in RawLines /\ raw.taxes = charged
  BY <1>1, <1>8, <1>9, <1>11 DEF RawLines
<1>14. DOMAIN taxes = 1..n
  BY <1>3 DEF n
<1> QED BY <1>3, <1>12, <1>13, <1>14

-----------------------------------------------------------------------------
(* The running total                                                       *)

Bases == [pricing : {"exclusive", "inclusive"}, level : {"line", "document"},
          mode : {"half_up", "half_even"}, day : Days]
SharedLines == [net : Int, tax : Int, gross : Int, taxes : Seq(Shares)]
Running == [exact : [DOMAIN Windows -> Int], given : [DOMAIN Windows -> Int],
            taxes : Seq(Shares), lines : Seq(SharedLines)]

\* What a line is given of a tax, by what the document had come to before it.
Given(doc, tax, b) ==
    [code |-> tax.code, taxable |-> round_to_minor(tax.taxable, b.mode),
     amount |-> IF b.level = "line" THEN round_to_minor(tax.amount, b.mode)
                ELSE round_to_minor(doc.exact[tax.code] + tax.amount, b.mode)
                        - doc.given[tax.code]]

LEMMA ShareStep ==
    ASSUME NEW doc \in Running, NEW tax \in Shares, NEW b \in Bases, NEW after, after = Share(doc, tax, b)
    PROVE  /\ after \in Running /\ after.lines = doc.lines
           /\ after.exact = [doc.exact EXCEPT ![tax.code] = doc.exact[tax.code] + tax.amount]
           /\ after.given = [doc.given EXCEPT ![tax.code] =
                                round_to_minor(doc.exact[tax.code] + tax.amount, b.mode)]
           /\ after.taxes = Append(doc.taxes, Given(doc, tax, b))
           /\ Given(doc, tax, b) \in Shares
<1> DEFINE c0 == tax.code
           exact == doc.exact[c0] + tax.amount
           target == round_to_minor(exact, b.mode)
           g == Given(doc, tax, b)
<1>1. /\ c0 \in DOMAIN Windows /\ tax.amount \in Int /\ tax.taxable \in Int
      /\ doc.exact \in [DOMAIN Windows -> Int] /\ doc.given \in [DOMAIN Windows -> Int]
      /\ doc.taxes \in Seq(Shares) /\ doc.lines \in Seq(SharedLines)
  BY DEF Running, Shares
<1>2. exact \in Int /\ doc.given[c0] \in Int
  BY <1>1
<1>3. after = [doc EXCEPT !.exact[c0] = exact, !.given[c0] = target, !.taxes = Append(@, g)]
  BY DEF Share, Given
<1>4. target \in Int /\ round_to_minor(tax.taxable, b.mode) \in Int
      /\ round_to_minor(tax.amount, b.mode) \in Int
  BY <1>1, <1>2, RoundedToMinor
<1>5. g \in Shares
  BY <1>1, <1>2, <1>4 DEF Given, Shares
<1> HIDE DEF exact, target, g
<1>6. after = [exact |-> [doc.exact EXCEPT ![c0] = exact],
               given |-> [doc.given EXCEPT ![c0] = target],
               taxes |-> Append(doc.taxes, g), lines |-> doc.lines]
  BY <1>3 DEF Running
<1>7. /\ [doc.exact EXCEPT ![c0] = exact] \in [DOMAIN Windows -> Int]
      /\ [doc.given EXCEPT ![c0] = target] \in [DOMAIN Windows -> Int]
      /\ Append(doc.taxes, g) \in Seq(Shares)
  BY <1>1, <1>2, <1>4, <1>5
<1>8. after \in Running
  BY <1>1, <1>6, <1>7 DEF Running
<1> QED BY <1>5, <1>6, <1>8 DEF exact, target, g

Cleared(doc) == [doc EXCEPT !.taxes = <<>>]

LEMMA ClearedType ==
    ASSUME NEW doc \in Running
    PROVE  /\ Cleared(doc) \in Running /\ Cleared(doc).taxes = <<>>
           /\ Cleared(doc).exact = doc.exact /\ Cleared(doc).given = doc.given
           /\ Cleared(doc).lines = doc.lines
<1> DEFINE none == <<>>
<1>1. Cleared(doc) = [doc EXCEPT !.taxes = none] /\ none \in Seq(Shares)
  BY DEF Cleared
<1> HIDE DEF none
<1>2. Cleared(doc) = [exact |-> doc.exact, given |-> doc.given, taxes |-> none, lines |-> doc.lines]
  BY <1>1 DEF Running
<1>3. Cleared(doc) \in Running /\ Cleared(doc).taxes = none
  BY <1>1, <1>2 DEF Running
<1> QED BY <1>2, <1>3 DEF none

Shared(doc, taxes, b) == FoldLeft(LAMBDA d, tax : Share(d, tax, b), Cleared(doc), taxes)

\* The fold over the taxes of a line shares them out one after the other.
LEMMA SharesRun ==
    ASSUME NEW taxes \in Seq(Shares), NEW n, n = Len(taxes), NEW doc \in Running,
           NEW b \in Bases
    PROVE  \E r \in [0..n -> Running] :
              /\ r[0] = Cleared(doc) /\ Shared(doc, taxes, b) = r[n]
              /\ \A k \in 1..n : r[k] = Share(r[k-1], taxes[k], b)
<1> DEFINE D == 1..n
           G == [p \in D \X Running |-> Share(p[2], taxes[p[1]], b)]
           pick == [T \in SUBSET D |-> Max(T)]
           H(h) == h = [T \in SUBSET D |-> IF T = {} THEN Cleared(doc)
                                           ELSE Share(h[T \ {Max(T)}], taxes[Max(T)], b)]
           it == CHOOSE h : H(h)
           r == [k \in 0..n |-> it[1..k]]
<1>1. /\ n \in Nat /\ DOMAIN taxes = D /\ \A i \in D : taxes[i] \in Shares
      /\ Cleared(doc) \in Running
      /\ \A d \in Running, tax \in Shares : Share(d, tax, b) \in Running
  <2>1. Cleared(doc) \in Running
    BY ClearedType
  <2>2. \A d \in Running, tax \in Shares : Share(d, tax, b) \in Running
    BY ShareStep
  <2> QED BY <2>1, <2>2
<1>2. PICK h : FoldOf(h, D, Running, Cleared(doc), G, pick)
  <2>1. G \in [D \X Running -> Running]
    BY <1>1
  <2>2. \A T \in SUBSET D : T # {} => pick[T] \in T
    BY <1>1, LastPick
  <2>3. IsFiniteSet(D)
    BY <1>1, LastPick
  <2> HIDE DEF G, pick, D
  <2>4. Foldable(D, Running, Cleared(doc), G, pick)
    BY <1>1, <2>1, <2>2, <2>3 DEF Foldable
  <2> QED BY <2>4, FoldExists
<1>3. ASSUME NEW T \in SUBSET D
      PROVE  h[T] = IF T = {} THEN Cleared(doc) ELSE Share(h[T \ {Max(T)}], taxes[Max(T)], b)
  <2>1. h[T] = IF T = {} THEN Cleared(doc) ELSE G[<<pick[T], h[T \ {pick[T]}]>>]
    BY <1>2, Zenon DEF FoldOf
  <2>2. CASE T # {}
    <3>1. Max(T) \in D /\ pick[T] = Max(T) /\ h[T \ {Max(T)}] \in Running
      BY <1>1, <1>2, <2>2, LastPick DEF FoldOf
    <3> QED BY <2>1, <2>2, <3>1
  <2> QED BY <2>1, <2>2
<1>4. H(h)
  BY <1>2, <1>3 DEF FoldOf
<1>5. H(it)
  BY <1>4, Zenon
<1>6. Shared(doc, taxes, b) = it[D]
  BY <1>1 DEF Shared, FoldLeft, MapThenFoldSet
<1> HIDE DEF it
<1>7. it[{}] = Cleared(doc)
  BY <1>5
<1>8. ASSUME NEW k \in 1..n PROVE it[1..k] = Share(it[1..(k-1)], taxes[k], b)
  <2>1. 1..k \in SUBSET D /\ k \in Nat \ {0}
    BY <1>1
  <2>2. Max(1..k) = k /\ 1..k # {} /\ (1..k) \ {Max(1..k)} = 1..(k-1)
    BY <2>1, LastPosition
  <2>3. it[1..k] = Share(it[(1..k) \ {Max(1..k)}], taxes[Max(1..k)], b)
    BY <1>5, <2>1, <2>2
  <2> QED BY <2>2, <2>3
<1> DEFINE P == {k \in 0..n : it[1..k] \in Running}
<1>9. 0 \in P
  <2>1. 1..0 = {}
    OBVIOUS
  <2> QED BY <1>1, <1>7, <2>1
<1>10. ASSUME NEW k \in P, k < n PROVE k + 1 \in P
  <2>1. k + 1 \in 1..n /\ (k + 1) - 1 = k
    BY <1>1, <1>10
  <2>2. it[1..(k+1)] = Share(it[1..k], taxes[k+1], b)
    BY <1>8, <2>1
  <2>3. it[1..(k+1)] \in Running
    BY <1>1, <2>1, <2>2
  <2> QED BY <2>1, <2>3
<1>11. \A k \in 0..n : it[1..k] \in Running
  <2>1. P \in SUBSET (0..n)
    OBVIOUS
  <2> HIDE DEF P
  <2>2. \A k \in 0..n : k \in P
    BY <1>1, <1>9, <1>10, <2>1, Counting
  <2> QED BY <2>2 DEF P
<1>12. r \in [0..n -> Running]
  BY <1>11
<1>13. r[0] = Cleared(doc) /\ Shared(doc, taxes, b) = r[n]
  <2>1. 1..0 = {}
    OBVIOUS
  <2> QED BY <1>1, <1>6, <1>7, <2>1
<1>14. \A k \in 1..n : r[k] = Share(r[k-1], taxes[k], b)
  BY <1>1, <1>8
<1> HIDE DEF r
<1> QED BY <1>12, <1>13, <1>14

Distinct(taxes) ==
    \A i, j \in DOMAIN taxes : i # j => taxes[i].code # taxes[j].code

\* What k of the taxes of a line have made of the document before the line.
Takes(s, doc, taxes, k, b) ==
    /\ s \in Running /\ s.lines = doc.lines
    /\ Len(s.taxes) = k /\ \A i \in 1..k : s.taxes[i] = Given(doc, taxes[i], b)
    /\ \A c \in DOMAIN Windows :
          (\A i \in 1..k : taxes[i].code # c) =>
              s.exact[c] = doc.exact[c] /\ s.given[c] = doc.given[c]
    /\ \A i \in 1..k :
          LET c == taxes[i].code
          IN  /\ s.exact[c] = doc.exact[c] + taxes[i].amount
              /\ s.given[c] = round_to_minor(doc.exact[c] + taxes[i].amount, b.mode)

\* A line bears a code once: each of its taxes is shared by what the document had
\* come to before the line.
LEMMA LineShares ==
    ASSUME NEW doc \in Running, NEW b \in Bases, NEW taxes \in Seq(Shares), Distinct(taxes),
           NEW n, n = Len(taxes)
    PROVE  Takes(Shared(doc, taxes, b), doc, taxes, n, b)
<1>1. n \in Nat /\ DOMAIN taxes = 1..n /\ \A i \in 1..n : taxes[i] \in Shares
  OBVIOUS
<1>2. PICK r \in [0..n -> Running] :
         /\ r[0] = Cleared(doc) /\ Shared(doc, taxes, b) = r[n]
         /\ \A k \in 1..n : r[k] = Share(r[k-1], taxes[k], b)
  BY SharesRun
<1> DEFINE P == {k \in 0..n : Takes(r[k], doc, taxes, k, b)}
<1>3. 0 \in P
  <2>1. Len(Cleared(doc).taxes) = 0
    BY ClearedType
  <2> QED BY <1>1, <1>2, <2>1, ClearedType DEF Takes
<1>4. ASSUME NEW k \in P, k < n PROVE k + 1 \in P
  <2> DEFINE s == r[k]
             t == taxes[k+1]
             c0 == t.code
             a == r[k+1]
             round == round_to_minor(doc.exact[c0] + t.amount, b.mode)
  <2>1. /\ k + 1 \in 1..n /\ k \in Nat /\ k + 1 \in 0..n /\ s \in Running /\ t \in Shares
        /\ c0 \in DOMAIN Windows
    BY <1>1, <1>2, <1>4 DEF Shares
  <2>2. a = Share(s, t, b)
    BY <1>2, <2>1
  <2>3. Takes(s, doc, taxes, k, b)
    OBVIOUS
  <2>4. \A i \in 1..k : i \in 1..n /\ taxes[i].code # c0
    BY <1>1, <2>1 DEF Distinct
  <2> HIDE DEF s, a, t, c0, P
  <2>5. s.exact[c0] = doc.exact[c0] /\ s.given[c0] = doc.given[c0]
    BY <2>1, <2>3, <2>4 DEF Takes
  <2>6. Given(s, t, b) = Given(doc, t, b)
    BY <2>5 DEF Given, c0
  <2>7. /\ a \in Running /\ a.lines = s.lines
        /\ a.exact = [s.exact EXCEPT ![c0] = s.exact[c0] + t.amount]
        /\ a.given = [s.given EXCEPT ![c0] = round_to_minor(s.exact[c0] + t.amount, b.mode)]
        /\ a.taxes = Append(s.taxes, Given(s, t, b))
        /\ Given(s, t, b) \in Shares
    <3>1. c0 = t.code
      BY DEF c0
    <3> QED BY <2>1, <2>2, <3>1, ShareStep
  <2>8. /\ s.exact \in [DOMAIN Windows -> Int] /\ s.given \in [DOMAIN Windows -> Int]
        /\ s.taxes \in Seq(Shares)
    BY <2>1 DEF Running
  <2>9. a.exact[c0] = doc.exact[c0] + t.amount /\ a.given[c0] = round
    BY <2>1, <2>5, <2>7, <2>8
  <2> HIDE DEF round
  <2>10. \A c \in DOMAIN Windows : c # c0 => a.exact[c] = s.exact[c] /\ a.given[c] = s.given[c]
    BY <2>7, <2>8
  <2>11. /\ Len(a.taxes) = k + 1 /\ a.taxes[k+1] = Given(doc, t, b)
         /\ \A i \in 1..k : a.taxes[i] = s.taxes[i]
    <3>1. Len(s.taxes) = k
      BY <2>3 DEF Takes
    <3> QED BY <2>1, <2>6, <2>7, <2>8, <3>1
  <2>12. \A i \in 1..(k+1) : i = k + 1 \/ i \in 1..k
    BY <2>1
  <2>13. \A i \in 1..(k+1) : a.taxes[i] = Given(doc, taxes[i], b)
    BY <2>3, <2>11, <2>12 DEF Takes, t
  <2>14. ASSUME NEW c \in DOMAIN Windows, \A i \in 1..(k+1) : taxes[i].code # c
         PROVE  a.exact[c] = doc.exact[c] /\ a.given[c] = doc.given[c]
    <3>1. c # c0 /\ \A i \in 1..k : taxes[i].code # c
      BY <2>1, <2>14 DEF c0, t
    <3> QED BY <2>3, <2>10, <3>1 DEF Takes
  <2>15. ASSUME NEW i \in 1..(k+1)
         PROVE  /\ a.exact[taxes[i].code] = doc.exact[taxes[i].code] + taxes[i].amount
                /\ a.given[taxes[i].code] =
                      round_to_minor(doc.exact[taxes[i].code] + taxes[i].amount, b.mode)
    <3>1. CASE i = k + 1
      BY <2>9, <3>1 DEF c0, t, round
    <3>2. CASE i \in 1..k
      <4>1. taxes[i].code # c0 /\ taxes[i].code \in DOMAIN Windows
        BY <1>1, <2>4, <3>2 DEF Shares
      <4>2. /\ a.exact[taxes[i].code] = s.exact[taxes[i].code]
            /\ a.given[taxes[i].code] = s.given[taxes[i].code]
        BY <2>10, <4>1
      <4> QED BY <2>3, <3>2, <4>2 DEF Takes
    <3> QED BY <2>12, <3>1, <3>2
  <2>16. a.lines = doc.lines
    BY <2>3, <2>7 DEF Takes
  <2>17. Takes(a, doc, taxes, k + 1, b)
    BY <2>7, <2>11, <2>13, <2>14, <2>15, <2>16 DEF Takes
  <2> QED BY <2>1, <2>17 DEF P, a
<1>5. n \in P
  <2>1. P \in SUBSET (0..n)
    OBVIOUS
  <2> HIDE DEF P
  <2>2. \A k \in 0..n : k \in P
    BY <1>1, <1>3, <1>4, <2>1, Counting
  <2> QED BY <1>1, <2>2
<1> QED BY <1>2, <1>5

LEMMA NoneRounded ==
    ASSUME NEW mode
    PROVE  round_to_minor(0, mode) = 0
<1>1. 0 \div MinorUnit = 0 /\ 0 % MinorUnit = 0
  BY Units, Division
<1>2. Magnitude(0) = 0
  BY DEF Magnitude
<1>3. round_div(0, MinorUnit, mode) = 0
  BY <1>1, <1>2, Units DEF round_div, Signed
<1> QED BY <1>3, Units DEF round_to_minor

LEMMA LinePositions ==
    ASSUME NEW taxes \in Seq(Shares)
    PROVE  IsFiniteSet(DOMAIN taxes)
<1>1. Len(taxes) \in Nat /\ DOMAIN taxes = 1..Len(taxes)
  OBVIOUS
<1> QED BY <1>1, FS_Interval

\* What a line that bears each code once has of a code: its tax of the code, or none.
LEMMA OnLineIs ==
    ASSUME NEW line, NEW taxes \in Seq(Shares), line.taxes = taxes, Distinct(taxes)
    PROVE  /\ \A i \in DOMAIN taxes : OnLine(line, taxes[i].code) = taxes[i].amount
           /\ \A c : (\A i \in DOMAIN taxes : taxes[i].code # c) => OnLine(line, c) = 0
<1>1. \A i \in DOMAIN taxes : taxes[i].amount \in Int
  <2>1. \A i \in DOMAIN taxes : taxes[i] \in Shares
    OBVIOUS
  <2> QED BY <2>1 DEF Shares
<1> DEFINE f(c) == [i \in {j \in DOMAIN taxes : taxes[j].code = c} |-> taxes[i].amount]
<1>2. \A c : OnLine(line, c) = SumFunction(f(c))
  BY DEF OnLine
<1>3. ASSUME NEW i \in DOMAIN taxes
      PROVE  OnLine(line, taxes[i].code) = taxes[i].amount
  <2> DEFINE g == f(taxes[i].code)
  <2>1. {j \in DOMAIN taxes : taxes[j].code = taxes[i].code} = {i}
    BY DEF Distinct
  <2>2. Summable(g, {i}) /\ g[i] = taxes[i].amount
    BY <1>1, <2>1, FS_Singleton DEF Summable
  <2> HIDE DEF g
  <2>3. SumFunction(g) = g[i]
    BY <2>2, SumOfOne
  <2> QED BY <1>2, <2>2, <2>3 DEF g
<1>4. ASSUME NEW c, \A i \in DOMAIN taxes : taxes[i].code # c
      PROVE  OnLine(line, c) = 0
  <2> DEFINE g == f(c)
  <2>1. g \in [{} -> Int]
    BY <1>4
  <2> HIDE DEF g
  <2>2. SumFunction(g) = 0
    BY <2>1, SumOfNone
  <2> QED BY <1>2, <2>2 DEF g
<1> QED BY <1>3, <1>4

LEMMA OnLineType ==
    ASSUME NEW line, NEW taxes \in Seq(Shares), line.taxes = taxes, NEW c
    PROVE  OnLine(line, c) \in Int
<1> DEFINE S == {j \in DOMAIN taxes : taxes[j].code = c}
           f == [i \in S |-> taxes[i].amount]
<1>1. \A i \in DOMAIN taxes : taxes[i].amount \in Int
  <2>1. \A i \in DOMAIN taxes : taxes[i] \in Shares
    OBVIOUS
  <2> QED BY <2>1 DEF Shares
<1>2. IsFiniteSet(S)
  <2>1. S \in SUBSET DOMAIN taxes
    OBVIOUS
  <2> HIDE DEF S
  <2> QED BY <2>1, LinePositions, FS_Subset
<1>3. Summable(f, S)
  BY <1>1, <1>2 DEF Summable
<1>4. OnLine(line, c) = SumFunction(f)
  BY DEF OnLine
<1> HIDE DEF f, S
<1> QED BY <1>3, <1>4, SumType

LEMMA Multiples ==
    ASSUME NEW d \in Nat \ {0}, NEW k \in Int
    PROVE  (d * k) % d = 0
<1> DEFINE n == d * k
           q == n \div d
           m == n % d
<1>1. n \in Int
  OBVIOUS
<1>2. q \in Int /\ m \in Int /\ n = d * q + m /\ 0 <= m /\ m < d
  <2> HIDE DEF n
  <2> QED BY <1>1, SMTT(30)
<1>3. d * (k - q) = m
  <2>1. \A x \in Int : d * (k - x) = d * k - d * x
    OBVIOUS
  <2>2. d * (k - q) = d * k - d * q
    BY <1>2, <2>1
  <2> HIDE DEF q, m
  <2> QED BY <1>2, <2>2
<1> HIDE DEF q, m, n
<1>4. k - q = 0
  <2> DEFINE j == k - q
  <2>1. j \in Int /\ d * j = m
    BY <1>2, <1>3
  <2> HIDE DEF j
  <2>2. CASE j >= 1
    <3>1. d * j >= d
      BY <2>1, <2>2
    <3> QED BY <1>2, <2>1, <3>1
  <2>3. CASE j <= -1
    <3>1. d * j <= -d
      BY <2>1, <2>3
    <3> QED BY <1>2, <2>1, <3>1
  <2> QED BY <2>1, <2>2, <2>3 DEF j
<1>5. m = 0
  BY <1>3, <1>4
<1> QED BY <1>5 DEF m, n

LEMMA MultipleOfMinor ==
    ASSUME NEW amount \in Int, NEW mode
    PROVE  \E k \in Int : round_to_minor(amount, mode) = MinorUnit * k
<1>1. round_div(amount, MinorUnit, mode) \in Int
  BY Units, RoundedToNearest
<1> QED BY <1>1 DEF round_to_minor

LEMMA GivenIs ==
    ASSUME NEW doc, NEW tax, NEW b
    PROVE  /\ Given(doc, tax, b).code = tax.code
           /\ Given(doc, tax, b).amount =
                 IF b.level = "line" THEN round_to_minor(tax.amount, b.mode)
                 ELSE round_to_minor(doc.exact[tax.code] + tax.amount, b.mode)
                         - doc.given[tax.code]
  BY DEF Given

LineOf(doc, raw, b) ==
    LET shared == Shared(doc, raw.taxes, b)
        tax == SumFunction([i \in DOMAIN shared.taxes |-> shared.taxes[i].amount])
        net == IF b.pricing = "exclusive" THEN round_to_minor(raw.net, b.mode)
               ELSE raw.given - tax
    IN  [net |-> net, tax |-> tax, gross |-> net + tax, taxes |-> shared.taxes]

\* A line of the document: what it says adds up, a quoted price is kept, and its
\* taxes are those of the line, each shared by what came before it.
LineSays(l, doc, raw, b) ==
    /\ l \in SharedLines /\ l.gross = l.net + l.tax
    /\ l.tax = SumFunction([i \in DOMAIN l.taxes |-> l.taxes[i].amount])
    /\ b.pricing = "inclusive" => l.gross = raw.given
    /\ b.pricing = "exclusive" => l.net = round_to_minor(raw.net, b.mode)
    /\ DOMAIN l.taxes = DOMAIN raw.taxes
    /\ \A i \in DOMAIN raw.taxes : l.taxes[i] = Given(doc, raw.taxes[i], b)

LEMMA AssembleStep ==
    ASSUME NEW doc \in Running, NEW raw \in RawLines, Distinct(raw.taxes), NEW b \in Bases,
           NEW after, after = Assemble(doc, raw, b)
    PROVE  /\ after \in Running /\ after.lines = Append(doc.lines, LineOf(doc, raw, b))
           /\ LineSays(LineOf(doc, raw, b), doc, raw, b)
           /\ \E s : /\ Takes(s, doc, raw.taxes, Len(raw.taxes), b)
                     /\ after.exact = s.exact /\ after.given = s.given
<1> DEFINE shared == Shared(doc, raw.taxes, b)
           n == Len(raw.taxes)
           tax == SumFunction([i \in DOMAIN shared.taxes |-> shared.taxes[i].amount])
           net == IF b.pricing = "exclusive" THEN round_to_minor(raw.net, b.mode)
                  ELSE raw.given - tax
           l == LineOf(doc, raw, b)
<1>1. raw.taxes \in Seq(Shares) /\ raw.net \in Int /\ raw.given \in Int
  BY DEF RawLines
<1>2. n \in Nat /\ DOMAIN raw.taxes = 1..n
  BY <1>1
<1>3. Takes(shared, doc, raw.taxes, n, b)
  BY <1>1, LineShares
<1>4. l = [net |-> net, tax |-> tax, gross |-> net + tax, taxes |-> shared.taxes]
  BY DEF LineOf
<1>5. after = [shared EXCEPT !.lines = Append(@, l)]
  BY DEF Assemble, LineOf, Shared, Cleared
<1> HIDE DEF shared, n, l
<1>6. shared \in Running /\ shared.lines = doc.lines /\ Len(shared.taxes) = n
      /\ \A i \in 1..n : shared.taxes[i] = Given(doc, raw.taxes[i], b)
  BY <1>3 DEF Takes
<1>7. shared.taxes \in Seq(Shares) /\ DOMAIN shared.taxes = 1..n
  BY <1>2, <1>6 DEF Running
<1>8. tax \in Int
  <2> DEFINE f == [i \in DOMAIN shared.taxes |-> shared.taxes[i].amount]
  <2> DEFINE st == shared.taxes
  <2>1. \A i \in DOMAIN st : st[i] \in Shares
    <3>1. st \in Seq(Shares)
      BY <1>7
    <3> HIDE DEF st
    <3> QED BY <3>1
  <2>2. Summable(f, DOMAIN shared.taxes)
    BY <1>7, <2>1, LinePositions DEF Summable, Shares
  <2> HIDE DEF f
  <2> QED BY <2>2, SumType DEF f
<1>9. tax = SumFunction([i \in DOMAIN shared.taxes |-> shared.taxes[i].amount])
  OBVIOUS
<1> HIDE DEF tax
<1>10. net \in Int
  BY <1>1, <1>8, RoundedToMinor
<1>11. /\ b.pricing = "inclusive" => net + tax = raw.given
       /\ b.pricing = "exclusive" => net = round_to_minor(raw.net, b.mode)
  BY <1>1, <1>8
<1> HIDE DEF net
<1>12. l \in SharedLines
  BY <1>4, <1>7, <1>8, <1>10 DEF SharedLines
<1>13. l.taxes = shared.taxes /\ l.net = net /\ l.tax = tax /\ l.gross = net + tax
  BY <1>4
<1>14. LineSays(l, doc, raw, b)
  BY <1>2, <1>6, <1>7, <1>9, <1>11, <1>12, <1>13 DEF LineSays
<1>15. after = [exact |-> shared.exact, given |-> shared.given, taxes |-> shared.taxes,
                lines |-> Append(shared.lines, l)]
  BY <1>5, <1>6 DEF Running
<1>16. after \in Running
  <2>1. shared.lines \in Seq(SharedLines)
    BY <1>6 DEF Running
  <2>2. Append(shared.lines, l) \in Seq(SharedLines)
    BY <1>12, <2>1
  <2> QED BY <1>6, <1>15, <2>2 DEF Running
<1>17. /\ after.lines = Append(doc.lines, l)
       /\ after.exact = shared.exact /\ after.given = shared.given
  BY <1>6, <1>15
<1> QED BY <1>3, <1>14, <1>16, <1>17 DEF l, n

RoundedOnce(doc, mode) ==
    \A c \in DOMAIN Windows : doc.given[c] = round_to_minor(doc.exact[c], mode)

\* One line more: each code's exact total grows by the line's own tax.  Under
\* Document what each code was given so far is still its exact total rounded once,
\* and the line gets the difference; under Line it gets its own tax, rounded.
THEOREM SharingKeepsTheTotal ==
    ASSUME NEW doc \in Running, NEW raw \in RawLines, Distinct(raw.taxes), NEW b \in Bases,
           NEW after, after = Assemble(doc, raw, b), NEW l, l = LineOf(doc, raw, b),
           NEW c \in DOMAIN Windows
    PROVE  /\ after.exact[c] = doc.exact[c] + OnLine(raw, c)
           /\ b.level = "document" /\ doc.given[c] = round_to_minor(doc.exact[c], b.mode) =>
                 /\ after.given[c] = round_to_minor(after.exact[c], b.mode)
                 /\ OnLine(l, c) = after.given[c] - doc.given[c]
           /\ b.level = "line" => OnLine(l, c) = round_to_minor(OnLine(raw, c), b.mode)
<1> DEFINE taxes == raw.taxes
           n == Len(taxes)
<1>1. taxes \in Seq(Shares) /\ n \in Nat /\ DOMAIN taxes = 1..n
  BY DEF RawLines
<1>2. LineSays(l, doc, raw, b)
  BY AssembleStep
<1>3. PICK s : Takes(s, doc, taxes, n, b) /\ after.exact = s.exact /\ after.given = s.given
  BY AssembleStep
<1>4. /\ doc.exact[c] \in Int /\ doc.given[c] \in Int
  BY DEF Running
<1> HIDE DEF n, taxes
<1>5. /\ l.taxes \in Seq(Shares) /\ DOMAIN l.taxes = DOMAIN taxes
      /\ \A i \in DOMAIN taxes : l.taxes[i] = Given(doc, taxes[i], b)
  BY <1>2 DEF LineSays, SharedLines, taxes
<1>6. \A i \in DOMAIN taxes : l.taxes[i].code = taxes[i].code
  BY <1>5, GivenIs
<1>7. /\ \A i \in DOMAIN taxes : OnLine(raw, taxes[i].code) = taxes[i].amount
      /\ (\A i \in DOMAIN taxes : taxes[i].code # c) => OnLine(raw, c) = 0
  BY <1>1, OnLineIs DEF taxes
<1>8. /\ \A i \in DOMAIN l.taxes : OnLine(l, l.taxes[i].code) = l.taxes[i].amount
      /\ (\A i \in DOMAIN l.taxes : l.taxes[i].code # c) => OnLine(l, c) = 0
  <2>1. Distinct(l.taxes)
    BY <1>5, <1>6 DEF Distinct, taxes
  <2> QED BY <1>5, <2>1, OnLineIs
<1>9. \A i \in DOMAIN taxes : l.taxes[i].code = taxes[i].code
  BY <1>6
<1>10. CASE \A i \in DOMAIN taxes : taxes[i].code # c
  <2>1. OnLine(raw, c) = 0 /\ OnLine(l, c) = 0
    BY <1>5, <1>7, <1>8, <1>9, <1>10
  <2>2. after.exact[c] = doc.exact[c] /\ after.given[c] = doc.given[c]
    BY <1>1, <1>3, <1>10 DEF Takes
  <2>3. round_to_minor(0, b.mode) = 0
    BY NoneRounded
  <2> QED BY <1>4, <2>1, <2>2, <2>3
<1>11. ASSUME NEW i \in DOMAIN taxes, taxes[i].code = c
       PROVE  /\ after.exact[c] = doc.exact[c] + OnLine(raw, c)
              /\ b.level = "document" /\ doc.given[c] = round_to_minor(doc.exact[c], b.mode) =>
                    /\ after.given[c] = round_to_minor(after.exact[c], b.mode)
                    /\ OnLine(l, c) = after.given[c] - doc.given[c]
              /\ b.level = "line" => OnLine(l, c) = round_to_minor(OnLine(raw, c), b.mode)
  <2>1. OnLine(raw, c) = taxes[i].amount /\ OnLine(l, c) = l.taxes[i].amount
    BY <1>5, <1>7, <1>8, <1>9, <1>11
  <2>2. /\ after.exact[c] = doc.exact[c] + taxes[i].amount
        /\ after.given[c] = round_to_minor(doc.exact[c] + taxes[i].amount, b.mode)
    BY <1>1, <1>3, <1>11 DEF Takes
  <2>3. l.taxes[i].amount = IF b.level = "line" THEN round_to_minor(taxes[i].amount, b.mode)
                            ELSE round_to_minor(doc.exact[c] + taxes[i].amount, b.mode)
                                    - doc.given[c]
    BY <1>5, <1>11, GivenIs
  <2> QED BY <2>1, <2>2, <2>3
<1> QED BY <1>10, <1>11

\* A line gets what it owes of a tax to a minor unit, nothing when it owes nothing,
\* and something that can be paid, whatever the lines before it were.
THEOREM ShareIsFair ==
    ASSUME NEW doc \in Running, NEW tax \in Shares, NEW b \in Bases,
           b.level = "document" => RoundedOnce(doc, b.mode),
           NEW given, given = Given(doc, tax, b).amount
    PROVE  /\ Magnitude(given - tax.amount) <= MinorUnit
           /\ tax.amount = 0 => given = 0
           /\ given % MinorUnit = 0
<1> DEFINE own == tax.amount
           e == doc.exact[tax.code]
           r(x) == round_to_minor(x, b.mode)
<1>1. own \in Int /\ e \in Int /\ tax.code \in DOMAIN Windows
  BY DEF Running, Shares
<1>2. b.level = "line" \/ b.level = "document"
  BY DEF Bases
<1>3. CASE b.level = "line"
  <2>1. given = r(own)
    BY <1>3 DEF Given
  <2>2. r(own) \in Int /\ 2 * Magnitude(r(own) - own) <= MinorUnit
    BY <1>1, RoundedToMinor
  <2>3. PICK k \in Int : r(own) = MinorUnit * k
    BY <1>1, MultipleOfMinor
  <2>4. (MinorUnit * k) % MinorUnit = 0
    BY Units, Multiples
  <2>5. own = 0 => r(own) = 0
    BY NoneRounded
  <2> DEFINE x == r(own)
  <2> HIDE DEF own, r
  <2>6. Magnitude(x - own) <= MinorUnit
    <3> HIDE DEF x
    <3>1. x \in Int /\ 2 * Magnitude(x - own) <= MinorUnit
      BY <2>2 DEF x
    <3> QED BY <1>1, <3>1, Units DEF Magnitude
  <2> QED BY <2>1, <2>3, <2>4, <2>5, <2>6 DEF own
<1>4. CASE b.level = "document"
  <2>1. given = r(e + own) - r(e)
    BY <1>1, <1>4 DEF Given, RoundedOnce
  <2>2. /\ r(e + own) \in Int /\ 2 * Magnitude(r(e + own) - (e + own)) <= MinorUnit
        /\ r(e) \in Int /\ 2 * Magnitude(r(e) - e) <= MinorUnit
    BY <1>1, RoundedToMinor
  <2>3. PICK k \in Int : r(e + own) = MinorUnit * k
    BY <1>1, MultipleOfMinor
  <2>4. PICK j \in Int : r(e) = MinorUnit * j
    BY <1>1, MultipleOfMinor
  <2>5. given = MinorUnit * (k - j)
    <3>1. \A u \in Nat : u * k - u * j = u * (k - j)
      OBVIOUS
    <3> HIDE DEF e, own, r
    <3> QED BY <2>1, <2>3, <2>4, <3>1, Units
  <2>6. (MinorUnit * (k - j)) % MinorUnit = 0
    BY Units, Multiples
  <2>7. own = 0 => given = 0
    BY <1>1, <2>1, <2>2
  <2> DEFINE x == r(e + own)
             y == r(e)
  <2>8. Magnitude(given - own) <= MinorUnit
    <3> HIDE DEF e, own, x, y
    <3>1. /\ x \in Int /\ 2 * Magnitude(x - (e + own)) <= MinorUnit
          /\ y \in Int /\ 2 * Magnitude(y - e) <= MinorUnit /\ given = x - y
      BY <2>1, <2>2 DEF x, y
    <3> HIDE DEF r
    <3> QED BY <1>1, <3>1, Units DEF Magnitude
  <2> HIDE DEF r, e
  <2> QED BY <2>5, <2>6, <2>7, <2>8 DEF own
<1> QED BY <1>2, <1>3, <1>4

-----------------------------------------------------------------------------
(* The document                                                            *)

Doc(ls, b) == FoldLeft(LAMBDA d, l : Assemble(d, exact_line(l, b), b), Nothing, ls)
RawOf(ls, b) == FoldLeft(LAMBDA raws, l : Append(raws, exact_line(l, b)), <<>>, ls)

LEMMA NothingIsRunning == Nothing \in Running
<1> DEFINE none == <<>>
<1>1. Nothing = [lines |-> none, taxes |-> none, exact |-> [c \in DOMAIN Windows |-> 0],
                 given |-> [c \in DOMAIN Windows |-> 0]]
  BY DEF Nothing
<1>2. none \in Seq(Shares) /\ none \in Seq(SharedLines)
  OBVIOUS
<1> HIDE DEF none
<1> QED BY <1>1, <1>2 DEF Running

LEMMA AssembledType ==
    ASSUME NEW b \in Bases, NEW doc \in Running, NEW line \in Priced(b)
    PROVE  Assemble(doc, exact_line(line, b), b) \in Running
<1> DEFINE raw == exact_line(line, b)
<1>1. raw \in RawLines /\ Distinct(raw.taxes)
  BY ExactLine DEF Distinct
<1> HIDE DEF raw
<1> QED BY <1>1, AssembleStep DEF raw

\* The fold over the lines of a document assembles them one after the other.
LEMMA DocumentRun ==
    ASSUME NEW b \in Bases, NEW ls \in Seq(Priced(b)), NEW n, n = Len(ls)
    PROVE  \E r \in [0..n -> Running] :
              /\ r[0] = Nothing /\ Doc(ls, b) = r[n]
              /\ \A k \in 1..n : r[k] = Assemble(r[k-1], exact_line(ls[k], b), b)
<1> DEFINE D == 1..n
           Step(d, l) == Assemble(d, exact_line(l, b), b)
           G == [p \in D \X Running |-> Step(p[2], ls[p[1]])]
           pick == [T \in SUBSET D |-> Max(T)]
           H(h) == h = [T \in SUBSET D |-> IF T = {} THEN Nothing
                                           ELSE Step(h[T \ {Max(T)}], ls[Max(T)])]
           it == CHOOSE h : H(h)
           r == [k \in 0..n |-> it[1..k]]
<1>1. /\ n \in Nat /\ DOMAIN ls = D /\ Nothing \in Running
      /\ \A d \in Running, i \in D : Step(d, ls[i]) \in Running
  <2>1. n \in Nat /\ DOMAIN ls = D /\ \A i \in D : ls[i] \in Priced(b)
    OBVIOUS
  <2> QED BY <2>1, NothingIsRunning, AssembledType
<1>2. PICK h : FoldOf(h, D, Running, Nothing, G, pick)
  <2>1. G \in [D \X Running -> Running]
    <3> HIDE DEF Step
    <3> QED BY <1>1
  <2>2. \A T \in SUBSET D : T # {} => pick[T] \in T
    BY <1>1, LastPick
  <2>3. IsFiniteSet(D)
    BY <1>1, LastPick
  <2> HIDE DEF G, pick, D
  <2>4. Foldable(D, Running, Nothing, G, pick)
    BY <1>1, <2>1, <2>2, <2>3 DEF Foldable
  <2> QED BY <2>4, FoldExists
<1>3. ASSUME NEW T \in SUBSET D
      PROVE  h[T] = IF T = {} THEN Nothing ELSE Step(h[T \ {Max(T)}], ls[Max(T)])
  <2> HIDE DEF Step
  <2>1. h[T] = IF T = {} THEN Nothing ELSE G[<<pick[T], h[T \ {pick[T]}]>>]
    BY <1>2, Zenon DEF FoldOf
  <2>2. CASE T # {}
    <3>1. Max(T) \in D /\ pick[T] = Max(T) /\ h[T \ {Max(T)}] \in Running
      BY <1>1, <1>2, <2>2, LastPick DEF FoldOf
    <3> QED BY <2>1, <2>2, <3>1
  <2> QED BY <2>1, <2>2
<1>4. H(h)
  <2> HIDE DEF Step
  <2> QED BY <1>2, <1>3 DEF FoldOf
<1>5. H(it)
  BY <1>4, Zenon
<1>6. Doc(ls, b) = it[D]
  BY <1>1 DEF Doc, FoldLeft, MapThenFoldSet
<1> HIDE DEF it, Step
<1>7. it[{}] = Nothing
  BY <1>5
<1>8. ASSUME NEW k \in 1..n PROVE it[1..k] = Step(it[1..(k-1)], ls[k])
  <2>1. 1..k \in SUBSET D /\ k \in Nat \ {0}
    BY <1>1
  <2>2. Max(1..k) = k /\ 1..k # {} /\ (1..k) \ {Max(1..k)} = 1..(k-1)
    BY <2>1, LastPosition
  <2>3. it[1..k] = Step(it[(1..k) \ {Max(1..k)}], ls[Max(1..k)])
    BY <1>5, <2>1, <2>2
  <2> QED BY <2>2, <2>3
<1> DEFINE P == {k \in 0..n : it[1..k] \in Running}
<1>9. 0 \in P
  <2>1. 1..0 = {}
    OBVIOUS
  <2> QED BY <1>1, <1>7, <2>1
<1>10. ASSUME NEW k \in P, k < n PROVE k + 1 \in P
  <2>1. k + 1 \in 1..n /\ (k + 1) - 1 = k
    BY <1>1, <1>10
  <2>2. it[1..(k+1)] = Step(it[1..k], ls[k+1])
    BY <1>8, <2>1
  <2>3. it[1..(k+1)] \in Running
    BY <1>1, <2>1, <2>2
  <2> QED BY <2>1, <2>3
<1>11. \A k \in 0..n : it[1..k] \in Running
  <2>1. P \in SUBSET (0..n)
    OBVIOUS
  <2> HIDE DEF P
  <2>2. \A k \in 0..n : k \in P
    BY <1>1, <1>9, <1>10, <2>1, Counting
  <2> QED BY <2>2 DEF P
<1>12. r \in [0..n -> Running]
  BY <1>11
<1>13. r[0] = Nothing /\ Doc(ls, b) = r[n]
  <2>1. 1..0 = {}
    OBVIOUS
  <2> QED BY <1>1, <1>6, <1>7, <2>1
<1>14. \A k \in 1..n : r[k] = Assemble(r[k-1], exact_line(ls[k], b), b)
  BY <1>1, <1>8 DEF Step
<1> HIDE DEF r
<1> QED BY <1>12, <1>13, <1>14

\* The exact figures of the lines, in the order of the lines.
LEMMA RawRun ==
    ASSUME NEW b \in Bases, NEW ls \in Seq(Priced(b)), NEW n, n = Len(ls)
    PROVE  /\ RawOf(ls, b) \in Seq(RawLines) /\ Len(RawOf(ls, b)) = n
           /\ \A k \in 1..n : RawOf(ls, b)[k] = exact_line(ls[k], b)
<1> DEFINE D == 1..n
           V == Seq(RawLines)
           none == <<>>
           Step(d, l) == Append(d, exact_line(l, b))
           G == [p \in D \X V |-> Step(p[2], ls[p[1]])]
           pick == [T \in SUBSET D |-> Max(T)]
           H(h) == h = [T \in SUBSET D |-> IF T = {} THEN none
                                           ELSE Step(h[T \ {Max(T)}], ls[Max(T)])]
           it == CHOOSE h : H(h)
<1>1. /\ n \in Nat /\ DOMAIN ls = D /\ none \in V
      /\ \A i \in D : exact_line(ls[i], b) \in RawLines
      /\ \A d \in V, i \in D : Step(d, ls[i]) \in V
  <2>1. n \in Nat /\ DOMAIN ls = D /\ \A i \in D : ls[i] \in Priced(b)
    OBVIOUS
  <2>2. \A i \in D : exact_line(ls[i], b) \in RawLines
    BY <2>1, ExactLine
  <2> QED BY <2>1, <2>2
<1>2. PICK h : FoldOf(h, D, V, none, G, pick)
  <2>1. G \in [D \X V -> V]
    <3> HIDE DEF Step, V
    <3> QED BY <1>1
  <2>2. \A T \in SUBSET D : T # {} => pick[T] \in T
    BY <1>1, LastPick
  <2>3. IsFiniteSet(D)
    BY <1>1, LastPick
  <2> HIDE DEF G, pick, D, V, none
  <2>4. Foldable(D, V, none, G, pick)
    BY <1>1, <2>1, <2>2, <2>3 DEF Foldable
  <2> QED BY <2>4, FoldExists
<1>3. ASSUME NEW T \in SUBSET D
      PROVE  h[T] = IF T = {} THEN none ELSE Step(h[T \ {Max(T)}], ls[Max(T)])
  <2> HIDE DEF Step, V, none
  <2>1. h[T] = IF T = {} THEN none ELSE G[<<pick[T], h[T \ {pick[T]}]>>]
    BY <1>2, Zenon DEF FoldOf
  <2>2. CASE T # {}
    <3>1. Max(T) \in D /\ pick[T] = Max(T) /\ h[T \ {Max(T)}] \in V
      BY <1>1, <1>2, <2>2, LastPick DEF FoldOf
    <3> QED BY <2>1, <2>2, <3>1
  <2> QED BY <2>1, <2>2
<1>4. H(h)
  <2> HIDE DEF Step, V, none
  <2> QED BY <1>2, <1>3 DEF FoldOf
<1>5. H(it)
  BY <1>4, Zenon
<1>6. RawOf(ls, b) = it[D]
  BY <1>1 DEF RawOf, FoldLeft, MapThenFoldSet
<1> HIDE DEF it, Step
<1>7. it[{}] = none
  BY <1>5
<1>8. ASSUME NEW k \in 1..n PROVE it[1..k] = Step(it[1..(k-1)], ls[k])
  <2>1. 1..k \in SUBSET D /\ k \in Nat \ {0}
    BY <1>1
  <2>2. Max(1..k) = k /\ 1..k # {} /\ (1..k) \ {Max(1..k)} = 1..(k-1)
    BY <2>1, LastPosition
  <2>3. it[1..k] = Step(it[(1..k) \ {Max(1..k)}], ls[Max(1..k)])
    BY <1>5, <2>1, <2>2
  <2> QED BY <2>2, <2>3
<1> DEFINE P == {k \in 0..n : /\ it[1..k] \in V /\ Len(it[1..k]) = k
                              /\ \A i \in 1..k : it[1..k][i] = exact_line(ls[i], b)}
<1>9. 0 \in P
  <2>1. 1..0 = {} /\ Len(none) = 0
    OBVIOUS
  <2> HIDE DEF none, V
  <2> QED BY <1>1, <1>7, <2>1
<1>10. ASSUME NEW k \in P, k < n PROVE k + 1 \in P
  <2> DEFINE s == it[1..k]
             e == exact_line(ls[k+1], b)
             t == it[1..(k+1)]
  <2>1. k + 1 \in 1..n /\ (k + 1) - 1 = k /\ k \in Nat
    BY <1>1, <1>10
  <2>2. t = Append(s, e) /\ e \in RawLines
    BY <1>1, <1>8, <2>1 DEF Step
  <2>3. s \in V /\ Len(s) = k /\ \A i \in 1..k : s[i] = exact_line(ls[i], b)
    OBVIOUS
  <2>4. e = exact_line(ls[k+1], b)
    OBVIOUS
  <2> HIDE DEF s, e, t
  <2>5. t \in V /\ Len(t) = k + 1 /\ t[k+1] = e /\ \A i \in 1..k : t[i] = s[i]
    BY <2>1, <2>2, <2>3
  <2>6. \A i \in 1..(k+1) : t[i] = exact_line(ls[i], b)
    <3> TAKE i \in 1..(k+1)
    <3>1. i = k + 1 \/ i \in 1..k
      BY <2>1
    <3> QED BY <2>3, <2>4, <2>5, <3>1
  <2> HIDE DEF V
  <2> QED BY <2>1, <2>5, <2>6 DEF t
<1>11. n \in P
  <2>1. P \in SUBSET (0..n)
    OBVIOUS
  <2> HIDE DEF P
  <2>2. \A k \in 0..n : k \in P
    BY <1>1, <1>9, <1>10, <2>1, Counting
  <2> QED BY <1>1, <2>2
<1> QED BY <1>6, <1>11

\* A document as it is built line by line from the exact figures of its lines: r[k]
\* is what it had come to after k of them.
Built(r, raws, out, n, b) ==
    /\ r \in [0..n -> Running] /\ r[0] = Nothing
    /\ raws \in Seq(RawLines) /\ Len(raws) = n /\ out \in Seq(SharedLines) /\ Len(out) = n
    /\ b.level = "document" => \A k \in 0..n : RoundedOnce(r[k], b.mode)
    /\ \A k \in 1..n :
          /\ Distinct(raws[k].taxes) /\ LineSays(out[k], r[k-1], raws[k], b)
          /\ \A c \in DOMAIN Windows :
                /\ r[k].exact[c] = r[k-1].exact[c] + OnLine(raws[k], c)
                /\ b.level = "document" => OnLine(out[k], c) = r[k].given[c] - r[k-1].given[c]
                /\ b.level = "line" =>
                      OnLine(out[k], c) = round_to_minor(OnLine(raws[k], c), b.mode)

LEMMA DocumentIsBuilt ==
    ASSUME NEW b \in Bases, NEW ls \in Seq(Priced(b)), NEW n, n = Len(ls)
    PROVE  \E r : Built(r, RawOf(ls, b), Doc(ls, b).lines, n, b)
<1> DEFINE raws == RawOf(ls, b)
           out == Doc(ls, b).lines
<1>1. PICK r \in [0..n -> Running] :
         /\ r[0] = Nothing /\ Doc(ls, b) = r[n]
         /\ \A k \in 1..n : r[k] = Assemble(r[k-1], exact_line(ls[k], b), b)
  BY DocumentRun
<1>2. n \in Nat /\ \A k \in 1..n : ls[k] \in Priced(b)
  OBVIOUS
<1>3. /\ raws \in Seq(RawLines) /\ Len(raws) = n
      /\ \A k \in 1..n : raws[k] = exact_line(ls[k], b)
  BY RawRun
<1>4. ASSUME NEW k \in 1..n
      PROVE  raws[k] \in RawLines /\ Distinct(raws[k].taxes)
  <2>1. raws[k] = exact_line(ls[k], b) /\ ls[k] \in Priced(b)
    BY <1>2, <1>3
  <2> QED BY <2>1, ExactLine DEF Distinct
<1> HIDE DEF raws
<1> DEFINE l(k) == LineOf(r[k-1], raws[k], b)
<1>5. ASSUME NEW k \in 1..n
      PROVE  /\ r[k] = Assemble(r[k-1], raws[k], b)
             /\ k - 1 \in 0..n /\ k \in 0..n /\ r[k-1] \in Running /\ r[k] \in Running
             /\ r[k].lines = Append(r[k-1].lines, l(k))
             /\ LineSays(l(k), r[k-1], raws[k], b) /\ l(k) \in SharedLines
  <2>1. /\ r[k] = Assemble(r[k-1], raws[k], b)
        /\ k - 1 \in 0..n /\ k \in 0..n /\ r[k-1] \in Running /\ r[k] \in Running
    <3>1. k - 1 \in 0..n /\ k \in 0..n
      BY <1>2
    <3>2. r[k-1] \in Running /\ r[k] \in Running
      BY <1>1, <3>1
    <3>3. r[k] = Assemble(r[k-1], exact_line(ls[k], b), b) /\ raws[k] = exact_line(ls[k], b)
      BY <1>1, <1>3
    <3> QED BY <3>1, <3>2, <3>3
  <2>2. /\ r[k].lines = Append(r[k-1].lines, l(k))
        /\ LineSays(l(k), r[k-1], raws[k], b)
    <3> DEFINE doc == r[k-1]
               raw == raws[k]
               after == r[k]
    <3>1. doc \in Running /\ raw \in RawLines /\ Distinct(raw.taxes)
          /\ after = Assemble(doc, raw, b)
      BY <1>4, <2>1
    <3> HIDE DEF doc, raw, after
    <3>2. after.lines = Append(doc.lines, LineOf(doc, raw, b))
          /\ LineSays(LineOf(doc, raw, b), doc, raw, b)
      BY <3>1, AssembleStep
    <3> QED BY <3>2 DEF doc, raw, after
  <2> QED BY <2>1, <2>2 DEF LineSays
<1> HIDE DEF l
<1> DEFINE P == {k \in 0..n : Len(r[k].lines) = k /\ \A i \in 1..k : r[k].lines[i] = l(i)}
<1>6. 0 \in P
  <2>1. Len(Nothing.lines) = 0
    BY DEF Nothing
  <2> QED BY <1>1, <1>2, <2>1
<1>7. ASSUME NEW k \in P, k < n PROVE k + 1 \in P
  <2> DEFINE s == r[k].lines
             t == r[k+1].lines
  <2>1. k + 1 \in 1..n /\ (k + 1) - 1 = k /\ k \in Nat /\ k \in 0..n
    BY <1>2, <1>7
  <2>2. t = Append(s, l(k+1)) /\ l(k+1) \in SharedLines
    BY <1>5, <2>1
  <2>3. s \in Seq(SharedLines)
    BY <1>1, <2>1 DEF Running
  <2>4. Len(s) = k /\ \A i \in 1..k : s[i] = l(i)
    OBVIOUS
  <2> HIDE DEF s, t
  <2>5. Len(t) = k + 1 /\ t[k+1] = l(k+1) /\ \A i \in 1..k : t[i] = s[i]
    BY <2>1, <2>2, <2>3, <2>4
  <2>6. \A i \in 1..(k+1) : t[i] = l(i)
    <3> TAKE i \in 1..(k+1)
    <3>1. i = k + 1 \/ i \in 1..k
      BY <2>1
    <3> QED BY <2>4, <2>5, <3>1
  <2> QED BY <2>1, <2>5, <2>6 DEF t
<1>8. n \in P
  <2>1. P \in SUBSET (0..n)
    OBVIOUS
  <2> HIDE DEF P
  <2>2. \A k \in 0..n : k \in P
    BY <1>2, <1>6, <1>7, <2>1, Counting
  <2> QED BY <1>2, <2>2
<1>9. out \in Seq(SharedLines) /\ Len(out) = n /\ \A k \in 1..n : out[k] = l(k)
  <2>1. r[n] \in Running
    BY <1>1, <1>2
  <2> QED BY <1>1, <1>8, <2>1 DEF Running
<1> HIDE DEF out, P
<1>10. ASSUME NEW k \in 1..n, NEW c \in DOMAIN Windows
       PROVE  /\ r[k].exact[c] = r[k-1].exact[c] + OnLine(raws[k], c)
              /\ b.level = "document"
                    /\ r[k-1].given[c] = round_to_minor(r[k-1].exact[c], b.mode) =>
                  /\ r[k].given[c] = round_to_minor(r[k].exact[c], b.mode)
                  /\ OnLine(out[k], c) = r[k].given[c] - r[k-1].given[c]
              /\ b.level = "line" =>
                    OnLine(out[k], c) = round_to_minor(OnLine(raws[k], c), b.mode)
  <2>1. out[k] = LineOf(r[k-1], raws[k], b)
    BY <1>9 DEF l
  <2> DEFINE doc == r[k-1]
             raw == raws[k]
             after == r[k]
             line == out[k]
  <2>2. /\ doc \in Running /\ raw \in RawLines /\ Distinct(raw.taxes)
        /\ after = Assemble(doc, raw, b) /\ line = LineOf(doc, raw, b)
    BY <1>4, <1>5, <2>1
  <2> HIDE DEF doc, raw, after, line
  <2>3. /\ after.exact[c] = doc.exact[c] + OnLine(raw, c)
        /\ b.level = "document" /\ doc.given[c] = round_to_minor(doc.exact[c], b.mode) =>
              /\ after.given[c] = round_to_minor(after.exact[c], b.mode)
              /\ OnLine(line, c) = after.given[c] - doc.given[c]
        /\ b.level = "line" => OnLine(line, c) = round_to_minor(OnLine(raw, c), b.mode)
    BY <2>2, SharingKeepsTheTotal
  <2> QED BY <2>3 DEF doc, raw, after, line
<1>11. ASSUME b.level = "document" PROVE \A k \in 0..n : RoundedOnce(r[k], b.mode)
  <2> DEFINE Q == {k \in 0..n : RoundedOnce(r[k], b.mode)}
  <2>1. 0 \in Q
    <3>1. RoundedOnce(Nothing, b.mode)
      BY NoneRounded DEF RoundedOnce, Nothing
    <3> QED BY <1>1, <1>2, <3>1
  <2>2. ASSUME NEW k \in Q, k < n PROVE k + 1 \in Q
    <3>1. k + 1 \in 1..n /\ (k + 1) - 1 = k /\ k + 1 \in 0..n
      BY <1>2, <2>2
    <3>2. \A c \in DOMAIN Windows : r[k+1].given[c] = round_to_minor(r[k+1].exact[c], b.mode)
      BY <1>10, <1>11, <3>1 DEF RoundedOnce
    <3> QED BY <3>1, <3>2 DEF RoundedOnce
  <2>3. Q \in SUBSET (0..n)
    OBVIOUS
  <2> HIDE DEF Q
  <2>4. \A k \in 0..n : k \in Q
    BY <1>2, <2>1, <2>2, <2>3, Counting
  <2> QED BY <2>4 DEF Q
<1>12. ASSUME NEW k \in 1..n, NEW c \in DOMAIN Windows, b.level = "document"
       PROVE  OnLine(out[k], c) = r[k].given[c] - r[k-1].given[c]
  BY <1>5, <1>10, <1>11, <1>12 DEF RoundedOnce
<1>13. \A k \in 1..n : LineSays(out[k], r[k-1], raws[k], b)
  BY <1>5, <1>9
<1>14. Built(r, raws, out, n, b)
  BY <1>1, <1>3, <1>4, <1>9, <1>10, <1>11, <1>12, <1>13 DEF Built
<1> QED BY <1>14 DEF raws, out

-----------------------------------------------------------------------------
(* The footer                                                              *)

LEMMA OneMore ==
    ASSUME NEW n \in Nat, NEW k \in 0..n, k < n
    PROVE  1..(k+1) \in SUBSET (1..n) /\ k + 1 \in 1..(k+1) /\ (1..(k+1)) \ {k+1} = 1..k
<1>1. k \in Nat /\ k + 1 \in Nat /\ k + 1 <= n
  OBVIOUS
<1>2. \A i \in 1..(k+1) : i \in 1..n
  BY <1>1
<1>3. \A i : i \in 1..k <=> i \in 1..(k+1) /\ i # k + 1
  BY <1>1
<1>4. k + 1 \in 1..(k+1)
  BY <1>1
<1> QED BY <1>2, <1>3, <1>4

\* What grows by one summand at a step has grown by their sum in the end.
LEMMA Telescopes ==
    ASSUME NEW n \in Nat, NEW e \in [0..n -> Int], NEW f, Summable(f, 1..n),
           \A k \in 1..n : e[k] = e[k-1] + f[k]
    PROVE  SumFunction(f) = e[n] - e[0]
<1>1. PICK h : Sums(h, f, 1..n) /\ SumFunction(f) = h[1..n]
  BY SumsOf
<1> DEFINE P == {k \in 0..n : h[1..k] = e[k] - e[0]}
<1>2. 0 \in P
  <2>1. 1..0 = {} /\ h[{}] = 0
    BY <1>1 DEF Sums
  <2> QED BY <2>1
<1>3. ASSUME NEW k \in P, k < n PROVE k + 1 \in P
  <2>1. k + 1 \in 1..n /\ (k + 1) - 1 = k /\ k \in 0..n /\ k + 1 \in 0..n
    BY <1>3
  <2>2. 1..(k+1) \in SUBSET (1..n) /\ k + 1 \in 1..(k+1) /\ (1..(k+1)) \ {k+1} = 1..k
    BY <1>3, OneMore
  <2>3. h[1..(k+1)] = f[k+1] + h[1..k]
    <3>1. \A T \in SUBSET (1..n) : \A x \in T : h[T] = f[x] + h[T \ {x}]
      BY <1>1 DEF Sums
    <3>2. h[1..(k+1)] = f[k+1] + h[(1..(k+1)) \ {k+1}]
      BY <2>2, <3>1
    <3> QED BY <2>2, <3>2
  <2>4. e[k+1] = e[k] + f[k+1] /\ h[1..k] = e[k] - e[0]
    BY <2>1
  <2>5. e[k] \in Int /\ e[0] \in Int /\ f[k+1] \in Int
    BY <2>1 DEF Summable
  <2>6. h[1..(k+1)] = e[k+1] - e[0]
    BY <2>3, <2>4, <2>5
  <2> QED BY <2>1, <2>6
<1>4. n \in P
  <2>1. P \in SUBSET (0..n)
    OBVIOUS
  <2> HIDE DEF P
  <2>2. \A k \in 0..n : k \in P
    BY <1>2, <1>3, <2>1, Counting
  <2> QED BY <2>2
<1> QED BY <1>1, <1>4

ByHand(raws, c, b) ==
    IF b.level = "document" THEN round_to_minor(by_tax(raws, c), b.mode)
    ELSE SumFunction([n \in DOMAIN raws |-> round_to_minor(OnLine(raws[n], c), b.mode)])

\* What the lines were given of a code is its total over the document, rounded once,
\* or what each line rounded.
LEMMA CodeTotal ==
    ASSUME NEW b \in Bases, NEW n \in Nat, NEW r, NEW raws, NEW out,
           Built(r, raws, out, n, b), NEW c \in DOMAIN Windows
    PROVE  /\ by_tax(out, c) = ByHand(raws, c, b)
           /\ \A k \in 1..n : OnLine(out[k], c) \in Int
<1> DEFINE f == [k \in 1..n |-> OnLine(raws[k], c)]
           g == [k \in 1..n |-> OnLine(out[k], c)]
           e == [k \in 0..n |-> r[k].exact[c]]
           d == [k \in 0..n |-> r[k].given[c]]
<1>1. DOMAIN raws = 1..n /\ DOMAIN out = 1..n
  BY DEF Built
<1>2. \A k \in 1..n : raws[k] \in RawLines /\ out[k] \in SharedLines
  BY DEF Built
<1>3. IsFiniteSet(1..n)
  BY FS_Interval
<1>4. Summable(f, 1..n)
  <2>1. ASSUME NEW k \in 1..n PROVE OnLine(raws[k], c) \in Int
    <3>1. raws[k].taxes \in Seq(Shares)
      BY <1>2 DEF RawLines
    <3> QED BY <3>1, OnLineType
  <2> QED BY <1>3, <2>1 DEF Summable
<1>5. Summable(g, 1..n) /\ \A k \in 1..n : OnLine(out[k], c) \in Int
  <2>1. ASSUME NEW k \in 1..n PROVE OnLine(out[k], c) \in Int
    <3>1. out[k].taxes \in Seq(Shares)
      BY <1>2 DEF SharedLines
    <3> QED BY <3>1, OnLineType
  <2> QED BY <1>3, <2>1 DEF Summable
<1>6. by_tax(raws, c) = SumFunction(f) /\ by_tax(out, c) = SumFunction(g)
  BY <1>1 DEF by_tax
<1>7. ASSUME NEW k \in 0..n PROVE r[k].exact[c] \in Int /\ r[k].given[c] \in Int
  BY DEF Built, Running
<1>8. e \in [0..n -> Int] /\ d \in [0..n -> Int]
  BY <1>7
<1>9. e[0] = 0 /\ d[0] = 0
  BY DEF Built, Nothing
<1>10. ASSUME NEW k \in 1..n
       PROVE  e[k] = e[k-1] + f[k] /\ (b.level = "document" => d[k] = d[k-1] + g[k])
  <2>1. k - 1 \in 0..n /\ k \in 0..n
    OBVIOUS
  <2>2. /\ r[k].exact[c] = r[k-1].exact[c] + OnLine(raws[k], c)
        /\ b.level = "document" => OnLine(out[k], c) = r[k].given[c] - r[k-1].given[c]
    BY DEF Built
  <2>3. r[k].given[c] \in Int /\ r[k-1].given[c] \in Int
    BY <1>7, <2>1
  <2> QED BY <2>1, <2>2, <2>3
<1>11. b.level = "line" \/ b.level = "document"
  BY DEF Bases
<1>12. CASE b.level = "document"
  <2>1. n \in 0..n
    OBVIOUS
  <2>2. d[n] = round_to_minor(e[n], b.mode)
    BY <1>12, <2>1 DEF Built, RoundedOnce
  <2> HIDE DEF e, d, f, g
  <2>3. SumFunction(f) = e[n] - e[0]
    BY <1>4, <1>8, <1>10, Telescopes
  <2>4. SumFunction(g) = d[n] - d[0]
    BY <1>5, <1>8, <1>10, <1>12, Telescopes
  <2>5. e[n] \in Int /\ d[n] \in Int
    BY <1>8, <2>1
  <2>6. SumFunction(f) = e[n] /\ SumFunction(g) = d[n]
    BY <1>9, <2>3, <2>4, <2>5
  <2> QED BY <1>5, <1>6, <1>12, <2>2, <2>6 DEF ByHand
<1>13. CASE b.level = "line"
  <2>1. [k \in DOMAIN raws |-> round_to_minor(OnLine(raws[k], c), b.mode)] = g
    BY <1>1, <1>13 DEF Built
  <2> HIDE DEF g
  <2> QED BY <1>5, <1>6, <1>13, <2>1 DEF ByHand
<1> QED BY <1>11, <1>12, <1>13

LEMMA CodesOf ==
    ASSUME NEW raws \in Seq(RawLines)
    PROVE  IsFiniteSet(Codes(raws)) /\ Codes(raws) \subseteq DOMAIN Windows
<1> DEFINE D == DOMAIN raws
           codes(k) == {raws[k].taxes[i].code : i \in DOMAIN raws[k].taxes}
           all == {codes(k) : k \in D}
<1>1. Len(raws) \in Nat /\ D = 1..Len(raws) /\ \A k \in D : raws[k] \in RawLines
  OBVIOUS
<1>2. IsFiniteSet(D)
  BY <1>1, FS_Interval
<1>3. \A k \in D : raws[k].taxes \in Seq(Shares)
  BY <1>1 DEF RawLines
<1>4. ASSUME NEW k \in D PROVE IsFiniteSet(codes(k)) /\ codes(k) \subseteq DOMAIN Windows
  <2> DEFINE t == raws[k].taxes
             T == DOMAIN t
             f == [i \in T |-> t[i].code]
  <2>1. IsFiniteSet(T)
    BY <1>3, LinePositions
  <2>2. f \in Surjection(T, codes(k))
    BY DEF Surjection
  <2>3. codes(k) \subseteq DOMAIN Windows
    <3>1. \A i \in T : t[i] \in Shares
      BY <1>3
    <3> QED BY <3>1 DEF Shares
  <2> HIDE DEF f, T, codes
  <2> QED BY <2>1, <2>2, <2>3, FS_Surjection
<1>5. IsFiniteSet(all)
  <2> DEFINE f == [k \in D |-> codes(k)]
  <2> HIDE DEF codes
  <2>1. f \in Surjection(D, all)
    BY DEF Surjection
  <2> HIDE DEF f, all, D
  <2> QED BY <1>2, <2>1, FS_Surjection
<1>6. \A T \in all : IsFiniteSet(T) /\ T \subseteq DOMAIN Windows
  <2> HIDE DEF codes
  <2> QED BY <1>4
<1>7. Codes(raws) = UNION all
  BY DEF Codes
<1> HIDE DEF all
<1> QED BY <1>5, <1>6, <1>7, FS_UNION

\* The taxes of a line are what it has of the codes it bears.
LEMMA LineTax ==
    ASSUME NEW taxes \in Seq(Shares), NEW l, l.taxes = taxes, NEW C, IsFiniteSet(C),
           \A i \in DOMAIN taxes : taxes[i].code \in C
    PROVE  SumFunction([i \in DOMAIN taxes |-> taxes[i].amount])
              = SumFunction([c \in C |-> OnLine(l, c)])
<1> DEFINE S == DOMAIN taxes
           a == [i \in S |-> taxes[i].amount]
           F == [i \in S |-> [c \in C |-> IF c = taxes[i].code THEN a[i] ELSE 0]]
           of(c) == {j \in S : taxes[j].code = c}
<1>1. IsFiniteSet(S)
  BY LinePositions
<1>2. \A i \in S : taxes[i] \in Shares
  OBVIOUS
<1>3. Summable(a, S) /\ \A i \in S : a[i] \in Int
  BY <1>1, <1>2 DEF Summable, Shares
<1>4. F \in [S -> [C -> Int]]
  BY <1>3
<1>5. ASSUME NEW i \in S PROVE SumFunction(F[i]) = a[i]
  <2> DEFINE g == F[i]
             c0 == taxes[i].code
  <2>1. Summable(g, C) /\ c0 \in C /\ g[c0] = a[i] /\ \A c \in C \ {c0} : g[c] = 0
    BY <1>3 DEF Summable
  <2> HIDE DEF g, c0
  <2>2. SumFunction(g) = g[c0]
    BY <2>1, SumOfOne
  <2> QED BY <2>1, <2>2 DEF g
<1>6. ASSUME NEW c \in C PROVE SumFunction([i \in S |-> F[i][c]]) = OnLine(l, c)
  <2> DEFINE T == of(c)
  <2>1. [i \in S |-> F[i][c]] = [i \in S |-> IF i \in T THEN a[i] ELSE 0]
    OBVIOUS
  <2>2. Restrict(a, T) = [i \in T |-> taxes[i].amount]
    BY DEF Restrict
  <2>3. OnLine(l, c) = SumFunction([i \in T |-> taxes[i].amount])
    BY DEF OnLine
  <2>4. T \in SUBSET S
    OBVIOUS
  <2> HIDE DEF T, a
  <2>5. SumFunction(Restrict(a, T)) = SumFunction([i \in S |-> IF i \in T THEN a[i] ELSE 0])
    BY <1>3, <2>4, SumOfPart
  <2> QED BY <2>1, <2>2, <2>3, <2>5
<1> HIDE DEF F, S
<1>7. SumFunction([i \in S |-> SumFunction(F[i])])
         = SumFunction([c \in C |-> SumFunction([i \in S |-> F[i][c]])])
  <2>1. Table(F, S, C)
    BY <1>1, <1>4 DEF Table
  <2> QED BY <2>1, SumSwaps
<1>8. [i \in S |-> SumFunction(F[i])] = a
  BY <1>5
<1>9. [c \in C |-> SumFunction([i \in S |-> F[i][c]])] = [c \in C |-> OnLine(l, c)]
  BY <1>6
<1>10. SumFunction(a) = SumFunction([c \in C |-> OnLine(l, c)])
  BY <1>7, <1>8, <1>9
<1> QED BY <1>10 DEF S

\* The tax of the document is that of its lines, and that of its codes by hand.
LEMMA Footer ==
    ASSUME NEW b \in Bases, NEW n \in Nat, NEW r, NEW raws, NEW out,
           Built(r, raws, out, n, b)
    PROVE  SumFunction([k \in 1..n |-> out[k].tax])
              = SumFunction([c \in Codes(raws) |-> ByHand(raws, c, b)])
<1> DEFINE S == 1..n
           C == Codes(raws)
           F == [k \in S |-> [c \in C |-> OnLine(out[k], c)]]
<1>1. raws \in Seq(RawLines) /\ DOMAIN raws = S /\ \A k \in S : raws[k] \in RawLines
  BY DEF Built
<1>2. IsFiniteSet(S) /\ IsFiniteSet(C) /\ C \subseteq DOMAIN Windows
  BY <1>1, CodesOf, FS_Interval
<1>3. \A c \in C : by_tax(out, c) = ByHand(raws, c, b) /\ \A k \in S : OnLine(out[k], c) \in Int
  BY <1>2, CodeTotal
<1>4. DOMAIN out = S /\ \A k \in S : out[k] \in SharedLines
  BY DEF Built
<1>5. ASSUME NEW k \in S PROVE out[k].tax = SumFunction(F[k])
  <2> DEFINE taxes == out[k].taxes
  <2>1. LineSays(out[k], r[k-1], raws[k], b)
    BY DEF Built
  <2>2. taxes \in Seq(Shares)
    BY <1>4 DEF SharedLines
  <2>3. ASSUME NEW i \in DOMAIN taxes PROVE taxes[i].code \in C
    <3>1. i \in DOMAIN raws[k].taxes /\ taxes[i] = Given(r[k-1], raws[k].taxes[i], b)
      BY <2>1 DEF LineSays
    <3>2. taxes[i].code = raws[k].taxes[i].code
      BY <3>1, GivenIs
    <3> DEFINE T == {raws[k].taxes[j].code : j \in DOMAIN raws[k].taxes}
    <3>3. taxes[i].code \in T
      BY <3>1, <3>2
    <3>4. C = UNION {{raws[m].taxes[j].code : j \in DOMAIN raws[m].taxes} : m \in S}
      BY <1>1 DEF Codes
    <3>5. T \subseteq C
      BY <3>4
    <3> HIDE DEF T, C
    <3> QED BY <3>3, <3>5
  <2>4. F[k] = [c \in C |-> OnLine(out[k], c)]
    OBVIOUS
  <2>5. out[k].tax = SumFunction([i \in DOMAIN taxes |-> taxes[i].amount])
    BY <2>1 DEF LineSays
  <2>6. out[k].taxes = taxes
    OBVIOUS
  <2> HIDE DEF taxes, C, F
  <2>7. SumFunction([i \in DOMAIN taxes |-> taxes[i].amount])
           = SumFunction([c \in C |-> OnLine(out[k], c)])
    BY <1>2, <2>2, <2>3, <2>6, LineTax
  <2> QED BY <2>4, <2>5, <2>7
<1>6. ASSUME NEW c \in C
      PROVE  SumFunction([k \in S |-> F[k][c]]) = ByHand(raws, c, b)
  <2>1. [k \in S |-> F[k][c]] = [k \in DOMAIN out |-> OnLine(out[k], c)]
    BY <1>4
  <2> HIDE DEF F
  <2> QED BY <1>3, <2>1 DEF by_tax
<1>7. F \in [S -> [C -> Int]]
  BY <1>3
<1> HIDE DEF F, S, C
<1>8. SumFunction([k \in S |-> SumFunction(F[k])])
         = SumFunction([c \in C |-> SumFunction([k \in S |-> F[k][c]])])
  <2>1. Table(F, S, C)
    BY <1>2, <1>7 DEF Table
  <2> QED BY <2>1, SumSwaps
<1>9. [k \in S |-> SumFunction(F[k])] = [k \in S |-> out[k].tax]
  BY <1>5
<1>10. [c \in C |-> SumFunction([k \in S |-> F[k][c]])] = [c \in C |-> ByHand(raws, c, b)]
  BY <1>6
<1>11. SumFunction([k \in S |-> out[k].tax]) = SumFunction([c \in C |-> ByHand(raws, c, b)])
  BY <1>8, <1>9, <1>10
<1> QED BY <1>11 DEF S, C

\* What a document that is not refused comes to.
LEMMA Computed ==
    ASSUME NEW b \in Bases, NEW ls \in Seq(Priced(b)), NEW t, t = compute(ls, b),
           NEW raws, raws = RawOf(ls, b), NEW n, n = Len(ls)
    PROVE  /\ \E r : Built(r, raws, t.lines, n, b)
           /\ t.gross = SumFunction([k \in DOMAIN ls |-> t.lines[k].gross])
           /\ t.tax = SumFunction([c \in Codes(raws) |-> ByHand(raws, c, b)])
           /\ \A c \in Codes(raws) : by_tax(t.lines, c) = ByHand(raws, c, b)
<1> DEFINE out == Doc(ls, b).lines
           net == [k \in DOMAIN ls |-> out[k].net]
           tax == [k \in DOMAIN ls |-> out[k].tax]
<1>1. /\ t.lines = out /\ t.tax = SumFunction(tax)
      /\ t.gross = SumFunction(net) + SumFunction(tax)
  BY DEF compute, Doc
<1>2. n \in Nat /\ DOMAIN ls = 1..n
  OBVIOUS
<1>3. PICK r : Built(r, raws, out, n, b)
  BY DocumentIsBuilt
<1> HIDE DEF out
<1>4. \A k \in 1..n : LineSays(out[k], r[k-1], raws[k], b)
  BY <1>3 DEF Built
<1>5. \A k \in 1..n : /\ out[k].net \in Int /\ out[k].tax \in Int
                      /\ out[k].gross = out[k].net + out[k].tax
  BY <1>4 DEF LineSays, SharedLines
<1>6. Summable(net, 1..n) /\ Summable(tax, 1..n)
  <2>1. IsFiniteSet(1..n)
    BY <1>2, FS_Interval
  <2>2. net \in [1..n -> Int] /\ tax \in [1..n -> Int]
    BY <1>2, <1>5
  <2> QED BY <2>1, <2>2 DEF Summable
<1>7. [k \in DOMAIN ls |-> out[k].gross] = [k \in 1..n |-> net[k] + tax[k]]
  BY <1>2, <1>5
<1>8. tax = [k \in 1..n |-> out[k].tax]
  BY <1>2
<1>9. raws \in Seq(RawLines)
  BY <1>3 DEF Built
<1>10. Codes(raws) \subseteq DOMAIN Windows
  BY <1>9, CodesOf
<1> HIDE DEF net, tax
<1>11. SumFunction([k \in 1..n |-> net[k] + tax[k]]) = SumFunction(net) + SumFunction(tax)
  BY <1>6, SumAdds
<1>12. SumFunction(tax) = SumFunction([c \in Codes(raws) |-> ByHand(raws, c, b)])
  BY <1>2, <1>3, <1>8, Footer
<1>13. \A c \in Codes(raws) : by_tax(out, c) = ByHand(raws, c, b)
  BY <1>2, <1>3, <1>10, CodeTotal
<1> QED BY <1>1, <1>3, <1>7, <1>11, <1>12, <1>13

-----------------------------------------------------------------------------
(* The draft                                                               *)

\* Whatever is done to a draft, it has just been priced from what it stores.
Kept ==
    /\ basis \in Bases /\ lines \in Seq(Lines)
    /\ totals = price(lines, basis)

LEMMA KeptHolds == Spec => []Kept
<1>1. Init => Kept
  BY DEF Init, Kept, Bases
<1>2. Kept /\ [Next]_vars => Kept'
  <2> SUFFICES ASSUME Kept, [Next]_vars PROVE Kept'
    OBVIOUS
  <2> USE DEF Kept
  <2>1. ASSUME NEW line \in Lines, AddLine(line) PROVE Kept'
    <3>1. lines' \in Seq(Lines) /\ basis' = basis
      BY <2>1 DEF AddLine
    <3>2. totals' = price(lines', basis')
      BY <2>1, <3>1 DEF AddLine
    <3> QED BY <3>1, <3>2
  <2>2. ASSUME NEW n \in DOMAIN lines, RemoveLine(n) PROVE Kept'
    <3>1. lines' = SubSeq(lines, 1, n - 1) \o SubSeq(lines, n + 1, Len(lines)) /\ basis' = basis
      BY <2>2 DEF RemoveLine, RemoveAt
    <3>2. n \in 1..Len(lines) /\ Len(lines) \in Nat
      OBVIOUS
    <3>3. SubSeq(lines, 1, n - 1) \in Seq(Lines) /\ SubSeq(lines, n + 1, Len(lines)) \in Seq(Lines)
      BY <3>2
    <3>4. lines' \in Seq(Lines)
      BY <3>1, <3>3
    <3>5. totals' = price(lines', basis')
      BY <2>2, <3>1 DEF RemoveLine
    <3> QED BY <3>1, <3>4, <3>5
  <2>3. ASSUME NEW field \in DOMAIN Offered, ChangeBasis(field) PROVE Kept'
    <3>1. PICK choice \in Offered[field] : basis' = [basis EXCEPT ![field] = choice]
      BY <2>3 DEF ChangeBasis
    <3>2. basis' \in Bases
      BY <3>1 DEF Offered, Bases
    <3>3. lines' = lines /\ totals' = price(lines, basis')
      BY <2>3 DEF ChangeBasis
    <3> QED BY <3>2, <3>3
  <2>4. ASSUME NEW rate \in ExchangeRates, Post(rate) PROVE Kept'
    BY <2>4 DEF Post
  <2>5. CASE UNCHANGED vars
    BY <2>5 DEF vars
  <2> QED BY <2>1, <2>2, <2>3, <2>4, <2>5 DEF Next
<1> QED BY <1>1, <1>2, PTL DEF Spec

LEMMA KeptIsPriced ==
    ASSUME Kept, ~totals.refused
    PROVE  /\ basis \in Bases /\ lines \in Seq(Priced(basis))
           /\ totals = compute(lines, basis) /\ Raw = RawOf(lines, basis)
<1>1. /\ totals = compute(lines, basis)
      /\ \A n \in DOMAIN lines : lines[n].group # OutOfScope => resolvable(lines[n].group, basis.day)
  BY DEF Kept, price, Refused
<1>2. \A n \in 1..Len(lines) : lines[n] \in Lines
  BY DEF Kept
<1>3. \A n \in 1..Len(lines) : lines[n] \in Priced(basis)
  BY <1>1, <1>2 DEF Kept, Priced, Resolvable, Lines
<1>4. lines \in Seq(Priced(basis))
  BY <1>3 DEF Kept
<1>5. Raw = RawOf(lines, basis)
  BY DEF Raw, RawOf
<1> QED BY <1>1, <1>4, <1>5 DEF Kept

\* However a draft was edited into what it is, its lines add up to its footer, and
\* each code's total is the one a person checking the document by hand would get.
THEOREM TotalsAreByHand == Spec => []TotalIsByHand
<1>1. ASSUME Kept PROVE TotalIsByHand
  <2> DEFINE raw == Raw
             n == Len(lines)
             t == totals
             b == basis
             Hand(c) ==
                IF basis.level = "document" THEN round_to_minor(by_tax(raw, c), basis.mode)
                ELSE SumFunction([k \in DOMAIN raw |-> round_to_minor(OnLine(raw[k], c), basis.mode)])
  <2>1. SUFFICES ASSUME ~totals.refused
                 PROVE  /\ totals.gross = SumFunction([k \in DOMAIN lines |-> totals.lines[k].gross])
                        /\ totals.tax = SumFunction([c \in Codes(raw) |-> Hand(c)])
                        /\ \A c \in Codes(raw) : by_tax(totals.lines, c) = Hand(c)
    BY DEF TotalIsByHand
  <2>2. /\ basis \in Bases /\ lines \in Seq(Priced(basis))
        /\ totals = compute(lines, basis) /\ raw = RawOf(lines, basis)
    BY <1>1, <2>1, KeptIsPriced
  <2>3. \A c : Hand(c) = ByHand(raw, c, basis)
    BY DEF ByHand
  <2>4. /\ totals.gross = SumFunction([k \in DOMAIN lines |-> totals.lines[k].gross])
        /\ totals.tax = SumFunction([c \in Codes(raw) |-> ByHand(raw, c, basis)])
        /\ \A c \in Codes(raw) : by_tax(totals.lines, c) = ByHand(raw, c, basis)
    <3>1. /\ b \in Bases /\ lines \in Seq(Priced(b)) /\ t = compute(lines, b)
          /\ raw = RawOf(lines, b) /\ n = Len(lines)
      BY <2>2
    <3> HIDE DEF raw, n, t, b
    <3>2. /\ t.gross = SumFunction([k \in DOMAIN lines |-> t.lines[k].gross])
          /\ t.tax = SumFunction([c \in Codes(raw) |-> ByHand(raw, c, b)])
          /\ \A c \in Codes(raw) : by_tax(t.lines, c) = ByHand(raw, c, b)
      BY <3>1, Computed
    <3> QED BY <3>2 DEF t, b
  <2> HIDE DEF raw, Hand
  <2>5. [c \in Codes(raw) |-> Hand(c)] = [c \in Codes(raw) |-> ByHand(raw, c, basis)]
    BY <2>3
  <2> QED BY <2>3, <2>4, <2>5
<1> QED BY <1>1, KeptHolds, PTL

\* However a draft was edited into what it is, no line carries another's tax: each is
\* given its own to a minor unit, nothing of nothing, and a quoted price stays.
THEOREM SharesStayFair == Spec => []SharesAreFair
<1>1. ASSUME Kept PROVE SharesAreFair
  <2> DEFINE raw == Raw
             ts == totals.lines
             n == Len(lines)
  <2>1. SUFFICES ASSUME ~totals.refused, NEW k \in DOMAIN lines
                 PROVE  /\ basis.pricing = "inclusive" => ts[k].gross = raw[k].given
                        /\ \A i \in DOMAIN raw[k].taxes :
                              LET given == ts[k].taxes[i].amount
                                  own == raw[k].taxes[i].amount
                              IN  /\ Magnitude(given - own) <= MinorUnit
                                  /\ own = 0 => given = 0
                                  /\ given % MinorUnit = 0
    BY DEF SharesAreFair
  <2>2. /\ basis \in Bases /\ lines \in Seq(Priced(basis))
        /\ totals = compute(lines, basis) /\ raw = RawOf(lines, basis)
    BY <1>1, <2>1, KeptIsPriced
  <2>3. n \in Nat /\ k \in 1..n /\ k - 1 \in 0..n
    BY <2>2
  <2> HIDE DEF raw, n
  <2>4. PICK r : Built(r, raw, ts, n, basis)
    BY <2>2, Computed DEF n
  <2>5. /\ r[k-1] \in Running /\ raw[k] \in RawLines
        /\ LineSays(ts[k], r[k-1], raw[k], basis)
        /\ basis.level = "document" => RoundedOnce(r[k-1], basis.mode)
    BY <2>3, <2>4 DEF Built
  <2> HIDE DEF ts
  <2>6. basis.pricing = "inclusive" => ts[k].gross = raw[k].given
    BY <2>5 DEF LineSays
  <2>7. ASSUME NEW i \in DOMAIN raw[k].taxes
        PROVE  LET given == ts[k].taxes[i].amount
                   own == raw[k].taxes[i].amount
               IN  /\ Magnitude(given - own) <= MinorUnit
                   /\ own = 0 => given = 0
                   /\ given % MinorUnit = 0
    <3> DEFINE doc == r[k-1]
               tax == raw[k].taxes[i]
               given == ts[k].taxes[i].amount
    <3>1. tax \in Shares
      <4>1. raw[k].taxes \in Seq(Shares)
        BY <2>5 DEF RawLines
      <4> QED BY <4>1
    <3>2. given = Given(doc, tax, basis).amount
      BY <2>5 DEF LineSays
    <3>3. doc \in Running /\ (basis.level = "document" => RoundedOnce(doc, basis.mode))
      BY <2>5
    <3> HIDE DEF doc, tax, given
    <3>4. /\ Magnitude(given - tax.amount) <= MinorUnit
          /\ tax.amount = 0 => given = 0
          /\ given % MinorUnit = 0
      BY <2>2, <3>1, <3>2, <3>3, ShareIsFair
    <3> QED BY <3>4 DEF tax, given
  <2> QED BY <2>6, <2>7
<1> QED BY <1>1, KeptHolds, PTL

-----------------------------------------------------------------------------
(* What a tax is charged on                                                *)

LEMMA MagnitudeBound ==
    ASSUME NEW x \in Int, NEW y \in Int
    PROVE  Magnitude(x) <= y <=> (x <= y /\ -x <= y)
  BY DEF Magnitude

LEMMA Multiplied ==
    ASSUME NEW p \in Nat, NEW x \in Int, NEW y \in Int, x <= y
    PROVE  p * x <= p * y
<1>1. y - x \in Nat
  OBVIOUS
<1>2. p * (y - x) \in Nat
  BY <1>1
<1>3. p * (y - x) = p * y - p * x
  OBVIOUS
<1> QED BY <1>2, <1>3

LEMMA Enlarged ==
    ASSUME NEW p \in Nat, NEW x \in Int, NEW y \in Int, Magnitude(x) <= y
    PROVE  Magnitude(p * x) <= p * y
<1>1. x <= y /\ -x <= y
  BY MagnitudeBound
<1>2. p * x <= p * y
  BY <1>1, Multiplied
<1>3. p * (-x) <= p * y
  <2> -x \in Int
    OBVIOUS
  <2> QED BY <1>1, Multiplied
<1>4. p * (-x) = -(p * x) /\ p * x \in Int /\ p * y \in Int
  OBVIOUS
<1> QED BY <1>2, <1>3, <1>4, MagnitudeBound

LEMMA Divided ==
    ASSUME NEW p \in Nat \ {0}, NEW x \in Int, NEW y \in Int, p * x <= p * y
    PROVE  x <= y
<1> SUFFICES ASSUME y + 1 <= x PROVE FALSE
  OBVIOUS
<1>1. p * (y + 1) <= p * x
  BY Multiplied
<1>2. p * (y + 1) = p * y + p
  OBVIOUS
<1> QED BY <1>1, <1>2

LEMMA MagnitudeScales ==
    \A p \in Nat, x \in Int : Magnitude(p * x) = p * Magnitude(x)
<1> TAKE p \in Nat, x \in Int
<1>1. CASE x >= 0
  <2>1. p * x >= 0
    BY <1>1
  <2> QED BY <1>1, <2>1 DEF Magnitude
<1>2. CASE x < 0
  <2>1. p * (-x) >= 0 /\ p * (-x) = -(p * x)
    BY <1>2
  <2>2. CASE p * x = 0
    BY <1>2, <2>1, <2>2 DEF Magnitude
  <2>3. CASE p * x # 0
    BY <1>2, <2>1, <2>3 DEF Magnitude
  <2> QED BY <2>2, <2>3
<1> QED BY <1>1, <1>2

\* A tax by its factor and by one step from what it is charged on are as near as the
\* roundings of the two, of the taxes it is charged on, and of the factor are.
LEMMA ByFactor ==
    ASSUME NEW net \in Int, NEW before \in Int, NEW a \in Nat, NEW k \in Nat, NEW rate \in Nat,
           NEW mode,
           2 * Magnitude(FactorOne * before - net * a) <= k * FactorOne,
           NEW factor, factor = ((FactorOne + a) * rate) \div RateOne,
           NEW tax, tax = scale_by(net, factor, FactorOne, mode),
           NEW step, step = scale_by(net + before, rate, RateOne, mode)
    PROVE  2 * FactorOne * (Magnitude(tax - step) - 1)
              <= RateOne * (rate * k) + 2 * Magnitude(net)
<1> DEFINE R == RateOne
           F == FactorOne
           e == ((F + a) * rate) % R
           u == F * tax - net * factor
           v == R * step - (net + before) * rate
           w == F * before - net * a
           m == Magnitude(net)
           d == Magnitude(tax - step)
<1>1. R \in Nat \ {0} /\ F \in Nat \ {0} /\ F = R * R
  BY Units DEF FactorOne
<1>2. (F + a) * rate \in Nat
  BY <1>1
<1>3. factor \in Nat /\ e \in Nat /\ (F + a) * rate = R * factor + e /\ e < R
  BY <1>1, <1>2, Division
<1>4. net * factor \in Int /\ (net + before) * rate \in Int
  BY <1>3
<1>5. tax \in Int /\ 2 * Magnitude(u) <= F
  BY <1>1, <1>4, RoundedToNearest DEF scale_by
<1>6. step \in Int /\ 2 * Magnitude(v) <= R
  BY <1>1, <1>4, RoundedToNearest DEF scale_by
<1>7. 2 * Magnitude(w) <= k * F
  OBVIOUS
<1>8. u \in Int /\ v \in Int /\ w \in Int
  BY <1>1, <1>4, <1>5, <1>6
<1>9. R * (F * (tax - step)) = R * u - R * (R * v) - rate * w - e * net
  <2> HIDE DEF R, e, F
  <2>1. R \in Int /\ factor \in Int /\ a \in Int /\ e \in Int /\ tax \in Int /\ step \in Int
    BY <1>1, <1>3, <1>5, <1>6
  <2>2. e = (R * R + a) * rate - R * factor
    BY <1>1, <1>3, <2>1
  <2>3. e * net = (R * R) * rate * net + a * rate * net - R * factor * net
    BY <2>1, <2>2
  <2>4. R * ((R * R) * (tax - step)) = R * ((R * R) * tax - net * factor)
           - R * (R * (R * step - (net + before) * rate)) - rate * ((R * R) * before - net * a)
           - ((R * R) * rate * net + a * rate * net - R * factor * net)
    BY <2>1
  <2> QED BY <1>1, <2>3, <2>4
<1> HIDE DEF R, F, e, u, v, w
<1>10. 2 * Magnitude(R * u) <= R * F
  <2>1. Magnitude(2 * u) <= F
    BY <1>1, <1>5, <1>8 DEF Magnitude
  <2>2. Magnitude(R * (2 * u)) <= R * F
    <3>1. R \in Nat /\ 2 * u \in Int /\ F \in Int
      BY <1>1, <1>8
    <3> QED BY <2>1, <3>1, Enlarged, Zenon
  <2>3. R * (2 * u) = 2 * (R * u) /\ R * u \in Int
    BY <1>1, <1>8
  <2> QED BY <2>2, <2>3 DEF Magnitude
<1>11. 2 * Magnitude(R * (R * v)) <= R * F
  <2>1. Magnitude(2 * v) <= R
    BY <1>1, <1>6, <1>8 DEF Magnitude
  <2> R \in Nat /\ R \in Int /\ 2 * v \in Int /\ R * (2 * v) \in Int /\ R * R \in Int
    BY <1>1, <1>8
  <2>2. Magnitude(R * (2 * v)) <= R * R
    BY <2>1, Enlarged, Zenon
  <2>3. Magnitude(R * (R * (2 * v))) <= R * (R * R)
    BY <2>2, Enlarged, Zenon
  <2>4. R * (R * (2 * v)) = 2 * (R * (R * v)) /\ R * (R * v) \in Int
    BY <1>1, <1>8
  <2> QED BY <1>1, <2>3, <2>4 DEF Magnitude
<1>12. 2 * Magnitude(rate * w) <= rate * (k * F)
  <2>1. Magnitude(2 * w) <= k * F /\ k * F \in Int
    BY <1>1, <1>7, <1>8 DEF Magnitude
  <2>2. Magnitude(rate * (2 * w)) <= rate * (k * F)
    <3>1. 2 * w \in Int
      BY <1>8
    <3> QED BY <2>1, <3>1, Enlarged, Zenon
  <2>3. rate * (2 * w) = 2 * (rate * w) /\ rate * w \in Int
    BY <1>8
  <2> QED BY <2>2, <2>3 DEF Magnitude
<1>13. Magnitude(e * net) <= R * m
  <2>1. Magnitude(e * net) <= e * m /\ m \in Nat
    <3>1. m \in Nat /\ m \in Int /\ m <= m /\ e \in Nat
      BY <1>3, MagnitudeType
    <3> QED BY <3>1, Enlarged, Zenon
  <2>2. m * e <= m * R
    BY <1>1, <1>3, <2>1, Multiplied
  <2>3. m * e = e * m /\ m * R = R * m /\ e * m \in Int /\ R * m \in Int
    BY <1>1, <1>3, <2>1
  <2>4. e * net \in Int
    BY <1>3
  <2> HIDE DEF m
  <2>5. Magnitude(e * net) \in Int
    BY <2>4, MagnitudeType
  <2> QED BY <2>1, <2>2, <2>3, <2>5
<1>14. 2 * Magnitude(R * (F * (tax - step))) <= 2 * (R * F) + rate * (k * F) + 2 * (R * m)
  <2> DEFINE x1 == R * u
             x2 == R * (R * v)
             x3 == rate * w
             x4 == e * net
             y == R * (F * (tax - step))
             f == R * F
             z == rate * (k * F)
             n == R * m
  <2>1. x1 \in Int /\ x2 \in Int /\ x3 \in Int /\ x4 \in Int /\ f \in Int /\ z \in Int
    BY <1>1, <1>3, <1>8
  <2>2. n \in Int
    BY <1>1, MagnitudeType
  <2>3. y = x1 - x2 - x3 - x4
    BY <1>9
  <2>4. /\ 2 * Magnitude(x1) <= f /\ 2 * Magnitude(x2) <= f /\ 2 * Magnitude(x3) <= z
        /\ Magnitude(x4) <= n
    BY <1>10, <1>11, <1>12, <1>13
  <2> HIDE DEF x1, x2, x3, x4, y, f, z, n
  <2>5. 2 * Magnitude(y) <= 2 * f + z + 2 * n
    BY <2>1, <2>2, <2>3, <2>4 DEF Magnitude
  <2> QED BY <2>5 DEF y, f, z, n
<1> HIDE DEF m
<1>15. m \in Nat /\ d \in Nat
  BY <1>5, <1>6, MagnitudeType DEF m
<1>16. Magnitude(R * (F * (tax - step))) = R * (F * d)
  <2>1. tax - step \in Int
    BY <1>5, <1>6
  <2>2. F * (tax - step) \in Int
    BY <1>1, <2>1
  <2> QED BY <1>1, <2>1, <2>2, MagnitudeScales
<1>17. R * (2 * F * (d - 1)) <= R * (R * (rate * k) + 2 * m)
  <2>1. /\ R * (2 * F * (d - 1)) = 2 * (R * (F * d)) - 2 * (R * F)
        /\ R * (R * (rate * k) + 2 * m) = rate * (k * (R * R)) + 2 * (R * m)
    BY <1>1, <1>15
  <2>2. 2 * (R * (F * d)) <= 2 * (R * F) + rate * (k * (R * R)) + 2 * (R * m)
    BY <1>1, <1>14, <1>16
  <2>3. R * (F * d) \in Int /\ R * F \in Int /\ rate * (k * (R * R)) \in Int /\ R * m \in Int
    BY <1>1, <1>15
  <2> QED BY <2>1, <2>2, <2>3
<1>18. 2 * F * (d - 1) \in Int /\ R * (rate * k) + 2 * m \in Int
  BY <1>1, <1>15
<1>19. 2 * F * (d - 1) <= R * (rate * k) + 2 * m
  BY <1>1, <1>17, <1>18, Divided
<1> QED BY <1>19 DEF R, F, m

\* What the net of a quoted price and its taxes leave of the price is what half a unit
\* of the net bears, and half a unit for each tax.
LEMMA ByGross ==
    ASSUME NEW given \in Int, NEW sum \in Int, NEW a \in Nat, NEW k \in Nat, NEW mode,
           NEW net, net = scale_by(given, FactorOne, FactorOne + a, mode),
           2 * Magnitude(FactorOne * sum - net * a) <= k * FactorOne
    PROVE  2 * FactorOne * Magnitude(net + sum - given) <= FactorOne * (1 + k) + a
<1> DEFINE F == FactorOne
           u == (F + a) * net - given * F
           w == F * sum - net * a
           x == net + sum - given
<1>1. F \in Nat \ {0} /\ F + a \in Nat \ {0} /\ given * F \in Int
  BY Units
<1>2. net \in Int /\ 2 * Magnitude(u) <= F + a
  BY <1>1, RoundedToNearest DEF scale_by
<1>3. 2 * Magnitude(w) <= k * F
  OBVIOUS
<1> HIDE DEF F
<1>4. F * x = u + w /\ u \in Int /\ w \in Int /\ x \in Int
  BY <1>1, <1>2
<1> HIDE DEF u, w, x
<1>5. 2 * Magnitude(F * x) <= (F + a) + k * F
  <2>1. F * x \in Int /\ k * F \in Int
    BY <1>1, <1>4
  <2> DEFINE y == F * x
             z == k * F
  <2> HIDE DEF y, z
  <2>2. y = u + w /\ y \in Int /\ z \in Int /\ 2 * Magnitude(w) <= z
    BY <1>3, <1>4, <2>1 DEF y, z
  <2>3. 2 * Magnitude(y) <= (F + a) + z
    BY <1>1, <1>2, <1>4, <2>2 DEF Magnitude
  <2> QED BY <2>3 DEF y, z
<1>6. Magnitude(F * x) = F * Magnitude(x)
  BY <1>1, <1>4, MagnitudeScales
<1>7. Magnitude(x) \in Nat
  BY <1>4, MagnitudeType
<1>8. /\ 2 * F * Magnitude(x) = 2 * (F * Magnitude(x))
      /\ F * (1 + k) + a = (F + a) + k * F
  BY <1>1, <1>7
<1> QED BY <1>5, <1>6, <1>8 DEF F, x

\* What the taxes of a line come to: r[i] is the factor of the first i of them.
Charging(r, raw, applied, n, b) ==
    /\ n \in Nat /\ DOMAIN applied = 1..n /\ r \in [0..n -> Nat] /\ r[0] = 0
    /\ raw \in RawLines /\ DOMAIN raw.taxes = 1..n /\ Distinct(raw.taxes)
    /\ \A i \in 1..n :
          LET before == IF applied[i].compound THEN r[i-1] ELSE 0
              factor == ((FactorOne + before) * applied[i].rate) \div RateOne
          IN  /\ applied[i].rate \in Nat
              /\ raw.taxes[i].code = applied[i].code
              /\ r[i] = r[i-1] + factor
              /\ raw.taxes[i].amount = scale_by(raw.net, factor, FactorOne, b.mode)

LEMMA LineCharges ==
    ASSUME NEW b, NEW line \in Priced(b), NEW raw, raw = exact_line(line, b),
           NEW applied, applied = resolve(line.group, b.day), NEW n, n = Len(applied),
           NEW a, a = Factors(applied).accumulated
    PROVE  /\ \E r : Charging(r, raw, applied, n, b) /\ a = r[n]
           /\ b.pricing # "exclusive" =>
                 raw.net = scale_by(raw.given, FactorOne, FactorOne + a, b.mode)
<1> DEFINE of == Factors(applied).of
<1>1. Resolvable(line.group, b.day)
  BY DEF Priced
<1>2. applied \in Seq(Taxes)
  BY <1>1, Resolved
<1>3. PICK r : Charges(r, applied, of, n) /\ a = r[n]
  BY <1>2, FactorsShape
<1>4. raw \in RawLines /\ Distinct(raw.taxes)
  BY ExactLine DEF Distinct
<1>5. /\ DOMAIN raw.taxes = DOMAIN of
      /\ \A i \in DOMAIN of : /\ raw.taxes[i].code = of[i].code
                              /\ raw.taxes[i].amount = scale_by(raw.net, of[i].factor, FactorOne, b.mode)
      /\ b.pricing # "exclusive" =>
            raw.net = scale_by(raw.given, FactorOne, FactorOne + a, b.mode)
  <2> DEFINE amount == scale_by(line.price, line.quantity, QuantityOne, b.mode)
             net == IF b.pricing = "exclusive" THEN amount
                    ELSE scale_by(amount, FactorOne, FactorOne + a, b.mode)
             charged == [i \in DOMAIN of |->
                            [code |-> of[i].code,
                             taxable |-> scale_by(net, of[i].base, FactorOne, b.mode),
                             amount |-> scale_by(net, of[i].factor, FactorOne, b.mode)]]
  <2>1. raw = [net |-> net, given |-> amount, taxes |-> charged]
    BY DEF exact_line
  <2> HIDE DEF net, amount, of
  <2>2. raw.net = net /\ raw.given = amount /\ raw.taxes = charged
    BY <2>1
  <2>3. b.pricing # "exclusive" => net = scale_by(amount, FactorOne, FactorOne + a, b.mode)
    BY DEF net
  <2> QED BY <2>2, <2>3
<1>6. n \in Nat /\ DOMAIN applied = 1..n /\ \A i \in 1..n : applied[i] \in Taxes
  BY <1>2
<1> HIDE DEF of
<1>7. DOMAIN of = 1..n /\ r \in [0..n -> Nat] /\ r[0] = 0
  BY <1>3, <1>6 DEF Charges
<1>8. ASSUME NEW i \in 1..n
      PROVE  LET before == IF applied[i].compound THEN r[i-1] ELSE 0
                 factor == ((FactorOne + before) * applied[i].rate) \div RateOne
             IN  /\ applied[i].rate \in Nat
                 /\ raw.taxes[i].code = applied[i].code
                 /\ r[i] = r[i-1] + factor
                 /\ raw.taxes[i].amount = scale_by(raw.net, factor, FactorOne, b.mode)
  <2>1. /\ of[i].code = applied[i].code
        /\ of[i].base = FactorOne + IF applied[i].compound THEN r[i-1] ELSE 0
        /\ of[i].factor = (of[i].base * applied[i].rate) \div RateOne
        /\ r[i] = r[i-1] + of[i].factor
    BY <1>3 DEF Charges
  <2>2. applied[i].rate \in Nat
    BY <1>6 DEF Taxes
  <2> QED BY <1>5, <1>7, <2>1, <2>2
<1>9. Charging(r, raw, applied, n, b)
  BY <1>4, <1>5, <1>6, <1>7, <1>8 DEF Charging
<1> QED BY <1>3, <1>5, <1>9

First(taxes, k) == {taxes[j].code : j \in 1..k}

\* The first k taxes of a line come to the net times their factor, to half a unit each.
LEMMA Accounted ==
    ASSUME NEW b, NEW n, NEW r, NEW raw, NEW applied, Charging(r, raw, applied, n, b),
           NEW k0 \in 0..n
    PROVE  /\ IsFiniteSet(First(raw.taxes, k0)) /\ Cardinality(First(raw.taxes, k0)) = k0
           /\ SumFunction([c \in First(raw.taxes, k0) |-> OnLine(raw, c)]) \in Int
           /\ 2 * Magnitude(FactorOne * SumFunction([c \in First(raw.taxes, k0) |-> OnLine(raw, c)])
                               - raw.net * r[k0]) <= k0 * FactorOne
<1> DEFINE taxes == raw.taxes
           net == raw.net
           B(k) == First(taxes, k)
           f(k) == [c \in B(k) |-> OnLine(raw, c)]
           S(k) == SumFunction(f(k))
           Close(k) == 2 * Magnitude(FactorOne * S(k) - net * r[k]) <= k * FactorOne
           P == {k \in 0..n : IsFiniteSet(B(k)) /\ Cardinality(B(k)) = k /\ S(k) \in Int /\ Close(k)}
<1>1. /\ n \in Nat /\ raw \in RawLines /\ DOMAIN taxes = 1..n /\ Distinct(taxes)
      /\ r \in [0..n -> Nat] /\ r[0] = 0
  BY DEF Charging
<1>2. net \in Int /\ taxes \in Seq(Shares)
  BY <1>1 DEF RawLines
<1>3. FactorOne \in Nat \ {0} /\ RateOne \in Nat \ {0}
  BY Units
<1>4. \A i \in 1..n : OnLine(raw, taxes[i].code) = taxes[i].amount
  BY <1>1, <1>2, OnLineIs
<1>5. \A c : OnLine(raw, c) \in Int
  BY <1>2, OnLineType
<1> HIDE DEF taxes, net
<1>6. 0 \in P
  <2>1. B(0) = {}
    BY DEF First
  <2>2. IsFiniteSet({}) /\ Cardinality({}) = 0
    BY FS_EmptySet
  <2>3. f(0) \in [{} -> Int]
    BY <2>1
  <2>4. S(0) = 0
    <3> HIDE DEF f
    <3> QED BY <2>3, SumOfNone
  <2>5. Close(0)
    <3>1. FactorOne * 0 - net * 0 = 0
      BY <1>2, <1>3
    <3> HIDE DEF S
    <3> QED BY <1>1, <1>3, <2>4, <3>1 DEF Magnitude
  <2>6. IsFiniteSet(B(0)) /\ Cardinality(B(0)) = 0 /\ S(0) \in Int /\ Close(0)
    <3> HIDE DEF B, S, Close
    <3> QED BY <2>1, <2>2, <2>4, <2>5
  <2> HIDE DEF B, S, Close
  <2>7. 0 \in 0..n
    BY <1>1
  <2> QED BY <2>6, <2>7
<1>7. ASSUME NEW k \in P, k < n PROVE k + 1 \in P
  <2> DEFINE c == taxes[k+1].code
             amount == taxes[k+1].amount
  <2>1. k + 1 \in 1..n /\ (k + 1) - 1 = k /\ k \in Nat /\ k \in 0..n /\ k + 1 \in 0..n
    BY <1>1, <1>7
  <2>2. IsFiniteSet(B(k)) /\ Cardinality(B(k)) = k /\ S(k) \in Int /\ Close(k)
    OBVIOUS
  <2>3. c \notin B(k)
    <3>1. \A j \in 1..k : j \in 1..n /\ j # k + 1
      BY <1>1, <1>7, <2>1
    <3>2. \A j \in 1..k : taxes[j].code # c
      BY <1>1, <2>1, <3>1 DEF Distinct
    <3> QED BY <3>2 DEF First
  <2>4. B(k+1) = B(k) \cup {c}
    <3>1. \A j : j \in 1..(k+1) <=> j \in 1..k \/ j = k + 1
      BY <2>1
    <3> QED BY <3>1 DEF First
  <2> HIDE DEF B
  <2>5. IsFiniteSet(B(k+1)) /\ Cardinality(B(k+1)) = k + 1
    BY <2>2, <2>3, <2>4, FS_AddElement
  <2>6. S(k+1) = amount + S(k)
    <3>1. Summable(f(k+1), B(k+1))
      BY <1>5, <2>5 DEF Summable
    <3>2. c \in B(k+1) /\ B(k+1) \ {c} = B(k)
      BY <2>3, <2>4
    <3>3. Restrict(f(k+1), B(k+1) \ {c}) = f(k)
      BY <2>4, <3>2 DEF Restrict
    <3>4. f(k+1)[c] = amount
      BY <1>4, <2>1, <3>2
    <3> DEFINE g == f(k+1)
               T == B(k+1)
    <3> HIDE DEF c, amount
    <3>5. SumFunction(g) = g[c] + SumFunction(Restrict(g, T \ {c}))
      <4>1. Summable(g, T) /\ c \in T
        BY <3>1, <3>2
      <4> HIDE DEF g, T
      <4> QED BY <4>1, SumTakes
    <3> QED BY <3>3, <3>4, <3>5
  <2> DEFINE before == IF applied[k+1].compound THEN r[k] ELSE 0
             factor == ((FactorOne + before) * applied[k+1].rate) \div RateOne
  <2>7. /\ r[k+1] = r[k] + factor /\ applied[k+1].rate \in Nat
        /\ amount = scale_by(net, factor, FactorOne, b.mode)
    BY <2>1 DEF Charging, taxes, net
  <2>8. factor \in Int
    <3>1. r[k] \in Nat /\ r[k+1] \in Nat
      BY <1>1, <2>1
    <3>2. (FactorOne + before) * applied[k+1].rate \in Nat
      BY <1>3, <2>7, <3>1
    <3> QED BY <1>3, <3>2, Division
  <2>9. amount \in Int /\ 2 * Magnitude(FactorOne * amount - net * factor) <= FactorOne
    <3>1. net * factor \in Int
      BY <1>2, <2>8
    <3> QED BY <1>3, <2>7, <3>1, RoundedToNearest DEF scale_by
  <2> HIDE DEF S, amount, factor
  <2>10. Close(k+1)
    <3> DEFINE w == FactorOne * S(k) - net * r[k]
               u == FactorOne * amount - net * factor
               z == k * FactorOne
    <3>1. r[k] \in Nat
      BY <1>1, <2>1
    <3>2. /\ FactorOne * S(k+1) - net * r[k+1] = w + u
          /\ (k + 1) * FactorOne = z + FactorOne
          /\ w \in Int /\ u \in Int /\ z \in Int
      <4> DEFINE s == S(k)
                 q == r[k]
      <4>1. S(k+1) = amount + s /\ r[k+1] = q + factor
        BY <2>6, <2>7
      <4>2. s \in Int /\ q \in Int /\ amount \in Int /\ factor \in Int /\ net \in Int /\ k \in Int
        BY <1>2, <2>1, <2>2, <2>8, <2>9, <3>1
      <4> HIDE DEF s, q
      <4>3. FactorOne * (amount + s) - net * (q + factor)
               = (FactorOne * s - net * q) + (FactorOne * amount - net * factor)
        BY <1>3, <4>2
      <4>4. FactorOne * s - net * q \in Int /\ u \in Int /\ z \in Int
        BY <1>3, <4>2
      <4>5. (k + 1) * FactorOne = z + FactorOne
        BY <1>3, <4>2
      <4> QED BY <4>1, <4>3, <4>4, <4>5 DEF s, q
    <3>3. 2 * Magnitude(w) <= z /\ 2 * Magnitude(u) <= FactorOne
      BY <2>2, <2>9
    <3> HIDE DEF w, u, z
    <3>4. 2 * Magnitude(w + u) <= z + FactorOne
      BY <1>3, <3>2, <3>3 DEF Magnitude
    <3> QED BY <3>2, <3>4
  <2>11. S(k+1) \in Int
    BY <2>2, <2>6, <2>9
  <2> HIDE DEF Close
  <2> QED BY <2>1, <2>5, <2>10, <2>11
<1>8. \A k \in 0..n : k \in P
  <2>1. P \in SUBSET (0..n)
    OBVIOUS
  <2> HIDE DEF P
  <2> QED BY <1>1, <1>6, <1>7, <2>1, Counting
<1> QED BY <1>8 DEF taxes, net

On(raw) == {raw.taxes[i].code : i \in DOMAIN raw.taxes}
MemberOf(g, c) == CHOOSE m \in ToSet(Groups[g]) : m.code = c
UnderOf(raw, g, c) ==
    {d \in On(raw) : MemberOf(g, c).compound /\ MemberOf(g, d).sequence < MemberOf(g, c).sequence}
StepOf(raw, g, c, b) ==
    scale_by(raw.net + SumFunction([d \in UnderOf(raw, g, c) |-> OnLine(raw, d)]),
             RateOn(c, b.day), RateOne, b.mode)

\* The taxes that are applied are the members of the group, one by one in sequence.
LEMMA AppliedIsMember ==
    ASSUME NEW g \in DOMAIN Groups, NEW day, NEW applied, applied = resolve(g, day),
           g # OutOfScope, NEW n, n = Len(Groups[g]), NEW i \in 1..n
    PROVE  /\ MemberOf(g, applied[i].code).compound = applied[i].compound
           /\ MemberOf(g, applied[i].code).sequence = applied[i].sequence
           /\ applied[i].rate = RateOn(applied[i].code, day)
           /\ applied[i].sequence \in Int
           /\ \A j \in 1..n : j < i => applied[j].sequence < applied[i].sequence
<1> DEFINE s == InSequence[g]
<1>1. n \in Nat /\ DOMAIN Groups[g] = 1..n /\ s \in [1..n -> ToSet(Groups[g])] /\ Sorted(s)
  BY GroupInSequence
<1>2. applied = [j \in 1..n |-> Applied(s[j], day)]
  BY <1>1 DEF resolve
<1> HIDE DEF s
<1>3. s[i] \in ToSet(Groups[g])
  BY <1>1
<1>4. \A m \in ToSet(Groups[g]) : m.code = s[i].code => m = s[i]
  <2> TAKE m \in ToSet(Groups[g])
  <2> HAVE m.code = s[i].code
  <2>1. PICK a \in 1..n : m = Groups[g][a]
    BY <1>1 DEF ToSet
  <2>2. PICK c \in 1..n : s[i] = Groups[g][c]
    BY <1>1, <1>3 DEF ToSet
  <2>3. a = c
    BY <1>1, <2>1, <2>2, PricingAssumption DEF PricingAssumption
  <2> QED BY <2>1, <2>2, <2>3
<1>5. MemberOf(g, s[i].code) = s[i]
  BY <1>3, <1>4 DEF MemberOf
<1>6. /\ applied[i].code = s[i].code /\ applied[i].compound = s[i].compound
      /\ applied[i].sequence = s[i].sequence /\ applied[i].rate = RateOn(s[i].code, day)
  BY <1>2 DEF Applied
<1>7. s[i].sequence \in Int
  <2>1. PICK c \in 1..n : s[i] = Groups[g][c]
    BY <1>1, <1>3 DEF ToSet
  <2> QED BY <1>1, <2>1, PricingAssumption DEF PricingAssumption
<1>8. ASSUME NEW j \in 1..n, j < i PROVE applied[j].sequence < applied[i].sequence
  <2>1. s[j].sequence < s[i].sequence
    BY <1>1, <1>8 DEF Sorted
  <2>2. applied[j].sequence = s[j].sequence
    BY <1>2 DEF Applied
  <2> QED BY <1>6, <2>1, <2>2
<1> QED BY <1>5, <1>6, <1>7, <1>8

\* Of a compound tax, the taxes it is charged on are those before it; of another, none.
LEMMA UnderIs ==
    ASSUME NEW g \in DOMAIN Groups, NEW b, NEW r, NEW raw, NEW applied, applied = resolve(g, b.day),
           g # OutOfScope, NEW n, n = Len(Groups[g]), Charging(r, raw, applied, n, b),
           NEW i \in 1..n
    PROVE  UnderOf(raw, g, applied[i].code)
              = IF applied[i].compound THEN First(raw.taxes, i - 1) ELSE {}
<1> DEFINE c == applied[i].code
           seq(j) == applied[j].sequence
<1>1. n \in Nat /\ DOMAIN raw.taxes = 1..n /\ \A j \in 1..n : raw.taxes[j].code = applied[j].code
  BY DEF Charging
<1>2. \A j \in 1..n :
         /\ MemberOf(g, applied[j].code).compound = applied[j].compound
         /\ MemberOf(g, applied[j].code).sequence = seq(j)
         /\ seq(j) \in Int
         /\ \A k \in 1..n : k < j => seq(k) < seq(j)
  BY AppliedIsMember
<1>3. ASSUME NEW j \in 1..n PROVE seq(j) < seq(i) <=> j \in 1..(i-1)
  <2>1. j < i => seq(j) < seq(i)
    BY <1>2
  <2>2. i < j => seq(i) < seq(j)
    BY <1>2
  <2>3. seq(i) \in Int /\ seq(j) \in Int
    BY <1>2
  <2> HIDE DEF seq
  <2>4. j < i <=> j \in 1..(i-1)
    BY <1>1
  <2>5. j < i \/ i < j \/ i = j
    BY <1>1
  <2> QED BY <2>1, <2>2, <2>3, <2>4, <2>5
<1>4. On(raw) = {applied[j].code : j \in 1..n}
  BY <1>1 DEF On
<1>5. \A j \in 1..(i-1) : j \in 1..n
  BY <1>1
<1>6. First(raw.taxes, i - 1) = {applied[j].code : j \in 1..(i-1)}
  BY <1>1, <1>5 DEF First
<1> HIDE DEF seq
<1>7. CASE applied[i].compound
  <2>1. UnderOf(raw, g, c) = {d \in On(raw) : MemberOf(g, d).sequence < seq(i)}
    BY <1>2, <1>7 DEF UnderOf
  <2>2. ASSUME NEW d \in UnderOf(raw, g, c) PROVE d \in First(raw.taxes, i - 1)
    <3>1. PICK j \in 1..n : d = applied[j].code
      BY <1>4, <2>1, <2>2
    <3>2. seq(j) < seq(i)
      BY <1>2, <2>1, <2>2, <3>1
    <3> QED BY <1>3, <1>6, <3>1, <3>2
  <2>3. ASSUME NEW d \in First(raw.taxes, i - 1) PROVE d \in UnderOf(raw, g, c)
    <3>1. PICK j \in 1..(i-1) : d = applied[j].code
      BY <1>6, <2>3
    <3>2. j \in 1..n /\ seq(j) < seq(i) /\ MemberOf(g, d).sequence = seq(j)
      BY <1>2, <1>3, <1>5, <3>1
    <3> QED BY <1>4, <2>1, <3>1, <3>2
  <2> QED BY <1>7, <2>2, <2>3
<1>8. CASE ~applied[i].compound
  BY <1>2, <1>8 DEF UnderOf
<1> QED BY <1>7, <1>8

LEMMA LineIsCharged ==
    ASSUME NEW b, NEW line \in Priced(b), NEW raw, raw = exact_line(line, b),
           NEW a, a = Factors(resolve(line.group, b.day)).accumulated
    PROVE  /\ \A c \in On(raw) :
                 2 * FactorOne * (Magnitude(OnLine(raw, c) - StepOf(raw, line.group, c, b)) - 1)
                    <= RateOne * (RateOn(c, b.day) * Cardinality(UnderOf(raw, line.group, c)))
                          + 2 * Magnitude(raw.net)
           /\ b.pricing # "exclusive" =>
                 2 * FactorOne * Magnitude(raw.net + SumFunction([c \in On(raw) |-> OnLine(raw, c)])
                                              - raw.given)
                    <= FactorOne * (1 + Cardinality(On(raw))) + a
<1> DEFINE g == line.group
           applied == resolve(g, b.day)
           n == Len(applied)
<1>0. /\ \E r : Charging(r, raw, applied, n, b) /\ a = r[n]
      /\ b.pricing # "exclusive" =>
            raw.net = scale_by(raw.given, FactorOne, FactorOne + a, b.mode)
  <2>1. /\ line \in Priced(b) /\ raw = exact_line(line, b) /\ applied = resolve(line.group, b.day)
        /\ n = Len(applied) /\ a = Factors(applied).accumulated
    OBVIOUS
  <2> HIDE DEF applied, n
  <2>2. \E r : Charging(r, raw, applied, n, b) /\ a = r[n]
    BY <2>1, LineCharges
  <2>3. b.pricing # "exclusive" => raw.net = scale_by(raw.given, FactorOne, FactorOne + a, b.mode)
    BY <2>1, LineCharges
  <2> QED BY <2>2, <2>3
<1>1. PICK r : Charging(r, raw, applied, n, b) /\ a = r[n]
  BY <1>0
<1>2. /\ n \in Nat /\ DOMAIN applied = 1..n /\ raw \in RawLines /\ Distinct(raw.taxes)
      /\ DOMAIN raw.taxes = 1..n /\ r \in [0..n -> Nat]
  BY <1>1 DEF Charging
<1>3. raw.net \in Int /\ raw.given \in Int /\ raw.taxes \in Seq(Shares)
  BY <1>2 DEF RawLines
<1>4. On(raw) = First(raw.taxes, n)
  BY <1>2 DEF On, First
<1>5. b.pricing # "exclusive" => raw.net = scale_by(raw.given, FactorOne, FactorOne + a, b.mode)
  BY <1>0
<1> HIDE DEF n, applied
<1>6. ASSUME b.pricing # "exclusive"
      PROVE  2 * FactorOne * Magnitude(raw.net + SumFunction([c \in On(raw) |-> OnLine(raw, c)])
                                          - raw.given)
                <= FactorOne * (1 + Cardinality(On(raw))) + a
  <2> DEFINE sum == SumFunction([c \in First(raw.taxes, n) |-> OnLine(raw, c)])
             net == raw.net
             given == raw.given
  <2>1. n \in 0..n
    BY <1>2
  <2>2. /\ Cardinality(First(raw.taxes, n)) = n /\ sum \in Int
        /\ 2 * Magnitude(FactorOne * sum - net * a) <= n * FactorOne
    BY <1>1, <2>1, Accounted
  <2>3. a \in Nat /\ net = scale_by(given, FactorOne, FactorOne + a, b.mode) /\ given \in Int
    BY <1>1, <1>2, <1>3, <1>5, <1>6, <2>1
  <2> HIDE DEF sum, net, given
  <2>4. 2 * FactorOne * Magnitude(net + sum - given) <= FactorOne * (1 + n) + a
    BY <1>2, <2>2, <2>3, ByGross
  <2> QED BY <1>4, <2>2, <2>4 DEF sum, net, given
<1>7. ASSUME NEW c \in On(raw)
      PROVE  2 * FactorOne * (Magnitude(OnLine(raw, c) - StepOf(raw, g, c, b)) - 1)
                <= RateOne * (RateOn(c, b.day) * Cardinality(UnderOf(raw, g, c)))
                      + 2 * Magnitude(raw.net)
  <2>1. PICK i \in 1..n : c = raw.taxes[i].code
    BY <1>2, <1>7 DEF On
  <2>2. g # OutOfScope /\ g \in DOMAIN Groups /\ n = Len(Groups[g])
    <3>1. g # OutOfScope
      <4> SUFFICES ASSUME g = OutOfScope PROVE FALSE
        OBVIOUS
      <4>1. applied = <<>>
        BY DEF resolve, applied
      <4> QED BY <2>1, <4>1 DEF n
    <3>2. g \in DOMAIN Groups
      BY <3>1 DEF Priced, Lines
    <3>3. Len(Groups[g]) \in Nat /\ DOMAIN Groups[g] = 1..Len(Groups[g])
      BY <3>2, GroupInSequence
    <3>4. DOMAIN applied = 1..Len(Groups[g])
      BY <3>1, <3>3 DEF applied, resolve
    <3>5. 1..n = 1..Len(Groups[g])
      BY <1>2, <3>4
    <3>6. \A x, y \in Nat : 1..x = 1..y => x = y
      <4> TAKE x, y \in Nat
      <4> HAVE 1..x = 1..y
      <4>1. x = 0 \/ x \in 1..y
        OBVIOUS
      <4>2. y = 0 \/ y \in 1..x
        OBVIOUS
      <4> QED BY <4>1, <4>2
    <3> QED BY <1>2, <3>1, <3>2, <3>3, <3>5, <3>6
  <2> DEFINE k == IF applied[i].compound THEN i - 1 ELSE 0
             before == IF applied[i].compound THEN r[i-1] ELSE 0
             rate == applied[i].rate
             U == UnderOf(raw, g, c)
             sum == SumFunction([d \in U |-> OnLine(raw, d)])
             factor == ((FactorOne + before) * rate) \div RateOne
             tax == OnLine(raw, c)
             net == raw.net
             step == StepOf(raw, g, c, b)
  <2>3. /\ c = applied[i].code /\ rate \in Nat
        /\ raw.taxes[i].amount = scale_by(net, factor, FactorOne, b.mode)
    BY <1>1, <2>1 DEF Charging
  <2>4. tax = raw.taxes[i].amount
    <3>1. \A j \in DOMAIN raw.taxes : OnLine(raw, raw.taxes[j].code) = raw.taxes[j].amount
      BY <1>2, <1>3, OnLineIs
    <3> QED BY <1>2, <2>1, <3>1
  <2>5. rate = RateOn(c, b.day)
    BY <2>2, <2>3, AppliedIsMember DEF applied
  <2>6. U = First(raw.taxes, k)
    <3>1. U = IF applied[i].compound THEN First(raw.taxes, i - 1) ELSE {}
      BY <1>1, <2>2, <2>3, UnderIs DEF applied
    <3>2. First(raw.taxes, 0) = {}
      BY DEF First
    <3> QED BY <3>1, <3>2
  <2>7. k \in 0..n /\ k \in Nat /\ i - 1 \in 0..n
    BY <1>2
  <2>8. before = r[k] \/ (k = 0 /\ before = 0)
    OBVIOUS
  <2>9. before = r[k] /\ before \in Nat
    <3>1. r[0] = 0
      BY <1>1 DEF Charging
    <3> QED BY <1>2, <2>7, <2>8, <3>1
  <2>10. step = scale_by(net + sum, rate, RateOne, b.mode)
    BY <2>5 DEF StepOf
  <2> HIDE DEF k, before, rate, U, sum, factor, tax, net, step
  <2>11. /\ Cardinality(U) = k /\ sum \in Int
         /\ 2 * Magnitude(FactorOne * sum - raw.net * r[k]) <= k * FactorOne
    BY <1>1, <2>6, <2>7, Accounted DEF sum
  <2>12. 2 * Magnitude(FactorOne * sum - net * before) <= k * FactorOne
    BY <2>9, <2>11 DEF net
  <2>13. factor = ((FactorOne + before) * rate) \div RateOne
    BY DEF factor
  <2>14. tax = scale_by(net, factor, FactorOne, b.mode)
    BY <2>3, <2>4
  <2>15. net \in Int
    BY <1>3 DEF net
  <2>16. 2 * FactorOne * (Magnitude(tax - step) - 1) <= RateOne * (rate * k) + 2 * Magnitude(net)
    BY <2>3, <2>7, <2>9, <2>10, <2>11, <2>12, <2>13, <2>14, <2>15, ByFactor
  <2>17. 2 * FactorOne * (Magnitude(tax - step) - 1)
            <= RateOne * (RateOn(c, b.day) * Cardinality(U)) + 2 * Magnitude(net)
    BY <2>5, <2>11, <2>16
  <2> QED BY <2>17 DEF tax, step, U, net
<1> QED BY <1>6, <1>7

\* However a draft was edited into what it is, each tax is the one a person gets who
\* charges the members of the group one by one in sequence, but for the roundings
\* that are named, and a quoted price is its net and its taxes.
THEOREM ChargedInSequence == Spec => []ChargedOnWhatComesBefore
<1>1. ASSUME Kept PROVE ChargedOnWhatComesBefore
  <2>1. SUFFICES ASSUME ~totals.refused, NEW n \in DOMAIN lines
                 PROVE  LET raw == exact_line(lines[n], basis)
                            g == lines[n].group
                        IN  /\ \A c \in On(raw) :
                                  2 * FactorOne * (Magnitude(OnLine(raw, c) - StepOf(raw, g, c, basis)) - 1)
                                     <= RateOne * (RateOn(c, basis.day) * Cardinality(UnderOf(raw, g, c)))
                                           + 2 * Magnitude(raw.net)
                            /\ basis.pricing = "inclusive" =>
                                  2 * FactorOne * Magnitude(raw.net
                                        + SumFunction([c \in On(raw) |-> OnLine(raw, c)]) - raw.given)
                                     <= FactorOne * (1 + Cardinality(On(raw)))
                                           + Factors(resolve(g, basis.day)).accumulated
    BY DEF ChargedOnWhatComesBefore, On, StepOf, UnderOf, MemberOf
  <2>2. lines \in Seq(Priced(basis))
    BY <1>1, <2>1, KeptIsPriced
  <2> DEFINE line == lines[n]
             raw == exact_line(line, basis)
             a == Factors(resolve(line.group, basis.day)).accumulated
             b == basis
  <2>3. line \in Priced(b) /\ raw = exact_line(line, b)
        /\ a = Factors(resolve(line.group, b.day)).accumulated
    BY <2>2
  <2> HIDE DEF line, raw, a, b
  <2>4. /\ \A c \in On(raw) :
              2 * FactorOne * (Magnitude(OnLine(raw, c) - StepOf(raw, line.group, c, b)) - 1)
                 <= RateOne * (RateOn(c, b.day) * Cardinality(UnderOf(raw, line.group, c)))
                       + 2 * Magnitude(raw.net)
        /\ b.pricing # "exclusive" =>
              2 * FactorOne * Magnitude(raw.net + SumFunction([c \in On(raw) |-> OnLine(raw, c)])
                                           - raw.given)
                 <= FactorOne * (1 + Cardinality(On(raw))) + a
    BY <2>3, LineIsCharged
  <2> QED BY <2>4 DEF line, raw, a, b
<1> QED BY <1>1, KeptHolds, PTL

-----------------------------------------------------------------------------
(* What is posted                                                          *)

\* Two whole numbers of which neither is two more than the other are neighbours.
LEMMA Neighbours ==
    ASSUME NEW x \in Int, NEW y \in Int, ~(x >= y + 2), ~(y >= x + 2), NEW m \in Nat
    PROVE  Magnitude(m * x - m * y) <= m
<1>1. x = y \/ x = y + 1 \/ y = x + 1
  OBVIOUS
<1>2. m * (y + 1) = m * y + m /\ m * (x + 1) = m * x + m
  OBVIOUS
<1>3. m * x \in Int /\ m * y \in Int
  OBVIOUS
<1>4. m * x = m * y \/ m * x = m * y + m \/ m * y = m * x + m
  BY <1>1, <1>2
<1> DEFINE mx == m * x
           my == m * y
<1>5. mx \in Int /\ my \in Int /\ (mx = my \/ mx = my + m \/ my = mx + m)
  BY <1>3, <1>4
<1> HIDE DEF mx, my
<1>6. Magnitude(mx - my) <= m
  BY <1>5 DEF Magnitude
<1> QED BY <1>6 DEF mx, my

\* Rounding in two steps is not rounding in one, and never two units away from it:
\* with r a nearest E-th of p, s a nearest M-th of r and o a nearest EM-th of p.
LEMMA TwiceRounded ==
    ASSUME NEW E \in Nat \ {0}, NEW M \in Nat \ {0}, NEW p \in Int,
           NEW r \in Int, 2 * Magnitude(E * r - p) <= E,
           NEW s \in Int, 2 * Magnitude(M * s - r) <= M,
           NEW o \in Int, 2 * Magnitude(E * M * o - p) <= E * M
    PROVE  Magnitude(M * s - M * o) <= M
<1> DEFINE X == E * M
           ms == M * s
           mo == M * o
           er == E * r
           xo == E * mo
<1>1. /\ X \in Nat /\ ms \in Int /\ mo \in Int /\ er \in Int /\ xo \in Int
      /\ E * M * o = xo
  OBVIOUS
<1>2. E <= X
  <2>1. E * 1 <= E * M
    BY Multiplied
  <2> QED BY <2>1
<1>3. E * (2 * mo) = 2 * xo /\ E * (3 * M) = 3 * X /\ E * (2 * r) = 2 * er
  OBVIOUS
<1>4. E * (2 * mo + 3 * M) = 2 * xo + 3 * X /\ E * (2 * mo - 3 * M) = 2 * xo - 3 * X
  BY <1>3
<1>5. /\ 2 * er - 2 * p <= E /\ 2 * p - 2 * er <= E
      /\ 2 * ms - 2 * r <= M /\ 2 * r - 2 * ms <= M
      /\ 2 * xo - 2 * p <= X /\ 2 * p - 2 * xo <= X
  <2>1. 2 * Magnitude(er - p) <= E /\ 2 * Magnitude(ms - r) <= M /\ 2 * Magnitude(xo - p) <= X
    BY <1>1
  <2> HIDE DEF X, ms, mo, er, xo
  <2>2. 2 * er - 2 * p <= E /\ 2 * p - 2 * er <= E
    BY <1>1, <2>1 DEF Magnitude
  <2>3. 2 * ms - 2 * r <= M /\ 2 * r - 2 * ms <= M
    BY <1>1, <2>1 DEF Magnitude
  <2>4. 2 * xo - 2 * p <= X /\ 2 * p - 2 * xo <= X
    BY <1>1, <2>1 DEF Magnitude
  <2> QED BY <2>2, <2>3, <2>4
<1>6. ~(s >= o + 2)
  <2> SUFFICES ASSUME s >= o + 2 PROVE FALSE
    OBVIOUS
  <2>1. ms >= mo + 2 * M
    <3>1. M * (o + 2) <= M * s
      BY Multiplied
    <3>2. M * (o + 2) = mo + 2 * M
      OBVIOUS
    <3> QED BY <3>1, <3>2
  <2> HIDE DEF ms, X, er, xo
  <2>2. 2 * mo + 3 * M <= 2 * r
    <3> HIDE DEF mo
    <3> QED BY <1>1, <1>5, <2>1
  <2>3. E * (2 * mo + 3 * M) <= E * (2 * r)
    <3> HIDE DEF mo
    <3> QED BY <1>1, <2>2, Multiplied
  <2> QED BY <1>1, <1>2, <1>3, <1>4, <1>5, <2>3
<1>7. ~(o >= s + 2)
  <2> SUFFICES ASSUME o >= s + 2 PROVE FALSE
    OBVIOUS
  <2>1. mo >= ms + 2 * M
    <3>1. M * (s + 2) <= M * o
      BY Multiplied
    <3>2. M * (s + 2) = ms + 2 * M
      OBVIOUS
    <3> QED BY <3>1, <3>2
  <2> HIDE DEF ms, X, er, xo
  <2>2. 2 * r <= 2 * mo - 3 * M
    <3> HIDE DEF mo
    <3> QED BY <1>1, <1>5, <2>1
  <2>3. E * (2 * r) <= E * (2 * mo - 3 * M)
    <3> HIDE DEF mo
    <3> QED BY <1>1, <2>2, Multiplied
  <2> QED BY <1>1, <1>2, <1>3, <1>4, <1>5, <2>3
<1> HIDE DEF X, ms, mo, er, xo
<1> QED BY <1>6, <1>7, Neighbours

\* What is posted is payable, and within a minor unit of what one rounding gives
\* (exchange.rs:246-256).
Converted(amount, rate, base) ==
    /\ base % MinorUnit = 0
    /\ Magnitude(base - MinorUnit * round_div(amount * rate, ExchangeOne * MinorUnit, "half_up"))
          <= MinorUnit

LEMMA ConvertedNearly ==
    ASSUME NEW amount \in Int, NEW rate \in Int
    PROVE  Converted(amount, rate, convert(amount, rate))
<1> DEFINE E == ExchangeOne
           M == MinorUnit
           p == amount * rate
           r == round_div(p, E, "half_up")
           s == round_div(r, M, "half_up")
           o == round_div(p, E * M, "half_up")
<1>1. E \in Nat \ {0} /\ M \in Nat \ {0} /\ p \in Int
  BY PricingAssumption DEF PricingAssumption
<1>2. E * M \in Nat \ {0}
  BY <1>1
<1>3. r \in Int /\ 2 * Magnitude(E * r - p) <= E
  BY <1>1, RoundedToNearest
<1>4. s \in Int /\ 2 * Magnitude(M * s - r) <= M
  BY <1>1, <1>3, RoundedToNearest
<1>5. o \in Int /\ 2 * Magnitude(E * M * o - p) <= E * M
  BY <1>1, <1>2, RoundedToNearest
<1>6. convert(amount, rate) = M * s
  BY DEF convert, round_to_minor
<1>7. Converted(amount, rate, convert(amount, rate))
         <=> (M * s) % M = 0 /\ Magnitude(M * s - M * o) <= M
  BY <1>6 DEF Converted
<1> HIDE DEF E, M, p, r, s, o
<1>8. Magnitude(M * s - M * o) <= M
  BY <1>1, <1>3, <1>4, <1>5, TwiceRounded
<1>9. (M * s) % M = 0
  BY <1>1, <1>4, Multiples
<1> QED BY <1>7, <1>8, <1>9

\* A figure that can be paid.
Payable(x) == \E k \in Int : x = MinorUnit * k

LEMMA PayableAdds ==
    ASSUME NEW x, Payable(x), NEW y, Payable(y)
    PROVE  Payable(x + y) /\ x \in Int /\ x % MinorUnit = 0
<1>1. PICK i \in Int : x = MinorUnit * i
  BY DEF Payable
<1>2. PICK j \in Int : y = MinorUnit * j
  BY DEF Payable
<1>3. MinorUnit \in Nat \ {0}
  BY Units
<1>4. MinorUnit * i + MinorUnit * j = MinorUnit * (i + j) /\ MinorUnit * i \in Int
  BY <1>3
<1>5. (MinorUnit * i) % MinorUnit = 0
  BY <1>3, Multiples
<1> QED BY <1>1, <1>2, <1>4, <1>5 DEF Payable

LEMMA PayableSums ==
    ASSUME NEW S, NEW f, Summable(f, S), \A x \in S : Payable(f[x])
    PROVE  Payable(SumFunction(f))
<1> IsFiniteSet(S) /\ f \in [S -> Int]
  BY DEF Summable
<1>1. PICK h : Sums(h, f, S) /\ SumFunction(f) = h[S]
  BY SumsOf
<1> DEFINE Bad == {T \in SUBSET S : ~Payable(h[T])}
<1>2. SUFFICES Bad = {}
  BY <1>1, <1>2
<1>3. SUFFICES ASSUME Bad # {} PROVE FALSE
  OBVIOUS
<1>4. PICK T \in Bad : \A U \in SUBSET T : U # T => U \notin Bad
  <2>1. Bad \in SUBSET SUBSET S
    OBVIOUS
  <2> HIDE DEF Bad
  <2> QED BY <1>3, <2>1, SmallestSet
<1>5. CASE T = {}
  <2>1. h[T] = MinorUnit * 0
    BY <1>1, <1>5, Units DEF Sums
  <2>2. Payable(h[T])
    BY <2>1 DEF Payable
  <2> QED BY <1>4, <2>2
<1>6. CASE T # {}
  <2>1. PICK x \in T : TRUE
    BY <1>6
  <2>2. T \in SUBSET S /\ x \in S /\ T \ {x} \in SUBSET S /\ T \ {x} # T
    BY <1>4, <2>1
  <2>3. Payable(h[T \ {x}])
    BY <1>4, <2>2
  <2>4. h[T] = f[x] + h[T \ {x}]
    BY <1>1, <2>1, <2>2 DEF Sums
  <2>5. Payable(h[T])
    BY <2>2, <2>3, <2>4, PayableAdds
  <2> QED BY <1>4, <2>5
<1> QED BY <1>5, <1>6

LEMMA Undivided ==
    ASSUME NEW n \in Int, NEW d \in Nat \ {0}, n % d = 0
    PROVE  \E k \in Int : n = d * k
<1> DEFINE q == n \div d
           m == n % d
<1>1. q \in Int /\ n = d * q + m
  BY SMTT(30)
<1>2. m = 0
  OBVIOUS
<1> HIDE DEF q, m
<1>3. d * q \in Int
  BY <1>1
<1>4. n = d * q
  BY <1>1, <1>2, <1>3
<1> QED BY <1>1, <1>4

LEMMA GivenIsPayable ==
    ASSUME NEW doc \in Running, NEW tax \in Shares, NEW b \in Bases,
           b.level = "document" => RoundedOnce(doc, b.mode),
           NEW given \in Int, given = Given(doc, tax, b).amount
    PROVE  Payable(given)
<1>1. given % MinorUnit = 0
  BY ShareIsFair
<1>2. MinorUnit \in Nat \ {0}
  BY Units
<1>3. \E k \in Int : given = MinorUnit * k
  BY <1>1, <1>2, Undivided
<1> QED BY <1>3 DEF Payable

\* Every line's tax is a sum of shares, each of them payable, and an exclusive
\* line's net is rounded.
LEMMA LineIsPayable ==
    ASSUME NEW b \in Bases, NEW doc \in Running, NEW raw \in RawLines, NEW l,
           LineSays(l, doc, raw, b), b.level = "document" => RoundedOnce(doc, b.mode)
    PROVE  Payable(l.tax) /\ (b.pricing = "exclusive" => Payable(l.net) /\ Payable(l.gross))
<1> DEFINE D == DOMAIN raw.taxes
           f == [i \in D |-> l.taxes[i].amount]
<1>1. raw.taxes \in Seq(Shares) /\ raw.net \in Int
  BY DEF RawLines
<1>2. IsFiniteSet(D) /\ \A i \in D : raw.taxes[i] \in Shares
  BY <1>1, LinePositions
<1>3. ASSUME NEW i \in D PROVE f[i] \in Int /\ Payable(f[i])
  <2> DEFINE tax == raw.taxes[i]
             given == f[i]
  <2>1. tax \in Shares /\ given = Given(doc, tax, b).amount
    BY <1>2 DEF LineSays
  <2>2. given \in Int
    <3>1. l.taxes \in Seq(Shares) /\ DOMAIN l.taxes = D
      BY DEF LineSays, SharedLines
    <3>2. l.taxes[i] \in Shares
      BY <3>1
    <3> QED BY <3>2 DEF Shares
  <2> HIDE DEF tax, given
  <2>3. Payable(given)
    BY <2>1, <2>2, GivenIsPayable
  <2> QED BY <2>2, <2>3 DEF given
<1>4. Summable(f, D)
  BY <1>2, <1>3 DEF Summable
<1>5. l.tax = SumFunction(f) /\ l.gross = l.net + l.tax
  BY DEF LineSays
<1> HIDE DEF f, D
<1>6. Payable(l.tax)
  BY <1>3, <1>4, <1>5, PayableSums
<1>7. ASSUME b.pricing = "exclusive" PROVE Payable(l.net)
  <2>1. l.net = round_to_minor(raw.net, b.mode)
    BY <1>7 DEF LineSays
  <2> QED BY <1>1, <2>1, MultipleOfMinor DEF Payable
<1> QED BY <1>5, <1>6, <1>7, PayableAdds

LEMMA FiguresOf ==
    ASSUME NEW b \in Bases, NEW ls \in Seq(Priced(b)), NEW t, t = compute(ls, b)
    PROVE  /\ \A k \in 1..Len(ls) :
                 /\ Payable(t.lines[k].tax)
                 /\ b.pricing = "exclusive" => Payable(t.lines[k].net) /\ Payable(t.lines[k].gross)
           /\ Payable(t.tax)
           /\ b.pricing = "exclusive" => Payable(t.net) /\ Payable(t.gross)
           /\ t.gross \in Int
<1> DEFINE out == t.lines
           n == Len(ls)
           raws == RawOf(ls, b)
           net == [k \in DOMAIN ls |-> out[k].net]
           tax == [k \in DOMAIN ls |-> out[k].tax]
<1>1. t.net = SumFunction(net) /\ t.tax = SumFunction(tax) /\ t.gross = t.net + t.tax
  BY DEF compute
<1>2. n \in Nat /\ DOMAIN ls = 1..n
  OBVIOUS
<1>3. PICK r : Built(r, raws, out, n, b)
  BY Computed
<1> HIDE DEF n, raws, out
<1>4. ASSUME NEW k \in 1..n
      PROVE  /\ Payable(out[k].tax) /\ out[k].net \in Int /\ out[k].tax \in Int
             /\ b.pricing = "exclusive" => Payable(out[k].net) /\ Payable(out[k].gross)
  <2> DEFINE doc == r[k-1]
             raw == raws[k]
             l == out[k]
  <2>1. k - 1 \in 0..n
    BY <1>2
  <2>2. /\ doc \in Running /\ raw \in RawLines /\ LineSays(l, doc, raw, b)
        /\ b.level = "document" => RoundedOnce(doc, b.mode)
    BY <1>3, <2>1 DEF Built
  <2> HIDE DEF doc, raw, l
  <2>3. Payable(l.tax) /\ (b.pricing = "exclusive" => Payable(l.net) /\ Payable(l.gross))
    BY <2>2, LineIsPayable
  <2>4. l.net \in Int /\ l.tax \in Int
    BY <2>2 DEF LineSays, SharedLines
  <2> QED BY <2>3, <2>4 DEF l
<1>5. Summable(net, 1..n) /\ Summable(tax, 1..n)
  <2>1. IsFiniteSet(1..n)
    BY <1>2, FS_Interval
  <2>2. net \in [1..n -> Int] /\ tax \in [1..n -> Int]
    BY <1>2, <1>4
  <2> QED BY <2>1, <2>2 DEF Summable
<1>6. \A k \in 1..n : Payable(tax[k]) /\ (b.pricing = "exclusive" => Payable(net[k]))
  BY <1>2, <1>4
<1> HIDE DEF net, tax
<1>7. Payable(t.tax)
  BY <1>1, <1>5, <1>6, PayableSums
<1>8. b.pricing = "exclusive" => Payable(t.net)
  BY <1>1, <1>5, <1>6, PayableSums
<1>9. b.pricing = "exclusive" => Payable(t.gross)
  BY <1>1, <1>7, <1>8, PayableAdds
<1>10. t.gross \in Int
  BY <1>1, <1>5, SumType
<1> QED BY <1>4, <1>7, <1>8, <1>9, <1>10 DEF out, n

\* However a draft was edited into what it is, its taxes can be paid, and under
\* exclusive pricing all its figures.
THEOREM TaxesStayPayable == Spec => []TaxesArePayable
<1>1. ASSUME Kept PROVE TaxesArePayable
  <2> DEFINE Fine(figures) ==
                /\ figures.tax % MinorUnit = 0
                /\ basis.pricing = "exclusive" => /\ figures.net % MinorUnit = 0
                                                  /\ figures.gross % MinorUnit = 0
             t == totals
             b == basis
  <2>1. SUFFICES ASSUME ~totals.refused
                 PROVE  Fine(totals) /\ \A n \in DOMAIN lines : Fine(totals.lines[n])
    BY DEF TaxesArePayable
  <2>2. b \in Bases /\ lines \in Seq(Priced(b)) /\ t = compute(lines, b)
    BY <1>1, <2>1, KeptIsPriced
  <2>3. \A x : Payable(x) => x % MinorUnit = 0
    BY PayableAdds
  <2> HIDE DEF t, b
  <2>4. /\ \A k \in 1..Len(lines) :
               /\ Payable(t.lines[k].tax)
               /\ b.pricing = "exclusive" => Payable(t.lines[k].net) /\ Payable(t.lines[k].gross)
        /\ Payable(t.tax)
        /\ b.pricing = "exclusive" => Payable(t.net) /\ Payable(t.gross)
    BY <2>2, FiguresOf
  <2>5. DOMAIN lines = 1..Len(lines)
    BY <2>2
  <2> QED BY <2>3, <2>4, <2>5 DEF t, b
<1> QED BY <1>1, KeptHolds, PTL

\* However a draft was edited before it was posted, the base amount is of the gross
\* it has, and a cent away from the promised one at most.
THEOREM PostedToTheUnit == Spec => []PostedNearly
<1>1. Kept => totals.gross \in Int
  <2> SUFFICES ASSUME Kept PROVE totals.gross \in Int
    OBVIOUS
  <2>1. CASE totals.refused
    <3>1. totals = Refused \/ totals = compute(lines, basis)
      BY DEF Kept, price
    <3>2. compute(lines, basis).refused = FALSE
      BY DEF compute
    <3> QED BY <2>1, <3>1, <3>2 DEF Refused
  <2>2. CASE ~totals.refused
    <3> DEFINE n == Len(lines)
               raws == RawOf(lines, basis)
    <3>1. basis \in Bases /\ lines \in Seq(Priced(basis)) /\ totals = compute(lines, basis)
      BY <2>2, KeptIsPriced
    <3> QED BY <3>1, FiguresOf
  <2> QED BY <2>1, <2>2
<1>2. Init => PostedNearly
  BY DEF Init, PostedNearly
<1>3. Kept /\ PostedNearly /\ [Next]_vars => PostedNearly'
  <2> SUFFICES ASSUME Kept, PostedNearly, [Next]_vars PROVE PostedNearly'
    OBVIOUS
  <2>1. ASSUME NEW line \in Lines, AddLine(line) PROVE PostedNearly'
    BY <2>1 DEF AddLine, Editable, PostedNearly
  <2>2. ASSUME NEW n \in DOMAIN lines, RemoveLine(n) PROVE PostedNearly'
    BY <2>2 DEF RemoveLine, Editable, PostedNearly
  <2>3. ASSUME NEW field \in DOMAIN Offered, ChangeBasis(field) PROVE PostedNearly'
    BY <2>3 DEF ChangeBasis, Editable, PostedNearly
  <2>4. ASSUME NEW rate \in ExchangeRates, Post(rate) PROVE PostedNearly'
    <3> DEFINE gross == totals.gross
    <3>1. posted' = [rate |-> rate, gross |-> gross, base |-> convert(gross, rate)]
          /\ totals' = totals
      BY <2>4 DEF Post
    <3>2. gross \in Int
      BY <1>1
    <3>3. rate \in Int
      BY PricingAssumption DEF PricingAssumption
    <3> HIDE DEF gross
    <3>4. Converted(gross, rate, convert(gross, rate))
      BY <3>2, <3>3, ConvertedNearly
    <3>5. posted'.rate = rate /\ posted'.gross = gross /\ posted'.base = convert(gross, rate)
          /\ totals'.gross = gross
      BY <3>1 DEF gross
    <3> QED BY <3>4, <3>5 DEF Converted, PostedNearly
  <2>5. CASE UNCHANGED vars
    BY <2>5 DEF vars, PostedNearly
  <2> QED BY <2>1, <2>2, <2>3, <2>4, <2>5 DEF Next
<1> QED BY <1>2, <1>3, KeptHolds, PTL DEF Spec
=============================================================================
