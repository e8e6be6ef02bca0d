------------------------------ MODULE SetLemmas -----------------------------
(* What the proofs use in the place of induction: sets of naturals have a    *)
(* least element, and bounded ones a greatest; a set of numbers that holds   *)
(* each number after one of its own holds them all; and a family of sets     *)
(* that holds each set whose smaller subsets it holds has every finite set.  *)
(* And what follows for the operators of Columns: every finite set of rows   *)
(* can be sorted, and a sum is taken row by row, in any order.               *)
EXTENDS Columns, FiniteSetTheorems, TLAPS

\* Every nonempty set of naturals has a least element: of the intervals from 0
\* to its elements one contains no other.
LEMMA LeastNatural ==
    ASSUME NEW T \in SUBSET Nat, T # {}
    PROVE  \E m \in T : \A k \in T : m <= k
<1> DEFINE Initials == {0..n : n \in T}
           Below == StrictSubsetOrdering(Nat)
<1>1. IsWellFoundedOn(Below, FiniteSubsetsOf(Nat))
    BY FS_StrictSubsetOrderingWellFounded
<1>2. Initials \subseteq FiniteSubsetsOf(Nat) /\ Initials # {}
    <2>1. \A n \in Nat : 0..n \in SUBSET Nat /\ IsFiniteSet(0..n)
        BY FS_Interval
    <2> QED
        BY <2>1 DEF FiniteSubsetsOf
<1>3. PICK X \in Initials : \A Y \in Initials : ~(<<Y, X>> \in Below)
    <2> HIDE DEF Initials, Below
    <2> QED
        BY <1>1, <1>2, WFMin
<1>4. PICK m \in T : X = 0..m
    BY <1>3
<1>5. ASSUME NEW k \in T, k < m PROVE FALSE
    <2>1. 0..k \in Initials /\ 0..k \subseteq 0..m /\ m \in 0..m /\ m \notin 0..k
        BY <1>5
    <2>2. 0..k \in SUBSET Nat /\ 0..m \in SUBSET Nat /\ 0..k # 0..m
        BY <2>1
    <2>3. <<0..k, X>> \in Below
        BY <1>4, <2>1, <2>2 DEF StrictSubsetOrdering
    <2> QED
        BY <1>3, <2>1, <2>3
<1> QED
    BY <1>5

\* And a greatest one when it is bounded: the least of its upper bounds.
LEMMA GreatestNatural ==
    ASSUME NEW T \in SUBSET Nat, T # {}, NEW n \in Nat, \A k \in T : k <= n
    PROVE  \E m \in T : \A k \in T : k <= m
<1> DEFINE Upper == {u \in Nat : \A k \in T : k <= u}
<1>1. PICK u \in Upper : \A v \in Upper : u <= v
    <2>1. Upper \in SUBSET Nat /\ Upper # {}
        OBVIOUS
    <2> HIDE DEF Upper
    <2> QED
        BY <2>1, LeastNatural
<1>2. ASSUME u \notin T PROVE FALSE
    <2>1. u \in Nat /\ \A k \in T : k \in Nat /\ k <= u /\ k # u
        BY <1>2
    <2>2. PICK j \in T : TRUE
        OBVIOUS
    <2>3. u - 1 \in Nat /\ \A k \in T : k <= u - 1
        <3> HIDE DEF Upper
        <3> QED
            BY <2>1, <2>2
    <2> QED
        BY <1>1, <2>3
<1> QED
    BY <1>1, <1>2

\* From -1 to n one number after another.
LEMMA Climb ==
    ASSUME NEW n \in Int, n >= -1, NEW H, -1 \in H,
           \A k \in 0 .. n : k - 1 \in H => k \in H
    PROVE  n \in H
<1> DEFINE missing == {k \in 0 .. n : k \notin H}
<1>1. SUFFICES ASSUME missing # {} PROVE FALSE
    <2>1. n = -1 \/ n \in 0 .. n
        OBVIOUS
    <2> QED
        BY <1>1, <2>1
<1>2. PICK m \in missing : \A k \in missing : m <= k
    <2>1. missing \in SUBSET Nat
        OBVIOUS
    <2> HIDE DEF missing
    <2> QED
        BY <1>1, <2>1, LeastNatural
<1>3. m \in 0 .. n /\ m \notin H
    OBVIOUS
<1>4. m - 1 = -1 \/ (m - 1 \in 0 .. n /\ m - 1 < m)
    BY <1>3
<1>5. m - 1 \in H
    <2>1. m - 1 \in 0 .. n => m - 1 \in H
        BY <1>2, <1>3
    <2> QED
        BY <1>4, <2>1
<1> QED
    BY <1>3, <1>5

\* A smallest subset outside G would have all its subsets in G.
LEMMA SubsetInduction ==
    ASSUME NEW S, IsFiniteSet(S), NEW G,
           \A T \in SUBSET S : (\A U \in SUBSET T : U # T => U \in G) => T \in G
    PROVE  S \in G
<1> DEFINE missing == {T \in SUBSET S : T \notin G}
           Below == StrictSubsetOrdering(S)
<1>1. SUFFICES ASSUME missing # {} PROVE FALSE
    BY S \notin missing
<1>2. missing \subseteq FiniteSubsetsOf(S)
    BY FS_Subset DEF FiniteSubsetsOf
<1>3. PICK T \in missing : \A U \in missing : ~(<<U, T>> \in Below)
    <2>1. IsWellFoundedOn(Below, FiniteSubsetsOf(S))
        BY FS_StrictSubsetOrderingWellFounded
    <2> HIDE DEF missing, Below
    <2> QED
        BY <1>1, <1>2, <2>1, WFMin
<1>4. T \in SUBSET S /\ T \notin G
    OBVIOUS
<1>5. ASSUME NEW U \in SUBSET T, U # T PROVE U \in G
    <2>1. U \in SUBSET S /\ <<U, T>> \in Below
        BY <1>4, <1>5 DEF StrictSubsetOrdering
    <2> HIDE DEF Below
    <2> QED
        BY <1>3, <2>1
<1> QED
    BY <1>4, <1>5

-----------------------------------------------------------------------------
(* ORDER BY.                                                                 *)

\* An order of S that puts nothing after what B, a set of pairs, puts it before.
Ordering(S, B, s) ==
    /\ s \in [1 .. Cardinality(S) -> S] /\ IsInjective(s)
    /\ \A i, j \in 1 .. Cardinality(S) : i < j => <<s[j], s[i]>> \notin B

\* Every finite set has one if its subsets have first elements: the first, and
\* then the others in an order of theirs.
LEMMA OrderExists ==
    ASSUME NEW S, IsFiniteSet(S), NEW B,
           \A T \in SUBSET S : T # {} => \E m \in T : \A r \in T : <<r, m>> \notin B
    PROVE  \E s : Ordering(S, B, s)
<1> DEFINE Good == {T \in SUBSET S : \E s : Ordering(T, B, s)}
<1>1. SUFFICES ASSUME NEW T \in SUBSET S, \A U \in SUBSET T : U # T => U \in Good
               PROVE  \E s : Ordering(T, B, s)
    <2>1. \A T \in SUBSET S : (\A U \in SUBSET T : U # T => U \in Good) => T \in Good
        BY <1>1
    <2> HIDE DEF Good
    <2>2. S \in Good
        BY <2>1, SubsetInduction
    <2> QED
        BY <2>2 DEF Good
<1>2. IsFiniteSet(T) /\ Cardinality(T) \in Nat
    BY FS_Subset, FS_CardinalityType
<1>3. CASE T = {}
    <2>2. Cardinality(T) = 0 /\ 1 .. 0 = {}
        BY <1>3, FS_EmptySet
    <2>3. <<>> \in [1 .. Cardinality(T) -> T] /\ IsInjective(<<>>)
        BY <2>2 DEF IsInjective
    <2> QED
        BY <2>2, <2>3 DEF Ordering
<1>4. SUFFICES ASSUME T # {} PROVE \E s : Ordering(T, B, s)
    BY <1>3
<1>5. PICK m \in T : \A r \in T : <<r, m>> \notin B
    BY <1>4
<1> DEFINE U == T \ {m}
           n == Cardinality(U)
<1>6. n \in Nat /\ Cardinality(T) = n + 1
    <2>1. IsFiniteSet(U) /\ Cardinality(U) = Cardinality(T) - 1
        BY <1>2, FS_RemoveElement
    <2>2. Cardinality(U) \in Nat
        BY <2>1, FS_CardinalityType
    <2> QED
        BY <1>2, <2>1, <2>2
<1>7. PICK s : Ordering(U, B, s)
    <2>1. U \in SUBSET T /\ U # T
        BY <1>5
    <2>2. U \in Good
        BY <1>1, <2>1
    <2> QED
        BY <2>2
<1> DEFINE t == [i \in 1 .. n + 1 |-> IF i = 1 THEN m ELSE s[i - 1]]
<1>8. s \in [1 .. n -> U] /\ \A i, j \in 1 .. n : s[i] = s[j] => i = j
    BY <1>7 DEF Ordering, IsInjective
<1> HIDE DEF n
<1>9. \A i \in 1 .. n + 1 : i # 1 => i - 1 \in 1 .. n /\ t[i] = s[i - 1] /\ t[i] \in U
    BY <1>6, <1>8
<1>10. t[1] = m /\ DOMAIN t = 1 .. n + 1
    BY <1>6
<1>11. t \in [1 .. n + 1 -> T]
    <2>1. \A i \in 1 .. n + 1 : t[i] \in T
        BY <1>9, <1>10
    <2> QED
        BY <2>1
<1> HIDE DEF t
<1>12. IsInjective(t)
    <2>1. SUFFICES ASSUME NEW i \in 1 .. n + 1, NEW j \in 1 .. n + 1, t[i] = t[j]
                   PROVE  i = j
        BY <1>10 DEF IsInjective
    <2>2. CASE i = 1 \/ j = 1
        BY <1>9, <1>10, <2>1, <2>2
    <2>3. CASE i # 1 /\ j # 1
        <3>1. i - 1 \in 1 .. n /\ j - 1 \in 1 .. n /\ s[i - 1] = s[j - 1]
            BY <1>9, <2>1, <2>3
        <3>2. i - 1 = j - 1
            BY <1>8, <3>1
        <3> QED
            BY <1>6, <3>2
    <2> QED
        BY <2>2, <2>3
<1>13. ASSUME NEW i \in 1 .. n + 1, NEW j \in 1 .. n + 1, i < j
       PROVE  <<t[j], t[i]>> \notin B
    <2>1. CASE i = 1
        BY <1>5, <1>10, <1>11, <2>1
    <2>2. CASE i # 1
        <3>1. j # 1 /\ i - 1 < j - 1
            BY <1>6, <1>13, <2>2
        <3>2. \A x, y \in 1 .. n : x < y => <<s[y], s[x]>> \notin B
            BY <1>7 DEF Ordering, n
        <3> QED
            BY <1>9, <2>2, <3>1, <3>2
    <2> QED
        BY <2>1, <2>2
<1>14. Ordering(T, B, t)
    BY <1>6, <1>11, <1>12, <1>13 DEF Ordering
<1> QED
    BY <1>14

\* It leaves no row out.
LEMMA OrderIsComplete ==
    ASSUME NEW S, IsFiniteSet(S), NEW B, NEW s, Ordering(S, B, s)
    PROVE  \A r \in S : \E i \in 1 .. Cardinality(S) : s[i] = r
<1> DEFINE D == 1 .. Cardinality(S)
<1>1. Cardinality(S) \in Nat
    BY FS_CardinalityType
<1>2. IsFiniteSet(D) /\ Cardinality(D) = Cardinality(S)
    BY <1>1, FS_Interval
<1> HIDE DEF D
<1>3. s \in Injection(D, S)
    BY DEF Ordering, Injection, IsInjective, D
<1>4. s \in Surjection(D, S)
    BY <1>2, <1>3, FS_Injection
<1> QED
    BY <1>4 DEF Surjection, D

-----------------------------------------------------------------------------
(* SUM.                                                                      *)

\* g sums the column f over every subset of D, one key after another.
Sums(f, D, g) ==
    g = [S \in SUBSET D |->
           IF S = {} THEN 0
           ELSE LET x == CHOOSE y \in S : TRUE IN f[x] + g[S \ {x}]]

IntColumn(f) == IsFiniteSet(DOMAIN f) /\ \A k \in DOMAIN f : f[k] \in Int

LEMMA SumOfSums ==
    ASSUME NEW f
    PROVE  SumOf(f) = (CHOOSE g : Sums(f, DOMAIN f, g))[DOMAIN f]
    BY DEF SumOf, MapThenSumSet, MapThenFoldSet, Sums

LEMMA SumsStep ==
    ASSUME NEW f, NEW D, NEW g, Sums(f, D, g), NEW S \in SUBSET D
    PROVE  /\ S = {} => g[S] = 0
           /\ S # {} => LET x == CHOOSE y \in S : TRUE
                        IN x \in S /\ g[S] = f[x] + g[S \ {x}]
<1>1. g[S] = IF S = {} THEN 0
             ELSE LET x == CHOOSE y \in S : TRUE IN f[x] + g[S \ {x}]
    BY DEF Sums
<1>2. S # {} => (CHOOSE y \in S : TRUE) \in S
    OBVIOUS
<1> QED
    BY <1>1, <1>2

\* Such sums depend on the column alone.
LEMMA SumsAgree ==
    ASSUME NEW f, NEW e, NEW D, NEW E, NEW g, NEW h, Sums(f, D, g), Sums(e, E, h),
           NEW S, IsFiniteSet(S), S \subseteq D, S \subseteq E, \A x \in S : f[x] = e[x]
    PROVE  g[S] = h[S]
<1> DEFINE Good == {T \in SUBSET S : g[T] = h[T]}
<1>1. ASSUME NEW T \in SUBSET S, \A U \in SUBSET T : U # T => U \in Good
      PROVE  g[T] = h[T]
    <2>1. T \in SUBSET D /\ T \in SUBSET E
        OBVIOUS
    <2>2. CASE T = {}
        <3>1. Sums(f, D, g) /\ Sums(e, E, h)
            OBVIOUS
        <3>2. g[T] = 0
            BY ONLY <2>1, <2>2, <3>1, SumsStep
        <3>3. h[T] = 0
            BY ONLY <2>1, <2>2, <3>1, SumsStep
        <3> QED
            BY <3>2, <3>3
    <2>3. CASE T # {}
        <3> DEFINE x == CHOOSE y \in T : TRUE
        <3>1. x \in T /\ g[T] = f[x] + g[T \ {x}]
            BY <2>1, <2>3, SumsStep
        <3>3. h[T] = e[x] + h[T \ {x}]
            <4>1. Sums(e, E, h) /\ T \in SUBSET E /\ T # {}
                BY <2>1, <2>3
            <4> QED
                BY ONLY <4>1, SumsStep DEF x
        <3> HIDE DEF x
        <3>2. T \ {x} \in Good
            BY <1>1, <3>1
        <3> QED
            BY <3>1, <3>2, <3>3
    <2> QED
        BY <2>2, <2>3
<1>2. \A T \in SUBSET S : (\A U \in SUBSET T : U # T => U \in Good) => T \in Good
    BY <1>1
<1> HIDE DEF Good
<1>3. S \in Good
    BY <1>2, SubsetInduction
<1> QED
    BY <1>3 DEF Good

\* They exist: the sums over T come from those over its smaller subsets.
LEMMA SumsExist ==
    ASSUME NEW f, NEW D, IsFiniteSet(D)
    PROVE  \E g : Sums(f, D, g)
<1> DEFINE Good == {T \in SUBSET D : \E g : Sums(f, T, g)}
<1>1. ASSUME NEW T \in SUBSET D, \A U \in SUBSET T : U # T => U \in Good
      PROVE  \E g : Sums(f, T, g)
    <2> DEFINE of(U) == CHOOSE g : Sums(f, U, g)
               g == [U \in SUBSET T |->
                       IF U = {} THEN 0
                       ELSE LET x == CHOOSE y \in U : TRUE IN f[x] + of(U \ {x})[U \ {x}]]
    <2>1. ASSUME NEW U \in SUBSET T, U # T PROVE Sums(f, U, of(U))
        BY <1>1, <2>1
    <2> HIDE DEF of
    <2>2. ASSUME NEW U \in SUBSET T, U # T PROVE g[U] = of(U)[U]
        <3>1. Sums(f, U, of(U)) /\ U \in SUBSET U
            BY <2>1, <2>2
        <3>2. CASE U = {}
            BY <3>1, <3>2, SumsStep
        <3>3. CASE U # {}
            <4> DEFINE x == CHOOSE y \in U : TRUE
            <4>1. x \in U /\ of(U)[U] = f[x] + of(U)[U \ {x}]
                BY <3>1, <3>3, SumsStep
            <4>2. g[U] = f[x] + of(U \ {x})[U \ {x}]
                BY <3>3
            <4> HIDE DEF x
            <4>3. Sums(f, U \ {x}, of(U \ {x}))
                BY <2>1, <4>1
            <4>4. IsFiniteSet(U \ {x})
                BY FS_Subset
            <4>5. of(U)[U \ {x}] = of(U \ {x})[U \ {x}]
                BY <3>1, <4>3, <4>4, SumsAgree
            <4> QED
                BY <4>1, <4>2, <4>5
        <3> QED
            BY <3>2, <3>3
    <2> DEFINE x(U) == CHOOSE y \in U : TRUE
               next(U) == IF U = {} THEN 0 ELSE f[x(U)] + g[U \ {x(U)}]
    <2>3. ASSUME NEW U \in SUBSET T PROVE g[U] = next(U)
        <3>1. CASE U = {}
            BY <3>1
        <3>2. CASE U # {}
            <4>1. g[U] = f[x(U)] + of(U \ {x(U)})[U \ {x(U)}] /\ x(U) \in U
                BY <3>2
            <4> HIDE DEF x, g
            <4>2. U \ {x(U)} \in SUBSET T /\ U \ {x(U)} # T
                BY <4>1
            <4> QED
                BY <2>2, <3>2, <4>1, <4>2
        <3> QED
            BY <3>1, <3>2
    <2>4. g = [U \in SUBSET T |-> next(U)]
        <3>1. g = [U \in SUBSET T |-> g[U]]
            OBVIOUS
        <3> HIDE DEF g, next
        <3> QED
            BY <2>3, <3>1
    <2> HIDE DEF g
    <2> QED
        BY <2>4 DEF Sums
<1>2. \A T \in SUBSET D : (\A U \in SUBSET T : U # T => U \in Good) => T \in Good
    BY <1>1
<1> HIDE DEF Good
<1>3. D \in Good
    BY <1>2, SubsetInduction
<1> QED
    BY <1>3 DEF Good

\* Any key may be the first, and sums are integers.
LEMMA SumsRemove ==
    ASSUME NEW f, IntColumn(f), NEW g, Sums(f, DOMAIN f, g), NEW S \in SUBSET DOMAIN f
    PROVE  g[S] \in Int /\ \A k \in S : g[S] = f[k] + g[S \ {k}]
<1> DEFINE Claim(T) == g[T] \in Int /\ \A k \in T : g[T] = f[k] + g[T \ {k}]
           Good == {T \in SUBSET S : Claim(T)}
<1>1. ASSUME NEW T \in SUBSET S, \A U \in SUBSET T : U # T => U \in Good
      PROVE  Claim(T)
    <2>1. T \in SUBSET DOMAIN f
        OBVIOUS
    <2>2. CASE T = {}
        BY <2>1, <2>2, SumsStep
    <2>3. CASE T # {}
        <3> DEFINE x == CHOOSE y \in T : TRUE
        <3>1. x \in T /\ g[T] = f[x] + g[T \ {x}]
            BY <2>1, <2>3, SumsStep
        <3> HIDE DEF x
        <3>2. ASSUME NEW k \in T PROVE Claim(T \ {k}) /\ f[k] \in Int
            BY <1>1, <2>1, <3>2 DEF IntColumn
        <3>3. g[T] \in Int
            <4>1. g[T \ {x}] \in Int /\ f[x] \in Int
                BY <3>1, <3>2
            <4> QED
                BY <3>1, <4>1
        <3>4. ASSUME NEW k \in T, k # x PROVE g[T] = f[k] + g[T \ {k}]
            <4>1. g[T \ {x}] = f[k] + g[(T \ {x}) \ {k}]
                BY <3>1, <3>2, <3>4
            <4>2. g[T \ {k}] = f[x] + g[(T \ {k}) \ {x}]
                BY <3>1, <3>2, <3>4
            <4>3. (T \ {x}) \ {k} = (T \ {k}) \ {x}
                OBVIOUS
            <4>4. g[(T \ {k}) \ {x}] \in Int /\ f[x] \in Int /\ f[k] \in Int
                <5>1. (T \ {k}) \ {x} \in Good
                    BY <1>1, <3>1
                <5> QED
                    BY <3>1, <3>2, <3>4, <5>1
            <4> DEFINE r == g[(T \ {k}) \ {x}]
            <4>5. g[T \ {x}] = f[k] + r /\ g[T \ {k}] = f[x] + r /\ r \in Int
                BY <4>1, <4>2, <4>3, <4>4
            <4> HIDE DEF r, Claim, Good
            <4> QED
                BY <3>1, <4>4, <4>5
        <3> QED
            BY <3>1, <3>3, <3>4
    <2> QED
        BY <2>2, <2>3
<1>2. \A T \in SUBSET S : (\A U \in SUBSET T : U # T => U \in Good) => T \in Good
    BY <1>1
<1>3. IsFiniteSet(S)
    BY FS_Subset DEF IntColumn
<1> HIDE DEF Good
<1>4. S \in Good
    BY <1>2, <1>3, SubsetInduction
<1> QED
    BY <1>4 DEF Good

LEMMA SumOfPart ==
    ASSUME NEW f, IntColumn(f)
    PROVE  \E g : /\ Sums(f, DOMAIN f, g)
                  /\ \A S \in SUBSET DOMAIN f : SumOf(Keep(f, S)) = g[S]
<1>1. PICK g : Sums(f, DOMAIN f, g)
    BY SumsExist DEF IntColumn
<1>2. ASSUME NEW S \in SUBSET DOMAIN f PROVE SumOf(Keep(f, S)) = g[S]
    <2> DEFINE e == Keep(f, S)
    <2>1. DOMAIN e = S /\ \A k \in S : e[k] = f[k]
        BY DEF Keep
    <2> HIDE DEF e
    <2>2. IsFiniteSet(S)
        BY FS_Subset DEF IntColumn
    <2> DEFINE h == CHOOSE x : Sums(e, S, x)
    <2>3. Sums(e, S, h)
        BY <2>2, SumsExist
    <2>4. SumOf(e) = h[S]
        BY <2>1, SumOfSums
    <2> HIDE DEF h
    <2>5. g[S] = h[S]
        BY <1>1, <2>1, <2>2, <2>3, SumsAgree
    <2> QED
        BY <2>4, <2>5 DEF e
<1> QED
    BY <1>1, <1>2

\* The sum of a column: nothing for no rows, and row by row.
LEMMA SumRemove ==
    ASSUME NEW f, IntColumn(f), NEW S \in SUBSET DOMAIN f
    PROVE  /\ SumOf(Keep(f, S)) \in Int
           /\ S = {} => SumOf(Keep(f, S)) = 0
           /\ \A k \in S : SumOf(Keep(f, S)) = f[k] + SumOf(Keep(f, S \ {k}))
<1>1. PICK g : /\ Sums(f, DOMAIN f, g)
               /\ \A T \in SUBSET DOMAIN f : SumOf(Keep(f, T)) = g[T]
    BY SumOfPart
<1>2. g[S] \in Int /\ \A k \in S : g[S] = f[k] + g[S \ {k}]
    BY <1>1, SumsRemove
<1>3. S = {} => g[S] = 0
    BY <1>1, SumsStep
<1> QED
    BY <1>1, <1>2, <1>3

LEMMA WholeColumn ==
    ASSUME NEW f, f = [k \in DOMAIN f |-> f[k]]
    PROVE  Keep(f, DOMAIN f) = f
    BY DEF Keep

LEMMA SumUnion ==
    ASSUME NEW f, IntColumn(f), NEW A \in SUBSET DOMAIN f, NEW B \in SUBSET DOMAIN f,
           A \cap B = {}
    PROVE  SumOf(Keep(f, A \cup B)) = SumOf(Keep(f, A)) + SumOf(Keep(f, B))
<1> DEFINE sum(S) == SumOf(Keep(f, S))
           Good == {T \in SUBSET B : sum(A \cup T) = sum(A) + sum(T)}
<1>1. ASSUME NEW T \in SUBSET B, \A U \in SUBSET T : U # T => U \in Good
      PROVE  sum(A \cup T) = sum(A) + sum(T)
    <2>1. sum(A) \in Int /\ sum(T) \in Int /\ A \cup T \in SUBSET DOMAIN f
        BY SumRemove
    <2>2. CASE T = {}
        <3>1. sum(T) = 0 /\ A \cup T = A
            BY <2>2, SumRemove
        <3>2. sum(A \cup T) = sum(A)
            BY <3>1
        <3> HIDE DEF sum, Good
        <3> QED
            BY <2>1, <3>1, <3>2
    <2>3. CASE T # {}
        <3>1. PICK k \in T : TRUE
            BY <2>3
        <3>2. sum(T) = f[k] + sum(T \ {k})
            BY <3>1, SumRemove
        <3>3. k \in A \cup T /\ (A \cup T) \ {k} = A \cup (T \ {k})
            BY <3>1
        <3>4. sum(A \cup T) = f[k] + sum((A \cup T) \ {k})
            <4> DEFINE C == A \cup T
            <4>1. k \in C /\ C \in SUBSET DOMAIN f
                BY <2>1, <3>3
            <4> HIDE DEF C
            <4>2. sum(C) = f[k] + sum(C \ {k})
                BY <4>1, SumRemove
            <4> QED
                BY <4>2 DEF C
        <3>5. T \ {k} \in SUBSET B /\ T \ {k} \in Good
            BY <1>1, <3>1
        <3>6. sum(T \ {k}) \in Int /\ f[k] \in Int
            BY <3>1, SumRemove DEF IntColumn
        <3>7. sum(A \cup (T \ {k})) = sum(A) + sum(T \ {k})
            BY <3>5
        <3>8. sum(A \cup T) = f[k] + (sum(A) + sum(T \ {k}))
            BY <3>3, <3>4, <3>7
        <3> HIDE DEF sum, Good
        <3> QED
            BY <2>1, <3>2, <3>6, <3>8
    <2> QED
        BY <2>2, <2>3
<1>2. \A T \in SUBSET B : (\A U \in SUBSET T : U # T => U \in Good) => T \in Good
    BY <1>1
<1>3. IsFiniteSet(B)
    BY FS_Subset DEF IntColumn
<1> HIDE DEF Good
<1>4. B \in Good
    BY <1>2, <1>3, SubsetInduction
<1> QED
    BY <1>4 DEF Good

\* Two columns whose keys correspond, of equal or of opposite values.
LEMMA SumCorresponds ==
    ASSUME NEW f, IntColumn(f), NEW h, IntColumn(h), NEW p, NEW c \in {-1, 1},
           \A k \in DOMAIN f : p[k] \in DOMAIN h /\ h[p[k]] = c * f[k],
           \A j, k \in DOMAIN f : p[j] = p[k] => j = k,
           NEW S \in SUBSET DOMAIN f
    PROVE  SumOf(Keep(h, {p[k] : k \in S})) = c * SumOf(Keep(f, S))
<1> DEFINE sum(T) == SumOf(Keep(f, T))
           image(T) == {p[k] : k \in T}
           other(T) == SumOf(Keep(h, image(T)))
           Good == {T \in SUBSET S : other(T) = c * sum(T)}
<1>1. ASSUME NEW T \in SUBSET S, \A U \in SUBSET T : U # T => U \in Good
      PROVE  other(T) = c * sum(T)
    <2>1. image(T) \in SUBSET DOMAIN h /\ T \in SUBSET DOMAIN f
        OBVIOUS
    <2>2. CASE T = {}
        <3>1. sum(T) = 0
            BY <2>1, <2>2, SumRemove
        <3>2. image(T) = {}
            BY <2>2
        <3>3. other(T) = 0
            BY <2>1, <3>2, SumRemove
        <3> HIDE DEF sum, other
        <3> QED
            BY <3>1, <3>3
    <2>3. CASE T # {}
        <3>1. PICK k \in T : TRUE
            BY <2>3
        <3>2. sum(T) = f[k] + sum(T \ {k}) /\ sum(T \ {k}) \in Int /\ f[k] \in Int
            BY <2>1, <3>1, SumRemove DEF IntColumn
        <3>3. p[k] \in image(T) /\ h[p[k]] = c * f[k]
            BY <2>1, <3>1
        <3>4. other(T) = h[p[k]] + SumOf(Keep(h, image(T) \ {p[k]}))
            <4> HIDE DEF image
            <4> QED
                BY <2>1, <3>3, SumRemove
        <3>5. image(T) \ {p[k]} = image(T \ {k})
            BY <2>1, <3>1
        <3>6. other(T \ {k}) = c * sum(T \ {k})
            <4>1. T \ {k} \in Good
                BY <1>1, <3>1
            <4> QED
                BY <4>1
        <3>7. other(T) = c * f[k] + c * sum(T \ {k})
            BY <3>3, <3>4, <3>5, <3>6
        <3> HIDE DEF sum, other, Good
        <3>8. CASE c = 1
            BY <3>2, <3>7, <3>8
        <3>9. CASE c = -1
            BY <3>2, <3>7, <3>9
        <3> QED
            BY <3>8, <3>9
    <2> QED
        BY <2>2, <2>3
<1>2. \A T \in SUBSET S : (\A U \in SUBSET T : U # T => U \in Good) => T \in Good
    BY <1>1
<1>3. IsFiniteSet(S)
    BY FS_Subset DEF IntColumn
<1> HIDE DEF Good
<1>4. S \in Good
    BY <1>2, <1>3, SubsetInduction
<1> QED
    BY <1>4 DEF Good
=============================================================================
