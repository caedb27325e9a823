------------------------ MODULE ConversationProofs ------------------------
(***************************************************************************)
(* Theorems about Conversation: its types, that exchanges are forgotten,   *)
(* that no bound separates a result from its call, and that each request   *)
(* is complete: it ends with the command, or answers every call.           *)
(***************************************************************************)
EXTENDS Conversation, TLAPS, FiniteSetTheorems

----------------------------------------------------------------------------
(* Sums over finite sets.  An induction over finite sets is the choice of a *)
(* smallest counterexample, and needs no operator as a parameter.          *)

\* Every set of numbers that is not empty has a least element.
LEMMA LeastNumber ==
  ASSUME NEW T, T \subseteq Nat, T # {}
  PROVE  \E x \in T : \A y \in T : x <= y
<1>1. PICK x \in T : \A y \in T : <<y, x>> \notin OpToRel(<, Nat)
  BY NatLessThanWellFounded, WFMin, Zenon
<1>2. \A y \in T : y \in Nat /\ x \in Nat /\ <<y, x>> \notin {ss \in Nat \X Nat : ss[1] < ss[2]}
  BY <1>1 DEF OpToRel
<1>3. \A y \in T : ~(y < x)
  BY <1>2
<1> QED  BY <1>2, <1>3

\* Among finite sets one is smallest: all its strict subsets are elsewhere.
LEMMA SmallestSet ==
  ASSUME NEW S, IsFiniteSet(S), NEW B \in SUBSET (SUBSET S), B # {}
  PROVE  \E s \in B : \A t \in SUBSET s : t = s \/ t \notin B
<1>1. \A s \in SUBSET S : IsFiniteSet(s) /\ Cardinality(s) \in Nat
  BY FS_Subset, FS_CardinalityType
<1> DEFINE N == {Cardinality(s) : s \in B}
<1>2. N \subseteq Nat /\ N # {}
  BY <1>1
<1>3. PICK n \in N : \A k \in N : n <= k
  BY <1>2, LeastNumber
<1>4. PICK s \in B : Cardinality(s) = n
  BY <1>3
<1>5. ASSUME NEW t \in SUBSET s, t \in B PROVE t = s
  <2>1. Cardinality(s) <= Cardinality(t) /\ Cardinality(t) <= Cardinality(s)
    BY <1>1, <1>3, <1>4, <1>5, FS_Subset
  <2>2. Cardinality(t) = Cardinality(s)
    BY <1>1, <1>5, <2>1
  <2> QED  BY <1>1, <1>5, <2>2, FS_Subset
<1> QED  BY <1>5

AnyOf(S) == CHOOSE x \in S : TRUE

\* g adds up F over every subset of S.
Sums(g, F, S) ==
    g = [s \in SUBSET S |-> IF s = {} THEN 0 ELSE F[AnyOf(s)] + g[s \ {AnyOf(s)}]]

\* Nothing adds up to nothing.
LEMMA SumOfNone ==
  ASSUME NEW g, NEW F, NEW S, Sums(g, F, S)
  PROVE  g[{}] = 0
<1>1. g = [u \in SUBSET S |-> IF u = {} THEN 0 ELSE F[AnyOf(u)] + g[u \ {AnyOf(u)}]]
  BY DEF Sums
<1>2. \A u \in SUBSET S : g[u] = IF u = {} THEN 0 ELSE F[AnyOf(u)] + g[u \ {AnyOf(u)}]
  BY <1>1, Zenon
<1>3. {} \in SUBSET S
  OBVIOUS
<1>4. g[{}] = IF {} = {} THEN 0 ELSE F[AnyOf({})] + g[{} \ {AnyOf({})}]
  BY <1>2, <1>3, Zenon
<1> QED  BY <1>4

\* Of some elements it is any one of them and what the others add up to.
LEMMA SumOfSome ==
  ASSUME NEW g, NEW F, NEW S, Sums(g, F, S), NEW s \in SUBSET S, s # {}
  PROVE  AnyOf(s) \in s /\ g[s] = F[AnyOf(s)] + g[s \ {AnyOf(s)}]
<1>1. AnyOf(s) \in s
  BY DEF AnyOf
<1>2. g = [u \in SUBSET S |-> IF u = {} THEN 0 ELSE F[AnyOf(u)] + g[u \ {AnyOf(u)}]]
  BY DEF Sums
<1>3. \A u \in SUBSET S : g[u] = IF u = {} THEN 0 ELSE F[AnyOf(u)] + g[u \ {AnyOf(u)}]
  BY <1>2, Zenon
<1>4. g[s] = IF s = {} THEN 0 ELSE F[AnyOf(s)] + g[s \ {AnyOf(s)}]
  BY <1>3, Zenon
<1> QED  BY <1>1, <1>4

\* There is one such function, on the subsets that two sets have in common.
LEMMA SumsAgree ==
  ASSUME NEW F, NEW S, NEW T, IsFiniteSet(S), NEW g, NEW k, Sums(g, F, S), Sums(k, F, T),
         NEW s \in SUBSET S, s \in SUBSET T
  PROVE  g[s] = k[s]
<1> DEFINE B == {t \in SUBSET S : t \in SUBSET T /\ g[t] # k[t]}
<1>1. SUFFICES ASSUME B # {} PROVE FALSE
  OBVIOUS
<1>0. B \in SUBSET (SUBSET S)
  OBVIOUS
<1> HIDE DEF B
<1>2. PICK t \in B : \A u \in SUBSET t : u = t \/ u \notin B
  BY <1>0, <1>1, SmallestSet
<1> USE DEF B
<1>3. t \in SUBSET S /\ t \in SUBSET T /\ g[t] # k[t]
  BY <1>2
<1>7. t # {}
  BY <1>3, SumOfNone
<1>8. AnyOf(t) \in t /\ g[t] = F[AnyOf(t)] + g[t \ {AnyOf(t)}]
  <2>1. Sums(g, F, S) /\ t \in SUBSET S
    BY <1>3
  <2> HIDE DEF B
  <2> QED  BY <1>7, <2>1, SumOfSome
<1>9. k[t] = F[AnyOf(t)] + k[t \ {AnyOf(t)}]
  <2>1. Sums(k, F, T) /\ t \in SUBSET T
    BY <1>3
  <2> HIDE DEF B
  <2> QED  BY <1>7, <2>1, SumOfSome, SMTT(30)
<1> DEFINE u == t \ {AnyOf(t)}
<1>4. /\ AnyOf(t) \in t /\ g[t] = F[AnyOf(t)] + g[u] /\ k[t] = F[AnyOf(t)] + k[u]
  BY <1>8, <1>9
<1>5. u \in SUBSET t /\ u # t /\ u \in SUBSET S /\ u \in SUBSET T
  BY <1>2, <1>4
<1>6. g[u] = k[u]
  BY <1>2, <1>5
<1> QED  BY <1>2, <1>4, <1>6

\* There is such a function for every finite set.
LEMMA SumsExist ==
  ASSUME NEW F, NEW S, IsFiniteSet(S)
  PROVE  \E g : Sums(g, F, S)
<1> DEFINE B == {t \in SUBSET S : ~ \E g : Sums(g, F, t)}
<1>1. SUFFICES ASSUME B # {} PROVE FALSE
  OBVIOUS
<1>0. B \in SUBSET (SUBSET S)
  OBVIOUS
<1> HIDE DEF B
<1>2. PICK t \in B : \A u \in SUBSET t : u = t \/ u \notin B
  BY <1>0, <1>1, SmallestSet
<1> USE DEF B
<1>3. t \in SUBSET S /\ ~ \E g : Sums(g, F, t)
  BY <1>2
<1>4. \A u \in SUBSET t : u # t => \E g : Sums(g, F, u)
  BY <1>2
<1> HIDE DEF B
<1> DEFINE G(u) == CHOOSE g : Sums(g, F, u)
           Sum(s) == IF s = {} THEN 0 ELSE F[AnyOf(s)] + G(s \ {AnyOf(s)})[s \ {AnyOf(s)}]
           g == [s \in SUBSET t |-> Sum(s)]
<1>5. \A u \in SUBSET t : u # t => Sums(G(u), F, u)
  BY <1>4
<1> HIDE DEF G
<1>6. \A s \in SUBSET t : s # t => IsFiniteSet(s)
  BY <1>3, FS_Subset
<1>7. ASSUME NEW u \in SUBSET t, u # t PROVE g[u] = G(u)[u]
  <2>1. CASE u = {}
    BY <1>5, <1>7, <2>1, SumOfNone
  <2>2. CASE u # {}
    <3> DEFINE v == u \ {AnyOf(u)}
    <3>1. AnyOf(u) \in u /\ G(u)[u] = F[AnyOf(u)] + G(u)[v]
      BY <1>5, <1>7, <2>2, SumOfSome
    <3>2. v \in SUBSET u /\ v \in SUBSET t /\ v # t
      BY <1>7, <3>1
    <3>3. G(u)[v] = G(v)[v]
      BY <1>5, <1>6, <1>7, <3>2, SumsAgree
    <3> QED  BY <2>2, <3>1, <3>3
  <2> QED  BY <2>1, <2>2
<1>8. \A s \in SUBSET t :
         g[s] = IF s = {} THEN 0 ELSE F[AnyOf(s)] + g[s \ {AnyOf(s)}]
  <2> TAKE s \in SUBSET t
  <2>1. CASE s = {}
    BY <2>1
  <2>2. CASE s # {}
    <3>1. AnyOf(s) \in s
      BY <2>2 DEF AnyOf
    <3>2. s \ {AnyOf(s)} \in SUBSET t /\ s \ {AnyOf(s)} # t
      BY <3>1
    <3> QED  BY <1>7, <2>2, <3>2
  <2> QED  BY <2>1, <2>2
<1>9. g = [s \in SUBSET t |-> IF s = {} THEN 0 ELSE F[AnyOf(s)] + g[s \ {AnyOf(s)}]]
  <2>1. g = [s \in SUBSET t |-> g[s]]
    OBVIOUS
  <2> HIDE DEF g
  <2> QED  BY <1>8, <2>1
<1> QED  BY <1>3, <1>9 DEF Sums

\* What F adds up to over a finite set.
Total(F, S) == (CHOOSE g : Sums(g, F, S))[S]

\* It is any one element and what the others add up to.
LEMMA TotalIs ==
  ASSUME NEW F, NEW S, IsFiniteSet(S)
  PROVE  /\ Total(F, {}) = 0
         /\ S # {} => AnyOf(S) \in S /\ Total(F, S) = F[AnyOf(S)] + Total(F, S \ {AnyOf(S)})
<1>1. \A T : IsFiniteSet(T) => Sums(CHOOSE g : Sums(g, F, T), F, T)
  BY SumsExist
<1> DEFINE G(T) == CHOOSE g : Sums(g, F, T)
           s == S \ {AnyOf(S)}
<1>2. IsFiniteSet({}) /\ IsFiniteSet(s)
  BY FS_EmptySet, FS_RemoveElement
<1>3. Sums(G({}), F, {}) /\ Sums(G(S), F, S) /\ Sums(G(s), F, s)
  BY <1>1, <1>2
<1>4. Total(F, {}) = G({})[{}] /\ Total(F, S) = G(S)[S] /\ Total(F, s) = G(s)[s]
  BY DEF Total
<1> HIDE DEF G
<1>5. G({})[{}] = 0
  BY <1>3, SumOfNone
<1>6. ASSUME S # {}
      PROVE  AnyOf(S) \in S /\ G(S)[S] = F[AnyOf(S)] + G(s)[s]
  <2>0. S \in SUBSET S
    OBVIOUS
  <2>1. AnyOf(S) \in S /\ G(S)[S] = F[AnyOf(S)] + G(S)[s]
    BY <2>0, <1>3, <1>6, SumOfSome
  <2>2. G(S)[s] = G(s)[s]
    <3>1. s \in SUBSET S /\ s \in SUBSET s
      OBVIOUS
    <3> HIDE DEF s
    <3> QED  BY <1>3, <3>1, SumsAgree
  <2> QED  BY <2>1, <2>2
<1> QED  BY <1>4, <1>5, <1>6

\* An empty sum is 0.
LEMMA TotalOfNone == ASSUME NEW F PROVE Total(F, {}) = 0
BY TotalIs, FS_EmptySet

\* Sums of natural numbers are natural numbers.
LEMMA TotalIsNatural ==
  ASSUME NEW F, NEW S, IsFiniteSet(S), \A x \in S : F[x] \in Nat
  PROVE  Total(F, S) \in Nat
<1> DEFINE B == {t \in SUBSET S : Total(F, t) \notin Nat}
<1>1. SUFFICES ASSUME B # {} PROVE FALSE
  OBVIOUS
<1>2. B \in SUBSET (SUBSET S)
  OBVIOUS
<1> HIDE DEF B
<1>3. PICK t \in B : \A u \in SUBSET t : u = t \/ u \notin B
  BY <1>1, <1>2, SmallestSet
<1>4. t \in SUBSET S /\ Total(F, t) \notin Nat /\ IsFiniteSet(t)
  BY <1>3, FS_Subset DEF B
<1>5. t # {}
  <2>1. Total(F, {}) = 0
    BY TotalOfNone
  <2> QED  BY <1>4, <2>1
<1> DEFINE u == t \ {AnyOf(t)}
<1>6. AnyOf(t) \in t /\ Total(F, t) = F[AnyOf(t)] + Total(F, u)
  BY <1>4, <1>5, TotalIs
<1>7. u \in SUBSET t /\ u # t /\ u \in SUBSET S
  BY <1>4, <1>6
<1>8. Total(F, u) \in Nat
  BY <1>3, <1>7 DEF B
<1> QED  BY <1>4, <1>6, <1>8

\* The order in which it is added up does not matter.
LEMMA TotalWithout ==
  ASSUME NEW F, NEW S, IsFiniteSet(S), \A x \in S : F[x] \in Nat, NEW x \in S
  PROVE  Total(F, S) = F[x] + Total(F, S \ {x})
<1> DEFINE B == {t \in SUBSET S : \E y \in t : Total(F, t) # F[y] + Total(F, t \ {y})}
<1>1. SUFFICES ASSUME B # {} PROVE FALSE
  OBVIOUS
<1>2. B \in SUBSET (SUBSET S)
  OBVIOUS
<1> HIDE DEF B
<1>3. PICK t \in B : \A u \in SUBSET t : u = t \/ u \notin B
  BY <1>1, <1>2, SmallestSet
<1>4. PICK y \in t : Total(F, t) # F[y] + Total(F, t \ {y})
  BY <1>3 DEF B
<1>5. t \in SUBSET S /\ IsFiniteSet(t)
  BY <1>3, FS_Subset DEF B
<1> DEFINE z == AnyOf(t)
<1>6. z \in t /\ Total(F, t) = F[z] + Total(F, t \ {z})
  BY <1>5, TotalIs
<1> HIDE DEF z
<1>7. z # y
  BY <1>4, <1>6
<1>8. \A u \in SUBSET t : u = t \/ \A v \in u : Total(F, u) = F[v] + Total(F, u \ {v})
  BY <1>3, <1>5 DEF B
<1>9. /\ Total(F, t \ {z}) = F[y] + Total(F, (t \ {z}) \ {y})
      /\ Total(F, t \ {y}) = F[z] + Total(F, (t \ {y}) \ {z})
  BY <1>6, <1>7, <1>8
<1>10. (t \ {z}) \ {y} = (t \ {y}) \ {z}
  OBVIOUS
<1>11. F[y] \in Nat /\ F[z] \in Nat
  BY <1>5, <1>6
<1>12. Total(F, (t \ {y}) \ {z}) \in Nat
  <2>1. (t \ {y}) \ {z} \in SUBSET S
    BY <1>5
  <2>2. IsFiniteSet((t \ {y}) \ {z})
    BY <2>1, FS_Subset
  <2> QED  BY <2>1, <2>2, TotalIsNatural
<1> DEFINE a == Total(F, t)  b == Total(F, t \ {y})  c == Total(F, t \ {z})
           d == Total(F, (t \ {y}) \ {z})
<1>13. d \in Nat /\ a = F[z] + c /\ c = F[y] + d /\ b = F[z] + d /\ a # F[y] + b
  BY <1>4, <1>6, <1>9, <1>10, <1>12
<1> HIDE DEF a, b, c, d
<1> QED  BY <1>11, <1>13

\* The length of a list is the total of its messages' lengths.
LEMMA CharactersAreTotal ==
  ASSUME NEW h, IsFiniteSet(h), NEW F, \A m \in h : F[m] = m.length
  PROVE  Characters(h) = Total(F, h)
<1> DEFINE Adds(g) == g = [s \in SUBSET h |-> IF s = {} THEN 0
                             ELSE AnyOf(s).length + g[s \ {AnyOf(s)}]]
<1>1. Characters(h) = (CHOOSE g : Adds(g))[h]
  BY DEF Characters, MapThenSumSet, MapThenFoldSet, AnyOf
<1>2. \A s \in SUBSET h : s # {} => AnyOf(s) \in h
  BY DEF AnyOf
<1>3. ASSUME NEW g PROVE Adds(g) <=> Sums(g, F, h)
  <2>1. \A s \in SUBSET h : (IF s = {} THEN 0 ELSE AnyOf(s).length + g[s \ {AnyOf(s)}])
                          = (IF s = {} THEN 0 ELSE F[AnyOf(s)] + g[s \ {AnyOf(s)}])
    BY <1>2
  <2>2. [s \in SUBSET h |-> IF s = {} THEN 0 ELSE AnyOf(s).length + g[s \ {AnyOf(s)}]]
      = [s \in SUBSET h |-> IF s = {} THEN 0 ELSE F[AnyOf(s)] + g[s \ {AnyOf(s)}]]
    BY <2>1
  <2> QED  BY <2>2 DEF Sums
<1> HIDE DEF Adds
<1>4. Adds(CHOOSE g : Adds(g)) /\ Sums(CHOOSE g : Sums(g, F, h), F, h)
  BY <1>3, SumsExist
<1>5. Sums(CHOOSE g : Adds(g), F, h)
  BY <1>3, <1>4
<1> QED  BY <1>1, <1>4, <1>5, SumsAgree DEF Total

\* Finite induction: a set of numbers that contains 0 and, with each number below
\* N, the next one contains all numbers up to N.
LEMMA UpTo ==
  ASSUME NEW N \in Nat, NEW P, 0 \in P, \A k \in 1 .. N : k - 1 \in P => k \in P
  PROVE  \A k \in 0 .. N : k \in P
<1> DEFINE T == {k \in 0 .. N : k \notin P}
<1>1. SUFFICES ASSUME T # {} PROVE FALSE
  OBVIOUS
<1>2. T \subseteq Nat
  OBVIOUS
<1> HIDE DEF T
<1>3. PICK k \in T : \A j \in T : k <= j
  BY <1>1, <1>2, LeastNumber
<1>4. k \in 0 .. N /\ k \notin P
  BY <1>3 DEF T
<1>5. k \in 1 .. N /\ k - 1 \in 0 .. N /\ k - 1 < k
  BY <1>4
<1>6. k - 1 \in P
  BY <1>3, <1>5 DEF T
<1> QED  BY <1>4, <1>5, <1>6

\* What is added up over the first n numbers.
LEMMA TotalOfFirst ==
  ASSUME NEW n \in Nat \ {0}, NEW L, \A i \in 1 .. n : L[i] \in Nat
  PROVE  Total(L, 1 .. n) = L[n] + Total(L, 1 .. n - 1)
<1>1. (1 .. n) \ {n} = 1 .. n - 1 /\ n \in 1 .. n
  OBVIOUS
<1>2. IsFiniteSet(1 .. n)
  BY FS_Interval
<1>3. Total(L, 1 .. n) = L[n] + Total(L, (1 .. n) \ {n})
  BY <1>1, <1>2, TotalWithout
<1> QED  BY <1>1, <1>3

\* Numbered things add up to what their lengths do, in whatever order.
LEMMA NumberedAddUp ==
  ASSUME NEW N \in Nat, NEW r, NEW F, NEW L,
         \A i \in 1 .. N : L[i] \in Nat /\ F[r[i]] = L[i],
         \A i, j \in 1 .. N : r[i] = r[j] => i = j,
         NEW k \in 0 .. N
  PROVE  /\ IsFiniteSet({r[i] : i \in 1 .. k}) /\ Cardinality({r[i] : i \in 1 .. k}) <= k
         /\ Cardinality({r[i] : i \in 1 .. k}) \in Nat
         /\ Total(F, {r[i] : i \in 1 .. k}) = Total(L, 1 .. k)
         /\ Total(L, 1 .. k) \in Nat
<1> DEFINE R(n) == {r[i] : i \in 1 .. n}
           Holds(n) == /\ IsFiniteSet(R(n)) /\ Cardinality(R(n)) <= n
                       /\ Cardinality(R(n)) \in Nat
                       /\ Total(F, R(n)) = Total(L, 1 .. n)
                       /\ Total(L, 1 .. n) \in Nat
           P == {n \in 0 .. N : Holds(n)}
<1>1. 0 \in P
  <2>1. R(0) = {} /\ 1 .. 0 = {}
    OBVIOUS
  <2>2. IsFiniteSet({}) /\ Cardinality({}) = 0
    BY FS_EmptySet
  <2>3. Total(F, {}) = 0 /\ Total(L, {}) = 0
    BY TotalOfNone
  <2> HIDE DEF R
  <2> QED  BY <2>1, <2>2, <2>3
<1>2. ASSUME NEW n \in 1 .. N, n - 1 \in P PROVE n \in P
  <2>1. Holds(n - 1)
    BY <1>2
  <2>2. R(n) = R(n - 1) \cup {r[n]} /\ r[n] \notin R(n - 1) /\ R(n) \ {r[n]} = R(n - 1)
    BY <1>2
  <2>4. /\ IsFiniteSet(R(n)) /\ Cardinality(R(n)) <= n /\ Cardinality(R(n)) \in Nat
    <3>1. IsFiniteSet(R(n - 1)) /\ Cardinality(R(n - 1)) <= n - 1
          /\ Cardinality(R(n - 1)) \in Nat
      BY <2>1
    <3> HIDE DEF R
    <3>2. /\ IsFiniteSet(R(n - 1) \cup {r[n]})
          /\ Cardinality(R(n - 1) \cup {r[n]}) = Cardinality(R(n - 1)) + 1
      BY <2>2, <3>1, FS_AddElement
    <3> QED  BY <2>2, <3>1, <3>2
  <2>5. Total(F, R(n)) = F[r[n]] + Total(F, R(n - 1))
    <3>1. \A m \in R(n) : F[m] \in Nat
      BY <1>2
    <3> HIDE DEF R
    <3>2. r[n] \in R(n)
      BY <2>2
    <3>3. Total(F, R(n)) = F[r[n]] + Total(F, R(n) \ {r[n]})
      BY <2>4, <3>1, <3>2, TotalWithout
    <3> QED  BY <2>2, <3>3
  <2>6. Total(L, 1 .. n) = L[n] + Total(L, 1 .. n - 1)
    <3>1. n \in Nat \ {0} /\ \A i \in 1 .. n : L[i] \in Nat
      BY <1>2
    <3> QED  BY <3>1, TotalOfFirst
  <2>7. F[r[n]] = L[n] /\ L[n] \in Nat
    BY <1>2
  <2>8. Total(F, R(n - 1)) = Total(L, 1 .. n - 1) /\ Total(L, 1 .. n - 1) \in Nat
    BY <2>1
  <2>9. Total(F, R(n)) = Total(L, 1 .. n) /\ Total(L, 1 .. n) \in Nat
    <3> HIDE DEF R
    <3>1. Total(L, 1 .. n) \in Nat
      BY <2>6, <2>7, <2>8
    <3> QED  BY <2>5, <2>6, <2>7, <2>8, <3>1
  <2>10. n \in 0 .. N
    BY <1>2
  <2> QED  BY <2>4, <2>9, <2>10
<1> HIDE DEF P
<1>3. k \in P
  BY <1>1, <1>2, UpTo
<1> QED  BY <1>3 DEF P

\* A budget that each spends from, but at least MinResult, is overdrawn by no more
\* than that for each.
LEMMA BudgetHolds ==
  ASSUME NEW N \in Nat, NEW L,
         \A i \in 1 .. N : /\ L[i] \in Nat
                           /\ L[i] <= MinResult \/ L[i] + Total(L, 1 .. i - 1) <= MaxResults,
         NEW k \in 0 .. N
  PROVE  Total(L, 1 .. k) <= MaxResults + k * MinResult
<1>0. MaxResults \in Nat /\ MinResult \in Nat
  BY ConversationConstants
<1> DEFINE Holds(n) == Total(L, 1 .. n) \in Nat /\ Total(L, 1 .. n) <= MaxResults + n * MinResult
           P == {n \in 0 .. N : Holds(n)}
<1>1. 0 \in P
  <2>1. 1 .. 0 = {} /\ Total(L, {}) = 0
    BY TotalOfNone
  <2>2. 0 * MinResult = 0
    BY <1>0
  <2> QED  BY <1>0, <2>1, <2>2
<1>2. ASSUME NEW n \in 1 .. N, n - 1 \in P PROVE n \in P
  <2>1. n \in Nat \ {0} /\ \A i \in 1 .. n : L[i] \in Nat
    BY <1>2
  <2>3. Total(L, 1 .. n) = L[n] + Total(L, 1 .. n - 1)
    BY <2>1, TotalOfFirst
  <2> DEFINE a == Total(L, 1 .. n)  b == Total(L, 1 .. n - 1)
             m == (n - 1) * MinResult
  <2>4. /\ a = L[n] + b /\ b \in Nat /\ L[n] \in Nat /\ b <= MaxResults + m
        /\ L[n] <= MinResult \/ L[n] + b <= MaxResults
    BY <1>2, <2>3
  <2>5. m \in Nat /\ n * MinResult = m + MinResult /\ n * MinResult \in Nat
    <3>1. n - 1 \in Nat
      BY <1>2
    <3>2. (n - 1) * MinResult \in Nat
      BY <1>0, <3>1
    <3>3. n * MinResult = (n - 1) * MinResult + MinResult
      BY <1>0, <1>2
    <3> QED  BY <1>0, <3>2, <3>3
  <2> HIDE DEF a, b, m
  <2>6. a \in Nat /\ a <= MaxResults + n * MinResult
    BY <1>0, <2>4, <2>5
  <2> QED  BY <1>2, <2>6 DEF a
<1> HIDE DEF P
<1>3. k \in P
  BY <1>1, <1>2, UpTo
<1> QED  BY <1>3 DEF P

\* So is what the results have spent of their budget.
LEMMA SpentIsTotal ==
  ASSUME NEW T, IsFiniteSet(T), NEW lengths, NEW F, \A j \in T : F[j] = lengths[j]
  PROVE  MapThenSumSet(LAMBDA j : lengths[j], T) = Total(F, T)
<1> DEFINE Adds(g) == g = [s \in SUBSET T |-> IF s = {} THEN 0
                             ELSE lengths[AnyOf(s)] + g[s \ {AnyOf(s)}]]
<1>1. MapThenSumSet(LAMBDA j : lengths[j], T) = (CHOOSE g : Adds(g))[T]
  BY DEF MapThenSumSet, MapThenFoldSet, AnyOf
<1>2. \A s \in SUBSET T : s # {} => AnyOf(s) \in T
  BY DEF AnyOf
<1>3. ASSUME NEW g PROVE Adds(g) <=> Sums(g, F, T)
  <2>1. \A s \in SUBSET T : (IF s = {} THEN 0 ELSE lengths[AnyOf(s)] + g[s \ {AnyOf(s)}])
                          = (IF s = {} THEN 0 ELSE F[AnyOf(s)] + g[s \ {AnyOf(s)}])
    BY <1>2
  <2>2. [s \in SUBSET T |-> IF s = {} THEN 0 ELSE lengths[AnyOf(s)] + g[s \ {AnyOf(s)}]]
      = [s \in SUBSET T |-> IF s = {} THEN 0 ELSE F[AnyOf(s)] + g[s \ {AnyOf(s)}]]
    BY <2>1
  <2> QED  BY <2>2 DEF Sums
<1> HIDE DEF Adds
<1>4. Adds(CHOOSE g : Adds(g)) /\ Sums(CHOOSE g : Sums(g, F, T), F, T)
  BY <1>3, SumsExist
<1>5. Sums(CHOOSE g : Adds(g), F, T)
  BY <1>3, <1>4
<1> QED  BY <1>1, <1>4, <1>5, SumsAgree DEF Total

\* The smaller of two numbers.
LEMMA LeastOfTwo ==
  ASSUME NEW a \in Int, NEW b \in Int
  PROVE  Min({a, b}) \in {a, b} /\ Min({a, b}) <= a /\ Min({a, b}) <= b
<1>1. \E x \in {a, b} : \A y \in {a, b} : x <= y
  <2>1. CASE a <= b
    BY <2>1
  <2>2. CASE ~(a <= b)
    BY <2>2
  <2> QED  BY <2>1, <2>2
<1> QED  BY <1>1 DEF Min

\* A result has what it may have in any case, or fits in what is left.
LEMMA WithinBudgetMeans ==
  ASSUME NEW i \in Nat \ {0}, NEW lengths, NEW L,
         \A j \in 1 .. i : L[j] = lengths[j] /\ L[j] \in Nat,
         WithinBudget(lengths, i), Total(L, 1 .. i - 1) \in Nat
  PROVE  L[i] <= MinResult \/ L[i] + Total(L, 1 .. i - 1) <= MaxResults
<1>1. MaxResult \in Nat /\ MaxResults \in Nat /\ MinResult \in Nat
  BY ConversationConstants
<1>2. IsFiniteSet(1 .. i - 1) /\ \A j \in 1 .. i - 1 : L[j] = lengths[j]
  BY FS_Interval
<1>3. MapThenSumSet(LAMBDA j : lengths[j], 1 .. i - 1) = Total(L, 1 .. i - 1)
  BY <1>2, SpentIsTotal
<1> DEFINE left == MaxResults - Total(L, 1 .. i - 1)
           most == Max({MinResult, left})
<1>4. L[i] <= Min({MaxResult, most}) /\ L[i] \in Nat
  <2>1. lengths[i] <= Min({MaxResult, Max({MinResult,
                         MaxResults - MapThenSumSet(LAMBDA j : lengths[j], 1 .. i - 1)})})
    BY DEF WithinBudget
  <2>2. lengths[i] <= Min({MaxResult, Max({MinResult, MaxResults - Total(L, 1 .. i - 1)})})
    BY <1>3, <2>1
  <2>3. i \in 1 .. i
    OBVIOUS
  <2>4. L[i] = lengths[i] /\ L[i] \in Nat
    BY <2>3
  <2> QED  BY <2>2, <2>4
<1>5. left \in Int
  BY <1>1
<1> HIDE DEF left
<1>6. most \in {MinResult, left}
  BY <1>1, <1>5 DEF Max
<1> HIDE DEF most
<1>7. Min({MaxResult, most}) \in {MaxResult, most} /\ Min({MaxResult, most}) <= most
  <2>1. MaxResult \in Int /\ most \in Int
    BY <1>1, <1>5, <1>6
  <2> QED  BY <2>1, LeastOfTwo
<1>8. L[i] <= most
  <2>1. most \in Int /\ Min({MaxResult, most}) \in Int
    BY <1>1, <1>5, <1>6, <1>7
  <2> QED  BY <1>4, <1>7, <2>1
<1>9. L[i] <= MinResult \/ L[i] <= left
  BY <1>6, <1>8
<1> QED  BY <1>1, <1>4, <1>9 DEF left

----------------------------------------------------------------------------
(* What is kept of a list.                                                 *)

\* Every result in h follows the call it answers in one group.
Closed(h) == \A m \in h : IsResult(m) => \E c \in h : Owns(h, c, m)

\* The two bounds and the discarding only remove messages.
LEMMA KeptAreOld ==
    ASSUME NEW h
    PROVE  Trimmed(h) \subseteq h /\ Window(h) \subseteq h
BY DEF Trimmed, Window, Ends, From

\* Any union of whole groups' ends is closed when the list is: a call whose result
\* is kept lies in the same end, since otherwise the head of that end would belong
\* to the call's group.
LEMMA EndsAreClosed ==
    ASSUME NEW h \in SUBSET Message, Closed(h),
           NEW E \in SUBSET Ends(h)
    PROVE  Closed(UNION E)
<1> SUFFICES ASSUME NEW m \in UNION E, IsResult(m)
             PROVE  \E c \in UNION E : Owns(UNION E, c, m)
  BY DEF Closed
<1>1. PICK x \in Heads(h) : m \in From(h, x) /\ From(h, x) \in E
  BY DEF Ends
<1>2. m \in h /\ x \in h /\ m.no >= x.no
  BY <1>1 DEF From, Heads
<1>3. PICK c \in h : Owns(h, c, m)
  BY <1>2 DEF Closed
<1>4. c.no \in Nat /\ m.no \in Nat /\ x.no \in Nat /\ \A k \in h : k.no \in Nat
  BY <1>2, <1>3 DEF Message
<1>5. c.no >= x.no
  <2>1. SUFFICES ASSUME c.no < x.no PROVE FALSE
    BY <1>4
  <2>2. Owns(h, c, x)
    BY <1>2, <1>3, <1>4, <2>1 DEF Owns
  <2> QED BY <1>1, <1>3, <2>2 DEF Heads
<1>6. c \in UNION E
  BY <1>1, <1>3, <1>5 DEF From
<1>7. UNION E \subseteq h
  BY DEF Ends, From
<1>8. Owns(UNION E, c, m)
  BY <1>3, <1>7 DEF Owns
<1> QED BY <1>6, <1>8

\* Neither bound leaves a result without its call.
LEMMA BoundsKeepCalls ==
    ASSUME NEW h \in SUBSET Message, Closed(h)
    PROVE  Closed(Trimmed(h)) /\ Closed(Window(h))
<1>1. {e \in Ends(h) : Cardinality(e) <= MaxMessages} \subseteq Ends(h)
  OBVIOUS
<1>2. {e \in Ends(h) : Characters(e) <= Room} \subseteq Ends(h)
  OBVIOUS
<1>3. Closed(Trimmed(h))
  BY <1>1, EndsAreClosed DEF Trimmed
<1>4. Closed(Window(h))
  BY <1>2, EndsAreClosed DEF Window
<1> QED BY <1>3, <1>4

\* A message that is appended with the highest number, and is not a result, stays.
LEMMA LastStays ==
    ASSUME NEW h \in SUBSET Message, NEW m \in Message,
           ~IsResult(m), \A k \in h : k.no < m.no
    PROVE  m \in Trimmed(h \cup {m})
<1> DEFINE g == h \cup {m}
<1>1. m \in Heads(g)
  BY DEF Heads, Owns, Message
<1>2. From(g, m) = {m}
  BY DEF From, Message
<1>3. Cardinality({m}) = 1
  BY FS_Singleton
<1>4. 1 <= MaxMessages
  BY ConversationConstants
<1> QED BY <1>1, <1>2, <1>3, <1>4 DEF Trimmed, Ends

----------------------------------------------------------------------------
(* Types.                                                                  *)

\* What is said is a message, with calls or with an id as well.
LEMMA SaidIsMessage ==
    ASSUME NEW n \in Nat, NEW role \in {"user", "assistant", "tool"},
           NEW t \in Turns, NEW length \in Nat
    PROVE  /\ Said(n, role, t, length) \in Message
           /\ Said(n, role, t, length).calls = {}
           /\ \A s \in SUBSET CallIds :
                 [Said(n, role, t, length) EXCEPT !.calls = s] \in Message
           /\ \A i \in CallIds : [Said(n, role, t, length) EXCEPT !.id = i] \in Message
BY DEF Said, Message

\* A turn is under way unless the stage is idle; the calls come from the model.
TurnInv ==
    /\ stage # "idle" => turn \in Turns
    /\ stage \in {"acting", "following"} => calls # <<>>

\* The calls of an answer, and their ids.
LEMMA CallsAreIds ==
    ASSUME ConversationTypeOK
    PROVE  /\ calls \in Seq(CallIds) /\ Len(calls) \in Nat
           /\ Range(calls) \subseteq CallIds
           /\ \A i \in 1 .. Len(calls) : calls[i] \in CallIds /\ calls[i] \in Range(calls)
           /\ calls # <<>> => Range(calls) # {}
<1>1. calls \in Seq(CallIds)
  <2>1. calls \in Answers \/ calls = <<>>
    BY DEF ConversationTypeOK
  <2>2. <<>> \in Seq(CallIds)
    OBVIOUS
  <2> QED BY <2>1, <2>2, ConversationConstants
<1>2. DOMAIN calls = 1 .. Len(calls) /\ Len(calls) \in Nat
  BY <1>1
<1>3. \A i \in 1 .. Len(calls) : calls[i] \in CallIds
  BY <1>1
<1>4. calls # <<>> => 1 \in 1 .. Len(calls)
  BY <1>1, <1>2
<1> QED BY <1>1, <1>2, <1>3, <1>4 DEF Range

\* The results that execute_requests returns, or "skipped", are messages of their
\* turn numbered from the next number on, and answer one of the calls each.
LEMMA ResultsAreMessages ==
    ASSUME ConversationTypeOK, turn \in Turns,
           NEW n \in 1 .. Len(calls), NEW lengths \in [1 .. n -> Lengths]
    PROVE  \A m \in Results(n, lengths) :
              /\ m \in Message
              /\ IsResult(m) /\ ~IsCall(m) /\ m.turn = turn /\ m.id \in Range(calls)
              /\ m.no >= fresh /\ m.no < fresh + Len(calls)
<1> USE ConversationConstants
<1> TAKE m \in Results(n, lengths)
<1>1. PICK i \in 1 .. Len(calls) :
         m = [Said(fresh + i - 1, "tool", turn, IF i <= n THEN lengths[i] ELSE Skipped)
                EXCEPT !.id = calls[i]]
  BY DEF Results
<1>2. Len(calls) \in Nat /\ calls[i] \in CallIds /\ calls[i] \in Range(calls)
  BY CallsAreIds
<1>3. fresh + i - 1 \in Nat /\ fresh + i - 1 >= fresh /\ fresh + i - 1 < fresh + Len(calls)
  BY <1>2 DEF ConversationTypeOK
<1>4. (IF i <= n THEN lengths[i] ELSE Skipped) \in Nat
  <2>1. CASE i <= n
    <3>1. i \in 1 .. n
      BY <1>2, <2>1
    <3>2. lengths[i] \in Lengths
      BY <3>1
    <3> QED BY <2>1, <3>2
  <2>2. CASE ~(i <= n)
    BY <2>2
  <2> QED BY <2>1, <2>2
<1> HIDE ConversationConstants
<1>5. m \in Message
  BY <1>1, <1>2, <1>3, <1>4, SaidIsMessage
<1>6. m.role = "tool" /\ m.turn = turn /\ m.id = calls[i] /\ m.no = fresh + i - 1 /\ m.calls = {}
  BY <1>1 DEF Said
<1> QED BY <1>2, <1>3, <1>5, <1>6 DEF IsResult, IsCall

\* The state has its types: every request and every kept message is well formed,
\* and a turn that carries out calls has some.
THEOREM ConversationTypeCorrect == ConversationSpec => [](ConversationTypeOK /\ TurnInv)
<1>1. ConversationInit => ConversationTypeOK /\ TurnInv
  BY ConversationConstants
     DEF ConversationInit, ConversationTypeOK, TurnInv, Stages, Request, Turns
<1>2. ConversationTypeOK /\ TurnInv /\ [ConversationNext]_conversationVars
      => ConversationTypeOK' /\ TurnInv'
  <2> SUFFICES ASSUME ConversationTypeOK, TurnInv, [ConversationNext]_conversationVars
               PROVE  ConversationTypeOK' /\ TurnInv'
    OBVIOUS
  <2> USE ConversationConstants
  <2>0. \A h \in SUBSET Message :
           Trimmed(h) \in SUBSET Message /\ Window(h) \in SUBSET Message
    BY KeptAreOld
  <2>1. CASE Ask
    <3>1. PICK length \in Lengths :
             history' = Trimmed(history \cup {Said(fresh, "user", turn + 1, length)})
      BY <2>1 DEF Ask
    <3>2. turn' \in Turns /\ fresh' \in Nat /\ turn' = turn + 1
      BY <2>1 DEF Ask, ConversationTypeOK, Turns
    <3>3. Said(fresh, "user", turn + 1, length) \in Message
      BY <3>2, SaidIsMessage DEF ConversationTypeOK
    <3>4. history' \subseteq Message
      BY <2>0, <3>1, <3>3 DEF ConversationTypeOK
    <3>5. sent' \in Request
      BY <2>0, <2>1, <3>4 DEF Ask, Request
    <3>6. stage' = "selecting" /\ UNCHANGED <<calls, wordy, interrupted>>
      BY <2>1 DEF Ask
    <3> QED BY <3>2, <3>4, <3>5, <3>6 DEF ConversationTypeOK, TurnInv, Stages, Turns
  <2>2. CASE NoAnswer
    BY <2>2 DEF NoAnswer, ConversationTypeOK, TurnInv, Stages
  <2>3. CASE Answer
    BY <2>3 DEF Answer, ConversationTypeOK, TurnInv, Stages
  <2>4. CASE Conclude
    <3>1. PICK length \in Lengths :
             history' = Trimmed(history \cup {Said(fresh, "assistant", turn, length)})
      BY <2>4 DEF Conclude
    <3>2. turn \in Turns
      BY <2>4 DEF Conclude, TurnInv
    <3>3. Said(fresh, "assistant", turn, length) \in Message
      BY <3>2, SaidIsMessage DEF ConversationTypeOK
    <3>4. history' \subseteq Message
      BY <2>0, <3>1, <3>3 DEF ConversationTypeOK
    <3>5. /\ stage' = "idle" /\ fresh' = fresh + 1
          /\ UNCHANGED <<turn, calls, wordy, sent, interrupted>>
      BY <2>4 DEF Conclude
    <3> QED BY <3>4, <3>5 DEF ConversationTypeOK, TurnInv, Stages
  <2>5. CASE Act
    <3>1. turn \in Turns /\ calls # <<>>
      BY <2>5 DEF Act, TurnInv, Feasible
    <3>2. [Said(fresh, "assistant", turn, wordy) EXCEPT !.calls = Range(calls)] \in Message
      BY <3>1, SaidIsMessage, CallsAreIds DEF ConversationTypeOK
    <3>3. history' \subseteq Message
      BY <2>0, <2>5, <3>2 DEF Act, ConversationTypeOK
    <3>4. /\ stage' = "acting" /\ fresh' = fresh + 1
          /\ UNCHANGED <<turn, calls, wordy, sent, interrupted>>
      BY <2>5 DEF Act
    <3> QED BY <3>1, <3>3, <3>4 DEF ConversationTypeOK, TurnInv, Stages
  <2>6. CASE Report
    <3>1. PICK n \in 1 .. Len(calls) : \E lengths \in [1 .. n -> Lengths] :
             history' = Trimmed(history \cup Results(n, lengths))
      BY <2>6 DEF Report
    <3>2. PICK lengths \in [1 .. n -> Lengths] :
             history' = Trimmed(history \cup Results(n, lengths))
      BY <3>1
    <3>3. turn \in Turns /\ calls # <<>> /\ Len(calls) \in Nat
      BY <2>6, CallsAreIds DEF Report, TurnInv
    <3>4. Results(n, lengths) \subseteq Message
      BY <3>1, <3>2, <3>3, ResultsAreMessages
    <3>5. history' \subseteq Message
      BY <2>0, <3>2, <3>4 DEF ConversationTypeOK
    <3>6. sent' \in Request
      BY <2>0, <2>6, <3>5 DEF Report, Request
    <3>7. /\ stage' = "following" /\ fresh' = fresh + Len(calls)
          /\ UNCHANGED <<turn, calls, wordy, interrupted>>
      BY <2>6 DEF Report
    <3> QED BY <3>3, <3>5, <3>6, <3>7 DEF ConversationTypeOK, TurnInv, Stages
  <2>7. CASE Summarise
    <3>1. PICK length \in Lengths :
             history' = Trimmed(Discarded(history, Range(calls))
                                   \cup {Said(fresh, "assistant", turn, length)})
      BY <2>7 DEF Summarise
    <3>2. turn \in Turns
      BY <2>7 DEF Summarise, TurnInv
    <3>3. Said(fresh, "assistant", turn, length) \in Message
      BY <3>2, SaidIsMessage DEF ConversationTypeOK
    <3>4. history' \subseteq Message
      BY <2>0, <3>1, <3>3 DEF ConversationTypeOK, Discarded
    <3>5. /\ stage' = "idle" /\ fresh' = fresh + 1
          /\ UNCHANGED <<turn, calls, wordy, sent, interrupted>>
      BY <2>7 DEF Summarise
    <3> QED BY <3>4, <3>5 DEF ConversationTypeOK, TurnInv, Stages
  <2>8. CASE Interrupt
    <3>1. history' \subseteq history
      BY <2>8 DEF Interrupt, Discarded
    <3>2. interrupted' \subseteq Turns
      BY <2>8 DEF Interrupt, ConversationTypeOK, TurnInv
    <3> QED BY <2>8, <3>1, <3>2 DEF Interrupt, ConversationTypeOK, TurnInv, Stages
  <2>9. CASE UNCHANGED conversationVars
    BY <2>9 DEF conversationVars, ConversationTypeOK, TurnInv
  <2> QED BY <2>1, <2>2, <2>3, <2>4, <2>5, <2>6, <2>7, <2>8, <2>9 DEF ConversationNext
<1> QED BY <1>1, <1>2, PTL DEF ConversationSpec

----------------------------------------------------------------------------
(* Exchanges are forgotten, and results keep their calls.                  *)

\* Numbers are given in order.
Numbered == \A m \in history : m.no < fresh

\* Results are there only while the model sums them up, and answer its calls.
ResultsAreCurrent ==
    \A m \in history : IsResult(m) => stage = "following" /\ m.id \in Range(calls)

\* Calls are the current ones or were interrupted.
CallsAreCurrent ==
    \A m \in history : IsCall(m) =>
        /\ m.role = "assistant"
        /\ \/ m.turn \in interrupted
           \/ stage \in {"acting", "following"} /\ m.turn = turn /\ m.calls = Range(calls)

\* While calls are carried out, they are the last message, and not too many.
CallsAreLast ==
    stage = "acting" =>
        /\ Len(calls) <= MaxActions
        /\ \E c \in history :
              /\ IsCall(c) /\ c.role = "assistant" /\ c.calls = Range(calls)
              /\ c.turn = turn /\ c.length = wordy
              /\ \A m \in history : m = c \/ m.no < c.no

HistoryInv ==
    /\ Numbered /\ ResultsAreCurrent /\ CallsAreCurrent /\ CallsAreLast
    /\ Closed(history)
    /\ ExchangesForgotten /\ ResultsHaveCalls

\* A list without results is closed, and so is any part of it.
LEMMA NoResultsClosed ==
    ASSUME NEW h, \A m \in h : ~IsResult(m)
    PROVE  Closed(h)
BY DEF Closed

THEOREM HistoryInvariant == ConversationSpec => []HistoryInv
<1>1. ConversationInit => HistoryInv
  BY DEF ConversationInit, HistoryInv, Numbered, ResultsAreCurrent, CallsAreCurrent,
         CallsAreLast, Closed, ExchangesForgotten, ResultsHaveCalls
<1>2. /\ ConversationTypeOK /\ TurnInv /\ ConversationTypeOK'
      /\ HistoryInv /\ [ConversationNext]_conversationVars
      => HistoryInv'
  <2> SUFFICES ASSUME ConversationTypeOK, TurnInv, ConversationTypeOK',
                      HistoryInv, [ConversationNext]_conversationVars
               PROVE  HistoryInv'
    OBVIOUS
  <2>0. /\ \A h : Trimmed(h) \subseteq h /\ Window(h) \subseteq h
        /\ \A m \in history : m.no \in Nat
        /\ fresh \in Nat
    BY KeptAreOld DEF ConversationTypeOK, Message
  \* The steps that leave the list and the last request alone.
  <2>1. ASSUME UNCHANGED <<history, fresh, sent, interrupted>>,
               stage \notin {"acting", "following"}, stage' # "acting"
        PROVE  HistoryInv'
    BY <2>1 DEF HistoryInv, Numbered, ResultsAreCurrent, CallsAreCurrent, CallsAreLast,
                Closed, ExchangesForgotten, ResultsHaveCalls
  \* The steps that append one message without calls where there are no results.
  <2>2. ASSUME NEW old \in SUBSET history, NEW m,
               \A k \in old : ~IsResult(k) /\ (IsCall(k) => k.turn \in interrupted),
               m.no = fresh, ~IsResult(m), ~IsCall(m),
               history' = Trimmed(old \cup {m}), fresh' = fresh + 1,
               interrupted' = interrupted, stage' # "acting"
        PROVE  /\ Numbered' /\ ResultsAreCurrent' /\ CallsAreCurrent' /\ CallsAreLast'
               /\ Closed(history)'
               /\ \A k \in history' : ~IsResult(k) /\ (IsCall(k) => k.turn \in interrupted')
    <3>1. history' \subseteq old \cup {m}
      BY <2>0, <2>2
    <3>2. \A k \in history' : ~IsResult(k) /\ (IsCall(k) => k.turn \in interrupted')
      BY <2>2, <3>1
    <3>3. Numbered'
      BY <2>0, <2>2, <3>1 DEF HistoryInv, Numbered
    <3>4. ResultsAreCurrent'
      BY <3>2 DEF ResultsAreCurrent
    <3>5. CallsAreCurrent'
      BY <2>2, <3>1 DEF HistoryInv, CallsAreCurrent
    <3>6. CallsAreLast'
      BY <2>2 DEF CallsAreLast
    <3>7. Closed(history')
      BY <3>2, NoResultsClosed
    <3> QED BY <3>2, <3>3, <3>4, <3>5, <3>6, <3>7
  <2>3. CASE Ask
    <3>1. PICK length \in Lengths :
             history' = Trimmed(history \cup {Said(fresh, "user", turn + 1, length)})
      BY <2>3 DEF Ask
    <3>2. \A k \in history : ~IsResult(k) /\ (IsCall(k) => k.turn \in interrupted)
      BY <2>3 DEF Ask, HistoryInv, ResultsAreCurrent, CallsAreCurrent
    <3>3. LET m == Said(fresh, "user", turn + 1, length)
          IN  m.no = fresh /\ ~IsResult(m) /\ ~IsCall(m)
      BY DEF Said, IsResult, IsCall
    <3>4. /\ fresh' = fresh + 1 /\ interrupted' = interrupted /\ stage' = "selecting"
          /\ sent' = [tools |-> TRUE, messages |-> Window(history')]
      BY <2>3 DEF Ask
    <3>5. /\ Numbered' /\ ResultsAreCurrent' /\ CallsAreCurrent' /\ CallsAreLast'
          /\ Closed(history)'
          /\ \A k \in history' : ~IsResult(k) /\ (IsCall(k) => k.turn \in interrupted')
      BY <2>2, <3>1, <3>2, <3>3, <3>4
    <3>6. sent'.messages \subseteq history'
      BY <2>0, <3>4
    <3>7. ExchangesForgotten' /\ ResultsHaveCalls'
      BY <3>5, <3>6 DEF ExchangesForgotten, ResultsHaveCalls
    <3> QED BY <3>5, <3>7 DEF HistoryInv
  <2>4. CASE NoAnswer
    BY <2>1, <2>4 DEF NoAnswer
  <2>5. CASE Answer
    BY <2>1, <2>5 DEF Answer
  <2>6. CASE Conclude
    <3>1. PICK length \in Lengths :
             history' = Trimmed(history \cup {Said(fresh, "assistant", turn, length)})
      BY <2>6 DEF Conclude
    <3>2. \A k \in history : ~IsResult(k) /\ (IsCall(k) => k.turn \in interrupted)
      BY <2>6 DEF Conclude, HistoryInv, ResultsAreCurrent, CallsAreCurrent
    <3>3. LET m == Said(fresh, "assistant", turn, length)
          IN  m.no = fresh /\ ~IsResult(m) /\ ~IsCall(m)
      BY DEF Said, IsResult, IsCall
    <3>4. /\ fresh' = fresh + 1 /\ interrupted' = interrupted /\ stage' = "idle"
          /\ sent' = sent
      BY <2>6 DEF Conclude
    <3>5. /\ Numbered' /\ ResultsAreCurrent' /\ CallsAreCurrent' /\ CallsAreLast'
          /\ Closed(history)'
      BY <2>2, <3>1, <3>2, <3>3, <3>4
    <3>6. ExchangesForgotten' /\ ResultsHaveCalls'
      BY <3>4 DEF HistoryInv, ExchangesForgotten, ResultsHaveCalls
    <3> QED BY <3>5, <3>6 DEF HistoryInv
  <2>7. CASE Act
    <3> DEFINE c == [Said(fresh, "assistant", turn, wordy) EXCEPT !.calls = Range(calls)]
    <3>1. turn \in Turns /\ calls # <<>>
      BY <2>7 DEF Act, TurnInv, Feasible
    <3>2. c \in Message
      BY <3>1, SaidIsMessage, CallsAreIds DEF ConversationTypeOK
    <3>3. /\ c.no = fresh /\ c.role = "assistant" /\ c.turn = turn
          /\ c.calls = Range(calls) /\ ~IsResult(c) /\ IsCall(c) /\ c.length = wordy
      BY <3>1, CallsAreIds DEF Said, IsResult, IsCall
    <3>4. /\ history' = Trimmed(history \cup {c}) /\ fresh' = fresh + 1
          /\ stage = "answered" /\ stage' = "acting" /\ Len(calls) <= MaxActions
          /\ UNCHANGED <<turn, calls, wordy, sent, interrupted>>
      BY <2>7 DEF Act, Feasible
    <3> HIDE DEF c
    <3>5. \A k \in history : k.no < c.no
      BY <3>3 DEF HistoryInv, Numbered
    <3>6. c \in history'
      BY <3>2, <3>3, <3>4, <3>5, LastStays DEF ConversationTypeOK
    <3>7. history' \subseteq history \cup {c}
      BY <2>0, <3>4
    <3>8. Numbered'
      BY <2>0, <3>3, <3>4, <3>7 DEF HistoryInv, Numbered
    <3>9. \A k \in history' : ~IsResult(k)
      BY <3>3, <3>4, <3>7 DEF HistoryInv, ResultsAreCurrent
    <3>10. CallsAreCurrent'
      BY <3>3, <3>4, <3>7 DEF HistoryInv, CallsAreCurrent
    <3>11. CallsAreLast'
      <4>1. \A m \in history' : m = c \/ m.no < c.no
        BY <3>5, <3>7
      <4> QED BY <3>3, <3>4, <3>6, <4>1 DEF CallsAreLast
    <3>12. Closed(history') /\ ResultsAreCurrent'
      BY <3>9, NoResultsClosed DEF ResultsAreCurrent
    <3>13. ExchangesForgotten' /\ ResultsHaveCalls'
      BY <3>4 DEF HistoryInv, ExchangesForgotten, ResultsHaveCalls
    <3> QED BY <3>8, <3>10, <3>11, <3>12, <3>13 DEF HistoryInv
  <2>8. CASE Report
    <3>1. PICK n \in 1 .. Len(calls) : \E lengths \in [1 .. n -> Lengths] :
             history' = Trimmed(history \cup Results(n, lengths))
      BY <2>8 DEF Report
    <3>2. PICK lengths \in [1 .. n -> Lengths] :
             history' = Trimmed(history \cup Results(n, lengths))
      BY <3>1
    <3> DEFINE R == Results(n, lengths)
    <3>3. turn \in Turns /\ calls # <<>> /\ Len(calls) \in Nat
      BY <2>8, CallsAreIds DEF Report, TurnInv
    <3>4. \A m \in R : /\ m \in Message /\ IsResult(m) /\ ~IsCall(m)
                       /\ m.id \in Range(calls)
                       /\ m.no >= fresh /\ m.no < fresh + Len(calls)
      BY <3>1, <3>2, <3>3, ResultsAreMessages
    <3> HIDE DEF R
    <3>5. /\ history' = Trimmed(history \cup R) /\ fresh' = fresh + Len(calls)
          /\ stage = "acting" /\ stage' = "following"
          /\ UNCHANGED <<turn, calls, wordy, interrupted>>
          /\ sent' = [tools |-> FALSE, messages |-> Window(history')]
      BY <2>8, <3>2 DEF Report, R
    <3>6. history' \subseteq history \cup R
      BY <2>0, <3>5
    <3>7. Numbered'
      <4> SUFFICES ASSUME NEW m \in history' PROVE m.no < fresh'
        BY DEF Numbered
      <4>1. CASE m \in history
        BY <2>0, <3>3, <3>5, <4>1 DEF HistoryInv, Numbered
      <4>2. CASE m \in R
        BY <3>4, <3>5, <4>2
      <4> QED BY <3>6, <4>1, <4>2
    <3>8. ResultsAreCurrent'
      BY <3>4, <3>5, <3>6 DEF HistoryInv, ResultsAreCurrent
    <3>9. CallsAreCurrent'
      BY <3>4, <3>5, <3>6 DEF HistoryInv, CallsAreCurrent
    <3>10. CallsAreLast'
      BY <3>5 DEF CallsAreLast
    <3>11. Closed(history \cup R)
      <4>1. PICK c \in history :
               /\ IsCall(c) /\ c.calls = Range(calls)
               /\ \A m \in history : m = c \/ m.no < c.no
        BY <3>5 DEF HistoryInv, CallsAreLast
      <4>2. ASSUME NEW m \in R PROVE Owns(history \cup R, c, m)
        <5>1. c.no < m.no
          BY <2>0, <3>4, <4>1, <4>2 DEF HistoryInv, Numbered, Message
        <5>2. \A k \in history \cup R : c.no < k.no => k \in R
          BY <2>0, <4>1
        <5> QED BY <3>4, <4>1, <5>1, <5>2 DEF Owns
      <4>3. \A m \in history : ~IsResult(m)
        BY <3>5 DEF HistoryInv, ResultsAreCurrent
      <4> QED BY <4>1, <4>2, <4>3 DEF Closed
    <3>12. history \cup R \in SUBSET Message
      BY <3>4 DEF ConversationTypeOK
    <3>13. Closed(history')
      BY <3>5, <3>11, <3>12, BoundsKeepCalls
    <3>14. history' \in SUBSET Message
      BY <2>0, <3>5, <3>12
    <3>15. Closed(sent'.messages)
      BY <3>5, <3>13, <3>14, BoundsKeepCalls
    <3>16. ExchangesForgotten' /\ ResultsHaveCalls'
      BY <3>5, <3>15 DEF ExchangesForgotten, ResultsHaveCalls, Closed
    <3> QED BY <3>7, <3>8, <3>9, <3>10, <3>13, <3>16 DEF HistoryInv
  \* Discarding leaves interrupted calls only.
  <2>9. ASSUME stage = "following"
        PROVE  \A k \in Discarded(history, Range(calls)) :
                  k \in history /\ ~IsResult(k) /\ (IsCall(k) => k.turn \in interrupted)
    <3>1. Range(calls) # {}
      BY <2>9, CallsAreIds DEF TurnInv
    <3> QED BY <3>1 DEF Discarded, HistoryInv, ResultsAreCurrent, CallsAreCurrent
  <2>10. CASE Summarise
    <3>1. PICK length \in Lengths :
             history' = Trimmed(Discarded(history, Range(calls))
                                   \cup {Said(fresh, "assistant", turn, length)})
      BY <2>10 DEF Summarise
    <3>2. LET m == Said(fresh, "assistant", turn, length)
          IN  m.no = fresh /\ ~IsResult(m) /\ ~IsCall(m)
      BY DEF Said, IsResult, IsCall
    <3>3. /\ fresh' = fresh + 1 /\ interrupted' = interrupted /\ stage' = "idle"
          /\ sent' = sent /\ stage = "following"
      BY <2>10 DEF Summarise
    <3>4. /\ Numbered' /\ ResultsAreCurrent' /\ CallsAreCurrent' /\ CallsAreLast'
          /\ Closed(history)'
      BY <2>2, <2>9, <3>1, <3>2, <3>3
    <3>5. ExchangesForgotten' /\ ResultsHaveCalls'
      BY <3>3 DEF HistoryInv, ExchangesForgotten, ResultsHaveCalls
    <3> QED BY <3>4, <3>5 DEF HistoryInv
  <2>11. CASE Interrupt
    <3>1. /\ stage' = "idle" /\ UNCHANGED <<fresh, turn, calls, sent>>
          /\ interrupted \subseteq interrupted'
      BY <2>11 DEF Interrupt
    <3>2. \A k \in history' : /\ k \in history /\ ~IsResult(k)
                              /\ IsCall(k) => k.turn \in interrupted'
      <4>1. CASE stage = "following"
        BY <2>9, <2>11, <3>1, <4>1 DEF Interrupt
      <4>2. CASE stage # "following"
        BY <2>11, <4>2 DEF Interrupt, HistoryInv, ResultsAreCurrent, CallsAreCurrent
      <4> QED BY <4>1, <4>2
    <3>3. Numbered' /\ ResultsAreCurrent' /\ CallsAreCurrent' /\ CallsAreLast'
      BY <3>1, <3>2
         DEF HistoryInv, Numbered, ResultsAreCurrent, CallsAreCurrent, CallsAreLast
    <3>4. Closed(history')
      BY <3>2, NoResultsClosed
    <3>5. ExchangesForgotten' /\ ResultsHaveCalls'
      BY <3>1 DEF HistoryInv, ExchangesForgotten, ResultsHaveCalls
    <3> QED BY <3>3, <3>4, <3>5 DEF HistoryInv
  <2>12. CASE UNCHANGED conversationVars
    BY <2>12 DEF conversationVars, HistoryInv, Numbered, ResultsAreCurrent,
                 CallsAreCurrent, CallsAreLast, Closed, ExchangesForgotten, ResultsHaveCalls
  <2> QED BY <2>3, <2>4, <2>5, <2>6, <2>7, <2>8, <2>10, <2>11, <2>12 DEF ConversationNext
<1> QED BY <1>1, <1>2, ConversationTypeCorrect, PTL DEF ConversationSpec

\* Whatever bounds the history has and however turns end, a request that chooses
\* tools contains no result, and no calls but those of interrupted turns.
THEOREM ExchangesAreForgotten == ConversationSpec => []ExchangesForgotten
<1>1. HistoryInv => ExchangesForgotten
  BY DEF HistoryInv
<1> QED BY <1>1, HistoryInvariant, PTL

\* No request ever contains a result without the call it answers.
THEOREM ResultsKeepTheirCalls == ConversationSpec => []ResultsHaveCalls
<1>1. HistoryInv => ResultsHaveCalls
  BY DEF HistoryInv
<1> QED BY <1>1, HistoryInvariant, PTL

----------------------------------------------------------------------------
(* Requests are complete.                                                  *)

\* The end of the list from a message on that is not a result is sent whole when it
\* fits in both bounds.
LEMMA EndIsSent ==
    ASSUME NEW h \in SUBSET Message, NEW c \in h, ~IsResult(c),
           Cardinality(From(h, c)) <= MaxMessages, Characters(From(h, c)) <= Room
    PROVE  From(h, c) \subseteq Window(Trimmed(h))
<1> DEFINE g == From(h, c)
           kept == Trimmed(h)
<1>1. \A k \in h : k.no \in Nat
  BY DEF Message
<1>2. \A list \in SUBSET h : c \in list => c \in Heads(list)
  BY <1>1 DEF Heads, Owns
<1>3. g \in Ends(h)
  BY <1>2 DEF Ends
<1>4. g \subseteq kept
  BY <1>3 DEF Trimmed
<1>5. kept \subseteq h
  BY KeptAreOld
<1>6. c \in g
  BY <1>1 DEF From
<1>7. From(kept, c) = g
  BY <1>4, <1>5 DEF From
<1> HIDE DEF kept
<1>8. g \in Ends(kept)
  BY <1>2, <1>4, <1>5, <1>6, <1>7 DEF Ends
<1> HIDE DEF g
<1>9. Characters(g) <= Room
  BY DEF g
<1> QED BY <1>8, <1>9 DEF Window, g, kept

\* A message alone has as many characters as it has.
LEMMA CharactersOfOne ==
    ASSUME NEW m \in Message
    PROVE  Characters({m}) = m.length
<1> DEFINE F == [k \in {m} |-> k.length]
<1>1. F[m] = m.length /\ m.length \in Nat /\ \A k \in {m} : F[k] = k.length
  BY DEF Message
<1>2. IsFiniteSet({m}) /\ m \in {m} /\ {m} \ {m} = {} /\ \A k \in {m} : F[k] \in Nat
  BY <1>1, FS_Singleton
<1> HIDE DEF F
<1>3. Characters({m}) = Total(F, {m})
  BY <1>1, <1>2, CharactersAreTotal
<1>4. Total(F, {m}) = F[m] + Total(F, {m} \ {m})
  BY <1>2, TotalWithout
<1>5. Total(F, {m} \ {m}) = 0
  BY <1>2, TotalOfNone
<1> QED BY <1>1, <1>3, <1>4, <1>5

\* A command that is appended is the last message of what is sent.
LEMMA CommandIsSent ==
    ASSUME NEW h \in SUBSET Message, NEW m \in Message, ~IsResult(m),
           \A k \in h : k.no < m.no, m.length <= MaxCommand
    PROVE  /\ m \in Window(Trimmed(h \cup {m}))
           /\ \A k \in Window(Trimmed(h \cup {m})) : k.no <= m.no
<1> DEFINE g == h \cup {m}
<1>1. \A k \in g : k.no \in Nat
  BY DEF Message
<1>2. From(g, m) = {m}
  BY <1>1 DEF From
<1>3. Cardinality({m}) <= MaxMessages
  <2>1. Cardinality({m}) = 1
    BY FS_Singleton
  <2>2. 1 <= MaxMessages
    BY ConversationConstants
  <2> QED BY <2>1, <2>2
<1>4. Characters({m}) <= Room
  BY CharactersOfOne, ConversationConstants DEF Message
<1>5. g \in SUBSET Message /\ m \in g
  OBVIOUS
<1>6. Window(Trimmed(g)) \subseteq g
  BY KeptAreOld
<1>7. \A k \in g : k.no <= m.no
  BY <1>1
<1> HIDE DEF g
<1>8. {m} \subseteq Window(Trimmed(g))
  BY <1>2, <1>3, <1>4, <1>5, EndIsSent
<1> QED BY <1>6, <1>7, <1>8 DEF g

\* The result of the i-th call.
ResultAt(n, lengths, i) ==
    [Said(fresh + i - 1, "tool", turn, IF i <= n THEN lengths[i] ELSE Skipped)
       EXCEPT !.id = calls[i]]

\* A turn's results are as many as its calls, and their characters stay within the
\* budget and what each may have in any case.
LEMMA ResultsFit ==
    ASSUME ConversationTypeOK, turn \in Turns,
           NEW n \in 1 .. Len(calls), NEW lengths \in [1 .. n -> Lengths],
           \A i \in 1 .. n : WithinBudget(lengths, i),
           NEW F, \A m \in Results(n, lengths) : F[m] = m.length
    PROVE  /\ IsFiniteSet(Results(n, lengths))
           /\ Cardinality(Results(n, lengths)) <= Len(calls)
           /\ Cardinality(Results(n, lengths)) \in Nat
           /\ Total(F, Results(n, lengths)) \in Nat
           /\ Total(F, Results(n, lengths)) <= MaxResults + Len(calls) * MinResult
<1> DEFINE N == Len(calls)
           r == [i \in 1 .. N |-> ResultAt(n, lengths, i)]
           L == [i \in 1 .. N |-> IF i <= n THEN lengths[i] ELSE Skipped]
<1>1. N \in Nat /\ n \in Nat /\ n <= N
  BY CallsAreIds
<1>2. Skipped \in Nat /\ Skipped <= MinResult /\ \A l \in Lengths : l \in Nat
  BY ConversationConstants
<1>3. \A i \in 1 .. N : L[i] \in Nat
  <2> TAKE i \in 1 .. N
  <2>1. CASE i <= n
    <3>1. i \in 1 .. n
      BY <1>1, <2>1
    <3> QED BY <1>2, <2>1, <3>1
  <2>2. CASE ~(i <= n)
    BY <1>2, <2>2
  <2> QED BY <2>1, <2>2
<1>4. {r[i] : i \in 1 .. N} = Results(n, lengths)
  BY DEF Results, ResultAt
<1>5. \A i \in 1 .. N : r[i].no = fresh + i - 1 /\ r[i].length = L[i]
  BY DEF ResultAt, Said
<1>6. fresh \in Nat
  BY DEF ConversationTypeOK
<1> HIDE DEF N, r
<1>7. \A i, j \in 1 .. N : r[i] = r[j] => i = j
  BY <1>1, <1>5, <1>6
<1>8. \A i \in 1 .. N : L[i] \in Nat /\ F[r[i]] = L[i]
  BY <1>3, <1>4, <1>5
<1>9. \A i \in 1 .. n : L[i] = lengths[i]
  BY <1>1
<1> HIDE DEF L
<1>10. \A k \in 0 .. N : Total(L, 1 .. k) \in Nat
  BY <1>1, <1>7, <1>8, NumberedAddUp, ZenonT(40)
<1>11. ASSUME NEW i \in 1 .. N
       PROVE  L[i] <= MinResult \/ L[i] + Total(L, 1 .. i - 1) <= MaxResults
  <2>1. CASE i <= n
    <3>1. \A j \in 1 .. i : L[j] = lengths[j] /\ L[j] \in Nat
      BY <1>1, <1>3, <1>9, <2>1
    <3>2. i \in Nat \ {0} /\ i \in 1 .. n /\ i - 1 \in 0 .. N
      BY <1>1, <2>1
    <3>3. WithinBudget(lengths, i) /\ Total(L, 1 .. i - 1) \in Nat
      BY <1>10, <3>2
    <3> QED BY <3>1, <3>2, <3>3, WithinBudgetMeans
  <2>2. CASE ~(i <= n)
    BY <1>2, <2>2 DEF L
  <2> QED BY <2>1, <2>2
<1>12. N \in 0 .. N
  BY <1>1
<1>13. Total(L, 1 .. N) <= MaxResults + N * MinResult
  <2>1. \A i \in 1 .. N : /\ L[i] \in Nat
                          /\ L[i] <= MinResult \/ L[i] + Total(L, 1 .. i - 1) <= MaxResults
    BY <1>3, <1>11
  <2> QED BY <1>1, <1>12, <2>1, BudgetHolds
<1>14. /\ IsFiniteSet({r[i] : i \in 1 .. N}) /\ Cardinality({r[i] : i \in 1 .. N}) <= N
       /\ Cardinality({r[i] : i \in 1 .. N}) \in Nat
       /\ Total(F, {r[i] : i \in 1 .. N}) = Total(L, 1 .. N) /\ Total(L, 1 .. N) \in Nat
  BY <1>1, <1>7, <1>8, <1>12, NumberedAddUp, ZenonT(40)
<1> QED BY <1>4, <1>13, <1>14 DEF N

\* The calls and all their results are sent together, if the model's own answer
\* leaves the results their room.
LEMMA ReportIsSent ==
    ASSUME ConversationTypeOK, TurnInv, HistoryInv, stage = "acting",
           NEW n \in 1 .. Len(calls), NEW lengths \in [1 .. n -> Lengths],
           \A i \in 1 .. n : WithinBudget(lengths, i),
           wordy + MaxResults + Len(calls) * MinResult <= Room,
           NEW shown, shown = Window(Trimmed(history \cup Results(n, lengths)))
    PROVE  \E c \in shown :
              /\ c.turn = turn /\ c.calls = Range(calls)
              /\ \A id \in c.calls : \E m \in shown : m.id = id /\ Owns(shown, c, m)
<1> DEFINE R == Results(n, lengths)
           h == history \cup R
           F == [m \in Message |-> m.length]
<1>1. turn \in Turns /\ Len(calls) \in Nat /\ Len(calls) <= MaxActions
  BY CallsAreIds DEF TurnInv, HistoryInv, CallsAreLast
<1>2. \A m \in R : /\ m \in Message /\ IsResult(m) /\ ~IsCall(m)
                   /\ m.turn = turn /\ m.id \in Range(calls) /\ m.no >= fresh
  BY <1>1, ResultsAreMessages
<1>3. PICK c \in history :
         /\ IsCall(c) /\ c.role = "assistant" /\ c.calls = Range(calls)
         /\ c.turn = turn /\ c.length = wordy
         /\ \A m \in history : m = c \/ m.no < c.no
  BY DEF HistoryInv, CallsAreLast
<1>4. h \in SUBSET Message /\ c \in h /\ c \in Message /\ ~IsResult(c)
  BY <1>2, <1>3 DEF ConversationTypeOK, IsResult
<1>5. fresh \in Nat /\ c.no < fresh /\ \A m \in h : m.no \in Nat
  BY <1>3, <1>4 DEF HistoryInv, Numbered, ConversationTypeOK, Message
<1>6. \A m \in R : F[m] = m.length /\ F[m] \in Nat
  BY <1>2 DEF Message
<1>7. F[c] = wordy /\ F[c] \in Nat
  BY <1>3, <1>4 DEF Message
<1> HIDE DEF F
<1>8. /\ IsFiniteSet(R) /\ Cardinality(R) <= Len(calls) /\ Cardinality(R) \in Nat
      /\ Total(F, R) \in Nat /\ Total(F, R) <= MaxResults + Len(calls) * MinResult
  BY <1>1, <1>6, ResultsFit
<1>9. \A id \in Range(calls) : \E m \in R : m.id = id
  <2> TAKE id \in Range(calls)
  <2>1. PICK i \in 1 .. Len(calls) : calls[i] = id
    BY CallsAreIds DEF Range
  <2>2. ResultAt(n, lengths, i) \in R
    BY DEF Results, ResultAt
  <2>3. ResultAt(n, lengths, i).id = id
    BY <2>1 DEF ResultAt, Said
  <2> QED BY <2>2, <2>3
<1>10. c \notin R
  BY <1>2, <1>4
<1>11. From(h, c) = R \cup {c}
  BY <1>2, <1>3, <1>5 DEF From
<1>12. Cardinality(R \cup {c}) <= MaxMessages /\ IsFiniteSet(R \cup {c})
  <2> HIDE DEF R
  <2>1. IsFiniteSet(R \cup {c}) /\ Cardinality(R \cup {c}) = Cardinality(R) + 1
    BY <1>8, <1>10, FS_AddElement
  <2> QED BY <1>1, <1>8, <2>1, ConversationConstants
<1>13. Characters(R \cup {c}) <= Room
  <2> DEFINE g == R \cup {c}
  <2>1. \A m \in g : F[m] = m.length /\ F[m] \in Nat
    BY <1>3, <1>6, <1>7
  <2>2. c \in g /\ g \ {c} = R /\ IsFiniteSet(g)
    BY <1>10, <1>12
  <2> HIDE DEF g, R
  <2>3. Characters(g) = Total(F, g)
    BY <2>1, <2>2, CharactersAreTotal
  <2>4. Total(F, g) = F[c] + Total(F, g \ {c})
    BY <2>1, <2>2, TotalWithout
  <2>5. Characters(g) = wordy + Total(F, R)
    BY <1>7, <2>2, <2>3, <2>4
  <2> DEFINE p == Len(calls) * MinResult
  <2>6. p \in Nat /\ wordy + MaxResults + p <= Room /\ Total(F, R) <= MaxResults + p
    BY <1>1, <1>8, ConversationConstants
  <2> HIDE DEF p
  <2>7. Characters(g) <= Room
    BY <1>7, <1>8, <2>5, <2>6, ConversationConstants
  <2> QED BY <2>7 DEF g
<1> HIDE DEF R, h
<1>14. R \cup {c} \subseteq shown
  <2>1. Cardinality(From(h, c)) <= MaxMessages /\ Characters(From(h, c)) <= Room
    BY <1>11, <1>12, <1>13
  <2>2. From(h, c) \subseteq Window(Trimmed(h))
    BY <1>4, <2>1, EndIsSent
  <2> QED BY <1>11, <2>2 DEF h, R
<1>15. shown \subseteq h
  BY KeptAreOld DEF h, R
<1>16. ASSUME NEW m \in R PROVE Owns(shown, c, m)
  <2>1. c.no < m.no
    BY <1>2, <1>5, <1>16 DEF h
  <2>2. ASSUME NEW k \in shown, c.no < k.no PROVE k \in R
    <3>1. k \in h /\ k.no \in Nat /\ c.no \in Nat
      BY <1>4, <1>5, <1>15
    <3>2. k \notin history
      BY <1>3, <2>2, <3>1
    <3> QED BY <3>1, <3>2 DEF h
  <2> QED BY <1>2, <1>3, <2>1, <2>2 DEF Owns
<1> QED BY <1>3, <1>9, <1>14, <1>16

\* Every request can be answered: a result comes with its call, the command is the
\* last message of the request that chooses tools, and in the request for a summary
\* each call has its result, unless the calls themselves leave no room for them.
THEOREM RequestsAreComplete == ConversationSpec => []RequestsComplete
<1> DEFINE Inv == CommandIsLast /\ CallsAreAnswered
<1>1. ConversationInit => Inv
  BY DEF ConversationInit, CommandIsLast, CallsAreAnswered
<1>2. /\ ConversationTypeOK /\ TurnInv /\ HistoryInv
      /\ Inv /\ [ConversationNext]_conversationVars
      => Inv'
  <2> SUFFICES ASSUME ConversationTypeOK, TurnInv, HistoryInv, Inv,
                      [ConversationNext]_conversationVars
               PROVE  Inv'
    OBVIOUS
  <2>1. CASE Ask
    <3>1. PICK length \in Lengths :
             /\ length <= MaxCommand
             /\ history' = Trimmed(history \cup {Said(fresh, "user", turn + 1, length)})
      BY <2>1 DEF Ask
    <3> DEFINE m == Said(fresh, "user", turn + 1, length)
    <3>2. turn + 1 \in Turns /\ fresh \in Nat /\ length \in Nat
      BY <2>1, ConversationConstants DEF Ask, ConversationTypeOK, Turns
    <3>3. m \in Message
      BY <3>2, SaidIsMessage
    <3>4. /\ ~IsResult(m) /\ m.role = "user" /\ m.turn = turn + 1
          /\ m.no = fresh /\ m.length = length
      BY DEF Said, IsResult
    <3>5. /\ sent' = [tools |-> TRUE, messages |-> Window(history')]
          /\ turn' = turn + 1 /\ stage' = "selecting"
          /\ history' = Trimmed(history \cup {m})
      BY <2>1, <3>1 DEF Ask
    <3> HIDE DEF m
    <3>6. /\ history \in SUBSET Message /\ m.length <= MaxCommand
          /\ \A k \in history : k.no < m.no
      BY <3>1, <3>4 DEF HistoryInv, Numbered, ConversationTypeOK
    <3>7. m \in sent'.messages /\ \A k \in sent'.messages : k.no <= m.no
      BY <3>3, <3>4, <3>5, <3>6, CommandIsSent
    <3> QED BY <3>4, <3>5, <3>7 DEF CommandIsLast, CallsAreAnswered
  <2>2. CASE Report
    <3>1. PICK n \in 1 .. Len(calls) : \E lengths \in [1 .. n -> Lengths] :
             /\ \A i \in 1 .. n : WithinBudget(lengths, i)
             /\ history' = Trimmed(history \cup Results(n, lengths))
      BY <2>2 DEF Report
    <3>2. PICK lengths \in [1 .. n -> Lengths] :
             /\ \A i \in 1 .. n : WithinBudget(lengths, i)
             /\ history' = Trimmed(history \cup Results(n, lengths))
      BY <3>1
    <3>3. /\ stage = "acting" /\ stage' = "following"
          /\ UNCHANGED <<turn, calls, wordy, interrupted>>
          /\ sent' = [tools |-> FALSE, messages |-> Window(history')]
      BY <2>2 DEF Report
    <3>4. CommandIsLast'
      BY <3>3 DEF CommandIsLast
    <3>5. CallsAreAnswered'
      <4> SUFFICES ASSUME wordy + MaxResults + Len(calls) * MinResult <= Room
                   PROVE  \E c \in sent'.messages :
                             /\ c.turn = turn /\ c.calls = Range(calls)
                             /\ \A id \in c.calls : \E m \in sent'.messages :
                                   m.id = id /\ Owns(sent'.messages, c, m)
        BY <3>3 DEF CallsAreAnswered
      <4>1. sent'.messages = Window(Trimmed(history \cup Results(n, lengths)))
        BY <3>2, <3>3
      <4>2. \A shown : shown = Window(Trimmed(history \cup Results(n, lengths))) =>
               \E c \in shown :
                  /\ c.turn = turn /\ c.calls = Range(calls)
                  /\ \A id \in c.calls : \E m \in shown : m.id = id /\ Owns(shown, c, m)
        <5>1. \A i \in 1 .. n : WithinBudget(lengths, i)
          BY <3>2
        <5> QED BY <3>3, <5>1, ReportIsSent
      <4> QED BY <4>1, <4>2
    <3> QED BY <3>4, <3>5
  <2>3. ASSUME UNCHANGED <<sent, turn, calls, wordy, stage>> PROVE Inv'
    BY <2>3 DEF CommandIsLast, CallsAreAnswered
  <2>4. ASSUME stage' \notin {"selecting", "following"} PROVE Inv'
    BY <2>4 DEF CommandIsLast, CallsAreAnswered
  <2>5. CASE NoAnswer \/ Answer \/ Conclude \/ Act \/ Summarise \/ Interrupt
    BY <2>4, <2>5 DEF NoAnswer, Answer, Conclude, Act, Summarise, Interrupt
  <2>6. CASE UNCHANGED conversationVars
    BY <2>3, <2>6 DEF conversationVars
  <2> QED BY <2>1, <2>2, <2>5, <2>6 DEF ConversationNext
<1>3. Inv /\ HistoryInv => RequestsComplete
  BY DEF HistoryInv, RequestsComplete
<1> QED
  BY <1>1, <1>2, <1>3, ConversationTypeCorrect, HistoryInvariant, PTL DEF ConversationSpec
=============================================================================
