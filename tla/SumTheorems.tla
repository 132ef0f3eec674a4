------------------------------ MODULE SumTheorems ------------------------------
(***************************************************************************)
(* What the sums of the counting programs' invariants obey.  A sum is the   *)
(* fold SumFunctionOnSet, whose value depends on the order in which CHOOSE     *)
(* takes the elements; the lemmas say that the order does not matter and    *)
(* how a sum changes when one element does.  They are proved by taking a    *)
(* smallest set for which they fail: the order of the finite subsets is     *)
(* well-founded.                                                            *)
(***************************************************************************)
EXTENDS Integers, FiniteSetsExt, FiniteSetTheorems, WellFoundedInduction, TLAPS

\* The element the fold takes first.
first(s) == CHOOSE x \in s : TRUE

\* g gives the sum of f over each subset of U: the recursion of the fold.
IsSum(g, f, U) ==
  g = [s \in SUBSET U |->
         IF s = {} THEN 0
                   ELSE f[CHOOSE x \in s : TRUE] + g[s \ {CHOOSE x \in s : TRUE}]]

\* A nonempty set of subsets of a finite set has a smallest one.
LEMMA SmallestSubset ==
  ASSUME NEW S, IsFiniteSet(S), NEW Bad, Bad \subseteq SUBSET S, Bad # {}
  PROVE  \E U \in Bad : \A V \in Bad : V \subseteq U => V = U
  <1>1. IsWellFoundedOn(StrictSubsetOrdering(S), SUBSET S)
    BY FS_StrictSubsetOrderingWellFounded, FS_FiniteSubsetsOfFinite
  <1>2. PICK U \in Bad : \A V \in Bad : ~(<<V, U>> \in StrictSubsetOrdering(S))
    BY <1>1, WFMin
  <1>3. QED
    BY <1>2 DEF StrictSubsetOrdering

\* The first element of a nonempty set, and what is left without it.
LEMMA FirstElement ==
  ASSUME NEW s, s # {}
  PROVE  first(s) \in s /\ s \ {first(s)} \subseteq s /\ s \ {first(s)} # s
  BY DEF first

\* The recursion, in terms of the first element.
LEMMA SumRec ==
  ASSUME NEW U, NEW f, NEW g, IsSum(g, f, U)
  PROVE  \A s \in SUBSET U :
           g[s] = IF s = {} THEN 0 ELSE f[first(s)] + g[s \ {first(s)}]
  BY DEF IsSum, first

\* Two solutions of the recursion agree wherever both are defined, and so do the
\* solutions for two functions that agree on the set.
LEMMA SumUnique ==
  ASSUME NEW U, IsFiniteSet(U), NEW V, U \subseteq V, NEW W, U \subseteq W,
         NEW e, NEW f, \A x \in U : e[x] = f[x],
         NEW g, IsSum(g, e, V), NEW h, IsSum(h, f, W)
  PROVE  g[U] = h[U]
  <1> DEFINE Bad == {s \in SUBSET U : g[s] # h[s]}
  <1> SUFFICES ASSUME g[U] # h[U] PROVE FALSE
    OBVIOUS
  <1>1. PICK s \in Bad : \A v \in Bad : v \subseteq s => v = s
    <2>1. U \in Bad /\ Bad \subseteq SUBSET U
      OBVIOUS
    <2> HIDE DEF Bad
    <2>2. QED
      BY <2>1, SmallestSubset
  <1>2. s \in SUBSET U /\ s \in SUBSET V /\ s \in SUBSET W /\ g[s] # h[s]
    OBVIOUS
  <1>3. s # {}
    <2>1. ASSUME s = {} PROVE FALSE
      <3>1. g[s] = 0
        BY <1>2, <2>1, SumRec
      <3>2. h[s] = 0
        BY <1>2, <2>1, SumRec
      <3>3. QED
        BY <1>2, <3>1, <3>2
    <2>2. QED
      BY <2>1
  <1> DEFINE t == s \ {first(s)}
  <1>4. first(s) \in s /\ t \in SUBSET U /\ t \subseteq s /\ t # s
    BY <1>2, <1>3, FirstElement
  <1>5. g[t] = h[t]
    BY <1>1, <1>4
  <1>6. g[s] = e[first(s)] + g[t]
    BY <1>2, <1>3, SumRec
  <1>7. h[s] = f[first(s)] + h[t]
    BY <1>2, <1>3, SumRec
  <1>8. e[first(s)] = f[first(s)]
    BY <1>2, <1>4
  <1>9. QED
    BY <1>2, <1>5, <1>6, <1>7, <1>8


\* The recursion has a solution on every finite set.
LEMMA SumExists ==
  ASSUME NEW S, IsFiniteSet(S), NEW f
  PROVE  \E g : IsSum(g, f, S)
  <1> DEFINE Bad == {U \in SUBSET S : ~ \E g : IsSum(g, f, U)}
  <1> SUFFICES ASSUME ~ \E g : IsSum(g, f, S) PROVE FALSE
    OBVIOUS
  <1>1. PICK U \in Bad : \A V \in Bad : V \subseteq U => V = U
    <2>1. S \in Bad /\ Bad \subseteq SUBSET S
      OBVIOUS
    <2> HIDE DEF Bad
    <2>2. QED
      BY <2>1, SmallestSubset
  <1> DEFINE G(V) == CHOOSE g : IsSum(g, f, V)
  <1>2. ASSUME NEW V \in SUBSET U, V # U
        PROVE  IsSum(G(V), f, V) /\ IsFiniteSet(V)
    <2>1. V \in SUBSET S /\ V \notin Bad
      BY <1>1, <1>2
    <2>2. \E g : IsSum(g, f, V)
      BY <2>1
    <2>3. IsFiniteSet(V)
      BY <2>1, FS_Subset
    <2>4. QED
      BY <2>2, <2>3
  <1> HIDE DEF G
  <1> DEFINE rest(s) == s \ {CHOOSE x \in s : TRUE}
             h == [s \in SUBSET U |->
                     IF s = {} THEN 0
                               ELSE f[CHOOSE x \in s : TRUE] + G(rest(s))[rest(s)]]
  <1>3. ASSUME NEW s \in SUBSET U, s # {} PROVE h[rest(s)] = G(rest(s))[rest(s)]
    <2> DEFINE t == rest(s)
    <2>1. t \in SUBSET U /\ t # U
      BY <1>3, FirstElement DEF first
    <2>2. IsSum(G(t), f, t) /\ IsFiniteSet(t)
      BY <1>2, <2>1
    <2> HIDE DEF rest, t
    <2>3. CASE t = {}
      <3>1. h[t] = 0
        BY <2>1, <2>3
      <3>2. G(t)[t] = 0
        BY <2>2, <2>3, SumRec
      <3>3. QED
        BY <3>1, <3>2 DEF t
    <2>4. CASE t # {}
      <3> DEFINE u == rest(t)
      <3>1. u \in SUBSET t /\ u # t /\ u = t \ {first(t)}
        BY <2>4, FirstElement DEF first, rest
      <3>2. u \in SUBSET U /\ u # U
        BY <2>1, <3>1
      <3>3. IsSum(G(u), f, u) /\ IsFiniteSet(u)
        BY <1>2, <3>2
      <3> HIDE DEF u
      <3>4. G(t)[u] = G(u)[u]
        BY <2>2, <3>1, <3>3, SumUnique
      <3>5. G(t)[t] = f[first(t)] + G(t)[u]
        BY <2>2, <2>4, <3>1, SumRec
      <3>6. h[t] = f[first(t)] + G(u)[u]
        BY <2>1, <2>4 DEF first, u
      <3>7. QED
        BY <3>4, <3>5, <3>6 DEF t
    <2>5. QED
      BY <2>3, <2>4
  <1>4. IsSum(h, f, U)
    <2>1. \A s \in SUBSET U :
            h[s] = IF s = {} THEN 0 ELSE f[CHOOSE x \in s : TRUE] + h[rest(s)]
      <3> SUFFICES ASSUME NEW s \in SUBSET U
                   PROVE  h[s] = IF s = {} THEN 0
                                 ELSE f[CHOOSE x \in s : TRUE] + h[rest(s)]
        OBVIOUS
      <3>1. CASE s = {}
        BY <3>1
      <3>2. CASE s # {}
        <4>1. h[s] = f[CHOOSE x \in s : TRUE] + G(rest(s))[rest(s)]
          BY <3>2
        <4>2. h[rest(s)] = G(rest(s))[rest(s)]
          BY <3>2, <1>3
        <4> HIDE DEF h, rest
        <4>3. QED
          BY <3>2, <4>1, <4>2
      <3>3. QED
        BY <3>1, <3>2
    <2>2. h = [s \in SUBSET U |-> h[s]]
      OBVIOUS
    <2> HIDE DEF h
    <2>3. QED
      BY <2>1, <2>2 DEF IsSum
  <1>5. QED
    BY <1>1, <1>4

\* The fold is a solution of its recursion.
LEMMA SumSolves ==
  ASSUME NEW U, IsFiniteSet(U), NEW f
  PROVE  \E g : IsSum(g, f, U) /\ SumFunctionOnSet(f, U) = g[U]
  <1>1. PICK g : IsSum(g, f, U)
    BY SumExists
  <1>2. QED
    BY <1>1 DEF SumFunctionOnSet, FoldFunctionOnSet, MapThenFoldSet, IsSum

\* Functions that agree on a set have the same sum over it.
LEMMA SumSame ==
  ASSUME NEW U, IsFiniteSet(U), NEW e, NEW f, \A x \in U : e[x] = f[x]
  PROVE  SumFunctionOnSet(e, U) = SumFunctionOnSet(f, U)
  <1>1. PICK g : IsSum(g, e, U) /\ SumFunctionOnSet(e, U) = g[U]
    BY SumSolves
  <1>2. PICK h : IsSum(h, f, U) /\ SumFunctionOnSet(f, U) = h[U]
    BY SumSolves
  <1>3. QED
    BY <1>1, <1>2, SumUnique

\* The sum over the empty set, and the step of the fold.
LEMMA SumFold ==
  ASSUME NEW U, IsFiniteSet(U), NEW f
  PROVE  SumFunctionOnSet(f, U) = IF U = {} THEN 0
                       ELSE f[first(U)] + SumFunctionOnSet(f, U \ {first(U)})
  <1>1. PICK g : IsSum(g, f, U) /\ SumFunctionOnSet(f, U) = g[U]
    BY SumSolves
  <1>2. g[U] = IF U = {} THEN 0 ELSE f[first(U)] + g[U \ {first(U)}]
    BY <1>1, SumRec
  <1> DEFINE t == U \ {first(U)}
  <1>3. IsFiniteSet(t) /\ t \subseteq U
    BY FS_RemoveElement
  <1>4. PICK h : IsSum(h, f, t) /\ SumFunctionOnSet(f, t) = h[t]
    BY <1>3, SumSolves
  <1>5. g[t] = h[t]
    BY <1>1, <1>3, <1>4, SumUnique
  <1>6. QED
    BY <1>1, <1>2, <1>4, <1>5

\* A sum of integers is an integer.
LEMMA SumType ==
  ASSUME NEW U, IsFiniteSet(U), NEW f, \A x \in U : f[x] \in Int
  PROVE  SumFunctionOnSet(f, U) \in Int
  <1> DEFINE Bad == {s \in SUBSET U : SumFunctionOnSet(f, s) \notin Int}
  <1> SUFFICES ASSUME SumFunctionOnSet(f, U) \notin Int PROVE FALSE
    OBVIOUS
  <1>1. PICK s \in Bad : \A v \in Bad : v \subseteq s => v = s
    <2>1. U \in Bad /\ Bad \subseteq SUBSET U
      OBVIOUS
    <2> HIDE DEF Bad
    <2>2. QED
      BY <2>1, SmallestSubset
  <1>2. s \in SUBSET U /\ IsFiniteSet(s) /\ SumFunctionOnSet(f, s) \notin Int
    BY FS_Subset
  <1>3. s # {}
    <2>1. SumFunctionOnSet(f, {}) = 0
      BY FS_EmptySet, SumFold
    <2>2. QED
      BY <1>2, <2>1
  <1> DEFINE t == s \ {first(s)}
  <1>4. first(s) \in s /\ t \in SUBSET U /\ t \subseteq s /\ t # s
    BY <1>2, <1>3, FirstElement
  <1>5. SumFunctionOnSet(f, t) \in Int
    BY <1>1, <1>4
  <1>6. SumFunctionOnSet(f, s) = f[first(s)] + SumFunctionOnSet(f, t)
    BY <1>2, <1>3, SumFold
  <1>7. f[first(s)] \in Int
    BY <1>2, <1>4
  <1>8. QED
    BY <1>2, <1>5, <1>6, <1>7

\* The order of the fold does not matter: any element may be taken first.
LEMMA SumRemove ==
  ASSUME NEW U, IsFiniteSet(U), NEW f, \A x \in U : f[x] \in Int, NEW y \in U
  PROVE  SumFunctionOnSet(f, U) = f[y] + SumFunctionOnSet(f, U \ {y})
  <1> DEFINE Good(s) == \A z \in s : SumFunctionOnSet(f, s) = f[z] + SumFunctionOnSet(f, s \ {z})
             Bad == {s \in SUBSET U : ~Good(s)}
  <1> SUFFICES ASSUME ~Good(U) PROVE FALSE
    OBVIOUS
  <1>1. PICK s \in Bad : \A v \in Bad : v \subseteq s => v = s
    <2>1. U \in Bad /\ Bad \subseteq SUBSET U
      OBVIOUS
    <2> HIDE DEF Bad
    <2>2. QED
      BY <2>1, SmallestSubset
  <1>2. s \in SUBSET U /\ IsFiniteSet(s) /\ ~Good(s)
    BY FS_Subset
  <1>3. PICK z \in s : SumFunctionOnSet(f, s) # f[z] + SumFunctionOnSet(f, s \ {z})
    BY <1>2
  <1> DEFINE c == first(s)
  <1>4. c \in s /\ SumFunctionOnSet(f, s) = f[c] + SumFunctionOnSet(f, s \ {c})
    BY <1>2, <1>3, FirstElement, SumFold
  <1>5. z # c
    BY <1>3, <1>4
  <1>6. \A v \in SUBSET s : v # s => Good(v)
    BY <1>1, <1>2
  <1> HIDE DEF c
  <1>7. SumFunctionOnSet(f, s \ {c}) = f[z] + SumFunctionOnSet(f, (s \ {c}) \ {z})
    <2>1. Good(s \ {c}) /\ z \in s \ {c}
      BY <1>3, <1>4, <1>5, <1>6
    <2>2. QED
      BY <2>1
  <1>8. SumFunctionOnSet(f, s \ {z}) = f[c] + SumFunctionOnSet(f, (s \ {z}) \ {c})
    <2>1. Good(s \ {z}) /\ c \in s \ {z}
      BY <1>3, <1>4, <1>5, <1>6
    <2>2. QED
      BY <2>1
  <1>9. (s \ {c}) \ {z} = (s \ {z}) \ {c}
    OBVIOUS
  <1>10. f[c] \in Int /\ f[z] \in Int /\ SumFunctionOnSet(f, (s \ {z}) \ {c}) \in Int
    <2>1. IsFiniteSet((s \ {z}) \ {c})
      BY <1>2, FS_RemoveElement
    <2>2. \A x \in (s \ {z}) \ {c} : f[x] \in Int
      BY <1>2
    <2>3. QED
      BY <1>2, <1>3, <1>4, <2>1, <2>2, SumType
  <1> DEFINE A == SumFunctionOnSet(f, (s \ {z}) \ {c})
  <1>11. SumFunctionOnSet(f, s) = f[c] + (f[z] + A) /\ SumFunctionOnSet(f, s \ {z}) = f[c] + A
    BY <1>4, <1>7, <1>8, <1>9
  <1>12. f[c] + (f[z] + A) = f[z] + (f[c] + A)
    <2> HIDE DEF A
    <2> QED
      BY <1>10 DEF A
  <1>13. QED
    BY <1>3, <1>11, <1>12

\* A set that gains or loses one element y, or whose element y gets another
\* value: the sum changes by what y contributed before and contributes now.
LEMMA SumStep ==
  ASSUME NEW U, IsFiniteSet(U), NEW V, NEW y, U \ {y} = V \ {y},
         NEW e, \A x \in U : e[x] \in Int, NEW f, \A x \in V : f[x] \in Int,
         \A x \in U \ {y} : e[x] = f[x]
  PROVE  /\ IsFiniteSet(V) /\ SumFunctionOnSet(e, U) \in Int /\ SumFunctionOnSet(f, V) \in Int
         /\ SumFunctionOnSet(f, V) - (IF y \in V THEN f[y] ELSE 0)
              = SumFunctionOnSet(e, U) - (IF y \in U THEN e[y] ELSE 0)
  <1> DEFINE R == U \ {y}
  <1>1. IsFiniteSet(R) /\ R = V \ {y}
    BY FS_RemoveElement
  <1>2. IsFiniteSet(V)
    <2>1. V = R \/ V = R \cup {y}
      BY <1>1
    <2> HIDE DEF R
    <2>2. IsFiniteSet(R \cup {y})
      BY <1>1, FS_AddElement
    <2>3. QED
      BY <1>1, <2>1, <2>2
  <1>3. SumFunctionOnSet(e, R) = SumFunctionOnSet(f, R)
    BY <1>1, SumSame
  <1>4. SumFunctionOnSet(e, U) \in Int /\ SumFunctionOnSet(f, V) \in Int /\ SumFunctionOnSet(e, R) \in Int
    BY <1>1, <1>2, SumType
  <1>5. SumFunctionOnSet(e, U) - (IF y \in U THEN e[y] ELSE 0) = SumFunctionOnSet(e, R)
    <2>1. CASE y \in U
      <3>1. SumFunctionOnSet(e, U) = e[y] + SumFunctionOnSet(e, R) /\ e[y] \in Int
        BY <2>1, SumRemove
      <3>2. QED
        BY <1>4, <2>1, <3>1
    <2>2. CASE y \notin U
      <3>1. R = U
        BY <2>2
      <3>2. SumFunctionOnSet(e, U) = SumFunctionOnSet(e, R)
        BY <3>1
      <3>3. QED
        BY <1>4, <2>2, <3>2
    <2>3. QED
      BY <2>1, <2>2
  <1>6. SumFunctionOnSet(f, V) - (IF y \in V THEN f[y] ELSE 0) = SumFunctionOnSet(f, R)
    <2>1. CASE y \in V
      <3>1. SumFunctionOnSet(f, V) = f[y] + SumFunctionOnSet(f, R) /\ f[y] \in Int
        BY <1>1, <1>2, <2>1, SumRemove
      <3>2. QED
        BY <1>3, <1>4, <2>1, <3>1
    <2>2. CASE y \notin V
      <3>1. R = V
        BY <1>1, <2>2
      <3>2. SumFunctionOnSet(f, V) = SumFunctionOnSet(f, R)
        BY <3>1
      <3>3. QED
        BY <1>4, <2>2, <3>2
    <2>3. QED
      BY <2>1, <2>2
  <1>7. QED
    BY <1>2, <1>3, <1>4, <1>5, <1>6


\* The same for the sum of all the values of a function, when its domain gains or
\* loses the element y or the value of y changes.
LEMMA SumFunctionStep ==
  ASSUME NEW U, IsFiniteSet(U), NEW V, NEW y, U \ {y} = V \ {y},
         NEW e \in [U -> Int], NEW f \in [V -> Int], \A x \in U \ {y} : e[x] = f[x]
  PROVE  /\ IsFiniteSet(V) /\ SumFunction(e) \in Int /\ SumFunction(f) \in Int
         /\ SumFunction(f) - (IF y \in V THEN f[y] ELSE 0)
              = SumFunction(e) - (IF y \in U THEN e[y] ELSE 0)
  <1>1. DOMAIN e = U /\ DOMAIN f = V
    OBVIOUS
  <1>2. SumFunction(e) = SumFunctionOnSet(e, U)
    BY <1>1 DEF SumFunction
  <1>3. SumFunction(f) = SumFunctionOnSet(f, V)
    BY <1>1 DEF SumFunction
  <1>4. (\A x \in U : e[x] \in Int) /\ (\A x \in V : f[x] \in Int)
    OBVIOUS
  <1>5. QED
    BY <1>2, <1>3, <1>4, SumStep

\* The sum of a function that is 0 everywhere.
LEMMA SumZero ==
  ASSUME NEW U, IsFiniteSet(U), NEW f, \A x \in U : f[x] = 0
  PROVE  SumFunctionOnSet(f, U) = 0
  <1> DEFINE Bad == {s \in SUBSET U : SumFunctionOnSet(f, s) # 0}
  <1> SUFFICES ASSUME SumFunctionOnSet(f, U) # 0 PROVE FALSE
    OBVIOUS
  <1>1. PICK s \in Bad : \A v \in Bad : v \subseteq s => v = s
    <2>1. U \in Bad /\ Bad \subseteq SUBSET U
      OBVIOUS
    <2> HIDE DEF Bad
    <2>2. QED
      BY <2>1, SmallestSubset
  <1>2. s \in SUBSET U /\ IsFiniteSet(s) /\ SumFunctionOnSet(f, s) # 0
    BY FS_Subset
  <1>3. s # {}
    <2>1. SumFunctionOnSet(f, {}) = 0
      BY FS_EmptySet, SumFold
    <2>2. QED
      BY <1>2, <2>1
  <1> DEFINE t == s \ {first(s)}
  <1>4. first(s) \in s /\ t \in SUBSET U /\ t \subseteq s /\ t # s
    BY <1>2, <1>3, FirstElement
  <1>5. SumFunctionOnSet(f, t) = 0
    BY <1>1, <1>4
  <1>6. SumFunctionOnSet(f, s) = f[first(s)] + SumFunctionOnSet(f, t)
    BY <1>2, <1>3, SumFold
  <1>7. f[first(s)] = 0
    BY <1>2, <1>4
  <1>8. QED
    BY <1>2, <1>5, <1>6, <1>7

-------------------------------------------------------------------------------
(* Sums modulo M: the counters wrap around.                                  *)

\* The remainder is determined by any decomposition.
LEMMA ModUnique ==
  ASSUME NEW M \in Nat \ {0}, NEW q \in Int, NEW r \in 0 .. M - 1
  PROVE  (M * q + r) % M = r
  OBVIOUS

\* A number that is taken modulo M before an addition might as well not be.
LEMMA ModAdd ==
  ASSUME NEW M \in Nat \ {0}, NEW a \in Int, NEW b \in Int
  PROVE  ((a % M) + b) % M = (a + b) % M
  <1> DEFINE q == a \div M
             r == a % M
             u == (r + b) \div M
             v == (r + b) % M
  <1>1. q \in Int /\ r \in 0 .. M - 1 /\ a = M * q + r
    OBVIOUS
  <1> HIDE DEF q, r
  <1>2. u \in Int /\ v \in 0 .. M - 1 /\ r + b = M * u + v
    BY <1>1
  <1> HIDE DEF u, v
  <1>3. a + b = M * (q + u) + v
    BY <1>1, <1>2
  <1> DEFINE w == q + u
  <1>4. (a + b) % M = v
    <2>1. w \in Int
      BY <1>1, <1>2
    <2> HIDE DEF w
    <2>2. (M * w + v) % M = v
      BY <1>2, <2>1, ModUnique
    <2>3. QED
      BY <1>3, <2>2 DEF w
  <1>5. QED
    BY <1>4 DEF r, v
===============================================================================
