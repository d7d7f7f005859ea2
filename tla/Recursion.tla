----------------------------- MODULE Recursion -----------------------------
(***************************************************************************)
(* What the proofs need of recursive functions.  The recursion of a model  *)
(* is a function that is chosen to satisfy its equation, so that a proof   *)
(* about it shows first that there is one: a function that goes up from    *)
(* zero, one that goes down to any smaller number, and a fold of the       *)
(* community modules, which takes one element after the other out of a     *)
(* finite set.  A step is a function too, as are the predicates of the     *)
(* inductions sets, since a lemma takes no operators.                      *)
(***************************************************************************)
EXTENDS Integers, FiniteSets, FiniteSetTheorems, TLAPS

-----------------------------------------------------------------------------
LEMMA LeastNatural ==
    ASSUME NEW T, T \subseteq Nat, T # {}
    PROVE  \E m \in T : \A k \in T : m <= k
<1>1. PICK n \in T : TRUE
      OBVIOUS
<1> DEFINE Below == {k \in T : k <= n}
           Initial == {0..k : k \in Below}
<1>2. Initial \subseteq FiniteSubsetsOf(0..n) /\ Initial # {}
  <2>1. \A k \in Below : 0..k \subseteq 0..n /\ IsFiniteSet(0..k)
        BY FS_Interval
  <2>2. n \in Below
        BY <1>1
  <2> QED BY <2>1, <2>2 DEF FiniteSubsetsOf
<1>3. PICK I \in Initial :
          \A J \in Initial : ~ (<<J, I>> \in StrictSubsetOrdering(0..n))
      BY <1>2, FS_StrictSubsetOrderingWellFounded, WFMin
<1>4. PICK m \in Below : I = 0..m
      OBVIOUS
<1>5. ASSUME NEW k \in T
      PROVE  m <= k
  <2>1. SUFFICES ASSUME k < m
                 PROVE  FALSE
        OBVIOUS
  <2>2. k \in Below /\ 0..k \in Initial
        BY <1>1, <1>4, <2>1
  <2>3. 0..k \subseteq 0..m /\ m \in 0..m /\ m \notin 0..k
        BY <2>1
  <2>4. 0..k \subseteq 0..n /\ 0..m \subseteq 0..n
        BY <1>1, <2>2
  <2>5. <<0..k, 0..m>> \in StrictSubsetOrdering(0..n)
        BY <2>3, <2>4 DEF StrictSubsetOrdering
  <2> QED BY <1>3, <1>4, <2>2, <2>5
<1> QED BY <1>4, <1>5

LEMMA SetInduction ==
    ASSUME NEW P, 0 \in P, \A n \in Nat : n \in P => n + 1 \in P
    PROVE  \A n \in Nat : n \in P
<1>1. SUFFICES ASSUME Nat \ P # {}
               PROVE  FALSE
      OBVIOUS
<1>2. PICK m \in Nat \ P : \A k \in Nat \ P : m <= k
      BY <1>1, LeastNatural
<1>3. m # 0 /\ m - 1 \in Nat /\ m - 1 \in P
      BY <1>2
<1> QED BY <1>2, <1>3

\* f begins with base and goes on by step, within S.
Recurs(f, S, base, step) ==
    /\ f \in [Nat -> S]
    /\ f[0] = base
    /\ \A n \in Nat : f[n + 1] = step[<<n + 1, f[n]>>]

LEMMA Recursion ==
    ASSUME NEW S, NEW base \in S, NEW step \in [Nat \X S -> S]
    PROVE  \E f : Recurs(f, S, base, step)
<1> DEFINE Good(n) == {g \in [Nat -> S] :
                /\ g[0] = base
                /\ \A m \in Nat : m < n => g[m + 1] = step[<<m + 1, g[m]>>]}
<1>1. \A n \in Nat : Good(n) # {}
  <2> DEFINE P == {n \in Nat : Good(n) # {}}
  <2>1. 0 \in P
    <3>1. [n \in Nat |-> base] \in Good(0)
          OBVIOUS
    <3> QED BY <3>1
  <2>2. ASSUME NEW n \in Nat, n \in P
        PROVE  n + 1 \in P
    <3>1. PICK g \in Good(n) : TRUE
          BY <2>2
    <3> DEFINE next == step[<<n + 1, g[n]>>]
               h == [g EXCEPT ![n + 1] = next]
    <3>2. next \in S
          OBVIOUS
    <3>3. h \in [Nat -> S] /\ h[n + 1] = next /\ \A m \in Nat : m # n + 1 => h[m] = g[m]
          BY <3>2
    <3>4. h[0] = base
          BY <3>3
    <3>5. ASSUME NEW m \in Nat, m < n + 1
          PROVE  h[m + 1] = step[<<m + 1, h[m]>>]
      <4>1. h[m] = g[m]
            BY <3>3, <3>5
      <4>2. CASE m = n
            BY <3>3, <4>1, <4>2
      <4>3. CASE m < n
            BY <3>3, <4>1, <4>3
      <4> QED BY <3>5, <4>2, <4>3
    <3> HIDE DEF h
    <3>6. h \in Good(n + 1)
          BY <3>3, <3>4, <3>5
    <3> QED BY <3>6
  <2> HIDE DEF P
  <2>3. \A n \in Nat : n \in P
        BY <2>1, <2>2, SetInduction
  <2> QED BY <2>3 DEF P
<1>2. ASSUME NEW n \in Nat, NEW g \in Good(n), NEW h \in Good(n + 1)
      PROVE  g[n] = h[n]
  <2> DEFINE P == {k \in Nat : k <= n => g[k] = h[k]}
  <2>1. 0 \in P
        OBVIOUS
  <2>2. ASSUME NEW k \in Nat, k \in P
        PROVE  k + 1 \in P
    <3>1. ASSUME k + 1 <= n
          PROVE  g[k + 1] = h[k + 1]
      <4>1. k < n /\ k < n + 1 /\ g[k] = h[k]
            BY <2>2, <3>1
      <4>2. g[k + 1] = step[<<k + 1, g[k]>>] /\ h[k + 1] = step[<<k + 1, h[k]>>]
            BY <4>1
      <4> QED BY <4>1, <4>2
    <3> QED BY <3>1
  <2> HIDE DEF P
  <2>3. n \in P
        BY <2>1, <2>2, SetInduction
  <2> QED BY <2>3 DEF P
<1> DEFINE G(n) == CHOOSE g \in Good(n) : TRUE
           f == [n \in Nat |-> G(n)[n]]
<1>3. \A n \in Nat : G(n) \in Good(n)
      BY <1>1
<1> HIDE DEF G
<1>4. f \in [Nat -> S] /\ f[0] = base
  <2>1. \A n \in Nat : G(n)[n] \in S
        BY <1>3
  <2>2. G(0)[0] = base
        BY <1>3
  <2> QED BY <2>1, <2>2
<1>5. ASSUME NEW n \in Nat
      PROVE  f[n + 1] = step[<<n + 1, f[n]>>]
  <2>1. G(n) \in Good(n) /\ G(n + 1) \in Good(n + 1)
        BY <1>3
  <2>2. G(n)[n] = G(n + 1)[n]
        BY <1>2, <2>1
  <2>3. G(n + 1)[n + 1] = step[<<n + 1, G(n + 1)[n]>>]
        BY <2>1
  <2> QED BY <2>2, <2>3
<1> HIDE DEF f
<1> QED BY <1>4, <1>5 DEF Recurs

\* f goes down by d and up again by step, within S.
GoesDown(f, S, base, d, step) ==
    /\ f \in [Nat -> S]
    /\ f[0] = base
    /\ \A n \in Nat \ {0} : f[n] = step[<<n, f[d[n]]>>]

LEMMA StrongRecursion ==
    ASSUME NEW S, NEW base \in S, NEW step \in [Nat \X S -> S],
           NEW d \in [Nat -> Nat], \A n \in Nat \ {0} : d[n] < n
    PROVE  \E f : GoesDown(f, S, base, d, step)
<1> DEFINE F == [Nat -> S]
           start == [n \in Nat |-> base]
           E(f, n) == IF n = 0 THEN base ELSE step[<<n, f[d[n]]>>]
           next(f) == [n \in Nat |-> E(f, n)]
           down == [x \in Nat \X F |-> next(x[2])]
<1>1. ASSUME NEW f \in F
      PROVE  next(f) \in F
      OBVIOUS
<1>2. start \in F
      OBVIOUS
<1> HIDE DEF F, E, next, start
<1>3. down \in [Nat \X F -> F]
      BY <1>1
<1>4. \A n \in Nat, f \in F : down[<<n + 1, f>>] = next(f)
      OBVIOUS
<1> HIDE DEF down
<1>5. PICK h : Recurs(h, F, start, down)
      BY <1>2, <1>3, Recursion
<1>6. \A n \in Nat : h[n] \in F /\ h[n + 1] = next(h[n])
      BY <1>4, <1>5 DEF Recurs
<1>7. \A k, n \in Nat : h[k + 1][n] = E(h[k], n)
      BY <1>6 DEF next
<1> DEFINE Still == {k \in Nat : \A n \in Nat : n < k => h[k][n] = h[k + 1][n]}
<1>8. \A k \in Nat : k \in Still
  <2>1. 0 \in Still
        OBVIOUS
  <2>2. ASSUME NEW k \in Nat, k \in Still
        PROVE  k + 1 \in Still
    <3>1. ASSUME NEW n \in Nat, n < k + 1
          PROVE  E(h[k], n) = E(h[k + 1], n)
      <4>1. CASE n = 0
            BY <4>1 DEF E
      <4>2. CASE n # 0
        <5>1. d[n] \in Nat /\ d[n] < k
              BY <3>1, <4>2
        <5>2. h[k][d[n]] = h[k + 1][d[n]]
              BY <2>2, <5>1
        <5> QED BY <5>2 DEF E
      <4> QED BY <4>1, <4>2
    <3>2. k + 1 \in Nat
          OBVIOUS
    <3>3. \A n \in Nat : n < k + 1 => h[k + 1][n] = h[(k + 1) + 1][n]
          BY <1>7, <3>1, <3>2
    <3> QED BY <3>2, <3>3
  <2> HIDE DEF Still
  <2> QED BY <2>1, <2>2, SetInduction
<1> DEFINE f == [n \in Nat |-> h[n + 1][n]]
<1>9. ASSUME NEW m \in Nat
      PROVE  \A k \in Nat : k > m => h[k][m] = f[m]
  <2> DEFINE P == {j \in Nat : h[m + 1 + j][m] = h[m + 1][m]}
  <2>1. 0 \in P
        OBVIOUS
  <2>2. ASSUME NEW j \in Nat, j \in P
        PROVE  j + 1 \in P
    <3> DEFINE k == m + 1 + j
    <3>1. k \in Nat /\ m < k /\ k + 1 = m + 1 + (j + 1)
          OBVIOUS
    <3>2. h[k][m] = h[k + 1][m]
          BY <1>8, <3>1
    <3> QED BY <2>2, <3>1, <3>2
  <2> HIDE DEF P
  <2>3. \A j \in Nat : j \in P
        BY <2>1, <2>2, SetInduction
  <2>4. ASSUME NEW k \in Nat, k > m
        PROVE  h[k][m] = f[m]
    <3>1. k - m - 1 \in Nat /\ m + 1 + (k - m - 1) = k
          BY <2>4
    <3> QED BY <2>3, <3>1 DEF P
  <2> QED BY <2>4
<1>10. f \in [Nat -> S]
  <2>1. \A n \in Nat : h[n + 1] \in [Nat -> S]
        BY <1>6 DEF F
  <2> QED BY <2>1
<1>11. ASSUME NEW n \in Nat
       PROVE  f[n] = E(f, n)
  <2>1. f[n] = E(h[n], n)
        BY <1>7
  <2>2. CASE n = 0
        BY <2>1, <2>2 DEF E
  <2>3. CASE n # 0
    <3>1. h[n][d[n]] = f[d[n]]
          BY <1>9, <2>3
    <3> HIDE DEF f
    <3> QED BY <2>1, <3>1 DEF E
  <2> QED BY <2>2, <2>3
<1> HIDE DEF f
<1>12. GoesDown(f, S, base, d, step)
       BY <1>10, <1>11 DEF GoesDown, E
<1> QED BY <1>12

-----------------------------------------------------------------------------
(***************************************************************************)
(* The folds of the community modules over a finite set: they take out one *)
(* element after the other, until there is none.                           *)
(***************************************************************************)

LEMMA SubsetInduction ==
    ASSUME NEW S, IsFiniteSet(S), NEW P,
           \A s \in SUBSET S : (\A x \in s : s \ {x} \in P) => s \in P
    PROVE  \A s \in SUBSET S : s \in P
<1> DEFINE Q == {n \in Nat : \A s \in SUBSET S : Cardinality(s) = n => s \in P}
<1>1. ASSUME NEW s \in SUBSET S
      PROVE  IsFiniteSet(s) /\ Cardinality(s) \in Nat
      BY FS_Subset, FS_CardinalityType
<1>2. 0 \in Q
  <2>1. ASSUME NEW s \in SUBSET S, Cardinality(s) = 0
        PROVE  s \in P
    <3>1. s = {}
          BY <1>1, <2>1, FS_EmptySet
    <3> QED BY <3>1
  <2> QED BY <2>1
<1>3. ASSUME NEW n \in Nat, n \in Q
      PROVE  n + 1 \in Q
  <2>1. ASSUME NEW s \in SUBSET S, Cardinality(s) = n + 1
        PROVE  s \in P
    <3>1. ASSUME NEW x \in s
          PROVE  s \ {x} \in P
      <4>1. Cardinality(s \ {x}) = Cardinality(s) - 1
            BY <1>1, <3>1, FS_RemoveElement
      <4> QED BY <1>3, <2>1, <4>1
    <3> QED BY <3>1
  <2> QED BY <2>1
<1> HIDE DEF Q
<1>4. \A n \in Nat : n \in Q
      BY <1>2, <1>3, SetInduction
<1> QED BY <1>1, <1>4 DEF Q

\* f folds the elements of S with step, from base, in the order of pick.
FoldsTo(f, S, T, base, pick, step) ==
    /\ f \in [SUBSET S -> T]
    /\ f[{}] = base
    /\ \A s \in SUBSET S : s # {} => f[s] = step[<<pick[s], f[s \ {pick[s]}]>>]

Picks(pick, S) == \A s \in SUBSET S : s # {} => pick[s] \in s

LEMMA FoldExists ==
    ASSUME NEW S, IsFiniteSet(S), NEW T, NEW base \in T, NEW step \in [S \X T -> T],
           NEW pick, Picks(pick, S)
    PROVE  \E f : FoldsTo(f, S, T, base, pick, step)
<1> USE DEF Picks
<1> DEFINE F == [SUBSET S -> T]
           start == [s \in SUBSET S |-> base]
           E(f, s) == IF s = {} THEN base ELSE step[<<pick[s], f[s \ {pick[s]}]>>]
           next(f) == [s \in SUBSET S |-> E(f, s)]
           down == [x \in Nat \X F |-> next(x[2])]
<1>1. ASSUME NEW f \in F
      PROVE  next(f) \in F
      OBVIOUS
<1>2. start \in F
      OBVIOUS
<1> HIDE DEF F, E, next, start
<1>3. down \in [Nat \X F -> F]
      BY <1>1
<1>4. \A n \in Nat, f \in F : down[<<n + 1, f>>] = next(f)
      OBVIOUS
<1> HIDE DEF down
<1>5. PICK h : Recurs(h, F, start, down)
      BY <1>2, <1>3, Recursion
<1>6. \A n \in Nat : h[n] \in F /\ h[n + 1] = next(h[n])
      BY <1>4, <1>5 DEF Recurs
<1> DEFINE f == [s \in SUBSET S |-> h[Cardinality(s)][s]]
<1>7. \A s \in SUBSET S : IsFiniteSet(s) /\ Cardinality(s) \in Nat
      BY FS_Subset, FS_CardinalityType
<1>8. ASSUME NEW s \in SUBSET S
      PROVE  f[s] = E(f, s)
  <2>1. CASE s = {}
    <3>1. Cardinality(s) = 0
          BY <2>1, FS_EmptySet
    <3>2. f[s] = base
          BY <1>5, <2>1, <3>1 DEF Recurs, start
    <3> QED BY <2>1, <3>2 DEF E
  <2>2. CASE s # {}
    <3> DEFINE x == pick[s]
               n == Cardinality(s) - 1
    <3>1. x \in s /\ s \ {x} \in SUBSET S
          BY <2>2
    <3>2. Cardinality(s \ {x}) = n /\ n \in Nat /\ Cardinality(s) = n + 1
      <4>1. Cardinality(s \ {x}) = Cardinality(s) - 1
            BY <1>7, <3>1, FS_RemoveElement
      <4> QED BY <1>7, <3>1, <4>1
    <3> HIDE DEF n
    <3>3. f[s] = h[n + 1][s]
          BY <3>2
    <3>4. h[n + 1][s] = E(h[n], s)
          BY <1>6, <3>2 DEF next
    <3>5. f[s \ {x}] = h[n][s \ {x}]
          BY <3>1, <3>2
    <3> HIDE DEF f
    <3>6. E(h[n], s) = E(f, s)
          BY <2>2, <3>5 DEF E
    <3> QED BY <3>3, <3>4, <3>6
  <2> QED BY <2>1, <2>2
<1>9. f \in [SUBSET S -> T]
      BY <1>6, <1>7 DEF F
<1> HIDE DEF f
<1>10. FoldsTo(f, S, T, base, pick, step)
       BY <1>8, <1>9 DEF FoldsTo, E
<1> QED BY <1>10

\* A sum over a finite set.
One(s) == CHOOSE x \in s : TRUE

\* f is what a sum over the values of g recurses with.
Sums(f, g) ==
    f = [s \in SUBSET DOMAIN g |-> IF s = {} THEN 0 ELSE g[One(s)] + f[s \ {One(s)}]]

Total(g) == (CHOOSE f : Sums(f, g))[DOMAIN g]

LEMMA SumsExist ==
    ASSUME NEW S, IsFiniteSet(S), NEW g \in [S -> Int]
    PROVE  \E f : Sums(f, g)
<1> DEFINE pick == [s \in SUBSET S |-> One(s)]
           T == Int
           none == 0
           step == [x \in S \X T |-> g[x[1]] + x[2]]
<1>1. \A s \in SUBSET S : s # {} => pick[s] \in s /\ pick[s] = One(s)
      BY DEF One
<1>8. Picks(pick, S)
      BY <1>1 DEF Picks
<1>2. step \in [S \X T -> T] /\ none \in T /\ \A x \in S, n \in T : step[<<x, n>>] = g[x] + n
      OBVIOUS
<1> HIDE DEF pick, step, T, none
<1>3. PICK f : FoldsTo(f, S, T, none, pick, step)
      BY <1>2, <1>8, FoldExists
<1>4. DOMAIN g = S
      OBVIOUS
<1>5. ASSUME NEW s \in SUBSET S, s # {}
      PROVE  f[s] = g[One(s)] + f[s \ {One(s)}]
  <2>1. One(s) \in S /\ s \ {One(s)} \in SUBSET S /\ pick[s] = One(s)
        BY <1>1, <1>5
  <2>2. f[s \ {One(s)}] \in Int /\ f[s] = step[<<One(s), f[s \ {One(s)}]>>]
        BY <1>3, <1>5, <2>1 DEF FoldsTo, T
  <2> QED BY <1>2, <2>1, <2>2 DEF T
<1>6. f = [s \in SUBSET S |-> f[s]] /\ f[{}] = 0
      BY <1>3 DEF FoldsTo, none
<1>7. Sums(f, g)
      BY <1>4, <1>5, <1>6 DEF Sums
<1> QED BY <1>7

\* The order in which the values are added does not matter.
LEMMA SumsTakeOut ==
    ASSUME NEW S, IsFiniteSet(S), NEW g \in [S -> Int], NEW f, Sums(f, g)
    PROVE  /\ f[{}] = 0
           /\ \A s \in SUBSET S : f[s] \in Int
           /\ \A s \in SUBSET S : \A x \in s : f[s] = g[x] + f[s \ {x}]
<1>1. /\ f[{}] = 0
      /\ \A s \in SUBSET S : s # {} => f[s] = g[One(s)] + f[s \ {One(s)}]
  <2>1. DOMAIN g = S
        OBVIOUS
  <2> QED BY <2>1 DEF Sums
<1>2. \A s \in SUBSET S : s # {} => One(s) \in s
      BY DEF One
<1> DEFINE I == {s \in SUBSET S : f[s] \in Int}
           P == {s \in SUBSET S : \A x \in s : f[s] = g[x] + f[s \ {x}]}
<1>0. ASSUME NEW s \in SUBSET S, \A x \in s : s \ {x} \in I
      PROVE  s \in I
  <2>1. CASE s = {}
        BY <1>1, <2>1
  <2>2. CASE s # {}
    <3>1. One(s) \in s /\ f[s] = g[One(s)] + f[s \ {One(s)}]
          BY <1>1, <1>2, <2>2
    <3>2. f[s \ {One(s)}] \in Int /\ g[One(s)] \in Int
          BY <1>0, <3>1
    <3> QED BY <3>1, <3>2
  <2> QED BY <2>1, <2>2
<1> HIDE DEF I
<1>5. \A s \in SUBSET S : s \in I
      BY <1>0, SubsetInduction
<1>6. \A s \in SUBSET S : f[s] \in Int
      BY <1>5 DEF I
<1>3. ASSUME NEW s \in SUBSET S, \A x \in s : s \ {x} \in P
      PROVE  s \in P
  <2>1. CASE s = {}
        BY <1>1, <2>1
  <2>2. CASE s # {}
    <3> DEFINE c == One(s)
    <3>1. c \in s /\ f[s] = g[c] + f[s \ {c}]
          BY <1>1, <1>2, <2>2
    <3> HIDE DEF c
    <3>2. \A x \in s : \A y \in s \ {x} : f[s \ {x}] = g[y] + f[(s \ {x}) \ {y}]
          BY <1>3
    <3>3. \A x \in s : g[x] \in Int
          OBVIOUS
    <3>4. ASSUME NEW x \in s
          PROVE  f[s] = g[x] + f[s \ {x}]
      <4>1. CASE x = c
            BY <3>1, <4>1
      <4>2. CASE x # c
        <5>1. f[s \ {c}] = g[x] + f[(s \ {c}) \ {x}]
              BY <3>1, <3>2, <4>2
        <5>2. f[s \ {x}] = g[c] + f[(s \ {x}) \ {c}]
              BY <3>1, <3>2, <4>2
        <5>3. (s \ {c}) \ {x} = (s \ {x}) \ {c}
              OBVIOUS
        <5> DEFINE r == f[(s \ {c}) \ {x}]
        <5>4. r \in Int
              BY <1>6
        <5>5. f[s \ {x}] = g[c] + r
              BY <5>2, <5>3
        <5>6. g[c] \in Int /\ g[x] \in Int
              BY <3>1, <3>3
        <5> HIDE DEF r
        <5> QED BY <3>1, <5>1, <5>4, <5>5, <5>6 DEF r
      <4> QED BY <4>1, <4>2
    <3> QED BY <3>4
  <2> QED BY <2>1, <2>2
<1> HIDE DEF P
<1>4. \A s \in SUBSET S : s \in P
      BY <1>3, SubsetInduction
<1> QED BY <1>1, <1>4, <1>6 DEF P

\* A sum over S is what x adds to the sum over the others.
Adds(S, x) ==
    \A g \in [S -> Int], h \in [S \ {x} -> Int] :
        (\A y \in S \ {x} : h[y] = g[y]) => Total(g) = g[x] + Total(h)

LEMMA TotalAdds ==
    ASSUME NEW S, IsFiniteSet(S), NEW x \in S
    PROVE  Adds(S, x)
<1> SUFFICES ASSUME NEW g \in [S -> Int], NEW h \in [S \ {x} -> Int], \A y \in S \ {x} : h[y] = g[y]
             PROVE  Total(g) = g[x] + Total(h)
    BY DEF Adds
<1> DEFINE R == S \ {x}
           f == CHOOSE q : Sums(q, g)
           e == CHOOSE q : Sums(q, h)
<1>1. IsFiniteSet(R) /\ h \in [R -> Int]
      BY FS_Subset
<1>2. Sums(f, g) /\ Sums(e, h)
      BY <1>1, SumsExist
<1>3. Total(g) = f[S] /\ Total(h) = e[R]
  <2>1. DOMAIN g = S /\ DOMAIN h = R
        OBVIOUS
  <2> QED BY <2>1 DEF Total
<1>10. R \subseteq S /\ \A y \in R : h[y] = g[y]
      OBVIOUS
<1>9. R = S \ {x}
      OBVIOUS
<1> HIDE DEF f, e, R
<1> DEFINE P == {s \in SUBSET R : e[s] = f[s]}
<1>4. /\ f[{}] = 0
      /\ \A s \in SUBSET S : \A y \in s : f[s] = g[y] + f[s \ {y}]
      BY <1>2, SumsTakeOut
<1>5. /\ e[{}] = 0
      /\ \A s \in SUBSET R : \A y \in s : e[s] = h[y] + e[s \ {y}]
      BY <1>1, <1>2, SumsTakeOut
<1>6. ASSUME NEW s \in SUBSET R, \A y \in s : s \ {y} \in P
      PROVE  s \in P
  <2>1. CASE s = {}
        BY <1>4, <1>5, <2>1
  <2>2. CASE s # {}
    <3>1. PICK y \in s : TRUE
          BY <2>2
    <3>2. f[s] = g[y] + f[s \ {y}]
          BY <1>4, <1>10, <3>1
    <3>3. e[s] = h[y] + e[s \ {y}]
          BY <1>5, <3>1
    <3>4. e[s \ {y}] = f[s \ {y}] /\ h[y] = g[y]
          BY <1>6, <1>10, <3>1
    <3> QED BY <3>2, <3>3, <3>4
  <2> QED BY <2>1, <2>2
<1> HIDE DEF P
<1>7. \A s \in SUBSET R : s \in P
      BY <1>1, <1>6, SubsetInduction
<1>8. e[R] = f[R]
      BY <1>7 DEF P
<1>11. f[S] = g[x] + f[R]
      BY <1>4, <1>9
<1> QED BY <1>3, <1>8, <1>11

LEMMA TotalIsANumber ==
    ASSUME NEW S, IsFiniteSet(S), NEW g \in [S -> Int]
    PROVE  Total(g) \in Int /\ (S = {} => Total(g) = 0)
<1> DEFINE f == CHOOSE q : Sums(q, g)
<1>1. Sums(f, g)
      BY SumsExist
<1>2. Total(g) = f[S]
  <2>1. DOMAIN g = S
        OBVIOUS
  <2> QED BY <2>1 DEF Total
<1> HIDE DEF f
<1>3. f[{}] = 0 /\ \A s \in SUBSET S : f[s] \in Int
      BY <1>1, SumsTakeOut
<1> QED BY <1>2, <1>3
=============================================================================
