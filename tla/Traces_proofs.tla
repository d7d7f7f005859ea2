--------------------------- MODULE Traces_proofs ---------------------------
(***************************************************************************)
(* Proofs about what a simulation writes down: the map that finds the      *)
(* trace of a packet, the files of a client, the goodput files, the tags   *)
(* and the loss count, for any number of addresses, packets, bytes, values *)
(* and digits.                                                             *)
(***************************************************************************)
EXTENDS Traces, Recursion, SequenceTheorems

-----------------------------------------------------------------------------
(***************************************************************************)
(* Trees.  s are the keys of the tree t in the order of an iterator.  That *)
(* t is built from the leaf and from nodes is said by a set of trees that  *)
(* holds what its trees are built from; the length of s is the measure of  *)
(* all inductions.                                                         *)
(***************************************************************************)

Around(p, k, q) == p \o <<k>> \o q

\* The places of s, if it is k with p and q around it.
Between(s, p, k, q) ==
    /\ s \in Seq(Map!Pairs)
    /\ Len(s) = Len(p) + 1 + Len(q)
    /\ \A i \in 1..Len(p) : s[i] = p[i]
    /\ s[Len(p) + 1] = k
    /\ \A i \in 1..Len(q) : s[Len(p) + 1 + i] = q[i]

LEMMA KeyBetween ==
    ASSUME NEW p \in Seq(Map!Pairs), NEW q \in Seq(Map!Pairs), NEW k \in Map!Pairs
    PROVE  Between(Around(p, k, q), p, k, q)
<1> DEFINE r == p \o <<k>>
<1>1. /\ r \in Seq(Map!Pairs) /\ Len(r) = Len(p) + 1 /\ r[Len(p) + 1] = k
      /\ \A i \in 1..Len(p) : r[i] = p[i]
      OBVIOUS
<1>2. Len(p) \in Nat /\ Len(q) \in Nat
      OBVIOUS
<1> HIDE DEF r
<1>3. /\ r \o q \in Seq(Map!Pairs) /\ Len(r \o q) = Len(p) + 1 + Len(q)
      /\ \A i \in 1..Len(p) + 1 + Len(q) :
            (r \o q)[i] = IF i <= Len(p) + 1 THEN r[i] ELSE q[i - (Len(p) + 1)]
  <2>1. /\ r \o q \in Seq(Map!Pairs) /\ Len(r \o q) = Len(r) + Len(q)
        /\ \A i \in 1..Len(r) + Len(q) : (r \o q)[i] = IF i <= Len(r) THEN r[i] ELSE q[i - Len(r)]
        BY <1>1, ConcatProperties
  <2> QED BY <1>1, <2>1
<1>4. \A i \in 1..Len(p) : (r \o q)[i] = p[i]
      BY <1>1, <1>2, <1>3
<1>5. (r \o q)[Len(p) + 1] = k
      BY <1>1, <1>2, <1>3
<1>6. \A i \in 1..Len(q) : (r \o q)[Len(p) + 1 + i] = q[i]
  <2> TAKE i \in 1..Len(q)
  <2>1. /\ Len(p) + 1 + i \in 1..Len(p) + 1 + Len(q) /\ ~(Len(p) + 1 + i <= Len(p) + 1)
        /\ (Len(p) + 1 + i) - (Len(p) + 1) = i
        BY <1>2
  <2> QED BY <1>3, <2>1
<1> QED BY <1>3, <1>4, <1>5, <1>6 DEF r, Around, Between

Built(G) ==
    \A x \in G :
        /\ x[2] \in Seq(Map!Pairs)
        /\ \/ x = <<Map!Leaf, << >>>>
           \/ \E l, r \in G, red \in BOOLEAN, k \in Map!Pairs :
                x = <<Map!Node(red, l[1], k, r[1]), Around(l[2], k, r[2])>>

Tree(t, s) == \E G : Built(G) /\ <<t, s>> \in G

LEMMA LeafIsATree == Tree(Map!Leaf, << >>)
<1> DEFINE G == {<<Map!Leaf, << >>>>}
<1>1. << >> \in Seq(Map!Pairs)
      OBVIOUS
<1>2. \A x \in G : x = <<Map!Leaf, << >>>> /\ x[2] = << >>
      OBVIOUS
<1>3. Built(G)
      BY <1>1, <1>2 DEF Built
<1>4. <<Map!Leaf, << >>>> \in G
      OBVIOUS
<1> HIDE DEF G
<1> QED BY <1>3, <1>4 DEF Tree

LEMMA NodeIsATree ==
    ASSUME NEW l, NEW r, NEW sl, NEW sr, Tree(l, sl), Tree(r, sr),
           NEW red \in BOOLEAN, NEW k \in Map!Pairs
    PROVE  Tree(Map!Node(red, l, k, r), Around(sl, k, sr))
<1>1. PICK L : Built(L) /\ <<l, sl>> \in L
      BY DEF Tree
<1>2. PICK R : Built(R) /\ <<r, sr>> \in R
      BY DEF Tree
<1> DEFINE new == <<Map!Node(red, l, k, r), Around(sl, k, sr)>>
           G == L \cup R \cup {new}
<1>3. sl \in Seq(Map!Pairs) /\ sr \in Seq(Map!Pairs)
      BY <1>1, <1>2 DEF Built
<1>4. Around(sl, k, sr) \in Seq(Map!Pairs)
      BY <1>3, KeyBetween DEF Between
<1>5. ASSUME NEW x \in G
      PROVE  /\ x[2] \in Seq(Map!Pairs)
             /\ \/ x = <<Map!Leaf, << >>>>
                \/ \E a, b \in G, c \in BOOLEAN, e \in Map!Pairs :
                     x = <<Map!Node(c, a[1], e, b[1]), Around(a[2], e, b[2])>>
  <2>1. CASE x \in L
    <3>1. L \subseteq G
          OBVIOUS
    <3>2. /\ x[2] \in Seq(Map!Pairs)
          /\ \/ x = <<Map!Leaf, << >>>>
             \/ \E a, b \in L, c \in BOOLEAN, e \in Map!Pairs :
                  x = <<Map!Node(c, a[1], e, b[1]), Around(a[2], e, b[2])>>
          BY <1>1, <2>1 DEF Built
    <3> HIDE DEF G
    <3> QED BY <3>1, <3>2
  <2>2. CASE x \in R
    <3>1. R \subseteq G
          OBVIOUS
    <3>2. /\ x[2] \in Seq(Map!Pairs)
          /\ \/ x = <<Map!Leaf, << >>>>
             \/ \E a, b \in R, c \in BOOLEAN, e \in Map!Pairs :
                  x = <<Map!Node(c, a[1], e, b[1]), Around(a[2], e, b[2])>>
          BY <1>2, <2>2 DEF Built
    <3> HIDE DEF G
    <3> QED BY <3>1, <3>2
  <2>3. CASE x = new
    <3>1. <<l, sl>> \in G /\ <<r, sr>> \in G
          BY <1>1, <1>2
    <3>2. x = <<Map!Node(red, <<l, sl>>[1], k, <<r, sr>>[1]),
                Around(<<l, sl>>[2], k, <<r, sr>>[2])>>
          BY <2>3
    <3>3. x[2] \in Seq(Map!Pairs)
          BY <1>4, <2>3
    <3> HIDE DEF G
    <3> QED BY <3>1, <3>2, <3>3
  <2> QED BY <2>1, <2>2, <2>3
<1>6. Built(G)
      BY <1>5 DEF Built
<1> QED BY <1>6 DEF Tree

\* What a node is made of.
IsNode(t, s, l, sl, r, sr, red, k) ==
    /\ Tree(l, sl) /\ Tree(r, sr)
    /\ red \in BOOLEAN /\ k \in Map!Pairs
    /\ t = Map!Node(red, l, k, r)
    /\ s = Around(sl, k, sr)
    /\ sl \in Seq(Map!Pairs) /\ sr \in Seq(Map!Pairs)
    /\ Len(sl) + Len(sr) + 1 = Len(s)

LEMMA LeafIsNoNode ==
    /\ \A red, l, k, r : /\ Map!Node(red, l, k, r) # Map!Leaf
                          /\ Map!Node(red, l, k, r).red = red
                          /\ Map!Node(red, l, k, r).left = l
                          /\ Map!Node(red, l, k, r).key = k
                          /\ Map!Node(red, l, k, r).right = r
    /\ Map!Leaf.red = FALSE
BY DEF Map!Node, Map!Leaf

LEMMA TreeCases ==
    ASSUME NEW t, NEW s, Tree(t, s)
    PROVE  /\ s \in Seq(Map!Pairs)
           /\ \/ t = Map!Leaf /\ s = << >>
              \/ /\ t # Map!Leaf
                 /\ \E l, sl, r, sr, red, k : IsNode(t, s, l, sl, r, sr, red, k)
<1>1. PICK G : Built(G) /\ <<t, s>> \in G
      BY DEF Tree
<1>2. s \in Seq(Map!Pairs)
      BY <1>1 DEF Built
<1>3. CASE <<t, s>> = <<Map!Leaf, << >>>>
      BY <1>2, <1>3
<1>4. ASSUME NEW l \in G, NEW r \in G, NEW red \in BOOLEAN, NEW k \in Map!Pairs,
             <<t, s>> = <<Map!Node(red, l[1], k, r[1]), Around(l[2], k, r[2])>>
      PROVE  t # Map!Leaf /\ IsNode(t, s, l[1], l[2], r[1], r[2], red, k)
  <2>1. t = Map!Node(red, l[1], k, r[1]) /\ s = Around(l[2], k, r[2])
        BY <1>4
  <2>2. ASSUME NEW x \in G
        PROVE  x = <<x[1], x[2]>> /\ Tree(x[1], x[2]) /\ x[2] \in Seq(Map!Pairs)
    <3>1. x[2] \in Seq(Map!Pairs)
          BY <1>1 DEF Built
    <3>2. \E a, b : x = <<a, b>>
      <4>1. \/ x = <<Map!Leaf, << >>>>
            \/ \E y, z \in G, c \in BOOLEAN, e \in Map!Pairs :
                 x = <<Map!Node(c, y[1], e, z[1]), Around(y[2], e, z[2])>>
            BY <1>1 DEF Built
      <4> QED BY <4>1
    <3>3. x = <<x[1], x[2]>>
          BY <3>2
    <3> QED BY <1>1, <3>1, <3>3 DEF Tree
  <2>3. Tree(l[1], l[2]) /\ Tree(r[1], r[2]) /\ l[2] \in Seq(Map!Pairs) /\ r[2] \in Seq(Map!Pairs)
        BY <2>2
  <2>4. Len(l[2]) + Len(r[2]) + 1 = Len(s)
    <3> DEFINE a == l[2]
               b == r[2]
    <3>1. a \in Seq(Map!Pairs) /\ b \in Seq(Map!Pairs) /\ s = Around(a, k, b)
          BY <2>1, <2>3
    <3> HIDE DEF a, b
    <3>2. Len(a) + Len(b) + 1 = Len(s)
      <4>1. Len(a) \in Nat /\ Len(b) \in Nat
            BY <3>1
      <4>2. Len(s) = Len(a) + 1 + Len(b)
            BY <3>1, KeyBetween DEF Between
      <4> QED BY <4>1, <4>2
    <3> QED BY <3>2 DEF a, b
  <2>5. t # Map!Leaf
        BY <2>1, LeafIsNoNode
  <2> QED BY <2>1, <2>3, <2>4, <2>5 DEF IsNode
<1>5. \/ <<t, s>> = <<Map!Leaf, << >>>>
      \/ \E l, r \in G, red \in BOOLEAN, k \in Map!Pairs :
            <<t, s>> = <<Map!Node(red, l[1], k, r[1]), Around(l[2], k, r[2])>>
      BY <1>1 DEF Built
<1>6. CASE \E l, r \in G, red \in BOOLEAN, k \in Map!Pairs :
            <<t, s>> = <<Map!Node(red, l[1], k, r[1]), Around(l[2], k, r[2])>>
  <2>1. PICK l \in G, r \in G, red \in BOOLEAN, k \in Map!Pairs :
            <<t, s>> = <<Map!Node(red, l[1], k, r[1]), Around(l[2], k, r[2])>>
        BY <1>6
  <2>2. t # Map!Leaf /\ IsNode(t, s, l[1], l[2], r[1], r[2], red, k)
        BY <2>1, <1>4
  <2> QED BY <1>2, <2>2
<1> QED BY <1>3, <1>5, <1>6

\* A tree has its keys in one order.
LEMMA OrderIsUnique ==
    ASSUME NEW t, NEW s, NEW q, Tree(t, s), Tree(t, q)
    PROVE  s = q
<1> DEFINE P == {n \in Nat : \A u, a, b :
                    Tree(u, a) /\ Tree(u, b) /\ Len(a) <= n => a = b}
<1>1. \A u, a, b : Tree(u, a) /\ Tree(u, b) /\ u = Map!Leaf => a = b
  <2> SUFFICES ASSUME NEW u, NEW a, NEW b, Tree(u, a), Tree(u, b), u = Map!Leaf
               PROVE  a = b
      OBVIOUS
  <2>1. a = << >>
        BY TreeCases
  <2>2. b = << >>
        BY TreeCases
  <2> QED BY <2>1, <2>2
<1>2. 0 \in P
  <2> SUFFICES ASSUME NEW u, NEW a, NEW b, Tree(u, a), Tree(u, b), Len(a) <= 0
               PROVE  a = b
      OBVIOUS
  <2>1. u = Map!Leaf
    <3> SUFFICES ASSUME NEW l, NEW sl, NEW r, NEW sr, NEW red, NEW k,
                        IsNode(u, a, l, sl, r, sr, red, k)
                 PROVE  FALSE
        BY TreeCases
    <3>1. Len(sl) \in Nat /\ Len(sr) \in Nat /\ Len(sl) + Len(sr) + 1 = Len(a)
          BY DEF IsNode
    <3> QED BY <3>1
  <2> QED BY <1>1, <2>1
<1>3. ASSUME NEW n \in Nat, n \in P
      PROVE  n + 1 \in P
  <2> SUFFICES ASSUME NEW u, NEW a, NEW b, Tree(u, a), Tree(u, b), Len(a) <= n + 1,
                      u # Map!Leaf
               PROVE  a = b
      BY <1>1
  <2>1. PICK l, sl, r, sr, red, k : IsNode(u, a, l, sl, r, sr, red, k)
        BY TreeCases
  <2>2. PICK l2, sl2, r2, sr2, red2, k2 : IsNode(u, b, l2, sl2, r2, sr2, red2, k2)
        BY TreeCases
  <2>3. l = l2 /\ k = k2 /\ r = r2
    <3>1. u = Map!Node(red, l, k, r) /\ u = Map!Node(red2, l2, k2, r2)
          BY <2>1, <2>2 DEF IsNode
    <3>2. /\ Map!Node(red, l, k, r).left = l
          /\ Map!Node(red, l, k, r).key = k
          /\ Map!Node(red, l, k, r).right = r
          BY LeafIsNoNode
    <3>3. /\ Map!Node(red2, l2, k2, r2).left = l2
          /\ Map!Node(red2, l2, k2, r2).key = k2
          /\ Map!Node(red2, l2, k2, r2).right = r2
          BY LeafIsNoNode
    <3> QED BY <3>1, <3>2, <3>3
  <2>4. Len(sl) <= n /\ Len(sr) <= n
    <3>1. Len(sl) \in Nat /\ Len(sr) \in Nat /\ Len(sl) + Len(sr) + 1 = Len(a)
          BY <2>1 DEF IsNode
    <3>2. Len(a) \in Nat
          BY <3>1
    <3> QED BY <3>1, <3>2
  <2>5. sl = sl2 /\ sr = sr2
        BY <1>3, <2>1, <2>2, <2>3, <2>4 DEF IsNode
  <2> QED BY <2>1, <2>2, <2>3, <2>5 DEF IsNode
<1> HIDE DEF P
<1>4. \A n \in Nat : n \in P
      BY <1>2, <1>3, SetInduction
<1>5. Len(s) \in Nat
      BY TreeCases
<1> QED BY <1>4, <1>5 DEF P

\* The children of a tree that is no leaf.
LEMMA ChildrenAreTrees ==
    ASSUME NEW t, NEW s, Tree(t, s), t # Map!Leaf
    PROVE  \E sl, sr : /\ IsNode(t, s, t.left, sl, t.right, sr, t.red, t.key)
                       /\ Len(sl) \in Nat /\ Len(sl) < Len(s)
                       /\ Len(sr) \in Nat /\ Len(sr) < Len(s)
<1>1. PICK l, sl, r, sr, red, k : IsNode(t, s, l, sl, r, sr, red, k)
      BY TreeCases
<1>2. t = Map!Node(red, l, k, r)
      BY <1>1 DEF IsNode
<1>3. /\ Map!Node(red, l, k, r).left = l /\ Map!Node(red, l, k, r).key = k
      /\ Map!Node(red, l, k, r).right = r /\ Map!Node(red, l, k, r).red = red
      BY LeafIsNoNode
<1>4. t.left = l /\ t.right = r /\ t.red = red /\ t.key = k
      BY <1>2, <1>3
<1>5. Len(sl) \in Nat /\ Len(sr) \in Nat /\ Len(sl) + Len(sr) + 1 = Len(s)
      BY <1>1 DEF IsNode
<1>6. Len(sl) < Len(s) /\ Len(sr) < Len(s)
      BY <1>5
<1> QED BY <1>1, <1>4, <1>5, <1>6

\* With n levels below it left.
LEMMA SubtreesOfATree ==
    ASSUME NEW t, NEW s, Tree(t, s), Len(s) <= MaxOpened
    PROVE  /\ t \in Map!Subtrees(t)
           /\ \A u \in Map!Subtrees(t) :
                /\ \E q : Tree(u, q) /\ Len(q) <= Len(s)
                /\ u # Map!Leaf => u.left \in Map!Subtrees(t) /\ u.right \in Map!Subtrees(t)
<1> DEFINE Under(X) == X \cup UNION {{v.left, v.right} : v \in X \ {Map!Leaf}}
           Body(g) == [n \in Nat |-> IF n = 0 THEN {t} ELSE Under(g[n - 1])]
<1>1. PICK G : Built(G) /\ <<t, s>> \in G
      BY DEF Tree
<1> DEFINE V == {x[1] : x \in G}
           step == [x \in Nat \X SUBSET V |-> Under(x[2])]
<1>2. \A v \in V : \E q : Tree(v, q)
  <2> SUFFICES ASSUME NEW x \in G
               PROVE  \E q : Tree(x[1], q)
      OBVIOUS
  <2>1. \/ x = <<Map!Leaf, << >>>>
        \/ \E y, z \in G, c \in BOOLEAN, e \in Map!Pairs :
             x = <<Map!Node(c, y[1], e, z[1]), Around(y[2], e, z[2])>>
        BY <1>1 DEF Built
  <2>2. \E a, b : x = <<a, b>>
    <3>1. CASE x = <<Map!Leaf, << >>>>
          BY <3>1
    <3>2. ASSUME NEW y, NEW z, NEW c, NEW e,
                 x = <<Map!Node(c, y[1], e, z[1]), Around(y[2], e, z[2])>>
          PROVE  \E a, b : x = <<a, b>>
          BY <3>2
    <3> QED BY <2>1, <3>1, <3>2
  <2>3. <<x[1], x[2]>> \in G
        BY <2>2
  <2> QED BY <1>1, <2>3 DEF Tree
<1>3. \A v \in V \ {Map!Leaf} : v.left \in V /\ v.right \in V
  <2> SUFFICES ASSUME NEW x \in G, x[1] # Map!Leaf
               PROVE  x[1].left \in V /\ x[1].right \in V
      OBVIOUS
  <2>1. \/ x = <<Map!Leaf, << >>>>
        \/ \E y, z \in G, c \in BOOLEAN, e \in Map!Pairs :
             x = <<Map!Node(c, y[1], e, z[1]), Around(y[2], e, z[2])>>
        BY <1>1 DEF Built
  <2>2. PICK y \in G, z \in G, c \in BOOLEAN, e \in Map!Pairs :
             x = <<Map!Node(c, y[1], e, z[1]), Around(y[2], e, z[2])>>
    <3>1. <<Map!Leaf, << >>>>[1] = Map!Leaf
          OBVIOUS
    <3>2. x # <<Map!Leaf, << >>>>
          BY <3>1
    <3> QED BY <2>1, <3>2
  <2>3. x[1] = Map!Node(c, y[1], e, z[1])
        BY <2>2
  <2>4. /\ Map!Node(c, y[1], e, z[1]).left = y[1]
        /\ Map!Node(c, y[1], e, z[1]).right = z[1]
        BY LeafIsNoNode
  <2>5. y[1] \in V /\ z[1] \in V
        OBVIOUS
  <2> HIDE DEF V
  <2> QED BY <2>3, <2>4, <2>5
<1>4. t \in V
  <2>1. <<t, s>>[1] = t
        OBVIOUS
  <2> QED BY <1>1, <2>1
<1> HIDE DEF V
<1>5. \A X \in SUBSET V : Under(X) \in SUBSET V
      BY <1>3
<1>6. \E f : f = Body(f)
  <2>1. step \in [Nat \X SUBSET V -> SUBSET V]
    <3> HIDE DEF Under
    <3> QED BY <1>5
  <2>2. {t} \in SUBSET V
        BY <1>4
  <2>3. \A x \in Nat \X SUBSET V : step[x] = Under(x[2])
        OBVIOUS
  <2> HIDE DEF step, Under
  <2>4. PICK f : Recurs(f, SUBSET V, {t}, step)
        BY <2>1, <2>2, Recursion
  <2>5. ASSUME NEW n \in Nat
        PROVE  f[n] = Body(f)[n]
    <3>1. CASE n = 0
          BY <2>4, <3>1 DEF Recurs
    <3>2. CASE n # 0
      <4>1. n - 1 \in Nat /\ (n - 1) + 1 = n /\ f[n - 1] \in SUBSET V
            BY <2>4, <3>2 DEF Recurs
      <4>2. f[(n - 1) + 1] = step[<<(n - 1) + 1, f[n - 1]>>]
            BY <2>4, <4>1 DEF Recurs
      <4>3. <<n, f[n - 1]>> \in Nat \X SUBSET V
            BY <4>1
      <4>4. f[n] = Under(f[n - 1])
            BY <2>3, <4>1, <4>2, <4>3
      <4> QED BY <3>2, <4>4
    <3> QED BY <3>1, <3>2
  <2>6. f = Body(f)
        BY <2>4, <2>5 DEF Recurs
  <2> QED BY <2>6
<1> DEFINE h == CHOOSE g : g = Body(g)
<1>7. h = Body(h)
  <2> HIDE DEF Under
  <2> QED BY <1>6
<1>8. Map!Subtrees(t) = h[MaxOpened]
      BY DEF Map!Subtrees
<1> HIDE DEF h, Under
<1>9. h[0] = {t} /\ \A n \in Nat : h[n + 1] = Under(h[n])
  <2>1. \A n \in Nat : n + 1 \in Nat /\ n + 1 # 0 /\ (n + 1) - 1 = n
        OBVIOUS
  <2> QED BY <1>7, <2>1
<1>10. MaxOpened \in Nat /\ Len(s) \in Nat
  <2>1. Len(s) \in Nat
        BY TreeCases
  <2> QED BY <2>1, TracesAssumption DEF Map!PairAssumption
<1> DEFINE Deep(n) == \A u \in h[n] :
                \E m \in 0..n : \E q : /\ u \in h[m] /\ Tree(u, q) /\ Len(q) + m <= Len(s)
           Q == {n \in Nat : h[n] \subseteq h[n + 1] /\ Deep(n)}
<1>11. \A n \in Nat : h[n] \subseteq h[n + 1]
       BY <1>9 DEF Under
<1>12. 0 \in Q
  <2>1. ASSUME NEW u \in h[0]
        PROVE  \E m \in 0..0 : \E q : u \in h[m] /\ Tree(u, q) /\ Len(q) + m <= Len(s)
    <3>1. u = t /\ 0 \in 0..0 /\ Len(s) + 0 <= Len(s)
          BY <1>9, <1>10
    <3> QED BY <3>1
  <2>2. Deep(0)
        BY <2>1
  <2> QED BY <1>11, <2>2
<1>13. ASSUME NEW n \in Nat, n \in Q
       PROVE  n + 1 \in Q
  <2>1. ASSUME NEW u \in h[n + 1]
        PROVE  \E m \in 0..n + 1 : \E q : u \in h[m] /\ Tree(u, q) /\ Len(q) + m <= Len(s)
    <3>1. CASE u \in h[n]
      <4>1. PICK m \in 0..n : \E q : u \in h[m] /\ Tree(u, q) /\ Len(q) + m <= Len(s)
            BY <1>13, <3>1
      <4>2. m \in 0..n + 1
            OBVIOUS
      <4> QED BY <4>1, <4>2
    <3>2. CASE u \notin h[n]
      <4>1. PICK v \in h[n] \ {Map!Leaf} : u \in {v.left, v.right}
            BY <1>9, <3>2 DEF Under
      <4>9. PICK m \in 0..n : \E q : v \in h[m] /\ Tree(v, q) /\ Len(q) + m <= Len(s)
            BY <1>13, <4>1
      <4>2. PICK q : v \in h[m] /\ Tree(v, q) /\ Len(q) + m <= Len(s)
            BY <4>9
      <4>3. PICK sl, sr : /\ IsNode(v, q, v.left, sl, v.right, sr, v.red, v.key)
                          /\ Len(sl) \in Nat /\ Len(sl) < Len(q)
                          /\ Len(sr) \in Nat /\ Len(sr) < Len(q)
            BY <4>1, <4>2, ChildrenAreTrees
      <4>4. Tree(v.left, sl) /\ Tree(v.right, sr)
            BY <4>3 DEF IsNode
      <4>5. m + 1 \in 0..n + 1 /\ m \in Nat
            OBVIOUS
      <4>6. u \in h[m + 1]
        <5>1. u \in Under(h[m])
              BY <4>1, <4>2 DEF Under
        <5> QED BY <1>9, <4>5, <5>1
      <4>7. Len(q) \in Nat
            BY <4>2, TreeCases
      <4>8. Len(sl) + (m + 1) <= Len(s) /\ Len(sr) + (m + 1) <= Len(s)
            BY <1>10, <4>2, <4>3, <4>5, <4>7
      <4> QED BY <4>1, <4>4, <4>5, <4>6, <4>8
    <3> QED BY <3>1, <3>2
  <2> QED BY <1>11, <2>1
<1> HIDE DEF Q
<1>14. \A n \in Nat : n \in Q
       BY <1>12, <1>13, SetInduction
<1>15. Deep(MaxOpened)
       BY <1>10, <1>14 DEF Q
<1> DEFINE R == {n \in Nat : \A m \in 0..n : h[m] \subseteq h[n]}
<1>16. \A n \in Nat : n \in R
  <2>1. 0 \in R
        OBVIOUS
  <2>2. ASSUME NEW n \in Nat, n \in R
        PROVE  n + 1 \in R
    <3>1. \A m \in 0..n + 1 : m = n + 1 \/ m \in 0..n
          OBVIOUS
    <3> QED BY <1>11, <2>2, <3>1
  <2> HIDE DEF R
  <2> QED BY <2>1, <2>2, SetInduction
<1>17. t \in h[MaxOpened]
  <2>1. 0 \in 0..MaxOpened
        BY <1>10
  <2> QED BY <1>9, <1>10, <1>16, <2>1
<1>18. ASSUME NEW u \in h[MaxOpened]
       PROVE  /\ \E q : Tree(u, q) /\ Len(q) <= Len(s)
              /\ u # Map!Leaf => u.left \in h[MaxOpened] /\ u.right \in h[MaxOpened]
  <2>5. PICK m \in 0..MaxOpened : \E q : u \in h[m] /\ Tree(u, q) /\ Len(q) + m <= Len(s)
        BY <1>15
  <2>1. PICK q : u \in h[m] /\ Tree(u, q) /\ Len(q) + m <= Len(s)
        BY <2>5
  <2>2. Len(q) \in Nat /\ m \in Nat
        BY <2>1, TreeCases
  <2>3. Len(q) <= Len(s)
        BY <1>10, <2>1, <2>2
  <2>4. ASSUME u # Map!Leaf
        PROVE  u.left \in h[MaxOpened] /\ u.right \in h[MaxOpened]
    <3>1. PICK sl, sr : Len(sl) \in Nat /\ Len(sl) < Len(q)
          BY <2>1, <2>4, ChildrenAreTrees
    <3>2. m + 1 \in 0..MaxOpened
          BY <1>10, <2>1, <2>2, <3>1
    <3>3. u.left \in h[m + 1] /\ u.right \in h[m + 1]
      <4>1. u.left \in Under(h[m]) /\ u.right \in Under(h[m])
            BY <2>1, <2>4 DEF Under
      <4> QED BY <1>9, <2>2, <4>1
    <3> QED BY <1>10, <1>16, <3>2, <3>3
  <2> QED BY <2>1, <2>3, <2>4
<1> QED BY <1>8, <1>17, <1>18

-----------------------------------------------------------------------------
(***************************************************************************)
(* What the recursive functions of the map are for a tree whose subtrees   *)
(* Subtrees holds all.                                                     *)
(***************************************************************************)

LEMMA OrderUnfolds ==
    ASSUME NEW t, NEW s, Tree(t, s), Len(s) <= MaxOpened
    PROVE  /\ t = Map!Leaf => Map!InOrder(t) = << >>
           /\ t # Map!Leaf =>
                Map!InOrder(t) = Map!InOrder(t.left) \o <<t.key>> \o Map!InOrder(t.right)
<1> DEFINE E(f, u) ==
               IF u = Map!Leaf THEN << >> ELSE f[u.left] \o <<u.key>> \o f[u.right]
           Solves(f, D) == f = [u \in D |-> E(f, u)]
           H(x) == CHOOSE f : f = [u \in Map!Subtrees(x) |-> E(f, u)]
<1>1. ASSUME NEW u, NEW f, NEW g, u # Map!Leaf => f[u.left] = g[u.left] /\ f[u.right] = g[u.right]
      PROVE  E(f, u) = E(g, u)
      BY <1>1
<1>2. ASSUME NEW x, NEW q, Tree(x, q), Len(q) <= MaxOpened
      PROVE  Solves(H(x), Map!Subtrees(x)) /\ Map!InOrder(x) = H(x)[x]
  <2>1. Map!InOrder(x) = H(x)[x]
        BY DEF Map!InOrder
  <2> DEFINE D == Map!Subtrees(x)
             P == {n \in Nat : \E f : \A u \in D : \A p :
                        Tree(u, p) /\ Len(p) < n => f[u] = E(f, u)}
  <2> HIDE DEF E
  <2>2. \A u \in D : /\ \E p : Tree(u, p) /\ Len(p) <= Len(q)
                     /\ u # Map!Leaf => u.left \in D /\ u.right \in D
        BY <1>2, SubtreesOfATree
  <2>3. \A p, u : Tree(u, p) => Len(p) \in Nat
        BY TreeCases
  <2> HIDE DEF D
  <2>4. 0 \in P
        BY <2>3
  <2>5. ASSUME NEW n \in Nat, n \in P
        PROVE  n + 1 \in P
    <3>1. PICK f : \A u \in D : \A p : Tree(u, p) /\ Len(p) < n => f[u] = E(f, u)
          BY <2>5
    <3> DEFINE h == [u \in D |-> E(f, u)]
    <3>2. ASSUME NEW u \in D, NEW p, Tree(u, p), Len(p) < n + 1
          PROVE  h[u] = E(h, u)
      <4>1. ASSUME u # Map!Leaf
            PROVE  f[u.left] = h[u.left] /\ f[u.right] = h[u.right]
        <5>1. PICK a, b : /\ IsNode(u, p, u.left, a, u.right, b, u.red, u.key)
                          /\ Len(a) \in Nat /\ Len(a) < Len(p)
                          /\ Len(b) \in Nat /\ Len(b) < Len(p)
              BY <3>2, <4>1, ChildrenAreTrees
        <5>2. Len(a) < n /\ Len(b) < n
              BY <2>3, <3>2, <5>1
        <5>3. Tree(u.left, a) /\ Tree(u.right, b)
              BY <5>1 DEF IsNode
        <5> QED BY <2>2, <3>1, <4>1, <5>2, <5>3
      <4>2. E(f, u) = E(h, u)
            BY <1>1, <4>1
      <4> QED BY <4>2
    <3> HIDE DEF h
    <3> QED BY <3>2
  <2> HIDE DEF P
  <2>6. \A n \in Nat : n \in P
        BY <2>4, <2>5, SetInduction
  <2>7. Len(q) + 1 \in Nat /\ \A p : Len(p) \in Nat /\ Len(p) <= Len(q) => Len(p) < Len(q) + 1
        BY <1>2, <2>3
  <2>8. PICK f : \A u \in D : \A p : Tree(u, p) /\ Len(p) < Len(q) + 1 => f[u] = E(f, u)
        BY <2>6, <2>7 DEF P
  <2> DEFINE g == [u \in D |-> f[u]]
  <2>9. ASSUME NEW u \in D
        PROVE  g[u] = E(g, u)
    <3>1. f[u] = E(f, u)
          BY <2>2, <2>3, <2>7, <2>8
    <3>2. E(f, u) = E(g, u)
          BY <1>1, <2>2
    <3> QED BY <3>1, <3>2
  <2>10. Solves(g, D)
    <3>1. g = [u \in D |-> g[u]]
          OBVIOUS
    <3> HIDE DEF g
    <3> QED BY <2>9, <3>1
  <2>11. Solves(H(x), D)
    <3> HIDE DEF g
    <3> QED BY <2>10 DEF D
  <2> QED BY <2>1, <2>11 DEF D
<1> DEFINE Agree == {n \in Nat : \A C, D, f, g, u, p :
                /\ \A v \in C : v # Map!Leaf => v.left \in C /\ v.right \in C
                /\ \A v \in D : v # Map!Leaf => v.left \in D /\ v.right \in D
                /\ Solves(f, C) /\ Solves(g, D)
                /\ u \in C /\ u \in D /\ Tree(u, p) /\ Len(p) < n
                => f[u] = g[u]}
<1>3. \A n \in Nat : n \in Agree
  <2> HIDE DEF E
  <2>1. 0 \in Agree
    <3>1. \A p, u : Tree(u, p) => Len(p) \in Nat
          BY TreeCases
    <3> QED BY <3>1
  <2>2. ASSUME NEW n \in Nat, n \in Agree
        PROVE  n + 1 \in Agree
    <3> SUFFICES ASSUME NEW C, NEW D, NEW f, NEW g, NEW u, NEW p,
                    \A v \in C : v # Map!Leaf => v.left \in C /\ v.right \in C,
                    \A v \in D : v # Map!Leaf => v.left \in D /\ v.right \in D,
                    Solves(f, C), Solves(g, D),
                    u \in C, u \in D, Tree(u, p), Len(p) < n + 1
                 PROVE  f[u] = g[u]
        OBVIOUS
    <3>1. ASSUME u # Map!Leaf
          PROVE  f[u.left] = g[u.left] /\ f[u.right] = g[u.right]
      <4>1. PICK a, b : /\ IsNode(u, p, u.left, a, u.right, b, u.red, u.key)
                        /\ Len(a) \in Nat /\ Len(a) < Len(p)
                        /\ Len(b) \in Nat /\ Len(b) < Len(p)
            BY <3>1, ChildrenAreTrees
      <4>2. Len(p) \in Nat
            BY TreeCases
      <4>3. Len(a) < n /\ Len(b) < n
            BY <4>1, <4>2
      <4>4. Tree(u.left, a) /\ Tree(u.right, b)
            BY <4>1 DEF IsNode
      <4>5. u.left \in C /\ u.right \in C /\ u.left \in D /\ u.right \in D
            BY <3>1
      <4> QED BY <2>2, <4>3, <4>4, <4>5
    <3>2. f[u] = E(f, u) /\ g[u] = E(g, u)
      <4>1. f = [v \in C |-> E(f, v)] /\ g = [v \in D |-> E(g, v)]
            OBVIOUS
      <4> QED BY <4>1
    <3> QED BY <1>1, <3>1, <3>2
  <2> HIDE DEF Agree
  <2> QED BY <2>1, <2>2, SetInduction
<1>4. ASSUME NEW u, NEW a, t # Map!Leaf, u \in {t.left, t.right}, Tree(u, a), Len(a) < Len(s)
      PROVE  Map!InOrder(u) = H(t)[u]
  <2> HIDE DEF E
  <2>1. Len(a) \in Nat /\ Len(s) \in Nat /\ MaxOpened \in Nat
    <3>1. Len(a) \in Nat /\ Len(s) \in Nat
          BY <1>4, TreeCases
    <3> QED BY <3>1, TracesAssumption DEF Map!PairAssumption
  <2>2. Len(a) <= MaxOpened
        BY <1>4, <2>1
  <2>3. Solves(H(u), Map!Subtrees(u)) /\ Map!InOrder(u) = H(u)[u]
        BY <1>2, <1>4, <2>2
  <2>4. Solves(H(t), Map!Subtrees(t))
        BY <1>2
  <2>5. /\ \A v \in Map!Subtrees(t) : v # Map!Leaf =>
                v.left \in Map!Subtrees(t) /\ v.right \in Map!Subtrees(t)
        /\ u \in Map!Subtrees(t)
        BY <1>4, SubtreesOfATree
  <2>6. /\ \A v \in Map!Subtrees(u) : v # Map!Leaf =>
                v.left \in Map!Subtrees(u) /\ v.right \in Map!Subtrees(u)
        /\ u \in Map!Subtrees(u)
        BY <1>4, <2>2, SubtreesOfATree
  <2> HIDE DEF H, Agree
  <2>7. Len(a) + 1 \in Agree /\ Len(a) < Len(a) + 1
        BY <1>3, <2>1
  <2>8. ASSUME NEW C, NEW D, NEW f, NEW g,
               \A v \in C : v # Map!Leaf => v.left \in C /\ v.right \in C,
               \A v \in D : v # Map!Leaf => v.left \in D /\ v.right \in D,
               Solves(f, C), Solves(g, D), u \in C, u \in D
        PROVE  f[u] = g[u]
        BY <1>4, <2>7, <2>8 DEF Agree
  <2>9. H(u)[u] = H(t)[u]
        BY <2>3, <2>4, <2>5, <2>6, <2>8
  <2> QED BY <2>3, <2>9
<1>5. Map!InOrder(t) = E(H(t), t)
  <2> HIDE DEF E
  <2>1. Solves(H(t), Map!Subtrees(t)) /\ Map!InOrder(t) = H(t)[t]
        BY <1>2
  <2>2. t \in Map!Subtrees(t)
        BY SubtreesOfATree
  <2> HIDE DEF H
  <2>3. H(t)[t] = E(H(t), t)
        BY <2>1, <2>2
  <2> QED BY <2>1, <2>3
<1>6. ASSUME t # Map!Leaf
      PROVE  Map!InOrder(t.left) = H(t)[t.left] /\ Map!InOrder(t.right) = H(t)[t.right]
  <2>1. PICK a, b : /\ IsNode(t, s, t.left, a, t.right, b, t.red, t.key)
                    /\ Len(a) \in Nat /\ Len(a) < Len(s)
                    /\ Len(b) \in Nat /\ Len(b) < Len(s)
        BY <1>6, ChildrenAreTrees
  <2>2. Tree(t.left, a) /\ Tree(t.right, b)
        BY <2>1 DEF IsNode
  <2> HIDE DEF H
  <2> QED BY <1>4, <1>6, <2>1, <2>2
<1> HIDE DEF H
<1> QED BY <1>5, <1>6

LEMMA LowerBoundUnfolds ==
    ASSUME NEW t, NEW s, Tree(t, s), Len(s) <= MaxOpened, NEW k
    PROVE  /\ t = Map!Leaf => Map!LowerBound(t, k) = {}
           /\ t # Map!Leaf =>
                Map!LowerBound(t, k) =
                    IF Map!Less(t.key, k) THEN Map!LowerBound(t.right, k)
                    ELSE IF Map!LowerBound(t.left, k) = {} THEN {t.key}
                    ELSE Map!LowerBound(t.left, k)
<1> DEFINE E(f, u) ==
               IF u = Map!Leaf THEN {}
               ELSE IF Map!Less(u.key, k) THEN f[u.right]
               ELSE IF f[u.left] = {} THEN {u.key} ELSE f[u.left]
           Solves(f, D) == f = [u \in D |-> E(f, u)]
           H(x) == CHOOSE f : f = [u \in Map!Subtrees(x) |-> E(f, u)]
<1>1. ASSUME NEW u, NEW f, NEW g, u # Map!Leaf => f[u.left] = g[u.left] /\ f[u.right] = g[u.right]
      PROVE  E(f, u) = E(g, u)
      BY <1>1
<1>2. ASSUME NEW x, NEW q, Tree(x, q), Len(q) <= MaxOpened
      PROVE  Solves(H(x), Map!Subtrees(x)) /\ Map!LowerBound(x, k) = H(x)[x]
  <2>1. Map!LowerBound(x, k) = H(x)[x]
        BY DEF Map!LowerBound
  <2> DEFINE D == Map!Subtrees(x)
             P == {n \in Nat : \E f : \A u \in D : \A p :
                        Tree(u, p) /\ Len(p) < n => f[u] = E(f, u)}
  <2> HIDE DEF E
  <2>2. \A u \in D : /\ \E p : Tree(u, p) /\ Len(p) <= Len(q)
                     /\ u # Map!Leaf => u.left \in D /\ u.right \in D
        BY <1>2, SubtreesOfATree
  <2>3. \A p, u : Tree(u, p) => Len(p) \in Nat
        BY TreeCases
  <2> HIDE DEF D
  <2>4. 0 \in P
        BY <2>3
  <2>5. ASSUME NEW n \in Nat, n \in P
        PROVE  n + 1 \in P
    <3>1. PICK f : \A u \in D : \A p : Tree(u, p) /\ Len(p) < n => f[u] = E(f, u)
          BY <2>5
    <3> DEFINE h == [u \in D |-> E(f, u)]
    <3>2. ASSUME NEW u \in D, NEW p, Tree(u, p), Len(p) < n + 1
          PROVE  h[u] = E(h, u)
      <4>1. ASSUME u # Map!Leaf
            PROVE  f[u.left] = h[u.left] /\ f[u.right] = h[u.right]
        <5>1. PICK a, b : /\ IsNode(u, p, u.left, a, u.right, b, u.red, u.key)
                          /\ Len(a) \in Nat /\ Len(a) < Len(p)
                          /\ Len(b) \in Nat /\ Len(b) < Len(p)
              BY <3>2, <4>1, ChildrenAreTrees
        <5>2. Len(a) < n /\ Len(b) < n
              BY <2>3, <3>2, <5>1
        <5>3. Tree(u.left, a) /\ Tree(u.right, b)
              BY <5>1 DEF IsNode
        <5> QED BY <2>2, <3>1, <4>1, <5>2, <5>3
      <4>2. E(f, u) = E(h, u)
            BY <1>1, <4>1
      <4> QED BY <4>2
    <3> HIDE DEF h
    <3> QED BY <3>2
  <2> HIDE DEF P
  <2>6. \A n \in Nat : n \in P
        BY <2>4, <2>5, SetInduction
  <2>7. Len(q) + 1 \in Nat /\ \A p : Len(p) \in Nat /\ Len(p) <= Len(q) => Len(p) < Len(q) + 1
        BY <1>2, <2>3
  <2>8. PICK f : \A u \in D : \A p : Tree(u, p) /\ Len(p) < Len(q) + 1 => f[u] = E(f, u)
        BY <2>6, <2>7 DEF P
  <2> DEFINE g == [u \in D |-> f[u]]
  <2>9. ASSUME NEW u \in D
        PROVE  g[u] = E(g, u)
    <3>1. f[u] = E(f, u)
          BY <2>2, <2>3, <2>7, <2>8
    <3>2. E(f, u) = E(g, u)
          BY <1>1, <2>2
    <3> QED BY <3>1, <3>2
  <2>10. Solves(g, D)
    <3>1. g = [u \in D |-> g[u]]
          OBVIOUS
    <3> HIDE DEF g
    <3> QED BY <2>9, <3>1
  <2>11. Solves(H(x), D)
    <3> HIDE DEF g
    <3> QED BY <2>10 DEF D
  <2> QED BY <2>1, <2>11 DEF D
<1> DEFINE Agree == {n \in Nat : \A C, D, f, g, u, p :
                /\ \A v \in C : v # Map!Leaf => v.left \in C /\ v.right \in C
                /\ \A v \in D : v # Map!Leaf => v.left \in D /\ v.right \in D
                /\ Solves(f, C) /\ Solves(g, D)
                /\ u \in C /\ u \in D /\ Tree(u, p) /\ Len(p) < n
                => f[u] = g[u]}
<1>3. \A n \in Nat : n \in Agree
  <2> HIDE DEF E
  <2>1. 0 \in Agree
    <3>1. \A p, u : Tree(u, p) => Len(p) \in Nat
          BY TreeCases
    <3> QED BY <3>1
  <2>2. ASSUME NEW n \in Nat, n \in Agree
        PROVE  n + 1 \in Agree
    <3> SUFFICES ASSUME NEW C, NEW D, NEW f, NEW g, NEW u, NEW p,
                    \A v \in C : v # Map!Leaf => v.left \in C /\ v.right \in C,
                    \A v \in D : v # Map!Leaf => v.left \in D /\ v.right \in D,
                    Solves(f, C), Solves(g, D),
                    u \in C, u \in D, Tree(u, p), Len(p) < n + 1
                 PROVE  f[u] = g[u]
        OBVIOUS
    <3>1. ASSUME u # Map!Leaf
          PROVE  f[u.left] = g[u.left] /\ f[u.right] = g[u.right]
      <4>1. PICK a, b : /\ IsNode(u, p, u.left, a, u.right, b, u.red, u.key)
                        /\ Len(a) \in Nat /\ Len(a) < Len(p)
                        /\ Len(b) \in Nat /\ Len(b) < Len(p)
            BY <3>1, ChildrenAreTrees
      <4>2. Len(p) \in Nat
            BY TreeCases
      <4>3. Len(a) < n /\ Len(b) < n
            BY <4>1, <4>2
      <4>4. Tree(u.left, a) /\ Tree(u.right, b)
            BY <4>1 DEF IsNode
      <4>5. u.left \in C /\ u.right \in C /\ u.left \in D /\ u.right \in D
            BY <3>1
      <4> QED BY <2>2, <4>3, <4>4, <4>5
    <3>2. f[u] = E(f, u) /\ g[u] = E(g, u)
      <4>1. f = [v \in C |-> E(f, v)] /\ g = [v \in D |-> E(g, v)]
            OBVIOUS
      <4> QED BY <4>1
    <3> QED BY <1>1, <3>1, <3>2
  <2> HIDE DEF Agree
  <2> QED BY <2>1, <2>2, SetInduction
<1>4. ASSUME NEW u, NEW a, t # Map!Leaf, u \in {t.left, t.right}, Tree(u, a), Len(a) < Len(s)
      PROVE  Map!LowerBound(u, k) = H(t)[u]
  <2> HIDE DEF E
  <2>1. Len(a) \in Nat /\ Len(s) \in Nat /\ MaxOpened \in Nat
    <3>1. Len(a) \in Nat /\ Len(s) \in Nat
          BY <1>4, TreeCases
    <3> QED BY <3>1, TracesAssumption DEF Map!PairAssumption
  <2>2. Len(a) <= MaxOpened
        BY <1>4, <2>1
  <2>3. Solves(H(u), Map!Subtrees(u)) /\ Map!LowerBound(u, k) = H(u)[u]
        BY <1>2, <1>4, <2>2
  <2>4. Solves(H(t), Map!Subtrees(t))
        BY <1>2
  <2>5. /\ \A v \in Map!Subtrees(t) : v # Map!Leaf =>
                v.left \in Map!Subtrees(t) /\ v.right \in Map!Subtrees(t)
        /\ u \in Map!Subtrees(t)
        BY <1>4, SubtreesOfATree
  <2>6. /\ \A v \in Map!Subtrees(u) : v # Map!Leaf =>
                v.left \in Map!Subtrees(u) /\ v.right \in Map!Subtrees(u)
        /\ u \in Map!Subtrees(u)
        BY <1>4, <2>2, SubtreesOfATree
  <2> HIDE DEF H, Agree
  <2>7. Len(a) + 1 \in Agree /\ Len(a) < Len(a) + 1
        BY <1>3, <2>1
  <2>8. ASSUME NEW C, NEW D, NEW f, NEW g,
               \A v \in C : v # Map!Leaf => v.left \in C /\ v.right \in C,
               \A v \in D : v # Map!Leaf => v.left \in D /\ v.right \in D,
               Solves(f, C), Solves(g, D), u \in C, u \in D
        PROVE  f[u] = g[u]
        BY <1>4, <2>7, <2>8 DEF Agree
  <2>9. H(u)[u] = H(t)[u]
        BY <2>3, <2>4, <2>5, <2>6, <2>8
  <2> QED BY <2>3, <2>9
<1>5. Map!LowerBound(t, k) = E(H(t), t)
  <2> HIDE DEF E
  <2>1. Solves(H(t), Map!Subtrees(t)) /\ Map!LowerBound(t, k) = H(t)[t]
        BY <1>2
  <2>2. t \in Map!Subtrees(t)
        BY SubtreesOfATree
  <2> HIDE DEF H
  <2>3. H(t)[t] = E(H(t), t)
        BY <2>1, <2>2
  <2> QED BY <2>1, <2>3
<1>6. ASSUME t # Map!Leaf
      PROVE  Map!LowerBound(t.left, k) = H(t)[t.left] /\ Map!LowerBound(t.right, k) = H(t)[t.right]
  <2>1. PICK a, b : /\ IsNode(t, s, t.left, a, t.right, b, t.red, t.key)
                    /\ Len(a) \in Nat /\ Len(a) < Len(s)
                    /\ Len(b) \in Nat /\ Len(b) < Len(s)
        BY <1>6, ChildrenAreTrees
  <2>2. Tree(t.left, a) /\ Tree(t.right, b)
        BY <2>1 DEF IsNode
  <2> HIDE DEF H
  <2> QED BY <1>4, <1>6, <2>1, <2>2
<1> HIDE DEF H
<1> QED BY <1>5, <1>6

LEMMA BeforeUnfolds ==
    ASSUME NEW t, NEW s, Tree(t, s), Len(s) <= MaxOpened, NEW k
    PROVE  /\ t = Map!Leaf => Map!Before(t, k) = {}
           /\ t # Map!Leaf =>
                Map!Before(t, k) =
                    IF Map!Less(k, t.key) THEN Map!Before(t.left, k)
                    ELSE IF Map!Before(t.right, k) = {} THEN {t.key}
                    ELSE Map!Before(t.right, k)
<1> DEFINE E(f, u) ==
               IF u = Map!Leaf THEN {}
               ELSE IF Map!Less(k, u.key) THEN f[u.left]
               ELSE IF f[u.right] = {} THEN {u.key} ELSE f[u.right]
           Solves(f, D) == f = [u \in D |-> E(f, u)]
           H(x) == CHOOSE f : f = [u \in Map!Subtrees(x) |-> E(f, u)]
<1>1. ASSUME NEW u, NEW f, NEW g, u # Map!Leaf => f[u.left] = g[u.left] /\ f[u.right] = g[u.right]
      PROVE  E(f, u) = E(g, u)
      BY <1>1
<1>2. ASSUME NEW x, NEW q, Tree(x, q), Len(q) <= MaxOpened
      PROVE  Solves(H(x), Map!Subtrees(x)) /\ Map!Before(x, k) = H(x)[x]
  <2>1. Map!Before(x, k) = H(x)[x]
        BY DEF Map!Before
  <2> DEFINE D == Map!Subtrees(x)
             P == {n \in Nat : \E f : \A u \in D : \A p :
                        Tree(u, p) /\ Len(p) < n => f[u] = E(f, u)}
  <2> HIDE DEF E
  <2>2. \A u \in D : /\ \E p : Tree(u, p) /\ Len(p) <= Len(q)
                     /\ u # Map!Leaf => u.left \in D /\ u.right \in D
        BY <1>2, SubtreesOfATree
  <2>3. \A p, u : Tree(u, p) => Len(p) \in Nat
        BY TreeCases
  <2> HIDE DEF D
  <2>4. 0 \in P
        BY <2>3
  <2>5. ASSUME NEW n \in Nat, n \in P
        PROVE  n + 1 \in P
    <3>1. PICK f : \A u \in D : \A p : Tree(u, p) /\ Len(p) < n => f[u] = E(f, u)
          BY <2>5
    <3> DEFINE h == [u \in D |-> E(f, u)]
    <3>2. ASSUME NEW u \in D, NEW p, Tree(u, p), Len(p) < n + 1
          PROVE  h[u] = E(h, u)
      <4>1. ASSUME u # Map!Leaf
            PROVE  f[u.left] = h[u.left] /\ f[u.right] = h[u.right]
        <5>1. PICK a, b : /\ IsNode(u, p, u.left, a, u.right, b, u.red, u.key)
                          /\ Len(a) \in Nat /\ Len(a) < Len(p)
                          /\ Len(b) \in Nat /\ Len(b) < Len(p)
              BY <3>2, <4>1, ChildrenAreTrees
        <5>2. Len(a) < n /\ Len(b) < n
              BY <2>3, <3>2, <5>1
        <5>3. Tree(u.left, a) /\ Tree(u.right, b)
              BY <5>1 DEF IsNode
        <5> QED BY <2>2, <3>1, <4>1, <5>2, <5>3
      <4>2. E(f, u) = E(h, u)
            BY <1>1, <4>1
      <4> QED BY <4>2
    <3> HIDE DEF h
    <3> QED BY <3>2
  <2> HIDE DEF P
  <2>6. \A n \in Nat : n \in P
        BY <2>4, <2>5, SetInduction
  <2>7. Len(q) + 1 \in Nat /\ \A p : Len(p) \in Nat /\ Len(p) <= Len(q) => Len(p) < Len(q) + 1
        BY <1>2, <2>3
  <2>8. PICK f : \A u \in D : \A p : Tree(u, p) /\ Len(p) < Len(q) + 1 => f[u] = E(f, u)
        BY <2>6, <2>7 DEF P
  <2> DEFINE g == [u \in D |-> f[u]]
  <2>9. ASSUME NEW u \in D
        PROVE  g[u] = E(g, u)
    <3>1. f[u] = E(f, u)
          BY <2>2, <2>3, <2>7, <2>8
    <3>2. E(f, u) = E(g, u)
          BY <1>1, <2>2
    <3> QED BY <3>1, <3>2
  <2>10. Solves(g, D)
    <3>1. g = [u \in D |-> g[u]]
          OBVIOUS
    <3> HIDE DEF g
    <3> QED BY <2>9, <3>1
  <2>11. Solves(H(x), D)
    <3> HIDE DEF g
    <3> QED BY <2>10 DEF D
  <2> QED BY <2>1, <2>11 DEF D
<1> DEFINE Agree == {n \in Nat : \A C, D, f, g, u, p :
                /\ \A v \in C : v # Map!Leaf => v.left \in C /\ v.right \in C
                /\ \A v \in D : v # Map!Leaf => v.left \in D /\ v.right \in D
                /\ Solves(f, C) /\ Solves(g, D)
                /\ u \in C /\ u \in D /\ Tree(u, p) /\ Len(p) < n
                => f[u] = g[u]}
<1>3. \A n \in Nat : n \in Agree
  <2> HIDE DEF E
  <2>1. 0 \in Agree
    <3>1. \A p, u : Tree(u, p) => Len(p) \in Nat
          BY TreeCases
    <3> QED BY <3>1
  <2>2. ASSUME NEW n \in Nat, n \in Agree
        PROVE  n + 1 \in Agree
    <3> SUFFICES ASSUME NEW C, NEW D, NEW f, NEW g, NEW u, NEW p,
                    \A v \in C : v # Map!Leaf => v.left \in C /\ v.right \in C,
                    \A v \in D : v # Map!Leaf => v.left \in D /\ v.right \in D,
                    Solves(f, C), Solves(g, D),
                    u \in C, u \in D, Tree(u, p), Len(p) < n + 1
                 PROVE  f[u] = g[u]
        OBVIOUS
    <3>1. ASSUME u # Map!Leaf
          PROVE  f[u.left] = g[u.left] /\ f[u.right] = g[u.right]
      <4>1. PICK a, b : /\ IsNode(u, p, u.left, a, u.right, b, u.red, u.key)
                        /\ Len(a) \in Nat /\ Len(a) < Len(p)
                        /\ Len(b) \in Nat /\ Len(b) < Len(p)
            BY <3>1, ChildrenAreTrees
      <4>2. Len(p) \in Nat
            BY TreeCases
      <4>3. Len(a) < n /\ Len(b) < n
            BY <4>1, <4>2
      <4>4. Tree(u.left, a) /\ Tree(u.right, b)
            BY <4>1 DEF IsNode
      <4>5. u.left \in C /\ u.right \in C /\ u.left \in D /\ u.right \in D
            BY <3>1
      <4> QED BY <2>2, <4>3, <4>4, <4>5
    <3>2. f[u] = E(f, u) /\ g[u] = E(g, u)
      <4>1. f = [v \in C |-> E(f, v)] /\ g = [v \in D |-> E(g, v)]
            OBVIOUS
      <4> QED BY <4>1
    <3> QED BY <1>1, <3>1, <3>2
  <2> HIDE DEF Agree
  <2> QED BY <2>1, <2>2, SetInduction
<1>4. ASSUME NEW u, NEW a, t # Map!Leaf, u \in {t.left, t.right}, Tree(u, a), Len(a) < Len(s)
      PROVE  Map!Before(u, k) = H(t)[u]
  <2> HIDE DEF E
  <2>1. Len(a) \in Nat /\ Len(s) \in Nat /\ MaxOpened \in Nat
    <3>1. Len(a) \in Nat /\ Len(s) \in Nat
          BY <1>4, TreeCases
    <3> QED BY <3>1, TracesAssumption DEF Map!PairAssumption
  <2>2. Len(a) <= MaxOpened
        BY <1>4, <2>1
  <2>3. Solves(H(u), Map!Subtrees(u)) /\ Map!Before(u, k) = H(u)[u]
        BY <1>2, <1>4, <2>2
  <2>4. Solves(H(t), Map!Subtrees(t))
        BY <1>2
  <2>5. /\ \A v \in Map!Subtrees(t) : v # Map!Leaf =>
                v.left \in Map!Subtrees(t) /\ v.right \in Map!Subtrees(t)
        /\ u \in Map!Subtrees(t)
        BY <1>4, SubtreesOfATree
  <2>6. /\ \A v \in Map!Subtrees(u) : v # Map!Leaf =>
                v.left \in Map!Subtrees(u) /\ v.right \in Map!Subtrees(u)
        /\ u \in Map!Subtrees(u)
        BY <1>4, <2>2, SubtreesOfATree
  <2> HIDE DEF H, Agree
  <2>7. Len(a) + 1 \in Agree /\ Len(a) < Len(a) + 1
        BY <1>3, <2>1
  <2>8. ASSUME NEW C, NEW D, NEW f, NEW g,
               \A v \in C : v # Map!Leaf => v.left \in C /\ v.right \in C,
               \A v \in D : v # Map!Leaf => v.left \in D /\ v.right \in D,
               Solves(f, C), Solves(g, D), u \in C, u \in D
        PROVE  f[u] = g[u]
        BY <1>4, <2>7, <2>8 DEF Agree
  <2>9. H(u)[u] = H(t)[u]
        BY <2>3, <2>4, <2>5, <2>6, <2>8
  <2> QED BY <2>3, <2>9
<1>5. Map!Before(t, k) = E(H(t), t)
  <2> HIDE DEF E
  <2>1. Solves(H(t), Map!Subtrees(t)) /\ Map!Before(t, k) = H(t)[t]
        BY <1>2
  <2>2. t \in Map!Subtrees(t)
        BY SubtreesOfATree
  <2> HIDE DEF H
  <2>3. H(t)[t] = E(H(t), t)
        BY <2>1, <2>2
  <2> QED BY <2>1, <2>3
<1>6. ASSUME t # Map!Leaf
      PROVE  Map!Before(t.left, k) = H(t)[t.left] /\ Map!Before(t.right, k) = H(t)[t.right]
  <2>1. PICK a, b : /\ IsNode(t, s, t.left, a, t.right, b, t.red, t.key)
                    /\ Len(a) \in Nat /\ Len(a) < Len(s)
                    /\ Len(b) \in Nat /\ Len(b) < Len(s)
        BY <1>6, ChildrenAreTrees
  <2>2. Tree(t.left, a) /\ Tree(t.right, b)
        BY <2>1 DEF IsNode
  <2> HIDE DEF H
  <2> QED BY <1>4, <1>6, <2>1, <2>2
<1> HIDE DEF H
<1> QED BY <1>5, <1>6

LEMMA PutUnfolds ==
    ASSUME NEW t, NEW s, Tree(t, s), Len(s) <= MaxOpened, NEW k
    PROVE  /\ t = Map!Leaf => Map!Put(t, k) = Map!Node(TRUE, Map!Leaf, k, Map!Leaf)
           /\ t # Map!Leaf =>
                Map!Put(t, k) =
                    IF Map!Less(k, t.key)
                    THEN Map!Rebalance([t EXCEPT !.left = Map!Put(t.left, k)])
                    ELSE Map!Rebalance([t EXCEPT !.right = Map!Put(t.right, k)])
<1> DEFINE E(f, u) ==
               IF u = Map!Leaf THEN Map!Node(TRUE, Map!Leaf, k, Map!Leaf)
               ELSE IF Map!Less(k, u.key)
               THEN Map!Rebalance([u EXCEPT !.left = f[u.left]])
               ELSE Map!Rebalance([u EXCEPT !.right = f[u.right]])
           Solves(f, D) == f = [u \in D |-> E(f, u)]
           H(x) == CHOOSE f : f = [u \in Map!Subtrees(x) |-> E(f, u)]
<1>1. ASSUME NEW u, NEW f, NEW g, u # Map!Leaf => f[u.left] = g[u.left] /\ f[u.right] = g[u.right]
      PROVE  E(f, u) = E(g, u)
      BY <1>1
<1>2. ASSUME NEW x, NEW q, Tree(x, q), Len(q) <= MaxOpened
      PROVE  Solves(H(x), Map!Subtrees(x)) /\ Map!Put(x, k) = H(x)[x]
  <2>1. Map!Put(x, k) = H(x)[x]
        BY DEF Map!Put
  <2> DEFINE D == Map!Subtrees(x)
             P == {n \in Nat : \E f : \A u \in D : \A p :
                        Tree(u, p) /\ Len(p) < n => f[u] = E(f, u)}
  <2> HIDE DEF E
  <2>2. \A u \in D : /\ \E p : Tree(u, p) /\ Len(p) <= Len(q)
                     /\ u # Map!Leaf => u.left \in D /\ u.right \in D
        BY <1>2, SubtreesOfATree
  <2>3. \A p, u : Tree(u, p) => Len(p) \in Nat
        BY TreeCases
  <2> HIDE DEF D
  <2>4. 0 \in P
        BY <2>3
  <2>5. ASSUME NEW n \in Nat, n \in P
        PROVE  n + 1 \in P
    <3>1. PICK f : \A u \in D : \A p : Tree(u, p) /\ Len(p) < n => f[u] = E(f, u)
          BY <2>5
    <3> DEFINE h == [u \in D |-> E(f, u)]
    <3>2. ASSUME NEW u \in D, NEW p, Tree(u, p), Len(p) < n + 1
          PROVE  h[u] = E(h, u)
      <4>1. ASSUME u # Map!Leaf
            PROVE  f[u.left] = h[u.left] /\ f[u.right] = h[u.right]
        <5>1. PICK a, b : /\ IsNode(u, p, u.left, a, u.right, b, u.red, u.key)
                          /\ Len(a) \in Nat /\ Len(a) < Len(p)
                          /\ Len(b) \in Nat /\ Len(b) < Len(p)
              BY <3>2, <4>1, ChildrenAreTrees
        <5>2. Len(a) < n /\ Len(b) < n
              BY <2>3, <3>2, <5>1
        <5>3. Tree(u.left, a) /\ Tree(u.right, b)
              BY <5>1 DEF IsNode
        <5> QED BY <2>2, <3>1, <4>1, <5>2, <5>3
      <4>2. E(f, u) = E(h, u)
            BY <1>1, <4>1
      <4> QED BY <4>2
    <3> HIDE DEF h
    <3> QED BY <3>2
  <2> HIDE DEF P
  <2>6. \A n \in Nat : n \in P
        BY <2>4, <2>5, SetInduction
  <2>7. Len(q) + 1 \in Nat /\ \A p : Len(p) \in Nat /\ Len(p) <= Len(q) => Len(p) < Len(q) + 1
        BY <1>2, <2>3
  <2>8. PICK f : \A u \in D : \A p : Tree(u, p) /\ Len(p) < Len(q) + 1 => f[u] = E(f, u)
        BY <2>6, <2>7 DEF P
  <2> DEFINE g == [u \in D |-> f[u]]
  <2>9. ASSUME NEW u \in D
        PROVE  g[u] = E(g, u)
    <3>1. f[u] = E(f, u)
          BY <2>2, <2>3, <2>7, <2>8
    <3>2. E(f, u) = E(g, u)
          BY <1>1, <2>2
    <3> QED BY <3>1, <3>2
  <2>10. Solves(g, D)
    <3>1. g = [u \in D |-> g[u]]
          OBVIOUS
    <3> HIDE DEF g
    <3> QED BY <2>9, <3>1
  <2>11. Solves(H(x), D)
    <3> HIDE DEF g
    <3> QED BY <2>10 DEF D
  <2> QED BY <2>1, <2>11 DEF D
<1> DEFINE Agree == {n \in Nat : \A C, D, f, g, u, p :
                /\ \A v \in C : v # Map!Leaf => v.left \in C /\ v.right \in C
                /\ \A v \in D : v # Map!Leaf => v.left \in D /\ v.right \in D
                /\ Solves(f, C) /\ Solves(g, D)
                /\ u \in C /\ u \in D /\ Tree(u, p) /\ Len(p) < n
                => f[u] = g[u]}
<1>3. \A n \in Nat : n \in Agree
  <2> HIDE DEF E
  <2>1. 0 \in Agree
    <3>1. \A p, u : Tree(u, p) => Len(p) \in Nat
          BY TreeCases
    <3> QED BY <3>1
  <2>2. ASSUME NEW n \in Nat, n \in Agree
        PROVE  n + 1 \in Agree
    <3> SUFFICES ASSUME NEW C, NEW D, NEW f, NEW g, NEW u, NEW p,
                    \A v \in C : v # Map!Leaf => v.left \in C /\ v.right \in C,
                    \A v \in D : v # Map!Leaf => v.left \in D /\ v.right \in D,
                    Solves(f, C), Solves(g, D),
                    u \in C, u \in D, Tree(u, p), Len(p) < n + 1
                 PROVE  f[u] = g[u]
        OBVIOUS
    <3>1. ASSUME u # Map!Leaf
          PROVE  f[u.left] = g[u.left] /\ f[u.right] = g[u.right]
      <4>1. PICK a, b : /\ IsNode(u, p, u.left, a, u.right, b, u.red, u.key)
                        /\ Len(a) \in Nat /\ Len(a) < Len(p)
                        /\ Len(b) \in Nat /\ Len(b) < Len(p)
            BY <3>1, ChildrenAreTrees
      <4>2. Len(p) \in Nat
            BY TreeCases
      <4>3. Len(a) < n /\ Len(b) < n
            BY <4>1, <4>2
      <4>4. Tree(u.left, a) /\ Tree(u.right, b)
            BY <4>1 DEF IsNode
      <4>5. u.left \in C /\ u.right \in C /\ u.left \in D /\ u.right \in D
            BY <3>1
      <4> QED BY <2>2, <4>3, <4>4, <4>5
    <3>2. f[u] = E(f, u) /\ g[u] = E(g, u)
      <4>1. f = [v \in C |-> E(f, v)] /\ g = [v \in D |-> E(g, v)]
            OBVIOUS
      <4> QED BY <4>1
    <3> QED BY <1>1, <3>1, <3>2
  <2> HIDE DEF Agree
  <2> QED BY <2>1, <2>2, SetInduction
<1>4. ASSUME NEW u, NEW a, t # Map!Leaf, u \in {t.left, t.right}, Tree(u, a), Len(a) < Len(s)
      PROVE  Map!Put(u, k) = H(t)[u]
  <2> HIDE DEF E
  <2>1. Len(a) \in Nat /\ Len(s) \in Nat /\ MaxOpened \in Nat
    <3>1. Len(a) \in Nat /\ Len(s) \in Nat
          BY <1>4, TreeCases
    <3> QED BY <3>1, TracesAssumption DEF Map!PairAssumption
  <2>2. Len(a) <= MaxOpened
        BY <1>4, <2>1
  <2>3. Solves(H(u), Map!Subtrees(u)) /\ Map!Put(u, k) = H(u)[u]
        BY <1>2, <1>4, <2>2
  <2>4. Solves(H(t), Map!Subtrees(t))
        BY <1>2
  <2>5. /\ \A v \in Map!Subtrees(t) : v # Map!Leaf =>
                v.left \in Map!Subtrees(t) /\ v.right \in Map!Subtrees(t)
        /\ u \in Map!Subtrees(t)
        BY <1>4, SubtreesOfATree
  <2>6. /\ \A v \in Map!Subtrees(u) : v # Map!Leaf =>
                v.left \in Map!Subtrees(u) /\ v.right \in Map!Subtrees(u)
        /\ u \in Map!Subtrees(u)
        BY <1>4, <2>2, SubtreesOfATree
  <2> HIDE DEF H, Agree
  <2>7. Len(a) + 1 \in Agree /\ Len(a) < Len(a) + 1
        BY <1>3, <2>1
  <2>8. ASSUME NEW C, NEW D, NEW f, NEW g,
               \A v \in C : v # Map!Leaf => v.left \in C /\ v.right \in C,
               \A v \in D : v # Map!Leaf => v.left \in D /\ v.right \in D,
               Solves(f, C), Solves(g, D), u \in C, u \in D
        PROVE  f[u] = g[u]
        BY <1>4, <2>7, <2>8 DEF Agree
  <2>9. H(u)[u] = H(t)[u]
        BY <2>3, <2>4, <2>5, <2>6, <2>8
  <2> QED BY <2>3, <2>9
<1>5. Map!Put(t, k) = E(H(t), t)
  <2> HIDE DEF E
  <2>1. Solves(H(t), Map!Subtrees(t)) /\ Map!Put(t, k) = H(t)[t]
        BY <1>2
  <2>2. t \in Map!Subtrees(t)
        BY SubtreesOfATree
  <2> HIDE DEF H
  <2>3. H(t)[t] = E(H(t), t)
        BY <2>1, <2>2
  <2> QED BY <2>1, <2>3
<1>6. ASSUME t # Map!Leaf
      PROVE  Map!Put(t.left, k) = H(t)[t.left] /\ Map!Put(t.right, k) = H(t)[t.right]
  <2>1. PICK a, b : /\ IsNode(t, s, t.left, a, t.right, b, t.red, t.key)
                    /\ Len(a) \in Nat /\ Len(a) < Len(s)
                    /\ Len(b) \in Nat /\ Len(b) < Len(s)
        BY <1>6, ChildrenAreTrees
  <2>2. Tree(t.left, a) /\ Tree(t.right, b)
        BY <2>1 DEF IsNode
  <2> HIDE DEF H
  <2> QED BY <1>4, <1>6, <2>1, <2>2
<1> HIDE DEF H
<1> QED BY <1>5, <1>6

-----------------------------------------------------------------------------
(***************************************************************************)
(* What the functions of the map compute.  A search goes down to a place   *)
(* between two neighbours of the order, whatever the comparison does: all  *)
(* that is known of that place is how k compares with those two.           *)
(***************************************************************************)

\* The order of a tree that is no leaf, by its places.
NodeAt(t, s, p, q) ==
    /\ Tree(t.left, p) /\ Tree(t.right, q)
    /\ t.key \in Map!Pairs /\ t.red \in BOOLEAN
    /\ t = Map!Node(t.red, t.left, t.key, t.right)
    /\ s = Around(p, t.key, q)
    /\ p \in Seq(Map!Pairs) /\ q \in Seq(Map!Pairs)
    /\ Len(p) \in Nat /\ Len(q) \in Nat
    /\ Len(s) = Len(p) + 1 + Len(q)
    /\ \A i \in 1..Len(p) : s[i] = p[i]
    /\ s[Len(p) + 1] = t.key
    /\ \A i \in 1..Len(q) : s[Len(p) + 1 + i] = q[i]

LEMMA NodeOrder ==
    ASSUME NEW t, NEW s, Tree(t, s), t # Map!Leaf
    PROVE  \E p, q : NodeAt(t, s, p, q)
<1>1. PICK p, q : IsNode(t, s, t.left, p, t.right, q, t.red, t.key)
      BY ChildrenAreTrees
<1>2. /\ Tree(t.left, p) /\ Tree(t.right, q)
      /\ t.key \in Map!Pairs /\ t.red \in BOOLEAN
      /\ t = Map!Node(t.red, t.left, t.key, t.right)
      /\ s = Around(p, t.key, q)
      /\ p \in Seq(Map!Pairs) /\ q \in Seq(Map!Pairs)
      BY <1>1 DEF IsNode
<1>3. Len(p) \in Nat /\ Len(q) \in Nat
      BY <1>2
<1>4. Between(s, p, t.key, q)
      BY <1>2, KeyBetween
<1>5. NodeAt(t, s, p, q)
      BY <1>2, <1>3, <1>4 DEF NodeAt, Between
<1> QED BY <1>5

LEMMA OrderOfATree ==
    ASSUME NEW t, NEW s, Tree(t, s), Len(s) <= MaxOpened
    PROVE  Map!InOrder(t) = s
<1> DEFINE P == {n \in Nat : \A u, r : Tree(u, r) /\ Len(r) < n /\ Len(r) <= MaxOpened
                                => Map!InOrder(u) = r}
<1>1. \A u, r : Tree(u, r) => r \in Seq(Map!Pairs) /\ Len(r) \in Nat
      BY TreeCases
<1>2. MaxOpened \in Nat
      BY TracesAssumption DEF Map!PairAssumption
<1>3. 0 \in P
      BY <1>1
<1>4. ASSUME NEW n \in Nat, n \in P
      PROVE  n + 1 \in P
  <2> SUFFICES ASSUME NEW u, NEW r, Tree(u, r), Len(r) < n + 1, Len(r) <= MaxOpened
               PROVE  Map!InOrder(u) = r
      OBVIOUS
  <2>1. CASE u = Map!Leaf
    <3>1. r = << >>
          BY <2>1, TreeCases
    <3> QED BY <2>1, <3>1, OrderUnfolds
  <2>2. CASE u # Map!Leaf
    <3>0. PICK p, q : NodeAt(u, r, p, q)
          BY <2>2, NodeOrder
    <3>1. /\ Tree(u.left, p) /\ Tree(u.right, q) /\ r = Around(p, u.key, q)
          /\ Len(p) \in Nat /\ Len(q) \in Nat /\ Len(r) = Len(p) + 1 + Len(q)
          BY <3>0 DEF NodeAt
    <3>2. Len(p) < n /\ Len(q) < n /\ Len(p) <= MaxOpened /\ Len(q) <= MaxOpened
          BY <1>2, <3>1
    <3>3. Map!InOrder(u.left) = p /\ Map!InOrder(u.right) = q
          BY <1>4, <3>1, <3>2
    <3>4. Map!InOrder(u) = Map!InOrder(u.left) \o <<u.key>> \o Map!InOrder(u.right)
          BY <2>2, OrderUnfolds
    <3> QED BY <3>1, <3>3, <3>4 DEF Around
  <2> QED BY <2>1, <2>2
<1> HIDE DEF P
<1>5. \A n \in Nat : n \in P
      BY <1>3, <1>4, SetInduction
<1>6. Len(s) + 1 \in Nat /\ Len(s) < Len(s) + 1
      BY <1>1
<1> QED BY <1>5, <1>6 DEF P

\* The place LowerBound finds: n keys are before it.
LowerAt(t, s, k, n) ==
    /\ n \in 0..Len(s)
    /\ n > 0 => Map!Less(s[n], k)
    /\ n < Len(s) => ~Map!Less(s[n + 1], k)
    /\ Map!LowerBound(t, k) = IF n = Len(s) THEN {} ELSE {s[n + 1]}

LEMMA LowerBoundSplits ==
    ASSUME NEW t, NEW s, Tree(t, s), Len(s) <= MaxOpened, NEW k
    PROVE  \E n : LowerAt(t, s, k, n)
<1> DEFINE P == {n \in Nat : \A u, r : Tree(u, r) /\ Len(r) < n /\ Len(r) <= MaxOpened
                                => \E m : LowerAt(u, r, k, m)}
<1>1. \A u, r : Tree(u, r) => r \in Seq(Map!Pairs) /\ Len(r) \in Nat
      BY TreeCases
<1>2. MaxOpened \in Nat
      BY TracesAssumption DEF Map!PairAssumption
<1>3. 0 \in P
      BY <1>1
<1>4. ASSUME NEW n \in Nat, n \in P
      PROVE  n + 1 \in P
  <2> SUFFICES ASSUME NEW u, NEW r, Tree(u, r), Len(r) < n + 1, Len(r) <= MaxOpened
               PROVE  \E m : LowerAt(u, r, k, m)
      OBVIOUS
  <2>1. CASE u = Map!Leaf
    <3>1. r = << >> /\ Len(r) = 0
          BY <2>1, TreeCases
    <3>2. Map!LowerBound(u, k) = {}
          BY <2>1, LowerBoundUnfolds
    <3>3. LowerAt(u, r, k, 0)
          BY <3>1, <3>2 DEF LowerAt
    <3> QED BY <3>3
  <2>2. CASE u # Map!Leaf
    <3>0. PICK p, q : NodeAt(u, r, p, q)
          BY <2>2, NodeOrder
    <3>1. /\ Tree(u.left, p) /\ Tree(u.right, q)
          /\ Len(p) \in Nat /\ Len(q) \in Nat /\ Len(r) = Len(p) + 1 + Len(q)
          /\ \A i \in 1..Len(p) : r[i] = p[i]
          /\ r[Len(p) + 1] = u.key
          /\ \A i \in 1..Len(q) : r[Len(p) + 1 + i] = q[i]
          BY <3>0 DEF NodeAt
    <3>2. Len(p) < n /\ Len(q) < n /\ Len(p) <= MaxOpened /\ Len(q) <= MaxOpened
          BY <1>2, <3>1
    <3>3. Map!LowerBound(u, k) =
              IF Map!Less(u.key, k) THEN Map!LowerBound(u.right, k)
              ELSE IF Map!LowerBound(u.left, k) = {} THEN {u.key}
              ELSE Map!LowerBound(u.left, k)
          BY <2>2, LowerBoundUnfolds
    <3>4. CASE Map!Less(u.key, k)
      <4>1. PICK m : LowerAt(u.right, q, k, m)
            BY <1>4, <3>1, <3>2
      <4>2. m \in 0..Len(q)
            BY <4>1 DEF LowerAt
      <4> DEFINE j == Len(p) + 1 + m
      <4>3. j \in 0..Len(r) /\ j > 0 /\ (j = Len(r) <=> m = Len(q)) /\ (j < Len(r) <=> m < Len(q))
        <5>1. m \in Nat /\ m <= Len(q) /\ Len(p) \in Nat /\ Len(q) \in Nat
              BY <3>1, <4>2
        <5>2. Len(r) = Len(p) + 1 + Len(q)
              BY <3>1
        <5>3. j \in 0..Len(r) /\ j > 0
              BY <5>1, <5>2
        <5>4. j = Len(r) <=> m = Len(q)
              BY <5>1, <5>2
        <5>5. j < Len(r) <=> m < Len(q)
              BY <5>1, <5>2
        <5> QED BY <5>3, <5>4, <5>5
      <4>4. ASSUME m > 0
            PROVE  r[j] = q[m]
        <5>1. m \in 1..Len(q)
              BY <3>1, <4>2, <4>4
        <5> QED BY <3>1, <5>1
      <4>5. ASSUME m = 0
            PROVE  r[j] = u.key
        <5>1. j = Len(p) + 1
              BY <3>1, <4>5
        <5> QED BY <3>1, <5>1
      <4>6. m < Len(q) => r[j + 1] = q[m + 1]
        <5>1. j + 1 = Len(p) + 1 + (m + 1) /\ (m < Len(q) => m + 1 \in 1..Len(q))
              BY <3>1, <4>2
        <5> QED BY <3>1, <5>1
      <4>7. /\ m > 0 => Map!Less(q[m], k)
            /\ m < Len(q) => ~Map!Less(q[m + 1], k)
            /\ Map!LowerBound(u.right, k) = IF m = Len(q) THEN {} ELSE {q[m + 1]}
            BY <4>1 DEF LowerAt
      <4> HIDE DEF j
      <4>8. m > 0 \/ m = 0
            BY <3>1, <4>2
      <4>9. Map!Less(r[j], k)
            BY <3>4, <4>4, <4>5, <4>7, <4>8
      <4>10. Map!LowerBound(u, k) = IF j = Len(r) THEN {} ELSE {r[j + 1]}
        <5>1. CASE m = Len(q)
              BY <3>3, <3>4, <4>3, <4>7, <5>1
        <5>2. CASE m # Len(q)
          <6>1. m < Len(q)
                BY <3>1, <4>2, <5>2
          <6> QED BY <3>3, <3>4, <4>3, <4>6, <4>7, <5>2, <6>1
        <5> QED BY <5>1, <5>2
      <4>11. j < Len(r) => ~Map!Less(r[j + 1], k)
             BY <4>3, <4>6, <4>7
      <4> QED BY <4>3, <4>9, <4>10, <4>11 DEF LowerAt
    <3>5. CASE ~Map!Less(u.key, k)
      <4>1. PICK m : LowerAt(u.left, p, k, m)
            BY <1>4, <3>1, <3>2
      <4>2. m \in 0..Len(p)
            BY <4>1 DEF LowerAt
      <4>3. m \in 0..Len(r) /\ m < Len(r)
            BY <3>1, <4>2
      <4>4. m > 0 => r[m] = p[m]
            BY <3>1, <4>2
      <4>5. m < Len(p) => r[m + 1] = p[m + 1]
            BY <3>1, <4>2
      <4>6. m = Len(p) => r[m + 1] = u.key
            BY <3>1
      <4>7. /\ m > 0 => Map!Less(p[m], k)
            /\ m < Len(p) => ~Map!Less(p[m + 1], k)
            /\ Map!LowerBound(u.left, k) = IF m = Len(p) THEN {} ELSE {p[m + 1]}
            BY <4>1 DEF LowerAt
      <4>8. m < Len(p) \/ m = Len(p)
            BY <3>1, <4>2
      <4>9. /\ ~Map!Less(r[m + 1], k)
            /\ Map!LowerBound(u, k) = {r[m + 1]}
        <5>1. CASE m = Len(p)
              BY <3>3, <3>5, <4>6, <4>7, <5>1
        <5>2. CASE m < Len(p)
          <6>1. m # Len(p)
                BY <3>1, <5>2
          <6> QED BY <3>3, <3>5, <4>5, <4>7, <5>2, <6>1
        <5> QED BY <4>8, <5>1, <5>2
      <4>10. m # Len(r)
             BY <3>1, <4>3
      <4> QED BY <4>3, <4>4, <4>7, <4>9, <4>10 DEF LowerAt
    <3> QED BY <3>4, <3>5
  <2> QED BY <2>1, <2>2
<1> HIDE DEF P
<1>5. \A n \in Nat : n \in P
      BY <1>3, <1>4, SetInduction
<1>6. Len(s) + 1 \in Nat /\ Len(s) < Len(s) + 1
      BY <1>1
<1> QED BY <1>5, <1>6 DEF P

\* Only a node is red.
LEMMA RedIsANode ==
    ASSUME NEW t, NEW s, Tree(t, s)
    PROVE  t.red \in BOOLEAN /\ (t.red => t # Map!Leaf)
<1>1. CASE t = Map!Leaf
      BY <1>1, LeafIsNoNode
<1>2. CASE t # Map!Leaf
  <2>1. PICK p, q : NodeAt(t, s, p, q)
        BY <1>2, NodeOrder
  <2> QED BY <1>2, <2>1 DEF NodeAt
<1> QED BY <1>1, <1>2

\* A node made black, and a red one with its children made black.  The colours
\* have names, since a Boolean constant is no term to the provers.
Red == TRUE
NotRed == FALSE

Black(t) == [t EXCEPT !.red = FALSE]

LEMMA BlackNode ==
    ASSUME NEW t, NEW c, NEW a, NEW k, NEW b, t = Map!Node(c, a, k, b)
    PROVE  Black(t) = Map!Node(NotRed, a, k, b)
<1>1. [t EXCEPT !.red = NotRed] = Map!Node(NotRed, a, k, b)
      BY DEF Map!Node
<1> QED BY <1>1 DEF Black, NotRed

WithBlackChildren(t) == [t EXCEPT !.red = TRUE, !.left.red = FALSE, !.right.red = FALSE]

LEMMA AllRecoloured ==
    ASSUME NEW t, NEW c, NEW a, NEW k, NEW b, t = Map!Node(c, a, k, b)
    PROVE  WithBlackChildren(t)
               = Map!Node(Red, Black(a), k, Black(b))
<1>1. PICK u : u = [t EXCEPT !.red = Red]
      OBVIOUS
<1>2. PICK v : v = [u EXCEPT !.left = Black(u.left)]
      OBVIOUS
<1>3. PICK w : w = [v EXCEPT !.right = Black(v.right)]
      OBVIOUS
<1>4. WithBlackChildren(t) = w
      BY <1>1, <1>2, <1>3 DEF WithBlackChildren, Black, Red
<1>5. u = Map!Node(Red, a, k, b)
      BY <1>1 DEF Map!Node
<1>6. u.left = a
      BY <1>5 DEF Map!Node
<1>7. v = Map!Node(Red, Black(a), k, b)
      BY <1>2, <1>5, <1>6 DEF Map!Node
<1>8. v.right = b
      BY <1>7 DEF Map!Node
<1>9. w = Map!Node(Red, Black(a), k, Black(b))
      BY <1>3, <1>7, <1>8 DEF Map!Node
<1> QED BY <1>4, <1>9

LEMMA Recoloured ==
    ASSUME NEW t, NEW s, Tree(t, s), t # Map!Leaf
    PROVE  Tree(Black(t), s)
<1>1. PICK p, q : NodeAt(t, s, p, q)
      BY NodeOrder
<1>2. t = Map!Node(t.red, t.left, t.key, t.right)
      BY <1>1 DEF NodeAt
<1>3. Black(t) = Map!Node(NotRed, t.left, t.key, t.right)
      BY <1>2, BlackNode
<1>4. Tree(Map!Node(NotRed, t.left, t.key, t.right), Around(p, t.key, q))
      BY <1>1, NodeIsATree DEF NodeAt, NotRed
<1> QED BY <1>1, <1>3, <1>4 DEF NodeAt

\* Four ways to bracket the order of three keys and four trees come to one.
Cat(p, q) == p \o q

LEMMA CatIsAssociative ==
    ASSUME NEW U, NEW p \in Seq(U), NEW q \in Seq(U), NEW r \in Seq(U)
    PROVE  Cat(p, q) \in Seq(U) /\ Cat(Cat(p, q), r) = Cat(p, Cat(q, r))
<1>1. p \o q \in Seq(U)
      OBVIOUS
<1>2. (p \o q) \o r = p \o (q \o r)
      OBVIOUS
<1> QED BY <1>1, <1>2 DEF Cat

LEMMA Bracketing ==
    ASSUME NEW U, NEW a \in Seq(U), NEW x \in U, NEW b \in Seq(U), NEW y \in U,
           NEW c \in Seq(U), NEW z \in U, NEW d \in Seq(U)
    PROVE  LET all == Around(Around(a, x, b), y, Around(c, z, d))
           IN  /\ Around(Around(Around(a, x, b), y, c), z, d) = all
               /\ Around(Around(a, x, Around(b, y, c)), z, d) = all
               /\ Around(a, x, Around(Around(b, y, c), z, d)) = all
               /\ Around(a, x, Around(b, y, Around(c, z, d))) = all
<1> DEFINE T == Seq(U)
           X == <<x>>
           Y == <<y>>
           Z == <<z>>
           N(p, k, q) == Cat(Cat(p, k), q)
           u == Cat(a, X)
           v == Cat(b, Y)
           w == Cat(c, Z)
           i == Cat(u, v)
           j == Cat(w, d)
           k == Cat(v, c)
<1>1. \A p, q \in T : Cat(p, q) \in T
      BY CatIsAssociative
<1>2. \A p, q, r \in T : Cat(Cat(p, q), r) = Cat(p, Cat(q, r))
      BY CatIsAssociative
<1>3. a \in T /\ X \in T /\ b \in T /\ Y \in T /\ c \in T /\ Z \in T /\ d \in T
      OBVIOUS
<1> HIDE DEF T, X, Y, Z
<1>4. SUFFICES /\ N(N(N(a, X, b), Y, c), Z, d) = N(N(a, X, b), Y, N(c, Z, d))
               /\ N(N(a, X, N(b, Y, c)), Z, d) = N(N(a, X, b), Y, N(c, Z, d))
               /\ N(a, X, N(N(b, Y, c), Z, d)) = N(N(a, X, b), Y, N(c, Z, d))
               /\ N(a, X, N(b, Y, N(c, Z, d))) = N(N(a, X, b), Y, N(c, Z, d))
      BY DEF Cat, Around, X, Y, Z
<1>5. u \in T /\ v \in T /\ w \in T
      BY <1>1, <1>3
<1>6. Cat(Cat(u, b), Y) = i /\ Cat(Cat(v, c), Z) = Cat(v, w)
      BY <1>2, <1>3, <1>5
<1> HIDE DEF u, v, w
<1>7. i \in T /\ j \in T /\ k \in T
      BY <1>1, <1>3, <1>5
<1>8. Cat(i, c) = Cat(u, k) /\ Cat(k, Z) = Cat(v, w)
      BY <1>2, <1>3, <1>5, <1>6
<1>9. Cat(u, Cat(v, w)) = Cat(i, w) /\ Cat(Cat(i, w), d) = Cat(i, j)
      BY <1>2, <1>3, <1>5, <1>7
<1>10. Cat(Cat(v, w), d) = Cat(v, j) /\ Cat(u, Cat(v, j)) = Cat(i, j)
       BY <1>2, <1>3, <1>5, <1>7
<1>11. Cat(Cat(u, k), Z) = Cat(u, Cat(k, Z)) /\ Cat(Cat(u, Cat(v, w)), d) = Cat(i, j)
       BY <1>2, <1>3, <1>5, <1>7, <1>9
<1> HIDE DEF i, j, k
<1>12. N(N(a, X, b), Y, N(c, Z, d)) = Cat(i, j)
       BY <1>6 DEF u, j, w
<1>13. N(N(N(a, X, b), Y, c), Z, d) = Cat(i, j)
       BY <1>6, <1>8, <1>11 DEF u
<1>14. N(N(a, X, N(b, Y, c)), Z, d) = Cat(i, j)
       BY <1>8, <1>11 DEF u, k, v
<1>15. N(a, X, N(N(b, Y, c), Z, d)) = Cat(i, j)
       BY <1>8, <1>10 DEF u, k, v
<1>16. N(a, X, N(b, Y, N(c, Z, d))) = Cat(i, j)
       BY <1>10 DEF u, v, j, w
<1> QED BY <1>12, <1>13, <1>14, <1>15, <1>16

LEMMA TopIsATree ==
    ASSUME NEW a, NEW b, NEW c, NEW d, NEW sa, NEW sb, NEW sc, NEW sd,
           Tree(a, sa), Tree(b, sb), Tree(c, sc), Tree(d, sd),
           NEW x \in Map!Pairs, NEW y \in Map!Pairs, NEW z \in Map!Pairs
    PROVE  LET top == Map!Node(FALSE, Map!Node(TRUE, a, x, b), y, Map!Node(TRUE, c, z, d))
           IN  /\ Tree(top, Around(Around(Around(sa, x, sb), y, sc), z, sd))
               /\ Tree(top, Around(Around(sa, x, Around(sb, y, sc)), z, sd))
               /\ Tree(top, Around(sa, x, Around(Around(sb, y, sc), z, sd)))
               /\ Tree(top, Around(sa, x, Around(sb, y, Around(sc, z, sd))))
<1> DEFINE top == Map!Node(FALSE, Map!Node(TRUE, a, x, b), y, Map!Node(TRUE, c, z, d))
<1>1. /\ sa \in Seq(Map!Pairs) /\ sb \in Seq(Map!Pairs)
      /\ sc \in Seq(Map!Pairs) /\ sd \in Seq(Map!Pairs)
      BY TreeCases
<1>2. Tree(Map!Node(TRUE, a, x, b), Around(sa, x, sb))
      BY NodeIsATree
<1>3. Tree(Map!Node(TRUE, c, z, d), Around(sc, z, sd))
      BY NodeIsATree
<1>4. Tree(top, Around(Around(sa, x, sb), y, Around(sc, z, sd)))
      BY <1>2, <1>3, NodeIsATree
<1> DEFINE all == Around(Around(sa, x, sb), y, Around(sc, z, sd))
<1> HIDE DEF top
<1>0. /\ Around(Around(Around(sa, x, sb), y, sc), z, sd) = all
      /\ Around(Around(sa, x, Around(sb, y, sc)), z, sd) = all
      /\ Around(sa, x, Around(Around(sb, y, sc), z, sd)) = all
      /\ Around(sa, x, Around(sb, y, Around(sc, z, sd))) = all
      BY <1>1, Bracketing
<1>5. /\ Tree(top, Around(Around(Around(sa, x, sb), y, sc), z, sd))
      /\ Tree(top, Around(Around(sa, x, Around(sb, y, sc)), z, sd))
      /\ Tree(top, Around(sa, x, Around(Around(sb, y, sc), z, sd)))
      /\ Tree(top, Around(sa, x, Around(sb, y, Around(sc, z, sd))))
      BY <1>0, <1>4
<1> QED BY <1>5 DEF top

LEMMA RebalanceIsATree ==
    ASSUME NEW t, NEW s, Tree(t, s), t # Map!Leaf
    PROVE  Tree(Map!Rebalance(t), s) /\ Map!Rebalance(t) # Map!Leaf
<1> DEFINE l == t.left
           r == t.right
           Top(a, x, b, y, c, z, d) ==
               Map!Node(FALSE, Map!Node(TRUE, a, x, b), y, Map!Node(TRUE, c, z, d))
<1>1. PICK p, q : NodeAt(t, s, p, q)
      BY NodeOrder
<1>2. /\ Tree(l, p) /\ Tree(r, q) /\ t.key \in Map!Pairs /\ s = Around(p, t.key, q)
      /\ t = Map!Node(t.red, l, t.key, r)
      BY <1>1 DEF NodeAt
<1>3. \A red, a, k, b : Map!Node(red, a, k, b) # Map!Leaf
      BY LeafIsNoNode
<1>4. \A u, v : Tree(u, v) => u.red \in BOOLEAN /\ (u.red => u # Map!Leaf)
      BY RedIsANode
<1>5. CASE ~Map!Offends(l) /\ ~Map!Offends(r)
  <2>1. Map!Rebalance(t) = t
        BY <1>5 DEF Map!Rebalance
  <2> QED BY <2>1
<1>6. CASE ~(~Map!Offends(l) /\ ~Map!Offends(r)) /\ l.red /\ r.red
  <2>1. Map!Rebalance(t) = WithBlackChildren(t)
        BY <1>6 DEF Map!Rebalance, WithBlackChildren
  <2>2. Tree(Black(l), p) /\ Tree(Black(r), q)
        BY <1>2, <1>4, <1>6, Recoloured
  <2> DEFINE black == Map!Node(Red, Black(l), t.key, Black(r))
  <2>3. Tree(black, s)
    <3>1. Red \in BOOLEAN
          BY DEF Red
    <3> QED BY <1>2, <2>2, <3>1, NodeIsATree
  <2>4. black # Map!Leaf
        BY <1>3
  <2>5. \A c, a, k, b : t = Map!Node(c, a, k, b) =>
            WithBlackChildren(t) = Map!Node(Red, Black(a), k, Black(b))
        BY AllRecoloured
  <2>6. WithBlackChildren(t) = black
        BY <1>2, <2>5
  <2> HIDE DEF black
  <2> QED BY <2>1, <2>3, <2>4, <2>6
<1>7. CASE ~(l.red /\ r.red) /\ Map!Offends(l)
  <2>1. Map!Rebalance(t) =
            IF l.left.red
            THEN Top(l.left.left, l.left.key, l.left.right, l.key, l.right, t.key, r)
            ELSE Top(l.left, l.key, l.right.left, l.right.key, l.right.right, t.key, r)
        BY <1>7 DEF Map!Rebalance
  <2>2. l.red /\ (l.left.red \/ l.right.red)
        BY <1>7 DEF Map!Offends
  <2>3. PICK ll, lr : NodeAt(l, p, ll, lr)
        BY <1>2, <1>4, <2>2, NodeOrder
  <2>4. Tree(l.left, ll) /\ Tree(l.right, lr) /\ l.key \in Map!Pairs /\ p = Around(ll, l.key, lr)
        BY <2>3 DEF NodeAt
  <2>5. CASE l.left.red
    <3>1. PICK a, b : NodeAt(l.left, ll, a, b)
          BY <1>4, <2>4, <2>5, NodeOrder
    <3>2. /\ Tree(l.left.left, a) /\ Tree(l.left.right, b) /\ l.left.key \in Map!Pairs
          /\ ll = Around(a, l.left.key, b)
          BY <3>1 DEF NodeAt
    <3>3. s = Around(Around(Around(a, l.left.key, b), l.key, lr), t.key, q)
          BY <1>2, <2>4, <3>2
    <3> HIDE DEF l, r
    <3>4. Tree(Top(l.left.left, l.left.key, l.left.right, l.key, l.right, t.key, r),
               Around(Around(Around(a, l.left.key, b), l.key, lr), t.key, q))
          BY <1>2, <2>4, <3>2, TopIsATree
    <3> QED BY <1>3, <2>1, <2>5, <3>3, <3>4
  <2>6. CASE ~l.left.red
    <3>1. PICK a, b : NodeAt(l.right, lr, a, b)
          BY <1>4, <2>2, <2>4, <2>6, NodeOrder
    <3>2. /\ Tree(l.right.left, a) /\ Tree(l.right.right, b) /\ l.right.key \in Map!Pairs
          /\ lr = Around(a, l.right.key, b)
          BY <3>1 DEF NodeAt
    <3>3. s = Around(Around(ll, l.key, Around(a, l.right.key, b)), t.key, q)
          BY <1>2, <2>4, <3>2
    <3> HIDE DEF l, r
    <3>4. Tree(Top(l.left, l.key, l.right.left, l.right.key, l.right.right, t.key, r),
               Around(Around(ll, l.key, Around(a, l.right.key, b)), t.key, q))
          BY <1>2, <2>4, <3>2, TopIsATree
    <3> QED BY <1>3, <2>1, <2>6, <3>3, <3>4
  <2> QED BY <2>5, <2>6
<1>8. CASE ~(l.red /\ r.red) /\ ~Map!Offends(l) /\ Map!Offends(r)
  <2>1. Map!Rebalance(t) =
            IF r.left.red
            THEN Top(l, t.key, r.left.left, r.left.key, r.left.right, r.key, r.right)
            ELSE Top(l, t.key, r.left, r.key, r.right.left, r.right.key, r.right.right)
        BY <1>8 DEF Map!Rebalance
  <2>2. r.red /\ (r.left.red \/ r.right.red)
        BY <1>8 DEF Map!Offends
  <2>3. PICK rl, rr : NodeAt(r, q, rl, rr)
        BY <1>2, <1>4, <2>2, NodeOrder
  <2>4. Tree(r.left, rl) /\ Tree(r.right, rr) /\ r.key \in Map!Pairs /\ q = Around(rl, r.key, rr)
        BY <2>3 DEF NodeAt
  <2>5. CASE r.left.red
    <3>1. PICK a, b : NodeAt(r.left, rl, a, b)
          BY <1>4, <2>4, <2>5, NodeOrder
    <3>2. /\ Tree(r.left.left, a) /\ Tree(r.left.right, b) /\ r.left.key \in Map!Pairs
          /\ rl = Around(a, r.left.key, b)
          BY <3>1 DEF NodeAt
    <3>3. s = Around(p, t.key, Around(Around(a, r.left.key, b), r.key, rr))
          BY <1>2, <2>4, <3>2
    <3> HIDE DEF l, r
    <3>4. Tree(Top(l, t.key, r.left.left, r.left.key, r.left.right, r.key, r.right),
               Around(p, t.key, Around(Around(a, r.left.key, b), r.key, rr)))
          BY <1>2, <2>4, <3>2, TopIsATree
    <3> QED BY <1>3, <2>1, <2>5, <3>3, <3>4
  <2>6. CASE ~r.left.red
    <3>1. PICK a, b : NodeAt(r.right, rr, a, b)
          BY <1>4, <2>2, <2>4, <2>6, NodeOrder
    <3>2. /\ Tree(r.right.left, a) /\ Tree(r.right.right, b) /\ r.right.key \in Map!Pairs
          /\ rr = Around(a, r.right.key, b)
          BY <3>1 DEF NodeAt
    <3>3. s = Around(p, t.key, Around(rl, r.key, Around(a, r.right.key, b)))
          BY <1>2, <2>4, <3>2
    <3> HIDE DEF l, r
    <3>4. Tree(Top(l, t.key, r.left, r.key, r.right.left, r.right.key, r.right.right),
               Around(p, t.key, Around(rl, r.key, Around(a, r.right.key, b))))
          BY <1>2, <2>4, <3>2, TopIsATree
    <3> QED BY <1>3, <2>1, <2>6, <3>3, <3>4
  <2> QED BY <2>5, <2>6
<1> QED BY <1>5, <1>6, <1>7, <1>8

\* q is s with k put after its first n places.
Inserted(q, s, n, k) ==
    /\ n \in 0..Len(s)
    /\ Len(q) = Len(s) + 1
    /\ \A i \in 1..n : q[i] = s[i]
    /\ q[n + 1] = k
    /\ \A i \in n + 1..Len(s) : q[i + 1] = s[i]

LEMMA InsertedLeft ==
    ASSUME NEW p \in Seq(Map!Pairs), NEW r \in Seq(Map!Pairs), NEW q \in Seq(Map!Pairs),
           NEW x \in Map!Pairs, NEW k, NEW n, Inserted(r, p, n, k)
    PROVE  Inserted(Around(r, x, q), Around(p, x, q), n, k)
<1> DEFINE a == Around(r, x, q)
           b == Around(p, x, q)
<1>1. /\ Len(a) = Len(r) + 1 + Len(q)
      /\ \A i \in 1..Len(r) : a[i] = r[i]
      /\ a[Len(r) + 1] = x
      /\ \A i \in 1..Len(q) : a[Len(r) + 1 + i] = q[i]
  <2>1. Between(a, r, x, q)
        BY KeyBetween
  <2> QED BY <2>1 DEF Between
<1>2. /\ Len(b) = Len(p) + 1 + Len(q)
      /\ \A i \in 1..Len(p) : b[i] = p[i]
      /\ b[Len(p) + 1] = x
      /\ \A i \in 1..Len(q) : b[Len(p) + 1 + i] = q[i]
  <2>1. Between(b, p, x, q)
        BY KeyBetween
  <2> QED BY <2>1 DEF Between
<1>3. Len(p) \in Nat /\ Len(q) \in Nat /\ Len(r) = Len(p) + 1 /\ n \in 0..Len(p)
      BY DEF Inserted
<1>4. /\ \A i \in 1..n : r[i] = p[i]
      /\ r[n + 1] = k
      /\ \A i \in n + 1..Len(p) : r[i + 1] = p[i]
      BY DEF Inserted
<1> HIDE DEF a, b
<1>5. n \in 0..Len(b) /\ Len(a) = Len(b) + 1
      BY <1>1, <1>2, <1>3
<1>6. ASSUME NEW i \in 1..n
      PROVE  a[i] = b[i]
  <2>1. i \in 1..Len(r) /\ i \in 1..Len(p)
        BY <1>3
  <2> QED BY <1>1, <1>2, <1>4, <2>1
<1>7. a[n + 1] = k
  <2>1. n + 1 \in 1..Len(r)
        BY <1>3
  <2> QED BY <1>1, <1>4, <2>1
<1>8. ASSUME NEW i \in n + 1..Len(b)
      PROVE  a[i + 1] = b[i]
  <2>1. CASE i <= Len(p)
    <3>1. i \in n + 1..Len(p) /\ i \in 1..Len(p) /\ i + 1 \in 1..Len(r)
          BY <1>3, <2>1
    <3> QED BY <1>1, <1>2, <1>4, <3>1
  <2>2. CASE i = Len(p) + 1
    <3>1. i + 1 = Len(r) + 1
          BY <1>3, <2>2
    <3> QED BY <1>1, <1>2, <2>2, <3>1
  <2>3. CASE i > Len(p) + 1
    <3> DEFINE j == i - (Len(p) + 1)
    <3>1. j \in 1..Len(q) /\ i = Len(p) + 1 + j /\ i + 1 = Len(r) + 1 + j
          BY <1>2, <1>3, <2>3
    <3> HIDE DEF j
    <3> QED BY <1>1, <1>2, <3>1
  <2> QED BY <1>3, <2>1, <2>2, <2>3
<1> QED BY <1>5, <1>6, <1>7, <1>8 DEF Inserted, a, b

LEMMA InsertedRight ==
    ASSUME NEW p \in Seq(Map!Pairs), NEW r \in Seq(Map!Pairs), NEW q \in Seq(Map!Pairs),
           NEW x \in Map!Pairs, NEW k, NEW n, Inserted(r, q, n, k)
    PROVE  Inserted(Around(p, x, r), Around(p, x, q), Len(p) + 1 + n, k)
<1> DEFINE a == Around(p, x, r)
           b == Around(p, x, q)
           m == Len(p) + 1
<1>1. /\ Len(a) = m + Len(r)
      /\ \A i \in 1..Len(p) : a[i] = p[i]
      /\ a[m] = x
      /\ \A i \in 1..Len(r) : a[m + i] = r[i]
  <2>1. Between(a, p, x, r)
        BY KeyBetween
  <2> QED BY <2>1 DEF Between
<1>2. /\ Len(b) = m + Len(q)
      /\ \A i \in 1..Len(p) : b[i] = p[i]
      /\ b[m] = x
      /\ \A i \in 1..Len(q) : b[m + i] = q[i]
  <2>1. Between(b, p, x, q)
        BY KeyBetween
  <2> QED BY <2>1 DEF Between
<1>3. m \in Nat \ {0} /\ Len(p) = m - 1 /\ Len(q) \in Nat /\ Len(r) = Len(q) + 1 /\ n \in 0..Len(q)
      BY DEF Inserted
<1>4. /\ \A i \in 1..n : r[i] = q[i]
      /\ r[n + 1] = k
      /\ \A i \in n + 1..Len(q) : r[i + 1] = q[i]
      BY DEF Inserted
<1> HIDE DEF a, b, m
<1>5. m + n \in 0..Len(b) /\ Len(a) = Len(b) + 1
      BY <1>1, <1>2, <1>3
<1>6. ASSUME NEW i \in 1..m + n
      PROVE  a[i] = b[i]
  <2>1. CASE i <= Len(p)
    <3>1. i \in 1..Len(p)
          BY <1>3, <2>1
    <3> QED BY <1>1, <1>2, <3>1
  <2>2. CASE i = m
        BY <1>1, <1>2, <2>2
  <2>3. CASE i > m
    <3> DEFINE j == i - m
    <3>1. j \in 1..n /\ j \in 1..Len(q) /\ j \in 1..Len(r) /\ i = m + j
          BY <1>3, <2>3
    <3> HIDE DEF j
    <3> QED BY <1>1, <1>2, <1>4, <3>1
  <2> QED BY <1>3, <2>1, <2>2, <2>3
<1>7. a[m + n + 1] = k
  <2>1. n + 1 \in 1..Len(r) /\ m + n + 1 = m + (n + 1)
        BY <1>3
  <2> QED BY <1>1, <1>4, <2>1
<1>8. ASSUME NEW i \in m + n + 1..Len(b)
      PROVE  a[i + 1] = b[i]
  <2> DEFINE j == i - m
  <2>1. j \in n + 1..Len(q) /\ j \in 1..Len(q) /\ j + 1 \in 1..Len(r) /\ i = m + j /\ i + 1 = m + (j + 1)
        BY <1>2, <1>3
  <2> HIDE DEF j
  <2> QED BY <1>1, <1>2, <1>4, <2>1
<1>9. m + n = Len(p) + 1 + n
      BY DEF m
<1> QED BY <1>5, <1>6, <1>7, <1>8, <1>9 DEF Inserted, a, b

\* The place Put finds, as the one of LowerAt, and what it makes of the tree.
PutAt(t, s, k, n) ==
    /\ n \in 0..Len(s)
    /\ n > 0 => ~Map!Less(k, s[n])
    /\ n < Len(s) => Map!Less(k, s[n + 1])
    /\ Map!Before(t, k) = IF n = 0 THEN {} ELSE {s[n]}
    /\ Map!Put(t, k) # Map!Leaf
    /\ \E q : Tree(Map!Put(t, k), q) /\ Inserted(q, s, n, k)

LEMMA PutSplits ==
    ASSUME NEW t, NEW s, Tree(t, s), Len(s) <= MaxOpened, NEW k \in Map!Pairs
    PROVE  \E n : PutAt(t, s, k, n)
<1> DEFINE P == {n \in Nat : \A u, r : Tree(u, r) /\ Len(r) < n /\ Len(r) <= MaxOpened
                                => \E m : PutAt(u, r, k, m)}
<1>1. \A u, r : Tree(u, r) => r \in Seq(Map!Pairs) /\ Len(r) \in Nat
      BY TreeCases
<1>2. MaxOpened \in Nat
      BY TracesAssumption DEF Map!PairAssumption
<1>3. 0 \in P
      BY <1>1
<1>4. ASSUME NEW n \in Nat, n \in P
      PROVE  n + 1 \in P
  <2> SUFFICES ASSUME NEW u, NEW r, Tree(u, r), Len(r) < n + 1, Len(r) <= MaxOpened
               PROVE  \E m : PutAt(u, r, k, m)
      OBVIOUS
  <2>1. CASE u = Map!Leaf
    <3>1. r = << >> /\ Len(r) = 0
          BY <2>1, TreeCases
    <3>2. Map!Before(u, k) = {}
          BY <2>1, BeforeUnfolds
    <3>3. Map!Put(u, k) = Map!Node(Red, Map!Leaf, k, Map!Leaf)
          BY <2>1, PutUnfolds DEF Red
    <3>4. Tree(Map!Node(Red, Map!Leaf, k, Map!Leaf), Around(<< >>, k, << >>))
      <4>1. Red \in BOOLEAN
            BY DEF Red
      <4> QED BY <4>1, LeafIsATree, NodeIsATree
    <3>5. Inserted(Around(<< >>, k, << >>), r, 0, k)
      <4>1. Around(<< >>, k, << >>) = <<k>>
        <5>1. << >> \o <<k>> = <<k>> /\ <<k>> \o << >> = <<k>>
              BY ConcatEmptySeq
        <5> QED BY <5>1 DEF Around
      <4>2. Len(<<k>>) = 1 /\ <<k>>[1] = k
            OBVIOUS
      <4> QED BY <3>1, <4>1, <4>2 DEF Inserted
    <3>6. Map!Put(u, k) # Map!Leaf
          BY <3>3, LeafIsNoNode
    <3>7. PutAt(u, r, k, 0)
          BY <3>1, <3>2, <3>3, <3>4, <3>5, <3>6 DEF PutAt
    <3> QED BY <3>7
  <2>2. CASE u # Map!Leaf
    <3>0. PICK p, q : NodeAt(u, r, p, q)
          BY <2>2, NodeOrder
    <3>1. /\ Tree(u.left, p) /\ Tree(u.right, q) /\ r = Around(p, u.key, q)
          /\ u.key \in Map!Pairs /\ u.red \in BOOLEAN
          /\ u = Map!Node(u.red, u.left, u.key, u.right)
          /\ p \in Seq(Map!Pairs) /\ q \in Seq(Map!Pairs)
          /\ Len(p) \in Nat /\ Len(q) \in Nat /\ Len(r) = Len(p) + 1 + Len(q)
          /\ \A i \in 1..Len(p) : r[i] = p[i]
          /\ r[Len(p) + 1] = u.key
          /\ \A i \in 1..Len(q) : r[Len(p) + 1 + i] = q[i]
          BY <3>0 DEF NodeAt
    <3>2. Len(p) < n /\ Len(q) < n /\ Len(p) <= MaxOpened /\ Len(q) <= MaxOpened
          BY <1>2, <3>1
    <3>3. Map!Before(u, k) =
              IF Map!Less(k, u.key) THEN Map!Before(u.left, k)
              ELSE IF Map!Before(u.right, k) = {} THEN {u.key}
              ELSE Map!Before(u.right, k)
          BY <2>2, BeforeUnfolds
    <3>4. Map!Put(u, k) =
              IF Map!Less(k, u.key)
              THEN Map!Rebalance([u EXCEPT !.left = Map!Put(u.left, k)])
              ELSE Map!Rebalance([u EXCEPT !.right = Map!Put(u.right, k)])
          BY <2>2, PutUnfolds
    <3>5. CASE Map!Less(k, u.key)
      <4>1. PICK m : PutAt(u.left, p, k, m)
            BY <1>4, <3>1, <3>2
      <4>2. /\ m \in 0..Len(p)
            /\ m > 0 => ~Map!Less(k, p[m])
            /\ m < Len(p) => Map!Less(k, p[m + 1])
            /\ Map!Before(u.left, k) = IF m = 0 THEN {} ELSE {p[m]}
            BY <4>1 DEF PutAt
      <4>3. PICK o : Tree(Map!Put(u.left, k), o) /\ Inserted(o, p, m, k)
            BY <4>1 DEF PutAt
      <4>4. m \in 0..Len(r) /\ m < Len(r)
            BY <3>1, <4>2
      <4>5. m > 0 => r[m] = p[m]
            BY <3>1, <4>2
      <4>6. m < Len(p) => r[m + 1] = p[m + 1]
            BY <3>1, <4>2
      <4>7. Map!Less(k, r[m + 1])
        <5>1. m < Len(p) \/ m = Len(p)
              BY <3>1, <4>2
        <5> QED BY <3>1, <3>5, <4>2, <4>6, <5>1
      <4> DEFINE v == Map!Node(u.red, Map!Put(u.left, k), u.key, u.right)
      <4>8. [u EXCEPT !.left = Map!Put(u.left, k)] = v
            BY <3>1 DEF Map!Node
      <4>9. Tree(v, Around(o, u.key, q)) /\ v # Map!Leaf
        <5>1. Tree(v, Around(o, u.key, q))
              BY <3>1, <4>3, NodeIsATree
        <5>2. v # Map!Leaf
              BY LeafIsNoNode
        <5> HIDE DEF v
        <5> QED BY <5>1, <5>2
      <4> HIDE DEF v
      <4>10. Map!Put(u, k) = Map!Rebalance(v)
             BY <3>4, <3>5, <4>8
      <4>11. Tree(Map!Put(u, k), Around(o, u.key, q)) /\ Map!Put(u, k) # Map!Leaf
             BY <4>9, <4>10, RebalanceIsATree
      <4>12. Inserted(Around(o, u.key, q), r, m, k)
        <5>1. o \in Seq(Map!Pairs)
              BY <1>1, <4>3
        <5> QED BY <3>1, <4>3, <5>1, InsertedLeft
      <4>13. Map!Before(u, k) = IF m = 0 THEN {} ELSE {r[m]}
        <5>1. m = 0 \/ m > 0
              BY <4>2
        <5> QED BY <3>3, <3>5, <4>2, <4>5, <5>1
      <4> QED BY <4>2, <4>4, <4>5, <4>7, <4>11, <4>12, <4>13 DEF PutAt
    <3>6. CASE ~Map!Less(k, u.key)
      <4>1. PICK m : PutAt(u.right, q, k, m)
            BY <1>4, <3>1, <3>2
      <4>2. /\ m \in 0..Len(q)
            /\ m > 0 => ~Map!Less(k, q[m])
            /\ m < Len(q) => Map!Less(k, q[m + 1])
            /\ Map!Before(u.right, k) = IF m = 0 THEN {} ELSE {q[m]}
            BY <4>1 DEF PutAt
      <4>3. PICK o : Tree(Map!Put(u.right, k), o) /\ Inserted(o, q, m, k)
            BY <4>1 DEF PutAt
      <4> DEFINE j == Len(p) + 1 + m
      <4>4. j \in 0..Len(r) /\ j > 0
        <5>1. m \in Nat /\ m <= Len(q)
              BY <3>1, <4>2
        <5> QED BY <3>1, <5>1
      <4>5. ASSUME m > 0
            PROVE  r[j] = q[m]
        <5>1. m \in 1..Len(q)
              BY <3>1, <4>2, <4>5
        <5> QED BY <3>1, <5>1
      <4>6. ASSUME m = 0
            PROVE  r[j] = u.key
        <5>1. j = Len(p) + 1
              BY <3>1, <4>6
        <5> QED BY <3>1, <5>1
      <4>7. ASSUME j < Len(r)
            PROVE  Map!Less(k, r[j + 1])
        <5>1. j + 1 = Len(p) + 1 + (m + 1) /\ m < Len(q) /\ m + 1 \in 1..Len(q)
              BY <3>1, <4>2, <4>7
        <5>2. r[j + 1] = q[m + 1]
              BY <3>1, <5>1
        <5> QED BY <4>2, <5>1, <5>2
      <4>8. ~Map!Less(k, r[j]) /\ Map!Before(u, k) = {r[j]}
        <5>1. m = 0 \/ m > 0
              BY <4>2
        <5>2. CASE m = 0
              BY <3>3, <3>6, <4>2, <4>6, <5>2
        <5>3. CASE m > 0
          <6>1. m # 0
                BY <5>3
          <6> QED BY <3>3, <3>6, <4>2, <4>5, <5>3, <6>1
        <5> QED BY <5>1, <5>2, <5>3
      <4> DEFINE v == Map!Node(u.red, u.left, u.key, Map!Put(u.right, k))
      <4>9. [u EXCEPT !.right = Map!Put(u.right, k)] = v
            BY <3>1 DEF Map!Node
      <4>10. Tree(v, Around(p, u.key, o)) /\ v # Map!Leaf
        <5>1. Tree(v, Around(p, u.key, o))
              BY <3>1, <4>3, NodeIsATree
        <5>2. v # Map!Leaf
              BY LeafIsNoNode
        <5> HIDE DEF v
        <5> QED BY <5>1, <5>2
      <4> HIDE DEF v
      <4>11. Map!Put(u, k) = Map!Rebalance(v)
             BY <3>4, <3>6, <4>9
      <4>12. Tree(Map!Put(u, k), Around(p, u.key, o)) /\ Map!Put(u, k) # Map!Leaf
             BY <4>10, <4>11, RebalanceIsATree
      <4>13. Inserted(Around(p, u.key, o), r, j, k)
        <5>1. o \in Seq(Map!Pairs)
              BY <1>1, <4>3
        <5> QED BY <3>1, <4>3, <5>1, InsertedRight
      <4> HIDE DEF j
      <4>14. j # 0
             BY <4>4
      <4> QED BY <4>4, <4>7, <4>8, <4>12, <4>13, <4>14 DEF PutAt
    <3> QED BY <3>5, <3>6
  <2> QED BY <2>1, <2>2
<1> HIDE DEF P
<1>5. \A n \in Nat : n \in P
      BY <1>3, <1>4, SetInduction
<1>6. Len(s) + 1 \in Nat /\ Len(s) < Len(s) + 1
      BY <1>1
<1> QED BY <1>5, <1>6 DEF P

\* What map::insert does, if the entry before the place of k is less, and if not.
LEMMA InsertSplits ==
    ASSUME NEW t, NEW s, Tree(t, s), Len(s) <= MaxOpened, NEW k \in Map!Pairs
    PROVE  \E n \in 0..Len(s) :
               /\ n > 0 => ~Map!Less(k, s[n])
               /\ n < Len(s) => Map!Less(k, s[n + 1])
               /\ n = 0 \/ Map!Less(s[n], k) =>
                      \E q : Tree(Map!Insert(t, k), q) /\ Inserted(q, s, n, k)
               /\ ~(n = 0 \/ Map!Less(s[n], k)) => Map!Insert(t, k) = t
<1>1. PICK n : PutAt(t, s, k, n)
      BY PutSplits
<1>2. /\ n \in 0..Len(s)
      /\ n > 0 => ~Map!Less(k, s[n])
      /\ n < Len(s) => Map!Less(k, s[n + 1])
      /\ Map!Before(t, k) = IF n = 0 THEN {} ELSE {s[n]}
      /\ Map!Put(t, k) # Map!Leaf
      BY <1>1 DEF PutAt
<1>3. PICK q : Tree(Map!Put(t, k), q) /\ Inserted(q, s, n, k)
      BY <1>1 DEF PutAt
<1>4. Tree(Black(Map!Put(t, k)), q)
      BY <1>2, <1>3, Recoloured
<1>5. CASE n = 0 \/ Map!Less(s[n], k)
  <2>1. \A b \in Map!Before(t, k) : Map!Less(b, k)
        BY <1>2, <1>5
  <2>2. Map!Insert(t, k) = Black(Map!Put(t, k))
        BY <2>1 DEF Map!Insert, Black
  <2> QED BY <1>2, <1>3, <1>4, <1>5, <2>2
<1>6. CASE ~(n = 0 \/ Map!Less(s[n], k))
  <2>1. ~(\A b \in Map!Before(t, k) : Map!Less(b, k))
        BY <1>2, <1>6
  <2>2. Map!Insert(t, k) = t
        BY <2>1 DEF Map!Insert
  <2> QED BY <1>2, <1>6, <2>2
<1> QED BY <1>5, <1>6

-----------------------------------------------------------------------------
(***************************************************************************)
(* The comparison.  That a pair is not less than another one is an order,  *)
(* the one of all four fields; two pairs cross if it holds in neither      *)
(* direction.                                                              *)
(***************************************************************************)

LEMMA PairFields ==
    ASSUME NEW a \in Map!Pairs
    PROVE  /\ \A f \in Map!Fields : a[f] \in Nat
           /\ a.server_port = 1234
           /\ a = [client_ip |-> a.client_ip, server_ip |-> a.server_ip,
                   client_port |-> a.client_port, server_port |-> a.server_port]
<1>1. PICK c \in ClientIps, s \in ServerIps, p \in ClientPorts :
          a = [client_ip |-> c, server_ip |-> s, client_port |-> p, server_port |-> 1234]
      BY DEF Map!Pairs, Map!Pair
<1>2. a.client_ip = c /\ a.server_ip = s /\ a.client_port = p /\ a.server_port = 1234
      BY <1>1
<1>3. c \in Nat /\ s \in Nat /\ p \in Nat
      BY TracesAssumption DEF Map!PairAssumption
<1> QED BY <1>1, <1>2, <1>3 DEF Map!Fields

LEMMA Comparison ==
    /\ \A a \in Map!Pairs : ~Map!Less(a, a)
    /\ \A a, b \in Map!Pairs : ~Map!Less(a, b) /\ ~Map!Less(b, a) => a = b
    /\ \A a, b, c \in Map!Pairs : ~Map!Less(b, a) /\ ~Map!Less(c, b) => ~Map!Less(c, a)
    /\ \A a, b : Map!Cross(a, b) <=> Map!Less(a, b) /\ Map!Less(b, a)
<1>1. ASSUME NEW a \in Map!Pairs
      PROVE  ~Map!Less(a, a)
      BY PairFields DEF Map!Less
<1>2. ASSUME NEW a \in Map!Pairs, NEW b \in Map!Pairs, ~Map!Less(a, b), ~Map!Less(b, a)
      PROVE  a = b
  <2>1. \A f \in Map!Fields : a[f] \in Nat /\ b[f] \in Nat
        BY PairFields
  <2>2. \A f \in Map!Fields : ~(a[f] < b[f]) /\ ~(b[f] < a[f])
        BY <1>2 DEF Map!Less
  <2>3. \A f \in Map!Fields : a[f] = b[f]
        BY <2>1, <2>2
  <2>4. /\ a.client_ip = b.client_ip /\ a.server_ip = b.server_ip
        /\ a.client_port = b.client_port /\ a.server_port = b.server_port
        BY <2>3 DEF Map!Fields
  <2> QED BY <2>4, PairFields
<1>3. ASSUME NEW a \in Map!Pairs, NEW b \in Map!Pairs, NEW c \in Map!Pairs,
             ~Map!Less(b, a), ~Map!Less(c, b)
      PROVE  ~Map!Less(c, a)
  <2>1. \A f \in Map!Fields : a[f] \in Nat /\ b[f] \in Nat /\ c[f] \in Nat
        BY PairFields
  <2>2. \A f \in Map!Fields : ~(b[f] < a[f]) /\ ~(c[f] < b[f])
        BY <1>3 DEF Map!Less
  <2>3. \A f \in Map!Fields : ~(c[f] < a[f])
        BY <2>1, <2>2
  <2> QED BY <2>3 DEF Map!Less
<1>4. \A a, b : Map!Cross(a, b) <=> Map!Less(a, b) /\ Map!Less(b, a)
      BY DEF Map!Cross, Map!Less
<1> QED BY <1>1, <1>2, <1>3, <1>4

(***************************************************************************)
(* For a pair k that crosses none of the pairs O that were added, the keys *)
(* s are in order: once one of them is not less than k, k is less than all *)
(* that follow; and k is among them if it was added.                       *)
(***************************************************************************)
Ordered(s, O) ==
    /\ \A i \in 1..Len(s) : s[i] \in O
    /\ \A k \in Map!Pairs : (\A j \in O : ~Map!Cross(j, k)) =>
           /\ \A i, j \in 1..Len(s) : i < j /\ ~Map!Less(s[i], k) => Map!Less(k, s[j])
           /\ k \in O => \E i \in 1..Len(s) : s[i] = k

\* What is found is a key.
LEMMA FoundIsAKey ==
    ASSUME NEW t, NEW s, Tree(t, s), Len(s) <= MaxOpened, NEW k \in Map!Pairs, Map!Found(t, k)
    PROVE  \E i \in 1..Len(s) : s[i] = k
<1>1. PICK n : LowerAt(t, s, k, n)
      BY LowerBoundSplits
<1>2. PICK e \in Map!LowerBound(t, k) : ~Map!Less(k, e)
      BY DEF Map!Found
<1>3. s \in Seq(Map!Pairs) /\ Len(s) \in Nat
      BY TreeCases
<1>4. n \in 0..Len(s) /\ n # Len(s) /\ e = s[n + 1] /\ (n < Len(s) => ~Map!Less(s[n + 1], k))
      BY <1>1, <1>2 DEF LowerAt
<1>5. n + 1 \in 1..Len(s) /\ n < Len(s)
      BY <1>3, <1>4
<1>6. s[n + 1] \in Map!Pairs
      BY <1>3, <1>5
<1>7. s[n + 1] = k
      BY <1>2, <1>4, <1>5, <1>6, Comparison
<1> QED BY <1>5, <1>7

\* What was added and crosses no other is found.
LEMMA UncrossedIsFound ==
    ASSUME NEW t, NEW s, Tree(t, s), Len(s) <= MaxOpened, NEW O \in SUBSET Map!Pairs,
           Ordered(s, O), NEW k \in O, \A j \in O : ~Map!Cross(j, k)
    PROVE  Map!Found(t, k)
<1>1. PICK n : LowerAt(t, s, k, n)
      BY LowerBoundSplits
<1>2. s \in Seq(Map!Pairs) /\ Len(s) \in Nat
      BY TreeCases
<1>3. /\ \A i, j \in 1..Len(s) : i < j /\ ~Map!Less(s[i], k) => Map!Less(k, s[j])
      /\ \A i \in 1..Len(s) : s[i] \in O
      BY DEF Ordered
<1>4. PICK i \in 1..Len(s) : s[i] = k
      BY DEF Ordered
<1>5. ~Map!Less(k, k)
      BY Comparison
<1>6. /\ n \in 0..Len(s)
      /\ n > 0 => Map!Less(s[n], k)
      /\ n < Len(s) => ~Map!Less(s[n + 1], k)
      /\ Map!LowerBound(t, k) = IF n = Len(s) THEN {} ELSE {s[n + 1]}
      BY <1>1 DEF LowerAt
<1>7. i > n
  <2> SUFFICES ASSUME i <= n
               PROVE  FALSE
      BY <1>2, <1>6
  <2>1. n \in 1..Len(s) /\ n > 0
        BY <1>2, <1>6
  <2>2. i # n
        BY <1>4, <1>5, <1>6, <2>1
  <2>3. i < n
        BY <1>2, <1>6, <2>2
  <2>4. Map!Less(k, s[n]) /\ Map!Less(s[n], k) /\ s[n] \in O
        BY <1>3, <1>4, <1>5, <1>6, <2>1, <2>3
  <2> QED BY <2>4, Comparison
<1>8. n + 1 \in 1..Len(s) /\ n < Len(s) /\ n # Len(s)
      BY <1>2, <1>6, <1>7
<1>9. s[n + 1] = k
  <2>1. CASE i = n + 1
        BY <1>4, <2>1
  <2>2. CASE i # n + 1
    <3>1. n + 1 < i
          BY <1>2, <1>6, <1>7, <2>2
    <3>2. Map!Less(k, k)
          BY <1>3, <1>4, <1>6, <1>8, <3>1
    <3> QED BY <1>5, <3>2
  <2> QED BY <2>1, <2>2
<1> QED BY <1>5, <1>6, <1>8, <1>9 DEF Map!Found

\* A pair put where map::insert puts it, or refused by it, leaves the keys in order.
LEMMA InsertKeepsOrder ==
    ASSUME NEW s \in Seq(Map!Pairs), NEW O \in SUBSET Map!Pairs, Ordered(s, O),
           NEW x \in Map!Pairs, NEW n \in 0..Len(s),
           n > 0 => ~Map!Less(x, s[n]),
           n < Len(s) => Map!Less(x, s[n + 1]),
           NEW q \in Seq(Map!Pairs),
           \/ (n = 0 \/ Map!Less(s[n], x)) /\ Inserted(q, s, n, x)
           \/ ~(n = 0 \/ Map!Less(s[n], x)) /\ q = s
    PROVE  Ordered(q, O \cup {x})
<1>1. Len(s) \in Nat
      OBVIOUS
<1>2. \A i \in 1..Len(s) : s[i] \in O /\ s[i] \in Map!Pairs
      BY DEF Ordered
<1>3. ASSUME NEW k \in Map!Pairs, \A j \in O \cup {x} : ~Map!Cross(j, k)
      PROVE  /\ \A i, j \in 1..Len(s) : i < j /\ ~Map!Less(s[i], k) => Map!Less(k, s[j])
             /\ k \in O => \E i \in 1..Len(s) : s[i] = k
             /\ \A j \in O \cup {x} : ~(Map!Less(j, k) /\ Map!Less(k, j))
      BY <1>3, Comparison DEF Ordered
<1>4. CASE ~(n = 0 \/ Map!Less(s[n], x)) /\ q = s
  <2>1. n \in 1..Len(s) /\ ~Map!Less(s[n], x) /\ ~Map!Less(x, s[n])
        BY <1>1, <1>4
  <2>2. s[n] = x
        BY <1>2, <2>1, Comparison
  <2>3. ASSUME NEW k \in Map!Pairs, \A j \in O \cup {x} : ~Map!Cross(j, k), k \in O \cup {x}
        PROVE  \E i \in 1..Len(s) : s[i] = k
        BY <1>3, <2>1, <2>2, <2>3
  <2> QED BY <1>2, <1>3, <1>4, <2>3 DEF Ordered
<1>5. CASE (n = 0 \/ Map!Less(s[n], x)) /\ Inserted(q, s, n, x)
  <2>1. /\ Len(q) = Len(s) + 1
        /\ \A i \in 1..n : q[i] = s[i]
        /\ q[n + 1] = x
        /\ \A i \in n + 1..Len(s) : q[i + 1] = s[i]
        BY <1>5 DEF Inserted
  <2>2. ASSUME NEW i \in 1..Len(q)
        PROVE  \/ i <= n /\ i \in 1..Len(s) /\ q[i] = s[i]
               \/ i = n + 1 /\ q[i] = x
               \/ i > n + 1 /\ i - 1 \in 1..Len(s) /\ q[i] = s[i - 1]
    <3>1. CASE i <= n
          BY <1>1, <2>1, <3>1
    <3>2. CASE i = n + 1
          BY <2>1, <3>2
    <3>3. CASE i > n + 1
      <4> DEFINE j == i - 1
      <4>1. j \in n + 1..Len(s) /\ j \in 1..Len(s) /\ j + 1 = i
            BY <1>1, <2>1, <3>3
      <4> HIDE DEF j
      <4>2. q[i] = s[j]
            BY <2>1, <4>1
      <4> QED BY <3>3, <4>1, <4>2 DEF j
    <3> QED BY <1>1, <3>1, <3>2, <3>3
  <2>3. \A i \in 1..Len(q) : q[i] \in O \cup {x}
        BY <1>2, <2>2
  <2>4. ASSUME NEW k \in Map!Pairs, \A j \in O \cup {x} : ~Map!Cross(j, k)
        PROVE  /\ \A i, j \in 1..Len(q) : i < j /\ ~Map!Less(q[i], k) => Map!Less(k, q[j])
               /\ k \in O \cup {x} => \E i \in 1..Len(q) : q[i] = k
    <3>1. /\ \A i, j \in 1..Len(s) : i < j /\ ~Map!Less(s[i], k) => Map!Less(k, s[j])
          /\ k \in O => \E i \in 1..Len(s) : s[i] = k
          /\ \A j \in O \cup {x} : ~(Map!Less(j, k) /\ Map!Less(k, j))
          BY <1>3, <2>4
    <3>2. ASSUME NEW i \in 1..Len(s), i <= n, ~Map!Less(s[i], k)
          PROVE  Map!Less(k, x)
      <4> SUFFICES ASSUME ~Map!Less(k, x)
                   PROVE  FALSE
          OBVIOUS
      <4>1. n \in 1..Len(s) /\ n > 0 /\ n # 0
            BY <1>1, <3>2
      <4>2. ~Map!Less(s[n], k)
        <5>1. CASE i = n
              BY <3>2, <5>1
        <5>2. CASE i < n
          <6>1. Map!Less(k, s[n])
                BY <3>1, <3>2, <4>1, <5>2
          <6> QED BY <1>2, <3>1, <4>1, <6>1
        <5> QED BY <3>2, <4>1, <5>1, <5>2
      <4>3. ~Map!Less(s[n], x)
            BY <1>2, <4>1, <4>2, Comparison
      <4> QED BY <1>5, <4>1, <4>3
    <3>3. ASSUME NEW j \in 1..Len(s), j > n, ~Map!Less(x, k)
          PROVE  Map!Less(k, s[j])
      <4>1. n + 1 \in 1..Len(s) /\ n < Len(s)
            BY <1>1, <3>3
      <4>2. Map!Less(k, s[n + 1])
        <5> SUFFICES ASSUME ~Map!Less(k, s[n + 1])
                     PROVE  FALSE
            OBVIOUS
        <5>1. ~Map!Less(x, s[n + 1])
              BY <1>2, <3>3, <4>1, Comparison
        <5> QED BY <4>1, <5>1
      <4>3. CASE j = n + 1
            BY <4>2, <4>3
      <4>4. CASE j > n + 1
        <5>1. ~Map!Less(s[n + 1], k)
              BY <1>2, <3>1, <4>1, <4>2
        <5> QED BY <3>1, <4>1, <4>4, <5>1
      <4> QED BY <1>1, <3>3, <4>3, <4>4
    <3>4. ASSUME NEW i \in 1..Len(q), NEW j \in 1..Len(q), i < j, ~Map!Less(q[i], k)
          PROVE  Map!Less(k, q[j])
      <4>1. CASE i <= n
        <5>1. i \in 1..Len(s) /\ q[i] = s[i]
              BY <1>1, <2>2, <4>1
        <5>2. CASE j <= n
          <6>1. j \in 1..Len(s) /\ q[j] = s[j]
                BY <1>1, <2>2, <5>2
          <6> QED BY <3>1, <3>4, <5>1, <6>1
        <5>3. CASE j = n + 1
              BY <2>1, <3>2, <3>4, <4>1, <5>1, <5>3
        <5>4. CASE j > n + 1
          <6>1. j - 1 \in 1..Len(s) /\ q[j] = s[j - 1]
                BY <1>1, <2>2, <5>4
          <6>2. i < j - 1
                BY <1>1, <4>1, <5>4
          <6> QED BY <3>1, <3>4, <5>1, <6>1, <6>2
        <5> QED BY <1>1, <2>1, <5>2, <5>3, <5>4
      <4>2. CASE i = n + 1
        <5>1. q[i] = x
              BY <2>1, <4>2
        <5>2. j - 1 \in 1..Len(s) /\ q[j] = s[j - 1] /\ j - 1 > n
          <6>1. j > n + 1
                BY <3>4, <4>2
          <6> QED BY <1>1, <2>1, <2>2, <6>1
        <5> QED BY <3>3, <3>4, <5>1, <5>2
      <4>3. CASE i > n + 1
        <5>1. i - 1 \in 1..Len(s) /\ q[i] = s[i - 1]
              BY <1>1, <2>2, <4>3
        <5>2. j > n + 1
              BY <1>1, <2>1, <3>4, <4>3
        <5>3. j - 1 \in 1..Len(s) /\ q[j] = s[j - 1]
              BY <1>1, <2>2, <5>2
        <5>4. i - 1 < j - 1
              BY <2>1, <1>1, <3>4
        <5> QED BY <3>1, <3>4, <5>1, <5>3, <5>4
      <4> QED BY <1>1, <2>1, <4>1, <4>2, <4>3
    <3>5. ASSUME k \in O \cup {x}
          PROVE  \E i \in 1..Len(q) : q[i] = k
      <4>1. CASE k = x
        <5>1. n + 1 \in 1..Len(q)
              BY <1>1, <2>1
        <5> QED BY <2>1, <4>1, <5>1
      <4>2. CASE k \in O
        <5>1. PICK i \in 1..Len(s) : s[i] = k
              BY <3>1, <4>2
        <5>2. CASE i <= n
          <6>1. i \in 1..Len(q) /\ i \in 1..n
                BY <1>1, <2>1, <5>2
          <6> QED BY <2>1, <5>1, <6>1
        <5>3. CASE i > n
          <6>1. i + 1 \in 1..Len(q) /\ i \in n + 1..Len(s)
                BY <1>1, <2>1, <5>3
          <6> QED BY <2>1, <5>1, <6>1
        <5> QED BY <1>1, <5>2, <5>3
      <4> QED BY <3>5, <4>1, <4>2
    <3> QED BY <3>4, <3>5
  <2> QED BY <2>3, <2>4 DEF Ordered
<1> QED BY <1>4, <1>5

-----------------------------------------------------------------------------
(***************************************************************************)
(* The map.                                                                *)
(***************************************************************************)

MapKeys(s) ==
    /\ Tree(m_traceDb, s)
    /\ Len(s) <= Len(opened)
    /\ Ordered(s, Map!Opened)
    /\ (\A j, k \in Map!Opened : ~Map!Cross(j, k)) => Len(s) = Len(opened)

MapInv ==
    /\ opened \in Seq(Map!Pairs)
    /\ Len(opened) <= MaxOpened
    /\ \E s : MapKeys(s)

LEMMA OpenedPairs ==
    ASSUME NEW o \in Seq(Map!Pairs)
    PROVE  /\ \A k : k \in Map!Range(o) <=> \E i \in 1..Len(o) : o[i] = k
           /\ Map!Range(o) \in SUBSET Map!Pairs
           /\ \A k \in Map!Pairs : Map!Range(Append(o, k)) = Map!Range(o) \cup {k}
<1>1. \A p \in Seq(Map!Pairs) : Map!Range(p) = {p[i] : i \in 1..Len(p)}
      BY DEF Map!Range
<1>2. \A i \in 1..Len(o) : o[i] \in Map!Pairs
      OBVIOUS
<1>3. ASSUME NEW k \in Map!Pairs
      PROVE  Map!Range(Append(o, k)) = Map!Range(o) \cup {k}
  <2> DEFINE p == Append(o, k)
  <2>1. /\ p \in Seq(Map!Pairs) /\ Len(p) = Len(o) + 1 /\ p[Len(o) + 1] = k
        /\ \A i \in 1..Len(o) : p[i] = o[i]
        OBVIOUS
  <2>2. Len(o) \in Nat
        OBVIOUS
  <2> HIDE DEF p
  <2>3. 1..Len(p) = 1..Len(o) \cup {Len(o) + 1}
        BY <2>1, <2>2
  <2>4. {p[i] : i \in 1..Len(p)} = {o[i] : i \in 1..Len(o)} \cup {k}
        BY <2>1, <2>3
  <2> QED BY <1>1, <2>1, <2>4 DEF p
<1> QED BY <1>1, <1>2, <1>3

LEMMA MapBegins == TracesInit => MapInv
<1> SUFFICES ASSUME TracesInit
             PROVE  MapInv
    OBVIOUS
<1>1. m_traceDb = Map!Leaf /\ opened = << >>
      BY DEF TracesInit, Map!Init
<1>2. MaxOpened \in Nat
      BY TracesAssumption DEF Map!PairAssumption
<1>3. opened \in Seq(Map!Pairs) /\ Len(opened) = 0
      BY <1>1
<1>4. \A k : k \notin Map!Opened
  <2>1. Map!Range(opened) = {opened[i] : i \in 1..Len(opened)}
        BY <1>3 DEF Map!Range
  <2>2. 1..Len(opened) = {}
        BY <1>3
  <2> QED BY <2>1, <2>2 DEF Map!Opened
<1>5. MapKeys(<< >>)
      BY <1>1, <1>3, <1>4, LeafIsATree DEF MapKeys, Ordered
<1> QED BY <1>2, <1>3, <1>5 DEF MapInv

\* The map with one more pair.
LEMMA AddKeepsMapInv ==
    ASSUME MapInv, NEW k \in Map!Pairs, Map!AddMonitorAddressPair(k)
    PROVE  MapInv'
<1>1. PICK s : MapKeys(s)
      BY DEF MapInv
<1>2. /\ opened \in Seq(Map!Pairs) /\ Len(opened) <= MaxOpened /\ Len(opened) \in Nat
      /\ MaxOpened \in Nat
      BY TracesAssumption DEF MapInv, Map!PairAssumption
<1>3. /\ Tree(m_traceDb, s) /\ Len(s) <= Len(opened) /\ Ordered(s, Map!Opened)
      /\ (\A i, j \in Map!Opened : ~Map!Cross(i, j)) => Len(s) = Len(opened)
      BY <1>1 DEF MapKeys
<1>4. s \in Seq(Map!Pairs) /\ Len(s) \in Nat
      BY <1>3, TreeCases
<1>5. Len(s) <= MaxOpened
      BY <1>2, <1>3, <1>4
<1>6. CASE Map!Found(m_traceDb, k)
  <2>1. UNCHANGED <<m_traceDb, opened>>
        BY <1>6 DEF Map!AddMonitorAddressPair, Map!vars
  <2>2. UNCHANGED Map!Opened
        BY <2>1 DEF Map!Opened
  <2>3. MapKeys(s)'
        BY <1>3, <2>1, <2>2 DEF MapKeys
  <2> QED BY <1>2, <2>1, <2>3 DEF MapInv
<1>7. CASE ~Map!Found(m_traceDb, k)
  <2>1. /\ Len(opened) < MaxOpened
        /\ opened' = Append(opened, k)
        /\ m_traceDb' = Map!Insert(m_traceDb, k)
        BY <1>7 DEF Map!AddMonitorAddressPair
  <2>2. opened' \in Seq(Map!Pairs) /\ Len(opened') = Len(opened) + 1 /\ Len(opened') <= MaxOpened
        BY <1>2, <2>1
  <2>3. Map!Opened' = Map!Opened \cup {k} /\ Map!Opened \in SUBSET Map!Pairs
        BY <1>2, <2>1, OpenedPairs DEF Map!Opened
  <2>4. PICK n \in 0..Len(s) :
            /\ n > 0 => ~Map!Less(k, s[n])
            /\ n < Len(s) => Map!Less(k, s[n + 1])
            /\ n = 0 \/ Map!Less(s[n], k) =>
                   \E q : Tree(Map!Insert(m_traceDb, k), q) /\ Inserted(q, s, n, k)
            /\ ~(n = 0 \/ Map!Less(s[n], k)) => Map!Insert(m_traceDb, k) = m_traceDb
        BY <1>3, <1>5, InsertSplits
  <2>5. CASE n = 0 \/ Map!Less(s[n], k)
    <3>1. PICK q : Tree(Map!Insert(m_traceDb, k), q) /\ Inserted(q, s, n, k)
          BY <2>4, <2>5
    <3>2. q \in Seq(Map!Pairs)
          BY <3>1, TreeCases
    <3>3. Ordered(q, Map!Opened \cup {k})
          BY <1>3, <1>4, <2>3, <2>4, <2>5, <3>1, <3>2, InsertKeepsOrder
    <3>4. Len(q) = Len(s) + 1
          BY <3>1 DEF Inserted
    <3>5. (\A i, j \in Map!Opened' : ~Map!Cross(i, j)) => Len(q) = Len(opened')
          BY <1>3, <2>2, <2>3, <3>4
    <3>6. MapKeys(q)'
          BY <1>2, <1>3, <1>4, <2>1, <2>2, <2>3, <3>1, <3>3, <3>4, <3>5 DEF MapKeys
    <3> QED BY <2>2, <3>6 DEF MapInv
  <2>6. CASE ~(n = 0 \/ Map!Less(s[n], k))
    <3>1. m_traceDb' = m_traceDb
          BY <2>1, <2>4, <2>6
    <3>2. Ordered(s, Map!Opened \cup {k})
          BY <1>3, <1>4, <2>3, <2>4, <2>6, InsertKeepsOrder
    <3>3. ASSUME \A i, j \in Map!Opened' : ~Map!Cross(i, j)
          PROVE  FALSE
      <4>1. n \in 1..Len(s) /\ ~Map!Less(s[n], k) /\ ~Map!Less(k, s[n])
            BY <1>4, <2>4, <2>6
      <4>2. s[n] = k
            BY <1>4, <4>1, Comparison
      <4>3. k \in Map!Opened
            BY <1>3, <4>1, <4>2 DEF Ordered
      <4>4. \A j \in Map!Opened : ~Map!Cross(j, k)
            BY <2>3, <3>3
      <4>5. Map!Found(m_traceDb, k)
            BY <1>3, <1>5, <2>3, <4>3, <4>4, UncrossedIsFound
      <4> QED BY <1>7, <4>5
    <3>4. MapKeys(s)'
      <4>1. Tree(m_traceDb', s)
            BY <1>3, <3>1
      <4>2. Len(s) <= Len(opened')
            BY <1>2, <1>3, <1>4, <2>2
      <4>3. Ordered(s, Map!Opened')
            BY <2>3, <3>2
      <4> QED BY <3>3, <4>1, <4>2, <4>3 DEF MapKeys
    <3> QED BY <2>2, <3>4 DEF MapInv
  <2> QED BY <2>5, <2>6
<1> QED BY <1>6, <1>7

\* The map emptied.
LEMMA ShutdownKeepsMapInv ==
    ASSUME Map!Shutdown
    PROVE  MapInv'
<1>1. m_traceDb' = Map!Leaf /\ opened' = << >>
      BY DEF Map!Shutdown
<1>2. MaxOpened \in Nat
      BY TracesAssumption DEF Map!PairAssumption
<1>3. opened' \in Seq(Map!Pairs) /\ Len(opened') = 0
      BY <1>1
<1>4. \A k : k \notin Map!Opened'
  <2>1. Map!Range(opened') = {opened'[i] : i \in 1..Len(opened')}
        BY <1>3 DEF Map!Range
  <2>2. 1..Len(opened') = {}
        BY <1>3
  <2> QED BY <2>1, <2>2 DEF Map!Opened
<1>5. MapKeys(<< >>)'
      BY <1>1, <1>3, <1>4, LeafIsATree DEF MapKeys, Ordered
<1> QED BY <1>2, <1>3, <1>5 DEF MapInv

LEMMA MapInvIsKept == MapInv /\ [TracesNext]_tracesVars => MapInv'
<1> SUFFICES ASSUME MapInv, [TracesNext]_tracesVars
             PROVE  MapInv'
    OBVIOUS
<1>1. CASE UNCHANGED mapVars
  <2>1. UNCHANGED <<m_traceDb, opened>>
        BY <1>1 DEF mapVars
  <2>2. UNCHANGED Map!Opened
        BY <2>1 DEF Map!Opened
  <2>3. \A s : MapKeys(s)' <=> MapKeys(s)
        BY <2>1, <2>2 DEF MapKeys
  <2> QED BY <2>1, <2>3 DEF MapInv
<1>2. CASE Map!Next
  <2>1. CASE Map!Shutdown
        BY <2>1, ShutdownKeepsMapInv
  <2>2. CASE \E k \in Map!Pairs : Map!AddMonitorAddressPair(k)
        BY <2>2, AddKeepsMapInv
  <2> QED BY <1>2, <2>1, <2>2 DEF Map!Next
<1>3. UNCHANGED mapVars \/ Map!Next
      BY DEF TracesNext, tracesVars, mapVars
<1> QED BY <1>1, <1>2, <1>3

\* What the invariant says of the pairs.
LEMMA MapLosesCrossed ==
    ASSUME MapInv
    PROVE  OnlyCrossedPairsAreLost
<1>1. PICK s : MapKeys(s)
      BY DEF MapInv
<1>2. /\ opened \in Seq(Map!Pairs) /\ Len(opened) <= MaxOpened /\ Len(opened) \in Nat
      /\ MaxOpened \in Nat
      BY TracesAssumption DEF MapInv, Map!PairAssumption
<1>3. /\ Tree(m_traceDb, s) /\ Len(s) <= Len(opened) /\ Ordered(s, Map!Opened)
      /\ (\A i, j \in Map!Opened : ~Map!Cross(i, j)) => Len(s) = Len(opened)
      BY <1>1 DEF MapKeys
<1>4. s \in Seq(Map!Pairs) /\ Len(s) \in Nat /\ Map!Opened \in SUBSET Map!Pairs
      BY <1>2, <1>3, OpenedPairs, TreeCases DEF Map!Opened
<1>5. Len(s) <= MaxOpened
      BY <1>2, <1>3, <1>4
<1>6. \A k \in Map!Opened : (\A j \in Map!Opened : ~Map!Cross(j, k)) => Map!Found(m_traceDb, k)
      BY <1>3, <1>4, <1>5, UncrossedIsFound
<1>7. Map!LostPairsCross
      BY <1>6 DEF Map!LostPairsCross
<1>8. Map!FoundIsItself
  <2> SUFFICES ASSUME NEW k \in Map!Pairs, Map!Found(m_traceDb, k)
               PROVE  k \in Map!Opened
      BY DEF Map!FoundIsItself
  <2>1. \E i \in 1..Len(s) : s[i] = k
        BY <1>3, <1>5, FoundIsAKey
  <2> QED BY <1>3, <2>1 DEF Ordered
<1>9. Map!UncrossedPairsAreAMap
  <2>1. Map!InOrder(m_traceDb) = s
        BY <1>3, <1>5, OrderOfATree
  <2> SUFFICES ASSUME \A j, k \in Map!Opened : ~Map!Cross(j, k)
               PROVE  /\ \A k \in Map!Opened : Map!Found(m_traceDb, k)
                      /\ Len(s) = Len(opened)
                      /\ Map!Range(s) = Map!Opened
                      /\ \A i, j \in DOMAIN s : i < j => Map!Less(s[i], s[j])
      BY <2>1 DEF Map!UncrossedPairsAreAMap
  <2>2. \A k \in Map!Opened : Map!Found(m_traceDb, k)
        BY <1>6
  <2>3. /\ \A i \in 1..Len(s) : s[i] \in Map!Opened
        /\ \A k \in Map!Opened : \E i \in 1..Len(s) : s[i] = k
        /\ \A k \in Map!Opened : \A i, j \in 1..Len(s) :
               i < j /\ ~Map!Less(s[i], k) => Map!Less(k, s[j])
        BY <1>3, <1>4 DEF Ordered
  <2>4. Map!Range(s) = Map!Opened
    <3>1. \A k : k \in Map!Range(s) <=> \E i \in 1..Len(s) : s[i] = k
          BY <1>4, OpenedPairs
    <3> QED BY <2>3, <3>1
  <2>5. ASSUME NEW i \in DOMAIN s, NEW j \in DOMAIN s, i < j
        PROVE  Map!Less(s[i], s[j])
    <3>1. i \in 1..Len(s) /\ j \in 1..Len(s)
          BY <1>4
    <3>2. s[i] \in Map!Opened /\ ~Map!Less(s[i], s[i])
          BY <1>4, <2>3, <3>1, Comparison
    <3> QED BY <2>3, <2>5, <3>1, <3>2
  <2> QED BY <1>3, <2>2, <2>4, <2>5
<1> QED BY <1>7, <1>8, <1>9 DEF OnlyCrossedPairsAreLost

\* OnlyCrossedPairsAreLost of Traces: a pair that was added and is not found
\* crosses another one, and without crossings the map is a map, whatever pairs
\* are added in whatever order.
THEOREM OnlyCrossedPairsAreLostHolds == TracesSpec => []OnlyCrossedPairsAreLost
<1>1. MapInv => OnlyCrossedPairsAreLost
      BY MapLosesCrossed
<1> QED BY <1>1, MapBegins, MapInvIsKept, PTL DEF TracesSpec

-----------------------------------------------------------------------------
(***************************************************************************)
(* The pairs of the dumbbell, of which the second and the third cross: the *)
(* tree is followed through the four insertions.                           *)
(***************************************************************************)

\* A tree of n keys, which the operators unfold on.
Sized(t, n) == \E s : Tree(t, s) /\ Len(s) = n

LEMMA SizedTrees ==
    /\ Sized(Map!Leaf, 0)
    /\ \A l, r : \A i, j \in Nat, red \in BOOLEAN, k \in Map!Pairs :
           Sized(l, i) /\ Sized(r, j) => Sized(Map!Node(red, l, k, r), i + 1 + j)
<1>1. Sized(Map!Leaf, 0)
      BY LeafIsATree DEF Sized
<1>2. ASSUME NEW l, NEW r, NEW i \in Nat, NEW j \in Nat, NEW red \in BOOLEAN,
             NEW k \in Map!Pairs, Sized(l, i), Sized(r, j)
      PROVE  Sized(Map!Node(red, l, k, r), i + 1 + j)
  <2>1. PICK p : Tree(l, p) /\ Len(p) = i
        BY <1>2 DEF Sized
  <2>2. PICK q : Tree(r, q) /\ Len(q) = j
        BY <1>2 DEF Sized
  <2>3. p \in Seq(Map!Pairs) /\ q \in Seq(Map!Pairs)
        BY <2>1, <2>2, TreeCases
  <2>4. Len(Around(p, k, q)) = Len(p) + 1 + Len(q)
        BY <2>3, KeyBetween DEF Between
  <2>5. Tree(Map!Node(red, l, k, r), Around(p, k, q))
        BY <2>1, <2>2, NodeIsATree
  <2> QED BY <2>1, <2>2, <2>4, <2>5 DEF Sized
<1> QED BY <1>1, <1>2

Unfolds(t, k) ==
    /\ t = Map!Leaf =>
        /\ Map!LowerBound(t, k) = {}
        /\ Map!Before(t, k) = {}
        /\ Map!Put(t, k) = Map!Node(TRUE, Map!Leaf, k, Map!Leaf)
    /\ \A red, l, x, r : t = Map!Node(red, l, x, r) =>
        /\ Map!LowerBound(t, k) =
                IF Map!Less(x, k) THEN Map!LowerBound(r, k)
                ELSE IF Map!LowerBound(l, k) = {} THEN {x} ELSE Map!LowerBound(l, k)
        /\ Map!Before(t, k) =
                IF Map!Less(k, x) THEN Map!Before(l, k)
                ELSE IF Map!Before(r, k) = {} THEN {x} ELSE Map!Before(r, k)
        /\ Map!Put(t, k) =
                IF Map!Less(k, x) THEN Map!Rebalance(Map!Node(red, Map!Put(l, k), x, r))
                ELSE Map!Rebalance(Map!Node(red, l, x, Map!Put(r, k)))

LEMMA SizedUnfolds ==
    ASSUME NEW t, NEW n \in Nat, Sized(t, n), n <= MaxOpened, NEW k
    PROVE  Unfolds(t, k)
<1>1. PICK s : Tree(t, s) /\ Len(s) = n
      BY DEF Sized
<1>2. Len(s) <= MaxOpened
      BY <1>1
<1>3. ASSUME t = Map!Leaf
      PROVE  /\ Map!LowerBound(t, k) = {}
             /\ Map!Before(t, k) = {}
             /\ Map!Put(t, k) = Map!Node(TRUE, Map!Leaf, k, Map!Leaf)
      BY <1>1, <1>2, <1>3, LowerBoundUnfolds, BeforeUnfolds, PutUnfolds
<1>4. ASSUME NEW red, NEW l, NEW x, NEW r, t = Map!Node(red, l, x, r)
      PROVE  /\ Map!LowerBound(t, k) =
                    IF Map!Less(x, k) THEN Map!LowerBound(r, k)
                    ELSE IF Map!LowerBound(l, k) = {} THEN {x} ELSE Map!LowerBound(l, k)
             /\ Map!Before(t, k) =
                    IF Map!Less(k, x) THEN Map!Before(l, k)
                    ELSE IF Map!Before(r, k) = {} THEN {x} ELSE Map!Before(r, k)
             /\ Map!Put(t, k) =
                    IF Map!Less(k, x) THEN Map!Rebalance(Map!Node(red, Map!Put(l, k), x, r))
                    ELSE Map!Rebalance(Map!Node(red, l, x, Map!Put(r, k)))
  <2>1. t # Map!Leaf /\ t.key = x /\ t.left = l /\ t.right = r
        BY <1>4, LeafIsNoNode
  <2>2. Map!LowerBound(t, k) =
            IF Map!Less(x, k) THEN Map!LowerBound(r, k)
            ELSE IF Map!LowerBound(l, k) = {} THEN {x} ELSE Map!LowerBound(l, k)
        BY <1>1, <1>2, <2>1, LowerBoundUnfolds
  <2>3. Map!Before(t, k) =
            IF Map!Less(k, x) THEN Map!Before(l, k)
            ELSE IF Map!Before(r, k) = {} THEN {x} ELSE Map!Before(r, k)
        BY <1>1, <1>2, <2>1, BeforeUnfolds
  <2>4. Map!Put(t, k) =
            IF Map!Less(k, x) THEN Map!Rebalance([t EXCEPT !.left = Map!Put(l, k)])
            ELSE Map!Rebalance([t EXCEPT !.right = Map!Put(r, k)])
        BY <1>1, <1>2, <2>1, PutUnfolds
  <2>5. \A u : /\ [t EXCEPT !.left = u] = Map!Node(red, u, x, r)
               /\ [t EXCEPT !.right = u] = Map!Node(red, l, x, u)
        BY <1>4 DEF Map!Node
  <2> QED BY <2>2, <2>3, <2>4, <2>5
<1> QED BY <1>3, <1>4 DEF Unfolds

\* Rebalancing where there is nothing to do, at the inner grandchild on the
\* right, and with a red uncle on the left.
LEMMA Rebalances ==
    ASSUME NEW red, NEW l, NEW x, NEW r
    PROVE  /\ ~Map!Offends(l) /\ ~Map!Offends(r) =>
                Map!Rebalance(Map!Node(red, l, x, r)) = Map!Node(red, l, x, r)
           /\ ~l.red /\ ~Map!Offends(l) /\ Map!Offends(r) /\ r.left.red =>
                Map!Rebalance(Map!Node(red, l, x, r)) =
                    Map!Node(NotRed, Map!Node(Red, l, x, r.left.left), r.left.key,
                                     Map!Node(Red, r.left.right, r.key, r.right))
           /\ l.red /\ r.red /\ Map!Offends(r) =>
                Map!Rebalance(Map!Node(red, l, x, r)) = WithBlackChildren(Map!Node(red, l, x, r))
<1> DEFINE t == Map!Node(red, l, x, r)
<1>1. t.left = l /\ t.right = r /\ t.key = x
      BY LeafIsNoNode
<1> HIDE DEF t
<1>2. ~Map!Offends(l) /\ ~Map!Offends(r) => Map!Rebalance(t) = t
      BY <1>1 DEF Map!Rebalance
<1>3. ~l.red /\ ~Map!Offends(l) /\ Map!Offends(r) /\ r.left.red =>
          Map!Rebalance(t) =
              Map!Node(NotRed, Map!Node(Red, l, x, r.left.left), r.left.key,
                               Map!Node(Red, r.left.right, r.key, r.right))
      BY <1>1 DEF Map!Rebalance, Red, NotRed
<1>4. l.red /\ r.red /\ Map!Offends(r) => Map!Rebalance(t) = WithBlackChildren(t)
      BY <1>1 DEF Map!Rebalance, WithBlackChildren
<1> QED BY <1>2, <1>3, <1>4 DEF t

\* The four pairs and how they compare.
D(i) == Map!Dumbbell[i]

LEMMA DumbbellCompares ==
    /\ \A i \in 1..4 : ~Map!Less(D(i), D(i))
    /\ Map!Less(D(1), D(2)) /\ Map!Less(D(1), D(3)) /\ Map!Less(D(1), D(4))
    /\ Map!Less(D(2), D(3)) /\ Map!Less(D(3), D(2))
    /\ Map!Less(D(2), D(4)) /\ Map!Less(D(3), D(4))
    /\ ~Map!Less(D(2), D(1)) /\ ~Map!Less(D(3), D(1)) /\ ~Map!Less(D(4), D(1))
    /\ ~Map!Less(D(4), D(2)) /\ ~Map!Less(D(4), D(3))
<1>1. ASSUME NEW c \in Nat, NEW s \in Nat, NEW p \in Nat, NEW d \in Nat, NEW t \in Nat, NEW q \in Nat
      PROVE  Map!Less(Map!Pair(c, s, p), Map!Pair(d, t, q)) <=> c < d \/ s < t \/ p < q
  <2> DEFINE a == Map!Pair(c, s, p)
             b == Map!Pair(d, t, q)
  <2>1. /\ a.client_ip = c /\ a.server_ip = s /\ a.client_port = p /\ a.server_port = 1234
        /\ b.client_ip = d /\ b.server_ip = t /\ b.client_port = q /\ b.server_port = 1234
        BY DEF Map!Pair
  <2> HIDE DEF a, b
  <2>2. Map!Less(a, b) <=> \/ a.client_ip < b.client_ip \/ a.server_ip < b.server_ip
                           \/ a.client_port < b.client_port \/ a.server_port < b.server_port
        BY DEF Map!Less, Map!Fields
  <2>3. Map!Less(a, b) <=> c < d \/ s < t \/ p < q
        BY <2>1, <2>2
  <2> QED BY <2>3 DEF a, b
<1>2. /\ D(1) = Map!Pair(1, 3, 1) /\ D(2) = Map!Pair(1, 3, 2)
      /\ D(3) = Map!Pair(4, 5, 1) /\ D(4) = Map!Pair(4, 5, 2)
      BY DEF D, Map!Dumbbell
<1>3. ~Map!Less(D(1), D(1)) /\ ~Map!Less(D(2), D(2)) /\ ~Map!Less(D(3), D(3)) /\ ~Map!Less(D(4), D(4))
      BY <1>1, <1>2
<1>4. Map!Less(D(1), D(2)) /\ Map!Less(D(1), D(3)) /\ Map!Less(D(1), D(4))
      BY <1>1, <1>2
<1>5. /\ Map!Less(D(2), D(3)) /\ Map!Less(D(3), D(2))
      /\ Map!Less(D(2), D(4)) /\ Map!Less(D(3), D(4))
      BY <1>1, <1>2
<1>6. ~Map!Less(D(2), D(1)) /\ ~Map!Less(D(3), D(1)) /\ ~Map!Less(D(4), D(1))
      BY <1>1, <1>2
<1>7. ~Map!Less(D(4), D(2)) /\ ~Map!Less(D(4), D(3))
      BY <1>1, <1>2
<1>8. \A i \in 1..4 : i = 1 \/ i = 2 \/ i = 3 \/ i = 4
      OBVIOUS
<1> QED BY <1>3, <1>4, <1>5, <1>6, <1>7, <1>8

\* The trees: a single key; one to its right; the crossing pairs turned about
\* the third; and the fourth under the second.
Single(red, i) == Map!Node(red, Map!Leaf, D(i), Map!Leaf)

Two == Map!Node(NotRed, Map!Leaf, D(1), Single(Red, 2))
Three == Map!Node(NotRed, Single(Red, 1), D(3), Single(Red, 2))
RightHalf == Map!Node(NotRed, Map!Leaf, D(2), Single(Red, 4))
Four == Map!Node(NotRed, Single(NotRed, 1), D(3), RightHalf)

Shape(n) ==
    CASE n = 0 -> Map!Leaf
      [] n = 1 -> Single(NotRed, 1)
      [] n = 2 -> Two
      [] n = 3 -> Three
      [] n = 4 -> Four

LEMMA ShapesAreSized ==
    /\ \A i \in 1..4 : D(i) \in Map!Pairs =>
            Sized(Single(Red, i), 1) /\ Sized(Single(NotRed, i), 1)
    /\ D(1) \in Map!Pairs /\ D(2) \in Map!Pairs => Sized(Two, 2)
    /\ D(1) \in Map!Pairs /\ D(2) \in Map!Pairs /\ D(3) \in Map!Pairs => Sized(Three, 3)
    /\ D(1) \in Map!Pairs /\ D(2) \in Map!Pairs /\ D(3) \in Map!Pairs /\ D(4) \in Map!Pairs
            => Sized(RightHalf, 2) /\ Sized(Four, 4)
<1>0. Red \in BOOLEAN /\ NotRed \in BOOLEAN
      BY DEF Red, NotRed
<1>1. ASSUME NEW i \in 1..4, D(i) \in Map!Pairs
      PROVE  Sized(Single(Red, i), 1) /\ Sized(Single(NotRed, i), 1)
  <2>1. \A red \in BOOLEAN : Sized(Map!Node(red, Map!Leaf, D(i), Map!Leaf), 0 + 1 + 0)
        BY <1>1, SizedTrees
  <2> QED BY <1>0, <2>1 DEF Single
<1>2. ASSUME D(1) \in Map!Pairs, D(2) \in Map!Pairs
      PROVE  Sized(Two, 2)
  <2>1. Sized(Single(Red, 2), 1) /\ Sized(Map!Leaf, 0)
        BY <1>1, <1>2, SizedTrees
  <2>2. Sized(Two, 0 + 1 + 1)
        BY <1>0, <1>2, <2>1, SizedTrees DEF Two
  <2> QED BY <2>2
<1>3. ASSUME D(1) \in Map!Pairs, D(2) \in Map!Pairs, D(3) \in Map!Pairs
      PROVE  Sized(Three, 3)
  <2>1. Sized(Single(Red, 1), 1) /\ Sized(Single(Red, 2), 1)
        BY <1>1, <1>3
  <2>2. Sized(Three, 1 + 1 + 1)
        BY <1>0, <1>3, <2>1, SizedTrees DEF Three
  <2> QED BY <2>2
<1>4. ASSUME D(1) \in Map!Pairs, D(2) \in Map!Pairs, D(3) \in Map!Pairs, D(4) \in Map!Pairs
      PROVE  Sized(RightHalf, 2) /\ Sized(Four, 4)
  <2>1. Sized(Single(NotRed, 1), 1) /\ Sized(Single(Red, 4), 1) /\ Sized(Map!Leaf, 0)
        BY <1>1, <1>4, SizedTrees
  <2>2. Sized(RightHalf, 0 + 1 + 1)
        BY <1>0, <1>4, <2>1, SizedTrees DEF RightHalf
  <2>3. Sized(RightHalf, 2)
        BY <2>2
  <2>4. Sized(Four, 1 + 1 + 2)
        BY <1>0, <1>4, <2>1, <2>3, SizedTrees DEF Four
  <2> QED BY <2>3, <2>4
<1> QED BY <1>1, <1>2, <1>3, <1>4

LEMMA MapBound == MaxOpened \in Nat
BY TracesAssumption DEF Map!PairAssumption

\* A single key, when k is put under it or looked for.
Alone(red, i, k) ==
    /\ Map!LowerBound(Single(red, i), k) = IF Map!Less(D(i), k) THEN {} ELSE {D(i)}
    /\ Map!Before(Single(red, i), k) = IF Map!Less(k, D(i)) THEN {} ELSE {D(i)}
    /\ Map!Put(Single(red, i), k) =
            LET new == Map!Node(Red, Map!Leaf, k, Map!Leaf)
            IN  IF Map!Less(k, D(i)) THEN Map!Node(red, new, D(i), Map!Leaf)
                ELSE Map!Node(red, Map!Leaf, D(i), new)

LEMMA KeyAlone ==
    ASSUME NEW i \in 1..4, D(i) \in Map!Pairs, 1 <= MaxOpened, NEW red \in BOOLEAN, NEW k
    PROVE  Alone(red, i, k)
<1> DEFINE t == Single(red, i)
           new == Map!Node(Red, Map!Leaf, k, Map!Leaf)
<1>1. /\ Map!LowerBound(Map!Leaf, k) = {} /\ Map!Before(Map!Leaf, k) = {}
      /\ Map!Put(Map!Leaf, k) = new
  <2>1. Sized(Map!Leaf, 0) /\ 0 <= MaxOpened
        BY SizedTrees, MapBound
  <2>2. Unfolds(Map!Leaf, k)
        BY <2>1, SizedUnfolds
  <2> QED BY <2>2 DEF Unfolds, Red
<1>2. Unfolds(t, k)
  <2>1. Sized(t, 0 + 1 + 0)
        BY SizedTrees DEF Single
  <2> HIDE DEF t
  <2> QED BY <2>1, SizedUnfolds
<1>3. ~Map!Offends(Map!Leaf) /\ ~Map!Offends(new)
      BY LeafIsNoNode DEF Map!Offends
<1> HIDE DEF new
<1>4. /\ Map!Rebalance(Map!Node(red, new, D(i), Map!Leaf)) = Map!Node(red, new, D(i), Map!Leaf)
      /\ Map!Rebalance(Map!Node(red, Map!Leaf, D(i), new)) = Map!Node(red, Map!Leaf, D(i), new)
      BY <1>3, Rebalances
<1>5. Map!LowerBound(t, k) = IF Map!Less(D(i), k) THEN {} ELSE {D(i)}
      BY <1>1, <1>2 DEF Unfolds, Single
<1>6. Map!Before(t, k) = IF Map!Less(k, D(i)) THEN {} ELSE {D(i)}
      BY <1>1, <1>2 DEF Unfolds, Single
<1>7. Map!Put(t, k) = IF Map!Less(k, D(i)) THEN Map!Node(red, new, D(i), Map!Leaf)
                      ELSE Map!Node(red, Map!Leaf, D(i), new)
      BY <1>1, <1>2, <1>4 DEF Unfolds, Single
<1> QED BY <1>5, <1>6, <1>7 DEF Alone, new

\* A pair after all keys, or after one that is less.
LEMMA Inserts ==
    ASSUME NEW t, NEW k, \A b \in Map!Before(t, k) : Map!Less(b, k)
    PROVE  Map!Insert(t, k) = Black(Map!Put(t, k))
BY DEF Map!Insert, Black

LEMMA FirstGrows ==
    ASSUME D(1) \in Map!Pairs, 1 <= MaxOpened
    PROVE  Map!Insert(Map!Leaf, D(1)) = Single(NotRed, 1)
<1>1. Unfolds(Map!Leaf, D(1))
  <2>1. Sized(Map!Leaf, 0) /\ 0 <= MaxOpened
        BY SizedTrees, MapBound
  <2> QED BY <2>1, SizedUnfolds
<1>2. Map!Insert(Map!Leaf, D(1)) = Black(Single(Red, 1))
      BY <1>1, Inserts DEF Unfolds, Single, Red
<1> QED BY <1>2, BlackNode DEF Single

LEMMA SecondGrows ==
    ASSUME D(1) \in Map!Pairs, D(2) \in Map!Pairs, 2 <= MaxOpened
    PROVE  Map!Insert(Single(NotRed, 1), D(2)) = Two
<1>1. Alone(NotRed, 1, D(2))
  <2>1. NotRed \in BOOLEAN /\ 1 <= MaxOpened /\ 1 \in 1..4
        BY MapBound DEF NotRed
  <2> QED BY <2>1, KeyAlone
<1>2. Map!Insert(Single(NotRed, 1), D(2)) = Black(Two)
      BY <1>1, Inserts, DumbbellCompares DEF Alone, Two, Single
<1> QED BY <1>2, BlackNode DEF Two

\* The third goes to the left of the second, which it crosses, and is turned
\* to the top.
LEMMA ThirdGrows ==
    ASSUME D(1) \in Map!Pairs, D(2) \in Map!Pairs, D(3) \in Map!Pairs, 3 <= MaxOpened
    PROVE  Map!Insert(Two, D(3)) = Three
<1> DEFINE under == Map!Node(Red, Single(Red, 3), D(2), Map!Leaf)
<1>1. Alone(Red, 2, D(3))
  <2>1. Red \in BOOLEAN /\ 1 <= MaxOpened /\ 2 \in 1..4
        BY MapBound DEF Red
  <2> QED BY <2>1, KeyAlone
<1>2. /\ Map!Before(Single(Red, 2), D(3)) = {}
      /\ Map!Put(Single(Red, 2), D(3)) = under
      BY <1>1, DumbbellCompares DEF Alone, Single
<1>3. Unfolds(Two, D(3))
  <2>1. Sized(Two, 2) /\ 2 <= MaxOpened
        BY ShapesAreSized, MapBound
  <2> QED BY <2>1, SizedUnfolds
<1>4. Map!Before(Two, D(3)) = {D(1)}
      BY <1>2, <1>3, DumbbellCompares DEF Unfolds, Two
<1>5. Map!Put(Two, D(3)) = Map!Rebalance(Map!Node(NotRed, Map!Leaf, D(1), under))
      BY <1>2, <1>3, DumbbellCompares DEF Unfolds, Two
<1>6. /\ ~Map!Leaf.red /\ ~Map!Offends(Map!Leaf)
      /\ Map!Offends(under) /\ under.left.red
  <2>1. /\ under.red = Red /\ under.left = Single(Red, 3)
        /\ Single(Red, 3).red = Red /\ Map!Leaf.red = FALSE
        BY LeafIsNoNode DEF Single
  <2> HIDE DEF under
  <2> QED BY <2>1 DEF Map!Offends, Red
<1>7. /\ under.left.left = Map!Leaf /\ under.left.key = D(3)
      /\ under.left.right = Map!Leaf /\ under.key = D(2) /\ under.right = Map!Leaf
      BY LeafIsNoNode DEF Single
<1> HIDE DEF under
<1>8. Map!Rebalance(Map!Node(NotRed, Map!Leaf, D(1), under)) = Three
      BY <1>6, <1>7, Rebalances DEF Three, Single
<1>9. Map!Insert(Two, D(3)) = Black(Three)
      BY <1>4, <1>5, <1>8, Inserts, DumbbellCompares
<1> QED BY <1>9, BlackNode DEF Three

\* The fourth goes to the right of the second, whose red brother moves the
\* colours up.
LEMMA FourthGrows ==
    ASSUME D(1) \in Map!Pairs, D(2) \in Map!Pairs, D(3) \in Map!Pairs, D(4) \in Map!Pairs,
           4 <= MaxOpened
    PROVE  Map!Insert(Three, D(4)) = Four
<1> DEFINE under == Map!Node(Red, Map!Leaf, D(2), Single(Red, 4))
           one == Single(Red, 1)
<1>1. Alone(Red, 2, D(4))
  <2>1. Red \in BOOLEAN /\ 1 <= MaxOpened /\ 2 \in 1..4
        BY MapBound DEF Red
  <2> QED BY <2>1, KeyAlone
<1>2. /\ Map!Before(Single(Red, 2), D(4)) = {D(2)}
      /\ Map!Put(Single(Red, 2), D(4)) = under
      BY <1>1, DumbbellCompares DEF Alone, Single
<1>3. Unfolds(Three, D(4))
  <2>1. Sized(Three, 3) /\ 3 <= MaxOpened
        BY ShapesAreSized, MapBound
  <2> QED BY <2>1, SizedUnfolds
<1>4. Map!Before(Three, D(4)) = {D(2)}
      BY <1>2, <1>3, DumbbellCompares DEF Unfolds, Three
<1>5. Map!Put(Three, D(4)) = Map!Rebalance(Map!Node(NotRed, one, D(3), under))
      BY <1>2, <1>3, DumbbellCompares DEF Unfolds, Three
<1>6. one.red /\ under.red /\ Map!Offends(under)
  <2>1. /\ under.red = Red /\ under.right = Single(Red, 4)
        /\ Single(Red, 4).red = Red /\ one.red = Red
        BY LeafIsNoNode DEF Single
  <2> HIDE DEF under, one
  <2> QED BY <2>1 DEF Map!Offends, Red
<1>7. Black(one) = Single(NotRed, 1) /\ Black(under) = RightHalf
      BY BlackNode DEF Single, RightHalf
<1> HIDE DEF under, one
<1>8. Map!Rebalance(Map!Node(NotRed, one, D(3), under))
          = WithBlackChildren(Map!Node(NotRed, one, D(3), under))
      BY <1>6, Rebalances
<1>9. WithBlackChildren(Map!Node(NotRed, one, D(3), under))
          = Map!Node(Red, Single(NotRed, 1), D(3), RightHalf)
      BY <1>7, AllRecoloured
<1>10. Map!Insert(Three, D(4)) = Black(Map!Node(Red, Single(NotRed, 1), D(3), RightHalf))
      BY <1>4, <1>5, <1>8, <1>9, Inserts, DumbbellCompares
<1> QED BY <1>10, BlackNode DEF Four

\* The first n pairs of the dumbbell are added, and no others.
First(n) == Len(opened) = n /\ \A i \in 1..n : opened[i] = D(i)

DumbbellInv == \A n \in 0..4 : First(n) => m_traceDb = Shape(n)

LEMMA DumbbellGrows ==
    ASSUME MapInv, DumbbellInv, NEW k \in Map!Pairs, Map!AddMonitorAddressPair(k)
    PROVE  DumbbellInv'
<1>1. CASE Map!Found(m_traceDb, k)
  <2>1. UNCHANGED <<m_traceDb, opened>>
        BY <1>1 DEF Map!AddMonitorAddressPair, Map!vars
  <2> QED BY <2>1 DEF DumbbellInv, First
<1>2. CASE ~Map!Found(m_traceDb, k)
  <2>1. /\ Len(opened) < MaxOpened
        /\ opened' = Append(opened, k)
        /\ m_traceDb' = Map!Insert(m_traceDb, k)
        BY <1>2 DEF Map!AddMonitorAddressPair
  <2>2. opened \in Seq(Map!Pairs) /\ Len(opened) \in Nat
        BY DEF MapInv
  <2>3. /\ Len(opened') = Len(opened) + 1 /\ opened'[Len(opened) + 1] = k
        /\ \A i \in 1..Len(opened) : opened'[i] = opened[i]
        BY <2>1, <2>2
  <2>4. SUFFICES ASSUME NEW n \in 0..4, First(n)'
                 PROVE  m_traceDb' = Shape(n)
        BY DEF DumbbellInv, Shape, Single, Two, Three, Four, RightHalf, D
  <2>5. Len(opened') = n /\ \A i \in 1..n : opened'[i] = D(i)
        BY <2>4 DEF First, D
  <2>6. n \in 1..4 /\ Len(opened) = n - 1 /\ n - 1 \in 0..4
        BY <2>2, <2>3, <2>5
  <2>7. k = D(n) /\ \A i \in 1..n - 1 : opened[i] = D(i)
        BY <2>3, <2>5, <2>6
  <2>8. m_traceDb = Shape(n - 1)
        BY <2>6, <2>7 DEF DumbbellInv, First
  <2>9. (\A i \in 1..n : D(i) \in Map!Pairs) /\ n <= MaxOpened
    <3>1. \A i \in 1..n - 1 : opened[i] \in Map!Pairs
          BY <2>2, <2>6
    <3>2. \A i \in 1..n : i = n \/ i \in 1..n - 1
          BY <2>6
    <3> QED BY <2>1, <2>6, <2>7, <3>1, <3>2, MapBound
  <2>10. Map!Insert(Shape(n - 1), D(n)) = Shape(n)
    <3>1. CASE n = 1
          BY <2>9, <3>1, FirstGrows DEF Shape
    <3>2. CASE n = 2
          BY <2>9, <3>2, SecondGrows DEF Shape
    <3>3. CASE n = 3
          BY <2>9, <3>3, ThirdGrows DEF Shape
    <3>4. CASE n = 4
          BY <2>9, <3>4, FourthGrows DEF Shape
    <3> QED BY <2>6, <3>1, <3>2, <3>3, <3>4
  <2> QED BY <2>1, <2>7, <2>8, <2>10
<1> QED BY <1>1, <1>2

LEMMA DumbbellKept ==
    /\ TracesInit => DumbbellInv
    /\ MapInv /\ DumbbellInv /\ [TracesNext]_tracesVars => DumbbellInv'
<1>1. ASSUME m_traceDb = Map!Leaf, opened = << >>
      PROVE  DumbbellInv
      BY <1>1 DEF DumbbellInv, First, Shape
<1>2. ASSUME m_traceDb' = Map!Leaf, opened' = << >>
      PROVE  DumbbellInv'
      BY <1>2 DEF DumbbellInv, First, Shape
<1>3. ASSUME UNCHANGED <<m_traceDb, opened>>, DumbbellInv
      PROVE  DumbbellInv'
      BY <1>3 DEF DumbbellInv, First
<1>4. ASSUME MapInv, DumbbellInv, [TracesNext]_tracesVars
      PROVE  DumbbellInv'
  <2>1. UNCHANGED mapVars \/ Map!Next
        BY <1>4 DEF TracesNext, tracesVars, mapVars
  <2>2. CASE UNCHANGED mapVars
        BY <1>3, <1>4, <2>2 DEF mapVars
  <2>3. CASE Map!Shutdown
        BY <1>2, <2>3 DEF Map!Shutdown
  <2>4. ASSUME NEW k \in Map!Pairs, Map!AddMonitorAddressPair(k)
        PROVE  DumbbellInv'
        BY <1>4, <2>4, DumbbellGrows
  <2> QED BY <2>1, <2>2, <2>3, <2>4 DEF Map!Next
<1> QED BY <1>1, <1>4 DEF TracesInit, Map!Init

\* A search goes to the right of a pair that is less, and to the left of one
\* that is not.
Searches(t, l, x, r) ==
    \A k : Map!LowerBound(t, k) = IF Map!Less(x, k) THEN Map!LowerBound(r, k)
                                  ELSE IF Map!LowerBound(l, k) = {} THEN {x}
                                  ELSE Map!LowerBound(l, k)

LEMMA NodeSearches ==
    ASSUME NEW t, \A k : Unfolds(t, k),
           NEW red, NEW l, NEW x, NEW r, t = Map!Node(red, l, x, r)
    PROVE  Searches(t, l, x, r)
<1> SUFFICES ASSUME NEW k
             PROVE  Map!LowerBound(t, k) = IF Map!Less(x, k) THEN Map!LowerBound(r, k)
                                           ELSE IF Map!LowerBound(l, k) = {} THEN {x}
                                           ELSE Map!LowerBound(l, k)
    BY DEF Searches
<1>1. Unfolds(t, k)
      OBVIOUS
<1> QED BY <1>1, Zenon DEF Unfolds

\* All that are added are found.
LEMMA DumbbellIsFound ==
    ASSUME NEW n \in {3, 4}, n <= MaxOpened, \A i \in 1..n : D(i) \in Map!Pairs
    PROVE  /\ \A i \in 1..n : Map!Found(Shape(n), D(i))
           /\ Len(Map!InOrder(Shape(n))) = n
<1>1. Red \in BOOLEAN /\ NotRed \in BOOLEAN /\ 1 <= MaxOpened
      BY MapBound DEF Red, NotRed
<1>2. D(1) \in Map!Pairs /\ D(2) \in Map!Pairs /\ D(3) \in Map!Pairs
      OBVIOUS
<1>3. Sized(Shape(n), n)
  <2>1. CASE n = 3
        BY <1>2, <2>1, ShapesAreSized DEF Shape
  <2>2. CASE n = 4
        BY <1>2, <2>2, ShapesAreSized DEF Shape
  <2> QED BY <2>1, <2>2
<1>4. \A k : Unfolds(Shape(n), k)
      BY <1>3, SizedUnfolds
<1>5. Len(Map!InOrder(Shape(n))) = n
      BY <1>3, OrderOfATree DEF Sized
<1>6. \A t, k : Map!LowerBound(t, k) = {k} /\ ~Map!Less(k, k) => Map!Found(t, k)
      BY DEF Map!Found
<1>7. \A red \in BOOLEAN, i \in {1, 2} : \A k : Alone(red, i, k)
      BY <1>1, <1>2, KeyAlone
<1>8. \A red \in BOOLEAN : /\ Map!LowerBound(Single(red, 1), D(1)) = {D(1)}
                           /\ Map!LowerBound(Single(red, 1), D(3)) = {}
                           /\ Map!LowerBound(Single(red, 2), D(2)) = {D(2)}
      BY <1>7, DumbbellCompares DEF Alone
<1>9. CASE n = 3
  <2>1. /\ Map!LowerBound(Three, D(1)) = {D(1)}
        /\ Map!LowerBound(Three, D(2)) = {D(2)}
        /\ Map!LowerBound(Three, D(3)) = {D(3)}
    <3>1. Shape(n) = Three
          BY <1>9 DEF Shape
    <3>2. Searches(Three, Single(Red, 1), D(3), Single(Red, 2))
          BY <1>4, <3>1, NodeSearches DEF Three
    <3> QED BY <1>1, <1>8, <3>2, DumbbellCompares DEF Searches
  <2>2. \A i \in 1..3 : Map!Found(Three, D(i))
    <3>1. \A i \in 1..3 : i = 1 \/ i = 2 \/ i = 3
          OBVIOUS
    <3> QED BY <1>6, <2>1, <3>1, DumbbellCompares
  <2> QED BY <1>5, <1>9, <2>2 DEF Shape
<1>10. CASE n = 4
  <2>1. D(4) \in Map!Pairs /\ 4 <= MaxOpened
        BY <1>10
  <2>2. /\ Map!LowerBound(RightHalf, D(2)) = {D(2)}
        /\ Map!LowerBound(RightHalf, D(4)) = {D(4)}
    <3>1. Sized(RightHalf, 2) /\ 2 <= MaxOpened
          BY <1>2, <2>1, ShapesAreSized, MapBound
    <3>2. \A k : Unfolds(RightHalf, k)
          BY <3>1, SizedUnfolds
    <3>3. Alone(Red, 4, D(4))
          BY <1>1, <2>1, KeyAlone
    <3>4. Map!LowerBound(Single(Red, 4), D(4)) = {D(4)}
          BY <3>3, DumbbellCompares DEF Alone
    <3>5. \A k : Unfolds(Map!Leaf, k)
      <4>1. Sized(Map!Leaf, 0) /\ 0 <= MaxOpened
            BY SizedTrees, MapBound
      <4> QED BY <4>1, SizedUnfolds
    <3>6. \A k : Map!LowerBound(Map!Leaf, k) = {}
          BY <3>5 DEF Unfolds
    <3>7. Searches(RightHalf, Map!Leaf, D(2), Single(Red, 4))
          BY <3>2, NodeSearches DEF RightHalf
    <3> QED BY <3>4, <3>6, <3>7, DumbbellCompares DEF Searches
  <2>3. /\ Map!LowerBound(Four, D(1)) = {D(1)}
        /\ Map!LowerBound(Four, D(2)) = {D(2)}
        /\ Map!LowerBound(Four, D(3)) = {D(3)}
        /\ Map!LowerBound(Four, D(4)) = {D(4)}
    <3>1. Shape(n) = Four
          BY <1>10 DEF Shape
    <3>2. Searches(Four, Single(NotRed, 1), D(3), RightHalf)
          BY <1>4, <3>1, NodeSearches DEF Four
    <3> QED BY <1>1, <1>8, <2>2, <3>2, DumbbellCompares DEF Searches
  <2>4. \A i \in 1..4 : Map!Found(Four, D(i))
    <3>1. \A i \in 1..4 : i = 1 \/ i = 2 \/ i = 3 \/ i = 4
          OBVIOUS
    <3> QED BY <1>6, <2>3, <3>1, DumbbellCompares
  <2> QED BY <1>5, <1>10, <2>4 DEF Shape
<1> QED BY <1>9, <1>10

\* Two pairs of one host, and all of one link, do not cross.
LEMMA ShippedUncrossed ==
    /\ \A i, j \in 1..2 : ~Map!Cross(D(i), D(j))
    /\ \A i, j \in 1..3 : ~Map!Cross(Map!P2P[i], Map!P2P[j])
<1>1. ASSUME NEW c \in Nat, NEW s \in Nat, NEW p \in Nat, NEW q \in Nat
      PROVE  ~Map!Cross(Map!Pair(c, s, p), Map!Pair(c, s, q))
  <2> DEFINE a == Map!Pair(c, s, p)
             b == Map!Pair(c, s, q)
  <2>1. /\ a.client_ip = c /\ a.server_ip = s /\ a.client_port = p /\ a.server_port = 1234
        /\ b.client_ip = c /\ b.server_ip = s /\ b.client_port = q /\ b.server_port = 1234
        BY DEF Map!Pair
  <2> HIDE DEF a, b
  <2>2. \A f \in Map!Fields : /\ a[f] < b[f] => f = "client_port" /\ p < q
                              /\ b[f] < a[f] => f = "client_port" /\ q < p
        BY <2>1 DEF Map!Fields
  <2>3. ~Map!Cross(a, b)
        BY <2>2 DEF Map!Cross
  <2> QED BY <2>3 DEF a, b
<1>2. \A i \in 1..2 : \E p \in Nat : D(i) = Map!Pair(1, 3, p)
  <2>1. D(1) = Map!Pair(1, 3, 1) /\ D(2) = Map!Pair(1, 3, 2)
        BY DEF D, Map!Dumbbell
  <2>2. \A i \in 1..2 : i = 1 \/ i = 2
        OBVIOUS
  <2> QED BY <2>1, <2>2
<1>3. \A i \in 1..3 : \E p \in Nat : Map!P2P[i] = Map!Pair(1, 2, p)
  <2>1. /\ Map!P2P[1] = Map!Pair(1, 2, 1) /\ Map!P2P[2] = Map!Pair(1, 2, 2)
        /\ Map!P2P[3] = Map!Pair(1, 2, 3)
        BY DEF Map!P2P
  <2>2. \A i \in 1..3 : i = 1 \/ i = 2 \/ i = 3
        OBVIOUS
  <2> QED BY <2>1, <2>2
<1> QED BY <1>1, <1>2, <1>3

LEMMA ShippedAreFound ==
    ASSUME MapInv, DumbbellInv
    PROVE  Map!ShippedPairsAreTraced
<1> SUFFICES ASSUME NEW order \in {Map!Dumbbell, Map!P2P}, Map!IsPrefix(opened, order)
             PROVE  /\ \A k \in Map!Opened : Map!Found(m_traceDb, k)
                    /\ Len(Map!InOrder(m_traceDb)) = Len(opened)
    BY DEF Map!ShippedPairsAreTraced
<1> DEFINE n == Len(opened)
<1>1. opened \in Seq(Map!Pairs) /\ n \in Nat /\ n <= MaxOpened
      BY DEF MapInv
<1>2. n <= Len(order) /\ \A i \in 1..n : opened[i] = order[i]
  <2>1. n <= Len(order) /\ SubSeq(opened, 1, n) = SubSeq(order, 1, n)
        BY DEF Map!IsPrefix
  <2>2. order \in Seq({order[i] : i \in 1..Len(order)}) /\ Len(order) \in Nat
        BY DEF Map!Dumbbell, Map!P2P
  <2>3. ASSUME NEW i \in 1..n
        PROVE  opened[i] = order[i]
    <3>1. SubSeq(opened, 1, n)[i] = opened[i]
          BY <1>1, <2>3
    <3>2. SubSeq(order, 1, n)[i] = order[i]
          BY <1>1, <2>1, <2>2, <2>3
    <3> QED BY <2>1, <3>1, <3>2
  <2> QED BY <2>1, <2>3
<1>3. \A k : k \in Map!Opened <=> \E i \in 1..n : opened[i] = k
      BY <1>1, OpenedPairs DEF Map!Opened
<1>4. Len(Map!Dumbbell) = 4 /\ Len(Map!P2P) = 3
      BY DEF Map!Dumbbell, Map!P2P
<1>5. ASSUME \A i, j \in 1..n : ~Map!Cross(opened[i], opened[j])
      PROVE  /\ \A k \in Map!Opened : Map!Found(m_traceDb, k)
             /\ Len(Map!InOrder(m_traceDb)) = Len(opened)
  <2>1. \A j, k \in Map!Opened : ~Map!Cross(j, k)
        BY <1>3, <1>5
  <2> QED BY <2>1, MapLosesCrossed DEF OnlyCrossedPairsAreLost, Map!UncrossedPairsAreAMap
<1>6. CASE order = Map!P2P
  <2>1. \A i \in 1..n : i \in 1..3
    <3>1. n <= 3
          BY <1>2, <1>4, <1>6
    <3> QED BY <1>1, <3>1
  <2>2. \A i, j \in 1..n : ~Map!Cross(opened[i], opened[j])
        BY <1>2, <1>6, <2>1, ShippedUncrossed
  <2> QED BY <1>5, <2>2
<1>7. CASE order = Map!Dumbbell /\ n <= 2
  <2>1. \A i \in 1..n : i \in 1..2 /\ opened[i] = D(i)
        BY <1>1, <1>2, <1>7 DEF D
  <2>2. \A i, j \in 1..n : ~Map!Cross(opened[i], opened[j])
        BY <2>1, ShippedUncrossed
  <2> QED BY <1>5, <2>2
<1>8. CASE order = Map!Dumbbell /\ n > 2
  <2>1. n \in {3, 4} /\ \A i \in 1..n : opened[i] = D(i)
    <3>1. n <= 4 /\ n > 2
          BY <1>2, <1>4, <1>8
    <3>2. \A i \in 1..n : opened[i] = D(i)
          BY <1>2, <1>8 DEF D
    <3>3. \A m \in Nat : m <= 4 /\ m > 2 => m = 3 \/ m = 4
          OBVIOUS
    <3>4. n = 3 \/ n = 4
          BY <1>1, <3>1, <3>3
    <3> QED BY <3>2, <3>4
  <2>2. m_traceDb = Shape(n)
        BY <2>1 DEF DumbbellInv, First
  <2>3. \A i \in 1..n : D(i) \in Map!Pairs
        BY <1>1, <2>1
  <2>4. /\ \A i \in 1..n : Map!Found(Shape(n), D(i))
        /\ Len(Map!InOrder(Shape(n))) = n
        BY <1>1, <2>1, <2>3, DumbbellIsFound
  <2> QED BY <1>3, <2>1, <2>2, <2>4
<1> QED BY <1>1, <1>6, <1>7, <1>8

\* ShippedPairsAreTraced of Traces: AddMonitorAddressPair for the pairs of
\* quic-main, in its order; the crossing of the second and the third does no
\* harm, since the third is turned to the top of the tree.
THEOREM ShippedPairsStayTraced == TracesSpec => []ShippedPairsAreTraced
<1>1. MapInv /\ DumbbellInv => ShippedPairsAreTraced
      BY ShippedAreFound DEF ShippedPairsAreTraced
<1> QED BY <1>1, MapBegins, MapInvIsKept, DumbbellKept, PTL DEF TracesSpec

-----------------------------------------------------------------------------
(***************************************************************************)
(* The client's files.  Of a file it is enough to know that its lines are  *)
(* of packets sent, that its last one carries what the application         *)
(* remembers, and what it shows for each packet up to now: a line that is  *)
(* appended is of the next packet and changes nothing before it.           *)
(***************************************************************************)

\* Client!Shown of a file f.
ShownIn(f, n) ==
    LET upto == {i \in DOMAIN f : f[i][1] <= n}
    IN  IF upto = {} THEN 0 ELSE f[Client!Max(upto)][2]

Samples == [Client!Kinds -> Values]

\* The file f of kind k, the value l remembered for it, and the samples s.
FileFits(f, l, k, s) ==
    /\ \A i \in 1..Len(f) : f[i][1] <= Len(s)
    /\ l = IF Len(f) = 0 THEN 0 ELSE f[Len(f)][2]
    /\ \A n \in 1..Len(s) : ShownIn(f, n) = s[n][k]
    /\ \A i \in 2..Len(f) : f[i][2] # f[i - 1][2]

ClientInv ==
    /\ cCallbacks \subseteq cOpen /\ cOpen \subseteq Client!Kinds
    /\ cCurrent \in Samples /\ cLast \in Samples /\ cSeq \in Nat
    /\ cSamples \in Seq(Samples)
    /\ cFile \in [Client!Kinds -> Seq(Nat \X Values)]
    /\ cImpl = "set" => Len(cSamples) = cSeq
    /\ \A k \in cCallbacks : FileFits(cFile[k], cLast[k], k, cSamples)

\* A file whose lines are all of packets up to n shows its last line for n.
LEMMA LastLineIsShown ==
    ASSUME NEW f \in Seq(Nat \X Values), NEW n \in Nat, \A i \in 1..Len(f) : f[i][1] <= n
    PROVE  ShownIn(f, n) = IF Len(f) = 0 THEN 0 ELSE f[Len(f)][2]
<1> DEFINE upto == {i \in DOMAIN f : f[i][1] <= n}
<1>1. Len(f) \in Nat /\ DOMAIN f = 1..Len(f)
      OBVIOUS
<1>2. upto = 1..Len(f)
      BY <1>1
<1>3. ASSUME Len(f) # 0
      PROVE  Client!Max(1..Len(f)) = Len(f)
  <2>1. Len(f) \in 1..Len(f) /\ \A y \in 1..Len(f) : Len(f) >= y
        BY <1>1, <1>3
  <2>2. ASSUME NEW x \in 1..Len(f), \A y \in 1..Len(f) : x >= y
        PROVE  x = Len(f)
    <3>1. x >= Len(f)
          BY <2>1, <2>2
    <3>2. x \in Int /\ x <= Len(f) /\ Len(f) \in Int
          BY <1>1
    <3> HIDE DEF upto
    <3> QED BY <3>1, <3>2
  <2> QED BY <2>1, <2>2 DEF Client!Max
<1>4. upto = {} <=> Len(f) = 0
      BY <1>1, <1>2
<1> HIDE DEF upto
<1>5. ShownIn(f, n) = IF upto = {} THEN 0 ELSE f[Client!Max(upto)][2]
      BY DEF ShownIn, upto
<1> QED BY <1>2, <1>3, <1>4, <1>5

\* A line of a later packet changes nothing that is shown.
LEMMA LaterLineIsNotShown ==
    ASSUME NEW f \in Seq(Nat \X Values), NEW x \in Nat \X Values, NEW n \in Nat, n < x[1]
    PROVE  ShownIn(Append(f, x), n) = ShownIn(f, n)
<1> DEFINE g == Append(f, x)
           old == {i \in DOMAIN f : f[i][1] <= n}
           new == {i \in DOMAIN g : g[i][1] <= n}
<1>1. /\ Len(f) \in Nat /\ DOMAIN f = 1..Len(f) /\ DOMAIN g = 1..Len(f) + 1
      /\ g[Len(f) + 1] = x /\ \A i \in 1..Len(f) : g[i] = f[i]
      OBVIOUS
<1>2. x[1] \in Nat
      OBVIOUS
<1> HIDE DEF g
<1>3. new = old
  <2>1. ASSUME NEW i \in DOMAIN g, g[i][1] <= n
        PROVE  i \in 1..Len(f)
    <3>1. i # Len(f) + 1
          BY <1>1, <1>2, <2>1
    <3> QED BY <1>1, <3>1
  <2>2. \A i \in new : i \in 1..Len(f) /\ i \in old
        BY <1>1, <2>1
  <2>3. \A i \in old : i \in DOMAIN g /\ g[i] = f[i]
        BY <1>1
  <2>4. \A i \in old : i \in new
        BY <2>3
  <2> HIDE DEF old, new
  <2> QED BY <2>2, <2>4
<1>4. ASSUME old # {}
      PROVE  Client!Max(old) \in old
  <2>1. \E m \in old : \A y \in old : m >= y
    <3>1. old \subseteq 1..Len(f)
          BY <1>1
    <3> DEFINE T == {k \in Nat : \A y \in old : y <= k}
    <3>2. Len(f) \in T
          BY <1>1, <3>1
    <3>3. PICK m \in T : \A k \in T : m <= k
          BY <3>2, LeastNatural
    <3>4. m \in old
      <4> SUFFICES ASSUME m \notin old
                   PROVE  FALSE
          OBVIOUS
      <4>1. ASSUME NEW y \in old
            PROVE  y < m /\ y \in Nat /\ y >= 1
        <5>1. y \in 1..Len(f) /\ Len(f) \in Nat
              BY <1>1, <3>1
        <5>2. y <= m /\ y # m /\ m \in Nat
              OBVIOUS
        <5> HIDE DEF old, T
        <5> QED BY <5>1, <5>2
      <4>2. m >= 1
            BY <1>4, <3>3, <4>1
      <4>3. m - 1 \in T
            BY <3>3, <4>1, <4>2
      <4> QED BY <3>3, <4>2, <4>3
    <3> QED BY <1>1, <3>1, <3>3, <3>4
  <2> QED BY <2>1 DEF Client!Max
<1> HIDE DEF old, new
<1>5. ASSUME old # {}
      PROVE  g[Client!Max(old)] = f[Client!Max(old)]
      BY <1>1, <1>4, <1>5 DEF old
<1>6. ShownIn(f, n) = IF old = {} THEN 0 ELSE f[Client!Max(old)][2]
      BY DEF ShownIn, old
<1>7. ShownIn(g, n) = IF new = {} THEN 0 ELSE g[Client!Max(new)][2]
      BY DEF ShownIn, new
<1>8. ShownIn(g, n) = ShownIn(f, n)
      BY <1>3, <1>5, <1>6, <1>7
<1> QED BY <1>8 DEF g

\* A sample, with a line if it differs from what is remembered.
LEMMA SampleKeepsFile ==
    ASSUME NEW f \in Seq(Nat \X Values), NEW k \in Client!Kinds, NEW s \in Seq(Samples),
           NEW l, FileFits(f, l, k, s), NEW c \in Samples
    PROVE  /\ l = c[k] => FileFits(f, l, k, Append(s, c))
           /\ l # c[k] => FileFits(Append(f, <<Len(s) + 1, c[k]>>), c[k], k, Append(s, c))
<1> DEFINE q == Append(s, c)
           x == <<Len(s) + 1, c[k]>>
           g == Append(f, x)
<1>1. /\ Len(s) \in Nat /\ q \in Seq(Samples) /\ Len(q) = Len(s) + 1 /\ q[Len(s) + 1] = c
      /\ \A n \in 1..Len(s) : q[n] = s[n]
      OBVIOUS
<1>2. c[k] \in Values /\ x \in Nat \X Values /\ x[1] = Len(s) + 1 /\ x[2] = c[k]
      BY <1>1 DEF Samples
<1> HIDE DEF x
<1>3. /\ Len(f) \in Nat /\ g \in Seq(Nat \X Values) /\ Len(g) = Len(f) + 1 /\ g[Len(f) + 1] = x
      /\ \A i \in 1..Len(f) : g[i] = f[i]
      BY <1>2
<1> HIDE DEF q, g
<1>4. /\ \A i \in 1..Len(f) : f[i][1] <= Len(s) /\ f[i][1] \in Nat
      /\ l = IF Len(f) = 0 THEN 0 ELSE f[Len(f)][2]
      /\ \A n \in 1..Len(s) : ShownIn(f, n) = s[n][k]
      /\ \A i \in 2..Len(f) : f[i][2] # f[i - 1][2]
      BY DEF FileFits
<1>5. 1..Len(q) = 1..Len(s) \cup {Len(s) + 1} /\ Len(s) + 1 \in Nat
      BY <1>1
<1>6. ASSUME l = c[k]
      PROVE  FileFits(f, l, k, q)
  <2>1. \A i \in 1..Len(f) : f[i][1] <= Len(s) + 1
        BY <1>1, <1>4
  <2>2. ShownIn(f, Len(s) + 1) = l
        BY <1>4, <1>5, <2>1, LastLineIsShown
  <2>3. \A n \in 1..Len(q) : ShownIn(f, n) = q[n][k]
        BY <1>1, <1>4, <1>5, <1>6, <2>2
  <2> QED BY <1>1, <1>4, <2>1, <2>3 DEF FileFits
<1>7. ASSUME l # c[k]
      PROVE  FileFits(g, c[k], k, q)
  <2>1. \A i \in 1..Len(g) : i \in 1..Len(f) \/ i = Len(f) + 1
        BY <1>3
  <2>2. ASSUME NEW i \in 1..Len(g)
        PROVE  g[i][1] <= Len(s) + 1
    <3>1. CASE i \in 1..Len(f)
      <4>1. g[i] = f[i]
            BY <1>3, <3>1
      <4> QED BY <1>1, <1>4, <3>1, <4>1
    <3>2. CASE i = Len(f) + 1
          BY <1>1, <1>2, <1>3, <3>2
    <3> QED BY <2>1, <3>1, <3>2
  <2>3. ShownIn(g, Len(s) + 1) = c[k]
    <3>1. ShownIn(g, Len(s) + 1) = IF Len(g) = 0 THEN 0 ELSE g[Len(g)][2]
          BY <1>3, <1>5, <2>2, LastLineIsShown
    <3>2. Len(g) # 0 /\ g[Len(g)][2] = c[k]
          BY <1>2, <1>3
    <3> QED BY <3>1, <3>2
  <2>4. ASSUME NEW n \in 1..Len(s)
        PROVE  ShownIn(g, n) = s[n][k]
    <3>1. n \in Nat /\ n < x[1]
          BY <1>1, <1>2
    <3>2. ShownIn(g, n) = ShownIn(f, n)
          BY <1>2, <3>1, LaterLineIsNotShown DEF g
    <3> QED BY <1>4, <3>2
  <2>5. \A n \in 1..Len(q) : ShownIn(g, n) = q[n][k]
        BY <1>1, <1>5, <2>3, <2>4
  <2>6. ASSUME NEW i \in 2..Len(g)
        PROVE  g[i][2] # g[i - 1][2]
    <3>1. CASE i = Len(f) + 1
      <4>1. i - 1 = Len(f) /\ Len(f) \in 1..Len(f) /\ Len(f) # 0
            BY <1>3, <2>6, <3>1
      <4> QED BY <1>2, <1>3, <1>4, <1>7, <3>1, <4>1
    <3>2. CASE i # Len(f) + 1
      <4>1. i \in 2..Len(f) /\ i \in 1..Len(f) /\ i - 1 \in 1..Len(f)
            BY <1>3, <2>6, <3>2
      <4> QED BY <1>3, <1>4, <4>1
    <3> QED BY <3>1, <3>2
  <2>7. Len(g) # 0 /\ g[Len(g)][2] = c[k]
        BY <1>2, <1>3
  <2> QED BY <1>1, <2>2, <2>5, <2>6, <2>7 DEF FileFits
<1> QED BY <1>6, <1>7 DEF g, q, x

LEMMA ClientBegins == TracesInit => ClientInv
<1> SUFFICES ASSUME TracesInit
             PROVE  ClientInv
    OBVIOUS
<1>1. 0 \in Values
      BY TracesAssumption DEF Client!ValuesAssumption
<1>2. /\ cOpen \subseteq Client!Kinds /\ cCallbacks \subseteq cOpen
      /\ cCurrent = [k \in Client!Kinds |-> 0] /\ cLast = [k \in Client!Kinds |-> 0]
      /\ cSeq = 0 /\ cSamples = << >> /\ cFile = [k \in Client!Kinds |-> << >>]
      BY DEF TracesInit, Client!Init, Client!Wired
<1>3. cCurrent \in Samples /\ cLast \in Samples
      BY <1>1, <1>2 DEF Samples
<1>4. cSamples \in Seq(Samples) /\ Len(cSamples) = 0
      BY <1>2
<1>5. cFile \in [Client!Kinds -> Seq(Nat \X Values)]
      BY <1>2
<1>6. ASSUME NEW k \in cCallbacks
      PROVE  FileFits(cFile[k], cLast[k], k, cSamples)
  <2>1. cFile[k] = << >> /\ cLast[k] = 0 /\ Len(cFile[k]) = 0
        BY <1>2
  <2> QED BY <1>4, <2>1 DEF FileFits
<1> QED BY <1>2, <1>3, <1>4, <1>5, <1>6 DEF ClientInv

\* The callbacks of one packet.
LEMMA SampleKeepsClientInv ==
    ASSUME ClientInv, cImpl = "set", cSeq' = cSeq + 1, Client!Sample,
           UNCHANGED <<cOpen, cCallbacks, cImpl, cCurrent>>
    PROVE  ClientInv'
<1>1. /\ cCallbacks \subseteq cOpen /\ cOpen \subseteq Client!Kinds
      /\ cCurrent \in Samples /\ cLast \in Samples /\ cSeq \in Nat
      /\ cSamples \in Seq(Samples) /\ Len(cSamples) = cSeq
      /\ cFile \in [Client!Kinds -> Seq(Nat \X Values)]
      /\ \A k \in cCallbacks : FileFits(cFile[k], cLast[k], k, cSamples)
      BY DEF ClientInv
<1> DEFINE told == {k \in cCallbacks : cLast[k] # cCurrent[k]}
<1>2. /\ cLast' = [k \in Client!Kinds |-> IF k \in told THEN cCurrent[k] ELSE cLast[k]]
      /\ cFile' = [k \in Client!Kinds |->
                       IF k \in told THEN cFile[k] \o Client!Line(k) ELSE cFile[k]]
      /\ cSamples' = Append(cSamples, cCurrent)
      BY DEF Client!Sample, Client!Answer, Client!Remember
<1>3. /\ cSamples' \in Seq(Samples) /\ Len(cSamples') = cSeq'
      BY <1>1, <1>2
<1>4. ASSUME NEW k \in told
      PROVE  /\ <<cSeq + 1, cCurrent[k]>> \in Nat \X Values
             /\ cFile[k] \o Client!Line(k) = Append(cFile[k], <<cSeq + 1, cCurrent[k]>>)
  <2>1. k \in cOpen /\ k \in Client!Kinds
        BY <1>1
  <2>2. Client!Line(k) = << <<cSeq + 1, cCurrent[k]>> >>
        BY <2>1 DEF Client!Line, Client!Answer
  <2>3. cCurrent[k] \in Values
        BY <1>1, <2>1 DEF Samples
  <2> DEFINE x == <<cSeq + 1, cCurrent[k]>>
  <2>4. x \in Nat \X Values
        BY <1>1, <2>3
  <2> HIDE DEF x
  <2>5. cFile[k] \o <<x>> = Append(cFile[k], x)
        BY <1>1, <2>1, <2>4
  <2> QED BY <2>2, <2>4, <2>5 DEF x
<1>5. cLast' \in Samples
      BY <1>1, <1>2 DEF Samples
<1>6. cFile' \in [Client!Kinds -> Seq(Nat \X Values)]
  <2>1. ASSUME NEW k \in told
        PROVE  cFile[k] \o Client!Line(k) \in Seq(Nat \X Values)
    <3>1. k \in Client!Kinds /\ cFile[k] \in Seq(Nat \X Values)
          BY <1>1
    <3> DEFINE x == <<cSeq + 1, cCurrent[k]>>
    <3>2. x \in Nat \X Values /\ cFile[k] \o Client!Line(k) = Append(cFile[k], x)
          BY <1>4
    <3> HIDE DEF x
    <3>3. Append(cFile[k], x) \in Seq(Nat \X Values)
          BY <3>1, <3>2
    <3> QED BY <3>2, <3>3
  <2> QED BY <1>1, <1>2, <2>1
<1>7. ASSUME NEW k \in cCallbacks
      PROVE  FileFits(cFile'[k], cLast'[k], k, cSamples')
  <2>1. k \in Client!Kinds /\ cFile[k] \in Seq(Nat \X Values) /\ FileFits(cFile[k], cLast[k], k, cSamples)
        BY <1>1
  <2>2. CASE k \in told
    <3>1. cFile'[k] = Append(cFile[k], <<Len(cSamples) + 1, cCurrent[k]>>) /\ cLast'[k] = cCurrent[k]
          BY <1>1, <1>2, <1>4, <2>1, <2>2
    <3>2. cLast[k] # cCurrent[k]
          BY <2>2
    <3> HIDE DEF told
    <3>3. FileFits(Append(cFile[k], <<Len(cSamples) + 1, cCurrent[k]>>), cCurrent[k], k,
                   Append(cSamples, cCurrent))
          BY <1>1, <2>1, <3>2, SampleKeepsFile
    <3> QED BY <1>2, <3>1, <3>3
  <2>3. CASE k \notin told
    <3>1. cFile'[k] = cFile[k] /\ cLast'[k] = cLast[k] /\ cLast[k] = cCurrent[k]
          BY <1>2, <2>1, <2>3
    <3> QED BY <1>1, <1>2, <2>1, <3>1, SampleKeepsFile
  <2> QED BY <2>2, <2>3
<1> HIDE DEF told
<1> QED BY <1>1, <1>3, <1>5, <1>6, <1>7 DEF ClientInv

LEMMA ClientInvIsKept == ClientInv /\ [TracesNext]_tracesVars => ClientInv'
<1> SUFFICES ASSUME ClientInv, [TracesNext]_tracesVars
             PROVE  ClientInv'
    OBVIOUS
<1>1. CASE UNCHANGED clientVars
  <2>1. UNCHANGED <<cOpen, cCallbacks, cImpl, cCurrent, cLast, cSeq, cFile, cSamples>>
        BY <1>1 DEF clientVars
  <2> QED BY <2>1 DEF ClientInv
<1>2. CASE Client!Next
  <2>1. CASE \E k \in Client!Kinds, v \in Values : Client!Change(k, v)
    <3>1. PICK k \in Client!Kinds, v \in Values : Client!Change(k, v)
          BY <2>1
    <3>2. /\ cCurrent' = [cCurrent EXCEPT ![k] = v]
          /\ UNCHANGED <<cOpen, cCallbacks, cImpl, cLast, cSeq, cFile, cSamples>>
          BY <3>1 DEF Client!Change, Client!trace
    <3>3. cCurrent' \in Samples
          BY <3>2 DEF ClientInv, Samples
    <3> QED BY <3>2, <3>3 DEF ClientInv
  <2>2. CASE Client!SendToNetwork
    <3>1. /\ cSeq' = cSeq + 1 /\ UNCHANGED <<cOpen, cCallbacks, cImpl, cCurrent>>
          /\ IF cImpl = "set" THEN Client!Sample ELSE UNCHANGED <<cLast, cFile, cSamples>>
          BY <2>2 DEF Client!SendToNetwork, Client!trace
    <3>2. CASE cImpl = "set"
          BY <3>1, <3>2, SampleKeepsClientInv
    <3>3. CASE cImpl # "set"
          BY <3>1, <3>3 DEF ClientInv
    <3> QED BY <3>2, <3>3
  <2>3. CASE Client!StopApplication \/ Client!Stopped
    <3>1. cImpl' # "set" /\ UNCHANGED <<cOpen, cCallbacks, cCurrent, cLast, cSeq, cFile, cSamples>>
          BY <2>3 DEF Client!StopApplication, Client!Stopped, Client!trace
    <3> QED BY <3>1 DEF ClientInv
  <2> QED BY <1>2, <2>1, <2>2, <2>3 DEF Client!Next
<1>3. UNCHANGED clientVars \/ Client!Next
      BY DEF TracesNext, tracesVars, clientVars
<1> QED BY <1>1, <1>2, <1>3

\* FileShowsSamples of Traces: a file that is written only on a change shows
\* for every packet what quiche answered, for any values and any number of
\* packets.
THEOREM FilesShowSamples == TracesSpec => []FileShowsSamples
<1>1. ClientInv => FileShowsSamples
  <2> SUFFICES ASSUME ClientInv, NEW k \in cCallbacks
               PROVE  /\ cImpl = "set" => Len(cSamples) = cSeq
                      /\ \A n \in DOMAIN cSamples : Client!Shown(k, n) = cSamples[n][k]
                      /\ \A i \in 2..Len(cFile[k]) : cFile[k][i][2] # cFile[k][i - 1][2]
      BY DEF FileShowsSamples, Client!FileShowsSamples
  <2>1. /\ cImpl = "set" => Len(cSamples) = cSeq
        /\ DOMAIN cSamples = 1..Len(cSamples)
        /\ FileFits(cFile[k], cLast[k], k, cSamples)
        BY DEF ClientInv
  <2>2. \A n : Client!Shown(k, n) = ShownIn(cFile[k], n)
        BY DEF Client!Shown, ShownIn
  <2> QED BY <2>1, <2>2 DEF FileFits
<1> QED BY <1>1, ClientBegins, ClientInvIsKept, PTL DEF TracesSpec

-----------------------------------------------------------------------------
(***************************************************************************)
(* The sums of the goodput files.                                          *)
(***************************************************************************)

\* The two sums of ServerTrace are such totals.
LEMMA SumFunctionIsTotal ==
    ASSUME NEW g
    PROVE  Server!SumFunction(g) = Total(g)
BY DEF Server!SumFunction, Server!SumFunctionOnSet, Server!FoldFunctionOnSet,
       Server!MapThenFoldSet, Total, Sums, One

LEMMA ReportedIsTotal ==
    ASSUME NEW p, NEW q, q = sLines[p], NEW R, q \in Seq(R)
    PROVE  Server!Reported(p) = Total([i \in DOMAIN q |-> q[i].bytes])
<1> DEFINE g == [i \in DOMAIN q |-> q[i].bytes]
<1>1. DOMAIN g = DOMAIN q
      OBVIOUS
<1> DEFINE B(f) == [s \in SUBSET DOMAIN q |-> IF s = {} THEN 0
                        ELSE q[CHOOSE x \in s : TRUE].bytes + f[s \ {CHOOSE x \in s : TRUE}]]
<1>2. Server!Reported(p) = (CHOOSE f : f = B(f))[DOMAIN q]
      BY DEF Server!Reported, Server!FoldFunction, Server!FoldFunctionOnSet,
             Server!MapThenFoldSet
<1>3. ASSUME NEW f
      PROVE  f = B(f) <=> Sums(f, g)
  <2>1. ASSUME NEW s \in SUBSET DOMAIN q, s # {}
        PROVE  q[CHOOSE x \in s : TRUE].bytes = g[One(s)]
        BY <2>1 DEF One
  <2>2. B(f) = [s \in SUBSET DOMAIN g |-> IF s = {} THEN 0 ELSE g[One(s)] + f[s \ {One(s)}]]
        BY <1>1, <2>1 DEF One
  <2> HIDE DEF B, g
  <2> QED BY <2>2 DEF Sums
<1> HIDE DEF B
<1>4. (CHOOSE f : f = B(f)) = (CHOOSE f : Sums(f, g))
      BY <1>3
<1> HIDE DEF g
<1> QED BY <1>1, <1>2, <1>4 DEF Total, g

-----------------------------------------------------------------------------
(***************************************************************************)
(* The goodput files.  While a trace lives, its lines hold what it was     *)
(* given up to the mark of its last line; the destructor writes the rest.  *)
(***************************************************************************)

Members == [first : Nat, bytes : Nat, rateBytes : Nat, rateTime : Nat, receipt : Nat]
GoodputLine == [from : Nat, to : Nat, bytes : Int, millis : Int]

ReportedBy(q) == Total([i \in DOMAIN q |-> q[i].bytes])

\* The members t of a trace and its file q.
PairFits(t, q, time, owd) ==
    /\ t \in Members /\ q \in Seq(GoodputLine)
    /\ t.rateBytes <= t.bytes
    /\ t.rateTime <= time /\ t.receipt <= time
    /\ t.first = 0 => t.receipt = 0 /\ t.rateTime = 0 /\ Len(q) = 0
    /\ ~owd => t.receipt = 0 /\ Len(q) = 0
    /\ owd => t.receipt >= t.rateTime
    /\ \A k \in 2..Len(q) : q[k].from = q[k - 1].to
    /\ Len(q) # 0 => q[1].from = t.first
    /\ \A k \in 1..Len(q) : q[k].from < q[k].to

\* The trace is in the map.
PairLives(t, q, time, owd) ==
    /\ PairFits(t, q, time, owd)
    /\ ReportedBy(q) = t.rateBytes
    /\ t.rateTime = IF Len(q) = 0 THEN t.first ELSE q[Len(q)].to
    /\ \A k \in 1..Len(q) : q[k].millis # 0

\* The trace is destroyed.
PairRests(t, q, time, owd) ==
    /\ PairFits(t, q, time, owd)
    /\ ReportedBy(q) <= t.bytes
    /\ owd /\ ReportedBy(q) # t.bytes => t.receipt = t.rateTime
    /\ \A k \in 1..Len(q) : q[k].millis = 0 => k = Len(q)

PairOK(p, t, q, time, owd, live) ==
    /\ p \in live => PairLives(t, q, time, owd)
    /\ p \notin live => PairRests(t, q, time, owd)

ServerInv ==
    /\ sNow \in Nat /\ sTotal \in Nat /\ sOwdFile \in BOOLEAN
    /\ sRunning \subseteq Servers
    /\ sTraces \in {{}, Server!Pairs}
    /\ sRunning = Servers => sTraces = Server!Pairs
    /\ sTrace \in [Server!Pairs -> Members]
    /\ sLines \in [Server!Pairs -> Seq(GoodputLine)]
    /\ sRead \in [Server!Pairs -> Nat]
    /\ sTotal = Total(sRead)
    /\ sRunning = Servers => \A p \in Server!Pairs : sTrace[p].bytes = sRead[p]
    /\ \A p \in Server!Pairs : PairOK(p, sTrace[p], sLines[p], sNow, sOwdFile, sTraces)

LEMMA ServerConstants ==
    /\ Millisecond \in Nat \ {0}
    /\ Interval \in Nat /\ Interval >= Millisecond
    /\ MaxTime \in Nat /\ MaxBytes \in Nat
    /\ IsFiniteSet(Servers) /\ IsFiniteSet(Clients)
BY TracesAssumption DEF Server!ServerTraceAssumption, Server!IsFiniteSet, IsFiniteSet

LEMMA PairsAreFinite == IsFiniteSet(Server!Pairs)
BY ServerConstants, FS_Product DEF Server!Pairs

\* A time of a millisecond or more has a millisecond in it.
LEMMA WholeMilliseconds ==
    ASSUME NEW d \in Nat
    PROVE  d \div Millisecond \in Int /\ (d >= Millisecond => d \div Millisecond # 0)
<1>1. Millisecond \in Nat \ {0}
      BY ServerConstants
<1> DEFINE q == d \div Millisecond
           r == d % Millisecond
<1>2. q \in Int /\ r \in 0..(Millisecond - 1) /\ d = Millisecond * q + r
      BY <1>1
<1> HIDE DEF q, r
<1>3. q = 0 => Millisecond * q = 0
      BY <1>1
<1>4. d >= Millisecond => q # 0
      BY <1>1, <1>2, <1>3
<1> QED BY <1>2, <1>4 DEF q

LEMMA LineIsALine ==
    ASSUME NEW t \in Members, t.receipt > t.rateTime
    PROVE  /\ Server!Line(t) \in GoodputLine
           /\ Server!Line(t).from = t.rateTime /\ Server!Line(t).to = t.receipt
           /\ Server!Line(t).bytes = t.bytes - t.rateBytes
           /\ t.receipt >= t.rateTime + Interval => Server!Line(t).millis # 0
<1>1. /\ t.receipt \in Nat /\ t.rateTime \in Nat /\ t.bytes \in Nat /\ t.rateBytes \in Nat
      BY DEF Members
<1>2. t.receipt - t.rateTime \in Nat
      BY <1>1
<1> DEFINE d == t.receipt - t.rateTime
<1>3. Server!Line(t) = [from |-> t.rateTime, to |-> t.receipt,
                        bytes |-> t.bytes - t.rateBytes, millis |-> d \div Millisecond]
      BY DEF Server!Line
<1>4. t.receipt >= t.rateTime + Interval => d >= Millisecond
      BY <1>1, ServerConstants
<1> HIDE DEF d
<1>5. d \div Millisecond \in Int /\ (d >= Millisecond => d \div Millisecond # 0)
      BY <1>2, WholeMilliseconds DEF d
<1> DEFINE m == d \div Millisecond
<1> HIDE DEF m
<1>6. t.bytes - t.rateBytes \in Int
      BY <1>1
<1> QED BY <1>1, <1>3, <1>4, <1>5, <1>6 DEF GoodputLine, m

LEMMA TotalOfOneMore ==
    ASSUME NEW n \in Nat, NEW g \in [1..n + 1 -> Int], NEW h \in [1..n -> Int],
           \A i \in 1..n : g[i] = h[i]
    PROVE  Total(g) = g[n + 1] + Total(h)
<1>1. IsFiniteSet(1..n + 1) /\ n + 1 \in 1..n + 1
      BY FS_Interval
<1>2. Adds(1..n + 1, n + 1)
      BY <1>1, TotalAdds
<1>3. (1..n + 1) \ {n + 1} = 1..n
      OBVIOUS
<1> QED BY <1>2, <1>3 DEF Adds

LEMMA ReportedGrows ==
    ASSUME NEW q \in Seq(GoodputLine)
    PROVE  /\ ReportedBy(q) \in Int
           /\ Len(q) = 0 => ReportedBy(q) = 0
           /\ \A x \in GoodputLine : ReportedBy(Append(q, x)) = x.bytes + ReportedBy(q)
<1> DEFINE h == [i \in DOMAIN q |-> q[i].bytes]
<1>1. Len(q) \in Nat /\ DOMAIN q = 1..Len(q) /\ \A i \in 1..Len(q) : q[i] \in GoodputLine
      OBVIOUS
<1>2. h \in [1..Len(q) -> Int]
      BY <1>1 DEF GoodputLine
<1>3. IsFiniteSet(1..Len(q))
      BY <1>1, FS_Interval
<1> HIDE DEF h
<1>4. ReportedBy(q) \in Int /\ (Len(q) = 0 => ReportedBy(q) = 0)
  <2>1. Total(h) \in Int /\ (1..Len(q) = {} => Total(h) = 0)
        BY <1>2, <1>3, TotalIsANumber
  <2>2. Len(q) = 0 => 1..Len(q) = {}
        OBVIOUS
  <2> QED BY <2>1, <2>2 DEF ReportedBy, h
<1>5. ASSUME NEW x \in GoodputLine
      PROVE  ReportedBy(Append(q, x)) = x.bytes + ReportedBy(q)
  <2> DEFINE p == Append(q, x)
             g == [i \in DOMAIN p |-> p[i].bytes]
             S == 1..Len(q) + 1
             n == Len(q) + 1
  <2>1. /\ DOMAIN p = S /\ p[n] = x /\ \A i \in 1..Len(q) : p[i] = q[i]
        OBVIOUS
  <2>2. /\ S \ {n} = 1..Len(q) /\ n \in S
        /\ \A i \in S : i \in 1..Len(q) \/ i = n
        BY <1>1
  <2> HIDE DEF p
  <2>3. g \in [S -> Int]
    <3>1. \A i \in S : p[i] \in GoodputLine
          BY <1>1, <2>1, <2>2
    <3>2. \A i \in S : p[i].bytes \in Int
          BY <3>1 DEF GoodputLine
    <3> QED BY <2>1, <3>2
  <2>4. g[n] = x.bytes /\ \A i \in 1..Len(q) : g[i] = h[i]
    <3>1. \A i \in 1..Len(q) : h[i] = q[i].bytes /\ i \in S
          BY <1>1, <2>2 DEF h
    <3> QED BY <2>1, <2>2, <3>1
  <2> HIDE DEF g, S, n
  <2>8. Total(g) = g[n] + Total(h)
        BY <1>1, <1>2, <2>3, <2>4, TotalOfOneMore DEF S, n
  <2> QED BY <2>4, <2>8 DEF ReportedBy, g, h, p
<1> QED BY <1>4, <1>5

\* The members after one more byte, before the line is looked at.
Given(t, time, owd) ==
    [t EXCEPT !.first = IF @ = 0 THEN time ELSE @,
              !.rateTime = IF t.first = 0 THEN time ELSE @,
              !.bytes = @ + 1,
              !.receipt = IF owd THEN time ELSE @]

Marked(t) == [t EXCEPT !.rateBytes = t.bytes, !.rateTime = t.receipt]

\* The members u with the byte, and m behind the line.
GivenOK(t, time, owd, u, m) ==
    /\ u \in Members /\ m \in Members
    /\ u.first = (IF t.first = 0 THEN time ELSE t.first)
    /\ u.rateTime = (IF t.first = 0 THEN time ELSE t.rateTime)
    /\ u.bytes = t.bytes + 1 /\ u.rateBytes = t.rateBytes
    /\ u.receipt = (IF owd THEN time ELSE t.receipt)
    /\ m.first = u.first /\ m.bytes = u.bytes /\ m.rateBytes = u.bytes
    /\ m.rateTime = u.receipt /\ m.receipt = u.receipt

LEMMA GivenMembers ==
    ASSUME NEW t \in Members, NEW time \in Nat, NEW owd \in BOOLEAN
    PROVE  GivenOK(t, time, owd, Given(t, time, owd), Marked(Given(t, time, owd)))
<1>1. /\ t.first \in Nat /\ t.bytes \in Nat /\ t.rateBytes \in Nat
      /\ t.rateTime \in Nat /\ t.receipt \in Nat
      BY DEF Members
<1> DEFINE a == IF t.first = 0 THEN time ELSE t.first
           b == IF t.first = 0 THEN time ELSE t.rateTime
           c == IF owd THEN time ELSE t.receipt
           u == Given(t, time, owd)
           m == Marked(u)
<1>2. a \in Nat /\ b \in Nat /\ c \in Nat
      BY <1>1
<1>3. u = [first |-> a, bytes |-> t.bytes + 1, rateBytes |-> t.rateBytes, rateTime |-> b, receipt |-> c]
  <2>1. u = [t EXCEPT !.first = a, !.rateTime = b, !.bytes = t.bytes + 1, !.receipt = c]
        BY <1>1 DEF Given
  <2> HIDE DEF a, b, c, u
  <2>2. t = [first |-> t.first, bytes |-> t.bytes, rateBytes |-> t.rateBytes,
             rateTime |-> t.rateTime, receipt |-> t.receipt]
        BY DEF Members
  <2> QED BY <2>1, <2>2
<1> HIDE DEF a, b, c, u
<1>4. m = [first |-> a, bytes |-> t.bytes + 1, rateBytes |-> t.bytes + 1, rateTime |-> c, receipt |-> c]
  <2>1. u.bytes = t.bytes + 1 /\ u.receipt = c
        BY <1>3
  <2>2. m = [u EXCEPT !.rateBytes = t.bytes + 1, !.rateTime = c]
        BY <2>1 DEF Marked
  <2> HIDE DEF m
  <2>3. u.first = a /\ u.rateBytes = t.rateBytes /\ u.rateTime = b
        BY <1>3
  <2> QED BY <1>3, <2>1, <2>2, <2>3
<1>5. u \in Members /\ m \in Members
      BY <1>1, <1>2, <1>3, <1>4 DEF Members
<1> HIDE DEF m
<1>6. GivenOK(t, time, owd, u, m)
      BY <1>3, <1>4, <1>5 DEF a, b, c, GivenOK
<1> QED BY <1>6 DEF u, m

\* A byte that is given to a trace keeps its file.
LEMMA ByteKeepsPair ==
    ASSUME NEW t, NEW q, NEW time \in Nat, NEW owd \in BOOLEAN, PairLives(t, q, time, owd),
           NEW u, u = Given(t, time, owd)
    PROVE  /\ u.receipt >= u.rateTime + Interval =>
                  PairLives(Marked(u), Append(q, Server!Line(u)), time, owd)
           /\ ~(u.receipt >= u.rateTime + Interval) => PairLives(u, q, time, owd)
<1>1. /\ t \in Members /\ q \in Seq(GoodputLine) /\ Len(q) \in Nat
      /\ t.rateBytes <= t.bytes
      /\ t.rateTime <= time /\ t.receipt <= time
      /\ t.first = 0 => t.receipt = 0 /\ t.rateTime = 0 /\ Len(q) = 0
      /\ ~owd => t.receipt = 0 /\ Len(q) = 0
      /\ owd => t.receipt >= t.rateTime
      /\ \A k \in 2..Len(q) : q[k].from = q[k - 1].to
      /\ Len(q) # 0 => q[1].from = t.first
      /\ \A k \in 1..Len(q) : q[k].from < q[k].to
      /\ ReportedBy(q) = t.rateBytes
      /\ t.rateTime = IF Len(q) = 0 THEN t.first ELSE q[Len(q)].to
      /\ \A k \in 1..Len(q) : q[k].millis # 0
      BY DEF PairLives, PairFits
<1>2. /\ t.first \in Nat /\ t.bytes \in Nat /\ t.rateBytes \in Nat
      /\ t.rateTime \in Nat /\ t.receipt \in Nat
      BY <1>1 DEF Members
<1> DEFINE m == Marked(u)
<1>3. /\ u \in Members /\ m \in Members
      /\ u.first = (IF t.first = 0 THEN time ELSE t.first)
      /\ u.rateTime = (IF t.first = 0 THEN time ELSE t.rateTime)
      /\ u.bytes = t.bytes + 1 /\ u.rateBytes = t.rateBytes
      /\ u.receipt = (IF owd THEN time ELSE t.receipt)
      /\ m.first = u.first /\ m.bytes = u.bytes /\ m.rateBytes = u.bytes
      /\ m.rateTime = u.receipt /\ m.receipt = u.receipt
  <2>1. GivenOK(t, time, owd, u, m)
        BY <1>1, GivenMembers
  <2> QED BY <2>1 DEF GivenOK
<1> HIDE DEF m
<1>4. Interval \in Nat /\ Interval > 0
      BY ServerConstants
<1>5. /\ u.rateBytes <= u.bytes /\ u.rateTime <= time /\ u.receipt <= time
      /\ ~owd => u.receipt = 0
      /\ owd => u.receipt >= u.rateTime
      /\ u.first = 0 => u.receipt = 0 /\ u.rateTime = 0 /\ Len(q) = 0
      /\ Len(q) # 0 => u.first = t.first /\ u.rateTime = t.rateTime
      /\ Len(q) = 0 => u.rateTime = u.first
      BY <1>1, <1>2, <1>3
<1>6. ASSUME ~(u.receipt >= u.rateTime + Interval)
      PROVE  PairLives(u, q, time, owd)
  <2>1. PairFits(u, q, time, owd)
        BY <1>1, <1>3, <1>5 DEF PairFits
  <2> QED BY <1>1, <1>3, <1>5, <2>1 DEF PairLives
<1>7. ASSUME u.receipt >= u.rateTime + Interval
      PROVE  PairLives(m, Append(q, Server!Line(u)), time, owd)
  <2> DEFINE x == Server!Line(u)
             p == Append(q, x)
             n == Len(q) + 1
  <2>1. /\ u.first \in Nat /\ u.bytes \in Nat /\ u.rateBytes \in Nat
        /\ u.rateTime \in Nat /\ u.receipt \in Nat
        BY <1>3 DEF Members
  <2>2. u.receipt > u.rateTime
        BY <1>4, <1>7, <2>1
  <2>3. /\ x \in GoodputLine /\ x.from = u.rateTime /\ x.to = u.receipt
        /\ x.bytes = u.bytes - u.rateBytes /\ x.millis # 0
        BY <1>3, <1>7, <2>2, LineIsALine
  <2> HIDE DEF x
  <2>4. /\ p \in Seq(GoodputLine) /\ Len(p) = n /\ p[n] = x /\ n # 0
        /\ \A i \in 1..Len(q) : p[i] = q[i]
        /\ \A i \in 1..Len(p) : i \in 1..Len(q) \/ i = n
        BY <1>1, <2>3
  <2>5. ReportedBy(p) = x.bytes + ReportedBy(q)
        BY <1>1, <2>3, ReportedGrows
  <2> HIDE DEF p
  <2>6. owd /\ u.first # 0
    <3>1. u.receipt # 0
          BY <2>1, <2>2
    <3> QED BY <1>5, <3>1
  <2>7. \A k \in 1..Len(p) : p[k].from < p[k].to /\ p[k].millis # 0
        BY <1>1, <2>2, <2>3, <2>4
  <2>8. ASSUME NEW k \in 2..Len(p)
        PROVE  p[k].from = p[k - 1].to
    <3>1. CASE k = n
      <4>1. Len(q) # 0 /\ k - 1 = Len(q) /\ Len(q) \in 1..Len(q)
            BY <1>1, <2>4, <3>1
      <4> QED BY <1>1, <1>5, <2>3, <2>4, <3>1, <4>1
    <3>2. CASE k # n
      <4>1. k \in 2..Len(q) /\ k \in 1..Len(q) /\ k - 1 \in 1..Len(q)
            BY <1>1, <2>4, <3>2
      <4> QED BY <1>1, <2>4, <4>1
    <3> QED BY <3>1, <3>2
  <2>9. p[1].from = u.first
    <3>1. CASE Len(q) = 0
          BY <1>5, <2>3, <2>4, <3>1
    <3>2. CASE Len(q) # 0
      <4>1. 1 \in 1..Len(q)
            BY <1>1, <3>2
      <4> QED BY <1>1, <1>5, <2>4, <3>2, <4>1
    <3> QED BY <3>1, <3>2
  <2>10. ReportedBy(p) = u.bytes
        BY <1>1, <1>3, <2>1, <2>3, <2>5
  <2>11. p[Len(p)].to = u.receipt
        BY <2>3, <2>4
  <2>12. m.rateBytes <= m.bytes /\ m.rateTime <= time /\ m.receipt <= time /\ m.receipt >= m.rateTime
        BY <1>3, <1>5, <2>1
  <2>13. PairFits(m, p, time, owd)
        BY <1>3, <2>4, <2>6, <2>7, <2>8, <2>9, <2>12 DEF PairFits
  <2>14. PairLives(m, p, time, owd)
        BY <1>3, <2>4, <2>7, <2>10, <2>11, <2>13 DEF PairLives
  <2> QED BY <2>14 DEF p, x
<1> QED BY <1>6, <1>7 DEF m

\* What the destructor writes.
LEMMA TailEndsPair ==
    ASSUME NEW t, NEW q, NEW time \in Nat, NEW owd \in BOOLEAN, PairLives(t, q, time, owd)
    PROVE  /\ t.receipt > t.rateTime => PairRests(t, Append(q, Server!Line(t)), time, owd)
           /\ ~(t.receipt > t.rateTime) => PairRests(t, q, time, owd)
<1>1. /\ t \in Members /\ q \in Seq(GoodputLine) /\ Len(q) \in Nat
      /\ t.rateBytes <= t.bytes
      /\ t.rateTime <= time /\ t.receipt <= time
      /\ t.first = 0 => t.receipt = 0 /\ t.rateTime = 0 /\ Len(q) = 0
      /\ ~owd => t.receipt = 0 /\ Len(q) = 0
      /\ owd => t.receipt >= t.rateTime
      /\ \A k \in 2..Len(q) : q[k].from = q[k - 1].to
      /\ Len(q) # 0 => q[1].from = t.first
      /\ \A k \in 1..Len(q) : q[k].from < q[k].to
      /\ ReportedBy(q) = t.rateBytes
      /\ t.rateTime = IF Len(q) = 0 THEN t.first ELSE q[Len(q)].to
      /\ \A k \in 1..Len(q) : q[k].millis # 0
      BY DEF PairLives, PairFits
<1>2. /\ t.first \in Nat /\ t.bytes \in Nat /\ t.rateBytes \in Nat
      /\ t.rateTime \in Nat /\ t.receipt \in Nat
      BY <1>1 DEF Members
<1>3. ASSUME ~(t.receipt > t.rateTime)
      PROVE  PairRests(t, q, time, owd)
  <2>1. owd => t.receipt = t.rateTime
        BY <1>1, <1>2, <1>3
  <2>2. ReportedBy(q) <= t.bytes
        BY <1>1
  <2> QED BY <1>1, <2>1, <2>2 DEF PairRests, PairLives
<1>4. ASSUME t.receipt > t.rateTime
      PROVE  PairRests(t, Append(q, Server!Line(t)), time, owd)
  <2> DEFINE x == Server!Line(t)
             p == Append(q, x)
             n == Len(q) + 1
  <2>3. /\ x \in GoodputLine /\ x.from = t.rateTime /\ x.to = t.receipt
        /\ x.bytes = t.bytes - t.rateBytes
        BY <1>1, <1>4, LineIsALine
  <2> HIDE DEF x
  <2>4. /\ p \in Seq(GoodputLine) /\ Len(p) = n /\ p[n] = x /\ n # 0
        /\ \A i \in 1..Len(q) : p[i] = q[i]
        /\ \A i \in 1..Len(p) : i \in 1..Len(q) \/ i = n
        BY <1>1, <2>3
  <2>5. ReportedBy(p) = x.bytes + ReportedBy(q)
        BY <1>1, <2>3, ReportedGrows
  <2> HIDE DEF p
  <2>6. owd /\ t.first # 0
    <3>1. t.receipt # 0
          BY <1>2, <1>4
    <3> QED BY <1>1, <3>1
  <2>7. \A k \in 1..Len(p) : p[k].from < p[k].to /\ (p[k].millis = 0 => k = n)
        BY <1>1, <1>4, <2>3, <2>4
  <2>8. ASSUME NEW k \in 2..Len(p)
        PROVE  p[k].from = p[k - 1].to
    <3>1. CASE k = n
      <4>1. Len(q) # 0 /\ k - 1 = Len(q) /\ Len(q) \in 1..Len(q)
            BY <1>1, <2>4, <3>1
      <4> QED BY <1>1, <2>3, <2>4, <3>1, <4>1
    <3>2. CASE k # n
      <4>1. k \in 2..Len(q) /\ k \in 1..Len(q) /\ k - 1 \in 1..Len(q)
            BY <1>1, <2>4, <3>2
      <4> QED BY <1>1, <2>4, <4>1
    <3> QED BY <3>1, <3>2
  <2>9. p[1].from = t.first
    <3>1. CASE Len(q) = 0
          BY <1>1, <2>3, <2>4, <3>1
    <3>2. CASE Len(q) # 0
      <4>1. 1 \in 1..Len(q)
            BY <1>1, <3>2
      <4> QED BY <1>1, <2>4, <3>2, <4>1
    <3> QED BY <3>1, <3>2
  <2>10. ReportedBy(p) = t.bytes
        BY <1>1, <1>2, <2>3, <2>5
  <2>11. PairFits(t, p, time, owd)
        BY <1>1, <2>4, <2>6, <2>7, <2>8, <2>9 DEF PairFits
  <2>12. PairRests(t, p, time, owd)
        BY <1>2, <2>4, <2>7, <2>10, <2>11 DEF PairRests
  <2> QED BY <2>12 DEF p, x
<1> QED BY <1>3, <1>4

LEMMA ServerBegins == TracesInit => ServerInv
<1> SUFFICES ASSUME TracesInit
             PROVE  ServerInv
    OBVIOUS
<1>1. /\ sOwdFile \in BOOLEAN /\ sNow = 0 /\ sRunning = Servers /\ sTraces = Server!Pairs
      /\ sTrace = [p \in Server!Pairs |-> Server!NewTrace] /\ sTotal = 0
      /\ sLines = [p \in Server!Pairs |-> <<>>] /\ sRead = [p \in Server!Pairs |-> 0]
      BY DEF TracesInit, Server!Init
<1>2. /\ Server!NewTrace \in Members /\ Server!NewTrace.first = 0 /\ Server!NewTrace.bytes = 0
      /\ Server!NewTrace.rateBytes = 0 /\ Server!NewTrace.rateTime = 0
      /\ Server!NewTrace.receipt = 0
      BY DEF Server!NewTrace, Members
<1>3. << >> \in Seq(GoodputLine) /\ Len(<< >>) = 0
      OBVIOUS
<1>4. ReportedBy(<< >>) = 0
      BY <1>3, ReportedGrows
<1>5. PairLives(Server!NewTrace, << >>, 0, sOwdFile)
  <2>1. PairFits(Server!NewTrace, << >>, 0, sOwdFile)
        BY <1>2, <1>3 DEF PairFits
  <2> QED BY <1>2, <1>3, <1>4, <2>1 DEF PairLives
<1>6. \A p \in Server!Pairs : PairOK(p, sTrace[p], sLines[p], sNow, sOwdFile, sTraces)
      BY <1>1, <1>5 DEF PairOK
<1>7. sTrace \in [Server!Pairs -> Members] /\ sLines \in [Server!Pairs -> Seq(GoodputLine)]
      BY <1>1, <1>2, <1>3
<1>8. Total(sRead) = 0
  <2> DEFINE P == {s \in SUBSET Server!Pairs : Total([p \in s |-> 0]) = 0}
  <2>1. ASSUME NEW s \in SUBSET Server!Pairs, \A x \in s : s \ {x} \in P
        PROVE  s \in P
    <3> DEFINE g == [p \in s |-> 0]
    <3>1. IsFiniteSet(s)
          BY PairsAreFinite, FS_Subset
    <3>2. g \in [s -> Int]
          OBVIOUS
    <3>3. CASE s = {}
      <4> HIDE DEF g
      <4>1. Total(g) = 0
            BY <3>1, <3>2, <3>3, TotalIsANumber
      <4> QED BY <4>1 DEF g
    <3>4. CASE s # {}
      <4>1. PICK x \in s : TRUE
            BY <3>4
      <4> DEFINE h == [p \in s \ {x} |-> 0]
      <4>2. h \in [s \ {x} -> Int] /\ g[x] = 0 /\ \A y \in s \ {x} : h[y] = g[y]
            OBVIOUS
      <4>3. Total(h) = 0
            BY <2>1, <4>1
      <4> HIDE DEF g, h
      <4>4. Total(g) = g[x] + Total(h)
        <5>1. Adds(s, x)
              BY <3>1, TotalAdds
        <5> QED BY <3>2, <4>2, <5>1 DEF Adds
      <4>5. Total(g) = 0
            BY <4>2, <4>3, <4>4
      <4> QED BY <4>5 DEF g
    <3> QED BY <3>3, <3>4
  <2> HIDE DEF P
  <2>2. Server!Pairs \in P
        BY <2>1, PairsAreFinite, SubsetInduction
  <2> QED BY <1>1, <2>2 DEF P
<1>9. sRead \in [Server!Pairs -> Nat] /\ \A p \in Server!Pairs : sTrace[p].bytes = sRead[p]
      BY <1>1, <1>2
<1> QED BY <1>1, <1>6, <1>7, <1>8, <1>9 DEF ServerInv

\* A byte more of one pair.
LEMMA TotalCounts ==
    ASSUME NEW g \in [Server!Pairs -> Nat], NEW p \in Server!Pairs,
           NEW h, h = [g EXCEPT ![p] = @ + 1]
    PROVE  Total(h) = Total(g) + 1
<1> DEFINE r == [x \in Server!Pairs \ {p} |-> g[x]]
<1>1. /\ h \in [Server!Pairs -> Int] /\ g \in [Server!Pairs -> Int]
      /\ h[p] = g[p] + 1 /\ g[p] \in Int
      /\ r \in [Server!Pairs \ {p} -> Int]
      /\ \A y \in Server!Pairs \ {p} : r[y] = g[y] /\ r[y] = h[y]
      OBVIOUS
<1> HIDE DEF r
<1>2. Adds(Server!Pairs, p)
      BY PairsAreFinite, TotalAdds
<1>3. Total(h) = h[p] + Total(r) /\ Total(g) = g[p] + Total(r)
      BY <1>1, <1>2 DEF Adds
<1>4. IsFiniteSet(Server!Pairs \ {p})
      BY PairsAreFinite, FS_Subset
<1>5. Total(r) \in Int
      BY <1>1, <1>4, TotalIsANumber
<1> QED BY <1>1, <1>3, <1>5

LEMMA RecvKeepsServerInv ==
    ASSUME ServerInv, NEW p \in Server!Pairs, Server!RecvPacket(p)
    PROVE  ServerInv'
<1>1. /\ sNow \in Nat /\ sTotal \in Nat /\ sOwdFile \in BOOLEAN
      /\ sRunning \subseteq Servers /\ sTraces \in {{}, Server!Pairs}
      /\ sRunning = Servers => sTraces = Server!Pairs
      /\ sTrace \in [Server!Pairs -> Members] /\ sLines \in [Server!Pairs -> Seq(GoodputLine)]
      /\ sRead \in [Server!Pairs -> Nat] /\ sTotal = Total(sRead)
      /\ sRunning = Servers => \A q \in Server!Pairs : sTrace[q].bytes = sRead[q]
      /\ \A q \in Server!Pairs : PairOK(q, sTrace[q], sLines[q], sNow, sOwdFile, sTraces)
      BY DEF ServerInv
<1>2. /\ sTotal' = sTotal + 1 /\ sRead' = [sRead EXCEPT ![p] = @ + 1]
      /\ sOwdFile' = sOwdFile /\ sNow' = sNow /\ sRunning' = sRunning /\ sTraces' = sTraces
      /\ IF p \in sTraces THEN Server!OnOwd(p) ELSE UNCHANGED <<sTrace, sLines>>
      BY DEF Server!RecvPacket
<1>3. sTotal' \in Nat /\ sTotal' = Total(sRead') /\ sRead' \in [Server!Pairs -> Nat]
  <2>1. Total(sRead') = Total(sRead) + 1
        BY <1>1, <1>2, TotalCounts
  <2> QED BY <1>1, <1>2, <2>1
<1>4. CASE p \notin sTraces
  <2>1. sTrace' = sTrace /\ sLines' = sLines /\ sRunning # Servers
        BY <1>1, <1>2, <1>4
  <2> QED BY <1>1, <1>2, <1>3, <2>1 DEF ServerInv
<1>5. CASE p \in sTraces
  <2> DEFINE t == sTrace[p]
             q == sLines[p]
             u == Given(t, sNow, sOwdFile)
             due == u.receipt >= u.rateTime + Interval
             v == IF due THEN Marked(u) ELSE u
             w == IF due THEN Append(q, Server!Line(u)) ELSE q
  <2>1. sTrace' = [sTrace EXCEPT ![p] = v] /\ sLines' = [sLines EXCEPT ![p] = w]
    <3>1. Server!OnOwd(p)
          BY <1>2, <1>5
    <3>2. Server!LogGoodput(p, u)
          BY <3>1 DEF Server!OnOwd, Given
    <3>3. sTrace' = [sTrace EXCEPT ![p] = v]
          BY <3>2 DEF Server!LogGoodput, Marked
    <3>4. sLines' = [sLines EXCEPT ![p] = w]
      <4>1. CASE due
            BY <3>2, <4>1 DEF Server!LogGoodput
      <4>2. CASE ~due
        <5>1. sLines' = sLines
              BY <3>2, <4>2 DEF Server!LogGoodput
        <5> QED BY <1>1, <4>2, <5>1
      <4> QED BY <4>1, <4>2
    <3> QED BY <3>3, <3>4
  <2>2. PairLives(t, q, sNow, sOwdFile) /\ t \in Members
        BY <1>1, <1>5 DEF PairOK
  <2>3. PairLives(v, w, sNow, sOwdFile)
        BY <1>1, <2>2, ByteKeepsPair
  <2>4. v \in Members /\ w \in Seq(GoodputLine)
        BY <2>3 DEF PairLives, PairFits
  <2>5. v.bytes = t.bytes + 1
    <3>1. GivenOK(t, sNow, sOwdFile, u, Marked(u))
          BY <1>1, <2>2, GivenMembers
    <3> QED BY <3>1 DEF GivenOK
  <2> HIDE DEF v, w
  <2>6. \A x \in Server!Pairs : /\ x # p => sTrace'[x] = sTrace[x] /\ sLines'[x] = sLines[x]
                                           /\ sRead'[x] = sRead[x]
                                /\ x = p => sTrace'[x] = v /\ sLines'[x] = w
                                            /\ sRead'[x] = sRead[x] + 1
        BY <1>1, <1>2, <2>1
  <2>7. sTrace' \in [Server!Pairs -> Members] /\ sLines' \in [Server!Pairs -> Seq(GoodputLine)]
        BY <1>1, <2>1, <2>4
  <2>8. \A x \in Server!Pairs : PairOK(x, sTrace'[x], sLines'[x], sNow, sOwdFile, sTraces)
        BY <1>1, <1>5, <2>3, <2>6 DEF PairOK
  <2>9. sRunning = Servers => \A x \in Server!Pairs : sTrace'[x].bytes = sRead'[x]
        BY <1>1, <2>5, <2>6
  <2> HIDE DEF t, q, u
  <2> QED BY <1>1, <1>2, <1>3, <2>7, <2>8, <2>9 DEF ServerInv
<1> QED BY <1>4, <1>5

LEMMA StopKeepsServerInv ==
    ASSUME ServerInv, NEW s \in Servers, Server!StopApplication(s)
    PROVE  ServerInv'
<1>1. /\ sNow \in Nat /\ sTotal \in Nat /\ sOwdFile \in BOOLEAN
      /\ sRunning \subseteq Servers /\ sTraces \in {{}, Server!Pairs}
      /\ sRunning = Servers => sTraces = Server!Pairs
      /\ sTrace \in [Server!Pairs -> Members] /\ sLines \in [Server!Pairs -> Seq(GoodputLine)]
      /\ sRead \in [Server!Pairs -> Nat] /\ sTotal = Total(sRead)
      /\ \A p \in Server!Pairs : PairOK(p, sTrace[p], sLines[p], sNow, sOwdFile, sTraces)
      BY DEF ServerInv
<1> DEFINE E(p) == IF p \in sTraces /\ sTrace[p].receipt > sTrace[p].rateTime
                   THEN Append(sLines[p], Server!Line(sTrace[p]))
                   ELSE sLines[p]
<1>2. /\ sRunning' = sRunning \ {s} /\ s \in sRunning
      /\ sTraces' = {} /\ sLines' = [p \in Server!Pairs |-> E(p)]
      /\ UNCHANGED <<sOwdFile, sNow, sTrace, sTotal, sRead>>
      BY DEF Server!StopApplication, Server!Shutdown
<1>3. ASSUME NEW p \in Server!Pairs
      PROVE  PairRests(sTrace[p], E(p), sNow, sOwdFile)
  <2>1. CASE p \in sTraces
    <3>1. PairLives(sTrace[p], sLines[p], sNow, sOwdFile)
          BY <1>1, <2>1 DEF PairOK
    <3> QED BY <1>1, <2>1, <3>1, TailEndsPair
  <2>2. CASE p \notin sTraces
        BY <1>1, <2>2 DEF PairOK
  <2> QED BY <2>1, <2>2
<1>4. \A p \in Server!Pairs : E(p) \in Seq(GoodputLine)
      BY <1>3 DEF PairRests, PairFits
<1> HIDE DEF E
<1>5. sLines' \in [Server!Pairs -> Seq(GoodputLine)] /\ \A p \in Server!Pairs : sLines'[p] = E(p)
      BY <1>2, <1>4
<1>6. \A p \in Server!Pairs : PairOK(p, sTrace[p], sLines'[p], sNow, sOwdFile, {})
      BY <1>3, <1>5 DEF PairOK
<1>7. sRunning' # Servers /\ sRunning' \subseteq Servers
      BY <1>1, <1>2
<1> QED BY <1>1, <1>2, <1>5, <1>6, <1>7 DEF ServerInv

LEMMA ServerInvIsKept == ServerInv /\ [TracesNext]_tracesVars => ServerInv'
<1> SUFFICES ASSUME ServerInv, [TracesNext]_tracesVars
             PROVE  ServerInv'
    OBVIOUS
<1>1. CASE UNCHANGED serverVars
  <2>1. UNCHANGED <<sOwdFile, sNow, sRunning, sTraces, sTrace, sTotal, sLines, sRead>>
        BY <1>1 DEF serverVars
  <2> QED BY <2>1 DEF ServerInv
<1>2. CASE Server!Next
  <2>1. CASE \E p \in Server!Pairs : Server!RecvPacket(p)
        BY <2>1, RecvKeepsServerInv
  <2>2. CASE \E s \in Servers : Server!StopApplication(s)
        BY <2>2, StopKeepsServerInv
  <2>3. CASE Server!Tick
    <3>1. sNow' = sNow + 1
          /\ UNCHANGED <<sOwdFile, sRunning, sTraces, sTrace, sTotal, sLines, sRead>>
          BY <2>3 DEF Server!Tick
    <3>2. sNow \in Nat /\ sNow' \in Nat
          BY <3>1 DEF ServerInv
    <3>3. ASSUME NEW t, NEW q, NEW owd, PairFits(t, q, sNow, owd)
          PROVE  PairFits(t, q, sNow + 1, owd)
      <4>1. t.rateTime \in Nat /\ t.receipt \in Nat /\ t.rateTime <= sNow /\ t.receipt <= sNow
            BY <3>3 DEF PairFits, Members
      <4>2. t.rateTime <= sNow + 1 /\ t.receipt <= sNow + 1
            BY <3>2, <4>1
      <4> QED BY <3>3, <4>2 DEF PairFits
    <3>4. ASSUME NEW p, NEW t, NEW q, NEW owd, NEW live, PairOK(p, t, q, sNow, owd, live)
          PROVE  PairOK(p, t, q, sNow + 1, owd, live)
          BY <3>3, <3>4 DEF PairOK, PairLives, PairRests
    <3> QED BY <3>1, <3>2, <3>4 DEF ServerInv
  <2> QED BY <1>2, <2>1, <2>2, <2>3 DEF Server!Next
<1>3. UNCHANGED serverVars \/ Server!Next
      BY DEF TracesNext, tracesVars, serverVars
<1> QED BY <1>1, <1>2, <1>3

\* LinesTile of Traces: the lines of a goodput file adjoin, hold every byte
\* once, and only the destructor's may be of less than a millisecond, for any
\* interval, any servers and clients, and whatever is read when.
THEOREM LinesAlwaysTile == TracesSpec => []LinesTile
<1>1. ServerInv => LinesTile
  <2> SUFFICES ASSUME ServerInv, NEW p \in Server!Pairs
               PROVE  /\ ~sOwdFile => sLines[p] = <<>>
                      /\ \A k \in 2..Len(sLines[p]) : sLines[p][k].from = sLines[p][k - 1].to
                      /\ sLines[p] # <<>> => sLines[p][1].from = sTrace[p].first
                      /\ Server!Reported(p) <= sTrace[p].bytes
                      /\ sOwdFile /\ p \notin sTraces /\ Server!Reported(p) # sTrace[p].bytes =>
                             sTrace[p].receipt = sTrace[p].rateTime
                      /\ \A k \in DOMAIN sLines[p] :
                            /\ sLines[p][k].from < sLines[p][k].to
                            /\ sLines[p][k].millis = 0 => k = Len(sLines[p]) /\ p \notin sTraces
      BY DEF LinesTile, Server!LinesTile, Server!OnlyTheTailIsShort
  <2> DEFINE q == sLines[p]
             t == sTrace[p]
  <2>1. PairOK(p, t, q, sNow, sOwdFile, sTraces) /\ q \in Seq(GoodputLine) /\ t \in Members
        BY DEF ServerInv
  <2>2. Server!Reported(p) = ReportedBy(q)
        BY <2>1, ReportedIsTotal DEF ReportedBy
  <2> HIDE DEF q, t
  <2>3. PairFits(t, q, sNow, sOwdFile)
        BY <2>1 DEF PairOK, PairLives, PairRests
  <2>4. DOMAIN q = 1..Len(q) /\ (Len(q) = 0 <=> q = <<>>)
        BY <2>1
  <2>5. ReportedBy(q) <= t.bytes
        BY <2>1, <2>3 DEF PairOK, PairLives, PairRests, PairFits
  <2>6. sOwdFile /\ p \notin sTraces /\ ReportedBy(q) # t.bytes => t.receipt = t.rateTime
        BY <2>1 DEF PairOK, PairRests
  <2>7. \A k \in 1..Len(q) : q[k].millis = 0 => k = Len(q) /\ p \notin sTraces
        BY <2>1 DEF PairOK, PairLives, PairRests
  <2> QED BY <2>2, <2>3, <2>4, <2>5, <2>6, <2>7 DEF PairFits, q, t
<1> QED BY <1>1, ServerBegins, ServerInvIsKept, PTL DEF TracesSpec

\* TotalCountsEveryByte of Traces: the dispatcher's total is what all servers
\* have read, whatever traces are left, and the traces hold all of it as long
\* as every server runs.
THEOREM TotalAlwaysCountsEveryByte == TracesSpec => []TotalCountsEveryByte
<1>1. ServerInv => TotalCountsEveryByte
  <2> SUFFICES ASSUME ServerInv
               PROVE  /\ sTotal = Server!SumFunction(sRead)
                      /\ sRunning = Servers => \A p \in Server!Pairs : sTrace[p].bytes = sRead[p]
      BY DEF TotalCountsEveryByte, Server!TotalCountsEveryByte
  <2>1. Server!SumFunction(sRead) = Total(sRead)
        BY SumFunctionIsTotal
  <2> QED BY <2>1 DEF ServerInv
<1> QED BY <1>1, ServerBegins, ServerInvIsKept, PTL DEF TracesSpec

-----------------------------------------------------------------------------
(***************************************************************************)
(* The codec.  A number is its lowest digit and, above it, the number that *)
(* is left when it is divided by the base: that is how its bytes are       *)
(* written and how they are read.                                          *)
(***************************************************************************)

LEMMA Division ==
    ASSUME NEW n \in Nat \ {0}
    PROVE  /\ n \div Base \in Nat /\ n \div Base < n
           /\ n % Base \in Nat /\ n = (n % Base) + Base * (n \div Base)
           /\ n >= Base <=> n \div Base # 0
<1> DEFINE q == n \div Base
           r == n % Base
<1>1. Base \in Nat /\ Base > 1
      BY TagAssumption
<1>2. q \in Nat /\ r \in 0..(Base - 1) /\ n = Base * q + r
      BY <1>1
<1> HIDE DEF q, r
<1>3. Base * q \in Nat /\ Base * q >= q + q
      BY <1>1, <1>2
<1>4. q < n
      BY <1>2, <1>3
<1>5. q # 0 => Base * q >= Base
      BY <1>1, <1>2
<1>6. q = 0 => Base * q = 0
      BY <1>1
<1>7. n >= Base <=> q # 0
      BY <1>1, <1>2, <1>5, <1>6
<1> QED BY <1>2, <1>3, <1>4, <1>7 DEF q, r

Byte == [digit : Nat, more : BOOLEAN]
Bytes == Seq(Byte)

Half == [n \in Nat |-> n \div Base]

LEMMA HalfDescends ==
    Half \in [Nat -> Nat] /\ \A n \in Nat \ {0} : Half[n] < n /\ Half[n] = n \div Base
<1>1. ASSUME NEW n \in Nat
      PROVE  n \div Base \in Nat
  <2>1. Base \in Nat \ {0}
        BY TagAssumption
  <2> QED BY <2>1
<1>2. \A n \in Nat \ {0} : n \div Base < n
      BY Division
<1> QED BY <1>1, <1>2 DEF Half

\* The byte of the lowest digit.
LowByte(n) == [digit |-> n % Base, more |-> n >= Base]

LEMMA LowByteIsAByte ==
    ASSUME NEW n \in Nat \ {0}
    PROVE  /\ LowByte(n) \in Byte /\ LowByte(n).digit = n % Base
           /\ LowByte(n).more <=> n \div Base # 0
<1>1. n % Base \in Nat /\ (n >= Base <=> n \div Base # 0)
      BY Division
<1>2. (n >= Base) \in BOOLEAN
      OBVIOUS
<1> QED BY <1>1, <1>2 DEF LowByte, Byte

\* What VarintEncode and varint_length are.
LEMMA EncodeUnfolds ==
    /\ VarintEncode(0) = << >>
    /\ \A n \in Nat : VarintEncode(n) \in Bytes
    /\ \A n \in Nat \ {0} : VarintEncode(n) = <<LowByte(n)>> \o VarintEncode(n \div Base)
<1> DEFINE E(f) == [n \in Nat |-> IF n = 0 THEN <<>>
                                  ELSE <<LowByte(n)>> \o f[n \div Base]]
           H == CHOOSE f : f = E(f)
           step == [x \in Nat \X Bytes |-> IF x[1] = 0 THEN <<>> ELSE <<LowByte(x[1])>> \o x[2]]
           none == <<>>
<1>1. \A n : VarintEncode(n) = H[n]
      BY DEF VarintEncode, LowByte
<1>2. ASSUME NEW n \in Nat \ {0}, NEW q \in Bytes
      PROVE  <<LowByte(n)>> \o q \in Bytes
  <2>1. LowByte(n) \in Byte
        BY LowByteIsAByte
  <2> QED BY <2>1 DEF Bytes
<1>3. none \in Bytes
      BY DEF Bytes
<1>4. step \in [Nat \X Bytes -> Bytes]
  <2>1. \A x \in Nat \X Bytes : x[1] \in Nat /\ x[2] \in Bytes
        OBVIOUS
  <2> QED BY <1>2, <1>3, <2>1
<1>5. \A n \in Nat \ {0}, q \in Bytes : step[<<n, q>>] = <<LowByte(n)>> \o q
      OBVIOUS
<1> HIDE DEF step, none
<1>6. PICK f : GoesDown(f, Bytes, none, Half, step)
      BY <1>3, <1>4, HalfDescends, StrongRecursion
<1>7. \A n \in Nat \ {0} : f[n] = <<LowByte(n)>> \o f[n \div Base]
      BY <1>5, <1>6, HalfDescends DEF GoesDown
<1>8. f = [n \in Nat |-> f[n]] /\ f[0] = << >>
      BY <1>6 DEF GoesDown, none
<1>9. f = E(f)
      BY <1>7, <1>8
<1>10. H = E(H)
      BY <1>9
<1> HIDE DEF H
<1>11. H[0] = << >> /\ \A n \in Nat \ {0} : H[n] = <<LowByte(n)>> \o H[n \div Base]
      BY <1>10
<1> DEFINE P == {n \in Nat : \A m \in Nat : m < n => H[m] \in Bytes}
<1>12. \A n \in Nat : n \in P
  <2>1. 0 \in P
        OBVIOUS
  <2>2. ASSUME NEW n \in Nat, n \in P
        PROVE  n + 1 \in P
    <3>1. H[n] \in Bytes
      <4>1. CASE n = 0
            BY <1>3, <1>11, <4>1 DEF none
      <4>2. CASE n # 0
        <5>1. n \div Base \in Nat /\ n \div Base < n
              BY <4>2, Division
        <5> QED BY <1>2, <1>11, <2>2, <4>2, <5>1
      <4> QED BY <4>1, <4>2
    <3> QED BY <2>2, <3>1
  <2> HIDE DEF P
  <2> QED BY <2>1, <2>2, SetInduction
<1>13. \A n \in Nat : H[n] \in Bytes
  <2>1. \A n \in Nat : n + 1 \in P /\ n < n + 1
        BY <1>12
  <2> QED BY <2>1
<1> QED BY <1>1, <1>11, <1>13

LEMMA LengthUnfolds ==
    /\ varint_length(0) = 0
    /\ \A n \in Nat \ {0} : varint_length(n) = 1 + varint_length(n \div Base)
<1> DEFINE E(f) == [n \in Nat |-> IF n = 0 THEN 0 ELSE 1 + f[n \div Base]]
           H == CHOOSE f : f = E(f)
           T == Nat
           none == 0
           step == [x \in Nat \X T |-> 1 + x[2]]
<1>1. \A n : varint_length(n) = H[n]
      BY DEF varint_length
<1>2. none \in T /\ step \in [Nat \X T -> T] /\ \A n \in Nat, m \in T : step[<<n, m>>] = 1 + m
      OBVIOUS
<1> HIDE DEF step, none, T
<1>3. PICK f : GoesDown(f, T, none, Half, step)
      BY <1>2, HalfDescends, StrongRecursion
<1>4. ASSUME NEW n \in Nat \ {0}
      PROVE  f[n] = 1 + f[n \div Base]
  <2>1. Half[n] = n \div Base /\ Half[n] \in Nat
        BY HalfDescends
  <2>2. f[Half[n]] \in T /\ f[n] = step[<<n, f[Half[n]]>>]
        BY <1>3, <2>1 DEF GoesDown
  <2> QED BY <1>2, <2>1, <2>2
<1>5. f = [n \in Nat |-> f[n]] /\ f[0] = 0
      BY <1>3 DEF GoesDown, none
<1>6. f = E(f)
      BY <1>4, <1>5
<1>7. H = E(H)
      BY <1>6
<1> HIDE DEF H
<1> QED BY <1>1, <1>7

LEMMA Prepended ==
    ASSUME NEW S, NEW b \in S, NEW q \in Seq(S)
    PROVE  /\ <<b>> \o q \in Seq(S) /\ Len(<<b>> \o q) = Len(q) + 1
           /\ (<<b>> \o q)[1] = b
           /\ \A i \in 1..Len(q) : (<<b>> \o q)[i + 1] = q[i]
           /\ \A i \in 2..Len(q) + 1 : (<<b>> \o q)[i] = q[i - 1]
OBVIOUS

\* The smallest element of a set of positions.
LEMMA MinOfPositions ==
    ASSUME NEW n \in Nat, NEW s \in SUBSET (1..n), s # {}
    PROVE  Min(s) \in s /\ \A y \in s : Min(s) <= y
<1>1. s \subseteq Nat
      OBVIOUS
<1>2. PICK m \in s : \A k \in s : m <= k
      BY <1>1, LeastNatural
<1> QED BY <1>2 DEF Min

LEMMA MinIs ==
    ASSUME NEW s \in SUBSET Nat, NEW m \in s, \A y \in s : m <= y
    PROVE  Min(s) = m
<1>1. ASSUME NEW x \in s, \A y \in s : x <= y
      PROVE  x = m
      BY <1>1
<1> QED BY <1>1 DEF Min

\* f is what Value recurses with.
Digits(f, q) ==
    f = [s \in SUBSET DOMAIN q |-> IF s = {} THEN 0 ELSE q[Min(s)].digit + Base * f[s \ {Min(s)}]]

LEMMA ValueIsAFold ==
    ASSUME NEW q
    PROVE  Value(q) = (CHOOSE f : Digits(f, q))[DOMAIN q]
BY DEF Value, FoldRight, MapThenFoldSet, Digits

LEMMA DigitsExist ==
    ASSUME NEW q \in Bytes
    PROVE  \E f : Digits(f, q)
<1> DEFINE S == 1..Len(q)
           pick == [s \in SUBSET S |-> Min(s)]
           T == Nat
           none == 0
           step == [x \in S \X T |-> q[x[1]].digit + Base * x[2]]
<1>1. Len(q) \in Nat /\ DOMAIN q = S /\ \A i \in S : q[i].digit \in Nat
  <2>1. Len(q) \in Nat /\ DOMAIN q = S
        BY DEF Bytes
  <2>2. \A i \in S : q[i] \in Byte
        BY DEF Bytes
  <2> QED BY <2>1, <2>2 DEF Byte
<1>2. IsFiniteSet(S)
      BY <1>1, FS_Interval
<1>3. \A s \in SUBSET S : s # {} => Min(s) \in s
      BY <1>1, MinOfPositions
<1>4. ASSUME NEW n \in Nat
      PROVE  Base * n \in Nat
      BY TagAssumption
<1>5. /\ none \in T /\ step \in [S \X T -> T]
      /\ \A i \in S, n \in T : step[<<i, n>>] = q[i].digit + Base * n
  <2>1. ASSUME NEW x \in S \X T
        PROVE  q[x[1]].digit + Base * x[2] \in T
    <3>1. x[1] \in S /\ x[2] \in Nat
          OBVIOUS
    <3>2. q[x[1]].digit \in Nat /\ Base * x[2] \in Nat
          BY <1>1, <1>4, <3>1
    <3> HIDE DEF S
    <3> QED BY <3>2
  <2> QED BY <2>1
<1>6. Picks(pick, S) /\ \A s \in SUBSET S : pick[s] = Min(s)
      BY <1>3 DEF Picks
<1> HIDE DEF pick, step, T, none, S
<1>7. PICK f : FoldsTo(f, S, T, none, pick, step)
      BY <1>2, <1>5, <1>6, FoldExists
<1>8. ASSUME NEW s \in SUBSET S, s # {}
      PROVE  f[s] = q[Min(s)].digit + Base * f[s \ {Min(s)}]
  <2>1. Min(s) \in S /\ s \ {Min(s)} \in SUBSET S /\ pick[s] = Min(s)
        BY <1>3, <1>6, <1>8
  <2>2. f[s \ {Min(s)}] \in T /\ f[s] = step[<<Min(s), f[s \ {Min(s)}]>>]
        BY <1>7, <1>8, <2>1 DEF FoldsTo
  <2> QED BY <1>5, <2>1, <2>2
<1>9. f = [s \in SUBSET S |-> f[s]] /\ f[{}] = 0
      BY <1>7 DEF FoldsTo, none
<1>10. Digits(f, q)
       BY <1>1, <1>8, <1>9 DEF Digits
<1> QED BY <1>10

\* The value of the bytes from one position on.
TailDigits(f, q) ==
    /\ f[{}] = 0
    /\ \A k \in 1..Len(q) : f[k..Len(q)] = q[k].digit + Base * f[k + 1..Len(q)]
    /\ \A k \in 1..Len(q) + 1 : f[k..Len(q)] \in Nat

LEMMA DigitsOfATail ==
    ASSUME NEW q \in Bytes, NEW f, Digits(f, q)
    PROVE  TailDigits(f, q)
<1> DEFINE n == Len(q)
<1>1. n \in Nat /\ DOMAIN q = 1..n
      BY DEF Bytes
<1>2. \A i \in 1..n : q[i].digit \in Nat
  <2>1. \A i \in 1..n : q[i] \in Byte
        BY DEF Bytes
  <2> QED BY <2>1 DEF Byte
<1> HIDE DEF n
<1>3. /\ f[{}] = 0
      /\ \A s \in SUBSET (1..n) : s # {} => f[s] = q[Min(s)].digit + Base * f[s \ {Min(s)}]
      BY <1>1 DEF Digits
<1>4. ASSUME NEW k \in 1..n
      PROVE  f[k..n] = q[k].digit + Base * f[k + 1..n]
  <2>1. k \in k..n /\ k..n \in SUBSET Nat /\ \A y \in k..n : k <= y
        BY <1>1
  <2>2. Min(k..n) = k
        BY <2>1, MinIs
  <2>3. (k..n) \ {k} = k + 1..n /\ k..n # {} /\ k..n \in SUBSET (1..n)
        BY <1>1, <2>1
  <2> QED BY <1>3, <2>2, <2>3
<1> DEFINE P == {j \in Nat : j <= n => f[n + 1 - j..n] \in Nat}
<1>5. 0 \in P
  <2>1. n + 1 - 0..n = {} /\ 0 \in Nat
        BY <1>1
  <2>2. f[n + 1 - 0..n] \in Nat
        BY <1>3, <2>1
  <2> QED BY <2>2
<1>6. ASSUME NEW j \in Nat, j \in P
      PROVE  j + 1 \in P
  <2>1. ASSUME j + 1 <= n
        PROVE  f[n + 1 - (j + 1)..n] \in Nat
    <3> DEFINE k == n + 1 - (j + 1)
    <3>1. k \in 1..n /\ k + 1 = n + 1 - j /\ j <= n
          BY <1>1, <2>1
    <3>2. f[k + 1..n] \in Nat
          BY <1>6, <3>1
    <3>3. f[k..n] = q[k].digit + Base * f[k + 1..n]
          BY <1>4, <3>1
    <3> HIDE DEF k
    <3>4. Base * f[k + 1..n] \in Nat
          BY <3>2, TagAssumption
    <3>5. f[k..n] \in Nat
          BY <1>2, <3>1, <3>3, <3>4
    <3> QED BY <3>5 DEF k
  <2> QED BY <2>1
<1> HIDE DEF P
<1>7. \A j \in Nat : j \in P
      BY <1>5, <1>6, SetInduction
<1>8. ASSUME NEW k \in 1..n + 1
      PROVE  f[k..n] \in Nat
  <2>1. n + 1 - k \in Nat /\ n + 1 - k <= n /\ n + 1 - (n + 1 - k) = k
        BY <1>1
  <2> QED BY <1>7, <2>1 DEF P
<1> QED BY <1>3, <1>4, <1>8 DEF n, TailDigits

LEMMA ValueUnfolds ==
    /\ Value(<< >>) = 0
    /\ \A q \in Bytes, b \in Byte : Value(<<b>> \o q) = b.digit + Base * Value(q)
<1> DEFINE H(q) == CHOOSE f : Digits(f, q)
<1>1. ASSUME NEW q \in Bytes
      PROVE  Digits(H(q), q) /\ Value(q) = H(q)[1..Len(q)]
  <2>1. DOMAIN q = 1..Len(q)
        BY DEF Bytes
  <2> QED BY <2>1, DigitsExist, ValueIsAFold
<1> HIDE DEF H
<1>2. Value(<< >>) = 0
  <2>1. << >> \in Bytes /\ 1..Len(<< >>) = {}
        BY DEF Bytes
  <2>2. TailDigits(H(<< >>), << >>) /\ Value(<< >>) = H(<< >>)[{}]
        BY <1>1, <2>1, DigitsOfATail
  <2> QED BY <2>2 DEF TailDigits
<1>3. ASSUME NEW q \in Bytes, NEW b \in Byte
      PROVE  Value(<<b>> \o q) = b.digit + Base * Value(q)
  <2> DEFINE p == <<b>> \o q
             n == Len(q)
             e == H(p)
             f == H(q)
  <2>1. /\ p \in Bytes /\ Len(p) = n + 1 /\ p[1] = b /\ n \in Nat
        /\ \A i \in 1..n : p[i + 1] = q[i]
    <3>1. n \in Nat
          BY DEF Bytes
    <3> QED BY <3>1, Prepended DEF Bytes
  <2> HIDE DEF p
  <2>2. /\ Digits(e, p) /\ Value(p) = e[1..n + 1]
        /\ Digits(f, q) /\ Value(q) = f[1..n]
        BY <1>1, <2>1
  <2> HIDE DEF e, f
  <2>tails. TailDigits(e, p) /\ TailDigits(f, q)
        BY <2>1, <2>2, DigitsOfATail
  <2>3. /\ e[{}] = 0
        /\ \A k \in 1..n + 1 : e[k..n + 1] = p[k].digit + Base * e[k + 1..n + 1]
        BY <2>1, <2>tails DEF TailDigits
  <2>4. /\ f[{}] = 0
        /\ \A k \in 1..n : f[k..n] = q[k].digit + Base * f[k + 1..n]
        BY <2>tails DEF TailDigits
  <2> HIDE DEF n
  <2> DEFINE P == {j \in Nat : j <= n => e[n + 2 - j..n + 1] = f[n + 1 - j..n]}
  <2>5. 0 \in P
    <3>1. n + 2 - 0..n + 1 = {} /\ n + 1 - 0..n = {}
          BY <2>1
    <3> QED BY <2>3, <2>4, <3>1
  <2>6. ASSUME NEW j \in Nat, j \in P
        PROVE  j + 1 \in P
    <3>1. ASSUME j + 1 <= n
          PROVE  e[n + 2 - (j + 1)..n + 1] = f[n + 1 - (j + 1)..n]
      <4> DEFINE k == n + 1 - (j + 1)
      <4>1. /\ k \in 1..n /\ k + 1 \in 1..n + 1 /\ n + 2 - (j + 1) = k + 1
            /\ n + 2 - j = (k + 1) + 1 /\ n + 1 - j = k + 1 /\ j <= n
            BY <2>1, <3>1
      <4>2. e[(k + 1) + 1..n + 1] = f[k + 1..n]
            BY <2>6, <4>1
      <4> HIDE DEF k
      <4>3. e[k + 1..n + 1] = p[k + 1].digit + Base * e[(k + 1) + 1..n + 1]
            BY <2>3, <4>1
      <4>4. f[k..n] = q[k].digit + Base * f[k + 1..n] /\ p[k + 1] = q[k]
            BY <2>1, <2>4, <4>1
      <4>5. e[k + 1..n + 1] = f[k..n]
            BY <4>2, <4>3, <4>4
      <4> QED BY <4>1, <4>5 DEF k
    <3> QED BY <3>1
  <2> HIDE DEF P
  <2>7. n \in P
        BY <2>1, <2>5, <2>6, SetInduction
  <2>8. e[2..n + 1] = f[1..n]
    <3>1. n + 2 - n = 2 /\ n + 1 - n = 1 /\ n <= n
          BY <2>1
    <3> QED BY <2>7, <3>1 DEF P
  <2>9. e[1..n + 1] = p[1].digit + Base * e[1 + 1..n + 1]
        BY <2>1, <2>3
  <2>10. 1 + 1 = 2
         OBVIOUS
  <2>11. Value(p) = b.digit + Base * Value(q)
         BY <2>1, <2>2, <2>8, <2>9, <2>10
  <2> QED BY <2>11 DEF p
<1> QED BY <1>2, <1>3

\* The code of a number ends with its first byte that says no more follow, and
\* its digits are the number.
CodeFits(c, n) ==
    /\ c \in Bytes /\ Len(c) = varint_length(n)
    /\ Value(c) = n
    /\ n = 0 => c = << >>
    /\ n # 0 => /\ Len(c) # 0 /\ ~c[Len(c)].more
                /\ \A i \in 1..Len(c) : i # Len(c) => c[i].more

LEMMA CodeOfANumber ==
    ASSUME NEW n \in Nat
    PROVE  CodeFits(VarintEncode(n), n)
<1> DEFINE P == {k \in Nat : \A m \in Nat : m < k => CodeFits(VarintEncode(m), m)}
<1>1. 0 \in P
      OBVIOUS
<1>2. CodeFits(VarintEncode(0), 0)
  <2>1. << >> \in Bytes /\ Len(<< >>) = 0
        BY DEF Bytes
  <2> QED BY <2>1, EncodeUnfolds, LengthUnfolds, ValueUnfolds DEF CodeFits
<1>3. ASSUME NEW m \in Nat \ {0}, CodeFits(VarintEncode(m \div Base), m \div Base)
      PROVE  CodeFits(VarintEncode(m), m)
  <2> DEFINE h == m \div Base
             b == LowByte(m)
             e == VarintEncode(h)
             c == <<b>> \o e
  <2>1. VarintEncode(m) = c /\ varint_length(m) = 1 + varint_length(h)
        BY EncodeUnfolds, LengthUnfolds
  <2>2. h \in Nat /\ m % Base \in Nat /\ m = (m % Base) + Base * h
        BY Division
  <2>3. b \in Byte /\ b.digit = m % Base /\ (b.more <=> h # 0)
        BY LowByteIsAByte
  <2>4. CodeFits(e, h)
        BY <1>3
  <2> HIDE DEF h, b, e
  <2>5. e \in Bytes /\ Value(e) = h /\ Len(e) = varint_length(h) /\ Len(e) \in Nat
        BY <2>4 DEF CodeFits, Bytes
  <2>6. /\ c \in Bytes /\ Len(c) = Len(e) + 1 /\ c[1] = b
        /\ \A i \in 2..Len(e) + 1 : c[i] = e[i - 1]
        BY <2>3, <2>5, Prepended DEF Bytes
  <2>7. Value(c) = b.digit + Base * Value(e)
        BY <2>3, <2>5, ValueUnfolds
  <2> HIDE DEF c
  <2>8. Value(c) = m
        BY <2>2, <2>3, <2>5, <2>7
  <2>9. ~c[Len(c)].more /\ \A i \in 1..Len(c) : i # Len(c) => c[i].more
    <3>1. CASE h = 0
      <4>1. Len(e) = 0
            BY <2>4, <3>1 DEF CodeFits
      <4> QED BY <2>3, <2>6, <3>1, <4>1
    <3>2. CASE h # 0
      <4>1. Len(e) # 0 /\ ~e[Len(e)].more /\ \A i \in 1..Len(e) : i # Len(e) => e[i].more
            BY <2>4, <3>2 DEF CodeFits
      <4>2. c[Len(c)] = e[Len(e)]
            BY <2>5, <2>6, <4>1
      <4>3. ASSUME NEW i \in 1..Len(c), i # Len(c)
            PROVE  c[i].more
        <5>1. CASE i = 1
              BY <2>3, <2>6, <3>2, <5>1
        <5>2. CASE i # 1
          <6>1. i \in 2..Len(e) + 1 /\ i - 1 \in 1..Len(e) /\ i - 1 # Len(e)
                BY <2>5, <2>6, <4>3, <5>2
          <6> QED BY <2>6, <4>1, <6>1
        <5> QED BY <5>1, <5>2
      <4> QED BY <4>1, <4>2, <4>3
    <3> QED BY <3>1, <3>2
  <2>10. CodeFits(c, m)
         BY <2>1, <2>5, <2>6, <2>8, <2>9 DEF CodeFits
  <2> QED BY <2>1, <2>10
<1>4. ASSUME NEW k \in Nat, k \in P
      PROVE  k + 1 \in P
  <2>1. CodeFits(VarintEncode(k), k)
    <3>1. CASE k = 0
          BY <1>2, <3>1
    <3>2. CASE k # 0
      <4>1. k \div Base \in Nat /\ k \div Base < k
            BY <3>2, Division
      <4> QED BY <1>3, <1>4, <3>2, <4>1
    <3> QED BY <3>1, <3>2
  <2> QED BY <1>4, <2>1
<1> HIDE DEF P
<1>5. n + 1 \in P /\ n < n + 1
      BY <1>1, <1>4, SetInduction
<1> QED BY <1>5 DEF P

\* Two sequences of bytes, one behind the other.
Joined(r, c, q) ==
    /\ r \in Bytes /\ Len(r) = Len(c) + Len(q)
    /\ \A i \in 1..Len(c) : r[i] = c[i]
    /\ SubSeq(r, 1, Len(c)) = c
    /\ SubSeq(r, Len(c) + 1, Len(r)) = q

LEMMA JoinedBytes ==
    ASSUME NEW c \in Bytes, NEW q \in Bytes
    PROVE  Joined(c \o q, c, q)
<1>1. Len(c) \in Nat /\ Len(q) \in Nat
      BY DEF Bytes
<1>2. c \o q \in Seq(Byte) /\ Len(c \o q) = Len(c) + Len(q)
      BY DEF Bytes
<1>3. \A i \in 1..Len(c) : (c \o q)[i] = c[i]
      BY DEF Bytes
<1>4. \A i \in 1..Len(q) : (c \o q)[Len(c) + i] = q[i]
      BY DEF Bytes
<1>5. SubSeq(c \o q, 1, Len(c)) = c
  <2> DEFINE s == SubSeq(c \o q, 1, Len(c))
  <2>1. s \in Seq(Byte) /\ Len(s) = Len(c) /\ \A i \in 1..Len(c) : s[i] = c[i]
        BY <1>1, <1>2, <1>3
  <2> HIDE DEF s
  <2>2. s = c
        BY <2>1, SeqEqual DEF Bytes
  <2> QED BY <2>2 DEF s
<1>6. SubSeq(c \o q, Len(c) + 1, Len(c \o q)) = q
  <2> DEFINE s == SubSeq(c \o q, Len(c) + 1, Len(c \o q))
  <2>1. s \in Seq(Byte) /\ Len(s) = Len(q) /\ \A i \in 1..Len(q) : s[i] = q[i]
        BY <1>1, <1>2, <1>4
  <2> HIDE DEF s
  <2>2. s = q
        BY <2>1, SeqEqual DEF Bytes
  <2> QED BY <2>2 DEF s
<1> QED BY <1>2, <1>3, <1>5, <1>6 DEF Joined, Bytes

\* The reader stops where the code of a number ends, and finds no end where
\* there is no byte.
Ends(b) == {i \in 1..Len(b) : ~b[i].more}

LEMMA FirstIntegerIs ==
    ASSUME NEW b
    PROVE  FirstInteger(b) = IF Ends(b) = {} THEN <<>>
                             ELSE IF Min(Ends(b)) = 0 THEN <<>> ELSE SubSeq(b, 1, Min(Ends(b)))
BY DEF FirstInteger, SelectInSeq, Ends

LEMMA ReaderStops ==
    ASSUME NEW n \in Nat \ {0}, NEW q \in Bytes
    PROVE  FirstInteger(VarintEncode(n) \o q) = VarintEncode(n)
<1> DEFINE c == VarintEncode(n)
           r == c \o q
<1>1. CodeFits(c, n)
      BY CodeOfANumber
<1> HIDE DEF c
<1>2. /\ c \in Bytes /\ Len(c) \in Nat \ {0} /\ ~c[Len(c)].more
      /\ \A i \in 1..Len(c) : i # Len(c) => c[i].more
      BY <1>1 DEF CodeFits, Bytes
<1>3. Joined(r, c, q)
      BY <1>2, JoinedBytes
<1> HIDE DEF r
<1>4. Len(q) \in Nat
      BY DEF Bytes
<1>5. Len(c) \in Ends(r) /\ \A i \in Ends(r) : Len(c) <= i
  <2>1. Len(r) = Len(c) + Len(q) /\ \A i \in 1..Len(c) : r[i] = c[i]
        BY <1>3 DEF Joined
  <2>2. Len(c) \in 1..Len(r)
        BY <1>2, <1>4, <2>1
  <2>3. Len(c) \in Ends(r)
        BY <1>2, <2>1, <2>2 DEF Ends
  <2>4. ASSUME NEW i \in Ends(r), i < Len(c)
        PROVE  FALSE
    <3>1. i \in 1..Len(c) /\ ~r[i].more
          BY <1>2, <2>1, <1>4, <2>4 DEF Ends
    <3> QED BY <1>2, <2>1, <2>4, <3>1
  <2>5. Ends(r) \in SUBSET Int
        BY <1>2, <1>4, <2>1 DEF Ends
  <2> QED BY <1>2, <2>3, <2>4, <2>5
<1>6. Ends(r) \in SUBSET Nat
  <2>1. Len(r) \in Nat
        BY <1>3 DEF Joined, Bytes
  <2> QED BY <2>1 DEF Ends
<1>7. Min(Ends(r)) = Len(c)
      BY <1>5, <1>6, MinIs
<1>8. FirstInteger(r) = SubSeq(r, 1, Len(c))
      BY <1>2, <1>5, <1>7, FirstIntegerIs
<1>9. FirstInteger(r) = c
      BY <1>3, <1>8 DEF Joined
<1> QED BY <1>9 DEF c, r

LEMMA ReaderNeedsAByte == FirstInteger(<< >>) = << >>
<1>1. Ends(<< >>) = {}
      BY DEF Ends
<1> QED BY <1>1, FirstIntegerIs

\* What Ns3QuicTag writes, it reads back; a zero it does not.
RoundTrips(p, t) ==
    /\ Len(Serialize(p, t)) = GetSerializedSize(p, t)
    /\ Deserialize(Serialize(p, t)) = IF t = 0 THEN Overrun ELSE <<p, t>>

LEMMA TagsRoundTrip ==
    ASSUME NEW p \in Nat \ {0}, NEW t \in Nat
    PROVE  RoundTrips(p, t)
<1> DEFINE c == VarintEncode(p)
           d == VarintEncode(t)
           r == c \o d
<1>1. CodeFits(c, p) /\ CodeFits(d, t)
      BY CodeOfANumber
<1>2. \A q \in Bytes : FirstInteger(c \o q) = c
      BY ReaderStops
<1>3. t # 0 => \A q \in Bytes : FirstInteger(d \o q) = d
      BY ReaderStops
<1>4. Serialize(p, t) = r
      BY DEF Serialize
<1> HIDE DEF c, d
<1>5. /\ c \in Bytes /\ d \in Bytes /\ Value(c) = p /\ Value(d) = t
      /\ Len(c) = varint_length(p) /\ Len(d) = varint_length(t)
      /\ c # << >>
  <2>1. Len(c) # 0
        BY <1>1 DEF CodeFits
  <2>2. c # << >>
        BY <2>1
  <2> QED BY <1>1, <2>2 DEF CodeFits
<1>6. Joined(r, c, d) /\ FirstInteger(r) = c
      BY <1>2, <1>5, JoinedBytes
<1> HIDE DEF r
<1>7. Len(r) = GetSerializedSize(p, t)
      BY <1>5, <1>6 DEF Joined, GetSerializedSize
<1> DEFINE two == FirstInteger(SubSeq(r, Len(FirstInteger(r)) + 1, Len(r)))
<1>8. two = FirstInteger(d)
      BY <1>6 DEF Joined
<1>9. Deserialize(r) = IF c = << >> \/ two = << >> THEN Overrun ELSE <<Value(c), Value(two)>>
      BY <1>6 DEF Deserialize
<1> HIDE DEF two
<1>10. CASE t = 0
  <2>1. d = << >>
        BY <1>1, <1>10 DEF CodeFits
  <2>2. two = << >>
        BY <1>8, <2>1, ReaderNeedsAByte
  <2> QED BY <1>4, <1>7, <1>9, <1>10, <2>2 DEF RoundTrips
<1>11. CASE t # 0
  <2>1. Len(d) # 0
        BY <1>1, <1>11 DEF CodeFits
  <2>2. d # << >>
        BY <2>1
  <2>3. << >> \in Bytes /\ d \o << >> = d
        BY <1>5 DEF Bytes
  <2>4. two = d
        BY <1>3, <1>8, <1>11, <2>3
  <2> QED BY <1>4, <1>5, <1>7, <1>9, <1>11, <2>2, <2>4 DEF RoundTrips
<1> QED BY <1>10, <1>11

-----------------------------------------------------------------------------
(***************************************************************************)
(* The loss count.  The induction is on what the trace knows: the packets  *)
(* read lie below its mark, the mark was read itself, and on a path that   *)
(* keeps the order what is still on the way lies above it.                 *)
(***************************************************************************)
MarkOK ==
    /\ lastSeq = largestSeq
    /\ lastSeq < seq
    /\ arrived \subseteq 1..lastSeq
    /\ lastSeq # 0 => lastSeq \in arrived
    /\ wire \cap arrived = {}
    /\ fifo => \A q \in wire : lastSeq < q

CountOK ==
    /\ Cardinality(Missing) <= lostPackets
    /\ lostPackets <= lastSeq
    /\ fifo => lostPackets = Cardinality(Missing)

LossInv == TypeOK /\ MarkOK /\ CountOK /\ RatioIsAPercentage

-----------------------------------------------------------------------------
LEMMA MissingIsFinite ==
    ASSUME NEW last \in Nat, NEW A
    PROVE  /\ IsFiniteSet(1..last \ A)
           /\ Cardinality(1..last \ A) \in Nat
<1>1. IsFiniteSet(1..last)
  BY FS_Interval
<1>2. 1..last \ A \in SUBSET (1..last)
  OBVIOUS
<1>3. IsFiniteSet(1..last \ A)
  BY <1>1, <1>2, FS_Subset
<1> QED
  BY <1>3, FS_CardinalityType

\* A new largest number adds the numbers skipped.
LEMMA MarkMoves ==
    ASSUME NEW last \in Nat, NEW p \in Nat, last < p, NEW A, A \subseteq 1..last
    PROVE  Cardinality(1..p \ (A \cup {p})) = Cardinality(1..last \ A) + (p - last - 1)
<1> DEFINE Old == 1..last \ A
           Skipped == last + 1..p - 1
<1>1. 1..p \ (A \cup {p}) = Old \cup Skipped
  OBVIOUS
<1>2. IsFiniteSet(Old) /\ Cardinality(Old) \in Nat
  BY MissingIsFinite
<1>3. IsFiniteSet(Skipped) /\ Cardinality(Skipped) = p - last - 1
  <2>1. last + 1 \in Int /\ p - 1 \in Int
    OBVIOUS
  <2>2. /\ IsFiniteSet(last + 1..p - 1)
        /\ Cardinality(last + 1..p - 1) =
                IF last + 1 > p - 1 THEN 0 ELSE (p - 1) - (last + 1) + 1
    BY <2>1, FS_Interval
  <2> QED
    BY <2>2
<1>4. Cardinality(Old \cap Skipped) = 0
  <2>1. Old \cap Skipped = {}
    OBVIOUS
  <2> QED
    BY <2>1, FS_EmptySet
<1>5. Cardinality(Old \cup Skipped) =
            Cardinality(Old) + Cardinality(Skipped) - Cardinality(Old \cap Skipped)
  BY <1>2, <1>3, FS_Union
<1>6. Cardinality(Old \cup Skipped) = Cardinality(Old) + (p - last - 1)
  <2> HIDE DEF Old, Skipped
  <2> QED
    BY <1>2, <1>3, <1>4, <1>5
<1> QED
  BY <1>1, <1>6

\* A number below the mark that arrives is missing no more.
LEMMA MarkStays ==
    ASSUME NEW last \in Nat, NEW p, NEW A
    PROVE  Cardinality(1..last \ (A \cup {p})) <= Cardinality(1..last \ A)
<1>1. 1..last \ (A \cup {p}) \in SUBSET (1..last \ A)
  OBVIOUS
<1> QED
  BY <1>1, MissingIsFinite, FS_Subset

LEMMA MissingIsCounted ==
    ASSUME TypeOK
    PROVE  Cardinality(Missing) \in Nat
<1>1. lastSeq \in Nat
  BY DEF TypeOK
<1>2. Cardinality(1..lastSeq \ arrived) \in Nat
  BY <1>1, MissingIsFinite
<1> QED
  BY <1>2 DEF Missing

-----------------------------------------------------------------------------
LEMMA LossBegins == Init => LossInv
<1> SUFFICES ASSUME Init PROVE LossInv
  OBVIOUS
<1>1. 1..0 \ {} = {}
  OBVIOUS
<1>2. Cardinality(Missing) = 0
  BY <1>1, FS_EmptySet DEF Init, Missing
<1> QED
  BY <1>2, TraceAssumption DEF Init, LossInv, TypeOK, MarkOK, CountOK, RatioIsAPercentage

\* What RecvPacket does to the count while the server runs.
LEMMA PacketIsCounted ==
    ASSUME LossInv, NEW p \in 1..MaxSeq, RecvPacket(p), running
    PROVE  LossInv'
<1> USE DEF LossInv, TypeOK, MarkOK
<1>1. p \in 1..seq - 1 /\ p \notin arrived /\ p # lastSeq /\ lastSeq \in Nat
  BY DEF RecvPacket, Receive
<1>2. /\ arrived' = arrived \cup {p}
      /\ wire' = wire \ {p}
      /\ UNCHANGED <<fifo, seq, running, logged>>
      /\ OnOwd(p)
  BY DEF RecvPacket, Receive
<1>3. Cardinality(Missing) \in Nat
  BY MissingIsFinite, <1>1 DEF Missing
<1>4. CASE lastSeq < p
  <2>1. lastSeq' = p /\ largestSeq' = p /\ lostPackets' = lostPackets + (p - lastSeq - 1)
    BY <1>1, <1>2, <1>4 DEF OnOwd
  <2>2. Cardinality(Missing') = Cardinality(Missing) + (p - lastSeq - 1)
    <3>1. p \in Nat /\ arrived \subseteq 1..lastSeq
      BY <1>1
    <3>2. Missing' = 1..p \ (arrived \cup {p})
      BY <1>2, <2>1 DEF Missing
    <3>3. Cardinality(1..p \ (arrived \cup {p})) =
                Cardinality(1..lastSeq \ arrived) + (p - lastSeq - 1)
      BY <1>1, <1>4, <3>1, MarkMoves
    <3> QED
      BY <3>2, <3>3 DEF Missing
  <2>3. TypeOK'
    BY <1>1, <1>2, <2>1
  <2>4. MarkOK'
    <3>1. fifo => \A q \in wire' : p < q
      BY <1>1, <1>2 DEF RecvPacket, Receive
    <3> QED
      BY <1>1, <1>2, <1>4, <2>1, <3>1
  <2>5. CountOK'
    <3>1. CountOK /\ UNCHANGED fifo
      BY <1>2
    <3>2. lostPackets \in Int /\ p \in Int
      BY <1>1
    <3>3. lostPackets' <= p
      BY <3>1, <3>2, <1>1, <2>1 DEF CountOK
    <3> HIDE DEF LossInv, TypeOK, MarkOK
    <3> QED
      BY <1>1, <1>3, <2>1, <2>2, <3>1, <3>2, <3>3 DEF CountOK
  <2>6. RatioIsAPercentage'
    BY <1>2 DEF RatioIsAPercentage
  <2> QED
    BY <2>3, <2>4, <2>5, <2>6
<1>5. CASE p < lastSeq
  <2>1. UNCHANGED <<lastSeq, largestSeq, lostPackets>> /\ ~fifo
    BY <1>1, <1>2, <1>5 DEF OnOwd, RecvPacket, Receive
  <2>2. Cardinality(Missing') <= Cardinality(Missing)
    BY <1>1, <1>2, <2>1, MarkStays DEF Missing
  <2>3. Cardinality(Missing') \in Nat
    BY MissingIsFinite, <1>1, <2>1 DEF Missing
  <2>4. TypeOK' /\ MarkOK'
    BY <1>1, <1>2, <1>5, <2>1
  <2>5. CountOK'
    <3>1. CountOK /\ lostPackets \in Int /\ UNCHANGED fifo
      BY <1>2
    <3> HIDE DEF LossInv, TypeOK, MarkOK
    <3> QED
      BY <1>3, <2>1, <2>2, <2>3, <3>1 DEF CountOK
  <2>6. RatioIsAPercentage'
    BY <1>2 DEF RatioIsAPercentage
  <2> QED
    BY <2>4, <2>5, <2>6
<1> QED
  BY <1>1, <1>4, <1>5

LEMMA LossGoesOn == LossInv /\ [Next]_vars => LossInv'
<1> SUFFICES ASSUME LossInv, [Next]_vars PROVE LossInv'
  OBVIOUS
<1>1. CASE SendToNetwork
  BY <1>1, TraceAssumption DEF SendToNetwork, LossInv, TypeOK, MarkOK, CountOK, RatioIsAPercentage, Missing
<1>2. CASE \E p \in 1..MaxSeq : Drop(p)
  BY <1>2 DEF Drop, LossInv, TypeOK, MarkOK, CountOK, RatioIsAPercentage, Missing
<1>3. ASSUME NEW p \in 1..MaxSeq, RecvPacket(p) PROVE LossInv'
  <2>1. CASE running
    BY <1>3, <2>1, PacketIsCounted
  <2>2. CASE ~running
    <3>1. /\ wire' = wire \ {p}
          /\ UNCHANGED <<fifo, seq, arrived, running, lastSeq, largestSeq, lostPackets, logged>>
      BY <1>3, <2>2 DEF RecvPacket, Receive
    <3>2. TypeOK' /\ MarkOK'
      BY <3>1 DEF LossInv, TypeOK, MarkOK
    <3>3. CountOK' /\ RatioIsAPercentage'
      BY <3>1 DEF LossInv, CountOK, RatioIsAPercentage, Missing
    <3> QED
      BY <3>2, <3>3 DEF LossInv
  <2> QED
    BY <2>1, <2>2
<1>4. CASE StopApplication
  <2>1. /\ logged' = <<lostPackets, largestSeq>>
        /\ running' = FALSE
        /\ UNCHANGED <<fifo, seq, wire, arrived, lastSeq, largestSeq, lostPackets>>
    BY <1>4 DEF StopApplication
  <2>2. TypeOK' /\ MarkOK'
    <3>1. MarkOK'
      BY <2>1 DEF LossInv, MarkOK
    <3>2. lostPackets \in Int /\ largestSeq \in Int
      BY DEF LossInv, TypeOK
    <3>3. logged' \in Int \X Int
      BY <2>1, <3>2
    <3>4. TypeOK'
      BY <2>1, <3>3 DEF LossInv, TypeOK
    <3> QED
      BY <3>1, <3>4
  <2>3. CountOK'
    BY <2>1 DEF LossInv, CountOK, Missing
  <2>4. RatioIsAPercentage'
    <3>1. Cardinality(Missing) \in Nat /\ lostPackets \in Int
      BY MissingIsCounted DEF LossInv, TypeOK
    <3>2. Cardinality(Missing) <= lostPackets /\ lostPackets <= lastSeq
      BY DEF LossInv, CountOK
    <3>3. lastSeq \in Nat /\ lastSeq = largestSeq /\ lastSeq < seq
      BY DEF LossInv, TypeOK, MarkOK
    <3>4. 0 <= lostPackets
      BY <3>1, <3>2
    <3>5. 0 <= lostPackets /\ lostPackets <= largestSeq /\ largestSeq < seq'
      BY <2>1, <3>2, <3>3, <3>4
    <3>6. logged'[1] = lostPackets /\ logged'[2] = largestSeq
      BY <2>1
    <3> QED
      BY <3>5, <3>6 DEF RatioIsAPercentage
  <2> QED
    BY <2>2, <2>3, <2>4 DEF LossInv
<1>5. CASE UNCHANGED vars
  BY <1>5 DEF vars, LossInv, TypeOK, MarkOK, CountOK, RatioIsAPercentage, Missing
<1> QED
  BY <1>1, <1>2, <1>3, <1>4, <1>5 DEF Next

LEMMA LossInvImplies ==
    ASSUME LossInv
    PROVE  TypeOK /\ LossIsExact /\ LossIsNeverUnderstated /\ RatioIsAPercentage
<1>1. LossIsExact
  <2> SUFFICES ASSUME fifo
               PROVE  Missing \cap wire = {}
      BY DEF LossInv, CountOK, LossIsExact
  <2> QED BY DEF LossInv, MarkOK, TypeOK, Missing
<1>2. Cardinality(Missing) \in Nat
      BY MissingIsCounted DEF LossInv
<1>3. lostPackets \in Int /\ Cardinality(Missing) <= lostPackets
      BY DEF LossInv, TypeOK, CountOK
<1>4. LossIsNeverUnderstated
      BY <1>2, <1>3 DEF LossIsNeverUnderstated
<1> QED BY <1>1, <1>4 DEF LossInv

\* The inductive invariant of the loss count, whatever the network drops and
\* reorders.
THEOREM LossInvariant == Spec => []LossInv
<1>1. Init => LossInv
      BY LossBegins
<1>2. LossInv /\ [Next]_vars => LossInv'
      BY LossGoesOn
<1> QED BY <1>1, <1>2, PTL DEF Spec

-----------------------------------------------------------------------------
(***************************************************************************)
(* The tags on their way.  Each one is of its packet's number and of a     *)
(* time, so that the trace is given the numbers that were sent, and        *)
(* counting from tags is counting from numbers.                            *)
(***************************************************************************)
TagsOK ==
    /\ \A p \in wire : tag[p].time \in Nat /\ tag[p] = NewTag(p, tag[p].time)
    /\ overrun => \E p \in wire : tag[p].time = 0

TagInv ==
    /\ seq \in 1..MaxSeq + 1
    /\ wire \subseteq 1..seq - 1
    /\ TagsOK

\* What a receiver reads from the tag of a packet on its way.
LEMMA TagIsRead ==
    ASSUME NEW p \in Nat \ {0}, tag[p].time \in Nat, tag[p] = NewTag(p, tag[p].time)
    PROVE  /\ Len(tag[p].buffer) = tag[p].size
           /\ Deserialize(tag[p].buffer) = IF tag[p].time = 0 THEN Overrun ELSE <<p, tag[p].time>>
<1> DEFINE t == tag[p].time
<1>1. tag[p].size = GetSerializedSize(p, t) /\ tag[p].buffer = Serialize(p, t)
  <2>1. NewTag(p, t).size = GetSerializedSize(p, t) /\ NewTag(p, t).buffer = Serialize(p, t)
        BY DEF NewTag
  <2> QED BY <2>1
<1>2. t \in Nat
      OBVIOUS
<1> HIDE DEF t
<1>3. RoundTrips(p, t)
      BY <1>2, TagsRoundTrip
<1> QED BY <1>1, <1>3 DEF RoundTrips, t

LEMMA TagInvInit == TaggedInit => TagInv
BY TraceAssumption DEF TaggedInit, Init, TagInv, TagsOK

LEMMA TagInvKept ==
    ASSUME TagInv, [TaggedNext]_taggedVars
    PROVE  TagInv'
<1>1. ASSUME wire' \subseteq wire, seq' = seq, \A p \in wire' : tag'[p] = tag[p],
             UNCHANGED overrun, ~overrun
      PROVE  TagInv'
      BY <1>1 DEF TagInv, TagsOK, NewTag
<1>2. ASSUME NEW t \in Times, TaggedSend(t)
      PROVE  TagInv'
  <2>1. /\ ~overrun /\ ~overrun' /\ seq <= MaxSeq /\ seq' = seq + 1 /\ wire' = wire \cup {seq}
        /\ tag' = [p \in wire' |-> IF p \in wire THEN tag[p] ELSE NewTag(p, t)]
        BY <1>2 DEF TaggedSend, SendToNetwork
  <2>2. t \in Nat
        BY TimesAssumption
  <2>3. ASSUME NEW p \in wire'
        PROVE  tag'[p].time \in Nat /\ tag'[p] = NewTag(p, tag'[p].time)
    <3>1. CASE p \in wire
      <4>1. tag'[p] = tag[p] /\ tag[p].time \in Nat /\ tag[p] = NewTag(p, tag[p].time)
            BY <2>1, <3>1 DEF TagInv, TagsOK
      <4> QED BY <4>1
    <3>2. CASE p \notin wire
      <4>1. tag'[p] = NewTag(p, t)
            BY <2>1, <3>2
      <4>2. NewTag(p, t).time = t
            BY DEF NewTag
      <4> QED BY <2>2, <4>1, <4>2
    <3> QED BY <3>1, <3>2
  <2>4. seq' \in 1..MaxSeq + 1 /\ wire' \subseteq 1..seq' - 1
        BY <2>1, TraceAssumption DEF TagInv
  <2>5. TagsOK'
    <3>1. TagsOK' <=> /\ \A p \in wire' : tag'[p].time \in Nat /\ tag'[p] = NewTag(p, tag'[p].time)
                      /\ overrun' => \E p \in wire' : tag'[p].time = 0
          BY DEF TagsOK, NewTag
    <3> QED BY <2>1, <2>3, <3>1
  <2> QED BY <2>4, <2>5 DEF TagInv
<1>3. ASSUME NEW p \in wire, TaggedDrop(p)
      PROVE  TagInv'
      BY <1>1, <1>3 DEF TaggedDrop, Drop, Restrict
<1>4. ASSUME NEW p \in wire, TaggedRecv(p)
      PROVE  TagInv'
  <2> DEFINE read == Deserialize(tag[p].buffer)
  <2>1. /\ p \in Nat \ {0} /\ tag[p].time \in Nat /\ tag[p] = NewTag(p, tag[p].time)
        BY DEF TagInv, TagsOK
  <2>2. read = IF tag[p].time = 0 THEN Overrun ELSE <<p, tag[p].time>>
        BY <2>1, TagIsRead
  <2> HIDE DEF read
  <2>3. CASE running /\ read = Overrun
    <3>1. overrun' = TRUE /\ UNCHANGED <<vars, tag>>
          BY <1>4, <2>3 DEF TaggedRecv, read
    <3>2. tag[p].time = 0
      <4>1. Len(<<p, tag[p].time>>) = 2 /\ Len(Overrun) = 1
            BY DEF Overrun
      <4> QED BY <2>2, <2>3, <4>1
    <3>3. wire' = wire /\ seq' = seq /\ tag' = tag
          BY <3>1 DEF vars
    <3> QED BY <3>1, <3>2, <3>3 DEF TagInv, TagsOK, NewTag
  <2>4. CASE ~ (running /\ read = Overrun)
    <3>1. Receive(p, read[1]) /\ tag' = Restrict(tag, wire') /\ UNCHANGED overrun /\ ~overrun
          BY <1>4, <2>4 DEF TaggedRecv, read
    <3>2. wire' = wire \ {p} /\ seq' = seq /\ \A q \in wire' : tag'[q] = tag[q]
          BY <3>1 DEF Receive, Restrict
    <3> QED BY <1>1, <3>1, <3>2
  <2> QED BY <2>3, <2>4
<1>5. CASE TaggedStop
      BY <1>5, <1>1 DEF TaggedStop, StopApplication
<1>6. CASE UNCHANGED taggedVars
      BY <1>6 DEF taggedVars, vars, TagInv, TagsOK, NewTag
<1> QED BY <1>2, <1>3, <1>4, <1>5, <1>6 DEF TaggedNext

\* A step that counts from a tag is a step that counts from the number.
LEMMA TaggedStepCounts ==
    ASSUME TagInv, [TaggedNext]_taggedVars
    PROVE  [Next]_vars
<1>1. ASSUME NEW p \in wire
      PROVE  p \in 1..MaxSeq
      BY TraceAssumption DEF TagInv
<1>2. ASSUME NEW t \in Times, TaggedSend(t)
      PROVE  Next
      BY <1>2 DEF TaggedSend, Next
<1>3. ASSUME NEW p \in wire, TaggedDrop(p)
      PROVE  Next
      BY <1>1, <1>3 DEF TaggedDrop, Next
<1>4. ASSUME NEW p \in wire, TaggedRecv(p)
      PROVE  [Next]_vars
  <2> DEFINE read == Deserialize(tag[p].buffer)
  <2>1. /\ p \in Nat \ {0} /\ tag[p].time \in Nat /\ tag[p] = NewTag(p, tag[p].time)
        BY DEF TagInv, TagsOK
  <2>2. read = IF tag[p].time = 0 THEN Overrun ELSE <<p, tag[p].time>>
        BY <2>1, TagIsRead
  <2> HIDE DEF read
  <2>3. CASE running /\ read = Overrun
        BY <1>4, <2>3 DEF TaggedRecv, read
  <2>4. CASE ~ (running /\ read = Overrun)
    <3>1. Receive(p, read[1])
          BY <1>4, <2>4 DEF TaggedRecv, read
    <3>2. Receive(p, p)
      <4>1. CASE running
        <5>1. read[1] = p
              BY <2>2, <2>4, <4>1
        <5> QED BY <3>1, <5>1
      <4>2. CASE ~running
            BY <3>1, <4>2 DEF Receive
      <4> QED BY <4>1, <4>2
    <3>3. RecvPacket(p)
          BY <3>2 DEF RecvPacket
    <3> QED BY <1>1, <3>3 DEF Next
  <2> QED BY <2>3, <2>4
<1>5. CASE TaggedStop
      BY <1>5 DEF TaggedStop, Next
<1>6. CASE UNCHANGED taggedVars
      BY <1>6 DEF taggedVars
<1> QED BY <1>2, <1>3, <1>4, <1>5, <1>6 DEF TaggedNext

LEMMA TagsStayOK == TaggedSpec => []TagInv
<1>1. TaggedInit => TagInv
      BY TagInvInit
<1>2. TagInv /\ [TaggedNext]_taggedVars => TagInv'
      BY TagInvKept
<1> QED BY <1>1, <1>2, PTL DEF TaggedSpec

LEMMA TracesRunTags == TracesSpec => TaggedSpec
<1>1. TracesInit => TaggedInit
      BY DEF TracesInit
<1>2. [TracesNext]_tracesVars => [TaggedNext]_taggedVars
      BY DEF TracesNext, tracesVars
<1> QED BY <1>1, <1>2, PTL DEF TracesSpec, TaggedSpec

\* The trace that decodes its numbers from tags, Ns3QuicTag's two integers of
\* however many bytes, counts like one that is given the numbers.
THEOREM TaggedTraceCountsNumbers == TaggedSpec => Spec
<1>1. TaggedInit => Init
      BY DEF TaggedInit
<1>2. TagInv /\ [TaggedNext]_taggedVars => [Next]_vars
      BY TaggedStepCounts
<1> QED BY <1>1, <1>2, TagsStayOK, PTL DEF TaggedSpec, Spec

\* Every tag fills its buffer and reads back, except for the zero time, whatever
\* the base, the numbers and the times are.
THEOREM TagsAlwaysRoundTrip == TracesSpec => []TagRoundTrips
<1>1. TagInv => TagRoundTrips
  <2> SUFFICES ASSUME TagInv
               PROVE  TagRoundTrips
      OBVIOUS
  <2>1. ASSUME NEW p \in wire
        PROVE  /\ Len(tag[p].buffer) = tag[p].size
               /\ Deserialize(tag[p].buffer) =
                    IF tag[p].time = 0 THEN Overrun ELSE <<p, tag[p].time>>
    <3>1. p \in Nat \ {0} /\ tag[p].time \in Nat /\ tag[p] = NewTag(p, tag[p].time)
          BY DEF TagInv, TagsOK
    <3> QED BY <3>1, TagIsRead
  <2>2. overrun => \E p \in wire : tag[p].time = 0
        BY DEF TagInv, TagsOK
  <2> QED BY <2>1, <2>2 DEF TagRoundTrips
<1> QED BY <1>1, TagsStayOK, TracesRunTags, PTL

\* On a path that keeps the order the lost file is exact, for any number of
\* packets and any pattern of drops, although the numbers come from tags.
THEOREM LossCountIsExact == TracesSpec => []LossIsExact
<1>1. LossInv => LossIsExact
      BY LossInvImplies
<1> QED BY <1>1, LossInvariant, TaggedTraceCountsNumbers, TracesRunTags, PTL

\* On any path the lost file never understates the loss.
THEOREM LossNeverUnderstated == TracesSpec => []LossIsNeverUnderstated
<1>1. LossInv => LossIsNeverUnderstated
      BY LossInvImplies
<1> QED BY <1>1, LossInvariant, TaggedTraceCountsNumbers, TracesRunTags, PTL

\* The ratio of the logged loss to the logged largest number is a percentage,
\* and the numbers but the last were sent.
THEOREM RatioAlwaysAPercentage == TracesSpec => []RatioIsAPercentage
<1>1. LossInv => RatioIsAPercentage
      BY LossInvImplies
<1> QED BY <1>1, LossInvariant, TaggedTraceCountsNumbers, TracesRunTags, PTL
=============================================================================
