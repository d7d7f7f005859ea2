---------------------------- MODULE AddrPairMap ----------------------------
(***************************************************************************)
(* The trace map of the server's dispatcher: a std::map whose keys are     *)
(* pairs of addresses, compared by Ns3QuicAddressPair::operator<.  That    *)
(* comparison is no order: it takes a pair for the smaller one as soon as  *)
(* any of its four fields is smaller, so that two pairs may each be less   *)
(* than the other.  What a map over such a comparison finds depends on the *)
(* shape of its tree, so that the tree is here: the red-black tree of      *)
(* libstdc++, as the functions insert and find of std::map use it.         *)
(*                                                                         *)
(* Addresses and ports are small numbers in the order of the real ones: n  *)
(* is 10.1.n.x, and ports count from the first ephemeral one.              *)
(***************************************************************************)
EXTENDS Integers, Sequences, SequencesExt

CONSTANTS
    ClientIps,      \* addresses of clients
    ServerIps,      \* addresses of servers
    ClientPorts,    \* ports of clients
    MaxOpened       \* bound: traces opened

\* What the constants are assumed to be.
PairAssumption == ClientIps \cup ServerIps \cup ClientPorts \subseteq Nat /\ MaxOpened \in Nat

VARIABLES
    m_traceDb,      \* the tree
    opened          \* the pairs a trace was opened for, in order

vars == <<m_traceDb, opened>>

-----------------------------------------------------------------------------
(* The pairs and their comparison.                                         *)

Pair(c, s, p) ==
    [client_ip |-> c, server_ip |-> s, client_port |-> p, server_port |-> 1234]

Pairs == {Pair(c, s, p) : c \in ClientIps, s \in ServerIps, p \in ClientPorts}

\* Mistake: the clients of the second host are installed first.
Dumbbell_SecondHostFirst == <<Pair(4, 5, 1), Pair(4, 5, 2), Pair(1, 3, 1), Pair(1, 3, 2)>>

\* The pairs quic-main adds, in its order: two clients on h0 with the server
\* on h1, two on h4 with the server on h5; or three on one link.
Dumbbell == <<Pair(1, 3, 1), Pair(1, 3, 2), Pair(4, 5, 1), Pair(4, 5, 2)>>
P2P == <<Pair(1, 2, 1), Pair(1, 2, 2), Pair(1, 2, 3)>>

Fields == {"client_ip", "server_ip", "client_port", "server_port"}

\* Mistake: equal ports count as smaller.
Less_Equal(a, b) == (\E f \in Fields : a[f] < b[f]) \/ a.server_port <= b.server_port

\* operator<
Less(a, b) == \E f \in Fields : a[f] < b[f]

\* Each is smaller than the other in some field.
Cross(a, b) == \E f, g \in Fields : a[f] < b[f] /\ b[g] < a[g]

-----------------------------------------------------------------------------
(* The tree.                                                               *)

Leaf == [red |-> FALSE]

Node(red, left, key, right) ==
    [red |-> red, left |-> left, key |-> key, right |-> right]

\* A red child of t with a red child of its own.
Offends(t) == t.red /\ (t.left.red \/ t.right.red)

\* The loop of _Rb_tree_insert_and_rebalance, at the grandparent of the node it
\* looks at: with a red uncle the colours move up, otherwise one or two
\* rotations put the middle of the three nodes on top.
Rebalance(t) ==
    IF ~Offends(t.left) /\ ~Offends(t.right) THEN t
    ELSE IF t.left.red /\ t.right.red
    THEN [t EXCEPT !.red = TRUE, !.left.red = FALSE, !.right.red = FALSE]
    ELSE LET l == t.left  r == t.right
             Top(a, x, b, y, c, z, d) ==
                 Node(FALSE, Node(TRUE, a, x, b), y, Node(TRUE, c, z, d))
         IN  IF Offends(l)
             THEN IF l.left.red
                  THEN Top(l.left.left, l.left.key, l.left.right, l.key, l.right, t.key, r)
                  ELSE Top(l.left, l.key, l.right.left, l.right.key, l.right.right, t.key, r)
             ELSE IF r.left.red
                  THEN Top(l, t.key, r.left.left, r.left.key, r.left.right, r.key, r.right)
                  ELSE Top(l, t.key, r.left, r.key, r.right.left, r.right.key, r.right.right)

\* t, what hangs under it, and the empty places.  Its keys were opened, so that
\* it is not higher than the bound.
Subtrees(t) ==
    LET Down[n \in Nat] ==
            IF n = 0 THEN {t}
            ELSE LET above == Down[n - 1]
                 IN  above \cup UNION {{s.left, s.right} : s \in above \ {Leaf}}
    IN  Down[MaxOpened]

\* A red node in the place of k, and the way back up.
Put(t, k) ==
    LET Into[s \in Subtrees(t)] ==
            IF s = Leaf THEN Node(TRUE, Leaf, k, Leaf)
            ELSE IF Less(k, s.key) THEN Rebalance([s EXCEPT !.left = Into[s.left]])
            ELSE Rebalance([s EXCEPT !.right = Into[s.right]])
    IN  Into[t]

\* The entry before the place of k: the last key on the way down from t after
\* which the way goes right.
Before(t, k) ==
    LET In[s \in Subtrees(t)] ==
            IF s = Leaf THEN {}
            ELSE IF Less(k, s.key) THEN In[s.left]
            ELSE LET later == In[s.right] IN IF later = {} THEN {s.key} ELSE later
    IN  In[t]

\* map::insert: nothing happens if the entry before is not less.
Insert(t, k) ==
    IF \A b \in Before(t, k) : Less(b, k)
    THEN [Put(t, k) EXCEPT !.red = FALSE]
    ELSE t

\* The first entry that is not less than k, as a search from t finds it.
LowerBound(t, k) ==
    LET In[s \in Subtrees(t)] ==
            IF s = Leaf THEN {}
            ELSE IF Less(s.key, k) THEN In[s.right]
            ELSE LET sooner == In[s.left] IN IF sooner = {} THEN {s.key} ELSE sooner
    IN  In[t]

\* map::find is not end().
Found(t, k) == \E e \in LowerBound(t, k) : ~Less(k, e)

\* The keys in the order in which an iterator meets them.
InOrder(t) ==
    LET In[s \in Subtrees(t)] ==
            IF s = Leaf THEN << >> ELSE In[s.left] \o <<s.key>> \o In[s.right]
    IN  In[t]

-----------------------------------------------------------------------------
Init ==
    /\ m_traceDb = Leaf
    /\ opened = << >>

\* A pair that is not found gets a trace, which opens the pair's files; what
\* insert says is not looked at.
AddMonitorAddressPair(k) ==
    IF Found(m_traceDb, k)
    THEN UNCHANGED vars
    ELSE /\ Len(opened) < MaxOpened
         /\ opened' = Append(opened, k)
         /\ m_traceDb' = Insert(m_traceDb, k)

\* Shutdown takes out what the map holds, from its beginning.
Shutdown ==
    /\ opened # << >>
    /\ m_traceDb' = Leaf
    /\ opened' = << >>

Next == Shutdown \/ \E k \in Pairs : AddMonitorAddressPair(k)

Spec == Init /\ [][Next]_vars

-----------------------------------------------------------------------------
Opened == Range(opened)

\* How many black nodes there are on the ways down from t.
BlackHeights(t) ==
    LET In[s \in Subtrees(t)] ==
            IF s = Leaf THEN {0}
            ELSE {h + (IF s.red THEN 0 ELSE 1) : h \in In[s.left] \cup In[s.right]}
    IN  In[t]

\* The tree is a balanced one, whatever the comparison does.
TypeOK ==
    /\ opened \in Seq(Pairs)
    /\ Len(opened) <= MaxOpened
    /\ Range(InOrder(m_traceDb)) \subseteq Opened
    /\ ~m_traceDb.red
    /\ \A s \in Subtrees(m_traceDb) : ~Offends(s)
    /\ \A g, h \in BlackHeights(m_traceDb) : g = h

(***************************************************************************)
(* As long as no two of the pairs cross, the map is a map: every pair that *)
(* was added is found, has one trace, opened once, and the traces are in   *)
(* the order of the pairs.  All clients of one host with one server are    *)
(* such pairs.                                                             *)
(***************************************************************************)
UncrossedPairsAreAMap ==
    LET order == InOrder(m_traceDb)
    IN  (\A j, k \in Opened : ~Cross(j, k)) =>
            /\ \A k \in Opened : Found(m_traceDb, k)
            /\ Len(order) = Len(opened)
            /\ Range(order) = Opened
            /\ \A i, j \in DOMAIN order : i < j => Less(order[i], order[j])

(***************************************************************************)
(* A pair whose packets are not traced any more, although it was added,    *)
(* crosses another one that was added: without that, neither the shape of  *)
(* the tree nor the crossings of other pairs can hide it.                  *)
(***************************************************************************)
LostPairsCross ==
    \A k \in Opened : Found(m_traceDb, k) \/ \E j \in Opened : Cross(j, k)

(***************************************************************************)
(* OnOwd never counts a packet for another pair than its own, and a pair   *)
(* that is refused has a trace already.                                    *)
(***************************************************************************)
FoundIsItself == \A k \in Pairs : Found(m_traceDb, k) => k \in Opened

(***************************************************************************)
(* quic-main traces what it adds: in its order of adding, all four pairs   *)
(* of the dumbbell are found, although the second and the third cross, and *)
(* all three of the single link.                                           *)
(***************************************************************************)
ShippedPairsAreTraced ==
    (\E order \in {Dumbbell, P2P} : IsPrefix(opened, order)) =>
        /\ \A k \in Opened : Found(m_traceDb, k)
        /\ Len(InOrder(m_traceDb)) = Len(opened)
=============================================================================
