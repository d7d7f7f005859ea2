------------------------- MODULE Simulation_proofs -------------------------
(***************************************************************************)
(* Proofs about what quic-main sets up, for every name of a folder or of a *)
(* controller, any number of simulations in one directory, folders of any  *)
(* depth and any time the links are looked at: what the bottleneck's queue *)
(* holds, what the report on the links says, that a simulation that runs   *)
(* has its folder, and that a flow runs the controller its option names.   *)
(* None of the parts reads another, so that each has an invariant of its   *)
(* own, which is kept by its own step and by the steps of the others.      *)
(***************************************************************************)
EXTENDS Simulation, SequenceTheorems, Recursion

-----------------------------------------------------------------------------
(***************************************************************************)
(* The links.                                                              *)
(***************************************************************************)

\* Units of 10^6 bit/s of the bottleneck.
Width ==
    CASE instance = "p2p"                                     -> 5
      [] instance \in {"5", "6", "7", "8"}                    -> 12
      [] instance \in {"1", "2", "3", "4", "other"}           -> 10

\* What was received crossed the bottleneck in the steps until the last
\* receipt, and what can still cross in this step is what has not; the report
\* is made when nothing moves any more.
LinksInv ==
    /\ instance \in Links!Instances
    /\ now \in Nat
    /\ credit \in Nat
    /\ m_readBytes \in Nat
    /\ m_receiptTime \in Nat
    /\ topology = << >> => now = 0
    /\ topology # << >> => topology[Links!Bottleneck].bandwidth = Width
    /\ now = 0 => m_readBytes = 0
    /\ now > 0 => m_readBytes + credit <= Width * now
    /\ m_readBytes <= Width * m_receiptTime
    /\ f_util # << >> =>
        now > Horizon /\ f_util = <<m_readBytes, Links!Channel(m_receiptTime)>>

LEMMA Widths ==
    ASSUME instance \in Links!Instances
    PROVE  \/ /\ Width = 5
              /\ instance = "p2p"
           \/ /\ Width = 12
              /\ instance \in {"5", "6", "7", "8"}
           \/ /\ Width = 10
              /\ instance \in {"1", "2", "3", "4", "other"}
  BY DEF Width, Links!Instances

\* The bottleneck is the first link or the second, and as wide as the instance
\* makes it.
LEMMA BuiltWidth ==
    ASSUME instance \in Links!Instances
    PROVE  /\ Links!Bottleneck \in DOMAIN Links!Links
           /\ Links!Links[Links!Bottleneck].bandwidth = Width
  <1>1. CASE instance = "p2p"
    BY <1>1, Widths DEF Links!Bottleneck, Links!Links, Links!Link
  <1>2. CASE instance # "p2p"
    <2>1. Links!Bottleneck = 2 /\ Links!Links = Links!DumbbellLinks
      BY <1>2 DEF Links!Bottleneck, Links!Links
    <2>2. /\ 2 \in DOMAIN Links!DumbbellLinks
          /\ Links!DumbbellLinks[2].bandwidth =
                (IF instance \in {"5", "6", "7", "8"} THEN 12 ELSE 10)
      BY DEF Links!DumbbellLinks, Links!Link
    <2> QED  BY <1>2, <2>1, <2>2, Widths
  <1> QED  BY <1>1, <1>2

LEMMA LinksInit ==
    ASSUME Links!Init
    PROVE  LinksInv
  BY Widths DEF Links!Init, LinksInv

LEMMA LinksStep ==
    ASSUME Horizon \in Nat, LinksInv, Links!Next
    PROVE  LinksInv'
  <1> USE DEF LinksInv
  <1>w. Width' = Width /\ Links!Bottleneck' = Links!Bottleneck /\ Width \in {5, 10, 12}
    BY Widths DEF Width, Links!Bottleneck, Links!Next, Links!Build, Links!Tick,
        Links!OnOwd, Links!Finish
  <1>1. CASE Links!Build
    <2>1. topology'[Links!Bottleneck].bandwidth = Width
      BY <1>1, BuiltWidth DEF Links!Build
    <2>2. credit' \in Nat
      BY <1>1, <1>w, BuiltWidth DEF Links!Build
    <2>3. Links!Channel(m_receiptTime)' = Links!Channel(m_receiptTime)
      BY <1>1 DEF Links!Build, Links!Channel
    <2> QED  BY <1>1, <1>w, <2>1, <2>2, <2>3 DEF Links!Build
  <1>2. CASE Links!Tick
    <2>1. credit' = Width /\ now' = now + 1 /\ now <= Horizon
      BY <1>2 DEF Links!Tick, Links!Running
    <2>2. m_readBytes' + credit' <= Width' * now'
      BY <1>2, <1>w, <2>1 DEF Links!Tick
    <2>3. f_util' = << >>
      BY <1>2, <2>1 DEF Links!Tick
    <2> QED  BY <1>2, <1>w, <2>1, <2>2, <2>3 DEF Links!Tick, Links!Running
  <1>3. ASSUME NEW bits \in {1, credit} \ {0}, Links!OnOwd(bits)
        PROVE  LinksInv'
    <2>1. /\ bits \in Nat /\ bits <= credit /\ now > 0 /\ now <= Horizon
          /\ credit' = credit - bits
          /\ m_readBytes' = m_readBytes + bits
          /\ m_receiptTime' = now
      BY <1>3 DEF Links!OnOwd, Links!Running
    <2>2. m_readBytes' + credit' <= Width' * now'
      BY <1>3, <1>w, <2>1 DEF Links!OnOwd
    <2>3. m_readBytes' <= Width' * m_receiptTime'
      BY <1>3, <1>w, <2>1, <2>2
    <2>4. f_util' = << >>
      BY <1>3, <2>1 DEF Links!OnOwd
    <2> QED  BY <1>3, <1>w, <2>1, <2>2, <2>3, <2>4 DEF Links!OnOwd
  <1>4. CASE Links!Finish
    <2>1. f_util' = <<m_readBytes', Links!Channel(m_receiptTime)'>>
      BY <1>4 DEF Links!Finish, Links!Channel
    <2> QED  BY <1>4, <1>w, <2>1 DEF Links!Finish
  <1> QED  BY <1>1, <1>2, <1>3, <1>4 DEF Links!Next

LEMMA LinksStutter ==
    ASSUME LinksInv, UNCHANGED topologyVars
    PROVE  LinksInv'
  BY DEF LinksInv, topologyVars, Width, Links!Bottleneck, Links!Channel

LEMMA ReportIsNear ==
    ASSUME Horizon \in Nat, LinksInv
    PROVE  UtilisationIsNear
  <1>1. SUFFICES ASSUME f_util # << >>
                 PROVE  UtilisationIsNear
    BY DEF UtilisationIsNear, Links!OvershootIsBelowASecond,
        Links!OnlyFirstTopologyIsUnderstated
  <1> DEFINE t == m_receiptTime
             h == t \div 2
             c == IF instance = "p2p" THEN 5 ELSE 12
  <1>2. /\ f_util[1] = m_readBytes
        /\ f_util[2] = c * 2 * h
        /\ topology[Links!Bottleneck].bandwidth = Width
        /\ m_readBytes <= Width * t
        /\ m_readBytes \in Nat /\ t \in Nat
    BY <1>1 DEF LinksInv, Links!Channel
  <1>3. h \in Nat /\ 2 * h <= t /\ t <= 2 * h + 1
    BY <1>2
  <1>4. \/ Width = 5 /\ c = 5
        \/ Width = 12 /\ c = 12
        \/ /\ Width = 10 /\ c = 12
           /\ instance \in {"1", "2", "3", "4", "other"}
    BY Widths DEF LinksInv
  <1> HIDE DEF c, h
  <1>5. m_readBytes < c * 2 * h + 2 * Width
    BY <1>2, <1>3, <1>4
  <1>6. c * 2 * h > Width * t => instance \in {"1", "2", "3", "4", "other"}
    BY <1>2, <1>3, <1>4
  <1> QED
    BY <1>2, <1>5, <1>6 DEF UtilisationIsNear, Links!OvershootIsBelowASecond,
        Links!OnlyFirstTopologyIsUnderstated, Links!Capacity

-----------------------------------------------------------------------------
(***************************************************************************)
(* The buffers.  The topologies are two, so that the paths between a       *)
(* client and its server can be named: each node that is met once or not   *)
(* at all decides over a link.                                             *)
(***************************************************************************)

\* What Build makes of the instance.
Built ==
    [l \in DOMAIN Links!Links |->
        [nodes |-> Links!Links[l].nodes,
         bandwidth |-> Links!Links[l].bandwidth,
         propagation_ms |-> Links!Links[l].propagation_ms,
         packets |-> Links!Packets(Links!Links[l].bandwidth)]]

BuiltInv ==
    /\ instance \in Links!Instances
    /\ topology # << >> => topology = Built

LEMMA BuiltInit ==
    ASSUME Links!Init
    PROVE  BuiltInv
  BY DEF Links!Init, BuiltInv

\* The topology is built once, and nothing of it changes then.
LEMMA BuiltStays ==
    ASSUME BuiltInv, Links!Next \/ UNCHANGED topologyVars
    PROVE  BuiltInv'
  <1>1. instance' = instance
    BY DEF Links!Next, Links!Build, Links!Tick, Links!OnOwd, Links!Finish, topologyVars
  <1>2. Built' = Built
    BY <1>1 DEF Built, Links!Links, Links!DumbbellLinks, Links!Packets, Links!buffer_ms,
        Links!HalfRtts
  <1>3. topology' \in {topology, Built}
    BY DEF Links!Next, Links!Build, Links!Tick, Links!OnOwd, Links!Finish, topologyVars, Built
  <1> QED  BY <1>1, <1>2, <1>3 DEF BuiltInv

\* The links of the dumbbell, one after the other.
Delay == IF instance \in {"5", "6", "7", "8"} THEN 15 ELSE 10

LEMMA DumbbellIsBuilt ==
    ASSUME BuiltInv, topology # << >>, instance # "p2p"
    PROVE  /\ DOMAIN topology = 1..5
           /\ \A l \in 1..5 : topology[l].nodes = Links!Nodes[l]
           /\ topology[1].propagation_ms = Delay /\ topology[3].propagation_ms = Delay
           /\ \A l \in {2, 4, 5} : topology[l].propagation_ms = 10
           /\ topology[2].bandwidth = IF Delay = 15 THEN 12 ELSE 10
           /\ topology[2].packets = Links!Packets(topology[2].bandwidth)
  <1>1. topology = Built /\ Links!Links = Links!DumbbellLinks
    BY DEF BuiltInv, Links!Links
  <1>2. /\ DOMAIN Links!DumbbellLinks = 1..5
        /\ \A l \in 1..5 :
            /\ Links!DumbbellLinks[l].nodes = Links!Nodes[l]
            /\ Links!DumbbellLinks[l].bandwidth =
                    IF l # 2 THEN 100
                    ELSE IF instance \in {"5", "6", "7", "8"} THEN 12 ELSE 10
            /\ Links!DumbbellLinks[l].propagation_ms =
                    IF instance \in {"5", "6", "7", "8"} /\ l \in {1, 3} THEN 15 ELSE 10
    BY DEF Links!DumbbellLinks, Links!Link
  <1>3. /\ DOMAIN topology = 1..5
        /\ \A l \in 1..5 :
            /\ topology[l].nodes = Links!DumbbellLinks[l].nodes
            /\ topology[l].bandwidth = Links!DumbbellLinks[l].bandwidth
            /\ topology[l].propagation_ms = Links!DumbbellLinks[l].propagation_ms
            /\ topology[l].packets = Links!Packets(Links!DumbbellLinks[l].bandwidth)
    BY <1>1, <1>2 DEF Built
  <1> QED  BY <1>2, <1>3 DEF Delay

LEMMA LinkIsBuilt ==
    ASSUME BuiltInv, topology # << >>, instance = "p2p"
    PROVE  /\ DOMAIN topology = {1}
           /\ topology[1].nodes = <<0, 1>>
           /\ topology[1].propagation_ms = 100
           /\ topology[1].bandwidth = 5
           /\ topology[1].packets = Links!Packets(5)
  <1>1. topology = Built /\ Links!Links = <<Links!Link(<<0, 1>>, 5, 100)>>
    BY DEF BuiltInv, Links!Links
  <1>2. DOMAIN Links!Links = {1} /\ Links!Links[1] = Links!Link(<<0, 1>>, 5, 100)
    BY <1>1
  <1> QED  BY <1>1, <1>2 DEF Built, Links!Link

LEMMA SmallSets ==
    /\ Links!Cardinality({}) = 0
    /\ \A a : Links!Cardinality({a}) = 1
    /\ \A a, b : a # b => Links!Cardinality({a, b}) = 2
  <1>1. \A S : Links!Cardinality(S) = Cardinality(S)
    BY DEF Links!Cardinality, Cardinality
  <1>2. Cardinality({}) = 0 /\ IsFiniteSet({})
    BY FS_EmptySet
  <1>3. \A a : Cardinality({a}) = 1 /\ IsFiniteSet({a})
    BY FS_Singleton
  <1>4. ASSUME NEW a, NEW b, a # b
        PROVE  Cardinality({a, b}) = 2
    <2>1. {a} \cup {b} = {a, b} /\ b \notin {a}
      BY <1>4
    <2>2. Cardinality({a} \cup {b}) = Cardinality({a}) + 1
      BY <1>3, <2>1, FS_AddElement
    <2> QED  BY <1>3, <2>1, <2>2
  <1> QED  BY <1>1, <1>2, <1>3, <1>4

\* The links of a path that meet a node, and the paths that meet a and b once.
Meeting(path, n) == {l \in path : n \in Links!Range(topology[l].nodes)}

IsPath(path, a, b) ==
    \A n \in 0..5 :
        IF n \in {a, b} THEN Links!Cardinality(Meeting(path, n)) = 1
        ELSE Links!Cardinality(Meeting(path, n)) \in {0, 2}

\* There is one of them.
LEMMA OnlyPath ==
    ASSUME NEW a, NEW b, NEW p \in SUBSET DOMAIN topology, IsPath(p, a, b),
           \A q \in SUBSET DOMAIN topology : IsPath(q, a, b) => q = p
    PROVE  Links!PathBetween(a, b) = p
  <1>1. Links!PathBetween(a, b) = CHOOSE q \in SUBSET DOMAIN topology : IsPath(q, a, b)
    BY DEF Links!PathBetween, IsPath, Meeting
  <1> QED  BY <1>1

\* A link is in p or not.
Counted(p, l) == IF l \in p THEN 1 ELSE 0

LEMMA CountsAdd ==
    /\ \A p, x : Links!Cardinality(p \cap {x}) = Counted(p, x)
    /\ \A p, x, y, z : x # y /\ y # z /\ x # z =>
        Links!Cardinality(p \cap {x, y, z}) = Counted(p, x) + Counted(p, y) + Counted(p, z)
  <1>1. ASSUME NEW S, NEW x, IsFiniteSet(S), x \notin S, NEW p
        PROVE  /\ IsFiniteSet(S \cup {x})
               /\ IsFiniteSet(p \cap S) /\ Cardinality(p \cap S) \in Nat
               /\ Cardinality(p \cap (S \cup {x})) = Cardinality(p \cap S) + Counted(p, x)
    <2>1. IsFiniteSet(S \cup {x})
      BY <1>1, FS_AddElement
    <2>2. IsFiniteSet(p \cap S) /\ Cardinality(p \cap S) \in Nat
      <3>1. p \cap S \subseteq S
        OBVIOUS
      <3> QED  BY <1>1, <3>1, FS_Subset, FS_CardinalityType
    <2>3. CASE x \in p
      <3>1. p \cap (S \cup {x}) = (p \cap S) \cup {x} /\ x \notin p \cap S
        BY <1>1, <2>3
      <3>2. Cardinality((p \cap S) \cup {x}) = Cardinality(p \cap S) + 1
        BY <2>2, <3>1, FS_AddElement
      <3> QED  BY <2>1, <2>2, <2>3, <3>1, <3>2 DEF Counted
    <2>4. CASE x \notin p
      <3>1. p \cap (S \cup {x}) = p \cap S
        BY <2>4
      <3> QED  BY <2>1, <2>2, <2>4, <3>1 DEF Counted
    <2> QED  BY <2>3, <2>4
  <1>2. \A S : Links!Cardinality(S) = Cardinality(S)
    BY DEF Links!Cardinality, Cardinality
  <1>3. ASSUME NEW p, NEW x
        PROVE  IsFiniteSet({x}) /\ Cardinality(p \cap {x}) = Counted(p, x)
    <2>1. p \cap {} = {} /\ {} \cup {x} = {x}
      OBVIOUS
    <2>2. IsFiniteSet({}) /\ Cardinality({}) = 0
      BY FS_EmptySet
    <2>3. IsFiniteSet({x}) /\ Cardinality(p \cap {x}) = Cardinality({}) + Counted(p, x)
      BY <1>1, <2>1, <2>2
    <2> QED  BY <2>2, <2>3 DEF Counted
  <1>4. ASSUME NEW p, NEW x, NEW y, NEW z, x # y, y # z, x # z
        PROVE  Cardinality(p \cap {x, y, z}) = Counted(p, x) + Counted(p, y) + Counted(p, z)
    <2>1. /\ {x} \cup {y} = {x, y} /\ {x, y} \cup {z} = {x, y, z}
          /\ y \notin {x} /\ z \notin {x, y}
      BY <1>4
    <2>2. /\ IsFiniteSet({x, y})
          /\ Cardinality(p \cap {x, y}) = Cardinality(p \cap {x}) + Counted(p, y)
      <3>1. /\ IsFiniteSet({x} \cup {y})
            /\ Cardinality(p \cap ({x} \cup {y})) = Cardinality(p \cap {x}) + Counted(p, y)
        BY <1>1, <1>3, <2>1
      <3> QED  BY <2>1, <3>1
    <2>3. Cardinality(p \cap ({x, y} \cup {z})) = Cardinality(p \cap {x, y}) + Counted(p, z)
      BY <1>1, <2>1, <2>2
    <2> QED  BY <1>3, <2>1, <2>2, <2>3
  <1>5. \A p, x : Links!Cardinality(p \cap {x}) = Counted(p, x)
    BY <1>2, <1>3
  <1>6. ASSUME NEW p, NEW x, NEW y, NEW z, x # y, y # z, x # z
        PROVE  Links!Cardinality(p \cap {x, y, z})
                    = Counted(p, x) + Counted(p, y) + Counted(p, z)
    BY <1>2, <1>4, <1>6
  <1> QED  BY <1>5, <1>6

\* Which links of the dumbbell meet a node.
LEMMA DumbbellMeets ==
    ASSUME BuiltInv, topology # << >>, instance # "p2p", NEW p \in SUBSET (1..5)
    PROVE  /\ Meeting(p, 0) = p \cap {1} /\ Meeting(p, 1) = p \cap {3}
           /\ Meeting(p, 2) = p \cap {1, 2, 4} /\ Meeting(p, 3) = p \cap {2, 3, 5}
           /\ Meeting(p, 4) = p \cap {4} /\ Meeting(p, 5) = p \cap {5}
  <1>1. \A l \in 1..5 : topology[l].nodes = Links!Nodes[l]
    BY DumbbellIsBuilt
  <1>2. \A x, y : Links!Range(<<x, y>>) = {x, y}
    BY DEF Links!Range
  <1>3. /\ Links!Nodes[1] = <<0, 2>> /\ Links!Nodes[2] = <<2, 3>> /\ Links!Nodes[3] = <<3, 1>>
        /\ Links!Nodes[4] = <<2, 4>> /\ Links!Nodes[5] = <<3, 5>>
    BY DEF Links!Nodes
  <1>4. /\ topology[1].nodes = <<0, 2>> /\ topology[2].nodes = <<2, 3>>
        /\ topology[3].nodes = <<3, 1>> /\ topology[4].nodes = <<2, 4>>
        /\ topology[5].nodes = <<3, 5>>
    BY <1>1, <1>3
  <1> DEFINE R(l) == Links!Range(topology[l].nodes)
  <1>5. R(1) = {0, 2} /\ R(2) = {2, 3} /\ R(3) = {3, 1} /\ R(4) = {2, 4} /\ R(5) = {3, 5}
    BY <1>2, <1>4, Zenon
  <1>6. \A n : Meeting(p, n) = {l \in p : n \in R(l)}
    BY DEF Meeting
  <1> HIDE DEF R
  <1>7. p \subseteq {1, 2, 3, 4, 5}
    OBVIOUS
  <1>8. /\ {l \in p : 0 \in R(l)} = p \cap {1} /\ {l \in p : 1 \in R(l)} = p \cap {3}
        /\ {l \in p : 2 \in R(l)} = p \cap {1, 2, 4}
        /\ {l \in p : 3 \in R(l)} = p \cap {2, 3, 5}
        /\ {l \in p : 4 \in R(l)} = p \cap {4} /\ {l \in p : 5 \in R(l)} = p \cap {5}
    <2>1. ASSUME NEW l \in p
          PROVE  /\ 0 \in R(l) <=> l = 1
                 /\ 1 \in R(l) <=> l = 3
                 /\ 2 \in R(l) <=> l \in {1, 2, 4}
                 /\ 3 \in R(l) <=> l \in {2, 3, 5}
                 /\ 4 \in R(l) <=> l = 4
                 /\ 5 \in R(l) <=> l = 5
      <3>1. l = 1 \/ l = 2 \/ l = 3 \/ l = 4 \/ l = 5
        BY <1>7
      <3> QED  BY <1>5, <3>1
    <2>2. ASSUME NEW n, NEW T, \A l \in p : n \in R(l) <=> l \in T
          PROVE  {l \in p : n \in R(l)} = p \cap T
      BY <2>2
    <2>3. ASSUME NEW l \in p
          PROVE  /\ 0 \in R(l) <=> l \in {1}
                 /\ 1 \in R(l) <=> l \in {3}
                 /\ 4 \in R(l) <=> l \in {4}
                 /\ 5 \in R(l) <=> l \in {5}
      BY <2>1
    <2>4. {l \in p : 0 \in R(l)} = p \cap {1} /\ {l \in p : 1 \in R(l)} = p \cap {3}
      BY <2>2, <2>3
    <2>5. {l \in p : 2 \in R(l)} = p \cap {1, 2, 4} /\ {l \in p : 3 \in R(l)} = p \cap {2, 3, 5}
      BY <2>1, <2>2
    <2>6. {l \in p : 4 \in R(l)} = p \cap {4} /\ {l \in p : 5 \in R(l)} = p \cap {5}
      BY <2>2, <2>3
    <2> QED  BY <2>4, <2>5, <2>6
  <1> QED  BY <1>6, <1>8

\* What a path is, by the links in it.
LEMMA DumbbellPath ==
    ASSUME BuiltInv, topology # << >>, instance # "p2p", NEW p \in SUBSET (1..5)
    PROVE  /\ IsPath(p, 0, 1) <=> p = {1, 2, 3}
           /\ IsPath(p, 4, 5) <=> p = {2, 4, 5}
  <1> DEFINE M(n) == Links!Cardinality(Meeting(p, n))
  <1>1. /\ M(0) = Counted(p, 1) /\ M(1) = Counted(p, 3)
        /\ M(4) = Counted(p, 4) /\ M(5) = Counted(p, 5)
    BY DumbbellMeets, CountsAdd
  <1>2. M(2) = Counted(p, 1) + Counted(p, 2) + Counted(p, 4)
    BY DumbbellMeets, CountsAdd
  <1>3. M(3) = Counted(p, 2) + Counted(p, 3) + Counted(p, 5)
    BY DumbbellMeets, CountsAdd
  <1>4. /\ IsPath(p, 0, 1) <=> /\ M(0) = 1 /\ M(1) = 1
                               /\ M(2) \in {0, 2} /\ M(3) \in {0, 2}
                               /\ M(4) \in {0, 2} /\ M(5) \in {0, 2}
        /\ IsPath(p, 4, 5) <=> /\ M(4) = 1 /\ M(5) = 1
                               /\ M(2) \in {0, 2} /\ M(3) \in {0, 2}
                               /\ M(0) \in {0, 2} /\ M(1) \in {0, 2}
    BY DEF IsPath
  <1> HIDE DEF M
  <1>5. /\ IsPath(p, 0, 1) <=> 1 \in p /\ 3 \in p /\ 2 \in p /\ 4 \notin p /\ 5 \notin p
        /\ IsPath(p, 4, 5) <=> 4 \in p /\ 5 \in p /\ 2 \in p /\ 1 \notin p /\ 3 \notin p
    BY <1>1, <1>2, <1>3, <1>4 DEF Counted
  <1>6. p \subseteq {1, 2, 3, 4, 5}
    OBVIOUS
  <1>7. 1 \in p /\ 3 \in p /\ 2 \in p /\ 4 \notin p /\ 5 \notin p <=> p = {1, 2, 3}
    <2>1. ASSUME 1 \in p, 3 \in p, 2 \in p, 4 \notin p, 5 \notin p
          PROVE  p = {1, 2, 3}
      <3>1. \A l : l \in p <=> l \in {1, 2, 3}
        BY <1>6, <2>1
      <3> QED  BY <3>1
    <2> QED  BY <2>1
  <1>8. 4 \in p /\ 5 \in p /\ 2 \in p /\ 1 \notin p /\ 3 \notin p <=> p = {2, 4, 5}
    <2>1. ASSUME 4 \in p, 5 \in p, 2 \in p, 1 \notin p, 3 \notin p
          PROVE  p = {2, 4, 5}
      <3>1. \A l : l \in p <=> l \in {2, 4, 5}
        BY <1>6, <2>1
      <3> QED  BY <3>1
    <2> QED  BY <2>1
  <1> QED  BY <1>5, <1>7, <1>8

LEMMA DumbbellPaths ==
    ASSUME BuiltInv, topology # << >>, instance # "p2p"
    PROVE  /\ Links!PathBetween(0, 1) = {1, 2, 3}
           /\ Links!PathBetween(4, 5) = {2, 4, 5}
  <1> DEFINE p == {1, 2, 3}
             q == {2, 4, 5}
  <1>1. DOMAIN topology = 1..5
    BY DumbbellIsBuilt
  <1>2. p \in SUBSET (1..5) /\ q \in SUBSET (1..5)
    OBVIOUS
  <1>3. \A r \in SUBSET (1..5) : (IsPath(r, 0, 1) <=> r = p) /\ (IsPath(r, 4, 5) <=> r = q)
    BY DumbbellPath
  <1> HIDE DEF p, q
  <1>4. /\ p \in SUBSET DOMAIN topology /\ IsPath(p, 0, 1)
        /\ q \in SUBSET DOMAIN topology /\ IsPath(q, 4, 5)
    BY <1>1, <1>2, <1>3
  <1>5. \A r \in SUBSET DOMAIN topology : (IsPath(r, 0, 1) => r = p) /\ (IsPath(r, 4, 5) => r = q)
    BY <1>1, <1>3
  <1>6. Links!PathBetween(0, 1) = p
    BY <1>4, <1>5, OnlyPath
  <1>7. Links!PathBetween(4, 5) = q
    BY <1>4, <1>5, OnlyPath
  <1> QED  BY <1>6, <1>7 DEF p, q

LEMMA LinkPath ==
    ASSUME BuiltInv, topology # << >>, instance = "p2p"
    PROVE  Links!PathBetween(0, 1) = {1}
  <1>1. DOMAIN topology = {1} /\ topology[1].nodes = <<0, 1>>
    BY LinkIsBuilt
  <1>2. Links!Range(<<0, 1>>) = {0, 1}
    BY DEF Links!Range
  <1>3. ASSUME NEW n \in 0..5
        PROVE  Meeting({1}, n) = IF n \in {0, 1} THEN {1} ELSE {}
    BY <1>1, <1>2 DEF Meeting
  <1>4. IsPath({1}, 0, 1)
    BY <1>3, SmallSets DEF IsPath
  <1>5. Meeting({}, 0) = {}
    BY DEF Meeting
  <1>6. Links!Cardinality(Meeting({}, 0)) = 0 /\ 0 \in 0..5 /\ 0 \in {0, 1}
    BY <1>5, SmallSets
  <1>7. ~ IsPath({}, 0, 1)
    BY <1>6 DEF IsPath
  <1> HIDE DEF IsPath
  <1>8. \A q \in SUBSET {1} : q = {} \/ q = {1}
    OBVIOUS
  <1>9. ASSUME NEW q \in SUBSET {1}, IsPath(q, 0, 1)
        PROVE  q = {1}
    <2>1. q # {}
      BY <1>7, <1>9
    <2> QED  BY <1>8, <2>1
  <1> QED  BY <1>1, <1>4, <1>9, OnlyPath

\* The sum of two or three delays, and of one.
LEMMA DelaysAdd ==
    ASSUME NEW S, IsFiniteSet(S), NEW d \in [S -> Int]
    PROVE  /\ \A x : S = {x} => Total(d) = d[x]
           /\ \A x, y, z : S = {x, y, z} /\ x # y /\ y # z /\ x # z =>
                Total(d) = d[x] + d[y] + d[z]
  <1>1. ASSUME NEW T \in SUBSET S, NEW x, x \in T
        PROVE  Total([l \in T |-> d[l]]) = d[x] + Total([l \in T \ {x} |-> d[l]])
    <2>1. IsFiniteSet(T)
      BY FS_Subset
    <2>2. Adds(T, x)
      BY <1>1, <2>1, TotalAdds
    <2> DEFINE g == [l \in T |-> d[l]]
               h == [l \in T \ {x} |-> d[l]]
    <2>3. g \in [T -> Int] /\ h \in [T \ {x} -> Int] /\ g[x] = d[x]
      BY <1>1
    <2>4. \A y \in T \ {x} : h[y] = g[y]
      OBVIOUS
    <2> HIDE DEF g, h
    <2>5. Total(g) = g[x] + Total(h)
      BY <2>2, <2>3, <2>4 DEF Adds
    <2> QED  BY <2>3, <2>5 DEF g, h
  <1>2. Total([l \in {} |-> d[l]]) = 0
    BY FS_EmptySet, TotalIsANumber
  <1>3. d = [l \in S |-> d[l]]
    OBVIOUS
  <1>4. ASSUME NEW x, x \in S
        PROVE  Total([l \in {x} |-> d[l]]) = d[x] /\ d[x] \in Int
    <2>1. {x} \in SUBSET S /\ {x} \ {x} = {}
      BY <1>4
    <2>2. d[x] \in Int
      BY <1>4
    <2>3. Total([l \in {x} |-> d[l]]) = d[x] + Total([l \in {x} \ {x} |-> d[l]])
      BY <1>1, <2>1
    <2>4. Total([l \in {x} \ {x} |-> d[l]]) = 0
      BY <1>2, <2>1
    <2> HIDE DEF Total
    <2>5. Total([l \in {x} |-> d[l]]) = d[x] + 0
      BY <2>3, <2>4
    <2> QED  BY <2>2, <2>5
  <1>5. ASSUME NEW x, NEW y, NEW z, S = {x, y, z}, x # y, y # z, x # z
        PROVE  Total(d) = d[x] + d[y] + d[z]
    <2>1. /\ {x, y, z} \ {x} = {y, z} /\ {y, z} \ {y} = {z}
          /\ {y, z} \in SUBSET S /\ S \in SUBSET S
          /\ x \in S /\ y \in {y, z} /\ z \in S /\ y \in S
      BY <1>5
    <2>2. Total(d) = d[x] + Total([l \in {y, z} |-> d[l]])
      BY <1>1, <1>3, <1>5, <2>1
    <2>3. Total([l \in {y, z} |-> d[l]]) = d[y] + Total([l \in {z} |-> d[l]])
      BY <1>1, <2>1
    <2>4. Total([l \in {z} |-> d[l]]) = d[z] /\ d[x] \in Int /\ d[y] \in Int /\ d[z] \in Int
      BY <1>4, <2>1
    <2> QED  BY <2>2, <2>3, <2>4
  <1>6. ASSUME NEW x, S = {x}
        PROVE  Total(d) = d[x]
    BY <1>3, <1>4, <1>6
  <1> QED  BY <1>5, <1>6

ThreeAdd(x, y, z) ==
    \A d \in [{x, y, z} -> Int] : Total(d) = d[x] + d[y] + d[z]

LEMMA ThreeDelays ==
    ASSUME NEW x, NEW y, NEW z, x # y, y # z, x # z
    PROVE  ThreeAdd(x, y, z)
  <1> DEFINE S == {x, y, z}
  <1>1. IsFiniteSet({x}) /\ {x} \cup {y} \cup {z} = S
    BY FS_Singleton
  <1>2. IsFiniteSet({x} \cup {y})
    BY <1>1, FS_AddElement
  <1>3. IsFiniteSet(S)
    BY <1>1, <1>2, FS_AddElement
  <1>4. ASSUME NEW d \in [S -> Int]
        PROVE  Total(d) = d[x] + d[y] + d[z]
    <2>1. S = {x, y, z}
      OBVIOUS
    <2> HIDE DEF S
    <2> QED  BY <1>3, <2>1, DelaysAdd
  <1> QED  BY <1>4 DEF ThreeAdd

LEMMA RttIsTotal ==
    ASSUME NEW a, NEW b, NEW p, p = Links!PathBetween(a, b)
    PROVE  Links!RttBetween(a, b) = 2 * Total([l \in p |-> topology[l].propagation_ms])
  <1> DEFINE g == [l \in p |-> topology[l].propagation_ms]
             B(f) == [s \in SUBSET p |-> IF s = {} THEN 0
                        ELSE topology[CHOOSE x \in s : TRUE].propagation_ms
                                + f[s \ {CHOOSE x \in s : TRUE}]]
  <1>1. Links!RttBetween(a, b) = 2 * (CHOOSE f : f = B(f))[p]
    BY DEF Links!RttBetween, Links!MapThenSumSet, Links!MapThenFoldSet
  <1>2. ASSUME NEW f
        PROVE  f = B(f) <=> Sums(f, g)
    <2>1. ASSUME NEW s \in SUBSET p, s # {}
          PROVE  topology[CHOOSE x \in s : TRUE].propagation_ms = g[One(s)]
      BY <2>1 DEF One
    <2>2. DOMAIN g = p
      OBVIOUS
    <2>3. B(f) = [s \in SUBSET DOMAIN g |-> IF s = {} THEN 0 ELSE g[One(s)] + f[s \ {One(s)}]]
      BY <2>1, <2>2 DEF One
    <2> HIDE DEF B, g
    <2> QED  BY <2>3 DEF Sums
  <1> HIDE DEF B
  <1>3. (CHOOSE f : f = B(f)) = (CHOOSE f : Sums(f, g))
    BY <1>2
  <1>4. DOMAIN g = p
    OBVIOUS
  <1> HIDE DEF g
  <1> QED  BY <1>1, <1>3, <1>4 DEF Total, g

LEMMA Rtts ==
    ASSUME BuiltInv, topology # << >>
    PROVE  /\ instance # "p2p" => /\ Links!RttBetween(0, 1) = 2 * (Delay + 10 + Delay)
                                  /\ Links!RttBetween(4, 5) = 60
           /\ instance = "p2p" => Links!RttBetween(0, 1) = 200
  <1>1. CASE instance # "p2p"
    <2> DEFINE p == {1, 2, 3}
               q == {2, 4, 5}
               dp == [l \in p |-> topology[l].propagation_ms]
               dq == [l \in q |-> topology[l].propagation_ms]
    <2>1. Links!PathBetween(0, 1) = p /\ Links!PathBetween(4, 5) = q
      BY <1>1, DumbbellPaths
    <2>2. Links!RttBetween(0, 1) = 2 * Total(dp) /\ Links!RttBetween(4, 5) = 2 * Total(dq)
      BY <2>1, RttIsTotal
    <2>3. Delay \in Int
      BY DEF Delay
    <2>4. /\ dp[1] = Delay /\ dp[2] = 10 /\ dp[3] = Delay /\ dp \in [p -> Int]
          /\ dq[2] = 10 /\ dq[4] = 10 /\ dq[5] = 10 /\ dq \in [q -> Int]
      BY <1>1, <2>3, DumbbellIsBuilt
    <2> HIDE DEF dp, dq
    <2>5. Total(dp) = dp[1] + dp[2] + dp[3]
      <3>1. dp \in [{1, 2, 3} -> Int]
        BY <2>4
      <3>2. ThreeAdd(1, 2, 3)
        BY ThreeDelays
      <3> QED  BY <3>1, <3>2 DEF ThreeAdd
    <2>6. Total(dq) = dq[2] + dq[4] + dq[5]
      <3>1. dq \in [{2, 4, 5} -> Int]
        BY <2>4
      <3>2. ThreeAdd(2, 4, 5)
        BY ThreeDelays
      <3> QED  BY <3>1, <3>2 DEF ThreeAdd
    <2> QED  BY <1>1, <2>2, <2>3, <2>4, <2>5, <2>6
  <1>2. CASE instance = "p2p"
    <2> DEFINE d == [l \in {1} |-> topology[l].propagation_ms]
    <2>1. Links!RttBetween(0, 1) = 2 * Total(d)
      BY <1>2, LinkPath, RttIsTotal
    <2>2. d[1] = 100 /\ d \in [{1} -> Int]
      BY <1>2, LinkIsBuilt
    <2>4. IsFiniteSet({1})
      BY FS_Singleton
    <2> HIDE DEF d
    <2>3. Total(d) = d[1]
      BY <2>2, <2>4, DelaysAdd
    <2> QED  BY <1>2, <2>1, <2>2, <2>3
  <1> QED  BY <1>1, <1>2

LEMMA GreaterOfTwo ==
    ASSUME NEW a \in Int, NEW b \in Int
    PROVE  Links!Max({a, b}) = IF a >= b THEN a ELSE b
  <1> DEFINE m == IF a >= b THEN a ELSE b
  <1>1. m \in {a, b} /\ \A y \in {a, b} : m >= y
    OBVIOUS
  <1>2. ASSUME NEW x \in {a, b}, \A y \in {a, b} : x >= y
        PROVE  x = m
    BY <1>2
  <1> QED  BY <1>1, <1>2 DEF Links!Max

\* The queue of the width and the buffer, which 32 bits are enough for.
LEMMA QueueHoldsIt ==
    ASSUME NEW width \in 1..12, Links!buffer_ms \in 60..300
    PROVE  /\ 12 * Links!Packets(width) <= width * Links!buffer_ms
           /\ width * Links!buffer_ms < 12 * (Links!Packets(width) + 1)
  <1> DEFINE b == Links!buffer_ms
             k == width * b
             product == width * 15625 * b
             kept == IF instance = "p2p" THEN product ELSE product % 67108864
             bytes == kept \div 125
  <1>0. k \in 1..3600
    OBVIOUS
  <1>1. product = 15625 * k
    OBVIOUS
  <1> HIDE DEF product, k
  <1>2. kept = 15625 * k
    BY <1>0, <1>1
  <1>3. bytes = 125 * k /\ bytes \in Int
    BY <1>0, <1>2
  <1>4. Links!Packets(width) = Links!Max({1500, bytes}) \div 1500
    BY DEF Links!Packets, product
  <1> HIDE DEF kept, bytes
  <1> QED  BY <1>0, <1>3, <1>4, GreaterOfTwo DEF k

LEMMA BufferOfTheLongest ==
    ASSUME BuiltInv, topology # << >>
    PROVE  LET rtt == Links!Max({Links!RttBetween(f[1], f[2]) : f \in Links!Flows})
           IN  /\ Links!buffer_ms = (Links!HalfRtts * rtt) \div 2
               /\ Links!buffer_ms \in 60..300
               /\ \A f \in Links!Flows : Links!Bottleneck \in Links!PathBetween(f[1], f[2])
  <1> DEFINE rtt == Links!Max({Links!RttBetween(f[1], f[2]) : f \in Links!Flows})
  <1>1. CASE instance # "p2p"
    <2>1. Links!Flows = {<<0, 1>>, <<4, 5>>} /\ Links!Bottleneck = 2
      BY <1>1 DEF Links!Flows, Links!Bottleneck
    <2>2. \A f \in Links!Flows : Links!Bottleneck \in Links!PathBetween(f[1], f[2])
      BY <1>1, <2>1, DumbbellPaths
    <2>3. /\ Links!RttBetween(0, 1) = 2 * (Delay + 10 + Delay)
          /\ Links!RttBetween(4, 5) = 60
          /\ Delay \in {10, 15}
      BY <1>1, Rtts DEF Delay
    <2>4. {Links!RttBetween(f[1], f[2]) : f \in Links!Flows}
                = {Links!RttBetween(0, 1), Links!RttBetween(4, 5)}
      BY <2>1
    <2>10. Links!RttBetween(0, 1) = IF Delay = 15 THEN 80 ELSE 60
      BY <2>3
    <2>5. rtt = IF Delay = 15 THEN 80 ELSE 60
      <3>1. rtt = Links!Max({Links!RttBetween(0, 1), Links!RttBetween(4, 5)})
        BY <2>4
      <3>2. rtt = IF Links!RttBetween(0, 1) >= 60 THEN Links!RttBetween(0, 1) ELSE 60
        <4> DEFINE a == Links!RttBetween(0, 1)
        <4>1. a \in Int /\ rtt = Links!Max({a, 60})
          <5>1. a \in Int
            BY <2>10
          <5>2. Links!RttBetween(4, 5) = 60
            BY <2>3
          <5> QED  BY <3>1, <5>1, <5>2
        <4> HIDE DEF a, rtt
        <4>2. Links!Max({a, 60}) = IF a >= 60 THEN a ELSE 60
          BY <4>1, GreaterOfTwo
        <4> QED  BY <4>1, <4>2 DEF a
      <3> QED  BY <2>10, <3>2
    <2>6. Links!CalMaxRttInDumbbell(Links!Links) = IF Delay = 15 THEN 80 ELSE 60
      <3>1. /\ Links!Links = Links!DumbbellLinks
            /\ Links!DumbbellLinks[1].propagation_ms = Delay
            /\ Links!DumbbellLinks[3].propagation_ms = Delay
            /\ \A l \in {2, 4, 5} : Links!DumbbellLinks[l].propagation_ms = 10
        BY <1>1 DEF Links!Links, Links!DumbbellLinks, Links!Link, Delay
      <3>2. Links!CalMaxRttInDumbbell(Links!Links)
                = Links!Max({2 * (Delay + 10 + Delay), 2 * (10 + 10 + 10)})
        BY <3>1 DEF Links!CalMaxRttInDumbbell
      <3> QED  BY <2>3, <3>2, GreaterOfTwo
    <2>7. Links!HalfRtts \in {2, 3, 4, 6}
      BY <1>1 DEF BuiltInv, Links!Instances, Links!HalfRtts
    <2>8. Links!buffer_ms = (Links!HalfRtts * Links!CalMaxRttInDumbbell(Links!Links)) \div 2
      BY <1>1 DEF Links!buffer_ms
    <2>9. Links!buffer_ms \in {60, 80, 90, 120, 160, 180, 240}
      BY <2>6, <2>7, <2>8
    <2> HIDE DEF rtt
    <2> QED  BY <2>2, <2>5, <2>6, <2>8, <2>9 DEF rtt
  <1>2. CASE instance = "p2p"
    <2>1. Links!Flows = {<<0, 1>>} /\ Links!Bottleneck = 1
      BY <1>2 DEF Links!Flows, Links!Bottleneck
    <2>2. \A f \in Links!Flows : Links!Bottleneck \in Links!PathBetween(f[1], f[2])
      BY <1>2, <2>1, LinkPath
    <2>3. {Links!RttBetween(f[1], f[2]) : f \in Links!Flows} = {200, 200}
      BY <1>2, <2>1, Rtts
    <2>4. rtt = 200
      BY <2>3, GreaterOfTwo
    <2>5. Links!HalfRtts = 3 /\ Links!buffer_ms = 300
      BY <1>2 DEF Links!HalfRtts, Links!buffer_ms
    <2> HIDE DEF rtt
    <2> QED  BY <2>2, <2>4, <2>5 DEF rtt
  <1> QED  BY <1>1, <1>2

LEMMA BottleneckHolds ==
    ASSUME BuiltInv
    PROVE  BottleneckHoldsItsRtts
  <1>1. SUFFICES ASSUME topology # << >>
                 PROVE  BottleneckHoldsItsRtts
    BY DEF BottleneckHoldsItsRtts, Links!BottleneckHoldsItsRtts
  <1> DEFINE link == topology[Links!Bottleneck]
             rtt == Links!Max({Links!RttBetween(f[1], f[2]) : f \in Links!Flows})
             kbit == link.bandwidth * ((Links!HalfRtts * rtt) \div 2)
  <1>2. /\ Links!buffer_ms = (Links!HalfRtts * rtt) \div 2
        /\ Links!buffer_ms \in 60..300
        /\ \A f \in Links!Flows : Links!Bottleneck \in Links!PathBetween(f[1], f[2])
    BY <1>1, BufferOfTheLongest
  <1>3. link.bandwidth \in 1..12 /\ link.packets = Links!Packets(link.bandwidth)
    <2>1. CASE instance = "p2p"
      BY <1>1, <2>1, LinkIsBuilt DEF Links!Bottleneck
    <2>2. CASE instance # "p2p"
      BY <1>1, <2>2, DumbbellIsBuilt DEF Links!Bottleneck
    <2> QED  BY <2>1, <2>2
  <1> HIDE DEF link, rtt
  <1>4. kbit = link.bandwidth * Links!buffer_ms
    BY <1>2
  <1>5. 12 * link.packets <= kbit /\ kbit < 12 * (link.packets + 1)
    BY <1>2, <1>3, <1>4, QueueHoldsIt
  <1> HIDE DEF kbit
  <1> QED
    BY <1>2, <1>5 DEF BottleneckHoldsItsRtts, Links!BottleneckHoldsItsRtts, kbit, link, rtt

-----------------------------------------------------------------------------
(***************************************************************************)
(* The controllers of the flows.                                           *)
(***************************************************************************)

Types == {"kBBR", "kBBRv2", "kCubicBytes", "kRenoBytes", "kCopa", "kVegas"}

\* What a client that asks for a type gets, with the factory.
Asked(type) ==
    Choice!SetSendAlgorithm(type, Choice!SetSendAlgorithm(default, Choice!NoSender))

Senders == {Choice!NoSender} \cup {Asked(type) : type \in Types}

\* The options are checked before the clients are made; a flow has the type its
\* name has, and no sender or the one it asked for.
ChoiceInv ==
    /\ debug \in BOOLEAN
    /\ default \in {"kCubicBytes", "kBBR", "kBBRv2"}
    /\ {Choice!Given("cc1", "cubic"), Choice!Given("cc2", "cubic")}
            \subseteq Choice!Names \cup OtherNames
    /\ cPhase \in {"certificates", "run"} /\ debug =>
        {Choice!Given("cc1", "cubic"), Choice!Given("cc2", "cubic")} \cap OtherNames = {}
    /\ cPhase = "run" =>
        /\ factory = TRUE
        /\ flows \in [DOMAIN Choice!Clients -> [type : Types, sender : Senders]]
    /\ cPhase # "run" => flows = << >>
    /\ \A i \in DOMAIN flows :
        /\ flows[i].type = Choice!GetCongestionType(Choice!Clients[i])
        /\ flows[i].sender \in {Choice!NoSender, Asked(flows[i].type)}

\* The fields of the senders there are.
LEMMA SenderFields ==
    /\ /\ Choice!NoSender.class = "none"
       /\ Choice!NoSender.took = "none"
    /\ \A c : /\ Choice!Sender(c).class = c
              /\ Choice!Sender(c).reno = FALSE
              /\ Choice!Sender(c).took = "none"
    /\ \A b : /\ Choice!Cubic(b).class = "TcpCubicSenderBytes"
              /\ Choice!Cubic(b).reno = b
              /\ Choice!Cubic(b).took = "none"
  <1>1. /\ Choice!NoSender.class = "none"
        /\ Choice!NoSender.took = "none"
    BY DEF Choice!NoSender
  <1>2. ASSUME NEW c
        PROVE  /\ Choice!Sender(c).class = c
               /\ Choice!Sender(c).reno = FALSE
               /\ Choice!Sender(c).took = "none"
    BY DEF Choice!Sender, Choice!NoSender
  <1>3. ASSUME NEW b
        PROVE  /\ Choice!Cubic(b).class = "TcpCubicSenderBytes"
               /\ Choice!Cubic(b).reno = b
               /\ Choice!Cubic(b).took = "none"
    BY DEF Choice!Cubic, Choice!Sender, Choice!NoSender
  <1> QED  BY <1>1, <1>2, <1>3

\* A name of each kind and the type it has.
LEMMA TypesOfNames ==
    /\ Choice!GetCongestionType("bbr") = "kBBR"
    /\ Choice!GetCongestionType("bbrv2") = "kBBRv2"
    /\ Choice!GetCongestionType("copa") = "kCopa"
    /\ Choice!GetCongestionType("vegas") = "kVegas"
    /\ Choice!GetCongestionType("reno") = "kRenoBytes"
    /\ Choice!GetCongestionType("cubic") = "kCubicBytes"
    /\ \A n : n \notin Choice!Names => Choice!GetCongestionType(n) = "kCubicBytes"
  <1>1. Choice!GetCongestionType("bbr") = "kBBR"
    BY DEF Choice!GetCongestionType
  <1>2. Choice!GetCongestionType("bbrv2") = "kBBRv2"
    BY DEF Choice!GetCongestionType
  <1>3. Choice!GetCongestionType("copa") = "kCopa"
    BY DEF Choice!GetCongestionType
  <1>4. Choice!GetCongestionType("vegas") = "kVegas"
    BY DEF Choice!GetCongestionType
  <1>5. Choice!GetCongestionType("reno") = "kRenoBytes"
    BY DEF Choice!GetCongestionType
  <1>6. Choice!GetCongestionType("cubic") = "kCubicBytes"
    BY DEF Choice!GetCongestionType
  <1>7. ASSUME NEW n, n \notin Choice!Names
        PROVE  Choice!GetCongestionType(n) = "kCubicBytes"
    BY <1>7 DEF Choice!GetCongestionType, Choice!Names
  <1> QED  BY <1>1, <1>2, <1>3, <1>4, <1>5, <1>6, <1>7

LEMMA TypesAreTypes ==
    ASSUME NEW n
    PROVE  Choice!GetCongestionType(n) \in Types
  <1>1. CASE n \in Choice!Names
    BY <1>1, TypesOfNames DEF Choice!Names, Types
  <1>2. CASE n \notin Choice!Names
    BY <1>2, TypesOfNames DEF Types
  <1> QED  BY <1>1, <1>2

\* The sender the factory makes of a type, whatever was there.
LEMMA Created ==
    ASSUME NEW old
    PROVE  /\ Choice!Create("kBBR", old) = Choice!Sender("BbrSender")
           /\ Choice!Create("kCubicBytes", old) = Choice!Cubic(FALSE)
           /\ Choice!Create("kRenoBytes", old) = Choice!Cubic(TRUE)
           /\ Choice!Create("kCopa", old) = Choice!Sender("CopaSender")
           /\ Choice!Create("kVegas", old) = Choice!Sender("VegasSender")
           /\ Choice!Create("kBBRv2", old).class = "Bbr2Sender"
           /\ Choice!Create("kBBRv2", old).reno = FALSE
           /\ Choice!Create("kBBRv2", old).took =
                (IF old # Choice!NoSender /\ Choice!TypeOf(old) = "kBBR"
                 THEN old.class ELSE "none")
  <1>1. Choice!Create("kBBR", old) = Choice!Sender("BbrSender")
    BY DEF Choice!Create
  <1>2. Choice!Create("kCubicBytes", old) = Choice!Cubic(FALSE)
    BY DEF Choice!Create
  <1>3. Choice!Create("kRenoBytes", old) = Choice!Cubic(TRUE)
    BY DEF Choice!Create
  <1>4. Choice!Create("kCopa", old) = Choice!Sender("CopaSender")
    BY DEF Choice!Create
  <1>5. Choice!Create("kVegas", old) = Choice!Sender("VegasSender")
    BY DEF Choice!Create
  <1> DEFINE took == IF old # Choice!NoSender /\ Choice!TypeOf(old) = "kBBR"
                     THEN old.class ELSE "none"
  <1>6. Choice!Create("kBBRv2", old) = [Choice!Sender("Bbr2Sender") EXCEPT !.took = took]
    BY DEF Choice!Create
  <1>7. {"class", "reno", "took"} \subseteq DOMAIN Choice!Sender("Bbr2Sender")
    BY DEF Choice!Sender, Choice!NoSender
  <1> HIDE DEF took
  <1>8. /\ Choice!Create("kBBRv2", old).class = "Bbr2Sender"
        /\ Choice!Create("kBBRv2", old).reno = FALSE
        /\ Choice!Create("kBBRv2", old).took = took
    BY <1>6, <1>7, SenderFields
  <1> QED  BY <1>1, <1>2, <1>3, <1>4, <1>5, <1>8 DEF took

\* What a sender says of itself.
LEMMA TypesOfSenders ==
    ASSUME NEW sender
    PROVE  /\ sender.class = "BbrSender" => Choice!TypeOf(sender) = "kBBR"
           /\ sender.class = "Bbr2Sender" => Choice!TypeOf(sender) = "kBBRv2"
           /\ sender.class = "TcpCubicSenderBytes" /\ sender.reno = FALSE =>
                Choice!TypeOf(sender) = "kCubicBytes"
  <1>1. ASSUME sender.class = "BbrSender"
        PROVE  Choice!TypeOf(sender) = "kBBR"
    BY <1>1 DEF Choice!TypeOf
  <1>2. ASSUME sender.class = "Bbr2Sender"
        PROVE  Choice!TypeOf(sender) = "kBBRv2"
    BY <1>2 DEF Choice!TypeOf
  <1>3. ASSUME sender.class = "TcpCubicSenderBytes", sender.reno = FALSE
        PROVE  Choice!TypeOf(sender) = "kCubicBytes"
    BY <1>3 DEF Choice!TypeOf
  <1> QED  BY <1>1, <1>2, <1>3

LEMMA Replaced ==
    ASSUME factory = TRUE, NEW type, NEW old
    PROVE  Choice!SetSendAlgorithm(type, old) =
            (IF old # Choice!NoSender /\ Choice!TypeOf(old) = type
             THEN old ELSE Choice!Create(type, old))
  BY DEF Choice!SetSendAlgorithm

\* The sender a connection comes with.
Begun == Choice!SetSendAlgorithm(default, Choice!NoSender)

LEMMA Beginnings ==
    ASSUME factory = TRUE, default \in {"kCubicBytes", "kBBR", "kBBRv2"}
    PROVE  /\ Begun # Choice!NoSender
           /\ Begun = Choice!Create(default, Choice!NoSender)
           /\ Choice!TypeOf(Begun) = default
           /\ default = "kBBR" => Begun.class = "BbrSender"
           /\ default = "kBBRv2" => Begun.took = "none"
  <1>1. Begun = Choice!Create(default, Choice!NoSender)
    BY Replaced DEF Begun
  <1>2. CASE default = "kCubicBytes"
    <2>1. Begun = Choice!Cubic(FALSE)
      BY <1>1, <1>2, Created
    <2>2. Begun.class = "TcpCubicSenderBytes" /\ Begun.reno = FALSE
      BY <2>1, SenderFields
    <2> QED  BY <1>1, <1>2, <2>2, TypesOfSenders, SenderFields
  <1>3. CASE default = "kBBR"
    <2>1. Begun = Choice!Sender("BbrSender")
      BY <1>1, <1>3, Created
    <2>2. Begun.class = "BbrSender"
      BY <2>1, SenderFields
    <2> QED  BY <1>1, <1>3, <2>2, TypesOfSenders, SenderFields
  <1>4. CASE default = "kBBRv2"
    <2>1. Begun = Choice!Create("kBBRv2", Choice!NoSender)
      BY <1>1, <1>4
    <2>2. Begun.class = "Bbr2Sender" /\ Begun.took = "none"
      BY <2>1, Created
    <2> QED  BY <1>1, <1>4, <2>2, TypesOfSenders, SenderFields
  <1> QED  BY <1>2, <1>3, <1>4

LEMMA AskedSenders ==
    ASSUME factory = TRUE, default \in {"kCubicBytes", "kBBR", "kBBRv2"}
    PROVE  /\ Asked("kCubicBytes") = Choice!Cubic(FALSE)
           /\ Asked("kRenoBytes") = Choice!Cubic(TRUE)
           /\ Asked("kBBR") = Choice!Sender("BbrSender")
           /\ Asked("kCopa") = Choice!Sender("CopaSender")
           /\ Asked("kVegas") = Choice!Sender("VegasSender")
           /\ Asked("kBBRv2").class = "Bbr2Sender"
           /\ Asked("kBBRv2").reno = FALSE
           /\ Asked("kBBRv2").took \in {"none", "BbrSender"}
  <1>1. ASSUME NEW type
        PROVE  Asked(type) = IF default = type THEN Begun ELSE Choice!Create(type, Begun)
    <2>1. Asked(type) = Choice!SetSendAlgorithm(type, Begun)
      BY DEF Asked, Begun
    <2> QED  BY <2>1, Beginnings, Replaced
  <1>2. /\ Asked("kCubicBytes") = Choice!Cubic(FALSE)
        /\ Asked("kBBR") = Choice!Sender("BbrSender")
    BY <1>1, Beginnings, Created
  <1>3. /\ Asked("kRenoBytes") = Choice!Cubic(TRUE)
        /\ Asked("kCopa") = Choice!Sender("CopaSender")
        /\ Asked("kVegas") = Choice!Sender("VegasSender")
    BY <1>1, Created
  <1>4. /\ Asked("kBBRv2").class = "Bbr2Sender"
        /\ Asked("kBBRv2").reno = FALSE
    BY <1>1, Beginnings, Created
  <1>5. CASE default = "kBBRv2"
    BY <1>1, <1>2, <1>3, <1>4, <1>5, Beginnings
  <1>6. CASE default # "kBBRv2"
    <2>1. Asked("kBBRv2") = Choice!Create("kBBRv2", Begun)
      BY <1>1, <1>6
    <2>2. Asked("kBBRv2").took \in {"none", "BbrSender"}
      BY <2>1, Created, Beginnings
    <2> QED  BY <1>2, <1>3, <1>4, <2>2
  <1> QED  BY <1>5, <1>6

-----------------------------------------------------------------------------
LEMMA ChoiceInit ==
    ASSUME Choice!Init
    PROVE  ChoiceInv
  <1>1. PICK given \in SUBSET (Choice!Options \cup OtherOptions) :
            /\ args \in [given -> Choice!Names \cup OtherNames \cup {"dumbbell", "p2p"}]
            /\ \A o \in given : o = "topo" <=> args[o] \in {"dumbbell", "p2p"}
    BY DEF Choice!Init
  <1>2. ASSUME NEW o, o # "topo"
        PROVE  Choice!Given(o, "cubic") \in Choice!Names \cup OtherNames
    BY <1>1, <1>2 DEF Choice!Given, Choice!Names
  <1> QED  BY <1>2 DEF Choice!Init, ChoiceInv

LEMMA ChoiceStutter ==
    ASSUME ChoiceInv, UNCHANGED choiceVars
    PROVE  ChoiceInv'
  <1>1. /\ Choice!Given("cc1", "cubic")' = Choice!Given("cc1", "cubic")
        /\ Choice!Given("cc2", "cubic")' = Choice!Given("cc2", "cubic")
    BY DEF choiceVars, Choice!Given
  <1>2. Choice!Clients' = Choice!Clients
    BY <1>1 DEF choiceVars, Choice!Given, Choice!Clients
  <1>3. \A type : Asked(type)' = Asked(type)
    BY DEF choiceVars, Asked, Choice!SetSendAlgorithm
  <1>4. Senders' = Senders
    BY <1>3 DEF Senders
  <1> QED  BY <1>1, <1>2, <1>3, <1>4 DEF ChoiceInv, choiceVars

LEMMA ChoiceStep ==
    ASSUME ChoiceInv, Choice!Next
    PROVE  ChoiceInv'
  <1>1. UNCHANGED <<args, debug, default>>
    BY DEF Choice!Next, Choice!Parse, Choice!CheckNames, Choice!NoCertificates,
        Choice!Install, Choice!CreateQuicClientSession
  <1>2. /\ Choice!Given("cc1", "cubic")' = Choice!Given("cc1", "cubic")
        /\ Choice!Given("cc2", "cubic")' = Choice!Given("cc2", "cubic")
        /\ Choice!Given("topo", "p2p")' = Choice!Given("topo", "p2p")
    BY <1>1 DEF Choice!Given
  <1>3. Choice!Clients' = Choice!Clients
    BY <1>2 DEF Choice!Clients
  <1> DEFINE cc == {Choice!Given("cc1", "cubic"), Choice!Given("cc2", "cubic")}
  <1>4. cc' = cc
    BY <1>2
  <1>5. /\ debug \in BOOLEAN
        /\ default \in {"kCubicBytes", "kBBR", "kBBRv2"}
        /\ cc \subseteq Choice!Names \cup OtherNames
        /\ cPhase \in {"certificates", "run"} /\ debug => cc \cap OtherNames = {}
    BY DEF ChoiceInv
  <1>6. CASE Choice!Parse \/ Choice!CheckNames \/ Choice!NoCertificates
    <2>1. /\ cPhase # "run" /\ cPhase' # "run"
          /\ flows' = flows
      BY <1>6 DEF Choice!Parse, Choice!CheckNames, Choice!NoCertificates
    <2>2. cPhase' = "certificates" /\ debug => cc \cap OtherNames = {}
      BY <1>6, <1>5 DEF Choice!Parse, Choice!CheckNames, Choice!NoCertificates
    <2>3. flows' = << >>
      BY <2>1 DEF ChoiceInv
    <2> HIDE DEF cc
    <2>4. /\ cc' \subseteq Choice!Names \cup OtherNames
          /\ cPhase' \in {"certificates", "run"} /\ debug' => cc' \cap OtherNames = {}
      BY <1>1, <1>4, <1>5, <2>1, <2>2
    <2> QED  BY <1>1, <1>5, <2>1, <2>3, <2>4 DEF ChoiceInv, cc
  <1>7. CASE Choice!Install
    <2>1. /\ cPhase = "certificates" /\ cPhase' = "run"
          /\ factory' = TRUE
          /\ flows' = [i \in DOMAIN Choice!Clients |->
                [type |-> Choice!GetCongestionType(Choice!Clients[i]),
                 sender |-> Choice!NoSender]]
      BY <1>7 DEF Choice!Install
    <2>2. \A i \in DOMAIN Choice!Clients :
            Choice!GetCongestionType(Choice!Clients[i]) \in Types
      BY TypesAreTypes
    <2>3. Choice!NoSender \in Senders'
      BY DEF Senders, Choice!NoSender
    <2>4. flows' \in [DOMAIN Choice!Clients -> [type : Types, sender : Senders']]
      BY <2>1, <2>2, <2>3
    <2>5. \A i \in DOMAIN flows' :
            /\ flows'[i].type = Choice!GetCongestionType(Choice!Clients[i])
            /\ flows'[i].sender = Choice!NoSender
      BY <2>1
    <2> HIDE DEF cc
    <2>6. /\ cc' \subseteq Choice!Names \cup OtherNames
          /\ debug' => cc' \cap OtherNames = {}
      BY <1>1, <1>4, <1>5, <2>1
    <2> QED  BY <1>1, <1>3, <1>5, <2>1, <2>4, <2>5, <2>6 DEF ChoiceInv, cc
  <1>8. ASSUME NEW i \in DOMAIN flows, Choice!CreateQuicClientSession(i)
        PROVE  ChoiceInv'
    <2>1. /\ cPhase = "run" /\ cPhase' = cPhase
          /\ factory = TRUE /\ factory' = factory
          /\ flows' = [flows EXCEPT ![i].sender =
                Choice!SetSendAlgorithm(flows[i].type,
                    Choice!SetSendAlgorithm(default, Choice!NoSender))]
      BY <1>8 DEF Choice!CreateQuicClientSession, ChoiceInv
    <2>2. flows' = [flows EXCEPT ![i].sender = Asked(flows[i].type)]
      BY <2>1 DEF Asked
    <2>3. \A type : Asked(type)' = Asked(type)
      BY <1>1, <2>1 DEF Asked, Choice!SetSendAlgorithm
    <2>4. Senders' = Senders
      BY <2>3 DEF Senders
    <2>5. flows \in [DOMAIN Choice!Clients -> [type : Types, sender : Senders]]
      BY <2>1 DEF ChoiceInv
    <2>6. flows[i].type \in Types /\ Asked(flows[i].type) \in Senders
      BY <2>5 DEF Senders
    <2>7. /\ flows' \in [DOMAIN Choice!Clients -> [type : Types, sender : Senders]]
          /\ \A j \in DOMAIN flows :
                /\ flows'[j].type = flows[j].type
                /\ flows'[j].sender = (IF j = i THEN Asked(flows[i].type)
                                       ELSE flows[j].sender)
          /\ DOMAIN flows' = DOMAIN flows
      BY <2>2, <2>5, <2>6
    <2>8. \A j \in DOMAIN flows' :
            /\ flows'[j].type = Choice!GetCongestionType(Choice!Clients[j])
            /\ flows'[j].sender \in {Choice!NoSender, Asked(flows'[j].type)}
      BY <2>7 DEF ChoiceInv
    <2> HIDE DEF cc
    <2>9. /\ cc' \subseteq Choice!Names \cup OtherNames
          /\ debug' => cc' \cap OtherNames = {}
      BY <1>1, <1>4, <1>5, <2>1
    <2> QED  BY <1>1, <1>3, <1>5, <2>1, <2>3, <2>4, <2>7, <2>8, <2>9 DEF ChoiceInv, cc
  <1> QED  BY <1>6, <1>7, <1>8 DEF Choice!Next

LEMMA FlowsAreNamed ==
    ASSUME ChoiceInv, Choice!ChoiceAssumption
    PROVE  FlowRunsWhatIsNamed
  <1>1. SUFFICES ASSUME NEW i \in DOMAIN flows, flows[i].sender # Choice!NoSender
                 PROVE  /\ Choice!Clients[i] \in Choice!Names =>
                            <<flows[i].sender.class, flows[i].sender.reno>> =
                                Choice!Named(Choice!Clients[i])
                        /\ Choice!Clients[i] \notin Choice!Names =>
                            ~debug /\ flows[i].sender = Choice!Cubic(FALSE)
                        /\ flows[i].sender.took \in {"none", "BbrSender"}
    BY SenderFields
    DEF FlowRunsWhatIsNamed, Choice!FlowRunsWhatIsNamed, Choice!CastIsOfABbr
  <1> DEFINE name == Choice!Clients[i]
             sender == flows[i].sender
  <1>2. /\ cPhase = "run" /\ factory = TRUE
        /\ default \in {"kCubicBytes", "kBBR", "kBBRv2"}
        /\ i \in DOMAIN Choice!Clients
    BY <1>1 DEF ChoiceInv
  <1>3. sender = Asked(Choice!GetCongestionType(name))
    BY <1>1 DEF ChoiceInv
  <1>4. name \in {Choice!Given("cc1", "cubic"), Choice!Given("cc2", "cubic")}
    BY <1>2 DEF Choice!Clients
  <1>5. name \notin Choice!Names => ~debug
    BY <1>2, <1>4 DEF ChoiceInv
  <1> HIDE DEF name, sender
  <1>6. CASE name = "bbrv2"
    <2>1. /\ sender.class = "Bbr2Sender" /\ sender.reno = FALSE
          /\ sender.took \in {"none", "BbrSender"}
      BY <1>2, <1>3, <1>6, TypesOfNames, AskedSenders
    <2>2. Choice!Named(name) = <<"Bbr2Sender", FALSE>>
      BY <1>6 DEF Choice!Named
    <2> QED  BY <1>6, <2>1, <2>2 DEF name, sender, Choice!Names
  <1>7. CASE name = "bbr"
    <2>1. sender = Choice!Sender("BbrSender")
      BY <1>2, <1>3, <1>7, TypesOfNames, AskedSenders
    <2>2. Choice!Named(name) = <<"BbrSender", FALSE>>
      BY <1>7 DEF Choice!Named
    <2>3. sender.class = "BbrSender" /\ sender.reno = FALSE /\ sender.took = "none"
      BY <2>1, SenderFields
    <2> QED  BY <1>7, <2>2, <2>3 DEF name, sender, Choice!Names
  <1>8. CASE name = "copa"
    <2>1. sender = Choice!Sender("CopaSender")
      BY <1>2, <1>3, <1>8, TypesOfNames, AskedSenders
    <2>2. Choice!Named(name) = <<"CopaSender", FALSE>>
      BY <1>8 DEF Choice!Named
    <2>3. sender.class = "CopaSender" /\ sender.reno = FALSE /\ sender.took = "none"
      BY <2>1, SenderFields
    <2> QED  BY <1>8, <2>2, <2>3 DEF name, sender, Choice!Names
  <1>9. CASE name = "vegas"
    <2>1. sender = Choice!Sender("VegasSender")
      BY <1>2, <1>3, <1>9, TypesOfNames, AskedSenders
    <2>2. Choice!Named(name) = <<"VegasSender", FALSE>>
      BY <1>9 DEF Choice!Named
    <2>3. sender.class = "VegasSender" /\ sender.reno = FALSE /\ sender.took = "none"
      BY <2>1, SenderFields
    <2> QED  BY <1>9, <2>2, <2>3 DEF name, sender, Choice!Names
  <1>10. CASE name = "reno"
    <2>1. sender = Choice!Cubic(TRUE)
      BY <1>2, <1>3, <1>10, TypesOfNames, AskedSenders
    <2>2. Choice!Named(name) = <<"TcpCubicSenderBytes", TRUE>>
      BY <1>10 DEF Choice!Named
    <2>3. sender.class = "TcpCubicSenderBytes" /\ sender.reno = TRUE /\ sender.took = "none"
      BY <2>1, SenderFields
    <2> QED  BY <1>10, <2>2, <2>3 DEF name, sender, Choice!Names
  <1>11. CASE name = "cubic" \/ name \notin Choice!Names
    <2>1. sender = Choice!Cubic(FALSE)
      BY <1>2, <1>3, <1>11, TypesOfNames, AskedSenders
    <2>2. name = "cubic" => Choice!Named(name) = <<"TcpCubicSenderBytes", FALSE>>
      BY DEF Choice!Named
    <2>3. /\ sender.class = "TcpCubicSenderBytes" /\ sender.reno = FALSE
          /\ sender.took = "none"
      BY <2>1, SenderFields
    <2> QED  BY <1>5, <1>11, <2>1, <2>2, <2>3 DEF name, sender
  <1> QED  BY <1>6, <1>7, <1>8, <1>9, <1>10, <1>11 DEF Choice!Names

-----------------------------------------------------------------------------
(***************************************************************************)
(* The folder of the traces.                                               *)
(***************************************************************************)

NameSeqs == Seq(FolderNames \cup {"traces"})

Paths == [names : NameSeqs, slashes : Int]

Calls == [path : Paths, at : {"mkdir", "stat", "again"}]

FolderTyped ==
    /\ << >> \in dirs
    /\ dirs \cap files = {}
    /\ folder \in [Simulations -> Folder!Folders]
    /\ fPhase \in [Simulations -> {"traces", "log", "running", "refused"}]
    /\ stack \in [Simulations -> Seq(Calls)]
    /\ tracePath \in [Simulations -> Paths]

\* The call of MakePath that quic-main made.
OuterPath(s) ==
    IF fPhase[s] = "traces" THEN Folder!TracesPath ELSE Folder!LogPath(s)

\* A path whose parent is there for sure.
Shallow(s) ==
    \/ fPhase[s] = "traces"
    \/ fPhase[s] = "log" /\ Len(folder[s]) = 1

\* What is not a path of the innermost calls is the path quic-main asked for;
\* "traces" is there before "log" begins.  The call for a shallow path makes
\* none for its parent, and looks only at what it has found.
FolderInvOf(s) ==
    /\ fPhase[s] \in {"traces", "log"} =>
        stack[s] # << >> /\ stack[s][1].path = OuterPath(s)
    /\ fPhase[s] \in {"running", "refused"} => stack[s] = << >>
    /\ fPhase[s] \in {"log", "running"} =>
        /\ tracePath[s].names = Folder!LogPath(s).names
        /\ tracePath[s].slashes >= 1
    /\ fPhase[s] = "log" => <<"traces">> \in dirs
    /\ fPhase[s] = "running" => Folder!LogPath(s).names \in dirs
    /\ Shallow(s) =>
        /\ Len(stack[s]) = 1
        /\ stack[s][1].at # "again"
        /\ stack[s][1].at = "stat" => OuterPath(s).names \in dirs \cup files
    /\ fPhase[s] = "refused" /\ Len(folder[s]) = 1 => Folder!Blocked(s)

FolderInv == FolderTyped /\ \A s \in Simulations : FolderInvOf(s)

-----------------------------------------------------------------------------
LEMMA FrontFacts ==
    ASSUME NEW S, NEW q \in Seq(S), q # << >>
    PROVE  /\ Folder!Front(q) \in Seq(S)
           /\ Len(Folder!Front(q)) = Len(q) - 1
           /\ \A i \in 1..Len(q) - 1 : Folder!Front(q)[i] = q[i]
           /\ Folder!Last(q) = q[Len(q)]
           /\ Folder!Last(q) \in S
           /\ Len(q) \in Nat \ {0}
  <1>1. Len(q) \in Nat \ {0}
    BY EmptySeq
  <1>3. /\ SubSeq(q, 1, Len(q) - 1) \in Seq(S)
        /\ Len(SubSeq(q, 1, Len(q) - 1)) = Len(q) - 1
        /\ \A i \in 1..Len(q) - 1 : SubSeq(q, 1, Len(q) - 1)[i] = q[i]
    OBVIOUS
  <1>4. q[Len(q)] \in S
    BY <1>1, ElementOfSeq
  <1>5. Folder!Front(q) = SubSeq(q, 1, Len(q) - 1) /\ Folder!Last(q) = q[Len(q)]
    BY DEF Folder!Front, Folder!Last
  <1> QED  BY <1>1, <1>3, <1>4, <1>5

\* The parent of a path is a path, also of the empty one.
LEMMA ParentIsPath ==
    ASSUME NEW path \in Paths
    PROVE  Folder!Parent(path) \in Paths
  <1>1. Folder!Front(path.names) \in NameSeqs
    <2>1. CASE path.names = << >>
      <3>1. Folder!Front(<< >>) = << >>
        BY SubSeqEmpty, EmptySeq DEF Folder!Front
      <3> QED  BY <2>1, <3>1, EmptySeq DEF NameSeqs
    <2>2. CASE path.names # << >>
      <3>1. path.names \in NameSeqs
        BY DEF Paths
      <3> QED  BY <2>2, <3>1, FrontFacts DEF NameSeqs
    <2> QED  BY <2>1, <2>2
  <1> QED  BY <1>1 DEF Folder!Parent, Folder!Path, Paths

LEMMA LogPathFacts ==
    ASSUME folder \in [Simulations -> Folder!Folders], NEW s \in Simulations
    PROVE  /\ Folder!LogPath(s) \in Paths
           /\ Folder!LogPath(s).names = <<"traces">> \o folder[s]
           /\ Folder!LogPath(s).slashes = 1
           /\ Folder!TracesPath \in Paths
           /\ Folder!TracesPath.names = <<"traces">>
           /\ Len(folder[s]) \in Nat \ {0}
           /\ Len(Folder!LogPath(s).names) = Len(folder[s]) + 1
           /\ Folder!LogPath(s).names[1] = "traces"
  <1>1. PICK n \in 1..MaxDepth : folder[s] \in [1..n -> FolderNames]
    BY DEF Folder!Folders
  <1>2. n \in Nat \ {0}
    BY SimulationAssumption DEF SimulationAssumption, Folder!DepthAssumption
  <1>3. folder[s] \in Seq(FolderNames)
    BY <1>1, <1>2, SeqDef
  <1>4. folder[s] \in NameSeqs /\ <<"traces">> \in NameSeqs
    BY <1>3, SeqMonotonic DEF NameSeqs
  <1>5. Len(folder[s]) = n
    BY <1>1, <1>2, <1>3, LenProperties
  <1>6. Len(<<"traces">>) = 1 /\ <<"traces">>[1] = "traces"
    OBVIOUS
  <1>7. /\ <<"traces">> \o folder[s] \in NameSeqs
        /\ Len(<<"traces">> \o folder[s]) = 1 + n
        /\ (<<"traces">> \o folder[s])[1] = "traces"
    BY <1>2, <1>4, <1>5, <1>6, ConcatProperties DEF NameSeqs
  <1> QED  BY <1>2, <1>4, <1>5, <1>7
           DEF Folder!LogPath, Folder!TracesPath, Folder!Path, Paths

\* The first name of the path of a folder, and of a folder of one name all but
\* the last.
LEMMA FirstName ==
    ASSUME folder \in [Simulations -> Folder!Folders], NEW s \in Simulations
    PROVE  /\ SubSeq(Folder!LogPath(s).names, 1, 1) = <<"traces">>
           /\ Len(folder[s]) = 1 => Folder!Front(Folder!LogPath(s).names) = <<"traces">>
           /\ SubSeq(Folder!LogPath(s).names, 1, Len(Folder!LogPath(s).names)) =
                Folder!LogPath(s).names
           /\ Folder!Front(<<"traces">>) = << >>
           /\ SubSeq(<<"traces">>, 1, 1) = <<"traces">>
  <1> DEFINE q == Folder!LogPath(s).names
  <1>1. /\ q \in NameSeqs /\ q[1] = "traces"
        /\ Len(q) = Len(folder[s]) + 1 /\ Len(folder[s]) \in Nat \ {0}
    <2>1. Folder!LogPath(s) \in Paths
      BY LogPathFacts
    <2>2. q \in NameSeqs
      BY <2>1 DEF Paths
    <2> QED  BY <2>2, LogPathFacts
  <1>2. Len(folder[s]) = 1 => Len(q) = 2
    BY <1>1
  <1> HIDE DEF q
  <1>7. /\ <<"traces">> \in NameSeqs
        /\ Len(<<"traces">>) = 1
        /\ <<"traces">>[1] = "traces"
    BY DEF NameSeqs
  <1>3. SubSeq(q, 1, 1) = <<"traces">>
    <2>1. /\ SubSeq(q, 1, 1) \in NameSeqs
          /\ Len(SubSeq(q, 1, 1)) = 1
          /\ SubSeq(q, 1, 1)[1] = q[1]
      <3>1. q \in Seq(FolderNames \cup {"traces"}) /\ q # << >>
        BY <1>1 DEF NameSeqs
      <3> QED  BY <3>1 DEF NameSeqs
    <2> DEFINE a == SubSeq(q, 1, 1)
               b == <<"traces">>
    <2>2. /\ a \in NameSeqs /\ b \in NameSeqs
          /\ Len(a) = 1 /\ Len(b) = 1
          /\ a[1] = b[1]
      BY <1>1, <1>7, <2>1
    <2> HIDE DEF a, b
    <2>3. Len(a) = Len(b) /\ \A i \in 1..Len(a) : a[i] = b[i]
      BY <2>2
    <2>4. a = b
      BY <2>2, <2>3, SeqEqual DEF NameSeqs
    <2> QED  BY <2>4 DEF a, b
  <1>4. Len(folder[s]) = 1 => Folder!Front(q) = <<"traces">>
    <2>1. Folder!Front(q) = SubSeq(q, 1, Len(q) - 1)
      BY DEF Folder!Front
    <2>2. Len(folder[s]) = 1 => Len(q) - 1 = 1
      BY <1>2
    <2> QED  BY <1>3, <2>1, <2>2
  <1>5. SubSeq(q, 1, Len(q)) = q
    BY <1>1, SubSeqFull DEF NameSeqs
  <1>8. SubSeq(<<"traces">>, 1, 1) = <<"traces">>
    <2>1. SubSeq(<<"traces">>, 1, Len(<<"traces">>)) = <<"traces">>
      BY <1>7, SubSeqFull DEF NameSeqs
    <2> QED  BY <1>7, <2>1
  <1>6. Folder!Front(<<"traces">>) = << >>
    <2>1. Folder!Front(<<"traces">>) = SubSeq(<<"traces">>, 1, 0)
      BY <1>7 DEF Folder!Front
    <2> QED  BY <2>1, SubSeqEmpty
  <1> QED  BY <1>3, <1>4, <1>5, <1>6, <1>8 DEF q

LEMMA ErrnoMeans ==
    ASSUME NEW path
    PROVE  /\ Folder!Errno(path) = "EEXIST" => path.names \in dirs \cup files
           /\ Folder!Errno(path) = "ENOTDIR" =>
                \E i \in 1..Len(path.names) : SubSeq(path.names, 1, i) \in files
           /\ Folder!Errno(path) = "ENOENT" => Folder!Front(path.names) \notin dirs
           /\ Folder!Errno(path) = "done" => path.names \notin dirs \cup files
  <1> DEFINE there == path.names \in dirs \cup files
             under == \E i \in 1..Len(path.names) : SubSeq(path.names, 1, i) \in files
             lost == Folder!Front(path.names) \notin dirs
  <1>1. ASSUME there
        PROVE  Folder!Errno(path) \in {"EEXIST", "ENOTDIR", "ENOENT"}
    BY <1>1 DEF Folder!Errno
  <1>2. ASSUME ~there
        PROVE  Folder!Errno(path) # "EEXIST"
    BY <1>2 DEF Folder!Errno
  <1>3. ASSUME ~under
        PROVE  Folder!Errno(path) # "ENOTDIR"
    BY <1>3 DEF Folder!Errno
  <1>4. ASSUME ~lost
        PROVE  Folder!Errno(path) # "ENOENT"
    BY <1>4 DEF Folder!Errno
  <1> QED  BY <1>1, <1>2, <1>3, <1>4

LEMMA MadeFacts ==
    ASSUME dirs \cap files = {}, NEW path
    PROVE  /\ dirs \subseteq Folder!Made(path)
           /\ Folder!Made(path) \cap files = {}
           /\ Folder!Errno(path) = "done" => path.names \in Folder!Made(path)
           /\ Folder!Errno(path) # "done" => Folder!Made(path) = dirs
  BY ErrnoMeans DEF Folder!Made

LEMMA FolderInit ==
    ASSUME Folder!Init
    PROVE  FolderInv
  <1>1. FolderTyped
    <2>1. << >> \in dirs /\ dirs \cap files = {}
      BY DEF Folder!Init
    <2>2. <<"traces">> \in NameSeqs /\ << >> \in NameSeqs
      BY DEF NameSeqs
    <2>3. Folder!Call(Folder!TracesPath) \in Calls /\ Folder!NoPath \in Paths
      BY <2>2 DEF Folder!Call, Folder!TracesPath, Folder!NoPath, Folder!Path, Calls, Paths
    <2>4. <<Folder!Call(Folder!TracesPath)>> \in Seq(Calls)
      BY <2>3
    <2>5. stack \in [Simulations -> Seq(Calls)]
      BY <2>4 DEF Folder!Init
    <2> QED  BY <2>1, <2>3, <2>5 DEF Folder!Init, FolderTyped
  <1>2. ASSUME NEW s \in Simulations
        PROVE  FolderInvOf(s)
    <2>1. fPhase[s] = "traces" /\ stack[s] = <<Folder!Call(Folder!TracesPath)>>
      BY DEF Folder!Init
    <2>2. /\ Len(stack[s]) = 1 /\ stack[s] # << >>
          /\ stack[s][1].path = Folder!TracesPath
          /\ stack[s][1].at = "mkdir"
      BY <2>1 DEF Folder!Call
    <2> QED  BY <2>1, <2>2 DEF FolderInvOf, OuterPath
  <1> QED  BY <1>1, <1>2 DEF FolderInv

LEMMA PathsStay ==
    ASSUME files' = files, folder' = folder, NEW s
    PROVE  /\ Folder!LogPath(s)' = Folder!LogPath(s)
           /\ Folder!Blocked(s)' <=> Folder!Blocked(s)
  BY DEF Folder!LogPath, Folder!Blocked

\* A simulation that does nothing keeps what it has: directories only come.
LEMMA Unmoved ==
    ASSUME NEW s, FolderInvOf(s), dirs \subseteq dirs', files' = files, folder' = folder,
           fPhase'[s] = fPhase[s], stack'[s] = stack[s], tracePath'[s] = tracePath[s]
    PROVE  FolderInvOf(s)'
  <1>1. OuterPath(s)' = OuterPath(s) /\ (Shallow(s)' <=> Shallow(s))
    BY PathsStay DEF OuterPath, Shallow, Folder!TracesPath
  <1>2. Folder!LogPath(s)' = Folder!LogPath(s) /\ (Folder!Blocked(s)' <=> Folder!Blocked(s))
    BY PathsStay
  <1> QED  BY <1>1, <1>2 DEF FolderInvOf

\* The innermost call of a shallow path is quic-main's.
LEMMA ShallowCall ==
    ASSUME FolderInv, NEW s \in Simulations, stack[s] # << >>
    PROVE  /\ fPhase[s] \in {"traces", "log"}
           /\ Shallow(s) => Folder!Last(stack[s]).path = OuterPath(s)
           /\ Folder!Front(stack[s]) = << >> => Folder!Last(stack[s]).path = OuterPath(s)
           /\ Folder!Front(stack[s]) # << >> => ~Shallow(s)
  <1>1. /\ stack[s] \in Seq(Calls)
        /\ fPhase[s] \in {"traces", "log", "running", "refused"}
        /\ FolderInvOf(s)
    BY DEF FolderInv, FolderTyped
  <1>2. /\ Len(Folder!Front(stack[s])) = Len(stack[s]) - 1
        /\ Folder!Front(stack[s]) \in Seq(Calls)
        /\ Folder!Last(stack[s]) = stack[s][Len(stack[s])]
        /\ Len(stack[s]) \in Nat \ {0}
    BY <1>1, FrontFacts
  <1>3. fPhase[s] \in {"traces", "log"}
    BY <1>1 DEF FolderInvOf
  <1>4. stack[s][1].path = OuterPath(s) /\ (Shallow(s) => Len(stack[s]) = 1)
    BY <1>1, <1>3 DEF FolderInvOf
  <1> DEFINE callers == Folder!Front(stack[s])
  <1>5. callers = << >> <=> Len(stack[s]) = 1
    <2>1. callers \in Seq(Calls) /\ Len(callers) = Len(stack[s]) - 1
      BY <1>2
    <2>2. Len(stack[s]) \in Nat
      BY <1>2
    <2> HIDE DEF callers
    <2>3. callers # << >> => Len(callers) # 0
      BY <2>1, EmptySeq
    <2>4. callers = << >> => Len(callers) = 0
      BY EmptySeq
    <2> QED  BY <2>1, <2>2, <2>3, <2>4
  <1> QED  BY <1>2, <1>3, <1>4, <1>5

-----------------------------------------------------------------------------
(***************************************************************************)
(* A call returns.                                                         *)
(***************************************************************************)
LEMMA Returned ==
    ASSUME FolderInv, NEW s \in Simulations, NEW ok \in BOOLEAN, Folder!Return(s, ok),
           stack[s] # << >>,
           dirs \subseteq dirs', dirs' \cap files = {},
           files' = files, folder' = folder,
           ok => Folder!Last(stack[s]).path.names \in dirs',
           ~ok /\ Shallow(s) => Folder!Blocked(s)
    PROVE  FolderInv'
  <1> DEFINE callers == Folder!Front(stack[s])
  <1>1. /\ stack[s] \in Seq(Calls)
        /\ fPhase[s] \in {"traces", "log"}
        /\ FolderTyped
        /\ FolderInvOf(s)
        /\ Folder!LogPath(s)' = Folder!LogPath(s)
        /\ Folder!Blocked(s)' <=> Folder!Blocked(s)
    BY ShallowCall, PathsStay DEF FolderInv, FolderTyped
  <1>2. /\ callers \in Seq(Calls)
        /\ callers # << >> => callers[1] = stack[s][1]
    <2>1. callers # << >> => Len(callers) >= 1
      BY <1>1, FrontFacts, EmptySeq
    <2> QED  BY <1>1, <2>1, FrontFacts
  <1>3. ASSUME FolderTyped', FolderInvOf(s)',
               \A t \in Simulations \ {s} : /\ fPhase'[t] = fPhase[t]
                                            /\ stack'[t] = stack[t]
                                            /\ tracePath'[t] = tracePath[t]
        PROVE  FolderInv'
    <2>1. ASSUME NEW t \in Simulations \ {s}
          PROVE  FolderInvOf(t)'
      <3>1. FolderInvOf(t)
        BY DEF FolderInv
      <3> QED  BY <1>3, <3>1, Unmoved
    <2> QED  BY <1>3, <2>1 DEF FolderInv
  <1> HIDE DEF callers
  <1>4. CASE /\ ~ok
             /\ stack' = [stack EXCEPT ![s] = << >>]
             /\ fPhase' = [fPhase EXCEPT ![s] = "refused"]
             /\ UNCHANGED tracePath
    <2>1. fPhase'[s] = "refused" /\ stack'[s] = << >>
      BY <1>1, <1>4 DEF FolderTyped
    <2>2. Len(folder[s]) = 1 => Folder!Blocked(s)
      BY <1>1, <1>4 DEF Shallow
    <2>3. FolderInvOf(s)'
      BY <1>1, <2>1, <2>2 DEF FolderInvOf, Shallow
    <2>4. FolderTyped'
      BY <1>1, <1>4, EmptySeq DEF FolderTyped
    <2> QED  BY <1>1, <1>3, <1>4, <2>3, <2>4 DEF FolderTyped
  <1>5. CASE /\ ok
             /\ callers # << >>
             /\ stack' = [stack EXCEPT ![s] = callers]
             /\ UNCHANGED <<fPhase, tracePath>>
    <2>1. fPhase'[s] = fPhase[s] /\ stack'[s] = callers /\ tracePath'[s] = tracePath[s]
      BY <1>1, <1>5 DEF FolderTyped
    <2>2. ~Shallow(s)' /\ OuterPath(s)' = OuterPath(s)
      BY <1>1, <1>5, <2>1, ShallowCall
      DEF callers, Shallow, OuterPath, Folder!TracesPath
    <2>3. FolderInvOf(s)'
      BY <1>1, <1>2, <1>5, <2>1, <2>2 DEF FolderInvOf
    <2>4. FolderTyped'
      BY <1>1, <1>2, <1>5 DEF FolderTyped
    <2> QED  BY <1>1, <1>3, <1>5, <2>3, <2>4 DEF FolderTyped
  <1>6. CASE /\ ok
             /\ callers = << >>
             /\ fPhase[s] = "traces"
             /\ fPhase' = [fPhase EXCEPT ![s] = "log"]
             /\ stack' = [stack EXCEPT ![s] = <<Folder!Call(Folder!LogPath(s))>>]
             /\ Folder!SetTraceFolder(s, Folder!LogPath(s))
    <2>1. PICK more \in {0, 1} :
            tracePath' = [tracePath EXCEPT ![s] =
                Folder!Path(Folder!LogPath(s).names, Folder!LogPath(s).slashes + more)]
      BY <1>6 DEF Folder!SetTraceFolder
    <2>2. /\ Folder!LogPath(s) \in Paths
          /\ Folder!LogPath(s).slashes = 1
      BY <1>1, LogPathFacts DEF FolderTyped
    <2>3. /\ fPhase'[s] = "log"
          /\ stack'[s] = <<Folder!Call(Folder!LogPath(s))>>
          /\ tracePath'[s] = Folder!Path(Folder!LogPath(s).names, 1 + more)
      BY <1>1, <1>6, <2>1, <2>2 DEF FolderTyped
    <2>4. /\ Len(stack'[s]) = 1 /\ stack'[s] # << >>
          /\ stack'[s][1].path = Folder!LogPath(s)
          /\ stack'[s][1].at = "mkdir"
      BY <2>3 DEF Folder!Call
    <2>5. <<"traces">> \in dirs'
      <3>1. Folder!Last(stack[s]).path = Folder!TracesPath
        BY <1>6, ShallowCall DEF callers, OuterPath
      <3> QED  BY <1>6, <3>1 DEF Folder!TracesPath, Folder!Path
    <2>6. OuterPath(s)' = Folder!LogPath(s)
      BY <1>1, <2>3 DEF OuterPath
    <2>7. /\ tracePath'[s].names = Folder!LogPath(s).names
          /\ tracePath'[s].slashes >= 1
      BY <2>3 DEF Folder!Path
    <2>8. FolderInvOf(s)'
      BY <1>1, <2>3, <2>4, <2>5, <2>6, <2>7 DEF FolderInvOf
    <2>9. FolderTyped'
      <3>1. Folder!Call(Folder!LogPath(s)) \in Calls
        BY <2>2 DEF Folder!Call, Calls
      <3>2. <<Folder!Call(Folder!LogPath(s))>> \in Seq(Calls)
        BY <3>1
      <3>3. Folder!Path(Folder!LogPath(s).names, 1 + more) \in Paths
        BY <2>2 DEF Folder!Path, Paths
      <3> QED  BY <1>1, <1>6, <2>1, <2>2, <3>2, <3>3 DEF FolderTyped
    <2> QED  BY <1>1, <1>3, <1>6, <2>1, <2>8, <2>9 DEF FolderTyped
  <1>7. CASE /\ ok
             /\ callers = << >>
             /\ fPhase[s] = "log"
             /\ fPhase' = [fPhase EXCEPT ![s] = "running"]
             /\ stack' = [stack EXCEPT ![s] = << >>]
             /\ UNCHANGED tracePath
    <2>1. fPhase'[s] = "running" /\ stack'[s] = << >> /\ tracePath'[s] = tracePath[s]
      BY <1>1, <1>7 DEF FolderTyped
    <2>2. Folder!LogPath(s).names \in dirs'
      <3>1. Folder!Last(stack[s]).path = Folder!LogPath(s)
        BY <1>7, ShallowCall DEF callers, OuterPath
      <3> QED  BY <1>7, <3>1
    <2>3. FolderInvOf(s)'
      BY <1>1, <1>7, <2>1, <2>2 DEF FolderInvOf, Shallow
    <2>4. FolderTyped'
      BY <1>1, <1>7, EmptySeq DEF FolderTyped
    <2> QED  BY <1>1, <1>3, <1>7, <2>3, <2>4 DEF FolderTyped
  <1> QED  BY <1>4, <1>5, <1>6, <1>7 DEF Folder!Return, callers

-----------------------------------------------------------------------------
(***************************************************************************)
(* The steps of a simulation.                                              *)
(***************************************************************************)

\* The innermost call goes on somewhere else; its caller does not see it.
LEMMA ThenFacts ==
    ASSUME FolderTyped, NEW s \in Simulations, stack[s] # << >>,
           NEW where \in {"mkdir", "stat", "again"}
    PROVE  /\ Folder!Then(s, where) \in Seq(Calls)
           /\ Len(Folder!Then(s, where)) = Len(stack[s])
           /\ Len(stack[s]) \in Nat \ {0}
           /\ Folder!Then(s, where)[1].path = stack[s][1].path
           /\ Len(stack[s]) = 1 => Folder!Then(s, where)[1].at = where
  <1> DEFINE q == stack[s]
             front == Folder!Front(q)
             last == Folder!Last(q)
             next == [last EXCEPT !.at = where]
  <1>1. q \in Seq(Calls) /\ q # << >>
    BY DEF FolderTyped
  <1>2. /\ front \in Seq(Calls)
        /\ Len(front) = Len(q) - 1
        /\ \A i \in 1..Len(q) - 1 : front[i] = q[i]
        /\ last = q[Len(q)]
        /\ last \in Calls
        /\ Len(q) \in Nat \ {0}
    BY <1>1, FrontFacts
  <1>3. next \in Calls /\ next.path = last.path /\ next.at = where
    BY <1>2 DEF Calls
  <1> HIDE DEF q, front, last, next
  <1>4. /\ Append(front, next) \in Seq(Calls)
        /\ Len(Append(front, next)) = Len(front) + 1
        /\ \A i \in 1..Len(front) : Append(front, next)[i] = front[i]
        /\ Append(front, next)[Len(front) + 1] = next
    BY <1>2, <1>3, AppendProperties
  <1>5. Folder!Then(s, where) = Append(front, next)
    BY DEF Folder!Then, q, front, last, next
  <1>6. CASE Len(q) = 1
    <2>1. Append(front, next)[1] = next /\ last = q[1]
      BY <1>2, <1>4, <1>6
    <2> QED  BY <1>2, <1>3, <1>4, <1>5, <2>1 DEF q
  <1>7. CASE Len(q) # 1
    <2>1. 1 \in 1..Len(front) /\ 1 \in 1..Len(q) - 1
      BY <1>2, <1>7
    <2>2. Append(front, next)[1] = q[1]
      BY <1>2, <1>4, <2>1
    <2> QED  BY <1>2, <1>4, <1>5, <1>7, <2>2 DEF q
  <1> QED  BY <1>6, <1>7

\* The stack of one simulation changes, and directories come.
LEMMA Restacked ==
    ASSUME FolderInv, NEW s \in Simulations, stack[s] # << >>,
           NEW calls \in Seq(Calls), stack' = [stack EXCEPT ![s] = calls],
           UNCHANGED <<fPhase, tracePath, files, folder>>,
           dirs \subseteq dirs', dirs' \cap files = {},
           calls # << >>, calls[1].path = stack[s][1].path,
           Shallow(s) => /\ Len(calls) = 1
                         /\ calls[1].at = "stat"
                         /\ OuterPath(s).names \in dirs' \cup files
    PROVE  FolderInv'
  <1>1. FolderTyped /\ FolderInvOf(s) /\ fPhase[s] \in {"traces", "log"}
    BY ShallowCall DEF FolderInv
  <1>2. FolderTyped'
    BY <1>1 DEF FolderTyped
  <1>3. FolderInvOf(s)'
    <2>1. /\ stack'[s] = calls /\ fPhase'[s] = fPhase[s] /\ tracePath'[s] = tracePath[s]
          /\ Folder!LogPath(s)' = Folder!LogPath(s)
          /\ Folder!Blocked(s)' <=> Folder!Blocked(s)
      BY <1>1, PathsStay DEF FolderTyped
    <2>2. OuterPath(s)' = OuterPath(s) /\ (Shallow(s)' <=> Shallow(s))
      BY <2>1 DEF OuterPath, Shallow, Folder!TracesPath
    <2> QED  BY <1>1, <2>1, <2>2 DEF FolderInvOf
  <1>4. ASSUME NEW t \in Simulations \ {s}
        PROVE  FolderInvOf(t)'
    <2>1. FolderInvOf(t) /\ stack'[t] = stack[t]
      BY <1>1 DEF FolderInv, FolderTyped
    <2> QED  BY <2>1, Unmoved
  <1> QED  BY <1>2, <1>3, <1>4 DEF FolderInv

\* The parent of a shallow path is there.
LEMMA ShallowParent ==
    ASSUME FolderInv, NEW s \in Simulations, Shallow(s)
    PROVE  Folder!Front(OuterPath(s).names) \in dirs
  <1>1. FolderTyped /\ FolderInvOf(s)
    BY DEF FolderInv
  <1>2. CASE fPhase[s] = "traces"
    BY <1>1, <1>2, FirstName, LogPathFacts DEF OuterPath, FolderTyped
  <1>3. CASE fPhase[s] = "log" /\ Len(folder[s]) = 1
    <2>1. <<"traces">> \in dirs
      BY <1>1, <1>3 DEF FolderInvOf
    <2> QED  BY <1>1, <1>3, <2>1, FirstName DEF OuterPath, FolderTyped
  <1> QED  BY <1>2, <1>3 DEF Shallow

\* A file on the way to the path quic-main asked for blocks the simulation.
LEMMA OnTheWay ==
    ASSUME FolderInv, NEW s \in Simulations, fPhase[s] \in {"traces", "log"},
           NEW i \in 1..Len(OuterPath(s).names),
           SubSeq(OuterPath(s).names, 1, i) \in files
    PROVE  Folder!Blocked(s)
  <1>1. FolderTyped
    BY DEF FolderInv
  <1>2. CASE fPhase[s] = "traces"
    <2>1. OuterPath(s).names = <<"traces">>
      BY <1>1, <1>2, LogPathFacts DEF OuterPath, FolderTyped
    <2>2. i = 1
      BY <2>1
    <2>3. SubSeq(Folder!LogPath(s).names, 1, 1) \in files
      BY <1>1, <2>1, <2>2, FirstName DEF FolderTyped
    <2>4. 1 \in 1..Len(Folder!LogPath(s).names)
      BY <1>1, LogPathFacts DEF FolderTyped
    <2> QED  BY <2>3, <2>4 DEF Folder!Blocked
  <1>3. CASE fPhase[s] = "log"
    BY <1>3 DEF OuterPath, Folder!Blocked
  <1> QED  BY <1>2, <1>3

\* The path itself is on the way.
LEMMA InTheWay ==
    ASSUME FolderInv, NEW s \in Simulations, fPhase[s] \in {"traces", "log"},
           OuterPath(s).names \in files
    PROVE  Folder!Blocked(s)
  <1> DEFINE q == OuterPath(s).names
  <1>1. FolderTyped
    BY DEF FolderInv
  <1>2. Folder!TracesPath \in Paths /\ Folder!LogPath(s) \in Paths
    BY <1>1, LogPathFacts DEF FolderTyped
  <1>3. q \in NameSeqs
    BY <1>2 DEF OuterPath, Paths
  <1>4. Len(q) \in Nat \ {0}
    <2>1. CASE fPhase[s] = "traces"
      BY <1>1, <2>1, LogPathFacts DEF OuterPath, FolderTyped
    <2>2. CASE fPhase[s] = "log"
      BY <1>1, <2>2, LogPathFacts DEF OuterPath, FolderTyped
    <2> QED  BY <2>1, <2>2
  <1>5. SubSeq(q, 1, Len(q)) = q
    BY <1>3, SubSeqFull DEF NameSeqs
  <1>6. Len(q) \in 1..Len(q)
    BY <1>4
  <1> QED  BY <1>5, <1>6, OnTheWay

LEMMA MkdirStep ==
    ASSUME FolderInv, NEW s \in Simulations, Folder!Mkdir(s)
    PROVE  FolderInv'
  <1> DEFINE path == Folder!Last(stack[s]).path
             errno == Folder!Errno(path)
  <1>1. /\ stack[s] # << >> /\ Folder!Last(stack[s]).at = "mkdir"
        /\ dirs' = Folder!Made(path)
        /\ files' = files /\ folder' = folder
    BY DEF Folder!Mkdir, Folder!In
  <1>2. FolderTyped
    BY DEF FolderInv
  <1>3. /\ dirs \subseteq dirs' /\ dirs' \cap files = {}
        /\ errno = "done" => path.names \in dirs'
        /\ errno # "done" => dirs' = dirs
    BY <1>1, <1>2, MadeFacts DEF FolderTyped
  <1>4. /\ fPhase[s] \in {"traces", "log"}
        /\ Shallow(s) => path = OuterPath(s)
    BY <1>1, ShallowCall
  <1>5. path \in Paths
    <2>1. Folder!Last(stack[s]) \in Calls
      BY <1>1, <1>2, FrontFacts DEF FolderTyped
    <2> QED  BY <2>1 DEF Calls
  <1>6. /\ errno = "EEXIST" => path.names \in dirs \cup files
        /\ errno = "ENOTDIR" => \E i \in 1..Len(path.names) : SubSeq(path.names, 1, i) \in files
        /\ errno = "ENOENT" => Folder!Front(path.names) \notin dirs
    BY ErrnoMeans
  <1>7. CASE errno = "done" /\ Folder!Return(s, TRUE)
    <2>1. TRUE \in BOOLEAN
      OBVIOUS
    <2> QED  BY <1>1, <1>3, <1>7, <2>1, Returned
  <1>8. CASE /\ errno = "ENOENT"
             /\ stack' = [stack EXCEPT ![s] =
                    Append(Folder!Then(s, "again"), Folder!Call(Folder!Parent(path)))]
             /\ UNCHANGED <<fPhase, tracePath>>
    <2> DEFINE then == Folder!Then(s, "again")
               call == Folder!Call(Folder!Parent(path))
               calls == Append(then, call)
    <2>1. ~Shallow(s)
      BY <1>4, <1>6, <1>8, ShallowParent
    <2>2. /\ then \in Seq(Calls) /\ Len(then) \in Nat \ {0}
          /\ then[1].path = stack[s][1].path
      BY <1>1, <1>2, ThenFacts
    <2>3. call \in Calls
      BY <1>5, ParentIsPath DEF Folder!Call, Calls
    <2>4. stack' = [stack EXCEPT ![s] = calls]
      BY <1>8
    <2> HIDE DEF then, call
    <2>5. /\ calls \in Seq(Calls)
          /\ Len(calls) = Len(then) + 1
          /\ calls[1] = then[1]
      BY <2>2, <2>3, AppendProperties
    <2> HIDE DEF calls
    <2>6. calls # << >> /\ calls[1].path = stack[s][1].path
      BY <2>2, <2>5
    <2> QED  BY <1>1, <1>3, <1>8, <2>1, <2>4, <2>5, <2>6, Restacked
  <1>9. CASE /\ errno = "EEXIST"
             /\ stack' = [stack EXCEPT ![s] = Folder!Then(s, "stat")]
             /\ UNCHANGED <<fPhase, tracePath>>
    <2> DEFINE calls == Folder!Then(s, "stat")
    <2>1. /\ calls \in Seq(Calls) /\ Len(calls) = Len(stack[s])
          /\ Len(stack[s]) \in Nat \ {0}
          /\ calls[1].path = stack[s][1].path
          /\ Len(stack[s]) = 1 => calls[1].at = "stat"
      BY <1>1, <1>2, ThenFacts
    <2>2. stack' = [stack EXCEPT ![s] = calls]
      BY <1>9
    <2>3. Shallow(s) => Len(stack[s]) = 1
      BY DEF FolderInv, FolderInvOf
    <2>4. Shallow(s) => OuterPath(s).names \in dirs' \cup files
      BY <1>3, <1>4, <1>6, <1>9
    <2> HIDE DEF calls
    <2>5. calls # << >>
      BY <2>1
    <2> QED  BY <1>1, <1>3, <1>9, <2>1, <2>2, <2>3, <2>4, <2>5, Restacked
  <1>10. CASE errno = "ENOTDIR" /\ Folder!Return(s, FALSE)
    <2>1. Shallow(s) => Folder!Blocked(s)
      BY <1>4, <1>6, <1>10, OnTheWay
    <2>2. FALSE \in BOOLEAN
      OBVIOUS
    <2> QED  BY <1>1, <1>3, <1>10, <2>1, <2>2, Returned
  <1> QED  BY <1>7, <1>8, <1>9, <1>10 DEF Folder!Mkdir

LEMMA AgainStep ==
    ASSUME FolderInv, NEW s \in Simulations, Folder!Again(s)
    PROVE  FolderInv'
  <1> DEFINE path == Folder!Last(stack[s]).path
             ok == Folder!Errno(path) = "done"
  <1>1. /\ stack[s] # << >> /\ Folder!Last(stack[s]).at = "again"
        /\ dirs' = Folder!Made(path)
        /\ Folder!Return(s, ok)
        /\ files' = files /\ folder' = folder
    BY DEF Folder!Again, Folder!In
  <1>2. FolderTyped /\ FolderInvOf(s)
    BY DEF FolderInv
  <1>3. /\ dirs \subseteq dirs' /\ dirs' \cap files = {}
        /\ ok => path.names \in dirs'
    BY <1>1, <1>2, MadeFacts DEF FolderTyped
  <1>4. ~Shallow(s)
    <2>1. Folder!Last(stack[s]) = stack[s][Len(stack[s])]
      BY DEF Folder!Last
    <2> QED  BY <1>1, <1>2, <2>1 DEF FolderInvOf
  <1>5. ok \in BOOLEAN
    OBVIOUS
  <1> HIDE DEF ok
  <1> QED  BY <1>1, <1>3, <1>4, <1>5, Returned

LEMMA StatStep ==
    ASSUME FolderInv, NEW s \in Simulations, Folder!Stat(s)
    PROVE  FolderInv'
  <1> DEFINE path == Folder!Last(stack[s]).path
             ok == path.names \in dirs
  <1>1. /\ stack[s] # << >> /\ Folder!Last(stack[s]).at = "stat"
        /\ Folder!Return(s, ok)
        /\ dirs' = dirs /\ files' = files /\ folder' = folder
    BY DEF Folder!Stat, Folder!In, Folder!IsDirExist
  <1>2. FolderTyped /\ FolderInvOf(s)
    BY DEF FolderInv
  <1>3. dirs' \cap files = {}
    BY <1>1, <1>2 DEF FolderTyped
  <1>4. ASSUME ~ok, Shallow(s)
        PROVE  Folder!Blocked(s)
    <2>1. Folder!Last(stack[s]) = stack[s][Len(stack[s])]
      BY DEF Folder!Last
    <2>2. OuterPath(s).names \in dirs \cup files
      BY <1>1, <1>2, <1>4, <2>1 DEF FolderInvOf
    <2>3. path = OuterPath(s) /\ fPhase[s] \in {"traces", "log"}
      BY <1>1, <1>4, ShallowCall
    <2>4. OuterPath(s).names \in files
      BY <1>4, <2>2, <2>3
    <2> QED  BY <2>3, <2>4, InTheWay
  <1>5. ok \in BOOLEAN
    OBVIOUS
  <1>6. ok => path.names \in dirs'
    BY <1>1
  <1> HIDE DEF ok
  <1> QED  BY <1>1, <1>3, <1>4, <1>5, <1>6, Returned

LEMMA StartAgainStep ==
    ASSUME FolderInv, NEW s \in Simulations, Folder!StartAgain(s)
    PROVE  FolderInv'
  <1>1. /\ fPhase' = [fPhase EXCEPT ![s] = "traces"]
        /\ stack' = [stack EXCEPT ![s] = <<Folder!Call(Folder!TracesPath)>>]
        /\ tracePath' = [tracePath EXCEPT ![s] = Folder!NoPath]
        /\ dirs' = dirs /\ files' = files /\ folder' = folder
    BY DEF Folder!StartAgain
  <1>2. FolderTyped
    BY DEF FolderInv
  <1>3. FolderTyped'
    <2>1. Folder!TracesPath \in Paths
      BY <1>2, LogPathFacts DEF FolderTyped
    <2>2. Folder!Call(Folder!TracesPath) \in Calls
      BY <2>1 DEF Folder!Call, Calls
    <2>3. <<Folder!Call(Folder!TracesPath)>> \in Seq(Calls)
      BY <2>2
    <2>4. Folder!NoPath \in Paths
      BY DEF Folder!NoPath, Folder!Path, Paths, NameSeqs
    <2> QED  BY <1>1, <1>2, <2>3, <2>4 DEF FolderTyped
  <1>4. FolderInvOf(s)'
    <2>1. fPhase'[s] = "traces" /\ stack'[s] = <<Folder!Call(Folder!TracesPath)>>
      BY <1>1, <1>2 DEF FolderTyped
    <2>2. /\ Len(stack'[s]) = 1 /\ stack'[s] # << >>
          /\ stack'[s][1].path = Folder!TracesPath
          /\ stack'[s][1].at = "mkdir"
      BY <2>1 DEF Folder!Call
    <2>3. OuterPath(s)' = Folder!TracesPath
      BY <2>1 DEF OuterPath, Folder!TracesPath
    <2> QED  BY <2>1, <2>2, <2>3 DEF FolderInvOf
  <1>5. ASSUME NEW t \in Simulations \ {s}
        PROVE  FolderInvOf(t)'
    <2>1. /\ FolderInvOf(t)
          /\ fPhase'[t] = fPhase[t] /\ stack'[t] = stack[t] /\ tracePath'[t] = tracePath[t]
      BY <1>1, <1>2 DEF FolderInv, FolderTyped
    <2> QED  BY <1>1, <2>1, Unmoved
  <1> QED  BY <1>3, <1>4, <1>5 DEF FolderInv

LEMMA FolderStutter ==
    ASSUME FolderInv, UNCHANGED folderVars
    PROVE  FolderInv'
  <1>1. FolderTyped'
    BY DEF FolderInv, FolderTyped, folderVars
  <1>2. ASSUME NEW s \in Simulations
        PROVE  FolderInvOf(s)'
    BY Unmoved DEF FolderInv, folderVars
  <1> QED  BY <1>1, <1>2 DEF FolderInv

LEMMA FolderKeeps ==
    ASSUME FolderInv
    PROVE  RunningHasItsFolder
  <1>1. \A s \in Simulations : FolderInvOf(s)
    BY DEF FolderInv
  <1> QED  BY <1>1
           DEF FolderInvOf, RunningHasItsFolder, Folder!RunningHasItsFolder,
               Folder!OneNameIsNeverRefused

-----------------------------------------------------------------------------
(***************************************************************************)
(* The whole of it.                                                        *)
(***************************************************************************)
IInv == LinksInv /\ BuiltInv /\ FolderInv /\ ChoiceInv

\* The inductive invariant of the simulation program: its links, the topology it
\* builds, the trace folder and the choice of a controller.
THEOREM Invariant == Spec => []IInv
  <1>1. Init => IInv
    BY LinksInit, BuiltInit, FolderInit, ChoiceInit DEF Init, IInv
  <1>2. IInv /\ [Next]_vars => IInv'
    <2>1. SUFFICES ASSUME IInv, [Next]_vars
                   PROVE  IInv'
      OBVIOUS
    <2>2. LinksInv /\ BuiltInv /\ FolderInv /\ ChoiceInv /\ Horizon \in Nat
      BY <2>1, SimulationAssumption DEF IInv, SimulationAssumption, Links!HorizonAssumption
    <2>3. CASE Links!Next /\ UNCHANGED <<subject, folderVars, choiceVars>>
      BY <2>2, <2>3, LinksStep, BuiltStays, FolderStutter, ChoiceStutter DEF IInv
    <2>4. ASSUME NEW s \in Simulations, FolderStep(s)
          PROVE  IInv'
      <3>1. Folder!Step(s) /\ UNCHANGED <<subject, topologyVars, choiceVars>>
        BY <2>4 DEF FolderStep
      <3>2. FolderInv'
        BY <2>2, <3>1, MkdirStep, AgainStep, StatStep, StartAgainStep DEF Folder!Step
      <3> QED  BY <2>2, <3>1, <3>2, LinksStutter, BuiltStays, ChoiceStutter DEF IInv
    <2>5. CASE Choice!Next /\ UNCHANGED <<subject, topologyVars, folderVars>>
      BY <2>2, <2>5, LinksStutter, BuiltStays, FolderStutter, ChoiceStep DEF IInv
    <2>6. CASE UNCHANGED vars
      BY <2>2, <2>6, LinksStutter, BuiltStays, FolderStutter, ChoiceStutter DEF IInv, vars
    <2> QED  BY <2>1, <2>3, <2>4, <2>5, <2>6 DEF Next
  <1> QED  BY <1>1, <1>2, PTL DEF Spec

\* UtilisationIsNear: the report of CalculateUtil, whenever the simulation
\* ends and whatever the bottleneck has carried.
THEOREM ReportStaysNear == Spec => []UtilisationIsNear
  <1>1. IInv => UtilisationIsNear
    BY ReportIsNear, SimulationAssumption
    DEF IInv, SimulationAssumption, Links!HorizonAssumption
  <1> QED  BY <1>1, Invariant, PTL

\* BottleneckHoldsItsRtts: BuildDumbbellTopo and BuildP2PTopo, in every instance;
\* 32 bits are enough for the bottleneck's product.
THEOREM BufferIsAsked == Spec => []BottleneckHoldsItsRtts
  <1>1. IInv => BottleneckHoldsItsRtts
    BY BottleneckHolds DEF IInv
  <1> QED  BY <1>1, Invariant, PTL

\* RunningHasItsFolder: any number of simulations call MakePath in one directory,
\* for folders of any depth, and a folder of one name is made by all of them.
THEOREM FoldersAreMade == Spec => []RunningHasItsFolder
  <1>1. IInv => RunningHasItsFolder
    BY FolderKeeps DEF IInv
  <1> QED  BY <1>1, Invariant, PTL

\* FlowRunsWhatIsNamed: from --cc1 and --cc2 to the sender that the factory makes
\* in the place of quiche's, whatever other names and options there are.
THEOREM FlowsRunWhatIsNamed == Spec => []FlowRunsWhatIsNamed
  <1>1. IInv => FlowRunsWhatIsNamed
    BY FlowsAreNamed, SimulationAssumption DEF IInv, SimulationAssumption
  <1> QED  BY <1>1, Invariant, PTL
=============================================================================
