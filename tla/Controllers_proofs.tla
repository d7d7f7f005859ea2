------------------------ MODULE Controllers_proofs ------------------------
(***************************************************************************)
(* Proofs about the congestion controllers, for any segment, any windows,  *)
(* any clock and any number of packets: the floors of the windows, what a  *)
(* controller remembers of a cut, how much one event can take, the samples *)
(* of Vegas, the velocity of Copa and the running sum of CDG.              *)
(***************************************************************************)
EXTENDS Controllers, Sequences, Recursion

-----------------------------------------------------------------------------
(***************************************************************************)
(* Copa.                                                                   *)
(***************************************************************************)

LEMMA CopaConstants ==
    /\ CopaMSS \in Nat \ {0} /\ VelocityBits \in Nat \ {0} /\ Second \in Nat \ {0}
    /\ CopaInitialPackets \in Nat /\ CopaInitialPackets >= 4
    /\ MinRtt \in Nat \ {0} /\ MaxRtt \in Nat /\ MinRtt <= MaxRtt
    /\ MaxAcked \in Nat /\ WindowBound \in Nat /\ CopaHorizon \in Nat
BY ControllersAssumption DEF Copa!CopaAssumption

\* The powers of two double.
LEMMA Power2Doubles ==
    /\ Copa!Power2[0] = 1
    /\ \A n \in Nat : Copa!Power2[n + 1] = 2 * Copa!Power2[n]
    /\ \A n \in Nat : Copa!Power2[n] \in Nat \ {0}
<1> DEFINE Body(g) == [n \in Nat |-> IF n = 0 THEN 1 ELSE 2 * g[n - 1]]
           step == [x \in Nat \X Nat |-> 2 * x[2]]
<1>1. \E f : f = Body(f)
  <2>1. step \in [Nat \X Nat -> Nat]
        OBVIOUS
  <2> HIDE DEF step
  <2>2. PICK f : Recurs(f, Nat, 1, step)
    <3>1. 1 \in Nat
          OBVIOUS
    <3> QED BY <2>1, <3>1, Recursion
  <2> USE DEF step, Recurs
  <2>3. ASSUME NEW n \in Nat
        PROVE  f[n] = Body(f)[n]
    <3>1. CASE n = 0
          BY <2>2, <3>1
    <3>2. CASE n # 0
      <4>1. n - 1 \in Nat /\ (n - 1) + 1 = n
            BY <3>2
      <4>2. f[(n - 1) + 1] = 2 * f[n - 1]
            BY <2>2, <4>1
      <4> QED BY <3>2, <4>1, <4>2
    <3> QED BY <3>1, <3>2
  <2>4. f = Body(f)
        BY <2>2, <2>3
  <2> QED BY <2>4
<1>2. Copa!Power2 = Body(Copa!Power2)
      BY <1>1 DEF Copa!Power2
<1>3. \A n \in Nat : Copa!Power2[n] = IF n = 0 THEN 1 ELSE 2 * Copa!Power2[n - 1]
      BY <1>2
<1>4. Copa!Power2[0] = 1
      BY <1>3
<1>5. \A n \in Nat : Copa!Power2[n + 1] = 2 * Copa!Power2[n]
      BY <1>3
<1> DEFINE P == {n \in Nat : Copa!Power2[n] \in Nat \ {0}}
<1>6. 0 \in P
      BY <1>4
<1>7. ASSUME NEW n \in Nat, n \in P
      PROVE  n + 1 \in P
      BY <1>5, <1>7
<1> HIDE DEF P
<1>8. \A n \in Nat : n \in P
      BY <1>6, <1>7, SetInduction
<1> QED BY <1>4, <1>5, <1>8 DEF P

\* A product of natural numbers is one.
LEMMA ProductIsNatural ==
    ASSUME NEW a \in Nat, NEW b \in Nat
    PROVE  a * b \in Nat
OBVIOUS

LEMMA ProductIsPositive ==
    ASSUME NEW a \in Nat \ {0}, NEW b \in Nat \ {0}
    PROVE  a * b \in Nat \ {0}
OBVIOUS

LEMMA DivisionIsNatural ==
    ASSUME NEW a \in Nat, NEW b \in Nat \ {0}
    PROVE  a \div b \in Nat
OBVIOUS

\* Quotient and remainder are unique.
LEMMA RemainderIsUnique ==
    ASSUME NEW m \in Nat \ {0}, NEW k \in Nat, NEW t \in Nat, t < m
    PROVE  (m * k + t) % m = t
<1> DEFINE a == m * k + t
           q == a \div m
           r == a % m
           d == q - k
<1>1. a \in Nat
      BY ProductIsNatural
<1> HIDE DEF a
<1>2. q \in Nat /\ r \in Nat /\ r < m /\ a = m * q + r
      BY <1>1
<1> HIDE DEF q, r
<1>3. d \in Int /\ m * d = m * q - m * k
      BY <1>2
<1>4. m * k \in Int /\ m * q \in Int
      BY <1>2
<1>5. m * d = t - r
      BY <1>2, <1>3, <1>4 DEF a
<1>6. m * d < m /\ m * d > 0 - m
      BY <1>2, <1>5
<1> HIDE DEF d
<1>7. ASSUME d >= 1
      PROVE  FALSE
  <2>1. m * (d - 1) \in Nat /\ m * (d - 1) = m * d - m
        BY <1>3, <1>7
  <2> QED BY <1>2, <1>5, <1>6, <2>1
<1>8. ASSUME d <= 0 - 1
      PROVE  FALSE
  <2>1. m * (0 - d - 1) \in Nat /\ m * (0 - d - 1) = 0 - m * d - m
        BY <1>3, <1>8
  <2> QED BY <1>2, <1>5, <1>6, <2>1
<1>9. d = 0
      BY <1>3, <1>7, <1>8
<1> QED BY <1>2, <1>5, <1>9 DEF r, a

\* Doubling what has been wrapped is wrapping the double.
LEMMA WrapDoubles ==
    ASSUME NEW m \in Nat \ {0}, NEW a \in Nat
    PROVE  (2 * (a % m)) % m = (2 * a) % m
<1> DEFINE q == a \div m
           r == a % m
           k == (2 * r) \div m
           t == (2 * r) % m
<1>1. q \in Nat /\ r \in Nat /\ r < m /\ a = m * q + r
      OBVIOUS
<1>2. k \in Nat /\ t \in Nat /\ t < m /\ 2 * r = m * k + t
      BY <1>1
<1> HIDE DEF q, r, k, t
<1>3. 2 * a = m * (2 * q + k) + t
      BY <1>1, <1>2
<1>4. 2 * q + k \in Nat
      BY <1>1, <1>2
<1>5. (m * (2 * q + k) + t) % m = t
      BY <1>2, <1>4, RemainderIsUnique
<1> QED BY <1>3, <1>5 DEF t, r

\* What the wrapped powers of two are: below the first that does not fit, and
\* each the double of the one before.
LEMMA WrapFacts ==
    /\ Copa!Wrap(1) = 1
    /\ 1 < Copa!Power2[VelocityBits]
    /\ \A v \in Nat : Copa!Wrap(v) \in 0..Copa!Power2[VelocityBits] - 1
    /\ \A n \in Nat : Copa!Wrap(2 * Copa!Wrap(Copa!Power2[n])) = Copa!Wrap(Copa!Power2[n + 1])
<1> DEFINE M == Copa!Power2[VelocityBits]
<1>1. M \in Nat \ {0} /\ M > 1
  <2>1. VelocityBits - 1 \in Nat /\ (VelocityBits - 1) + 1 = VelocityBits
        BY CopaConstants
  <2>2. Copa!Power2[VelocityBits - 1] \in Nat \ {0}
        BY <2>1, Power2Doubles
  <2>3. Copa!Power2[(VelocityBits - 1) + 1] = 2 * Copa!Power2[VelocityBits - 1]
        BY <2>1, Power2Doubles
  <2> QED BY <2>1, <2>2, <2>3
<1>2. ASSUME NEW n \in Nat
      PROVE  Copa!Wrap(2 * Copa!Wrap(Copa!Power2[n])) = Copa!Wrap(Copa!Power2[n + 1])
  <2>1. Copa!Power2[n] \in Nat /\ Copa!Power2[n + 1] = 2 * Copa!Power2[n]
        BY Power2Doubles
  <2>2. (2 * (Copa!Power2[n] % M)) % M = (2 * Copa!Power2[n]) % M
        BY <1>1, <2>1, WrapDoubles
  <2> QED BY <2>1, <2>2 DEF Copa!Wrap
<1>3. ASSUME NEW v \in Nat
      PROVE  Copa!Wrap(v) \in 0..M - 1
  <2>1. \A m \in Nat \ {0} : v % m \in 0..m - 1
        OBVIOUS
  <2> QED BY <1>1, <2>1 DEF Copa!Wrap
<1>4. Copa!Wrap(1) = 1
  <2>1. \A m \in Nat : m > 1 => 1 % m = 1
        OBVIOUS
  <2> QED BY <1>1, <2>1 DEF Copa!Wrap
<1> QED BY <1>1, <1>2, <1>3, <1>4

\* The velocity the count of RTTs in one direction stands for.
VelocityOf(same) == IF same < 3 THEN 1 ELSE Copa!Wrap(Copa!Power2[same - 2])

\* One more RTT in a direction.
LEMMA VelocityGoesOn ==
    ASSUME NEW same \in Nat
    PROVE  /\ VelocityOf(same) \in 0..Copa!Power2[VelocityBits] - 1
           /\ VelocityOf(same + 1) = IF same + 1 >= 3 THEN Copa!Wrap(2 * VelocityOf(same))
                                     ELSE VelocityOf(same)
<1>1. 1 \in 0..Copa!Power2[VelocityBits] - 1
  <2>1. Copa!Power2[VelocityBits] \in Nat
        BY CopaConstants, Power2Doubles
  <2> QED BY <2>1, WrapFacts
<1>2. CASE same < 2
      BY <1>1, <1>2 DEF VelocityOf
<1>3. CASE same = 2
  <2>1. Copa!Power2[0 + 1] = 2 * Copa!Power2[0] /\ Copa!Power2[0] = 1
        BY Power2Doubles
  <2>2. VelocityOf(same + 1) = Copa!Wrap(2)
        BY <1>3, <2>1 DEF VelocityOf
  <2>3. VelocityOf(same) = 1
        BY <1>3 DEF VelocityOf
  <2> QED BY <1>1, <1>3, <2>2, <2>3
<1>4. CASE same > 2
  <2> DEFINE n == same - 2
  <2>1. n \in Nat /\ n + 1 = same - 1
        BY <1>4
  <2>2. VelocityOf(same) = Copa!Wrap(Copa!Power2[n])
        BY <1>4 DEF VelocityOf
  <2>3. VelocityOf(same + 1) = Copa!Wrap(Copa!Power2[n + 1])
    <3>1. (same + 1) - 2 = n + 1 /\ ~ (same + 1 < 3)
          BY <1>4
    <3> QED BY <3>1 DEF VelocityOf
  <2>4. Copa!Power2[n] \in Nat
        BY <2>1, Power2Doubles
  <2> HIDE DEF n
  <2>5. Copa!Wrap(2 * Copa!Wrap(Copa!Power2[n])) = Copa!Wrap(Copa!Power2[n + 1])
        BY <2>1, WrapFacts
  <2>6. Copa!Wrap(Copa!Power2[n]) \in 0..Copa!Power2[VelocityBits] - 1
        BY <2>4, WrapFacts
  <2> QED BY <1>4, <2>2, <2>3, <2>5, <2>6
<1> QED BY <1>2, <1>3, <1>4

Directions == {"None", "Up", "Down"}

VelocityTypes ==
    [velocity : 0..Copa!Power2[VelocityBits] - 1, direction : Directions, same : Nat,
     cwnd : Nat, time : 0..pNow]

VelocityOK(v) ==
    /\ v \in VelocityTypes
    /\ v.velocity = VelocityOf(v.same)
    /\ v.time = 0 => v.direction = "None"

\* The look that is taken once per RTT.
LEMMA LookKeepsVelocity ==
    ASSUME NEW v, VelocityOK(v), NEW srtt \in Nat, pWindow \in Nat, pNow \in Nat \ {0}
    PROVE  VelocityOK(Copa!CheckAndUpdateDirection(v, srtt))
<1> DEFINE newDirection == IF pWindow > v.cwnd THEN "Up" ELSE "Down"
           turned == newDirection # v.direction
           run == IF turned THEN 0 ELSE v.same + 1
           speed == IF turned THEN 1
                    ELSE IF run >= 3 THEN Copa!Wrap(2 * v.velocity) ELSE v.velocity
           looked == [velocity |-> speed, direction |-> newDirection, same |-> run,
                      cwnd |-> pWindow, time |-> pNow]
           noted == [v EXCEPT !.cwnd = pWindow, !.time = pNow]
<1>1. v \in VelocityTypes /\ v.velocity = VelocityOf(v.same) /\ v.same \in Nat
      BY DEF VelocityOK, VelocityTypes
<1>2. pNow \in 0..pNow /\ newDirection \in Directions
      BY DEF Directions
<1>3. VelocityOK(noted)
      BY <1>1, <1>2 DEF VelocityOK, VelocityTypes
<1>4. run \in Nat /\ speed = VelocityOf(run)
  <2>1. VelocityOf(0) = 1
        BY DEF VelocityOf
  <2>2. VelocityOf(v.same + 1) = IF v.same + 1 >= 3 THEN Copa!Wrap(2 * VelocityOf(v.same))
                                 ELSE VelocityOf(v.same)
        BY <1>1, VelocityGoesOn
  <2> QED BY <1>1, <2>1, <2>2
<1>5. VelocityOf(run) \in 0..Copa!Power2[VelocityBits] - 1
      BY <1>4, VelocityGoesOn
<1>6. VelocityOK(looked)
  <2> HIDE DEF run, speed, newDirection
  <2>1. looked \in VelocityTypes
        BY <1>2, <1>4, <1>5 DEF VelocityTypes
  <2> QED BY <1>4, <2>1 DEF VelocityOK
<1>7. Copa!CheckAndUpdateDirection(v, srtt) =
        IF v.time = 0 THEN noted ELSE IF pNow - v.time < srtt THEN v ELSE looked
      BY DEF Copa!CheckAndUpdateDirection
<1> HIDE DEF noted, looked
<1> QED BY <1>3, <1>6, <1>7

\* A sudden change of direction starts the velocity again.
LEMMA TurnKeepsVelocity ==
    ASSUME NEW v, VelocityOK(v), NEW d \in Directions, pWindow \in Nat, pNow \in Nat \ {0}
    PROVE  /\ VelocityOK(Copa!Turn(v, d))
           /\ Copa!Turn(v, d).velocity > 1 => Copa!Turn(v, d).direction = d
<1> DEFINE turned == [velocity |-> 1, direction |-> d, same |-> 0,
                      cwnd |-> pWindow, time |-> pNow]
<1>1. VelocityOK(turned)
  <2>1. VelocityOf(0) = 1 /\ 1 \in 0..Copa!Power2[VelocityBits] - 1
    <3>1. VelocityOf(0) = 1
          BY DEF VelocityOf
    <3> QED BY <3>1, VelocityGoesOn
  <2>2. turned \in VelocityTypes
        BY <2>1 DEF VelocityTypes
  <2> QED BY <2>1, <2>2 DEF VelocityOK
<1>2. Copa!Turn(v, d) = IF v.direction # d /\ v.velocity > 1 THEN turned ELSE v
      BY DEF Copa!Turn, Copa!ChangeDirection
<1> QED BY <1>1, <1>2

\* Slow start has doubled k times: each time an RTT after the time before, the
\* first time an RTT after lastCwndDoubleTime was set.
DoubledTimes(k) ==
    /\ pWindow = CopaInitialPackets * CopaMSS * Copa!Power2[k]
    /\ IF pDoubled = 0 THEN k = 0 ELSE k * (MinRtt + 1) < pDoubled

CopaTyping ==
    /\ pWindow \in Nat /\ pWindow >= Copa!MinWindow
    /\ pSlowStart \in BOOLEAN
    /\ pDoubled \in 0..pNow
    /\ pRecovering \in BOOLEAN
    /\ pNow \in 1..CopaHorizon \cup {1}

CopaInv ==
    /\ CopaTyping
    /\ VelocityOK(Copa!VelocityState)
    /\ pSlowStart => \E k \in Nat : DoubledTimes(k)

LEMMA CopaInvImplies ==
    ASSUME CopaInv
    PROVE  Copa!TypeOK /\ Copa!VelocityCountsRtts /\ Copa!SlowStartPace
<1>1. pNow \in Nat /\ pNow >= 1 /\ pDoubled \in 0..pNow
      BY CopaConstants DEF CopaInv, CopaTyping
<1>2. Copa!TypeOK
  <2>1. VelocityOK(Copa!VelocityState)
        BY DEF CopaInv
  <2>2. /\ pVelocity \in 0..Copa!Power2[VelocityBits] - 1 /\ pDirection \in Directions
        /\ pSame \in Nat /\ pRecordedCwnd \in Nat /\ pRecordedTime \in 0..pNow
        /\ pRecordedTime = 0 => pDirection = "None"
        BY <2>1 DEF VelocityOK, VelocityTypes, Copa!VelocityState
  <2> QED BY <2>2 DEF CopaInv, CopaTyping, Copa!TypeOK, Directions
<1>3. Copa!VelocityCountsRtts
      BY DEF CopaInv, VelocityOK, VelocityOf, Copa!VelocityState, Copa!VelocityCountsRtts
<1>4. ASSUME pSlowStart
      PROVE  \E k \in 0..pNow : /\ pWindow = CopaInitialPackets * CopaMSS * Copa!Power2[k]
                                /\ k * (MinRtt + 1) < pNow
  <2>1. PICK k \in Nat : DoubledTimes(k)
        BY <1>4 DEF CopaInv
  <2>2. k * (MinRtt + 1) < pNow
    <3>1. CASE pDoubled = 0
      <4>1. k = 0
            BY <2>1, <3>1 DEF DoubledTimes
      <4>2. 0 * (MinRtt + 1) = 0
            BY CopaConstants
      <4> QED BY <1>1, <4>1, <4>2
    <3>2. CASE pDoubled # 0
      <4>1. k * (MinRtt + 1) < pDoubled
            BY <2>1, <3>2 DEF DoubledTimes
      <4>2. k * (MinRtt + 1) \in Nat
            BY CopaConstants, ProductIsNatural
      <4> QED BY <1>1, <4>1, <4>2
    <3> QED BY <3>1, <3>2
  <2>3. k <= k * (MinRtt + 1)
    <3>1. k * MinRtt \in Nat /\ k * (MinRtt + 1) = k * MinRtt + k
          BY CopaConstants
    <3> QED BY <3>1
  <2>4. k \in 0..pNow
    <3>1. k * (MinRtt + 1) \in Nat
          BY CopaConstants, ProductIsNatural
    <3> QED BY <1>1, <2>2, <2>3, <3>1
  <2> QED BY <2>1, <2>2, <2>4 DEF DoubledTimes
<1> QED BY <1>2, <1>3, <1>4 DEF Copa!SlowStartPace

LEMMA CopaStarts ==
    Copa!Init => CopaInv
<1> SUFFICES ASSUME Copa!Init
             PROVE  CopaInv
    OBVIOUS
<1>1. Copa!Power2[0] = 1
      BY Power2Doubles
<1>2. /\ CopaInitialPackets * CopaMSS \in Nat
      /\ CopaInitialPackets * CopaMSS >= 4 * CopaMSS
      /\ CopaInitialPackets * CopaMSS * 1 = CopaInitialPackets * CopaMSS
  <2>1. (CopaInitialPackets - 4) * CopaMSS \in Nat
        BY CopaConstants, ProductIsNatural
  <2>2. (CopaInitialPackets - 4) * CopaMSS = CopaInitialPackets * CopaMSS - 4 * CopaMSS
        BY CopaConstants
  <2>3. CopaInitialPackets * CopaMSS \in Nat /\ 4 * CopaMSS \in Nat
        BY CopaConstants
  <2> QED BY <2>1, <2>2, <2>3
<1>3. CopaTyping
  <2>1. pSlowStart \in BOOLEAN /\ pRecovering \in BOOLEAN
        BY DEF Copa!Init
  <2>2. pWindow \in Nat /\ pWindow >= Copa!MinWindow
        BY <1>2 DEF Copa!Init, Copa!MinWindow
  <2>3. pDoubled \in 0..pNow /\ pNow \in 1..CopaHorizon \cup {1}
        BY DEF Copa!Init
  <2> QED BY <2>1, <2>2, <2>3 DEF CopaTyping
<1>4. VelocityOK(Copa!VelocityState)
  <2>1. VelocityOf(0) = 1
        BY DEF VelocityOf
  <2>2. 1 \in 0..Copa!Power2[VelocityBits] - 1
        BY <2>1, VelocityGoesOn
  <2> QED BY <2>1, <2>2
          DEF Copa!Init, Copa!VelocityState, VelocityOK, VelocityTypes, Directions
<1>5. DoubledTimes(0)
      BY <1>1, <1>2 DEF Copa!Init, DoubledTimes
<1> QED BY <1>3, <1>4, <1>5 DEF CopaInv

\* What OnPacketAcked does to the window, in the terms of the next state.
CopaMoves ==
    /\ pWindow' \in Nat /\ pWindow' >= Copa!MinWindow
    /\ pSlowStart' \in BOOLEAN
    /\ pDoubled' \in 0..pNow
    /\ VelocityOK(Copa!VelocityState)'
    /\ pSlowStart' => \E k \in Nat : DoubledTimes(k)'
    /\ pVelocity' > 1 =>
        /\ pWindow' > pWindow /\ ~pSlowStart => pDirection' = "Up"
        /\ pWindow' < pWindow => pDirection' = "Down"

LEMMA WindowDoubles ==
    ASSUME CopaInv, NEW srtt \in Copa!Rtts, Copa!DoubleWindow(srtt), pNow' = pNow
    PROVE  CopaMoves
<1>1. /\ pNow \in Nat /\ pNow >= 1 /\ pDoubled \in 0..pNow /\ pWindow \in Nat
      /\ pWindow >= Copa!MinWindow /\ Copa!MinWindow \in Nat /\ srtt \in Nat /\ srtt >= MinRtt
      BY CopaConstants DEF CopaInv, CopaTyping, Copa!Rtts, Copa!MinWindow
<1> DEFINE due == pDoubled # 0 /\ pNow - pDoubled > srtt
<1>2. /\ pSlowStart
      /\ pDoubled' = IF pDoubled = 0 \/ due THEN pNow ELSE pDoubled
      /\ pWindow' = IF due THEN 2 * pWindow ELSE pWindow
      /\ pSlowStart' = pSlowStart
      /\ UNCHANGED <<pVelocity, pDirection, pSame, pRecordedCwnd, pRecordedTime>>
      BY DEF Copa!DoubleWindow, Copa!velocityState
<1>3. /\ pWindow' \in Nat /\ pWindow' >= Copa!MinWindow /\ pWindow' >= pWindow
      /\ pDoubled' \in 0..pNow
      BY <1>1, <1>2
<1>4. VelocityOK(Copa!VelocityState)'
      BY <1>2 DEF CopaInv, VelocityOK, VelocityTypes, Copa!VelocityState
<1>5. PICK k \in Nat : DoubledTimes(k)
      BY <1>2 DEF CopaInv
<1> DEFINE initial == CopaInitialPackets * CopaMSS
<1>6. initial \in Nat /\ Copa!Power2[k] \in Nat /\ Copa!Power2[k + 1] = 2 * Copa!Power2[k]
      BY CopaConstants, Power2Doubles
<1>7. pWindow = initial * Copa!Power2[k]
      BY <1>5 DEF DoubledTimes
<1> HIDE DEF initial
<1>8. ASSUME due
      PROVE  DoubledTimes(k + 1)'
  <2>1. pDoubled' = pNow /\ pNow # 0 /\ pWindow' = 2 * pWindow
        BY <1>1, <1>2, <1>8
  <2>2. 2 * (initial * Copa!Power2[k]) = initial * (2 * Copa!Power2[k])
        BY <1>6
  <2>3. pWindow' = initial * Copa!Power2[k + 1]
        BY <1>6, <1>7, <2>1, <2>2
  <2>4. k * (MinRtt + 1) < pDoubled /\ k * (MinRtt + 1) \in Nat
        BY <1>5, <1>8, CopaConstants, ProductIsNatural DEF DoubledTimes
  <2>5. (k + 1) * (MinRtt + 1) = k * (MinRtt + 1) + (MinRtt + 1)
        BY CopaConstants
  <2>6. pDoubled \in Nat /\ MinRtt \in Nat
        BY <1>1, CopaConstants
  <2>7. pDoubled + MinRtt + 1 <= pNow
        BY <1>1, <1>8, <2>6
  <2>8. (k + 1) * (MinRtt + 1) < pNow
        BY <1>1, <2>4, <2>5, <2>6, <2>7
  <2> QED BY <2>1, <2>3, <2>8 DEF DoubledTimes, initial
<1>9. ASSUME ~due
      PROVE  DoubledTimes(k)'
  <2>1. pWindow' = pWindow /\ pDoubled' = IF pDoubled = 0 THEN pNow ELSE pDoubled
        BY <1>2, <1>9
  <2>2. CASE pDoubled = 0
    <3>1. k = 0 /\ 0 * (MinRtt + 1) = 0
          BY <1>5, <2>2, CopaConstants DEF DoubledTimes
    <3> QED BY <1>1, <1>7, <2>1, <2>2, <3>1 DEF DoubledTimes, initial
  <2>3. CASE pDoubled # 0
        BY <1>5, <2>1, <2>3 DEF DoubledTimes
  <2> QED BY <2>2, <2>3
<1>10. pSlowStart' => \E j \in Nat : DoubledTimes(j)'
      BY <1>8, <1>9
<1>11. pSlowStart' \in BOOLEAN /\ ~ (pWindow' < pWindow)
      BY <1>1, <1>2, <1>3 DEF CopaInv, CopaTyping
<1> QED BY <1>2, <1>3, <1>4, <1>10, <1>11 DEF CopaMoves

LEMMA StepIsNatural ==
    ASSUME NEW acked \in Nat, NEW v, VelocityOK(v), pWindow \in Nat \ {0}
    PROVE  Copa!Step(v, acked) \in Nat
<1>1. v.velocity \in Nat
  <2>1. Copa!Power2[VelocityBits] \in Nat
        BY CopaConstants, Power2Doubles
  <2>2. v.velocity \in 0..Copa!Power2[VelocityBits] - 1
        BY DEF VelocityOK, VelocityTypes
  <2> QED BY <2>1, <2>2
<1>2. acked * CopaMSS \in Nat
      BY CopaConstants, ProductIsNatural
<1>3. acked * CopaMSS * CopaMSS \in Nat
      BY <1>2, CopaConstants, ProductIsNatural
<1>4. acked * CopaMSS * CopaMSS * v.velocity \in Nat
      BY <1>1, <1>3, ProductIsNatural
<1>5. acked * CopaMSS * CopaMSS * v.velocity * 2 \in Nat
      BY <1>4
<1> QED BY <1>5, DivisionIsNatural DEF Copa!Step

\* The look and the turn, and where they are written.
LEMMA VelocityIsSet ==
    ASSUME CopaInv, NEW srtt \in Copa!Rtts, NEW d \in {"Up", "Down"}, NEW v,
           v = Copa!Turn(Copa!CheckAndUpdateDirection(Copa!VelocityState, srtt), d),
           Copa!SetVelocityState(v), pNow' = pNow
    PROVE  /\ VelocityOK(v)
           /\ VelocityOK(Copa!VelocityState)'
           /\ pVelocity' > 1 => pDirection' = d
<1>1. pWindow \in Nat /\ pNow \in Nat \ {0} /\ srtt \in Nat
      BY CopaConstants DEF CopaInv, CopaTyping, Copa!Rtts
<1>2. VelocityOK(Copa!CheckAndUpdateDirection(Copa!VelocityState, srtt))
      BY <1>1, LookKeepsVelocity DEF CopaInv
<1>3. d \in Directions
      BY DEF Directions
<1>4. VelocityOK(v) /\ (v.velocity > 1 => v.direction = d)
      BY <1>1, <1>2, <1>3, TurnKeepsVelocity
<1>5. /\ pVelocity' = v.velocity /\ pDirection' = v.direction /\ pSame' = v.same
      /\ pRecordedCwnd' = v.cwnd /\ pRecordedTime' = v.time
      BY DEF Copa!SetVelocityState
<1>6. VelocityOK(Copa!VelocityState)'
      BY <1>4, <1>5 DEF VelocityOK, VelocityTypes, Copa!VelocityState
<1> QED BY <1>4, <1>5, <1>6

LEMMA WindowGrows ==
    ASSUME CopaInv, NEW acked \in 0..MaxAcked, NEW srtt \in Copa!Rtts,
           Copa!IncreaseWindow(acked, srtt), pNow' = pNow
    PROVE  CopaMoves
<1>1. PICK v : /\ v = Copa!Turn(Copa!CheckAndUpdateDirection(Copa!VelocityState, srtt), "Up")
               /\ Copa!SetVelocityState(v)
               /\ pWindow' = pWindow + Copa!Step(v, acked)
      BY DEF Copa!IncreaseWindow
<1>2. ~pSlowStart /\ pSlowStart' = pSlowStart /\ pDoubled' = pDoubled
      BY DEF Copa!IncreaseWindow
<1>3. /\ VelocityOK(v) /\ VelocityOK(Copa!VelocityState)'
      /\ pVelocity' > 1 => pDirection' = "Up"
      BY <1>1, VelocityIsSet
<1>4. /\ pWindow \in Nat \ {0} /\ pWindow >= Copa!MinWindow /\ Copa!MinWindow \in Nat
      /\ acked \in Nat /\ pDoubled \in 0..pNow
      BY CopaConstants DEF CopaInv, CopaTyping, Copa!MinWindow
<1>5. Copa!Step(v, acked) \in Nat
      BY <1>3, <1>4, StepIsNatural
<1>6. pWindow' \in Nat /\ pWindow' >= Copa!MinWindow /\ ~ (pWindow' < pWindow)
      BY <1>1, <1>4, <1>5
<1> QED BY <1>2, <1>3, <1>4, <1>6 DEF CopaMoves, CopaInv, CopaTyping

LEMMA WindowShrinks ==
    ASSUME CopaInv, NEW acked \in 0..MaxAcked, NEW srtt \in Copa!Rtts,
           Copa!DecreaseWindow(acked, srtt), pNow' = pNow
    PROVE  CopaMoves
<1>1. PICK v : /\ v = Copa!Turn(Copa!CheckAndUpdateDirection(Copa!VelocityState, srtt), "Down")
               /\ Copa!SetVelocityState(v)
               /\ pWindow' = pWindow
                        - Copa!Min2(Copa!Step(v, acked), pWindow - Copa!MinWindow)
      BY DEF Copa!DecreaseWindow
<1>2. pSlowStart' = FALSE /\ pDoubled' = pDoubled
      BY DEF Copa!DecreaseWindow
<1>3. /\ VelocityOK(v) /\ VelocityOK(Copa!VelocityState)'
      /\ pVelocity' > 1 => pDirection' = "Down"
      BY <1>1, VelocityIsSet
<1>4. /\ pWindow \in Nat \ {0} /\ pWindow >= Copa!MinWindow /\ Copa!MinWindow \in Nat
      /\ acked \in Nat /\ pDoubled \in 0..pNow
      BY CopaConstants DEF CopaInv, CopaTyping, Copa!MinWindow
<1>5. Copa!Step(v, acked) \in Nat
      BY <1>3, <1>4, StepIsNatural
<1>6. pWindow' \in Nat /\ pWindow' >= Copa!MinWindow /\ ~ (pWindow' > pWindow)
      BY <1>1, <1>4, <1>5 DEF Copa!Min2
<1> QED BY <1>2, <1>3, <1>4, <1>6 DEF CopaMoves

LEMMA CopaStep ==
    CopaInv /\ Copa!Next => CopaInv' /\ (pNow' = pNow => CopaMoves)
<1> SUFFICES ASSUME CopaInv, Copa!Next
             PROVE  CopaInv' /\ (pNow' = pNow => CopaMoves)
    OBVIOUS
<1>1. CASE Copa!Tick
  <2>1. /\ pNow' = pNow + 1 /\ pNow < CopaHorizon
        /\ UNCHANGED <<pWindow, pSlowStart, pDoubled, pRecovering>>
        /\ UNCHANGED <<pVelocity, pDirection, pSame, pRecordedCwnd, pRecordedTime>>
        BY <1>1 DEF Copa!Tick, Copa!velocityState
  <2>2. pNow \in Nat /\ pNow >= 1 /\ CopaHorizon \in Nat
        BY CopaConstants DEF CopaInv, CopaTyping
  <2>3. CopaTyping'
        BY <2>1, <2>2 DEF CopaInv, CopaTyping, Copa!MinWindow
  <2>4. VelocityOK(Copa!VelocityState)'
    <3>1. VelocityOK(Copa!VelocityState)
          BY DEF CopaInv
    <3>2. 0..pNow \subseteq 0..pNow'
          BY <2>1, <2>2
    <3> QED BY <2>1, <3>1, <3>2 DEF VelocityOK, VelocityTypes, Copa!VelocityState
  <2>5. pSlowStart' => \E k \in Nat : DoubledTimes(k)'
        BY <2>1 DEF CopaInv, DoubledTimes
  <2>6. pNow' # pNow
        BY <2>1, <2>2
  <2> QED BY <2>3, <2>4, <2>5, <2>6 DEF CopaInv
<1>2. CASE ~Copa!Tick
  <2>1. PICK acked \in 0..MaxAcked, lrtt \in Copa!Rtts, srtt \in Copa!Rtts,
             lostNew \in BOOLEAN, ackedNew \in BOOLEAN :
             Copa!OnCongestionEvent(acked, lrtt, srtt, lostNew, ackedNew)
        BY <1>2 DEF Copa!Next
  <2>2. /\ pNow' = pNow
        /\ pRecovering' \in BOOLEAN
        /\ \/ Copa!DoubleWindow(srtt)
           \/ Copa!IncreaseWindow(acked, srtt)
           \/ Copa!DecreaseWindow(acked, srtt)
        BY <2>1 DEF Copa!OnCongestionEvent, CopaInv, CopaTyping
  <2>3. CopaMoves
        BY <2>2, WindowDoubles, WindowGrows, WindowShrinks
  <2>4. CopaInv'
        BY <2>2, <2>3 DEF CopaMoves, CopaInv, CopaTyping, Copa!MinWindow
  <2> QED BY <2>3, <2>4
<1> QED BY <1>1, <1>2

LEMMA CopaStutter ==
    CopaInv /\ UNCHANGED copaVars => CopaInv'
BY DEF CopaInv, CopaTyping, VelocityOK, VelocityTypes, Copa!VelocityState, DoubledTimes,
       copaVars, Copa!MinWindow

-----------------------------------------------------------------------------
(***************************************************************************)
(* Vegas.                                                                  *)
(***************************************************************************)

LEMMA VegasConstants ==
    /\ VegasMSS \in Nat \ {0}
    /\ VegasInitialPackets \in Nat /\ VegasInitialPackets >= 4
    /\ VegasMaxWindowPackets \in Nat /\ VegasMaxWindowPackets >= VegasInitialPackets
    /\ Window \in Nat /\ VegasMaxPackets \in Nat /\ VegasMaxInFlight \in Nat
    /\ VegasHorizon \in Nat \ {0} /\ VegasHorizon < Vegas!Infinite
    /\ Vegas!Infinite \in Nat \ {0}
    /\ Vegas!MinWindow \in Nat \ {0} /\ Vegas!MinWindow = 4 * VegasMSS
BY ControllersAssumption DEF Vegas!VegasAssumption, Vegas!Infinite, Vegas!MinWindow

\* What the losses or the acknowledgements of an event do not leave.
LEMMA VegasLoses ==
    ASSUME NEW G, NEW c \in G, NEW lost,
           \A d \in G : \A p \in lost : Vegas!OnPacketLost(d, p) \in G
    PROVE  Vegas!LoseAll(c, lost) \in G
<1> DEFINE Body(g) == [p \in Nat |-> IF p = 0 THEN c
                                     ELSE IF p \in lost THEN Vegas!OnPacketLost(g[p - 1], p)
                                     ELSE g[p - 1]]
           step == [x \in Nat \X G |-> IF x[1] \in lost THEN Vegas!OnPacketLost(x[2], x[1])
                                       ELSE x[2]]
<1>1. \E f : f = Body(f)
  <2>1. step \in [Nat \X G -> G]
        OBVIOUS
  <2> HIDE DEF step
  <2>2. PICK f : Recurs(f, G, c, step)
        BY <2>1, Recursion
  <2> USE DEF step, Recurs
  <2>3. ASSUME NEW n \in Nat
        PROVE  f[n] = Body(f)[n]
    <3>1. CASE n = 0
          BY <2>2, <3>1
    <3>2. CASE n # 0
      <4>1. n - 1 \in Nat /\ (n - 1) + 1 = n /\ f[n - 1] \in G
            BY <2>2, <3>2
      <4>2. f[(n - 1) + 1] = step[<<(n - 1) + 1, f[n - 1]>>]
            BY <2>2, <4>1
      <4> QED BY <3>2, <4>1, <4>2
    <3> QED BY <3>1, <3>2
  <2>4. f = Body(f)
        BY <2>2, <2>3
  <2> QED BY <2>4
<1> DEFINE h == CHOOSE g : g = Body(g)
<1>2. h = Body(h)
      BY <1>1
<1> HIDE DEF h
<1> DEFINE P == {n \in Nat : h[n] \in G}
<1>3. 0 \in P
      BY <1>2
<1>4. ASSUME NEW n \in Nat, n \in P
      PROVE  n + 1 \in P
  <2>1. h[n + 1] = IF n + 1 \in lost THEN Vegas!OnPacketLost(h[n], n + 1) ELSE h[n]
        BY <1>2
  <2> QED BY <1>4, <2>1
<1> HIDE DEF P
<1>5. VegasMaxPackets \in P
      BY <1>3, <1>4, SetInduction, VegasConstants
<1>6. Vegas!LoseAll(c, lost) = h[VegasMaxPackets]
      BY DEF Vegas!LoseAll, h
<1> QED BY <1>5, <1>6 DEF P

LEMMA VegasAcks ==
    ASSUME NEW G, NEW c \in G, NEW acked,
           \A d \in G : \A p \in acked : Vegas!OnPacketAcked(d, p) \in G
    PROVE  Vegas!AckAll(c, acked) \in G
<1> DEFINE Body(g) == [p \in Nat |-> IF p = 0 THEN c
                                     ELSE IF p \in acked THEN Vegas!OnPacketAcked(g[p - 1], p)
                                     ELSE g[p - 1]]
           step == [x \in Nat \X G |-> IF x[1] \in acked THEN Vegas!OnPacketAcked(x[2], x[1])
                                       ELSE x[2]]
<1>1. \E f : f = Body(f)
  <2>1. step \in [Nat \X G -> G]
        OBVIOUS
  <2> HIDE DEF step
  <2>2. PICK f : Recurs(f, G, c, step)
        BY <2>1, Recursion
  <2> USE DEF step, Recurs
  <2>3. ASSUME NEW n \in Nat
        PROVE  f[n] = Body(f)[n]
    <3>1. CASE n = 0
          BY <2>2, <3>1
    <3>2. CASE n # 0
      <4>1. n - 1 \in Nat /\ (n - 1) + 1 = n /\ f[n - 1] \in G
            BY <2>2, <3>2
      <4>2. f[(n - 1) + 1] = step[<<(n - 1) + 1, f[n - 1]>>]
            BY <2>2, <4>1
      <4> QED BY <3>2, <4>1, <4>2
    <3> QED BY <3>1, <3>2
  <2>4. f = Body(f)
        BY <2>2, <2>3
  <2> QED BY <2>4
<1> DEFINE h == CHOOSE g : g = Body(g)
<1>2. h = Body(h)
      BY <1>1
<1> HIDE DEF h
<1> DEFINE P == {n \in Nat : h[n] \in G}
<1>3. 0 \in P
      BY <1>2
<1>4. ASSUME NEW n \in Nat, n \in P
      PROVE  n + 1 \in P
  <2>1. h[n + 1] = IF n + 1 \in acked THEN Vegas!OnPacketAcked(h[n], n + 1) ELSE h[n]
        BY <1>2
  <2> QED BY <1>4, <2>1
<1> HIDE DEF P
<1>5. VegasMaxPackets \in P
      BY <1>3, <1>4, SetInduction, VegasConstants
<1>6. Vegas!AckAll(c, acked) = h[VegasMaxPackets]
      BY DEF Vegas!AckAll, h
<1> QED BY <1>5, <1>6 DEF P

-----------------------------------------------------------------------------
(***************************************************************************)
(* The samples of an epoch and the filter of the last ones.                *)
(***************************************************************************)

\* count samples since the epoch began, min their minimum.  While no sample
\* can have left the filter, one in it is not above the epoch's minimum.
SamplesOK(samples, count, min) ==
    /\ samples \subseteq [time : 2..vNow, rtt : 1..VegasHorizon]
    /\ count \in Nat
    /\ min \in 1..VegasHorizon \cup {Vegas!Infinite}
    /\ count = 0 <=> min = Vegas!Infinite
    /\ count > 0 => samples # {}
    /\ vNow <= Window + 2 /\ count > 0 => \E s \in samples : s.rtt <= min

LEMMA BestIsLeast ==
    ASSUME NEW samples, samples \subseteq [time : 2..vNow, rtt : 1..VegasHorizon], samples # {}
    PROVE  /\ Vegas!GetBest(samples) \in 1..VegasHorizon
           /\ \A s \in samples : Vegas!GetBest(samples) <= s.rtt
<1> DEFINE T == {s.rtt : s \in samples}
<1>1. \A s \in samples : s.rtt \in 1..VegasHorizon
      OBVIOUS
<1>2. T \subseteq 1..VegasHorizon /\ T # {}
      BY <1>1
<1>3. T \subseteq Nat
      BY <1>2, VegasConstants
<1>4. PICK m \in T : \A k \in T : m <= k
      BY <1>2, <1>3, LeastNatural
<1>5. m \in T /\ \A s \in samples : m <= s.rtt
      BY <1>4
<1>6. /\ Vegas!GetBest(samples) \in T
      /\ \A s \in samples : Vegas!GetBest(samples) <= s.rtt
      BY <1>5 DEF Vegas!GetBest
<1> QED BY <1>2, <1>6

LEMMA SampleIsTaken ==
    ASSUME NEW samples, NEW count, NEW min, SamplesOK(samples, count, min),
           vNow \in Nat, vNow >= 2, NEW rtt \in 1..VegasHorizon
    PROVE  SamplesOK(Vegas!UpdateFilter(samples, vNow, rtt), count + 1, Vegas!Min2(min, rtt))
<1> DEFINE new == [time |-> vNow, rtt |-> rtt]
           kept == Vegas!UpdateFilter(samples, vNow, rtt)
<1>1. kept = {s \in samples : vNow - s.time <= Window /\ s.rtt < rtt} \cup {new}
      BY DEF Vegas!UpdateFilter
<1>2. vNow \in 2..vNow
      OBVIOUS
<1>3. new \in [time : 2..vNow, rtt : 1..VegasHorizon] /\ new \in kept /\ new.rtt = rtt
      BY <1>1, <1>2
<1>4. kept \subseteq [time : 2..vNow, rtt : 1..VegasHorizon] /\ kept # {}
      BY <1>1, <1>3 DEF SamplesOK
<1>5. /\ rtt \in Nat /\ rtt >= 1 /\ rtt <= VegasHorizon /\ rtt < Vegas!Infinite
      /\ Vegas!Infinite \in Nat /\ VegasHorizon \in Nat /\ Window \in Nat
      BY VegasConstants
<1>6. min \in Nat /\ count \in Nat
      BY <1>5 DEF SamplesOK
<1>7. /\ Vegas!Min2(min, rtt) \in 1..VegasHorizon
      /\ Vegas!Min2(min, rtt) # Vegas!Infinite
      BY <1>5, <1>6 DEF SamplesOK, Vegas!Min2
<1>8. ASSUME vNow <= Window + 2
      PROVE  \E s \in kept : s.rtt <= Vegas!Min2(min, rtt)
  <2>1. CASE min < rtt
    <3>1. count > 0
          BY <1>5, <1>6, <2>1 DEF SamplesOK
    <3>2. PICK s \in samples : s.rtt <= min
          BY <1>8, <3>1 DEF SamplesOK
    <3>3. s.time \in 2..vNow /\ s.rtt \in 1..VegasHorizon
          BY DEF SamplesOK
    <3>4. s.rtt < rtt /\ vNow - s.time <= Window
          BY <1>5, <1>6, <1>8, <2>1, <3>2, <3>3
    <3>5. s \in kept
          BY <1>1, <3>4
    <3>6. Vegas!Min2(min, rtt) = min
          BY <2>1 DEF Vegas!Min2
    <3> QED BY <3>2, <3>5, <3>6
  <2>2. CASE ~ (min < rtt)
    <3>1. Vegas!Min2(min, rtt) = rtt
          BY <2>2 DEF Vegas!Min2
    <3> QED BY <1>3, <1>5, <3>1
  <2> QED BY <2>1, <2>2
<1> HIDE DEF kept
<1>9. SamplesOK(kept, count + 1, Vegas!Min2(min, rtt))
      BY <1>4, <1>6, <1>7, <1>8 DEF SamplesOK
<1> QED BY <1>9 DEF kept

LEMMA NoSampleYet ==
    ASSUME NEW samples, NEW count, NEW min, SamplesOK(samples, count, min)
    PROVE  SamplesOK(samples, 0, Vegas!Infinite)
BY DEF SamplesOK

-----------------------------------------------------------------------------
(***************************************************************************)
(* The state of the controller, and what its operations do to it.          *)
(***************************************************************************)

VegasSenders ==
    [congestion_window : Nat, slowstart_threshold : Nat, num_acked_packets : Nat,
     largest_sent : 0..VegasMaxPackets, largest_acked : Nat,
     largest_sent_at_last_cutback : Nat, beg_send_next : Nat,
     rtt_samples : SUBSET [time : Nat, rtt : Nat], min_rtt : Nat, rtt_count : Nat,
     vegas_mode : BOOLEAN, failed_check : {"none", "min_rtt", "beg_send_next"}]

\* All but the floor of the window.
VegasShape(c) ==
    /\ c \in VegasSenders
    /\ c.largest_acked <= c.largest_sent
    /\ c.largest_sent_at_last_cutback <= c.largest_sent
    /\ c.beg_send_next <= c.largest_sent
    /\ c.largest_sent > 0 => c.beg_send_next > 0
    /\ SamplesOK(c.rtt_samples, c.rtt_count, c.min_rtt)
    /\ vNow <= Window + 2 => c.failed_check = "none"

VegasGood(c) == VegasShape(c) /\ c.congestion_window >= Vegas!MinWindow

\* What is as it was when an event began.
VegasKeeps(c, d) ==
    /\ d.largest_sent = c.largest_sent
    /\ d.largest_sent_at_last_cutback = c.largest_sent_at_last_cutback
    /\ d.vegas_mode = c.vegas_mode

LEMMA RenoGrows ==
    ASSUME NEW c, VegasShape(c)
    PROVE  LET d == Vegas!IncreaseCongestionWindowAsReno(c)
           IN  /\ VegasShape(d)
               /\ VegasKeeps(c, d)
               /\ d.congestion_window >= c.congestion_window
               /\ d.slowstart_threshold = c.slowstart_threshold
               /\ d.rtt_count = c.rtt_count
               /\ d.failed_check = c.failed_check
<1> DEFINE d1 == [c EXCEPT !.congestion_window = c.congestion_window + VegasMSS]
           d2 == [c EXCEPT !.congestion_window = c.congestion_window + VegasMSS,
                           !.num_acked_packets = 0]
           d3 == [c EXCEPT !.num_acked_packets = c.num_acked_packets + 1]
           d == Vegas!IncreaseCongestionWindowAsReno(c)
           Goal(e) == /\ VegasShape(e)
                      /\ VegasKeeps(c, e)
                      /\ e.congestion_window >= c.congestion_window
                      /\ e.slowstart_threshold = c.slowstart_threshold
                      /\ e.rtt_count = c.rtt_count
                      /\ e.failed_check = c.failed_check
<1>1. c \in VegasSenders /\ VegasMSS \in Nat
      BY VegasConstants DEF VegasShape
<1>2. Goal(d1)
      BY <1>1 DEF VegasShape, VegasSenders, VegasKeeps
<1>3. Goal(d2)
  <2>1. d1 \in VegasSenders
        BY <1>2 DEF VegasShape
  <2>2. d2 = [d1 EXCEPT !.num_acked_packets = 0]
        OBVIOUS
  <2> HIDE DEF d1, d2
  <2> QED BY <1>2, <2>1, <2>2 DEF VegasShape, VegasSenders, VegasKeeps
<1>4. Goal(d3)
      BY <1>1 DEF VegasShape, VegasSenders, VegasKeeps
<1>5. d \in {d1, d2, d3}
      BY DEF Vegas!IncreaseCongestionWindowAsReno
<1> HIDE DEF d, d1, d2, d3
<1>6. Goal(d)
      BY <1>2, <1>3, <1>4, <1>5
<1> QED BY <1>6 DEF d

\* Another window, and another threshold.
LEMMA WindowIsSet ==
    ASSUME NEW c, VegasShape(c), NEW w \in Nat
    PROVE  LET d == [c EXCEPT !.congestion_window = w]
           IN  /\ VegasShape(d) /\ VegasKeeps(c, d)
               /\ d.congestion_window = w
               /\ d.slowstart_threshold = c.slowstart_threshold
               /\ d.rtt_count = c.rtt_count
               /\ d.failed_check = c.failed_check
BY DEF VegasShape, VegasSenders, VegasKeeps

LEMMA ThresholdIsSet ==
    ASSUME NEW c, VegasShape(c), NEW w \in Nat
    PROVE  LET d == [c EXCEPT !.slowstart_threshold = w]
           IN  /\ VegasShape(d) /\ VegasKeeps(c, d)
               /\ d.congestion_window = c.congestion_window
               /\ d.slowstart_threshold = w
               /\ d.rtt_count = c.rtt_count
               /\ d.failed_check = c.failed_check
BY DEF VegasShape, VegasSenders, VegasKeeps

\* A decision, of an epoch with samples.
LEMMA Decides ==
    ASSUME NEW c, VegasShape(c), c.rtt_count > 0
    PROVE  LET d == Vegas!VegasDecision(c)
           IN  /\ VegasShape(d) /\ VegasKeeps(c, d)
               /\ ~Vegas!InSlowStart(c) /\ c.congestion_window >= Vegas!MinWindow
                     => d.congestion_window + VegasMSS >= c.congestion_window
<1> DEFINE base == Vegas!GetBest(c.rtt_samples)
           cwnd == c.congestion_window
           rate == (cwnd * base) \div c.min_rtt
           target == ((rate + VegasMSS - 1) \div VegasMSS) * VegasMSS
           goal == Vegas!VegasDecision(c)
           d1 == [c EXCEPT !.failed_check = "min_rtt"]
           d2 == [c EXCEPT !.congestion_window = Vegas!Min2(cwnd, target),
                           !.slowstart_threshold = Vegas!Min2(cwnd, target)]
           d3 == [c EXCEPT !.congestion_window = cwnd + VegasMSS]
           d4 == [c EXCEPT !.congestion_window = cwnd - VegasMSS]
<1>1. \/ c.min_rtt < base /\ goal = d1
      \/ Vegas!InSlowStart(c) /\ goal = d2
      \/ goal = d3
      \/ cwnd > Vegas!MinWindow /\ goal = d4
      \/ goal = c
  <2> DEFINE diff == (cwnd * (c.min_rtt - base)) \div base
             slow == Vegas!InSlowStart(c)
  <2>1. CASE c.min_rtt < base
        BY <2>1 DEF Vegas!VegasDecision
  <2>2. CASE c.min_rtt >= base /\ slow /\ diff > Vegas!Gamma
        BY <2>2 DEF Vegas!VegasDecision
  <2>3. CASE c.min_rtt >= base /\ slow /\ diff <= Vegas!Gamma
        BY <2>3 DEF Vegas!VegasDecision
  <2>4. CASE c.min_rtt >= base /\ ~slow /\ diff > Vegas!Beta /\ cwnd > Vegas!MinWindow
        BY <2>4 DEF Vegas!VegasDecision
  <2>5. CASE c.min_rtt >= base /\ ~slow /\ diff < Vegas!Alpha
        BY <2>5 DEF Vegas!VegasDecision
  <2>6. CASE /\ ~ (c.min_rtt < base)
             /\ ~ (c.min_rtt >= base /\ slow /\ diff > Vegas!Gamma)
             /\ ~ (c.min_rtt >= base /\ slow /\ diff <= Vegas!Gamma)
             /\ ~ (c.min_rtt >= base /\ ~slow /\ diff > Vegas!Beta /\ cwnd > Vegas!MinWindow)
             /\ ~ (c.min_rtt >= base /\ ~slow /\ diff < Vegas!Alpha)
        BY <2>6 DEF Vegas!VegasDecision
  <2> HIDE DEF diff, slow, base, goal, d1, d2, d3, d4
  <2> QED BY <2>1, <2>2, <2>3, <2>4, <2>5, <2>6, Zenon
<1> DEFINE Goal(d) == /\ VegasShape(d) /\ VegasKeeps(c, d)
                      /\ ~Vegas!InSlowStart(c) /\ c.congestion_window >= Vegas!MinWindow
                            => d.congestion_window + VegasMSS >= c.congestion_window
<1>2. /\ c \in VegasSenders /\ cwnd \in Nat /\ c.min_rtt \in Nat \ {0} /\ base \in Nat
      /\ \A s \in c.rtt_samples : base <= s.rtt
  <2>1. c.rtt_samples # {} /\ c.min_rtt \in 1..VegasHorizon
        BY VegasConstants DEF VegasShape, SamplesOK
  <2>2. base \in 1..VegasHorizon /\ \A s \in c.rtt_samples : base <= s.rtt
        BY <2>1, BestIsLeast DEF VegasShape, SamplesOK
  <2> QED BY <2>1, <2>2, VegasConstants DEF VegasShape, VegasSenders
<1>3. target \in Nat
  <2>1. cwnd * base \in Nat
        BY <1>2, ProductIsNatural
  <2>2. rate \in Nat
        BY <1>2, <2>1, DivisionIsNatural
  <2> HIDE DEF rate
  <2>3. rate + VegasMSS - 1 \in Nat
        BY <2>2, VegasConstants
  <2>4. (rate + VegasMSS - 1) \div VegasMSS \in Nat
        BY <2>3, VegasConstants, DivisionIsNatural
  <2> QED BY <2>4, VegasConstants, ProductIsNatural
<1> HIDE DEF target, base
<1>4. ASSUME c.min_rtt < base
      PROVE  Goal(d1)
  <2>1. ~ (vNow <= Window + 2)
    <3>1. SUFFICES ASSUME vNow <= Window + 2
                   PROVE  FALSE
          OBVIOUS
    <3>2. PICK s \in c.rtt_samples : s.rtt <= c.min_rtt
          BY <3>1 DEF VegasShape, SamplesOK
    <3>3. s.rtt \in Nat /\ base <= s.rtt
          BY <1>2 DEF VegasSenders
    <3> QED BY <1>2, <1>4, <3>2, <3>3
  <2> QED BY <1>2, <2>1, VegasConstants DEF VegasShape, VegasSenders, VegasKeeps
<1>5. ASSUME Vegas!InSlowStart(c)
      PROVE  Goal(d2)
  <2> DEFINE w == Vegas!Min2(cwnd, target)
             e == [c EXCEPT !.congestion_window = w]
  <2>1. w \in Nat
        BY <1>2, <1>3 DEF Vegas!Min2
  <2> HIDE DEF w
  <2>2. VegasShape(e) /\ VegasKeeps(c, e)
        BY <2>1, WindowIsSet
  <2>3. d2 = [e EXCEPT !.slowstart_threshold = w]
        BY DEF w
  <2> HIDE DEF e, d2
  <2>4. VegasShape(d2) /\ VegasKeeps(e, d2)
        BY <2>1, <2>2, <2>3, ThresholdIsSet
  <2> QED BY <1>5, <2>2, <2>4 DEF VegasKeeps
<1>6. Goal(d3)
  <2>1. cwnd + VegasMSS \in Nat
        BY <1>2, VegasConstants
  <2>2. VegasShape(d3) /\ VegasKeeps(c, d3) /\ d3.congestion_window = cwnd + VegasMSS
        BY <2>1, WindowIsSet
  <2> HIDE DEF d3
  <2> QED BY <1>2, <2>2, VegasConstants
<1>7. ASSUME cwnd > Vegas!MinWindow
      PROVE  Goal(d4)
  <2>1. cwnd - VegasMSS \in Nat
        BY <1>2, <1>7, VegasConstants
  <2>2. VegasShape(d4) /\ VegasKeeps(c, d4) /\ d4.congestion_window = cwnd - VegasMSS
        BY <2>1, WindowIsSet
  <2> HIDE DEF d4
  <2> QED BY <1>2, <2>2, VegasConstants
<1>8. Goal(c)
      BY <1>2, VegasConstants DEF VegasKeeps
<1> HIDE DEF goal, d1, d2, d3, d4
<1>9. Goal(goal)
      BY <1>1, <1>4, <1>5, <1>6, <1>7, <1>8
<1> QED BY <1>9 DEF goal

LEMMA EpochStarts ==
    ASSUME NEW c, VegasShape(c)
    PROVE  LET d == Vegas!StartEpoch(c)
           IN  /\ VegasShape(d) /\ VegasKeeps(c, d)
               /\ d.congestion_window = c.congestion_window
               /\ d.rtt_count = 0
<1> DEFINE d1 == [c EXCEPT !.beg_send_next = c.largest_sent]
           d2 == [d1 EXCEPT !.min_rtt = Vegas!Infinite]
           d3 == [d2 EXCEPT !.rtt_count = 0]
<1>1. /\ c \in VegasSenders /\ c.largest_sent \in Nat
      /\ SamplesOK(c.rtt_samples, 0, Vegas!Infinite)
      BY NoSampleYet, VegasConstants DEF VegasShape, VegasSenders
<1>2. VegasShape(d1) /\ VegasKeeps(c, d1) /\ d1.congestion_window = c.congestion_window
      BY <1>1 DEF VegasShape, VegasSenders, VegasKeeps
<1>3. d1.rtt_samples = c.rtt_samples
      BY <1>1 DEF VegasSenders
<1> HIDE DEF d1
<1>4. d1 \in VegasSenders
      BY <1>2 DEF VegasShape
<1>5. /\ d2 \in VegasSenders
      /\ d2.rtt_samples = d1.rtt_samples /\ d2.min_rtt = Vegas!Infinite
      /\ d2.largest_sent = d1.largest_sent /\ d2.largest_acked = d1.largest_acked
      /\ d2.largest_sent_at_last_cutback = d1.largest_sent_at_last_cutback
      /\ d2.beg_send_next = d1.beg_send_next /\ d2.vegas_mode = d1.vegas_mode
      /\ d2.failed_check = d1.failed_check /\ d2.congestion_window = d1.congestion_window
      BY <1>4, VegasConstants DEF VegasSenders
<1> HIDE DEF d2
<1>6. /\ d3 \in VegasSenders
      /\ d3.rtt_samples = d2.rtt_samples /\ d3.min_rtt = d2.min_rtt
      /\ d3.largest_sent = d2.largest_sent /\ d3.largest_acked = d2.largest_acked
      /\ d3.largest_sent_at_last_cutback = d2.largest_sent_at_last_cutback
      /\ d3.beg_send_next = d2.beg_send_next /\ d3.vegas_mode = d2.vegas_mode
      /\ d3.failed_check = d2.failed_check /\ d3.congestion_window = d2.congestion_window
      /\ d3.rtt_count = 0
      BY <1>5 DEF VegasSenders
<1>7. Vegas!StartEpoch(c) = d3
      BY DEF Vegas!StartEpoch, d1, d2
<1> HIDE DEF d3
<1>8. VegasShape(d3)
      BY <1>1, <1>2, <1>3, <1>5, <1>6 DEF VegasShape
<1> QED BY <1>2, <1>5, <1>6, <1>7, <1>8 DEF VegasKeeps

\* What an acknowledgement can take: nothing while the epoch goes on, and a
\* segment, outside slow start, of an epoch with samples that ends.
TakesLittle(c, d) ==
    \/ /\ d.rtt_count = c.rtt_count
       /\ d.slowstart_threshold = c.slowstart_threshold
       /\ d.congestion_window >= c.congestion_window
    \/ /\ d.rtt_count = 0
       /\ ~Vegas!InSlowStart(c) => d.congestion_window + VegasMSS >= c.congestion_window
       /\ c.rtt_count <= 2 => d.congestion_window >= c.congestion_window

LEMMA EpochEnds ==
    ASSUME NEW c, VegasGood(c)
    PROVE  LET d == Vegas!EndEpoch(c)
           IN  /\ VegasShape(d) /\ VegasKeeps(c, d) /\ TakesLittle(c, d)
<1>1. VegasShape(c) /\ c.rtt_count \in Nat /\ c.congestion_window \in Nat
      BY DEF VegasGood, VegasShape, VegasSenders
<1>2. CASE c.rtt_count <= 2
  <2> DEFINE r == Vegas!IncreaseCongestionWindowAsReno(c)
             d == Vegas!StartEpoch(r)
  <2>1. VegasShape(r) /\ VegasKeeps(c, r) /\ r.congestion_window >= c.congestion_window
        BY <1>1, RenoGrows
  <2> HIDE DEF r
  <2>2. /\ VegasShape(d) /\ VegasKeeps(r, d) /\ d.rtt_count = 0
        /\ d.congestion_window = r.congestion_window
        BY <2>1, EpochStarts
  <2>3. Vegas!EndEpoch(c) = d
        BY <1>2 DEF Vegas!EndEpoch, r
  <2>4. d.congestion_window \in Nat
        BY <2>2 DEF VegasShape, VegasSenders
  <2> HIDE DEF d
  <2> QED BY <1>1, <2>1, <2>2, <2>3, <2>4, VegasConstants DEF VegasKeeps, TakesLittle
<1>3. CASE ~ (c.rtt_count <= 2)
  <2> DEFINE r == Vegas!VegasDecision(c)
             d == Vegas!StartEpoch(r)
  <2>1. /\ VegasShape(r) /\ VegasKeeps(c, r)
        /\ ~Vegas!InSlowStart(c) => r.congestion_window + VegasMSS >= c.congestion_window
        BY <1>1, <1>3, Decides DEF VegasGood
  <2> HIDE DEF r
  <2>2. /\ VegasShape(d) /\ VegasKeeps(r, d) /\ d.rtt_count = 0
        /\ d.congestion_window = r.congestion_window
        BY <2>1, EpochStarts
  <2>3. Vegas!EndEpoch(c) = d
        BY <1>3 DEF Vegas!EndEpoch, r
  <2> HIDE DEF d
  <2> QED BY <1>3, <2>1, <2>2, <2>3 DEF VegasKeeps, TakesLittle
<1> QED BY <1>2, <1>3

LEMMA AckInVegas ==
    ASSUME NEW c, VegasGood(c), c.largest_sent > 0, NEW p \in Nat
    PROVE  LET d == Vegas!VegasAck(c, p)
           IN  /\ VegasGood(d) /\ VegasKeeps(c, d) /\ TakesLittle(c, d)
<1>1. /\ VegasShape(c) /\ c.congestion_window \in Nat /\ c.rtt_count \in Nat
      /\ c.congestion_window >= Vegas!MinWindow /\ c.beg_send_next # 0
      BY DEF VegasGood, VegasShape, VegasSenders
<1> DEFINE d1 == Vegas!EndEpoch(c)
           d2 == [c EXCEPT !.congestion_window = @ + VegasMSS]
           stepped == CASE p >= c.beg_send_next -> d1
                        [] p < c.beg_send_next /\ Vegas!InSlowStart(c) -> d2
                        [] OTHER -> c
           Goal(d) == VegasShape(d) /\ VegasKeeps(c, d) /\ TakesLittle(c, d)
<1>2. stepped \in {d1, d2, c}
  <2> HIDE DEF d1, d2
  <2>1. CASE p >= c.beg_send_next
        BY <2>1
  <2>2. CASE p < c.beg_send_next /\ Vegas!InSlowStart(c)
        BY <2>2
  <2>3. CASE ~ (p >= c.beg_send_next) /\ ~ (p < c.beg_send_next /\ Vegas!InSlowStart(c))
        BY <2>3
  <2> HIDE DEF stepped
  <2> QED BY <2>1, <2>2, <2>3
<1>3. Goal(d1)
      BY EpochEnds
<1>4. Goal(d2)
  <2>1. c.congestion_window + VegasMSS \in Nat
        BY <1>1, VegasConstants
  <2>2. /\ VegasShape(d2) /\ VegasKeeps(c, d2)
        /\ d2.congestion_window = c.congestion_window + VegasMSS
        /\ d2.slowstart_threshold = c.slowstart_threshold
        /\ d2.rtt_count = c.rtt_count
        BY <1>1, <2>1, WindowIsSet
  <2> HIDE DEF d2
  <2> QED BY <1>1, <2>2, VegasConstants DEF TakesLittle
<1>5. Goal(c)
      BY <1>1 DEF VegasKeeps, TakesLittle
<1> DEFINE w == Vegas!Max2(stepped.congestion_window, Vegas!MinWindow)
           d == [stepped EXCEPT !.congestion_window = w]
<1>6. Vegas!VegasAck(c, p) = d
      BY <1>1 DEF Vegas!VegasAck
<1> HIDE DEF stepped, d1, d2
<1>7. Goal(stepped)
      BY <1>2, <1>3, <1>4, <1>5
<1>8. /\ stepped.congestion_window \in Nat /\ w \in Nat
      /\ w >= stepped.congestion_window /\ w >= Vegas!MinWindow
      BY <1>7, VegasConstants DEF VegasShape, VegasSenders, Vegas!Max2
<1> HIDE DEF w
<1>9. /\ VegasShape(d) /\ VegasKeeps(stepped, d) /\ d.congestion_window = w
      /\ d.slowstart_threshold = stepped.slowstart_threshold
      /\ d.rtt_count = stepped.rtt_count
      BY <1>7, <1>8, WindowIsSet
<1> HIDE DEF d
<1>10. TakesLittle(c, d)
      BY <1>1, <1>7, <1>8, <1>9, VegasConstants DEF TakesLittle
<1> QED BY <1>6, <1>7, <1>8, <1>9, <1>10 DEF VegasGood, VegasKeeps

LEMMA AckIsSmall ==
    ASSUME NEW c, VegasGood(c), NEW p \in 1..c.largest_sent
    PROVE  LET d == Vegas!OnPacketAcked(c, p)
           IN  /\ VegasGood(d) /\ VegasKeeps(c, d) /\ TakesLittle(c, d)
<1> DEFINE seen == [c EXCEPT !.largest_acked = Vegas!Max2(c.largest_acked, p)]
           d2 == Vegas!VegasAck(seen, p)
           d3 == Vegas!IncreaseCongestionWindowAsReno(seen)
           Goal(d) == VegasGood(d) /\ VegasKeeps(c, d) /\ TakesLittle(c, d)
<1>1. /\ c \in VegasSenders /\ c.largest_sent \in Nat /\ c.largest_acked \in Nat
      /\ c.largest_acked <= c.largest_sent /\ c.largest_sent > 0 /\ p \in Nat
      /\ c.congestion_window \in Nat /\ c.rtt_count \in Nat
      /\ c.congestion_window >= Vegas!MinWindow
      BY VegasConstants DEF VegasGood, VegasShape, VegasSenders
<1>2. /\ Vegas!Max2(c.largest_acked, p) \in Nat
      /\ Vegas!Max2(c.largest_acked, p) <= c.largest_sent
      BY <1>1 DEF Vegas!Max2
<1>3. /\ VegasGood(seen) /\ VegasKeeps(c, seen)
      /\ seen.congestion_window = c.congestion_window
      /\ seen.slowstart_threshold = c.slowstart_threshold
      /\ seen.rtt_count = c.rtt_count
      BY <1>1, <1>2 DEF VegasGood, VegasShape, VegasSenders, VegasKeeps
<1>4. Vegas!OnPacketAcked(c, p) = IF c.failed_check # "none" THEN c
                                  ELSE IF c.vegas_mode THEN d2 ELSE d3
      BY DEF Vegas!OnPacketAcked
<1> HIDE DEF seen
<1>5. Vegas!InSlowStart(seen) <=> Vegas!InSlowStart(c)
      BY <1>3 DEF Vegas!InSlowStart
<1>6. Goal(d2)
  <2>1. VegasGood(d2) /\ VegasKeeps(seen, d2) /\ TakesLittle(seen, d2)
        BY <1>1, <1>3, AckInVegas DEF VegasKeeps
  <2> HIDE DEF d2
  <2> QED BY <1>3, <1>5, <2>1 DEF VegasKeeps, TakesLittle
<1>7. Goal(d3)
  <2>1. /\ VegasShape(d3) /\ VegasKeeps(seen, d3)
        /\ d3.congestion_window >= seen.congestion_window
        /\ d3.slowstart_threshold = seen.slowstart_threshold
        /\ d3.rtt_count = seen.rtt_count
        BY <1>3, RenoGrows DEF VegasGood
  <2>2. d3.congestion_window \in Nat /\ d3.congestion_window >= Vegas!MinWindow
        BY <1>1, <1>3, <2>1, VegasConstants DEF VegasShape, VegasSenders
  <2> HIDE DEF d3
  <2> QED BY <1>3, <2>1, <2>2 DEF VegasGood, VegasKeeps, TakesLittle
<1>8. Goal(c)
      BY <1>1 DEF VegasKeeps, TakesLittle
<1> HIDE DEF d2, d3
<1> QED BY <1>4, <1>6, <1>7, <1>8

\* The losses of one event: nothing that was sent before the last cut, or one
\* cut, after which no packet of the event is new.
HalvedOnce(c, d) ==
    /\ VegasGood(d)
    /\ d.largest_sent = c.largest_sent
    /\ d.vegas_mode = c.vegas_mode
    /\ \/ d.largest_sent_at_last_cutback = c.largest_sent_at_last_cutback
       \/ /\ d.largest_sent_at_last_cutback = c.largest_sent
          /\ d.congestion_window = Vegas!Max2(c.congestion_window \div 2, Vegas!MinWindow)
          /\ d.slowstart_threshold = d.congestion_window
    /\ d.largest_sent_at_last_cutback = c.largest_sent_at_last_cutback
            => d.congestion_window = c.congestion_window

LEMMA LossesHalveOnce ==
    ASSUME NEW c, VegasGood(c), NEW lost, lost \subseteq 1..c.largest_sent
    PROVE  HalvedOnce(c, Vegas!LoseAll(c, lost))
<1> DEFINE G == {d \in VegasSenders : HalvedOnce(c, d)}
           H == Vegas!Max2(c.congestion_window \div 2, Vegas!MinWindow)
<1>1. /\ c \in VegasSenders /\ c.congestion_window \in Nat /\ c.largest_sent \in Nat
      /\ c.largest_sent_at_last_cutback \in Nat
      /\ c.largest_sent_at_last_cutback <= c.largest_sent
      BY VegasConstants DEF VegasGood, VegasShape, VegasSenders
<1>2. c \in G
      BY <1>1 DEF HalvedOnce
<1>3. H \in Nat /\ H >= Vegas!MinWindow
  <2>1. c.congestion_window \div 2 \in Nat
        BY <1>1
  <2> QED BY <2>1, VegasConstants DEF Vegas!Max2
<1>4. ASSUME NEW d \in G, NEW p \in lost
      PROVE  Vegas!OnPacketLost(d, p) \in G
  <2>1. /\ p \in Nat /\ p <= c.largest_sent /\ HalvedOnce(c, d)
        /\ VegasShape(d) /\ VegasGood(d) /\ d \in VegasSenders
        /\ d.largest_sent = c.largest_sent /\ d.vegas_mode = c.vegas_mode
        BY <1>1 DEF HalvedOnce, VegasGood
  <2>2. CASE p <= d.largest_sent_at_last_cutback
    <3>1. Vegas!OnPacketLost(d, p) = d
          BY <2>2 DEF Vegas!OnPacketLost
    <3> QED BY <3>1
  <2>3. CASE ~ (p <= d.largest_sent_at_last_cutback)
    <3>1. /\ d.largest_sent_at_last_cutback = c.largest_sent_at_last_cutback
          /\ d.congestion_window = c.congestion_window
          BY <2>1, <2>3 DEF HalvedOnce
    <3> DEFINE e1 == [d EXCEPT !.congestion_window = H]
               e2 == [e1 EXCEPT !.slowstart_threshold = H]
               e3 == [e2 EXCEPT !.largest_sent_at_last_cutback = d.largest_sent]
               e4 == [e3 EXCEPT !.num_acked_packets = 0]
    <3>2. Vegas!OnPacketLost(d, p) = e4
          BY <2>3, <3>1 DEF Vegas!OnPacketLost
    <3> HIDE DEF H
    <3>3. /\ VegasShape(e1) /\ VegasKeeps(d, e1) /\ e1.congestion_window = H
          BY <1>3, <2>1, WindowIsSet
    <3> HIDE DEF e1
    <3>4. /\ VegasShape(e2) /\ VegasKeeps(e1, e2) /\ e2.congestion_window = H
          /\ e2.slowstart_threshold = H
          BY <1>3, <3>3, ThresholdIsSet
    <3> HIDE DEF e2
    <3>5. /\ VegasShape(e3) /\ e3.congestion_window = H /\ e3.slowstart_threshold = H
          /\ e3.largest_sent = e2.largest_sent /\ e3.vegas_mode = e2.vegas_mode
          /\ e3.largest_sent_at_last_cutback = d.largest_sent
          BY <1>1, <2>1, <3>3, <3>4 DEF VegasShape, VegasSenders, VegasKeeps
    <3> HIDE DEF e3
    <3>6. /\ VegasShape(e4) /\ e4.congestion_window = H /\ e4.slowstart_threshold = H
          /\ e4.largest_sent = e3.largest_sent /\ e4.vegas_mode = e3.vegas_mode
          /\ e4.largest_sent_at_last_cutback = e3.largest_sent_at_last_cutback
          BY <3>5 DEF VegasShape, VegasSenders
    <3> HIDE DEF e4
    <3>7. e4.largest_sent = c.largest_sent /\ e4.vegas_mode = c.vegas_mode
          BY <2>1, <3>3, <3>4, <3>5, <3>6 DEF VegasKeeps
    <3>8. e4.largest_sent_at_last_cutback = c.largest_sent
          BY <2>1, <3>5, <3>6
    <3>9. c.largest_sent # c.largest_sent_at_last_cutback
          BY <1>1, <2>1, <2>3, <3>1
    <3>10. HalvedOnce(c, e4)
          BY <1>3, <3>6, <3>7, <3>8, <3>9 DEF HalvedOnce, VegasGood, H
    <3> QED BY <3>2, <3>6, <3>10 DEF VegasShape
  <2> QED BY <2>2, <2>3
<1> HIDE DEF G
<1>5. Vegas!LoseAll(c, lost) \in G
      BY <1>2, <1>4, VegasLoses
<1> QED BY <1>5 DEF G

\* The acknowledgements of one event, after its losses: they take a segment at
\* most, of a window that was cut.
LEMMA AcksTakeLittle ==
    ASSUME NEW c, VegasGood(c), NEW acked, acked \subseteq 1..c.largest_sent
    PROVE  LET d == Vegas!AckAll(c, acked)
           IN  /\ VegasGood(d) /\ VegasKeeps(c, d)
               /\ c.slowstart_threshold <= c.congestion_window
                    => d.congestion_window + VegasMSS >= c.congestion_window
<1> DEFINE cut == c.slowstart_threshold <= c.congestion_window
           Kept(d) == \/ /\ d.congestion_window >= c.congestion_window
                         /\ d.slowstart_threshold <= d.congestion_window
                      \/ /\ d.rtt_count = 0
                         /\ d.congestion_window + VegasMSS >= c.congestion_window
           G == {d \in VegasSenders : /\ VegasGood(d) /\ VegasKeeps(c, d)
                                      /\ cut => Kept(d)}
<1>1. c \in VegasSenders /\ c.congestion_window \in Nat
      BY DEF VegasGood, VegasShape, VegasSenders
<1>2. c \in G
      BY <1>1 DEF VegasKeeps
<1>3. ASSUME NEW d \in G, NEW p \in acked
      PROVE  Vegas!OnPacketAcked(d, p) \in G
  <2> DEFINE e == Vegas!OnPacketAcked(d, p)
  <2>1. VegasGood(d) /\ VegasKeeps(c, d) /\ (cut => Kept(d))
        OBVIOUS
  <2>2. p \in 1..d.largest_sent
        BY <2>1 DEF VegasKeeps
  <2>3. VegasGood(e) /\ VegasKeeps(d, e) /\ TakesLittle(d, e)
        BY <2>1, <2>2, AckIsSmall
  <2> HIDE DEF e
  <2>4. /\ e \in VegasSenders /\ d \in VegasSenders
        /\ {e.congestion_window, d.congestion_window, d.slowstart_threshold,
            e.slowstart_threshold, d.rtt_count} \subseteq Nat
        BY <2>1, <2>3 DEF VegasGood, VegasShape, VegasSenders
  <2>5. ASSUME cut
        PROVE  Kept(e)
    <3>1. Kept(d)
          BY <2>1, <2>5
    <3>2. ASSUME d.congestion_window >= c.congestion_window,
                 d.slowstart_threshold <= d.congestion_window
          PROVE  Kept(e)
      <4>1. ~Vegas!InSlowStart(d)
            BY <2>4, <3>2 DEF Vegas!InSlowStart
      <4> QED BY <1>1, <2>3, <2>4, <3>2, <4>1, VegasConstants DEF TakesLittle
    <3>3. ASSUME d.rtt_count = 0, d.congestion_window + VegasMSS >= c.congestion_window
          PROVE  Kept(e)
          BY <1>1, <2>3, <2>4, <3>3, VegasConstants DEF TakesLittle
    <3> QED BY <3>1, <3>2, <3>3
  <2>6. VegasKeeps(c, e)
        BY <2>1, <2>3 DEF VegasKeeps
  <2> HIDE DEF Kept, cut
  <2> QED BY <2>3, <2>4, <2>5, <2>6 DEF e
<1> HIDE DEF G
<1>4. Vegas!AckAll(c, acked) \in G
      BY <1>2, <1>3, VegasAcks
<1> DEFINE d == Vegas!AckAll(c, acked)
<1>5. VegasGood(d) /\ VegasKeeps(c, d) /\ (cut => Kept(d)) /\ d.congestion_window \in Nat
      BY <1>4 DEF G, VegasSenders
<1> HIDE DEF d
<1>6. cut => d.congestion_window + VegasMSS >= c.congestion_window
      BY <1>1, <1>5, VegasConstants
<1> QED BY <1>5, <1>6 DEF d

\* Vegas is off in recovery and on outside.
ModeIsNamed(c) == c.vegas_mode <=> ~Vegas!InRecovery(c)

LEMMA ModeIsSwitched ==
    ASSUME NEW c, VegasGood(c), ModeIsNamed(c), NEW d, VegasGood(d),
           d.vegas_mode = c.vegas_mode
    PROVE  LET e == Vegas!SwitchMode(c, d)
           IN  /\ VegasGood(e) /\ ModeIsNamed(e)
               /\ e.largest_sent = d.largest_sent
               /\ e.congestion_window = d.congestion_window
               /\ e.largest_sent_at_last_cutback = d.largest_sent_at_last_cutback
<1> DEFINE s == Vegas!StartEpoch(d)
           e1 == [d EXCEPT !.vegas_mode = FALSE]
           e2 == [s EXCEPT !.vegas_mode = TRUE]
           e == Vegas!SwitchMode(c, d)
           was == Vegas!InRecovery(c)
           is == Vegas!InRecovery(d)
           Goal(x) == /\ VegasGood(x) /\ ModeIsNamed(x)
                      /\ x.largest_sent = d.largest_sent
                      /\ x.congestion_window = d.congestion_window
                      /\ x.largest_sent_at_last_cutback = d.largest_sent_at_last_cutback
<1>1. /\ VegasShape(s) /\ VegasKeeps(d, s) /\ s.congestion_window = d.congestion_window
      /\ s.largest_acked = d.largest_acked
  <2>1. s.largest_acked = d.largest_acked
        BY DEF Vegas!StartEpoch, VegasGood, VegasShape, VegasSenders
  <2> QED BY <2>1, EpochStarts DEF VegasGood
<1>2. ASSUME is, ~was
      PROVE  e = e1
      BY <1>2 DEF Vegas!SwitchMode
<1>3. ASSUME ~is, was
      PROVE  e = e2
      BY <1>3 DEF Vegas!SwitchMode
<1>4. ASSUME is <=> was
      PROVE  e = d
  <2>1. ASSUME is, was PROVE e = d
        BY <2>1 DEF Vegas!SwitchMode
  <2>2. ASSUME ~is, ~was PROVE e = d
        BY <2>2 DEF Vegas!SwitchMode
  <2> QED BY <1>4, <2>1, <2>2
<1> HIDE DEF e, s
<1>5. ASSUME is
      PROVE  Goal(e1)
  <2>1. /\ VegasGood(e1) /\ ~e1.vegas_mode /\ e1.largest_sent = d.largest_sent
        /\ e1.congestion_window = d.congestion_window
        /\ e1.largest_sent_at_last_cutback = d.largest_sent_at_last_cutback
        /\ e1.largest_acked = d.largest_acked
        BY DEF VegasGood, VegasShape, VegasSenders
  <2>2. Vegas!InRecovery(e1)
        BY <1>5, <2>1 DEF Vegas!InRecovery
  <2> QED BY <2>1, <2>2 DEF ModeIsNamed
<1>6. ASSUME ~is
      PROVE  Goal(e2)
  <2>1. /\ VegasShape(e2) /\ e2.vegas_mode /\ e2.largest_sent = s.largest_sent
        /\ e2.congestion_window = s.congestion_window
        /\ e2.largest_sent_at_last_cutback = s.largest_sent_at_last_cutback
        /\ e2.largest_acked = s.largest_acked
        BY <1>1 DEF VegasShape, VegasSenders
  <2> HIDE DEF e2
  <2>2. ~Vegas!InRecovery(e2)
        BY <1>1, <1>6, <2>1 DEF Vegas!InRecovery, VegasKeeps
  <2> QED BY <1>1, <2>1, <2>2 DEF ModeIsNamed, VegasKeeps, VegasGood
<1>7. ASSUME is <=> was
      PROVE  Goal(d)
      BY <1>7 DEF ModeIsNamed
<1> HIDE DEF Goal, e1, e2
<1>8. Goal(e)
      BY <1>2, <1>3, <1>4, <1>5, <1>6, <1>7
<1> QED BY <1>8 DEF Goal, e

\* The sample of an event with acknowledgements.
LEMMA SampleIsGood ==
    ASSUME NEW c, VegasGood(c), vNow \in Nat, vNow >= 2, NEW rtt \in 0..VegasHorizon - 1
    PROVE  LET d == Vegas!TakeSample(c, rtt)
           IN  /\ VegasGood(d) /\ VegasKeeps(c, d)
               /\ d.congestion_window = c.congestion_window
               /\ d.largest_acked = c.largest_acked
<1> DEFINE samples == Vegas!UpdateFilter(c.rtt_samples, vNow, rtt + 1)
           min == Vegas!Min2(c.min_rtt, rtt + 1)
           count == c.rtt_count + 1
           d1 == [c EXCEPT !.rtt_samples = samples]
           d2 == [d1 EXCEPT !.min_rtt = min]
           d3 == [d2 EXCEPT !.rtt_count = count]
<1>1. /\ c \in VegasSenders /\ VegasShape(c) /\ c.rtt_count \in Nat
      /\ SamplesOK(c.rtt_samples, c.rtt_count, c.min_rtt)
      BY DEF VegasGood, VegasShape, VegasSenders
<1>2. rtt + 1 \in 1..VegasHorizon
      BY VegasConstants
<1>3. SamplesOK(samples, count, min)
      BY <1>1, <1>2, SampleIsTaken
<1>4. /\ samples \in SUBSET [time : Nat, rtt : Nat] /\ count \in Nat /\ min \in Nat
      BY <1>3, VegasConstants DEF SamplesOK
<1>5. Vegas!TakeSample(c, rtt) = d3
      BY DEF Vegas!TakeSample
<1> HIDE DEF samples, min, count
<1>6. /\ d1 \in VegasSenders /\ d1.rtt_samples = samples
      /\ d1.largest_sent = c.largest_sent /\ d1.largest_acked = c.largest_acked
      /\ d1.largest_sent_at_last_cutback = c.largest_sent_at_last_cutback
      /\ d1.beg_send_next = c.beg_send_next /\ d1.vegas_mode = c.vegas_mode
      /\ d1.failed_check = c.failed_check /\ d1.congestion_window = c.congestion_window
      BY <1>1, <1>4 DEF VegasSenders
<1> HIDE DEF d1
<1>7. /\ d2 \in VegasSenders /\ d2.rtt_samples = samples /\ d2.min_rtt = min
      /\ d2.largest_sent = c.largest_sent /\ d2.largest_acked = c.largest_acked
      /\ d2.largest_sent_at_last_cutback = c.largest_sent_at_last_cutback
      /\ d2.beg_send_next = c.beg_send_next /\ d2.vegas_mode = c.vegas_mode
      /\ d2.failed_check = c.failed_check /\ d2.congestion_window = c.congestion_window
      BY <1>4, <1>6 DEF VegasSenders
<1> HIDE DEF d2
<1>8. /\ d3 \in VegasSenders /\ d3.rtt_samples = samples /\ d3.min_rtt = min
      /\ d3.rtt_count = count
      /\ d3.largest_sent = c.largest_sent /\ d3.largest_acked = c.largest_acked
      /\ d3.largest_sent_at_last_cutback = c.largest_sent_at_last_cutback
      /\ d3.beg_send_next = c.beg_send_next /\ d3.vegas_mode = c.vegas_mode
      /\ d3.failed_check = c.failed_check /\ d3.congestion_window = c.congestion_window
      BY <1>4, <1>7 DEF VegasSenders
<1> HIDE DEF d3
<1> QED BY <1>3, <1>5, <1>8 DEF VegasGood, VegasShape, VegasKeeps

\* A congestion event.
LEMMA EventIsGood ==
    ASSUME NEW c, VegasGood(c), ModeIsNamed(c), vNow \in Nat,
           NEW acked, acked \subseteq 1..c.largest_sent,
           NEW lost, lost \subseteq 1..c.largest_sent,
           NEW rtt \in 0..VegasHorizon - 1, acked # {} => vNow >= 2
    PROVE  LET e == Vegas!CongestionEvent(c, acked, lost, rtt)
           IN  /\ VegasGood(e)
               /\ e.largest_sent = c.largest_sent
               /\ e.failed_check = "none" => ModeIsNamed(e)
               /\ e.largest_sent_at_last_cutback # c.largest_sent_at_last_cutback
                     => e.congestion_window >=
                           Vegas!Max2(Vegas!MinWindow, c.congestion_window \div 2 - VegasMSS)
<1> DEFINE sampled == IF acked = {} THEN c ELSE Vegas!TakeSample(c, rtt)
           cut == Vegas!LoseAll(sampled, lost)
           grown == Vegas!AckAll(cut, acked)
           e == IF grown.failed_check # "none" THEN grown ELSE Vegas!SwitchMode(c, grown)
           H == Vegas!Max2(c.congestion_window \div 2, Vegas!MinWindow)
<1>1. /\ VegasGood(sampled) /\ VegasKeeps(c, sampled)
      /\ sampled.congestion_window = c.congestion_window
  <2>1. VegasKeeps(c, c)
        BY DEF VegasKeeps
  <2>2. CASE acked = {}
        BY <2>1, <2>2
  <2>3. CASE acked # {}
        BY <2>3, SampleIsGood
  <2> QED BY <2>2, <2>3
<1> HIDE DEF sampled
<1>2. HalvedOnce(sampled, cut)
      BY <1>1, LossesHalveOnce DEF VegasKeeps
<1> HIDE DEF cut
<1>3. /\ VegasGood(cut) /\ cut.largest_sent = c.largest_sent
      /\ cut.vegas_mode = c.vegas_mode
      /\ \/ cut.largest_sent_at_last_cutback = c.largest_sent_at_last_cutback
         \/ cut.congestion_window = H /\ cut.slowstart_threshold = H
      BY <1>1, <1>2 DEF HalvedOnce, VegasKeeps
<1>4. /\ VegasGood(grown) /\ VegasKeeps(cut, grown)
      /\ cut.slowstart_threshold <= cut.congestion_window
            => grown.congestion_window + VegasMSS >= cut.congestion_window
      BY <1>3, AcksTakeLittle
<1> HIDE DEF grown
<1>5. grown.vegas_mode = c.vegas_mode /\ grown.largest_sent = c.largest_sent
      BY <1>3, <1>4 DEF VegasKeeps
<1>6. /\ VegasGood(e) /\ e.largest_sent = c.largest_sent
      /\ e.failed_check = "none" => ModeIsNamed(e)
      /\ e.congestion_window = grown.congestion_window
      /\ e.largest_sent_at_last_cutback = grown.largest_sent_at_last_cutback
  <2>1. CASE grown.failed_check # "none"
        BY <1>4, <1>5, <2>1
  <2>2. CASE grown.failed_check = "none"
    <3> DEFINE s == Vegas!SwitchMode(c, grown)
    <3>1. /\ VegasGood(s) /\ ModeIsNamed(s)
          /\ s.largest_sent = grown.largest_sent
          /\ s.congestion_window = grown.congestion_window
          /\ s.largest_sent_at_last_cutback = grown.largest_sent_at_last_cutback
          BY <1>4, <1>5, ModeIsSwitched
    <3>2. e = s
          BY <2>2
    <3> HIDE DEF s, e
    <3> QED BY <1>5, <3>1, <3>2
  <2> QED BY <2>1, <2>2
<1>7. Vegas!CongestionEvent(c, acked, lost, rtt) = e
      BY DEF Vegas!CongestionEvent, sampled, cut, grown
<1> HIDE DEF e
<1>8. ASSUME e.largest_sent_at_last_cutback # c.largest_sent_at_last_cutback
      PROVE  e.congestion_window >=
                Vegas!Max2(Vegas!MinWindow, c.congestion_window \div 2 - VegasMSS)
  <2>1. cut.congestion_window = H /\ cut.slowstart_threshold = H
        BY <1>3, <1>4, <1>6, <1>8 DEF VegasKeeps
  <2>2. /\ c.congestion_window \in Nat /\ e.congestion_window \in Nat
        /\ e.congestion_window >= Vegas!MinWindow
        BY <1>6 DEF VegasGood, VegasShape, VegasSenders
  <2>3. c.congestion_window \div 2 \in Nat
        BY <2>2
  <2>4. H \in Nat /\ H >= c.congestion_window \div 2
        BY <2>3, VegasConstants DEF Vegas!Max2
  <2> HIDE DEF H
  <2>5. e.congestion_window + VegasMSS >= H
        BY <1>4, <1>6, <2>1, <2>4
  <2> QED BY <2>2, <2>3, <2>4, <2>5, VegasConstants DEF Vegas!Max2
<1> QED BY <1>6, <1>7, <1>8

-----------------------------------------------------------------------------
(***************************************************************************)
(* The packets and the clock around it.                                    *)
(***************************************************************************)

VegasInv ==
    /\ VegasGood(vSender)
    /\ Vegas!Working => ModeIsNamed(vSender)
    /\ vNow \in 1..VegasHorizon
    /\ vInFlight \subseteq 1..vSender.largest_sent
    /\ vSentTime \in [Vegas!Packets -> 0..vNow]
    /\ \A p \in 1..vSender.largest_sent : vSentTime[p] >= 1
    /\ vLatestRtt \in 0..VegasHorizon - 1

LEMMA VegasInvImplies ==
    ASSUME VegasInv
    PROVE  /\ Vegas!TypeOK /\ Vegas!ModeFollowsRecovery /\ Vegas!EpochHasSamples
           /\ Vegas!ChecksHoldInWindow
<1>1. /\ vSender \in VegasSenders /\ VegasGood(vSender)
      /\ SamplesOK(vSender.rtt_samples, vSender.rtt_count, vSender.min_rtt)
      BY DEF VegasInv, VegasGood, VegasShape
<1>2. Vegas!TypeOK
  <2>1. /\ vSender.congestion_window \in Nat /\ vSender.slowstart_threshold \in Nat
        /\ vSender.congestion_window >= Vegas!MinWindow
        /\ vSender.num_acked_packets \in Nat
        /\ vSender.largest_sent \in 0..VegasMaxPackets
        /\ vSender.largest_acked \in 0..vSender.largest_sent
        /\ vSender.largest_sent_at_last_cutback \in 0..vSender.largest_sent
        /\ vSender.beg_send_next \in 0..vSender.largest_sent
        BY <1>1, VegasConstants DEF VegasGood, VegasShape, VegasSenders
  <2>2. vNow \in 1..VegasHorizon
        BY DEF VegasInv
  <2>3. 2..vNow \subseteq 1..vNow
        BY <2>2, VegasConstants
  <2>4. /\ vSender.rtt_samples \subseteq [time : 1..vNow, rtt : 1..VegasHorizon]
        /\ vSender.min_rtt \in 1..VegasHorizon \cup {Vegas!Infinite}
        /\ vSender.rtt_count \in Nat
        BY <1>1, <2>3 DEF SamplesOK
  <2>5. vSender.vegas_mode \in BOOLEAN
        BY <1>1 DEF VegasSenders
  <2>6. vInFlight \subseteq 1..vSender.largest_sent
        BY DEF VegasInv
  <2> QED BY <2>1, <2>2, <2>4, <2>5, <2>6 DEF Vegas!TypeOK
<1>3. Vegas!ModeFollowsRecovery
  <2>1. vSender.vegas_mode \in BOOLEAN /\ Vegas!InRecovery(vSender) \in BOOLEAN
        BY <1>1 DEF VegasSenders, Vegas!InRecovery
  <2> QED BY <2>1 DEF VegasInv, ModeIsNamed, Vegas!ModeFollowsRecovery
<1>4. Vegas!EpochHasSamples
      BY <1>1 DEF SamplesOK, Vegas!EpochHasSamples
<1>5. Vegas!ChecksHoldInWindow
      BY <1>1 DEF VegasGood, VegasShape, Vegas!ChecksHoldInWindow, Vegas!Working
<1> QED BY <1>2, <1>3, <1>4, <1>5

LEMMA VegasBegins ==
    ASSUME Vegas!Init
    PROVE  VegasInv
<1> DEFINE new == [congestion_window |-> VegasInitialPackets * VegasMSS,
                   slowstart_threshold |-> VegasMaxWindowPackets * VegasMSS,
                   num_acked_packets |-> 0,
                   largest_sent |-> 0,
                   largest_acked |-> 0,
                   largest_sent_at_last_cutback |-> 0,
                   beg_send_next |-> 0,
                   rtt_samples |-> {},
                   min_rtt |-> Vegas!Infinite,
                   rtt_count |-> 0,
                   vegas_mode |-> TRUE,
                   failed_check |-> "none"]
<1>1. vSender = new
      BY DEF Vegas!Init
<1>2. /\ VegasInitialPackets * VegasMSS \in Nat /\ VegasMaxWindowPackets * VegasMSS \in Nat
      /\ VegasInitialPackets * VegasMSS >= Vegas!MinWindow
  <2>1. (VegasInitialPackets - 4) * VegasMSS \in Nat
        BY VegasConstants, ProductIsNatural
  <2>2. (VegasInitialPackets - 4) * VegasMSS = VegasInitialPackets * VegasMSS - 4 * VegasMSS
        BY VegasConstants
  <2>3. VegasInitialPackets * VegasMSS \in Nat /\ VegasMaxWindowPackets * VegasMSS \in Nat
        BY VegasConstants
  <2> QED BY <2>1, <2>2, <2>3, VegasConstants
<1>3. SamplesOK({}, 0, Vegas!Infinite)
      BY DEF SamplesOK
<1>4. new \in VegasSenders
  <2>1. TRUE \in BOOLEAN
        OBVIOUS
  <2>2. 0 \in 0..VegasMaxPackets /\ {} \in SUBSET [time : Nat, rtt : Nat]
        BY VegasConstants
  <2> QED BY <1>2, <2>1, <2>2, VegasConstants DEF VegasSenders
<1>5. VegasGood(new)
      BY <1>2, <1>3, <1>4 DEF VegasGood, VegasShape
<1>6. ModeIsNamed(new)
      BY DEF ModeIsNamed, Vegas!InRecovery
<1>7. new.largest_sent = 0
      OBVIOUS
<1> HIDE DEF new
<1>8. vNow = 1 /\ vInFlight = {} /\ vLatestRtt = 0 /\ vSentTime = [p \in Vegas!Packets |-> 0]
      BY DEF Vegas!Init
<1>9. vNow \in 1..VegasHorizon /\ vLatestRtt \in 0..VegasHorizon - 1
      BY <1>8, VegasConstants
<1>10. vSentTime \in [Vegas!Packets -> 0..vNow]
      BY <1>8
<1> QED BY <1>1, <1>5, <1>6, <1>7, <1>8, <1>9, <1>10 DEF VegasInv

LEMMA Largest ==
    ASSUME NEW n \in Nat, NEW T, T \subseteq 1..n, T # {}
    PROVE  \E m \in T : \A k \in T : k <= m
<1> DEFINE U == {n - k : k \in T}
<1>1. \A k \in T : k \in Nat /\ n - k \in Nat
      OBVIOUS
<1>2. U \subseteq Nat
      BY <1>1
<1>3. U # {}
  <2>1. PICK k \in T : TRUE
        OBVIOUS
  <2>2. n - k \in U
        OBVIOUS
  <2> QED BY <2>2
<1>4. PICK u \in U : \A w \in U : u <= w
      BY <1>2, <1>3, LeastNatural
<1>5. PICK m \in T : u = n - m
      OBVIOUS
<1>6. ASSUME NEW k \in T
      PROVE  k <= m
  <2>1. n - k \in U
        OBVIOUS
  <2>2. n - m <= n - k
        BY <1>4, <1>5, <2>1
  <2>3. k \in Nat /\ m \in Nat
        BY <1>1
  <2> HIDE DEF U
  <2> QED BY <2>2, <2>3
<1> QED BY <1>6

LEMMA VegasSends ==
    ASSUME VegasInv, Vegas!SendPacket
    PROVE  VegasInv' /\ vSender'.largest_sent_at_last_cutback = vSender.largest_sent_at_last_cutback
<1> DEFINE p == vSender.largest_sent + 1
           beg == IF vSender.beg_send_next = 0 THEN p ELSE vSender.beg_send_next
           d1 == [vSender EXCEPT !.largest_sent = p]
           d2 == [d1 EXCEPT !.beg_send_next = beg]
<1>1. /\ p \in Vegas!Packets /\ vSender' = d2 /\ vInFlight' = vInFlight \cup {p}
      /\ vSentTime' = [vSentTime EXCEPT ![p] = vNow]
      /\ vNow' = vNow /\ vLatestRtt' = vLatestRtt
      BY DEF Vegas!SendPacket
<1>2. /\ vSender \in VegasSenders /\ VegasGood(vSender) /\ vSender.largest_sent \in Nat
      /\ vSender.beg_send_next \in Nat /\ vSender.beg_send_next <= vSender.largest_sent
      /\ p \in Nat /\ p <= VegasMaxPackets /\ vNow \in Nat /\ vNow >= 1
  <2>1. /\ vSender \in VegasSenders /\ VegasGood(vSender)
        /\ vSender.beg_send_next <= vSender.largest_sent /\ vNow \in 1..VegasHorizon
        BY DEF VegasInv, VegasGood, VegasShape
  <2>2. vSender.largest_sent \in Nat /\ vSender.beg_send_next \in Nat
        BY <2>1, VegasConstants DEF VegasSenders
  <2>3. p \in Nat /\ p <= VegasMaxPackets
        BY <1>1, VegasConstants DEF Vegas!Packets
  <2>4. vNow \in Nat /\ vNow >= 1
        BY <2>1, VegasConstants
  <2> QED BY <2>1, <2>2, <2>3, <2>4
<1>3. beg \in Nat /\ beg > 0 /\ beg <= p /\ p \in 0..VegasMaxPackets
      BY <1>2, VegasConstants
<1>4. p = vSender.largest_sent + 1
      OBVIOUS
<1> HIDE DEF beg, p
<1>5. /\ d1 \in VegasSenders /\ d1.largest_sent = p
      /\ d1.rtt_samples = vSender.rtt_samples /\ d1.min_rtt = vSender.min_rtt
      /\ d1.rtt_count = vSender.rtt_count /\ d1.largest_acked = vSender.largest_acked
      /\ d1.largest_sent_at_last_cutback = vSender.largest_sent_at_last_cutback
      /\ d1.vegas_mode = vSender.vegas_mode /\ d1.failed_check = vSender.failed_check
      /\ d1.congestion_window = vSender.congestion_window
      BY <1>2, <1>3 DEF VegasSenders
<1> HIDE DEF d1
<1>6. /\ d2 \in VegasSenders /\ d2.largest_sent = p /\ d2.beg_send_next = beg
      /\ d2.rtt_samples = vSender.rtt_samples /\ d2.min_rtt = vSender.min_rtt
      /\ d2.rtt_count = vSender.rtt_count /\ d2.largest_acked = vSender.largest_acked
      /\ d2.largest_sent_at_last_cutback = vSender.largest_sent_at_last_cutback
      /\ d2.vegas_mode = vSender.vegas_mode /\ d2.failed_check = vSender.failed_check
      /\ d2.congestion_window = vSender.congestion_window
      BY <1>3, <1>5 DEF VegasSenders
<1> HIDE DEF d2
<1>7. VegasGood(d2)
  <2>1. d2.largest_acked \in Nat /\ d2.largest_sent_at_last_cutback \in Nat
        BY <1>6 DEF VegasSenders
  <2>2. d2.largest_acked <= p /\ d2.largest_sent_at_last_cutback <= p
        BY <1>2, <1>4, <1>6, <2>1 DEF VegasGood, VegasShape
  <2> QED BY <1>2, <1>3, <1>6, <2>2 DEF VegasGood, VegasShape
<1>8. ModeIsNamed(vSender) => ModeIsNamed(d2)
      BY <1>6 DEF ModeIsNamed, Vegas!InRecovery
<1>9. VegasGood(vSender)'
      BY <1>1, <1>7 DEF VegasGood, VegasShape, SamplesOK
<1>10. Vegas!Working' => ModeIsNamed(vSender)'
      BY <1>1, <1>6, <1>8 DEF VegasInv, Vegas!Working, ModeIsNamed, Vegas!InRecovery
<1>11. vInFlight' \subseteq 1..vSender'.largest_sent
  <2>1. vInFlight \subseteq 1..vSender.largest_sent
        BY DEF VegasInv
  <2>2. 1..vSender.largest_sent \subseteq 1..p /\ p \in 1..p
        BY <1>2, <1>4
  <2>3. vSender'.largest_sent = p
        BY <1>1, <1>6
  <2> QED BY <1>1, <2>1, <2>2, <2>3
<1>12. vSentTime' \in [Vegas!Packets -> 0..vNow]
      BY <1>1, <1>2 DEF VegasInv
<1>13. ASSUME NEW q \in 1..vSender'.largest_sent
       PROVE  vSentTime'[q] >= 1
  <2>1. vSentTime \in [Vegas!Packets -> 0..vNow] /\ q \in Nat /\ q <= p /\ q >= 1
        BY <1>1, <1>2, <1>6, <1>13 DEF VegasInv
  <2>2. CASE q = p
        BY <1>1, <1>2, <2>1, <2>2
  <2>3. CASE q # p
    <3>1. q \in 1..vSender.largest_sent /\ q \in Vegas!Packets
      <4>1. q <= vSender.largest_sent /\ q <= VegasMaxPackets
            BY <1>2, <1>4, <2>1, <2>3, VegasConstants
      <4> QED BY <2>1, <4>1 DEF Vegas!Packets
    <3>2. vSentTime'[q] = vSentTime[q]
          BY <1>1, <2>1, <2>3, <3>1
    <3> QED BY <3>1, <3>2 DEF VegasInv
  <2> QED BY <2>2, <2>3
<1>14. VegasInv'
      BY <1>1, <1>9, <1>10, <1>11, <1>12, <1>13 DEF VegasInv, Vegas!Packets
<1> QED BY <1>1, <1>6, <1>14

LEMMA VegasHears ==
    ASSUME VegasInv, NEW acked, acked \subseteq vInFlight, NEW lost, lost \subseteq vInFlight,
           Vegas!OnCongestionEvent(acked, lost)
    PROVE  /\ VegasInv'
           /\ Vegas!LossEvent => vSender'.congestion_window >=
                Vegas!Max2(Vegas!MinWindow, vSender.congestion_window \div 2 - VegasMSS)
<1> DEFINE newest == CHOOSE p \in acked : \A q \in acked : q <= p
           rtt == IF acked # {} /\ newest > vSender.largest_acked
                  THEN vNow - vSentTime[newest] ELSE vLatestRtt
<1>1. /\ Vegas!Working
      /\ \A p \in acked : vSentTime[p] < vNow
      /\ vLatestRtt' = rtt
      /\ vSender' = Vegas!CongestionEvent(vSender, acked, lost, rtt)
      /\ vInFlight' = vInFlight \ (acked \cup lost)
      /\ vNow' = vNow /\ vSentTime' = vSentTime
      BY DEF Vegas!OnCongestionEvent
<1>2. /\ VegasGood(vSender) /\ ModeIsNamed(vSender) /\ vNow \in Nat /\ vNow >= 1
      /\ vNow <= VegasHorizon /\ VegasHorizon \in Nat
      /\ vSender.largest_sent \in Nat /\ vSender.largest_sent <= VegasMaxPackets
      /\ acked \subseteq 1..vSender.largest_sent /\ lost \subseteq 1..vSender.largest_sent
      BY <1>1, VegasConstants DEF VegasInv, VegasGood, VegasShape, VegasSenders
<1>3. ASSUME NEW p \in acked
      PROVE  vSentTime[p] \in Nat /\ vSentTime[p] >= 1 /\ vSentTime[p] < vNow
  <2>1. p \in 1..vSender.largest_sent /\ p \in Vegas!Packets
        BY <1>2, VegasConstants DEF Vegas!Packets
  <2> QED BY <1>1, <2>1 DEF VegasInv
<1>4. acked # {} => vNow >= 2 /\ newest \in acked
  <2>1. SUFFICES ASSUME acked # {}
                 PROVE  vNow >= 2 /\ newest \in acked
        OBVIOUS
  <2>2. \E m \in acked : \A k \in acked : k <= m
        BY <1>2, <2>1, Largest
  <2>3. newest \in acked
        BY <2>2
  <2> HIDE DEF newest
  <2> QED BY <1>2, <1>3, <2>3
<1> HIDE DEF newest
<1>5. rtt \in 0..VegasHorizon - 1
  <2>1. vLatestRtt \in 0..VegasHorizon - 1
        BY DEF VegasInv
  <2>2. ASSUME acked # {}, newest > vSender.largest_acked
        PROVE  vNow - vSentTime[newest] \in 0..VegasHorizon - 1
    <3>1. newest \in acked
          BY <1>4, <2>2
    <3>2. /\ vSentTime[newest] \in Nat /\ vSentTime[newest] >= 1
          /\ vSentTime[newest] < vNow
          BY <1>3, <3>1
    <3> QED BY <1>2, <3>2
  <2> QED BY <2>1, <2>2
<1> HIDE DEF rtt
<1> DEFINE e == Vegas!CongestionEvent(vSender, acked, lost, rtt)
<1>6. /\ VegasGood(e)
      /\ e.largest_sent = vSender.largest_sent
      /\ e.failed_check = "none" => ModeIsNamed(e)
      /\ e.largest_sent_at_last_cutback # vSender.largest_sent_at_last_cutback
            => e.congestion_window >=
                Vegas!Max2(Vegas!MinWindow, vSender.congestion_window \div 2 - VegasMSS)
      BY <1>2, <1>4, <1>5, EventIsGood
<1>7. vSender' = e
      BY <1>1
<1> HIDE DEF e
<1>8. VegasGood(vSender)'
      BY <1>1, <1>6, <1>7 DEF VegasGood, VegasShape, SamplesOK
<1>9. Vegas!Working' => ModeIsNamed(vSender)'
      BY <1>6, <1>7 DEF Vegas!Working, ModeIsNamed, Vegas!InRecovery
<1>10. VegasInv'
      BY <1>1, <1>5, <1>6, <1>7, <1>8, <1>9 DEF VegasInv, Vegas!Packets
<1> QED BY <1>6, <1>7, <1>10 DEF Vegas!LossEvent

LEMMA VegasWaits ==
    ASSUME VegasInv, Vegas!Tick
    PROVE  VegasInv'
<1>1. /\ vNow' = vNow + 1 /\ vNow < VegasHorizon /\ vSender' = vSender
      /\ vInFlight' = vInFlight /\ vSentTime' = vSentTime /\ vLatestRtt' = vLatestRtt
      BY DEF Vegas!Tick
<1>2. vNow \in Nat /\ vNow >= 1 /\ VegasHorizon \in Nat /\ Window \in Nat
      BY VegasConstants DEF VegasInv
<1>3. 2..vNow \subseteq 2..vNow' /\ 0..vNow \subseteq 0..vNow' /\ vNow' \in 1..VegasHorizon
      BY <1>1, <1>2
<1>4. vNow' <= Window + 2 => vNow <= Window + 2
      BY <1>1, <1>2
<1>5. SamplesOK(vSender.rtt_samples, vSender.rtt_count, vSender.min_rtt)
      BY DEF VegasInv, VegasGood, VegasShape
<1>6. SamplesOK(vSender.rtt_samples, vSender.rtt_count, vSender.min_rtt)'
      BY <1>1, <1>3, <1>4, <1>5 DEF SamplesOK
<1>7. VegasGood(vSender)'
      BY <1>1, <1>4, <1>6 DEF VegasInv, VegasGood, VegasShape
<1> QED BY <1>1, <1>3, <1>7
        DEF VegasInv, Vegas!Working, ModeIsNamed, Vegas!InRecovery, Vegas!Packets

LEMMA VegasStep ==
    ASSUME VegasInv, Vegas!Next
    PROVE  /\ VegasInv'
           /\ Vegas!LossEvent => vSender'.congestion_window >=
                Vegas!Max2(Vegas!MinWindow, vSender.congestion_window \div 2 - VegasMSS)
<1>1. CASE Vegas!SendPacket
      BY <1>1, VegasSends DEF Vegas!LossEvent
<1>2. CASE \E acked, lost \in SUBSET vInFlight : Vegas!OnCongestionEvent(acked, lost)
      BY <1>2, VegasHears
<1>3. CASE Vegas!Tick
  <2>1. vSender' = vSender
        BY <1>3 DEF Vegas!Tick
  <2> QED BY <1>3, <2>1, VegasWaits DEF Vegas!LossEvent
<1> QED BY <1>1, <1>2, <1>3 DEF Vegas!Next

LEMMA VegasStutter ==
    ASSUME VegasInv, UNCHANGED vegasVars
    PROVE  VegasInv'
BY DEF VegasInv, vegasVars, VegasGood, VegasShape, SamplesOK, Vegas!Working, ModeIsNamed,
       Vegas!InRecovery, Vegas!Packets

-----------------------------------------------------------------------------
(***************************************************************************)
(* CDG.                                                                    *)
(***************************************************************************)

LEMMA CdgConstants ==
    /\ CdgMSS \in Nat \ {0} /\ RttWin \in Nat \ {0}
    /\ CdgInitialPackets \in Nat /\ CdgMaxWindowPackets \in Nat
    /\ UseShadow \in BOOLEAN
    /\ Shadows \subseteq Nat /\ Ineffective \subseteq Nat /\ CdgRtts \subseteq Nat
    /\ CdgMaxPackets \in Nat
    /\ Cdg!MinWindow \in Nat /\ Cdg!MinWindow = 2 * CdgMSS
<1>1. Cdg!CdgAssumption
      BY ControllersAssumption
<1>2. CdgMSS \in Nat \ {0} /\ RttWin \in Nat \ {0} /\ UseShadow \in BOOLEAN
      BY <1>1 DEF Cdg!CdgAssumption
<1>3. CdgInitialPackets \in Nat /\ CdgMaxWindowPackets \in Nat
      BY <1>1 DEF Cdg!CdgAssumption
<1>4. /\ Shadows \subseteq Nat /\ Ineffective \subseteq Nat /\ CdgRtts \subseteq Nat
      /\ CdgMaxPackets \in Nat
      BY <1>1 DEF Cdg!CdgAssumption
<1> QED BY <1>2, <1>3, <1>4 DEF Cdg!MinWindow

\* What the losses of an event do not leave.
LEMMA CdgLoses ==
    ASSUME NEW G, NEW c \in G, NEW lost,
           \A d \in G : \A p \in lost : Cdg!OnPacketLost(d, p) \in G
    PROVE  Cdg!LoseAll(c, lost) \in G
<1> DEFINE Body(g) == [p \in Nat |-> IF p = 0 THEN c
                                     ELSE IF p \in lost THEN Cdg!OnPacketLost(g[p - 1], p)
                                     ELSE g[p - 1]]
           step == [x \in Nat \X G |-> IF x[1] \in lost THEN Cdg!OnPacketLost(x[2], x[1])
                                       ELSE x[2]]
<1>1. \E f : f = Body(f)
  <2>1. step \in [Nat \X G -> G]
        OBVIOUS
  <2> HIDE DEF step
  <2>2. PICK f : Recurs(f, G, c, step)
        BY <2>1, Recursion
  <2> USE DEF step, Recurs
  <2>3. ASSUME NEW n \in Nat
        PROVE  f[n] = Body(f)[n]
    <3>1. CASE n = 0
          BY <2>2, <3>1
    <3>2. CASE n # 0
      <4>1. n - 1 \in Nat /\ (n - 1) + 1 = n /\ f[n - 1] \in G
            BY <2>2, <3>2
      <4>2. f[(n - 1) + 1] = step[<<(n - 1) + 1, f[n - 1]>>]
            BY <2>2, <4>1
      <4> QED BY <3>2, <4>1, <4>2
    <3> QED BY <3>1, <3>2
  <2>4. f = Body(f)
        BY <2>2, <2>3
  <2> QED BY <2>4
<1> DEFINE h == CHOOSE g : g = Body(g)
<1>2. h = Body(h)
      BY <1>1
<1> HIDE DEF h
<1> DEFINE P == {n \in Nat : h[n] \in G}
<1>3. 0 \in P
      BY <1>2
<1>4. ASSUME NEW n \in Nat, n \in P
      PROVE  n + 1 \in P
  <2>1. h[n + 1] = IF n + 1 \in lost THEN Cdg!OnPacketLost(h[n], n + 1) ELSE h[n]
        BY <1>2
  <2> QED BY <1>4, <2>1
<1> HIDE DEF P
<1>5. CdgMaxPackets \in P
      BY <1>3, <1>4, SetInduction, CdgConstants
<1>6. Cdg!LoseAll(c, lost) = h[CdgMaxPackets]
      BY DEF Cdg!LoseAll, h
<1> QED BY <1>5, <1>6 DEF P

\* What the handling of one acknowledged packet is, its round included.
AckOf(c, p, prior) == Cdg!OnPacketAcked(Cdg!UpdateRoundTripEnd(c, p), p, prior)

\* What the acknowledgements do not leave, and what holds of the packets up to
\* any number once they are handled: G pairs the number with the state.
LEMMA CdgAcks ==
    ASSUME NEW D, NEW c \in D, NEW acked, NEW prior, NEW G,
           \A d \in D : \A p \in acked : AckOf(d, p, prior) \in D,
           <<0, c>> \in G,
           \A n \in Nat, d \in D : <<n, d>> \in G =>
                <<n + 1, IF n + 1 \in acked THEN AckOf(d, n + 1, prior) ELSE d>> \in G
    PROVE  /\ Cdg!AckAll(c, acked, prior) \in D
           /\ <<CdgMaxPackets, Cdg!AckAll(c, acked, prior)>> \in G
<1> DEFINE Body(g) == [p \in Nat |-> IF p = 0 THEN c
                                     ELSE IF p \in acked THEN AckOf(g[p - 1], p, prior)
                                     ELSE g[p - 1]]
           step == [x \in Nat \X D |-> IF x[1] \in acked THEN AckOf(x[2], x[1], prior)
                                       ELSE x[2]]
<1>1. \E f : f = Body(f)
  <2>1. step \in [Nat \X D -> D]
        OBVIOUS
  <2> HIDE DEF step
  <2>2. PICK f : Recurs(f, D, c, step)
        BY <2>1, Recursion
  <2> USE DEF step, Recurs
  <2>3. ASSUME NEW n \in Nat
        PROVE  f[n] = Body(f)[n]
    <3>1. CASE n = 0
          BY <2>2, <3>1
    <3>2. CASE n # 0
      <4>1. n - 1 \in Nat /\ (n - 1) + 1 = n /\ f[n - 1] \in D
            BY <2>2, <3>2
      <4>2. f[(n - 1) + 1] = step[<<(n - 1) + 1, f[n - 1]>>]
            BY <2>2, <4>1
      <4> QED BY <3>2, <4>1, <4>2
    <3> QED BY <3>1, <3>2
  <2>4. f = Body(f)
        BY <2>2, <2>3
  <2> QED BY <2>4
<1> DEFINE h == CHOOSE g : g = Body(g)
<1>2. h = Body(h)
      BY <1>1
<1> HIDE DEF h
<1> DEFINE P == {n \in Nat : h[n] \in D /\ <<n, h[n]>> \in G}
<1>3. 0 \in P
      BY <1>2
<1>4. ASSUME NEW n \in Nat, n \in P
      PROVE  n + 1 \in P
  <2>1. h[n + 1] = IF n + 1 \in acked THEN AckOf(h[n], n + 1, prior) ELSE h[n]
        BY <1>2
  <2>2. h[n] \in D /\ <<n, h[n]>> \in G
        BY <1>4
  <2>3. h[n + 1] \in D
        BY <2>1, <2>2
  <2>4. <<n + 1, h[n + 1]>> \in G
        BY <2>1, <2>2
  <2> QED BY <2>3, <2>4
<1> HIDE DEF P
<1>5. CdgMaxPackets \in P
      BY <1>3, <1>4, SetInduction, CdgConstants
<1>6. Cdg!AckAll(c, acked, prior) = h[CdgMaxPackets]
      BY DEF Cdg!AckAll, AckOf, h
<1> QED BY <1>5, <1>6 DEF P

-----------------------------------------------------------------------------
(***************************************************************************)
(* The state of the controller, and what its operations do to it.          *)
(***************************************************************************)

MinMax == [min : Nat, max : Nat]
Difference == [min : Int, max : Int]

CdgSenders ==
    [congestion_window : Nat, slowstart_threshold : Nat, num_acked_packets : Nat,
     largest_sent : Nat, largest_acked : Nat, largest_sent_at_last_cutback : Nat,
     current_round_trip_end : Nat, shadow_congestion_window : Nat,
     cong_state : {"Open", "CWR", "Recovery"}, cdg_state : {"UNKNOWN", "BACKOFF"},
     use_ineff : Nat, backoff_count : Nat, cdg_rtt : MinMax, cdg_rtt_prev : MinMax,
     cdg_gsum : Difference, ring : [0..(RttWin - 1) -> Difference],
     gfilled : BOOLEAN, tail : 0..(RttWin - 1)]

CdgShape(c) ==
    /\ c \in CdgSenders
    /\ c.largest_sent <= CdgMaxPackets
    /\ c.largest_acked <= c.largest_sent
    /\ c.largest_sent_at_last_cutback <= c.largest_sent
    /\ c.current_round_trip_end <= c.largest_sent

\* Until a packet sent after the cut is acknowledged, cong_state names the cut.
CutIsNamed(c) ==
    /\ /\ c.largest_sent_at_last_cutback # 0
       /\ c.largest_acked <= c.largest_sent_at_last_cutback
       => c.cong_state # "Open"
    /\ c.cong_state = "CWR" => c.cdg_state = "BACKOFF"

CdgGood(c) == CdgShape(c) /\ CutIsNamed(c)

LEMMA HalfIsNatural ==
    ASSUME NEW w \in Nat
    PROVE  /\ w \div 2 \in Nat /\ (w * 707) \div 1000 \in Nat
           /\ w \div 2 <= (w * 707) \div 1000 /\ (w * 707) \div 1000 <= w
           /\ \A v \in Nat : v <= w => (v * 707) \div 1000 <= (w * 707) \div 1000
OBVIOUS

\* The slow threshold: the window and the shadow window, nothing else.
LEMMA SlowThreshold ==
    ASSUME NEW c, CdgGood(c)
    PROVE  LET d == Cdg!CdgGetSlowThreshold(c)
           IN  /\ CdgGood(d)
               /\ d.largest_sent = c.largest_sent
               /\ d.largest_acked = c.largest_acked
               /\ d.current_round_trip_end = c.current_round_trip_end
               /\ d.cong_state = c.cong_state
               /\ c.cdg_state = "BACKOFF"
                     => d.congestion_window = (c.congestion_window * 707) \div 1000
               /\ d.congestion_window >= c.congestion_window \div 2
<1> DEFINE W == c.congestion_window
           half == W \div 2
           shadow == Cdg!Min2(W, c.shadow_congestion_window \div 2)
           floor == IF UseShadow THEN Cdg!Max2(Cdg!MinWindow, shadow) ELSE Cdg!MinWindow
           scaled == (W * 707) \div 1000
           halved == Cdg!Max2(floor, half)
           d1 == [c EXCEPT !.congestion_window = scaled]
           d2 == [c EXCEPT !.congestion_window = halved]
           d3 == [d2 EXCEPT !.shadow_congestion_window = shadow]
           Goal(d) == /\ CdgGood(d)
                      /\ d.largest_sent = c.largest_sent
                      /\ d.largest_acked = c.largest_acked
                      /\ d.current_round_trip_end = c.current_round_trip_end
                      /\ d.cong_state = c.cong_state
                      /\ d.congestion_window >= c.congestion_window \div 2
<1>1. c \in CdgSenders /\ W \in Nat /\ c.shadow_congestion_window \in Nat
      BY DEF CdgGood, CdgShape, CdgSenders
<1>2. half \in Nat /\ scaled \in Nat /\ half <= scaled
      BY <1>1, HalfIsNatural
<1>3. shadow \in Nat
  <2>1. c.shadow_congestion_window \div 2 \in Nat
        BY <1>1, HalfIsNatural
  <2> QED BY <1>1, <2>1 DEF Cdg!Min2
<1> HIDE DEF shadow
<1>4. floor \in Nat
      BY <1>3, CdgConstants DEF Cdg!Max2
<1> HIDE DEF floor
<1>5. halved \in Nat /\ halved >= half
      BY <1>2, <1>4 DEF Cdg!Max2
<1>6. Cdg!CdgGetSlowThreshold(c) = IF c.cdg_state = "BACKOFF" THEN d1 ELSE d3
      BY DEF Cdg!CdgGetSlowThreshold, floor, shadow
<1> HIDE DEF halved, half, scaled
<1>7. Goal(d1) /\ d1.congestion_window = scaled
      BY <1>1, <1>2 DEF CdgGood, CdgShape, CdgSenders, CutIsNamed, half
<1>8. Goal(d2)
      BY <1>1, <1>5 DEF CdgGood, CdgShape, CdgSenders, CutIsNamed, half
<1>9. d2 \in CdgSenders
      BY <1>8 DEF CdgGood, CdgShape
<1> HIDE DEF d1, d2
<1>10. Goal(d3)
      BY <1>3, <1>8, <1>9 DEF CdgGood, CdgShape, CdgSenders, CutIsNamed
<1> HIDE DEF d3, Goal
<1>11. Goal(Cdg!CdgGetSlowThreshold(c))
      BY <1>6, <1>7, <1>10
<1>12. c.cdg_state = "BACKOFF" => Cdg!CdgGetSlowThreshold(c).congestion_window = scaled
      BY <1>6, <1>7
<1> QED BY <1>11, <1>12 DEF Goal, scaled

\* A cutback, of a window whose cut is named.
LEMMA CutsBack ==
    ASSUME NEW c, CdgGood(c), c.cong_state # "Open"
    PROVE  LET d == Cdg!Cutback(c)
           IN  /\ CdgGood(d)
               /\ d.largest_sent = c.largest_sent
               /\ d.largest_acked = c.largest_acked
               /\ d.current_round_trip_end = c.current_round_trip_end
               /\ d.congestion_window = c.congestion_window
               /\ d.largest_sent_at_last_cutback = c.largest_sent
<1> DEFINE d1 == [c EXCEPT !.slowstart_threshold = c.congestion_window]
           d2 == [d1 EXCEPT !.largest_sent_at_last_cutback = c.largest_sent]
           d3 == [d2 EXCEPT !.num_acked_packets = 0]
           Goal(d) == /\ CdgGood(d)
                      /\ d.largest_sent = c.largest_sent
                      /\ d.largest_acked = c.largest_acked
                      /\ d.current_round_trip_end = c.current_round_trip_end
                      /\ d.congestion_window = c.congestion_window
                      /\ d.cong_state = c.cong_state
<1>1. c \in CdgSenders /\ c.congestion_window \in Nat /\ c.largest_sent \in Nat
      BY DEF CdgGood, CdgShape, CdgSenders
<1>2. Goal(d1)
      BY <1>1 DEF CdgGood, CdgShape, CdgSenders, CutIsNamed
<1>3. d1 \in CdgSenders
      BY <1>2 DEF CdgGood, CdgShape
<1> HIDE DEF d1
<1>4. Goal(d2) /\ d2.largest_sent_at_last_cutback = c.largest_sent
  <2>1. /\ d2 \in CdgSenders /\ d2.largest_sent_at_last_cutback = c.largest_sent
        /\ d2.largest_sent = d1.largest_sent /\ d2.largest_acked = d1.largest_acked
        /\ d2.current_round_trip_end = d1.current_round_trip_end
        /\ d2.congestion_window = d1.congestion_window
        /\ d2.cong_state = d1.cong_state /\ d2.cdg_state = d1.cdg_state
        BY <1>1, <1>3 DEF CdgSenders
  <2> HIDE DEF d2
  <2>2. d2.cong_state # "Open"
        BY <1>2, <2>1
  <2> QED BY <1>1, <1>2, <2>1, <2>2 DEF CdgGood, CdgShape, CutIsNamed
<1>5. d2 \in CdgSenders
      BY <1>4 DEF CdgGood, CdgShape
<1> HIDE DEF d2
<1>6. Goal(d3) /\ d3.largest_sent_at_last_cutback = c.largest_sent
      BY <1>4, <1>5 DEF CdgGood, CdgShape, CdgSenders, CutIsNamed
<1>7. Cdg!Cutback(c) = d3
      BY DEF Cdg!Cutback, d1, d2
<1> QED BY <1>6, <1>7

\* The losses of one event cut once: at most to half, and not below the
\* minimum.
CutOnce(c, d) ==
    /\ CdgGood(d)
    /\ d.largest_sent = c.largest_sent
    /\ d.largest_acked = c.largest_acked
    /\ d.current_round_trip_end = c.current_round_trip_end
    /\ \/ /\ d.largest_sent_at_last_cutback = c.largest_sent_at_last_cutback
          /\ d.congestion_window = c.congestion_window
       \/ /\ d.largest_sent_at_last_cutback = c.largest_sent
          /\ d.congestion_window >= Cdg!Max2(Cdg!MinWindow, c.congestion_window \div 2)

LEMMA LossCutsOnce ==
    ASSUME NEW c, CdgGood(c), NEW p \in 1..c.largest_sent, NEW d, CutOnce(c, d)
    PROVE  CutOnce(c, Cdg!OnPacketLost(d, p))
<1>1. /\ p \in Nat /\ p <= c.largest_sent /\ CdgGood(d)
      /\ d.largest_sent = c.largest_sent /\ c.congestion_window \in Nat
      BY DEF CutOnce, CdgGood, CdgShape, CdgSenders
<1>2. CASE p <= d.largest_sent_at_last_cutback
  <2>1. Cdg!OnPacketLost(d, p) = d
        BY <1>2 DEF Cdg!OnPacketLost
  <2> QED BY <2>1
<1>3. CASE ~ (p <= d.largest_sent_at_last_cutback)
  <2> DEFINE e1 == Cdg!CdgGetSlowThreshold(d)
             w == Cdg!Max2(e1.congestion_window, Cdg!MinWindow)
             e2 == [e1 EXCEPT !.congestion_window = w]
             e3 == [e2 EXCEPT !.cong_state = "Recovery"]
             e4 == Cdg!Cutback(e3)
  <2>1. d.congestion_window = c.congestion_window
        BY <1>1, <1>3 DEF CutOnce
  <2>2. Cdg!OnPacketLost(d, p) = e4
        BY <1>3 DEF Cdg!OnPacketLost
  <2>3. /\ CdgGood(e1)
        /\ e1.largest_sent = d.largest_sent
        /\ e1.largest_acked = d.largest_acked
        /\ e1.current_round_trip_end = d.current_round_trip_end
        /\ e1.congestion_window >= d.congestion_window \div 2
        BY <1>1, SlowThreshold
  <2> HIDE DEF e1
  <2>4. e1 \in CdgSenders /\ e1.congestion_window \in Nat
        BY <2>3 DEF CdgGood, CdgShape, CdgSenders
  <2>5. c.congestion_window \div 2 \in Nat
        BY <1>1, HalfIsNatural
  <2>6. w \in Nat /\ w >= Cdg!Max2(Cdg!MinWindow, c.congestion_window \div 2)
        BY <2>1, <2>3, <2>4, <2>5, CdgConstants DEF Cdg!Max2
  <2> HIDE DEF w
  <2>7. /\ CdgGood(e2) /\ e2 \in CdgSenders
        /\ e2.largest_sent = e1.largest_sent
        /\ e2.largest_acked = e1.largest_acked
        /\ e2.current_round_trip_end = e1.current_round_trip_end
        /\ e2.congestion_window = w
        BY <2>3, <2>4, <2>6 DEF CdgGood, CdgShape, CdgSenders, CutIsNamed
  <2> HIDE DEF e2
  <2>8. /\ CdgGood(e3) /\ e3 \in CdgSenders
        /\ e3.largest_sent = e2.largest_sent
        /\ e3.largest_acked = e2.largest_acked
        /\ e3.current_round_trip_end = e2.current_round_trip_end
        /\ e3.congestion_window = e2.congestion_window
        /\ e3.cong_state = "Recovery"
        BY <2>7 DEF CdgGood, CdgShape, CdgSenders, CutIsNamed
  <2> HIDE DEF e3
  <2>9. /\ CdgGood(e4)
        /\ e4.largest_sent = e3.largest_sent
        /\ e4.largest_acked = e3.largest_acked
        /\ e4.current_round_trip_end = e3.current_round_trip_end
        /\ e4.congestion_window = e3.congestion_window
        /\ e4.largest_sent_at_last_cutback = e3.largest_sent
        BY <2>8, CutsBack
  <2> HIDE DEF e4
  <2>10. CutOnce(c, e4)
        BY <1>1, <2>3, <2>6, <2>7, <2>8, <2>9 DEF CutOnce
  <2> QED BY <2>2, <2>10
<1> QED BY <1>2, <1>3

LEMMA LossesCutOnce ==
    ASSUME NEW c, CdgGood(c), NEW lost, lost \subseteq 1..c.largest_sent
    PROVE  CutOnce(c, Cdg!LoseAll(c, lost))
<1> DEFINE G == {d \in CdgSenders : CutOnce(c, d)}
<1>1. c \in CdgSenders
      BY DEF CdgGood, CdgShape
<1>2. c \in G
      BY <1>1 DEF CutOnce
<1>3. ASSUME NEW d \in G, NEW p \in lost
      PROVE  Cdg!OnPacketLost(d, p) \in G
  <2>1. CutOnce(c, Cdg!OnPacketLost(d, p))
        BY LossCutsOnce
  <2> QED BY <2>1 DEF CutOnce, CdgGood, CdgShape
<1> HIDE DEF G
<1>4. Cdg!LoseAll(c, lost) \in G
      BY <1>2, <1>3, CdgLoses
<1> QED BY <1>4 DEF G

\* What an acknowledged packet moves: the window up, the marks to it at least.
AckMoves(c, d) ==
    /\ CdgGood(d)
    /\ d.largest_sent = c.largest_sent
    /\ d.congestion_window >= c.congestion_window
    /\ d.largest_acked >= c.largest_acked
    /\ d.current_round_trip_end \in {c.current_round_trip_end, c.largest_sent}

LEMMA WindowMayGrow ==
    ASSUME NEW c, CdgGood(c), NEW prior
    PROVE  LET d == Cdg!MaybeIncreaseCwnd(c, prior)
           IN  /\ AckMoves(c, d)
               /\ d.largest_acked = c.largest_acked
               /\ d.current_round_trip_end = c.current_round_trip_end
<1> DEFINE acks == c.num_acked_packets + 1
           wide == c.congestion_window + CdgMSS
           d1 == [c EXCEPT !.congestion_window = wide]
           d2 == [d1 EXCEPT !.num_acked_packets = 0]
           d3 == [c EXCEPT !.num_acked_packets = acks]
           d == Cdg!MaybeIncreaseCwnd(c, prior)
           Goal(e) == /\ AckMoves(c, e)
                      /\ e.largest_acked = c.largest_acked
                      /\ e.current_round_trip_end = c.current_round_trip_end
<1>1. /\ c \in CdgSenders /\ acks \in Nat /\ wide \in Nat /\ wide >= c.congestion_window
      /\ c.congestion_window \in Nat /\ c.largest_acked \in Nat
  <2>1. c \in CdgSenders
        BY DEF CdgGood, CdgShape
  <2>2. /\ c.congestion_window \in Nat /\ c.largest_acked \in Nat
        /\ c.num_acked_packets \in Nat
        BY <2>1 DEF CdgSenders
  <2> QED BY <2>1, <2>2, CdgConstants
<1>2. d \in {c, d1, d2, d3}
  <2> DEFINE grows == /\ Cdg!IsCwndLimited(c, prior)
                      /\ c.congestion_window < CdgMaxWindowPackets * CdgMSS
             slow == Cdg!InSlowStart(c)
             few == acks < c.congestion_window \div CdgMSS
             enough == acks >= c.congestion_window \div CdgMSS
  <2>1. CASE grows /\ slow
        BY <2>1 DEF Cdg!MaybeIncreaseCwnd
  <2>2. CASE grows /\ ~slow /\ enough
        BY <2>2 DEF Cdg!MaybeIncreaseCwnd
  <2>3. CASE grows /\ ~slow /\ few
        BY <2>3 DEF Cdg!MaybeIncreaseCwnd
  <2>4. CASE ~ (grows /\ slow) /\ ~ (grows /\ ~slow /\ enough) /\ ~ (grows /\ ~slow /\ few)
        BY <2>4 DEF Cdg!MaybeIncreaseCwnd
  <2> HIDE DEF grows, slow, few, enough, d, d1, d2, d3
  <2> QED BY <2>1, <2>2, <2>3, <2>4
<1> HIDE DEF acks, wide
<1>3. Goal(d1)
  <2>1. /\ d1 \in CdgSenders /\ d1.largest_sent = c.largest_sent
        /\ d1.largest_acked = c.largest_acked
        /\ d1.largest_sent_at_last_cutback = c.largest_sent_at_last_cutback
        /\ d1.current_round_trip_end = c.current_round_trip_end
        /\ d1.cong_state = c.cong_state /\ d1.cdg_state = c.cdg_state
        /\ d1.congestion_window = wide
        BY <1>1 DEF CdgSenders
  <2> HIDE DEF d1
  <2> QED BY <1>1, <2>1 DEF AckMoves, CdgGood, CdgShape, CutIsNamed
<1>4. d1 \in CdgSenders
      BY <1>3 DEF AckMoves, CdgGood, CdgShape
<1>5. Goal(d3)
  <2>1. /\ d3 \in CdgSenders /\ d3.largest_sent = c.largest_sent
        /\ d3.largest_acked = c.largest_acked
        /\ d3.largest_sent_at_last_cutback = c.largest_sent_at_last_cutback
        /\ d3.current_round_trip_end = c.current_round_trip_end
        /\ d3.cong_state = c.cong_state /\ d3.cdg_state = c.cdg_state
        /\ d3.congestion_window = c.congestion_window
        BY <1>1 DEF CdgSenders
  <2> HIDE DEF d3
  <2> QED BY <1>1, <2>1 DEF AckMoves, CdgGood, CdgShape, CutIsNamed
<1> HIDE DEF d1, d3
<1>6. Goal(d2)
      BY <1>3, <1>4 DEF AckMoves, CdgGood, CdgShape, CdgSenders, CutIsNamed
<1>7. Goal(c)
      BY <1>1 DEF AckMoves
<1> HIDE DEF d, d2, Goal
<1>8. Goal(d)
      BY <1>2, <1>3, <1>5, <1>6, <1>7
<1> QED BY <1>8 DEF Goal, d

LEMMA BackoffEnds ==
    ASSUME NEW c, CdgShape(c)
    PROVE  LET d == Cdg!EndOfBackoff(c)
           IN  /\ CdgShape(d)
               /\ d.largest_sent = c.largest_sent
               /\ d.largest_acked = c.largest_acked
               /\ d.largest_sent_at_last_cutback = c.largest_sent_at_last_cutback
               /\ d.congestion_window = c.congestion_window
               /\ d.current_round_trip_end \in {c.current_round_trip_end, c.largest_sent}
<1> DEFINE d1 == [c EXCEPT !.cdg_state = "UNKNOWN"]
           d2 == [d1 EXCEPT !.current_round_trip_end = c.largest_sent]
           d3 == [d2 EXCEPT !.cdg_rtt_prev = d2.cdg_rtt]
           d4 == [d3 EXCEPT !.cdg_rtt = Cdg!Zero]
           Goal(d) == /\ CdgShape(d)
                      /\ d.largest_sent = c.largest_sent
                      /\ d.largest_acked = c.largest_acked
                      /\ d.largest_sent_at_last_cutback = c.largest_sent_at_last_cutback
                      /\ d.congestion_window = c.congestion_window
                      /\ d.current_round_trip_end
                            \in {c.current_round_trip_end, c.largest_sent}
<1>1. c \in CdgSenders /\ c.largest_sent \in Nat
      BY DEF CdgShape, CdgSenders
<1>2. Goal(d1)
      BY <1>1 DEF CdgShape, CdgSenders
<1>3. d1 \in CdgSenders
      BY <1>2 DEF CdgShape
<1> HIDE DEF d1
<1>4. Goal(d2)
  <2>1. /\ d2 \in CdgSenders /\ d2.largest_sent = d1.largest_sent
        /\ d2.largest_acked = d1.largest_acked
        /\ d2.largest_sent_at_last_cutback = d1.largest_sent_at_last_cutback
        /\ d2.congestion_window = d1.congestion_window
        /\ d2.current_round_trip_end = c.largest_sent
        BY <1>1, <1>3 DEF CdgSenders
  <2> HIDE DEF d2
  <2> QED BY <1>1, <1>2, <2>1 DEF CdgShape
<1>5. d2 \in CdgSenders /\ d2.cdg_rtt \in MinMax
      BY <1>4 DEF CdgShape, CdgSenders
<1> HIDE DEF d2
<1>6. Goal(d3)
      BY <1>4, <1>5 DEF CdgShape, CdgSenders
<1>7. d3 \in CdgSenders
      BY <1>6 DEF CdgShape
<1>8. Cdg!EndOfBackoff(c) = IF c.cong_state = "CWR" THEN d4 ELSE c
      BY DEF Cdg!EndOfBackoff, Cdg!NextRound, d1, d2
<1> HIDE DEF d3
<1>9. Cdg!Zero \in MinMax
      BY DEF Cdg!Zero, MinMax
<1>10. Goal(d4)
      BY <1>6, <1>7, <1>9 DEF CdgShape, CdgSenders
<1> HIDE DEF d4
<1> QED BY <1>8, <1>10

LEMMA AckIsHandled ==
    ASSUME NEW c, CdgGood(c), NEW p \in 1..c.largest_sent, NEW prior
    PROVE  LET d == AckOf(c, p, prior)
           IN  /\ AckMoves(c, d)
               /\ d.largest_acked >= p
               /\ d.current_round_trip_end >= p
<1> DEFINE u == Cdg!UpdateRoundTripEnd(c, p)
           u1 == [c EXCEPT !.current_round_trip_end = c.largest_sent]
           seen == [u EXCEPT !.largest_acked = Cdg!Max2(u.largest_acked, p)]
           b == Cdg!EndOfBackoff(seen)
           o == [b EXCEPT !.cong_state = "Open"]
           m == Cdg!MaybeIncreaseCwnd(o, prior)
<1>1. /\ c \in CdgSenders /\ c.largest_sent \in Nat /\ p \in Nat /\ p <= c.largest_sent
      /\ c.current_round_trip_end \in Nat /\ c.largest_acked \in Nat
      /\ c.congestion_window \in Nat /\ c.current_round_trip_end <= c.largest_sent
      /\ p >= 1 /\ c.largest_acked <= c.largest_sent
      BY DEF CdgGood, CdgShape, CdgSenders
<1>2. /\ CdgGood(u) /\ u.largest_sent = c.largest_sent
      /\ u.largest_acked = c.largest_acked /\ u.congestion_window = c.congestion_window
      /\ u.current_round_trip_end \in {c.current_round_trip_end, c.largest_sent}
      /\ u.current_round_trip_end >= p
  <2>1. CASE p > c.current_round_trip_end
    <3>1. u = u1
          BY <2>1 DEF Cdg!UpdateRoundTripEnd
    <3>2. /\ u1 \in CdgSenders /\ u1.largest_sent = c.largest_sent
          /\ u1.largest_acked = c.largest_acked /\ u1.congestion_window = c.congestion_window
          /\ u1.current_round_trip_end = c.largest_sent
          /\ u1.largest_sent_at_last_cutback = c.largest_sent_at_last_cutback
          /\ u1.cong_state = c.cong_state /\ u1.cdg_state = c.cdg_state
          BY <1>1 DEF CdgSenders
    <3> HIDE DEF u, u1
    <3>3. CdgGood(u1)
          BY <1>1, <3>2 DEF CdgGood, CdgShape, CutIsNamed
    <3> QED BY <1>1, <3>1, <3>2, <3>3
  <2>2. CASE ~ (p > c.current_round_trip_end)
    <3>1. u = c
          BY <2>2 DEF Cdg!UpdateRoundTripEnd
    <3> HIDE DEF u
    <3> QED BY <1>1, <2>2, <3>1
  <2> QED BY <2>1, <2>2
<1>3. AckOf(c, p, prior) = IF Cdg!InRecovery(seen) THEN seen ELSE m
      BY DEF AckOf, Cdg!OnPacketAcked
<1> HIDE DEF u
<1> DEFINE a == Cdg!Max2(u.largest_acked, p)
<1>4. a \in Nat /\ a >= u.largest_acked /\ a >= p /\ a <= c.largest_sent
      BY <1>1, <1>2 DEF Cdg!Max2
<1>5. u \in CdgSenders
      BY <1>2 DEF CdgGood, CdgShape
<1>6. seen = [u EXCEPT !.largest_acked = a]
      OBVIOUS
<1> HIDE DEF a, seen
<1>7. /\ seen \in CdgSenders /\ seen.largest_acked = a
      /\ seen.largest_sent = u.largest_sent
      /\ seen.largest_sent_at_last_cutback = u.largest_sent_at_last_cutback
      /\ seen.current_round_trip_end = u.current_round_trip_end
      /\ seen.congestion_window = u.congestion_window
      /\ seen.cong_state = u.cong_state /\ seen.cdg_state = u.cdg_state
      BY <1>4, <1>5, <1>6 DEF CdgSenders
<1>8. u.largest_acked \in Nat /\ u.largest_sent_at_last_cutback \in Nat
      BY <1>5 DEF CdgSenders
<1>9. CdgGood(seen)
      BY <1>2, <1>4, <1>7, <1>8 DEF CdgGood, CdgShape, CutIsNamed
<1>10. ASSUME Cdg!InRecovery(seen)
      PROVE  /\ AckMoves(c, seen) /\ seen.largest_acked >= p
             /\ seen.current_round_trip_end >= p
      BY <1>1, <1>2, <1>4, <1>7, <1>9 DEF AckMoves
<1>11. ASSUME ~Cdg!InRecovery(seen)
      PROVE  AckMoves(c, m) /\ m.largest_acked >= p /\ m.current_round_trip_end >= p
  <2>1. /\ CdgShape(b)
        /\ b.largest_sent = seen.largest_sent
        /\ b.largest_acked = seen.largest_acked
        /\ b.largest_sent_at_last_cutback = seen.largest_sent_at_last_cutback
        /\ b.congestion_window = seen.congestion_window
        /\ b.current_round_trip_end \in {seen.current_round_trip_end, seen.largest_sent}
        BY <1>9, BackoffEnds DEF CdgGood
  <2> HIDE DEF b
  <2>2. b \in CdgSenders
        BY <2>1 DEF CdgShape
  <2>3. /\ CdgShape(o) /\ o.cong_state = "Open"
        /\ o.largest_sent = b.largest_sent /\ o.largest_acked = b.largest_acked
        /\ o.largest_sent_at_last_cutback = b.largest_sent_at_last_cutback
        /\ o.congestion_window = b.congestion_window
        /\ o.current_round_trip_end = b.current_round_trip_end
        BY <2>1, <2>2 DEF CdgShape, CdgSenders
  <2> HIDE DEF o
  <2>4. CutIsNamed(o)
    <3>1. seen.largest_acked # 0
          BY <1>1, <1>4, <1>7
    <3> QED BY <1>11, <2>1, <2>3, <3>1 DEF CutIsNamed, Cdg!InRecovery
  <2>5. CdgGood(o)
        BY <2>3, <2>4 DEF CdgGood
  <2>6. /\ AckMoves(o, m)
        /\ m.largest_acked = o.largest_acked
        /\ m.current_round_trip_end = o.current_round_trip_end
        BY <2>5, WindowMayGrow
  <2> HIDE DEF m
  <2>7. m.current_round_trip_end \in {c.current_round_trip_end, c.largest_sent}
        BY <1>2, <1>7, <2>1, <2>3, <2>6
  <2>8. m.current_round_trip_end >= p
        BY <1>1, <1>2, <1>7, <2>1, <2>3, <2>6
  <2>9. m.largest_acked >= p /\ m.largest_acked >= c.largest_acked
        BY <1>2, <1>4, <1>7, <2>1, <2>3, <2>6
  <2>10. m.congestion_window >= c.congestion_window /\ m.largest_sent = c.largest_sent
        BY <1>2, <1>7, <2>1, <2>3, <2>6 DEF AckMoves
  <2> QED BY <2>6, <2>7, <2>8, <2>9, <2>10 DEF AckMoves
<1> HIDE DEF m
<1> QED BY <1>3, <1>10, <1>11

LEMMA AcksMove ==
    ASSUME NEW c, CdgGood(c), NEW acked, acked \subseteq 1..c.largest_sent, NEW prior
    PROVE  LET d == Cdg!AckAll(c, acked, prior)
           IN  /\ AckMoves(c, d)
               /\ \A q \in acked : d.largest_acked >= q /\ d.current_round_trip_end >= q
<1> DEFINE D == {d \in CdgSenders : AckMoves(c, d)}
           Past(n, d) == \A q \in acked : q <= n =>
                            d.largest_acked >= q /\ d.current_round_trip_end >= q
           G == {x \in Nat \X D : Past(x[1], x[2])}
           d == Cdg!AckAll(c, acked, prior)
<1>1. /\ c \in CdgSenders /\ c.largest_sent \in Nat /\ c.congestion_window \in Nat
      /\ c.largest_acked \in Nat /\ c.largest_sent <= CdgMaxPackets
      BY DEF CdgGood, CdgShape, CdgSenders
<1>2. AckMoves(c, c)
      BY <1>1 DEF AckMoves
<1>3. c \in D /\ <<0, c>> \in G
  <2>1. \A q \in acked : ~ (q <= 0)
        BY <1>1
  <2>2. Past(0, c)
        BY <2>1
  <2> QED BY <1>1, <1>2, <2>2
<1>4. ASSUME NEW e \in D, NEW p \in acked
      PROVE  /\ AckOf(e, p, prior) \in D
             /\ AckOf(e, p, prior).largest_acked >= p
             /\ AckOf(e, p, prior).largest_acked >= e.largest_acked
             /\ AckOf(e, p, prior).current_round_trip_end >= p
             /\ AckOf(e, p, prior).current_round_trip_end >= e.current_round_trip_end
  <2> DEFINE f == AckOf(e, p, prior)
  <2>1. AckMoves(c, e) /\ CdgGood(e) /\ e.largest_sent = c.largest_sent /\ e \in CdgSenders
        BY DEF AckMoves
  <2>2. /\ AckMoves(e, f) /\ f.largest_acked >= p /\ f.current_round_trip_end >= p
        BY <2>1, AckIsHandled
  <2> HIDE DEF f
  <2>3. f \in CdgSenders
        BY <2>2 DEF AckMoves, CdgGood, CdgShape
  <2>4. /\ {e.congestion_window, f.congestion_window, e.largest_acked, f.largest_acked,
            e.current_round_trip_end, f.current_round_trip_end} \subseteq Nat
        /\ e.current_round_trip_end <= e.largest_sent
        BY <2>1, <2>3 DEF CdgSenders, CdgGood, CdgShape
  <2>5. AckMoves(c, f)
        BY <1>1, <2>1, <2>2, <2>4 DEF AckMoves
  <2>6. f.current_round_trip_end >= e.current_round_trip_end
        BY <2>1, <2>2, <2>4 DEF AckMoves
  <2>7. f.largest_acked >= e.largest_acked
        BY <2>2 DEF AckMoves
  <2> QED BY <2>2, <2>3, <2>5, <2>6, <2>7 DEF f
<1>5. ASSUME NEW n \in Nat, NEW e \in D, <<n, e>> \in G
      PROVE  <<n + 1, IF n + 1 \in acked THEN AckOf(e, n + 1, prior) ELSE e>> \in G
  <2>1. Past(n, e)
        BY <1>5
  <2>2. \A q \in acked : q \in Nat /\ (q <= n + 1 => q <= n \/ q = n + 1)
        BY <1>1
  <2>3. CASE n + 1 \notin acked
    <3>1. Past(n + 1, e)
          BY <2>1, <2>2, <2>3
    <3> QED BY <2>3, <3>1
  <2>4. CASE n + 1 \in acked
    <3> DEFINE f == AckOf(e, n + 1, prior)
    <3>1. /\ f \in D /\ f.largest_acked >= n + 1 /\ f.largest_acked >= e.largest_acked
          /\ f.current_round_trip_end >= n + 1
          /\ f.current_round_trip_end >= e.current_round_trip_end
          BY <1>4, <2>4
    <3> HIDE DEF f
    <3>2. {e.largest_acked, f.largest_acked,
           e.current_round_trip_end, f.current_round_trip_end} \subseteq Nat
          BY <3>1 DEF CdgSenders
    <3>3. Past(n + 1, f)
          BY <2>1, <2>2, <3>1, <3>2
    <3>4. <<n + 1, f>> \in G
          BY <3>1, <3>3
    <3> QED BY <2>4, <3>4 DEF f
  <2> QED BY <2>3, <2>4
<1>6. \A e \in D : \A p \in acked : AckOf(e, p, prior) \in D
      BY <1>4
<1> HIDE DEF D, G
<1>7. d \in D /\ <<CdgMaxPackets, d>> \in G
      BY <1>3, <1>5, <1>6, CdgAcks
<1> HIDE DEF d
<1>8. AckMoves(c, d) /\ Past(CdgMaxPackets, d)
      BY <1>7 DEF D, G
<1>9. \A q \in acked : q <= CdgMaxPackets
      BY <1>1, CdgConstants
<1> QED BY <1>8, <1>9 DEF d

\* What is as it was.
CdgMarks(c, d) ==
    /\ CdgGood(d)
    /\ d.largest_sent = c.largest_sent
    /\ d.largest_acked = c.largest_acked
    /\ d.current_round_trip_end = c.current_round_trip_end
    /\ d.congestion_window = c.congestion_window

LEMMA SampleIsMarked ==
    ASSUME NEW c, CdgGood(c), NEW rtt \in Nat
    PROVE  CdgMarks(c, Cdg!TakeSample(c, rtt))
<1> DEFINE least == IF c.cdg_rtt.min = 0 THEN rtt ELSE Cdg!Min2(c.cdg_rtt.min, rtt)
           most == Cdg!Max2(c.cdg_rtt.max, rtt)
           r == [min |-> least, max |-> most]
           d == [c EXCEPT !.cdg_rtt = r]
<1>1. c \in CdgSenders /\ c.cdg_rtt \in MinMax
      BY DEF CdgGood, CdgShape, CdgSenders
<1>2. least \in Nat /\ most \in Nat
      BY <1>1 DEF MinMax, Cdg!Min2, Cdg!Max2
<1>3. Cdg!TakeSample(c, rtt) = d
      BY DEF Cdg!TakeSample
<1> HIDE DEF least, most
<1>4. r \in MinMax
      BY <1>2 DEF MinMax
<1> HIDE DEF r
<1>5. CdgMarks(c, d)
      BY <1>1, <1>4 DEF CdgMarks, CdgGood, CdgShape, CdgSenders, CutIsNamed
<1> QED BY <1>3, <1>5

LEMMA RoundIsMarked ==
    ASSUME NEW c, CdgGood(c)
    PROVE  CdgMarks(c, Cdg!NextRound(c))
<1> DEFINE d1 == [c EXCEPT !.cdg_rtt_prev = c.cdg_rtt]
           d2 == [d1 EXCEPT !.cdg_rtt = Cdg!Zero]
<1>1. c \in CdgSenders /\ c.cdg_rtt \in MinMax
      BY DEF CdgGood, CdgShape, CdgSenders
<1>2. CdgMarks(c, d1)
      BY <1>1 DEF CdgMarks, CdgGood, CdgShape, CdgSenders, CutIsNamed
<1>3. d1 \in CdgSenders
      BY <1>2 DEF CdgMarks, CdgGood, CdgShape
<1>4. Cdg!Zero \in MinMax
      BY DEF Cdg!Zero, MinMax
<1>5. Cdg!NextRound(c) = d2
      BY DEF Cdg!NextRound
<1> HIDE DEF d1
<1>6. CdgMarks(d1, d2)
      BY <1>2, <1>3, <1>4 DEF CdgMarks, CdgGood, CdgShape, CdgSenders, CutIsNamed
<1> HIDE DEF d2
<1> QED BY <1>2, <1>5, <1>6 DEF CdgMarks

LEMMA GradIsMarked ==
    ASSUME NEW c, CdgGood(c)
    PROVE  CdgMarks(c, Cdg!CalculateGrad(c))
<1> DEFINE g == Cdg!Gradient(c)
           sum == Cdg!Plus(c.cdg_gsum, Cdg!Minus(g, c.ring[c.tail]))
           t == Cdg!NextTail(c.tail)
           filled == c.gfilled \/ t = 0
           count == IF sum.min <= 0 \/ sum.max <= 0 THEN 0 ELSE c.backoff_count
           d1 == [c EXCEPT !.cdg_gsum = sum]
           d2 == [d1 EXCEPT !.ring[c.tail] = g]
           d3 == [d2 EXCEPT !.tail = t]
           d4 == [d3 EXCEPT !.gfilled = filled]
           d5 == [d4 EXCEPT !.backoff_count = count]
<1>1. /\ c \in CdgSenders /\ c.cdg_rtt \in MinMax /\ c.cdg_rtt_prev \in MinMax
      /\ c.tail \in 0..(RttWin - 1) /\ c.ring \in [0..(RttWin - 1) -> Difference]
      /\ c.cdg_gsum \in Difference /\ c.backoff_count \in Nat
      BY DEF CdgGood, CdgShape, CdgSenders
<1>2. \A a, b \in Difference : Cdg!Minus(a, b) \in Difference /\ Cdg!Plus(a, b) \in Difference
      BY DEF Cdg!Minus, Cdg!Plus, Difference
<1>3. g \in Difference
  <2>1. MinMax \subseteq Difference
        BY DEF MinMax, Difference
  <2> QED BY <1>1, <1>2, <2>1 DEF Cdg!Gradient
<1>4. sum \in Difference
  <2>1. c.ring[c.tail] \in Difference
        BY <1>1
  <2> QED BY <1>1, <1>2, <1>3, <2>1
<1>5. t \in 0..(RttWin - 1)
  <2>1. \A k \in Nat, m \in Nat \ {0} : (k + 1) % m \in 0..(m - 1)
        OBVIOUS
  <2>2. c.tail \in Nat
        BY <1>1, CdgConstants
  <2> QED BY <2>1, <2>2, CdgConstants DEF Cdg!NextTail
<1>6. filled \in BOOLEAN
      OBVIOUS
<1>7. count \in Nat
      BY <1>1
<1>8. Cdg!CalculateGrad(c) = d5
      BY DEF Cdg!CalculateGrad
<1> HIDE DEF g, sum, t, filled, count
<1>9. CdgMarks(c, d1) /\ d1.ring = c.ring
      BY <1>1, <1>4 DEF CdgMarks, CdgGood, CdgShape, CdgSenders, CutIsNamed
<1>10. d1 \in CdgSenders
      BY <1>9 DEF CdgMarks, CdgGood, CdgShape
<1> HIDE DEF d1
<1>11. CdgMarks(d1, d2)
      BY <1>1, <1>3, <1>9, <1>10 DEF CdgMarks, CdgGood, CdgShape, CdgSenders, CutIsNamed
<1>12. d2 \in CdgSenders
      BY <1>11 DEF CdgMarks, CdgGood, CdgShape
<1> HIDE DEF d2
<1>13. CdgMarks(d2, d3)
      BY <1>5, <1>11, <1>12 DEF CdgMarks, CdgGood, CdgShape, CdgSenders, CutIsNamed
<1>14. d3 \in CdgSenders
      BY <1>13 DEF CdgMarks, CdgGood, CdgShape
<1> HIDE DEF d3
<1>15. CdgMarks(d3, d4)
      BY <1>6, <1>13, <1>14 DEF CdgMarks, CdgGood, CdgShape, CdgSenders, CutIsNamed
<1>16. d4 \in CdgSenders
      BY <1>15 DEF CdgMarks, CdgGood, CdgShape
<1> HIDE DEF d4
<1>17. CdgMarks(d4, d5)
      BY <1>7, <1>15, <1>16 DEF CdgMarks, CdgGood, CdgShape, CdgSenders, CutIsNamed
<1> HIDE DEF d5
<1> QED BY <1>8, <1>9, <1>11, <1>13, <1>15, <1>17 DEF CdgMarks

LEMMA ShadowIsMarked ==
    ASSUME NEW c, CdgGood(c), NEW before \in Nat
    PROVE  CdgMarks(c, Cdg!GrowShadow(c, before))
<1> DEFINE s == c.shadow_congestion_window + c.congestion_window - before
           d == [c EXCEPT !.shadow_congestion_window = s]
<1>1. /\ c \in CdgSenders /\ c.shadow_congestion_window \in Nat
      /\ c.congestion_window \in Nat
      BY DEF CdgGood, CdgShape, CdgSenders
<1>2. CdgMarks(c, c)
      BY DEF CdgMarks
<1>3. CASE c.congestion_window > before
  <2>1. s \in Nat
        BY <1>1, <1>3
  <2>2. Cdg!GrowShadow(c, before) = d
        BY <1>3 DEF Cdg!GrowShadow
  <2> HIDE DEF s
  <2>3. CdgMarks(c, d)
        BY <1>1, <2>1 DEF CdgMarks, CdgGood, CdgShape, CdgSenders, CutIsNamed
  <2> QED BY <2>2, <2>3
<1>4. CASE ~ (c.congestion_window > before)
      BY <1>2, <1>4 DEF Cdg!GrowShadow
<1> QED BY <1>3, <1>4

\* A backoff takes 0.293 of the window.
LEMMA BackoffIsBounded ==
    ASSUME NEW c, CdgGood(c)
    PROVE  LET d == Cdg!CdgBackoff(c)
           IN  /\ CdgGood(d)
               /\ d.largest_sent = c.largest_sent
               /\ d.largest_acked = c.largest_acked
               /\ d.current_round_trip_end = c.current_round_trip_end
               /\ d.congestion_window >= (c.congestion_window * 707) \div 1000
<1> DEFINE count == IF c.use_ineff > 0 THEN c.backoff_count + 1 ELSE c.backoff_count
           counted == [c EXCEPT !.backoff_count = count]
           shadow == Cdg!Max2(counted.shadow_congestion_window, c.congestion_window)
           e1 == [counted EXCEPT !.shadow_congestion_window = shadow]
           e2 == [e1 EXCEPT !.cdg_state = "BACKOFF"]
           e3 == [e2 EXCEPT !.cong_state = "CWR"]
           e4 == Cdg!CdgGetSlowThreshold(e3)
           e5 == Cdg!Cutback(e4)
<1>1. /\ c \in CdgSenders /\ c.congestion_window \in Nat /\ c.backoff_count \in Nat
      BY DEF CdgGood, CdgShape, CdgSenders
<1>2. count \in Nat
      BY <1>1
<1>3. Cdg!CdgBackoff(c) = IF Cdg!Ineffectual(c) THEN counted ELSE e5
      BY DEF Cdg!CdgBackoff
<1> HIDE DEF count
<1>4. CdgMarks(c, counted)
      BY <1>1, <1>2 DEF CdgMarks, CdgGood, CdgShape, CdgSenders, CutIsNamed
<1>5. counted \in CdgSenders /\ counted.shadow_congestion_window \in Nat
      BY <1>4 DEF CdgMarks, CdgGood, CdgShape, CdgSenders
<1> HIDE DEF counted
<1>6. shadow \in Nat
      BY <1>1, <1>5 DEF Cdg!Max2
<1> HIDE DEF shadow
<1>7. CdgMarks(counted, e1)
      BY <1>4, <1>5, <1>6 DEF CdgMarks, CdgGood, CdgShape, CdgSenders, CutIsNamed
<1>8. e1 \in CdgSenders
      BY <1>7 DEF CdgMarks, CdgGood, CdgShape
<1> HIDE DEF e1
<1>9. CdgMarks(e1, e2) /\ e2.cdg_state = "BACKOFF"
      BY <1>7, <1>8 DEF CdgMarks, CdgGood, CdgShape, CdgSenders, CutIsNamed
<1>10. e2 \in CdgSenders
      BY <1>9 DEF CdgMarks, CdgGood, CdgShape
<1> HIDE DEF e2
<1>11. CdgMarks(e2, e3) /\ e3.cdg_state = "BACKOFF" /\ e3.cong_state = "CWR"
      BY <1>9, <1>10 DEF CdgMarks, CdgGood, CdgShape, CdgSenders, CutIsNamed
<1> HIDE DEF e3
<1>12. /\ CdgGood(e4)
       /\ e4.largest_sent = e3.largest_sent
       /\ e4.largest_acked = e3.largest_acked
       /\ e4.current_round_trip_end = e3.current_round_trip_end
       /\ e4.cong_state = "CWR"
       /\ e4.congestion_window = (e3.congestion_window * 707) \div 1000
      BY <1>11, SlowThreshold DEF CdgMarks
<1> HIDE DEF e4
<1>13. /\ CdgGood(e5)
       /\ e5.largest_sent = e4.largest_sent
       /\ e5.largest_acked = e4.largest_acked
       /\ e5.current_round_trip_end = e4.current_round_trip_end
       /\ e5.congestion_window = e4.congestion_window
      BY <1>12, CutsBack
<1> HIDE DEF e5
<1>14. /\ e3.largest_sent = c.largest_sent /\ e3.largest_acked = c.largest_acked
       /\ e3.current_round_trip_end = c.current_round_trip_end
       /\ e3.congestion_window = c.congestion_window
      BY <1>4, <1>7, <1>9, <1>11 DEF CdgMarks
<1>15. /\ (c.congestion_window * 707) \div 1000 \in Nat
       /\ (c.congestion_window * 707) \div 1000 <= c.congestion_window
      BY <1>1, HalfIsNatural
<1>16. e5.congestion_window = (c.congestion_window * 707) \div 1000
      BY <1>12, <1>13, <1>14
<1> DEFINE scaled == (c.congestion_window * 707) \div 1000
<1> HIDE DEF scaled
<1>17. CASE Cdg!Ineffectual(c)
       BY <1>3, <1>4, <1>15, <1>17 DEF CdgMarks
<1>18. CASE ~Cdg!Ineffectual(c)
  <2>1. Cdg!CdgBackoff(c) = e5
        BY <1>3, <1>18
  <2> QED BY <1>12, <1>13, <1>14, <1>15, <1>16, <2>1
<1> QED BY <1>17, <1>18

-----------------------------------------------------------------------------
(***************************************************************************)
(* The packets around it.                                                  *)
(***************************************************************************)

\* A round that began after the last backoff: both histories are at the end of
\* the current round at most.
CdgInv ==
    /\ CdgGood(dSender)
    /\ dInFlight \subseteq 1..dSender.largest_sent
    /\ dBackedOff \in Nat /\ dBackedOff <= dSender.current_round_trip_end

LEMMA CdgInvImplies ==
    ASSUME CdgInv
    PROVE  Cdg!TypeOK /\ Cdg!RecoveryIsNamed
<1>1. dSender \in CdgSenders /\ CdgShape(dSender) /\ CutIsNamed(dSender)
      BY DEF CdgInv, CdgGood, CdgShape
<1>2. /\ dSender.congestion_window \in Nat /\ dSender.slowstart_threshold \in Nat
      /\ dSender.num_acked_packets \in Nat /\ dSender.shadow_congestion_window \in Nat
      /\ dSender.backoff_count \in Nat
      BY <1>1 DEF CdgSenders
<1>3. /\ dSender.largest_sent \in 0..CdgMaxPackets
      /\ dSender.largest_acked \in 0..dSender.largest_sent
      /\ dSender.largest_sent_at_last_cutback \in 0..dSender.largest_sent
      /\ dSender.current_round_trip_end \in 0..dSender.largest_sent
      /\ dBackedOff \in 0..dSender.largest_sent
  <2>1. /\ dSender.largest_sent \in Nat /\ dSender.largest_acked \in Nat
        /\ dSender.largest_sent_at_last_cutback \in Nat
        /\ dSender.current_round_trip_end \in Nat
        BY <1>1 DEF CdgSenders
  <2> QED BY <1>1, <2>1, CdgConstants DEF CdgInv, CdgShape
<1>4. /\ dSender.cong_state \in {"Open", "CWR", "Recovery"}
      /\ dSender.cdg_state \in {"UNKNOWN", "BACKOFF"}
      BY <1>1 DEF CdgSenders
<1>5. /\ dSender.cdg_rtt \in [min : Nat, max : Nat]
      /\ dSender.cdg_rtt_prev \in [min : Nat, max : Nat]
      /\ dSender.cdg_gsum \in [min : Int, max : Int]
      /\ dSender.tail \in 0..(RttWin - 1)
      /\ DOMAIN dSender.ring = 0..(RttWin - 1)
      BY <1>1 DEF CdgSenders, MinMax, Difference
<1>6. Cdg!TypeOK
      BY <1>2, <1>3, <1>4, <1>5 DEF CdgInv, Cdg!TypeOK
<1>7. Cdg!RecoveryIsNamed
      BY <1>1, <1>4 DEF CutIsNamed, Cdg!RecoveryIsNamed, Cdg!InRecovery
<1> QED BY <1>6, <1>7

LEMMA CdgBegins ==
    ASSUME Cdg!Init
    PROVE  CdgInv
<1>1. PICK shadow \in Shadows, ineff \in Ineffective :
        dSender = [congestion_window |-> CdgInitialPackets * CdgMSS,
                   slowstart_threshold |-> CdgMaxWindowPackets * CdgMSS,
                   num_acked_packets |-> 0,
                   largest_sent |-> 0,
                   largest_acked |-> 0,
                   largest_sent_at_last_cutback |-> 0,
                   current_round_trip_end |-> 0,
                   shadow_congestion_window |-> shadow,
                   cong_state |-> "Open",
                   cdg_state |-> "UNKNOWN",
                   use_ineff |-> ineff,
                   backoff_count |-> 0,
                   cdg_rtt |-> Cdg!Zero,
                   cdg_rtt_prev |-> Cdg!Zero,
                   cdg_gsum |-> Cdg!Zero,
                   ring |-> [i \in 0..(RttWin - 1) |-> Cdg!Zero],
                   gfilled |-> FALSE,
                   tail |-> 0]
      BY DEF Cdg!Init
<1>2. /\ CdgInitialPackets * CdgMSS \in Nat /\ CdgMaxWindowPackets * CdgMSS \in Nat
      /\ shadow \in Nat /\ ineff \in Nat /\ 0 \in 0..(RttWin - 1)
      BY CdgConstants
<1>3. Cdg!Zero \in MinMax /\ Cdg!Zero \in Difference
      BY DEF Cdg!Zero, MinMax, Difference
<1>4. FALSE \in BOOLEAN
      OBVIOUS
<1>5. [i \in 0..(RttWin - 1) |-> Cdg!Zero] \in [0..(RttWin - 1) -> Difference]
      BY <1>3
<1>6. dSender \in CdgSenders
      BY <1>1, <1>2, <1>3, <1>4, <1>5 DEF CdgSenders
<1>7. /\ dSender.largest_sent = 0 /\ dSender.largest_acked = 0
      /\ dSender.largest_sent_at_last_cutback = 0 /\ dSender.current_round_trip_end = 0
      /\ dSender.cong_state = "Open"
      BY <1>1
<1>8. CdgGood(dSender)
      BY <1>6, <1>7, CdgConstants DEF CdgGood, CdgShape, CutIsNamed
<1>9. dInFlight = {} /\ dBackedOff = 0
      BY DEF Cdg!Init
<1> QED BY <1>7, <1>8, <1>9 DEF CdgInv

\* A step cuts the window by its half and one backoff at most, and a backoff
\* is of a round that began after the one before.
CdgBound ==
    /\ dInFlight' # dInFlight => dSender'.congestion_window >=
        (Cdg!Min2(dSender.congestion_window,
                  Cdg!Max2(Cdg!MinWindow, dSender.congestion_window \div 2)) * 707) \div 1000
    /\ dBackedOff' # dBackedOff => dSender'.largest_acked > dBackedOff

LEMMA CdgSends ==
    ASSUME CdgInv, Cdg!SendPacket
    PROVE  CdgInv' /\ CdgBound
<1> DEFINE p == dSender.largest_sent + 1
           d == [dSender EXCEPT !.largest_sent = p]
           W == dSender.congestion_window
           M == Cdg!Max2(Cdg!MinWindow, W \div 2)
<1>1. /\ p \in 1..CdgMaxPackets /\ dSender' = d /\ dInFlight' = dInFlight \cup {p}
      /\ dBackedOff' = dBackedOff
      BY DEF Cdg!SendPacket, Cdg!Packets
<1>2. /\ dSender \in CdgSenders /\ CdgGood(dSender) /\ dSender.largest_sent \in Nat
      /\ W \in Nat /\ p \in Nat /\ p <= CdgMaxPackets /\ p = dSender.largest_sent + 1
      /\ dSender.current_round_trip_end \in Nat
  <2>1. CdgGood(dSender)
        BY DEF CdgInv
  <2>2. dSender \in CdgSenders
        BY <2>1 DEF CdgGood, CdgShape
  <2>3. /\ dSender.largest_sent \in Nat /\ W \in Nat
        /\ dSender.current_round_trip_end \in Nat
        BY <2>2 DEF CdgSenders
  <2>4. p \in Nat /\ p <= CdgMaxPackets
        BY <1>1, <2>3, CdgConstants
  <2> QED BY <2>1, <2>2, <2>3, <2>4
<1> HIDE DEF p
<1>3. /\ d \in CdgSenders /\ d.largest_sent = p
      /\ d.largest_acked = dSender.largest_acked
      /\ d.largest_sent_at_last_cutback = dSender.largest_sent_at_last_cutback
      /\ d.current_round_trip_end = dSender.current_round_trip_end
      /\ d.cong_state = dSender.cong_state /\ d.cdg_state = dSender.cdg_state
      /\ d.congestion_window = W
      BY <1>2 DEF CdgSenders
<1> HIDE DEF d
<1>4. CdgGood(d)
  <2>1. {d.largest_acked, d.largest_sent_at_last_cutback, d.current_round_trip_end}
            \subseteq Nat
        BY <1>3 DEF CdgSenders
  <2> QED BY <1>2, <1>3, <2>1 DEF CdgGood, CdgShape, CutIsNamed
<1>5. dInFlight' \subseteq 1..p
  <2>1. dInFlight \subseteq 1..dSender.largest_sent
        BY DEF CdgInv
  <2>2. 1..dSender.largest_sent \subseteq 1..p /\ p \in 1..p
        BY <1>2
  <2> QED BY <1>1, <2>1, <2>2
<1>6. CdgInv'
      BY <1>1, <1>3, <1>4, <1>5 DEF CdgInv, CdgGood, CdgShape, CutIsNamed
<1>7. W >= (Cdg!Min2(W, M) * 707) \div 1000
  <2>1. W \div 2 \in Nat
        BY <1>2, HalfIsNatural
  <2>2. M \in Nat
        BY <2>1, CdgConstants DEF Cdg!Max2
  <2> HIDE DEF M
  <2>3. Cdg!Min2(W, M) \in Nat /\ Cdg!Min2(W, M) <= W
        BY <1>2, <2>2 DEF Cdg!Min2
  <2> QED BY <1>2, <2>3, HalfIsNatural
<1>8. CdgBound
      BY <1>1, <1>3, <1>7 DEF CdgBound
<1> QED BY <1>6, <1>8

LEMMA CdgTimesOut ==
    ASSUME CdgInv, NEW b \in BOOLEAN, Cdg!OnRetransmissionTimeout(b)
    PROVE  CdgInv' /\ CdgBound
<1> DEFINE half == dSender.congestion_window \div 2
           d1 == [dSender EXCEPT !.largest_sent_at_last_cutback = 0]
           d2 == [d1 EXCEPT !.slowstart_threshold = half]
           d3 == [d2 EXCEPT !.congestion_window = Cdg!MinWindow]
           Like(e) == /\ e \in CdgSenders
                      /\ e.largest_sent = dSender.largest_sent
                      /\ e.largest_acked = dSender.largest_acked
                      /\ e.largest_sent_at_last_cutback = 0
                      /\ e.current_round_trip_end = dSender.current_round_trip_end
                      /\ e.cong_state = dSender.cong_state
                      /\ e.cdg_state = dSender.cdg_state
<1>1. /\ dSender' = IF b THEN d3 ELSE d1
      /\ dInFlight' = dInFlight /\ dBackedOff' = dBackedOff
      BY DEF Cdg!OnRetransmissionTimeout
<1>2. CdgGood(dSender) /\ dSender \in CdgSenders
      BY DEF CdgInv, CdgGood, CdgShape
<1>3. half \in Nat /\ Cdg!MinWindow \in Nat
  <2>1. dSender.congestion_window \in Nat
        BY <1>2 DEF CdgSenders
  <2> QED BY <2>1, HalfIsNatural, CdgConstants
<1> HIDE DEF half
<1>4. Like(d1)
      BY <1>2 DEF CdgSenders
<1> HIDE DEF d1
<1>5. Like(d2)
      BY <1>3, <1>4 DEF CdgSenders
<1> HIDE DEF d2
<1>6. Like(d3)
      BY <1>3, <1>5 DEF CdgSenders
<1> HIDE DEF d3, Like
<1>7. Like(dSender')
      BY <1>1, <1>4, <1>6
<1>8. CdgGood(dSender)'
  <2>1. dSender.largest_sent \in Nat
        BY <1>2 DEF CdgSenders
  <2> QED BY <1>2, <1>7, <2>1 DEF Like, CdgGood, CdgShape, CutIsNamed
<1>9. CdgInv'
      BY <1>1, <1>7, <1>8 DEF Like, CdgInv
<1> QED BY <1>1, <1>9 DEF CdgBound

\* Before the losses: the sample, and the end of slow start.
LEMMA SampledIsMarked ==
    ASSUME NEW c, CdgGood(c), NEW updated, NEW rtt \in Nat, NEW exits
    PROVE  CdgMarks(c, Cdg!SlowStartExited(Cdg!Sampled(c, updated, rtt), exits))
<1> DEFINE d == Cdg!Sampled(c, updated, rtt)
           e == [d EXCEPT !.slowstart_threshold = d.congestion_window]
<1>1. CdgMarks(c, d)
  <2>1. CdgMarks(c, c)
        BY DEF CdgMarks
  <2> QED BY <2>1, SampleIsMarked DEF Cdg!Sampled
<1> HIDE DEF d
<1>2. d \in CdgSenders /\ d.congestion_window \in Nat
      BY <1>1 DEF CdgMarks, CdgGood, CdgShape, CdgSenders
<1>3. CdgMarks(d, e)
      BY <1>1, <1>2 DEF CdgMarks, CdgGood, CdgShape, CdgSenders, CutIsNamed
<1> HIDE DEF e
<1>4. CdgMarks(c, e)
      BY <1>1, <1>3 DEF CdgMarks
<1> QED BY <1>1, <1>4 DEF d, e, Cdg!SlowStartExited

LEMMA CdgHears ==
    ASSUME CdgInv, NEW acked, acked \subseteq dInFlight, NEW lost, lost \subseteq dInFlight,
           NEW rtt \in CdgRtts, NEW exits \in BOOLEAN, NEW drawn \in BOOLEAN,
           Cdg!OnCongestionEvent(acked, lost, rtt, exits, drawn)
    PROVE  CdgInv' /\ CdgBound
<1> DEFINE prior == Cdg!Cardinality(dInFlight) * CdgMSS
           updated == \E p \in acked : p > dSender.largest_acked
           sampled == Cdg!Sampled(dSender, updated, rtt)
           exited == Cdg!SlowStartExited(sampled, exits)
           cut == Cdg!LoseAll(exited, lost)
           grown == Cdg!AckAll(cut, acked, prior)
           starts == Cdg!RoundStart(cut, acked, prior)
           graded == Cdg!Graded(grown, starts)
           next == Cdg!Turned(grown, starts)
           final == IF drawn THEN Cdg!CdgBackoff(next) ELSE next
           end == Cdg!GrowShadow(final, cut.congestion_window)
           W == dSender.congestion_window
           M == Cdg!Max2(Cdg!MinWindow, W \div 2)
           K == Cdg!Min2(W, M)
<1>1. /\ dSender' = end
      /\ dInFlight' = dInFlight \ (acked \cup lost)
      /\ dBackedOff' = IF drawn /\ ~Cdg!Ineffectual(next)
                       THEN dSender.largest_sent ELSE dBackedOff
      /\ drawn => starts
  <2>1. dSender' = end
        BY Zenon DEF Cdg!OnCongestionEvent
  <2>2. dInFlight' = dInFlight \ (acked \cup lost)
        BY Zenon DEF Cdg!OnCongestionEvent
  <2>3. dBackedOff' = IF drawn /\ ~Cdg!Ineffectual(next)
                      THEN dSender.largest_sent ELSE dBackedOff
        BY Zenon DEF Cdg!OnCongestionEvent
  <2>4. drawn => starts
    <3>1. drawn => Cdg!Slows(grown, starts)
          BY Zenon DEF Cdg!OnCongestionEvent
    <3> QED BY <3>1, Zenon DEF Cdg!Slows, Cdg!Compared, Cdg!Measured
  <2> QED BY <2>1, <2>2, <2>3, <2>4, Zenon
<1>2. /\ CdgGood(dSender) /\ dSender \in CdgSenders /\ W \in Nat /\ rtt \in Nat
      /\ dSender.largest_sent \in Nat
      /\ acked \subseteq 1..dSender.largest_sent /\ lost \subseteq 1..dSender.largest_sent
      BY CdgConstants DEF CdgInv, CdgGood, CdgShape, CdgSenders
<1>4. CdgMarks(dSender, exited)
      BY <1>2, SampledIsMarked
<1> HIDE DEF exited, sampled, updated
<1>5. CutOnce(exited, cut)
      BY <1>2, <1>4, LossesCutOnce DEF CdgMarks
<1> HIDE DEF cut, prior, starts
<1>6. W \div 2 \in Nat /\ M \in Nat /\ K \in Nat
  <2>1. W \div 2 \in Nat
        BY <1>2, HalfIsNatural
  <2>2. M \in Nat
        BY <2>1, CdgConstants DEF Cdg!Max2
  <2> QED BY <1>2, <2>1, <2>2 DEF Cdg!Min2
<1>7. /\ CdgGood(cut) /\ cut.largest_sent = dSender.largest_sent
      /\ cut.current_round_trip_end = dSender.current_round_trip_end
      /\ cut.congestion_window \in Nat /\ cut.congestion_window >= K
  <2>1. /\ CdgGood(cut) /\ cut.largest_sent = dSender.largest_sent
        /\ cut.current_round_trip_end = dSender.current_round_trip_end
        /\ cut.congestion_window = W \/ cut.congestion_window >= M
        BY <1>4, <1>5 DEF CutOnce, CdgMarks
  <2>2. cut.congestion_window \in Nat
        BY <2>1 DEF CdgGood, CdgShape, CdgSenders
  <2> HIDE DEF M
  <2> QED BY <1>2, <1>6, <2>1, <2>2 DEF Cdg!Min2
<1> HIDE DEF M, K
<1>8. /\ AckMoves(cut, grown)
      /\ \A q \in acked : grown.largest_acked >= q /\ grown.current_round_trip_end >= q
      BY <1>2, <1>7, AcksMove
<1> HIDE DEF grown
<1>9. /\ CdgGood(grown) /\ grown.largest_sent = dSender.largest_sent
      /\ grown.congestion_window \in Nat /\ grown.congestion_window >= K
      /\ grown.current_round_trip_end
            \in {dSender.current_round_trip_end, dSender.largest_sent}
  <2>1. CdgGood(grown) /\ grown.congestion_window \in Nat
        BY <1>8 DEF AckMoves, CdgGood, CdgShape, CdgSenders
  <2> QED BY <1>6, <1>7, <1>8, <2>1 DEF AckMoves
<1>10. CdgMarks(grown, graded)
      BY <1>9, GradIsMarked DEF CdgMarks, Cdg!Graded
<1>11. CdgMarks(grown, next)
  <2>1. CdgMarks(graded, Cdg!NextRound(graded))
        BY <1>10, RoundIsMarked DEF CdgMarks
  <2>2. CdgMarks(grown, Cdg!NextRound(graded))
        BY <1>10, <2>1 DEF CdgMarks
  <2>3. CdgMarks(grown, grown)
        BY <1>9 DEF CdgMarks
  <2>4. next = Cdg!NextRound(graded) \/ next = grown
        BY DEF Cdg!Turned
  <2> HIDE DEF next, graded
  <2> QED BY <2>2, <2>3, <2>4
<1> HIDE DEF next, graded
<1> DEFINE scaled == (K * 707) \div 1000
<1>12. /\ CdgGood(final)
       /\ final.largest_sent = grown.largest_sent
       /\ final.largest_acked = grown.largest_acked
       /\ final.current_round_trip_end = grown.current_round_trip_end
       /\ final.congestion_window >= scaled
  <2>1. /\ CdgGood(next) /\ next.congestion_window = grown.congestion_window
        /\ next.largest_sent = grown.largest_sent
        /\ next.largest_acked = grown.largest_acked
        /\ next.current_round_trip_end = grown.current_round_trip_end
        BY <1>11 DEF CdgMarks
  <2>2. /\ scaled \in Nat /\ scaled <= K
        /\ (grown.congestion_window * 707) \div 1000 \in Nat
        /\ scaled <= (grown.congestion_window * 707) \div 1000
        BY <1>6, <1>9, HalfIsNatural
  <2> DEFINE d == Cdg!CdgBackoff(next)
  <2>3. /\ CdgGood(d)
        /\ d.largest_sent = next.largest_sent
        /\ d.largest_acked = next.largest_acked
        /\ d.current_round_trip_end = next.current_round_trip_end
        /\ d.congestion_window >= (grown.congestion_window * 707) \div 1000
        BY <2>1, BackoffIsBounded
  <2>4. d.congestion_window \in Nat
        BY <2>3 DEF CdgGood, CdgShape, CdgSenders
  <2> HIDE DEF d, scaled
  <2>5. d.congestion_window >= scaled
        BY <2>2, <2>3, <2>4
  <2>6. next.congestion_window >= scaled
        BY <1>6, <1>9, <2>1, <2>2
  <2>7. final = d \/ final = next
        BY DEF d
  <2> HIDE DEF final
  <2> QED BY <2>1, <2>3, <2>5, <2>6, <2>7
<1> HIDE DEF final, scaled
<1>13. CdgMarks(final, end)
      BY <1>7, <1>12, ShadowIsMarked
<1> HIDE DEF end
<1>14. /\ CdgGood(end) /\ end.largest_sent = dSender.largest_sent
       /\ end.largest_acked = grown.largest_acked
       /\ end.current_round_trip_end = grown.current_round_trip_end
       /\ end.congestion_window >= scaled
      BY <1>9, <1>12, <1>13 DEF CdgMarks
<1>15. /\ dBackedOff \in Nat /\ dBackedOff <= dSender.current_round_trip_end
       /\ dSender.current_round_trip_end \in Nat
       /\ dSender.current_round_trip_end <= dSender.largest_sent
      BY <1>2 DEF CdgInv, CdgGood, CdgShape, CdgSenders
<1>16. ASSUME drawn
       PROVE  /\ end.largest_acked > dBackedOff
              /\ end.current_round_trip_end = dSender.largest_sent
  <2> DEFINE last == CHOOSE p \in acked : \A q \in acked : q <= p
             before == Cdg!AckAll(cut, acked \ {last}, prior)
  <2>1. acked # {} /\ last > before.current_round_trip_end
    <3>1. Cdg!RoundStart(cut, acked, prior)
          BY <1>1, <1>16 DEF starts
    <3> QED BY <3>1 DEF Cdg!RoundStart
  <2>2. last \in acked
    <3>1. \E m \in acked : \A k \in acked : k <= m
          BY <1>2, <2>1, Largest
    <3> QED BY <3>1
  <2> HIDE DEF last
  <2>3. AckMoves(cut, before)
    <3>1. acked \ {last} \subseteq 1..cut.largest_sent
          BY <1>2, <1>7
    <3> QED BY <1>7, <3>1, AcksMove
  <2> HIDE DEF before
  <2>4. before.current_round_trip_end
            \in {dSender.current_round_trip_end, dSender.largest_sent}
        BY <1>7, <2>3 DEF AckMoves
  <2>5. last \in Nat /\ last > dSender.current_round_trip_end
        BY <1>2, <1>15, <2>1, <2>2, <2>4
  <2>6. grown.largest_acked >= last /\ grown.current_round_trip_end >= last
        BY <1>8, <2>2
  <2>7. grown.largest_acked \in Nat /\ grown.current_round_trip_end \in Nat
        BY <1>9 DEF CdgGood, CdgShape, CdgSenders
  <2>8. grown.current_round_trip_end = dSender.largest_sent
        BY <1>9, <1>15, <2>5, <2>6, <2>7
  <2> QED BY <1>14, <1>15, <2>5, <2>6, <2>7, <2>8
<1>17. dBackedOff' \in Nat /\ dBackedOff' <= end.current_round_trip_end
  <2>1. CASE dBackedOff' = dBackedOff
    <3>1. dBackedOff <= grown.current_round_trip_end
          BY <1>2, <1>9, <1>15
    <3> QED BY <1>14, <1>15, <2>1, <3>1
  <2>2. CASE dBackedOff' # dBackedOff
    <3>1. drawn /\ dBackedOff' = dSender.largest_sent
          BY <1>1, <2>2
    <3> QED BY <1>2, <1>16, <3>1
  <2> QED BY <2>1, <2>2
<1>18. CdgInv'
  <2>1. dInFlight' \subseteq 1..end.largest_sent
        BY <1>1, <1>14 DEF CdgInv
  <2>2. CdgGood(dSender)'
        BY <1>1, <1>14 DEF CdgGood, CdgShape, CutIsNamed
  <2> QED BY <1>1, <1>17, <2>1, <2>2 DEF CdgInv
<1>19. dBackedOff' # dBackedOff => dSender'.largest_acked > dBackedOff
      BY <1>1, <1>16
<1>20. dSender'.congestion_window >= (K * 707) \div 1000
      BY <1>1, <1>14 DEF scaled
<1> QED BY <1>18, <1>19, <1>20 DEF CdgBound, K, M

LEMMA CdgStep ==
    ASSUME CdgInv, Cdg!Next
    PROVE  CdgInv' /\ CdgBound
<1>1. CASE Cdg!SendPacket
      BY <1>1, CdgSends
<1>2. CASE \E acked, lost \in SUBSET dInFlight, rtt \in CdgRtts, exits, drawn \in BOOLEAN :
            Cdg!OnCongestionEvent(acked, lost, rtt, exits, drawn)
  <2>1. PICK acked \in SUBSET dInFlight, lost \in SUBSET dInFlight, rtt \in CdgRtts,
             exits \in BOOLEAN, drawn \in BOOLEAN :
             Cdg!OnCongestionEvent(acked, lost, rtt, exits, drawn)
        BY <1>2
  <2>2. acked \subseteq dInFlight /\ lost \subseteq dInFlight
        OBVIOUS
  <2> QED BY <2>1, <2>2, CdgHears
<1>3. CASE \E b \in BOOLEAN : Cdg!OnRetransmissionTimeout(b)
      BY <1>3, CdgTimesOut
<1> QED BY <1>1, <1>2, <1>3 DEF Cdg!Next

LEMMA CdgStutter ==
    ASSUME CdgInv, UNCHANGED cdgVars
    PROVE  CdgInv'
BY DEF CdgInv, cdgVars, CdgGood, CdgShape, CutIsNamed

-----------------------------------------------------------------------------
(***************************************************************************)
(* The three of them.                                                      *)
(***************************************************************************)
IInv == VegasInv /\ CopaInv /\ CdgInv

LEMMA Moves ==
    ASSUME IInv, [Next]_vars
    PROVE  /\ IInv'
           /\ \/ Vegas!Next
              \/ UNCHANGED vegasVars
           /\ \/ Copa!Next
              \/ UNCHANGED copaVars
           /\ \/ Cdg!Next
              \/ UNCHANGED cdgVars
<1>1. VegasInv /\ CopaInv /\ CdgInv
      BY DEF IInv
<1>2. CASE Vegas!Next /\ UNCHANGED <<copaVars, cdgVars>>
      BY <1>1, <1>2, VegasStep, CopaStutter, CdgStutter DEF IInv
<1>3. CASE Copa!Next /\ UNCHANGED <<vegasVars, cdgVars>>
      BY <1>1, <1>3, VegasStutter, CopaStep, CdgStutter DEF IInv
<1>4. CASE Cdg!Next /\ UNCHANGED <<vegasVars, copaVars>>
      BY <1>1, <1>4, VegasStutter, CopaStutter, CdgStep DEF IInv
<1>5. CASE UNCHANGED <<vegasVars, copaVars, cdgVars>>
      BY <1>1, <1>5, VegasStutter, CopaStutter, CdgStutter DEF IInv
<1>6. UNCHANGED vars => UNCHANGED <<vegasVars, copaVars, cdgVars>>
      BY DEF vars
<1> QED BY <1>2, <1>3, <1>4, <1>5, <1>6 DEF Next

\* The inductive invariant of the three controllers: each keeps its own, and a
\* step of one leaves the others alone.
THEOREM Invariant == Spec => []IInv
<1>1. Init => IInv
      BY VegasBegins, CopaStarts, CdgBegins DEF Init, IInv
<1>2. IInv /\ [Next]_vars => IInv'
      BY Moves
<1> QED BY <1>1, <1>2, PTL DEF Spec

\* The types, and the floors of the windows: neither Vegas nor Copa ever goes
\* below its minimum, whatever is lost.
THEOREM TypeCorrect == Spec => []TypeOK
<1>1. IInv => TypeOK
      BY VegasInvImplies, CopaInvImplies, CdgInvImplies DEF IInv, TypeOK
<1> QED BY <1>1, Invariant, PTL

\* RecoveryIsNamed: the mode of Vegas and the two states of CDG say what the
\* packet numbers say, also after an event that enters and leaves recovery.
THEOREM RecoveryStaysNamed == Spec => []RecoveryIsNamed
<1>1. IInv => RecoveryIsNamed
      BY VegasInvImplies, CdgInvImplies DEF IInv, RecoveryIsNamed
<1> QED BY <1>1, Invariant, PTL

\* EpochHasSamples: Vegas never decides with the infinite RTT of an epoch that
\* has no sample.
THEOREM EpochsHaveSamples == Spec => []EpochHasSamples
<1>1. IInv => EpochHasSamples
      BY VegasInvImplies DEF IInv, EpochHasSamples
<1> QED BY <1>1, Invariant, PTL

\* ChecksHoldInWindow: no CHECK of Vegas fails before the first sample can have
\* left the filter, however long the filter's window is.
THEOREM ChecksHold == Spec => []ChecksHoldInWindow
<1>1. IInv => ChecksHoldInWindow
      BY VegasInvImplies DEF IInv, ChecksHoldInWindow
<1> QED BY <1>1, Invariant, PTL

\* VelocityCountsRtts: Copa's velocity is the power of two that its count of RTTs
\* in one direction says, for any width of the velocity.
THEOREM VelocityAgrees == Spec => []VelocityCountsRtts
<1>1. IInv => VelocityCountsRtts
      BY CopaInvImplies DEF IInv, VelocityCountsRtts
<1> QED BY <1>1, Invariant, PTL

\* SlowStartPace: a slow start that has doubled k times has lasted k RTTs.
THEOREM SlowStartKeepsPace == Spec => []SlowStartPace
<1>1. IInv => SlowStartPace
      BY CopaInvImplies DEF IInv, SlowStartPace
<1> QED BY <1>1, Invariant, PTL

\* NoFastStepBackwards: no acknowledgement moves Copa's window against the
\* recorded direction at a velocity above 1.
THEOREM NoFastStep == Spec => NoFastStepBackwards
<1> DEFINE Forwards == pVelocity' > 1 =>
                /\ pWindow' > pWindow /\ ~pSlowStart => pDirection' = "Up"
                /\ pWindow' < pWindow => pDirection' = "Down"
<1>1. IInv /\ [Next]_vars => [Forwards]_(Copa!vars)
  <2> SUFFICES ASSUME IInv, [Next]_vars
               PROVE  [Forwards]_(Copa!vars)
      OBVIOUS
  <2>1. CopaInv
        BY DEF IInv
  <2>2. CASE UNCHANGED copaVars
        BY <2>2 DEF copaVars, Copa!vars, Copa!velocityState
  <2>3. CASE Copa!Tick
    <3>1. pWindow' = pWindow /\ pWindow \in Nat
          BY <2>1, <2>3 DEF Copa!Tick, CopaInv, CopaTyping
    <3> QED BY <3>1
  <2>4. CASE \E acked \in 0..MaxAcked, lrtt, srtt \in Copa!Rtts, lostNew \in BOOLEAN,
                ackedNew \in BOOLEAN :
             /\ ackedNew => acked > 0
             /\ Copa!OnCongestionEvent(acked, lrtt, srtt, lostNew, ackedNew)
    <3>1. pNow' = pNow
          BY <2>4 DEF Copa!OnCongestionEvent
    <3>2. Copa!Next
          BY <2>4 DEF Copa!Next
    <3>3. CopaMoves
          BY <2>1, <3>1, <3>2, CopaStep
    <3> QED BY <3>3 DEF CopaMoves
  <2>5. CASE Copa!Next
        BY <2>3, <2>4, <2>5 DEF Copa!Next
  <2> QED BY <2>2, <2>5, Moves
<1> QED BY <1>1, Invariant, PTL DEF Spec, NoFastStepBackwards, Copa!NoFastStepBackwards

\* CutIsBounded: any number of losses in one event takes half of Vegas's window
\* at most, half and one backoff of CDG's; and CDG backs off once per round.
THEOREM CutsAreBounded == Spec => CutIsBounded
<1> DEFINE Halves == Vegas!LossEvent => vSender'.congestion_window >=
                Vegas!Max2(Vegas!MinWindow, vSender.congestion_window \div 2 - VegasMSS)
           Keeps == dInFlight' # dInFlight => dSender'.congestion_window >=
                (Cdg!Min2(dSender.congestion_window,
                    Cdg!Max2(Cdg!MinWindow, dSender.congestion_window \div 2)) * 707) \div 1000
           Waits == dBackedOff' # dBackedOff => dSender'.largest_acked > dBackedOff
<1>1. IInv /\ [Next]_vars => [Halves]_(Vegas!vars)
  <2> SUFFICES ASSUME IInv, [Next]_vars
               PROVE  [Halves]_(Vegas!vars)
      OBVIOUS
  <2>1. VegasInv
        BY DEF IInv
  <2>2. CASE UNCHANGED vegasVars
        BY <2>2 DEF vegasVars, Vegas!vars
  <2>3. CASE Vegas!Next
        BY <2>1, <2>3, VegasStep
  <2> QED BY <2>2, <2>3, Moves
<1>2. IInv /\ [Next]_vars => [Keeps]_(Cdg!vars) /\ [Waits]_(Cdg!vars)
  <2> SUFFICES ASSUME IInv, [Next]_vars
               PROVE  [Keeps]_(Cdg!vars) /\ [Waits]_(Cdg!vars)
      OBVIOUS
  <2>1. CdgInv
        BY DEF IInv
  <2>2. CASE UNCHANGED cdgVars
        BY <2>2 DEF cdgVars, Cdg!vars
  <2>3. CASE Cdg!Next
        BY <2>1, <2>3, CdgStep DEF CdgBound
  <2> QED BY <2>2, <2>3, Moves
<1>3. Spec => Vegas!LossHalvesOnce
      BY <1>1, Invariant, PTL DEF Spec, Vegas!LossHalvesOnce
<1>4. Spec => Cdg!CutIsBounded
      BY <1>2, Invariant, PTL DEF Spec, Cdg!CutIsBounded
<1>5. Spec => Cdg!BackoffOncePerRound
      BY <1>2, Invariant, PTL DEF Spec, Cdg!BackoffOncePerRound
<1> QED BY <1>3, <1>4, <1>5 DEF CutIsBounded

-----------------------------------------------------------------------------
(***************************************************************************)
(* The running sum of CDG.  The ring holds the last gradients, the oldest  *)
(* of them where the next one goes, so that what CalculateGrad takes out   *)
(* of the sum is what leaves the last kRttWin.                             *)
(***************************************************************************)

SumOf(q) == Cdg!FoldLeft(Cdg!Plus, Cdg!Zero, q)

LEMMA DifferencesAdd ==
    /\ Cdg!Zero \in Difference
    /\ \A a, b \in Difference : Cdg!Plus(a, b) \in Difference /\ Cdg!Minus(a, b) \in Difference
    /\ \A a \in Difference : Cdg!Plus(Cdg!Zero, a) = a /\ Cdg!Plus(a, Cdg!Zero) = a
    /\ \A a, b, c \in Difference :
            Cdg!Plus(Cdg!Plus(a, b), c) = Cdg!Plus(a, Cdg!Plus(b, c))
    /\ \A a, b, c \in Difference :
            Cdg!Plus(Cdg!Plus(a, b), Cdg!Minus(c, a)) = Cdg!Plus(b, c)
BY DEF Cdg!Zero, Cdg!Plus, Cdg!Minus, Difference

\* f is what the sum over q recurses with, from its last element down.
RunsUp(f, q) ==
    f = [s \in SUBSET DOMAIN q |-> IF s = {} THEN Cdg!Zero
                                   ELSE Cdg!Plus(f[s \ {Cdg!Max(s)}], q[Cdg!Max(s)])]

LEMMA SumIsAFold ==
    ASSUME NEW q
    PROVE  SumOf(q) = (CHOOSE f : RunsUp(f, q))[DOMAIN q]
BY DEF SumOf, Cdg!FoldLeft, Cdg!MapThenFoldSet, RunsUp

LEMMA MaxIs ==
    ASSUME NEW s \in SUBSET Nat, NEW m \in s, \A y \in s : m >= y
    PROVE  Cdg!Max(s) = m
<1>1. ASSUME NEW x \in s, \A y \in s : x >= y
      PROVE  x = m
      BY <1>1
<1> QED BY <1>1 DEF Cdg!Max

LEMMA MaxOfPositions ==
    ASSUME NEW n \in Nat, NEW s \in SUBSET (1..n), s # {}
    PROVE  Cdg!Max(s) \in s
<1> DEFINE T == {k \in Nat : \A y \in s : y <= k}
<1>1. n \in T
      OBVIOUS
<1>2. PICK m \in T : \A k \in T : m <= k
      BY <1>1, LeastNatural
<1>3. m \in s
  <2> SUFFICES ASSUME m \notin s
               PROVE  FALSE
      OBVIOUS
  <2>1. ASSUME NEW y \in s
        PROVE  y < m /\ y \in Nat /\ y >= 1
    <3>1. y <= m /\ y # m /\ m \in Nat /\ y \in Nat /\ y >= 1
          OBVIOUS
    <3> QED BY <3>1
  <2>2. m >= 1 /\ m \in Nat
    <3>1. PICK y \in s : TRUE
          OBVIOUS
    <3>2. m \in Nat
          BY <1>2
    <3> QED BY <2>1, <3>1, <3>2
  <2>3. m - 1 \in T
        BY <2>1, <2>2
  <2> QED BY <1>2, <2>3
<1>4. \A y \in s : m >= y
      OBVIOUS
<1> HIDE DEF T
<1>5. s \in SUBSET Nat
      OBVIOUS
<1> QED BY <1>3, <1>4, <1>5, MaxIs

LEMMA RunExists ==
    ASSUME NEW q \in Seq(Difference)
    PROVE  \E f : RunsUp(f, q)
<1> DEFINE S == 1..Len(q)
           pick == [s \in SUBSET S |-> Cdg!Max(s)]
           none == Cdg!Zero
           step == [x \in S \X Difference |-> Cdg!Plus(x[2], q[x[1]])]
<1>1. Len(q) \in Nat /\ DOMAIN q = S /\ \A i \in S : q[i] \in Difference
      OBVIOUS
<1>2. IsFiniteSet(S)
      BY <1>1, FS_Interval
<1>3. \A s \in SUBSET S : s # {} => Cdg!Max(s) \in s
      BY <1>1, MaxOfPositions
<1>4. step \in [S \X Difference -> Difference]
  <2>1. ASSUME NEW x \in S \X Difference
        PROVE  Cdg!Plus(x[2], q[x[1]]) \in Difference
    <3>1. x[1] \in S /\ x[2] \in Difference
          OBVIOUS
    <3>2. q[x[1]] \in Difference
          BY <1>1, <3>1
    <3> HIDE DEF S
    <3> QED BY <3>1, <3>2, DifferencesAdd
  <2> QED BY <2>1
<1>5. \A i \in S, d \in Difference : step[<<i, d>>] = Cdg!Plus(d, q[i])
      OBVIOUS
<1>6. none \in Difference
      BY DifferencesAdd
<1>7. Picks(pick, S) /\ \A s \in SUBSET S : pick[s] = Cdg!Max(s)
      BY <1>3 DEF Picks
<1> HIDE DEF pick, step, none, S
<1>8. PICK f : FoldsTo(f, S, Difference, none, pick, step)
      BY <1>2, <1>4, <1>6, <1>7, FoldExists
<1>9. ASSUME NEW s \in SUBSET S, s # {}
      PROVE  f[s] = Cdg!Plus(f[s \ {Cdg!Max(s)}], q[Cdg!Max(s)])
  <2>1. Cdg!Max(s) \in S /\ s \ {Cdg!Max(s)} \in SUBSET S /\ pick[s] = Cdg!Max(s)
        BY <1>3, <1>7, <1>9
  <2>2. /\ f[s \ {Cdg!Max(s)}] \in Difference
        /\ f[s] = step[<<Cdg!Max(s), f[s \ {Cdg!Max(s)}]>>]
        BY <1>8, <1>9, <2>1 DEF FoldsTo
  <2> QED BY <1>5, <2>1, <2>2
<1>10. f = [s \in SUBSET S |-> f[s]] /\ f[{}] = Cdg!Zero
       BY <1>8 DEF FoldsTo, none
<1>11. RunsUp(f, q)
       BY <1>1, <1>9, <1>10 DEF RunsUp
<1> QED BY <1>11

\* The sums of the beginnings of q.
Beginnings(f, q) ==
    /\ f[1..0] = Cdg!Zero
    /\ \A k \in 1..Len(q) : f[1..k] = Cdg!Plus(f[1..(k - 1)], q[k])

LEMMA SumsOfBeginnings ==
    ASSUME NEW q \in Seq(Difference), NEW f, RunsUp(f, q)
    PROVE  Beginnings(f, q)
<1> DEFINE n == Len(q)
<1>1. n \in Nat /\ DOMAIN q = 1..n
      OBVIOUS
<1> HIDE DEF n
<1>2. /\ f[{}] = Cdg!Zero
      /\ \A s \in SUBSET (1..n) : s # {} =>
            f[s] = Cdg!Plus(f[s \ {Cdg!Max(s)}], q[Cdg!Max(s)])
      BY <1>1 DEF RunsUp
<1>3. 1..0 = {}
      OBVIOUS
<1>4. ASSUME NEW k \in 1..n
      PROVE  f[1..k] = Cdg!Plus(f[1..(k - 1)], q[k])
  <2>1. k \in 1..k /\ 1..k \in SUBSET Nat /\ \A y \in 1..k : k >= y
        BY <1>1
  <2>2. Cdg!Max(1..k) = k
        BY <2>1, MaxIs
  <2>3. k \in Nat /\ k <= n
        BY <1>1
  <2>4. \A i \in 1..k : i \in 1..n
        BY <1>1, <2>3
  <2>5. 1..k \in SUBSET (1..n) /\ 1..k # {}
        BY <2>1, <2>4
  <2>6. \A i : i \in (1..k) \ {k} <=> i \in 1..(k - 1)
        BY <2>3
  <2>7. (1..k) \ {k} = 1..(k - 1)
        BY <2>6
  <2>8. f[1..k] = Cdg!Plus(f[(1..k) \ {Cdg!Max(1..k)}], q[Cdg!Max(1..k)])
        BY <1>2, <2>5
  <2> QED BY <2>2, <2>7, <2>8
<1> QED BY <1>2, <1>3, <1>4 DEF Beginnings, n

\* A sum grows at its end.
LEMMA SumGrows ==
    /\ SumOf(<< >>) = Cdg!Zero
    /\ \A q \in Seq(Difference), x \in Difference :
            SumOf(Append(q, x)) = Cdg!Plus(SumOf(q), x)
    /\ \A q \in Seq(Difference) : SumOf(q) \in Difference
<1> DEFINE H(q) == CHOOSE f : RunsUp(f, q)
<1>1. ASSUME NEW q \in Seq(Difference)
      PROVE  Beginnings(H(q), q) /\ SumOf(q) = H(q)[1..Len(q)]
  <2>1. DOMAIN q = 1..Len(q)
        OBVIOUS
  <2>2. RunsUp(H(q), q)
        BY RunExists
  <2> QED BY <2>1, <2>2, SumIsAFold, SumsOfBeginnings
<1> HIDE DEF H
<1>2. SumOf(<< >>) = Cdg!Zero
  <2>1. << >> \in Seq(Difference) /\ Len(<< >>) = 0
        OBVIOUS
  <2> QED BY <1>1, <2>1 DEF Beginnings
<1>3. ASSUME NEW q \in Seq(Difference), NEW x \in Difference
      PROVE  SumOf(Append(q, x)) = Cdg!Plus(SumOf(q), x)
  <2> DEFINE p == Append(q, x)
             n == Len(q)
             e == H(p)
             f == H(q)
  <2>1. /\ p \in Seq(Difference) /\ Len(p) = n + 1 /\ n \in Nat /\ p[n + 1] = x
        /\ \A i \in 1..n : p[i] = q[i]
        OBVIOUS
  <2> HIDE DEF p
  <2>2. /\ Beginnings(e, p) /\ SumOf(p) = e[1..(n + 1)]
        /\ Beginnings(f, q) /\ SumOf(q) = f[1..n]
        BY <1>1, <2>1
  <2> HIDE DEF e, f
  <2>3. e[1..0] = Cdg!Zero /\ \A k \in 1..(n + 1) : e[1..k] = Cdg!Plus(e[1..(k - 1)], p[k])
        BY <2>1, <2>2 DEF Beginnings
  <2>4. f[1..0] = Cdg!Zero /\ \A k \in 1..n : f[1..k] = Cdg!Plus(f[1..(k - 1)], q[k])
        BY <2>2 DEF Beginnings
  <2> HIDE DEF n
  <2> DEFINE P == {k \in Nat : k <= n => e[1..k] = f[1..k]}
  <2>5. 0 \in P
        BY <2>3, <2>4
  <2>6. ASSUME NEW k \in Nat, k \in P
        PROVE  k + 1 \in P
    <3>1. ASSUME k + 1 <= n
          PROVE  e[1..(k + 1)] = f[1..(k + 1)]
      <4>1. k + 1 \in 1..n /\ k + 1 \in 1..(n + 1) /\ (k + 1) - 1 = k /\ k <= n
            BY <2>1, <3>1
      <4>2. e[1..(k + 1)] = Cdg!Plus(e[1..((k + 1) - 1)], p[k + 1])
            BY <2>3, <4>1
      <4>3. f[1..(k + 1)] = Cdg!Plus(f[1..((k + 1) - 1)], q[k + 1])
            BY <2>4, <4>1
      <4>4. e[1..k] = f[1..k] /\ p[k + 1] = q[k + 1]
            BY <2>1, <2>6, <4>1
      <4> QED BY <4>1, <4>2, <4>3, <4>4
    <3> QED BY <3>1
  <2> HIDE DEF P
  <2>7. n \in P
        BY <2>1, <2>5, <2>6, SetInduction
  <2>8. e[1..n] = f[1..n]
        BY <2>1, <2>7 DEF P
  <2>9. e[1..(n + 1)] = Cdg!Plus(e[1..n], x)
    <3>1. n + 1 \in 1..(n + 1) /\ (n + 1) - 1 = n
          BY <2>1
    <3>2. e[1..(n + 1)] = Cdg!Plus(e[1..((n + 1) - 1)], p[n + 1])
          BY <2>3, <3>1
    <3> QED BY <2>1, <3>1, <3>2
  <2> QED BY <2>2, <2>8, <2>9 DEF p
<1>4. ASSUME NEW q \in Seq(Difference)
      PROVE  SumOf(q) \in Difference
  <2> DEFINE f == H(q)
             n == Len(q)
  <2>1. f[1..0] = Cdg!Zero /\ \A k \in 1..n : f[1..k] = Cdg!Plus(f[1..(k - 1)], q[k])
        BY <1>1 DEF Beginnings
  <2>2. n \in Nat /\ \A k \in 1..n : q[k] \in Difference
        OBVIOUS
  <2>3. SumOf(q) = f[1..n]
        BY <1>1
  <2> HIDE DEF f, n
  <2> DEFINE P == {k \in Nat : k <= n => f[1..k] \in Difference}
  <2>4. 0 \in P
        BY <2>1, DifferencesAdd
  <2>5. ASSUME NEW k \in Nat, k \in P
        PROVE  k + 1 \in P
    <3>1. ASSUME k + 1 <= n
          PROVE  f[1..(k + 1)] \in Difference
      <4>1. k + 1 \in 1..n /\ (k + 1) - 1 = k /\ f[1..k] \in Difference
            BY <2>2, <2>5, <3>1
      <4>2. f[1..(k + 1)] = Cdg!Plus(f[1..((k + 1) - 1)], q[k + 1]) /\ q[k + 1] \in Difference
            BY <2>1, <2>2, <4>1
      <4>3. f[1..((k + 1) - 1)] \in Difference
            BY <4>1
      <4> DEFINE a == f[1..((k + 1) - 1)]
                 z == f[1..(k + 1)]
      <4>4. a \in Difference /\ q[k + 1] \in Difference /\ z = Cdg!Plus(a, q[k + 1])
            BY <4>2, <4>3
      <4> HIDE DEF a, z
      <4>5. z \in Difference
            BY <4>4, DifferencesAdd
      <4> QED BY <4>5 DEF z
    <3> QED BY <3>1
  <2> HIDE DEF P
  <2>6. n \in P
        BY <2>2, <2>4, <2>5, SetInduction
  <2> QED BY <2>2, <2>3, <2>6 DEF P
<1> QED BY <1>2, <1>3, <1>4

LEMMA PartGrows ==
    ASSUME NEW g \in Seq(Difference), NEW a \in Nat \ {0}, NEW k \in Nat,
           a <= k + 1, k + 1 <= Len(g)
    PROVE  /\ SubSeq(g, a, k) \in Seq(Difference) /\ g[k + 1] \in Difference
           /\ SubSeq(g, a, k + 1) = Append(SubSeq(g, a, k), g[k + 1])
<1> DEFINE s == SubSeq(g, a, k)
           t == SubSeq(g, a, k + 1)
           l == k - a + 1
<1>1. Len(g) \in Nat /\ l \in Nat /\ \A i \in 1..Len(g) : g[i] \in Difference
      OBVIOUS
<1>2. /\ s \in Seq(Difference) /\ Len(s) = l
      /\ \A i \in 1..l : s[i] = g[a + i - 1]
      BY <1>1
<1>3. /\ t \in Seq(Difference) /\ Len(t) = l + 1
      /\ \A i \in 1..(l + 1) : t[i] = g[a + i - 1]
      BY <1>1
<1> HIDE DEF s, t
<1>4. k + 1 \in 1..Len(g) /\ g[k + 1] \in Difference
      BY <1>1
<1> DEFINE r == Append(s, g[k + 1])
<1>5. /\ r \in Seq(Difference) /\ Len(r) = l + 1 /\ r[l + 1] = g[k + 1]
      /\ \A i \in 1..l : r[i] = s[i]
      BY <1>1, <1>2, <1>4
<1> HIDE DEF r
<1>6. ASSUME NEW i \in 1..(l + 1)
      PROVE  t[i] = r[i]
  <2>1. CASE i \in 1..l
        BY <1>2, <1>3, <1>5, <2>1
  <2>2. CASE i = l + 1
    <3>1. a + i - 1 = k + 1
          BY <1>1, <2>2
    <3>2. t[i] = g[a + i - 1]
          BY <1>3
    <3> QED BY <1>5, <2>2, <3>1, <3>2
  <2> QED BY <1>1, <2>1, <2>2
<1>7. t = r
  <2> HIDE DEF l
  <2> QED BY <1>1, <1>3, <1>5, <1>6
<1> QED BY <1>2, <1>4, <1>7 DEF r, s, t

\* Without its oldest element a part of a sequence has so much less in its sum.
LEMMA OldestLeaves ==
    ASSUME NEW g \in Seq(Difference), NEW m \in 1..Len(g)
    PROVE  \A k \in m..Len(g) :
                SumOf(SubSeq(g, m, k)) = Cdg!Plus(g[m], SumOf(SubSeq(g, m + 1, k)))
<1> DEFINE n == Len(g)
           Holds(k) == SumOf(SubSeq(g, m, k)) = Cdg!Plus(g[m], SumOf(SubSeq(g, m + 1, k)))
           P == {j \in Nat : m + j <= n => Holds(m + j)}
<1>1. n \in Nat /\ m \in Nat /\ m >= 1 /\ m <= n /\ g[m] \in Difference
      OBVIOUS
<1> HIDE DEF n
<1>2. Holds(m)
  <2>1. m - 1 \in Nat /\ (m - 1) + 1 = m /\ m <= (m - 1) + 1
        BY <1>1
  <2>2. SubSeq(g, m, m) = Append(SubSeq(g, m, m - 1), g[m])
        BY <1>1, <2>1, PartGrows DEF n
  <2>3. SubSeq(g, m, m - 1) = << >> /\ SubSeq(g, m + 1, m) = << >>
        BY <1>1
  <2>4. << >> \in Seq(Difference)
        OBVIOUS
  <2>5. SumOf(SubSeq(g, m, m)) = Cdg!Plus(Cdg!Zero, g[m])
        BY <1>1, <2>2, <2>3, <2>4, SumGrows
  <2> QED BY <1>1, <2>3, <2>5, SumGrows, DifferencesAdd
<1>3. ASSUME NEW k \in Nat, m <= k, k + 1 <= n, Holds(k)
      PROVE  Holds(k + 1)
  <2> DEFINE x == g[k + 1]
             s == SubSeq(g, m, k)
             t == SubSeq(g, m + 1, k)
  <2>1. /\ s \in Seq(Difference) /\ x \in Difference
        /\ SubSeq(g, m, k + 1) = Append(s, x)
        BY <1>1, <1>3, PartGrows DEF n
  <2>2. /\ t \in Seq(Difference)
        /\ SubSeq(g, m + 1, k + 1) = Append(t, x)
    <3>1. m + 1 \in Nat \ {0} /\ m + 1 <= k + 1
          BY <1>1, <1>3
    <3> QED BY <1>3, <3>1, PartGrows DEF n
  <2>3. SumOf(s) = Cdg!Plus(g[m], SumOf(t))
        BY <1>3
  <2> HIDE DEF s, t, x
  <2>4. /\ SumOf(Append(s, x)) = Cdg!Plus(SumOf(s), x)
        /\ SumOf(Append(t, x)) = Cdg!Plus(SumOf(t), x)
        /\ SumOf(t) \in Difference
        BY <2>1, <2>2, SumGrows
  <2>5. Cdg!Plus(Cdg!Plus(g[m], SumOf(t)), x) = Cdg!Plus(g[m], Cdg!Plus(SumOf(t), x))
        BY <1>1, <2>1, <2>4, DifferencesAdd
  <2> QED BY <2>1, <2>2, <2>3, <2>4, <2>5
<1>4. 0 \in P
  <2>1. m + 0 = m
        BY <1>1
  <2> QED BY <1>2, <2>1
<1>5. ASSUME NEW j \in Nat, j \in P
      PROVE  j + 1 \in P
  <2>1. ASSUME m + (j + 1) <= n
        PROVE  Holds(m + (j + 1))
    <3>1. m + j \in Nat /\ m <= m + j /\ (m + j) + 1 <= n /\ m + j <= n
          BY <1>1, <2>1
    <3>2. Holds(m + j)
          BY <1>5, <3>1
    <3> HIDE DEF Holds
    <3>3. Holds((m + j) + 1)
          BY <1>3, <3>1, <3>2
    <3>4. m + (j + 1) = (m + j) + 1
          BY <1>1
    <3> QED BY <3>3, <3>4
  <2> HIDE DEF Holds
  <2> QED BY <2>1
<1> HIDE DEF Holds
<1>6. \A j \in Nat : j \in P
  <2> HIDE DEF P
  <2> QED BY <1>4, <1>5, SetInduction
<1>7. ASSUME NEW k \in m..n
      PROVE  Holds(k)
  <2>1. k - m \in Nat /\ m + (k - m) = k /\ k <= n
        BY <1>1
  <2>2. k - m \in P
        BY <1>6, <2>1
  <2>3. Holds(m + (k - m))
        BY <2>1, <2>2
  <2> QED BY <2>1, <2>3
<1> QED BY <1>7 DEF Holds, n

\* The gradients the sum is of, and the one k places before the next.
LastRounds(g) == SubSeq(g, Cdg!Max2(1, Len(g) - RttWin + 1), Len(g))
Back(g, k) == IF k <= Len(g) THEN g[Len(g) + 1 - k] ELSE Cdg!Zero

LEMMA SumOfTheNextRounds ==
    ASSUME NEW g \in Seq(Difference), NEW x \in Difference
    PROVE  /\ SumOf(LastRounds(g)) \in Difference
           /\ Back(g, RttWin) \in Difference
           /\ SumOf(LastRounds(Append(g, x)))
                = Cdg!Plus(SumOf(LastRounds(g)), Cdg!Minus(x, Back(g, RttWin)))
<1> DEFINE p == Append(g, x)
           n == Len(g)
           W == RttWin
<1>1. /\ n \in Nat /\ p \in Seq(Difference) /\ Len(p) = n + 1 /\ p[n + 1] = x
      /\ \A i \in 1..n : p[i] = g[i] /\ g[i] \in Difference
      OBVIOUS
<1>2. W \in Nat /\ W >= 1
      BY CdgConstants
<1> HIDE DEF p, n, W
<1>3. ASSUME NEW a \in Nat \ {0}
      PROVE  SubSeq(p, a, n) = SubSeq(g, a, n)
  <2>1. CASE a <= n
    <3> DEFINE s == SubSeq(p, a, n)
               t == SubSeq(g, a, n)
               l == n - a + 1
    <3>1. l \in Nat
          BY <1>1, <2>1
    <3>2. s \in Seq(Difference) /\ Len(s) = l /\ \A i \in 1..l : s[i] = p[a + i - 1]
          BY <1>1, <2>1
    <3>3. t \in Seq(Difference) /\ Len(t) = l /\ \A i \in 1..l : t[i] = g[a + i - 1]
          BY <1>1, <2>1 DEF n
    <3>4. \A i \in 1..l : a + i - 1 \in 1..n
          BY <1>1, <2>1
    <3>5. \A i \in 1..l : s[i] = t[i]
          BY <1>1, <3>2, <3>3, <3>4
    <3> HIDE DEF s, t, l
    <3>6. s = t
          BY <3>1, <3>2, <3>3, <3>5
    <3> QED BY <3>6 DEF s, t
  <2>2. CASE ~ (a <= n)
    <3>1. SubSeq(p, a, n) = << >>
          BY <1>1, <2>2
    <3>2. SubSeq(g, a, n) = << >>
          BY <1>1, <2>2
    <3> QED BY <3>1, <3>2
  <2> QED BY <2>1, <2>2
<1>4. ASSUME NEW a \in Nat \ {0}, a <= n + 1
      PROVE  /\ SubSeq(g, a, n) \in Seq(Difference)
             /\ SumOf(SubSeq(p, a, n + 1)) = Cdg!Plus(SumOf(SubSeq(g, a, n)), x)
  <2>1. /\ SubSeq(p, a, n) \in Seq(Difference)
        /\ SubSeq(p, a, n + 1) = Append(SubSeq(p, a, n), p[n + 1])
    <3>1. n + 1 <= Len(p)
          BY <1>1
    <3> QED BY <1>1, <1>4, <3>1, PartGrows
  <2> QED BY <1>1, <1>3, <2>1, SumGrows
<1>5. SumOf(LastRounds(g)) \in Difference
  <2> DEFINE a == Cdg!Max2(1, n - W + 1)
  <2>1. a \in Nat \ {0} /\ a <= n + 1
        BY <1>1, <1>2 DEF Cdg!Max2
  <2> HIDE DEF a
  <2>2. SubSeq(g, a, n) \in Seq(Difference)
        BY <1>4, <2>1
  <2>3. SumOf(SubSeq(g, a, n)) \in Difference
        BY <2>2, SumGrows
  <2> QED BY <2>3 DEF LastRounds, a, n, W
<1>6. CASE n < W
  <2>1. /\ Cdg!Max2(1, n - W + 1) = 1 /\ Cdg!Max2(1, (n + 1) - W + 1) = 1
        /\ ~ (W <= n)
        BY <1>1, <1>2, <1>6 DEF Cdg!Max2
  <2>2. /\ LastRounds(g) = SubSeq(g, 1, n) /\ LastRounds(p) = SubSeq(p, 1, n + 1)
        /\ Back(g, W) = Cdg!Zero
        BY <1>1, <2>1 DEF LastRounds, Back, n, W
  <2>3. SumOf(LastRounds(p)) = Cdg!Plus(SumOf(LastRounds(g)), x)
        BY <1>1, <1>4, <2>2
  <2>4. Cdg!Minus(x, Cdg!Zero) = x
        BY DEF Cdg!Minus, Cdg!Zero, Difference
  <2> QED BY <1>5, <2>2, <2>3, <2>4, DifferencesAdd DEF p, W
<1>7. CASE n >= W
  <2> DEFINE m == n - W + 1
             y == g[m]
             rest == SumOf(SubSeq(g, m + 1, n))
  <2>1. /\ m \in 1..n /\ m \in Nat \ {0} /\ m + 1 \in Nat \ {0} /\ m + 1 <= n + 1
        /\ Cdg!Max2(1, n - W + 1) = m /\ Cdg!Max2(1, (n + 1) - W + 1) = m + 1
        /\ n + 1 - W = m
        BY <1>1, <1>2, <1>7 DEF Cdg!Max2
  <2>2. y \in Difference
        BY <1>1, <2>1
  <2>3. /\ LastRounds(g) = SubSeq(g, m, n) /\ LastRounds(p) = SubSeq(p, m + 1, n + 1)
        /\ Back(g, W) = y
        BY <1>1, <1>7, <2>1 DEF LastRounds, Back, n, W
  <2>4. SumOf(LastRounds(g)) = Cdg!Plus(y, rest)
    <3>1. m \in 1..Len(g) /\ n \in m..Len(g)
          BY <1>1, <2>1 DEF n
    <3> QED BY <2>3, <3>1, OldestLeaves
  <2>5. rest \in Difference /\ SumOf(LastRounds(p)) = Cdg!Plus(rest, x)
        BY <1>4, <2>1, <2>3, SumGrows
  <2> HIDE DEF rest, y, m
  <2>6. Cdg!Plus(Cdg!Plus(y, rest), Cdg!Minus(x, y)) = Cdg!Plus(rest, x)
        BY <2>2, <2>5, DifferencesAdd
  <2> QED BY <1>5, <2>2, <2>3, <2>4, <2>5, <2>6 DEF p, W
<1> QED BY <1>1, <1>2, <1>6, <1>7

-----------------------------------------------------------------------------
(***************************************************************************)
(* The ring.  A place i holds the gradient as many places back as it was   *)
(* filled before the tail, and nothing yet in the first rounds.            *)
(***************************************************************************)
Age(i, tail) == IF i < tail THEN tail - i ELSE tail + RttWin - i

RingHolds(c, g) ==
    /\ g \in Seq(Difference)
    /\ \A i \in 0..(RttWin - 1) : c.ring[i] = Back(g, Age(i, c.tail))
    /\ c.gfilled <=> Len(g) >= RttWin
    /\ ~c.gfilled => c.tail = Len(g)
    /\ c.cdg_gsum = SumOf(LastRounds(g))

LEMMA NextTailIs ==
    ASSUME NEW t \in 0..(RttWin - 1)
    PROVE  Cdg!NextTail(t) = IF t + 1 = RttWin THEN 0 ELSE t + 1
<1>1. RttWin \in Nat \ {0} /\ t \in Nat /\ t + 1 <= RttWin
      BY CdgConstants
<1>2. \A k \in Nat, m \in Nat \ {0} : k < m => k % m = k
      OBVIOUS
<1>3. \A m \in Nat \ {0} : m % m = 0
      OBVIOUS
<1> QED BY <1>1, <1>2, <1>3 DEF Cdg!NextTail

LEMMA GradientIsKept ==
    ASSUME NEW c, CdgGood(c), NEW g, RingHolds(c, g)
    PROVE  RingHolds(Cdg!CalculateGrad(c), Append(g, Cdg!Gradient(c)))
<1> DEFINE x == Cdg!Gradient(c)
           d == Cdg!CalculateGrad(c)
           t == c.tail
           n == Len(g)
           p == Append(g, x)
           next == Cdg!NextTail(t)
<1>1. /\ c \in CdgSenders /\ c.cdg_rtt \in MinMax /\ c.cdg_rtt_prev \in MinMax
      /\ t \in 0..(RttWin - 1) /\ c.ring \in [0..(RttWin - 1) -> Difference]
      /\ c.gfilled \in BOOLEAN
      BY DEF CdgGood, CdgShape, CdgSenders
<1>2. x \in Difference
  <2>1. MinMax \subseteq Difference
        BY DEF MinMax, Difference
  <2> QED BY <1>1, <2>1, DifferencesAdd DEF Cdg!Gradient
<1>3. /\ d.cdg_gsum = Cdg!Plus(c.cdg_gsum, Cdg!Minus(x, c.ring[t]))
      /\ d.ring = [c.ring EXCEPT ![t] = x]
      /\ d.tail = next
      /\ d.gfilled = (c.gfilled \/ next = 0)
  <2> HIDE DEF x
  <2>1. {"cdg_gsum", "ring", "tail", "gfilled", "backoff_count"} \subseteq DOMAIN c
        BY <1>1 DEF CdgSenders
  <2> QED BY <2>1 DEF Cdg!CalculateGrad, x
<1>4. /\ RttWin \in Nat /\ RttWin >= 1 /\ t \in Nat /\ t < RttWin
      /\ next = IF t + 1 = RttWin THEN 0 ELSE t + 1
      BY <1>1, CdgConstants, NextTailIs
<1> HIDE DEF x, d, next, t
<1>5. /\ g \in Seq(Difference) /\ n \in Nat
      /\ p \in Seq(Difference) /\ Len(p) = n + 1 /\ p[n + 1] = x
      /\ \A i \in 1..n : p[i] = g[i]
      BY <1>2 DEF RingHolds
<1>6. \A k \in Nat \ {0} : Back(p, k + 1) = Back(g, k)
  <2> SUFFICES ASSUME NEW k \in Nat \ {0}
               PROVE  Back(p, k + 1) = Back(g, k)
      OBVIOUS
  <2>1. CASE k <= n
    <3>1. k + 1 <= n + 1 /\ (n + 1) + 1 - (k + 1) = n + 1 - k /\ n + 1 - k \in 1..n
          BY <1>5, <2>1
    <3> HIDE DEF p, n
    <3> QED BY <1>5, <2>1, <3>1 DEF Back, n
  <2>2. CASE ~ (k <= n)
    <3>1. ~ (k + 1 <= n + 1)
          BY <1>5, <2>2
    <3> HIDE DEF p, n
    <3> QED BY <1>5, <2>2, <3>1 DEF Back, n
  <2> QED BY <2>1, <2>2
<1>7. Back(p, 1) = x
      BY <1>5 DEF Back
<1>8. c.ring[t] = Back(g, RttWin)
  <2>1. Age(t, t) = RttWin
        BY <1>4 DEF Age
  <2> QED BY <1>1, <2>1 DEF RingHolds, t
<1>9. d.cdg_gsum = SumOf(LastRounds(p))
      BY <1>2, <1>3, <1>5, <1>8, SumOfTheNextRounds DEF RingHolds
<1> HIDE DEF p
<1>10. ASSUME NEW i \in 0..(RttWin - 1)
       PROVE  d.ring[i] = Back(p, Age(i, d.tail))
  <2>1. CASE i = t
    <3>1. Age(i, next) = 1
          BY <1>4, <2>1 DEF Age
    <3> QED BY <1>1, <1>3, <1>7, <2>1, <3>1
  <2>2. CASE i # t
    <3>1. Age(i, t) \in Nat \ {0} /\ Age(i, next) = Age(i, t) + 1
          BY <1>4, <2>2 DEF Age
    <3>2. d.ring[i] = c.ring[i] /\ c.ring[i] = Back(g, Age(i, t))
          BY <1>1, <1>3, <2>2 DEF RingHolds, t
    <3> QED BY <1>3, <1>6, <3>1, <3>2
  <2> QED BY <2>1, <2>2
<1>11. /\ d.gfilled <=> Len(p) >= RttWin
       /\ ~d.gfilled => d.tail = Len(p)
  <2>1. /\ c.gfilled <=> n >= RttWin
        /\ ~c.gfilled => t = n
        BY DEF RingHolds, t
  <2>2. n >= RttWin => n + 1 >= RttWin
        BY <1>4, <1>5
  <2>3. t = n => /\ next = 0 <=> n + 1 >= RttWin
                 /\ next # 0 => next = n + 1
        BY <1>4, <1>5
  <2>4. d.gfilled <=> n + 1 >= RttWin
        BY <1>3, <2>1, <2>2, <2>3
  <2>5. ~d.gfilled => next = n + 1
        BY <1>3, <2>1, <2>3
  <2> QED BY <1>3, <1>5, <2>4, <2>5
<1>12. RingHolds(d, p)
       BY <1>5, <1>9, <1>10, <1>11 DEF RingHolds
<1> QED BY <1>12 DEF d, p, x

-----------------------------------------------------------------------------
(***************************************************************************)
(* What does not touch the ring.                                           *)
(***************************************************************************)
RingFields == {"ring", "tail", "gfilled", "cdg_gsum"}

Keeps(c, d) ==
    /\ RingFields \subseteq DOMAIN c /\ RingFields \subseteq DOMAIN d
    /\ d.ring = c.ring /\ d.tail = c.tail
    /\ d.gfilled = c.gfilled /\ d.cdg_gsum = c.cdg_gsum

LEMMA KeepsGoesOn ==
    ASSUME NEW c, NEW d, Keeps(c, d)
    PROVE  /\ \A e : Keeps(d, e) => Keeps(c, e)
           /\ \A g : RingHolds(c, g) => RingHolds(d, g)
BY DEF Keeps, RingHolds

LEMMA OperationsKeep ==
    ASSUME NEW c, RingFields \subseteq DOMAIN c
    PROVE  /\ Keeps(c, c)
           /\ Keeps(c, Cdg!NextRound(c))
           /\ Keeps(c, Cdg!EndOfBackoff(c))
           /\ Keeps(c, Cdg!CdgBackoff(c))
           /\ \A prior : Keeps(c, Cdg!MaybeIncreaseCwnd(c, prior))
           /\ \A before : Keeps(c, Cdg!GrowShadow(c, before))
           /\ \A p : Keeps(c, Cdg!UpdateRoundTripEnd(c, p))
           /\ \A updated, rtt : Keeps(c, Cdg!Sampled(c, updated, rtt))
           /\ \A exits : Keeps(c, Cdg!SlowStartExited(c, exits))
           /\ \A p : Keeps(c, Cdg!OnPacketLost(c, p))
<1> USE DEF Keeps, RingFields
<1>1. Keeps(c, c)
      OBVIOUS
<1>2. Keeps(c, Cdg!NextRound(c)) /\ Keeps(c, Cdg!EndOfBackoff(c))
      BY DEF Cdg!NextRound, Cdg!EndOfBackoff
<1>3. Keeps(c, Cdg!CdgBackoff(c))
      BY DEF Cdg!CdgBackoff, Cdg!CdgGetSlowThreshold, Cdg!Cutback
<1>4. \A prior : Keeps(c, Cdg!MaybeIncreaseCwnd(c, prior))
      BY DEF Cdg!MaybeIncreaseCwnd
<1>5. \A before : Keeps(c, Cdg!GrowShadow(c, before))
      BY DEF Cdg!GrowShadow
<1>6. \A p : Keeps(c, Cdg!UpdateRoundTripEnd(c, p))
      BY DEF Cdg!UpdateRoundTripEnd
<1>7. \A updated, rtt : Keeps(c, Cdg!Sampled(c, updated, rtt))
      BY DEF Cdg!Sampled, Cdg!TakeSample
<1>8. \A exits : Keeps(c, Cdg!SlowStartExited(c, exits))
      BY DEF Cdg!SlowStartExited
<1>9. \A p : Keeps(c, Cdg!OnPacketLost(c, p))
      BY DEF Cdg!OnPacketLost, Cdg!CdgGetSlowThreshold, Cdg!Cutback
<1> HIDE DEF Keeps, RingFields
<1> QED BY <1>1, <1>2, <1>3, <1>4, <1>5, <1>6, <1>7, <1>8, <1>9

LEMMA AckKeeps ==
    ASSUME NEW c, RingFields \subseteq DOMAIN c, NEW p, NEW prior
    PROVE  Keeps(c, AckOf(c, p, prior))
<1> DEFINE u == Cdg!UpdateRoundTripEnd(c, p)
           seen == [u EXCEPT !.largest_acked = Cdg!Max2(@, p)]
           b == Cdg!EndOfBackoff(seen)
           o == [b EXCEPT !.cong_state = "Open"]
           m == Cdg!MaybeIncreaseCwnd(o, prior)
<1>1. AckOf(c, p, prior) = IF Cdg!InRecovery(seen) THEN seen ELSE m
      BY DEF AckOf, Cdg!OnPacketAcked
<1>2. Keeps(c, u)
      BY OperationsKeep
<1> HIDE DEF u
<1>3. Keeps(u, seen)
      BY <1>2 DEF Keeps, RingFields
<1> HIDE DEF seen
<1>4. Keeps(seen, b)
      BY <1>3, OperationsKeep DEF Keeps
<1> HIDE DEF b
<1>5. Keeps(b, o)
      BY <1>4 DEF Keeps, RingFields
<1> HIDE DEF o
<1>6. Keeps(o, m)
      BY <1>5, OperationsKeep DEF Keeps
<1> HIDE DEF m
<1> QED BY <1>1, <1>2, <1>3, <1>4, <1>5, <1>6, KeepsGoesOn

LEMMA LossesKeep ==
    ASSUME NEW c, CdgGood(c), NEW lost, lost \subseteq 1..c.largest_sent
    PROVE  Keeps(c, Cdg!LoseAll(c, lost))
<1> DEFINE G == {d \in CdgSenders : CutOnce(c, d) /\ Keeps(c, d)}
<1>1. c \in CdgSenders
      BY DEF CdgGood, CdgShape
<1>2. RingFields \subseteq DOMAIN c
      BY <1>1 DEF CdgSenders, RingFields
<1>3. CutOnce(c, c) /\ Keeps(c, c)
      BY <1>2, OperationsKeep DEF CutOnce
<1>4. ASSUME NEW d \in G, NEW p \in lost
      PROVE  Cdg!OnPacketLost(d, p) \in G
  <2>1. CutOnce(c, d) /\ Keeps(c, d)
        OBVIOUS
  <2>2. CutOnce(c, Cdg!OnPacketLost(d, p))
        BY <2>1, LossCutsOnce
  <2>3. Keeps(d, Cdg!OnPacketLost(d, p))
        BY <2>1, OperationsKeep DEF Keeps
  <2>4. Keeps(c, Cdg!OnPacketLost(d, p))
        BY <2>1, <2>3, KeepsGoesOn
  <2>5. Cdg!OnPacketLost(d, p) \in CdgSenders
        BY <2>2 DEF CutOnce, CdgGood, CdgShape
  <2> QED BY <2>2, <2>4, <2>5
<1>5. c \in G
      BY <1>1, <1>3
<1> HIDE DEF G
<1>6. Cdg!LoseAll(c, lost) \in G
      BY <1>4, <1>5, CdgLoses
<1> QED BY <1>6 DEF G

LEMMA AcksKeep ==
    ASSUME NEW c, CdgGood(c), NEW acked, acked \subseteq 1..c.largest_sent, NEW prior
    PROVE  Keeps(c, Cdg!AckAll(c, acked, prior))
<1> DEFINE D == {d \in CdgSenders : CdgGood(d) /\ d.largest_sent = c.largest_sent /\ Keeps(c, d)}
           G == Nat \X D
<1>1. c \in CdgSenders
      BY DEF CdgGood, CdgShape
<1>2. RingFields \subseteq DOMAIN c
      BY <1>1 DEF CdgSenders, RingFields
<1>3. c \in D /\ <<0, c>> \in G
      BY <1>1, <1>2, OperationsKeep
<1>4. ASSUME NEW d \in D, NEW p \in acked
      PROVE  AckOf(d, p, prior) \in D
  <2> DEFINE e == AckOf(d, p, prior)
  <2>1. CdgGood(d) /\ d.largest_sent = c.largest_sent /\ Keeps(c, d) /\ p \in 1..d.largest_sent
        OBVIOUS
  <2>2. AckMoves(d, e)
        BY <2>1, AckIsHandled
  <2>3. Keeps(d, e)
        BY <2>1, AckKeeps DEF Keeps
  <2> HIDE DEF e
  <2>4. Keeps(c, e)
        BY <2>1, <2>3, KeepsGoesOn
  <2>5. CdgGood(e) /\ e.largest_sent = c.largest_sent /\ e \in CdgSenders
        BY <2>1, <2>2 DEF AckMoves, CdgGood, CdgShape
  <2> QED BY <2>4, <2>5 DEF e
<1>5. \A n \in Nat, d \in D : <<n, d>> \in G =>
        <<n + 1, IF n + 1 \in acked THEN AckOf(d, n + 1, prior) ELSE d>> \in G
      BY <1>4
<1>6. \A d \in D : \A p \in acked : AckOf(d, p, prior) \in D
      BY <1>4
<1> HIDE DEF D, G
<1>7. Cdg!AckAll(c, acked, prior) \in D
      BY <1>3, <1>5, <1>6, CdgAcks
<1> QED BY <1>7 DEF D

-----------------------------------------------------------------------------
(***************************************************************************)
(* The ring in every state.                                                *)
(***************************************************************************)
RingInv == RingHolds(dSender, dGradients)

LEMMA RingBegins ==
    ASSUME Cdg!Init
    PROVE  RingInv
<1>1. /\ dSender.cdg_gsum = Cdg!Zero
      /\ dSender.ring = [i \in 0..(RttWin - 1) |-> Cdg!Zero]
      /\ dSender.gfilled = FALSE /\ dSender.tail = 0
      /\ dGradients = << >>
      BY DEF Cdg!Init
<1>2. << >> \in Seq(Difference) /\ Len(<< >>) = 0
      OBVIOUS
<1>3. RttWin \in Nat /\ RttWin >= 1
      BY CdgConstants
<1>4. LastRounds(<< >>) = << >>
  <2>1. Cdg!Max2(1, 0 - RttWin + 1) = 1
        BY <1>3 DEF Cdg!Max2
  <2>2. SubSeq(<< >>, 1, 0) = << >>
        OBVIOUS
  <2> QED BY <1>2, <2>1, <2>2 DEF LastRounds
<1>5. ASSUME NEW i \in 0..(RttWin - 1)
      PROVE  Back(<< >>, Age(i, 0)) = Cdg!Zero
  <2>1. Age(i, 0) \in Nat /\ ~ (Age(i, 0) <= 0)
        BY <1>3 DEF Age
  <2> QED BY <1>2, <2>1 DEF Back
<1> QED BY <1>1, <1>2, <1>3, <1>4, <1>5, SumGrows DEF RingInv, RingHolds

LEMMA RingHears ==
    ASSUME CdgInv, RingInv, NEW acked, acked \subseteq dInFlight,
           NEW lost, lost \subseteq dInFlight,
           NEW rtt \in CdgRtts, NEW exits \in BOOLEAN, NEW drawn \in BOOLEAN,
           Cdg!OnCongestionEvent(acked, lost, rtt, exits, drawn)
    PROVE  RingInv'
<1> DEFINE prior == Cdg!Cardinality(dInFlight) * CdgMSS
           updated == \E p \in acked : p > dSender.largest_acked
           sampled == Cdg!Sampled(dSender, updated, rtt)
           exited == Cdg!SlowStartExited(sampled, exits)
           cut == Cdg!LoseAll(exited, lost)
           grown == Cdg!AckAll(cut, acked, prior)
           starts == Cdg!RoundStart(cut, acked, prior)
           graded == Cdg!Graded(grown, starts)
           next == Cdg!Turned(grown, starts)
           final == IF drawn THEN Cdg!CdgBackoff(next) ELSE next
           end == Cdg!GrowShadow(final, cut.congestion_window)
           g == IF Cdg!Compared(grown, starts)
                THEN Append(dGradients, Cdg!Gradient(grown)) ELSE dGradients
<1>1. /\ dSender' = end
      /\ dGradients' = g
  <2>1. dSender' = end
        BY Zenon DEF Cdg!OnCongestionEvent
  <2>2. dGradients' = g
        BY Zenon DEF Cdg!OnCongestionEvent
  <2> QED BY <2>1, <2>2
<1>2. /\ CdgGood(dSender) /\ dSender \in CdgSenders /\ rtt \in Nat
      /\ acked \subseteq 1..dSender.largest_sent /\ lost \subseteq 1..dSender.largest_sent
      BY CdgConstants DEF CdgInv, CdgGood, CdgShape, CdgSenders
<1>3. RingFields \subseteq DOMAIN dSender
      BY <1>2 DEF CdgSenders, RingFields
<1>4. CdgMarks(dSender, exited) /\ Keeps(dSender, exited)
  <2>1. CdgMarks(dSender, exited)
        BY <1>2, SampledIsMarked
  <2>2. Keeps(dSender, sampled)
        BY <1>3, OperationsKeep
  <2> HIDE DEF sampled
  <2>3. Keeps(sampled, exited)
        BY <2>2, OperationsKeep DEF Keeps
  <2> QED BY <2>1, <2>2, <2>3, KeepsGoesOn
<1> HIDE DEF exited, sampled, updated
<1>5. CutOnce(exited, cut) /\ Keeps(exited, cut)
      BY <1>2, <1>4, LossesCutOnce, LossesKeep DEF CdgMarks
<1> HIDE DEF cut, prior, starts
<1>6. CdgGood(cut) /\ cut.largest_sent = dSender.largest_sent
      BY <1>4, <1>5 DEF CutOnce, CdgMarks
<1>7. AckMoves(cut, grown) /\ Keeps(cut, grown)
      BY <1>2, <1>6, AcksMove, AcksKeep
<1> HIDE DEF grown
<1>8. CdgGood(grown) /\ RingHolds(grown, dGradients)
  <2>1. CdgGood(grown)
        BY <1>7 DEF AckMoves
  <2>2. RingHolds(exited, dGradients)
        BY <1>4, KeepsGoesOn DEF RingInv
  <2>3. RingHolds(cut, dGradients)
        BY <1>5, <2>2, KeepsGoesOn
  <2>4. RingHolds(grown, dGradients)
        BY <1>7, <2>3, KeepsGoesOn
  <2> QED BY <2>1, <2>4
<1>9. CdgGood(graded) /\ RingHolds(graded, g)
  <2>1. CASE Cdg!Compared(grown, starts)
    <3>1. graded = Cdg!CalculateGrad(grown) /\ g = Append(dGradients, Cdg!Gradient(grown))
          BY <2>1 DEF Cdg!Graded
    <3>2. CdgGood(Cdg!CalculateGrad(grown))
          BY <1>8, GradIsMarked DEF CdgMarks
    <3>3. RingHolds(Cdg!CalculateGrad(grown), Append(dGradients, Cdg!Gradient(grown)))
          BY <1>8, GradientIsKept
    <3> QED BY <3>1, <3>2, <3>3
  <2>2. CASE ~Cdg!Compared(grown, starts)
    <3>1. graded = grown /\ g = dGradients
          BY <2>2 DEF Cdg!Graded
    <3> QED BY <1>8, <3>1
  <2> QED BY <2>1, <2>2
<1>10. RingHolds(next, g) /\ RingFields \subseteq DOMAIN next
  <2>1. RingFields \subseteq DOMAIN graded /\ RingFields \subseteq DOMAIN grown
        BY <1>8, <1>9 DEF CdgGood, CdgShape, CdgSenders, RingFields
  <2>2. Keeps(graded, Cdg!NextRound(graded))
        BY <2>1, OperationsKeep
  <2>3. CASE Cdg!Measured(grown, starts)
    <3>1. next = Cdg!NextRound(graded)
          BY <2>3 DEF Cdg!Turned
    <3> HIDE DEF next, graded, g
    <3> QED BY <1>9, <2>2, <3>1, KeepsGoesOn DEF Keeps
  <2>4. CASE ~Cdg!Measured(grown, starts)
    <3>1. next = grown /\ graded = grown
          BY <2>4 DEF Cdg!Turned, Cdg!Graded, Cdg!Compared
    <3> HIDE DEF next, graded, g
    <3> QED BY <1>9, <2>1, <3>1
  <2> QED BY <2>3, <2>4
<1> HIDE DEF next, graded, g
<1>11. Keeps(next, final)
       BY <1>10, OperationsKeep
<1> HIDE DEF final
<1>12. Keeps(final, end)
       BY <1>11, OperationsKeep DEF Keeps
<1> HIDE DEF end
<1>13. RingHolds(end, g)
       BY <1>10, <1>11, <1>12, KeepsGoesOn
<1> QED BY <1>1, <1>13 DEF RingInv, RingHolds

\* What else there is leaves the ring and the gradients as they are.
LEMMA RingStays ==
    ASSUME RingInv, dGradients' = dGradients, Keeps(dSender, dSender')
    PROVE  RingInv'
BY KeepsGoesOn DEF RingInv, RingHolds

LEMMA RingIsKept ==
    ASSUME CdgInv, RingInv, Cdg!Next \/ UNCHANGED cdgVars
    PROVE  RingInv'
<1>1. RingFields \subseteq DOMAIN dSender
      BY DEF CdgInv, CdgGood, CdgShape, CdgSenders, RingFields
<1>2. CASE Cdg!SendPacket
  <2>1. Keeps(dSender, dSender') /\ dGradients' = dGradients
        BY <1>1, <1>2 DEF Cdg!SendPacket, Keeps, RingFields
  <2> QED BY <2>1, RingStays
<1>3. CASE \E acked, lost \in SUBSET dInFlight, rtt \in CdgRtts, exits, drawn \in BOOLEAN :
            Cdg!OnCongestionEvent(acked, lost, rtt, exits, drawn)
  <2>1. PICK acked \in SUBSET dInFlight, lost \in SUBSET dInFlight, rtt \in CdgRtts,
             exits \in BOOLEAN, drawn \in BOOLEAN :
             Cdg!OnCongestionEvent(acked, lost, rtt, exits, drawn)
        BY <1>3
  <2>2. acked \subseteq dInFlight /\ lost \subseteq dInFlight
        OBVIOUS
  <2> QED BY <2>1, <2>2, RingHears
<1>4. CASE \E b \in BOOLEAN : Cdg!OnRetransmissionTimeout(b)
  <2>1. PICK b \in BOOLEAN : Cdg!OnRetransmissionTimeout(b)
        BY <1>4
  <2>2. Keeps(dSender, dSender') /\ dGradients' = dGradients
        BY <1>1, <2>1 DEF Cdg!OnRetransmissionTimeout, Keeps, RingFields
  <2> QED BY <2>2, RingStays
<1>5. CASE UNCHANGED cdgVars
  <2>1. Keeps(dSender, dSender') /\ dGradients' = dGradients
        BY <1>1, <1>5, OperationsKeep DEF cdgVars
  <2> QED BY <2>1, RingStays
<1> QED BY <1>2, <1>3, <1>4, <1>5 DEF Cdg!Next

\* SumIsOfTheLastRounds: the running sum CalculateGrad updates by what enters
\* and what leaves the ring is the sum of the last kRttWin gradients, and
\* gfilled_ says that there have been so many, for a ring of any size.
THEOREM SumStaysOfTheLastRounds == Spec => []SumIsOfTheLastRounds
<1>1. Init => RingInv
      BY RingBegins DEF Init
<1>2. IInv /\ RingInv /\ [Next]_vars => RingInv'
  <2> SUFFICES ASSUME IInv, RingInv, [Next]_vars
               PROVE  RingInv'
      OBVIOUS
  <2>1. CdgInv /\ (Cdg!Next \/ UNCHANGED cdgVars)
        BY Moves DEF IInv
  <2> QED BY <2>1, RingIsKept
<1>3. RingInv => SumIsOfTheLastRounds
      BY DEF RingInv, RingHolds, SumOf, LastRounds, SumIsOfTheLastRounds,
             Cdg!SumIsOfTheLastRounds
<1> QED BY <1>1, <1>2, <1>3, Invariant, PTL DEF Spec
=============================================================================
