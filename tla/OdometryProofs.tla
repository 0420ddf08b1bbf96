--------------------------- MODULE OdometryProofs ---------------------------
(***************************************************************************)
(* What the odometers are good for, for counters of any width: a motor     *)
(* said to be turning did turn, and a leg is as long as the wheel rolled,  *)
(* give or take one reading at either end.                                 *)
(***************************************************************************)
EXTENDS Odometry, TLAPS

(* What the register held at a reading. *)
Held(reading) == IF reading < 0 THEN reading + CounterSize ELSE reading

Types ==
    /\ counter \in [Motor -> Counter]
    /\ edges \in [Motor -> Nat]
    /\ turn \in Motor
    /\ old \in [Motor -> Reading]
    /\ ENCODER \in [Motor -> Int]
    /\ full \in [Motor -> BOOLEAN]
    /\ seen \in [Motor -> Nat]
    /\ gained \in [Motor -> Nat]
    /\ ENCODER_INIT \in Int
    /\ leg \in BOOLEAN
    /\ opened \in Nat
    /\ count \in Int

(* Since the last reading of a counter it has gained the wheel's edges,    *)
(* and may have gone past its end once.                                    *)
Follows ==
    \A m \in Motor :
        /\ edges[m] - seen[m] \in 0..Gap
        /\ \/ counter[m] - Held(old[m]) = edges[m] - seen[m]
           \/ counter[m] - Held(old[m]) = edges[m] - seen[m] - CounterSize

(* Below Half nothing is lost. *)
Exact ==
    \A m \in Motor :
        /\ edges[m] < Half => counter[m] = edges[m]
        /\ seen[m] < Half => ENCODER[m] = seen[m] /\ old[m] = seen[m]

(* The open leg began at a reading not more than Gap edges before. *)
LegBegan ==
    leg => /\ ENCODER[0] - ENCODER_INIT <= seen[0] - opened + Gap
           /\ opened <= edges[0]
           /\ opened < Half => ENCODER_INIT <= opened

OdometryInv == Types /\ Follows /\ Exact /\ LegBegan /\ FullMeansTurning

(* A reading adds to the odometer no more than the wheel has turned.       *)
LEMMA ReadingGains ==
    ASSUME NEW c \in Counter, NEW o \in Reading, NEW d \in 0..Gap,
           c - Held(o) = d \/ c - Held(o) = d - CounterSize
    PROVE  /\ IORD(c) \in Reading
           /\ Held(IORD(c)) = c
           /\ Advance(IORD(c), o) \in Int
           /\ Advance(IORD(c), o) <= d
           /\ IORD(c) - o >= 1 => IORD(c) - o = d
  BY EncoderAssumption, SMT DEF Counter, Reading, CounterSize, Held, IORD, Advance

LEMMA HeldCounts ==
    ASSUME NEW o \in Reading
    PROVE  Held(o) \in Counter
  BY EncoderAssumption, SMT DEF Counter, Reading, CounterSize, Held

LEMMA OdometryInit == Init => OdometryInv
<1> USE EncoderAssumption, OdometryAssumption DEF Init, Motor
<1>1. ASSUME Init PROVE Types
  <2>1. 0 \in Counter /\ 0 \in Reading
    BY SMT DEF Counter, Reading, CounterSize
  <2>2. counter \in [Motor -> Counter] /\ old \in [Motor -> Reading]
    BY <1>1, <2>1, Zenon
  <2>3. /\ edges \in [Motor -> Nat] /\ turn \in Motor /\ ENCODER \in [Motor -> Int]
        /\ seen \in [Motor -> Nat] /\ gained \in [Motor -> Nat]
        /\ ENCODER_INIT \in Int /\ opened \in Nat /\ count \in Int
    BY <1>1, SMT
  <2>4. full \in [Motor -> BOOLEAN] /\ leg \in BOOLEAN
    BY <1>1, Zenon
  <2> QED  BY <2>2, <2>3, <2>4 DEF Types
<1>2. ASSUME Init PROVE Follows
  BY <1>2, SMT DEF Follows, Held
<1>3. ASSUME Init PROVE Exact
  BY <1>3, SMT DEF Exact
<1>4. ASSUME Init PROVE LegBegan /\ FullMeansTurning
  BY <1>4, SMT DEF LegBegan, FullMeansTurning
<1> QED  BY <1>1, <1>2, <1>3, <1>4 DEF OdometryInv

LEMMA RiseKeeps ==
    ASSUME OdometryInv, NEW m \in Motor, Rise(m)
    PROVE  OdometryInv'
<1> USE EncoderAssumption DEF OdometryInv, Types, Rise, task, route
<1>1. Increment(counter[m]) \in Counter
  BY SMT DEF Increment, Counter, CounterSize
<1>2. Types'
  BY <1>1, SMT
<1>3. Follows'
  <2> SUFFICES ASSUME NEW n \in Motor
               PROVE  /\ edges'[n] - seen[n] \in 0..Gap
                      /\ \/ counter'[n] - Held(old[n]) = edges'[n] - seen[n]
                         \/ counter'[n] - Held(old[n]) = edges'[n] - seen[n] - CounterSize
    BY DEF Follows
  <2>1. /\ edges[n] \in Nat /\ seen[n] \in Nat /\ counter[n] \in Counter
        /\ edges[n] - seen[n] \in 0..Gap
        /\ \/ counter[n] - Held(old[n]) = edges[n] - seen[n]
           \/ counter[n] - Held(old[n]) = edges[n] - seen[n] - CounterSize
    BY DEF Follows
  <2>2. Held(old[n]) \in Counter
    BY HeldCounts
  <2>3. CASE n # m
    BY <2>1, <2>3
  <2>4. CASE n = m
    <3>1. /\ edges'[n] = edges[n] + 1 /\ counter'[n] = Increment(counter[n])
          /\ edges[n] - seen[n] < Gap
      BY <2>4
    <3> QED  BY <2>1, <2>2, <3>1, SMT DEF Increment, Counter, CounterSize
  <2> QED  BY <2>3, <2>4
<1>4. Exact'
  BY <1>1, SMT DEF Exact, Increment, Counter, CounterSize
<1>5. LegBegan' /\ FullMeansTurning'
  BY SMT DEF LegBegan, FullMeansTurning, Motor
<1> QED  BY <1>2, <1>3, <1>4, <1>5

LEMMA ReadKeeps ==
    ASSUME OdometryInv, NEW m \in Motor, ReadCounter(m)
    PROVE  OdometryInv'
<1> USE EncoderAssumption DEF OdometryInv, Types, ReadCounter, wheels, route
<1> DEFINE new == IORD(counter[m])
           d == edges[m] - seen[m]
<1>1. /\ counter[m] \in Counter
      /\ old[m] \in Reading
      /\ d \in 0..Gap
      /\ counter[m] - Held(old[m]) = d \/ counter[m] - Held(old[m]) = d - CounterSize
  BY DEF Follows
<1>2. /\ new \in Reading
      /\ Held(new) = counter[m]
      /\ Advance(new, old[m]) \in Int
      /\ Advance(new, old[m]) <= d
      /\ new - old[m] >= 1 => new - old[m] = d
  BY <1>1, ReadingGains
<1>3. Types'
  <2>1. full' \in [Motor -> BOOLEAN]
    BY SMT DEF IsFull
  <2>2. d \in Nat /\ turn' \in Motor
    BY <1>1, SMT DEF Motor
  <2> HIDE DEF new, d
  <2> QED  BY <1>2, <2>1, <2>2, SMT DEF new, d
<1>4. Follows'
  <2> SUFFICES ASSUME NEW n \in Motor
               PROVE  /\ edges[n] - seen'[n] \in 0..Gap
                      /\ \/ counter[n] - Held(old'[n]) = edges[n] - seen'[n]
                         \/ counter[n] - Held(old'[n]) = edges[n] - seen'[n] - CounterSize
    BY DEF Follows
  <2>1. CASE n # m
    BY <2>1 DEF Follows
  <2>2. CASE n = m
    <3>1. seen'[n] = edges[n] /\ old'[n] = new /\ edges[n] \in Nat /\ counter[n] \in Nat
      BY <2>2, EncoderAssumption, SMT DEF Counter
    <3>2. counter[n] = Held(old'[n])
      BY <1>2, <2>2, <3>1
    <3> QED  BY <3>1, <3>2, SMT
  <2> QED  BY <2>1, <2>2
<1>5. Exact'
  BY <1>1, <1>2, SMT DEF Exact, IORD, Advance
<1>6. LegBegan'
  BY <1>1, <1>2, SMT DEF LegBegan, Motor
<1>7. FullMeansTurning'
  <2> SUFFICES ASSUME NEW n \in Motor, full'[n]
               PROVE  gained'[n] >= Threshold[n]
    BY DEF FullMeansTurning
  <2>1. CASE n # m
    BY <2>1 DEF FullMeansTurning
  <2>2. CASE n = m
    <3>1. gained'[n] = d /\ new - old[m] >= Threshold[n]
      BY <2>2 DEF IsFull
    <3>2. Threshold[n] \in Nat /\ Threshold[n] >= 1
      BY SMT DEF Threshold, Motor
    <3>3. new \in Int /\ old[m] \in Int
      BY <1>1, <1>2, SMT DEF Reading
    <3> HIDE DEF new, d
    <3> QED  BY <1>2, <3>1, <3>2, <3>3, SMT
  <2> QED  BY <2>1, <2>2
<1> QED  BY <1>3, <1>4, <1>5, <1>6, <1>7

LEMMA LegKeeps ==
    ASSUME OdometryInv, OpenLeg \/ CloseLeg
    PROVE  OdometryInv'
<1> USE DEF OdometryInv, Types, OpenLeg, CloseLeg, wheels, task
<1>1. Types'
  <2>1. ENCODER[0] \in Int /\ edges[0] \in Nat /\ ENCODER[0] - ENCODER_INIT \in Int
    BY SMT DEF Motor
  <2> QED  BY <2>1
<1>3. Follows' /\ Exact' /\ FullMeansTurning'
  BY DEF Follows, Exact, FullMeansTurning
<1>2. LegBegan'
  BY EncoderAssumption, SMT DEF LegBegan, Follows, Exact, Motor
<1> QED  BY <1>1, <1>2, <1>3

LEMMA OdometryStep == OdometryInv /\ [Next]_vars => OdometryInv'
<1> SUFFICES ASSUME OdometryInv, [Next]_vars PROVE OdometryInv'
  OBVIOUS
<1>1. CASE UNCHANGED vars
  BY <1>1 DEF OdometryInv, Types, Follows, Exact, LegBegan, FullMeansTurning,
              vars, wheels, task, route
<1>2. CASE Next
  BY <1>2, RiseKeeps, ReadKeeps, LegKeeps DEF Next
<1> QED  BY <1>1, <1>2

(* A motor that is said to be turning did turn, whatever its counter did,  *)
(* for counters of every width and readings at any time.                   *)
THEOREM FullMeansTurningAlways == Spec => []FullMeansTurning
<1>1. OdometryInv => FullMeansTurning
  BY DEF OdometryInv
<1> QED  BY <1>1, OdometryInit, OdometryStep, PTL DEF Spec

(* The length recorded for a leg is off by one reading at either end at    *)
(* most, until the counter reaches Half, and never longer than that.       *)
THEOREM LegWithinOneReadingAlways == Spec => LegWithinOneReading
<1> DEFINE Close ==
      leg /\ ~leg' =>
          LET real == edges[0] - opened IN
          /\ count' - real <= Gap
          /\ edges[0] < Half => real - count' <= Gap
<1>1. OdometryInv /\ [Next]_vars => [Close]_vars
  <2> SUFFICES ASSUME OdometryInv, Next, leg, ~leg' PROVE Close
    OBVIOUS
  <2>1. CloseLeg
    <3>1. ASSUME NEW m \in Motor, Rise(m) \/ ReadCounter(m) PROVE FALSE
      BY <3>1 DEF Rise, ReadCounter, route
    <3>2. ASSUME OpenLeg PROVE FALSE
      BY <3>2 DEF OpenLeg
    <3> QED  BY <3>1, <3>2 DEF Next
  <2>2. /\ edges[0] - seen[0] \in 0..Gap
        /\ seen[0] < Half => ENCODER[0] = seen[0]
    BY SMT DEF OdometryInv, Follows, Exact, Motor
  <2>3. /\ ENCODER[0] \in Int /\ seen[0] \in Nat /\ edges[0] \in Nat
        /\ opened \in Nat /\ ENCODER_INIT \in Int
        /\ count' = ENCODER[0] - ENCODER_INIT
    BY <2>1 DEF OdometryInv, Types, Motor, CloseLeg
  <2>4. /\ ENCODER[0] - ENCODER_INIT <= seen[0] - opened + Gap
        /\ opened <= edges[0]
        /\ opened < Half => ENCODER_INIT <= opened
    BY DEF OdometryInv, LegBegan
  <2> QED  BY <2>2, <2>3, <2>4, EncoderAssumption, SMT
<1> QED  BY <1>1, OdometryInit, OdometryStep, PTL DEF Spec, LegWithinOneReading

-----------------------------------------------------------------------------
(* Quotients, for a divisor that is a constant.                            *)

(* A positive multiple of K is at least K.                                 *)
LEMMA ProductGrows ==
    ASSUME NEW K \in Nat \ {0}, NEW a \in Int, a >= 1
    PROVE  K * a >= K
<1>1. PICK b \in Nat : a = b + 1
  <2>1. a - 1 \in Nat /\ a = (a - 1) + 1
    OBVIOUS
  <2> QED  BY <2>1
<1>2. K * b \in Nat
  BY SMT
<1>3. K * (b + 1) = K * b + K
  BY SMT
<1> QED  BY <1>1, <1>2, <1>3, SMT

(* The quotient is the one number that leaves a remainder below K.         *)
LEMMA QuotientUnique ==
    ASSUME NEW K \in Nat \ {0}, NEW q \in Int, NEW r \in 0..(K - 1)
    PROVE  (K * q + r) \div K = q
<1> DEFINE n == K * q + r
           p == n \div K
           s == n % K
<1>0. n \in Int /\ p \in Int
  BY SMT
<1>1. n = K * p + s /\ s \in 0..(K - 1)
  BY SMT
<1>2. K * (p - q) = r - s /\ K * (q - p) = s - r
  BY <1>1, <1>0, SMT
<1>3. CASE p - q >= 1
  BY <1>0, <1>1, <1>2, <1>3, ProductGrows, SMT
<1>4. CASE q - p >= 1
  BY <1>0, <1>1, <1>2, <1>4, ProductGrows, SMT
<1> QED  BY <1>0, <1>3, <1>4, SMT

(* A counter that has been around q times and holds c has passed Half q    *)
(* times, and once more if it is past it.                                  *)
LEMMA CrossingsCounted ==
    ASSUME NEW q \in Nat, NEW c \in Counter
    PROVE  Crossings(CounterSize * q + c) = IF c < Half THEN q ELSE q + 1
<1> USE EncoderAssumption DEF Counter, CounterSize
<1>0. CounterSize \in Nat \ {0}
  BY SMT
<1>1. CASE c < Half
  <2>1. c + Half \in 0..(CounterSize - 1)
    BY <1>1, SMT
  <2>2. CounterSize * q + c + Half = CounterSize * q + (c + Half)
    BY SMT
  <2> QED  BY <1>0, <1>1, <2>1, <2>2, QuotientUnique DEF Crossings
<1>2. CASE ~(c < Half)
  <2>1. c - Half \in 0..(CounterSize - 1)
    BY <1>2, SMT
  <2>2. CounterSize * q + c + Half = CounterSize * (q + 1) + (c - Half)
    BY SMT
  <2>3. q + 1 \in Int
    BY SMT
  <2> HIDE DEF CounterSize
  <2> QED  BY <1>0, <1>2, <2>1, <2>2, <2>3, QuotientUnique DEF Crossings
<1> QED  BY <1>1, <1>2

(* A reading loses nothing, or it is the one that finds the counter past   *)
(* Half: then half the range and some of the period's edges are lost.      *)
LEMMA ReadingLoses ==
    ASSUME NEW c \in Counter, NEW o \in Reading, NEW d \in 0..Gap,
           c - Held(o) = d \/ c - Held(o) = d - CounterSize
    PROVE  \/ /\ c - Held(o) = d
              /\ Advance(IORD(c), o) = d
              /\ (c < Half) <=> (Held(o) < Half)
           \/ /\ c - Held(o) = d
              /\ d - Advance(IORD(c), o) \in (Half + 1)..(Half + Gap)
              /\ Held(o) < Half /\ c >= Half
           \/ /\ c - Held(o) = d - CounterSize
              /\ Advance(IORD(c), o) = d
              /\ Held(o) >= Half /\ c < Half
  BY EncoderAssumption, SMT DEF Counter, Reading, CounterSize, Held, IORD, Advance

(* Whatever the counter has been through, the odometer lacks what was lost *)
(* at each passing of Half, and the last reading tells how often that was. *)
LostAt(m, q) ==
    LET passed == IF Held(old[m]) < Half THEN q ELSE q + 1
        lost == seen[m] - ENCODER[m]
    IN  /\ seen[m] = CounterSize * q + Held(old[m])
        /\ (Half + 1) * passed <= lost /\ lost <= (Half + Gap) * passed

LossInv == \A m \in Motor : \E q \in Nat : LostAt(m, q)

LEMMA LossInit == Init => LossInv
<1> SUFFICES ASSUME Init, NEW m \in Motor PROVE LostAt(m, 0)
  BY DEF LossInv
<1>1. seen[m] = 0 /\ ENCODER[m] = 0 /\ old[m] = 0
  BY DEF Init
<1> QED  BY <1>1, EncoderAssumption, SMT DEF LostAt, Held, CounterSize

(* A reading of the motor itself. *)
LEMMA ReadLoses ==
    ASSUME OdometryInv, NEW m \in Motor, ReadCounter(m), NEW q \in Nat, LostAt(m, q)
    PROVE  \E p \in Nat : LostAt(m, p)'
<1> USE EncoderAssumption
<1> DEFINE c == counter[m]
           h == Held(old[m])
           d == edges[m] - seen[m]
           add == Advance(IORD(c), old[m])
           passed == IF h < Half THEN q ELSE q + 1
           lost == seen[m] - ENCODER[m]
<1>1. /\ c \in Counter /\ old[m] \in Reading /\ d \in 0..Gap
      /\ c - h = d \/ c - h = d - CounterSize
      /\ edges[m] \in Nat /\ seen[m] \in Nat /\ ENCODER[m] \in Int
  BY DEF OdometryInv, Follows, Types
<1>2. h \in Counter /\ Held(IORD(c)) = c /\ add \in Int
  BY <1>1, HeldCounts, ReadingGains
<1>3. \/ c - h = d /\ add = d /\ (c < Half <=> h < Half)
      \/ c - h = d /\ d - add \in (Half + 1)..(Half + Gap) /\ h < Half /\ c >= Half
      \/ c - h = d - CounterSize /\ add = d /\ h >= Half /\ c < Half
  BY <1>1, ReadingLoses
<1>4. /\ seen[m] = CounterSize * q + h
      /\ (Half + 1) * passed <= lost /\ lost <= (Half + Gap) * passed
  BY DEF LostAt
<1>5. /\ seen'[m] = edges[m] /\ ENCODER'[m] = ENCODER[m] + add /\ Held(old'[m]) = c
  BY <1>2 DEF ReadCounter, OdometryInv, Types
<1> DEFINE loses(p, then) ==
             /\ edges[m] = CounterSize * p + c
             /\ (Half + 1) * then <= lost + (d - add)
             /\ lost + (d - add) <= (Half + Gap) * then
<1>6. ASSUME NEW p \in Nat, loses(p, IF c < Half THEN p ELSE p + 1)
      PROVE  LostAt(m, p)'
  <2>1. edges[m] - (ENCODER[m] + add) = lost + (d - add)
    BY <1>1, <1>2, SMT
  <2> HIDE DEF lost, d, add, c
  <2> QED  BY <1>5, <1>6, <2>1 DEF LostAt
<1>a. c \in Int /\ h \in Int /\ d \in Int /\ lost \in Int /\ CounterSize \in Nat
  BY <1>1, <1>2, SMT DEF Counter, CounterSize
<1>b. edges[m] = seen[m] + d
  BY <1>1, SMT
<1> HIDE DEF lost, d, add, c, h
<1>7. CASE c - h = d /\ add = d /\ (c < Half <=> h < Half)
  <2>1. edges[m] = CounterSize * q + c
    BY <1>1, <1>a, <1>b, <1>4, <1>7, SMT
  <2>2. lost + (d - add) = lost
    BY <1>a, <1>7, SMT
  <2>3. loses(q, IF c < Half THEN q ELSE q + 1)
    BY <1>4, <1>7, <2>1, <2>2
  <2> QED  BY <1>6, <2>3
<1>8. CASE c - h = d /\ d - add \in (Half + 1)..(Half + Gap) /\ h < Half /\ c >= Half
  <2>1. edges[m] = CounterSize * q + c
    BY <1>1, <1>a, <1>b, <1>4, <1>8, SMT
  <2>2. (Half + 1) * q <= lost /\ lost <= (Half + Gap) * q
    BY <1>4, <1>8
  <2>3. (Half + 1) * (q + 1) = (Half + 1) * q + (Half + 1)
        /\ (Half + Gap) * (q + 1) = (Half + Gap) * q + (Half + Gap)
    BY SMT
  <2>4. (Half + 1) * q \in Int /\ (Half + Gap) * q \in Int
    BY SMT
  <2>5. (Half + 1) * (q + 1) <= lost + (d - add)
        /\ lost + (d - add) <= (Half + Gap) * (q + 1)
    BY <1>2, <1>a, <1>8, <2>2, <2>3, <2>4, SMT
  <2>6. ~(c < Half)
    BY <1>a, <1>8, SMT
  <2>7. loses(q, IF c < Half THEN q ELSE q + 1)
    BY <2>1, <2>5, <2>6
  <2> QED  BY <1>6, <2>7
<1>9. CASE c - h = d - CounterSize /\ add = d /\ h >= Half /\ c < Half
  <2>1. CounterSize * (q + 1) = CounterSize * q + CounterSize /\ CounterSize * q \in Int
    BY <1>a, SMT
  <2>2. edges[m] = CounterSize * (q + 1) + c
    BY <1>1, <1>a, <1>b, <1>4, <1>9, <2>1, SMT
  <2>3. lost + (d - add) = lost /\ ~(h < Half) /\ q + 1 \in Nat
    BY <1>a, <1>9, SMT
  <2>4. loses(q + 1, IF c < Half THEN q + 1 ELSE (q + 1) + 1)
    BY <1>4, <1>9, <2>2, <2>3
  <2> QED  BY <1>6, <2>3, <2>4
<1> QED  BY <1>3, <1>7, <1>8, <1>9

LEMMA LossStep == OdometryInv /\ LossInv /\ [Next]_vars => LossInv'
<1> SUFFICES ASSUME OdometryInv, LossInv, [Next]_vars, NEW m \in Motor
             PROVE  \E q \in Nat : LostAt(m, q)'
  BY DEF LossInv
<1>1. PICK q \in Nat : LostAt(m, q)
  BY DEF LossInv
<1>2. CASE ReadCounter(m)
  BY <1>1, <1>2, ReadLoses
<1>3. CASE UNCHANGED <<seen[m], ENCODER[m], old[m]>>
  BY <1>1, <1>3 DEF LostAt
<1>4. CASE ~ReadCounter(m)
  <2>1. ASSUME NEW n \in Motor, ReadCounter(n) PROVE UNCHANGED <<seen[m], ENCODER[m], old[m]>>
    BY <1>4, <2>1 DEF ReadCounter, OdometryInv, Types
  <2>2. ASSUME OpenLeg \/ CloseLeg \/ (\E n \in Motor : Rise(n)) \/ UNCHANGED vars
        PROVE  UNCHANGED <<seen[m], ENCODER[m], old[m]>>
    BY <2>2 DEF OpenLeg, CloseLeg, Rise, vars, task
  <2> QED  BY <1>3, <2>1, <2>2 DEF Next
<1> QED  BY <1>2, <1>4

(* What the odometers lose, for counters of every width and however often  *)
(* they go around (nav.c 455-457).                                         *)
THEOREM OdometerLosesHalfRangeAlways == Spec => []OdometerLosesHalfRange
<1>1. OdometryInv /\ LossInv => OdometerLosesHalfRange
  <2> SUFFICES ASSUME OdometryInv, LossInv, NEW m \in Motor
               PROVE  LET lost == seen[m] - ENCODER[m] IN
                      /\ (Half + 1) * Crossings(seen[m]) <= lost
                      /\ lost <= (Half + Gap) * Crossings(seen[m])
    BY DEF OdometerLosesHalfRange
  <2>1. PICK q \in Nat : LostAt(m, q)
    BY DEF LossInv
  <2>2. Held(old[m]) \in Counter
    BY HeldCounts DEF OdometryInv, Types
  <2>3. Crossings(seen[m]) = IF Held(old[m]) < Half THEN q ELSE q + 1
    BY <2>1, <2>2, CrossingsCounted DEF LostAt
  <2> QED  BY <2>1, <2>3 DEF LostAt
<1> QED  BY <1>1, OdometryInit, OdometryStep, LossInit, LossStep, PTL DEF Spec
=============================================================================
