--------------------------- MODULE MotorGoProofs ----------------------------
(***************************************************************************)
(* How long a movement may be, for counters of any width, any distance and *)
(* any pace of the polls.  Reading by reading, MotorInv compares what the  *)
(* totals hold with what the wheels have turned.                           *)
(***************************************************************************)
EXTENDS MotorGo, TLAPS

(* What the register held at a reading. *)
Held(reading) == IF reading < 0 THEN reading + CounterSize ELSE reading

(* n edges lead from one reading to a register that now holds c. *)
Leads(reading, c, n) == c - Held(reading) = n \/ c - Held(reading) = n - CounterSize

Types ==
    /\ counter \in [Motor -> Counter]
    /\ motor \in [Motor -> Reading]
    /\ temp_0 \in Reading
    /\ total \in [Motor -> Int]
    /\ turned \in [Motor -> Nat]
    /\ since \in [Motor -> 0..Gap]
    /\ behind \in BOOLEAN
    /\ pc \in {"drive", "first0", "first1", "read0", "read1", "stop", "done"}

(* Wheel 0's counter has not come near Half in this movement. *)
Low == turned[0] <= counter[0] /\ counter[0] < Half

(* The reading of wheel 0 taken last. *)
Last0 == IF pc = "read1" THEN temp_0 ELSE motor[0]

ReadingsFollow ==
    /\ pc \in {"first1", "read0", "read1"} =>
           /\ Leads(Last0, counter[0], since[0])
           /\ Low => Last0 = counter[0] - since[0]
    /\ pc \in {"read0", "read1"} => Leads(motor[1], counter[1], since[1])

(* Before a poll, and in its middle, where g edges are read and not added. *)
Wheel0Counted ==
    /\ pc \in {"drive", "first0", "first1", "read0"} =>
           /\ total[0] + since[0] <= turned[0]
           /\ Low => turned[0] <= total[0] + since[0] + Gap
    /\ pc \in {"drive", "first0"} => turned[0] <= total[0] + since[0]
    /\ pc = "read1" =>
           \E g \in 0..Gap :
               /\ Leads(motor[0], Held(temp_0), g)
               /\ total[0] + g + since[0] <= turned[0]
               /\ Low => /\ temp_0 = motor[0] + g
                         /\ turned[0] <= total[0] + g + since[0] + Gap

Wheel1Counted == behind \/ total[1] + since[1] <= turned[1]

Ending ==
    /\ pc \notin {"stop", "done"} => total[0] < Goal /\ total[1] < Goal
    /\ pc \in {"stop", "done"} =>
           /\ total[0] <= turned[0]
           /\ total[0] >= Goal \/ total[1] >= Goal
           /\ Low => turned[0] < Goal + 2 * Gap + since[0]

MotorInv == Types /\ ReadingsFollow /\ Wheel0Counted /\ Wheel1Counted /\ Ending

-----------------------------------------------------------------------------
LEMMA IORDCounts ==
    ASSUME NEW c \in Counter
    PROVE  /\ IORD(c) \in Reading
           /\ Held(IORD(c)) = c
           /\ Leads(IORD(c), c, 0)
  BY EncoderAssumption, SMT DEF Counter, Reading, CounterSize, Held, IORD, Leads

LEMMA HeldCounts ==
    ASSUME NEW o \in Reading
    PROVE  Held(o) \in Counter /\ IORD(Held(o)) = o
  BY EncoderAssumption, SMT DEF Counter, Reading, CounterSize, Held, IORD

(* A difference of readings never exceeds the edges between them, and nor  *)
(* does a reading below the one before.                                    *)
LEMMA GainBounded ==
    ASSUME NEW c \in Counter, NEW o \in Reading, NEW d \in 0..Gap, Leads(o, c, d)
    PROVE  /\ IORD(c) - o <= d
           /\ Gained(IORD(c), o, o) <= d
           /\ Gained(IORD(c), o, o) \in Int
  BY EncoderAssumption, SMT DEF Counter, Reading, CounterSize, Held, IORD, Leads, Gained

(* One more edge. *)
LEMMA EdgeLeads ==
    ASSUME NEW c \in Counter, NEW o \in Reading, NEW d \in 0..(Gap - 1), Leads(o, c, d)
    PROVE  Leads(o, Increment(c), d + 1)
<1>1. Held(o) \in Counter
  BY HeldCounts
<1> QED  BY <1>1, EncoderAssumption, SMT DEF Counter, CounterSize, Leads, Increment

LEMMA MotorInit == Init => MotorInv
<1> SUFFICES ASSUME Init PROVE MotorInv
  OBVIOUS
<1>1. Motor = {0, 1} /\ 0 \in Reading /\ 0 \in 0..Gap
  BY EncoderAssumption, SMT DEF Motor, Reading
<1>2. /\ counter \in [Motor -> Counter] /\ motor \in [Motor -> Reading] /\ temp_0 \in Reading
      /\ since \in [Motor -> 0..Gap] /\ pc = "drive" /\ behind = FALSE
  BY <1>1, MotorGoAssumption, Zenon DEF Init
<1>3. /\ total \in [Motor -> Int] /\ turned \in [Motor -> Nat]
      /\ \A m \in Motor : total[m] = 0 /\ turned[m] = 0 /\ since[m] = 0
  BY <1>1, SMT DEF Init
<1>4. Types
  BY <1>2, <1>3 DEF Types
<1>5. ReadingsFollow
  BY <1>2 DEF ReadingsFollow
<1>6. Wheel0Counted /\ Wheel1Counted /\ Ending
  BY <1>1, <1>2, <1>3, EncoderAssumption, MotorGoAssumption, SMT
  DEF Wheel0Counted, Wheel1Counted, Ending
<1> QED  BY <1>4, <1>5, <1>6 DEF MotorInv

LEMMA RiseKeeps ==
    ASSUME MotorInv, NEW m \in Motor, Rise(m)
    PROVE  MotorInv'
<1> USE DEF MotorInv, Rise, locals
<1>1. /\ counter[m] \in Counter /\ since[m] \in 0..(Gap - 1) /\ turned[m] \in Nat
      /\ counter' = [counter EXCEPT ![m] = Increment(counter[m])]
      /\ since' = [since EXCEPT ![m] = since[m] + 1]
      /\ turned' = [turned EXCEPT ![m] = turned[m] + 1]
  BY EncoderAssumption, SMT DEF Types
<1>2. Increment(counter[m]) \in Counter /\ since[m] + 1 \in 0..Gap /\ turned[m] + 1 \in Nat
  BY <1>1, EncoderAssumption, SMT DEF Increment, Counter, CounterSize
<1>3. Types'
  BY <1>1, <1>2 DEF Types
<1>4. ASSUME NEW o \in Reading, NEW n \in Motor, Leads(o, counter[n], since[n])
      PROVE  Leads(o, counter'[n], since'[n])
  <2>1. CASE n # m
    BY <1>1, <1>4, <2>1 DEF Types
  <2>2. CASE n = m
    BY <1>1, <1>4, <2>2, EdgeLeads DEF Types
  <2> QED  BY <2>1, <2>2
<1>5. /\ 0 \in Motor /\ 1 \in Motor
      /\ motor[0] \in Reading /\ motor[1] \in Reading /\ temp_0 \in Reading
      /\ counter[0] \in Nat /\ counter'[0] \in Nat
      /\ since[0] \in 0..Gap /\ since[1] \in 0..Gap /\ turned[0] \in Nat /\ turned[1] \in Nat
      /\ total[0] \in Int /\ total[1] \in Int
  BY <1>3, EncoderAssumption, SMT DEF Types, Motor, Counter
<1>6. /\ m = 0 => /\ since'[0] = since[0] + 1 /\ turned'[0] = turned[0] + 1
                  /\ since'[1] = since[1] /\ turned'[1] = turned[1]
                  /\ counter'[0] = counter[0] + 1 \/ counter'[0] = 0
      /\ m = 1 => /\ since'[0] = since[0] /\ turned'[0] = turned[0] /\ counter'[0] = counter[0]
                  /\ since'[1] = since[1] + 1 /\ turned'[1] = turned[1] + 1
      /\ m = 0 \/ m = 1
  <2>1. Increment(counter[m]) = counter[m] + 1 \/ Increment(counter[m]) = 0
    BY DEF Increment
  <2> QED  BY <1>1, <2>1, <1>5, SMT DEF Types, Motor
(* Low stays what it was, or is lost; it cannot come back. *)
<1>7. Low' => Low /\ (m = 0 => counter'[0] = counter[0] + 1)
  <2>1. CASE m = 1
    BY <1>5, <1>6, <2>1, SMT DEF Low
  <2>2. CASE m = 0 /\ counter'[0] = 0
    BY <1>5, <1>6, <2>2, SMT DEF Low
  <2>3. CASE m = 0 /\ counter'[0] = counter[0] + 1
    BY <1>5, <1>6, <2>3, EncoderAssumption, SMT DEF Low
  <2> QED  BY <1>6, <2>1, <2>2, <2>3
<1>8. ReadingsFollow'
  <2>1. Last0 \in Reading /\ Last0' = Last0
    BY <1>5 DEF Last0
  <2>2. Last0 \in Int
    BY <2>1, EncoderAssumption, SMT DEF Reading
  <2>3. pc \in {"first1", "read0", "read1"} =>
            Leads(Last0', counter'[0], since'[0]) /\ (Low' => Last0' = counter'[0] - since'[0])
    <3> SUFFICES ASSUME pc \in {"first1", "read0", "read1"}
                 PROVE  Leads(Last0, counter'[0], since'[0]) /\ (Low' => Last0 = counter'[0] - since'[0])
      BY <2>1
    <3>1. Leads(Last0, counter[0], since[0]) /\ (Low => Last0 = counter[0] - since[0])
      BY DEF ReadingsFollow
    <3>2. Leads(Last0, counter'[0], since'[0])
      BY <1>4, <1>5, <2>1, <3>1
    <3>3. ASSUME Low' PROVE Last0 = counter'[0] - since'[0]
      BY <1>5, <1>6, <1>7, <2>2, <3>1, <3>3, SMT
    <3> QED  BY <3>2, <3>3
  <2>4. pc \in {"read0", "read1"} => Leads(motor[1], counter'[1], since'[1])
    BY <1>4, <1>5 DEF ReadingsFollow
  <2> QED  BY <2>3, <2>4 DEF ReadingsFollow
<1>9. Wheel0Counted'
  <2>1. ASSUME pc \in {"drive", "first0", "first1", "read0"}
        PROVE  /\ total[0] + since'[0] <= turned'[0]
               /\ Low' => turned'[0] <= total[0] + since'[0] + Gap
               /\ pc \in {"drive", "first0"} => turned'[0] <= total[0] + since'[0]
    <3>0. pc \in {"drive", "first0"} => turned[0] <= total[0] + since[0]
      BY DEF Wheel0Counted
    <3>1. total[0] + since[0] <= turned[0] /\ (Low => turned[0] <= total[0] + since[0] + Gap)
      BY <2>1 DEF Wheel0Counted
    <3> QED  BY <1>5, <1>6, <1>7, <3>0, <3>1, EncoderAssumption, SMT
  <2>2. ASSUME pc = "read1"
        PROVE  \E g \in 0..Gap :
                  /\ Leads(motor[0], Held(temp_0), g)
                  /\ total[0] + g + since'[0] <= turned'[0]
                  /\ Low' => /\ temp_0 = motor[0] + g
                             /\ turned'[0] <= total[0] + g + since'[0] + Gap
    <3>1. PICK g \in 0..Gap :
                  /\ Leads(motor[0], Held(temp_0), g)
                  /\ total[0] + g + since[0] <= turned[0]
                  /\ Low => /\ temp_0 = motor[0] + g
                            /\ turned[0] <= total[0] + g + since[0] + Gap
      BY <2>2 DEF Wheel0Counted
    <3>2. total[0] + g + since'[0] <= turned'[0]
      BY <1>5, <1>6, <3>1, EncoderAssumption, SMT
    <3>3. Low' => turned'[0] <= total[0] + g + since'[0] + Gap
      BY <1>5, <1>6, <1>7, <3>1, EncoderAssumption, SMT
    <3> QED  BY <1>7, <3>1, <3>2, <3>3
  <2> QED  BY <2>1, <2>2 DEF Wheel0Counted
<1>10. Wheel1Counted'
  BY <1>5, <1>6, SMT DEF Wheel1Counted
<1>11. Ending'
  BY <1>5, <1>6, <1>7, EncoderAssumption, MotorGoAssumption, SMT DEF Ending
<1> QED  BY <1>3, <1>8, <1>9, <1>10, <1>11

LEMMA DriveKeeps == MotorInv /\ Drive => MotorInv'
  BY DEF MotorInv, Drive, locals, Types, ReadingsFollow, Wheel0Counted, Wheel1Counted, Ending,
         Low, Last0

LEMMA StopKeeps == MotorInv /\ Stop => MotorInv'
  BY DEF MotorInv, Stop, locals, Types, ReadingsFollow, Wheel0Counted, Wheel1Counted, Ending,
         Low, Last0

LEMMA FirstKeeps ==
    ASSUME MotorInv, FirstReading(0, "first0", "first1") \/ FirstReading(1, "first1", "read0")
    PROVE  MotorInv'
<1> USE DEF MotorInv
<1>1. /\ 0 \in Motor /\ 1 \in Motor /\ 0 \in 0..Gap
      /\ counter[0] \in Counter /\ counter[1] \in Counter /\ counter[0] \in Nat
      /\ since[0] \in 0..Gap /\ since[1] \in 0..Gap /\ turned[0] \in Nat /\ turned[1] \in Nat
      /\ total[0] \in Int /\ total[1] \in Int /\ motor[0] \in Reading
  BY EncoderAssumption, SMT DEF Types, Motor, Counter
<1>2. /\ IORD(counter[0]) \in Reading /\ Leads(IORD(counter[0]), counter[0], 0)
      /\ IORD(counter[1]) \in Reading /\ Leads(IORD(counter[1]), counter[1], 0)
  BY <1>1, IORDCounts
<1>3. Low => IORD(counter[0]) = counter[0]
  BY DEF Low, IORD
<1>4. CASE FirstReading(0, "first0", "first1")
  <2>1. /\ pc = "first0" /\ pc' = "first1" /\ motor'[0] = IORD(counter[0]) /\ since'[0] = 0
        /\ since'[1] = since[1]
        /\ UNCHANGED <<counter, temp_0, total, turned, behind>>
    BY <1>1, <1>4 DEF FirstReading, Types
  <2>2. Types'
    BY <1>1, <1>2, <1>4 DEF FirstReading, Types
  <2>3. ReadingsFollow'
    BY <1>1, <1>2, <1>3, <2>1, SMT DEF ReadingsFollow, Last0, Low
  <2>4. Wheel0Counted' /\ Wheel1Counted' /\ Ending'
    BY <1>1, <2>1, EncoderAssumption, SMT DEF Wheel0Counted, Wheel1Counted, Ending, Low
  <2> QED  BY <2>2, <2>3, <2>4
<1>5. CASE FirstReading(1, "first1", "read0")
  <2>1. /\ pc = "first1" /\ pc' = "read0" /\ motor'[1] = IORD(counter[1]) /\ since'[1] = 0
        /\ motor'[0] = motor[0] /\ since'[0] = since[0]
        /\ UNCHANGED <<counter, temp_0, total, turned, behind>>
    BY <1>1, <1>5 DEF FirstReading, Types
  <2>2. Types'
    BY <1>1, <1>2, <1>5 DEF FirstReading, Types
  <2>3. ReadingsFollow'
    BY <1>2, <2>1 DEF ReadingsFollow, Last0, Low
  <2>4. Wheel0Counted' /\ Wheel1Counted' /\ Ending'
    BY <1>1, <2>1, EncoderAssumption, SMT DEF Wheel0Counted, Wheel1Counted, Ending, Low
  <2> QED  BY <2>2, <2>3, <2>4
<1> QED  BY <1>4, <1>5

LEMMA Read0Keeps ==
    ASSUME MotorInv, Read0
    PROVE  MotorInv'
<1> USE DEF MotorInv, Read0
<1>1. /\ 0 \in Motor /\ 1 \in Motor /\ 0 \in 0..Gap
      /\ counter[0] \in Counter /\ counter[0] \in Nat
      /\ since[0] \in 0..Gap /\ turned[0] \in Nat
      /\ total[0] \in Int /\ motor[0] \in Reading /\ motor[0] \in Int
  BY EncoderAssumption, SMT DEF Types, Motor, Counter, Reading
<1>2. /\ IORD(counter[0]) \in Reading /\ Leads(IORD(counter[0]), counter[0], 0)
      /\ Held(IORD(counter[0])) = counter[0]
  BY <1>1, IORDCounts
<1>3. Low => IORD(counter[0]) = counter[0]
  BY DEF Low, IORD
<1>4. /\ pc = "read0" /\ pc' = "read1" /\ temp_0' = IORD(counter[0])
      /\ since'[0] = 0 /\ since'[1] = since[1]
      /\ UNCHANGED <<counter, motor, total, turned, behind>>
  BY <1>1 DEF Types
<1>5. Types'
  BY <1>1, <1>2 DEF Types
<1>6. ReadingsFollow'
  BY <1>1, <1>2, <1>3, <1>4, SMT DEF ReadingsFollow, Last0, Low
<1>7. Wheel0Counted'
  <2>1. Leads(motor[0], counter[0], since[0]) /\ (Low => motor[0] = counter[0] - since[0])
    BY <1>4 DEF ReadingsFollow, Last0
  <2>2. total[0] + since[0] <= turned[0] /\ (Low => turned[0] <= total[0] + since[0] + Gap)
    BY <1>4 DEF Wheel0Counted
  <2>3. /\ Leads(motor[0], Held(temp_0'), since[0])
        /\ total[0] + since[0] + since'[0] <= turned[0]
        /\ Low => /\ temp_0' = motor[0] + since[0]
                  /\ turned[0] <= total[0] + since[0] + since'[0] + Gap
    BY <1>1, <1>2, <1>3, <1>4, <2>1, <2>2, EncoderAssumption, SMT
  <2> QED  BY <1>1, <1>4, <2>3 DEF Wheel0Counted, Low
<1>8. Wheel1Counted' /\ Ending'
  BY <1>4 DEF Wheel1Counted, Ending, Low
<1> QED  BY <1>5, <1>6, <1>7, <1>8

LEMMA Read1Keeps ==
    ASSUME MotorInv, Read1
    PROVE  MotorInv'
<1> USE DEF MotorInv
<1> DEFINE temp_1 == IORD(counter[1])
           add0 == Gained(temp_0, motor[0], motor[0])
           add1 == Gained(temp_1, motor[0], motor[1])
<1>1. /\ 0 \in Motor /\ 1 \in Motor /\ 0 \in 0..Gap
      /\ counter[0] \in Counter /\ counter[1] \in Counter /\ counter[0] \in Nat
      /\ since[0] \in 0..Gap /\ since[1] \in 0..Gap /\ turned[0] \in Nat /\ turned[1] \in Nat
      /\ total[0] \in Int /\ total[1] \in Int
      /\ temp_0 \in Reading /\ temp_0 \in Int
      /\ motor[0] \in Reading /\ motor[0] \in Int /\ motor[1] \in Reading /\ motor[1] \in Int
  BY EncoderAssumption, SMT DEF Types, Motor, Counter, Reading
<1>2. /\ pc = "read1" /\ pc' \in {"stop", "read0"}
      /\ pc' = "stop" <=> Finished(total')
      /\ total' = [m \in Motor |-> total[m] + IF m = 0 THEN add0 ELSE add1]
      /\ behind' = (behind \/ temp_1 < motor[0])
      /\ motor' = IF Finished(total') THEN motor
                  ELSE [m \in Motor |-> IF m = 0 THEN temp_0 ELSE temp_1]
      /\ since'[0] = since[0] /\ since'[1] = 0 /\ since' \in [Motor -> 0..Gap]
      /\ UNCHANGED <<counter, temp_0, turned>>
  BY <1>1 DEF Read1, Types
<1>3. temp_1 \in Reading /\ temp_1 \in Int /\ Leads(temp_1, counter[1], 0)
  BY <1>1, IORDCounts, EncoderAssumption, SMT DEF Reading
<1>4. add0 \in Int /\ add1 \in Int
  BY <1>1, <1>3, SMT DEF Gained
<1>5. total'[0] = total[0] + add0 /\ total'[1] = total[1] + add1
  BY <1>1, <1>2 DEF Motor
<1>6. Types'
  <2>1. total' \in [Motor -> Int]
    BY <1>1, <1>2, <1>4, SMT DEF Types
  <2>2. motor' \in [Motor -> Reading]
    BY <1>1, <1>2, <1>3 DEF Types
  <2>3. behind' \in BOOLEAN
    BY <1>2
  <2> QED  BY <1>2, <2>1, <2>2, <2>3 DEF Types
<1>7. PICK g \in 0..Gap :
          /\ Leads(motor[0], Held(temp_0), g)
          /\ total[0] + g + since[0] <= turned[0]
          /\ Low => /\ temp_0 = motor[0] + g
                    /\ turned[0] <= total[0] + g + since[0] + Gap
  BY <1>2 DEF Wheel0Counted
<1>8. add0 <= g /\ (Low => add0 = g)
  <2>1. add0 <= g
    BY <1>1, <1>7, HeldCounts, GainBounded
  <2>2. Low => add0 = g
    BY <1>1, <1>7, EncoderAssumption, SMT DEF Gained
  <2> QED  BY <2>1, <2>2
<1>9. behind' \/ add1 <= since[1]
  <2>1. temp_1 - motor[1] <= since[1]
    BY <1>1, <1>2, GainBounded DEF ReadingsFollow
  <2>2. temp_1 < motor[0] \/ add1 <= since[1]
    BY <1>1, <1>3, <2>1, SMT DEF Gained
  <2> QED  BY <1>2, <2>2, Zenon
<1>10. Low' = Low
  BY <1>2 DEF Low
<1>11. g \in Int /\ Gap \in Int
  BY EncoderAssumption, SMT
<1> HIDE DEF temp_1, add0, add1
<1>12. ReadingsFollow'
  <2>1. CASE pc' = "stop"
    BY <2>1 DEF ReadingsFollow
  <2>2. CASE pc' = "read0"
    <3>1. motor'[0] = temp_0 /\ motor'[1] = temp_1
      BY <1>1, <1>2, <2>2
    <3>2. Leads(temp_0, counter[0], since[0]) /\ (Low => temp_0 = counter[0] - since[0])
      BY <1>2 DEF ReadingsFollow, Last0
    <3>3. Last0' = temp_0
      BY <2>2, <3>1 DEF Last0
    <3> QED  BY <1>2, <1>3, <1>10, <3>1, <3>2, <3>3, <2>2 DEF ReadingsFollow
  <2> QED  BY <1>2, <2>1, <2>2
<1>13. /\ total'[0] + since'[0] <= turned'[0]
       /\ Low' => turned'[0] <= total'[0] + since'[0] + Gap
  BY <1>1, <1>2, <1>4, <1>5, <1>7, <1>8, <1>10, <1>11, SMT
<1>14. Wheel0Counted'
  BY <1>2, <1>13 DEF Wheel0Counted
<1>15. Wheel1Counted'
  <2>1. ASSUME total[1] + since[1] <= turned[1], add1 <= since[1]
        PROVE  total'[1] + since'[1] <= turned'[1]
    BY <1>1, <1>2, <1>4, <1>5, <2>1, SMT
  <2> QED  BY <1>2, <1>9, <2>1, Zenon DEF Wheel1Counted
<1>16. Ending'
  <2>1. Finished(total') <=> total'[0] >= Goal \/ total'[1] >= Goal
    BY DEF Finished, Motor
  <2>2. total[0] < Goal /\ Goal \in Int
    BY <1>2, MotorGoAssumption DEF Ending
  <2>3. CASE pc' = "read0"
    BY <1>1, <1>2, <1>4, <1>5, <2>1, <2>2, <2>3, SMT DEF Ending
  <2>4. CASE pc' = "stop"
    <3>1. total'[0] <= turned'[0]
      BY <1>1, <1>2, <1>4, <1>5, <1>13, SMT
    <3>2. Low' => turned'[0] < Goal + 2 * Gap + since'[0]
      BY <1>1, <1>2, <1>7, <1>10, <1>11, <2>2, SMT
    <3> QED  BY <1>2, <2>1, <2>4, <3>1, <3>2 DEF Ending
  <2> QED  BY <1>2, <2>3, <2>4
<1> QED  BY <1>6, <1>12, <1>14, <1>15, <1>16

LEMMA MotorStep == MotorInv /\ [Next]_vars => MotorInv'
<1> SUFFICES ASSUME MotorInv, [Next]_vars PROVE MotorInv'
  OBVIOUS
<1>1. CASE UNCHANGED vars
  BY <1>1 DEF MotorInv, Types, ReadingsFollow, Wheel0Counted, Wheel1Counted, Ending, Low, Last0,
              vars, locals
<1>2. CASE Next
  BY <1>2, RiseKeeps, DriveKeeps, FirstKeeps, Read0Keeps, Read1Keeps, StopKeeps DEF Next
<1> QED  BY <1>1, <1>2

LEMMA MotorInvCorrect == Spec => []MotorInv
  BY MotorInit, MotorStep, PTL DEF Spec

(* The polls never count wheel 0 twice. *)
THEOREM Wheel0NotOverCountedAlways == Spec => []Wheel0NotOverCounted
<1>1. MotorInv => Wheel0NotOverCounted
  <2> SUFFICES ASSUME MotorInv PROVE total[0] <= turned[0]
    BY DEF Wheel0NotOverCounted
  <2>1. total[0] \in Int /\ turned[0] \in Nat /\ since[0] \in Nat
    BY EncoderAssumption, SMT DEF MotorInv, Types, Motor
  <2>2. CASE pc \in {"drive", "first0", "first1", "read0"}
    BY <2>1, <2>2, SMT DEF MotorInv, Wheel0Counted
  <2>3. CASE pc = "read1"
    BY <2>1, <2>3, EncoderAssumption, SMT DEF MotorInv, Wheel0Counted
  <2>4. CASE pc \in {"stop", "done"}
    BY <2>4 DEF MotorInv, Ending
  <2> QED  BY <2>2, <2>3, <2>4 DEF MotorInv, Types
<1> QED  BY <1>1, MotorInvCorrect, PTL

(* A movement of any distance is over in time, while the counter of wheel  *)
(* 0 stays below Half.                                                     *)
THEOREM StopsInTimeAlways == Spec => []StopsInTime
<1>1. MotorInv => StopsInTime
  <2> SUFFICES ASSUME MotorInv, Low PROVE turned[0] < Goal + 3 * Gap
    BY DEF StopsInTime, Low
  <2>1. /\ total[0] \in Int /\ turned[0] \in Nat /\ since[0] \in Int /\ since[0] <= Gap
        /\ Gap \in Int /\ Goal \in Int
    BY EncoderAssumption, MotorGoAssumption, SMT DEF MotorInv, Types, Motor
  <2>2. CASE pc \in {"drive", "first0", "first1", "read0"}
    <3>1. turned[0] <= total[0] + since[0] + Gap /\ total[0] < Goal
      BY <2>2 DEF MotorInv, Wheel0Counted, Ending
    <3> QED  BY <2>1, <3>1, EncoderAssumption, SMT
  <2>3. CASE pc = "read1"
    <3>1. PICK g \in 0..Gap : turned[0] <= total[0] + g + since[0] + Gap
      BY <2>3 DEF MotorInv, Wheel0Counted
    <3>2. total[0] < Goal
      BY <2>3 DEF MotorInv, Ending
    <3> QED  BY <2>1, <3>1, <3>2, SMT
  <2>4. CASE pc \in {"stop", "done"}
    <3>1. turned[0] < Goal + 2 * Gap + since[0]
      BY <2>4 DEF MotorInv, Ending
    <3> QED  BY <2>1, <3>1, SMT
  <2> QED  BY <2>2, <2>3, <2>4 DEF MotorInv, Types
<1> QED  BY <1>1, MotorInvCorrect, PTL

(* A movement that ends before the distance has taken the wrong branch for *)
(* wheel 1: there is no other way.                                         *)
THEOREM ShortOnlyBehindAlways == Spec => []ShortOnlyBehind
<1>1. MotorInv => ShortOnlyBehind
  <2> SUFFICES ASSUME MotorInv, pc \in {"stop", "done"}, \A m \in Motor : turned[m] < Goal, ~behind
               PROVE  FALSE
    BY DEF ShortOnlyBehind
  <2>1. /\ total[0] \in Int /\ total[1] \in Int /\ turned[0] \in Nat /\ turned[1] \in Nat
        /\ since[1] \in Nat /\ Goal \in Int
        /\ turned[0] < Goal /\ turned[1] < Goal
    BY EncoderAssumption, MotorGoAssumption, SMT DEF MotorInv, Types, Motor
  <2>2. /\ total[0] <= turned[0]
        /\ total[0] >= Goal \/ total[1] >= Goal
        /\ total[1] + since[1] <= turned[1]
    BY DEF MotorInv, Ending, Wheel1Counted
  <2> QED  BY <2>1, <2>2, SMT
<1> QED  BY <1>1, MotorInvCorrect, PTL
=============================================================================
