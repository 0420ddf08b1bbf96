------------------------------ MODULE Odometry ------------------------------
(***************************************************************************)
(* The wheels' counters (encoder.vhd, one instance per motor), the task    *)
(* that reads them every 100 ms (Encoder_Task in nav.c) and the length of  *)
(* a leg, which Navigation_Task takes from them.  The totals kept by the   *)
(* software are doubles and do not overflow.  edges, seen, gained and      *)
(* opened are history: what the wheels really did.                         *)
(***************************************************************************)
EXTENDS Encoder

CONSTANT MaxEdges       (* a bound: edges of a wheel in all                 *)

ASSUME OdometryAssumption == MaxEdges \in Nat

(* A motor that gained fewer edges than this in a period is MOTOR_STOP. *)
Threshold == [m \in Motor |-> m + 1]

VARIABLES counter,       (* encoder.vhd's counter                            *)
          edges,         (* rising edges of channel A since power-up         *)
          turn,          (* the motor Encoder_Task reads next                *)
          old,           (* counts_0_old, counts_1_old                       *)
          ENCODER,       (* ENCODER_0A, ENCODER_1A                           *)
          full,          (* MOTOR_0_STATUS, MOTOR_1_STATUS are MOTOR_FULL    *)
          seen,          (* edges at the last reading                        *)
          gained,        (* edges between the last two readings              *)
          ENCODER_INIT,  (* ENCODER_0A when the leg was opened               *)
          leg,           (* whether a leg is open                            *)
          opened,        (* edges of motor 0 when the leg was opened         *)
          count          (* TRVL[].count of the leg closed last              *)

wheels == <<counter, edges>>
task   == <<turn, old, ENCODER, full, seen, gained>>
route  == <<ENCODER_INIT, leg, opened, count>>
vars   == <<wheels, task, route>>

TypeOK ==
    /\ counter \in [Motor -> Counter]
    /\ edges \in [Motor -> 0..MaxEdges]
    /\ turn \in Motor
    /\ old \in [Motor -> Reading]
    /\ ENCODER \in [Motor -> Int]
    /\ full \in [Motor -> BOOLEAN]
    /\ seen \in [Motor -> 0..MaxEdges]
    /\ gained \in [Motor -> 0..MaxEdges]
    /\ ENCODER_INIT \in Int
    /\ leg \in BOOLEAN
    /\ opened \in 0..MaxEdges
    /\ count \in Int

(* Power-up: the first leg is opened by main(), which sets ENCODER_INIT but *)
(* leaves TRVL[1].move alone.                                               *)
Init ==
    /\ counter = [m \in Motor |-> 0] /\ edges = [m \in Motor |-> 0]
    /\ turn = 0
    /\ old = [m \in Motor |-> 0]
    /\ ENCODER = [m \in Motor |-> 0]
    /\ full = [m \in Motor |-> FALSE]
    /\ seen = [m \in Motor |-> 0] /\ gained = [m \in Motor |-> 0]
    /\ ENCODER_INIT = 0
    /\ leg = FALSE
    /\ opened = 0
    /\ count = 0

-----------------------------------------------------------------------------
(* A rising edge of channel A. *)
Rise(m) ==
    /\ edges[m] < MaxEdges /\ edges[m] - seen[m] < Gap
    /\ counter' = [counter EXCEPT ![m] = Increment(@)]
    /\ edges' = [edges EXCEPT ![m] = @ + 1]
    /\ UNCHANGED <<task, route>>

(* Mutant: the difference is taken whether or not the counter was reset. *)
Advance_NoReset(new, before) == new - before

(* What a reading adds to the total; a smaller count than before is taken  *)
(* for a counter that was reset.                                           *)
Advance(new, before) == IF new >= before THEN new - before ELSE new

(* Mutant: each threshold is one edge too low. *)
IsFull_OneLess(m, new, before) == new - before >= Threshold[m] - 1

(* A reset counter gives a negative difference, and MOTOR_STOP.            *)
IsFull(m, new, before) == new - before >= Threshold[m]

(* Encoder_Task reads one motor after the other, then sleeps. *)
ReadCounter(m) ==
    /\ turn = m
    /\ turn' = 1 - m
    /\ ENCODER' = [ENCODER EXCEPT ![m] = @ + Advance(IORD(counter[m]), old[m])]
    /\ full' = [full EXCEPT ![m] = IsFull(m, IORD(counter[m]), old[m])]
    /\ old' = [old EXCEPT ![m] = IORD(counter[m])]
    /\ gained' = [gained EXCEPT ![m] = edges[m] - seen[m]]
    /\ seen' = [seen EXCEPT ![m] = edges[m]]
    /\ UNCHANGED <<wheels, route>>

(* FRONT_IS_CLEAR opens a leg, or opens an open one again. *)
OpenLeg ==
    /\ leg' = TRUE
    /\ ENCODER_INIT' = ENCODER[0]
    /\ opened' = edges[0]
    /\ UNCHANGED <<wheels, task, count>>

(* Mutant: the leg is measured from power-up. *)
CloseLeg_FromZero ==
    /\ leg
    /\ leg' = FALSE
    /\ count' = ENCODER[0]
    /\ UNCHANGED <<wheels, task, ENCODER_INIT, opened>>

(* FRONT_IS_BLOCKED records its length. *)
CloseLeg ==
    /\ leg
    /\ leg' = FALSE
    /\ count' = ENCODER[0] - ENCODER_INIT
    /\ UNCHANGED <<wheels, task, ENCODER_INIT, opened>>

Next ==
    \/ \E m \in Motor : Rise(m) \/ ReadCounter(m)
    \/ OpenLeg
    \/ CloseLeg

Spec == Init /\ [][Next]_vars

-----------------------------------------------------------------------------
(* How often a counter that has seen n edges has gone from Half - 1 to     *)
(* Half, which IORD returns as -Half.                                      *)
Crossings(n) == (n + Half) \div CounterSize

(* The odometers are exact until a counter reaches Half.  There the branch *)
(* "counter reset" adds the negative reading (nav.c 455-457), and half the *)
(* counter's range and at most one period's edges are lost for good; when  *)
(* the counter starts again from 0 nothing is.                             *)
OdometerLosesHalfRange ==
    \A m \in Motor :
        LET lost == seen[m] - ENCODER[m] IN
        (Half + 1) * Crossings(seen[m]) <= lost /\ lost <= (Half + Gap) * Crossings(seen[m])

(* A motor that is said to be turning did turn since the reading before,   *)
(* by the edges its threshold asks for, whatever the counter did (459-464, *)
(* 479-484).  Navigation_Task drives on, and Servo_Task calls the system   *)
(* blocked, on the strength of it.                                         *)
FullMeansTurning == \A m \in Motor : full[m] => gained[m] >= Threshold[m]

(* The recorded length of a leg is what the wheel turned, give or take one *)
(* reading at its start (edges of before are counted in) and one at its    *)
(* end, as long as the counter has not reached Half; it is never longer.   *)
LegWithinOneReading ==
    [][leg /\ ~leg' =>
          LET real == edges[0] - opened IN
          /\ count' - real <= Gap
          /\ edges[0] < Half => real - count' <= Gap]_vars
=============================================================================
