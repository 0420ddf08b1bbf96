------------------------------ MODULE MotorGo -------------------------------
(***************************************************************************)
(* One movement of motors.c (motorGo, motorGoForward): two H-bridge inputs *)
(* are driven and both encoders polled until either wheel has gone the     *)
(* distance.  The wheels turn all the while, between any two readings.     *)
(* Module Rover starts and ends such movements; this one asks whether they *)
(* end where they should.  turned, since and behind are history.           *)
(***************************************************************************)
EXTENDS Encoder

CONSTANTS Goal,      (* (16 * distance) - (0.05 * 16 * distance), in edges  *)
          Start,     (* what the counters may show when it begins           *)
          MaxTurned, (* a bound: edges of a wheel during the movement       *)
          Floor      (* a bound: no more polls once a total is below        *)

ASSUME MotorGoAssumption ==
    /\ Goal \in Nat \ {0}
    /\ Start \subseteq Counter
    /\ MaxTurned \in Nat
    /\ Floor \in Int

VARIABLES pc,
          counter,   (* encoder.vhd's counters                              *)
          driven,    (* the inputs have a driving duty                      *)
          motor,     (* motor_0, motor_1: the readings before               *)
          temp_0,
          total,     (* motor_0_total, motor_1_total                        *)
          turned,    (* edges since the inputs are driven                   *)
          since,     (* edges since the last reading                        *)
          behind     (* wheel 1 has read less than wheel 0 before           *)

locals == <<motor, temp_0, total>>
vars   == <<pc, counter, driven, locals, turned, since, behind>>

TypeOK ==
    /\ pc \in {"drive", "first0", "first1", "read0", "read1", "stop", "done"}
    /\ counter \in [Motor -> Counter]
    /\ driven \in BOOLEAN
    /\ motor \in [Motor -> Reading]
    /\ temp_0 \in Reading
    /\ total \in [Motor -> Int]
    /\ turned \in [Motor -> 0..MaxTurned]
    /\ since \in [Motor -> 0..Gap]
    /\ behind \in BOOLEAN

(* Nothing resets the counters: a movement may begin at any values.        *)
Init ==
    /\ pc = "drive"
    /\ counter \in [Motor -> Start]
    /\ driven = FALSE
    /\ motor = [m \in Motor |-> 0] /\ temp_0 = 0 /\ total = [m \in Motor |-> 0]
    /\ turned = [m \in Motor |-> 0] /\ since = [m \in Motor |-> 0]
    /\ behind = FALSE

-----------------------------------------------------------------------------
Rise(m) ==
    /\ driven
    /\ turned[m] < MaxTurned /\ since[m] < Gap
    /\ counter' = [counter EXCEPT ![m] = Increment(@)]
    /\ turned' = [turned EXCEPT ![m] = @ + 1]
    /\ since' = [since EXCEPT ![m] = @ + 1]
    /\ UNCHANGED <<pc, driven, locals, behind>>

Drive ==
    /\ pc = "drive"
    /\ driven' = TRUE
    /\ pc' = "first0"
    /\ UNCHANGED <<counter, locals, turned, since, behind>>

(* Mutant: the first readings are taken to be 0. *)
FirstReading_Zero(m, from, then) ==
    /\ pc = from
    /\ pc' = then
    /\ since' = [since EXCEPT ![m] = 0]
    /\ UNCHANGED <<counter, driven, locals, turned, behind>>

FirstReading(m, from, then) ==
    /\ pc = from
    /\ motor' = [motor EXCEPT ![m] = IORD(counter[m])]
    /\ since' = [since EXCEPT ![m] = 0]
    /\ pc' = then
    /\ UNCHANGED <<counter, driven, temp_0, total, turned, behind>>

Read0 ==
    /\ pc = "read0"
    /\ \A m \in Motor : total[m] >= Floor
    /\ temp_0' = IORD(counter[0])
    /\ since' = [since EXCEPT ![0] = 0]
    /\ pc' = "read1"
    /\ UNCHANGED <<counter, driven, motor, total, turned, behind>>

(* Mutant: the readings before are not subtracted. *)
Gained_All(new, shown, before) == new

(* What a poll adds to a total: all of the reading if that is below what   *)
(* the counter is thought to have shown before.                            *)
Gained(new, shown, before) == IF new >= shown THEN new - before ELSE new

(* Mutant: both wheels must have gone the distance. *)
Finished_Both(sum) == \A m \in Motor : sum[m] >= Goal

(* Either wheel ends the movement. *)
Finished(sum) == \E m \in Motor : sum[m] >= Goal

(* A poll reads wheel 0, then wheel 1, and ends the loop or sleeps 10 ms.  *)
(* For wheel 1 the new reading is compared with wheel 0's (158, 209).      *)
Read1 ==
    /\ pc = "read1"
    /\ LET temp_1 == IORD(counter[1]) IN
       /\ total' = [m \in Motor |-> total[m] + IF m = 0
                        THEN Gained(temp_0, motor[0], motor[0])
                        ELSE Gained(temp_1, motor[0], motor[1])]
       /\ motor' = IF Finished(total') THEN motor
                   ELSE [m \in Motor |-> IF m = 0 THEN temp_0 ELSE temp_1]
       /\ behind' = (behind \/ temp_1 < motor[0])
    /\ since' = [since EXCEPT ![1] = 0]
    /\ pc' = IF Finished(total') THEN "stop" ELSE "read0"
    /\ UNCHANGED <<counter, driven, temp_0, turned>>

Stop ==
    /\ pc = "stop"
    /\ driven' = FALSE
    /\ pc' = "done"
    /\ UNCHANGED <<counter, locals, turned, since, behind>>

Next ==
    \/ \E m \in Motor : Rise(m)
    \/ Drive
    \/ FirstReading(0, "first0", "first1")
    \/ FirstReading(1, "first1", "read0")
    \/ Read0
    \/ Read1
    \/ Stop

Spec == Init /\ [][Next]_vars

-----------------------------------------------------------------------------
(* The polls never count wheel 0 twice, whatever its counter does meanwhile *)
(* (150-156, 171, 201-207, 222).                                           *)
Wheel0NotOverCounted == total[0] <= turned[0]

(* While the counter of wheel 0 stays below Half a movement is over in     *)
(* time, whatever wheel 1 does: it exceeds its distance by what the wheel  *)
(* turns before the first reading and during one poll at most.             *)
StopsInTime ==
    turned[0] <= counter[0] /\ counter[0] < Half => turned[0] < Goal + 3 * Gap

(* A movement that ends before either wheel has gone the distance has met  *)
(* a reading of wheel 1 below wheel 0's reading before, which adds the     *)
(* whole of wheel 1's counter to its total: the one way to end too soon.   *)
ShortOnlyBehind ==
    pc \in {"stop", "done"} /\ (\A m \in Motor : turned[m] < Goal) => behind
=============================================================================
