------------------------------- MODULE Rover --------------------------------
(***************************************************************************)
(* The four tasks of nav.c that drive the rover, over the services of      *)
(* Ucos.  Encoder_Task judges whether the wheels turn; Servo_Task sweeps   *)
(* the front sensor and, when the system is free, claims it and posts what *)
(* it saw; Navigation_Task handles one message at a time, parking the      *)
(* servo task while it turns; History_Task replays the recorded route when *)
(* the course has been run.                                                *)
(*                                                                         *)
(* pc[t] names the statement task t executes next.  A step is the code     *)
(* between two points where another task can see or change what it uses;   *)
(* a step that blocks ends in OSTimeDly (usleep is OSTimeDly once the      *)
(* kernel runs), and delays with nothing shared between them are one.      *)
(* What the sensors and encoders return is arbitrary.                      *)
(***************************************************************************)
EXTENDS Integers, Sequences

CONSTANTS QUEUE_SIZE,  (* slots of MainQueue                                *)
          Volt,        (* the levels a side sensor may return               *)
          ClearVolt,   (* a level up to this one means no obstacle: 1.9 V   *)
          Sight,       (* Sight[i]: what the i-th reading of a sweep may be *)
          RouteMoves,  (* the moves a recorded route may hold               *)
          CourseEnds   (* a bound: whether the course can be completed      *)

ASSUME RoverAssumption ==
    /\ QUEUE_SIZE \in Nat \ {0}
    /\ Volt \subseteq Int
    /\ ClearVolt \in Int
    /\ Sight \in [0..2 -> SUBSET BOOLEAN]
    /\ RouteMoves \subseteq {"forward", "turnLeft", "turnRight"}
    /\ CourseEnds \in BOOLEAN

ENCODER == "encoder"
NAVI    == "navi"
SERVO   == "servo"
HISTORY == "history"

Task == {ENCODER, NAVI, SERVO, HISTORY}
Priority == [encoder |-> 1, navi |-> 2, servo |-> 3, history |-> 4]

Message == {"BLOCKED", "CLEAR"}

VARIABLES delayed, suspended, pending, queue, mail,   (* the kernel's, see Ucos *)
          pc,
          status,         (* the message Navigation_Task is handling         *)
          SYSTEM_STATUS,
          FRONT_CLEAR, LEFT_CLEAR, RIGHT_CLEAR,
          FRONT_SERVO,    (* [i]: the i-th reading of the sweep is clear     *)
          aim,            (* the direction the servo was last sent to        *)
          pwm,            (* the H-bridge inputs given a driving duty        *)
          rolling,        (* (MOTOR_0_STATUS & MOTOR_1_STATUS) == MOTOR_FULL *)
          leg,            (* TRVL[TRVL_INDEX].move == 'F': a leg is open     *)
          reached         (* what evalHistory says of the recorded legs      *)

K == INSTANCE Ucos WITH Prio <- Priority, Msg <- Message,
                        NoMsg <- "none", QSize <- QUEUE_SIZE

kernel == <<delayed, suspended, pending, queue, mail>>
clears == <<FRONT_CLEAR, LEFT_CLEAR, RIGHT_CLEAR>>
route  == <<leg, reached>>
vars   == <<kernel, pc, status, SYSTEM_STATUS, clears, FRONT_SERVO,
            aim, pwm, rolling, route>>

-----------------------------------------------------------------------------
(* Movements: the H-bridge inputs each one drives until an encoder has     *)
(* counted the distance, and the label at which it polls them.  Inputs 0   *)
(* and 1 are the two directions of one motor, 2 and 3 of the other.        *)

Pins == [forward |-> {0, 2}, reverse |-> {1, 3}, turnLeft |-> {1, 2},
         turnRight |-> {0, 3}, turn180 |-> {0, 3}]

Polling == [forward |-> "pollForward", reverse |-> "pollReverse",
            turnLeft |-> "pollLeft", turnRight |-> "pollRight",
            turn180 |-> "poll180"]

Movement == DOMAIN Pins

SweepLabel == {"left", "readLeft", "readCenter", "readRight", "readAgain"}
JudgeLabel == {"judgeStop", "judgeFull", "testClear", "claimClear", "postClear",
               "testBlocked", "stopBlocked", "claimBlocked", "postBlocked"}
NaviLabel  == {"pend", "pended", "stop", "closeLeg", "park", "center", "decide",
               "verdict", "ramp1", "ramp2", "ramp3", "check", "retry"}
HistoryLabel == {"eval", "claim", "depart", "halt", "replay", "retireNavi",
                 "retireServo", "rest"}
Label == SweepLabel \cup JudgeLabel \cup NaviLabel \cup HistoryLabel
         \cup Movement \cup {Polling[m] : m \in Movement} \cup {"boot", "count"}

TypeOK ==
    /\ K!TypeOK
    /\ pc \in [Task -> Label]
    /\ status \in Message
    /\ SYSTEM_STATUS \in {"FREE", "BUSY"}
    /\ FRONT_CLEAR \in BOOLEAN
    /\ LEFT_CLEAR \in BOOLEAN
    /\ RIGHT_CLEAR \in BOOLEAN
    /\ FRONT_SERVO \in [0..2 -> BOOLEAN]
    /\ aim \in {"left", "center", "right"}
    /\ pwm \subseteq 0..3
    /\ rolling \in BOOLEAN
    /\ leg \in BOOLEAN
    /\ reached \in BOOLEAN

(* main() up to OSStart.  Every task is ready; globals not set there are 0, *)
(* which is MOTOR_STOP and a reading of 0 V, clear.                         *)
Init ==
    /\ K!Init
    /\ pc = [encoder |-> "boot", navi |-> "pend", servo |-> "boot",
             history |-> "boot"]
    /\ status = "BLOCKED"
    /\ SYSTEM_STATUS = "FREE"
    /\ FRONT_CLEAR = TRUE /\ LEFT_CLEAR = TRUE /\ RIGHT_CLEAR = TRUE
    /\ FRONT_SERVO = [i \in 0..2 |-> TRUE]
    /\ aim = "center"
    /\ pwm = {}
    /\ rolling = FALSE
    /\ leg = FALSE
    /\ reached = FALSE

-----------------------------------------------------------------------------
At(t, l) == K!Running(t) /\ pc[t] = l

Goto(t, l) == pc' = [pc EXCEPT ![t] = l]

DelayThen(t, l) == K!OSTimeDly(t) /\ Goto(t, l)

isSensorClear(volt) == volt <= ClearVolt

-----------------------------------------------------------------------------
(* servoRotate: left, centre, right, centre again, a reading at each.  It  *)
(* returns early when the centre (the right is then taken as 2.1 V, not    *)
(* clear) or the right is blocked; a blocked left does not end it.         *)

AimLeft(t) ==
    /\ At(t, "left")
    /\ aim' = "left"
    /\ DelayThen(t, "readLeft")
    /\ UNCHANGED <<status, SYSTEM_STATUS, clears, FRONT_SERVO, pwm, rolling, route>>

ReadLeft(t) ==
    /\ At(t, "readLeft")
    /\ \E clear \in Sight[0] : FRONT_SERVO' = [FRONT_SERVO EXCEPT ![0] = clear]
    /\ aim' = "center"
    /\ DelayThen(t, "readCenter")
    /\ UNCHANGED <<status, SYSTEM_STATUS, clears, pwm, rolling, route>>

ReadCenter(t) ==
    /\ At(t, "readCenter")
    /\ \/ /\ FALSE \in Sight[1]
          /\ FRONT_SERVO' = [FRONT_SERVO EXCEPT ![1] = FALSE, ![2] = FALSE]
          /\ Goto(t, "judgeStop")
          /\ UNCHANGED <<kernel, aim>>
       \/ /\ TRUE \in Sight[1]
          /\ FRONT_SERVO' = [FRONT_SERVO EXCEPT ![1] = TRUE]
          /\ aim' = "right"
          /\ DelayThen(t, "readRight")
    /\ UNCHANGED <<status, SYSTEM_STATUS, clears, pwm, rolling, route>>

ReadRight(t) ==
    /\ At(t, "readRight")
    /\ \/ /\ FALSE \in Sight[2]
          /\ FRONT_SERVO' = [FRONT_SERVO EXCEPT ![2] = FALSE]
          /\ Goto(t, "judgeStop")
          /\ UNCHANGED <<kernel, aim>>
       \/ /\ TRUE \in Sight[2]
          /\ FRONT_SERVO' = [FRONT_SERVO EXCEPT ![2] = TRUE]
          /\ aim' = "center"
          /\ DelayThen(t, "readAgain")
    /\ UNCHANGED <<status, SYSTEM_STATUS, clears, pwm, rolling, route>>

ReadAgain(t) ==
    /\ At(t, "readAgain")
    /\ \E clear \in Sight[1] : FRONT_SERVO' = [FRONT_SERVO EXCEPT ![1] = clear]
    /\ DelayThen(t, "judgeStop")
    /\ UNCHANGED <<status, SYSTEM_STATUS, clears, aim, pwm, rolling, route>>

servoRotate(t) ==
    AimLeft(t) \/ ReadLeft(t) \/ ReadCenter(t) \/ ReadRight(t) \/ ReadAgain(t)

-----------------------------------------------------------------------------
(* navigateFront: standing still and all clear, or rolling and something   *)
(* not clear, updates FRONT_CLEAR and, if the system is free, claims it    *)
(* and posts.  A more urgent task may come between any two of its steps.   *)

(* Mutant: the sweep never returns to Navigation_Task. *)
AfterSweep_Loops(t) == "left"

(* Where navigateFront returns to: Servo_Task loops, Navigation_Task goes  *)
(* on with the message it is handling.                                     *)
AfterSweep(t) ==
    IF t = SERVO THEN "left"
    ELSE IF status = "BLOCKED" THEN "verdict" ELSE "retry"

AllClear == \A i \in 0..2 : FRONT_SERVO[i]

JudgeStop(t) ==
    /\ At(t, "judgeStop")
    /\ FRONT_CLEAR' = (FRONT_CLEAR \/ (~rolling /\ AllClear))
    /\ Goto(t, IF rolling THEN "judgeFull"
               ELSE IF AllClear THEN "testClear" ELSE AfterSweep(t))
    /\ UNCHANGED <<kernel, status, SYSTEM_STATUS, LEFT_CLEAR, RIGHT_CLEAR,
                   FRONT_SERVO, aim, pwm, rolling, route>>

(* The motor status is read again, and may have changed. *)
JudgeFull(t) ==
    /\ At(t, "judgeFull")
    /\ FRONT_CLEAR' = (FRONT_CLEAR /\ ~(rolling /\ ~AllClear))
    /\ Goto(t, IF rolling /\ ~AllClear THEN "testBlocked" ELSE AfterSweep(t))
    /\ UNCHANGED <<kernel, status, SYSTEM_STATUS, LEFT_CLEAR, RIGHT_CLEAR,
                   FRONT_SERVO, aim, pwm, rolling, route>>

(* Mutant: the claim is made without looking at SYSTEM_STATUS. *)
TestFree_Unchecked(t, from, then) ==
    /\ At(t, from)
    /\ Goto(t, then)
    /\ UNCHANGED <<kernel, status, SYSTEM_STATUS, clears, FRONT_SERVO, aim,
                   pwm, rolling, route>>

TestFree(t, from, then) ==
    /\ At(t, from)
    /\ Goto(t, IF SYSTEM_STATUS = "FREE" THEN then ELSE AfterSweep(t))
    /\ UNCHANGED <<kernel, status, SYSTEM_STATUS, clears, FRONT_SERVO, aim,
                   pwm, rolling, route>>

(* M_allStop: every H-bridge input gets a duty of 1 in 31250, and the      *)
(* caller sleeps for a second.                                             *)
M_allStop(t, from, then) ==
    /\ At(t, from)
    /\ pwm' = {}
    /\ DelayThen(t, then)
    /\ UNCHANGED <<status, SYSTEM_STATUS, clears, FRONT_SERVO, aim, rolling, route>>

(* Mutants: nothing is claimed; History_Task frees what it should claim. *)
Claim_Nothing(t, from, then) ==
    /\ At(t, from)
    /\ Goto(t, then)
    /\ UNCHANGED <<kernel, status, SYSTEM_STATUS, clears, FRONT_SERVO, aim,
                   pwm, rolling, route>>

Claim(t, from, then) ==
    /\ At(t, from)
    /\ SYSTEM_STATUS' = "BUSY"
    /\ Goto(t, then)
    /\ UNCHANGED <<kernel, status, clears, FRONT_SERVO, aim, pwm, rolling, route>>

(* Mutant: the servo task does not post what it claimed the system for. *)
Post_Forgotten(t, from, m, then) ==
    /\ At(t, from)
    /\ IF t = SERVO THEN UNCHANGED kernel ELSE K!OSQPost(m)
    /\ Goto(t, then)
    /\ UNCHANGED <<status, SYSTEM_STATUS, clears, FRONT_SERVO, aim, pwm, rolling, route>>

Post(t, from, m, then) ==
    /\ At(t, from)
    /\ K!OSQPost(m)
    /\ Goto(t, then)
    /\ UNCHANGED <<status, SYSTEM_STATUS, clears, FRONT_SERVO, aim, pwm, rolling, route>>

navigateFront(t) ==
    \/ JudgeStop(t)
    \/ JudgeFull(t)
    \/ TestFree(t, "testClear", "claimClear")
    \/ TestFree(t, "testBlocked", "stopBlocked")
    \/ Claim(t, "claimClear", "postClear")
    \/ M_allStop(t, "stopBlocked", "claimBlocked")
    \/ Claim(t, "claimBlocked", "postBlocked")
    \/ Post(t, "postClear", "CLEAR", AfterSweep(t))
    \/ Post(t, "postBlocked", "BLOCKED", AfterSweep(t))

-----------------------------------------------------------------------------
(* motorGo and motorGoForward: drive two inputs, poll the encoders every   *)
(* 10 ms until a wheel has gone the distance, then release the inputs.     *)

MotorStart(t, m) ==
    /\ At(t, m)
    /\ pwm' = pwm \cup Pins[m]
    /\ Goto(t, Polling[m])
    /\ UNCHANGED <<kernel, status, SYSTEM_STATUS, clears, FRONT_SERVO, aim, rolling, route>>

MotorPoll(t, m) ==
    /\ At(t, Polling[m])
    /\ DelayThen(t, Polling[m])
    /\ UNCHANGED <<status, SYSTEM_STATUS, clears, FRONT_SERVO, aim, pwm, rolling, route>>

(* Navigation_Task sweeps after a turn, and turns about 2 s after backing  *)
(* out; History_Task waits before the next step of the route.              *)
AfterMotor(t, m) ==
    CASE t = NAVI /\ m # "reverse" -> "left"
      [] t = NAVI /\ m = "reverse" -> "turn180"
      [] t # NAVI /\ m = "turn180" -> "replay"
      [] OTHER -> "halt"

(* Mutant: the inputs are not set back to 0 at the end of a movement. *)
MotorDone_KeepsDriving(t, m) ==
    /\ At(t, Polling[m])
    /\ Goto(t, AfterMotor(t, m))
    /\ IF t = NAVI /\ m # "reverse" THEN UNCHANGED kernel ELSE K!OSTimeDly(t)
    /\ UNCHANGED <<status, SYSTEM_STATUS, clears, FRONT_SERVO, aim, pwm, rolling, route>>

(* Mutant: the servo task goes on as soon as the turn is over. *)
MotorDone_ResumesServo(t, m) ==
    /\ At(t, Polling[m])
    /\ pwm' = pwm \ Pins[m]
    /\ Goto(t, AfterMotor(t, m))
    /\ IF t = NAVI /\ m # "reverse" THEN K!OSTaskResume(SERVO) ELSE K!OSTimeDly(t)
    /\ UNCHANGED <<status, SYSTEM_STATUS, clears, FRONT_SERVO, aim, rolling, route>>

MotorDone(t, m) ==
    /\ At(t, Polling[m])
    /\ pwm' = pwm \ Pins[m]
    /\ Goto(t, AfterMotor(t, m))
    /\ IF t = NAVI /\ m # "reverse" THEN UNCHANGED kernel ELSE K!OSTimeDly(t)
    /\ UNCHANGED <<status, SYSTEM_STATUS, clears, FRONT_SERVO, aim, rolling, route>>

motorGo(t) == \E m \in Movement : MotorStart(t, m) \/ MotorPoll(t, m) \/ MotorDone(t, m)

-----------------------------------------------------------------------------
(* Navigation_Task. *)

NaviPend ==
    /\ At(NAVI, "pend")
    /\ K!OSQPend(NAVI)
    /\ Goto(NAVI, "pended")
    /\ UNCHANGED <<status, SYSTEM_STATUS, clears, FRONT_SERVO, aim, pwm, rolling, route>>

(* Mutant: the switch has no label for the message it was given. *)
NaviReceive_Unlabelled ==
    /\ At(NAVI, "pended")
    /\ K!OSQReturn(NAVI)
    /\ status' = mail[NAVI]
    /\ Goto(NAVI, mail[NAVI])
    /\ UNCHANGED <<SYSTEM_STATUS, clears, FRONT_SERVO, aim, pwm, rolling, route>>

NaviReceive ==
    /\ At(NAVI, "pended")
    /\ K!OSQReturn(NAVI)
    /\ status' = mail[NAVI]
    /\ Goto(NAVI, IF mail[NAVI] = "BLOCKED" THEN "stop" ELSE "ramp1")
    /\ UNCHANGED <<SYSTEM_STATUS, clears, FRONT_SERVO, aim, pwm, rolling, route>>

(* FRONT_IS_BLOCKED: an open leg is recorded, and may complete the course. *)
NaviCloseLeg ==
    /\ At(NAVI, "closeLeg")
    /\ leg' = FALSE
    /\ IF leg THEN reached' \in {reached, CourseEnds} ELSE UNCHANGED reached
    /\ Goto(NAVI, "park")
    /\ UNCHANGED <<kernel, status, SYSTEM_STATUS, clears, FRONT_SERVO, aim, pwm, rolling>>

(* Mutant: the servo task is parked in the wrong case. *)
NaviPark_WhenFree ==
    /\ At(NAVI, "park")
    /\ IF SYSTEM_STATUS = "FREE"
       THEN K!OSTaskSuspend(SERVO) /\ Goto(NAVI, "center")
       ELSE DelayThen(NAVI, "decide")
    /\ UNCHANGED <<status, SYSTEM_STATUS, clears, FRONT_SERVO, aim, pwm, rolling, route>>

(* If the system was not busy this goes straight to checkLeftRight.        *)
NaviPark ==
    /\ At(NAVI, "park")
    /\ IF SYSTEM_STATUS = "BUSY"
       THEN K!OSTaskSuspend(SERVO) /\ Goto(NAVI, "center")
       ELSE DelayThen(NAVI, "decide")
    /\ UNCHANGED <<status, SYSTEM_STATUS, clears, FRONT_SERVO, aim, pwm, rolling, route>>

(* The 100 ms delay that lets the servo be centred, then the conversions   *)
(* of checkLeftRight; the 1500 ms delay between them is refused, its       *)
(* milliseconds being over 999.                                            *)
NaviCenter ==
    /\ At(NAVI, "center")
    /\ aim' = "center"
    /\ DelayThen(NAVI, "decide")
    /\ UNCHANGED <<status, SYSTEM_STATUS, clears, FRONT_SERVO, pwm, rolling, route>>

(* Mutant: the voltages are compared the wrong way round. *)
ChooseTurn_Swapped(left, right) ==
    IF ~isSensorClear(left) /\ ~isSensorClear(right) THEN "reverse"
    ELSE IF left <= right THEN "turnRight"
    ELSE IF isSensorClear(left) THEN "turnLeft" ELSE "left"

(* The turn chosen from the voltages of the sides: lower is farther away.  *)
ChooseTurn(left, right) ==
    IF ~isSensorClear(left) /\ ~isSensorClear(right) THEN "reverse"
    ELSE IF right <= left THEN "turnRight"
    ELSE IF isSensorClear(left) THEN "turnLeft" ELSE "left"

NaviDecide ==
    /\ At(NAVI, "decide")
    /\ \E left, right \in Volt :
         /\ LEFT_CLEAR' = isSensorClear(left)
         /\ RIGHT_CLEAR' = isSensorClear(right)
         /\ Goto(NAVI, IF FRONT_CLEAR THEN "left" ELSE ChooseTurn(left, right))
    /\ UNCHANGED <<kernel, status, SYSTEM_STATUS, FRONT_CLEAR, FRONT_SERVO, aim,
                   pwm, rolling, route>>

(* Mutant: the servo task is not resumed. *)
Release_NoResume ==
    /\ SYSTEM_STATUS' = "FREE"
    /\ Goto(NAVI, "pend")
    /\ UNCHANGED kernel

(* Give the system back and let the servo task go on. *)
Release ==
    /\ SYSTEM_STATUS' = "FREE"
    /\ K!OSTaskResume(SERVO)
    /\ Goto(NAVI, "pend")

NaviVerdict ==
    /\ At(NAVI, "verdict")
    /\ \/ FRONT_CLEAR /\ Release
       \/ /\ ~FRONT_CLEAR
          /\ K!OSQPost("BLOCKED")
          /\ Goto(NAVI, "pend")
          /\ UNCHANGED SYSTEM_STATUS
    /\ UNCHANGED <<status, clears, FRONT_SERVO, aim, pwm, rolling, route>>

(* Mutant: no leg is opened. *)
NaviRamp_NoLeg(from, then) ==
    /\ At(NAVI, from)
    /\ pwm' = pwm \cup Pins["forward"]
    /\ DelayThen(NAVI, then)
    /\ UNCHANGED <<status, SYSTEM_STATUS, clears, FRONT_SERVO, aim, rolling, route>>

(* FRONT_IS_CLEAR: a leg is opened and the duty raised in three steps      *)
(* (stoptopartial; M_checkMotion reads 0 from the write-only PWM registers *)
(* and stops nothing).                                                     *)
NaviRamp(from, then) ==
    /\ At(NAVI, from)
    /\ leg' = TRUE
    /\ pwm' = pwm \cup Pins["forward"]
    /\ DelayThen(NAVI, then)
    /\ UNCHANGED <<status, SYSTEM_STATUS, clears, FRONT_SERVO, aim, rolling, reached>>

(* Mutant: the system is freed before the retry. *)
NaviCheck_FreeFirst ==
    /\ At(NAVI, "check")
    /\ \/ rolling /\ Release /\ UNCHANGED pwm
       \/ /\ ~rolling
          /\ pwm' = {}
          /\ DelayThen(NAVI, "left")
          /\ SYSTEM_STATUS' = "FREE"
    /\ UNCHANGED <<status, clears, FRONT_SERVO, aim, rolling, route>>

NaviCheck ==
    /\ At(NAVI, "check")
    /\ \/ rolling /\ Release /\ UNCHANGED pwm
       \/ /\ ~rolling
          /\ pwm' = {}
          /\ DelayThen(NAVI, "left")
          /\ UNCHANGED SYSTEM_STATUS
    /\ UNCHANGED <<status, clears, FRONT_SERVO, aim, rolling, route>>

Navigation_Task ==
    \/ NaviPend
    \/ NaviReceive
    \/ M_allStop(NAVI, "stop", "closeLeg")
    \/ NaviCloseLeg
    \/ NaviPark
    \/ NaviCenter
    \/ NaviDecide
    \/ motorGo(NAVI)
    \/ servoRotate(NAVI)
    \/ navigateFront(NAVI)
    \/ NaviVerdict
    \/ NaviRamp("ramp1", "ramp2")
    \/ NaviRamp("ramp2", "ramp3")
    \/ NaviRamp("ramp3", "check")
    \/ NaviCheck
    \/ Post(NAVI, "retry", "CLEAR", "pend")

-----------------------------------------------------------------------------
(* The other tasks. *)

ServoBoot ==
    /\ At(SERVO, "boot")
    /\ aim' = "center"
    /\ DelayThen(SERVO, "left")
    /\ UNCHANGED <<status, SYSTEM_STATUS, clears, FRONT_SERVO, pwm, rolling, route>>

Servo_Task == ServoBoot \/ servoRotate(SERVO) \/ navigateFront(SERVO)

Sleep(t, from, then) ==
    /\ At(t, from)
    /\ DelayThen(t, then)
    /\ UNCHANGED <<status, SYSTEM_STATUS, clears, FRONT_SERVO, aim, pwm, rolling, route>>

(* Every 100 ms the counts since the last reading give each motor's        *)
(* status; what they are is up to the wheels.                              *)
EncoderCount ==
    /\ At(ENCODER, "count")
    /\ rolling' \in BOOLEAN
    /\ DelayThen(ENCODER, "count")
    /\ UNCHANGED <<status, SYSTEM_STATUS, clears, FRONT_SERVO, aim, pwm, route>>

Encoder_Task == Sleep(ENCODER, "boot", "count") \/ EncoderCount

(* History_Task looks at the route every 10 s.  An open leg of a finished  *)
(* course is filled in but not closed, which changes nothing here.         *)
HistoryEval ==
    /\ At(HISTORY, "eval")
    /\ IF reached THEN Goto(HISTORY, "claim") /\ UNCHANGED kernel
                  ELSE DelayThen(HISTORY, "eval")
    /\ UNCHANGED <<status, SYSTEM_STATUS, clears, FRONT_SERVO, aim, pwm, rolling, route>>

(* executeHistory after the stop and the half turn: step by step through   *)
(* the recorded moves, a turn-about (B) being skipped; then both tasks     *)
(* are suspended, in that order.                                           *)
HistoryStep ==
    /\ At(HISTORY, "replay")
    /\ \/ /\ \E l \in RouteMoves \cup {"retireNavi"} : Goto(HISTORY, l)
          /\ UNCHANGED kernel
       \/ DelayThen(HISTORY, "halt")
    /\ UNCHANGED <<status, SYSTEM_STATUS, clears, FRONT_SERVO, aim, pwm, rolling, route>>

(* Mutant: Navigation_Task is suspended twice, Servo_Task never. *)
Retire_NaviTwice(t, from, then) ==
    /\ At(HISTORY, from)
    /\ K!OSTaskSuspend(NAVI)
    /\ Goto(HISTORY, then)
    /\ UNCHANGED <<status, SYSTEM_STATUS, clears, FRONT_SERVO, aim, pwm, rolling, route>>

Retire(t, from, then) ==
    /\ At(HISTORY, from)
    /\ K!OSTaskSuspend(t)
    /\ Goto(HISTORY, then)
    /\ UNCHANGED <<status, SYSTEM_STATUS, clears, FRONT_SERVO, aim, pwm, rolling, route>>

History_Task ==
    \/ Sleep(HISTORY, "boot", "eval")
    \/ HistoryEval
    \/ Claim(HISTORY, "claim", "depart")
    \/ M_allStop(HISTORY, "depart", "turn180")
    \/ motorGo(HISTORY)
    \/ HistoryStep
    \/ M_allStop(HISTORY, "halt", "replay")
    \/ Retire(NAVI, "retireNavi", "retireServo")
    \/ Retire(SERVO, "retireServo", "rest")
    \/ M_allStop(HISTORY, "rest", "eval")

Tick ==
    /\ \E S \in SUBSET delayed \ {{}} : K!OSTimeTick(S)
    /\ UNCHANGED <<pc, status, SYSTEM_STATUS, clears, FRONT_SERVO, aim, pwm, rolling, route>>

Next == Tick \/ Encoder_Task \/ Navigation_Task \/ Servo_Task \/ History_Task

Spec == Init /\ [][Next]_vars
=============================================================================
