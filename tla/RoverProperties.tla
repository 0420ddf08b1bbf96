-------------------------- MODULE RoverProperties ---------------------------
(***************************************************************************)
(* What the rover's tasks owe each other.                                  *)
(***************************************************************************)
EXTENDS Rover

(* Servo_Task has found the system free and has not posted yet. *)
ServoHolds ==
    pc[SERVO] \in {"claimClear", "postClear", "stopBlocked", "claimBlocked", "postBlocked"}

(* Navigation_Task is not handling a message. *)
NaviIdle == pc[NAVI] \in {"pend", "pended"}

Delivered == mail[NAVI] # "none"

(* History_Task has begun to drive, and may have retired the other tasks.  *)
Replaying ==
    \/ pc[HISTORY] \notin {"boot", "eval", "claim", "depart"}
    \/ NAVI \in suspended

-----------------------------------------------------------------------------
(* At most one command is under way, whatever History_Task does: while the *)
(* system is free, or the servo task is about to post (nav.c 353-368),     *)
(* nothing is queued, delivered or handled; so MainQueue never holds two   *)
(* messages and none of the OSQPost calls, whose result is ignored, fails. *)
OneCommand ==
    /\ Len(queue) <= 1
    /\ queue # <<>> => ~Delivered /\ pc[NAVI] = "pend"
    /\ SYSTEM_STATUS = "FREE" \/ ServoHolds => NaviIdle /\ queue = <<>> /\ ~Delivered

(* "since SYSTEM_STATUS is busy, will only update FRONT_CLEAR" (nav.c      *)
(* 137): when Navigation_Task itself runs servoRotate and navigateFront,   *)
(* nothing that ran during its delays has made the system free, so it      *)
(* never posts to its own queue from there.                                *)
NavScanOnlyUpdates ==
    pc[NAVI] \in SweepLabel \cup JudgeLabel => SYSTEM_STATUS = "BUSY"

(* Until History_Task drives, no motor is driven both ways at once,        *)
(* although the movements of motors.c set only their own two inputs and    *)
(* rely on whoever drove before to have released the others.               *)
NoCrossDrive ==
    ~Replaying => ~({0, 1} \subseteq pwm) /\ ~({2, 3} \subseteq pwm)

(* A suspended servo task is one that the handling of FRONT_IS_BLOCKED     *)
(* will resume: the message is being handled, or is about to be again.     *)
(* Otherwise nobody would look ahead any more (nav.c 77, 144, 150).        *)
ParkedServoHasOwner ==
    SERVO \in suspended /\ ~Replaying =>
        \/ ~NaviIdle /\ status = "BLOCKED"
        \/ mail[NAVI] = "BLOCKED"
        \/ queue = <<"BLOCKED">>

(* The rover never turns to a side it has just found blocked, and backs    *)
(* out only when both are: turnRight() is called without looking at        *)
(* RIGHT_CLEAR (nav.c 105-117).                                            *)
TurnTowardClearSide ==
    /\ pc[NAVI] \in {"turnLeft", "pollLeft"} => LEFT_CLEAR
    /\ pc[NAVI] \in {"turnRight", "pollRight"} => RIGHT_CLEAR
    /\ pc[NAVI] \in {"reverse", "pollReverse"} => ~LEFT_CLEAR /\ ~RIGHT_CLEAR

(* While Navigation_Task moves the rover on FRONT_IS_BLOCKED, the front is *)
(* still held to be blocked: the servo task, whose sweeps could say        *)
(* otherwise at any delay, is parked (nav.c 77, 104, 351).                 *)
TurnsOnlyWhenBlocked ==
    pc[NAVI] \in Movement \cup {Polling[m] : m \in Movement} => ~FRONT_CLEAR

(* Until History_Task drives, the rover moves only where the route will    *)
(* show it: on an open leg, or in a movement of Navigation_Task.           *)
RecordedMotion ==
    ~Replaying /\ pwm # {} => leg \/ pc[NAVI] \in {Polling[m] : m \in Movement}

(* The readings by which a parked servo is released were each taken with   *)
(* the servo turned the way FRONT_SERVO[i] stands for (nav.c 319-341).     *)
(* The sweep of a retry (nav.c 175) is made with the servo task at large,  *)
(* and nothing of the kind holds of it.                                    *)
ParkedSweepIsAimed ==
    status = "BLOCKED" =>
        /\ pc[NAVI] = "readLeft" => aim = "left"
        /\ pc[NAVI] \in {"readCenter", "readAgain"} => aim = "center"
        /\ pc[NAVI] = "readRight" => aim = "right"

(* Once Navigation_Task and Servo_Task are suspended (nav.c 250-252) and   *)
(* the motors stopped, a replay that starts again drives the motors alone, *)
(* and no motor both ways.                                                 *)
QuietAfterRetirement ==
    NAVI \in suspended /\ pc[HISTORY] \notin {"retireServo", "rest"} =>
        /\ SERVO \in suspended
        /\ ~({0, 1} \subseteq pwm) /\ ~({2, 3} \subseteq pwm)

(* SYSTEM_STATUS set to busy is to say that the system is not "free to     *)
(* receive new commands" (nav.c 603).  History_Task sets it (nav.c 247)    *)
(* before it drives, so while it drives no message should be taken up.     *)
NoNewCommandInReplay ==
    [][Replaying /\ pc[NAVI] = "pended" => pc'[NAVI] = "pended"]_vars

-----------------------------------------------------------------------------
(* The baton of module Baton, as the tasks' state shows it. *)

holder ==
    IF ~NaviIdle THEN "handled"
    ELSE IF queue # <<>> \/ Delivered THEN "posted"
    ELSE IF ServoHolds THEN "claimed"
    ELSE IF SYSTEM_STATUS = "FREE" THEN "free" ELSE "kept"

command ==
    CASE holder = "handled" -> status
      [] holder = "posted" -> IF Delivered THEN mail[NAVI] ELSE Head(queue)
      [] OTHER -> "none"

B == INSTANCE Baton WITH Command <- Message, NoCommand <- "none"

(* Every step of the tasks moves the baton as Baton allows, or leaves it. *)
BatonSpec == B!Spec

-----------------------------------------------------------------------------
(* Fairness.  The tick interrupt keeps coming, so every delay ends; a task *)
(* that is again and again the one to run gets on with its next step,      *)
(* though the encoder task and the tick interrupt it; a wheel that is      *)
(* driven gets there in the end.                                           *)

Wakes(t) == Tick /\ t \in delayed /\ t \notin delayed'

NaviMoves == \E m \in Movement : MotorDone(NAVI, m)

FairSpec ==
    /\ Spec
    /\ WF_vars(Encoder_Task)
    /\ WF_vars(Wakes(NAVI)) /\ SF_vars(Navigation_Task)
    /\ WF_vars(Wakes(SERVO)) /\ SF_vars(Servo_Task)
    /\ SF_vars(NaviMoves)

(* Every message is handled to the end: Navigation_Task comes back to      *)
(* OSQPend, unless History_Task retires it.                                *)
HandlerReturns == ~NaviIdle ~> NaviIdle \/ NAVI \in suspended

(* A servo task that has found the system free posts its command: it is    *)
(* not parked or starved with the claim in hand.                           *)
ClaimIsPosted ==
    ServoHolds ~> holder \in {"posted", "handled"} \/ NAVI \in suspended
=============================================================================
