---------------------------- MODULE RoverProofs -----------------------------
(***************************************************************************)
(* Proofs about Rover for every queue size, every set of sensor levels and *)
(* every threshold: its types, that one command at a time is under way,    *)
(* which needs no scheduling argument and so holds whatever the priorities *)
(* and the delays, and what the suspended servo task is for.               *)
(***************************************************************************)
EXTENDS RoverProperties, TLAPS

(* Every service of the kernel, whoever calls it, leaves its state typed.   *)
LEMMA KernelTypes ==
    ASSUME TypeOK, NEW t \in Task, NEW m \in Message,
           \/ K!OSTimeDly(t)
           \/ \E S \in SUBSET delayed : K!OSTimeTick(S)
           \/ K!OSTaskSuspend(t) \/ K!OSTaskResume(t)
           \/ K!OSQPost(m) \/ K!OSQPend(t) \/ K!OSQReturn(t)
           \/ UNCHANGED kernel
    PROVE  K!TypeOK'
<1> USE DEF TypeOK, K!TypeOK
<1>1. CASE K!OSTimeDly(t)
  BY <1>1 DEF K!OSTimeDly
<1>2. CASE \E S \in SUBSET delayed : K!OSTimeTick(S)
  BY <1>2 DEF K!OSTimeTick
<1>3. CASE K!OSTaskSuspend(t) \/ K!OSTaskResume(t)
  BY <1>3 DEF K!OSTaskSuspend, K!OSTaskResume
<1>4. CASE K!OSQPost(m)
  <2>1. CASE pending # {}
    BY <1>4, <2>1 DEF K!OSQPost
  <2>2. CASE pending = {}
    <3>1. Append(queue, m) \in Seq(Message)
      OBVIOUS
    <3>2. QED
      BY <1>4, <2>2, <3>1 DEF K!OSQPost
  <2>3. QED
    BY <2>1, <2>2
<1>5. CASE K!OSQPend(t)
  <2>1. CASE queue # <<>>
    <3>1. Head(queue) \in Message /\ Tail(queue) \in Seq(Message)
      BY <2>1
    <3>2. QED
      BY <1>5, <2>1, <3>1 DEF K!OSQPend
  <2>2. CASE queue = <<>>
    BY <1>5, <2>2 DEF K!OSQPend
  <2>3. QED
    BY <2>1, <2>2
<1>6. CASE K!OSQReturn(t)
  BY <1>6 DEF K!OSQReturn
<1>7. CASE UNCHANGED kernel
  BY <1>7 DEF kernel
<1>8. QED
  BY <1>1, <1>2, <1>3, <1>4, <1>5, <1>6, <1>7

-----------------------------------------------------------------------------
(* Types.  Sweeper is a task that runs servoRotate and navigateFront,      *)
(* Mover one that runs the movements of motors.c.                          *)

Sweeper == {NAVI, SERVO}
Mover == {NAVI, HISTORY}

(* TypeOK without the kernel's part and pc. *)
DataOK ==
    /\ status \in Message
    /\ SYSTEM_STATUS \in {"FREE", "BUSY"}
    /\ FRONT_CLEAR \in BOOLEAN
    /\ LEFT_CLEAR \in BOOLEAN
    /\ RIGHT_CLEAR \in BOOLEAN
    /\ FRONT_SERVO \in [0..2 -> BOOLEAN]
    /\ aim \in {"left", "center", "right"}
    /\ pwm \subseteq 0..3
    /\ rolling \in BOOLEAN
    /\ leg \in BOOLEAN
    /\ reached \in BOOLEAN

(* The parts of TypeOK, which the lemmas below establish one by one.       *)
LEMMA TypeParts == TypeOK <=> K!TypeOK /\ pc \in [Task -> Label] /\ DataOK
BY DEF TypeOK, DataOK

(* A task that goes to a label leaves pc typed, the other tasks' alone.    *)
LEMMA GotoType ==
    ASSUME pc \in [Task -> Label], NEW t \in Task, NEW l \in Label, Goto(t, l)
    PROVE  /\ pc' \in [Task -> Label]
           /\ pc'[t] = l
           /\ \A u \in Task \ {t} : pc'[u] = pc[u]
BY DEF Goto

(* The labels of each task, and those of the movements, are labels.        *)
LEMMA LabelUnion ==
    /\ SweepLabel \subseteq Label /\ JudgeLabel \subseteq Label
    /\ NaviLabel \subseteq Label /\ HistoryLabel \subseteq Label
    /\ Movement \subseteq Label /\ {"boot", "count"} \subseteq Label
    /\ \A m \in Movement : Polling[m] \in Label
BY DEF Label

(* The state main() leaves is typed.                                       *)
LEMMA TypeInit == Init => TypeOK
<1> SUFFICES ASSUME Init PROVE TypeOK
  OBVIOUS
<1>1. K!TypeOK
  BY DEF Init, K!Init, K!TypeOK
<1>2. "boot" \in Label /\ "pend" \in Label
  BY LabelUnion DEF NaviLabel
<1>3. pc \in [Task -> Label]
  BY <1>2 DEF Init, Task, ENCODER, NAVI, SERVO, HISTORY
<1>4. DataOK
  BY DEF Init, DataOK, Message
<1>5. QED
  BY <1>1, <1>3, <1>4, TypeParts

(* Every step of every task, and the tick, keeps the types.                *)
LEMMA TypeStep == TypeOK /\ [Next]_vars => TypeOK'
<1> SUFFICES ASSUME TypeOK, [Next]_vars PROVE TypeOK'
  OBVIOUS
<1>a. K!TypeOK /\ pc \in [Task -> Label] /\ DataOK
  BY TypeParts
<1> SUFFICES K!TypeOK' /\ (pc \in [Task -> Label])' /\ DataOK'
  BY DEF TypeOK, DataOK
<1> USE DEF clears, route
<1>b. NAVI \in Task /\ SERVO \in Task /\ ENCODER \in Task /\ HISTORY \in Task
      /\ Sweeper \subseteq Task /\ Mover \subseteq Task
  BY DEF Task, Sweeper, Mover
<1>1. ASSUME NEW t \in Sweeper, servoRotate(t)
      PROVE  K!TypeOK' /\ (pc \in [Task -> Label])' /\ DataOK'
  <2>1. K!TypeOK'
    BY <1>1, <1>b, KernelTypes DEF servoRotate, AimLeft, ReadLeft, ReadCenter,
       ReadRight, ReadAgain, DelayThen, Message
  <2>2. \E l \in {"readLeft", "readCenter", "readRight", "readAgain", "judgeStop"} :
           Goto(t, l)
    BY <1>1 DEF servoRotate, AimLeft, ReadLeft, ReadCenter, ReadRight, ReadAgain,
       DelayThen
  <2>3. (pc \in [Task -> Label])'
    BY <2>2, <1>a, <1>b, GotoType, LabelUnion DEF SweepLabel, JudgeLabel
  <2>4. Sight[0] \subseteq BOOLEAN /\ Sight[1] \subseteq BOOLEAN
    BY RoverAssumption
  <2>5. DataOK'
    BY <1>1, <1>a, <2>4, ZenonT(60) DEF DataOK, servoRotate, AimLeft, ReadLeft, ReadCenter, ReadRight,
       ReadAgain
  <2>6. QED
    BY <2>1, <2>3, <2>5
<1>2. ASSUME NEW t \in Sweeper, navigateFront(t)
      PROVE  K!TypeOK' /\ (pc \in [Task -> Label])' /\ DataOK'
  <2> USE <1>2 DEF navigateFront
  <2>1. K!TypeOK'
    BY <1>b, KernelTypes DEF JudgeStop, JudgeFull, TestFree, Claim, M_allStop, Post,
       DelayThen, Message
  <2>2. \E l \in JudgeLabel \cup {AfterSweep(t)} : Goto(t, l)
    BY DEF JudgeStop, JudgeFull, TestFree, Claim, M_allStop, Post, DelayThen, JudgeLabel
  <2>3. AfterSweep(t) \in SweepLabel \cup NaviLabel
    BY DEF AfterSweep, SweepLabel, NaviLabel
  <2>4. (pc \in [Task -> Label])'
    BY <2>2, <2>3, <1>a, <1>b, GotoType, LabelUnion
  <2>5. DataOK'
    BY <1>a, ZenonT(60) DEF DataOK, JudgeStop, JudgeFull, TestFree, Claim, M_allStop, Post
  <2>6. QED
    BY <2>1, <2>4, <2>5
<1>3. ASSUME NEW t \in Mover, motorGo(t)
      PROVE  K!TypeOK' /\ (pc \in [Task -> Label])' /\ DataOK'
  <2>0. PICK m \in Movement : MotorStart(t, m) \/ MotorPoll(t, m) \/ MotorDone(t, m)
    BY <1>3 DEF motorGo
  <2>1. K!TypeOK'
    BY <2>0, <1>b, KernelTypes DEF MotorStart, MotorPoll, MotorDone, DelayThen, Message
  <2>2. AfterMotor(t, m) \in Label
    BY LabelUnion DEF AfterMotor, Movement, Pins, SweepLabel, HistoryLabel
  <2>3. (pc \in [Task -> Label])'
    BY <2>0, <2>2, <1>a, <1>b, GotoType, LabelUnion DEF MotorStart, MotorPoll,
       MotorDone, DelayThen
  <2>4. Pins[m] \subseteq 0..3
    BY DEF Movement, Pins
  <2>5. DataOK'
    BY <2>0, <2>4, <1>a DEF DataOK, MotorStart, MotorPoll, MotorDone
  <2>6. QED
    BY <2>1, <2>3, <2>5
<1>4. CASE Navigation_Task
  <2>1. CASE NaviPend \/ NaviReceive
    <3>1. K!TypeOK'
      BY <2>1, <1>b, KernelTypes DEF NaviPend, NaviReceive, Message
    <3>2. \E l \in NaviLabel : Goto(NAVI, l)
      BY <2>1 DEF NaviPend, NaviReceive, NaviLabel
    <3>3. (pc \in [Task -> Label])'
      BY <3>2, <1>a, <1>b, GotoType, LabelUnion
    <3>4. DataOK'
      BY <2>1, <1>a, <1>b DEF DataOK, NaviPend, NaviReceive, K!TypeOK, K!OSQReturn
    <3>5. QED
      BY <3>1, <3>3, <3>4
  <2>2. CASE NaviCloseLeg \/ NaviPark \/ NaviCenter \/ M_allStop(NAVI, "stop", "closeLeg")
    <3>1. K!TypeOK'
      BY <2>2, <1>b, KernelTypes DEF NaviCloseLeg, NaviPark, NaviCenter, M_allStop,
         DelayThen, Message
    <3>2. \E l \in NaviLabel : Goto(NAVI, l)
      BY <2>2 DEF NaviCloseLeg, NaviPark, NaviCenter, M_allStop, DelayThen, NaviLabel
    <3>3. (pc \in [Task -> Label])'
      BY <3>2, <1>a, <1>b, GotoType, LabelUnion
    <3>4. DataOK'
      BY <2>2, <1>a, RoverAssumption, ZenonT(60)
         DEF DataOK, NaviCloseLeg, NaviPark, NaviCenter, M_allStop
    <3>5. QED
      BY <3>1, <3>3, <3>4
  <2>3. CASE NaviDecide
    <3>1. PICK left, right \in Volt :
             /\ LEFT_CLEAR' = isSensorClear(left)
             /\ RIGHT_CLEAR' = isSensorClear(right)
             /\ Goto(NAVI, IF FRONT_CLEAR THEN "left" ELSE ChooseTurn(left, right))
      BY <2>3 DEF NaviDecide
    <3>2. ChooseTurn(left, right) \in Movement \cup SweepLabel /\ "left" \in SweepLabel
      BY DEF ChooseTurn, Movement, Pins, SweepLabel
    <3>3. (pc \in [Task -> Label])'
      BY <3>1, <3>2, <1>a, <1>b, GotoType, LabelUnion
    <3>4. K!TypeOK'
      BY <2>3, <1>b, KernelTypes DEF NaviDecide, Message
    <3>5. isSensorClear(left) \in BOOLEAN /\ isSensorClear(right) \in BOOLEAN
      BY DEF isSensorClear
    <3>6. DataOK'
      BY <2>3, <3>1, <3>5, <1>a DEF DataOK, NaviDecide
    <3>7. QED
      BY <3>3, <3>4, <3>6
  <2>4. CASE NaviVerdict \/ NaviCheck \/ Post(NAVI, "retry", "CLEAR", "pend")
    <3>1. K!TypeOK'
      BY <2>4, <1>b, KernelTypes DEF NaviVerdict, NaviCheck, Post, Release, DelayThen, Message
    <3>2. \E l \in NaviLabel \cup SweepLabel : Goto(NAVI, l)
      BY <2>4 DEF NaviVerdict, NaviCheck, Post, Release, DelayThen, NaviLabel, SweepLabel
    <3>3. (pc \in [Task -> Label])'
      BY <3>2, <1>a, <1>b, GotoType, LabelUnion
    <3>4. DataOK'
      BY <2>4, <1>a DEF DataOK, NaviVerdict, NaviCheck, Post, Release
    <3>5. QED
      BY <3>1, <3>3, <3>4
  <2>5. ASSUME NEW from \in NaviLabel, NEW then \in NaviLabel, NaviRamp(from, then)
        PROVE  K!TypeOK' /\ (pc \in [Task -> Label])' /\ DataOK'
    <3>1. K!TypeOK'
      BY <2>5, <1>b, KernelTypes DEF NaviRamp, DelayThen, Message
    <3>2. (pc \in [Task -> Label])'
      BY <2>5, <1>a, <1>b, GotoType, LabelUnion DEF NaviRamp, DelayThen
    <3>3. DataOK'
      BY <2>5, <1>a DEF DataOK, NaviRamp, Pins
    <3>4. QED
      BY <3>1, <3>2, <3>3
  <2>6. QED
    BY <1>1, <1>2, <1>3, <1>4, <2>1, <2>2, <2>3, <2>4, <2>5
       DEF Navigation_Task, Sweeper, Mover, NaviLabel
<1>5. CASE Servo_Task
  <2>1. CASE ServoBoot
    <3>1. K!TypeOK'
      BY <2>1, <1>b, KernelTypes DEF ServoBoot, DelayThen, Message
    <3>2. (pc \in [Task -> Label])'
      BY <2>1, <1>a, <1>b, GotoType, LabelUnion DEF ServoBoot, DelayThen, SweepLabel
    <3>3. DataOK'
      BY <2>1, <1>a DEF DataOK, ServoBoot
    <3>4. QED
      BY <3>1, <3>2, <3>3
  <2>2. QED
    BY <1>1, <1>2, <1>5, <2>1 DEF Servo_Task, Sweeper
<1>6. CASE Encoder_Task
  <2>1. K!TypeOK'
    BY <1>6, <1>b, KernelTypes DEF Encoder_Task, EncoderCount, Sleep, DelayThen, Message
  <2>2. (pc \in [Task -> Label])'
    BY <1>6, <1>a, <1>b, GotoType, LabelUnion DEF Encoder_Task, EncoderCount, Sleep, DelayThen
  <2>3. DataOK'
    BY <1>6, <1>a DEF DataOK, Encoder_Task, EncoderCount, Sleep
  <2>4. QED
    BY <2>1, <2>2, <2>3
<1>7. CASE History_Task
  <2>1. CASE motorGo(HISTORY)
    BY <2>1, <1>3 DEF Mover
  <2>2. CASE ~ motorGo(HISTORY)
    <3> USE <1>7, <2>2 DEF History_Task
    <3>1. K!TypeOK'
      BY <1>b, KernelTypes DEF Sleep, HistoryEval, Claim, M_allStop, HistoryStep, Retire,
         DelayThen, Message
    <3>2. \E l \in HistoryLabel \cup Movement : Goto(HISTORY, l)
      BY RoverAssumption DEF Sleep, HistoryEval, Claim, M_allStop, HistoryStep, Retire,
         DelayThen, HistoryLabel, Movement, Pins
    <3>3. (pc \in [Task -> Label])'
      BY <3>2, <1>a, <1>b, GotoType, LabelUnion
    <3>4. DataOK'
      BY <1>a, ZenonT(60) DEF DataOK, Sleep, HistoryEval, Claim, M_allStop, HistoryStep, Retire
    <3>5. QED
      BY <3>1, <3>3, <3>4
  <2>3. QED
    BY <2>1, <2>2
<1>8. CASE Tick
  <2>1. K!TypeOK'
    BY <1>8, <1>b, KernelTypes DEF Tick, Message
  <2>2. QED
    BY <1>8, <1>a, <2>1 DEF DataOK, Tick
<1>9. CASE UNCHANGED vars
  BY <1>9, <1>a DEF DataOK, vars, kernel, K!TypeOK
<1>10. QED
  BY <1>4, <1>5, <1>6, <1>7, <1>8, <1>9 DEF Next

(* Types: whatever order the tasks run in. *)
THEOREM TypeCorrect == Spec => []TypeOK
BY TypeInit, TypeStep, PTL DEF Spec

-----------------------------------------------------------------------------
(* One command at a time. *)

Poll == {Polling[m] : m \in Movement}

ClaimLabel == {"claimClear", "postClear", "stopBlocked", "claimBlocked", "postBlocked"}

(* Where each task can be.  Navigation_Task is never at a label of         *)
(* navigateFront that follows a successful test of SYSTEM_STATUS.          *)
Places ==
    /\ pc[SERVO] \in {"boot"} \cup SweepLabel \cup JudgeLabel
    /\ pc[NAVI] \in NaviLabel \cup Movement \cup Poll \cup SweepLabel
                    \cup (JudgeLabel \ ClaimLabel)
    /\ pc[HISTORY] \in {"boot"} \cup HistoryLabel \cup Movement \cup Poll
    /\ pc[ENCODER] \in {"boot", "count"}

(* Navigation_Task alone waits for messages, and it waits in OSQPend.      *)
OnlyNaviWaits ==
    /\ pending \subseteq {NAVI}
    /\ pc[NAVI] = "pended" <=> NAVI \in pending \/ Delivered
    /\ NAVI \in pending => ~Delivered /\ queue = <<>>

PostsWhenBusy == pc[SERVO] \in {"postClear", "postBlocked"} => SYSTEM_STATUS = "BUSY"

(* The inductive invariant behind OneCommand.                              *)
TokenInv == OnlyNaviWaits /\ PostsWhenBusy /\ OneCommand

-----------------------------------------------------------------------------
(* The tasks are four different ones.                                      *)
LEMMA TaskNames ==
    /\ NAVI \in Task /\ SERVO \in Task /\ ENCODER \in Task /\ HISTORY \in Task
    /\ NAVI # SERVO /\ NAVI # ENCODER /\ NAVI # HISTORY
    /\ SERVO # ENCODER /\ SERVO # HISTORY /\ ENCODER # HISTORY
BY DEF Task, NAVI, SERVO, ENCODER, HISTORY

(* A step that leaves the queue and SYSTEM_STATUS alone, and takes neither *)
(* task across the boundary of its part of the protocol.                   *)
LEMMA TokenFrame ==
    ASSUME TokenInv,
           UNCHANGED <<pending, queue, mail, SYSTEM_STATUS>>,
           \/ pc'[NAVI] = pc[NAVI]
           \/ ~NaviIdle /\ pc'[NAVI] \notin {"pend", "pended"},
           \/ pc'[SERVO] = pc[SERVO]
           \/ pc'[SERVO] \notin ClaimLabel
           \/ ServoHolds /\ pc'[SERVO] \notin {"postClear", "postBlocked"}
    PROVE  TokenInv'
BY DEF TokenInv, OnlyNaviWaits, PostsWhenBusy, OneCommand, NaviIdle, ServoHolds,
       Delivered, ClaimLabel

(* Delays, ticks, suspension and resumption do not touch the queue.        *)
LEMMA QuietServices ==
    ASSUME NEW t,
           \/ K!OSTimeDly(t)
           \/ \E S \in SUBSET delayed : K!OSTimeTick(S)
           \/ K!OSTaskSuspend(t) \/ K!OSTaskResume(t)
           \/ UNCHANGED kernel
    PROVE  UNCHANGED <<pending, queue, mail>>
BY DEF K!OSTimeDly, K!OSTimeTick, K!OSTaskSuspend, K!OSTaskResume, kernel

(* Labels of different parts of the program are different.                 *)
LEMMA LabelsApart ==
    /\ {"pend", "pended"} \cap (Movement \cup Poll \cup SweepLabel \cup JudgeLabel) = {}
    /\ ClaimLabel \cap (Movement \cup Poll \cup SweepLabel \cup NaviLabel \cup {"boot"}) = {}
    /\ "judgeStop" \in JudgeLabel \ ClaimLabel
    /\ {"verdict", "retry"} \subseteq NaviLabel \ {"pend", "pended"}
    /\ "left" \in SweepLabel
BY DEF Movement, Poll, Polling, Pins, SweepLabel, JudgeLabel, NaviLabel, ClaimLabel

(* While Navigation_Task handles a message the system is busy with it.     *)
LEMMA BusyWhileHandling ==
    TypeOK /\ TokenInv /\ ~NaviIdle =>
        /\ SYSTEM_STATUS = "BUSY" /\ ~ServoHolds /\ queue = <<>> /\ ~Delivered
        /\ pending = {}
BY DEF TypeOK, TokenInv, OneCommand, OnlyNaviWaits, NaviIdle

Inv == TypeOK /\ Places /\ TokenInv

(* servoRotate, in either task.                                            *)
LEMMA SweepStep ==
    ASSUME Inv, NEW t \in Sweeper, servoRotate(t)
    PROVE  Places' /\ TokenInv'
<1> USE DEF Inv
<1>1. UNCHANGED <<pending, queue, mail>>
  BY QuietServices DEF servoRotate, AimLeft, ReadLeft, ReadCenter, ReadRight, ReadAgain,
     DelayThen, kernel
<1>2. UNCHANGED SYSTEM_STATUS
  BY DEF servoRotate, AimLeft, ReadLeft, ReadCenter, ReadRight, ReadAgain
<1>3. PICK l \in {"readLeft", "readCenter", "readRight", "readAgain", "judgeStop"} :
         Goto(t, l)
  BY DEF servoRotate, AimLeft, ReadLeft, ReadCenter, ReadRight, ReadAgain, DelayThen
<1>4. pc[t] \in SweepLabel
  BY DEF servoRotate, AimLeft, ReadLeft, ReadCenter, ReadRight, ReadAgain, At, SweepLabel
<1>5. l \in SweepLabel \cup (JudgeLabel \ ClaimLabel)
  BY <1>3 DEF SweepLabel, JudgeLabel, ClaimLabel
<1>6. pc'[t] = l /\ \A u \in Task \ {t} : pc'[u] = pc[u]
  BY <1>3, <1>5, GotoType, LabelUnion, TaskNames DEF TypeOK, Sweeper
<1>7. Places'
  BY <1>5, <1>6, TaskNames DEF Places, Sweeper
<1>8. TokenInv'
  <2>1. CASE t = NAVI
    <3>1. ~NaviIdle /\ pc'[NAVI] \notin {"pend", "pended"} /\ pc'[SERVO] = pc[SERVO]
      BY <1>4, <1>5, <1>6, <2>1, LabelsApart, TaskNames DEF NaviIdle
    <3>2. QED
      BY <1>1, <1>2, <3>1, TokenFrame
  <2>2. CASE t = SERVO
    <3>1. pc'[NAVI] = pc[NAVI] /\ pc'[SERVO] \notin ClaimLabel
      BY <1>5, <1>6, <2>2, LabelsApart, TaskNames
    <3>2. QED
      BY <1>1, <1>2, <3>1, TokenFrame
  <2>3. QED
    BY <2>1, <2>2 DEF Sweeper
<1>9. QED
  BY <1>7, <1>8


(* navigateFront in Navigation_Task: it only updates FRONT_CLEAR.          *)
LEMMA NaviJudgeStep ==
    ASSUME Inv, navigateFront(NAVI)
    PROVE  Places' /\ TokenInv'
<1> USE DEF Inv
<1>1. pc[NAVI] \in JudgeLabel
  BY DEF navigateFront, JudgeStop, JudgeFull, TestFree, Claim, M_allStop, Post, At,
     JudgeLabel
<1>2. pc[NAVI] \in JudgeLabel \ ClaimLabel
  BY <1>1, LabelsApart DEF Places, NaviLabel, Movement, Poll, Polling, Pins, SweepLabel,
     JudgeLabel, ClaimLabel
<1>3. ~NaviIdle
  BY <1>2, LabelsApart DEF NaviIdle
<1>4. SYSTEM_STATUS = "BUSY"
  BY <1>3, BusyWhileHandling
<1>5. JudgeStop(NAVI) \/ JudgeFull(NAVI) \/ TestFree(NAVI, "testClear", "claimClear")
      \/ TestFree(NAVI, "testBlocked", "stopBlocked")
  BY <1>2 DEF navigateFront, Claim, M_allStop, Post, At, ClaimLabel
<1>6. UNCHANGED kernel /\ UNCHANGED SYSTEM_STATUS
  BY <1>5 DEF JudgeStop, JudgeFull, TestFree
<1>7. PICK l \in {"judgeFull", "testClear", "testBlocked", "verdict", "retry"} :
         Goto(NAVI, l)
  BY <1>4, <1>5, TaskNames DEF JudgeStop, JudgeFull, TestFree, AfterSweep
<1>8. l \in (JudgeLabel \ ClaimLabel) \cup (NaviLabel \ {"pend", "pended"})
  BY <1>7 DEF NaviLabel, JudgeLabel, ClaimLabel
<1>9. pc'[NAVI] = l /\ \A u \in Task \ {NAVI} : pc'[u] = pc[u]
  BY <1>7, <1>8, GotoType, LabelUnion, TaskNames DEF TypeOK
<1>10. Places'
  BY <1>8, <1>9, TaskNames DEF Places
<1>11. pc'[NAVI] \notin {"pend", "pended"} /\ pc'[SERVO] = pc[SERVO]
  BY <1>8, <1>9, LabelsApart, TaskNames
<1>12. TokenInv'
  BY <1>3, <1>6, <1>11, TokenFrame DEF kernel
<1>13. QED
  BY <1>10, <1>12

(* A message posted while the system is busy and nothing is under way is   *)
(* received by Navigation_Task at once, or is the only one in the queue.   *)
LEMMA PostAlone ==
    ASSUME TypeOK, OnlyNaviWaits, queue = <<>>, ~Delivered, NEW m \in Message, K!OSQPost(m)
    PROVE  \/ /\ pending' = {} /\ queue' = <<>>
              /\ mail'[NAVI] = m /\ pc[NAVI] = "pended"
           \/ /\ pending' = {} /\ pending = {}
              /\ queue' = <<m>> /\ mail' = mail /\ pc[NAVI] # "pended"
<1>1. CASE pending # {}
  <2>1. pending = {NAVI}
    BY <1>1 DEF OnlyNaviWaits
  <2>2. \A t \in K!MostUrgent(pending) : t = NAVI
    BY <2>1 DEF K!MostUrgent
  <2>3. pending' = {} /\ queue' = <<>> /\ mail' = [mail EXCEPT ![NAVI] = m]
    BY <2>1, <2>2 DEF K!OSQPost
  <2>4. mail'[NAVI] = m
    BY <2>3, TaskNames DEF TypeOK, K!TypeOK
  <2>5. QED
    BY <2>1, <2>3, <2>4 DEF OnlyNaviWaits
<1>2. CASE pending = {}
  <2>1. Len(queue) < QUEUE_SIZE /\ Append(queue, m) = <<m>>
    BY RoverAssumption
  <2>2. QED
    BY <1>2, <2>1 DEF K!OSQPost, K!MostUrgent, OnlyNaviWaits
<1>3. QED
  BY <1>1, <1>2

(* navigateFront in Servo_Task.                                            *)
LEMMA ServoJudgeStep ==
    ASSUME Inv, navigateFront(SERVO)
    PROVE  Places' /\ TokenInv'
<1> USE DEF Inv
<1>1. PICK l \in JudgeLabel \cup {"left"} : Goto(SERVO, l)
  BY DEF navigateFront, JudgeStop, JudgeFull, TestFree, Claim, M_allStop, Post,
     DelayThen, AfterSweep, JudgeLabel
<1>2. pc'[SERVO] = l /\ \A u \in Task \ {SERVO} : pc'[u] = pc[u]
  BY <1>1, GotoType, LabelUnion, LabelsApart, TaskNames DEF TypeOK
<1>3. Places'
  BY <1>2, LabelsApart, TaskNames DEF Places
<1>4. pc'[NAVI] = pc[NAVI]
  BY <1>2, TaskNames
<1>5. CASE JudgeStop(SERVO) \/ JudgeFull(SERVO)
  <2>1. UNCHANGED kernel /\ UNCHANGED SYSTEM_STATUS
    BY <1>5 DEF JudgeStop, JudgeFull
  <2>2. Goto(SERVO, "judgeFull") \/ Goto(SERVO, "testClear") \/ Goto(SERVO, "testBlocked")
        \/ Goto(SERVO, "left")
    BY <1>5 DEF JudgeStop, JudgeFull, AfterSweep
  <2>3. pc'[SERVO] \notin ClaimLabel
    BY <2>2, TaskNames DEF Goto, ClaimLabel, TypeOK
  <2>4. QED
    BY <1>3, <1>4, <2>1, <2>3, TokenFrame DEF kernel
<1>6. ASSUME NEW from, NEW then \in {"claimClear", "stopBlocked"}, TestFree(SERVO, from, then)
      PROVE  TokenInv'
  <2>1. UNCHANGED kernel /\ UNCHANGED SYSTEM_STATUS
    BY <1>6 DEF TestFree
  <2>2. CASE SYSTEM_STATUS = "FREE"
    <3>1. pc'[SERVO] = then
      BY <1>6, <2>2, TaskNames DEF TestFree, Goto, TypeOK
    <3>2. QED
      BY <1>4, <2>1, <2>2, <3>1 DEF kernel, TokenInv, OnlyNaviWaits, PostsWhenBusy,
         OneCommand, NaviIdle, ServoHolds, Delivered
  <2>3. CASE SYSTEM_STATUS # "FREE"
    <3>1. pc'[SERVO] = "left"
      BY <1>6, <2>3, TaskNames DEF TestFree, Goto, TypeOK, AfterSweep
    <3>2. QED
      BY <1>4, <2>1, <3>1, TokenFrame DEF kernel, ClaimLabel
  <2>4. QED
    BY <2>2, <2>3
<1>7. ASSUME NEW from \in {"claimClear", "claimBlocked"}, NEW then \in {"postClear", "postBlocked"},
             Claim(SERVO, from, then)
      PROVE  TokenInv'
  <2>1. pc[SERVO] = from /\ pc'[SERVO] = then
    BY <1>7, TaskNames DEF Claim, At, Goto, TypeOK
  <2>2. UNCHANGED kernel /\ SYSTEM_STATUS' = "BUSY"
    BY <1>7 DEF Claim
  <2>3. ServoHolds /\ ServoHolds'
    BY <2>1 DEF ServoHolds
  <2>4. QED
    BY <1>4, <2>1, <2>2, <2>3 DEF kernel, TokenInv, OnlyNaviWaits, PostsWhenBusy,
       OneCommand, NaviIdle, Delivered
<1>8. CASE M_allStop(SERVO, "stopBlocked", "claimBlocked")
  <2>1. pc[SERVO] = "stopBlocked" /\ pc'[SERVO] = "claimBlocked"
    BY <1>8, TaskNames DEF M_allStop, At, DelayThen, Goto, TypeOK
  <2>2. UNCHANGED <<pending, queue, mail, SYSTEM_STATUS>>
    BY <1>8, QuietServices DEF M_allStop, DelayThen
  <2>3. QED
    BY <1>3, <1>4, <2>1, <2>2, TokenFrame DEF ServoHolds
<1>9. ASSUME NEW from \in {"postClear", "postBlocked"}, NEW m \in Message,
             Post(SERVO, from, m, AfterSweep(SERVO))
      PROVE  TokenInv'
  <2>1. pc[SERVO] = from /\ pc'[SERVO] = "left"
    BY <1>9, TaskNames DEF Post, At, Goto, TypeOK, AfterSweep
  <2>2. SYSTEM_STATUS' = "BUSY" /\ K!OSQPost(m)
    BY <1>9, <2>1 DEF Post, TokenInv, PostsWhenBusy
  <2>3. NaviIdle /\ queue = <<>> /\ ~Delivered
    BY <2>1 DEF TokenInv, OneCommand, ServoHolds
  <2>4. \/ /\ pending' = {} /\ queue' = <<>>
           /\ mail'[NAVI] = m /\ pc[NAVI] = "pended"
        \/ /\ pending' = {} /\ pending = {}
           /\ queue' = <<m>> /\ mail' = mail /\ pc[NAVI] # "pended"
    BY <2>2, <2>3, PostAlone DEF TokenInv
  <2>5. m # "none"
    BY DEF Message
  <2>6. PostsWhenBusy' /\ ~ServoHolds' /\ SYSTEM_STATUS' # "FREE"
    BY <2>1, <2>2 DEF PostsWhenBusy, ServoHolds
  <2>7. CASE /\ pending' = {} /\ queue' = <<>>
             /\ mail'[NAVI] = m /\ pc[NAVI] = "pended"
    BY <1>4, <2>5, <2>6, <2>7 DEF TokenInv, OnlyNaviWaits, OneCommand, Delivered
  <2>8. CASE /\ pending' = {} /\ pending = {}
             /\ queue' = <<m>> /\ mail' = mail /\ pc[NAVI] # "pended"
    <3>1. Len(queue') <= 1
      BY <2>8
    <3>2. pc'[NAVI] = "pend" /\ ~Delivered'
      BY <1>4, <2>3, <2>8 DEF NaviIdle, Delivered
    <3>3. QED
      BY <2>6, <2>8, <3>1, <3>2 DEF TokenInv, OnlyNaviWaits, OneCommand
  <2>9. QED
    BY <2>4, <2>7, <2>8
<1>10. QED
  BY <1>3, <1>5, <1>6, <1>7, <1>8, <1>9 DEF navigateFront, Message


(* The movements, in either task that makes them.                          *)
LEMMA MotorStep ==
    ASSUME Inv, NEW t \in Mover, motorGo(t)
    PROVE  Places' /\ TokenInv'
<1> USE DEF Inv
<1>1. PICK m \in Movement : MotorStart(t, m) \/ MotorPoll(t, m) \/ MotorDone(t, m)
  BY DEF motorGo
<1>2. UNCHANGED <<pending, queue, mail, SYSTEM_STATUS>>
  BY <1>1, QuietServices DEF MotorStart, MotorPoll, MotorDone, DelayThen, kernel
<1>3. pc[t] \in Movement \cup Poll
  BY <1>1 DEF MotorStart, MotorPoll, MotorDone, At, Poll
<1>4. AfterMotor(t, m) \in IF t = NAVI THEN {"left", "turn180"} ELSE {"replay", "halt"}
  BY DEF AfterMotor
<1>5. PICK l \in Movement \cup Poll \cup {AfterMotor(t, m)} : Goto(t, l)
  BY <1>1 DEF MotorStart, MotorPoll, MotorDone, DelayThen, Poll
<1>6. l \in Movement \cup Poll \cup IF t = NAVI THEN SweepLabel ELSE HistoryLabel
  BY <1>4, <1>5 DEF Movement, Pins, SweepLabel, HistoryLabel
<1>7. pc'[t] = l /\ \A u \in Task \ {t} : pc'[u] = pc[u]
  BY <1>5, <1>6, GotoType, LabelUnion, TaskNames DEF TypeOK, Mover, Poll
<1>8. Places'
  BY <1>6, <1>7, TaskNames DEF Places, Mover
<1>9. pc'[SERVO] = pc[SERVO]
  BY <1>7, TaskNames DEF Mover
<1>10. TokenInv'
  <2>1. CASE t = NAVI
    BY <1>2, <1>3, <1>6, <1>7, <1>9, <2>1, LabelsApart, TokenFrame DEF NaviIdle
  <2>2. CASE t = HISTORY
    BY <1>2, <1>7, <1>9, <2>2, TaskNames, TokenFrame
  <2>3. QED
    BY <2>1, <2>2 DEF Mover
<1>11. QED
  BY <1>8, <1>10

(* A step of Navigation_Task inside the handling of a message that leaves  *)
(* the queue and SYSTEM_STATUS alone.                                      *)
LEMMA NaviStep ==
    ASSUME Inv, ~NaviIdle, UNCHANGED <<pending, queue, mail, SYSTEM_STATUS>>,
           NEW l \in (NaviLabel \ {"pend", "pended"}) \cup Movement \cup SweepLabel,
           Goto(NAVI, l)
    PROVE  Places' /\ TokenInv'
<1>1. pc'[NAVI] = l /\ \A u \in Task \ {NAVI} : pc'[u] = pc[u]
  BY GotoType, LabelUnion, TaskNames DEF Inv, TypeOK
<1>2. Places'
  BY <1>1, TaskNames DEF Inv, Places
<1>3. pc'[NAVI] \notin {"pend", "pended"} /\ pc'[SERVO] = pc[SERVO]
  BY <1>1, LabelsApart, TaskNames
<1>4. QED
  BY <1>2, <1>3, TokenFrame DEF Inv

(* Navigation_Task comes back to OSQPend: it has freed the system, or has  *)
(* put a message back while it is busy.                                    *)
LEMMA NaviLoops ==
    ASSUME Inv, ~NaviIdle, Goto(NAVI, "pend"),
           \/ UNCHANGED <<pending, queue, mail>>
           \/ UNCHANGED SYSTEM_STATUS /\ \E m \in Message : K!OSQPost(m)
    PROVE  Places' /\ TokenInv'
<1> USE DEF Inv
<1>1. pc'[NAVI] = "pend" /\ \A u \in Task \ {NAVI} : pc'[u] = pc[u]
  BY GotoType, LabelUnion, TaskNames DEF TypeOK, NaviLabel
<1>2. Places'
  BY <1>1, TaskNames DEF Places, NaviLabel
<1>3. pc'[SERVO] = pc[SERVO]
  BY <1>1, TaskNames
<1>4. /\ SYSTEM_STATUS = "BUSY" /\ ~ServoHolds /\ queue = <<>> /\ ~Delivered
      /\ pending = {} /\ pc[NAVI] # "pended"
  BY BusyWhileHandling DEF NaviIdle
<1>5. ~ServoHolds' /\ PostsWhenBusy'
  BY <1>3, <1>4 DEF ServoHolds, PostsWhenBusy
<1>6. CASE UNCHANGED <<pending, queue, mail>>
  BY <1>1, <1>2, <1>4, <1>5, <1>6 DEF TokenInv, OnlyNaviWaits, OneCommand, NaviIdle, Delivered
<1>7. CASE UNCHANGED SYSTEM_STATUS /\ \E m \in Message : K!OSQPost(m)
  <2>1. PICK m \in Message : K!OSQPost(m)
    BY <1>7
  <2>2. pending' = {} /\ queue' = <<m>> /\ mail' = mail
    BY <1>4, <2>1, PostAlone DEF TokenInv
  <2>3. Len(queue') <= 1
    BY <2>2
  <2>4. SYSTEM_STATUS' # "FREE" /\ ~Delivered'
    BY <1>4, <1>7, <2>2 DEF Delivered
  <2>5. QED
    BY <1>1, <1>2, <1>5, <2>2, <2>3, <2>4 DEF TokenInv, OnlyNaviWaits, OneCommand
<1>8. QED
  BY <1>6, <1>7


(* The two ends of OSQPend.                                                *)
LEMMA NaviTakes ==
    ASSUME Inv, NaviPend \/ NaviReceive
    PROVE  Places' /\ TokenInv'
<1> USE DEF Inv
<1>1. CASE NaviPend
  <2>1. pc[NAVI] = "pend" /\ pc'[NAVI] = "pended" /\ \A u \in Task \ {NAVI} : pc'[u] = pc[u]
    BY <1>1, GotoType, LabelUnion, TaskNames DEF NaviPend, At, TypeOK, NaviLabel
  <2>2. Places'
    BY <2>1, TaskNames DEF Places, NaviLabel
  <2>3. pc'[SERVO] = pc[SERVO] /\ UNCHANGED SYSTEM_STATUS
    BY <1>1, <2>1, TaskNames DEF NaviPend
  <2>4. ~Delivered /\ pending = {}
    BY <2>1 DEF TokenInv, OnlyNaviWaits
  <2>5. (ServoHolds' <=> ServoHolds) /\ PostsWhenBusy'
    BY <2>3 DEF ServoHolds, PostsWhenBusy, TokenInv
  <2>6. CASE queue = <<>>
    <3>1. pending' = {NAVI} /\ queue' = <<>> /\ mail' = mail
      BY <1>1, <2>4, <2>6 DEF NaviPend, K!OSQPend
    <3>2. QED
      BY <2>1, <2>2, <2>3, <2>4, <2>5, <2>6, <3>1 DEF TokenInv, OnlyNaviWaits, OneCommand,
         NaviIdle, Delivered
  <2>7. CASE queue # <<>>
    <3>1. Head(queue) \in Message /\ Tail(queue) = <<>>
      BY <2>7 DEF TypeOK, K!TypeOK, TokenInv, OneCommand
    <3>2. pending' = {} /\ queue' = <<>> /\ Delivered'
      BY <1>1, <2>4, <2>7, <3>1, TaskNames DEF NaviPend, K!OSQPend, TypeOK, K!TypeOK,
         Delivered, Message
    <3>3. SYSTEM_STATUS # "FREE" /\ ~ServoHolds
      BY <2>7 DEF TokenInv, OneCommand
    <3>4. QED
      BY <2>1, <2>2, <2>3, <2>5, <3>2, <3>3 DEF TokenInv, OnlyNaviWaits, OneCommand
  <2>8. QED
    BY <2>6, <2>7
<1>2. CASE NaviReceive
  <2>1. PICK l \in {"stop", "ramp1"} : Goto(NAVI, l)
    BY <1>2 DEF NaviReceive
  <2>2. pc'[NAVI] = l /\ \A u \in Task \ {NAVI} : pc'[u] = pc[u]
    BY <2>1, GotoType, LabelUnion, TaskNames DEF TypeOK, NaviLabel
  <2>3. Places'
    BY <2>1, <2>2, TaskNames DEF Places, NaviLabel
  <2>4. pc'[SERVO] = pc[SERVO] /\ UNCHANGED SYSTEM_STATUS
    BY <1>2, <2>2, TaskNames DEF NaviReceive
  <2>5. Delivered
    BY <1>2 DEF NaviReceive, K!OSQReturn, Delivered
  <2>6. SYSTEM_STATUS # "FREE" /\ ~ServoHolds /\ queue = <<>> /\ pending = {}
    BY <2>5 DEF TokenInv, OnlyNaviWaits, OneCommand
  <2>7. pending' = {} /\ queue' = <<>> /\ ~Delivered'
    BY <1>2, <2>6, TaskNames DEF NaviReceive, K!OSQReturn, Delivered, TypeOK, K!TypeOK
  <2>8. QED
    BY <2>1, <2>2, <2>3, <2>4, <2>6, <2>7 DEF TokenInv, OnlyNaviWaits, OneCommand,
       PostsWhenBusy, ServoHolds
<1>3. QED
  BY <1>1, <1>2

(* Every step keeps the places and the token.                              *)
LEMMA TokenStep == Inv /\ [Next]_vars => Places' /\ TokenInv'
<1> SUFFICES ASSUME Inv, [Next]_vars PROVE Places' /\ TokenInv'
  OBVIOUS
<1>1. CASE Navigation_Task
  <2>1. CASE NaviPend \/ NaviReceive
    BY <2>1, NaviTakes
  <2>2. CASE servoRotate(NAVI)
    BY <2>2, SweepStep DEF Sweeper
  <2>3. CASE navigateFront(NAVI)
    BY <2>3, NaviJudgeStep
  <2>4. CASE motorGo(NAVI)
    BY <2>4, MotorStep DEF Mover
  <2>5. CASE M_allStop(NAVI, "stop", "closeLeg") \/ NaviCloseLeg \/ NaviPark \/ NaviCenter
    <3>1. ~NaviIdle
      BY <2>5 DEF M_allStop, NaviCloseLeg, NaviPark, NaviCenter, At, NaviIdle
    <3>2. UNCHANGED <<pending, queue, mail, SYSTEM_STATUS>>
      BY <2>5, QuietServices DEF M_allStop, NaviCloseLeg, NaviPark, NaviCenter, DelayThen
    <3>3. \E l \in NaviLabel \ {"pend", "pended"} : Goto(NAVI, l)
      BY <2>5 DEF M_allStop, NaviCloseLeg, NaviPark, NaviCenter, DelayThen, NaviLabel
    <3>4. QED
      BY <3>1, <3>2, <3>3, NaviStep
  <2>6. CASE NaviDecide
    <3>1. ~NaviIdle
      BY <2>6 DEF NaviDecide, At, NaviIdle
    <3>2. UNCHANGED <<pending, queue, mail, SYSTEM_STATUS>>
      BY <2>6 DEF NaviDecide, kernel
    <3>3. \E l \in Movement \cup SweepLabel : Goto(NAVI, l)
      BY <2>6 DEF NaviDecide, ChooseTurn, Movement, Pins, SweepLabel
    <3>4. QED
      BY <3>1, <3>2, <3>3, NaviStep
  <2>7. ASSUME NEW from \in {"ramp1", "ramp2", "ramp3"},
               NEW then \in {"ramp2", "ramp3", "check"}, NaviRamp(from, then)
        PROVE  Places' /\ TokenInv'
    <3>1. ~NaviIdle
      BY <2>7 DEF NaviRamp, At, NaviIdle
    <3>2. UNCHANGED <<pending, queue, mail, SYSTEM_STATUS>>
      BY <2>7, QuietServices DEF NaviRamp, DelayThen
    <3>3. Goto(NAVI, then) /\ then \in NaviLabel \ {"pend", "pended"}
      BY <2>7 DEF NaviRamp, DelayThen, NaviLabel
    <3>4. QED
      BY <3>1, <3>2, <3>3, NaviStep
  <2>8. CASE NaviVerdict \/ NaviCheck \/ Post(NAVI, "retry", "CLEAR", "pend")
    <3>1. ~NaviIdle
      BY <2>8 DEF NaviVerdict, NaviCheck, Post, At, NaviIdle
    <3>2. CASE Goto(NAVI, "pend")
      <4>1. \/ UNCHANGED <<pending, queue, mail>>
            \/ UNCHANGED SYSTEM_STATUS /\ \E m \in Message : K!OSQPost(m)
        BY <2>8, QuietServices DEF NaviVerdict, NaviCheck, Post, Release, DelayThen, Message
      <4>2. QED
        BY <3>1, <3>2, <4>1, NaviLoops
    <3>3. CASE ~ Goto(NAVI, "pend")
      <4>1. Goto(NAVI, "left") /\ UNCHANGED <<pending, queue, mail, SYSTEM_STATUS>>
        BY <2>8, <3>3, QuietServices DEF NaviVerdict, NaviCheck, Post, Release, DelayThen
      <4>2. QED
        BY <3>1, <4>1, NaviStep DEF SweepLabel
    <3>4. QED
      BY <3>2, <3>3
  <2>9. QED
    BY <1>1, <2>1, <2>2, <2>3, <2>4, <2>5, <2>6, <2>7, <2>8 DEF Navigation_Task
<1>2. CASE Servo_Task
  <2>1. CASE ServoBoot
    <3>1. pc'[SERVO] = "left" /\ \A u \in Task \ {SERVO} : pc'[u] = pc[u]
      BY <2>1, GotoType, LabelUnion, TaskNames DEF ServoBoot, DelayThen, Inv, TypeOK, SweepLabel
    <3>2. UNCHANGED <<pending, queue, mail, SYSTEM_STATUS>>
      BY <2>1, QuietServices DEF ServoBoot, DelayThen
    <3>3. Places'
      BY <3>1, TaskNames DEF Inv, Places, SweepLabel
    <3>4. QED
      BY <3>1, <3>2, <3>3, TaskNames, TokenFrame DEF Inv, ClaimLabel
  <2>2. QED
    BY <1>2, <2>1, SweepStep, ServoJudgeStep DEF Servo_Task, Sweeper
<1>3. CASE Encoder_Task
  <2>1. UNCHANGED <<pending, queue, mail, SYSTEM_STATUS>> /\ Goto(ENCODER, "count")
    BY <1>3, QuietServices DEF Encoder_Task, Sleep, EncoderCount, DelayThen
  <2>2. pc'[ENCODER] = "count" /\ \A u \in Task \ {ENCODER} : pc'[u] = pc[u]
    BY <2>1, GotoType, LabelUnion, TaskNames DEF Inv, TypeOK
  <2>3. Places'
    BY <2>2, TaskNames DEF Inv, Places
  <2>4. QED
    BY <2>1, <2>2, <2>3, TaskNames, TokenFrame DEF Inv
<1>4. CASE History_Task
  <2>1. CASE motorGo(HISTORY)
    BY <2>1, MotorStep DEF Mover
  <2>2. CASE ~ motorGo(HISTORY)
    <3> USE <1>4, <2>2 DEF History_Task
    <3>1. UNCHANGED <<pending, queue, mail>>
      BY QuietServices DEF Sleep, HistoryEval, Claim, M_allStop, HistoryStep, Retire,
         DelayThen
    <3>2. UNCHANGED SYSTEM_STATUS \/ SYSTEM_STATUS' = "BUSY"
      BY DEF Sleep, HistoryEval, Claim, M_allStop, HistoryStep, Retire
    <3>3. PICK l \in HistoryLabel \cup Movement : Goto(HISTORY, l)
      BY RoverAssumption DEF Sleep, HistoryEval, Claim, M_allStop, HistoryStep, Retire,
         DelayThen, HistoryLabel, Movement, Pins
    <3>4. pc'[HISTORY] = l /\ \A u \in Task \ {HISTORY} : pc'[u] = pc[u]
      BY <3>3, GotoType, LabelUnion, TaskNames DEF Inv, TypeOK
    <3>5. Places'
      BY <3>4, TaskNames DEF Inv, Places
    <3>6. pc'[NAVI] = pc[NAVI] /\ pc'[SERVO] = pc[SERVO]
      BY <3>4, TaskNames
    <3>7. TokenInv'
      BY <3>1, <3>2, <3>6 DEF Inv, TokenInv, OnlyNaviWaits, PostsWhenBusy, OneCommand,
         NaviIdle, ServoHolds, Delivered
    <3>8. QED
      BY <3>5, <3>7
  <2>3. QED
    BY <2>1, <2>2
<1>5. CASE Tick
  <2>1. UNCHANGED <<pending, queue, mail, SYSTEM_STATUS, pc>>
    BY <1>5, QuietServices DEF Tick
  <2>2. Places'
    BY <2>1 DEF Inv, Places
  <2>3. QED
    BY <2>1, <2>2, TokenFrame DEF Inv
<1>6. CASE UNCHANGED vars
  <2>1. UNCHANGED <<pending, queue, mail, SYSTEM_STATUS, pc>>
    BY <1>6 DEF vars, kernel
  <2>2. Places'
    BY <2>1 DEF Inv, Places
  <2>3. QED
    BY <2>1, <2>2, TokenFrame DEF Inv
<1>7. QED
  BY <1>1, <1>2, <1>3, <1>4, <1>5, <1>6 DEF Next

(* The state main() leaves: nothing is under way and the system is free.   *)
LEMMA TokenInit == Init => Places /\ TokenInv
<1> SUFFICES ASSUME Init PROVE Places /\ TokenInv
  OBVIOUS
<1>1. /\ pc[NAVI] = "pend" /\ pc[SERVO] = "boot" /\ pc[HISTORY] = "boot"
      /\ pc[ENCODER] = "boot"
  BY DEF Init, NAVI, SERVO, HISTORY, ENCODER
<1>2. pending = {} /\ queue = <<>> /\ ~Delivered
  BY TaskNames DEF Init, K!Init, Delivered
<1>3. QED
  BY <1>1, <1>2 DEF Places, NaviLabel, TokenInv, OnlyNaviWaits, PostsWhenBusy, OneCommand,
     NaviIdle

(* The inductive invariant holds in every state.                           *)
THEOREM InvCorrect == Spec => []Inv
<1>1. Init => Inv
  BY TypeInit, TokenInit DEF Inv
<1>2. Inv /\ [Next]_vars => Inv'
  BY TypeStep, TokenStep DEF Inv
<1>3. QED
  BY <1>1, <1>2, PTL DEF Spec

(* One command at a time (nav.c 77, 353-368): at most one message is ever  *)
(* in MainQueue, and none is while the system is free or being claimed.    *)
THEOREM OneCommandAlways == Spec => []OneCommand
<1>1. Inv => OneCommand
  BY DEF Inv, TokenInv
<1>2. QED
  BY <1>1, InvCorrect, PTL

(* Navigation_Task never posts to its own queue from navigateFront.        *)
THEOREM NavScanOnlyUpdatesAlways == Spec => []NavScanOnlyUpdates
<1>1. Inv => NavScanOnlyUpdates
  BY BusyWhileHandling, LabelsApart DEF Inv, NavScanOnlyUpdates, NaviIdle
<1>2. QED
  BY <1>1, InvCorrect, PTL
-----------------------------------------------------------------------------
(***************************************************************************)
(* What the suspended servo task is for: while it is parked nothing but    *)
(* Navigation_Task changes FRONT_CLEAR, turns the servo or stops the       *)
(* motors, and whoever parks it will resume it.  From that: the motors are *)
(* driven by one movement at a time, and SYSTEM_STATUS, MainQueue and the  *)
(* two tasks that use them implement the baton of module Baton.            *)
(***************************************************************************)

Moves == Movement \cup Poll

BlockedLabel == {"stop", "closeLeg", "park", "center", "decide", "verdict"} \cup Moves

ClearLabel == {"ramp1", "ramp2", "ramp3", "check", "retry"}

(* Which message is being handled can be read off the place.               *)
StatusAtPlace ==
    /\ pc[NAVI] \in BlockedLabel => status = "BLOCKED"
    /\ pc[NAVI] \in ClearLabel => status = "CLEAR"

(* From the decision to the end of the movement the servo task is parked.  *)
Parked == pc[NAVI] \in {"center", "decide"} \cup Moves => SERVO \in suspended

(* History_Task retires Navigation_Task first.                             *)
RetiredFirst == pc[HISTORY] \in {"retireServo", "rest"} => NAVI \in suspended

ParkInv ==
    /\ StatusAtPlace
    /\ Parked
    /\ RetiredFirst
    /\ TurnsOnlyWhenBlocked
    /\ ParkedServoHasOwner
    /\ TurnTowardClearSide

-----------------------------------------------------------------------------
(* The labels of the movements.                                            *)
LEMMA MoveLabels ==
    /\ Movement = {"forward", "reverse", "turnLeft", "turnRight", "turn180"}
    /\ Poll = {"pollForward", "pollReverse", "pollLeft", "pollRight", "poll180"}
    /\ \A m \in Movement : Polling[m] \in Poll
<1>1. Movement = {"forward", "reverse", "turnLeft", "turnRight", "turn180"}
  BY DEF Movement, Pins
<1>2. Poll = {"pollForward", "pollReverse", "pollLeft", "pollRight", "poll180"}
  BY <1>1 DEF Poll, Polling
<1>3. QED
  BY <1>1, <1>2 DEF Poll

(* A task executes only while it is not suspended.                         *)
LEMMA ExecutesUnsuspended == \A t, l : At(t, l) => t \notin suspended /\ pc[t] = l
BY DEF At, K!Running, K!Ready

(* A step of t leaves the place of every other task.                       *)
LEMMA GotoOnly ==
    ASSUME TypeOK, NEW t \in Task, NEW l \in Label, Goto(t, l)
    PROVE  pc'[t] = l /\ \A u \in Task : u # t => pc'[u] = pc[u]
BY GotoType DEF TypeOK

(* What a step of a task other than Navigation_Task can change of what     *)
(* ParkInv is about.                                                       *)
OtherStep ==
    /\ pc'[NAVI] = pc[NAVI]
    /\ UNCHANGED <<status, LEFT_CLEAR, RIGHT_CLEAR>>
    /\ suspended \subseteq suspended'
    /\ SERVO \in suspended => FRONT_CLEAR' = FRONT_CLEAR
    /\ SERVO \in suspended => UNCHANGED <<queue, mail>>
    /\ SERVO \in suspended' /\ SERVO \notin suspended => NAVI \in suspended
    /\ RetiredFirst'
    /\ Replaying => Replaying'

(* Such a step keeps ParkInv.                                              *)
LEMMA OtherStepKeeps ==
    ASSUME Inv, ParkInv, OtherStep
    PROVE  ParkInv'
<1> USE DEF ParkInv, OtherStep
<1>1. StatusAtPlace'
  BY DEF StatusAtPlace
<1>2. Parked'
  BY DEF Parked
<1>3. TurnsOnlyWhenBlocked'
  BY DEF TurnsOnlyWhenBlocked, Parked, Moves, Poll
<1>4. TurnTowardClearSide'
  BY DEF TurnTowardClearSide
<1>5. ParkedServoHasOwner'
  <2> SUFFICES ASSUME SERVO \in suspended', ~Replaying'
               PROVE  (\/ ~NaviIdle /\ status = "BLOCKED"
                       \/ mail[NAVI] = "BLOCKED"
                       \/ queue = <<"BLOCKED">>)'
    BY DEF ParkedServoHasOwner
  <2>1. SERVO \in suspended /\ ~Replaying
    BY DEF Replaying
  <2>2. QED
    BY <2>1 DEF ParkedServoHasOwner, NaviIdle
<1>6. QED
  BY <1>1, <1>2, <1>3, <1>4, <1>5

(* Servo_Task, which executes only when it is not parked.                  *)
LEMMA ServoOther ==
    ASSUME Inv, ParkInv, Servo_Task
    PROVE  OtherStep
<1>1. \E l : At(SERVO, l)
  BY DEF Servo_Task, ServoBoot, servoRotate, AimLeft, ReadLeft, ReadCenter, ReadRight,
     ReadAgain, navigateFront, JudgeStop, JudgeFull, TestFree, Claim, M_allStop, Post
<1>2. SERVO \notin suspended
  BY <1>1, ExecutesUnsuspended
<1>3. UNCHANGED <<suspended, status, LEFT_CLEAR, RIGHT_CLEAR>>
  BY DEF Servo_Task, ServoBoot, servoRotate, AimLeft, ReadLeft, ReadCenter, ReadRight,
     ReadAgain, navigateFront, JudgeStop, JudgeFull, TestFree, Claim, M_allStop, Post,
     DelayThen, K!OSTimeDly, K!OSQPost, kernel, clears
<1>4. \E l \in SweepLabel \cup JudgeLabel : Goto(SERVO, l)
  BY DEF Servo_Task, ServoBoot, servoRotate, AimLeft, ReadLeft, ReadCenter, ReadRight,
     ReadAgain, navigateFront, JudgeStop, JudgeFull, TestFree, Claim, M_allStop, Post,
     DelayThen, AfterSweep, SweepLabel, JudgeLabel
<1>5. pc'[NAVI] = pc[NAVI] /\ pc'[HISTORY] = pc[HISTORY]
  BY <1>4, GotoOnly, LabelUnion, TaskNames DEF Inv
<1>6. QED
  BY <1>2, <1>3, <1>5 DEF OtherStep, ParkInv, RetiredFirst, Replaying

(* Encoder_Task, the tick and a step that changes nothing.                 *)
LEMMA BystanderOther ==
    ASSUME Inv, ParkInv, Encoder_Task \/ Tick \/ UNCHANGED vars
    PROVE  OtherStep
<1>1. UNCHANGED <<suspended, queue, mail, status, clears>>
  BY DEF Encoder_Task, Sleep, EncoderCount, DelayThen, Tick, K!OSTimeDly, K!OSTimeTick,
     vars, kernel
<1>2. UNCHANGED pc \/ Goto(ENCODER, "count")
  BY DEF Encoder_Task, Sleep, EncoderCount, DelayThen, Tick, vars
<1>3. pc'[NAVI] = pc[NAVI] /\ pc'[HISTORY] = pc[HISTORY]
  BY <1>2, GotoOnly, LabelUnion, TaskNames DEF Inv
<1>4. QED
  BY <1>1, <1>3 DEF OtherStep, ParkInv, RetiredFirst, Replaying, clears

(* History_Task: it suspends Navigation_Task before Servo_Task, and nobody *)
(* resumes Navigation_Task.                                                *)
LEMMA HistoryOther ==
    ASSUME Inv, ParkInv, History_Task
    PROVE  OtherStep
<1>1. CASE Retire(NAVI, "retireNavi", "retireServo")
  <2>1. /\ pc'[NAVI] = pc[NAVI] /\ pc'[HISTORY] = "retireServo"
        /\ pc[HISTORY] = "retireNavi"
    BY <1>1, GotoOnly, LabelUnion, TaskNames DEF Inv, Retire, At, HistoryLabel
  <2>2. suspended' = suspended \cup {NAVI} /\ UNCHANGED <<queue, mail, status, clears>>
    BY <1>1 DEF Retire, K!OSTaskSuspend
  <2>3. QED
    BY <2>1, <2>2, TaskNames DEF OtherStep, RetiredFirst, Replaying, clears
<1>2. CASE Retire(SERVO, "retireServo", "rest")
  <2>1. pc'[NAVI] = pc[NAVI] /\ pc'[HISTORY] = "rest" /\ NAVI \in suspended
    BY <1>2, GotoOnly, LabelUnion, TaskNames DEF Inv, Retire, At, HistoryLabel, ParkInv,
       RetiredFirst
  <2>2. suspended' = suspended \cup {SERVO} /\ UNCHANGED <<queue, mail, status, clears>>
    BY <1>2 DEF Retire, K!OSTaskSuspend
  <2>3. QED
    BY <2>1, <2>2, TaskNames DEF OtherStep, RetiredFirst, Replaying, clears
<1>3. CASE motorGo(HISTORY)
  <2>0. PICK m \in Movement :
           MotorStart(HISTORY, m) \/ MotorPoll(HISTORY, m) \/ MotorDone(HISTORY, m)
    BY <1>3 DEF motorGo
  <2>1. UNCHANGED <<suspended, queue, mail, status, clears>>
    BY <2>0 DEF MotorStart, MotorPoll, MotorDone, DelayThen, K!OSTimeDly, kernel
  <2>2. PICK l \in Poll \cup {"replay", "halt"} : Goto(HISTORY, l)
    BY <2>0, MoveLabels, TaskNames DEF MotorStart, MotorPoll, MotorDone, DelayThen, AfterMotor
  <2>3. l \in Label
    BY <2>2, LabelUnion, MoveLabels DEF HistoryLabel, Poll
  <2>4. pc'[NAVI] = pc[NAVI] /\ pc'[HISTORY] \in Poll \cup {"replay", "halt"}
    BY <2>2, <2>3, GotoOnly, TaskNames DEF Inv
  <2>5. QED
    BY <2>1, <2>4, MoveLabels DEF OtherStep, RetiredFirst, Replaying, clears
<1>4. CASE ~ (motorGo(HISTORY) \/ Retire(NAVI, "retireNavi", "retireServo")
              \/ Retire(SERVO, "retireServo", "rest"))
  <2> USE <1>4 DEF History_Task
  <2>1. UNCHANGED <<suspended, queue, mail, status, clears>>
    BY DEF Sleep, HistoryEval, Claim, M_allStop, HistoryStep, DelayThen, K!OSTimeDly, kernel
  <2>2. PICK l \in {"eval", "claim", "depart", "turn180", "forward", "turnLeft",
                    "turnRight", "halt", "replay", "retireNavi"} :
           /\ Goto(HISTORY, l)
           /\ l \in {"eval", "claim", "depart"} =>
                pc[HISTORY] \in {"boot", "eval", "claim", "rest"}
    BY RoverAssumption DEF Sleep, HistoryEval, Claim, M_allStop, HistoryStep, DelayThen, At
  <2>3. l \in Label
    BY <2>2, LabelUnion, MoveLabels DEF HistoryLabel
  <2>4. pc'[NAVI] = pc[NAVI] /\ pc'[HISTORY] = l
    BY <2>2, <2>3, GotoOnly, TaskNames DEF Inv
  <2>5. QED
    BY <2>1, <2>2, <2>4 DEF OtherStep, ParkInv, RetiredFirst, Replaying, clears
<1>5. QED
  BY <1>1, <1>2, <1>3, <1>4


-----------------------------------------------------------------------------
(* A step of Navigation_Task that goes on handling the same message: what  *)
(* is to be shown is what ParkInv says of the new place.                   *)
LEMMA HandlingKeeps ==
    ASSUME Inv, ParkInv, ~NaviIdle,
           NEW l \in Label \ {"pend", "pended"}, Goto(NAVI, l),
           UNCHANGED status,
           suspended' = suspended \/ (status = "BLOCKED" /\ suspended' = suspended \cup {SERVO}),
           StatusAtPlace', Parked', TurnsOnlyWhenBlocked', TurnTowardClearSide'
    PROVE  ParkInv'
<1>1. l \in Label /\ l \notin {"pend", "pended"}
  OBVIOUS
<1>2. pc'[NAVI] = l /\ pc'[HISTORY] = pc[HISTORY]
  BY <1>1, GotoOnly, TaskNames DEF Inv
<1>3. RetiredFirst'
  BY <1>2 DEF ParkInv, RetiredFirst
<1>4. ~NaviIdle'
  BY <1>1, <1>2 DEF NaviIdle
<1>5. ASSUME SERVO \in suspended', ~Replaying' PROVE status' = "BLOCKED"
  <2>1. ~Replaying
    BY <1>2, <1>5, TaskNames DEF Replaying
  <2>2. CASE SERVO \in suspended
    BY <2>1, <2>2, BusyWhileHandling DEF ParkInv, ParkedServoHasOwner, Inv, Delivered
  <2>3. CASE SERVO \notin suspended
    BY <1>5, <2>3
  <2>4. QED
    BY <2>2, <2>3
<1>6. ParkedServoHasOwner'
  BY <1>4, <1>5 DEF ParkedServoHasOwner
<1>7. QED
  BY <1>3, <1>6 DEF ParkInv

(* Navigation_Task's two ends of OSQPend.                                  *)
LEMMA TakingKeeps ==
    ASSUME Inv, ParkInv, NaviPend \/ NaviReceive
    PROVE  ParkInv'
<1> USE DEF ParkInv
<1>1. UNCHANGED suspended
  BY DEF NaviPend, NaviReceive, K!OSQPend, K!OSQReturn
<1>2. PICK l \in {"pended", "stop", "ramp1"} : Goto(NAVI, l)
  BY DEF NaviPend, NaviReceive
<1>3. pc'[NAVI] = l /\ pc'[HISTORY] = pc[HISTORY]
  BY <1>2, GotoOnly, LabelUnion, TaskNames DEF NaviLabel, Inv
<1>4. RetiredFirst' /\ (Replaying' <=> Replaying)
  BY <1>1, <1>3 DEF RetiredFirst, Replaying
<1>5. Parked' /\ TurnsOnlyWhenBlocked' /\ TurnTowardClearSide'
  BY <1>2, <1>3, MoveLabels DEF Parked, TurnsOnlyWhenBlocked, TurnTowardClearSide, Moves, Poll
<1>6. CASE NaviPend
  <2>1. pc[NAVI] = "pend" /\ pc'[NAVI] = "pended"
    BY <1>6, GotoOnly, LabelUnion, TaskNames DEF NaviPend, At, NaviLabel, Inv
  <2>2. StatusAtPlace'
    BY <2>1, MoveLabels DEF StatusAtPlace, BlockedLabel, ClearLabel, Moves
  <2>3. NaviIdle /\ ~Delivered
    BY <2>1 DEF NaviIdle, Inv, TokenInv, OnlyNaviWaits
  <2>4. ASSUME SERVO \in suspended', ~Replaying' PROVE mail'[NAVI] = "BLOCKED"
    <3>1. queue = <<"BLOCKED">>
      BY <1>1, <1>4, <2>3, <2>4 DEF ParkedServoHasOwner, Delivered
    <3>2. mail' = [mail EXCEPT ![NAVI] = "BLOCKED"]
      BY <1>6, <3>1 DEF NaviPend, K!OSQPend
    <3>3. QED
      BY <3>2, TaskNames DEF Inv, TypeOK, K!TypeOK
  <2>5. ParkedServoHasOwner'
    BY <2>4 DEF ParkedServoHasOwner
  <2>6. QED
    BY <1>4, <1>5, <2>2, <2>5
<1>7. CASE NaviReceive
  <2>1. /\ status' = mail[NAVI] /\ mail[NAVI] \in Message
        /\ pc'[NAVI] = IF mail[NAVI] = "BLOCKED" THEN "stop" ELSE "ramp1"
    <3>1. mail[NAVI] \in Message \cup {"none"} /\ mail[NAVI] # "none"
      BY <1>7, TaskNames DEF NaviReceive, K!OSQReturn, Inv, TypeOK, K!TypeOK
    <3>2. Goto(NAVI, IF mail[NAVI] = "BLOCKED" THEN "stop" ELSE "ramp1")
      BY <1>7 DEF NaviReceive
    <3>3. QED
      BY <1>7, <3>1, <3>2, GotoOnly, LabelUnion, TaskNames DEF NaviReceive, NaviLabel, Inv
  <2>2. StatusAtPlace'
    BY <2>1, MoveLabels DEF StatusAtPlace, BlockedLabel, ClearLabel, Moves, Message
  <2>3. NaviIdle /\ Delivered /\ queue = <<>>
    BY <1>7 DEF NaviReceive, K!OSQReturn, At, NaviIdle, Delivered, Inv, TokenInv, OneCommand
  <2>4. ~NaviIdle'
    BY <2>1 DEF NaviIdle
  <2>5. ASSUME SERVO \in suspended', ~Replaying' PROVE status' = "BLOCKED"
    BY <1>1, <1>4, <2>1, <2>3, <2>5 DEF ParkedServoHasOwner
  <2>6. ParkedServoHasOwner'
    BY <2>4, <2>5 DEF ParkedServoHasOwner
  <2>7. QED
    BY <1>4, <1>5, <2>2, <2>6
<1>8. QED
  BY <1>6, <1>7

(* Navigation_Task gives the system back, or puts its message back.        *)
LEMMA LoopingKeeps ==
    ASSUME Inv, ParkInv, ~NaviIdle, Goto(NAVI, "pend"), UNCHANGED status,
           \/ K!OSTaskResume(SERVO)
           \/ UNCHANGED suspended /\ K!OSQPost(status)
    PROVE  ParkInv'
<1> USE DEF ParkInv
<1>1. pc'[NAVI] = "pend" /\ pc'[HISTORY] = pc[HISTORY]
  BY GotoOnly, LabelUnion, TaskNames DEF NaviLabel, Inv
<1>2. suspended' = suspended \/ suspended' = suspended \ {SERVO}
  BY DEF K!OSTaskResume
<1>3. RetiredFirst' /\ (Replaying' <=> Replaying)
  BY <1>1, <1>2, TaskNames DEF RetiredFirst, Replaying
<1>4. StatusAtPlace' /\ Parked' /\ TurnsOnlyWhenBlocked' /\ TurnTowardClearSide'
  BY <1>1, MoveLabels DEF StatusAtPlace, Parked, TurnsOnlyWhenBlocked, TurnTowardClearSide,
     BlockedLabel, ClearLabel, Moves, Poll
<1>5. ASSUME SERVO \in suspended', ~Replaying' PROVE queue' = <<"BLOCKED">>
  <2>1. K!OSQPost(status) /\ SERVO \in suspended
    BY <1>2, <1>5 DEF K!OSTaskResume
  <2>2. queue = <<>> /\ ~Delivered
    BY BusyWhileHandling DEF Inv
  <2>3. status = "BLOCKED"
    BY <1>3, <1>5, <2>1, <2>2 DEF ParkedServoHasOwner, Delivered
  <2>4. pc[NAVI] # "pended" /\ status \in Message
    BY <2>3 DEF NaviIdle, Message
  <2>5. queue' = <<status>>
    BY <2>1, <2>2, <2>4, PostAlone DEF Inv, TokenInv
  <2>6. QED
    BY <2>3, <2>5
<1>6. ParkedServoHasOwner'
  BY <1>5 DEF ParkedServoHasOwner
<1>7. QED
  BY <1>3, <1>4, <1>6


(* The choice of a turn, for every pair of voltages: it never goes toward  *)
(* a blocked side.                                                         *)
LEMMA TurnChosen ==
    ASSUME NEW left \in Volt, NEW right \in Volt
    PROVE  /\ ChooseTurn(left, right) \in {"reverse", "turnRight", "turnLeft", "left"}
           /\ ChooseTurn(left, right) = "turnLeft" => isSensorClear(left)
           /\ ChooseTurn(left, right) = "turnRight" => isSensorClear(right)
           /\ ChooseTurn(left, right) = "reverse" =>
                ~isSensorClear(left) /\ ~isSensorClear(right)
<1>1. left \in Int /\ right \in Int /\ ClearVolt \in Int
  BY RoverAssumption
<1>2. QED
  BY <1>1 DEF ChooseTurn, isSensorClear

(* Places outside the movements ask nothing of ParkInv but the message.    *)
LEMMA NotMoving ==
    ASSUME pc'[NAVI] \notin Moves \cup {"center", "decide"}
    PROVE  Parked' /\ TurnsOnlyWhenBlocked' /\ TurnTowardClearSide'
BY MoveLabels DEF Parked, TurnsOnlyWhenBlocked, TurnTowardClearSide, Moves, Poll

(* Navigation_Task looking ahead.                                          *)
LEMMA LookingKeeps ==
    ASSUME Inv, ParkInv, servoRotate(NAVI) \/ navigateFront(NAVI)
    PROVE  ParkInv'
<1>1. Places'
  BY SweepStep, NaviJudgeStep DEF Sweeper
<1>2. pc[NAVI] \in SweepLabel \cup JudgeLabel
  BY DEF servoRotate, AimLeft, ReadLeft, ReadCenter, ReadRight, ReadAgain, navigateFront,
     JudgeStop, JudgeFull, TestFree, Claim, M_allStop, Post, At, SweepLabel, JudgeLabel
<1>3. pc[NAVI] \notin ClaimLabel /\ ~NaviIdle
  BY <1>2, LabelsApart DEF Inv, Places, NaviIdle
<1>4. UNCHANGED <<suspended, status>>
  BY <1>3 DEF servoRotate, AimLeft, ReadLeft, ReadCenter, ReadRight, ReadAgain, navigateFront,
     JudgeStop, JudgeFull, TestFree, Claim, M_allStop, Post, At, ClaimLabel, DelayThen,
     K!OSTimeDly, kernel
<1>5. PICK l \in SweepLabel \cup JudgeLabel \cup {AfterSweep(NAVI)} : Goto(NAVI, l)
  BY <1>3 DEF servoRotate, AimLeft, ReadLeft, ReadCenter, ReadRight, ReadAgain, navigateFront,
     JudgeStop, JudgeFull, TestFree, Claim, M_allStop, Post, At, ClaimLabel, DelayThen,
     SweepLabel, JudgeLabel
<1>6. AfterSweep(NAVI) = IF status = "BLOCKED" THEN "verdict" ELSE "retry"
  BY TaskNames DEF AfterSweep
<1>7. l \in SweepLabel \cup JudgeLabel \cup {"verdict", "retry"} /\ l \in Label
  BY <1>5, <1>6, LabelUnion DEF NaviLabel
<1>8. pc'[NAVI] = l
  BY <1>5, <1>7, GotoOnly, TaskNames DEF Inv
<1>9. l \in Label \ {"pend", "pended"}
  BY <1>7, LabelsApart
<1>10. l \notin Moves \cup {"center", "decide"}
  BY <1>7, MoveLabels DEF Moves, SweepLabel, JudgeLabel
<1>11. status \in Message
  BY DEF Inv, TypeOK
<1>12. l \in BlockedLabel => l = "verdict"
  BY <1>7, MoveLabels DEF BlockedLabel, Moves, SweepLabel, JudgeLabel
<1>13. l \in ClearLabel => l = "retry"
  BY <1>7 DEF ClearLabel, SweepLabel, JudgeLabel
<1>14. /\ l = "verdict" => status = "BLOCKED"
       /\ l = "retry" => status = "CLEAR"
  <2>1. l \in {"verdict", "retry"} => l = AfterSweep(NAVI)
    BY <1>5 DEF SweepLabel, JudgeLabel
  <2>2. QED
    BY <1>6, <1>11, <2>1 DEF Message
<1>15. StatusAtPlace'
  BY <1>4, <1>8, <1>12, <1>13, <1>14 DEF StatusAtPlace
<1>16. Parked' /\ TurnsOnlyWhenBlocked' /\ TurnTowardClearSide'
  BY <1>8, <1>10, NotMoving
<1>17. UNCHANGED suspended /\ UNCHANGED status
  BY <1>4
<1>18. QED
  BY <1>3, <1>5, <1>9, <1>15, <1>16, <1>17, HandlingKeeps

(* Navigation_Task moving the rover.                                       *)
LEMMA MovingKeeps ==
    ASSUME Inv, ParkInv, motorGo(NAVI)
    PROVE  ParkInv'
<1>1. PICK m \in Movement : MotorStart(NAVI, m) \/ MotorPoll(NAVI, m) \/ MotorDone(NAVI, m)
  BY DEF motorGo
<1>2. UNCHANGED <<suspended, status, clears>>
  BY <1>1 DEF MotorStart, MotorPoll, MotorDone, DelayThen, K!OSTimeDly, kernel
<1>3. pc[NAVI] \in {m, Polling[m]}
  BY <1>1 DEF MotorStart, MotorPoll, MotorDone, At
<1>4. pc[NAVI] \in Moves
  BY <1>3, MoveLabels DEF Moves
<1>5. ~NaviIdle /\ status = "BLOCKED" /\ SERVO \in suspended /\ ~FRONT_CLEAR
  BY <1>4, LabelsApart DEF ParkInv, StatusAtPlace, Parked, TurnsOnlyWhenBlocked, NaviIdle,
     BlockedLabel, Moves, Poll
<1>6. AfterMotor(NAVI, m) \in {"left", "turn180"}
  BY DEF AfterMotor
<1>7. PICK l \in {Polling[m], "left", "turn180"} : Goto(NAVI, l)
  BY <1>1, <1>6 DEF MotorStart, MotorPoll, MotorDone, DelayThen
<1>8. l \in Label \ {"pend", "pended"}
  BY <1>7, LabelUnion, MoveLabels DEF SweepLabel, Poll
<1>9. pc'[NAVI] = l
  BY <1>7, <1>8, GotoOnly, TaskNames DEF Inv
<1>10. StatusAtPlace'
  BY <1>2, <1>5, <1>7, <1>9, MoveLabels DEF StatusAtPlace, ClearLabel
<1>11. Parked' /\ TurnsOnlyWhenBlocked'
  BY <1>2, <1>5 DEF Parked, TurnsOnlyWhenBlocked, clears
<1>12. TurnTowardClearSide'
  BY <1>2, <1>3, <1>7, <1>9, MoveLabels DEF TurnTowardClearSide, ParkInv, clears, Polling
<1>13. QED
  BY <1>2, <1>5, <1>7, <1>8, <1>10, <1>11, <1>12, HandlingKeeps


(* The rest of Navigation_Task: from the message to the decision.          *)
LEMMA DecidingKeeps ==
    ASSUME Inv, ParkInv,
           \/ M_allStop(NAVI, "stop", "closeLeg") \/ NaviCloseLeg \/ NaviPark
           \/ NaviCenter \/ NaviDecide
    PROVE  ParkInv'
<1>1. pc[NAVI] \in {"stop", "closeLeg", "park", "center", "decide"}
  BY DEF M_allStop, NaviCloseLeg, NaviPark, NaviCenter, NaviDecide, At
<1>2. ~NaviIdle /\ status = "BLOCKED"
  BY <1>1 DEF NaviIdle, ParkInv, StatusAtPlace, BlockedLabel
<1>3. SYSTEM_STATUS = "BUSY"
  BY <1>2, BusyWhileHandling DEF Inv
<1>4. UNCHANGED status
  BY DEF M_allStop, NaviCloseLeg, NaviPark, NaviCenter, NaviDecide
<1>5. CASE M_allStop(NAVI, "stop", "closeLeg") \/ NaviCloseLeg \/ NaviPark \/ NaviCenter
  <2>1. PICK l \in {"closeLeg", "park", "center", "decide"} :
           /\ Goto(NAVI, l)
           /\ l \in {"closeLeg", "park"} => suspended' = suspended
           /\ l = "center" => suspended' = suspended \cup {SERVO}
           /\ l = "decide" => suspended' = suspended /\ pc[NAVI] = "center"
    BY <1>3, <1>5 DEF M_allStop, NaviCloseLeg, NaviPark, NaviCenter, DelayThen, At, kernel,
       K!OSTimeDly, K!OSTaskSuspend
  <2>2. /\ l \in BlockedLabel /\ l \notin Moves /\ l \notin ClearLabel
        /\ l \in Label \ {"pend", "pended"}
    BY <2>1, MoveLabels, LabelUnion DEF BlockedLabel, ClearLabel, Moves, NaviLabel
  <2>3. pc'[NAVI] = l
    BY <2>1, <2>2, GotoOnly, TaskNames DEF Inv
  <2>4. StatusAtPlace'
    BY <1>2, <1>4, <2>2, <2>3 DEF StatusAtPlace
  <2>5. Parked'
    BY <2>1, <2>2, <2>3 DEF Parked, ParkInv
  <2>6. TurnsOnlyWhenBlocked' /\ TurnTowardClearSide'
    BY <2>1, <2>3, MoveLabels DEF TurnsOnlyWhenBlocked, TurnTowardClearSide, Poll
  <2>7. suspended' = suspended \/ (status = "BLOCKED" /\ suspended' = suspended \cup {SERVO})
    BY <1>2, <2>1
  <2>8. QED
    BY <1>2, <1>4, <2>1, <2>2, <2>4, <2>5, <2>6, <2>7, HandlingKeeps
<1>6. CASE NaviDecide
  <2>1. PICK left, right \in Volt :
           /\ LEFT_CLEAR' = isSensorClear(left)
           /\ RIGHT_CLEAR' = isSensorClear(right)
           /\ Goto(NAVI, IF FRONT_CLEAR THEN "left" ELSE ChooseTurn(left, right))
    BY <1>6 DEF NaviDecide
  <2> DEFINE l == IF FRONT_CLEAR THEN "left" ELSE ChooseTurn(left, right)
  <2>2. /\ l \in {"left", "reverse", "turnLeft", "turnRight"}
        /\ l # "left" => ~FRONT_CLEAR
        /\ l = "turnLeft" => LEFT_CLEAR'
        /\ l = "turnRight" => RIGHT_CLEAR'
        /\ l = "reverse" => ~LEFT_CLEAR' /\ ~RIGHT_CLEAR'
    BY <2>1, TurnChosen
  <2> HIDE DEF l
  <2>3. Goto(NAVI, l)
    BY <2>1 DEF l
  <2>4. l \in BlockedLabel \cup SweepLabel /\ l \notin ClearLabel /\ l \notin Poll
    BY <2>2, MoveLabels DEF BlockedLabel, Moves, SweepLabel, ClearLabel
  <2>5. l \in Label \ {"pend", "pended"}
    BY <2>2, LabelUnion, MoveLabels DEF SweepLabel
  <2>6. pc'[NAVI] = l
    BY <2>3, <2>5, GotoOnly, TaskNames DEF Inv
  <2>7. UNCHANGED <<suspended, FRONT_CLEAR>> /\ SERVO \in suspended
    BY <1>6 DEF NaviDecide, At, kernel, ParkInv, Parked
  <2>8. StatusAtPlace' /\ Parked'
    BY <1>2, <1>4, <2>4, <2>6, <2>7 DEF StatusAtPlace, Parked
  <2>9. TurnsOnlyWhenBlocked'
    BY <2>2, <2>6, <2>7, MoveLabels DEF TurnsOnlyWhenBlocked, Poll
  <2>10. TurnTowardClearSide'
    BY <2>2, <2>6 DEF TurnTowardClearSide
  <2>11. QED
    BY <1>2, <1>4, <2>3, <2>5, <2>7, <2>8, <2>9, <2>10, HandlingKeeps
<1>7. QED
  BY <1>5, <1>6

(* Posting suspends and resumes nobody.                                    *)
LEMMA PostParksNobody == K!OSQPost(status) => UNCHANGED suspended
BY DEF K!OSQPost

(* FRONT_IS_CLEAR up to the check, and the ends of both messages.          *)
LEMMA EndingKeeps ==
    ASSUME Inv, ParkInv,
           \/ \E from \in {"ramp1", "ramp2", "ramp3"}, then \in {"ramp2", "ramp3", "check"} :
                NaviRamp(from, then)
           \/ NaviVerdict \/ NaviCheck \/ Post(NAVI, "retry", "CLEAR", "pend")
    PROVE  ParkInv'
<1>1. pc[NAVI] \in ClearLabel \cup {"verdict"}
  BY DEF NaviRamp, NaviVerdict, NaviCheck, Post, At, ClearLabel
<1>2. ~NaviIdle
  BY <1>1 DEF NaviIdle, ClearLabel
<1>3. UNCHANGED status
  BY DEF NaviRamp, NaviVerdict, NaviCheck, Post
<1>4. CASE Goto(NAVI, "pend") /\ (K!OSTaskResume(SERVO)
                                    \/ (UNCHANGED suspended /\ K!OSQPost(status)))
  BY <1>2, <1>3, <1>4, LoopingKeeps
<1>5. CASE UNCHANGED suspended /\ \E l \in {"ramp2", "ramp3", "check", "left"} :
             Goto(NAVI, l) /\ (l # "left" => status = "CLEAR")
  <2>1. PICK l \in {"ramp2", "ramp3", "check", "left"} :
             Goto(NAVI, l) /\ (l # "left" => status = "CLEAR")
    BY <1>5
  <2>2. l \in Label \ {"pend", "pended"} /\ l \notin BlockedLabel
    BY <2>1, MoveLabels, LabelUnion DEF SweepLabel, NaviLabel, BlockedLabel, Moves
  <2>3. pc'[NAVI] = l
    BY <2>1, <2>2, GotoOnly, TaskNames DEF Inv
  <2>4. StatusAtPlace'
    BY <1>3, <2>1, <2>2, <2>3 DEF StatusAtPlace, ClearLabel
  <2>5. Parked' /\ TurnsOnlyWhenBlocked' /\ TurnTowardClearSide'
    BY <2>2, <2>3, NotMoving DEF BlockedLabel
  <2>6. QED
    BY <1>2, <1>3, <1>5, <2>1, <2>2, <2>4, <2>5, HandlingKeeps
<1>6. CASE \/ \E from \in {"ramp1", "ramp2", "ramp3"}, then \in {"ramp2", "ramp3", "check"} :
                NaviRamp(from, then)
           \/ NaviCheck
  <2>1. status = "CLEAR"
    BY <1>6 DEF NaviRamp, NaviCheck, At, ParkInv, StatusAtPlace, ClearLabel
  <2>2. \/ Goto(NAVI, "pend") /\ K!OSTaskResume(SERVO)
        \/ /\ UNCHANGED suspended
           /\ \E l \in {"ramp2", "ramp3", "check", "left"} :
                Goto(NAVI, l) /\ (l # "left" => status = "CLEAR")
    BY <1>6, <2>1 DEF NaviRamp, NaviCheck, Release, DelayThen, K!OSTimeDly
  <2>3. QED
    BY <1>4, <1>5, <2>2
<1>7. CASE NaviVerdict \/ Post(NAVI, "retry", "CLEAR", "pend")
  <2>1. CASE NaviVerdict
    <3>1. status = "BLOCKED"
      BY <2>1 DEF NaviVerdict, At, ParkInv, StatusAtPlace, BlockedLabel
    <3>2. Goto(NAVI, "pend") /\ (K!OSTaskResume(SERVO) \/ K!OSQPost(status))
      BY <2>1, <3>1 DEF NaviVerdict, Release
    <3>3. QED
      BY <1>4, <3>2, PostParksNobody
  <2>2. CASE Post(NAVI, "retry", "CLEAR", "pend")
    <3>1. status = "CLEAR"
      BY <2>2 DEF Post, At, ParkInv, StatusAtPlace, ClearLabel
    <3>2. Goto(NAVI, "pend") /\ K!OSQPost(status)
      BY <2>2, <3>1 DEF Post
    <3>3. QED
      BY <1>4, <3>2, PostParksNobody
  <2>3. QED
    BY <1>7, <2>1, <2>2
<1>8. QED
  BY <1>6, <1>7

(* Every step keeps ParkInv.                                               *)
LEMMA ParkStep == Inv /\ ParkInv /\ [Next]_vars => ParkInv'
<1> SUFFICES ASSUME Inv, ParkInv, [Next]_vars PROVE ParkInv'
  OBVIOUS
<1>1. CASE Navigation_Task
  BY <1>1, TakingKeeps, DecidingKeeps, MovingKeeps, LookingKeeps, EndingKeeps
     DEF Navigation_Task
<1>2. CASE Servo_Task
  BY <1>2, ServoOther, OtherStepKeeps
<1>3. CASE Encoder_Task \/ Tick \/ UNCHANGED vars
  BY <1>3, BystanderOther, OtherStepKeeps
<1>4. CASE History_Task
  BY <1>4, HistoryOther, OtherStepKeeps
<1>5. QED
  BY <1>1, <1>2, <1>3, <1>4 DEF Next

(* No task is parked in the state main() leaves.                           *)
LEMMA ParkInit == Init => ParkInv
<1> SUFFICES ASSUME Init PROVE ParkInv
  OBVIOUS
<1>1. pc[NAVI] = "pend" /\ pc[HISTORY] = "boot" /\ suspended = {}
  BY DEF Init, K!Init, NAVI, HISTORY
<1>2. QED
  BY <1>1, MoveLabels DEF ParkInv, StatusAtPlace, Parked, RetiredFirst, TurnsOnlyWhenBlocked,
     ParkedServoHasOwner, TurnTowardClearSide, BlockedLabel, ClearLabel, Moves, Poll

(* The inductive invariant holds in every state.                           *)
THEOREM ParkInvCorrect == Spec => [](Inv /\ ParkInv)
<1>1. Init => ParkInv
  BY ParkInit
<1>2. Inv /\ ParkInv /\ [Next]_vars => ParkInv'
  BY ParkStep
<1>3. QED
  BY <1>1, <1>2, InvCorrect, PTL DEF Spec

(* A parked servo task will be resumed by the message that is under way    *)
(* (nav.c 77, 144, 150).                                                   *)
THEOREM ParkedServoHasOwnerAlways == Spec => []ParkedServoHasOwner
BY ParkInvCorrect, PTL DEF ParkInv

(* The rover turns or backs out only while the front is held to be blocked *)
(* (nav.c 104).                                                            *)
THEOREM TurnsOnlyWhenBlockedAlways == Spec => []TurnsOnlyWhenBlocked
BY ParkInvCorrect, PTL DEF ParkInv

(* No turn is toward a side just found blocked (nav.c 105-117).            *)
THEOREM TurnTowardClearSideAlways == Spec => []TurnTowardClearSide
BY ParkInvCorrect, PTL DEF ParkInv

-----------------------------------------------------------------------------
(* The motors and the servo. *)

(* The places of a sweep and of what is concluded from it.                 *)
Looking == SweepLabel \cup JudgeLabel

(* The places at which Navigation_Task relies on the motors being off.     *)
Stopped == {"closeLeg", "park", "center", "decide", "verdict"} \cup Movement

(* While Navigation_Task itself looks ahead for a blocked front, the other *)
(* user of the servo is parked.                                            *)
LookingParked ==
    status = "BLOCKED" /\ pc[NAVI] \in Looking \cup {"verdict"} => SERVO \in suspended

(* Until History_Task drives: a movement drives its own two inputs and no  *)
(* others, the other places of FRONT_IS_BLOCKED none, and everywhere else  *)
(* the rover goes forward at most, on an open leg.                         *)
NaviDrives ==
    ~Replaying =>
        /\ \A m \in Movement : pc[NAVI] = Polling[m] => pwm = Pins[m]
        /\ pc[NAVI] \in Stopped => pwm = {}
        /\ status = "BLOCKED" /\ pc[NAVI] \in Looking => pwm = {}
        /\ pc[NAVI] \notin Poll => pwm \subseteq {0, 2} /\ (pwm # {} => leg)

(* Once Navigation_Task is retired, Servo_Task is or is about to be; from  *)
(* the stop that follows, History_Task drives the motors alone.            *)
HistoryDrives ==
    NAVI \in suspended =>
        /\ pc[HISTORY] # "retireServo" => SERVO \in suspended
        /\ pc[HISTORY] \notin {"retireServo", "rest"} =>
             /\ \A m \in Movement : pc[HISTORY] = Polling[m] => pwm = Pins[m]
             /\ pc[HISTORY] \notin Poll => pwm = {}

MotionInv ==
    /\ LookingParked
    /\ ParkedSweepIsAimed
    /\ NaviDrives
    /\ HistoryDrives

-----------------------------------------------------------------------------
(* No movement drives a motor both ways, and each polls at its own label.  *)
LEMMA PinsApart ==
    /\ \A m \in Movement : ~({0, 1} \subseteq Pins[m]) /\ ~({2, 3} \subseteq Pins[m])
    /\ \A m, n \in Movement : Polling[m] = Polling[n] => Pins[m] = Pins[n]
    /\ Pins["forward"] = {0, 2}
<1>1. \A m \in Movement : ~({0, 1} \subseteq Pins[m]) /\ ~({2, 3} \subseteq Pins[m])
  BY MoveLabels DEF Pins
<1>2. \A m, n \in Movement : Polling[m] = Polling[n] => m = n
  BY MoveLabels DEF Polling
<1>3. QED
  BY <1>1, <1>2 DEF Pins

(* The places of the route's replay are not those of the movements.        *)
LEMMA PlacesApart ==
    /\ Poll \cap (Movement \cup Looking \cup NaviLabel \cup HistoryLabel \cup {"boot"}) = {}
    /\ Movement \cap (Looking \cup NaviLabel \cup HistoryLabel \cup {"boot"}) = {}
    /\ Looking \cap (NaviLabel \cup HistoryLabel) = {}
BY MoveLabels DEF Looking, SweepLabel, JudgeLabel, NaviLabel, HistoryLabel

(* Whoever moves a motor: the inputs of one movement, or none.             *)
LEMMA MotorPins ==
    ASSUME NEW t \in Mover, NEW m \in Movement,
           \/ MotorStart(t, m) /\ pwm = {}
           \/ (MotorPoll(t, m) \/ MotorDone(t, m)) /\ pwm = Pins[m]
    PROVE  \/ pwm' = Pins[m] /\ Goto(t, Polling[m])
           \/ pwm' = {} /\ Goto(t, AfterMotor(t, m))
<1>1. CASE MotorStart(t, m) /\ pwm = {}
  BY <1>1 DEF MotorStart
<1>2. CASE (MotorPoll(t, m) \/ MotorDone(t, m)) /\ pwm = Pins[m]
  BY <1>2 DEF MotorPoll, MotorDone, DelayThen
<1>3. QED
  BY <1>1, <1>2

(* Servo_Task, while it is not parked, can stop the motors and no more.    *)
LEMMA ServoMotion ==
    ASSUME Inv, ParkInv, MotionInv, Servo_Task
    PROVE  MotionInv'
<1> USE DEF MotionInv
<1>1. \E l : At(SERVO, l)
  BY DEF Servo_Task, ServoBoot, servoRotate, AimLeft, ReadLeft, ReadCenter, ReadRight,
     ReadAgain, navigateFront, JudgeStop, JudgeFull, TestFree, Claim, M_allStop, Post
<1>2. SERVO \notin suspended
  BY <1>1, ExecutesUnsuspended
<1>3. UNCHANGED <<suspended, status, leg>> /\ (pwm' = pwm \/ pwm' = {})
  BY DEF Servo_Task, ServoBoot, servoRotate, AimLeft, ReadLeft, ReadCenter, ReadRight,
     ReadAgain, navigateFront, JudgeStop, JudgeFull, TestFree, Claim, M_allStop, Post,
     DelayThen, K!OSTimeDly, K!OSQPost, kernel, route
<1>4. \E l \in SweepLabel \cup JudgeLabel : Goto(SERVO, l)
  BY DEF Servo_Task, ServoBoot, servoRotate, AimLeft, ReadLeft, ReadCenter, ReadRight,
     ReadAgain, navigateFront, JudgeStop, JudgeFull, TestFree, Claim, M_allStop, Post,
     DelayThen, AfterSweep, SweepLabel, JudgeLabel
<1>5. pc'[NAVI] = pc[NAVI] /\ pc'[HISTORY] = pc[HISTORY]
  BY <1>4, GotoOnly, LabelUnion, TaskNames DEF Inv
<1>6. LookingParked' /\ (Replaying' <=> Replaying)
  BY <1>3, <1>5 DEF LookingParked, Replaying
<1>7. ParkedSweepIsAimed'
  BY <1>2, <1>3, <1>5 DEF ParkedSweepIsAimed, LookingParked, Looking, SweepLabel
<1>8. pc[NAVI] \notin Poll
  BY <1>2 DEF ParkInv, Parked, Moves
<1>9. \A m \in Movement : pc'[NAVI] # Polling[m]
  BY <1>5, <1>8 DEF Poll
<1>10. NaviDrives'
  BY <1>3, <1>5, <1>6, <1>8, <1>9 DEF NaviDrives
<1>11. HistoryDrives'
  BY <1>2, <1>3, <1>5 DEF HistoryDrives
<1>12. QED
  BY <1>6, <1>7, <1>10, <1>11

(* Encoder_Task, the tick and a step that changes nothing.                 *)
LEMMA BystanderMotion ==
    ASSUME Inv, MotionInv, Encoder_Task \/ Tick \/ UNCHANGED vars
    PROVE  MotionInv'
<1>1. UNCHANGED <<suspended, status, aim, pwm, leg>>
  BY DEF Encoder_Task, Sleep, EncoderCount, DelayThen, Tick, K!OSTimeDly, K!OSTimeTick,
     vars, kernel, route
<1>2. UNCHANGED pc \/ Goto(ENCODER, "count")
  BY DEF Encoder_Task, Sleep, EncoderCount, DelayThen, Tick, vars
<1>3. pc'[NAVI] = pc[NAVI] /\ pc'[HISTORY] = pc[HISTORY]
  BY <1>2, GotoOnly, LabelUnion, TaskNames DEF Inv
<1>4. QED
  BY <1>1, <1>3 DEF MotionInv, LookingParked, ParkedSweepIsAimed, NaviDrives, HistoryDrives,
     Replaying

-----------------------------------------------------------------------------
(* History_Task.                                                           *)

(* Where each of its steps goes, and what it leaves in the H-bridges.      *)
LEMMA HistoryGoes ==
    ASSUME Inv, History_Task
    PROVE  /\ pc'[NAVI] = pc[NAVI] /\ UNCHANGED <<status, aim, leg>>
           /\ \/ /\ pc[HISTORY] \in {"boot", "eval", "claim"}
                 /\ pc'[HISTORY] \in {"eval", "claim", "depart"}
                 /\ UNCHANGED <<pwm, suspended>>
              \/ /\ pc[HISTORY] = "replay"
                 /\ pc'[HISTORY] \in Movement \cup {"halt", "retireNavi"}
                 /\ UNCHANGED <<pwm, suspended>>
              \/ /\ pc[HISTORY] \in {"depart", "halt", "rest"}
                 /\ pc'[HISTORY] \in {"turn180", "replay", "eval"}
                 /\ pc[HISTORY] # "rest" => pc'[HISTORY] # "eval"
                 /\ pwm' = {} /\ UNCHANGED suspended
              \/ /\ pc[HISTORY] = "retireNavi" /\ pc'[HISTORY] = "retireServo"
                 /\ suspended' = suspended \cup {NAVI} /\ UNCHANGED pwm
              \/ /\ pc[HISTORY] = "retireServo" /\ pc'[HISTORY] = "rest"
                 /\ suspended' = suspended \cup {SERVO} /\ UNCHANGED pwm
              \/ motorGo(HISTORY) /\ pc'[HISTORY] \in Poll \cup {"replay", "halt"}
                 /\ UNCHANGED suspended
<1> USE DEF route
<1>1. CASE motorGo(HISTORY)
  <2>0. PICK m \in Movement :
           MotorStart(HISTORY, m) \/ MotorPoll(HISTORY, m) \/ MotorDone(HISTORY, m)
    BY <1>1 DEF motorGo
  <2>1. UNCHANGED <<suspended, status, aim, leg>>
    BY <2>0 DEF MotorStart, MotorPoll, MotorDone, DelayThen, K!OSTimeDly, kernel
  <2>2. PICK l \in Poll \cup {"replay", "halt"} : Goto(HISTORY, l)
    BY <2>0, MoveLabels, TaskNames DEF MotorStart, MotorPoll, MotorDone, DelayThen, AfterMotor
  <2>3. l \in Label
    BY <2>2, LabelUnion, MoveLabels DEF HistoryLabel, Poll
  <2>4. pc'[NAVI] = pc[NAVI] /\ pc'[HISTORY] = l
    BY <2>2, <2>3, GotoOnly, TaskNames DEF Inv
  <2>5. QED
    BY <1>1, <2>1, <2>2, <2>4
<1>2. CASE ~motorGo(HISTORY)
  <2> USE <1>2 DEF History_Task
  <2>1. UNCHANGED <<status, aim, leg>>
    BY DEF Sleep, HistoryEval, Claim, M_allStop, HistoryStep, Retire
  <2>2. PICK l \in HistoryLabel \cup Movement :
           /\ Goto(HISTORY, l)
           /\ \/ /\ pc[HISTORY] \in {"boot", "eval", "claim"}
                 /\ l \in {"eval", "claim", "depart"}
                 /\ UNCHANGED <<pwm, suspended>>
              \/ /\ pc[HISTORY] = "replay"
                 /\ l \in Movement \cup {"halt", "retireNavi"}
                 /\ UNCHANGED <<pwm, suspended>>
              \/ /\ pc[HISTORY] \in {"depart", "halt", "rest"}
                 /\ l \in {"turn180", "replay", "eval"}
                 /\ pc[HISTORY] # "rest" => l # "eval"
                 /\ pwm' = {} /\ UNCHANGED suspended
              \/ /\ pc[HISTORY] = "retireNavi" /\ l = "retireServo"
                 /\ suspended' = suspended \cup {NAVI} /\ UNCHANGED pwm
              \/ /\ pc[HISTORY] = "retireServo" /\ l = "rest"
                 /\ suspended' = suspended \cup {SERVO} /\ UNCHANGED pwm
    <3>1. CASE Sleep(HISTORY, "boot", "eval") \/ HistoryEval \/ Claim(HISTORY, "claim", "depart")
      BY <3>1 DEF Sleep, HistoryEval, Claim, DelayThen, At, K!OSTimeDly, kernel, HistoryLabel
    <3>2. CASE HistoryStep
      BY <3>2, RoverAssumption, MoveLabels DEF HistoryStep, DelayThen, At, K!OSTimeDly, kernel,
         HistoryLabel
    <3>3. CASE M_allStop(HISTORY, "depart", "turn180") \/ M_allStop(HISTORY, "halt", "replay")
               \/ M_allStop(HISTORY, "rest", "eval")
      BY <3>3, MoveLabels DEF M_allStop, DelayThen, At, K!OSTimeDly, HistoryLabel
    <3>4. CASE Retire(NAVI, "retireNavi", "retireServo") \/ Retire(SERVO, "retireServo", "rest")
      BY <3>4 DEF Retire, At, K!OSTaskSuspend, HistoryLabel
    <3>5. QED
      BY <3>1, <3>2, <3>3, <3>4
  <2>3. pc'[NAVI] = pc[NAVI] /\ pc'[HISTORY] = l
    BY <2>2, LabelUnion, GotoOnly, TaskNames DEF Inv
  <2>4. QED
    BY <2>1, <2>2, <2>3
<1>3. QED
  BY <1>1, <1>2

(* Before it drives it leaves the motors to Navigation_Task; once it is    *)
(* alone every movement starts from motors at rest and ends so.            *)
LEMMA HistoryMotion ==
    ASSUME Inv, ParkInv, MotionInv, History_Task
    PROVE  MotionInv'
<1> USE DEF MotionInv
<1>1. OtherStep
  BY HistoryOther
<1>2. LookingParked' /\ ParkedSweepIsAimed'
  BY <1>1, HistoryGoes DEF OtherStep, LookingParked, ParkedSweepIsAimed
<1>3. ASSUME ~Replaying' PROVE pwm' = pwm /\ ~Replaying
  <2>1. ~Replaying /\ NAVI \notin suspended'
    BY <1>1, <1>3 DEF OtherStep, Replaying
  <2>2. /\ pc[HISTORY] \in {"boot", "eval", "claim", "depart"}
        /\ pc'[HISTORY] \in {"boot", "eval", "claim", "depart"}
    BY <1>3, <2>1 DEF Replaying
  <2>3. QED
    BY <2>1, <2>2, HistoryGoes, MoveLabels
<1>4. NaviDrives'
  BY <1>1, <1>3, HistoryGoes DEF OtherStep, NaviDrives
<1>5. HistoryDrives'
  <2> SUFFICES ASSUME NAVI \in suspended'
               PROVE  HistoryDrives'
    BY DEF HistoryDrives
  <2>1. CASE pc'[HISTORY] \in {"retireServo", "rest"}
    BY <2>1, HistoryGoes, MoveLabels DEF HistoryDrives
  <2>2. CASE pc'[HISTORY] \notin {"retireServo", "rest"}
    <3>1. UNCHANGED suspended /\ NAVI \in suspended
      BY <2>2, HistoryGoes
    <3>2. pc[HISTORY] # "retireServo" /\ SERVO \in suspended
      BY <2>2, <3>1, HistoryGoes, MoveLabels DEF HistoryDrives, motorGo, MotorStart, MotorPoll,
         MotorDone, At
    <3>3. CASE motorGo(HISTORY)
      <4>1. PICK m \in Movement :
               MotorStart(HISTORY, m) \/ MotorPoll(HISTORY, m) \/ MotorDone(HISTORY, m)
        BY <3>3 DEF motorGo
      <4>2. \/ MotorStart(HISTORY, m) /\ pwm = {}
            \/ (MotorPoll(HISTORY, m) \/ MotorDone(HISTORY, m)) /\ pwm = Pins[m]
        BY <3>1, <4>1, MoveLabels DEF HistoryDrives, MotorStart, MotorPoll, MotorDone, At
      <4>3. \/ pwm' = Pins[m] /\ Goto(HISTORY, Polling[m])
            \/ pwm' = {} /\ Goto(HISTORY, AfterMotor(HISTORY, m))
        BY <4>2, MotorPins DEF Mover
      <4>4. AfterMotor(HISTORY, m) \in {"replay", "halt"} /\ Polling[m] \in Label
        BY LabelUnion, TaskNames DEF AfterMotor
      <4>5. \/ pwm' = Pins[m] /\ pc'[HISTORY] = Polling[m]
            \/ pwm' = {} /\ pc'[HISTORY] \in {"replay", "halt"}
        BY <4>3, <4>4, GotoOnly, LabelUnion, TaskNames DEF Inv, HistoryLabel
      <4>6. QED
        BY <3>1, <3>2, <4>5, PinsApart, MoveLabels DEF HistoryDrives
    <3>4. CASE ~motorGo(HISTORY)
      <4>1. pwm' = {} /\ pc'[HISTORY] \notin Poll
        BY <2>2, <3>1, <3>2, <3>4, HistoryGoes, PlacesApart, MoveLabels DEF HistoryDrives, HistoryLabel
      <4>2. QED
        BY <3>1, <3>2, <4>1 DEF HistoryDrives, Poll
    <3>5. QED
      BY <3>3, <3>4
  <2>3. QED
    BY <2>1, <2>2
<1>6. QED
  BY <1>2, <1>4, <1>5

-----------------------------------------------------------------------------
(* Navigation_Task.                                                        *)

(* Looking ahead moves nothing but the servo, turned the way of the        *)
(* reading that follows.                                                   *)
LEMMA NaviLooks ==
    ASSUME Inv, servoRotate(NAVI) \/ navigateFront(NAVI)
    PROVE  /\ pc[NAVI] \in Looking
           /\ UNCHANGED <<suspended, status, pwm, leg>>
           /\ \E l \in Looking \cup {"verdict", "retry"} :
                /\ Goto(NAVI, l)
                /\ l = "verdict" => status = "BLOCKED"
                /\ l = "readLeft" => aim' = "left"
                /\ l \in {"readCenter", "readAgain"} => aim' = "center"
                /\ l = "readRight" => aim' = "right"
<1>1. CASE servoRotate(NAVI)
  <2>1. pc[NAVI] \in Looking
    BY <1>1 DEF servoRotate, AimLeft, ReadLeft, ReadCenter, ReadRight, ReadAgain, At, Looking,
       SweepLabel
  <2>2. UNCHANGED <<suspended, status, pwm, leg>>
    BY <1>1 DEF servoRotate, AimLeft, ReadLeft, ReadCenter, ReadRight, ReadAgain, DelayThen,
       K!OSTimeDly, kernel, route
  <2>3. \E l \in {"readLeft", "readCenter", "readRight", "readAgain", "judgeStop"} :
           /\ Goto(NAVI, l)
           /\ l = "readLeft" => aim' = "left"
           /\ l \in {"readCenter", "readAgain"} => aim' = "center"
           /\ l = "readRight" => aim' = "right"
    BY <1>1 DEF servoRotate, AimLeft, ReadLeft, ReadCenter, ReadRight, ReadAgain, DelayThen
  <2>4. QED
    BY <2>1, <2>2, <2>3 DEF Looking, SweepLabel, JudgeLabel
<1>2. CASE navigateFront(NAVI)
  <2>1. pc[NAVI] \in JudgeLabel
    BY <1>2 DEF navigateFront, JudgeStop, JudgeFull, TestFree, Claim, M_allStop, Post, At,
       JudgeLabel
  <2>2. pc[NAVI] \notin ClaimLabel
    BY <2>1, LabelsApart DEF Inv, Places
  <2>3. JudgeStop(NAVI) \/ JudgeFull(NAVI) \/ TestFree(NAVI, "testClear", "claimClear")
        \/ TestFree(NAVI, "testBlocked", "stopBlocked")
    BY <1>2, <2>2 DEF navigateFront, Claim, M_allStop, Post, At, ClaimLabel
  <2>4. UNCHANGED <<suspended, status, pwm, leg>>
    BY <2>3 DEF JudgeStop, JudgeFull, TestFree, kernel, route
  <2>5. \E l \in JudgeLabel \cup {AfterSweep(NAVI)} : Goto(NAVI, l)
    BY <2>3 DEF JudgeStop, JudgeFull, TestFree, JudgeLabel
  <2>6. AfterSweep(NAVI) = IF status = "BLOCKED" THEN "verdict" ELSE "retry"
    BY TaskNames DEF AfterSweep
  <2>7. QED
    BY <2>1, <2>4, <2>5, <2>6 DEF Looking, JudgeLabel
<1>3. QED
  BY <1>1, <1>2

(* What the rest of Navigation_Task does to the motors and the open leg,   *)
(* with where it does it and where it goes.                                *)
LEMMA NaviGoes ==
    ASSUME Inv, ParkInv, Navigation_Task,
           ~motorGo(NAVI), ~servoRotate(NAVI), ~navigateFront(NAVI)
    PROVE  \E l \in NaviLabel \cup Movement \cup {"left"} :
             /\ Goto(NAVI, l)
             /\ \/ /\ l \in {"pend", "pended", "stop", "ramp1"}
                   /\ pc[NAVI] \in {"pend", "pended", "verdict", "check", "retry"}
                   /\ UNCHANGED <<pwm, leg>>
                \/ /\ l \in {"closeLeg", "left"}
                   /\ pc[NAVI] \in {"stop", "check"}
                   /\ l = "left" => status = "CLEAR" /\ status' = "CLEAR"
                   /\ pwm' = {}
                \/ /\ l \in {"park", "center", "decide", "left"} \cup Movement
                   /\ pc[NAVI] \in {"closeLeg", "park", "center", "decide"}
                   /\ l = "left" => SERVO \in suspended /\ UNCHANGED suspended
                   /\ UNCHANGED pwm
                \/ /\ l \in {"ramp2", "ramp3", "check"}
                   /\ pc[NAVI] \in {"ramp1", "ramp2", "ramp3"}
                   /\ pwm' = pwm \cup Pins["forward"] /\ leg' = TRUE
<1> USE DEF route
<1>1. CASE NaviPend \/ NaviReceive
  BY <1>1 DEF NaviPend, NaviReceive, At, NaviLabel
<1>2. CASE M_allStop(NAVI, "stop", "closeLeg")
  BY <1>2 DEF M_allStop, DelayThen, At, NaviLabel
<1>3. CASE NaviCloseLeg \/ NaviPark \/ NaviCenter
  BY <1>3 DEF NaviCloseLeg, NaviPark, NaviCenter, DelayThen, At, NaviLabel
<1>4. CASE NaviDecide
  <2>1. PICK left, right \in Volt :
           Goto(NAVI, IF FRONT_CLEAR THEN "left" ELSE ChooseTurn(left, right))
    BY <1>4 DEF NaviDecide
  <2>2. \E l \in {"left", "reverse", "turnLeft", "turnRight"} : Goto(NAVI, l)
    BY <2>1, TurnChosen
  <2>3. /\ pc[NAVI] = "decide" /\ UNCHANGED <<pwm, suspended>>
        /\ SERVO \in suspended
    BY <1>4 DEF NaviDecide, At, kernel, ParkInv, Parked
  <2>4. QED
    BY <2>2, <2>3, MoveLabels
<1>5. CASE NaviVerdict \/ Post(NAVI, "retry", "CLEAR", "pend")
  BY <1>5 DEF NaviVerdict, Release, Post, At, NaviLabel
<1>6. CASE NaviCheck
  <2>1. status = "CLEAR" /\ pc[NAVI] = "check" /\ status' = status
    BY <1>6 DEF NaviCheck, At, ParkInv, StatusAtPlace, ClearLabel
  <2>2. UNCHANGED leg
    BY <1>6 DEF NaviCheck
  <2>3. (Release /\ UNCHANGED pwm) \/ (DelayThen(NAVI, "left") /\ pwm' = {})
    BY <1>6 DEF NaviCheck
  <2>4. (Goto(NAVI, "pend") /\ UNCHANGED pwm) \/ (Goto(NAVI, "left") /\ pwm' = {})
    BY <2>3 DEF Release, DelayThen
  <2>5. QED
    BY <2>1, <2>2, <2>4 DEF NaviLabel
<1>7. CASE NaviRamp("ramp1", "ramp2") \/ NaviRamp("ramp2", "ramp3") \/ NaviRamp("ramp3", "check")
  BY <1>7 DEF NaviRamp, DelayThen, At, NaviLabel
<1>8. QED
  BY <1>1, <1>2, <1>3, <1>4, <1>5, <1>6, <1>7 DEF Navigation_Task

(* Navigation_Task retires nobody for good and is not retired when it      *)
(* executes, so that what is said of History_Task alone stays true.        *)
LEMMA NaviUnretired ==
    ASSUME Inv, Navigation_Task, NEW l \in Label, Goto(NAVI, l)
    PROVE  /\ pc'[NAVI] = l
           /\ HistoryDrives' /\ (Replaying' <=> Replaying)
<1>1. \E k : At(NAVI, k)
  BY DEF Navigation_Task, NaviPend, NaviReceive, M_allStop, NaviCloseLeg, NaviPark, NaviCenter,
     NaviDecide, motorGo, MotorStart, MotorPoll, MotorDone, servoRotate, AimLeft, ReadLeft,
     ReadCenter, ReadRight, ReadAgain, navigateFront, JudgeStop, JudgeFull, TestFree, Claim,
     Post, NaviVerdict, NaviRamp, NaviCheck
<1>2. NAVI \notin suspended
  BY <1>1, ExecutesUnsuspended
<1>3. suspended' \subseteq suspended \cup {SERVO}
  <2>1. CASE servoRotate(NAVI) \/ navigateFront(NAVI)
    BY <2>1, NaviLooks
  <2>2. CASE motorGo(NAVI)
    BY <2>2 DEF motorGo, MotorStart, MotorPoll, MotorDone, DelayThen, K!OSTimeDly, kernel
  <2>3. CASE ~servoRotate(NAVI) /\ ~navigateFront(NAVI) /\ ~motorGo(NAVI)
    BY <2>3 DEF Navigation_Task, NaviPend, NaviReceive, M_allStop, NaviCloseLeg, NaviPark,
       NaviCenter, NaviDecide, Post, NaviVerdict, NaviRamp, NaviCheck, Release, DelayThen,
       K!OSTimeDly, K!OSTaskSuspend, K!OSTaskResume, K!OSQPost, K!OSQPend, K!OSQReturn, kernel
  <2>4. QED
    BY <2>1, <2>2, <2>3
<1>4. NAVI \notin suspended'
  BY <1>2, <1>3, TaskNames
<1>5. pc'[NAVI] = l /\ pc'[HISTORY] = pc[HISTORY]
  BY GotoOnly, TaskNames DEF Inv
<1>6. QED
  BY <1>2, <1>4, <1>5 DEF HistoryDrives, Replaying

(* A movement starts with the motors off and leaves them off.              *)
LEMMA MovingMotion ==
    ASSUME Inv, ParkInv, MotionInv, motorGo(NAVI)
    PROVE  MotionInv'
<1> USE DEF MotionInv
<1>1. PICK m \in Movement : MotorStart(NAVI, m) \/ MotorPoll(NAVI, m) \/ MotorDone(NAVI, m)
  BY DEF motorGo
<1>2. pc[NAVI] \in {m, Polling[m]}
  BY <1>1 DEF MotorStart, MotorPoll, MotorDone, At
<1>3. SERVO \in suspended /\ UNCHANGED <<suspended, status>>
  BY <1>1, <1>2, MoveLabels DEF ParkInv, Parked, Moves, MotorStart, MotorPoll, MotorDone,
     DelayThen, K!OSTimeDly, kernel
<1>4. AfterMotor(NAVI, m) \in {"left", "turn180"} /\ "left" \in Label /\ "turn180" \in Label
      /\ Polling[m] \in Label
  BY LabelUnion, MoveLabels DEF AfterMotor, SweepLabel
<1>5. PICK l \in {Polling[m], AfterMotor(NAVI, m)} : Goto(NAVI, l)
  BY <1>1 DEF MotorStart, MotorPoll, MotorDone, DelayThen
<1>6. pc'[NAVI] = l /\ HistoryDrives' /\ (Replaying' <=> Replaying)
  BY <1>4, <1>5, NaviUnretired DEF Navigation_Task
<1>7. LookingParked' /\ ParkedSweepIsAimed'
  BY <1>3, <1>4, <1>6, MoveLabels DEF LookingParked, ParkedSweepIsAimed
<1>8. ASSUME ~Replaying
      PROVE  \/ pwm' = Pins[m] /\ pc'[NAVI] = Polling[m]
             \/ pwm' = {} /\ pc'[NAVI] \in {"left", "turn180"}
  <2>1. \/ MotorStart(NAVI, m) /\ pwm = {}
        \/ (MotorPoll(NAVI, m) \/ MotorDone(NAVI, m)) /\ pwm = Pins[m]
    BY <1>1, <1>8 DEF NaviDrives, Stopped, MotorStart, MotorPoll, MotorDone, At
  <2>2. \/ pwm' = Pins[m] /\ Goto(NAVI, Polling[m])
        \/ pwm' = {} /\ Goto(NAVI, AfterMotor(NAVI, m))
    BY <2>1, MotorPins DEF Mover
  <2>3. QED
    BY <1>4, <2>2, GotoOnly, TaskNames DEF Inv
<1>9. NaviDrives'
  <2>1. {"left", "turn180"} \cap Poll = {} /\ Poll \cap (Stopped \cup Looking) = {}
    BY PlacesApart, MoveLabels DEF Stopped, NaviLabel
  <2>2. Polling[m] \in Poll
    BY MoveLabels
  <2>3. QED
    BY <1>6, <1>8, <2>1, <2>2, PinsApart DEF NaviDrives, Poll
<1>10. QED
  BY <1>6, <1>7, <1>9

(* Looking ahead.                                                          *)
LEMMA LookingMotion ==
    ASSUME Inv, ParkInv, MotionInv, servoRotate(NAVI) \/ navigateFront(NAVI)
    PROVE  MotionInv'
<1> USE DEF MotionInv
<1>1. PICK l \in Looking \cup {"verdict", "retry"} :
         /\ Goto(NAVI, l)
         /\ l = "verdict" => status = "BLOCKED"
         /\ l = "readLeft" => aim' = "left"
         /\ l \in {"readCenter", "readAgain"} => aim' = "center"
         /\ l = "readRight" => aim' = "right"
  BY NaviLooks
<1>2. pc[NAVI] \in Looking /\ UNCHANGED <<suspended, status, pwm, leg>>
  BY NaviLooks
<1>3. l \in Label
  BY LabelUnion DEF Looking, NaviLabel
<1>4. pc'[NAVI] = l /\ HistoryDrives' /\ (Replaying' <=> Replaying)
  BY <1>1, <1>3, NaviUnretired DEF Navigation_Task
<1>5. LookingParked' /\ ParkedSweepIsAimed'
  BY <1>1, <1>2, <1>4 DEF LookingParked, ParkedSweepIsAimed
<1>6. pc[NAVI] \notin Poll /\ l \notin Poll /\ (l \in Stopped => l = "verdict")
  BY <1>2, PlacesApart DEF Stopped, NaviLabel
<1>7. NaviDrives'
  BY <1>1, <1>2, <1>4, <1>6 DEF NaviDrives, Poll
<1>8. QED
  BY <1>4, <1>5, <1>7

(* Every step keeps MotionInv.                                             *)
LEMMA MotionStep == Inv /\ ParkInv /\ MotionInv /\ [Next]_vars => MotionInv'
<1> SUFFICES ASSUME Inv, ParkInv, MotionInv, [Next]_vars PROVE MotionInv'
  OBVIOUS
<1>1. CASE Navigation_Task /\ ~motorGo(NAVI) /\ ~servoRotate(NAVI) /\ ~navigateFront(NAVI)
  <2> USE DEF MotionInv
  <2>1. PICK l \in NaviLabel \cup Movement \cup {"left"} :
             /\ Goto(NAVI, l)
             /\ \/ /\ l \in {"pend", "pended", "stop", "ramp1"}
                   /\ pc[NAVI] \in {"pend", "pended", "verdict", "check", "retry"}
                   /\ UNCHANGED <<pwm, leg>>
                \/ /\ l \in {"closeLeg", "left"}
                   /\ pc[NAVI] \in {"stop", "check"}
                   /\ l = "left" => status = "CLEAR" /\ status' = "CLEAR"
                   /\ pwm' = {}
                \/ /\ l \in {"park", "center", "decide", "left"} \cup Movement
                   /\ pc[NAVI] \in {"closeLeg", "park", "center", "decide"}
                   /\ l = "left" => SERVO \in suspended /\ UNCHANGED suspended
                   /\ UNCHANGED pwm
                \/ /\ l \in {"ramp2", "ramp3", "check"}
                   /\ pc[NAVI] \in {"ramp1", "ramp2", "ramp3"}
                   /\ pwm' = pwm \cup Pins["forward"] /\ leg' = TRUE
    BY <1>1, NaviGoes
  <2>2. l \in Label
    BY LabelUnion DEF SweepLabel
  <2>3. pc'[NAVI] = l /\ HistoryDrives' /\ (Replaying' <=> Replaying)
    BY <1>1, <2>1, <2>2, NaviUnretired
  <2>4. l \notin Poll /\ pc[NAVI] \notin Poll
    BY <2>1, PlacesApart DEF Looking, SweepLabel, NaviLabel
  <2>5. (l \in Looking => l = "left") /\ l # "verdict" /\ "left" \notin Stopped
    BY <2>1, PlacesApart, MoveLabels DEF Looking, SweepLabel, JudgeLabel, Stopped
  <2>6. LookingParked' /\ ParkedSweepIsAimed'
    BY <2>1, <2>3, <2>5 DEF LookingParked, ParkedSweepIsAimed, Looking, SweepLabel
  <2>7. ASSUME ~Replaying
        PROVE  /\ l \in Stopped \cup {"left"} => pwm' = {}
               /\ pwm' \subseteq {0, 2} /\ (pwm' # {} => leg')
    <3>1. pwm \subseteq {0, 2} /\ (pwm # {} => leg)
      BY <2>4, <2>7 DEF NaviDrives
    <3>2. CASE l \in {"pend", "pended", "stop", "ramp1"} /\ UNCHANGED <<pwm, leg>>
      BY <3>1, <3>2, MoveLabels DEF Stopped
    <3>3. CASE pwm' = {}
      BY <3>3
    <3>4. CASE pc[NAVI] \in {"closeLeg", "park", "center", "decide"} /\ UNCHANGED pwm
      BY <2>7, <3>4 DEF NaviDrives, Stopped
    <3>5. CASE /\ l \in {"ramp2", "ramp3", "check"}
               /\ pwm' = pwm \cup Pins["forward"] /\ leg' = TRUE
      BY <3>1, <3>5, PinsApart, MoveLabels DEF Stopped
    <3>6. QED
      BY <2>1, <3>2, <3>3, <3>4, <3>5
  <2>8. NaviDrives'
    BY <2>3, <2>4, <2>5, <2>7 DEF NaviDrives, Poll
  <2>9. QED
    BY <2>3, <2>6, <2>8
<1>2. CASE motorGo(NAVI)
  BY <1>2, MovingMotion
<1>3. CASE servoRotate(NAVI) \/ navigateFront(NAVI)
  BY <1>3, LookingMotion
<1>4. CASE Servo_Task
  BY <1>4, ServoMotion
<1>5. CASE Encoder_Task \/ Tick \/ UNCHANGED vars
  BY <1>5, BystanderMotion
<1>6. CASE History_Task
  BY <1>6, HistoryMotion
<1>7. QED
  BY <1>1, <1>2, <1>3, <1>4, <1>5, <1>6 DEF Next

(* The motors are off and nobody is retired in the state main() leaves.    *)
LEMMA MotionInit == Init => MotionInv
<1> SUFFICES ASSUME Init PROVE MotionInv
  OBVIOUS
<1>1. pc[NAVI] = "pend" /\ pc[HISTORY] = "boot" /\ suspended = {} /\ pwm = {}
  BY DEF Init, K!Init, NAVI, HISTORY
<1>2. "pend" \notin Looking \cup Poll
  BY PlacesApart DEF NaviLabel
<1>3. QED
  BY <1>1, <1>2 DEF MotionInv, LookingParked, ParkedSweepIsAimed, NaviDrives, HistoryDrives, Poll

(* The strengthening holds in every state.                                 *)
THEOREM MotionInvCorrect == Spec => [](Inv /\ ParkInv /\ MotionInv)
BY MotionInit, MotionStep, ParkInvCorrect, PTL DEF Spec

(* What NaviDrives says of the motors.                                     *)
LEMMA DrivesOneWay == NaviDrives => NoCrossDrive /\ RecordedMotion
<1>1. CASE pc[NAVI] \in Poll
  BY <1>1, PinsApart DEF NaviDrives, NoCrossDrive, RecordedMotion, Poll
<1>2. CASE pc[NAVI] \notin Poll
  BY <1>2 DEF NaviDrives, NoCrossDrive, RecordedMotion
<1>3. QED
  BY <1>1, <1>2

(* And HistoryDrives.                                                      *)
LEMMA RetiredDrivesAlone == HistoryDrives => QuietAfterRetirement
<1>1. CASE pc[HISTORY] \in Poll
  BY <1>1, PinsApart DEF HistoryDrives, QuietAfterRetirement, Poll
<1>2. CASE pc[HISTORY] \notin Poll
  BY <1>2 DEF HistoryDrives, QuietAfterRetirement
<1>3. QED
  BY <1>1, <1>2

(* Until the replay no motor is driven both ways at once, though every     *)
(* movement sets only its own inputs (motors.c; nav.c 96-160).             *)
THEOREM NoCrossDriveAlways == Spec => []NoCrossDrive
BY MotionInvCorrect, DrivesOneWay, PTL DEF MotionInv

(* Until the replay nothing moves off the record: on an open leg or in a   *)
(* movement (nav.c 96-160).                                                *)
THEOREM RecordedMotionAlways == Spec => []RecordedMotion
BY MotionInvCorrect, DrivesOneWay, PTL DEF MotionInv

(* A sweep of Navigation_Task on FRONT_IS_BLOCKED reads each direction     *)
(* with the servo turned there (nav.c 319-341).                            *)
THEOREM ParkedSweepIsAimedAlways == Spec => []ParkedSweepIsAimed
BY MotionInvCorrect, PTL DEF MotionInv

(* The replay that follows the retirement of both tasks drives alone and   *)
(* no motor both ways (nav.c 247-254).                                     *)
THEOREM QuietAfterRetirementAlways == Spec => []QuietAfterRetirement
BY MotionInvCorrect, RetiredDrivesAlone, PTL DEF MotionInv

-----------------------------------------------------------------------------
(* Every step passes the baton on as Baton allows, or leaves it where it is. *)

BatonMoves == B!Next \/ UNCHANGED <<holder, command>>

(* Where the baton is, case by case.                                       *)
LEMMA HolderCases ==
    /\ ~NaviIdle => holder = "handled" /\ command = status
    /\ NaviIdle /\ Delivered => holder = "posted" /\ command = mail[NAVI]
    /\ NaviIdle /\ ~Delivered /\ queue # <<>> => holder = "posted" /\ command = Head(queue)
    /\ NaviIdle /\ ~Delivered /\ queue = <<>> /\ ServoHolds =>
         holder = "claimed" /\ command = "none"
    /\ NaviIdle /\ ~Delivered /\ queue = <<>> /\ ~ServoHolds /\ SYSTEM_STATUS = "FREE" =>
         holder = "free" /\ command = "none"
    /\ NaviIdle /\ ~Delivered /\ queue = <<>> /\ ~ServoHolds /\ SYSTEM_STATUS # "FREE" =>
         holder = "kept" /\ command = "none"
BY DEF holder, command

(* The same of the next state.                                             *)
LEMMA HolderCasesNext ==
    /\ ~NaviIdle' => holder' = "handled" /\ command' = status'
    /\ NaviIdle' /\ Delivered' => holder' = "posted" /\ command' = mail'[NAVI]
    /\ NaviIdle' /\ ~Delivered' /\ queue' # <<>> =>
         holder' = "posted" /\ command' = Head(queue')
    /\ NaviIdle' /\ ~Delivered' /\ queue' = <<>> /\ ServoHolds' =>
         holder' = "claimed" /\ command' = "none"
    /\ NaviIdle' /\ ~Delivered' /\ queue' = <<>> /\ ~ServoHolds' /\ SYSTEM_STATUS' = "FREE" =>
         holder' = "free" /\ command' = "none"
    /\ NaviIdle' /\ ~Delivered' /\ queue' = <<>> /\ ~ServoHolds' /\ SYSTEM_STATUS' # "FREE" =>
         holder' = "kept" /\ command' = "none"
BY DEF holder, command

(* A step that keeps each task on its side of the protocol moves nothing.  *)
LEMMA BatonRests ==
    ASSUME UNCHANGED <<queue, mail, status>>,
           NaviIdle' <=> NaviIdle, ServoHolds' <=> ServoHolds,
           UNCHANGED SYSTEM_STATUS \/ ServoHolds
    PROVE  UNCHANGED <<holder, command>>
BY DEF holder, command, Delivered

(* The moves of Baton.                                                     *)
LEMMA BatonNext ==
    /\ holder = "free" /\ holder' = "claimed" /\ command' = command => B!Next
    /\ holder = "claimed" /\ holder' = "posted" /\ command' \in Message => B!Next
    /\ holder = "posted" /\ holder' = "handled" /\ command' = command => B!Next
    /\ holder = "handled" /\ holder' = "posted" /\ command' = command => B!Next
    /\ holder = "handled" /\ holder' = "free" /\ command' = "none" => B!Next
    /\ holder = "free" /\ holder' = "kept" /\ command' = command => B!Next
BY DEF B!Next, B!Claim, B!Post, B!Take, B!Repeat, B!Release, B!Keep, B!Move

-----------------------------------------------------------------------------
(* Servo_Task claims the baton and posts it.                               *)
LEMMA ServoMovesBaton ==
    ASSUME Inv, Servo_Task
    PROVE  BatonMoves
<1> USE DEF Inv
<1>1. UNCHANGED status
  BY DEF Servo_Task, ServoBoot, servoRotate, AimLeft, ReadLeft, ReadCenter, ReadRight,
     ReadAgain, navigateFront, JudgeStop, JudgeFull, TestFree, Claim, M_allStop, Post
<1>2. \E l \in SweepLabel \cup JudgeLabel : Goto(SERVO, l)
  BY DEF Servo_Task, ServoBoot, servoRotate, AimLeft, ReadLeft, ReadCenter, ReadRight,
     ReadAgain, navigateFront, JudgeStop, JudgeFull, TestFree, Claim, M_allStop, Post,
     DelayThen, AfterSweep, SweepLabel, JudgeLabel
<1>3. /\ \A l \in Label : Goto(SERVO, l) => pc'[SERVO] = l
      /\ NaviIdle' <=> NaviIdle
  BY <1>2, GotoOnly, LabelUnion, TaskNames DEF NaviIdle
<1>4. ASSUME NEW from \in {"claimClear", "stopBlocked", "claimBlocked"},
             NEW then \in {"postClear", "claimBlocked", "postBlocked"},
             Claim(SERVO, from, then) \/ M_allStop(SERVO, from, then)
      PROVE  BatonMoves
  <2>1. pc[SERVO] = from /\ pc'[SERVO] = then
    BY <1>3, <1>4, LabelUnion DEF Claim, M_allStop, At, DelayThen, JudgeLabel
  <2>2. ServoHolds /\ ServoHolds'
    BY <2>1 DEF ServoHolds
  <2>3. UNCHANGED <<queue, mail>>
    BY <1>4, QuietServices DEF Claim, M_allStop, DelayThen
  <2>4. QED
    BY <1>1, <1>3, <2>2, <2>3, BatonRests DEF BatonMoves
<1>5. ASSUME NEW from \in {"testClear", "testBlocked"},
             NEW then \in {"claimClear", "stopBlocked"}, TestFree(SERVO, from, then)
      PROVE  BatonMoves
  <2>1. UNCHANGED <<queue, mail, SYSTEM_STATUS>> /\ ~ServoHolds
    BY <1>5 DEF TestFree, kernel, At, ServoHolds
  <2>2. CASE SYSTEM_STATUS = "FREE"
    <3>1. pc'[SERVO] = then
      BY <1>3, <1>5, <2>2, LabelUnion DEF TestFree, JudgeLabel
    <3>2. ServoHolds'
      BY <3>1 DEF ServoHolds
    <3>3. NaviIdle /\ queue = <<>> /\ ~Delivered
      BY <2>2 DEF TokenInv, OneCommand
    <3>4. holder = "free" /\ holder' = "claimed" /\ command' = command
      BY <1>3, <2>1, <2>2, <3>2, <3>3, HolderCases, HolderCasesNext DEF Delivered
    <3>5. QED
      BY <3>4, BatonNext DEF BatonMoves
  <2>3. CASE SYSTEM_STATUS # "FREE"
    <3>1. pc'[SERVO] = "left"
      BY <1>3, <1>5, <2>3, LabelUnion DEF TestFree, AfterSweep, SweepLabel
    <3>2. ~ServoHolds'
      BY <3>1 DEF ServoHolds
    <3>3. QED
      BY <1>1, <1>3, <2>1, <3>2, BatonRests DEF BatonMoves
  <2>4. QED
    BY <2>2, <2>3
<1>6. ASSUME NEW from \in {"postClear", "postBlocked"}, NEW m \in Message,
             Post(SERVO, from, m, AfterSweep(SERVO))
      PROVE  BatonMoves
  <2>1. ServoHolds /\ K!OSQPost(m)
    BY <1>6 DEF Post, At, ServoHolds
  <2>2. NaviIdle /\ queue = <<>> /\ ~Delivered
    BY <2>1 DEF TokenInv, OneCommand
  <2>3. \/ queue' = <<>> /\ mail'[NAVI] = m
        \/ queue' = <<m>> /\ mail' = mail
    BY <2>1, <2>2, PostAlone DEF TokenInv
  <2>4. m # "none"
    BY DEF Message
  <2>5. holder = "claimed"
    BY <2>1, <2>2, HolderCases
  <2>6. CASE queue' = <<>> /\ mail'[NAVI] = m
    <3>1. holder' = "posted" /\ command' = m
      BY <1>3, <2>2, <2>4, <2>6, HolderCasesNext DEF Delivered
    <3>2. QED
      BY <2>5, <3>1, BatonNext DEF BatonMoves
  <2>7. CASE queue' = <<m>> /\ mail' = mail
    <3>1. queue' # <<>> /\ Head(queue') = m
      BY <2>7
    <3>2. holder' = "posted" /\ command' = m
      BY <1>3, <2>2, <2>7, <3>1, HolderCasesNext DEF Delivered
    <3>3. QED
      BY <2>5, <3>2, BatonNext DEF BatonMoves
  <2>8. QED
    BY <2>3, <2>6, <2>7
<1>7. CASE ServoBoot \/ servoRotate(SERVO) \/ JudgeStop(SERVO) \/ JudgeFull(SERVO)
  <2>1. UNCHANGED <<queue, mail, SYSTEM_STATUS>>
    BY <1>7, QuietServices DEF ServoBoot, servoRotate, AimLeft, ReadLeft, ReadCenter,
       ReadRight, ReadAgain, JudgeStop, JudgeFull, DelayThen, kernel
  <2>2. ~ServoHolds
    BY <1>7 DEF ServoBoot, servoRotate, AimLeft, ReadLeft, ReadCenter, ReadRight, ReadAgain,
       JudgeStop, JudgeFull, At, ServoHolds
  <2>3. \E l \in SweepLabel \cup {"judgeStop", "judgeFull", "testClear", "testBlocked"} :
           Goto(SERVO, l)
    BY <1>7 DEF ServoBoot, servoRotate, AimLeft, ReadLeft, ReadCenter, ReadRight, ReadAgain,
       JudgeStop, JudgeFull, DelayThen, AfterSweep, SweepLabel
  <2>4. pc'[SERVO] \in SweepLabel \cup {"judgeStop", "judgeFull", "testClear", "testBlocked"}
    BY <1>3, <2>3, LabelUnion DEF JudgeLabel
  <2>5. ~ServoHolds'
    BY <2>4 DEF ServoHolds, SweepLabel
  <2>6. QED
    BY <1>1, <1>3, <2>1, <2>2, <2>5, BatonRests DEF BatonMoves
<1>8. QED
  BY <1>4, <1>5, <1>6, <1>7 DEF Servo_Task, navigateFront, Message

(* Navigation_Task takes the baton and, at the end of the handling, gives  *)
(* it up or puts the same command back.                                    *)
LEMMA NaviMovesBaton ==
    ASSUME Inv, ParkInv, ParkInv', Navigation_Task
    PROVE  BatonMoves
<1> USE DEF Inv
<1>1. CASE NaviPend
  <2>1. pc[NAVI] = "pend" /\ pc'[NAVI] = "pended" /\ pc'[SERVO] = pc[SERVO]
    BY <1>1, GotoOnly, LabelUnion, TaskNames DEF NaviPend, At, NaviLabel
  <2>2. NaviIdle /\ NaviIdle' /\ ~Delivered /\ (ServoHolds' <=> ServoHolds)
    BY <2>1 DEF NaviIdle, TokenInv, OnlyNaviWaits, ServoHolds
  <2>3. UNCHANGED <<SYSTEM_STATUS, status>>
    BY <1>1 DEF NaviPend
  <2>4. CASE queue = <<>>
    <3>1. UNCHANGED <<queue, mail>>
      BY <1>1, <2>4 DEF NaviPend, K!OSQPend
    <3>2. QED
      BY <2>2, <2>3, <3>1, BatonRests DEF BatonMoves
  <2>5. CASE queue # <<>>
    <3>1. Head(queue) \in Message
      BY <2>5 DEF TypeOK, K!TypeOK
    <3>2. mail' = [mail EXCEPT ![NAVI] = Head(queue)]
      BY <1>1, <2>5 DEF NaviPend, K!OSQPend
    <3>3. mail'[NAVI] = Head(queue) /\ Delivered'
      BY <3>1, <3>2, TaskNames DEF TypeOK, K!TypeOK, Delivered, Message
    <3>4. holder = "posted" /\ holder' = "posted" /\ command' = command
      BY <2>2, <2>5, <3>3, HolderCases, HolderCasesNext
    <3>5. QED
      BY <3>4 DEF BatonMoves
  <2>6. QED
    BY <2>4, <2>5
<1>2. CASE NaviReceive
  <2>1. PICK l \in {"stop", "ramp1"} : Goto(NAVI, l)
    BY <1>2 DEF NaviReceive
  <2>2. pc'[NAVI] = l
    BY <2>1, GotoOnly, LabelUnion, TaskNames DEF NaviLabel
  <2>3. NaviIdle /\ ~NaviIdle'
    BY <1>2, <2>1, <2>2 DEF NaviIdle, NaviReceive, At
  <2>4. Delivered /\ status' = mail[NAVI]
    BY <1>2 DEF NaviReceive, K!OSQReturn, Delivered
  <2>5. holder = "posted" /\ holder' = "handled" /\ command' = command
    BY <2>3, <2>4, HolderCases, HolderCasesNext
  <2>6. QED
    BY <2>5, BatonNext DEF BatonMoves
<1>3. ASSUME ~NaviIdle, UNCHANGED status, ~NaviIdle'
      PROVE  BatonMoves
  BY <1>3, HolderCases, HolderCasesNext DEF BatonMoves
<1>4. ASSUME NEW from \in {"verdict", "check", "retry"}, At(NAVI, from), UNCHANGED status,
             Goto(NAVI, "pend"),
             \/ SYSTEM_STATUS' = "FREE" /\ UNCHANGED <<queue, mail>>
             \/ K!OSQPost(status)
      PROVE  BatonMoves
  <2>1. ~NaviIdle
    BY <1>4 DEF NaviIdle, At
  <2>2. queue = <<>> /\ ~Delivered /\ ~ServoHolds /\ pc[NAVI] # "pended"
    BY <2>1, BusyWhileHandling DEF NaviIdle
  <2>3. pc'[NAVI] = "pend" /\ pc'[SERVO] = pc[SERVO]
    BY <1>4, GotoOnly, LabelUnion, TaskNames DEF NaviLabel
  <2>4. NaviIdle' /\ ~ServoHolds'
    BY <2>2, <2>3 DEF NaviIdle, ServoHolds
  <2>5. holder = "handled" /\ command = status
    BY <2>1, HolderCases
  <2>6. CASE SYSTEM_STATUS' = "FREE" /\ UNCHANGED <<queue, mail>>
    <3>1. holder' = "free" /\ command' = "none"
      BY <2>2, <2>4, <2>6, HolderCasesNext DEF Delivered
    <3>2. QED
      BY <2>5, <3>1, BatonNext DEF BatonMoves
  <2>7. CASE K!OSQPost(status)
    <3>1. queue' = <<status>> /\ mail' = mail
      <4> DEFINE m == status
      <4>1. m \in Message
        BY DEF TypeOK
      <4>2. QED
        BY <2>2, <2>7, <4>1, PostAlone DEF TokenInv
    <3>2. queue' # <<>> /\ Head(queue') = status
      BY <3>1
    <3>3. holder' = "posted" /\ command' = status
      BY <2>2, <2>4, <3>1, <3>2, HolderCasesNext DEF Delivered
    <3>4. QED
      BY <2>5, <3>3, BatonNext DEF BatonMoves
  <2>8. QED
    BY <1>4, <2>6, <2>7
<1>5. CASE NaviVerdict \/ NaviCheck \/ Post(NAVI, "retry", "CLEAR", "pend")
  <2>1. PICK from \in {"verdict", "check", "retry"} : At(NAVI, from)
    BY <1>5 DEF NaviVerdict, NaviCheck, Post
  <2>2. UNCHANGED status /\ ~NaviIdle
    BY <1>5 DEF NaviVerdict, NaviCheck, Post, At, NaviIdle
  <2>3. CASE NaviVerdict
    <3>1. status = "BLOCKED"
      BY <2>3 DEF NaviVerdict, At, ParkInv, StatusAtPlace, BlockedLabel
    <3>2. /\ Goto(NAVI, "pend")
          /\ \/ SYSTEM_STATUS' = "FREE" /\ UNCHANGED <<queue, mail>>
             \/ K!OSQPost(status)
      BY <2>3, <3>1, QuietServices DEF NaviVerdict, Release
    <3>3. QED
      BY <1>4, <2>1, <2>2, <3>2
  <2>4. CASE Post(NAVI, "retry", "CLEAR", "pend")
    <3>1. status = "CLEAR"
      BY <2>4 DEF Post, At, ParkInv, StatusAtPlace, ClearLabel
    <3>2. Goto(NAVI, "pend") /\ K!OSQPost(status)
      BY <2>4, <3>1 DEF Post
    <3>3. QED
      BY <1>4, <2>1, <2>2, <3>2
  <2>5. CASE NaviCheck
    <3>1. CASE Release
      BY <1>4, <2>1, <2>2, <3>1, QuietServices DEF Release
    <3>2. CASE ~Release
      <4>1. Goto(NAVI, "left")
        BY <2>5, <3>2 DEF NaviCheck, DelayThen
      <4>2. ~NaviIdle'
        BY <4>1, GotoOnly, LabelUnion, TaskNames DEF SweepLabel, NaviIdle
      <4>3. QED
        BY <1>3, <2>2, <4>2
    <3>3. QED
      BY <3>1, <3>2
  <2>6. QED
    BY <1>5, <2>3, <2>4, <2>5
<1>6. CASE ~ (NaviPend \/ NaviReceive \/ NaviVerdict \/ NaviCheck
              \/ Post(NAVI, "retry", "CLEAR", "pend"))
  <2>1. pc[NAVI] \notin {"pend", "pended"} /\ UNCHANGED status
    BY <1>6, MoveLabels DEF Navigation_Task, M_allStop, NaviCloseLeg, NaviPark, NaviCenter,
       NaviDecide, motorGo, MotorStart, MotorPoll, MotorDone, servoRotate, AimLeft, ReadLeft,
       ReadCenter, ReadRight, ReadAgain, navigateFront, JudgeStop, JudgeFull, TestFree, Claim,
       Post, NaviRamp, At, Poll
  <2>2. PICK l \in Label \ {"pend", "pended"} : Goto(NAVI, l)
    <3> DEFINE S == Movement \cup Poll \cup SweepLabel \cup JudgeLabel
                    \cup (NaviLabel \ {"pend", "pended"})
    <3>1. S \subseteq Label \ {"pend", "pended"}
      <4>1. Poll \subseteq Label
        BY LabelUnion DEF Poll
      <4>2. QED
        BY <4>1, LabelUnion, LabelsApart
    <3>2. \/ M_allStop(NAVI, "stop", "closeLeg") \/ NaviCloseLeg \/ NaviPark
          \/ NaviCenter \/ NaviDecide
          \/ \E from \in {"ramp1", "ramp2", "ramp3"}, then \in {"ramp2", "ramp3", "check"} :
               NaviRamp(from, then)
          => \E l \in S : Goto(NAVI, l)
      BY MoveLabels DEF M_allStop, NaviCloseLeg, NaviPark, NaviCenter, NaviDecide,
         ChooseTurn, NaviRamp, DelayThen, SweepLabel, NaviLabel
    <3>3. motorGo(NAVI) => \E l \in S : Goto(NAVI, l)
      <4>1. \A m : AfterMotor(NAVI, m) \in S
        BY MoveLabels DEF AfterMotor, SweepLabel
      <4>2. QED
        BY <4>1, MoveLabels DEF motorGo, MotorStart, MotorPoll, MotorDone, DelayThen
    <3>4. servoRotate(NAVI) \/ navigateFront(NAVI) => \E l \in S : Goto(NAVI, l)
      <4>1. AfterSweep(NAVI) \in S
        BY TaskNames DEF AfterSweep, NaviLabel
      <4>2. servoRotate(NAVI) => \E l \in SweepLabel \cup JudgeLabel : Goto(NAVI, l)
        BY DEF servoRotate, AimLeft, ReadLeft, ReadCenter, ReadRight, ReadAgain, DelayThen,
           SweepLabel, JudgeLabel
      <4>3. navigateFront(NAVI) => \E l \in JudgeLabel \cup {AfterSweep(NAVI)} : Goto(NAVI, l)
        BY DEF navigateFront, JudgeStop, JudgeFull, TestFree, Claim, M_allStop, Post,
           DelayThen, JudgeLabel
      <4>4. QED
        BY <4>1, <4>2, <4>3
    <3>5. QED
      BY <1>6, <3>1, <3>2, <3>3, <3>4 DEF Navigation_Task
  <2>3. ~NaviIdle /\ ~NaviIdle'
    BY <2>1, <2>2, GotoOnly, TaskNames DEF NaviIdle
  <2>4. QED
    BY <1>3, <2>1, <2>3
<1>7. QED
  BY <1>1, <1>2, <1>5, <1>6


(* History_Task may keep a baton nobody holds.                             *)
LEMMA HistoryMovesBaton ==
    ASSUME Inv, History_Task
    PROVE  BatonMoves
<1> USE DEF Inv
<1>1. UNCHANGED <<queue, mail, status>> /\ (UNCHANGED SYSTEM_STATUS \/ SYSTEM_STATUS' = "BUSY")
  <2>1. UNCHANGED status /\ (UNCHANGED SYSTEM_STATUS \/ SYSTEM_STATUS' = "BUSY")
    BY DEF History_Task, Sleep, HistoryEval, Claim, M_allStop, motorGo, MotorStart, MotorPoll,
       MotorDone, HistoryStep, Retire
  <2>2. UNCHANGED <<queue, mail>>
    BY QuietServices DEF History_Task, Sleep, HistoryEval, Claim, M_allStop, motorGo,
       MotorStart, MotorPoll, MotorDone, HistoryStep, Retire, DelayThen
  <2>3. QED
    BY <2>1, <2>2
<1>2. UNCHANGED <<pc[NAVI], pc[SERVO]>>
  <2>1. \A m \in Movement : Polling[m] \in Label /\ AfterMotor(HISTORY, m) \in Label
    BY MoveLabels, LabelUnion, TaskNames DEF AfterMotor, HistoryLabel
  <2>2. motorGo(HISTORY) => \E l \in Label : Goto(HISTORY, l)
    BY <2>1 DEF motorGo, MotorStart, MotorPoll, MotorDone, DelayThen
  <2>3. \E l \in Label : Goto(HISTORY, l)
    <3>1. CASE motorGo(HISTORY)
      BY <2>2, <3>1
    <3>2. CASE ~ motorGo(HISTORY)
      <4>1. \E l \in HistoryLabel \cup Movement : Goto(HISTORY, l)
        BY <3>2, MoveLabels, RoverAssumption DEF History_Task, Sleep, HistoryEval, Claim,
           M_allStop, HistoryStep, Retire, DelayThen, HistoryLabel
      <4>2. QED
        BY <4>1, LabelUnion
    <3>3. QED
      BY <3>1, <3>2
  <2>4. QED
    BY <2>3, GotoOnly, TaskNames
<1>3. (NaviIdle' <=> NaviIdle) /\ (ServoHolds' <=> ServoHolds)
  BY <1>2 DEF NaviIdle, ServoHolds
<1>4. CASE UNCHANGED SYSTEM_STATUS
  BY <1>1, <1>3, <1>4, BatonRests DEF BatonMoves
<1>5. CASE SYSTEM_STATUS' = "BUSY" /\ SYSTEM_STATUS = "FREE"
  <2>1. NaviIdle /\ queue = <<>> /\ ~Delivered
    BY <1>5 DEF TokenInv, OneCommand
  <2>2. CASE ServoHolds
    BY <1>1, <1>3, <2>2, BatonRests DEF BatonMoves
  <2>3. CASE ~ServoHolds
    <3>1. holder = "free" /\ holder' = "kept" /\ command' = command
      BY <1>1, <1>3, <1>5, <2>1, <2>3, HolderCases, HolderCasesNext DEF Delivered
    <3>2. QED
      BY <3>1, BatonNext DEF BatonMoves
  <2>4. QED
    BY <2>2, <2>3
<1>6. QED
  BY <1>1, <1>4, <1>5 DEF TypeOK

(* Every step of the system is a step of the baton, or leaves it.          *)
LEMMA BatonStep ==
    ASSUME Inv, ParkInv, ParkInv', [Next]_vars
    PROVE  BatonMoves
<1>1. CASE Encoder_Task \/ Tick \/ UNCHANGED vars
  <2>1. UNCHANGED <<queue, mail, status, SYSTEM_STATUS>>
    BY <1>1, QuietServices DEF Encoder_Task, Sleep, EncoderCount, DelayThen, Tick, vars, kernel
  <2>2. UNCHANGED pc \/ Goto(ENCODER, "count")
    BY <1>1 DEF Encoder_Task, Sleep, EncoderCount, DelayThen, Tick, vars
  <2>3. UNCHANGED <<pc[NAVI], pc[SERVO]>>
    BY <2>2, GotoOnly, LabelUnion, TaskNames DEF Inv
  <2>4. (NaviIdle' <=> NaviIdle) /\ (ServoHolds' <=> ServoHolds)
    BY <2>3 DEF NaviIdle, ServoHolds
  <2>5. QED
    BY <2>1, <2>4, BatonRests DEF BatonMoves
<1>2. QED
  BY <1>1, ServoMovesBaton, NaviMovesBaton, HistoryMovesBaton DEF Next

(* The state main() leaves is one with a free baton.                       *)
LEMMA BatonInit == Init => B!Init
<1> SUFFICES ASSUME Init PROVE B!Init
  OBVIOUS
<1>1. NaviIdle /\ ~ServoHolds /\ SYSTEM_STATUS = "FREE"
  BY DEF Init, NaviIdle, ServoHolds, NAVI, SERVO
<1>2. queue = <<>> /\ ~Delivered
  BY TaskNames DEF Init, K!Init, Delivered
<1>3. QED
  BY <1>1, <1>2, HolderCases DEF B!Init

(* SYSTEM_STATUS, MainQueue and the tasks that use them (nav.c 61, 77,     *)
(* 141-151, 163-178, 247, 353-368) implement the baton.                    *)
THEOREM BatonImplemented == Spec => BatonSpec
<1>1. Inv /\ ParkInv /\ (Inv /\ ParkInv)' /\ [Next]_vars => [B!Next]_<<holder, command>>
  BY BatonStep DEF BatonMoves
<1>2. QED
  BY <1>1, BatonInit, ParkInvCorrect, PTL DEF Spec, BatonSpec, B!Spec, B!baton
=============================================================================
