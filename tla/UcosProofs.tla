----------------------------- MODULE UcosProofs -----------------------------
(***************************************************************************)
(* What the kernel promises, for any tasks, messages and queue size.       *)
(***************************************************************************)
EXTENDS Ucos, TLAPS

KernelInv == TypeOK /\ NoWaitOverMessage /\ OneReasonToWait

(* The tick, and every service a running task calls, keeps the invariant.  *)
LEMMA KernelStep == KernelInv /\ [Next]_kernel => KernelInv'
<1> SUFFICES ASSUME KernelInv, [Next]_kernel PROVE KernelInv'
  OBVIOUS
<1> USE DEF KernelInv, TypeOK, NoWaitOverMessage, OneReasonToWait
<1>1. ASSUME NEW S \in SUBSET delayed, OSTimeTick(S) PROVE KernelInv'
  BY <1>1 DEF OSTimeTick
<1>2. ASSUME NEW t \in Task, Call(t) PROVE KernelInv'
  <2>1. t \notin delayed \cup pending /\ mail[t] = NoMsg
    BY <1>2 DEF Call, Running, Ready
  <2>2. CASE OSTimeDly(t)
    BY <2>1, <2>2 DEF OSTimeDly
  <2>3. CASE \E u \in Task : OSTaskSuspend(u) \/ OSTaskResume(u)
    BY <2>3 DEF OSTaskSuspend, OSTaskResume
  <2>4. ASSUME NEW m \in Msg, OSQPost(m) PROVE KernelInv'
    <3>1. CASE pending = {}
      <4>1. Append(queue, m) \in Seq(Msg)
        OBVIOUS
      <4>2. QED
        BY <2>4, <3>1, <4>1 DEF OSQPost, MostUrgent
    <3>2. CASE pending # {}
      BY <2>4, <3>2 DEF OSQPost, MostUrgent
    <3>3. QED
      BY <3>1, <3>2
  <2>5. CASE OSQPend(t)
    <3>1. CASE queue = <<>>
      BY <2>1, <2>5, <3>1 DEF OSQPend
    <3>2. CASE queue # <<>>
      <4>1. Head(queue) \in Msg /\ Tail(queue) \in Seq(Msg)
        BY <3>2
      <4>2. pending = {} /\ UNCHANGED <<delayed, suspended, pending>>
        BY <2>5, <3>2 DEF OSQPend
      <4>3. queue' = Tail(queue) /\ mail' = [mail EXCEPT ![t] = Head(queue)]
        BY <2>5, <3>2 DEF OSQPend
      <4>4. TypeOK'
        BY <4>1, <4>2, <4>3
      <4>5. OneReasonToWait'
        BY <2>1, <4>2, <4>3
      <4>6. QED
        BY <4>2, <4>4, <4>5
    <3>3. QED
      BY <3>1, <3>2
  <2>6. QED
    BY <1>2, <2>2, <2>3, <2>4, <2>5 DEF Call
<1>3. ASSUME NEW t \in Task, OSQReturn(t) PROVE KernelInv'
  BY <1>3 DEF OSQReturn
<1>4. CASE UNCHANGED kernel
  BY <1>4 DEF kernel
<1>5. QED
  BY <1>1, <1>2, <1>3, <1>4 DEF Next

(* The kernel starts with nothing blocked and an empty queue.              *)
LEMMA KernelInit == Init => KernelInv
BY DEF Init, KernelInv, TypeOK, NoWaitOverMessage, OneReasonToWait

(* The invariant holds whatever the tasks call, in whatever order.         *)
THEOREM KernelInvCorrect == Spec => []KernelInv
BY KernelInit, KernelStep, PTL DEF Spec

(* No task waits in OSQPend over a message (os_q.c 420-436, 589-607).      *)
THEOREM NoWaitOverMessageAlways == Spec => []NoWaitOverMessage
BY KernelInvCorrect, PTL DEF KernelInv

(* No task is blocked for two reasons, so that the end of a delay is never *)
(* taken for the end of a wait (os_core.c 899-912).                        *)
THEOREM OneReasonToWaitAlways == Spec => []OneReasonToWait
BY KernelInvCorrect, PTL DEF KernelInv
=============================================================================
