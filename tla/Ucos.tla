-------------------------------- MODULE Ucos --------------------------------
(***************************************************************************)
(* What the uC/OS-II services the rover calls promise to its tasks: fixed  *)
(* priority preemptive scheduling, delays, suspension and one message      *)
(* queue.  A task is ready when nothing blocks it, and the kernel runs the *)
(* ready task of highest priority (lowest number).  Tick counts are        *)
(* abstracted: a tick may end the delay of any tasks that are delayed.     *)
(* Every service is described by its effect on the kernel's state; the     *)
(* module that composes it with tasks says who calls it and when.          *)
(***************************************************************************)
EXTENDS Naturals, Sequences

CONSTANTS Task,   (* the tasks created by main()                            *)
          Prio,   (* their priorities; a lower number is more urgent        *)
          Msg,    (* the pointers posted to the queue, 0 among them         *)
          NoMsg,  (* "nothing delivered", which is not one of them          *)
          QSize   (* number of slots given to OSQCreate                     *)

ASSUME UcosAssumption ==
    /\ Prio \in [Task -> Nat]
    /\ \A t, u \in Task : Prio[t] = Prio[u] => t = u
    /\ NoMsg \notin Msg
    /\ QSize \in Nat \ {0}

VARIABLES delayed,    (* tasks whose OSTCBDly has not reached 0             *)
          suspended,  (* tasks with OS_STAT_SUSPEND set                     *)
          pending,    (* tasks waiting in OSQPend                           *)
          queue,      (* the messages held by the queue, oldest first       *)
          mail        (* per task, the message OSQPend is to return         *)

kernel == <<delayed, suspended, pending, queue, mail>>

Init ==
    /\ delayed = {}
    /\ suspended = {}
    /\ pending = {}
    /\ queue = <<>>
    /\ mail = [t \in Task |-> NoMsg]

TypeOK ==
    /\ delayed \subseteq Task
    /\ suspended \subseteq Task
    /\ pending \subseteq Task
    /\ queue \in Seq(Msg)
    /\ mail \in [Task -> Msg \cup {NoMsg}]

-----------------------------------------------------------------------------
(* The scheduler: OS_SchedNew takes the highest priority ready task.  It   *)
(* runs at the end of every service and of the tick interrupt, so a task   *)
(* executes only while no more urgent one is ready.                        *)

(* Mutant: a task that waits in OSQPend is still in the ready table. *)
Ready_WhilePending(t) == t \notin delayed \cup suspended

Ready(t) == t \notin delayed \cup suspended \cup pending

Running(t) ==
    /\ Ready(t)
    /\ \A u \in Task : Prio[u] < Prio[t] => ~Ready(u)

MostUrgent(S) == {t \in S : \A u \in S : Prio[t] <= Prio[u]}

-----------------------------------------------------------------------------
(* The services, each called by the running task. *)

(* t blocks for some positive number of ticks. *)
OSTimeDly(t) ==
    /\ delayed' = delayed \cup {t}
    /\ UNCHANGED <<suspended, pending, queue, mail>>

(* The tick interrupt decrements every delay; those in S reach 0. *)
OSTimeTick(S) ==
    /\ S \subseteq delayed
    /\ delayed' = delayed \ S
    /\ UNCHANGED <<suspended, pending, queue, mail>>

OSTaskSuspend(t) ==
    /\ suspended' = suspended \cup {t}
    /\ UNCHANGED <<delayed, pending, queue, mail>>

(* Fails, and changes nothing, when t is not suspended. *)
OSTaskResume(t) ==
    /\ suspended' = suspended \ {t}
    /\ UNCHANGED <<delayed, pending, queue, mail>>

(* Mutant: the message goes to the queue though a task waits for it. *)
OSQPost_Queues(m) ==
    /\ UNCHANGED <<delayed, suspended, pending, mail>>
    /\ queue' = IF Len(queue) < QSize THEN Append(queue, m) ELSE queue

(* A waiting task gets the message directly and the queue is not touched; *)
(* otherwise it is queued, and a full queue refuses it (OS_ERR_Q_FULL).   *)
OSQPost(m) ==
    /\ UNCHANGED <<delayed, suspended>>
    /\ \/ \E t \in MostUrgent(pending) :
            /\ pending' = pending \ {t}
            /\ mail' = [mail EXCEPT ![t] = m]
            /\ UNCHANGED queue
       \/ /\ pending = {}
          /\ queue' = IF Len(queue) < QSize THEN Append(queue, m) ELSE queue
          /\ UNCHANGED <<pending, mail>>

(* With timeout 0: the oldest message at once, or wait for one. *)
OSQPend(t) ==
    /\ UNCHANGED <<delayed, suspended>>
    /\ IF queue # <<>>
       THEN /\ mail' = [mail EXCEPT ![t] = Head(queue)]
            /\ queue' = Tail(queue)
            /\ UNCHANGED pending
       ELSE /\ pending' = pending \cup {t}
            /\ UNCHANGED <<queue, mail>>

(* OSQPend returns to its caller, which takes the message. *)
OSQReturn(t) ==
    /\ mail[t] # NoMsg
    /\ mail' = [mail EXCEPT ![t] = NoMsg]
    /\ UNCHANGED <<delayed, suspended, pending, queue>>

-----------------------------------------------------------------------------
(* The kernel under tasks that call it in any order: a task takes the      *)
(* message OSQPend gave it before it calls anything else.                  *)

Call(t) ==
    /\ Running(t)
    /\ mail[t] = NoMsg
    /\ \/ OSTimeDly(t)
       \/ \E u \in Task : OSTaskSuspend(u)
       \/ \E u \in Task : OSTaskResume(u)
       \/ \E m \in Msg : OSQPost(m)
       \/ OSQPend(t)

Next ==
    \/ \E S \in SUBSET delayed : OSTimeTick(S)
    \/ \E t \in Task : Call(t)
    \/ \E t \in Task : Running(t) /\ OSQReturn(t)

Spec == Init /\ [][Next]_kernel

-----------------------------------------------------------------------------
(* What the tasks rely on. *)

(* No task waits in OSQPend while the queue holds a message: a post and a  *)
(* wait that cross each other are not lost (os_q.c 420-436, 589-607).      *)
NoWaitOverMessage == pending # {} => queue = <<>>

(* A task is blocked for one reason at a time: a delay in a task that      *)
(* waits for a message would be taken for a timeout by OSTimeTick, which   *)
(* would make OSQPend return 0, the value of FRONT_IS_BLOCKED (os_core.c   *)
(* 899-912); and a task that was given a message is no longer blocked.     *)
OneReasonToWait ==
    /\ delayed \cap pending = {}
    /\ \A t \in Task : mail[t] # NoMsg => t \notin delayed \cup pending

=============================================================================
