----------------------------- MODULE UcosEvents -----------------------------
(***************************************************************************)
(* Semaphores (os_sem.c), mailboxes (os_mbox.c), message queues (os_q.c)   *)
(* and the wait for several of them (os_core.c).  What an event control    *)
(* block holds, ecb[e].obj, is the count of a semaphore, the message of a  *)
(* mailbox, or the ring of a queue: its slots with the indices at which    *)
(* the next message is written (OSQIn) and read (OSQOut).                  *)
(***************************************************************************)
EXTENDS UcosCore, Sequences

CONSTANTS MaxCnt,   (* the greatest count of a semaphore (65535 in C) *)
          QSize     (* the number of slots given to OSQCreate         *)

ASSUME EventsAssumption ==
    /\ MaxCnt \in Nat \ {0}
    /\ QSize \in Nat \ {0}

Type(e) == ecb[e].type

(* Every pend: refused with the scheduler locked, or of a wrong type. *)
MayPend(t, e, type) == Runs(t) /\ OSLockNesting = 0 /\ Type(e) = type

(* The call that has to wait. *)
Block(t, e, ticks) ==
    /\ EventTaskWait(t, {Type(e)}, {e}, FALSE, ticks)
    /\ ecb' = Waits(ecb, {e}, tcb[t].prio)
    /\ UNCHANGED <<OSTCBPrioTbl, OSLockNesting>>
    /\ OS_Sched

(* The contents of e change, and nothing else. *)
Becomes(e, obj) ==
    /\ ecb' = [ecb EXCEPT ![e].obj = obj]
    /\ UNCHANGED <<tcb, OSTCBPrioTbl, OSRdyTbl, OSTCBCur, OSPrioCur, OSLockNesting>>

(* A post finds a waiter: the most urgent one, or all with BROADCAST. *)
Hand(e, msg, all, sched) ==
    /\ ecb[e].wait # {}
    /\ EventTaskRdy(e, IF all THEN ecb[e].wait ELSE NextWaiter(e),
                    "OK", msg, Type(e), ecb[e].obj, sched)

-----------------------------------------------------------------------------
(* Semaphores. *)

OSSemCreate(e, cnt) == EventCreate(e, "SEM", cnt)
OSSemDel(e, always) == EventDel(e, "SEM", always)
OSSemPendAbort(e, broadcast) == EventPendAbort(e, "SEM", broadcast)

OSSemPend(t, e, ticks) ==
    /\ MayPend(t, e, "SEM")
    /\ \/ ecb[e].obj > 0 /\ Becomes(e, ecb[e].obj - 1) /\ UNCHANGED call
       \/ ecb[e].obj = 0 /\ Block(t, e, ticks)

OSSemAccept(e) ==
    /\ Type(e) = "SEM" /\ ecb[e].obj > 0
    /\ Becomes(e, ecb[e].obj - 1)
    /\ UNCHANGED call

OSSemPost(e) ==
    /\ Type(e) = "SEM"
    /\ \/ Hand(e, Null, FALSE, TRUE)
       \/ ecb[e].wait = {} /\ ecb[e].obj < MaxCnt /\ Becomes(e, ecb[e].obj + 1) /\ UNCHANGED call

(* Refused when tasks wait and the count is 0. *)
OSSemSet(e, cnt) ==
    /\ Type(e) = "SEM"
    /\ ecb[e].obj > 0 \/ ecb[e].wait = {}
    /\ Becomes(e, cnt)
    /\ UNCHANGED call

OSSemQuery(e) == [OSCnt |-> ecb[e].obj, OSEventTbl |-> ecb[e].wait]

-----------------------------------------------------------------------------
(* Mailboxes: one message, Null when there is none. *)

OSMboxCreate(e, msg) == EventCreate(e, "MBOX", msg)
OSMboxDel(e, always) == EventDel(e, "MBOX", always)
OSMboxPendAbort(e, broadcast) == EventPendAbort(e, "MBOX", broadcast)

OSMboxPend(t, e, ticks) ==
    /\ MayPend(t, e, "MBOX")
    /\ \/ /\ ecb[e].obj # Null
          /\ Becomes(e, Null)
          /\ call' = [call EXCEPT ![t].pmsg = ecb[e].obj]
       \/ ecb[e].obj = Null /\ Block(t, e, ticks)

OSMboxAccept(e) ==
    /\ Type(e) = "MBOX" /\ ecb[e].obj # Null
    /\ Becomes(e, Null)
    /\ UNCHANGED call

OSMboxPost(e, msg) ==
    /\ Type(e) = "MBOX"
    /\ \/ Hand(e, msg, FALSE, TRUE)
       \/ ecb[e].wait = {} /\ ecb[e].obj = Null /\ Becomes(e, msg) /\ UNCHANGED call

OSMboxPostOpt(e, msg, all, sched) ==
    /\ Type(e) = "MBOX"
    /\ \/ Hand(e, msg, all, sched)
       \/ ecb[e].wait = {} /\ ecb[e].obj = Null /\ Becomes(e, msg) /\ UNCHANGED call

OSMboxQuery(e) == [OSMsg |-> ecb[e].obj, OSEventTbl |-> ecb[e].wait]

-----------------------------------------------------------------------------
(* Message queues. *)

Slot == 1 .. QSize
EmptyRing == [buf |-> [i \in Slot |-> Null], in |-> 1, out |-> 1, entries |-> 0]
After(i) == IF i = QSize THEN 1 ELSE i + 1
Before(i) == IF i = 1 THEN QSize ELSE i - 1

(* Mutant: the reading index is not moved with the message. *)
Got_Stays(r) == [r EXCEPT !.entries = @ - 1]

Got(r) == [r EXCEPT !.out = After(@), !.entries = @ - 1]

Put(r, msg) == [r EXCEPT !.buf[r.in] = msg, !.in = After(@), !.entries = @ + 1]

PutFront(r, msg) == [r EXCEPT !.buf[Before(r.out)] = msg, !.out = Before(@), !.entries = @ + 1]

(* The messages a ring holds, the next one to be read first. *)
Held(r) == [i \in 1 .. r.entries |-> r.buf[((r.out - 1 + i - 1) % QSize) + 1]]

OSQCreate(e) == EventCreate(e, "Q", EmptyRing)
OSQDel(e, always) == EventDel(e, "Q", always)
OSQPendAbort(e, broadcast) == EventPendAbort(e, "Q", broadcast)

OSQPend(t, e, ticks) ==
    /\ MayPend(t, e, "Q")
    /\ \/ /\ ecb[e].obj.entries > 0
          /\ Becomes(e, Got(ecb[e].obj))
          /\ call' = [call EXCEPT ![t].pmsg = ecb[e].obj.buf[ecb[e].obj.out]]
       \/ ecb[e].obj.entries = 0 /\ Block(t, e, ticks)

OSQAccept(e) ==
    /\ Type(e) = "Q" /\ ecb[e].obj.entries > 0
    /\ Becomes(e, Got(ecb[e].obj))
    /\ UNCHANGED call

(* Nobody waits and the queue is not full. *)
Room(e) == ecb[e].wait = {} /\ ecb[e].obj.entries < QSize

OSQPost(e, msg) ==
    /\ Type(e) = "Q"
    /\ \/ Hand(e, msg, FALSE, TRUE)
       \/ Room(e) /\ Becomes(e, Put(ecb[e].obj, msg)) /\ UNCHANGED call

OSQPostFront(e, msg) ==
    /\ Type(e) = "Q"
    /\ \/ Hand(e, msg, FALSE, TRUE)
       \/ Room(e) /\ Becomes(e, PutFront(ecb[e].obj, msg)) /\ UNCHANGED call

OSQPostOpt(e, msg, all, front, sched) ==
    /\ Type(e) = "Q"
    /\ \/ Hand(e, msg, all, sched)
       \/ /\ Room(e)
          /\ Becomes(e, IF front THEN PutFront(ecb[e].obj, msg) ELSE Put(ecb[e].obj, msg))
          /\ UNCHANGED call

(* The indices are reset; what was posted is forgotten. *)
OSQFlush(e) ==
    /\ Type(e) = "Q"
    /\ Becomes(e, [ecb[e].obj EXCEPT !.in = 1, !.out = 1, !.entries = 0])
    /\ UNCHANGED call

OSQQuery(e) ==
    [OSMsg |-> IF ecb[e].obj.entries > 0 THEN ecb[e].obj.buf[ecb[e].obj.out] ELSE Null,
     OSNMsgs |-> ecb[e].obj.entries,
     OSEventTbl |-> ecb[e].wait]

-----------------------------------------------------------------------------
(* A wait for any of several events. *)

Holds(e) == CASE Type(e) = "SEM" -> ecb[e].obj > 0
              [] Type(e) = "MBOX" -> ecb[e].obj # Null
              [] Type(e) = "Q" -> ecb[e].obj.entries > 0

Taken(e) == CASE Type(e) = "SEM" -> [ecb[e] EXCEPT !.obj = @ - 1]
              [] Type(e) = "MBOX" -> [ecb[e] EXCEPT !.obj = Null]
              [] Type(e) = "Q" -> [ecb[e] EXCEPT !.obj = Got(@)]

(* Takes what every event of E holds; waits for all of them if none holds   *)
(* anything.                                                               *)
OSEventPendMulti(t, E, ticks) ==
    /\ Runs(t) /\ OSLockNesting = 0
    /\ \A e \in E : Type(e) \in {"SEM", "MBOX", "Q"}
    /\ \/ /\ \E e \in E : Holds(e)
          /\ ecb' = [e \in Event |-> IF e \in E /\ Holds(e) THEN Taken(e) ELSE ecb[e]]
          /\ UNCHANGED <<tcb, call, OSTCBPrioTbl, OSRdyTbl, OSTCBCur, OSPrioCur, OSLockNesting>>
       \/ /\ \A e \in E : ~Holds(e)
          /\ EventTaskWait(t, {Type(e) : e \in E} \cup {"MULTI"}, E, TRUE, ticks)
          /\ ecb' = Waits(ecb, E, tcb[t].prio)
          /\ UNCHANGED <<OSTCBPrioTbl, OSLockNesting>>
          /\ OS_Sched

=============================================================================
