------------------------------ MODULE UcosCore ------------------------------
(***************************************************************************)
(* The state of the uC/OS-II kernel and what every service of it is built  *)
(* from (os_core.c): the ready table, the wait lists, the scheduler, the   *)
(* tick and the return of a task from a wait.  A table of priority bits is *)
(* a set of priorities.  A service is one step up to where its caller      *)
(* blocks; a task that blocked finishes its call in a step of its own      *)
(* (PendReturn) once the scheduler has picked it again, and anything may   *)
(* happen in between.  Calls that the code refuses change nothing and are  *)
(* left out: their guards are the negation of its early returns.           *)
(***************************************************************************)
EXTENDS Naturals, FiniteSets, FiniteSetsExt

CONSTANTS Task,       (* the task control blocks, Idle among them             *)
          Idle,       (* OS_TaskIdle, at the lowest priority and always ready *)
          LowestPrio, (* OS_LOWEST_PRIO                                       *)
          Event,      (* the event control blocks                             *)
          Msg,        (* the non-null pointers that are posted                *)
          MaxTicks,   (* bound on a delay or timeout                          *)
          MaxLock     (* bound on the nesting of OSSchedLock (255 in C)       *)

ASSUME CoreAssumption ==
    /\ Idle \in Task
    /\ LowestPrio \in Nat \ {0}
    /\ MaxTicks \in Nat
    /\ MaxLock \in Nat

(* No object is the null pointer, and none is OS_TCB_RESERVED. *)
ASSUME NamesAssumption ==
    /\ "null" \notin Msg \cup Event
    /\ Task \cap {"free", "reserved"} = {}

VARIABLES tcb,           (* per task: priority, status, delay, what it waits on *)
          call,          (* per task: the local variables of a call it is in    *)
          OSTCBPrioTbl,  (* per priority: the task, or "reserved", or "free"    *)
          OSRdyTbl,      (* the priorities that are ready                       *)
          ecb,           (* per event control block: type, wait list, contents  *)
          OSTCBCur,      (* the task that runs                                  *)
          OSPrioCur,     (* the priority it was switched to at                  *)
          OSLockNesting

core == <<tcb, call, OSTCBPrioTbl, OSRdyTbl, ecb, OSTCBCur, OSPrioCur, OSLockNesting>>

Prio == 0 .. LowestPrio
App == Task \ {Idle}
Null == "null"
PendAny == {"SEM", "MBOX", "Q", "MUTEX", "FLAG"}

Unused == [type |-> "UNUSED", wait |-> {}, obj |-> Null]
NoCall == [on |-> {}, multi |-> FALSE, pmsg |-> Null]

NewTcb(p) == [prio |-> p, stat |-> {}, pend |-> "OK", dly |-> 0,
              event |-> Null, multi |-> {}, msg |-> Null]

OS_InitEventList == ecb = [e \in Event |-> Unused]

(* The first task to run is the most urgent one. *)
OSStart ==
    /\ OSPrioCur = Min(OSRdyTbl)
    /\ OSTCBCur = OSTCBPrioTbl[OSPrioCur]

(* OSInit and OSStart, with the tasks of `at' created between them. *)
CoreInit(at) ==
    LET taskAt(p) == {t \in Task : at[t] = p} IN
    /\ tcb = [t \in Task |-> NewTcb(at[t])]
    /\ call = [t \in Task |-> NoCall]
    /\ OSTCBPrioTbl = [p \in Prio |-> IF taskAt(p) = {} THEN "free"
                                     ELSE CHOOSE t \in taskAt(p) : TRUE]
    /\ OSRdyTbl = {at[t] : t \in Task}
    /\ OS_InitEventList
    /\ OSStart
    /\ OSLockNesting = 0

Alive(t) == OSTCBPrioTbl[tcb[t].prio] = t
TaskPrio == {p \in Prio : OSTCBPrioTbl[p] \in App}

(* t executes the application's code, not the inside of a wait. *)
Runs(t) == t \in App /\ OSTCBCur = t /\ call[t] = NoCall

-----------------------------------------------------------------------------
(* The scheduler. *)

NoSched == UNCHANGED <<OSTCBCur, OSPrioCur>>

(* OS_SchedNew: the highest priority in the ready table that a step leaves. *)
OSPrioHighRdy == Min(OSRdyTbl')

(* Mutant: the priorities are compared the wrong way round. *)
OS_Sched_IfLower ==
    LET high == OSPrioHighRdy IN
    IF OSLockNesting' = 0 /\ high > OSPrioCur
    THEN OSPrioCur' = high /\ OSTCBCur' = OSTCBPrioTbl'[high]
    ELSE NoSched

(* Switches to the highest priority ready task, unless that is the         *)
(* priority the running task was switched to, or the scheduler is locked.  *)
(* Called last in a step: it reads the tables the step leaves.             *)
OS_Sched ==
    LET high == OSPrioHighRdy IN
    IF OSLockNesting' = 0 /\ high # OSPrioCur
    THEN OSPrioCur' = high /\ OSTCBCur' = OSTCBPrioTbl'[high]
    ELSE NoSched

(* The end of an interrupt decides in the same way.  A service that an     *)
(* interrupt handler calls does not switch; the handler's end does.        *)
OSIntExit == OS_Sched

SchedIf(b) == IF b THEN OS_Sched ELSE NoSched

OSSchedLock ==
    /\ OSLockNesting < MaxLock
    /\ OSLockNesting' = OSLockNesting + 1
    /\ UNCHANGED <<tcb, call, OSTCBPrioTbl, OSRdyTbl, ecb, OSTCBCur, OSPrioCur>>

OSSchedUnlock ==
    /\ OSLockNesting > 0
    /\ OSLockNesting' = OSLockNesting - 1
    /\ UNCHANGED <<tcb, call, OSTCBPrioTbl, OSRdyTbl, ecb>>
    /\ OS_Sched

-----------------------------------------------------------------------------
(* The tick. *)

(* A delay that ends: a wait becomes a timeout, the task leaves its wait    *)
(* list only when it runs again.                                           *)
DelayOver(b) ==
    [b EXCEPT !.dly = 0,
              !.stat = @ \ PendAny,
              !.pend = IF b.stat \cap PendAny # {} THEN "TO" ELSE "OK"]

Unsuspended(T) == {t \in T : "SUSPEND" \notin tcb[t].stat}

(* The timer interrupt. *)
OSTimeTick ==
    LET over == {t \in Task : tcb[t].dly = 1} IN
    /\ tcb' = [t \in Task |-> CASE tcb[t].dly = 0 -> tcb[t]
                                [] t \in over -> DelayOver(tcb[t])
                                [] OTHER -> [tcb[t] EXCEPT !.dly = @ - 1]]
    /\ OSRdyTbl' = OSRdyTbl \cup {tcb[t].prio : t \in Unsuspended(over)}
    /\ UNCHANGED <<call, OSTCBPrioTbl, ecb, OSLockNesting>>
    /\ OSIntExit

-----------------------------------------------------------------------------
(* Events and the tasks that wait on them. *)

(* The running task leaves the ready table to wait on the events of E, at   *)
(* most `ticks' ticks if that is not 0.  (OS_EventTaskWait, ~WaitMulti.)    *)
EventTaskWait(t, stat, E, multi, ticks) ==
    /\ tcb' = [tcb EXCEPT ![t] = [tcb[t] EXCEPT
                  !.stat = @ \cup stat,
                  !.pend = "OK",
                  !.dly = ticks,
                  !.event = IF multi THEN Null ELSE CHOOSE e \in E : TRUE,
                  !.multi = IF multi THEN E ELSE @]]
    /\ call' = [call EXCEPT ![t] = [NoCall EXCEPT !.on = E, !.multi = multi]]
    /\ OSRdyTbl' = OSRdyTbl \ {tcb[t].prio}

Waits(ec, E, p) == [e \in Event |-> IF e \in E THEN [ec[e] EXCEPT !.wait = @ \cup {p}] ELSE ec[e]]
Unwaits(ec, E, P) == [e \in Event |-> IF e \in E THEN [ec[e] EXCEPT !.wait = @ \ P] ELSE ec[e]]

TasksAt(P) == {OSTCBPrioTbl[p] : p \in P}
NextWaiter(e) == {Min(ecb[e].wait)}

(* OS_EventTaskRdy on the TCBs of T, which wait on e: the wait is over with *)
(* the status `pend', and the task has the message.                        *)
Woken(tc, e, T, pend, msg) ==
    [t \in Task |->
        IF t \in T
        THEN [tc[t] EXCEPT !.dly = 0, !.msg = msg, !.pend = pend,
                           !.stat = @ \ {ecb[e].type},
                           !.event = IF tc[t].multi = {} THEN @ ELSE e]
        ELSE tc[t]]

(* They also leave the wait lists of the other events of a multiple wait.   *)
LeaveLists(e, T) ==
    [f \in Event |-> [ecb[f] EXCEPT
        !.wait = @ \ {tcb[t].prio : t \in {u \in T : f = e \/ f \in tcb[u].multi}}]]

(* Wakes the waiters of e at the priorities W and leaves `type' and `obj'   *)
(* in e, with the OS_Sched that follows when somebody was woken.            *)
EventTaskRdy(e, W, pend, msg, type, obj, sched) ==
    LET T == TasksAt(W) IN
    /\ tcb' = Woken(tcb, e, T, pend, msg)
    /\ OSRdyTbl' = OSRdyTbl \cup {tcb[t].prio : t \in Unsuspended(T)}
    /\ ecb' = [LeaveLists(e, T) EXCEPT ![e] = [@ EXCEPT !.type = type, !.obj = obj]]
    /\ UNCHANGED <<call, OSTCBPrioTbl, OSLockNesting>>
    /\ SchedIf(sched /\ W # {})

(* OS???Del: with OS_DEL_NO_PEND only when nobody waits; otherwise every    *)
(* waiter is made ready, as if it had been given what it waits for.         *)
EventDel(e, type, always) ==
    /\ ecb[e].type = type
    /\ always \/ ecb[e].wait = {}
    /\ EventTaskRdy(e, ecb[e].wait, "OK", Null, "UNUSED", Null, TRUE)

(* OS???PendAbort of the most urgent waiter or of all of them. *)
EventPendAbort(e, type, broadcast) ==
    /\ ecb[e].type = type
    /\ ecb[e].wait # {}
    /\ EventTaskRdy(e, IF broadcast THEN ecb[e].wait ELSE NextWaiter(e),
                    "ABORT", Null, type, ecb[e].obj, TRUE)

(* OS???Create takes a block from the free list. *)
EventCreate(e, type, obj) ==
    /\ ecb[e].type = "UNUSED"
    /\ ecb' = [ecb EXCEPT ![e] = [type |-> type, wait |-> {}, obj |-> obj]]

-----------------------------------------------------------------------------
(* The end of a call that waited. *)

(* Mutant: a task that timed out stays in the wait list. *)
PendReturn_StaysListed(t) ==
    /\ OSTCBCur = t /\ call[t].on \cap Event # {}
    /\ UNCHANGED ecb
    /\ tcb' = [tcb EXCEPT ![t] = [@ EXCEPT !.stat = {}, !.pend = "OK", !.event = Null,
                                           !.multi = {}, !.msg = Null]]
    /\ call' = [call EXCEPT ![t] = NoCall]
    /\ UNCHANGED <<OSTCBPrioTbl, OSRdyTbl, OSTCBCur, OSPrioCur, OSLockNesting>>

(* What follows OS_Sched in OSSemPend, OSMboxPend, OSQPend and OSMutexPend,  *)
(* and in OSEventPendMulti: after a timeout the task takes itself out of the *)
(* wait lists; then its control block is cleared.  A multiple wait ended by *)
(* an event that is of no type it knows (it was deleted) returns at once    *)
(* and leaves the control block as it is.                                  *)
PendReturn(t) ==
    LET b == tcb[t]
        timedOut == b.pend = "TO" \/ (call[t].multi /\ b.event = Null)
        odd == /\ call[t].multi /\ ~timedOut /\ b.pend = "OK"
               /\ ecb[b.event].type \notin {"SEM", "MBOX", "Q"}
    IN
    /\ OSTCBCur = t /\ call[t].on \cap Event # {}
    /\ ecb' = IF timedOut THEN Unwaits(ecb, call[t].on, {b.prio}) ELSE ecb
    /\ tcb' = IF odd THEN tcb
              ELSE [tcb EXCEPT ![t] = [@ EXCEPT !.stat = {}, !.pend = "OK", !.event = Null,
                                                !.multi = {}, !.msg = Null]]
    /\ call' = [call EXCEPT ![t] = NoCall]
    /\ UNCHANGED <<OSTCBPrioTbl, OSRdyTbl, OSTCBCur, OSPrioCur, OSLockNesting>>

(* The caller gets the message that was there when it called. *)
MessageReturn(t) ==
    /\ OSTCBCur = t /\ call[t].pmsg # Null
    /\ call' = [call EXCEPT ![t] = NoCall]
    /\ UNCHANGED <<tcb, OSTCBPrioTbl, OSRdyTbl, ecb, OSTCBCur, OSPrioCur, OSLockNesting>>

=============================================================================
