---------------------------- MODULE UcosServices ----------------------------
(***************************************************************************)
(* The uC/OS-II kernel with all its services, under tasks that call them   *)
(* in any order and interrupt handlers that may post at any moment.  What  *)
(* an application uses is fixed when it starts: a set of names, one of     *)
(* Profiles.  Tasks keep to the rules that the kernel's documentation      *)
(* gives and its code does not enforce:                                    *)
(*   - with the scheduler locked a task calls nothing that may block it;   *)
(*   - a task is named by the priority it has, not by one it had;          *)
(*   - a task that owns or waits for a mutex is not deleted and keeps its  *)
(*     priority, the owner does not pend on it again, and a mutex is       *)
(*     deleted only when nobody owns it;                                   *)
(*   - a task just woken keeps its priority until it has run, except in a   *)
(*     profile with "WOKEN".                                               *)
(* A profile with "TWO" or "MULTI" has two events, the others have one.     *)
(***************************************************************************)
EXTENDS UcosTasks, UcosMutex, UcosFlag

CONSTANTS At,       (* the priority of each task, as created by main() *)
          Profiles  (* the sets of services that applications use      *)

ASSUME ServicesAssumption ==
    /\ At \in [Task -> Prio]
    /\ At[Idle] = LowestPrio
    /\ \A t, u \in Task : At[t] = At[u] => t = u
    /\ Event # {}

VARIABLE uses   (* the profile of this application *)

vars == <<core, flagVars, uses>>

Init ==
    /\ uses \in Profiles
    /\ CoreInit(At)
    /\ FlagInit

-----------------------------------------------------------------------------
(* Who calls. *)

SomeTask == \E t \in App : Runs(t)
TaskOrIsr == "ISR" \in uses \/ SomeTask
Timeouts == IF "TIMEOUT" \in uses THEN 0 .. MaxTicks ELSE {0}
Unlocked == OSLockNesting = 0
Objects == IF uses \cap {"MULTI", "TWO"} # {} THEN Event ELSE {CHOOSE e \in Event : TRUE}
Named == {p \in TaskPrio : OSTaskQuery(p).prio = p}

(* Woken, but it has not run since: its control block still names the event. *)
JustWoken(t) == call[t].on # {} /\ tcb[t].stat \cap PendAny = {} /\ tcb[t].pend # "TO"

InMutex(t) == \E e \in Event : \/ Owned(e) /\ Owner(e) = t
                               \/ Type(e) = "MUTEX" /\ e \in call[t].on

Tick == OSTimeTick /\ \E t \in Task : tcb[t].dly > 0

Delays ==
    \/ \E t \in App, n \in 1 .. MaxTicks : Unlocked /\ OSTimeDly(t, n)
    \/ "DLYRESUME" \in uses /\ SomeTask /\ \E p \in Named : OSTimeDlyResume(p)

Suspension ==
    /\ "SUSPEND" \in uses
    /\ SomeTask /\ Unlocked
    /\ \E p \in Named : OSTaskSuspend(p) \/ OSTaskResume(p)

Locking ==
    /\ "LOCK" \in uses
    /\ SomeTask
    /\ OSSchedLock \/ OSSchedUnlock

Lives ==
    /\ "LIFE" \in uses
    /\ SomeTask /\ Unlocked
    /\ \/ \E p \in Named : ~InMutex(OSTCBPrioTbl[p]) /\ OSTaskDel(p) /\ FlagUnlink(OSTCBPrioTbl[p])
       \/ \E t \in App, p \in Prio :
            (OSTaskCreate(t, p) \/ OSTaskCreateExt(t, p)) /\ UNCHANGED flagVars

Priorities ==
    /\ "PRIO" \in uses
    /\ SomeTask /\ Unlocked
    /\ \E p \in Named, q \in Prio :
          /\ ~InMutex(OSTCBPrioTbl[p])
          /\ "WOKEN" \in uses \/ ~JustWoken(OSTCBPrioTbl[p])
          /\ OSTaskChangePrio(p, q)

-----------------------------------------------------------------------------
(* The services of each kind of object. *)

Created == UNCHANGED <<tcb, call, OSTCBPrioTbl, OSRdyTbl, OSTCBCur, OSPrioCur, OSLockNesting>>

Semaphores ==
    /\ "SEM" \in uses
    /\ \E e \in Objects :
        \/ SomeTask /\ Created /\ \E n \in {0, MaxCnt} : OSSemCreate(e, n)
        \/ \E t \in App, n \in Timeouts : OSSemPend(t, e, n)
        \/ TaskOrIsr /\ (OSSemPost(e) \/ OSSemAccept(e))
        \/ TaskOrIsr /\ \E n \in {0, MaxCnt} : OSSemSet(e, n)
        \/ "DEL" \in uses /\ SomeTask /\ \E always \in BOOLEAN : OSSemDel(e, always)
        \/ "ABORT" \in uses /\ TaskOrIsr /\ \E all \in BOOLEAN : OSSemPendAbort(e, all)

Mailboxes ==
    /\ "MBOX" \in uses
    /\ \E e \in Objects :
        \/ SomeTask /\ Created /\ \E m \in Msg \cup {Null} : OSMboxCreate(e, m)
        \/ \E t \in App, n \in Timeouts : OSMboxPend(t, e, n)
        \/ TaskOrIsr /\ OSMboxAccept(e)
        \/ TaskOrIsr /\ \E m \in Msg : OSMboxPost(e, m)
        \/ "OPT" \in uses /\ TaskOrIsr
             /\ \E m \in Msg, all \in BOOLEAN : OSMboxPostOpt(e, m, all, TRUE)
        \/ "DEL" \in uses /\ SomeTask /\ \E always \in BOOLEAN : OSMboxDel(e, always)
        \/ "ABORT" \in uses /\ TaskOrIsr /\ \E all \in BOOLEAN : OSMboxPendAbort(e, all)

Queues ==
    /\ "Q" \in uses
    /\ \E e \in Objects :
        \/ SomeTask /\ Created /\ OSQCreate(e)
        \/ \E t \in App, n \in Timeouts : OSQPend(t, e, n)
        \/ TaskOrIsr /\ \E m \in Msg : OSQPost(e, m)
        \/ "OPT" \in uses /\ TaskOrIsr
             /\ \/ OSQAccept(e) \/ OSQFlush(e)
                \/ \E m \in Msg : OSQPostFront(e, m)
                \/ \E m \in Msg, all, front \in BOOLEAN : OSQPostOpt(e, m, all, front, TRUE)
        \/ "DEL" \in uses /\ SomeTask /\ \E always \in BOOLEAN : OSQDel(e, always)
        \/ "ABORT" \in uses /\ TaskOrIsr /\ \E all \in BOOLEAN : OSQPendAbort(e, all)

Several ==
    /\ "MULTI" \in uses
    /\ \E t \in App, E \in SUBSET Objects, n \in Timeouts :
            Cardinality(E) > 1 /\ OSEventPendMulti(t, E, n)

Mutexes ==
    /\ "MUTEX" \in uses
    /\ \E e \in Objects :
        \/ SomeTask /\ \E p \in Prio : OSMutexCreate(e, p)
        \/ \E t \in App, n \in Timeouts :
                ~(Owned(e) /\ Owner(e) = t) /\ OSMutexPend(t, e, n)
        \/ \E t \in App : OSMutexAccept(t, e) \/ OSMutexPost(t, e)
        \/ "DEL" \in uses /\ SomeTask /\ ~Owned(e) /\ \E always \in BOOLEAN : OSMutexDel(e, always)

(* The waits this application uses: with consumption only for set bits. *)
FlagWait(how, consume) ==
    /\ "ANY" \in uses \/ how.all
    /\ IF "CONSUME" \in uses THEN how.set ELSE ~consume

Flags ==
    /\ "FLAG" \in uses
    /\ \E g \in Group :
        \/ SomeTask /\ \E F \in SUBSET Bit : OSFlagCreate(g, F)
        \/ \E t \in App, W \in SUBSET Bit \ {{}}, how \in WaitType, c \in BOOLEAN, n \in Timeouts :
                FlagWait(how, c) /\ OSFlagPend(t, g, W, how, c, n)
        \/ TaskOrIsr /\ \E W \in SUBSET Bit \ {{}}, how \in WaitType, c \in BOOLEAN :
                FlagWait(how, c) /\ OSFlagAccept(g, W, how, c)
        \/ TaskOrIsr /\ \E F \in SUBSET Bit \ {{}}, set \in BOOLEAN : OSFlagPost(g, F, set)
        \/ "DEL" \in uses /\ SomeTask /\ \E always \in BOOLEAN : OSFlagDel(g, always)

Returns == \E t \in App : PendReturn(t) \/ MessageReturn(t)

FlagReturns == \E t \in App : OSFlagPendReturn(t)

Next ==
    /\ UNCHANGED uses
    /\ \/ /\ \/ Tick \/ Returns \/ Delays \/ Suspension \/ Locking \/ Priorities
             \/ Semaphores \/ Mailboxes \/ Queues \/ Several \/ Mutexes
          /\ UNCHANGED flagVars
       \/ Lives
       \/ Flags
       \/ FlagReturns

Spec == Init /\ [][Next]_vars

-----------------------------------------------------------------------------
(* What the kernel keeps. *)

Ring == [buf : [Slot -> Msg \cup {Null}], in : Slot, out : Slot, entries : 0 .. QSize]

ObjectOK(e) ==
    CASE Type(e) = "SEM" -> ecb[e].obj \in 0 .. MaxCnt
      [] Type(e) = "MBOX" -> ecb[e].obj \in Msg \cup {Null}
      [] Type(e) = "Q" -> ecb[e].obj \in Ring
      [] Type(e) = "MUTEX" -> /\ Pip(e) \in Prio
                              /\ Owner(e) \in App \cup {Null}
                              /\ ecb[e].obj.prio \in Prio \cup {Available}
      [] OTHER -> ecb[e] = Unused

(* Every variable has its type: the priorities, statuses and delays of the  *)
(* tasks, the tables of the kernel and what each kind of object holds.      *)
TypeOK ==
    /\ uses \in Profiles
    /\ \A t \in Task : /\ tcb[t].prio \in Prio
                       /\ tcb[t].stat \subseteq PendAny \cup {"SUSPEND", "MULTI"}
                       /\ tcb[t].pend \in {"OK", "TO", "ABORT"}
                       /\ tcb[t].dly \in 0 .. MaxTicks
                       /\ tcb[t].event \in Event \cup {Null}
                       /\ tcb[t].multi \subseteq Event
                       /\ tcb[t].msg \in Msg \cup {Null}
                       /\ call[t].on \subseteq Event \cup Group
                       /\ flagsRdy[t] \subseteq Bit
    /\ OSTCBPrioTbl \in [Prio -> Task \cup {"free", "reserved"}]
    /\ OSRdyTbl \subseteq Prio
    /\ \A e \in Event : ecb[e].wait \subseteq Prio /\ ObjectOK(e)
    /\ OSTCBCur \in Task /\ OSPrioCur \in Prio
    /\ OSLockNesting \in 0 .. MaxLock

(* t has been neither woken nor timed out since it began to wait. *)
StillWaits(t) ==
    /\ call[t].on # {}
    /\ tcb[t].pend = "OK"
    /\ IF call[t].multi THEN tcb[t].event = Null
       ELSE tcb[t].stat \cap PendAny # {}

Live == {t \in Task : Alive(t)}

(* The ready table holds the priority of exactly those tasks that are        *)
(* neither delayed nor suspended nor waiting, and every priority that is not *)
(* free or reserved leads to a task that has it, or to a mutex owner that    *)
(* runs at an inherited one.  The table is updated in some thirty places.    *)
TablesAgree ==
    /\ OSRdyTbl = {tcb[t].prio : t \in {u \in Live :
            tcb[u].dly = 0 /\ "SUSPEND" \notin tcb[u].stat /\ ~StillWaits(u)}}
    /\ \A p \in Prio : OSTCBPrioTbl[p] \in Task =>
            LET t == OSTCBPrioTbl[p] IN
            \/ OSTaskQuery(p).prio = p
            \/ \E e \in Event : Owned(e) /\ Owner(e) = t /\ ecb[e].obj.prio = p /\ tcb[t].prio = Pip(e)

(* A wait list names exactly the tasks that are inside a call on the event   *)
(* and have been given nothing: those that still wait, and those whose time *)
(* is over but that have not run yet.  A name too many would be handed what *)
(* is posted; a name too few would wait for ever.                          *)
WaitListsMatch ==
    \A e \in Event :
        ecb[e].wait = {tcb[t].prio : t \in {u \in Live :
                          e \in call[u].on /\ (StillWaits(u) \/ tcb[u].pend = "TO")}}

(* Nobody waits for what is there: a count, a message, a free mutex.        *)
NothingWaitsOverSupply ==
    \A e \in Event : ecb[e].wait # {} =>
        CASE Type(e) = "SEM" -> OSSemQuery(e).OSCnt = 0
          [] Type(e) = "MBOX" -> OSMboxQuery(e).OSMsg = Null
          [] Type(e) = "Q" -> OSQQuery(e).OSNMsgs = 0
          [] Type(e) = "MUTEX" -> ~OSMutexQuery(e).OSValue
          [] OTHER -> FALSE

(* While a task more urgent than the owner was waits for a mutex, the owner  *)
(* runs at least at the mutex's priority, and is found there; without        *)
(* waiters or owners nobody is.                                            *)
InheritedPriority ==
    \A e \in Event : Type(e) = "MUTEX" =>
        /\ Owned(e) /\ (\E p \in OSMutexQuery(e).OSEventTbl : p < OSMutexQuery(e).OSOwnerPrio)
              => tcb[Owner(e)].prio <= Pip(e)
        /\ OSTCBPrioTbl[Pip(e)] \in {"reserved", Owner(e)}
        /\ ~Owned(e) => OSTCBPrioTbl[Pip(e)] = "reserved"

(* With the scheduler unlocked the running task is the most urgent ready    *)
(* one, whatever services made others ready or changed priorities.         *)
MostUrgentRuns == Unlocked => tcb[OSTCBCur].prio = Min(OSRdyTbl)

(* The same for an application without mutexes: giving one back does not    *)
(* always call the scheduler.                                              *)
MostUrgentRunsWithoutMutex == "MUTEX" \notin uses => MostUrgentRuns

(* Nobody waits for flags that are already as it wants them: a post wakes    *)
(* every waiter it satisfies, whatever else the same post satisfies, and     *)
(* consuming set bits never makes another wait for set bits come true.      *)
NoWaitOverFlags ==
    \A t \in Live : node[t] # NoNode /\ "FLAG" \in tcb[t].stat =>
        ~Satisfied(OSFlagQuery(node[t].grp), node[t].want, node[t].how)

(* The two together: whatever a post, a set or a release supplies goes to    *)
(* those who wait for it (os_sem.c 453-606, os_mbox.c 455-567, os_q.c        *)
(* 571-756, os_mutex.c 550-602, os_flag.c 795-898).                          *)
NothingWaitsInVain == NothingWaitsOverSupply /\ NoWaitOverFlags

-----------------------------------------------------------------------------
(* The part of the kernel the rover uses implements what Ucos promises.    *)

Rovers == uses = {"SUSPEND", "Q"}
QueueOf == IF \E e \in Event : Type(e) = "Q"
           THEN Held(ecb[CHOOSE e \in Event : Type(e) = "Q"].obj) ELSE <<>>

K == INSTANCE Ucos WITH
    Task <- App,
    Prio <- [t \in App |-> At[t]],
    NoMsg <- Null,
    delayed <- {t \in App : Rovers /\ tcb[t].dly > 0},
    suspended <- {t \in App : Rovers /\ "SUSPEND" \in tcb[t].stat},
    pending <- {t \in App : Rovers /\ "Q" \in tcb[t].stat},
    queue <- IF Rovers THEN QueueOf ELSE <<>>,
    mail <- [t \in App |->
                IF ~Rovers THEN Null
                ELSE IF call[t].on # {} /\ "Q" \notin tcb[t].stat THEN tcb[t].msg
                ELSE call[t].pmsg]

(* An application that delays, suspends and uses one queue without timeouts *)
(* sees of the ready table, the rings, the control blocks and the scheduler  *)
(* exactly the abstract kernel that the tasks of Rover run on.             *)
KernelSpec == K!Spec

=============================================================================
