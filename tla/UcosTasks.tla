----------------------------- MODULE UcosTasks ------------------------------
(***************************************************************************)
(* The services of uC/OS-II that act on tasks: delays (os_time.c),         *)
(* suspension, creation, deletion and a change of priority (os_task.c).    *)
(* They find a task by a priority, in OSTCBPrioTbl.                        *)
(***************************************************************************)
EXTENDS UcosCore

-----------------------------------------------------------------------------
(* Time. *)

OSTimeDly(t, ticks) ==
    /\ Runs(t) /\ ticks > 0
    /\ OSRdyTbl' = OSRdyTbl \ {tcb[t].prio}
    /\ tcb' = [tcb EXCEPT ![t].dly = ticks]
    /\ UNCHANGED <<call, OSTCBPrioTbl, ecb, OSLockNesting>>
    /\ OS_Sched

(* Ends the delay of another task, a timeout as well as a plain delay. *)
OSTimeDlyResume(p) ==
    LET t == OSTCBPrioTbl[p] IN
    /\ p \in TaskPrio
    /\ tcb[t].dly > 0
    /\ tcb' = [tcb EXCEPT ![t] = DelayOver(@)]
    /\ OSRdyTbl' = OSRdyTbl \cup {tcb[u].prio : u \in Unsuspended({t})}
    /\ UNCHANGED <<call, OSTCBPrioTbl, ecb, OSLockNesting>>
    /\ SchedIf(Unsuspended({t}) # {})

-----------------------------------------------------------------------------
(* Suspension. *)

(* The scheduler runs only when the caller names itself by the priority it   *)
(* has at this moment.                                                     *)
OSTaskSuspend(p) ==
    LET t == OSTCBPrioTbl[p] IN
    /\ p \in TaskPrio
    /\ OSRdyTbl' = OSRdyTbl \ {tcb[t].prio}
    /\ tcb' = [tcb EXCEPT ![t].stat = @ \cup {"SUSPEND"}]
    /\ UNCHANGED <<call, OSTCBPrioTbl, ecb, OSLockNesting>>
    /\ SchedIf(p = tcb[OSTCBCur].prio)

(* Mutant: a task that still waits for an event is made ready. *)
OSTaskResume_WhileWaiting(p) ==
    LET t == OSTCBPrioTbl[p]
        readied == tcb[t].dly = 0
    IN
    /\ p \in TaskPrio
    /\ "SUSPEND" \in tcb[t].stat
    /\ tcb' = [tcb EXCEPT ![t].stat = @ \ {"SUSPEND"}]
    /\ OSRdyTbl' = IF readied THEN OSRdyTbl \cup {tcb[t].prio} ELSE OSRdyTbl
    /\ UNCHANGED <<call, OSTCBPrioTbl, ecb, OSLockNesting>>
    /\ SchedIf(readied)

(* Readies the task if nothing else blocks it. *)
OSTaskResume(p) ==
    LET t == OSTCBPrioTbl[p]
        readied == tcb[t].stat = {"SUSPEND"} /\ tcb[t].dly = 0
    IN
    /\ p \in TaskPrio
    /\ "SUSPEND" \in tcb[t].stat
    /\ tcb' = [tcb EXCEPT ![t].stat = @ \ {"SUSPEND"}]
    /\ OSRdyTbl' = IF readied THEN OSRdyTbl \cup {tcb[t].prio} ELSE OSRdyTbl
    /\ UNCHANGED <<call, OSTCBPrioTbl, ecb, OSLockNesting>>
    /\ SchedIf(readied)

-----------------------------------------------------------------------------
(* Priority, life and death. *)

(* The task at p moves to the free priority q, in the ready table or in the  *)
(* lists of the events its control block names.                            *)
OSTaskChangePrio(p, q) ==
    LET t == OSTCBPrioTbl[p]
        old == tcb[t].prio
        lists == {e \in Event : e = tcb[t].event \/ e \in tcb[t].multi}
    IN
    /\ p \in TaskPrio
    /\ q # LowestPrio /\ OSTCBPrioTbl[q] = "free"
    /\ OSTCBPrioTbl' = [OSTCBPrioTbl EXCEPT ![p] = "free", ![q] = t]
    /\ OSRdyTbl' = IF old \in OSRdyTbl THEN (OSRdyTbl \ {old}) \cup {q} ELSE OSRdyTbl
    /\ ecb' = Waits(Unwaits(ecb, lists, {old}), lists, q)
    /\ tcb' = [tcb EXCEPT ![t].prio = q]
    /\ UNCHANGED <<call, OSLockNesting>>
    /\ OS_Sched

(* Takes a free control block for a free priority (OS_TCBInit). *)
OSTaskCreate(t, p) ==
    /\ ~Alive(t)
    /\ OSTCBPrioTbl[p] = "free"
    /\ OSTCBPrioTbl' = [OSTCBPrioTbl EXCEPT ![p] = t]
    /\ tcb' = [tcb EXCEPT ![t] = NewTcb(p)]
    /\ OSRdyTbl' = OSRdyTbl \cup {p}
    /\ UNCHANGED <<call, ecb, OSLockNesting>>
    /\ OS_Sched

(* With the stack cleared and a name, which nothing here looks at. *)
OSTaskCreateExt(t, p) == OSTaskCreate(t, p)

OSTaskQuery(p) == tcb[OSTCBPrioTbl[p]]

(* The task leaves every table; its call is lost with its stack.  The       *)
(* control block goes back to the free list.                               *)
OSTaskDel(p) ==
    LET t == OSTCBPrioTbl[p]
        old == tcb[t].prio
        lists == {e \in Event : e = tcb[t].event \/ e \in tcb[t].multi}
    IN
    /\ p \in TaskPrio
    /\ OSRdyTbl' = OSRdyTbl \ {old}
    /\ ecb' = Unwaits(ecb, lists, {old})
    /\ tcb' = [tcb EXCEPT ![t] = [@ EXCEPT !.dly = 0, !.stat = {}, !.pend = "OK"]]
    /\ call' = [call EXCEPT ![t] = NoCall]
    /\ OSTCBPrioTbl' = [OSTCBPrioTbl EXCEPT ![p] = "free"]
    /\ UNCHANGED OSLockNesting
    /\ OS_Sched

=============================================================================
