----------------------------- MODULE UcosMutex ------------------------------
(***************************************************************************)
(* Mutual exclusion semaphores with priority inheritance (os_mutex.c).     *)
(* ecb[e].obj holds the inheritance priority the mutex reserves (PIP), the *)
(* priority its owner had when it took it, and the owner; the mutex is     *)
(* available when the recorded priority is OS_MUTEX_AVAILABLE.  While a     *)
(* more urgent task waits, the owner runs at PIP, and OSTCBPrioTbl names   *)
(* it twice.                                                               *)
(***************************************************************************)
EXTENDS UcosEvents

Available == 255

(* OS_LOWEST_PRIO is at most 254 (ucos_ii.h), so that no task's priority    *)
(* reads as OS_MUTEX_AVAILABLE.                                            *)
ASSUME MutexAssumption == LowestPrio < Available

Pip(e) == ecb[e].obj.pip
Owner(e) == ecb[e].obj.owner
Owned(e) == Type(e) = "MUTEX" /\ ecb[e].obj.prio # Available
OwnedBy(e, t, p) == [pip |-> Pip(e), prio |-> p, owner |-> t]
Freed(e) == [pip |-> Pip(e), prio |-> Available, owner |-> Null]

(* The priority must be free; it is reserved for the mutex. *)
OSMutexCreate(e, p) ==
    /\ p # LowestPrio /\ OSTCBPrioTbl[p] = "free"
    /\ EventCreate(e, "MUTEX", [pip |-> p, prio |-> Available, owner |-> Null])
    /\ OSTCBPrioTbl' = [OSTCBPrioTbl EXCEPT ![p] = "reserved"]
    /\ UNCHANGED <<tcb, call, OSRdyTbl, OSTCBCur, OSPrioCur, OSLockNesting>>

OSMutexAccept(t, e) ==
    /\ Runs(t) /\ Type(e) = "MUTEX" /\ ~Owned(e)
    /\ Becomes(e, OwnedBy(e, t, tcb[t].prio))
    /\ UNCHANGED call

(* The owner o moves to PIP in the ready table, or in the wait list of the   *)
(* event its control block names.                                          *)
Boosted(e, o, tc) == [tc EXCEPT ![o].prio = Pip(e)]
BoostedRdy(e, o) ==
    IF tcb[o].prio \in OSRdyTbl THEN (OSRdyTbl \ {tcb[o].prio}) \cup {Pip(e)} ELSE OSRdyTbl
BoostedLists(e, o) ==
    IF tcb[o].prio \notin OSRdyTbl /\ tcb[o].event # Null
    THEN Waits(Unwaits(ecb, {tcb[o].event}, {tcb[o].prio}), {tcb[o].event}, Pip(e))
    ELSE ecb

(* Mutant: the owner is never raised. *)
Raises_Never(t, e) == FALSE

(* The caller is more urgent than the owner was, which is not at PIP yet. *)
Raises(t, e) == tcb[Owner(e)].prio > Pip(e) /\ ecb[e].obj.prio > tcb[t].prio

OSMutexPend(t, e, ticks) ==
    /\ MayPend(t, e, "MUTEX")
    /\ \/ /\ ~Owned(e)
          /\ Becomes(e, OwnedBy(e, t, tcb[t].prio))
          /\ UNCHANGED call
       \/ /\ Owned(e)
          /\ LET o == Owner(e)
                 up == Raises(t, e)
                 waiter == [tcb[t] EXCEPT !.stat = @ \cup {"MUTEX"}, !.pend = "OK",
                                          !.dly = ticks, !.event = e]
                 tc == [tcb EXCEPT ![t] = waiter]
             IN
             /\ tcb' = IF up THEN Boosted(e, o, tc) ELSE tc
             /\ OSRdyTbl' = (IF up THEN BoostedRdy(e, o) ELSE OSRdyTbl) \ {tcb[t].prio}
             /\ ecb' = Waits(IF up THEN BoostedLists(e, o) ELSE ecb, {e}, tcb[t].prio)
             /\ OSTCBPrioTbl' = IF up THEN [OSTCBPrioTbl EXCEPT ![Pip(e)] = o] ELSE OSTCBPrioTbl
             /\ call' = [call EXCEPT ![t].on = {e}]
             /\ UNCHANGED OSLockNesting
             /\ OS_Sched

LowersOwner(e, o) == tcb[o].prio = Pip(e)

(* OSMutex_RdyAtPrio: the tables with t ready at priority p, whatever it is  *)
(* doing at the moment.                                                    *)
RdyAtPrio(t, p) == [tcb |-> [tcb EXCEPT ![t].prio = p],
                    rdy |-> (OSRdyTbl \ {tcb[t].prio}) \cup {p},
                    tbl |-> [OSTCBPrioTbl EXCEPT ![p] = t]]
AsIs == [tcb |-> tcb, rdy |-> OSRdyTbl, tbl |-> OSTCBPrioTbl]

(* The owner goes back to its own priority; the most urgent waiter becomes   *)
(* the owner, at its own priority.  The scheduler runs only if there is one. *)
OSMutexPost(t, e) ==
    LET s == IF LowersOwner(e, t) THEN RdyAtPrio(t, ecb[e].obj.prio) ELSE AsIs
        next == Min(ecb[e].wait)
        heir == s.tbl[next]
    IN
    /\ Runs(t) /\ Owned(e) /\ Owner(e) = t
    /\ OSTCBPrioTbl' = [s.tbl EXCEPT ![Pip(e)] = "reserved"]
    /\ UNCHANGED <<call, OSLockNesting>>
    /\ \/ /\ ecb[e].wait # {}
          /\ tcb' = Woken(s.tcb, e, {heir}, "OK", Null)
          /\ OSRdyTbl' = s.rdy \cup {tcb[u].prio : u \in Unsuspended({heir})}
          /\ ecb' = [LeaveLists(e, {heir}) EXCEPT ![e].obj = OwnedBy(e, heir, next)]
          /\ OS_Sched
       \/ /\ ecb[e].wait = {}
          /\ tcb' = s.tcb
          /\ OSRdyTbl' = s.rdy
          /\ ecb' = [ecb EXCEPT ![e].obj = Freed(e)]
          /\ NoSched

(* With OS_DEL_NO_PEND the owner is not looked at; with OS_DEL_ALWAYS an     *)
(* owner at PIP goes back to its own priority.                             *)
OSMutexDel(e, always) ==
    LET o == Owner(e)
        down == always /\ o # Null /\ LowersOwner(e, o)
        s == IF down THEN RdyAtPrio(o, ecb[e].obj.prio) ELSE AsIs
        waiters == {s.tbl[p] : p \in ecb[e].wait}
    IN
    /\ Type(e) = "MUTEX"
    /\ always \/ ecb[e].wait = {}
    /\ tcb' = Woken(s.tcb, e, waiters, "OK", Null)
    /\ OSRdyTbl' = s.rdy \cup {tcb[u].prio : u \in Unsuspended(waiters)}
    /\ ecb' = [LeaveLists(e, waiters) EXCEPT ![e] = Unused]
    /\ OSTCBPrioTbl' = [s.tbl EXCEPT ![Pip(e)] = "free"]
    /\ UNCHANGED <<call, OSLockNesting>>
    /\ SchedIf(ecb[e].wait # {})

OSMutexQuery(e) == [OSMutexPIP |-> Pip(e), OSOwnerPrio |-> ecb[e].obj.prio,
                    OSValue |-> ~Owned(e), OSEventTbl |-> ecb[e].wait]

=============================================================================
