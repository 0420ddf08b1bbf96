------------------------------ MODULE UcosFlag ------------------------------
(***************************************************************************)
(* Event flags (os_flag.c): a task waits until all or any of some bits of  *)
(* a group are set or clear, and may consume the bits it waited for.  The  *)
(* nodes of a group's wait list live on the stacks of the waiting tasks;   *)
(* a task has at most one, node[t].                                        *)
(***************************************************************************)
EXTENDS UcosCore

CONSTANTS Group,   (* the flag group blocks              *)
          Bit      (* the bits of a group that are used *)

(* A flag group is no event control block (OS_FLAG_GRP, OS_EVENT). *)
ASSUME FlagAssumption == Group \cap Event = {}

VARIABLES group,   (* per group: in use or not, and the bits that are set        *)
          node,    (* per task: the group it waits on, for which bits and how    *)
          flagsRdy,(* per task: OSTCBFlagsRdy                                    *)
          consumes (* per task: the local variable `consume' of OSFlagPend       *)

flagVars == <<group, node, flagsRdy, consumes>>

WaitType == [set : BOOLEAN, all : BOOLEAN]
NoNode == [grp |-> Null]
NoGroup == [used |-> FALSE, flags |-> {}]

FlagInit ==
    /\ group = [g \in Group |-> NoGroup]
    /\ node = [t \in Task |-> NoNode]
    /\ flagsRdy = [t \in Task |-> {}]
    /\ consumes = [t \in Task |-> "no"]

Waiters(g) == {t \in Task : node[t].grp = g}

(* The bits of `want' that are as the wait type asks. *)
Ready(flags, want, how) == IF how.set THEN want \cap flags ELSE want \ flags

Satisfied(flags, want, how) ==
    IF how.all THEN Ready(flags, want, how) = want ELSE Ready(flags, want, how) # {}

(* Consuming makes set bits clear and clear bits set. *)
Consumed(flags, bits, consume) ==
    CASE consume = "clears" -> flags \ bits
      [] consume = "sets" -> flags \cup bits
      [] OTHER -> flags

HowConsumed(how, consume) == IF ~consume THEN "no" ELSE IF how.set THEN "clears" ELSE "sets"

-----------------------------------------------------------------------------

OSFlagCreate(g, flags) ==
    /\ ~group[g].used
    /\ group' = [group EXCEPT ![g] = [used |-> TRUE, flags |-> flags]]
    /\ UNCHANGED <<core, node, flagsRdy, consumes>>

(* OS_FlagBlock: the running task enters the group's list. *)
OS_FlagBlock(t, g, want, how, ticks) ==
    /\ tcb' = [tcb EXCEPT ![t] = [tcb[t] EXCEPT !.stat = @ \cup {"FLAG"}, !.pend = "OK", !.dly = ticks]]
    /\ node' = [node EXCEPT ![t] = [grp |-> g, want |-> want, how |-> how]]
    /\ OSRdyTbl' = OSRdyTbl \ {tcb[t].prio}

OSFlagPend(t, g, want, how, consume, ticks) ==
    LET flags == group[g].flags
        ok == Satisfied(flags, want, how)
        bits == Ready(flags, want, how)
        c == HowConsumed(how, consume)
    IN
    /\ Runs(t) /\ consumes[t] = "no" /\ node[t] = NoNode
    /\ OSLockNesting = 0 /\ group[g].used
    /\ \/ /\ ok
          /\ group' = [group EXCEPT ![g].flags = Consumed(@, bits, c)]
          /\ flagsRdy' = [flagsRdy EXCEPT ![t] = bits]
          /\ UNCHANGED <<core, node, consumes>>
       \/ /\ ~ok
          /\ OS_FlagBlock(t, g, want, how, ticks)
          /\ call' = [call EXCEPT ![t].on = {g}]
          /\ consumes' = [consumes EXCEPT ![t] = c]
          /\ UNCHANGED <<group, flagsRdy, OSTCBPrioTbl, ecb, OSLockNesting>>
          /\ OS_Sched

(* The task that waited runs again: after a timeout it leaves the list,      *)
(* otherwise it consumes the bits it was readied with, now.                *)
OSFlagPendReturn(t) ==
    /\ OSTCBCur = t /\ call[t].on \cap Group # {}
    /\ LET g == CHOOSE h \in Group : h \in call[t].on IN
       IF tcb[t].pend # "OK"
       THEN /\ tcb' = [tcb EXCEPT ![t] = [@ EXCEPT !.pend = "OK", !.stat = {}]]
            /\ node' = [node EXCEPT ![t] = NoNode]
            /\ UNCHANGED group
       ELSE /\ group' = [group EXCEPT ![g].flags = Consumed(@, flagsRdy[t], consumes[t])]
            /\ UNCHANGED <<tcb, node>>
    /\ call' = [call EXCEPT ![t] = NoCall]
    /\ consumes' = [consumes EXCEPT ![t] = "no"]
    /\ UNCHANGED <<flagsRdy, OSTCBPrioTbl, OSRdyTbl, ecb, OSTCBCur, OSPrioCur, OSLockNesting>>

OSFlagAccept(g, want, how, consume) ==
    LET flags == group[g].flags IN
    /\ group[g].used /\ Satisfied(flags, want, how)
    /\ group' = [group EXCEPT ![g].flags = Consumed(@, Ready(flags, want, how), HowConsumed(how, consume))]
    /\ UNCHANGED <<core, node, flagsRdy, consumes>>

(* OS_FlagTaskRdy for the tasks of T: out of the list, with the bits of      *)
(* `bits'; in the ready table if nothing else blocks them.                 *)
OS_FlagTaskRdy(T, bits(_)) ==
    LET status(t) == tcb[t].stat \ {"FLAG"}
        ready == {t \in T : status(t) = {}}
    IN
    /\ tcb' = [t \in Task |-> IF t \in T
                              THEN [tcb[t] EXCEPT !.dly = 0, !.stat = status(t), !.pend = "OK"]
                              ELSE tcb[t]]
    /\ node' = [t \in Task |-> IF t \in T THEN NoNode ELSE node[t]]
    /\ flagsRdy' = [t \in Task |-> IF t \in T THEN bits(t) ELSE flagsRdy[t]]
    /\ OSRdyTbl' = OSRdyTbl \cup {tcb[t].prio : t \in ready}
    /\ UNCHANGED <<call, consumes, OSTCBPrioTbl, ecb, OSLockNesting>>

(* Mutant: only one waiter is looked at. *)
Served_One(g, flags) ==
    LET ok == {t \in Waiters(g) : Satisfied(flags, node[t].want, node[t].how)} IN
    IF ok = {} THEN {} ELSE {CHOOSE t \in ok : TRUE}

(* The waiters of g whose condition the flags satisfy. *)
Served(g, flags) == {t \in Waiters(g) : Satisfied(flags, node[t].want, node[t].how)}

(* Every waiter is compared with the new flags; none of them consumes yet. *)
OSFlagPost(g, bits, set) ==
    LET flags == IF set THEN group[g].flags \cup bits ELSE group[g].flags \ bits
        T == Served(g, flags)
        readyBits(t) == Ready(flags, node[t].want, node[t].how)
    IN
    /\ group[g].used
    /\ group' = [group EXCEPT ![g].flags = flags]
    /\ OS_FlagTaskRdy(T, readyBits)
    /\ SchedIf(\E t \in T : tcb[t].stat \subseteq {"FLAG"})

OSFlagDel(g, always) ==
    LET none(t) == {} IN
    /\ group[g].used
    /\ always \/ Waiters(g) = {}
    /\ group' = [group EXCEPT ![g] = NoGroup]
    /\ OS_FlagTaskRdy(Waiters(g), none)
    /\ SchedIf(Waiters(g) # {})

OSFlagQuery(g) == group[g].flags
OSFlagPendGetFlagsRdy(t) == flagsRdy[t]

(* OSTaskDel takes the node of a task out of its list (OS_FlagUnlink). *)
FlagUnlink(t) ==
    /\ node' = [node EXCEPT ![t] = NoNode]
    /\ consumes' = [consumes EXCEPT ![t] = "no"]
    /\ UNCHANGED <<group, flagsRdy>>

=============================================================================
