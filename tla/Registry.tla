------------------------------ MODULE Registry ------------------------------
(***************************************************************************)
(* What uC/OS-II's control blocks say of the objects that use them, one    *)
(* after the other: the names of tasks, events, event flag groups and      *)
(* memory partitions, and the request to a task that it delete itself      *)
(* (OSTaskDelReq).  A task control block goes back to the free list with   *)
(* its task and is the first to be taken again.  Events and flag groups    *)
(* are named by a pointer to their block, which may be another object's by *)
(* the time it is used.                                                    *)
(***************************************************************************)
EXTENDS Integers, SequencesExt

CONSTANTS RegTcb,    (* the task control blocks                              *)
          RegPrio,   (* the priorities tasks are created at                  *)
          RegEvent,  (* the event control blocks                             *)
          RegGroup,  (* the event flag groups                                *)
          RegPart,   (* the memory partitions                                *)
          NameLen,   (* the names given, each with its length                *)
          NameSize   (* OS_TASK_NAME_SIZE and its like, which are all 32     *)

ASSUME RegistryAssumption ==
    /\ NameLen \in [DOMAIN NameLen -> Nat] /\ NameSize \in Nat \ {0}
    /\ "?" \notin DOMAIN NameLen
    /\ IsFiniteSet(RegTcb) /\ "no task" \notin RegTcb
    /\ RegTcb \cap (RegEvent \cup RegGroup \cup RegPart) = {}
    /\ RegEvent \cap (RegGroup \cup RegPart) = {}

VARIABLES
    freeTcb,   (* OSTCBFreeList                                              *)
    taskAt,    (* OSTCBPrioTbl: a control block or Untasked                    *)
    block,     (* every control block: whether it is in use, and its name    *)
    delReq,    (* OSTCBDelReq of each                                        *)
    leaving,   (* the tasks that have found that they are asked to go        *)
    naming,    (* OSEventNameSet past its test of the type, or NoNaming      *)
    told       (* history: the last name given to each block's object, and   *)
               (* whether the object was asked to go; a name that came late  *)

registryVars == <<freeTcb, taskAt, block, delReq, leaving, naming, told>>

Untasked == "no task"
NoNaming == <<>>
Named == RegEvent \cup RegGroup \cup RegPart
NewBlock == [used |-> FALSE, name |-> "?"]

RegistryInit ==
    /\ freeTcb = SetToSeq(RegTcb)
    /\ taskAt = [p \in RegPrio |-> Untasked]
    /\ block = [b \in RegTcb \cup Named |-> NewBlock]
    /\ delReq = [t \in RegTcb |-> FALSE]
    /\ leaving = {}
    /\ naming = NoNaming
    /\ told = [name |-> [b \in RegTcb \cup Named |-> "?"], asked |-> {}, late |-> {}]

-----------------------------------------------------------------------------
(* Names: a copy of the string, if it fits with its end. *)

OS_StrLen(name) == NameLen[name]
OS_StrCopy(b, name) == block' = [block EXCEPT ![b].name = name]

Fits(name) == OS_StrLen(name) <= NameSize - 1

(* An object comes to use the block b, or stops using it. *)
Begins(b) ==
    /\ block' = [block EXCEPT ![b] = [used |-> TRUE, name |-> "?"]]
    /\ told' = [told EXCEPT !.name[b] = "?", !.asked = @ \ {b}, !.late = @ \ {b}]

Ends(b) ==
    /\ block' = [block EXCEPT ![b] = NewBlock]
    /\ told' = [told EXCEPT !.name[b] = "?", !.late = @ \ {b}]

GivesName(b, name) ==
    /\ Fits(name)
    /\ OS_StrCopy(b, name)
    /\ told' = [told EXCEPT !.name[b] = name, !.late = @ \ {b}]

-----------------------------------------------------------------------------
(* Tasks *)

OS_TCBInit(t) ==
    /\ Begins(t)
    /\ freeTcb' = Tail(freeTcb)
    /\ delReq' = [delReq EXCEPT ![t] = FALSE]

TaskBegins(p) ==
    /\ taskAt[p] = Untasked
    /\ freeTcb # <<>>
    /\ OS_TCBInit(Head(freeTcb))
    /\ taskAt' = [taskAt EXCEPT ![p] = Head(freeTcb)]
    /\ UNCHANGED <<leaving, naming>>

(* OSTaskDel, of any task or by a task that leaves, of itself. *)
TaskEnds(p) ==
    LET t == taskAt[p] IN
    /\ t # Untasked
    /\ Ends(t)
    /\ freeTcb' = <<t>> \o freeTcb
    /\ taskAt' = [taskAt EXCEPT ![p] = Untasked]
    /\ leaving' = leaving \ {t}
    /\ UNCHANGED <<delReq, naming>>

(* Of another task. *)
OSTaskDelReq(p) ==
    /\ taskAt[p] # Untasked
    /\ delReq' = [delReq EXCEPT ![taskAt[p]] = TRUE]
    /\ told' = [told EXCEPT !.asked = @ \cup {taskAt[p]}]
    /\ UNCHANGED <<freeTcb, taskAt, block, leaving, naming>>

(* Of itself: the task at p asks whether it shall go. *)
SelfDelReq(p) ==
    /\ taskAt[p] # Untasked /\ delReq[taskAt[p]]
    /\ leaving' = leaving \cup {taskAt[p]}
    /\ UNCHANGED <<freeTcb, taskAt, block, delReq, naming, told>>

OSTaskNameSet(p, name) ==
    /\ taskAt[p] # Untasked
    /\ GivesName(taskAt[p], name)
    /\ UNCHANGED <<freeTcb, taskAt, delReq, leaving, naming>>

OSTaskNameGet(p) == block[taskAt[p]].name

-----------------------------------------------------------------------------
(* Events, flag groups and partitions.  A partition is never given back.     *)

RestOf == UNCHANGED <<freeTcb, taskAt, delReq, leaving>>

ObjectBegins(b) ==
    /\ ~ block[b].used
    /\ Begins(b)
    /\ RestOf /\ UNCHANGED naming

ObjectEnds(b) ==
    /\ block[b].used
    /\ Ends(b)
    /\ RestOf /\ UNCHANGED naming

(* Tests the type of an event, and then, in a critical section, its name. *)
OSEventNameSet(b, name) ==
    /\ naming = NoNaming
    /\ block[b].used
    /\ naming' = <<b, name, FALSE>>
    /\ RestOf /\ UNCHANGED <<block, told>>

(* Whoever comes between may end the event, and begin another in its block.  *)
Overtaken(b) == IF naming # NoNaming /\ naming[1] = b THEN <<b, naming[2], TRUE>> ELSE naming

EventEnds(b) ==
    /\ block[b].used
    /\ Ends(b)
    /\ naming' = Overtaken(b)
    /\ RestOf

EventNamed ==
    /\ naming # NoNaming
    /\ naming' = NoNaming
    /\ IF ~ Fits(naming[2]) THEN UNCHANGED <<block, told>>
       ELSE IF ~ naming[3] THEN GivesName(naming[1], naming[2])
       ELSE OS_StrCopy(naming[1], naming[2]) /\ told' = [told EXCEPT !.late = @ \cup {naming[1]}]
    /\ RestOf

OSEventNameGet(b) == block[b].name

(* The type of a group is tested in the critical section. *)
OSFlagNameSet(b, name) ==
    /\ block[b].used
    /\ GivesName(b, name)
    /\ RestOf /\ UNCHANGED naming

OSFlagNameGet(b) == block[b].name

(* Of a partition that OSMemCreate has returned; nothing is tested. *)
OSMemNameSet(b, name) ==
    /\ block[b].used
    /\ GivesName(b, name)
    /\ RestOf /\ UNCHANGED naming

OSMemNameGet(b) == block[b].name

RegistryNext ==
    \/ \E p \in RegPrio : TaskBegins(p) \/ TaskEnds(p) \/ OSTaskDelReq(p) \/ SelfDelReq(p)
    \/ \E p \in RegPrio, name \in DOMAIN NameLen : OSTaskNameSet(p, name)
    \/ \E b \in Named : ObjectBegins(b)
    \/ \E b \in RegGroup : ObjectEnds(b)
    \/ \E b \in RegEvent : EventEnds(b)
    \/ \E b \in RegEvent, name \in DOMAIN NameLen : OSEventNameSet(b, name)
    \/ EventNamed
    \/ \E b \in RegGroup, name \in DOMAIN NameLen : OSFlagNameSet(b, name)
    \/ \E b \in RegPart, name \in DOMAIN NameLen : OSMemNameSet(b, name)

-----------------------------------------------------------------------------
(* Safety. *)

(* A task is asked to go only if somebody asked it, not the task that had   *)
(* its control block before, and a request once made stays until the task   *)
(* has gone; a task that goes by itself was asked (os_task.c 567-606,       *)
(* os_core.c 1926-2012).                                                    *)
RequestsReachTheirTask ==
    /\ \A p \in RegPrio : taskAt[p] # Untasked =>
         (delReq[taskAt[p]] <=> taskAt[p] \in told.asked)
    /\ leaving \subseteq told.asked

(* What can be asked for its name has the one it was given last, or none,   *)
(* and never its predecessor's, and what is in no use has none: but for an  *)
(* event whose block changed hands between OSEventNameSet's test and its    *)
(* copy (os_core.c 205-229).                                                *)
NamesAreTheirOwn ==
    /\ \A p \in RegPrio : taskAt[p] # Untasked => OSTaskNameGet(p) = told.name[taskAt[p]]
    /\ \A b \in RegEvent \ told.late : OSEventNameGet(b) = told.name[b]
    /\ \A b \in RegGroup : OSFlagNameGet(b) = told.name[b]
    /\ \A b \in RegPart : OSMemNameGet(b) = told.name[b]
    /\ \A b \in DOMAIN block : block[b].name # "?" => Fits(block[b].name)
    /\ \A i \in 1 .. Len(freeTcb) : block[freeTcb[i]] = NewBlock

(* The two together (os_core.c 183-230, 1926-2012, os_task.c 567-767).      *)
RegistryHolds == RequestsReachTheirTask /\ NamesAreTheirOwn
=============================================================================
