------------------------------ MODULE Startup ------------------------------
(***************************************************************************)
(* From reset to the first task: alt_main, the initialisation of uC/OS-II  *)
(* and of the drivers, main() and OSStart.  The processor's interrupts are *)
(* on from the first step, and each device may interrupt as soon as its    *)
(* driver has registered a handler, long before the kernel runs.  A task   *)
(* control block is named by its number, a task by its priority.           *)
(***************************************************************************)
EXTENDS Integers, FiniteSetsExt, SequencesExt

CONSTANTS LowestPrio,   (* OS_LOWEST_PRIO                                    *)
          MainTasks,    (* the priorities of main()'s tasks, as created      *)
          TcbCount,     (* OS_MAX_TASKS + OS_N_SYS_TASKS                     *)
          MaxEvents,    (* OS_MAX_EVENTS                                     *)
          MaxQs,        (* OS_MAX_QS                                         *)
          TicksPerSec,  (* TIMER_TICKS_PER_SEC                               *)
          MaxTime       (* bound: ticks until the first task runs            *)

(* The system's own tasks have the two least urgent priorities. *)
OS_InitTaskIdle == LowestPrio
OS_InitTaskStat == LowestPrio - 1

SysTasks == <<OS_InitTaskIdle, OS_InitTaskStat>>
Created == SysTasks \o MainTasks

ASSUME StartupAssumption ==
    /\ LowestPrio \in Nat \ {0} /\ IsInjective(Created)
    /\ MainTasks \in Seq(0 .. LowestPrio) \ {<<>>}
    /\ TicksPerSec \in Nat \ {0} /\ MaxTime \in Nat
    /\ TcbCount \in Nat /\ TcbCount >= Len(Created)
    /\ MaxEvents \in Nat /\ MaxQs \in Nat

VARIABLES
    stage,     (* the step of alt_main, main or OSStart that comes next      *)
    next,      (* the task being created, in Created                         *)
    kernel,    (* OSRunning, OSIntNesting, OSTCBCur, OSPrioCur, OSTime       *)
    blocks,    (* OSTCBFreeList, OSTCBList and the block in hand             *)
    prioTbl,   (* OSTCBPrioTbl                                               *)
    ready,     (* OSRdyTbl                                                   *)
    hal,       (* the processor's PIE, the lines enabled, _alt_tick_rate     *)
    made,      (* the kernel objects and global variables that exist         *)
    pools,     (* the length of OSEventFreeList and of OSQFreeList           *)
    stray      (* history: a context was saved where no task was current     *)

startupVars == <<stage, next, kernel, blocks, prioTbl, ready, hal, made, pools, stray>>

Nobody == -1
NoTcb == -2
Reserved == -3

(* What the C startup code leaves: all memory clear. *)
StartupInit ==
    /\ stage = "alt_irq_init"
    /\ next = 1
    /\ kernel = [running |-> FALSE, nesting |-> 0, cur |-> Nobody, prio |-> 0, time |-> 0]
    /\ blocks = [free |-> <<>>, list |-> <<>>, hand |-> Nobody]
    /\ prioTbl = [p \in ToSet(Created) |-> NoTcb]
    /\ ready = {}
    /\ hal = [pie |-> FALSE, lines |-> {}, rate |-> 0, alarm |-> FALSE, redirected |-> FALSE]
    /\ made = {}
    /\ pools = [events |-> 0, queues |-> 0]
    /\ stray = FALSE

Step(from, to) == stage = from /\ stage' = to

-----------------------------------------------------------------------------
(* OSInit's values: of the variables, the ready list, the control blocks and *)
(* the pools that events and queues are taken from.                          *)

OS_InitMisc(k) == [k EXCEPT !.running = FALSE, !.nesting = 0, !.time = 0]

OS_InitRdyList(k) == [k EXCEPT !.cur = Nobody, !.prio = 0]

OS_InitTCBList == [free |-> [i \in 1 .. TcbCount |-> i], list |-> <<>>, hand |-> Nobody]

OS_QInit(p) == [p EXCEPT !.queues = MaxQs]

(* A semaphore takes an event, a flag group does not; what finds no event is *)
(* not made, and nobody asks.                                                *)
Creates(what, semaphores) ==
    IF pools.events >= semaphores
    THEN made' = made \cup what /\ pools' = [pools EXCEPT !.events = @ - semaphores]
    ELSE UNCHANGED <<made, pools>>

-----------------------------------------------------------------------------
(* alt_main, up to main *)

alt_irq_init ==
    /\ Step("alt_irq_init", "OSInit")
    /\ hal' = [hal EXCEPT !.pie = TRUE]
    /\ UNCHANGED <<next, kernel, blocks, prioTbl, ready, made, pools, stray>>

(* Up to the creation of the system's tasks. *)
OSInit ==
    /\ Step("OSInit", "create")
    /\ kernel' = OS_InitRdyList(OS_InitMisc(kernel))
    /\ ready' = {}
    /\ blocks' = OS_InitTCBList
    /\ prioTbl' = [p \in DOMAIN prioTbl |-> NoTcb]
    /\ made' = {}
    /\ pools' = OS_QInit([pools EXCEPT !.events = MaxEvents])
    /\ UNCHANGED <<next, hal, stray>>

(* alt_envsem and alt_heapsem, of ALT_OS_INIT *)
AltOsInit ==
    /\ Step("alt_os_init", "alt_fd_list_lock")
    /\ Creates({"envsem", "heapsem"}, 2)
    /\ UNCHANGED <<next, kernel, blocks, prioTbl, ready, hal, stray>>

FdListLock ==
    /\ Step("alt_fd_list_lock", "alt_avalon_timer_sc_init")
    /\ Creates({"fd_list_lock"}, 1)
    /\ UNCHANGED <<next, kernel, blocks, prioTbl, ready, hal, stray>>

(* Only the first caller sets the rate. *)
alt_sysclk_init == IF hal.rate = 0 THEN [hal EXCEPT !.rate = TicksPerSec] ELSE hal

(* The rate, and then the line. *)
alt_avalon_timer_sc_init ==
    /\ Step("alt_avalon_timer_sc_init", "jtag_uart_objects")
    /\ hal' = [alt_sysclk_init EXCEPT !.lines = @ \cup {"timer"}]
    /\ UNCHANGED <<next, kernel, blocks, prioTbl, ready, made, pools, stray>>

UartObjects ==
    /\ Step("jtag_uart_objects", "jtag_uart_irq")
    /\ Creates({"events", "read_lock", "write_lock"}, 2)
    /\ UNCHANGED <<next, kernel, blocks, prioTbl, ready, hal, stray>>

UartIrq ==
    /\ Step("jtag_uart_irq", "jtag_uart_alarm")
    /\ hal' = [hal EXCEPT !.lines = @ \cup {"jtag_uart"}]
    /\ UNCHANGED <<next, kernel, blocks, prioTbl, ready, made, pools, stray>>

(* alt_alarm_start fails as long as there is no tick. *)
UartAlarm ==
    /\ Step("jtag_uart_alarm", "alt_io_redirect")
    /\ hal' = [hal EXCEPT !.alarm = hal.rate > 0]
    /\ UNCHANGED <<next, kernel, blocks, prioTbl, ready, made, pools, stray>>

(* Opens descriptors: takes alt_fd_list_lock, which nobody can hold. *)
alt_io_redirect ==
    /\ Step("alt_io_redirect", "OSQCreate")
    /\ "fd_list_lock" \in made
    /\ hal' = [hal EXCEPT !.redirected = TRUE]
    /\ UNCHANGED <<next, kernel, blocks, prioTbl, ready, made, pools, stray>>

-----------------------------------------------------------------------------
(* main *)

OSQCreate ==
    /\ Step("OSQCreate", "create")
    /\ IF pools.events > 0 /\ pools.queues > 0
       THEN /\ made' = made \cup {"MainQueue"}
            /\ pools' = [events |-> pools.events - 1, queues |-> pools.queues - 1]
       ELSE UNCHANGED <<made, pools>>
    /\ UNCHANGED <<next, kernel, blocks, prioTbl, ready, hal, stray>>

(* OSTaskCreateExt, between its critical sections. *)
Reserve ==
    /\ Step("create", "take")
    /\ prioTbl[Created[next]] = NoTcb
    /\ prioTbl' = [prioTbl EXCEPT ![Created[next]] = Reserved]
    /\ UNCHANGED <<next, kernel, blocks, ready, hal, made, pools, stray>>

TakeBlock ==
    /\ Step("take", "link")
    /\ blocks.free # <<>>
    /\ blocks' = [blocks EXCEPT !.free = Tail(@), !.hand = Head(blocks.free)]
    /\ UNCHANGED <<next, kernel, prioTbl, ready, hal, made, pools, stray>>

(* The new task is the first of the list, so that the idle task is the last. *)
LinkBlock ==
    /\ stage = "link"
    /\ blocks' = [blocks EXCEPT !.list = <<blocks.hand>> \o @, !.hand = Nobody]
    /\ prioTbl' = [prioTbl EXCEPT ![Created[next]] = blocks.hand]
    /\ ready' = ready \cup {Created[next]}
    /\ next' = next + 1
    /\ stage' = IF next = Len(SysTasks) THEN "alt_os_init"
             ELSE IF next = Len(Created) THEN "globals" ELSE "create"
    /\ UNCHANGED <<kernel, hal, made, pools, stray>>

(* M_allStop and the variables that the tasks share. *)
Globals ==
    /\ Step("globals", "OS_SchedNew")
    /\ made' = made \cup {"stopped", "TRVL", "SYSTEM_STATUS"}
    /\ UNCHANGED <<next, kernel, blocks, prioTbl, ready, hal, pools, stray>>

-----------------------------------------------------------------------------
(* OSStart, with interrupts, and OSStartHighRdy, without *)

Highest == Min(ready)

OSStart ==
    /\ Step("OS_SchedNew", "OSTCBCur")
    /\ kernel' = [kernel EXCEPT !.prio = Highest]
    /\ UNCHANGED <<next, blocks, prioTbl, ready, hal, made, pools, stray>>

PointAtFirst ==
    /\ Step("OSTCBCur", "OSStartHighRdy")
    /\ kernel' = [kernel EXCEPT !.cur = prioTbl[Highest]]
    /\ UNCHANGED <<next, blocks, prioTbl, ready, hal, made, pools, stray>>

OSStartHighRdy ==
    /\ Step("OSStartHighRdy", "OSStartTsk")
    /\ hal' = [hal EXCEPT !.pie = FALSE]
    /\ kernel' = [kernel EXCEPT !.running = TRUE]
    /\ UNCHANGED <<next, blocks, prioTbl, ready, made, pools, stray>>

(* On the task's own stack. *)
OSStartTsk ==
    /\ Step("OSStartTsk", "task")
    /\ hal' = [hal EXCEPT !.pie = TRUE]
    /\ UNCHANGED <<next, kernel, blocks, prioTbl, ready, made, pools, stray>>

-----------------------------------------------------------------------------
(* Interrupts, of which each runs to its end *)

(* Mutant: the kernel need not run for an interrupt to switch tasks. *)
Rescheduled_Always(k) ==
    IF k.nesting = 0 /\ ready # {} /\ Highest # k.prio
    THEN [k EXCEPT !.prio = Highest, !.cur = prioTbl[Highest]] ELSE k

(* OSIntExit: the scheduler, when the last interrupt is left. *)
Rescheduled(k) ==
    IF k.running /\ k.nesting = 0 /\ Highest # k.prio
    THEN [k EXCEPT !.prio = Highest, !.cur = prioTbl[Highest]] ELSE k

(* OSIntEnter and OSIntExit count only once the kernel runs; so does the     *)
(* walk of OSTimeTick along OSTCBList.                                       *)
Interrupt(line) ==
    LET entered == IF kernel.running THEN kernel.nesting + 1 ELSE kernel.nesting
        inside == [kernel EXCEPT !.nesting = entered,
                                 !.time = IF line = "timer" THEN @ + 1 ELSE @]
        left == [inside EXCEPT !.nesting = IF @ > 0 /\ kernel.running THEN @ - 1 ELSE @]
    IN  /\ hal.pie /\ line \in hal.lines
        /\ line = "timer" => kernel.time < MaxTime
        /\ kernel' = Rescheduled(left)
        /\ stray' = (stray \/ (kernel' # left /\ left.cur = Nobody))
        /\ UNCHANGED <<stage, next, blocks, prioTbl, ready, hal, made, pools>>

StartupNext ==
    \/ alt_irq_init \/ OSInit \/ AltOsInit \/ FdListLock \/ alt_avalon_timer_sc_init
    \/ UartObjects \/ UartIrq \/ UartAlarm \/ alt_io_redirect
    \/ OSQCreate \/ Reserve \/ TakeBlock \/ LinkBlock \/ Globals
    \/ OSStart \/ PointAtFirst \/ OSStartHighRdy \/ OSStartTsk
    \/ \E line \in {"timer", "jtag_uart"} : Interrupt(line)

-----------------------------------------------------------------------------
(* Safety. *)

(* An interrupt that comes during the start finds what its handler uses:    *)
(* the events the console's handler posts, the rate of the clock, and, once *)
(* the kernel counts as running, a current task whose context can be saved  *)
(* and a list of tasks that ends with the idle task (os_core.c 651-679,     *)
(* 887-915, os_cpu_a.S 199-230, alt_main.c 96-110).                         *)
InterruptsFindTheirObjects ==
    /\ "jtag_uart" \in hal.lines => {"events", "read_lock", "write_lock"} \subseteq made
    /\ "timer" \in hal.lines => hal.rate > 0
    /\ ~ kernel.running => kernel.nesting = 0
    /\ kernel.running /\ hal.pie => /\ kernel.cur # Nobody
                                    /\ prioTbl[kernel.prio] = kernel.cur
                                    /\ prioTbl[Created[1]] = Last(blocks.list)
    /\ ~ stray

(* Every control block is free, in a task or in hand, and a priority's task *)
(* is in the list and ready (os_core.c 1504-1531, 1926-2012).               *)
BlocksAccounted ==
    /\ blocks.free # <<>> \/ blocks.list # <<>> =>
         ToSet(blocks.free) \cup ToSet(blocks.list) \cup ({blocks.hand} \ {Nobody}) = 1 .. TcbCount
    /\ Len(blocks.list) = Cardinality(ready)
    /\ ToSet(blocks.list) = {prioTbl[p] : p \in ready}

(* The first task to run is the most urgent, and it finds all that the      *)
(* tasks share and the console's alarm (nav.c 538-604).                     *)
FirstTaskFindsAll ==
    stage = "task" =>
        /\ kernel.prio = Min(ToSet(Created)) /\ ready = ToSet(Created)
        /\ {"MainQueue", "stopped", "TRVL", "SYSTEM_STATUS", "heapsem", "envsem"} \subseteq made
        /\ hal.alarm /\ hal.redirected

(* The three together: nothing runs before what it needs                    *)
(* (alt_main.c 82-160, nav.c 538-604, os_core.c 785-794).                   *)
StartsInOrder == InterruptsFindTheirObjects /\ BlocksAccounted /\ FirstTaskFindsAll
=============================================================================
