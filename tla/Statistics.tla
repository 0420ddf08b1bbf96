----------------------------- MODULE Statistics -----------------------------
(***************************************************************************)
(* What uC/OS-II measures of itself: the share of the processor that is in *)
(* use, from a counter of the idle task (OSStatInit, OS_TaskIdle and       *)
(* OS_TaskStat of os_core.c), and how deep each stack has been in use, by  *)
(* a walk over the cells that are still clear (OS_TaskStatStkChk,          *)
(* OSTaskStkChk, OS_TaskStkClr).  The walk runs outside critical sections: *)
(* the task may push, be deleted and be replaced meanwhile.                *)
(***************************************************************************)
EXTENDS Integers

CONSTANTS Tenth,    (* OS_TICKS_PER_SEC / 10                                 *)
          Percent,  (* 100                                                   *)
          UsageWide, (* 2^w: the values of OSCPUUsage                        *)
          CtrWide,  (* 2^w: the values of OSIdleCtr                          *)
          Speeds,   (* what the idle task may count in a tick of its own     *)
          StkSize,  (* the cells of a stack, the bottom one being 1          *)
          Stack     (* the stacks                                            *)

ASSUME StatisticsAssumption ==
    /\ Tenth \in Nat \ {0} /\ Percent \in Nat \ {0}
    /\ UsageWide \in Nat /\ UsageWide > Percent
    /\ CtrWide \in Nat /\ \A n \in Speeds : n \in Nat \ {0} /\ 4 * Tenth * n < CtrWide
    /\ StkSize \in Nat /\ StkSize > 1 /\ Stack # {}

VARIABLES
    usage,  (* OSIdleCtr, OSIdleCtrRun, OSIdleCtrMax, OSStatRdy, OSCPUUsage  *)
    app,    (* the application: how far OSStatInit is, its delay, its speed  *)
    stat,   (* OS_TaskStat: where it is, its delay, whether it is ready      *)
    load,   (* history: samples, the work since the last and before it       *)
    stk,    (* the contents of each stack                                    *)
    owner,  (* the task at the priority that is checked                      *)
    check   (* the local variables of OSTaskStkChk                           *)

usageVars == <<usage, app, stat, load>>
stackVars == <<stk, owner, check>>
statisticsVars == <<usageVars, stackVars>>

Bottom == 1
NoCheck == [at |-> "idle", stk |-> CHOOSE s \in Stack : TRUE, nfree |-> 0, replaced |-> FALSE]

(* The application calls OSStatInit first, or never, as the rover. *)
StatisticsInit ==
    /\ usage = [ctr |-> 0, run |-> 0, max |-> 0, rdy |-> FALSE, cpu |-> 0]
    /\ \E speed \in Speeds, asks \in BOOLEAN :
         app = [at |-> IF asks THEN "sync" ELSE "works", dly |-> IF asks THEN 2 ELSE 0, speed |-> speed]
    /\ stat = [at |-> "polls", dly |-> 2 * Tenth, due |-> FALSE]
    /\ load = [samples |-> 0, work |-> 0, seen |-> 0]
    /\ stk \in [Stack -> {[i \in Bottom .. StkSize |-> 1]}]
    /\ owner = [alive |-> FALSE, stk |-> NoCheck.stk, clear |-> FALSE, depth |-> 0, high |-> 0,
                used |-> 0, foreign |-> FALSE]
    /\ check = NoCheck

-----------------------------------------------------------------------------
(* The share in use.  In a tick the application works first, as much as it   *)
(* likes once OSStatInit is over; what is left is the statistics task's, if  *)
(* it is ready, and then the idle task's.                                    *)

(* u is `usage' as the tick leaves it so far. *)
OSStatInit(u) ==
    IF app.dly # 1 THEN u
    ELSE IF app.at = "sync" THEN [u EXCEPT !.ctr = 0]
    ELSE [u EXCEPT !.max = u.ctr, !.rdy = TRUE]

AppGoesOn ==
    IF app.dly # 1 THEN [app EXCEPT !.dly = IF @ > 0 THEN @ - 1 ELSE 0]
    ELSE IF app.at = "sync" THEN [app EXCEPT !.at = "measure", !.dly = Tenth]
    ELSE [app EXCEPT !.at = "works", !.dly = 0]

OS_TaskIdle(u, counts) == [u EXCEPT !.ctr = (@ + counts) % CtrWide]

Sample(u) == [u EXCEPT !.run = u.ctr, !.ctr = 0, !.cpu = (Percent - u.ctr \div u.max) % UsageWide]

(* The body of the task, up to its next delay. *)
OS_TaskStat(u) ==
    CASE stat.at = "polls" /\ ~ u.rdy -> [usage |-> u, at |-> "polls", dly |-> 2 * Tenth]
      [] stat.at = "polls" /\ u.rdy /\ u.max \div Percent = 0 ->
            [usage |-> [u EXCEPT !.max = 0, !.cpu = 0], at |-> "suspended", dly |-> 0]
      [] stat.at = "polls" /\ u.rdy /\ u.max \div Percent > 0 ->
            [usage |-> Sample([u EXCEPT !.max = @ \div Percent]), at |-> "samples", dly |-> Tenth]
      [] OTHER -> [usage |-> Sample(u), at |-> "samples", dly |-> Tenth]

(* One tick, of which the application works for `work' counts. *)
UsageTick(work) ==
    LET u == OSStatInit(usage)
        due == stat.at # "suspended" /\ (stat.due \/ stat.dly = 1)
        runs == due /\ work < app.speed
        after == OS_TaskStat(u)
    IN  /\ work > 0 => app.at = "works"
        /\ app' = AppGoesOn
        /\ usage' = OS_TaskIdle(IF runs THEN after.usage ELSE u, app.speed - work)
        /\ stat' = IF runs THEN [at |-> after.at, dly |-> after.dly, due |-> FALSE]
                   ELSE [stat EXCEPT !.due = due, !.dly = IF @ > 0 THEN @ - 1 ELSE 0]
        /\ load' = IF runs /\ after.at = "samples"
                   THEN [samples |-> IF load.samples = 2 THEN 2 ELSE load.samples + 1,
                         work |-> work, seen |-> load.work]
                   ELSE IF load.samples > 0 /\ ~ due THEN [load EXCEPT !.work = @ + work] ELSE load
        /\ UNCHANGED stackVars

UsageNext == \E work \in 0 .. app.speed : UsageTick(work)

(* From the second sample on the usage is the work's share of the last tenth *)
(* of a second in which the task could have run, rounded up; before the      *)
(* first it is 0, and where the counter is too slow to be divided it stays   *)
(* so.  The first sample covers more than a tenth, and may tell anything     *)
(* (os_core.c 817-834, 1809-1838).                                           *)
UsageIsTheWork ==
    /\ ~ usage.rdy \/ stat.at = "suspended" => usage.cpu = 0
    /\ load.samples = 2 =>
         LET unit == (Tenth * app.speed) \div Percent IN
         /\ usage.run + load.seen = Tenth * app.speed
         /\ (Tenth * app.speed) % Percent = 0 => usage.cpu = (load.seen + unit - 1) \div unit

-----------------------------------------------------------------------------
(* The depth of a stack. *)

(* Only with both options. *)
OS_TaskStkClr(s, clear) == IF clear THEN [i \in DOMAIN s |-> 0] ELSE s

(* OSTaskCreateExt at the priority, with OS_TASK_OPT_STK_CHK: the frame that *)
(* the task starts from is at the top of its stack.                          *)
CreateTask(s, clear) ==
    /\ ~ owner.alive
    /\ stk' = [stk EXCEPT ![s] = [OS_TaskStkClr(@, clear) EXCEPT ![StkSize] = 1]]
    /\ owner' = [alive |-> TRUE, stk |-> s, clear |-> clear, depth |-> 1, high |-> 1,
                 used |-> 0, foreign |-> FALSE]
    /\ check' = [check EXCEPT !.replaced = check.at # "idle"]
    /\ UNCHANGED usageVars

DeleteTask ==
    /\ owner.alive
    /\ owner' = [owner EXCEPT !.alive = FALSE]
    /\ UNCHANGED <<usageVars, stk, check>>

(* The task calls a function, whose frame may be clear, or returns. *)
PushFrame(v) ==
    /\ owner.alive /\ owner.depth < StkSize
    /\ stk' = [stk EXCEPT ![owner.stk][StkSize - owner.depth] = v]
    /\ owner' = [owner EXCEPT !.depth = @ + 1, !.high = IF owner.depth + 1 > @ THEN owner.depth + 1 ELSE @]
    /\ UNCHANGED <<usageVars, check>>

PopFrame ==
    /\ owner.alive /\ owner.depth > 1
    /\ owner' = [owner EXCEPT !.depth = @ - 1]
    /\ UNCHANGED <<usageVars, stk, check>>

(* Up to the end of its critical section. *)
OSTaskStkChk ==
    /\ check.at = "idle" /\ owner.alive
    /\ check' = [at |-> "count", stk |-> owner.stk, nfree |-> 0, replaced |-> FALSE]
    /\ UNCHANGED <<usageVars, stk, owner>>

CountFree ==
    /\ check.at = "count"
    /\ check' = IF stk[check.stk][Bottom + check.nfree] = 0 THEN [check EXCEPT !.nfree = @ + 1]
                ELSE [check EXCEPT !.at = "store"]
    /\ UNCHANGED <<usageVars, stk, owner>>

(* To the task that has the priority by now. *)
OS_TaskStatStkChk ==
    /\ check.at = "store"
    /\ owner' = IF owner.alive THEN [owner EXCEPT !.used = StkSize - check.nfree, !.foreign = check.replaced]
                ELSE owner
    /\ check' = NoCheck
    /\ UNCHANGED <<usageVars, stk>>

StacksNext ==
    \/ \E s \in Stack, clear \in BOOLEAN : CreateTask(s, clear)
    \/ DeleteTask \/ PopFrame \/ OSTaskStkChk \/ CountFree \/ OS_TaskStatStkChk
    \/ \E v \in {0, 1} : PushFrame(v)

(* The walk ends inside the stack, and says of a stack that was cleared no   *)
(* more than has been used, unless the task was replaced during the check:   *)
(* then it is told of its predecessor's (os_core.c 1863-1876, os_task.c      *)
(* 897-912).                                                                 *)
StackSaidIsUsed ==
    /\ check.nfree < StkSize
    /\ owner.clear /\ ~ owner.foreign => owner.used <= owner.high

-----------------------------------------------------------------------------
(* The two together (os_core.c 817-834, 1809-1880).                          *)
StatisticsHold == UsageIsTheWork /\ StackSaidIsUsed
=============================================================================
