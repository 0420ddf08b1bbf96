# The rover in TLA+

A verification project for the three-wheeled rover of this repository: a Nios II
soft processor on a DE0-Nano running uC/OS-II, four tasks that look ahead, drive
and remember the way, and a few hardware blocks that count wheel edges and drive
motors and servo. The program's `main()` is the one at the end of
`src/software/ROVER/nav.c`; below, `nav.c` is that file, `motors.c` and the other
drivers are those of `src/software/ROVER/lib/`, and the kernel (`os_*.c`) and the
hardware abstraction layer (HAL) are those of `src/software/ROVER_bsp/`.

To repeat a run: `tlc -config MCRover.cfg MCRover`; to repeat the proofs of a
module: `tlapm RoverProofs.tla`.

## 1. Inventory

| Component | State it keeps | Operations | Interacts with | Model |
|---|---|---|---|---|
| Encoder_Task (prio 1) | `counts_*_old`, `ENCODER_0A/1A`, `MOTOR_*_STATUS` | read both counters every 100 ms | writes what the other tasks read | `Odometry`, `Rover` |
| Navigation_Task (prio 2) | `status`, `TRVL`, `TRVL_INDEX`, `ENCODER_INIT`, `*_CLEAR` | handle FRONT_IS_BLOCKED, FRONT_IS_CLEAR | `MainQueue`; suspends and resumes the servo task; drives | `Rover` |
| Servo_Task (prio 3) | `FRONT_SERVO`, `FRONT_CLEAR`, `SYSTEM_STATUS` | sweep the sensor; claim the system and post | `MainQueue`; stops the motors | `Rover` |
| History_Task (prio 4) | - | every 10 s: `evalHistory`, `executeHistory`, retire the others | reads `TRVL`, drives, suspends both tasks | `Rover`, `Route` |
| Movements (motors.c) | H-bridge duties, local totals | `motorGo`, `motorGoForward`, `stoptopartial`, `M_allStop` | encoder counters, PWM | `MotorGo`, `Rover` |
| Recorded route | `TRVL`, `TRVL_INDEX` | record, judge, replay | Navigation_Task writes, History_Task reads | `Route` |
| uC/OS-II scheduler and tasks | ready table, priority table, control blocks, tick | create, delete, delay, suspend, reprioritise, lock | everything | `Ucos`, `UcosCore`, `UcosTasks` |
| uC/OS-II events | event control blocks, wait lists | semaphores, mailboxes, queues, mutexes, flags, multiple pends | scheduler | `UcosEvents`, `UcosMutex`, `UcosFlag` |
| uC/OS-II timers (not in this build: `OS_TMR_EN` is 0 in system.h) | pool, wheel | create, start, stop, delete, the timer task | tick | `Timers` |
| uC/OS-II statistics, names, requests | idle counter, stacks, names, free lists | OSStatInit, OS_TaskStat, OSTaskStkChk, `*NameSet`, OSTaskDelReq | tasks that come and go | `Statistics`, `Registry` |
| Start | stages of alt_main, main, OSStart | OSInit, alt_sys_init, OSTaskCreateExt, OSStart | interrupts that come early | `Startup` |
| Console (JTAG UART) | two rings, locks, flag group | write, read, close, handler, alarm | printf of every task; host | `Console` |
| Descriptors and devices | `alt_fd_list`, device list | open, close, read, write, ioctl ... | drivers | `Files` |
| Clock | `_alt_nticks`, alarm list, time of day | alarms, settimeofday, OSTimeDlyHMSM, busy wait | tick | `Clock` |
| Heap | locks of malloc and environment, break, partitions | lock, unlock, sbrk, OSMemGet, OSMemPut | tasks | `Heap` |
| Interrupts | `alt_irq`, `alt_irq_active`, IENABLE | register, enable, disable, dispatch, nest | devices | `Interrupts` |
| ADC_READ and its driver | one control register | `ADC_Read(channel)` | both tasks that look ahead | `Adc` |
| Two-wire bus | two ports | read, write, single and multiple; verify | LSM303, memory | `Compass`, `Magnetometer` |
| Compass (LSM303_Task, prio 5) | - | one write and one read, then it returns | bus | `Magnetometer` |
| Configuration flash | chip, driver's geometry | open, write, read, erase, verify | SPI master | `Flash` |
| encoder.vhd | one 32-bit counter per motor | count rising edges; bus read | `IORD` | `Encoder` |
| PWM.vhd, servo.vhd | duty register, counter | bus write | motors.c, nav.c | none |
| Accelerometer, demo menu, SoC, assembly | - | - | not reached by the tasks | none |

What is hard here: `SYSTEM_STATUS` is a hand-made lock tested and set in two
statements; the tasks are preempted by priority at any point and park each other;
the motors, the servo and the sensor have no owner but convention; the route is
written by one task while another judges it; counters wrap, are read signed, and
are read up to 100 ms late; one replay starts while everything else still runs.
Below the tasks: the kernel keeps one fact (a task is ready, a task waits) in three
tables that some thirty places update; the console shares rings between tasks and
a handler with a lock for some and none for others; the descriptor table is
half-locked; one start bit of the ADC serves every task; interrupts are on before
the kernel exists.

What makes each part correct:

* *tasks* - one command under way at a time; a parked servo task will be resumed;
  turns go to a side known to be clear; all motion is in the route; no motor is
  driven both ways; every handling ends;
* *movements* - a movement ends when a wheel has gone the distance, neither long
  after nor before;
* *route* - the recorded heading is the real one, legs add up to the way rolled, a
  completed course is found, the replay leads back;
* *odometry* - totals, status and leg lengths follow the wheels;
* *kernel* - ready table, wait lists and control blocks tell the same story; nothing
  posted is lost between a post and a wait; the owner of a mutex inherits urgency;
* *drivers and HAL* - bytes arrive whole and in order and nobody is left asleep; a
  descriptor is its opener's; alarms are on time; a lock has one owner; a reading is
  that of the channel asked for; the device hears what was meant; the flash holds
  what was written and nothing else changed; handlers get their own context.

`PROJECT.json` lists every hazard at its line with the properties that cover it; one
has none: a movement has no time limit (motors.c 146), so that a stalled wheel keeps
the system busy for ever. The models assume that a driven wheel gets there; that
the code has no answer when it does not is plain from the loop.

## 2. Modules

| Module | Models | Built on |
|---|---|---|
| `Ucos` | what the rover needs of the kernel: the abstract kernel | - |
| `Baton` | abstract specification of the tasks: one command, passed on | - |
| `Rover` | the four tasks of nav.c over the kernel | `INSTANCE Ucos` |
| `RoverProperties` | what the tasks owe each other; the refinement mapping to `Baton`; fairness | `Rover`, `INSTANCE Baton` |
| `Encoder` | counter and reading, shared by the next two | - |
| `Odometry` | Encoder_Task's arithmetic, and the length of a leg | `Encoder` |
| `MotorGo` | one movement, poll by poll | `Encoder` |
| `Route` | recording, judging and replaying the route | - |
| `UcosCore` | the kernel's tables, control blocks, scheduler, tick, and the return from a wait | - |
| `UcosTasks` | delays, suspension, creation, deletion, change of priority | `UcosCore` |
| `UcosEvents`, `UcosMutex`, `UcosFlag` | the kinds of object a task can wait for | `UcosCore` |
| `UcosServices` | applications that use any of them; the refinement mapping to `Ucos` | the five above, `INSTANCE Ucos` |
| `Console`, `Files`, `Clock`, `Heap`, `Interrupts` | the HAL and its drivers | - |
| `Adc`, `Compass`, `Magnetometer`, `Flash` | the rover's library and the hardware it talks to | - |
| `Timers`, `Startup`, `Statistics`, `Registry` | the kernel beside its scheduler | - |
| `Board` | puts the thirteen parts of the three rows above on one bench | all of them |
| `MC*` | constant values for TLC | the module of their name (`MCRover`: `RoverProperties`) |
| `RoverProofs`, `UcosProofs`, `UcosServicesProofs`, `OdometryProofs`, `MotorGoProofs`, `RouteProofs` | theorems, see section 5 | `RoverProperties` or the module of their name, `TLAPS` |
| `HalProofs` | an inductive invariant for each of six parts, proved without the rest of the bench | `Console`, `Files`, `Clock`, `Heap`, `Adc`, `Interrupts`, `TLAPS` |
| `BoardProofs` | the same for timers, start, statistics and registry, and the theorems about the bench | `Board`, `HalProofs` |

Composition: `Baton` is implemented by `Rover`, which runs on `Ucos`, which is
implemented by `UcosServices` for an application that uses what the rover uses. Both
refinements are checked by TLC and proved.

### Abstract kernel (`Ucos`)

A task is ready when it is neither `delayed` (OSTCBDly > 0) nor `suspended`
(OS_STAT_SUSPEND) nor `pending` (waiting in OSQPend). `Running(t)` is what
OS_SchedNew decides: the ready task of highest priority. Every service is an
operator over that state. A tick ends the delays of any set of delayed tasks, so
lengths of delays are abstracted. `mail[t]` is OSTCBMsg: a post to a waiting task
goes there and not through the queue. `Call` lets any task call anything, which is
how the module is checked alone; `Rover` calls the same operators from the tasks'
program points.

### Tasks (`Rover`)

`pc[t]` names the statement task `t` executes next, and each step is the code up to
the next point where another task can see or change what it uses. So `TestFree` and
`Claim` are two steps (nav.c 353 and 354), as are `JudgeStop` and `JudgeFull` (the
motor status is read at 348 and again at 359). Every blocking call ends its step;
`usleep` is OSTimeDly once the kernel runs (alt_usleep.c). A task executes only while
`K!Running`; a tick is always possible.

| In the model | In the code |
|---|---|
| `AimLeft` ... `ReadAgain` | `servoRotate`, run by Servo_Task and by Navigation_Task |
| `JudgeStop` ... `Post` | `navigateFront` |
| `MotorStart`, `MotorPoll`, `MotorDone` | `motorGo` / `motorGoForward`, per movement |
| `NaviPend` ... `NaviVerdict`, `NaviRamp`, `NaviCheck` | the two cases of Navigation_Task |
| `EncoderCount` | Encoder_Task: the motor status may become anything |
| `HistoryEval` ... `Retire` | History_Task and `executeHistory` |

Data are abstracted to what the properties tell apart: a front reading is clear or
not; the side voltages are compared with each other, so they stay numbers (`Volt`),
with `ClearVolt` in place of 1.9 V; `pwm` is the set of H-bridge inputs with a driving
duty; `rolling` is `(MOTOR_0_STATUS & MOTOR_1_STATUS) == MOTOR_FULL`; `leg` is
`TRVL[TRVL_INDEX].move == 'F'`; `reached` is evalHistory's answer, which only closing a
leg makes true - that this is all it depends on is `Route`'s `VerdictIsLatched`, proved for every course.

Details kept because they matter: the early returns of servoRotate with the 2.1 V
written for the right; a right-hand turn without looking at `RIGHT_CLEAR`; the delay of
1500 ms that the kernel refuses; `M_checkMotion`, which reads 0 from write-only registers
and so never stops anything; the suspend of the servo task only when the system is busy;
the first poll of a movement, which may already end it (motors.c 158 makes that real).

### Odometry, movements, route

`Odometry` has the hardware counter with its full range `CounterSize = 2 * Half` (2^32 in
the code), read through IORD as a signed number, Encoder_Task's two-branch
difference, the two thresholds, and the opening and closing of a leg at any moment in
between. `edges`, `seen`, `gained` and `opened` are history: what really happened. `Gap`
bounds the edges between two readings.

`MotorGo` has one movement with every bus read a step of its own, the wheels turning in
between, and the comparison of wheel 1 with wheel 0's reading at motors.c 158/209.
motorGo and motorGoForward differ only in the duties. `turned`, `since` and `behind` are
history.

`Route` has the whole of `TRVL`, `newDir`, `evalHistory` and `executeHistory`, with the
rover's real `heading` and `place` as history, and `lost` for the way no leg shows. It
assumes what the other modules establish: the rover rolls only on an open leg
(`RecordedMotion`), and ENCODER_0A counts the edges (`Odometry` says how well). If
Navigation_Task acts while the replay runs, the two effects are superposed; that
interleaving is `Rover`'s subject.

### Kernel with its tables (`UcosCore` to `UcosServices`)

A table of priority bits (OSRdyTbl with OSRdyGrp, OSEventTbl with OSEventGrp) is the set
of priorities it encodes. `tcb[t]` is a control block with its priority, delay, status
and pend status, `ecb[e]` an event control block with its wait list, and
`OSTCBPrioTbl` says who is found at a priority, which for the owner of a mutex can be two
places. A service is one step up to where its caller blocks; the rest of the call
(`PendReturn`: what OSSemPend and the others do after OS_Sched) is a step of its own,
taken when the scheduler has picked the task again. Between the two anything may
happen: a timeout, an abort, a post, deletion of the event or of the task, a change of
priority. `OSTimeTick` is the code's loop over all control blocks, and an interrupt
handler may post at any time in profiles with `ISR`.

An application is a *profile*: the services it uses. Tasks keep to rules that the
kernel's documentation gives and its code does not enforce: nothing that blocks with the
scheduler locked; a task is named by the priority it has; owner and waiters of a mutex
are not deleted nor reprioritised, the owner does not pend again, a mutex is deleted only
when free; a task just woken keeps its priority until it has run. The last one is
needed because OSTaskChangePrio puts the new priority of a task whose control block still
names an event into that event's wait list (os_task.c 134-142).

`KernelSpec` maps the profile that uses what the rover uses (delays, suspension, one queue,
no timeouts) to `Ucos`: a task is `pending` when its status says OS_STAT_Q, `queue` is what
lies between OSQOut and OSQIn, `mail` is the message in the control block or in the hands
of the task that has just returned. Every step of the tables is a step of `Ucos` or
none.

### The board (`Board`)

Each module below has its own variables and next-state relation, and none reads
another's; `Board` picks one at the start (`board`) and exercises it alone. One run
therefore covers all, at the sum of their sizes and not their product. `Holds` in a
property's name marks the conjunction of a part's promises; every one of them has a
comment and its conjuncts their own.

| Module | State and steps | Promise |
|---|---|---|
| `Console` | `tx` and `rx` rings, the two locks, `WRITE_RDY`/`READ_RDY`, `host_inactive`; every access of a task a step, the handler and the alarm whole; tasks that are suspended as nav.c suspends them | the ring holds what the writes were accepted for, byte for byte in order; nothing lies in it with the handler off; no task sleeps when there is room or data |
| `Files` | `alt_fd_list`, `alt_max_fd`, the table's semaphore; open, close, exclusive use, flags, read, write, lseek, fstat, ioctl | a descriptor is its opener's, an exclusive device has one user, a driver is called with its own device |
| `Clock` | `_alt_nticks` of w bits, alarms with rollover flags, time of day, the cutting of a delay, the counting loop | an alarm runs at the tick it was set for, across the wrap; time goes on as set; a delay is whole or refused; a busy wait runs its loops |
| `Heap` | the recursive locks over a semaphore; sbrk; a partition's list | one owner at a time, released as often as taken; regions apart, below the limit |
| `Interrupts` | `alt_irq`, `alt_irq_active`, IENABLE, the status register's enable bit, nesting | a handler gets the context it was registered with; nesting only by urgency, and afterwards every line is open again |
| `Adc` | the control register, the controller's `st` and `Data`, two readers that preempt and suspend each other | a call nobody disturbed returns a conversion of its own channel |
| `Compass` | SCL, SDA and direction, access by access, against a device that decodes the edges | the device hears the starts, bytes and stops that were meant; the bus is left free even when it refuses |
| `Magnetometer` | the driver's transfers, which may fail; measurement by number | a verified memory is put back (`MemoryIsPutBack`); a reading is of one measurement, which follows almost at once from the device's rule that it shows none until the sixth register is read |
| `Flash` | the driver's calls down to bytes on the SPI bus; the chip's pages are rings, bits only fall, blocks erase | after a call the chip holds what was promised and is released, idle, in three-byte mode |
| `Timers` (vendored source that this program compiles out) | pool, wheel, doubly linked spokes, signals | lists are sound, every running timer is on one; it expires when due |
| `Startup` | alt_main step by step to the first task, interrupts from the moment they are enabled | handlers find what they use; control blocks add up; the first task finds all objects made |
| `Statistics` | the idle counter, the sampling task, a stack walked while it is used | usage is the share of ticks worked (once the first sample is past); the stack reported is not more than was used |
| `Registry` | control blocks that pass from one object to the next, names, deletion requests | a request reaches the task it was for; a name is that of the object |

Exceptions stand in the properties themselves as conditions, with the code's line; section 6
lists them.

## 3. Runs

| Run | Checks | Bounds | Distinct states |
|---|---|---|---|
| `rover` | `TypeOK`, `OneCommand`, `NavScanOnlyUpdates`, `NoCrossDrive`, `ParkedServoHasOwner`, `TurnTowardClearSide`, `TurnsOnlyWhenBlocked`, `RecordedMotion`, `ParkedSweepIsAimed`, refinement `BatonSpec` | QUEUE_SIZE 2, Volt 1..3, ClearVolt 2, course never completed | 633 k |
| `replay` | `QuietAfterRetirement` | QUEUE_SIZE 2, sides always clear, the course may be completed | 837 k |
| `replay_alone` | *violated*: `NoNewCommandInReplay` | as `replay` | - |
| `live` | `HandlerReturns`, `ClaimIsPosted` under `FairSpec` | QUEUE_SIZE 1, sides always clear, course never completed | 64 k |
| `kernel` | `NoWaitOverMessage`, `OneReasonToWait` | 3 tasks, 2 messages, queue of 2 | 3 k |
| `services` | `TablesAgree`, `WaitListsMatch`, `NothingWaitsInVain`, `InheritedPriority`, `MostUrgentRunsWithoutMutex`, refinement `KernelSpec` | 4 tasks with the idle task, 2 events, 1 flag group of 2 bits, 2 messages, queue of 2, delays, counts and nesting of 1, 13 profiles | 329 k |
| `stale_waiter` | *violated*: `WaitListsMatch` | as `services`, a mutex beside a semaphore with timeouts | - |
| `odometry` | `OdometerLosesHalfRange`, `FullMeansTurning`, `LegWithinOneReading` | Half 3 (counters of 6 values), Gap 2, 9 edges | 2.7 M |
| `motorgo` | `Wheel0NotOverCounted`, `StopsInTime`, `ShortOnlyBehind` | Half 6, Gap 1, Goal 2, every start, 6 edges | 776 k |
| `route` | `HeadingIsRecorded`, `LegsAddUp`, `VerdictIsLatched` | 6 steps, 6 edges, rolls of 1 or 2, one replay | 389 k |
| `route_origin` | *violated*: `BackAtOrigin` | as `route` | - |
| `bench` | `ConsoleHolds`, `DescriptorsHold`, `ClockHolds`, `HeapHolds`, `ReadingIsOwn`, `CompassHolds`, `FlashHolds`, `HandlersFit`, `TimersHold`, `KernelSidesHold` | below | 476 k |

*Why the bounds are enough.* `QUEUE_SIZE` 2 leaves room for the second message that
`OneCommand` says never comes. Three voltages around `ClearVolt` give every comparison of
the two sides: equal, either lower, one or both too high. `replay` needs no sides: the
question is who drives once History_Task has begun. Nine edges take a counter
of six values through the sign bit at 3, round to 0 at 6 and to the sign bit again, so that
both branches of the difference are taken on each side of both boundaries, with any phase of
the two readings; the ninth edge is the one that makes `Crossings` 2. Starting `MotorGo` at every pair of counter values replaces a long past. Six
steps of a route allow a leg, each of the three turns, a second leg that is opened again,
and the leg that completes the course. The proofs of section 5 remove the bounds for the
properties listed there.

In `services` three application tasks give a waiter, one that interferes and one that
posts; two events are what multiple pends and inheritance past a second object need. A
profile holds the services of one kind of object with what can end or disturb a wait on
it, so that each pair of them meets in one application without the product of all.
The VIEW of the run leaves out OSTCBFlagsRdy of tasks that are not inside OSFlagPend: it is
written before it is read.

In `bench` the sizes are the smallest at which a ring is full and empty in every
position (BufLen 3), a counter wraps while an alarm is waiting (16 values, periods to
14), a table overflows (MaxFd 5), a page and a block are crossed (pages of 2, blocks of
4, spans over both ends and past the device), a wheel turns more than once (2 spokes, delays
of 3), a byte has a first and a last bit (2 bits), a lock is taken again by its owner
(MaxDepth 3) and by each of three priorities. `Startup` has the board's real numbers.

*Deadlock* is checked in every run of `Rover`. `kernel` and `services` switch it off
because tasks that may suspend any task may suspend all of them; `odometry`, `motorgo` and
`route` because the bounds end the behaviour, and a movement has an end; `bench` because
several parts end (start-up is over once, calls are counted). Where a part must not stop, its
promise says so (`ConsoleKeepsMoving`).

### What the violated runs show

* `replay_alone` - History_Task marks the system busy and drives (nav.c 247-249) without
  asking whether a command is under way, and suspends Navigation_Task only afterwards
  (250). Navigation_Task receives and obeys a message while the replay drives.
* `route_origin` - a leg's count is in edges and is driven as a distance of 16 edges each, and
  the moves are replayed from the first to the last: the rover does not go back to the
  origin.
* `stale_waiter` - OSMutexPend raises a ready owner by moving its ready bit only. If the
  owner's wait for a semaphore has just timed out, it is ready and its old priority
  still in the semaphore's wait list; what it takes out when it runs is the new one. A later
  post is handed to nobody. The rover uses no mutex, so this is the kernel's and not the
  rover's.

All three are safety counterexamples. Delays are untimed in `Rover`, so for a violation
there the order TLC prints was compared with the delays in the code: the replay takes many
seconds, a sweep about one, so a message in its course is the ordinary case.

### Mutants

Definitions named `X_Something` beside a definition `X` are plausible mistakes in the code
`X` models (a dropped guard, a missing reset, a swapped comparison). They are not used by
any specification; each property listed above is known to fail when the body of its `X` is
replaced by one of them, which shows that the property says something about the code.

## 4. Fairness

`FairSpec` assumes, and the code justifies:

* weak fairness of `Encoder_Task` and of the wake-up of each delayed task: the tick
  interrupt comes 1000 times a second and decrements every delay;
* strong fairness of Navigation_Task and Servo_Task: they are preempted again and again, by
  the encoder task and by the tick, but the encoder task uses microseconds of each 100 ms
  and never blocks the others for good; a task that is again and again the one to run gets
  its step done;
* strong fairness of the end of a movement (`NaviMoves`): a driven wheel gets there. The code
  has no answer to a wheel that does not (motors.c 146), which is a listed hazard.

Nothing is assumed of History_Task, and nothing of what the sensors say: `HandlerReturns`
and `ClaimIsPosted` hold for readings that change all the time.

## 5. Proofs

All theorems are of the specification, for every value of the constants that the named
assumptions allow; TLC evaluates each assumption in the passing runs. They say of the
constants what the code's types and tables say: sizes are positive, names are distinct, a
reading comes before the counter has gained more than half its range
(`EncoderAssumption`), the ticks of a second divide a million (`ClockAssumption`), the
idle counter does not wrap in four tenths of a second (`StatisticsAssumption`), and no
priority is 255, the value by which a mutex says that nobody owns it (`MutexAssumption`;
ucos_ii.h 1653 says that OS_LOWEST_PRIO is at most 254).

| Module | Theorems | Argument |
|---|---|---|
| `RoverProofs` | `TypeCorrect` | the only step whose type rests on another fact is the receipt, where OSQPend never returns without a message |
| | `OneCommandAlways`, `NavScanOnlyUpdatesAlways` | `TokenInv` says where the one command is: in the servo task's hands, queued, delivered or handled. `OneCommand` alone is not inductive: it needs that only Navigation_Task waits, that it waits exactly in OSQPend, and that the servo task has set the system busy before it posts. No scheduling is used, so priorities do not matter for it |
| | `ParkedServoHasOwnerAlways`, `TurnsOnlyWhenBlockedAlways`, `TurnTowardClearSideAlways` | `ParkInv`: from the decision to the end of the movement the servo task is suspended, and a suspended task does not run, so nobody else writes `FRONT_CLEAR`. Here scheduling matters |
| | `NoCrossDriveAlways`, `RecordedMotionAlways`, `ParkedSweepIsAimedAlways`, `QuietAfterRetirementAlways` | `MotionInv`: by program point of Navigation_Task, which inputs of the bridges drive, whether a leg is open, and where the servo stands; the servo task only stops the motors. After the retirement History_Task alone is left, and its program point says the same |
| | `BatonImplemented` | every step keeps the holder of the command or moves it as `Baton` allows, by cases on who holds it, under `Inv` and `ParkInv` |
| `UcosProofs` | `NoWaitOverMessageAlways`, `OneReasonToWaitAlways` | `KernelInv`: the two with the types are inductive; a task makes no call with a message in hand |
| `UcosServicesProofs` | `TablesAgreeOrdinarily`, `WaitListsMatchOrdinarily`, `NothingWaitsInVainOrdinarily`, `MostUrgentRunsOrdinarily` | `KernelInv` = `Tables` /\ `Scheduled`, for the applications of `Ordinary`: whatever delays, suspends, creates, deletes, reprioritises, posts, times out or aborts, from tasks and interrupts. Bit by bit and list by list it says what each table has of each priority, and `Stage` what a task's control block can look like outside, inside and at the end of a wait; none of the four properties is inductive without that |
| | `KernelImplemented` | the refinement of `Ucos` for the application of the rover: under `KernelInv` and `RoverInv` (nothing but one queue, no timeouts, the scheduler never locked) each service maps to its counterpart, by `Mapping`; steps of the tables that `Ucos` does not show map to none |
| | `InheritedPriorityOfALoneMutex` | `MutexInv`, for the applications of `LoneMutex`: a task is at home, at the priority it was created with, or owns the mutex and is at the mutex's priority (`HomesKept`); the mutex's own record says which, the priority table has the owner or the reservation at the mutex's priority, the owner is ready or delayed and in no wait list, and while it is at home nobody more urgent waits (`MutexKept`). The two parts need each other: OSMutexPost asks the record for the priority to go back to, OSMutexPend the tables for whether the owner is ready |
| `OdometryProofs` | `FullMeansTurningAlways`, `LegWithinOneReadingAlways`, `OdometerLosesHalfRangeAlways` | `OdometryInv` ties the register to the last reading and the edges since: at most one wrap can lie between them, because `Gap <= Half`. `LossInv` counts the crossings of the sign bit |
| `MotorGoProofs` | `Wheel0NotOverCountedAlways`, `StopsInTimeAlways`, `ShortOnlyBehindAlways` | `MotorInv`, per program point: total plus what has turned since the last reading against what has turned in all, and the edges read but not yet added in the middle of a poll |
| `RouteProofs` | `HeadingIsRecordedAlways` | `HeadingInv` with the lemma that the table of `newDir` is the quarter turns of the compass |
| | `LegsAddUpAlways`, `VerdictIsLatchedAlways` | `RouteInv`: what is not yet written of the route is empty, the last step is the open one, and the place is where the closed steps lead, plus what was lost, plus the open leg. The sums of evalHistory are folds over a set of steps; what a sum does when a step is added or set is a lemma about finite sets (`Total`), by the smallest set for which it would be false (`WFMin`), since the induction rules themselves cannot be instantiated |
| `BoardProofs`, on lemmas of `HalProofs` | `ReadingIsOwnAlways` | `AdcInv`: `Converts(ch)`, from the start bit to the data register, as long as nobody disturbs the reader |
| | `HeapHoldsAlways` | `HeapInv`: depth of the lock against the task that has the semaphore; the break's distance to the limit; free list and held blocks are apart and together all |
| | `HandlersFitAlways` | `InterruptsInv`: `TableFollows` says for each line which of handler, context and enable bit a registration has written so far; `Nested` what mask and service stack owe each other |
| | `DescriptorsHoldAlways` | `FilesInv`: who holds a slot at which point of which call; exclusive flags and the calls between their check and their release |
| | `ClockHoldsAlways` | `ClockInv`: an alarm's time and its rollover flag together are the tick it is due on; time of day in ticks since it was set; the loops left of a delay or a busy wait. Rests on the uniqueness of quotient and remainder, proved once (`EuclidUnique`) |
| | `ConsoleHoldsAlways` | `ConsoleInv`: the distance from `tx.out` to `tx.in` is the number of bytes owed and each lies at its place (`RingHolds`); whoever is between taking and giving back the write lock has it, copies into room that can only have grown since it looked, and sleeps over a ring that was full only if no WRITE_RDY is pending and nothing was sent since (`WriterAlone`); the sender is on, or a writer is before switching it on; the receiver is off only with a full ring or a reader before switching it on (`SenderIsOn`, `ReceiverIsOn`). `Place` and `Dist` take the code's remainders away once (`PlaceIs`, `DistIs`) |
| `BoardProofs` | `KernelSidesHoldAlways` | `StartupInv`: the stages of alt_main and main in one chain, each with what exists and is on by then, the free list in the order of creation; `UsageInv`: between two samples every tick is work or counted (`ShareRounds` turns that into the rounding of OSCPUUsage); `StacksInv`: what was never reached of a cleared stack is clear; `RegistryInv`: a control block is free once or one task's, and a name is the block's own |
| | `TimersHoldAlways` | `TimersInv`: for each spoke there is a list of timers that its links spell forwards and backwards, of its length, without repetition, holding exactly the running timers whose `match` falls on the spoke (`Sound`); one more such list is the pool (`PoolOf`); and `match` is the time plus the turns left, in the time's width (`InStep`). What OSTmr_Link and OSTmr_Unlink do to a list is proved once (`ListPushed`, `ListCut`, `LinkKeeps`, `UnlinkKeeps`); a turn takes the timers of the spoke one by one as the list stood before it, and each finds itself still linked (`TurnDoes`). The walks of the model are folds; `ChainIs` and `TurnExpires` say what they compute, step by step along the list |

Two theorems have hypotheses, both met by the board:

* `ClockHoldsAlways` excludes alarms of 2^32 - 1 ticks (`Wide - 1 \notin Period`). The proof
  did not go through for that one: alt_alarm_start sets time to current_nticks + nticks + 1,
  which is then current_nticks itself, so the rollover flag (alt_alarm_start.c 82-96)
  stays clear, and the alarm runs on the very next tick. TLC confirms it with
  `Period = {0, 15}` at 16 values. No caller asks for it: the console's alarm is of one
  second.
* `KernelSidesHoldAlways` asks for as many event and queue control blocks as the start takes
  (`MaxEvents >= 6`, `MaxQs >= 1`; OS_MAX_EVENTS is 60 and OS_MAX_QS 20 in system.h): with
  fewer, OSQCreate returns NULL, which main does not look at (nav.c 540), and the tasks start
  without their queue.

`Ordinary` is where `WaitListsMatch` is true: with a mutex beside a semaphore with timeouts it is
false, as the run `stale_waiter` shows, and a multiple pend breaks the one-list-per-task
shape of the invariant. Applications with mutexes, flags and multiple pends stay
with TLC, but for what one mutex lends:

`LoneMutex` is where `InheritedPriority` is proved: one object at a time, a mutex or
anything else, with delays, locks, timeouts, aborts, deletions, posts from interrupts and
flag groups beside it, for tasks that are neither suspended nor moved, created or deleted.
Each exclusion has its reason. With two objects an owner may wait for the other one, and
mutexes nest; OSTaskChangePrio and the reuse of a priority move the homes; the run `services`
checks `InheritedPriority` for two objects and for moved tasks. With suspension the invariant is
false, and so is `WaitListsMatch`: a task just given the mutex keeps it in OSTCBEventPtr until it
runs again (os_mutex.c 519); suspended before that, it is not ready, and the next waiter's
OSMutexPend, which raises it, takes it for a task that waits and enters it at the mutex's
priority in the mutex's own wait list (os_mutex.c 486-490). Nothing in the rover's program
suspends a task that may own a mutex.

The inductive steps are laid out action by action; the parts an action cannot disturb are
covered by frame lemmas (`TokenFrame`, `BatonRests`, `OthersGoOn`, ...). On the bench
`PartsRest` says once that the steps of one part are stutters of the others. Every inductive invariant was checked as an invariant by TLC first.

*Only model-checked*:

* `FlashHolds` compares a whole memory with the pages sent, piece by piece. The induction
  rules of the library cannot be instantiated; a smallest counterexample would stand in for
  them, as for the sums of `RouteProofs` and the lists of timers, but the invariant (the
  pages still to come of a write in progress) has not been worked out.
* `InheritedPriority` outside `LoneMutex`, and the other properties of `UcosServices`
  outside `Ordinary`.
* `CompassHolds`: what the device hears is the value of a sequence of bits, a fold of any
  length, and a routine is a flattened list of port accesses, which would have to be
  unfolded access by access.
* `HandlerReturns` and `ClaimIsPosted`: liveness needs fairness and ENABLED.

The types of `Ucos`, `Odometry`, `MotorGo`, `Route` and of the parts on the bench are conjuncts
of the inductive invariants and stand in no configuration.

## 6. Abstractions, and what is not modelled

Abstractions of the models:

* Delays have no length in `Rover`: any delayed task may wake at any tick. That is sound
  for the safety properties. Consecutive delays with nothing shared in between are one.
* The three readings compared in `navigateFront`, the four writes of `M_allStop` and a whole
  reading of a counter are each one step.
* `printf` does not block in `Rover`; what it does when it blocks is `Console`'s subject. A task
  that is suspended while it holds the console's lock blocks every other printf until it
  is resumed, and nothing resumes a retired Navigation_Task (nav.c 250); `Console` lets
  parked tasks return.
* `UNKNOWN` is handled in a case of Navigation_Task but posted by nobody.
* A message, a measurement, a block or a region is known by its number or name, a bus
  device and the flash chip by their protocol only.
* Which channel the ADC chip converts in a frame is taken to be the one the frame selects.
* A mutex owner owns one mutex: nested mutexes are in no profile. OSQPostOpt and its like
  are not asked for OS_POST_OPT_NO_SCHED.
* A read of the encoder's counter across clock domains is taken to be whole.

What the code does that the properties have to step around, each visible as a condition in
the property or a guard in the module:

* Servo: the sweep that Navigation_Task makes when a start failed (nav.c 175) runs with the
  servo task at large, so that the two turn the servo under each other and file readings
  under the wrong direction; `ParkedSweepIsAimed` is about the sweep in FRONT_IS_BLOCKED only.
* ADC: a conversion that does not finish in 1001 polls yields 0 V, which looks clear; a call
  that another task's call interrupts may get the other's channel.
* Clock: an alarm of 2^32 - 1 ticks runs on the next one (section 5); alt_settod multiplies in 32 bits, which overflows 71 minutes after start;
  a callback that stops the alarm after its own makes alt_tick loop; alt_busy_sleep counts
  33 loops of 3 cycles where 100 cycles are a microsecond, and its counter wraps when it is
  asked for a whole number of its big loops.
* Files: alt_fd_lock's search ends one short of alt_max_fd; a read through a descriptor
  that another task has closed finds no device.
* Heap: alt_env_lock looks at OSEventGrp where alt_malloc_lock looks at its owner, so that
  taking it again blocks the owner.
* Console: a WRITE_RDY left over from before lets a blocking write give up although the host
  is there.
* Compass: LSM303_Task writes through a pointer it never set (nav.c 193 and 223) and
  then returns into whatever follows; a reading takes five of six bytes, so that the device
  shows no new measurement; LSM303_calibrate stores nothing.
* I2C_Verify leaves its test value behind when a transfer is refused.
* Flash: Flash_Write sends everything as one piece of the wrong offset when it begins beyond
  the first block; alt_epcs_flash_write reports success past the device's end.
* Timers: system.h sets `OS_TMR_EN` to 0, so that os_tmr.c is compiled out of this program
  and no task of the rover meets what `TimersHold` excludes. `Timers` models the file as it
  stands in the library sources, and PROJECT.json lists no hazard for it. In that source, a
  timer started while signals are pending expires early; a refused name keeps the timer; a
  callback must not call a timer service.
* Statistics: a task's stack usage may be its predecessor's; the first sample of the usage
  covers more than a tenth of a second; the rover never calls OSStatInit, so that
  OSCPUUsage stays 0.
* Kernel: a task that is suspended within a multiple pend is stranded when it is resumed
  (os_core.c 1034), and one whose multiple pend is ended by a deletion keeps its status;
  OSMutexPost does not call the scheduler when nobody waits (os_mutex.c 598-601), so that
  a lowered owner runs on.

Not modelled:

* *Demo menu* (`main.c`): its `mainalt2` is not the program's main; nothing calls it.
* *Accelerometer and its 3-wire SPI*: called only from lines that are commented out.
* *PWM and servo controllers*: two counters compared with a register that nothing reads back;
  they have one state machine each of a single state.
* *Movements without a caller*: `zerotofull`, `slowtostop`, `turnLeft_Simple`, `printHistory`,
  `oppositeDir`.
* *Assembly and instrumentation*: the switch of a task's registers is what every module
  assumes; alt_log and gmon are compiled out, the data cache has size 0, there is no
  timestamp timer; instruction exceptions are not raised by this build.
* *File systems*: none is registered. `epcs_write_status_register` has no caller.
* *SoC netlist, Quartus output*: generated.

## 7. What could follow

A proof of `CompassHolds` and `FlashHolds` for one width of a byte and one size of a page.
`Rover` over the tables of `UcosServices` in one state space (today: through `Ucos`, by
refinement). `MutexInv` for several mutexes, with the wait list entry of an owner as the exception
`stale_waiter` shows, and `KernelInv` for flag groups. Timed delays in `Rover`, which would exclude
orders that need a task to sleep longer than it does.
