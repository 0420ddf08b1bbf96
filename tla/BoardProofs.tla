---------------------------- MODULE BoardProofs -----------------------------
(***************************************************************************)
(* Theorems about the bench, each for every value of the constants of its  *)
(* part, and the lemmas about the sides of the kernel: the start of the    *)
(* system, what it measures of itself, its control blocks and its timers.  *)
(* Those of the board support package are in HalProofs.                    *)
(***************************************************************************)
EXTENDS Board, HalProofs

-----------------------------------------------------------------------------
(* The start *)

Creating == {"create", "take", "link"}
Last4 == {"OSTCBCur", "OSStartHighRdy", "OSStartTsk", "task"}
Late == {"globals", "OS_SchedNew"} \cup Last4
Stage == {"alt_irq_init", "OSInit", "alt_os_init", "alt_fd_list_lock", "alt_avalon_timer_sc_init",
          "jtag_uart_objects", "jtag_uart_irq", "jtag_uart_alarm", "alt_io_redirect", "OSQCreate"}
         \cup Creating \cup Late

(* What has been done by each stage, the later ones first. *)
HasQueue == stage \in Late \/ (stage \in Creating /\ next > Len(SysTasks))
FilesReady == stage = "OSQCreate" \/ HasQueue
HasAlarm == stage = "alt_io_redirect" \/ FilesReady
UartIsOn == stage = "jtag_uart_alarm" \/ HasAlarm
HasEvents == stage = "jtag_uart_irq" \/ UartIsOn
TimerIsOn == stage = "jtag_uart_objects" \/ HasEvents
HasFdLock == stage = "alt_avalon_timer_sc_init" \/ TimerIsOn
HasSems == stage = "alt_fd_list_lock" \/ HasFdLock

Before == stage \in {"alt_irq_init", "OSInit"}
Running == stage \in {"OSStartTsk", "task"}

(* The tasks are created in order, and take the control blocks in order. *)
TasksInOrder ==
    /\ next \in 1 .. Len(Created) + 1
    /\ Before => next = 1
    /\ stage \in Creating => next <= Len(Created)
    /\ stage \in Late => next = Len(Created) + 1
    /\ ~ Before /\ stage \notin Creating \cup Late => next = Len(SysTasks) + 1
    /\ ready = {Created[i] : i \in 1 .. next - 1}

BlocksTaken == next - 1 + IF stage = "link" THEN 1 ELSE 0

BlocksInOrder ==
    /\ blocks \in [free : Seq(Nat), list : Seq(Nat), hand : {Nobody} \cup Nat]
    /\ Before => blocks = [free |-> <<>>, list |-> <<>>, hand |-> Nobody]
    /\ ~ Before => /\ Len(blocks.free) = TcbCount - BlocksTaken
                   /\ \A i \in 1 .. Len(blocks.free) : blocks.free[i] = i + BlocksTaken
                   /\ Len(blocks.list) = next - 1
                   /\ \A i \in 1 .. Len(blocks.list) : blocks.list[i] = next - i
                   /\ blocks.hand = IF stage = "link" THEN next ELSE Nobody

PrioritiesInOrder ==
    /\ prioTbl \in [ToSet(Created) -> {NoTcb, Reserved} \cup 1 .. TcbCount]
    /\ \A i \in 1 .. next - 1 : prioTbl[Created[i]] = i

KernelInOrder ==
    /\ kernel \in [running : BOOLEAN, nesting : {0}, cur : {Nobody, NoTcb, Reserved} \cup 1 .. TcbCount,
                   prio : Int, time : Nat]
    /\ kernel.running <=> Running
    /\ stage \in Last4 => kernel.prio = Highest
    /\ stage \in Last4 \ {"OSTCBCur"} => kernel.cur = prioTbl[Highest]
    /\ ~ stray

ObjectsInOrder ==
    /\ stage \in Stage
    /\ hal \in [pie : BOOLEAN, lines : SUBSET {"timer", "jtag_uart"}, rate : Nat, alarm : BOOLEAN,
                redirected : BOOLEAN]
    /\ pools \in [events : Int, queues : Int]
    /\ Before => made = {}
    /\ HasSems => {"envsem", "heapsem"} \subseteq made
    /\ TimerIsOn => hal.rate > 0
    /\ HasEvents => {"events", "read_lock", "write_lock"} \subseteq made
    /\ HasAlarm => hal.alarm
    /\ FilesReady => hal.redirected
    /\ HasQueue => "MainQueue" \in made
    /\ stage \in Late \ {"globals"} => {"stopped", "TRVL", "SYSTEM_STATUS"} \subseteq made
    /\ "timer" \in hal.lines => TimerIsOn
    /\ "jtag_uart" \in hal.lines => UartIsOn

(* The events and the queues that are still to be taken are there. *)
PoolsSuffice ==
    /\ ~ Before /\ ~ HasQueue => pools.queues > 0 /\ pools.events > 0
    /\ ~ Before /\ ~ HasSems => pools.events > 5
    /\ stage = "alt_fd_list_lock" => pools.events > 3
    /\ stage \in {"alt_avalon_timer_sc_init", "jtag_uart_objects"} => pools.events > 2

StartupInv ==
    /\ TasksInOrder /\ BlocksInOrder /\ PrioritiesInOrder /\ KernelInOrder /\ ObjectsInOrder
    /\ PoolsSuffice

LEMMA CreatedGiven ==
    /\ Created \in Seq(Nat) /\ Len(Created) \in Nat /\ Len(Created) >= 3 /\ Len(SysTasks) = 2
    /\ DOMAIN Created = 1 .. Len(Created)
    /\ \A i, j \in 1 .. Len(Created) : Created[i] = Created[j] => i = j
    /\ ToSet(Created) = {Created[i] : i \in 1 .. Len(Created)}
    /\ TcbCount \in Nat /\ TcbCount >= Len(Created)
PROOF
  <1>1. SysTasks \in Seq(Nat) /\ Len(SysTasks) = 2
    BY StartupAssumption DEF SysTasks, OS_InitTaskIdle, OS_InitTaskStat
  <1>2. MainTasks \in Seq(Nat) /\ Len(MainTasks) \in Nat \ {0}
    BY StartupAssumption
  <1>3. Created \in Seq(Nat) /\ Len(Created) = 2 + Len(MainTasks)
    <2>1. SysTasks \o MainTasks \in Seq(Nat) /\ Len(SysTasks \o MainTasks) = Len(SysTasks) + Len(MainTasks)
      BY <1>1, <1>2, ConcatProperties, Zenon
    <2> QED  BY <1>1, <2>1 DEF Created
  <1>4. DOMAIN Created = 1 .. Len(Created)
    BY <1>3
  <1>5. ToSet(Created) = {Created[i] : i \in 1 .. Len(Created)}
    BY <1>4 DEF ToSet
  <1>6. \A i, j \in 1 .. Len(Created) : Created[i] = Created[j] => i = j
    BY <1>4, StartupAssumption DEF IsInjective
  <1> QED  BY <1>1, <1>2, <1>3, <1>4, <1>5, <1>6, StartupAssumption

LEMMA CreatedLong ==
    /\ Len(Created) \in Nat /\ Len(Created) >= 3 /\ Len(SysTasks) = 2
    /\ TcbCount \in Nat /\ TcbCount >= Len(Created)
PROOF
  BY CreatedGiven

LEMMA CountedUp ==
    ASSUME NEW n \in Nat, NEW k \in Nat, NEW f \in Seq(Nat), Len(f) = n, n >= 1,
           \A i \in 1 .. Len(f) : f[i] = i + k
    PROVE  /\ Head(f) = k + 1 /\ Tail(f) \in Seq(Nat) /\ Len(Tail(f)) = n - 1
           /\ \A i \in 1 .. Len(Tail(f)) : Tail(f)[i] = i + (k + 1)
PROOF
  <1>1. f # <<>> /\ Head(f) = f[1] /\ f[1] = k + 1
    OBVIOUS
  <1>2. Tail(f) \in Seq(Nat) /\ Len(Tail(f)) = Len(f) - 1 /\ \A i \in 1 .. Len(Tail(f)) : Tail(f)[i] = f[i + 1]
    BY <1>1
  <1>3. ASSUME NEW i \in 1 .. Len(Tail(f))
        PROVE  Tail(f)[i] = i + (k + 1)
    <2>1. i + 1 \in 1 .. Len(f) /\ Tail(f)[i] = f[i + 1]
      BY <1>2
    <2> QED  BY <2>1
  <1> QED  BY <1>1, <1>2, <1>3

LEMMA CountedDown ==
    ASSUME NEW n \in Nat, NEW f \in Seq(Nat), Len(f) = n - 1, \A i \in 1 .. Len(f) : f[i] = n - i
    PROVE  /\ <<n>> \o f \in Seq(Nat) /\ Len(<<n>> \o f) = n
           /\ \A i \in 1 .. n : (<<n>> \o f)[i] = n + 1 - i
PROOF
  <1>1. <<n>> \in Seq(Nat) /\ Len(<<n>>) = 1 /\ <<n>>[1] = n
    OBVIOUS
  <1> DEFINE e == <<n>>
  <1>2. e \in Seq(Nat) /\ Len(e) = 1 /\ e[1] = n
    BY <1>1
  <1> HIDE DEF e
  <1>3. /\ e \o f \in Seq(Nat) /\ Len(e \o f) = Len(e) + Len(f)
        /\ \A i \in 1 .. Len(e) + Len(f) : (e \o f)[i] = IF i <= Len(e) THEN e[i] ELSE f[i - Len(e)]
    BY <1>2, ConcatProperties
  <1>4. ASSUME NEW i \in 1 .. n
        PROVE  (e \o f)[i] = n + 1 - i
    <2>1. CASE i = 1
      BY <1>2, <1>3, <2>1
    <2>2. CASE i # 1
      <3>1. (e \o f)[i] = f[i - 1] /\ i - 1 \in 1 .. Len(f)
        <4>1. i \in 1 .. Len(e) + Len(f) /\ ~ (i <= Len(e)) /\ i - Len(e) = i - 1 /\ i - 1 \in 1 .. Len(f)
          BY <1>2, <2>2
        <4> QED  BY <1>3, <4>1
      <3> QED  BY <3>1
    <2> QED  BY <2>1, <2>2
  <1>5. Len(e) + Len(f) = n
    BY <1>2
  <1>6. e \o f \in Seq(Nat) /\ Len(e \o f) = n
    BY <1>3, <1>5
  <1>7. e \o f \in Seq(Nat) /\ Len(e \o f) = n /\ \A i \in 1 .. n : (e \o f)[i] = n + 1 - i
    BY <1>4, <1>6, Zenon
  <1> QED  BY <1>7 DEF e

LEMMA MostUrgentIsCreated ==
    ASSUME NEW S \in SUBSET Nat, S # {}
    PROVE  Min(S) \in S
PROOF
  <1> DEFINE less == OpToRel(<, Nat)
  <1>1. IsWellFoundedOn(less, Nat)
    BY NatLessThanWellFounded
  <1>2. \A x, y \in Nat : y < x => <<y, x>> \in less
    BY DEF OpToRel
  <1> HIDE DEF less
  <1>3. PICK x \in S : \A y \in S : ~ (<<y, x>> \in less)
    BY <1>1, WFMin
  <1>4. ASSUME NEW y \in S
        PROVE  x <= y
    <2>1. x \in Nat /\ y \in Nat
      OBVIOUS
    <2>2. ~ (y < x)
      BY <1>2, <1>3, <2>1
    <2> QED  BY <2>1, <2>2
  <1> QED  BY <1>4 DEF Min

(* The order of the tasks, their blocks and priorities, where none of these *)
(* changes.                                                                 *)
LEMMA OrderKept ==
    ASSUME TasksInOrder, BlocksInOrder, PrioritiesInOrder, UNCHANGED <<next, blocks, prioTbl, ready>>,
           stage' # stage => /\ ~ Before /\ stage \notin Creating
                             /\ stage' \in (Stage \ (Creating \cup {"alt_irq_init", "OSInit"})) \cup {"create"}
                             /\ stage \in Late <=> stage' \in Late
                             /\ stage' = "create" => stage \notin Late
    PROVE  TasksInOrder' /\ BlocksInOrder' /\ PrioritiesInOrder'
PROOF
  <1> USE CreatedLong
  <1>1. PrioritiesInOrder'
    BY DEF PrioritiesInOrder
  <1>2. CASE stage' = stage
    <2>1. TasksInOrder'
      BY <1>2 DEF TasksInOrder, Before
    <2>2. BlocksTaken' = BlocksTaken
      BY <1>2 DEF BlocksTaken
    <2>3. BlocksInOrder'
      BY <1>2, <2>2 DEF BlocksInOrder, Before
    <2> QED  BY <1>1, <2>1, <2>3
  <1>3. CASE stage' # stage
    <2>1. TasksInOrder'
      BY <1>3 DEF TasksInOrder, Before, Creating, Late, Last4
    <2>2. BlocksTaken' = BlocksTaken
      BY <1>3 DEF BlocksTaken, Creating
    <2>3. BlocksInOrder'
      BY <1>3, <2>2 DEF BlocksInOrder, Before, Creating
    <2> QED  BY <1>1, <2>1, <2>3
  <1> QED  BY <1>2, <1>3

LEMMA OrderStep ==
    ASSUME StartupInv, StartupNext
    PROVE  TasksInOrder' /\ BlocksInOrder' /\ PrioritiesInOrder'
PROOF
  <1> USE CreatedLong
  <1>0. TasksInOrder /\ BlocksInOrder /\ PrioritiesInOrder /\ ObjectsInOrder
    BY DEF StartupInv
  <1> DEFINE quiet == UNCHANGED <<next, blocks, prioTbl, ready>>
  <1>1. CASE alt_irq_init
    <2>1. TasksInOrder'
      BY <1>0, <1>1 DEF TasksInOrder, Before, Creating, Late, Last4, alt_irq_init, Step
    <2>2. BlocksInOrder' /\ PrioritiesInOrder'
      BY <1>0, <1>1 DEF BlocksInOrder, PrioritiesInOrder, Before, alt_irq_init, Step
    <2> QED  BY <2>1, <2>2
  <1>2. CASE OSInit
    <2>1. stage = "OSInit" /\ stage' = "create" /\ next' = 1 /\ ready' = {} /\ blocks' = OS_InitTCBList
          /\ prioTbl' = [p \in ToSet(Created) |-> NoTcb]
      BY <1>0, <1>2 DEF OSInit, Step, TasksInOrder, Before, PrioritiesInOrder
    <2>2. TasksInOrder'
      BY <2>1 DEF TasksInOrder, Before, Creating, Late, Last4
    <2>3. BlocksInOrder'
      BY <2>1 DEF BlocksInOrder, Before, OS_InitTCBList, BlocksTaken
    <2>4. PrioritiesInOrder'
      BY <2>1 DEF PrioritiesInOrder
    <2> QED  BY <2>2, <2>3, <2>4
  <1>3. CASE AltOsInit \/ FdListLock \/ alt_avalon_timer_sc_init \/ UartObjects \/ UartIrq \/ UartAlarm
             \/ alt_io_redirect \/ OSQCreate
    <2>1. quiet /\ stage' # stage /\ ~ Before /\ stage \notin Creating \cup Late
          /\ stage' \in (Stage \ (Creating \cup Late \cup {"alt_irq_init", "OSInit"})) \cup {"create"}
      BY <1>3 DEF AltOsInit, FdListLock, alt_avalon_timer_sc_init, UartObjects, UartIrq, UartAlarm,
                  alt_io_redirect, OSQCreate, Step, Before, Creating, Late, Last4, Stage
    <2>2. stage' \notin Late /\ (stage' # "create" => stage' \in Stage \ (Creating \cup {"alt_irq_init", "OSInit"}))
      BY <2>1 DEF Late, Last4, Creating
    <2> QED  BY <1>0, <2>1, <2>2, OrderKept
  <1>4. CASE Globals \/ OSStart \/ PointAtFirst \/ OSStartHighRdy \/ OSStartTsk
    <2>1. quiet /\ ~ Before /\ stage \notin Creating /\ stage \in Late /\ stage' \in Late
          /\ stage' \in Stage \ (Creating \cup {"alt_irq_init", "OSInit"}) /\ stage' # "create"
      BY <1>4 DEF Globals, OSStart, PointAtFirst, OSStartHighRdy, OSStartTsk, Step, Before, Creating, Late,
                  Last4, Stage
    <2> QED  BY <1>0, <2>1, OrderKept
  <1>5. CASE \E l \in {"timer", "jtag_uart"} : Interrupt(l)
    <2>1. quiet /\ stage' = stage
      BY <1>5 DEF Interrupt
    <2> QED  BY <1>0, <2>1, OrderKept
  <1>6. CASE Reserve
    <2>1. stage = "create" /\ stage' = "take" /\ next \in 1 .. Len(Created) /\ UNCHANGED <<next, blocks, ready>>
          /\ prioTbl' = [prioTbl EXCEPT ![Created[next]] = Reserved]
      BY <1>0, <1>6 DEF Reserve, Step, TasksInOrder, Creating
    <2>2. TasksInOrder'
      BY <1>0, <2>1 DEF TasksInOrder, Before, Creating, Late, Last4
    <2>3. BlocksInOrder'
      BY <1>0, <2>1 DEF BlocksInOrder, Before, BlocksTaken
    <2>4. PrioritiesInOrder'
      <3>1. \A i \in 1 .. next - 1 : Created[i] # Created[next] /\ Created[i] \in ToSet(Created)
        BY <2>1, CreatedGiven
      <3> QED  BY <1>0, <2>1, <3>1 DEF PrioritiesInOrder
    <2> QED  BY <2>2, <2>3, <2>4
  <1>7. CASE TakeBlock
    <2>1. stage = "take" /\ stage' = "link" /\ next \in 1 .. Len(Created) /\ UNCHANGED <<next, prioTbl, ready>>
          /\ blocks' = [blocks EXCEPT !.free = Tail(blocks.free), !.hand = Head(blocks.free)]
      BY <1>0, <1>7 DEF TakeBlock, Step, TasksInOrder, Creating
    <2>2. TasksInOrder'
      BY <1>0, <2>1 DEF TasksInOrder, Before, Creating, Late, Last4
    <2>3. PrioritiesInOrder'
      BY <1>0, <2>1 DEF PrioritiesInOrder
    <2>4. BlocksInOrder'
      <3> DEFINE f == blocks.free
      <3>0. BlocksTaken = next - 1 /\ BlocksTaken' = next /\ ~ Before /\ ~ Before'
        BY <2>1 DEF BlocksTaken, Before
      <3>1. /\ f \in Seq(Nat) /\ Len(f) = TcbCount - (next - 1) /\ \A i \in 1 .. Len(f) : f[i] = i + (next - 1)
            /\ blocks.list \in Seq(Nat) /\ Len(blocks.list) = next - 1
            /\ \A i \in 1 .. Len(blocks.list) : blocks.list[i] = next - i
        BY <1>0, <3>0 DEF BlocksInOrder
      <3>2. blocks'.free = Tail(f) /\ blocks'.list = blocks.list /\ blocks'.hand = Head(f)
        BY <1>0, <2>1 DEF BlocksInOrder
      <3>3. blocks' \in [free : {Tail(f)}, list : {blocks.list}, hand : {Head(f)}]
        BY <1>0, <2>1 DEF BlocksInOrder
      <3> HIDE DEF f
      <3>4. PICK k \in Nat, n \in Nat : k = next - 1 /\ n = TcbCount - k /\ n >= 1
        BY <2>1
      <3>5. /\ Head(f) = next /\ Tail(f) \in Seq(Nat) /\ Len(Tail(f)) = TcbCount - next
            /\ \A i \in 1 .. Len(Tail(f)) : Tail(f)[i] = i + next
        <4>1. /\ Head(f) = k + 1 /\ Tail(f) \in Seq(Nat) /\ Len(Tail(f)) = n - 1
              /\ \A i \in 1 .. Len(Tail(f)) : Tail(f)[i] = i + (k + 1)
          <5>1. Len(f) = n /\ \A i \in 1 .. Len(f) : f[i] = i + k
            BY <3>1, <3>4
          <5> QED  BY <3>1, <3>4, <5>1, CountedUp
        <4>2. k + 1 = next /\ n - 1 = TcbCount - next
          BY <2>1, <3>4
        <4> QED  BY <4>1, <4>2
      <3>6. blocks' \in [free : Seq(Nat), list : Seq(Nat), hand : {Nobody} \cup Nat]
        <4>1. next \in Nat
          BY <2>1
        <4> QED  BY <3>1, <3>3, <3>5, <4>1
      <3> QED  BY <2>1, <3>0, <3>1, <3>2, <3>5, <3>6 DEF BlocksInOrder
    <2> QED  BY <2>2, <2>3, <2>4
  <1>8. CASE LinkBlock
    <2>0. stage = "link" /\ next \in 1 .. Len(Created) /\ blocks.hand = next /\ ~ Before
      BY <1>0, <1>8 DEF LinkBlock, TasksInOrder, BlocksInOrder, Before, Creating
    <2>1. /\ stage = "link" /\ next \in 1 .. Len(Created) /\ next' = next + 1
          /\ blocks' = [blocks EXCEPT !.list = <<next>> \o blocks.list, !.hand = Nobody]
          /\ prioTbl' = [prioTbl EXCEPT ![Created[next]] = next]
          /\ ready' = ready \cup {Created[next]}
          /\ stage' = IF next = 2 THEN "alt_os_init" ELSE IF next = Len(Created) THEN "globals" ELSE "create"
      BY <2>0, <1>8 DEF LinkBlock
    <2>2. TasksInOrder'
      <3>1. ready' = {Created[i] : i \in 1 .. next' - 1}
        <4>1. ready = {Created[i] : i \in 1 .. next - 1} /\ next \in Nat \ {0} /\ next' - 1 = next
          BY <1>0, <2>1 DEF TasksInOrder
        <4>2. \A i \in 1 .. next : i \in 1 .. next - 1 \/ i = next
          BY <4>1
        <4> QED  BY <2>1, <4>1, <4>2
      <3> QED  BY <1>0, <2>1, <3>1 DEF TasksInOrder, Before, Creating, Late, Last4
    <2>3. PrioritiesInOrder'
      <3>1. \A i \in 1 .. next - 1 : Created[i] # Created[next] /\ Created[i] \in ToSet(Created)
        BY <2>1, CreatedGiven
      <3>2. Created[next] \in ToSet(Created) /\ next \in 1 .. TcbCount
        BY <2>1, CreatedGiven
      <3> QED  BY <1>0, <2>1, <3>1, <3>2 DEF PrioritiesInOrder
    <2>4. BlocksInOrder'
      <3> DEFINE f == blocks.list
      <3>0. BlocksTaken = next /\ BlocksTaken' = next /\ ~ Before /\ ~ Before' /\ stage' # "link"
        BY <2>1 DEF BlocksTaken, Before
      <3>1. /\ f \in Seq(Nat) /\ Len(f) = next - 1 /\ \A i \in 1 .. Len(f) : f[i] = next - i
            /\ blocks.free \in Seq(Nat) /\ Len(blocks.free) = TcbCount - next
            /\ \A i \in 1 .. Len(blocks.free) : blocks.free[i] = i + next
        BY <1>0, <3>0 DEF BlocksInOrder
      <3>2. blocks'.free = blocks.free /\ blocks'.list = <<next>> \o f /\ blocks'.hand = Nobody
        BY <1>0, <2>1 DEF BlocksInOrder
      <3>3. blocks' \in [free : {blocks.free}, list : {<<next>> \o f}, hand : {Nobody}]
        BY <1>0, <2>1 DEF BlocksInOrder
      <3> HIDE DEF f
      <3>4. /\ <<next>> \o f \in Seq(Nat) /\ Len(<<next>> \o f) = next
            /\ \A i \in 1 .. next : (<<next>> \o f)[i] = next + 1 - i
        <4>1. next \in Nat
          BY <2>1
        <4> QED  BY <3>1, <4>1, CountedDown
      <3>5. blocks' \in [free : Seq(Nat), list : Seq(Nat), hand : {Nobody} \cup Nat]
        BY <3>1, <3>3, <3>4
      <3>6. Len(blocks'.list) = next' - 1 /\ \A i \in 1 .. Len(blocks'.list) : blocks'.list[i] = next' - i
        <4>1. next' = next + 1 /\ next \in Nat
          BY <2>1
        <4>2. PICK g : g = <<next>> \o f
          OBVIOUS
        <4>3. Len(g) = next /\ (\A i \in 1 .. next : g[i] = next + 1 - i) /\ blocks'.list = g
          BY <3>2, <3>4, <4>2
        <4> QED  BY <4>1, <4>3
      <3> QED  BY <2>1, <3>0, <3>1, <3>2, <3>5, <3>6 DEF BlocksInOrder
    <2> QED  BY <2>2, <2>3, <2>4
  <1> QED  BY <1>1, <1>2, <1>3, <1>4, <1>5, <1>6, <1>7, <1>8 DEF StartupNext

LEMMA HighestIsReady ==
    ASSUME StartupInv, stage \in Late
    PROVE  /\ ready = ToSet(Created) /\ Highest \in ready /\ Highest \in Nat
           /\ prioTbl[Highest] \in 1 .. TcbCount
PROOF
  <1>1. ready = ToSet(Created)
    <2>1. next = Len(Created) + 1
      BY DEF StartupInv, TasksInOrder
    <2>2. next - 1 = Len(Created)
      BY <2>1, CreatedLong
    <2> QED  BY <2>2, CreatedGiven DEF StartupInv, TasksInOrder
  <1>2. ready \in SUBSET Nat /\ ready # {}
    BY <1>1, CreatedGiven
  <1>3. Highest \in ready
    BY <1>2, MostUrgentIsCreated DEF Highest
  <1>4. PICK i \in 1 .. Len(Created) : Highest = Created[i]
    BY <1>1, <1>3, CreatedGiven
  <1>5. next - 1 = Len(Created)
    BY CreatedLong DEF StartupInv, TasksInOrder
  <1>6. prioTbl[Highest] = i
    BY <1>4, <1>5 DEF StartupInv, PrioritiesInOrder
  <1> QED  BY <1>1, <1>2, <1>3, <1>6, CreatedLong

KernelType == [running : BOOLEAN, nesting : {0}, cur : {Nobody, NoTcb, Reserved} \cup 1 .. TcbCount,
               prio : Int, time : Nat]

(* An interrupt leaves the current task, and counts a tick.                 *)
LEMMA InterruptReturns ==
    ASSUME StartupInv, NEW l \in {"timer", "jtag_uart"}, Interrupt(l)
    PROVE  /\ kernel' = [kernel EXCEPT !.time = IF l = "timer" THEN kernel.time + 1 ELSE kernel.time]
           /\ stray' = stray
PROOF
  <1> DEFINE entered == IF kernel.running THEN kernel.nesting + 1 ELSE kernel.nesting
             inside == [kernel EXCEPT !.nesting = entered, !.time = IF l = "timer" THEN @ + 1 ELSE @]
             left == [inside EXCEPT !.nesting = IF @ > 0 /\ kernel.running THEN @ - 1 ELSE @]
             then == [kernel EXCEPT !.time = IF l = "timer" THEN kernel.time + 1 ELSE kernel.time]
  <1>1. kernel' = Rescheduled(left) /\ stray' = (stray \/ (kernel' # left /\ left.cur = Nobody))
    BY DEF Interrupt
  <1>2. kernel \in KernelType /\ kernel.nesting = 0 /\ stray = FALSE
        /\ (kernel.running <=> Running) /\ (stage \in Last4 => kernel.prio = Highest)
    BY DEF StartupInv, KernelInOrder, KernelType
  <1>3. left = then
    <2>1. left.nesting = 0
      BY <1>2 DEF KernelType
    <2>2. PICK tm \in Nat : tm = IF l = "timer" THEN kernel.time + 1 ELSE kernel.time
      BY <1>2 DEF KernelType
    <2>3. inside = [kernel EXCEPT !.nesting = entered, !.time = tm]
      BY <1>2, <2>2 DEF KernelType
    <2>4. entered \in {0, 1}
      BY <1>2
    <2> HIDE DEF entered
    <2>5. /\ left.running = kernel.running /\ left.cur = kernel.cur /\ left.prio = kernel.prio /\ left.time = tm
          /\ left = [running |-> left.running, nesting |-> left.nesting, cur |-> left.cur, prio |-> left.prio,
                     time |-> left.time]
      <3>1. /\ inside \in [running : BOOLEAN, nesting : {0, 1}, cur : {Nobody, NoTcb, Reserved} \cup 1 .. TcbCount,
                          prio : Int, time : Nat]
            /\ inside.running = kernel.running /\ inside.cur = kernel.cur /\ inside.prio = kernel.prio
            /\ inside.time = tm
        BY <1>2, <2>3, <2>4 DEF KernelType
      <3> HIDE DEF inside
      <3> DEFINE n == IF inside.nesting > 0 /\ kernel.running THEN inside.nesting - 1 ELSE inside.nesting
      <3>2. left = [inside EXCEPT !.nesting = n]
        OBVIOUS
      <3> HIDE DEF n, left
      <3> QED  BY <3>1, <3>2
    <2>6. then = [running |-> kernel.running, nesting |-> 0, cur |-> kernel.cur, prio |-> kernel.prio, time |-> tm]
      BY <1>2, <2>2 DEF KernelType
    <2> HIDE DEF left, then, inside
    <2> QED  BY <2>1, <2>5, <2>6
  <1>4. then.prio = kernel.prio /\ then.running = kernel.running
    BY <1>2 DEF KernelType
  <1> HIDE DEF left, then
  <1>5. Rescheduled(then) = then
    BY <1>2, <1>4 DEF Rescheduled, Running, Last4
  <1> QED  BY <1>1, <1>2, <1>3, <1>5 DEF then

LEMMA KernelInOrderStep ==
    ASSUME StartupInv, StartupNext
    PROVE  KernelInOrder'
PROOF
  <1>0. /\ kernel \in KernelType /\ (kernel.running <=> Running) /\ ~ stray
        /\ (stage \in Last4 => kernel.prio = Highest)
        /\ (stage \in Last4 \ {"OSTCBCur"} => kernel.cur = prioTbl[Highest])
    BY DEF StartupInv, KernelInOrder, KernelType
  <1>1. CASE UNCHANGED <<kernel, stray>> /\ stage' \notin Last4 /\ ~ Running
    BY <1>0, <1>1 DEF KernelInOrder, KernelType, Running, Last4
  <1>2. CASE alt_irq_init \/ AltOsInit \/ FdListLock \/ alt_avalon_timer_sc_init \/ UartObjects \/ UartIrq
             \/ UartAlarm \/ alt_io_redirect \/ OSQCreate \/ Reserve \/ TakeBlock \/ LinkBlock \/ Globals
    <2>1. UNCHANGED <<kernel, stray>>
      BY <1>2 DEF alt_irq_init, AltOsInit, FdListLock, alt_avalon_timer_sc_init, UartObjects, UartIrq, UartAlarm,
                  alt_io_redirect, OSQCreate, Reserve, TakeBlock, LinkBlock, Globals
    <2>2. stage' \notin Last4 /\ ~ Running
      BY <1>2 DEF alt_irq_init, AltOsInit, FdListLock, alt_avalon_timer_sc_init, UartObjects, UartIrq, UartAlarm,
                  alt_io_redirect, OSQCreate, Reserve, TakeBlock, LinkBlock, Globals, Step, Last4, Running
    <2> QED  BY <1>1, <2>1, <2>2
  <1>3. CASE OSInit
    <2>1. kernel' = OS_InitRdyList(OS_InitMisc(kernel)) /\ stage' = "create" /\ UNCHANGED stray
      BY <1>3 DEF OSInit, Step
    <2>2. kernel' \in KernelType /\ ~ kernel'.running
      <3>1. OS_InitMisc(kernel) \in KernelType /\ ~ OS_InitMisc(kernel).running
        BY <1>0 DEF OS_InitMisc, KernelType
      <3>2. PICK k \in KernelType : k = OS_InitMisc(kernel) /\ ~ k.running
        BY <3>1
      <3>3. kernel' = [k EXCEPT !.cur = Nobody, !.prio = 0]
        BY <2>1, <3>2 DEF OS_InitRdyList
      <3>4. k.running = FALSE /\ k.nesting = 0 /\ k.time \in Nat
        BY <3>2 DEF KernelType
      <3>5. kernel' = [running |-> FALSE, nesting |-> 0, cur |-> Nobody, prio |-> 0, time |-> k.time]
        BY <3>2, <3>3, <3>4 DEF KernelType
      <3> QED  BY <3>4, <3>5 DEF KernelType
    <2> QED  BY <1>0, <2>1, <2>2 DEF KernelInOrder, KernelType, Running, Last4
  <1>4. CASE OSStart
    <2>1. /\ stage = "OS_SchedNew" /\ stage' = "OSTCBCur" /\ kernel' = [kernel EXCEPT !.prio = Highest]
          /\ UNCHANGED <<ready, prioTbl, stray>>
      BY <1>4 DEF OSStart, Step
    <2>2. Highest \in Int /\ Highest' = Highest
      BY <2>1, HighestIsReady DEF Late, Highest
    <2>3. kernel' \in KernelType /\ kernel'.prio = Highest /\ kernel'.running = kernel.running
      BY <1>0, <2>1, <2>2 DEF KernelType
    <2> QED  BY <1>0, <2>1, <2>2, <2>3 DEF KernelInOrder, KernelType, Running
  <1>5. CASE PointAtFirst
    <2>1. /\ stage = "OSTCBCur" /\ stage' = "OSStartHighRdy" /\ kernel' = [kernel EXCEPT !.cur = prioTbl[Highest]]
          /\ UNCHANGED <<ready, prioTbl, stray>>
      BY <1>5 DEF PointAtFirst, Step
    <2>2. prioTbl[Highest] \in 1 .. TcbCount /\ Highest' = Highest
      BY <2>1, HighestIsReady DEF Late, Last4, Highest
    <2>3. /\ kernel' \in KernelType /\ kernel'.prio = kernel.prio /\ kernel'.running = kernel.running
          /\ kernel'.cur = prioTbl[Highest]
      BY <1>0, <2>1, <2>2 DEF KernelType
    <2> QED  BY <1>0, <2>1, <2>2, <2>3 DEF KernelInOrder, KernelType, Running, Last4
  <1>6. CASE OSStartHighRdy \/ OSStartTsk
    <2>1. /\ stage \in Last4 \ {"OSTCBCur"} /\ stage' \in Last4 \ {"OSTCBCur"} /\ Running'
          /\ UNCHANGED <<ready, prioTbl, stray>> /\ Highest' = Highest
      BY <1>6 DEF OSStartHighRdy, OSStartTsk, Step, Running, Last4, Highest
    <2>2. kernel' \in KernelType /\ kernel'.prio = kernel.prio /\ kernel'.cur = kernel.cur /\ kernel'.running
      BY <1>0, <1>6 DEF OSStartHighRdy, OSStartTsk, Step, Running, KernelType
    <2> QED  BY <1>0, <2>1, <2>2 DEF KernelInOrder, KernelType
  <1>7. ASSUME NEW l \in {"timer", "jtag_uart"}, Interrupt(l)
        PROVE  KernelInOrder'
    <2>1. UNCHANGED <<stage, ready, prioTbl, stray>>
      BY <1>7, InterruptReturns DEF Interrupt
    <2>2. PICK tm \in Nat : tm = IF l = "timer" THEN kernel.time + 1 ELSE kernel.time
      BY <1>0 DEF KernelType
    <2>3. kernel' = [kernel EXCEPT !.time = tm]
      BY <1>7, <2>2, InterruptReturns
    <2>4. /\ kernel' \in KernelType /\ kernel'.prio = kernel.prio /\ kernel'.running = kernel.running
          /\ kernel'.cur = kernel.cur
      BY <1>0, <2>3 DEF KernelType
    <2>5. Highest' = Highest
      BY <2>1 DEF Highest
    <2> QED  BY <1>0, <2>1, <2>4, <2>5 DEF KernelInOrder, KernelType, Running
  <1> QED  BY <1>2, <1>3, <1>4, <1>5, <1>6, <1>7 DEF StartupNext

(* What is there and on by each stage. *)
LEMMA ObjectsInOrderStep ==
    ASSUME StartupInv, StartupNext
    PROVE  ObjectsInOrder'
PROOF
  <1> USE DEF Before, HasQueue, FilesReady, HasAlarm, UartIsOn, HasEvents, TimerIsOn, HasFdLock, HasSems, Step,
              Creating, Late, Last4, Stage
  <1>0. ObjectsInOrder /\ PoolsSuffice /\ Len(SysTasks) = 2 /\ next \in Nat
    BY CreatedLong DEF StartupInv, TasksInOrder
  <1>1. CASE alt_irq_init
    BY <1>0, <1>1 DEF ObjectsInOrder, alt_irq_init
  <1>2. CASE OSInit
    <2>1. next' = 1
      BY <1>2 DEF StartupInv, TasksInOrder, OSInit
    <2>2. pools' \in [events : Int, queues : Int]
      <3>1. pools \in [events : Int, queues : Int] /\ MaxEvents \in Int /\ MaxQs \in Int
        BY <1>0, StartupAssumption DEF ObjectsInOrder
      <3>2. [pools EXCEPT !.events = MaxEvents] \in [events : Int, queues : Int]
        BY <3>1
      <3>3. PICK p \in [events : Int, queues : Int] : p = [pools EXCEPT !.events = MaxEvents]
        BY <3>2
      <3>4. pools' = [p EXCEPT !.queues = MaxQs]
        BY <1>2, <3>3 DEF OSInit, OS_QInit
      <3> QED  BY <3>1, <3>4
    <2> QED  BY <1>0, <1>2, <2>1, <2>2 DEF ObjectsInOrder, OSInit
  <1>3. CASE AltOsInit
    <2>1. "envsem" \in made' /\ "heapsem" \in made' /\ pools' \in [events : Int, queues : Int]
      BY <1>0, <1>3 DEF AltOsInit, Creates, ObjectsInOrder, PoolsSuffice
    <2> QED  BY <1>0, <1>3, <2>1 DEF ObjectsInOrder, AltOsInit
  <1>4. CASE FdListLock
    <2>1. made \subseteq made' /\ pools' \in [events : Int, queues : Int]
      BY <1>0, <1>4 DEF FdListLock, Creates, ObjectsInOrder
    <2> QED  BY <1>0, <1>4, <2>1 DEF ObjectsInOrder, FdListLock
  <1>5. CASE alt_avalon_timer_sc_init
    <2>1. hal' \in [pie : BOOLEAN, lines : SUBSET {"timer", "jtag_uart"}, rate : Nat, alarm : BOOLEAN,
                    redirected : BOOLEAN]
          /\ hal'.rate > 0 /\ hal'.lines = hal.lines \cup {"timer"}
      <3>0. hal \in [pie : BOOLEAN, lines : SUBSET {"timer", "jtag_uart"}, rate : Nat, alarm : BOOLEAN,
                     redirected : BOOLEAN] /\ TicksPerSec \in Nat \ {0}
        BY <1>0, StartupAssumption DEF ObjectsInOrder
      <3>1. PICK h \in [pie : BOOLEAN, lines : SUBSET {"timer", "jtag_uart"}, rate : Nat, alarm : BOOLEAN,
                         redirected : BOOLEAN] : h = alt_sysclk_init /\ h.rate > 0 /\ h.lines = hal.lines
        <4>1. CASE hal.rate = 0
          <5>1. alt_sysclk_init = [hal EXCEPT !.rate = TicksPerSec]
            BY <4>1 DEF alt_sysclk_init
          <5> QED  BY <3>0, <5>1
        <4>2. CASE hal.rate # 0
          BY <3>0, <4>2 DEF alt_sysclk_init
        <4> QED  BY <4>1, <4>2
      <3>2. hal' = [h EXCEPT !.lines = h.lines \cup {"timer"}]
        BY <1>5, <3>1 DEF alt_avalon_timer_sc_init
      <3> QED  BY <3>1, <3>2
    <2> QED  BY <1>0, <1>5, <2>1 DEF ObjectsInOrder, alt_avalon_timer_sc_init
  <1>6. CASE UartObjects
    <2>1. {"events", "read_lock", "write_lock"} \subseteq made' /\ made \subseteq made'
          /\ pools' \in [events : Int, queues : Int]
      BY <1>0, <1>6 DEF UartObjects, Creates, ObjectsInOrder, PoolsSuffice
    <2> QED  BY <1>0, <1>6, <2>1 DEF ObjectsInOrder, UartObjects
  <1>7. CASE UartIrq
    BY <1>0, <1>7 DEF ObjectsInOrder, UartIrq
  <1>8. CASE UartAlarm
    <2>1. hal' \in [pie : BOOLEAN, lines : SUBSET {"timer", "jtag_uart"}, rate : Nat, alarm : BOOLEAN,
                    redirected : BOOLEAN]
          /\ hal'.alarm = TRUE /\ hal'.lines = hal.lines /\ hal'.rate = hal.rate
      <3>1. hal.rate > 0
        BY <1>0, <1>8 DEF ObjectsInOrder, UartAlarm
      <3>2. hal' = [hal EXCEPT !.alarm = TRUE]
        BY <1>8, <3>1 DEF UartAlarm
      <3> QED  BY <1>0, <3>2 DEF ObjectsInOrder
    <2> QED  BY <1>0, <1>8, <2>1 DEF ObjectsInOrder, UartAlarm
  <1>9. CASE alt_io_redirect
    BY <1>0, <1>9 DEF ObjectsInOrder, alt_io_redirect
  <1>10. CASE OSQCreate
    <2>1. "MainQueue" \in made' /\ made \subseteq made' /\ pools' \in [events : Int, queues : Int]
      BY <1>0, <1>10 DEF OSQCreate, ObjectsInOrder, PoolsSuffice
    <2>2. stage = "OSQCreate" /\ stage' = "create" /\ UNCHANGED <<next, hal>> /\ next = 3
      BY <1>0, <1>10 DEF OSQCreate, StartupInv, TasksInOrder
    <2> QED  BY <1>0, <2>1, <2>2 DEF ObjectsInOrder
  <1>11. CASE Reserve \/ TakeBlock
    BY <1>0, <1>11 DEF ObjectsInOrder, Reserve, TakeBlock
  <1>12. CASE LinkBlock
    <2>1. /\ stage = "link" /\ next' = next + 1 /\ UNCHANGED <<hal, made, pools>>
          /\ \/ stage' = "alt_os_init" /\ next = 2
             \/ stage' = "globals" /\ next = Len(Created) /\ next # 2
             \/ stage' = "create" /\ next # 2
      BY <1>0, <1>12 DEF LinkBlock
    <2> QED  BY <1>0, <2>1, CreatedLong DEF ObjectsInOrder
  <1>13. CASE Globals
    <2>1. made' = made \cup {"stopped", "TRVL", "SYSTEM_STATUS"} /\ stage = "globals" /\ stage' = "OS_SchedNew"
          /\ UNCHANGED <<hal, pools, next>>
      BY <1>13 DEF Globals
    <2> QED  BY <1>0, <2>1 DEF ObjectsInOrder
  <1>14. CASE OSStart \/ PointAtFirst
    BY <1>0, <1>14 DEF ObjectsInOrder, OSStart, PointAtFirst
  <1>15. CASE OSStartHighRdy \/ OSStartTsk
    <2>1. hal' \in [pie : BOOLEAN, lines : SUBSET {"timer", "jtag_uart"}, rate : Nat, alarm : BOOLEAN,
                    redirected : BOOLEAN]
          /\ hal'.alarm = hal.alarm /\ hal'.lines = hal.lines /\ hal'.rate = hal.rate
          /\ hal'.redirected = hal.redirected
      BY <1>0, <1>15 DEF ObjectsInOrder, OSStartHighRdy, OSStartTsk
    <2> QED  BY <1>0, <1>15, <2>1 DEF ObjectsInOrder, OSStartHighRdy, OSStartTsk
  <1>16. CASE \E l \in {"timer", "jtag_uart"} : Interrupt(l)
    BY <1>0, <1>16 DEF ObjectsInOrder, Interrupt
  <1> QED
    BY <1>1, <1>2, <1>3, <1>4, <1>5, <1>6, <1>7, <1>8, <1>9, <1>10, <1>11, <1>12, <1>13, <1>14, <1>15, <1>16
    DEF StartupNext

LEMMA PoolsSufficeStep ==
    ASSUME MaxEvents >= 6, MaxQs >= 1, StartupInv, StartupNext
    PROVE  PoolsSuffice'
PROOF
  <1> USE DEF Before, HasQueue, FilesReady, HasAlarm, UartIsOn, HasEvents, TimerIsOn, HasFdLock, HasSems, Step,
              Creating, Late, Last4, Stage
  <1>0. PoolsSuffice /\ Len(SysTasks) = 2 /\ next \in Nat /\ stage \in Stage /\ pools \in [events : Int, queues : Int]
    BY CreatedLong DEF StartupInv, TasksInOrder, ObjectsInOrder
  <1>1. CASE alt_irq_init
    BY <1>0, <1>1 DEF PoolsSuffice, alt_irq_init
  <1>2. CASE OSInit
    <2>1. pools'.events = MaxEvents /\ pools'.queues = MaxQs /\ stage' = "create"
      BY <1>0, <1>2 DEF OSInit, OS_QInit
    <2> QED  BY <2>1, StartupAssumption DEF PoolsSuffice
  <1>3. CASE AltOsInit
    <2>1. pools'.events = pools.events - 2 /\ pools'.queues = pools.queues /\ pools.events > 5 /\ pools.queues > 0
          /\ stage' = "alt_fd_list_lock"
      BY <1>0, <1>3 DEF AltOsInit, Creates, PoolsSuffice
    <2> QED  BY <1>0, <2>1 DEF PoolsSuffice
  <1>4. CASE FdListLock
    <2>1. pools'.events = pools.events - 1 /\ pools'.queues = pools.queues /\ pools.events > 3 /\ pools.queues > 0
          /\ stage' = "alt_avalon_timer_sc_init"
      BY <1>0, <1>4 DEF FdListLock, Creates, PoolsSuffice
    <2> QED  BY <1>0, <2>1 DEF PoolsSuffice
  <1>5. CASE UartObjects
    <2>1. pools'.events = pools.events - 2 /\ pools'.queues = pools.queues /\ pools.events > 2 /\ pools.queues > 0
          /\ stage' = "jtag_uart_irq"
      BY <1>0, <1>5 DEF UartObjects, Creates, PoolsSuffice
    <2> QED  BY <1>0, <2>1 DEF PoolsSuffice
  <1>6. CASE alt_avalon_timer_sc_init \/ UartIrq \/ UartAlarm \/ alt_io_redirect \/ Reserve \/ TakeBlock
             \/ Globals \/ OSStart \/ PointAtFirst \/ OSStartHighRdy \/ OSStartTsk
    BY <1>0, <1>6 DEF PoolsSuffice, alt_avalon_timer_sc_init, UartIrq, UartAlarm, alt_io_redirect, Reserve,
                      TakeBlock, Globals, OSStart, PointAtFirst, OSStartHighRdy, OSStartTsk
  <1>7. CASE OSQCreate
    <2>1. stage' = "create" /\ next' = 3
      BY <1>0, <1>7 DEF OSQCreate, StartupInv, TasksInOrder
    <2> QED  BY <1>0, <2>1 DEF PoolsSuffice
  <1>8. CASE LinkBlock
    <2>1. /\ stage = "link" /\ next' = next + 1 /\ UNCHANGED pools
          /\ \/ stage' = "alt_os_init" /\ next = 2
             \/ stage' = "globals" /\ next = Len(Created) /\ next # 2
             \/ stage' = "create" /\ next # 2
      BY <1>0, <1>8 DEF LinkBlock
    <2> QED  BY <1>0, <2>1 DEF PoolsSuffice
  <1>9. CASE \E l \in {"timer", "jtag_uart"} : Interrupt(l)
    BY <1>0, <1>9 DEF PoolsSuffice, Interrupt
  <1> QED  BY <1>1, <1>2, <1>3, <1>4, <1>5, <1>6, <1>7, <1>8, <1>9 DEF StartupNext

LEMMA StartupStarts == StartupInit => StartupInv
PROOF
  <1> SUFFICES ASSUME StartupInit PROVE StartupInv
    OBVIOUS
  <1> USE DEF StartupInit, Before, HasQueue, FilesReady, HasAlarm, UartIsOn, HasEvents, TimerIsOn, HasFdLock,
              HasSems, Creating, Late, Last4, Stage
  <1>1. TasksInOrder
    BY CreatedLong DEF TasksInOrder
  <1>2. BlocksInOrder
    BY DEF BlocksInOrder
  <1>3. PrioritiesInOrder
    BY DEF PrioritiesInOrder
  <1>4. KernelInOrder
    BY DEF KernelInOrder, Running
  <1>5. ObjectsInOrder
    BY DEF ObjectsInOrder
  <1>6. PoolsSuffice
    BY DEF PoolsSuffice
  <1> QED  BY <1>1, <1>2, <1>3, <1>4, <1>5, <1>6 DEF StartupInv

LEMMA StartupSteps ==
    ASSUME MaxEvents >= 6, MaxQs >= 1, StartupInv, StartupNext \/ UNCHANGED startupVars
    PROVE  StartupInv'
PROOF
  <1>1. CASE StartupNext
    BY <1>1, OrderStep, KernelInOrderStep, ObjectsInOrderStep, PoolsSufficeStep DEF StartupInv
  <1>2. CASE UNCHANGED startupVars
    <2>1. TasksInOrder /\ BlocksInOrder /\ PrioritiesInOrder /\ KernelInOrder /\ ObjectsInOrder /\ PoolsSuffice
      BY DEF StartupInv
    <2>2. TasksInOrder' /\ BlocksInOrder' /\ PrioritiesInOrder'
      BY <1>2, <2>1 DEF startupVars, TasksInOrder, BlocksInOrder, PrioritiesInOrder, BlocksTaken, Before
    <2>3. KernelInOrder'
      BY <1>2, <2>1 DEF startupVars, KernelInOrder, Running, Highest
    <2>4. ObjectsInOrder' /\ PoolsSuffice'
      BY <1>2, <2>1 DEF startupVars, ObjectsInOrder, PoolsSuffice, Before, HasQueue, FilesReady, HasAlarm, UartIsOn,
                        HasEvents, TimerIsOn, HasFdLock, HasSems
    <2> QED  BY <2>2, <2>3, <2>4 DEF StartupInv
  <1> QED  BY <1>1, <1>2

LEMMA StartsInOrderInv == StartupInv => StartsInOrder
PROOF
  <1> SUFFICES ASSUME StartupInv PROVE StartsInOrder
    OBVIOUS
  <1>0. TasksInOrder /\ BlocksInOrder /\ PrioritiesInOrder /\ KernelInOrder /\ ObjectsInOrder
    BY DEF StartupInv
  <1>1. InterruptsFindTheirObjects
    <2>1. "jtag_uart" \in hal.lines => {"events", "read_lock", "write_lock"} \subseteq made
      BY <1>0 DEF ObjectsInOrder, HasEvents
    <2>2. "timer" \in hal.lines => hal.rate > 0
      BY <1>0 DEF ObjectsInOrder
    <2>3. kernel.nesting = 0 /\ ~ stray
      BY <1>0 DEF KernelInOrder
    <2>4. ASSUME kernel.running
          PROVE  kernel.cur # Nobody /\ prioTbl[kernel.prio] = kernel.cur /\ prioTbl[Created[1]] = Last(blocks.list)
      <3>1. stage \in Last4 \ {"OSTCBCur"} /\ stage \in Late /\ ~ Before
        BY <1>0, <2>4 DEF KernelInOrder, Running, Last4, Late, Before
      <3>2. kernel.prio = Highest /\ kernel.cur = prioTbl[Highest] /\ prioTbl[Highest] \in 1 .. TcbCount
        BY <1>0, <3>1, HighestIsReady DEF KernelInOrder
      <3>3. next = Len(Created) + 1 /\ Len(blocks.list) = next - 1 /\ Len(Created) \in Nat /\ Len(Created) >= 3
            /\ \A i \in 1 .. Len(blocks.list) : blocks.list[i] = next - i
        BY <1>0, <3>1, CreatedLong DEF TasksInOrder, BlocksInOrder
      <3>4. Last(blocks.list) = 1
        BY <3>3 DEF Last
      <3>5. prioTbl[Created[1]] = 1
        BY <1>0, <3>3 DEF PrioritiesInOrder
      <3> QED  BY <3>2, <3>4, <3>5, CreatedLong DEF Nobody
    <2> QED  BY <2>1, <2>2, <2>3, <2>4 DEF InterruptsFindTheirObjects
  <1>2. BlocksAccounted
    <2>1. CASE Before
      <3>1. ready = {} /\ blocks.list = <<>> /\ blocks.free = <<>>
        BY <1>0, <2>1 DEF TasksInOrder, BlocksInOrder
      <3>2. Cardinality(ready) = 0
        BY <3>1, FS_EmptySet
      <3>3. ToSet(blocks.list) = {}
        BY <3>1 DEF ToSet
      <3> QED  BY <3>1, <3>2, <3>3 DEF BlocksAccounted
    <2>2. CASE ~ Before
      <3>1. /\ next \in Nat \ {0} /\ next - 1 <= Len(Created) /\ BlocksTaken \in {next - 1, next}
            /\ (stage = "link" => BlocksTaken = next /\ blocks.hand = next /\ next <= Len(Created))
            /\ (stage # "link" => BlocksTaken = next - 1 /\ blocks.hand = Nobody)
        BY <1>0, <2>2, CreatedLong DEF TasksInOrder, BlocksInOrder, BlocksTaken, Creating
      <3>2. ToSet(blocks.list) = 1 .. next - 1
        <4>1. DOMAIN blocks.list = 1 .. next - 1 /\ \A i \in 1 .. next - 1 : blocks.list[i] = next - i
          BY <1>0, <2>2, <3>1 DEF BlocksInOrder
        <4>2. \A i \in 1 .. next - 1 : next - i \in 1 .. next - 1 /\ blocks.list[next - i] = i
          BY <3>1, <4>1
        <4> QED  BY <4>1, <4>2 DEF ToSet
      <3>3. ToSet(blocks.free) = BlocksTaken + 1 .. TcbCount
        <4>1. /\ DOMAIN blocks.free = 1 .. TcbCount - BlocksTaken
              /\ \A i \in 1 .. TcbCount - BlocksTaken : blocks.free[i] = i + BlocksTaken
          BY <1>0, <2>2, <3>1, CreatedLong DEF BlocksInOrder
        <4>2. \A i \in BlocksTaken + 1 .. TcbCount : /\ i - BlocksTaken \in 1 .. TcbCount - BlocksTaken
                                                     /\ blocks.free[i - BlocksTaken] = i
          <5>1. PICK k \in Nat : k = BlocksTaken
            BY <3>1
          <5>2. /\ \A i \in k + 1 .. TcbCount : i - k \in 1 .. TcbCount - k /\ i - k + k = i
            BY CreatedLong
          <5>3. \A i \in 1 .. TcbCount - k : blocks.free[i] = i + k
            BY <4>1, <5>1
          <5> QED  BY <5>1, <5>2, <5>3
        <4>3. \A i \in 1 .. TcbCount - BlocksTaken : i + BlocksTaken \in BlocksTaken + 1 .. TcbCount
          BY <3>1, CreatedLong
        <4>4. ToSet(blocks.free) = {blocks.free[i] : i \in 1 .. TcbCount - BlocksTaken}
          BY <4>1 DEF ToSet
        <4> QED  BY <4>1, <4>2, <4>3, <4>4
      <3>4. ToSet(blocks.free) \cup ToSet(blocks.list) \cup ({blocks.hand} \ {Nobody}) = 1 .. TcbCount
        BY <3>1, <3>2, <3>3, CreatedLong DEF Nobody
      <3>5. Cardinality(ready) = next - 1
        <4>1. PICK n \in Nat : n = next - 1
          BY <3>1
        <4>2. PICK f : f = [i \in 1 .. n |-> Created[i]]
          OBVIOUS
        <4>3. ready = {Created[i] : i \in 1 .. n} /\ n <= Len(Created)
          BY <1>0, <3>1, <4>1 DEF TasksInOrder
        <4>4. \A i, j \in 1 .. n : Created[i] = Created[j] => i = j
          BY <3>1, <4>1, CreatedGiven
        <4>5. f \in Bijection(1 .. n, ready)
          <5>1. f \in [1 .. n -> ready] /\ \A i, j \in 1 .. n : f[i] = f[j] => i = j
            BY <4>2, <4>3, <4>4
          <5>2. \A x \in ready : \E i \in 1 .. n : f[i] = x
            BY <4>2, <4>3
          <5> QED  BY <5>1, <5>2 DEF Bijection, Injection, Surjection, IsInjective
        <4>6. ExistsBijection(1 .. n, ready)
          BY <4>5 DEF ExistsBijection
        <4> QED  BY <4>1, <4>6, FS_CountingElements
      <3>6. ToSet(blocks.list) = {prioTbl[p] : p \in ready}
        <4>1. \A i \in 1 .. next - 1 : prioTbl[Created[i]] = i
          BY <1>0 DEF PrioritiesInOrder
        <4>2. ready = {Created[i] : i \in 1 .. next - 1}
          BY <1>0 DEF TasksInOrder
        <4> QED  BY <3>2, <4>1, <4>2
      <3>7. Len(blocks.list) = next - 1
        BY <1>0, <2>2 DEF BlocksInOrder
      <3> QED  BY <3>4, <3>5, <3>6, <3>7 DEF BlocksAccounted
    <2> QED  BY <2>1, <2>2
  <1>3. FirstTaskFindsAll
    <2> SUFFICES ASSUME stage = "task"
                 PROVE  /\ kernel.prio = Min(ToSet(Created)) /\ ready = ToSet(Created)
                        /\ {"MainQueue", "stopped", "TRVL", "SYSTEM_STATUS", "heapsem", "envsem"} \subseteq made
                        /\ hal.alarm /\ hal.redirected
      BY DEF FirstTaskFindsAll
    <2>1. kernel.prio = Highest /\ ready = ToSet(Created)
      BY <1>0, HighestIsReady DEF KernelInOrder, Last4, Late
    <2>2. HasQueue /\ FilesReady /\ HasAlarm /\ HasSems
      BY DEF HasQueue, FilesReady, HasAlarm, UartIsOn, HasEvents, TimerIsOn, HasFdLock, HasSems, Late, Last4
    <2>3. /\ {"envsem", "heapsem"} \subseteq made /\ hal.alarm /\ hal.redirected /\ "MainQueue" \in made
          /\ {"stopped", "TRVL", "SYSTEM_STATUS"} \subseteq made
      BY <1>0, <2>2 DEF ObjectsInOrder, Late, Last4
    <2> QED  BY <2>1, <2>3 DEF Highest
  <1> QED  BY <1>1, <1>2, <1>3 DEF StartsInOrder

-----------------------------------------------------------------------------
(* The statistics *)

Full == Tenth * app.speed

UsageTypes ==
    /\ usage \in [ctr : 0 .. CtrWide - 1, run : Nat, max : Nat, rdy : BOOLEAN, cpu : Nat]
    /\ app \in [at : {"sync", "measure", "works"}, dly : Nat, speed : Speeds]
    /\ stat \in [at : {"polls", "samples", "suspended"}, dly : Nat, due : BOOLEAN]
    /\ load \in [samples : 0 .. 2, work : Nat, seen : Nat]

(* OSStatInit has the processor for itself for two ticks and for a tenth of *)
(* a second, in which the idle task counts alone.                           *)
MeasuresAlone ==
    /\ app.at = "sync" => app.dly \in {1, 2} /\ ~ usage.rdy
    /\ app.at = "measure" => /\ app.dly \in 1 .. Tenth /\ ~ usage.rdy
                             /\ usage.ctr = (Tenth - app.dly + 1) * app.speed
    /\ app.at = "works" => app.dly = 0
    /\ ~ usage.rdy => stat.at = "polls" /\ usage.cpu = 0

(* Between two samples each tick is the application's work or counted.      *)
SamplesTell ==
    /\ stat.at = "polls" => load.samples = 0 /\ (usage.rdy => usage.max = Full)
    /\ stat.at = "suspended" => load.samples = 0 /\ usage.cpu = 0
    /\ stat.at = "samples" =>
         /\ app.at = "works" /\ load.samples > 0
         /\ usage.max = Full \div Percent /\ usage.max > 0
         /\ usage.ctr + load.work = IF stat.due THEN Full ELSE (Tenth - stat.dly + 1) * app.speed
         /\ ~ stat.due => stat.dly \in 1 .. Tenth
    /\ load.samples = 2 =>
         /\ usage.run + load.seen = Full
         /\ Full % Percent = 0 =>
              usage.cpu = (load.seen + Full \div Percent - 1) \div (Full \div Percent)

UsageInv == UsageTypes /\ MeasuresAlone /\ SamplesTell

-----------------------------------------------------------------------------
Cell == Bottom .. StkSize

(* The frame a task starts from stays at the top; what has never been       *)
(* reached of a cleared stack is clear; a walk has found what it says.      *)
StacksInv ==
    /\ stk \in [Stack -> [Cell -> {0, 1}]]
    /\ owner \in [alive : BOOLEAN, stk : Stack, clear : BOOLEAN, depth : 0 .. StkSize, high : 0 .. StkSize,
                  used : Nat, foreign : BOOLEAN]
    /\ check \in [at : {"idle", "count", "store"}, stk : Stack, nfree : 0 .. StkSize - 1, replaced : BOOLEAN]
    /\ \A s \in Stack : stk[s][StkSize] = 1
    /\ owner.alive => owner.depth > 0 /\ owner.depth <= owner.high
    /\ owner.clear => \A i \in Cell : i <= StkSize - owner.high => stk[owner.stk][i] = 0
    /\ check.at # "idle" /\ ~ check.replaced => check.stk = owner.stk
    /\ check.at = "store" /\ ~ check.replaced /\ owner.clear => check.nfree >= StkSize - owner.high
    /\ owner.clear /\ ~ owner.foreign => owner.used <= owner.high

-----------------------------------------------------------------------------
LEMMA ShareRounds ==
    ASSUME NEW run \in Nat, NEW seen \in Nat, NEW unit \in Nat \ {0}, NEW parts \in Nat, NEW wide \in Nat,
           wide > parts, run + seen = parts * unit
    PROVE  (parts - run \div unit) % wide = (seen + unit - 1) \div unit
PROOF
  <1> DEFINE q == run \div unit
             r == run % unit
  <1>1. q \in Nat /\ r \in 0 .. unit - 1 /\ run = q * unit + r
    OBVIOUS
  <1> HIDE DEF q, r
  <1>2. q <= parts
    <2>1. CASE q >= parts + 1
      <3>1. PICK x \in Nat : q = parts + 1 + x
        <4>1. q - parts - 1 \in Nat /\ q = parts + 1 + (q - parts - 1)
          BY <1>1, <2>1
        <4> QED  BY <4>1
      <3>2. q * unit = parts * unit + unit + x * unit /\ x * unit >= 0
        BY <3>1
      <3> QED  BY <1>1, <3>2
    <2> QED  BY <1>1, <2>1
  <1>3. PICK p \in Nat : p = parts - q
    BY <1>1, <1>2
  <1>4. (parts - q) % wide = p
    <2>1. p = 0 * wide + p /\ p \in 0 .. wide - 1 /\ 0 \in Int /\ wide \in Nat \ {0} /\ p \in Int
      BY <1>1, <1>3
    <2> QED  BY <1>3, <2>1, EuclidUnique
  <1>5. (seen + unit - 1) \div unit = p
    <2>1. parts * unit = p * unit + q * unit
      BY <1>1, <1>3
    <2>2. seen + unit - 1 = p * unit + (unit - 1 - r)
      BY <1>1, <2>1
    <2>3. seen + unit - 1 \in Int /\ unit - 1 - r \in 0 .. unit - 1 /\ p \in Int
      BY <1>1
    <2> QED  BY <2>2, <2>3, EuclidUnique
  <1> QED  BY <1>4, <1>5 DEF q

-----------------------------------------------------------------------------
Usage == [ctr : 0 .. CtrWide - 1, run : Nat, max : Nat, rdy : BOOLEAN, cpu : Nat]

(* What the arithmetic of a tick needs of the rates. *)
LEMMA RatesFit ==
    ASSUME UsageTypes
    PROVE  /\ Tenth \in Nat \ {0} /\ Percent \in Nat \ {0} /\ app.speed \in Nat \ {0}
           /\ UsageWide \in Nat \ {0} /\ UsageWide > Percent /\ CtrWide \in Nat \ {0}
           /\ Full \in Nat \ {0} /\ Full < CtrWide /\ app.speed <= Full
PROOF
  <1>1. /\ Tenth \in Nat \ {0} /\ Percent \in Nat \ {0} /\ app.speed \in Nat \ {0}
        /\ UsageWide \in Nat \ {0} /\ UsageWide > Percent /\ CtrWide \in Nat
        /\ 4 * Tenth * app.speed < CtrWide
    BY StatisticsAssumption DEF UsageTypes
  <1>2. PICK n \in Nat \ {0}, k \in Nat : n = app.speed /\ Tenth = k + 1
    <2>1. Tenth - 1 \in Nat /\ Tenth = (Tenth - 1) + 1
      BY <1>1
    <2> QED  BY <1>1, <2>1
  <1>3. Tenth * app.speed = k * n + n /\ k * n \in Nat
    BY <1>2
  <1>4. PICK m \in Nat : m = k * n
    BY <1>3
  <1>5. Full = m + n
    BY <1>3, <1>4 DEF Full
  <1>6. 4 * Tenth * app.speed = 4 * (m + n)
    BY <1>1, <1>2, <1>3, <1>4
  <1>7. m + n \in Nat \ {0} /\ m + n < CtrWide /\ n <= m + n
    BY <1>1, <1>2, <1>4, <1>6
  <1> QED  BY <1>1, <1>2, <1>5, <1>7

LEMMA IdleCounts ==
    ASSUME CtrWide \in Nat \ {0}, NEW u \in Usage, NEW n \in Nat
    PROVE  /\ OS_TaskIdle(u, n) \in Usage
           /\ OS_TaskIdle(u, n).run = u.run /\ OS_TaskIdle(u, n).max = u.max
           /\ OS_TaskIdle(u, n).rdy = u.rdy /\ OS_TaskIdle(u, n).cpu = u.cpu
           /\ u.ctr + n < CtrWide => OS_TaskIdle(u, n).ctr = u.ctr + n
PROOF
  <1>1. (u.ctr + n) % CtrWide \in 0 .. CtrWide - 1
    BY DEF Usage
  <1>2. u.ctr + n < CtrWide => (u.ctr + n) % CtrWide = u.ctr + n
    <2>1. u.ctr + n = 0 * CtrWide + (u.ctr + n) /\ 0 \in Int /\ u.ctr + n \in Nat
      BY DEF Usage
    <2> QED  BY <2>1, EuclidUnique
  <1> HIDE DEF Usage
  <1>3. PICK c \in 0 .. CtrWide - 1 : c = (u.ctr + n) % CtrWide
    BY <1>1
  <1>4. OS_TaskIdle(u, n) = [u EXCEPT !.ctr = c]
    BY <1>3 DEF OS_TaskIdle
  <1> QED  BY <1>2, <1>3, <1>4 DEF Usage

LEMMA SampleTells ==
    ASSUME UsageWide \in Nat \ {0}, CtrWide \in Nat \ {0}, NEW u \in Usage, u.max > 0
    PROVE  /\ Sample(u) \in Usage
           /\ Sample(u).run = u.ctr /\ Sample(u).ctr = 0 /\ Sample(u).max = u.max /\ Sample(u).rdy = u.rdy
           /\ Sample(u).cpu = (Percent - u.ctr \div u.max) % UsageWide
PROOF
  <1>1. u.ctr \in Nat /\ u.max \in Nat \ {0} /\ Percent \in Nat
    BY StatisticsAssumption DEF Usage
  <1>2. PICK c \in Nat : c = (Percent - u.ctr \div u.max) % UsageWide
    <2>1. u.ctr \div u.max \in Int
      BY <1>1
    <2>2. Percent - u.ctr \div u.max \in Int
      BY <1>1, <2>1
    <2>3. (Percent - u.ctr \div u.max) % UsageWide \in 0 .. UsageWide - 1
      BY <2>2
    <2> QED  BY <2>3
  <1>3. Sample(u) = [u EXCEPT !.run = u.ctr, !.ctr = 0, !.cpu = c]
    BY <1>2 DEF Sample
  <1>4. /\ Sample(u) \in Usage
        /\ Sample(u).run = u.ctr /\ Sample(u).ctr = 0 /\ Sample(u).max = u.max /\ Sample(u).rdy = u.rdy
        /\ Sample(u).cpu = c
    <2>1. 0 \in 0 .. CtrWide - 1
      OBVIOUS
    <2> QED  BY <1>1, <1>3, <2>1, c \in Nat DEF Usage
  <1> QED  BY <1>2, <1>4
LEMMA RatePortion ==
    ASSUME NEW t \in Nat, NEW k \in Nat, NEW s \in Nat, k < t
    PROVE  /\ (k + 1) * s = k * s + s /\ k * s + s <= t * s /\ k * s \in Nat
PROOF
  <1>1. PICK d \in Nat : t = k + 1 + d
    <2>1. t - k - 1 \in Nat /\ t = k + 1 + (t - k - 1)
      OBVIOUS
    <2> QED  BY <2>1
  <1>2. t * s = k * s + s + d * s /\ d * s \in Nat /\ k * s \in Nat /\ (k + 1) * s = k * s + s
    BY <1>1
  <1> QED  BY <1>2

LEMMA UsageStarts ==
    ASSUME StatisticsInit
    PROVE  UsageInv
PROOF
  <1>0. Tenth \in Nat \ {0} /\ CtrWide \in Nat \ {0}
    <2>1. PICK speed \in Speeds : speed \in Nat \ {0} /\ 4 * Tenth * speed < CtrWide
      BY StatisticsAssumption DEF StatisticsInit
    <2>2. 4 * Tenth * speed \in Nat
      BY <2>1, StatisticsAssumption
    <2> QED  BY <2>1, <2>2, StatisticsAssumption
  <1>1. usage = [ctr |-> 0, run |-> 0, max |-> 0, rdy |-> FALSE, cpu |-> 0]
    BY DEF StatisticsInit
  <1>2. /\ stat = [at |-> "polls", dly |-> 2 * Tenth, due |-> FALSE]
        /\ load = [samples |-> 0, work |-> 0, seen |-> 0]
    BY DEF StatisticsInit
  <1>3. PICK speed \in Speeds, asks \in BOOLEAN :
            app = [at |-> IF asks THEN "sync" ELSE "works", dly |-> IF asks THEN 2 ELSE 0, speed |-> speed]
    BY DEF StatisticsInit
  <1>4. UsageTypes
    BY <1>0, <1>1, <1>2, <1>3 DEF UsageTypes
  <1> QED  BY <1>1, <1>2, <1>3, <1>4 DEF UsageInv, MeasuresAlone, SamplesTell

(* What OSStatInit leaves of the counters. *)
LEMMA StatInitSteps ==
    ASSUME UsageInv
    PROVE  /\ OSStatInit(usage) \in Usage
           /\ OSStatInit(usage).run = usage.run /\ OSStatInit(usage).cpu = usage.cpu
           /\ app.dly # 1 => OSStatInit(usage) = usage
           /\ app.dly = 1 /\ app.at = "sync" => OSStatInit(usage).ctr = 0 /\ ~ OSStatInit(usage).rdy
           /\ app.dly = 1 /\ app.at = "measure" => /\ OSStatInit(usage).rdy /\ OSStatInit(usage).max = Full
                                                   /\ OSStatInit(usage).ctr = Full
PROOF
  <1>0. Tenth \in Nat \ {0} /\ app.speed \in Nat \ {0} /\ CtrWide \in Nat \ {0}
    BY RatesFit DEF UsageInv
  <1>1. usage \in Usage
    BY DEF UsageInv, UsageTypes, Usage
  <1>2. CASE app.dly # 1
    BY <1>1, <1>2 DEF OSStatInit
  <1>3. CASE app.dly = 1 /\ app.at = "sync"
    <2>1. OSStatInit(usage) = [usage EXCEPT !.ctr = 0]
      BY <1>3 DEF OSStatInit
    <2>2. ~ usage.rdy /\ 0 \in 0 .. CtrWide - 1
      BY <1>0, <1>3 DEF UsageInv, MeasuresAlone
    <2> QED  BY <1>1, <1>3, <2>1, <2>2 DEF Usage
  <1>4. CASE app.dly = 1 /\ app.at = "measure"
    <2>1. OSStatInit(usage) = [usage EXCEPT !.max = usage.ctr, !.rdy = TRUE]
      BY <1>4 DEF OSStatInit
    <2>2. usage.ctr = Full
      <3>1. usage.ctr = (Tenth - 1 + 1) * app.speed /\ Tenth - 1 + 1 = Tenth
        BY <1>0, <1>4 DEF UsageInv, MeasuresAlone
      <3> QED  BY <3>1 DEF Full
    <2>3. OSStatInit(usage) \in Usage
      <3>1. PICK c \in Nat : c = usage.ctr
        BY <1>0, <1>1 DEF Usage
      <3>2. OSStatInit(usage) = [usage EXCEPT !.max = c, !.rdy = TRUE]
        BY <2>1, <3>1
      <3> QED  BY <1>1, <3>2 DEF Usage
    <2> QED  BY <1>1, <1>4, <2>1, <2>2, <2>3 DEF Usage
  <1>5. app.at = "works" => app.dly # 1
    BY DEF UsageInv, MeasuresAlone
  <1>6. app.at \in {"sync", "measure", "works"}
    BY DEF UsageInv, UsageTypes
  <1> QED  BY <1>2, <1>3, <1>4, <1>5, <1>6

LEMMA AppSteps ==
    ASSUME UsageInv, NEW u \in Usage, u = OSStatInit(usage)
    PROVE  /\ AppGoesOn \in [at : {"sync", "measure", "works"}, dly : Nat, speed : Speeds]
           /\ AppGoesOn.speed = app.speed
           /\ AppGoesOn.at = "sync" => AppGoesOn.dly \in {1, 2} /\ ~ u.rdy
           /\ AppGoesOn.at = "measure" => /\ AppGoesOn.dly \in 1 .. Tenth /\ ~ u.rdy
                                          /\ u.ctr = (Tenth - AppGoesOn.dly) * app.speed
           /\ AppGoesOn.at = "works" => AppGoesOn.dly = 0
           /\ app.at = "works" => AppGoesOn.at = "works"
           /\ AppGoesOn.at = "works" => app.at = "works" \/ u.rdy
PROOF
  <1>0. Tenth \in Nat \ {0} /\ app.speed \in Nat \ {0}
    BY RatesFit DEF UsageInv
  <1>1. app \in [at : {"sync", "measure", "works"}, dly : Nat, speed : Speeds]
    BY DEF UsageInv, UsageTypes
  <1>2. CASE app.dly # 1
    <2>1. PICK d \in Nat : d = IF app.dly > 0 THEN app.dly - 1 ELSE 0
      BY <1>1
    <2>2. AppGoesOn = [app EXCEPT !.dly = d]
      BY <1>2, <2>1 DEF AppGoesOn
    <2>3. /\ AppGoesOn \in [at : {"sync", "measure", "works"}, dly : Nat, speed : Speeds]
          /\ AppGoesOn.at = app.at /\ AppGoesOn.speed = app.speed /\ AppGoesOn.dly = d
      BY <1>1, <2>2
    <2>4. u = usage
      BY <1>2, StatInitSteps
    <2>5. app.at = "sync" => d \in {1, 2} /\ ~ u.rdy
      BY <1>2, <2>1, <2>4 DEF UsageInv, MeasuresAlone
    <2>6. app.at = "measure" => d \in 1 .. Tenth /\ ~ u.rdy /\ u.ctr = (Tenth - d) * app.speed
      <3>1. app.at = "measure" => /\ app.dly \in 1 .. Tenth /\ ~ u.rdy
                                  /\ u.ctr = (Tenth - app.dly + 1) * app.speed
        BY <2>4 DEF UsageInv, MeasuresAlone
      <3>2. app.at = "measure" => d = app.dly - 1 /\ d \in 1 .. Tenth /\ Tenth - app.dly + 1 = Tenth - d
        BY <1>0, <1>2, <2>1, <3>1
      <3> QED  BY <3>1, <3>2
    <2>7. app.at = "works" => d = 0
      BY <2>1 DEF UsageInv, MeasuresAlone
    <2> QED  BY <2>3, <2>5, <2>6, <2>7
  <1>3. CASE app.dly = 1 /\ app.at = "sync"
    <2>1. AppGoesOn = [app EXCEPT !.at = "measure", !.dly = Tenth]
      BY <1>3 DEF AppGoesOn
    <2>2. /\ AppGoesOn \in [at : {"sync", "measure", "works"}, dly : Nat, speed : Speeds]
          /\ AppGoesOn.at = "measure" /\ AppGoesOn.speed = app.speed /\ AppGoesOn.dly = Tenth
      BY <1>0, <1>1, <2>1
    <2>3. u.ctr = 0 /\ ~ u.rdy
      BY <1>3, StatInitSteps
    <2>4. (Tenth - Tenth) * app.speed = 0
      BY <1>0
    <2> QED  BY <1>0, <1>3, <2>2, <2>3, <2>4
  <1>4. CASE app.dly = 1 /\ app.at = "measure"
    <2>1. AppGoesOn = [app EXCEPT !.at = "works", !.dly = 0]
      BY <1>4 DEF AppGoesOn
    <2>2. /\ AppGoesOn \in [at : {"sync", "measure", "works"}, dly : Nat, speed : Speeds]
          /\ AppGoesOn.at = "works" /\ AppGoesOn.speed = app.speed /\ AppGoesOn.dly = 0
      BY <1>1, <2>1
    <2>3. u.rdy
      BY <1>4, StatInitSteps
    <2> QED  BY <2>2, <2>3
  <1>5. app.at = "works" => app.dly # 1
    BY DEF UsageInv, MeasuresAlone
  <1> QED  BY <1>1, <1>2, <1>3, <1>4, <1>5
LEMMA UsageSteps ==
    ASSUME UsageInv, UsageNext
    PROVE  UsageInv'
PROOF
  <1>0. /\ Tenth \in Nat \ {0} /\ Percent \in Nat \ {0} /\ app.speed \in Nat \ {0}
        /\ UsageWide \in Nat \ {0} /\ UsageWide > Percent /\ CtrWide \in Nat \ {0}
        /\ Full \in Nat \ {0} /\ Full < CtrWide /\ app.speed <= Full
    BY RatesFit DEF UsageInv
  <1>1. PICK work \in 0 .. app.speed : UsageTick(work)
    BY DEF UsageNext
  <1>2. PICK n \in Nat : n = app.speed - work /\ n <= app.speed
    BY <1>0, <1>1
  <1>3. PICK u \in Usage : u = OSStatInit(usage)
    BY StatInitSteps
  <1>4. /\ u.run = usage.run /\ u.cpu = usage.cpu
        /\ app.dly # 1 => u = usage
        /\ app.dly = 1 /\ app.at = "sync" => ~ u.rdy
        /\ app.dly = 1 /\ app.at = "measure" => u.rdy /\ u.max = Full
    BY <1>3, StatInitSteps
  <1>5. app' = AppGoesOn
    BY <1>1 DEF UsageTick
  <1>6. /\ app' \in [at : {"sync", "measure", "works"}, dly : Nat, speed : Speeds]
        /\ app'.speed = app.speed /\ Full' = Full
        /\ app'.at = "sync" => app'.dly \in {1, 2} /\ ~ u.rdy
        /\ app'.at = "measure" => app'.dly \in 1 .. Tenth /\ ~ u.rdy /\ u.ctr = (Tenth - app'.dly) * app.speed
        /\ app'.at = "works" => app'.dly = 0
        /\ app.at = "works" => app'.at = "works"
        /\ app'.at = "works" => app.at = "works" \/ u.rdy
    BY <1>3, <1>5, AppSteps DEF Full
  <1>7. app.at # "works" => work = 0
    BY <1>0, <1>1 DEF UsageTick
  <1>8. app'.at = "measure" => /\ u.ctr + n = (Tenth - app'.dly + 1) * app'.speed
                               /\ u.ctr + n < CtrWide
    <2> HAVE app'.at = "measure"
    <2>1. PICK k \in Nat : k = Tenth - app'.dly /\ k < Tenth
      BY <1>0, <1>6
    <2>2. n = app.speed
      BY <1>0, <1>2, <1>6, <1>7
    <2>3. (k + 1) * app.speed = k * app.speed + app.speed /\ k * app.speed + app.speed <= Full /\ k * app.speed \in Nat
      BY <1>0, <2>1, RatePortion DEF Full
    <2>4. PICK m \in Nat : m = k * app.speed
      BY <2>3
    <2> QED  BY <1>0, <1>6, <2>1, <2>2, <2>3, <2>4
  <1>9. /\ ~ u.rdy => stat.at = "polls" /\ u.cpu = 0
        /\ stat.at = "polls" /\ u.rdy => u.max = Full
        /\ stat.at = "samples" => u = usage
    BY <1>4 DEF UsageInv, UsageTypes, MeasuresAlone, SamplesTell
  <1>10. PICK isDue \in BOOLEAN : isDue <=> stat.at # "suspended" /\ (stat.due \/ stat.dly = 1)
    OBVIOUS
  <1>11. PICK runs \in BOOLEAN : runs <=> isDue /\ work < app.speed
    OBVIOUS
  <1>12. /\ usage' = OS_TaskIdle(IF runs THEN OS_TaskStat(u).usage ELSE u, n)
         /\ stat' = IF runs THEN [at |-> OS_TaskStat(u).at, dly |-> OS_TaskStat(u).dly, due |-> FALSE]
                    ELSE [stat EXCEPT !.due = isDue, !.dly = IF stat.dly > 0 THEN stat.dly - 1 ELSE 0]
         /\ load' = IF runs /\ OS_TaskStat(u).at = "samples"
                    THEN [samples |-> IF load.samples = 2 THEN 2 ELSE load.samples + 1,
                          work |-> work, seen |-> load.work]
                    ELSE IF load.samples > 0 /\ ~ isDue THEN [load EXCEPT !.work = load.work + work] ELSE load
    BY <1>1, <1>2, <1>3, <1>10, <1>11 DEF UsageTick
  (* Whatever of the counters the statistics task changed, OSStatInit's part. *)
  <1>13. ASSUME NEW v \in Usage, usage' = OS_TaskIdle(v, n), v.rdy = u.rdy, v.ctr = u.ctr \/ u.rdy,
                stat'.at = "polls" \/ u.rdy, v.cpu = u.cpu \/ u.rdy
         PROVE  MeasuresAlone' /\ usage' \in Usage
    <2>1. /\ usage' \in Usage /\ usage'.rdy = v.rdy /\ usage'.cpu = v.cpu
          /\ v.ctr + n < CtrWide => usage'.ctr = v.ctr + n
      BY <1>0, <1>13, IdleCounts
    <2>2. app'.at = "measure" => usage'.ctr = (Tenth - app'.dly + 1) * app'.speed
      BY <1>6, <1>8, <1>13, <2>1
    <2> QED  BY <1>6, <1>9, <1>13, <2>1, <2>2 DEF MeasuresAlone
  <1>14. stat \in [at : {"polls", "samples", "suspended"}, dly : Nat, due : BOOLEAN]
    BY DEF UsageInv, UsageTypes
  <1>15. load \in [samples : 0 .. 2, work : Nat, seen : Nat] /\ work \in Nat
    BY <1>0, <1>1 DEF UsageInv, UsageTypes
  <1>16. CASE ~ runs
    <2>1. usage' = OS_TaskIdle(u, n)
      BY <1>12, <1>16
    <2>2. PICK d \in Nat : d = IF stat.dly > 0 THEN stat.dly - 1 ELSE 0
      BY <1>14
    <2>3. stat' = [stat EXCEPT !.due = isDue, !.dly = d]
      BY <1>12, <1>16, <2>2
    <2>4. /\ stat' \in [at : {"polls", "samples", "suspended"}, dly : Nat, due : BOOLEAN]
          /\ stat'.at = stat.at /\ stat'.due = isDue /\ stat'.dly = d
      BY <1>14, <2>3
    <2>5. load' = IF load.samples > 0 /\ ~ isDue THEN [load EXCEPT !.work = load.work + work] ELSE load
      BY <1>12, <1>16
    <2>6. /\ load' \in [samples : 0 .. 2, work : Nat, seen : Nat]
          /\ load'.samples = load.samples /\ load'.seen = load.seen
          /\ load'.work = IF load.samples > 0 /\ ~ isDue THEN load.work + work ELSE load.work
      BY <1>15, <2>5
    <2>7. MeasuresAlone' /\ usage' \in Usage
      BY <1>9, <1>13, <2>1, <2>4
    <2>8. /\ usage'.run = u.run /\ usage'.max = u.max /\ usage'.rdy = u.rdy /\ usage'.cpu = u.cpu
          /\ u.ctr + n < CtrWide => usage'.ctr = u.ctr + n
      BY <1>0, <2>1, IdleCounts
    <2>9. stat.at = "samples" =>
             /\ u = usage /\ app'.at = "works" /\ load.samples > 0 /\ u.max = Full \div Percent /\ u.max > 0
             /\ usage'.ctr + load'.work = IF isDue THEN Full ELSE (Tenth - d + 1) * app.speed
             /\ ~ isDue => d \in 1 .. Tenth
      <3> HAVE stat.at = "samples"
      <3>1. /\ u = usage /\ app'.at = "works" /\ load.samples > 0 /\ u.max = Full \div Percent /\ u.max > 0
            /\ usage.ctr + load.work = IF stat.due THEN Full ELSE (Tenth - stat.dly + 1) * app.speed
            /\ ~ stat.due => stat.dly \in 1 .. Tenth
        BY <1>6, <1>9 DEF UsageInv, SamplesTell
      <3>2. u.ctr \in Nat
        BY <1>0 DEF Usage
      <3>3. CASE isDue
        <4>1. n = 0
          BY <1>0, <1>1, <1>2, <1>11, <1>16, <3>3
        <4>2. u.ctr + load.work = Full
          <5>1. CASE stat.due
            BY <3>1, <5>1
          <5>2. CASE ~ stat.due
            <6>1. stat.dly = 1 /\ Tenth - 1 + 1 = Tenth
              BY <1>0, <1>10, <3>3, <5>2
            <6> QED  BY <3>1, <5>2, <6>1 DEF Full
          <5> QED  BY <5>1, <5>2
        <4>3. usage'.ctr = u.ctr
          BY <1>0, <1>15, <2>8, <3>2, <4>1, <4>2
        <4> QED  BY <2>6, <3>1, <3>3, <4>2, <4>3
      <3>4. CASE ~ isDue
        <4>1. ~ stat.due /\ stat.dly \in 2 .. Tenth /\ d = stat.dly - 1
          BY <1>0, <1>10, <2>2, <3>1, <3>4
        <4>2. PICK k \in Nat : k = Tenth - d /\ k < Tenth /\ k = Tenth - stat.dly + 1
          BY <1>0, <4>1
        <4>3. (k + 1) * app.speed = k * app.speed + app.speed /\ k * app.speed + app.speed <= Full /\ k * app.speed \in Nat
          BY <1>0, <4>2, RatePortion DEF Full
        <4>4. PICK m \in Nat : m = k * app.speed
          BY <4>3
        <4>5. u.ctr + load.work = m
          BY <3>1, <4>1, <4>2, <4>4
        <4>6. u.ctr + n + (load.work + work) = m + app.speed
          BY <1>0, <1>1, <1>2, <1>15, <3>2, <4>5
        <4>7. usage'.ctr = u.ctr + n
          BY <1>0, <1>15, <2>8, <3>2, <4>3, <4>4, <4>6
        <4>8. load'.work = load.work + work
          BY <2>6, <3>1, <3>4
        <4>9. Tenth - d + 1 = k + 1 /\ d \in 1 .. Tenth
          BY <1>0, <4>1, <4>2
        <4> QED  BY <3>1, <3>4, <4>3, <4>4, <4>6, <4>7, <4>8, <4>9
      <3> QED  BY <3>3, <3>4
    <2>10. stat.at = "polls" => load'.samples = 0 /\ (usage'.rdy => usage'.max = Full)
      BY <1>9, <2>6, <2>8 DEF UsageInv, SamplesTell
    <2>11. stat.at = "suspended" => load'.samples = 0 /\ usage'.cpu = 0
      BY <1>4, <2>6, <2>8 DEF UsageInv, SamplesTell
    <2>12. load'.samples = 2 =>
             /\ usage'.run + load'.seen = Full
             /\ Full % Percent = 0 =>
                  usage'.cpu = (load'.seen + Full \div Percent - 1) \div (Full \div Percent)
      BY <1>4, <2>6, <2>8 DEF UsageInv, SamplesTell
    <2>13. SamplesTell'
      BY <1>6, <2>4, <2>6, <2>8, <2>9, <2>10, <2>11, <2>12 DEF SamplesTell
    <2> QED  BY <1>6, <2>4, <2>6, <2>7, <2>13 DEF UsageInv, UsageTypes, Usage
  <1>17. CASE runs /\ stat.at = "polls" /\ ~ u.rdy
    <2>1. OS_TaskStat(u) = [usage |-> u, at |-> "polls", dly |-> 2 * Tenth]
      BY <1>17 DEF OS_TaskStat
    <2>2. usage' = OS_TaskIdle(u, n) /\ stat' = [at |-> "polls", dly |-> 2 * Tenth, due |-> FALSE] /\ load.samples = 0
      BY <1>12, <1>17, <2>1 DEF UsageInv, SamplesTell
    <2>3. load' = load
      BY <1>12, <1>15, <2>1, <2>2
    <2>4. MeasuresAlone' /\ usage' \in Usage
      BY <1>13, <2>2
    <2>5. usage'.rdy = u.rdy
      BY <1>0, <2>2, IdleCounts
    <2>6. SamplesTell'
      BY <1>17, <2>2, <2>3, <2>5 DEF SamplesTell
    <2>7. stat' \in [at : {"polls", "samples", "suspended"}, dly : Nat, due : BOOLEAN]
      BY <1>0, <2>2
    <2> QED  BY <1>6, <1>15, <2>3, <2>4, <2>6, <2>7 DEF UsageInv, UsageTypes, Usage
  <1>18. CASE runs /\ stat.at = "polls" /\ u.rdy /\ u.max \div Percent = 0
    <2>1. PICK v : v = [u EXCEPT !.max = 0, !.cpu = 0]
      OBVIOUS
    <2>2. v \in Usage /\ v.rdy = u.rdy /\ v.cpu = 0 /\ v.ctr = u.ctr
      BY <2>1 DEF Usage
    <2>3. OS_TaskStat(u) = [usage |-> v, at |-> "suspended", dly |-> 0]
      BY <1>18, <2>1 DEF OS_TaskStat
    <2>4. usage' = OS_TaskIdle(v, n) /\ stat' = [at |-> "suspended", dly |-> 0, due |-> FALSE] /\ load.samples = 0
      BY <1>12, <1>18, <2>3 DEF UsageInv, SamplesTell
    <2>5. load' = load
      BY <1>12, <1>15, <2>3, <2>4
    <2>6. MeasuresAlone' /\ usage' \in Usage
      BY <1>13, <1>18, <2>2, <2>4
    <2>7. usage'.cpu = 0
      BY <1>0, <2>2, <2>4, IdleCounts
    <2>8. SamplesTell'
      BY <2>4, <2>5, <2>7 DEF SamplesTell
    <2>9. stat' \in [at : {"polls", "samples", "suspended"}, dly : Nat, due : BOOLEAN]
      BY <2>4
    <2> QED  BY <1>6, <1>15, <2>5, <2>6, <2>8, <2>9 DEF UsageInv, UsageTypes, Usage
  (* A sample of the counters w. *)
  <1>19. ASSUME NEW w \in Usage, w.rdy = u.rdy, u.rdy, w.ctr = u.ctr, w.max = Full \div Percent, w.max > 0, runs,
                OS_TaskStat(u) = [usage |-> Sample(w), at |-> "samples", dly |-> Tenth],
                load.samples > 0 => u.ctr + load.work = Full
         PROVE  UsageInv'
    <2>1. PICK v \in Usage : v = Sample(w)
      BY <1>0, <1>19, SampleTells
    <2>2. /\ v.run = w.ctr /\ v.ctr = 0 /\ v.max = w.max /\ v.rdy = w.rdy
          /\ v.cpu = (Percent - w.ctr \div w.max) % UsageWide
      BY <1>0, <1>19, <2>1, SampleTells
    <2>3. PICK count \in 1 .. 2 : /\ count = IF load.samples = 2 THEN 2 ELSE load.samples + 1
                                  /\ count = 2 => load.samples > 0
      BY <1>15
    <2>4. /\ usage' = OS_TaskIdle(v, n) /\ stat' = [at |-> "samples", dly |-> Tenth, due |-> FALSE]
          /\ load' = [samples |-> count, work |-> work, seen |-> load.work]
      BY <1>12, <1>19, <2>1, <2>3
    <2>5. MeasuresAlone' /\ usage' \in Usage
      BY <1>13, <1>19, <2>2, <2>4
    <2>6. usage'.run = v.run /\ usage'.max = v.max /\ usage'.rdy = v.rdy /\ usage'.cpu = v.cpu /\ usage'.ctr = n
      <3>1. v.ctr + n = n /\ n < CtrWide
        BY <1>0, <1>2, <2>2
      <3> QED  BY <1>0, <2>4, <3>1, IdleCounts
    <2>7. app'.at = "works"
      BY <1>6, <1>19
    <2>8. usage'.ctr + load'.work = (Tenth - stat'.dly + 1) * app'.speed
      <3>1. n + work = app.speed
        BY <1>0, <1>1, <1>2
      <3>2. (Tenth - Tenth + 1) * app.speed = app.speed
        BY <1>0
      <3> QED  BY <1>6, <2>4, <2>6, <3>1, <3>2
    <2>9. count = 2 =>
             /\ v.run + load.work = Full
             /\ Full % Percent = 0 =>
                  v.cpu = (load.work + Full \div Percent - 1) \div (Full \div Percent)
      <3> HAVE count = 2
      <3>1. v.run + load.work = Full /\ v.run \in Nat
        BY <1>0, <1>19, <2>2, <2>3 DEF Usage
      <3>2. ASSUME Full % Percent = 0
            PROVE  v.cpu = (load.work + w.max - 1) \div w.max
        <4>1. Full = Percent * (Full \div Percent)
          BY <1>0, <3>2
        <4>2. Full = Percent * w.max /\ w.max \in Nat \ {0}
          BY <1>19, <4>1 DEF Usage
        <4>3. v.cpu = (Percent - v.run \div w.max) % UsageWide
          BY <1>19, <2>2
        <4>4. v.run + load.work = Percent * w.max /\ load.work \in Nat
          BY <1>15, <3>1, <4>2
        <4>5. (Percent - v.run \div w.max) % UsageWide = (load.work + w.max - 1) \div w.max
          <5> DEFINE run == v.run
                     seen == load.work
                     unit == w.max
          <5>1. run \in Nat /\ seen \in Nat /\ unit \in Nat \ {0} /\ run + seen = Percent * unit
            BY <3>1, <4>2, <4>4
          <5> HIDE DEF run, seen, unit
          <5>2. Percent \in Nat /\ UsageWide \in Nat /\ UsageWide > Percent
            BY <1>0
          <5>3. (Percent - run \div unit) % UsageWide = (seen + unit - 1) \div unit
            BY <5>1, <5>2, ShareRounds
          <5> QED  BY <5>3 DEF run, seen, unit
        <4> QED  BY <4>3, <4>5
      <3> QED  BY <1>19, <3>1, <3>2
    <2>10. SamplesTell'
      <3>1. Tenth \in 1 .. Tenth
        BY <1>0
      <3> QED  BY <1>6, <1>19, <2>2, <2>3, <2>4, <2>6, <2>7, <2>8, <2>9, <3>1 DEF SamplesTell
    <2>11. /\ stat' \in [at : {"polls", "samples", "suspended"}, dly : Nat, due : BOOLEAN]
           /\ load' \in [samples : 0 .. 2, work : Nat, seen : Nat]
      BY <1>0, <1>15, <2>3, <2>4
    <2> QED  BY <1>6, <2>5, <2>10, <2>11 DEF UsageInv, UsageTypes, Usage
  <1>20. CASE runs /\ stat.at = "polls" /\ u.rdy /\ u.max \div Percent > 0
    <2>1. PICK w : w = [u EXCEPT !.max = u.max \div Percent]
      OBVIOUS
    <2>2. w \in Usage /\ w.rdy = u.rdy /\ w.ctr = u.ctr /\ w.max = Full \div Percent /\ w.max > 0
      <3>1. u.max = Full
        BY <1>9, <1>20
      <3>2. PICK m \in Nat : m = Full \div Percent /\ m > 0
        BY <1>0, <1>20, <3>1
      <3>3. w = [u EXCEPT !.max = m]
        BY <2>1, <3>1, <3>2
      <3>4. w \in Usage /\ w.rdy = u.rdy /\ w.ctr = u.ctr /\ w.max = m
        BY <3>3 DEF Usage
      <3> QED  BY <3>2, <3>4
    <2>3. OS_TaskStat(u) = [usage |-> Sample(w), at |-> "samples", dly |-> Tenth]
      BY <1>20, <2>1 DEF OS_TaskStat
    <2>4. load.samples = 0
      BY <1>20 DEF UsageInv, SamplesTell
    <2>5. load.samples > 0 => u.ctr + load.work = Full
      BY <2>4
    <2> HIDE DEF Full
    <2> QED  BY <1>19, <1>20, <2>2, <2>3, <2>5
  <1>21. CASE runs /\ stat.at = "samples"
    <2>1. OS_TaskStat(u) = [usage |-> Sample(u), at |-> "samples", dly |-> Tenth]
      BY <1>21 DEF OS_TaskStat
    <2>2. /\ u = usage /\ u.rdy /\ u.max = Full \div Percent /\ u.max > 0
          /\ usage.ctr + load.work = IF stat.due THEN Full ELSE (Tenth - stat.dly + 1) * app.speed
      BY <1>9, <1>21 DEF UsageInv, MeasuresAlone, SamplesTell
    <2>3. u.ctr + load.work = Full
      <3>1. CASE stat.due
        BY <2>2, <3>1
      <3>2. CASE ~ stat.due
        <4>1. stat.dly = 1 /\ Tenth - 1 + 1 = Tenth
          BY <1>0, <1>10, <1>11, <1>21, <3>2
        <4> QED  BY <2>2, <3>2, <4>1 DEF Full
      <3> QED  BY <3>1, <3>2
    <2> QED  BY <1>19, <1>21, <2>1, <2>2, <2>3
  <1>22. runs => stat.at # "suspended"
    BY <1>10, <1>11
  <1>23. u.rdy /\ stat.at = "polls" => u.max \div Percent = 0 \/ u.max \div Percent > 0
    <2>1. u.rdy /\ stat.at = "polls" => u.max = Full
      BY <1>9
    <2>2. Full \div Percent \in Nat
      BY <1>0
    <2> QED  BY <2>1, <2>2
  <1> QED  BY <1>14, <1>16, <1>17, <1>18, <1>20, <1>21, <1>22, <1>23

LEMMA UsageIsTheWorkInv ==
    ASSUME UsageInv
    PROVE  UsageIsTheWork
PROOF
  <1>1. ~ usage.rdy \/ stat.at = "suspended" => usage.cpu = 0
    BY DEF UsageInv, MeasuresAlone, SamplesTell
  <1> QED  BY <1>1 DEF UsageInv, SamplesTell, UsageIsTheWork, Full
-----------------------------------------------------------------------------
Owner == [alive : BOOLEAN, stk : Stack, clear : BOOLEAN, depth : 0 .. StkSize, high : 0 .. StkSize,
          used : Nat, foreign : BOOLEAN]
Check == [at : {"idle", "count", "store"}, stk : Stack, nfree : 0 .. StkSize - 1, replaced : BOOLEAN]

LEMMA NoCheckIsOne == NoCheck \in Check /\ NoCheck.at = "idle" /\ ~ NoCheck.replaced
PROOF
  <1>1. PICK s \in Stack : s = CHOOSE t \in Stack : TRUE
    BY StatisticsAssumption
  <1>2. NoCheck = [at |-> "idle", stk |-> s, nfree |-> 0, replaced |-> FALSE] /\ 0 \in 0 .. StkSize - 1
    BY <1>1, StatisticsAssumption DEF NoCheck
  <1> QED  BY <1>2 DEF Check

LEMMA StacksStart ==
    ASSUME StatisticsInit
    PROVE  StacksInv
PROOF
  <1>0. StkSize \in Nat /\ StkSize > 1
    BY StatisticsAssumption
  <1>1. stk = [s \in Stack |-> [i \in Cell |-> 1]]
    BY DEF StatisticsInit, Cell
  <1>2. stk \in [Stack -> [Cell -> {0, 1}]] /\ \A s \in Stack : stk[s][StkSize] = 1
    <2>1. StkSize \in Cell
      BY <1>0 DEF Cell, Bottom
    <2> QED  BY <1>1, <2>1
  <1>3. check \in Check /\ check.at = "idle" /\ ~ check.replaced
    BY NoCheckIsOne DEF StatisticsInit
  <1>4. PICK s \in Stack : s = NoCheck.stk
    BY NoCheckIsOne DEF Check
  <1>5. owner = [alive |-> FALSE, stk |-> s, clear |-> FALSE, depth |-> 0, high |-> 0, used |-> 0, foreign |-> FALSE]
    BY <1>4 DEF StatisticsInit
  <1>6. owner \in Owner
    BY <1>0, <1>5 DEF Owner
  <1> QED  BY <1>2, <1>3, <1>5, <1>6 DEF StacksInv, Owner, Check

LEMMA StacksSteps ==
    ASSUME StacksInv, StacksNext
    PROVE  StacksInv'
PROOF
  <1>0. StkSize \in Nat /\ StkSize > 1 /\ Cell = 1 .. StkSize
    BY StatisticsAssumption DEF Cell, Bottom
  <1>1. /\ stk \in [Stack -> [Cell -> {0, 1}]] /\ owner \in Owner /\ check \in Check
        /\ \A s \in Stack : stk[s][StkSize] = 1
    BY DEF StacksInv, Owner, Check
  <1>2. ASSUME NEW s \in Stack, NEW clear \in BOOLEAN, CreateTask(s, clear)
        PROVE  StacksInv'
    <2>1. PICK r : r = [OS_TaskStkClr(stk[s], clear) EXCEPT ![StkSize] = 1]
      OBVIOUS
    <2>2. /\ stk' = [stk EXCEPT ![s] = r]
          /\ owner' = [alive |-> TRUE, stk |-> s, clear |-> clear, depth |-> 1, high |-> 1,
                       used |-> 0, foreign |-> FALSE]
      BY <1>2, <2>1 DEF CreateTask
    <2>3. r \in [Cell -> {0, 1}] /\ r[StkSize] = 1 /\ (clear => \A i \in Cell : i # StkSize => r[i] = 0)
      <3>1. StkSize \in Cell /\ stk[s] \in [Cell -> {0, 1}]
        BY <1>0, <1>1
      <3>2. CASE clear
        BY <2>1, <3>1, <3>2 DEF OS_TaskStkClr
      <3>3. CASE ~ clear
        BY <2>1, <3>1, <3>3 DEF OS_TaskStkClr
      <3> QED  BY <3>2, <3>3
    <2>4. stk' \in [Stack -> [Cell -> {0, 1}]] /\ (\A t \in Stack : stk'[t][StkSize] = 1) /\ stk'[s] = r
      BY <1>1, <2>2, <2>3
    <2>5. PICK replaced \in BOOLEAN : replaced <=> check.at # "idle"
      OBVIOUS
    <2>6. check' = [check EXCEPT !.replaced = replaced]
      <3>1. (check.at # "idle") = replaced
        BY <2>5
      <3>2. check' = [check EXCEPT !.replaced = (check.at # "idle")]
        BY <1>2 DEF CreateTask
      <3> QED  BY <3>1, <3>2
    <2>7. check' \in Check /\ check'.at = check.at /\ check'.replaced = replaced
      BY <1>1, <2>6 DEF Check
    <2>8. owner' \in Owner
      BY <1>0, <2>2 DEF Owner
    <2>9. owner'.clear => \A i \in Cell : i <= StkSize - owner'.high => stk'[owner'.stk][i] = 0
      BY <1>0, <2>2, <2>3, <2>4
    <2> QED  BY <2>2, <2>4, <2>5, <2>7, <2>8, <2>9 DEF StacksInv, Owner, Check
  <1>3. CASE DeleteTask
    <2>1. owner' = [owner EXCEPT !.alive = FALSE] /\ stk' = stk /\ check' = check
      BY <1>3 DEF DeleteTask
    <2>2. /\ owner' \in Owner /\ ~ owner'.alive /\ owner'.stk = owner.stk /\ owner'.clear = owner.clear
          /\ owner'.high = owner.high /\ owner'.used = owner.used /\ owner'.foreign = owner.foreign
      BY <1>1, <2>1 DEF Owner
    <2> QED  BY <2>1, <2>2 DEF StacksInv, Owner
  <1>4. ASSUME NEW v \in {0, 1}, PushFrame(v)
        PROVE  StacksInv'
    <2>1. PICK d \in 1 .. StkSize - 1, high \in 0 .. StkSize, top \in 0 .. StkSize :
              /\ d = owner.depth /\ high = owner.high /\ d <= high
              /\ top = IF d + 1 > high THEN d + 1 ELSE high
      BY <1>0, <1>1, <1>4 DEF PushFrame, StacksInv, Owner
    <2>2. PICK s \in Stack : s = owner.stk
      BY <1>1 DEF Owner
    <2>3. PICK r : r = [stk[s] EXCEPT ![StkSize - d] = v]
      OBVIOUS
    <2>4. /\ stk' = [stk EXCEPT ![s] = r] /\ check' = check
          /\ owner' = [owner EXCEPT !.depth = d + 1, !.high = top]
      BY <1>4, <2>1, <2>2, <2>3 DEF PushFrame
    <2>5. r \in [Cell -> {0, 1}] /\ r[StkSize] = 1 /\ \A i \in Cell : i # StkSize - d => r[i] = stk[s][i]
      <3>1. StkSize \in Cell /\ StkSize # StkSize - d /\ StkSize - d \in Cell /\ stk[s] \in [Cell -> {0, 1}]
        BY <1>0, <1>1, <2>1
      <3> QED  BY <1>1, <2>3, <3>1
    <2>6. stk' \in [Stack -> [Cell -> {0, 1}]] /\ (\A t \in Stack : stk'[t][StkSize] = 1) /\ stk'[s] = r
      BY <1>1, <2>4, <2>5
    <2>7. /\ owner' \in Owner /\ owner'.alive = owner.alive /\ owner'.stk = s /\ owner'.clear = owner.clear
          /\ owner'.depth = d + 1 /\ owner'.high = top
          /\ owner'.used = owner.used /\ owner'.foreign = owner.foreign
      <3>1. PICK deep \in 0 .. StkSize : deep = d + 1
        BY <1>0, <2>1
      <3>2. owner' = [owner EXCEPT !.depth = deep, !.high = top]
        BY <2>4, <3>1
      <3> HIDE DEF Owner
      <3>3. owner' \in Owner
        BY <1>1, <3>2 DEF Owner
      <3>4. owner.stk = s
        BY <2>2
      <3> QED  BY <1>1, <3>1, <3>2, <3>3, <3>4 DEF Owner
    <2>8. d + 1 > 0 /\ d + 1 <= top /\ high <= top /\ StkSize - top < StkSize - d /\ StkSize - top <= StkSize - high
      BY <1>0, <2>1
    <2>9. owner'.clear => \A i \in Cell : i <= StkSize - top => stk'[s][i] = 0
      <3> SUFFICES ASSUME owner.clear, NEW i \in Cell, i <= StkSize - top
                   PROVE  r[i] = 0
        BY <2>6, <2>7
      <3>1. i # StkSize - d /\ i <= StkSize - high
        <4>1. i \in Int /\ StkSize - top \in Int /\ StkSize - d \in Int /\ StkSize - high \in Int
          BY <1>0, <2>1
        <4> QED  BY <2>8, <4>1
      <3>2. stk[s][i] = 0
        BY <2>1, <2>2, <3>1 DEF StacksInv
      <3> QED  BY <2>5, <3>1, <3>2
    <2>10. check.at = "store" /\ ~ check.replaced /\ owner.clear => check.nfree >= StkSize - top
      <3>1. check.nfree \in Nat
        BY <1>0, <1>1 DEF Check
      <3>2. check.at = "store" /\ ~ check.replaced /\ owner.clear => check.nfree >= StkSize - high
        BY <2>1 DEF StacksInv
      <3> QED  BY <1>0, <2>1, <2>8, <3>1, <3>2
    <2>11. owner.clear /\ ~ owner.foreign => owner.used <= top
      <3>1. owner.used \in Nat
        BY <1>1 DEF Owner
      <3>2. owner.clear /\ ~ owner.foreign => owner.used <= high
        BY <2>1 DEF StacksInv
      <3> QED  BY <2>1, <2>8, <3>1, <3>2
    <2>12. check.at # "idle" /\ ~ check.replaced => check.stk = s
      BY <2>2 DEF StacksInv
    <2> QED  BY <1>1, <2>4, <2>6, <2>7, <2>8, <2>9, <2>10, <2>11, <2>12 DEF StacksInv, Owner, Check
  <1>5. CASE PopFrame
    <2>1. PICK d \in 1 .. StkSize, high \in 0 .. StkSize :
              d + 1 = owner.depth /\ high = owner.high /\ d + 1 <= high
      <3>1. owner.depth - 1 \in 1 .. StkSize /\ owner.depth - 1 + 1 = owner.depth
        BY <1>0, <1>1, <1>5 DEF PopFrame, Owner
      <3> QED  BY <1>1, <1>5, <3>1 DEF PopFrame, StacksInv, Owner
    <2>2. owner' = [owner EXCEPT !.depth = d] /\ stk' = stk /\ check' = check
      <3>1. owner' = [owner EXCEPT !.depth = owner.depth - 1] /\ stk' = stk /\ check' = check
        BY <1>5 DEF PopFrame
      <3>2. owner.depth - 1 = d
        BY <2>1
      <3> QED  BY <3>1, <3>2
    <2>3. /\ owner' \in Owner /\ owner'.depth = d /\ owner'.alive = owner.alive /\ owner'.stk = owner.stk
          /\ owner'.clear = owner.clear /\ owner'.high = owner.high
          /\ owner'.used = owner.used /\ owner'.foreign = owner.foreign
      BY <1>0, <1>1, <2>1, <2>2 DEF Owner
    <2>4. d > 0 /\ d <= owner.high
      BY <2>1
    <2> QED  BY <2>2, <2>3, <2>4 DEF StacksInv, Owner
  <1>6. CASE OSTaskStkChk
    <2>1. /\ check' = [at |-> "count", stk |-> owner.stk, nfree |-> 0, replaced |-> FALSE]
          /\ stk' = stk /\ owner' = owner
      BY <1>6 DEF OSTaskStkChk
    <2>2. check' \in Check
      BY <1>0, <1>1, <2>1 DEF Owner, Check
    <2> QED  BY <2>1, <2>2 DEF StacksInv, Check
  <1>7. CASE CountFree
    <2>1. PICK n \in 0 .. StkSize - 1, s \in Stack : n = check.nfree /\ s = check.stk
      BY <1>1 DEF Check
    <2>2. 1 + n \in Cell /\ stk[s][1 + n] \in {0, 1}
      BY <1>0, <1>1, <2>1
    <2>3. CASE stk[s][1 + n] = 0
      <3>1. check' = [check EXCEPT !.nfree = n + 1] /\ stk' = stk /\ owner' = owner /\ check.at = "count"
        BY <1>7, <2>1, <2>3 DEF CountFree, Bottom
      <3>2. n + 1 \in 0 .. StkSize - 1
        <4>1. 1 + n # StkSize
          BY <1>1, <2>3
        <4> QED  BY <1>0, <2>1, <4>1
      <3>3. check' \in Check /\ check'.at = "count" /\ check'.stk = check.stk /\ check'.replaced = check.replaced
        BY <1>1, <3>1, <3>2 DEF Check
      <3> QED  BY <3>1, <3>3 DEF StacksInv, Check
    <2>4. CASE stk[s][1 + n] # 0
      <3>1. check' = [check EXCEPT !.at = "store"] /\ stk' = stk /\ owner' = owner /\ check.at = "count"
        BY <1>7, <2>1, <2>4 DEF CountFree, Bottom
      <3>2. /\ check' \in Check /\ check'.at = "store" /\ check'.stk = check.stk
            /\ check'.replaced = check.replaced /\ check'.nfree = n
        BY <1>1, <2>1, <3>1 DEF Check
      <3>3. ~ check.replaced /\ owner.clear => n >= StkSize - owner.high
        <4> HAVE ~ check.replaced /\ owner.clear
        <4>1. s = owner.stk
          BY <2>1, <3>1 DEF StacksInv
        <4>2. ~ 1 + n <= StkSize - owner.high
          BY <2>2, <2>4, <4>1 DEF StacksInv
        <4> QED  BY <1>0, <1>1, <2>1, <4>2 DEF Owner
      <3> QED  BY <3>1, <3>2, <3>3 DEF StacksInv, Check
    <2> QED  BY <2>3, <2>4
  <1>8. CASE OS_TaskStatStkChk
    <2>1. check.at = "store" /\ check' = NoCheck /\ stk' = stk
      BY <1>8 DEF OS_TaskStatStkChk
    <2>2. check' \in Check /\ check'.at = "idle" /\ ~ check'.replaced
      BY <2>1, NoCheckIsOne
    <2>3. CASE owner.alive
      <3>1. PICK used \in Nat, replaced \in BOOLEAN : used = StkSize - check.nfree /\ replaced = check.replaced
        BY <1>0, <1>1 DEF Check
      <3>2. owner' = [owner EXCEPT !.used = used, !.foreign = replaced]
        BY <1>8, <2>3, <3>1 DEF OS_TaskStatStkChk
      <3>3. /\ owner' \in Owner /\ owner'.alive = owner.alive /\ owner'.stk = owner.stk
            /\ owner'.clear = owner.clear /\ owner'.depth = owner.depth /\ owner'.high = owner.high
            /\ owner'.used = used /\ owner'.foreign = replaced
        BY <1>1, <3>1, <3>2 DEF Owner
      <3>4. owner.clear /\ ~ replaced => used <= owner.high
        <4>1. owner.clear /\ ~ replaced => check.nfree >= StkSize - owner.high
          BY <2>1, <3>1 DEF StacksInv
        <4> QED  BY <1>0, <1>1, <3>1, <4>1 DEF Owner, Check
      <3> QED  BY <2>1, <2>2, <3>3, <3>4 DEF StacksInv, Owner, Check
    <2>4. CASE ~ owner.alive
      <3>1. owner' = owner
        BY <1>8, <2>4 DEF OS_TaskStatStkChk
      <3> QED  BY <2>1, <2>2, <3>1 DEF StacksInv, Owner, Check
    <2> QED  BY <2>3, <2>4
  <1> QED  BY <1>2, <1>3, <1>4, <1>5, <1>6, <1>7, <1>8 DEF StacksNext

LEMMA StackSaidIsUsedInv ==
    ASSUME StacksInv
    PROVE  StackSaidIsUsed
PROOF
  <1>1. check.nfree < StkSize
    BY StatisticsAssumption DEF StacksInv
  <1> QED  BY <1>1 DEF StacksInv, StackSaidIsUsed

-----------------------------------------------------------------------------
(* The control blocks and their names *)

Owned == RegTcb \cup Named
Known == DOMAIN NameLen \cup {"?"}

RegistryTypes ==
    /\ freeTcb \in Seq(RegTcb)
    /\ taskAt \in [RegPrio -> RegTcb \cup {Untasked}]
    /\ block \in [Owned -> [used : BOOLEAN, name : Known]]
    /\ delReq \in [RegTcb -> BOOLEAN]
    /\ leaving \subseteq RegTcb
    /\ naming \in {NoNaming} \cup (RegEvent \X (DOMAIN NameLen) \X BOOLEAN)
    /\ told \in [name : [Owned -> Known], asked : SUBSET RegTcb, late : SUBSET RegEvent]

(* A control block is free once, or one task's. *)
TcbsApart ==
    /\ \A i, j \in DOMAIN freeTcb : freeTcb[i] = freeTcb[j] => i = j
    /\ \A i \in DOMAIN freeTcb : block[freeTcb[i]] = NewBlock
    /\ \A i \in DOMAIN freeTcb, p \in RegPrio : freeTcb[i] # taskAt[p]
    /\ \A p, q \in RegPrio : taskAt[p] = taskAt[q] /\ taskAt[p] # Untasked => p = q

RequestsKnown ==
    /\ \A p \in RegPrio : taskAt[p] # Untasked => (delReq[taskAt[p]] <=> taskAt[p] \in told.asked)
    /\ leaving \subseteq told.asked
    /\ \A t \in leaving : \E p \in RegPrio : taskAt[p] = t

NamesTold ==
    /\ \A b \in Owned \ told.late : block[b].name = told.name[b]
    /\ \A b \in Owned : block[b].name # "?" => Fits(block[b].name)

RegistryInv == RegistryTypes /\ TcbsApart /\ RequestsKnown /\ NamesTold

LEMMA NamedAlike ==
    ASSUME RegistryTypes, NamesTold, NEW b \in Owned, NEW v \in Known, NEW u \in BOOLEAN,
           NEW A \in SUBSET RegTcb, v # "?" => Fits(v),
           block' = [block EXCEPT ![b] = [used |-> u, name |-> v]],
           told' = [name |-> [told.name EXCEPT ![b] = v], asked |-> A, late |-> told.late \ {b}]
    PROVE  /\ block' \in [Owned -> [used : BOOLEAN, name : Known]]
           /\ told' \in [name : [Owned -> Known], asked : SUBSET RegTcb, late : SUBSET RegEvent]
           /\ NamesTold'
PROOF
  <1>1. block' \in [Owned -> [used : BOOLEAN, name : Known]]
    BY DEF RegistryTypes
  <1>2. /\ told'.name \in [Owned -> Known] /\ told'.name = [told.name EXCEPT ![b] = v]
        /\ told'.late = told.late \ {b} /\ told'.asked = A
    BY DEF RegistryTypes
  <1>3. ASSUME NEW x \in Owned
        PROVE  /\ x \notin told'.late => block'[x].name = told'.name[x]
               /\ block'[x].name # "?" => Fits(block'[x].name)
    <2>1. CASE x = b
      <3>1. block'[b].name = v /\ told'.name[b] = v
        BY <1>2 DEF RegistryTypes
      <3> QED  BY <2>1, <3>1
    <2>2. CASE x # b
      <3>1. block'[x] = block[x] /\ told'.name[x] = told.name[x]
        BY <1>2, <2>2 DEF RegistryTypes
      <3> QED  BY <1>2, <2>2, <3>1 DEF NamesTold
    <2> QED  BY <2>1, <2>2
  <1>4. told' \in [name : [Owned -> Known], asked : SUBSET RegTcb, late : SUBSET RegEvent]
    <2>1. told.late \in SUBSET RegEvent
      BY DEF RegistryTypes
    <2> QED  BY <1>2, <2>1
  <1> QED  BY <1>1, <1>3, <1>4 DEF NamesTold, Fits, OS_StrLen

LEMMA BlockBegins ==
    ASSUME RegistryTypes, NamesTold, NEW b \in Owned, Begins(b)
    PROVE  /\ block' \in [Owned -> [used : BOOLEAN, name : Known]]
           /\ told' \in [name : [Owned -> Known], asked : SUBSET RegTcb, late : SUBSET RegEvent]
           /\ NamesTold' /\ told'.asked = told.asked \ {b}
           /\ \A x \in Owned : x # b => block'[x] = block[x]
PROOF
  <1>1. told' = [name |-> [told.name EXCEPT ![b] = "?"], asked |-> told.asked \ {b}, late |-> told.late \ {b}]
    BY DEF Begins, RegistryTypes
  <1>2. block' = [block EXCEPT ![b] = [used |-> TRUE, name |-> "?"]] /\ "?" \in Known
    BY DEF Begins, Known
  <1>3. told.asked \ {b} \in SUBSET RegTcb
    BY DEF RegistryTypes
  <1>4. \A x \in Owned : x # b => block'[x] = block[x]
    BY <1>2 DEF RegistryTypes
  <1> QED  BY <1>1, <1>2, <1>3, <1>4, NamedAlike

LEMMA BlockEnds ==
    ASSUME RegistryTypes, NamesTold, NEW b \in Owned, Ends(b)
    PROVE  /\ block' \in [Owned -> [used : BOOLEAN, name : Known]]
           /\ told' \in [name : [Owned -> Known], asked : SUBSET RegTcb, late : SUBSET RegEvent]
           /\ NamesTold' /\ told'.asked = told.asked
           /\ block'[b] = NewBlock
           /\ \A x \in Owned : x # b => block'[x] = block[x]
PROOF
  <1>1. told' = [name |-> [told.name EXCEPT ![b] = "?"], asked |-> told.asked, late |-> told.late \ {b}]
    BY DEF Ends, RegistryTypes
  <1>2. block' = [block EXCEPT ![b] = [used |-> FALSE, name |-> "?"]] /\ "?" \in Known
    BY DEF Ends, NewBlock, Known
  <1>3. told.asked \in SUBSET RegTcb
    BY DEF RegistryTypes
  <1>4. block'[b] = NewBlock /\ \A x \in Owned : x # b => block'[x] = block[x]
    BY <1>2 DEF RegistryTypes, NewBlock
  <1> QED  BY <1>1, <1>2, <1>3, <1>4, NamedAlike

LEMMA BlockNamed ==
    ASSUME RegistryTypes, NamesTold, NEW b \in Owned, NEW name \in DOMAIN NameLen, GivesName(b, name)
    PROVE  /\ block' \in [Owned -> [used : BOOLEAN, name : Known]]
           /\ told' \in [name : [Owned -> Known], asked : SUBSET RegTcb, late : SUBSET RegEvent]
           /\ NamesTold' /\ told'.asked = told.asked
           /\ \A x \in Owned : x # b => block'[x] = block[x]
PROOF
  <1>1. told' = [name |-> [told.name EXCEPT ![b] = name], asked |-> told.asked, late |-> told.late \ {b}]
    BY DEF GivesName, RegistryTypes
  <1>2. PICK u \in BOOLEAN : u = block[b].used
    BY DEF RegistryTypes
  <1>3. block' = [block EXCEPT ![b] = [used |-> u, name |-> name]]
    <2>1. block' = [block EXCEPT ![b] = [block[b] EXCEPT !.name = name]]
      BY DEF GivesName, OS_StrCopy, RegistryTypes
    <2>2. block[b] \in [used : BOOLEAN, name : Known]
      BY DEF RegistryTypes
    <2>3. [block[b] EXCEPT !.name = name] = [used |-> u, name |-> name]
      BY <1>2, <2>2
    <2> QED  BY <2>1, <2>3
  <1>4. name \in Known /\ Fits(name)
    BY DEF GivesName, Known
  <1>5. told.asked \in SUBSET RegTcb
    BY DEF RegistryTypes
  <1>6. \A x \in Owned : x # b => block'[x] = block[x]
    BY <1>3 DEF RegistryTypes
  <1> QED  BY <1>1, <1>3, <1>4, <1>5, <1>6, NamedAlike

(* A task begins or ends: what becomes of its control block. *)
LEMMA TaskBeginsStep ==
    ASSUME RegistryInv, NEW p \in RegPrio, TaskBegins(p)
    PROVE  RegistryInv'
PROOF
  <1>0. RegistryTypes /\ TcbsApart /\ RequestsKnown /\ NamesTold
    BY DEF RegistryInv
  <1> DEFINE t == Head(freeTcb)
  <1>1. /\ taskAt[p] = Untasked /\ freeTcb # <<>> /\ Begins(t) /\ freeTcb' = Tail(freeTcb)
        /\ delReq' = [delReq EXCEPT ![t] = FALSE] /\ taskAt' = [taskAt EXCEPT ![p] = t]
        /\ UNCHANGED <<leaving, naming>>
    BY DEF TaskBegins, OS_TCBInit
  <1>2. /\ t = freeTcb[1] /\ 1 \in DOMAIN freeTcb /\ t \in RegTcb /\ t \in Owned
        /\ Tail(freeTcb) \in Seq(RegTcb) /\ DOMAIN Tail(freeTcb) = 1 .. Len(freeTcb) - 1
        /\ \A i \in DOMAIN Tail(freeTcb) : Tail(freeTcb)[i] = freeTcb[i + 1] /\ i + 1 \in DOMAIN freeTcb
                                           /\ i \in Nat
    BY <1>0, <1>1 DEF RegistryTypes, Owned
  <1> HIDE DEF t
  <1>3. /\ block' \in [Owned -> [used : BOOLEAN, name : Known]]
        /\ told' \in [name : [Owned -> Known], asked : SUBSET RegTcb, late : SUBSET RegEvent]
        /\ NamesTold' /\ told'.asked = told.asked \ {t}
        /\ \A x \in Owned : x # t => block'[x] = block[x]
    BY <1>0, <1>1, <1>2, BlockBegins
  <1>4. RegistryTypes'
    BY <1>0, <1>1, <1>2, <1>3 DEF RegistryTypes
  <1>5. /\ taskAt'[p] = t /\ \A q \in RegPrio : q # p => taskAt'[q] = taskAt[q]
        /\ \A q \in RegPrio : taskAt[q] # t
        /\ t # Untasked
    BY <1>0, <1>1, <1>2, RegistryAssumption DEF RegistryTypes, TcbsApart, Untasked
  <1>6. TcbsApart'
    <2>1. ASSUME NEW i \in DOMAIN freeTcb'
          PROVE  /\ i + 1 \in DOMAIN freeTcb /\ freeTcb'[i] = freeTcb[i + 1] /\ freeTcb[i + 1] \in RegTcb
                 /\ freeTcb[i + 1] # t /\ block'[freeTcb'[i]] = NewBlock
                 /\ \A q \in RegPrio : freeTcb'[i] # taskAt'[q]
      <3>1. i + 1 \in DOMAIN freeTcb /\ freeTcb'[i] = freeTcb[i + 1] /\ i + 1 # 1
        BY <1>1, <1>2, <2>1
      <3>2. freeTcb[i + 1] # t /\ freeTcb[i + 1] \in RegTcb
        BY <1>0, <1>2, <3>1 DEF TcbsApart, RegistryTypes
      <3> QED  BY <1>0, <1>3, <1>5, <3>1, <3>2 DEF TcbsApart, Owned
    <2>2. \A i, j \in DOMAIN freeTcb' : freeTcb'[i] = freeTcb'[j] => i = j
      <3> SUFFICES ASSUME NEW i \in DOMAIN freeTcb', NEW j \in DOMAIN freeTcb', freeTcb'[i] = freeTcb'[j]
                   PROVE  i = j
        OBVIOUS
      <3>1. i + 1 = j + 1
        BY <1>0, <2>1 DEF TcbsApart
      <3>2. i \in Nat /\ j \in Nat
        BY <1>1, <1>2
      <3> QED  BY <3>1, <3>2
    <2>3. \A q, r \in RegPrio : taskAt'[q] = taskAt'[r] /\ taskAt'[q] # Untasked => q = r
      BY <1>0, <1>5 DEF TcbsApart
    <2> QED  BY <2>1, <2>2, <2>3 DEF TcbsApart
  <1>7. RequestsKnown'
    <2>1. ASSUME NEW q \in RegPrio, taskAt'[q] # Untasked
          PROVE  delReq'[taskAt'[q]] <=> taskAt'[q] \in told'.asked
      <3>1. CASE q = p
        <4>1. delReq'[t] = FALSE
          BY <1>0, <1>1, <1>2 DEF RegistryTypes
        <4> QED  BY <1>3, <1>5, <3>1, <4>1
      <3>2. CASE q # p
        <4>1. taskAt'[q] = taskAt[q] /\ taskAt[q] \in RegTcb /\ taskAt[q] # t
          BY <1>0, <1>5, <2>1, <3>2 DEF RegistryTypes
        <4>2. delReq'[taskAt[q]] = delReq[taskAt[q]]
          BY <1>0, <1>1, <4>1 DEF RegistryTypes
        <4> QED  BY <1>0, <1>3, <2>1, <4>1, <4>2 DEF RequestsKnown
      <3> QED  BY <3>1, <3>2
    <2>2. \A x \in leaving : x # t
      BY <1>0, <1>5 DEF RequestsKnown
    <2>3. ASSUME NEW x \in leaving
          PROVE  \E q \in RegPrio : taskAt'[q] = x
      <3>1. PICK q \in RegPrio : taskAt[q] = x
        BY <1>0, <2>3 DEF RequestsKnown
      <3>2. q # p
        BY <1>0, <1>1, <3>1, <2>3, RegistryAssumption DEF RegistryTypes, Untasked
      <3> QED  BY <1>5, <3>1, <3>2
    <2> QED  BY <1>0, <1>1, <1>3, <2>1, <2>2, <2>3 DEF RequestsKnown
  <1> QED  BY <1>3, <1>4, <1>6, <1>7 DEF RegistryInv

LEMMA TaskEndsStep ==
    ASSUME RegistryInv, NEW p \in RegPrio, TaskEnds(p)
    PROVE  RegistryInv'
PROOF
  <1>0. RegistryTypes /\ TcbsApart /\ RequestsKnown /\ NamesTold
    BY DEF RegistryInv
  <1>1. PICK t \in RegTcb : t = taskAt[p]
    BY <1>0 DEF TaskEnds, RegistryTypes
  <1>2. /\ Ends(t) /\ freeTcb' = <<t>> \o freeTcb /\ taskAt' = [taskAt EXCEPT ![p] = Untasked]
        /\ leaving' = leaving \ {t} /\ UNCHANGED <<delReq, naming>>
        /\ t # Untasked /\ t \in Owned
    BY <1>1 DEF TaskEnds, Owned
  <1>3. /\ block' \in [Owned -> [used : BOOLEAN, name : Known]]
        /\ told' \in [name : [Owned -> Known], asked : SUBSET RegTcb, late : SUBSET RegEvent]
        /\ NamesTold' /\ told'.asked = told.asked
        /\ block'[t] = NewBlock
        /\ \A x \in Owned : x # t => block'[x] = block[x]
    BY <1>0, <1>2, BlockEnds
  <1>4. /\ freeTcb' \in Seq(RegTcb) /\ DOMAIN freeTcb' = 1 .. Len(freeTcb) + 1 /\ freeTcb'[1] = t
        /\ \A i \in DOMAIN freeTcb' : i # 1 => i - 1 \in DOMAIN freeTcb /\ freeTcb'[i] = freeTcb[i - 1]
        /\ Len(freeTcb) \in Nat
    BY <1>0, <1>2 DEF RegistryTypes
  <1>5. taskAt'[p] = Untasked /\ \A q \in RegPrio : q # p => taskAt'[q] = taskAt[q] /\ taskAt[q] # t
    BY <1>0, <1>1, <1>2 DEF RegistryTypes, TcbsApart
  <1>6. RegistryTypes'
    BY <1>0, <1>2, <1>3, <1>4 DEF RegistryTypes
  <1>7. TcbsApart'
    <2>1. ASSUME NEW i \in DOMAIN freeTcb', i # 1
          PROVE  /\ freeTcb'[i] = freeTcb[i - 1] /\ i - 1 \in DOMAIN freeTcb /\ freeTcb'[i] \in RegTcb
                 /\ freeTcb'[i] # t
      <3>1. freeTcb'[i] = freeTcb[i - 1] /\ i - 1 \in DOMAIN freeTcb
        BY <1>4, <2>1
      <3> QED  BY <1>0, <1>1, <3>1 DEF TcbsApart, RegistryTypes
    <2>2. \A i, j \in DOMAIN freeTcb' : freeTcb'[i] = freeTcb'[j] => i = j
      <3> SUFFICES ASSUME NEW i \in DOMAIN freeTcb', NEW j \in DOMAIN freeTcb', freeTcb'[i] = freeTcb'[j]
                   PROVE  i = j
        OBVIOUS
      <3>1. CASE i = 1 \/ j = 1
        BY <1>4, <2>1, <3>1
      <3>2. CASE i # 1 /\ j # 1
        <4>1. i - 1 = j - 1
          BY <1>0, <2>1, <3>2 DEF TcbsApart
        <4> QED  BY <1>4, <4>1
      <3> QED  BY <3>1, <3>2
    <2>3. ASSUME NEW i \in DOMAIN freeTcb'
          PROVE  block'[freeTcb'[i]] = NewBlock /\ \A q \in RegPrio : freeTcb'[i] # taskAt'[q]
      <3>1. CASE i = 1
        BY <1>2, <1>3, <1>4, <1>5, <3>1
      <3>2. CASE i # 1
        <4>1. block'[freeTcb'[i]] = NewBlock
          BY <1>0, <1>3, <2>1, <3>2 DEF TcbsApart, Owned
        <4>2. freeTcb'[i] # Untasked
          BY <2>1, <3>2, RegistryAssumption DEF Untasked
        <4> QED  BY <1>0, <1>5, <2>1, <3>2, <4>1, <4>2 DEF TcbsApart
      <3> QED  BY <3>1, <3>2
    <2>4. \A q, r \in RegPrio : taskAt'[q] = taskAt'[r] /\ taskAt'[q] # Untasked => q = r
      BY <1>0, <1>5 DEF TcbsApart
    <2> QED  BY <2>2, <2>3, <2>4 DEF TcbsApart
  <1>8. RequestsKnown'
    <2>1. ASSUME NEW x \in leaving'
          PROVE  \E q \in RegPrio : taskAt'[q] = x
      <3>1. PICK q \in RegPrio : taskAt[q] = x
        BY <1>0, <1>2, <2>1 DEF RequestsKnown
      <3>2. q # p
        BY <1>1, <1>2, <2>1, <3>1
      <3> QED  BY <1>5, <3>1, <3>2
    <2>2. \A q \in RegPrio : taskAt'[q] # Untasked => (delReq'[taskAt'[q]] <=> taskAt'[q] \in told'.asked)
      BY <1>0, <1>2, <1>3, <1>5 DEF RequestsKnown
    <2> QED  BY <1>0, <1>2, <1>3, <2>1, <2>2 DEF RequestsKnown
  <1> QED  BY <1>3, <1>6, <1>7, <1>8 DEF RegistryInv

(* What concerns one block that is not free leaves the tasks' alone. *)
LEMMA TasksGoOn ==
    ASSUME RegistryInv, NEW b \in Owned, \A i \in DOMAIN freeTcb : freeTcb[i] # b,
           UNCHANGED <<freeTcb, taskAt, delReq, leaving>>, told'.asked = told.asked,
           \A x \in Owned : x # b => block'[x] = block[x]
    PROVE  TcbsApart' /\ RequestsKnown'
PROOF
  <1>0. RegistryTypes /\ TcbsApart /\ RequestsKnown
    BY DEF RegistryInv
  <1>1. \A i \in DOMAIN freeTcb : freeTcb[i] \in Owned
    BY <1>0 DEF RegistryTypes, Owned
  <1>2. TcbsApart'
    BY <1>0, <1>1 DEF TcbsApart
  <1>3. RequestsKnown'
    BY <1>0 DEF RequestsKnown
  <1> QED  BY <1>2, <1>3

LEMMA NamedIsNoTask ==
    ASSUME RegistryInv, NEW b \in Named
    PROVE  b \in Owned /\ b \notin RegTcb /\ \A i \in DOMAIN freeTcb : freeTcb[i] # b
PROOF
  <1>1. b \notin RegTcb
    BY RegistryAssumption DEF Named
  <1> QED  BY <1>1 DEF RegistryInv, RegistryTypes, Owned

LEMMA RequestStep ==
    ASSUME RegistryInv, NEW p \in RegPrio, OSTaskDelReq(p) \/ SelfDelReq(p)
    PROVE  RegistryInv'
PROOF
  <1>0. RegistryTypes /\ TcbsApart /\ RequestsKnown /\ NamesTold
    BY DEF RegistryInv
  <1>1. PICK t \in RegTcb : t = taskAt[p]
    BY <1>0 DEF OSTaskDelReq, SelfDelReq, RegistryTypes
  <1>2. t # Untasked /\ UNCHANGED <<freeTcb, taskAt, block, naming>>
    BY <1>1 DEF OSTaskDelReq, SelfDelReq
  <1>3. TcbsApart'
    BY <1>0, <1>2 DEF TcbsApart
  <1>4. CASE OSTaskDelReq(p)
    <2>1. /\ delReq' = [delReq EXCEPT ![t] = TRUE] /\ UNCHANGED leaving
          /\ told' = [told EXCEPT !.asked = told.asked \cup {t}]
      BY <1>1, <1>4 DEF OSTaskDelReq
    <2>2. /\ told'.name = told.name /\ told'.late = told.late /\ told'.asked = told.asked \cup {t}
          /\ told' \in [name : [Owned -> Known], asked : SUBSET RegTcb, late : SUBSET RegEvent]
      <3>1. told.asked \cup {t} \in SUBSET RegTcb
        BY <1>0 DEF RegistryTypes
      <3> QED  BY <1>0, <2>1, <3>1 DEF RegistryTypes
    <2>3. RegistryTypes'
      BY <1>0, <1>2, <2>1, <2>2 DEF RegistryTypes
    <2>4. NamesTold'
      BY <1>0, <1>2, <2>2 DEF NamesTold, Fits, OS_StrLen
    <2>5. RequestsKnown'
      <3>1. ASSUME NEW q \in RegPrio, taskAt[q] # Untasked
            PROVE  delReq'[taskAt[q]] <=> taskAt[q] \in told'.asked
        <4>1. CASE taskAt[q] = t
          BY <1>0, <2>1, <2>2, <4>1 DEF RegistryTypes
        <4>2. CASE taskAt[q] # t
          <5>1. delReq'[taskAt[q]] = delReq[taskAt[q]]
            BY <1>0, <2>1, <3>1, <4>2 DEF RegistryTypes
          <5> QED  BY <1>0, <2>2, <3>1, <4>2, <5>1 DEF RequestsKnown
        <4> QED  BY <4>1, <4>2
      <3> QED  BY <1>0, <1>2, <2>1, <2>2, <3>1 DEF RequestsKnown
    <2> QED  BY <1>3, <2>3, <2>4, <2>5 DEF RegistryInv
  <1>5. CASE SelfDelReq(p)
    <2>1. delReq[t] /\ leaving' = leaving \cup {t} /\ UNCHANGED <<delReq, told>>
      BY <1>1, <1>5 DEF SelfDelReq
    <2>2. t \in told.asked
      BY <1>0, <1>1, <1>2, <2>1 DEF RequestsKnown
    <2>3. RegistryTypes'
      BY <1>0, <1>2, <2>1 DEF RegistryTypes
    <2>4. NamesTold'
      BY <1>0, <1>2, <2>1 DEF NamesTold, Fits, OS_StrLen
    <2>5. RequestsKnown'
      BY <1>0, <1>1, <1>2, <2>1, <2>2 DEF RequestsKnown
    <2> QED  BY <1>3, <2>3, <2>4, <2>5 DEF RegistryInv
  <1> QED  BY <1>4, <1>5

(* Names given outright: of tasks, flag groups and partitions. *)
LEMMA NameStep ==
    ASSUME RegistryInv, NEW name \in DOMAIN NameLen,
           \/ \E p \in RegPrio : OSTaskNameSet(p, name)
           \/ \E b \in RegGroup : OSFlagNameSet(b, name)
           \/ \E b \in RegPart : OSMemNameSet(b, name)
    PROVE  RegistryInv'
PROOF
  <1>0. RegistryTypes /\ TcbsApart /\ RequestsKnown /\ NamesTold
    BY DEF RegistryInv
  <1>1. PICK b \in Owned : /\ GivesName(b, name) /\ \A i \in DOMAIN freeTcb : freeTcb[i] # b
    <2>1. ASSUME NEW p \in RegPrio, OSTaskNameSet(p, name)
          PROVE  /\ taskAt[p] \in Owned /\ GivesName(taskAt[p], name)
                 /\ \A i \in DOMAIN freeTcb : freeTcb[i] # taskAt[p]
      BY <1>0, <2>1 DEF OSTaskNameSet, RegistryTypes, TcbsApart, Owned
    <2>2. ASSUME NEW g \in RegGroup \cup RegPart, OSFlagNameSet(g, name) \/ OSMemNameSet(g, name)
          PROVE  g \in Owned /\ GivesName(g, name) /\ \A i \in DOMAIN freeTcb : freeTcb[i] # g
      BY <2>2, NamedIsNoTask DEF OSFlagNameSet, OSMemNameSet, Named
    <2> QED  BY <2>1, <2>2
  <1>2. UNCHANGED <<freeTcb, taskAt, delReq, leaving, naming>>
    BY DEF OSTaskNameSet, OSFlagNameSet, OSMemNameSet, RestOf
  <1>3. /\ block' \in [Owned -> [used : BOOLEAN, name : Known]]
        /\ told' \in [name : [Owned -> Known], asked : SUBSET RegTcb, late : SUBSET RegEvent]
        /\ NamesTold' /\ told'.asked = told.asked
        /\ \A x \in Owned : x # b => block'[x] = block[x]
    BY <1>0, <1>1, BlockNamed
  <1>4. RegistryTypes'
    BY <1>0, <1>2, <1>3 DEF RegistryTypes
  <1>5. TcbsApart' /\ RequestsKnown'
    BY <1>1, <1>2, <1>3, TasksGoOn
  <1> QED  BY <1>3, <1>4, <1>5 DEF RegistryInv

(* Events, flag groups and partitions come and go. *)
LEMMA ObjectStep ==
    ASSUME RegistryInv, NEW b \in Named,
           ObjectBegins(b) \/ ObjectEnds(b) \/ (b \in RegEvent /\ EventEnds(b))
    PROVE  RegistryInv'
PROOF
  <1>0. RegistryTypes /\ TcbsApart /\ RequestsKnown /\ NamesTold
    BY DEF RegistryInv
  <1>1. b \in Owned /\ b \notin RegTcb /\ \A i \in DOMAIN freeTcb : freeTcb[i] # b
    BY NamedIsNoTask
  <1>2. UNCHANGED <<freeTcb, taskAt, delReq, leaving>> /\ (Begins(b) \/ Ends(b))
    BY DEF ObjectBegins, ObjectEnds, EventEnds, RestOf
  <1>3. /\ block' \in [Owned -> [used : BOOLEAN, name : Known]]
        /\ told' \in [name : [Owned -> Known], asked : SUBSET RegTcb, late : SUBSET RegEvent]
        /\ NamesTold' /\ told'.asked \in {told.asked, told.asked \ {b}}
        /\ \A x \in Owned : x # b => block'[x] = block[x]
    BY <1>0, <1>1, <1>2, BlockBegins, BlockEnds
  <1>4. told'.asked = told.asked
    <2>1. told.asked \subseteq RegTcb
      BY <1>0 DEF RegistryTypes
    <2> QED  BY <1>1, <1>3, <2>1
  <1>5. naming' \in {NoNaming} \cup (RegEvent \X (DOMAIN NameLen) \X BOOLEAN)
    <2>1. CASE UNCHANGED naming
      BY <1>0, <2>1 DEF RegistryTypes
    <2>2. CASE EventEnds(b) /\ b \in RegEvent
      <3>1. CASE naming # NoNaming /\ naming[1] = b
        <4>1. naming' = <<b, naming[2], TRUE>>
          BY <2>2, <3>1 DEF EventEnds, Overtaken
        <4>2. naming[2] \in DOMAIN NameLen
          BY <1>0, <3>1 DEF RegistryTypes
        <4> QED  BY <2>2, <4>1, <4>2
      <3>2. CASE ~ (naming # NoNaming /\ naming[1] = b)
        BY <1>0, <2>2, <3>2 DEF EventEnds, Overtaken, RegistryTypes
      <3> QED  BY <3>1, <3>2
    <2> QED  BY <2>1, <2>2 DEF ObjectBegins, ObjectEnds
  <1>6. RegistryTypes'
    BY <1>0, <1>2, <1>3, <1>5 DEF RegistryTypes
  <1>7. TcbsApart' /\ RequestsKnown'
    BY <1>1, <1>2, <1>3, <1>4, TasksGoOn
  <1> QED  BY <1>3, <1>6, <1>7 DEF RegistryInv

(* An event is named in two steps; a late name is noted as such. *)
LEMMA EventNameStep ==
    ASSUME RegistryInv, EventNamed \/ \E b \in RegEvent, name \in DOMAIN NameLen : OSEventNameSet(b, name)
    PROVE  RegistryInv'
PROOF
  <1>0. RegistryTypes /\ TcbsApart /\ RequestsKnown /\ NamesTold
    BY DEF RegistryInv
  <1>1. UNCHANGED <<freeTcb, taskAt, delReq, leaving>>
    BY DEF EventNamed, OSEventNameSet, RestOf
  <1>2. ASSUME UNCHANGED <<block, told>>, naming' \in {NoNaming} \cup (RegEvent \X (DOMAIN NameLen) \X BOOLEAN)
        PROVE  RegistryInv'
    <2>1. RegistryTypes'
      BY <1>0, <1>1, <1>2 DEF RegistryTypes
    <2>2. TcbsApart' /\ RequestsKnown'
      BY <1>0, <1>1, <1>2 DEF TcbsApart, RequestsKnown
    <2>3. NamesTold'
      BY <1>0, <1>2 DEF NamesTold, Fits, OS_StrLen
    <2> QED  BY <2>1, <2>2, <2>3 DEF RegistryInv
  <1>3. ASSUME NEW b \in RegEvent, NEW name \in DOMAIN NameLen, OSEventNameSet(b, name)
        PROVE  RegistryInv'
    <2>1. UNCHANGED <<block, told>> /\ naming' = <<b, name, FALSE>>
      BY <1>3 DEF OSEventNameSet
    <2>2. naming' \in RegEvent \X (DOMAIN NameLen) \X BOOLEAN
      BY <2>1
    <2> QED  BY <1>2, <2>1, <2>2
  <1>4. CASE EventNamed
    <2>1. naming' = NoNaming /\ naming \in RegEvent \X (DOMAIN NameLen) \X BOOLEAN
      BY <1>0, <1>4 DEF EventNamed, RegistryTypes
    <2>2. PICK b \in RegEvent, name \in DOMAIN NameLen : b = naming[1] /\ name = naming[2]
      BY <2>1
    <2>3. b \in Owned /\ \A i \in DOMAIN freeTcb : freeTcb[i] # b
      BY NamedIsNoTask DEF Named
    <2>4. CASE UNCHANGED <<block, told>>
      BY <1>2, <2>1, <2>4
    <2>5. CASE GivesName(b, name)
      <3>1. /\ block' \in [Owned -> [used : BOOLEAN, name : Known]]
            /\ told' \in [name : [Owned -> Known], asked : SUBSET RegTcb, late : SUBSET RegEvent]
            /\ NamesTold' /\ told'.asked = told.asked
            /\ \A x \in Owned : x # b => block'[x] = block[x]
        BY <1>0, <2>3, <2>5, BlockNamed
      <3>2. RegistryTypes'
        BY <1>0, <1>1, <2>1, <3>1 DEF RegistryTypes
      <3>3. TcbsApart' /\ RequestsKnown'
        BY <1>1, <2>3, <3>1, TasksGoOn
      <3> QED  BY <3>1, <3>2, <3>3 DEF RegistryInv
    <2>6. CASE OS_StrCopy(b, name) /\ Fits(name) /\ told' = [told EXCEPT !.late = told.late \cup {b}]
      <3>1. /\ told'.name = told.name /\ told'.asked = told.asked /\ told'.late = told.late \cup {b}
            /\ told' \in [name : [Owned -> Known], asked : SUBSET RegTcb, late : SUBSET RegEvent]
        <4>1. told.late \cup {b} \in SUBSET RegEvent
          BY <1>0 DEF RegistryTypes
        <4> QED  BY <1>0, <2>6, <4>1 DEF RegistryTypes
      <3>2. block' = [block EXCEPT ![b].name = name] /\ name \in Known
        BY <2>6 DEF OS_StrCopy, Known
      <3>3. /\ block' \in [Owned -> [used : BOOLEAN, name : Known]]
            /\ block'[b].name = name /\ \A x \in Owned : x # b => block'[x] = block[x]
        BY <1>0, <2>3, <3>2 DEF RegistryTypes
      <3>4. RegistryTypes'
        BY <1>0, <1>1, <2>1, <3>1, <3>3 DEF RegistryTypes
      <3>5. TcbsApart' /\ RequestsKnown'
        BY <1>1, <2>3, <3>1, <3>3, TasksGoOn
      <3>6. NamesTold'
        BY <1>0, <2>6, <3>1, <3>3 DEF NamesTold, Fits, OS_StrLen
      <3> QED  BY <3>4, <3>5, <3>6 DEF RegistryInv
    <2> QED  BY <1>4, <2>2, <2>4, <2>5, <2>6 DEF EventNamed
  <1> QED  BY <1>3, <1>4

LEMMA RegistryStarts == RegistryInit => RegistryInv
PROOF
  <1> SUFFICES ASSUME RegistryInit PROVE RegistryInv
    OBVIOUS
  <1>1. PICK n \in Nat : n = Cardinality(RegTcb) /\ ExistsBijection(1 .. n, RegTcb)
    BY RegistryAssumption, FS_CardinalityType
  <1>2. PICK f \in Bijection(1 .. n, RegTcb) : TRUE
    BY <1>1 DEF ExistsBijection
  <1>3. f \in [1 .. n -> RegTcb] /\ \A i, j \in 1 .. n : f[i] = f[j] => i = j
    BY <1>2 DEF Bijection, Injection, IsInjective
  <1>4. f \in [1 .. Cardinality(RegTcb) -> RegTcb] /\ IsInjective(f)
    BY <1>1, <1>3 DEF IsInjective
  <1>5. freeTcb \in [1 .. n -> RegTcb] /\ IsInjective(freeTcb)
    BY <1>1, <1>4 DEF RegistryInit, SetToSeq
  <1>6. DOMAIN freeTcb = 1 .. n /\ freeTcb \in Seq(RegTcb) /\ \A i \in DOMAIN freeTcb : freeTcb[i] \in Owned
    BY <1>5 DEF Owned
  <1>7. RegistryTypes
    BY <1>6 DEF RegistryTypes, RegistryInit, Owned, NewBlock, Known
  <1>8. TcbsApart
    <2>1. taskAt = [p \in RegPrio |-> Untasked] /\ \A b \in Owned : block[b] = NewBlock
      BY DEF RegistryInit, Owned
    <2>2. Untasked \notin RegTcb
      BY RegistryAssumption DEF Untasked
    <2> HIDE DEF Untasked
    <2>3. \A i \in DOMAIN freeTcb : freeTcb[i] \in RegTcb
      BY <1>5, <1>6
    <2> QED  BY <1>5, <1>6, <2>1, <2>2, <2>3 DEF TcbsApart, IsInjective
  <1>9. RequestsKnown /\ NamesTold
    BY DEF RequestsKnown, NamesTold, RegistryInit, NewBlock, Owned
  <1> QED  BY <1>7, <1>8, <1>9 DEF RegistryInv

LEMMA RegistrySteps ==
    ASSUME RegistryInv, RegistryNext \/ UNCHANGED registryVars
    PROVE  RegistryInv'
PROOF
  <1>1. CASE UNCHANGED registryVars
    BY <1>1 DEF registryVars, RegistryInv, RegistryTypes, TcbsApart, RequestsKnown, NamesTold, Fits, OS_StrLen
  <1>2. CASE RegistryNext
    BY <1>2, TaskBeginsStep, TaskEndsStep, RequestStep, NameStep, ObjectStep, EventNameStep
    DEF RegistryNext, Named
  <1> QED  BY <1>1, <1>2

LEMMA RegistryHoldsInv == RegistryInv => RegistryHolds
PROOF
  <1> SUFFICES ASSUME RegistryInv PROVE RegistryHolds
    OBVIOUS
  <1>0. RegistryTypes /\ TcbsApart /\ RequestsKnown /\ NamesTold
    BY DEF RegistryInv
  <1>1. DOMAIN block = Owned /\ told.late \subseteq RegEvent
    BY <1>0 DEF RegistryTypes
  <1>2. \A x \in Owned \ RegEvent : block[x].name = told.name[x]
    BY <1>0, <1>1 DEF NamesTold
  <1>3. \A p \in RegPrio : taskAt[p] # Untasked => taskAt[p] \in Owned \ RegEvent
    BY <1>0, RegistryAssumption DEF RegistryTypes, Owned
  <1>4. RegGroup \cup RegPart \subseteq Owned \ RegEvent /\ RegEvent \subseteq Owned
    BY RegistryAssumption DEF Owned, Named
  <1>5. RequestsReachTheirTask
    BY <1>0 DEF RequestsReachTheirTask, RequestsKnown
  <1>6. \A i \in 1 .. Len(freeTcb) : block[freeTcb[i]] = NewBlock
    BY <1>0 DEF RegistryTypes, TcbsApart
  <1>7. NamesAreTheirOwn
    BY <1>0, <1>1, <1>2, <1>3, <1>4, <1>6
    DEF NamesAreTheirOwn, NamesTold, OSTaskNameGet, OSEventNameGet, OSFlagNameGet, OSMemNameGet
  <1> QED  BY <1>5, <1>7 DEF RegistryHolds

-----------------------------------------------------------------------------
(***************************************************************************)
(* The sides of the kernel together                                        *)
(***************************************************************************)
LEMMA StatisticsSteps ==
    ASSUME UsageInv, StacksInv, UsageNext \/ StacksNext \/ UNCHANGED statisticsVars
    PROVE  UsageInv' /\ StacksInv'
PROOF
  <1>1. CASE UsageNext
    <2>1. UNCHANGED stackVars
      BY <1>1 DEF UsageNext, UsageTick
    <2>2. StacksInv'
      BY <2>1 DEF stackVars, StacksInv
    <2> QED  BY <1>1, <2>2, UsageSteps
  <1>2. CASE StacksNext
    <2>1. UNCHANGED usageVars
      BY <1>2 DEF StacksNext, CreateTask, DeleteTask, PushFrame, PopFrame, OSTaskStkChk, CountFree, OS_TaskStatStkChk
    <2>2. UsageInv'
      BY <2>1 DEF usageVars, UsageInv, UsageTypes, MeasuresAlone, SamplesTell, Full
    <2> QED  BY <1>2, <2>2, StacksSteps
  <1>3. CASE UNCHANGED statisticsVars
    <2>1. UNCHANGED usageVars /\ UNCHANGED stackVars
      BY <1>3 DEF statisticsVars
    <2>2. UsageInv'
      BY <2>1 DEF usageVars, UsageInv, UsageTypes, MeasuresAlone, SamplesTell, Full
    <2>3. StacksInv'
      BY <2>1 DEF stackVars, StacksInv
    <2> QED  BY <2>2, <2>3
  <1> QED  BY <1>1, <1>2, <1>3

-----------------------------------------------------------------------------
(* The timers: lists in the table                                          *)

(* The table's links lead from the first timer through L.                   *)
ListAt(tbl, first, L) ==
    /\ L \in Seq(Timer)
    /\ first = IF Len(L) = 0 THEN Nil ELSE L[1]
    /\ \A i \in 1 .. Len(L) : tbl[L[i]].next = IF i = Len(L) THEN Nil ELSE L[i + 1]
    /\ \A i, j \in 1 .. Len(L) : L[i] = L[j] => i = j

BackAt(tbl, L) ==
    \A i \in 1 .. Len(L) : tbl[L[i]].prev = IF i = 1 THEN Nil ELSE L[i - 1]

Lists(L, t) == \E i \in 1 .. Len(L) : L[i] = t

LEMMA TimersAreNumbers ==
    /\ Timer \subseteq Nat /\ Nil \notin Timer
    /\ IsFiniteSet(Timer) /\ Cardinality(Timer) \in Nat /\ Cardinality(Timer) # 0
PROOF
  <1>1. IsFiniteSet(Timer) /\ Cardinality(Timer) \in Nat
    BY TimersAssumption, FS_CardinalityType
  <1>2. PICK n : n = Cardinality(Timer)
    OBVIOUS
  <1>3. Timer = 0 .. n - 1 /\ n \in Nat /\ Timer # {}
    BY <1>1, <1>2, TimersAssumption
  <1>4. Timer \subseteq Nat
    BY <1>3
  <1>5. n # 0
    BY <1>3
  <1>6. -1 \notin Nat
    OBVIOUS
  <1> QED  BY <1>1, <1>2, <1>4, <1>5, <1>6 DEF Nil

LEMMA LeastOf ==
    ASSUME NEW S \in SUBSET Nat, S # {}
    PROVE  \E x \in S : \A y \in S : x <= y
PROOF
  <1> DEFINE less == OpToRel(<, Nat)
  <1>1. IsWellFoundedOn(less, Nat)
    BY NatLessThanWellFounded
  <1>2. \A x, y \in Nat : y < x => <<y, x>> \in less
    BY DEF OpToRel
  <1> HIDE DEF less
  <1>3. PICK x \in S : \A y \in S : ~ (<<y, x>> \in less)
    BY <1>1, WFMin
  <1>4. ASSUME NEW y \in S
        PROVE  x <= y
    <2>1. x \in Nat /\ y \in Nat /\ ~ (y < x)
      BY <1>2, <1>3
    <2> QED  BY <2>1
  <1> QED  BY <1>4

(* What fails for some number fails for a first one.                       *)
LEMMA FirstFailure ==
    ASSUME NEW S \in SUBSET Nat, S # {}, 0 \notin S
    PROVE  \E n \in S : n - 1 \in Nat /\ n - 1 \notin S
PROOF
  <1>1. PICK n \in S : \A y \in S : n <= y
    BY LeastOf
  <1>2. n \in Nat /\ n # 0
    BY Zenon
  <1>3. n - 1 \in Nat /\ ~ (n <= n - 1)
    BY <1>2
  <1> QED  BY <1>1, <1>3

LEMMA MaxOfMany ==
    ASSUME NEW n \in Nat, NEW S \in SUBSET (1 .. n), S # {}
    PROVE  Max(S) \in S /\ \A y \in S : y <= Max(S)
PROOF
  <1> DEFINE T == {n - x : x \in S}
  <1>1. T \in SUBSET Nat /\ T # {}
    <2>1. \A x \in S : n - x \in Nat
      OBVIOUS
    <2> QED  BY <2>1
  <1>2. PICK m \in T : \A y \in T : m <= y
    <2> HIDE DEF T
    <2> QED  BY <1>1, LeastOf
  <1>3. PICK x \in S : m = n - x
    OBVIOUS
  <1>4. ASSUME NEW y \in S
        PROVE  x >= y
    <2>1. n - x <= n - y
      BY <1>2, <1>3
    <2>2. x \in Int /\ y \in Int
      OBVIOUS
    <2> QED  BY <2>1, <2>2
  <1>5. Max(S) \in S /\ \A y \in S : Max(S) >= y
    <2> HIDE DEF T
    <2> QED  BY <1>4, Zenon DEF Max
  <1>6. ASSUME NEW y \in S
        PROVE  y <= Max(S)
    <2>1. PICK m2 : m2 = Max(S)
      OBVIOUS
    <2>2. m2 \in 1 .. n /\ y \in 1 .. n /\ m2 >= y
      BY <1>5, <2>1
    <2> HIDE DEF T
    <2> QED  BY <2>1, <2>2
  <1> QED  BY <1>5, <1>6

LEMMA UpTo ==
    ASSUME NEW n \in Nat, NEW k \in 1 .. n
    PROVE  /\ 1 .. k \in SUBSET (1 .. n) /\ 1 .. k # {}
           /\ Max(1 .. k) = k /\ (1 .. k) \ {k} = 1 .. k - 1
PROOF
  <1>1. 1 .. k \in SUBSET (1 .. n) /\ k \in 1 .. k
    OBVIOUS
  <1>2. Max(1 .. k) \in 1 .. k /\ k <= Max(1 .. k)
    BY <1>1, MaxOfMany
  <1> QED  BY <1>1, <1>2

(* The walk along the links. *)
Grown(tbl, t, found) ==
    LET last == IF found = <<>> THEN t ELSE tbl[Last(found)].next
    IN  IF last = Nil THEN found ELSE Append(found, last)

Walks(g, tbl, t, S) ==
    g = [s \in SUBSET S |-> IF s = {} THEN <<>>
                            ELSE LET x == Max(s) IN
                                 LET last == IF g[s \ {x}] = <<>> THEN t ELSE tbl[Last(g[s \ {x}])].next
                                 IN  IF last = Nil THEN g[s \ {x}] ELSE Append(g[s \ {x}], last)]

LEMMA ChainWalks ==
    ASSUME NEW tbl, NEW t
    PROVE  LET D == DOMAIN [i \in 1 .. Cardinality(Timer) + 1 |-> i]
           IN  Chain(tbl, t) = (CHOOSE g : Walks(g, tbl, t, D))[D]
PROOF BY Zenon DEF Chain, FoldLeft, MapThenFoldSet, Walks

FirstOf(L, k) == [j \in 1 .. (IF k <= Len(L) THEN k ELSE Len(L)) |-> L[j]]

LEMMA FirstOfGrows ==
    ASSUME NEW tbl, NEW first, NEW L, ListAt(tbl, first, L), NEW k \in Nat
    PROVE  /\ Grown(tbl, first, FirstOf(L, k)) = FirstOf(L, k + 1)
           /\ FirstOf(L, 0) = <<>>
           /\ k >= Len(L) => FirstOf(L, k) = L
PROOF
  <1> DEFINE n == IF k <= Len(L) THEN k ELSE Len(L)
             F == FirstOf(L, k)
  <1>1. L \in Seq(Timer) /\ Len(L) \in Nat /\ L = [j \in 1 .. Len(L) |-> L[j]]
    BY DEF ListAt
  <1>2. n \in 0 .. Len(L)
    BY <1>1
  <1>3. F = [j \in 1 .. n |-> L[j]]
    BY DEF FirstOf
  <1> HIDE DEF n, F
  <1>4. F \in Seq(Timer) /\ Len(F) = n /\ (n # 0 => F[n] = L[n])
    BY <1>1, <1>2, <1>3
  <1>5. F = <<>> <=> n = 0
    BY <1>4
  <1>6. FirstOf(L, 0) = <<>>
    BY <1>1 DEF FirstOf
  <1>7. k >= Len(L) => F = L
    BY <1>1, <1>3 DEF n
  <1>8. \A t \in Timer : t # Nil
    BY TimersAreNumbers
  <1>9. CASE n = Len(L)
    <2>1. FirstOf(L, k + 1) = F
      BY <1>1, <1>3, <1>9 DEF FirstOf, n
    <2>2. (IF F = <<>> THEN first ELSE tbl[Last(F)].next) = Nil
      BY <1>1, <1>4, <1>5, <1>9 DEF ListAt, Last
    <2> QED  BY <1>6, <1>7, <2>1, <2>2 DEF Grown, F
  <1>10. CASE n < Len(L)
    <2>1. k = n
      BY <1>1, <1>10 DEF n
    <2>2. (IF F = <<>> THEN first ELSE tbl[Last(F)].next) = L[n + 1]
      BY <1>1, <1>2, <1>4, <1>5, <1>10 DEF ListAt, Last
    <2>3. L[n + 1] # Nil
      BY <1>1, <1>2, <1>8, <1>10
    <2>4. Append(F, L[n + 1]) = [j \in 1 .. n + 1 |-> L[j]]
      BY <1>1, <1>2, <1>3, <1>4, <1>10
    <2>5. FirstOf(L, k + 1) = [j \in 1 .. n + 1 |-> L[j]]
      BY <1>1, <1>10, <2>1 DEF FirstOf
    <2>6. Grown(tbl, first, F) = Append(F, L[n + 1])
      BY <2>2, <2>3 DEF Grown
    <2> QED  BY <1>6, <1>7, <2>4, <2>5, <2>6 DEF F
  <1> QED  BY <1>1, <1>2, <1>9, <1>10

(* No list is longer than the table. *)
LEMMA ListFits ==
    ASSUME NEW tbl, NEW first, NEW L, ListAt(tbl, first, L)
    PROVE  Len(L) \in Nat /\ Cardinality(Timer) \in Nat /\ Len(L) <= Cardinality(Timer)
PROOF
  <1>1. L \in [1 .. Len(L) -> Timer] /\ Len(L) \in Nat
    BY DEF ListAt
  <1>2. L \in Injection(1 .. Len(L), Timer)
    <2>1. \A i, j \in 1 .. Len(L) : L[i] = L[j] => i = j
      BY DEF ListAt
    <2> QED  BY <1>1, <2>1 DEF Injection, IsInjective
  <1>3. Cardinality(1 .. Len(L)) = Len(L)
    <2>1. 1 \in Int /\ Len(L) \in Int
      BY <1>1
    <2>2. Cardinality(1 .. Len(L)) = IF 1 > Len(L) THEN 0 ELSE Len(L) - 1 + 1
      BY <2>1, FS_Interval
    <2> QED  BY <1>1, <2>2
  <1>4. IsFiniteSet(Timer) /\ Cardinality(Timer) \in Nat
    BY TimersAreNumbers
  <1>5. Cardinality(1 .. Len(L)) <= Cardinality(Timer)
    BY <1>2, <1>4, FS_Injection
  <1> QED  BY <1>1, <1>3, <1>4, <1>5

(* A list is found by walking it. *)
LEMMA ChainIs ==
    ASSUME NEW tbl, NEW first, NEW L, ListAt(tbl, first, L)
    PROVE  Chain(tbl, first) = L
PROOF
  <1> DEFINE N == Cardinality(Timer) + 1
             D == 1 .. N
             g == [s \in SUBSET D |-> FirstOf(L, Cardinality(s))]
  <1>1. N \in Nat /\ Len(L) \in Nat /\ Len(L) <= N /\ N # 0
    BY ListFits
  <1>2. Chain(tbl, first) = (CHOOSE h : Walks(h, tbl, first, D))[D]
    <2>1. DOMAIN [i \in 1 .. Cardinality(Timer) + 1 |-> i] = D
      OBVIOUS
    <2> HIDE DEF D
    <2> QED  BY <2>1, ChainWalks
  <1> HIDE DEF N
  <1>3. Walks(g, tbl, first, D)
    <2>1. ASSUME NEW s \in SUBSET D, s # {}
          PROVE  g[s] = Grown(tbl, first, g[s \ {Max(s)}])
      <3>1. Max(s) \in s
        BY <1>1, <2>1, MaxOfMany
      <3>2. IsFiniteSet(D)
        BY <1>1, FS_Interval
      <3>3. IsFiniteSet(s) /\ Cardinality(s) \in Nat /\ Cardinality(s) # 0
        BY <2>1, <3>2, FS_Subset, FS_CardinalityType, FS_EmptySet
      <3>4. Cardinality(s \ {Max(s)}) = Cardinality(s) - 1
        BY <3>1, <3>3, FS_RemoveElement
      <3>5. PICK k \in Nat : Cardinality(s) = k + 1 /\ Cardinality(s \ {Max(s)}) = k
        BY <3>3, <3>4
      <3>6. g[s] = FirstOf(L, k + 1) /\ g[s \ {Max(s)}] = FirstOf(L, k)
        <4>1. s \ {Max(s)} \in SUBSET D
          OBVIOUS
        <4> QED  BY <3>5, <4>1
      <3> HIDE DEF g
      <3> QED  BY <3>6, FirstOfGrows
    <2>2. g[{}] = <<>>
      <3>1. g[{}] = FirstOf(L, 0)
        BY FS_EmptySet
      <3> QED  BY <3>1, FirstOfGrows
    <2>3. g = [s \in SUBSET D |-> g[s]]
      OBVIOUS
    <2> HIDE DEF g, D
    <2>4. \A s \in SUBSET D : g[s] = IF s = {} THEN <<>> ELSE Grown(tbl, first, g[s \ {Max(s)}])
      BY <2>1, <2>2
    <2> QED  BY <2>3, <2>4 DEF Walks, Grown
  <1> DEFINE h == CHOOSE h : Walks(h, tbl, first, D)
             Bad == {k \in 0 .. N : h[1 .. k] # FirstOf(L, k)}
  <1> HIDE DEF g
  <1>4. Walks(h, tbl, first, D)
    BY <1>3, Zenon
  <1>5. \A s \in SUBSET D : h[s] = IF s = {} THEN <<>> ELSE Grown(tbl, first, h[s \ {Max(s)}])
    BY <1>4, Zenon DEF Walks, Grown
  <1> HIDE DEF h
  <1>6. Bad = {}
    <2> SUFFICES ASSUME Bad # {} PROVE FALSE
      OBVIOUS
    <2>1. h[1 .. 0] = FirstOf(L, 0)
      <3>1. 1 .. 0 = {} /\ {} \in SUBSET D
        OBVIOUS
      <3> QED  BY <1>5, <3>1, FirstOfGrows
    <2>2. Bad \in SUBSET Nat /\ 0 \notin Bad
      BY <2>1
    <2>3. PICK n \in Bad : n - 1 \in Nat /\ n - 1 \notin Bad
      <3> HIDE DEF Bad
      <3> QED  BY <2>2, FirstFailure
    <2>4. n \in 1 .. N /\ h[1 .. n - 1] = FirstOf(L, n - 1) /\ h[1 .. n] # FirstOf(L, n)
      BY <1>1, <2>3
    <2>5. 1 .. n \in SUBSET D /\ 1 .. n # {} /\ Max(1 .. n) = n /\ (1 .. n) \ {n} = 1 .. n - 1
      BY <1>1, <2>4, UpTo
    <2>6. h[1 .. n] = Grown(tbl, first, FirstOf(L, n - 1))
      <3> HIDE DEF D, Bad
      <3> QED  BY <1>5, <2>4, <2>5
    <2>7. Grown(tbl, first, FirstOf(L, n - 1)) = FirstOf(L, (n - 1) + 1)
      BY <2>3, FirstOfGrows
    <2>8. (n - 1) + 1 = n
      BY <2>4
    <2> QED  BY <2>4, <2>6, <2>7, <2>8
  <1>7. h[1 .. N] = FirstOf(L, N) /\ FirstOf(L, N) = L
    <2>1. N \in 0 .. N /\ N \in Nat /\ N >= Len(L)
      BY <1>1
    <2>2. h[1 .. N] = FirstOf(L, N)
      BY <1>6, <2>1
    <2> QED  BY <2>1, <2>2, FirstOfGrows
  <1> QED  BY <1>2, <1>7 DEF h

-----------------------------------------------------------------------------
(* What a service does to a list                                            *)

Pushed(t, L) == [j \in 1 .. Len(L) + 1 |-> IF j = 1 THEN t ELSE L[j - 1]]
Without(L, k) == [j \in 1 .. Len(L) - 1 |-> IF j < k THEN L[j] ELSE L[j + 1]]

LEMMA ListKept ==
    ASSUME NEW tbl, NEW new, NEW first, NEW L, ListAt(tbl, first, L),
           \A i \in 1 .. Len(L) : new[L[i]].next = tbl[L[i]].next
    PROVE  ListAt(new, first, L)
PROOF BY DEF ListAt

LEMMA BackKept ==
    ASSUME NEW tbl, NEW new, NEW L, BackAt(tbl, L),
           \A i \in 1 .. Len(L) : new[L[i]].prev = tbl[L[i]].prev
    PROVE  BackAt(new, L)
PROOF BY DEF BackAt

LEMMA ListPushed ==
    ASSUME NEW tbl, NEW new, NEW first, NEW L, ListAt(tbl, first, L),
           NEW t \in Timer, ~ Lists(L, t), new[t].next = first,
           \A i \in 1 .. Len(L) : new[L[i]].next = tbl[L[i]].next
    PROVE  /\ ListAt(new, t, Pushed(t, L))
           /\ Len(Pushed(t, L)) = Len(L) + 1
           /\ \A u : Lists(Pushed(t, L), u) <=> u = t \/ Lists(L, u)
PROOF
  <1> DEFINE M == Pushed(t, L)
  <1>1. L \in Seq(Timer) /\ Len(L) \in Nat /\ \A i \in 1 .. Len(L) : L[i] \in Timer
    BY DEF ListAt
  <1>2. M \in Seq(Timer) /\ Len(M) = Len(L) + 1
    BY <1>1 DEF Pushed
  <1>3. M[1] = t /\ \A j \in 1 .. Len(L) : M[j + 1] = L[j]
    BY <1>1 DEF Pushed
  <1>4. \A j \in 1 .. Len(M) : j = 1 \/ \E i \in 1 .. Len(L) : j = i + 1
    <2>1. ASSUME NEW j \in 1 .. Len(M), j # 1
          PROVE  j - 1 \in 1 .. Len(L) /\ j = (j - 1) + 1
      BY <1>1, <1>2, <2>1
    <2> QED  BY <2>1
  <1>5. 1 \in 1 .. Len(M) /\ \A i \in 1 .. Len(L) : i + 1 \in 1 .. Len(M)
    BY <1>1, <1>2
  <1> HIDE DEF M
  <1>6. \A u : Lists(M, u) <=> u = t \/ Lists(L, u)
    <2>1. ASSUME NEW u, Lists(M, u)
          PROVE  u = t \/ Lists(L, u)
      <3>1. PICK j \in 1 .. Len(M) : M[j] = u
        BY <2>1 DEF Lists
      <3>2. CASE j = 1
        BY <1>3, <3>1, <3>2
      <3>3. CASE j # 1
        <4>1. PICK i \in 1 .. Len(L) : j = i + 1
          BY <1>4, <3>3
        <4> QED  BY <1>3, <3>1, <4>1 DEF Lists
      <3> QED  BY <3>2, <3>3
    <2>2. Lists(M, t)
      BY <1>3, <1>5 DEF Lists
    <2>3. ASSUME NEW u, Lists(L, u)
          PROVE  Lists(M, u)
      <3>1. PICK i \in 1 .. Len(L) : L[i] = u
        BY <2>3 DEF Lists
      <3> QED  BY <1>3, <1>5, <3>1 DEF Lists
    <2> QED  BY <2>1, <2>2, <2>3
  <1>7. ASSUME NEW j \in 1 .. Len(M)
        PROVE  new[M[j]].next = IF j = Len(M) THEN Nil ELSE M[j + 1]
    <2>1. CASE j = 1
      <3>1. CASE Len(L) = 0
        BY <1>2, <1>3, <2>1, <3>1 DEF ListAt
      <3>2. CASE Len(L) # 0
        <4>1. first = L[1] /\ M[1 + 1] = L[1] /\ 1 # Len(M)
          BY <1>1, <1>2, <1>3, <3>2 DEF ListAt
        <4> QED  BY <1>3, <2>1, <4>1
      <3> QED  BY <3>1, <3>2
    <2>2. CASE j # 1
      <3>1. PICK i \in 1 .. Len(L) : j = i + 1
        BY <1>4, <2>2
      <3>2. new[M[j]].next = IF i = Len(L) THEN Nil ELSE L[i + 1]
        BY <1>3, <3>1 DEF ListAt
      <3>3. i = Len(L) <=> j = Len(M)
        BY <1>1, <1>2, <3>1
      <3>4. i # Len(L) => M[j + 1] = L[i + 1]
        <4>1. i # Len(L) => i + 1 \in 1 .. Len(L)
          BY <1>1
        <4> QED  BY <1>3, <3>1, <4>1
      <3> QED  BY <3>2, <3>3, <3>4
    <2> QED  BY <2>1, <2>2
  <1>8. ASSUME NEW i \in 1 .. Len(M), NEW j \in 1 .. Len(M), M[i] = M[j]
        PROVE  i = j
    <2>1. \A k \in 1 .. Len(L) : M[k + 1] # t
      BY <1>3 DEF Lists
    <2>2. CASE i = 1 \/ j = 1
      BY <1>3, <1>4, <1>8, <2>1, <2>2
    <2>3. CASE i # 1 /\ j # 1
      BY <1>3, <1>4, <1>8, <2>3 DEF ListAt
    <2> QED  BY <2>2, <2>3
  <1>9. ListAt(new, t, M)
    BY <1>1, <1>2, <1>3, <1>7, <1>8 DEF ListAt
  <1> QED  BY <1>2, <1>6, <1>9 DEF M

LEMMA BackPushed ==
    ASSUME NEW tbl, NEW new, NEW first, NEW L, ListAt(tbl, first, L), BackAt(tbl, L),
           NEW t \in Timer, new[t].prev = Nil,
           \A i \in 1 .. Len(L) : new[L[i]].prev = IF L[i] = first THEN t ELSE tbl[L[i]].prev
    PROVE  BackAt(new, Pushed(t, L))
PROOF
  <1> DEFINE M == Pushed(t, L)
  <1>1. L \in Seq(Timer) /\ Len(L) \in Nat
    BY DEF ListAt
  <1>2. Len(M) = Len(L) + 1 /\ M[1] = t /\ \A j \in 1 .. Len(L) : M[j + 1] = L[j]
    BY <1>1 DEF Pushed
  <1> HIDE DEF M
  <1>3. ASSUME NEW j \in 1 .. Len(M)
        PROVE  new[M[j]].prev = IF j = 1 THEN Nil ELSE M[j - 1]
    <2>1. CASE j = 1
      BY <1>2, <2>1
    <2>2. CASE j # 1
      <3>1. PICK i : i = j - 1
        OBVIOUS
      <3>2. i \in 1 .. Len(L) /\ j = i + 1 /\ M[j] = L[i]
        BY <1>1, <1>2, <2>2, <3>1
      <3>3. CASE i = 1
        <4>1. L[i] = first
          BY <1>1, <3>2, <3>3 DEF ListAt
        <4> QED  BY <1>2, <2>2, <3>1, <3>2, <3>3, <4>1
      <3>4. CASE i # 1
        <4>1. i - 1 \in 1 .. Len(L) /\ M[(i - 1) + 1] = L[i - 1] /\ (i - 1) + 1 = i
          BY <1>1, <1>2, <3>2, <3>4
        <4>2. L[i] # first
          <5>1. first = L[1] /\ 1 \in 1 .. Len(L)
            BY <1>1, <3>2 DEF ListAt
          <5> QED  BY <3>2, <3>4, <5>1 DEF ListAt
        <4>3. tbl[L[i]].prev = L[i - 1]
          BY <3>2, <3>4 DEF BackAt
        <4> QED  BY <2>2, <3>1, <3>2, <4>1, <4>2, <4>3
      <3> QED  BY <3>3, <3>4
    <2> QED  BY <2>1, <2>2
  <1> QED  BY <1>3 DEF BackAt, M

(* The list at start is L without its element k. *)
Shortened(new, start, L, k) ==
    /\ ListAt(new, start, Without(L, k))
    /\ Len(Without(L, k)) = Len(L) - 1
    /\ \A u : Lists(Without(L, k), u) <=> u # L[k] /\ Lists(L, u)

LEMMA ListCut ==
    ASSUME NEW tbl, NEW new, NEW first, NEW L, ListAt(tbl, first, L), NEW k \in 1 .. Len(L),
           NEW start, start = (IF k = 1 THEN tbl[L[k]].next ELSE first),
           \A i \in 1 .. Len(L) : i # k =>
               new[L[i]].next = IF i = k - 1 THEN tbl[L[k]].next ELSE tbl[L[i]].next
    PROVE  Shortened(new, start, L, k)
PROOF
  <1> USE DEF Shortened
  <1> DEFINE M == Without(L, k)
             At(j) == IF j < k THEN j ELSE j + 1
             Back(i) == IF i < k THEN i ELSE i - 1
  <1>1. L \in Seq(Timer) /\ Len(L) \in Nat /\ Len(L) # 0 /\ \A i \in 1 .. Len(L) : L[i] \in Timer
    BY DEF ListAt
  <1>2. Len(M) = Len(L) - 1 /\ M \in Seq(Timer) /\ \A j \in 1 .. Len(M) : M[j] = L[At(j)]
    BY <1>1 DEF Without
  <1>3. \A j \in 1 .. Len(M) : At(j) \in 1 .. Len(L) /\ At(j) # k /\ Back(At(j)) = j
    BY <1>1, <1>2
  <1>4. \A i \in 1 .. Len(L) : i # k => Back(i) \in 1 .. Len(M) /\ At(Back(i)) = i
    BY <1>1, <1>2
  <1> HIDE DEF M
  <1>5. \A i, j \in 1 .. Len(L) : L[i] = L[j] => i = j
    BY DEF ListAt
  <1>6. \A u : Lists(M, u) <=> u # L[k] /\ Lists(L, u)
    <2>1. ASSUME NEW u, Lists(M, u)
          PROVE  u # L[k] /\ Lists(L, u)
      <3>1. PICK j \in 1 .. Len(M) : M[j] = u
        BY <2>1 DEF Lists
      <3>2. PICK i : i = At(j)
        OBVIOUS
      <3>3. i \in 1 .. Len(L) /\ i # k /\ L[i] = u
        BY <1>2, <1>3, <3>1, <3>2
      <3> QED  BY <1>5, <3>3 DEF Lists
    <2>2. ASSUME NEW u, u # L[k], Lists(L, u)
          PROVE  Lists(M, u)
      <3>1. PICK i \in 1 .. Len(L) : L[i] = u
        BY <2>2 DEF Lists
      <3>2. PICK j : j = Back(i)
        OBVIOUS
      <3>3. j \in 1 .. Len(M) /\ At(j) = i
        BY <1>4, <2>2, <3>1, <3>2
      <3> QED  BY <1>2, <3>1, <3>3 DEF Lists
    <2> QED  BY <2>1, <2>2
  <1>7. ASSUME NEW i \in 1 .. Len(M), NEW j \in 1 .. Len(M), M[i] = M[j]
        PROVE  i = j
    <2>1. At(i) = At(j)
      BY <1>2, <1>3, <1>5, <1>7
    <2> QED  BY <1>3, <2>1
  <1>8. start = IF Len(M) = 0 THEN Nil ELSE M[1]
    <2>1. first = L[1]
      BY <1>1 DEF ListAt
    <2>2. CASE k = 1
      <3>1. start = IF Len(L) = 1 THEN Nil ELSE L[2]
        <4>1. 1 + 1 = 2 /\ start = tbl[L[1]].next /\ 1 \in 1 .. Len(L)
          BY <1>1, <2>2
        <4>2. tbl[L[1]].next = IF 1 = Len(L) THEN Nil ELSE L[1 + 1]
          BY <4>1 DEF ListAt
        <4> QED  BY <4>1, <4>2
      <3>2. Len(M) # 0 => M[1] = L[2]
        BY <1>1, <1>2, <2>2
      <3> QED  BY <1>1, <1>2, <3>1, <3>2
    <2>3. CASE k # 1
      <3>1. 1 \in 1 .. Len(M) /\ At(1) = 1
        BY <1>1, <1>2, <2>3
      <3>2. start = L[1] /\ M[1] = L[1]
        BY <1>2, <2>1, <2>3, <3>1
      <3> QED  BY <1>1, <1>2, <3>1, <3>2
    <2> QED  BY <2>2, <2>3
  <1>9. ASSUME NEW j \in 1 .. Len(M)
        PROVE  new[M[j]].next = IF j = Len(M) THEN Nil ELSE M[j + 1]
    <2>1. M[j] = L[At(j)] /\ At(j) \in 1 .. Len(L) /\ At(j) # k
      BY <1>2, <1>3
    <2>2. j # Len(M) => M[j + 1] = L[At(j + 1)]
      <3>1. j # Len(M) => j + 1 \in 1 .. Len(M)
        BY <1>1, <1>2
      <3> QED  BY <1>2, <3>1
    <2>3. CASE j = k - 1
      <3>1. At(j) = j /\ j = k - 1
        BY <1>1, <1>2, <2>3
      <3>2. new[M[j]].next = IF k = Len(L) THEN Nil ELSE L[k + 1]
        BY <1>1, <2>1, <3>1 DEF ListAt
      <3>3. (j = Len(M) <=> k = Len(L)) /\ At(j + 1) = k + 1
        BY <1>1, <1>2, <2>3
      <3> QED  BY <2>2, <3>2, <3>3
    <2>4. CASE j # k - 1
      <3>1. PICK i : i = At(j)
        OBVIOUS
      <3>2. i \in 1 .. Len(L) /\ i # k /\ i # k - 1 /\ M[j] = L[i]
        BY <1>1, <1>2, <2>1, <2>4, <3>1
      <3>3. new[M[j]].next = IF i = Len(L) THEN Nil ELSE L[i + 1]
        BY <3>2 DEF ListAt
      <3>4. (j = Len(M) <=> i = Len(L)) /\ At(j + 1) = i + 1
        BY <1>1, <1>2, <2>4, <3>1, <3>2
      <3> QED  BY <2>2, <3>3, <3>4
    <2> QED  BY <2>3, <2>4
  <1>10. ListAt(new, start, M)
    BY <1>2, <1>7, <1>8, <1>9 DEF ListAt
  <1> QED  BY <1>2, <1>6, <1>10 DEF M

LEMMA BackCut ==
    ASSUME NEW tbl, NEW new, NEW first, NEW L, ListAt(tbl, first, L), BackAt(tbl, L), NEW k \in 1 .. Len(L),
           \A i \in 1 .. Len(L) : i # k =>
               new[L[i]].prev = IF i = k + 1 THEN tbl[L[k]].prev ELSE tbl[L[i]].prev
    PROVE  BackAt(new, Without(L, k))
PROOF
  <1> DEFINE M == Without(L, k)
             At(j) == IF j < k THEN j ELSE j + 1
  <1>1. L \in Seq(Timer) /\ Len(L) \in Nat /\ Len(L) # 0
    BY DEF ListAt
  <1>2. Len(M) = Len(L) - 1 /\ \A j \in 1 .. Len(M) : M[j] = L[At(j)]
    BY <1>1 DEF Without
  <1> HIDE DEF M
  <1>3. ASSUME NEW j \in 1 .. Len(M)
        PROVE  new[M[j]].prev = IF j = 1 THEN Nil ELSE M[j - 1]
    <2>1. PICK i : i = At(j)
      OBVIOUS
    <2>2. i \in 1 .. Len(L) /\ i # k /\ M[j] = L[i]
      BY <1>1, <1>2, <2>1
    <2>3. j # 1 => M[j - 1] = L[At(j - 1)]
      <3>1. j # 1 => j - 1 \in 1 .. Len(M)
        BY <1>1, <1>2
      <3> QED  BY <1>2, <3>1
    <2>4. CASE i = k + 1
      <3>1. j = k
        BY <1>1, <1>2, <2>1, <2>4
      <3>2. new[M[j]].prev = IF k = 1 THEN Nil ELSE L[k - 1]
        BY <2>2, <2>4 DEF BackAt
      <3>3. At(k - 1) = k - 1
        BY <3>1
      <3> QED  BY <2>3, <3>1, <3>2, <3>3
    <2>5. CASE i # k + 1
      <3>1. new[M[j]].prev = IF i = 1 THEN Nil ELSE L[i - 1]
        BY <2>2, <2>5 DEF BackAt
      <3>2. (i = 1 <=> j = 1) /\ At(j - 1) = i - 1
        BY <1>1, <1>2, <2>1, <2>2, <2>5
      <3> QED  BY <2>3, <3>1, <3>2
    <2> QED  BY <2>4, <2>5
  <1> QED  BY <1>3 DEF BackAt, M

-----------------------------------------------------------------------------
(* The timers: the wheel                                                   *)

Spokes == 0 .. WheelSize - 1
Options == {"NONE", "ONE_SHOT", "PERIODIC"}
TmrStates == {"UNUSED", "STOPPED", "RUNNING", "COMPLETED"}
TmrBlock == [state : TmrStates, opt : Options, dly : Nat, period : Nat, match : Nat,
             next : Timer \cup {Nil}, prev : Timer \cup {Nil}]
TmrSpoke == [first : Timer \cup {Nil}, entries : Int]

(* A block apart from its links. *)
Alike(b, c) == /\ b.state = c.state /\ b.opt = c.opt /\ b.dly = c.dly
               /\ b.period = c.period /\ b.match = c.match

(* The spoke s of the wheel w lists the timers of L. *)
SpokeAt(w, s, L) ==
    /\ ListAt(w.tmr, w.wheel[s].first, L)
    /\ BackAt(w.tmr, L)
    /\ w.wheel[s].entries = Len(L)
    /\ \A t \in Timer : Lists(L, t) <=> w.tmr[t].state = "RUNNING" /\ Spoke(w.tmr[t].match) = s

WheelOf(w, lists) ==
    /\ w.tmr \in [Timer -> TmrBlock] /\ w.wheel \in [Spokes -> TmrSpoke]
    /\ \A s \in Spokes : SpokeAt(w, s, lists[s])

Sound(w) == \E lists : WheelOf(w, lists)

(* What taking a timer out of its list does to the table. *)
TakenOut(w, t, b, s, first, r) ==
    /\ r.tmr \in [Timer -> TmrBlock]
    /\ r.tmr[t] = [b EXCEPT !.state = "STOPPED", !.next = Nil, !.prev = Nil]
    /\ \A u \in Timer \ {t} :
          /\ Alike(r.tmr[u], w.tmr[u])
          /\ r.tmr[u].next = (IF ~ first /\ u = b.prev THEN b.next ELSE w.tmr[u].next)
          /\ r.tmr[u].prev = (IF u = b.next THEN (IF first THEN Nil ELSE b.prev) ELSE w.tmr[u].prev)
          /\ (first \/ u # b.prev) /\ u # b.next => r.tmr[u] = w.tmr[u]
    /\ r.wheel = [w.wheel EXCEPT ![s] = [first |-> IF first THEN b.next ELSE w.wheel[s].first,
                                         entries |-> w.wheel[s].entries - 1]]

LEMMA UnlinkDoes ==
    ASSUME NEW w, w.tmr \in [Timer -> TmrBlock], NEW t \in Timer, NEW b, b = w.tmr[t],
           NEW s, s = Spoke(b.match), NEW first \in BOOLEAN, first <=> w.wheel[s].first = t,
           first \/ b.prev \in Timer, b.prev # t, b.next # t,
           NEW r, r = OSTmr_Unlink(w, t)
    PROVE  TakenOut(w, t, b, s, first, r)
PROOF
  <1> DEFINE passed == IF first THEN w.tmr ELSE [w.tmr EXCEPT ![b.prev] = [w.tmr[b.prev] EXCEPT !.next = b.next]]
             back == IF b.next = Nil THEN passed
                     ELSE [passed EXCEPT ![b.next] = [passed[b.next] EXCEPT !.prev = IF first THEN Nil ELSE b.prev]]
             out == [back EXCEPT ![t] = [back[t] EXCEPT !.state = "STOPPED", !.next = Nil, !.prev = Nil]]
  <1>1. r = [tmr |-> out,
             wheel |-> [w.wheel EXCEPT ![s] = [first |-> IF first THEN b.next ELSE w.wheel[s].first,
                                               entries |-> w.wheel[s].entries - 1]]]
    BY DEF OSTmr_Unlink
  <1>2. b \in TmrBlock /\ b.next \in Timer \cup {Nil} /\ b.prev \in Timer \cup {Nil} /\ Nil \notin Timer
    BY TimersAreNumbers DEF TmrBlock
  <1> HIDE DEF back
  <1>3. /\ passed \in [Timer -> TmrBlock] /\ passed[t] = b
        /\ \A u \in Timer : /\ Alike(passed[u], w.tmr[u]) /\ passed[u].prev = w.tmr[u].prev
                             /\ passed[u].next = (IF ~ first /\ u = b.prev THEN b.next ELSE w.tmr[u].next)
                             /\ (first \/ u # b.prev => passed[u] = w.tmr[u])
    <2>1. CASE first
      BY <2>1 DEF Alike
    <2>2. CASE ~ first
      <3>1. PICK c : c = [w.tmr[b.prev] EXCEPT !.next = b.next]
        OBVIOUS
      <3>2. c \in TmrBlock /\ Alike(c, w.tmr[b.prev]) /\ c.prev = w.tmr[b.prev].prev /\ c.next = b.next
        <4>1. PICK d : d = w.tmr[b.prev]
          OBVIOUS
        <4>2. d \in TmrBlock /\ c = [d EXCEPT !.next = b.next]
          BY <2>2, <3>1, <4>1
        <4> QED  BY <1>2, <4>1, <4>2 DEF TmrBlock, Alike
      <3>3. passed = [w.tmr EXCEPT ![b.prev] = c]
        BY <2>2, <3>1
      <3>4. b.prev \in Timer
        BY <2>2
      <3> HIDE DEF passed
      <3>5. passed \in [Timer -> TmrBlock] /\ passed[b.prev] = c /\ \A u \in Timer \ {b.prev} : passed[u] = w.tmr[u]
        BY <3>2, <3>3, <3>4
      <3> QED  BY <2>2, <3>2, <3>5 DEF Alike
    <2> QED  BY <2>1, <2>2
  <1> HIDE DEF passed
  <1>4. /\ back \in [Timer -> TmrBlock] /\ back[t] = b
        /\ \A u \in Timer : /\ Alike(back[u], passed[u]) /\ back[u].next = passed[u].next
                             /\ back[u].prev = (IF u = b.next THEN (IF first THEN Nil ELSE b.prev) ELSE passed[u].prev)
                             /\ (u # b.next => back[u] = passed[u])
    <2>1. CASE b.next = Nil
      BY <1>2, <1>3, <2>1 DEF Alike, back
    <2>2. CASE b.next # Nil
      <3>1. PICK p : p = IF first THEN Nil ELSE b.prev
        OBVIOUS
      <3>2. PICK c : c = [passed[b.next] EXCEPT !.prev = p]
        OBVIOUS
      <3>3. b.next \in Timer /\ p \in Timer \cup {Nil}
        BY <1>2, <2>2, <3>1
      <3>4. c \in TmrBlock /\ Alike(c, passed[b.next]) /\ c.next = passed[b.next].next /\ c.prev = p
        <4>1. PICK d : d = passed[b.next]
          OBVIOUS
        <4>2. d \in TmrBlock /\ c = [d EXCEPT !.prev = p]
          BY <1>3, <3>2, <3>3, <4>1
        <4> QED  BY <3>3, <4>1, <4>2 DEF TmrBlock, Alike
      <3>5. back = [passed EXCEPT ![b.next] = c]
        BY <2>2, <3>1, <3>2 DEF back
      <3>6. back \in [Timer -> TmrBlock] /\ back[b.next] = c /\ \A u \in Timer \ {b.next} : back[u] = passed[u]
        BY <1>3, <3>3, <3>4, <3>5
      <3> QED  BY <1>3, <3>1, <3>4, <3>6 DEF Alike
    <2> QED  BY <2>1, <2>2
  <1>5. PICK o : o = [b EXCEPT !.state = "STOPPED", !.next = Nil, !.prev = Nil]
    OBVIOUS
  <1>6. o \in TmrBlock
    BY <1>2, <1>5 DEF TmrBlock, TmrStates
  <1>7. out = [back EXCEPT ![t] = o]
    BY <1>4, <1>5
  <1>8. out \in [Timer -> TmrBlock] /\ out[t] = o /\ \A u \in Timer \ {t} : out[u] = back[u]
    BY <1>4, <1>6, <1>7
  <1>9. r.tmr = out /\ r.wheel = [w.wheel EXCEPT ![s] = [first |-> IF first THEN b.next ELSE w.wheel[s].first,
                                                         entries |-> w.wheel[s].entries - 1]]
    BY <1>1
  <1> HIDE DEF out
  <1>10. ASSUME NEW u \in Timer \ {t}
         PROVE  /\ Alike(r.tmr[u], w.tmr[u])
                /\ r.tmr[u].next = (IF ~ first /\ u = b.prev THEN b.next ELSE w.tmr[u].next)
                /\ r.tmr[u].prev = (IF u = b.next THEN (IF first THEN Nil ELSE b.prev) ELSE w.tmr[u].prev)
                /\ (first \/ u # b.prev) /\ u # b.next => r.tmr[u] = w.tmr[u]
    <2>1. u \in Timer /\ r.tmr[u] = back[u]
      BY <1>8, <1>9
    <2>2. Alike(back[u], passed[u]) /\ Alike(passed[u], w.tmr[u])
      BY <1>3, <1>4
    <2>3. back[u].next = (IF ~ first /\ u = b.prev THEN b.next ELSE w.tmr[u].next)
      <3>1. back[u].next = passed[u].next
        BY <1>4
      <3>2. passed[u].next = (IF ~ first /\ u = b.prev THEN b.next ELSE w.tmr[u].next)
        BY <1>3
      <3> QED  BY <3>1, <3>2, Zenon
    <2>4. back[u].prev = (IF u = b.next THEN (IF first THEN Nil ELSE b.prev) ELSE w.tmr[u].prev)
      <3>1. back[u].prev = (IF u = b.next THEN (IF first THEN Nil ELSE b.prev) ELSE passed[u].prev)
        BY <1>4
      <3>2. passed[u].prev = w.tmr[u].prev
        BY <1>3
      <3> QED  BY <3>1, <3>2, Zenon
    <2>5. (first \/ u # b.prev) /\ u # b.next => back[u] = w.tmr[u]
      BY <1>3, <1>4
    <2>6. Alike(back[u], w.tmr[u])
      BY <2>2 DEF Alike
    <2> QED  BY <2>1, <2>3, <2>4, <2>5, <2>6
  <1> QED  BY <1>5, <1>8, <1>9, <1>10 DEF TakenOut

(* A spoke whose timers keep their blocks, and no other joins.              *)
LEMMA SpokeKept ==
    ASSUME NEW w, NEW r, NEW s, NEW L, SpokeAt(w, s, L), r.wheel[s] = w.wheel[s],
           \A u \in Timer : /\ Lists(L, u) => r.tmr[u] = w.tmr[u]
                            /\ ~ Lists(L, u) => ~ (r.tmr[u].state = "RUNNING" /\ Spoke(r.tmr[u].match) = s)
    PROVE  SpokeAt(r, s, L)
PROOF
  <1>1. ListAt(w.tmr, w.wheel[s].first, L) /\ BackAt(w.tmr, L)
    BY DEF SpokeAt
  <1>2. \A i \in 1 .. Len(L) : r.tmr[L[i]] = w.tmr[L[i]]
    <2>1. \A i \in 1 .. Len(L) : L[i] \in Timer /\ Lists(L, L[i])
      BY <1>1 DEF ListAt, Lists
    <2> QED  BY <2>1
  <1>3. ListAt(r.tmr, w.wheel[s].first, L) /\ BackAt(r.tmr, L)
    BY <1>1, <1>2, ListKept, BackKept
  <1>4. \A t \in Timer : Lists(L, t) <=> r.tmr[t].state = "RUNNING" /\ Spoke(r.tmr[t].match) = s
    BY DEF SpokeAt
  <1> QED  BY <1>3, <1>4 DEF SpokeAt

(* A running timer is in the list of its spoke. *)
LEMMA RunningListed ==
    ASSUME NEW w, NEW lists, WheelOf(w, lists), NEW t \in Timer, w.tmr[t].state = "RUNNING"
    PROVE  /\ Spoke(w.tmr[t].match) \in Spokes
           /\ \E k \in 1 .. Len(lists[Spoke(w.tmr[t].match)]) : lists[Spoke(w.tmr[t].match)][k] = t
PROOF
  <1> DEFINE m == w.tmr[t].match
  <1>1. m \in Nat
    BY DEF WheelOf, TmrBlock
  <1> HIDE DEF m
  <1>2. Spoke(m) \in Spokes
    BY <1>1, TimersAssumption DEF Spoke, Spokes
  <1>3. Lists(lists[Spoke(m)], t)
    BY <1>2 DEF WheelOf, SpokeAt, m
  <1> QED  BY <1>2, <1>3 DEF Lists, m

(* Of the timers other than t only running ones may have changed, and these *)
(* in their links.                                                         *)
OthersKept(r, w, t) ==
    \A u \in Timer \ {t} : /\ Alike(r.tmr[u], w.tmr[u])
                           /\ w.tmr[u].state # "RUNNING" => r.tmr[u] = w.tmr[u]

(* What a timer is out of its list, and put in one. *)
Halted(c, b) == c = [b EXCEPT !.state = "STOPPED", !.next = Nil, !.prev = Nil]
Started(c, b, match) == /\ c.state = "RUNNING" /\ c.match = match
                        /\ c.opt = b.opt /\ c.dly = b.dly /\ c.period = b.period

LEMMA UnlinkKeeps ==
    ASSUME NEW w, Sound(w), NEW t \in Timer, w.tmr[t].state = "RUNNING",
           NEW r, r = OSTmr_Unlink(w, t)
    PROVE  Sound(r) /\ Halted(r.tmr[t], w.tmr[t]) /\ OthersKept(r, w, t)
PROOF
  <1>1. PICK lists : WheelOf(w, lists)
    BY DEF Sound
  <1>2. PICK b : b = w.tmr[t]
    OBVIOUS
  <1>3. PICK s : s = Spoke(b.match)
    OBVIOUS
  <1>4. PICK L : L = lists[s]
    OBVIOUS
  <1>5. s \in Spokes /\ \E k \in 1 .. Len(L) : L[k] = t
    BY <1>1, <1>2, <1>3, <1>4, RunningListed
  <1>6. PICK k \in 1 .. Len(L) : L[k] = t
    BY <1>5
  <1>7. SpokeAt(w, s, L) /\ w.tmr \in [Timer -> TmrBlock] /\ w.wheel \in [Spokes -> TmrSpoke]
    BY <1>1, <1>4, <1>5 DEF WheelOf
  <1>8. PICK head : head = w.wheel[s].first
    OBVIOUS
  <1>9. ListAt(w.tmr, head, L) /\ BackAt(w.tmr, L) /\ w.wheel[s].entries = Len(L)
    BY <1>7, <1>8 DEF SpokeAt
  <1>10. PICK first \in BOOLEAN : first <=> head = t
    <2>1. (head = t) \in BOOLEAN
      OBVIOUS
    <2> QED  BY <2>1
  <1>11. /\ L \in Seq(Timer) /\ Len(L) \in Nat /\ k \in Nat /\ k >= 1 /\ k <= Len(L)
         /\ \A i \in 1 .. Len(L) : L[i] \in Timer
         /\ \A i, j \in 1 .. Len(L) : L[i] = L[j] => i = j
    BY <1>6, <1>9 DEF ListAt
  <1>12. first <=> k = 1
    <2>1. head = L[1] /\ 1 \in 1 .. Len(L)
      BY <1>9, <1>11 DEF ListAt
    <2> QED  BY <1>6, <1>10, <1>11, <2>1
  <1>13. b.prev = (IF k = 1 THEN Nil ELSE L[k - 1]) /\ b.next = (IF k = Len(L) THEN Nil ELSE L[k + 1])
    BY <1>2, <1>6, <1>9 DEF ListAt, BackAt
  <1>14. (k # 1 => k - 1 \in 1 .. Len(L)) /\ (k # Len(L) => k + 1 \in 1 .. Len(L)) /\ k - 1 # k /\ k + 1 # k
    BY <1>11
  <1>15. Nil \notin Timer
    BY TimersAreNumbers
  <1>16. (first \/ b.prev \in Timer) /\ b.prev # t /\ b.next # t
    BY <1>6, <1>11, <1>12, <1>13, <1>14, <1>15
  <1>17. /\ r.tmr \in [Timer -> TmrBlock]
         /\ r.tmr[t] = [b EXCEPT !.state = "STOPPED", !.next = Nil, !.prev = Nil]
         /\ \A u \in Timer \ {t} :
               /\ Alike(r.tmr[u], w.tmr[u])
               /\ r.tmr[u].next = (IF ~ first /\ u = b.prev THEN b.next ELSE w.tmr[u].next)
               /\ r.tmr[u].prev = (IF u = b.next THEN (IF first THEN Nil ELSE b.prev) ELSE w.tmr[u].prev)
               /\ (first \/ u # b.prev) /\ u # b.next => r.tmr[u] = w.tmr[u]
         /\ r.wheel = [w.wheel EXCEPT ![s] = [first |-> IF first THEN b.next ELSE w.wheel[s].first,
                                              entries |-> w.wheel[s].entries - 1]]
    <2>1. /\ w.tmr \in [Timer -> TmrBlock] /\ b = w.tmr[t] /\ s = Spoke(b.match)
          /\ first <=> w.wheel[s].first = t
          /\ first \/ b.prev \in Timer
          /\ b.prev # t /\ b.next # t
      BY <1>2, <1>3, <1>7, <1>8, <1>10, <1>16
    <2>2. TakenOut(w, t, b, s, first, r)
      BY <2>1, UnlinkDoes
    <2> QED  BY <2>2 DEF TakenOut
  <1>18. PICK M : M = Without(L, k)
    OBVIOUS
  <1>19. PICK start : start = (IF first THEN b.next ELSE head)
    OBVIOUS
  <1>20. /\ r.wheel[s] = [first |-> start, entries |-> Len(L) - 1]
         /\ \A x \in Spokes \ {s} : r.wheel[x] = w.wheel[x]
         /\ DOMAIN r.wheel = Spokes
    BY <1>5, <1>7, <1>8, <1>9, <1>17, <1>19
  <1>21. /\ ListAt(r.tmr, start, M) /\ Len(M) = Len(L) - 1
         /\ \A u : Lists(M, u) <=> u # t /\ Lists(L, u)
    <2>1. start = (IF k = 1 THEN w.tmr[L[k]].next ELSE head)
      BY <1>2, <1>6, <1>12, <1>19
    <2>2. ASSUME NEW i \in 1 .. Len(L), i # k
          PROVE  r.tmr[L[i]].next = IF i = k - 1 THEN w.tmr[L[k]].next ELSE w.tmr[L[i]].next
      <3>1. L[i] \in Timer \ {t}
        BY <1>6, <1>11, <2>2
      <3>2. ~ first /\ L[i] = b.prev <=> i = k - 1
        BY <1>11, <1>12, <1>13, <1>14
      <3> QED  BY <1>2, <1>6, <1>17, <3>1, <3>2
    <2>3. PICK old, new : old = w.tmr /\ new = r.tmr
      OBVIOUS
    <2>4. /\ ListAt(old, head, L) /\ start = (IF k = 1 THEN old[L[k]].next ELSE head)
          /\ \A i \in 1 .. Len(L) : i # k =>
                new[L[i]].next = IF i = k - 1 THEN old[L[k]].next ELSE old[L[i]].next
      BY <1>9, <2>1, <2>2, <2>3
    <2>5. /\ ListAt(new, start, M) /\ Len(M) = Len(L) - 1
          /\ \A u : Lists(M, u) <=> u # L[k] /\ Lists(L, u)
      BY <1>18, <2>4, ListCut DEF Shortened
    <2> QED  BY <1>6, <2>3, <2>5
  <1>22. BackAt(r.tmr, M)
    <2>1. ASSUME NEW i \in 1 .. Len(L), i # k
          PROVE  r.tmr[L[i]].prev = IF i = k + 1 THEN w.tmr[L[k]].prev ELSE w.tmr[L[i]].prev
      <3>1. L[i] \in Timer \ {t}
        BY <1>6, <1>11, <2>1
      <3>2. L[i] = b.next <=> i = k + 1
        BY <1>11, <1>13, <1>14, <1>15
      <3>3. (IF first THEN Nil ELSE b.prev) = b.prev
        BY <1>12, <1>13
      <3> QED  BY <1>2, <1>6, <1>17, <3>1, <3>2, <3>3
    <2> QED  BY <1>9, <1>18, <2>1, BackCut
  <1>23. \A u \in Timer \ {t} : Lists(L, u) <=> r.tmr[u].state = "RUNNING" /\ Spoke(r.tmr[u].match) = s
    BY <1>7, <1>17 DEF SpokeAt, Alike
  <1>24. r.tmr[t].state = "STOPPED"
    <2>1. b \in TmrBlock
      BY <1>2, <1>7
    <2> QED  BY <1>17, <2>1 DEF TmrBlock
  <1>25. SpokeAt(r, s, M)
    <2>1. \A u \in Timer : Lists(M, u) <=> r.tmr[u].state = "RUNNING" /\ Spoke(r.tmr[u].match) = s
      BY <1>21, <1>23, <1>24
    <2> QED  BY <1>20, <1>21, <1>22, <2>1 DEF SpokeAt
  <1>26. ASSUME NEW u \in Timer \ {t}, ~ Lists(L, u)
         PROVE  r.tmr[u] = w.tmr[u]
    <2>1. \A i \in 1 .. Len(L) : L[i] # u
      BY <1>26 DEF Lists
    <2>2. (first \/ u # b.prev) /\ u # b.next
      BY <1>12, <1>13, <1>14, <1>15, <2>1
    <2> QED  BY <1>17, <2>2
  <1>27. ASSUME NEW x \in Spokes \ {s}
         PROVE  SpokeAt(r, x, lists[x])
    <2>1. PICK K : K = lists[x]
      OBVIOUS
    <2>2. SpokeAt(w, x, K)
      BY <1>1, <2>1 DEF WheelOf
    <2>3. \A u \in Timer : Lists(K, u) <=> w.tmr[u].state = "RUNNING" /\ Spoke(w.tmr[u].match) = x
      BY <2>2 DEF SpokeAt
    <2>4. ~ Lists(K, t)
      BY <1>2, <1>3, <2>3
    <2>5. \A u \in Timer : Lists(K, u) => ~ Lists(L, u)
      BY <1>7, <2>3 DEF SpokeAt
    <2>6. \A u \in Timer : Lists(K, u) => r.tmr[u] = w.tmr[u]
      BY <1>26, <2>4, <2>5
    <2>7. \A u \in Timer : ~ Lists(K, u) => ~ (r.tmr[u].state = "RUNNING" /\ Spoke(r.tmr[u].match) = x)
      <3>1. ASSUME NEW u \in Timer, r.tmr[u].state = "RUNNING"
            PROVE  w.tmr[u].state = "RUNNING" /\ w.tmr[u].match = r.tmr[u].match
        BY <1>17, <1>24, <3>1 DEF Alike
      <3> QED  BY <2>3, <3>1
    <2>8. r.wheel[x] = w.wheel[x]
      BY <1>20
    <2> QED  BY <2>1, <2>2, <2>6, <2>7, <2>8, SpokeKept
  <1>28. WheelOf(r, [x \in Spokes |-> IF x = s THEN M ELSE lists[x]])
    <2> DEFINE new == [x \in Spokes |-> IF x = s THEN M ELSE lists[x]]
    <2>1. \A x \in Spokes : SpokeAt(r, x, new[x])
      BY <1>25, <1>27
    <2>2. r.wheel \in [Spokes -> TmrSpoke]
      <3>1. start \in Timer \cup {Nil} /\ Len(L) - 1 \in Int
        <4>1. b \in TmrBlock /\ w.wheel[s] \in TmrSpoke
          BY <1>2, <1>5, <1>7
        <4> QED  BY <1>8, <1>11, <1>19, <4>1 DEF TmrBlock, TmrSpoke
      <3>2. r.wheel[s] \in TmrSpoke
        BY <1>20, <3>1 DEF TmrSpoke
      <3>3. r.wheel = [x \in Spokes |-> r.wheel[x]]
        BY <1>7, <1>17
      <3> QED  BY <1>7, <1>20, <3>2, <3>3
    <2> HIDE DEF new
    <2> QED  BY <1>17, <2>1, <2>2 DEF WheelOf, new
  <1>29. \A u \in Timer \ {t} : w.tmr[u].state # "RUNNING" => r.tmr[u] = w.tmr[u]
    BY <1>7, <1>26 DEF SpokeAt
  <1> QED  BY <1>2, <1>17, <1>28, <1>29 DEF Sound, Halted, OthersKept

(* What putting a timer first on a spoke does to the table. *)
PutIn(w, t, c, s, head, r) ==
    /\ r.tmr \in [Timer -> TmrBlock]
    /\ r.tmr[t] = c
    /\ \A u \in Timer \ {t} :
          /\ Alike(r.tmr[u], w.tmr[u])
          /\ r.tmr[u].next = w.tmr[u].next
          /\ r.tmr[u].prev = (IF u = head THEN t ELSE w.tmr[u].prev)
          /\ u # head => r.tmr[u] = w.tmr[u]
    /\ r.wheel = [w.wheel EXCEPT ![s] = [first |-> t, entries |-> w.wheel[s].entries + 1]]

LEMMA LinkDoes ==
    ASSUME NEW w, w.tmr \in [Timer -> TmrBlock], NEW t \in Timer, NEW now, NEW turns,
           NEW match \in Nat, match = (turns + now) % TmrWide, NEW s, s = Spoke(match),
           NEW head \in Timer \cup {Nil}, head = w.wheel[s].first, head # t,
           NEW c, c = [w.tmr[t] EXCEPT !.state = "RUNNING", !.match = match, !.next = head, !.prev = Nil],
           NEW r, r = OSTmr_Link(w, t, now, turns)
    PROVE  PutIn(w, t, c, s, head, r) /\ c \in TmrBlock
PROOF
  <1> DEFINE linked == [w.tmr EXCEPT ![t] = c]
             out == IF head = Nil THEN linked ELSE [linked EXCEPT ![head] = [linked[head] EXCEPT !.prev = t]]
  <1>1. r = [tmr |-> out, wheel |-> [w.wheel EXCEPT ![s] = [first |-> t, entries |-> w.wheel[s].entries + 1]]]
    BY DEF OSTmr_Link
  <1>2. c \in TmrBlock
    <2>1. PICK d : d = w.tmr[t]
      OBVIOUS
    <2>2. d \in TmrBlock /\ c = [d EXCEPT !.state = "RUNNING", !.match = match, !.next = head, !.prev = Nil]
      BY <2>1
    <2> QED  BY <2>2 DEF TmrBlock, TmrStates
  <1>3. linked \in [Timer -> TmrBlock] /\ linked[t] = c /\ \A u \in Timer \ {t} : linked[u] = w.tmr[u]
    BY <1>2
  <1>4. r.tmr = out /\ r.wheel = [w.wheel EXCEPT ![s] = [first |-> t, entries |-> w.wheel[s].entries + 1]]
    BY <1>1
  <1> HIDE DEF linked
  <1>5. /\ out \in [Timer -> TmrBlock] /\ out[t] = c
        /\ \A u \in Timer \ {t} : /\ Alike(out[u], w.tmr[u]) /\ out[u].next = w.tmr[u].next
                                  /\ out[u].prev = (IF u = head THEN t ELSE w.tmr[u].prev)
                                  /\ (u # head => out[u] = w.tmr[u])
    <2>1. CASE head = Nil
      BY <1>3, <2>1, TimersAreNumbers DEF Alike
    <2>2. CASE head # Nil
      <3>1. PICK h : h = [w.tmr[head] EXCEPT !.prev = t]
        OBVIOUS
      <3>2. h \in TmrBlock /\ Alike(h, w.tmr[head]) /\ h.next = w.tmr[head].next /\ h.prev = t
        <4>1. PICK d : d = w.tmr[head]
          OBVIOUS
        <4>2. d \in TmrBlock /\ h = [d EXCEPT !.prev = t]
          BY <2>2, <3>1, <4>1
        <4> QED  BY <4>1, <4>2 DEF TmrBlock, Alike
      <3>3. head \in Timer /\ linked[head] = w.tmr[head]
        BY <1>3, <2>2
      <3>4. out = [linked EXCEPT ![head] = h]
        BY <2>2, <3>1, <3>3
      <3> HIDE DEF out
      <3>5. out \in [Timer -> TmrBlock] /\ out[head] = h /\ \A u \in Timer \ {head} : out[u] = linked[u]
        BY <1>3, <3>2, <3>3, <3>4
      <3>6. out \in [Timer -> TmrBlock]
        BY <3>5
      <3>7. out[t] = c
        BY <1>3, <3>3, <3>5
      <3>8. ASSUME NEW u \in Timer \ {t}
            PROVE  /\ Alike(out[u], w.tmr[u]) /\ out[u].next = w.tmr[u].next
                   /\ out[u].prev = (IF u = head THEN t ELSE w.tmr[u].prev)
                   /\ (u # head => out[u] = w.tmr[u])
        <4>1. CASE u = head
          BY <3>2, <3>5, <4>1
        <4>2. CASE u # head
          <5>1. out[u] = w.tmr[u]
            BY <1>3, <3>5, <4>2
          <5> QED  BY <4>2, <5>1 DEF Alike
        <4> QED  BY <4>1, <4>2
      <3> QED  BY <3>6, <3>7, <3>8
    <2> QED  BY <2>1, <2>2
  <1> HIDE DEF out
  <1> QED  BY <1>2, <1>4, <1>5 DEF PutIn

LEMMA LinkKeeps ==
    ASSUME NEW w, Sound(w), NEW t \in Timer, w.tmr[t].state # "RUNNING",
           NEW now \in Nat, NEW turns \in Nat, NEW r, r = OSTmr_Link(w, t, now, turns)
    PROVE  Sound(r) /\ Started(r.tmr[t], w.tmr[t], (turns + now) % TmrWide) /\ OthersKept(r, w, t)
PROOF
  <1>1. PICK lists : WheelOf(w, lists)
    BY DEF Sound
  <1>2. PICK match : match = (turns + now) % TmrWide
    OBVIOUS
  <1>3. match \in Nat
    BY <1>2, TimersAssumption
  <1>4. PICK s : s = Spoke(match)
    OBVIOUS
  <1>5. s \in Spokes
    BY <1>3, <1>4, TimersAssumption DEF Spoke, Spokes
  <1>6. PICK L, head : L = lists[s] /\ head = w.wheel[s].first
    OBVIOUS
  <1>7. SpokeAt(w, s, L) /\ w.tmr \in [Timer -> TmrBlock] /\ w.wheel \in [Spokes -> TmrSpoke]
    BY <1>1, <1>5, <1>6 DEF WheelOf
  <1>8. ListAt(w.tmr, head, L) /\ BackAt(w.tmr, L) /\ w.wheel[s].entries = Len(L)
    BY <1>6, <1>7 DEF SpokeAt
  <1>9. L \in Seq(Timer) /\ Len(L) \in Nat /\ \A i \in 1 .. Len(L) : L[i] \in Timer
    BY <1>8 DEF ListAt
  <1>10. ~ Lists(L, t)
    BY <1>7 DEF SpokeAt
  <1>11. \A i \in 1 .. Len(L) : L[i] \in Timer \ {t}
    BY <1>9, <1>10 DEF Lists
  <1>12. head = Nil \/ Lists(L, head)
    <2>1. head = IF Len(L) = 0 THEN Nil ELSE L[1]
      BY <1>8 DEF ListAt
    <2>2. Len(L) # 0 => 1 \in 1 .. Len(L)
      BY <1>9
    <2> QED  BY <2>1, <2>2 DEF Lists
  <1>13. head \in Timer \cup {Nil} /\ head # t
    BY <1>9, <1>10, <1>12, TimersAreNumbers DEF Lists
  <1>14. PICK c : c = [w.tmr[t] EXCEPT !.state = "RUNNING", !.match = match, !.next = head, !.prev = Nil]
    OBVIOUS
  <1>15. PutIn(w, t, c, s, head, r) /\ c \in TmrBlock
    BY <1>2, <1>3, <1>4, <1>6, <1>7, <1>13, <1>14, LinkDoes
  <1>16. /\ c.state = "RUNNING" /\ c.match = match /\ c.next = head /\ c.prev = Nil
         /\ c.opt = w.tmr[t].opt /\ c.dly = w.tmr[t].dly /\ c.period = w.tmr[t].period
    <2>1. PICK d : d = w.tmr[t]
      OBVIOUS
    <2>2. d \in TmrBlock /\ c = [d EXCEPT !.state = "RUNNING", !.match = match, !.next = head, !.prev = Nil]
      BY <1>7, <1>14, <2>1
    <2> QED  BY <2>1, <2>2 DEF TmrBlock
  <1>17. /\ r.tmr \in [Timer -> TmrBlock] /\ r.tmr[t] = c
         /\ \A u \in Timer \ {t} :
               /\ Alike(r.tmr[u], w.tmr[u])
               /\ r.tmr[u].next = w.tmr[u].next
               /\ r.tmr[u].prev = (IF u = head THEN t ELSE w.tmr[u].prev)
               /\ u # head => r.tmr[u] = w.tmr[u]
    BY <1>15 DEF PutIn
  <1>18. PICK M : M = Pushed(t, L)
    OBVIOUS
  <1>19. PICK old, new : old = w.tmr /\ new = r.tmr
    OBVIOUS
  <1>20. /\ ListAt(new, t, M) /\ Len(M) = Len(L) + 1
         /\ \A u : Lists(M, u) <=> u = t \/ Lists(L, u)
    <2>1. /\ ListAt(old, head, L) /\ new[t].next = head
          /\ \A i \in 1 .. Len(L) : new[L[i]].next = old[L[i]].next
      BY <1>8, <1>11, <1>16, <1>17, <1>19
    <2> QED  BY <1>10, <1>18, <2>1, ListPushed
  <1>21. BackAt(new, M)
    <2>1. /\ ListAt(old, head, L) /\ BackAt(old, L) /\ new[t].prev = Nil
          /\ \A i \in 1 .. Len(L) : new[L[i]].prev = IF L[i] = head THEN t ELSE old[L[i]].prev
      BY <1>8, <1>11, <1>16, <1>17, <1>19
    <2> QED  BY <1>18, <2>1, BackPushed
  <1>22. /\ r.wheel[s] = [first |-> t, entries |-> Len(L) + 1]
         /\ \A x \in Spokes \ {s} : r.wheel[x] = w.wheel[x]
         /\ r.wheel \in [Spokes -> TmrSpoke]
    <2>1. PICK e : e = [first |-> t, entries |-> w.wheel[s].entries + 1]
      OBVIOUS
    <2>2. e \in TmrSpoke /\ e = [first |-> t, entries |-> Len(L) + 1]
      BY <1>8, <1>9, <2>1 DEF TmrSpoke
    <2>3. r.wheel = [w.wheel EXCEPT ![s] = e]
      BY <1>15, <2>1 DEF PutIn
    <2> QED  BY <1>5, <1>7, <2>2, <2>3
  <1>23. SpokeAt(r, s, M)
    <2>1. \A u \in Timer \ {t} : Lists(L, u) <=> r.tmr[u].state = "RUNNING" /\ Spoke(r.tmr[u].match) = s
      BY <1>7, <1>17 DEF SpokeAt, Alike
    <2>2. \A u \in Timer : Lists(M, u) <=> r.tmr[u].state = "RUNNING" /\ Spoke(r.tmr[u].match) = s
      BY <1>4, <1>16, <1>17, <1>20, <2>1
    <2> QED  BY <1>19, <1>20, <1>21, <1>22, <2>2 DEF SpokeAt
  <1>24. \A u \in Timer \ {t} : ~ Lists(L, u) => r.tmr[u] = w.tmr[u]
    BY <1>12, <1>17, TimersAreNumbers
  <1>25. ASSUME NEW x \in Spokes \ {s}
         PROVE  SpokeAt(r, x, lists[x])
    <2>1. PICK K : K = lists[x]
      OBVIOUS
    <2>2. SpokeAt(w, x, K)
      BY <1>1, <2>1 DEF WheelOf
    <2>3. \A u \in Timer : Lists(K, u) <=> w.tmr[u].state = "RUNNING" /\ Spoke(w.tmr[u].match) = x
      BY <2>2 DEF SpokeAt
    <2>4. ~ Lists(K, t)
      BY <2>3
    <2>5. \A u \in Timer : Lists(K, u) => ~ Lists(L, u)
      BY <1>7, <2>3 DEF SpokeAt
    <2>6. \A u \in Timer : Lists(K, u) => r.tmr[u] = w.tmr[u]
      BY <1>24, <2>4, <2>5
    <2>7. \A u \in Timer : ~ Lists(K, u) => ~ (r.tmr[u].state = "RUNNING" /\ Spoke(r.tmr[u].match) = x)
      <3>1. ASSUME NEW u \in Timer \ {t}, r.tmr[u].state = "RUNNING"
            PROVE  w.tmr[u].state = "RUNNING" /\ w.tmr[u].match = r.tmr[u].match
        BY <1>17, <3>1 DEF Alike
      <3>2. Spoke(r.tmr[t].match) = s
        BY <1>4, <1>16, <1>17
      <3> QED  BY <2>3, <3>1, <3>2
    <2>8. r.wheel[x] = w.wheel[x]
      BY <1>22
    <2> QED  BY <2>1, <2>2, <2>6, <2>7, <2>8, SpokeKept
  <1>26. WheelOf(r, [x \in Spokes |-> IF x = s THEN M ELSE lists[x]])
    <2> DEFINE all == [x \in Spokes |-> IF x = s THEN M ELSE lists[x]]
    <2>1. \A x \in Spokes : SpokeAt(r, x, all[x])
      BY <1>23, <1>25
    <2> HIDE DEF all
    <2> QED  BY <1>17, <1>22, <2>1 DEF WheelOf, all
  <1>27. \A u \in Timer \ {t} : w.tmr[u].state # "RUNNING" => r.tmr[u] = w.tmr[u]
    BY <1>7, <1>24 DEF SpokeAt
  <1> QED  BY <1>2, <1>16, <1>17, <1>26, <1>27 DEF Sound, Started, OthersKept

(* Blocks that are in no list may change as long as they do not run.        *)
LEMMA SoundKept ==
    ASSUME NEW w, Sound(w), NEW r, r.wheel = w.wheel, r.tmr \in [Timer -> TmrBlock],
           \A u \in Timer : IF w.tmr[u].state = "RUNNING" THEN r.tmr[u] = w.tmr[u]
                            ELSE r.tmr[u].state # "RUNNING"
    PROVE  Sound(r)
PROOF
  <1>1. PICK lists : WheelOf(w, lists)
    BY DEF Sound
  <1>2. ASSUME NEW s \in Spokes
        PROVE  SpokeAt(r, s, lists[s])
    <2>1. PICK L : L = lists[s]
      OBVIOUS
    <2>2. SpokeAt(w, s, L)
      BY <1>1, <2>1 DEF WheelOf
    <2>3. \A u \in Timer : Lists(L, u) <=> w.tmr[u].state = "RUNNING" /\ Spoke(w.tmr[u].match) = s
      BY <2>2 DEF SpokeAt
    <2> QED  BY <2>1, <2>2, <2>3, SpokeKept
  <1>3. WheelOf(r, lists)
    BY <1>1, <1>2 DEF WheelOf
  <1> QED  BY <1>3 DEF Sound

(* What a timer whose spoke is served becomes. *)
Expiry(c, b, now) ==
    /\ c.opt = b.opt /\ c.dly = b.dly /\ c.period = b.period
    /\ IF b.match # now THEN c.state = b.state /\ c.match = b.match
       ELSE IF b.opt = "PERIODIC" THEN c.state = "RUNNING" /\ c.match = (b.period + now) % TmrWide
       ELSE c.state = "COMPLETED"

LEMMA ExpireKeeps ==
    ASSUME NEW w, Sound(w), NEW t \in Timer, w.tmr[t].state = "RUNNING",
           NEW now \in Nat, NEW r, r = Expire(w, t, now)
    PROVE  Sound(r) /\ Expiry(r.tmr[t], w.tmr[t], now) /\ OthersKept(r, w, t)
PROOF
  <1>1. w.tmr \in [Timer -> TmrBlock]
    BY DEF Sound, WheelOf
  <1>2. PICK b : b = w.tmr[t]
    OBVIOUS
  <1>3. b \in TmrBlock /\ b.state = "RUNNING"
    BY <1>1, <1>2
  <1>4. CASE b.match # now
    <2>1. r = w
      BY <1>2, <1>4 DEF Expire
    <2> QED  BY <1>2, <1>4, <2>1 DEF Expiry, OthersKept, Alike
  <1>5. CASE b.match = now
    <2>1. PICK v : v = OSTmr_Unlink(w, t)
      OBVIOUS
    <2>2. Sound(v) /\ Halted(v.tmr[t], b) /\ OthersKept(v, w, t)
      BY <1>2, <2>1, UnlinkKeeps
    <2>3. v.tmr[t].state = "STOPPED" /\ v.tmr[t].opt = b.opt /\ v.tmr[t].dly = b.dly /\ v.tmr[t].period = b.period
      BY <1>3, <2>2 DEF TmrBlock, Halted
    <2>4. CASE b.opt = "PERIODIC"
      <3>1. r = OSTmr_Link(v, t, now, b.period)
        BY <1>2, <1>5, <2>1, <2>4, Zenon DEF Expire
      <3>2. b.period \in Nat
        BY <1>3 DEF TmrBlock
      <3>3. Sound(r) /\ Started(r.tmr[t], v.tmr[t], (b.period + now) % TmrWide) /\ OthersKept(r, v, t)
        BY <2>2, <2>3, <3>1, <3>2, LinkKeeps
      <3>4. Expiry(r.tmr[t], b, now)
        BY <1>5, <2>3, <2>4, <3>3 DEF Expiry, Started
      <3>5. OthersKept(r, w, t)
        BY <2>2, <3>3 DEF OthersKept, Alike
      <3> QED  BY <1>2, <3>3, <3>4, <3>5
    <2>5. CASE b.opt # "PERIODIC"
      <3>1. r = [v EXCEPT !.tmr[t].state = "COMPLETED"]
        BY <1>2, <1>5, <2>1, <2>5, Zenon DEF Expire
      <3>2. PICK c : c = [v.tmr[t] EXCEPT !.state = "COMPLETED"]
        OBVIOUS
      <3>3. v.tmr \in [Timer -> TmrBlock]
        BY <2>2 DEF Sound, WheelOf
      <3>4. c \in TmrBlock /\ c.state = "COMPLETED" /\ c.opt = b.opt /\ c.dly = b.dly /\ c.period = b.period
        <4>1. PICK d : d = v.tmr[t]
          OBVIOUS
        <4>2. d \in TmrBlock /\ c = [d EXCEPT !.state = "COMPLETED"]
          BY <3>2, <3>3, <4>1
        <4>3. c \in TmrBlock /\ c.state = "COMPLETED" /\ c.opt = d.opt /\ c.dly = d.dly /\ c.period = d.period
          BY <4>2 DEF TmrBlock, TmrStates
        <4> QED  BY <2>3, <4>1, <4>3
      <3>5. r.tmr = [v.tmr EXCEPT ![t] = c] /\ r.wheel = v.wheel
        <4>1. v = [tmr |-> v.tmr, wheel |-> v.wheel]
          BY <2>1 DEF OSTmr_Unlink
        <4>2. PICK x, y : x = v.tmr /\ y = v.wheel
          OBVIOUS
        <4>3. v = [tmr |-> x, wheel |-> y]
          BY <4>1, <4>2
        <4>4. r = [tmr |-> [x EXCEPT ![t] = [x[t] EXCEPT !.state = "COMPLETED"]], wheel |-> y]
          BY <3>1, <4>3
        <4>5. r = [tmr |-> [x EXCEPT ![t] = c], wheel |-> y]
          BY <3>2, <4>2, <4>4
        <4> QED  BY <4>2, <4>5
      <3>6. r.tmr \in [Timer -> TmrBlock] /\ r.tmr[t] = c /\ \A u \in Timer \ {t} : r.tmr[u] = v.tmr[u]
        BY <3>3, <3>4, <3>5
      <3>7. Sound(r)
        <4>1. \A u \in Timer : IF v.tmr[u].state = "RUNNING" THEN r.tmr[u] = v.tmr[u]
                               ELSE r.tmr[u].state # "RUNNING"
          BY <2>3, <3>4, <3>6
        <4> QED  BY <2>2, <3>5, <3>6, <4>1, SoundKept
      <3>8. Expiry(r.tmr[t], b, now)
        BY <1>5, <2>5, <3>4, <3>6 DEF Expiry
      <3>9. OthersKept(r, w, t)
        BY <2>2, <3>6 DEF OthersKept
      <3> QED  BY <1>2, <3>7, <3>8, <3>9
    <2> QED  BY <2>4, <2>5
  <1> QED  BY <1>4, <1>5

(* The turn of the wheel, timer by timer. *)
Expiries(g, now, L, w, S) ==
    g = [s \in SUBSET S |-> IF s = {} THEN w ELSE Expire(g[s \ {Max(s)}], L[Max(s)], now)]

Served(w, L, now) == FoldLeft(LAMBDA v, t : Expire(v, t, now), w, L)

LEMMA TurnExpires ==
    ASSUME NEW now, NEW w, NEW L
    PROVE  Served(w, L, now) = (CHOOSE g : Expiries(g, now, L, w, DOMAIN L))[DOMAIN L]
PROOF BY Zenon DEF Served, FoldLeft, MapThenFoldSet, Expiries

LEMMA ExpiriesExist ==
    ASSUME NEW now, NEW w, NEW L, NEW n \in Nat
    PROVE  \E g : Expiries(g, now, L, w, 1 .. n)
PROOF
  <1> DEFINE S == 1 .. n
             Few(m) == {s \in SUBSET S : Cardinality(s) <= m}
             After(g, s) == IF s = {} THEN w ELSE Expire(g[s \ {Max(s)}], L[Max(s)], now)
             Bad == {m \in Nat : ~ \E g : g = [s \in Few(m) |-> After(g, s)]}
  <1>1. \A s \in SUBSET S : IsFiniteSet(s) /\ Cardinality(s) \in Nat /\ Cardinality(s) <= Cardinality(S)
    <2>1. IsFiniteSet(S)
      BY FS_Interval
    <2> HIDE DEF S
    <2> QED  BY <2>1, FS_Subset, FS_CardinalityType
  <1>2. \A s \in SUBSET S : s # {} => s \ {Max(s)} \in SUBSET S /\ Cardinality(s \ {Max(s)}) = Cardinality(s) - 1
    BY <1>1, MaxOfMany, FS_RemoveElement
  <1>3. \A s \in SUBSET S : s # {} => Cardinality(s) # 0
    BY <1>1, FS_EmptySet
  <1>4. Bad = {}
    <2> SUFFICES ASSUME Bad # {} PROVE FALSE
      OBVIOUS
    <2>1. 0 \notin Bad
      <3> DEFINE g == [s \in Few(0) |-> w]
      <3>1. \A s \in Few(0) : s = {}
        BY <1>1, <1>3, SMT
      <3>2. g = [s \in Few(0) |-> After(g, s)]
        BY <3>1
      <3> QED  BY <3>2
    <2>2. PICK m \in Bad : m - 1 \in Nat /\ m - 1 \notin Bad
      <3> HIDE DEF Bad
      <3>1. Bad \in SUBSET Nat
        BY DEF Bad
      <3> QED  BY <2>1, <3>1, FirstFailure
    <2>3. m \in Nat
      OBVIOUS
    <2>4. PICK g : g = [s \in Few(m - 1) |-> After(g, s)]
      BY <2>2
    <2> DEFINE h == [s \in Few(m) |-> IF s \in Few(m - 1) THEN g[s] ELSE After(g, s)]
    <2>5. ASSUME NEW s \in Few(m) PROVE h[s] = After(h, s)
      <3>1. CASE s = {}
        BY <2>4, <3>1
      <3>2. CASE s # {}
        <4> DEFINE t == s \ {Max(s)}
        <4>1. t \in SUBSET S /\ Cardinality(t) = Cardinality(s) - 1 /\ Cardinality(s) \in Nat /\ Cardinality(s) <= m
          BY <1>1, <1>2, <3>2
        <4>2. t \in Few(m - 1) /\ t \in Few(m)
          <5> HIDE DEF t
          <5> QED  BY <2>2, <2>3, <4>1, SMT
        <4>3. h[t] = g[t]
          <5> HIDE DEF t
          <5> QED  BY <4>2
        <4>4. h[s] = Expire(g[t], L[Max(s)], now)
          <5>1. CASE s \in Few(m - 1)
            BY <2>4, <3>2, <5>1
          <5>2. CASE s \notin Few(m - 1)
            BY <3>2, <5>2
          <5> QED  BY <5>1, <5>2
        <4> QED  BY <3>2, <4>3, <4>4
      <3> QED  BY <3>1, <3>2
    <2>6. h = [s \in Few(m) |-> After(h, s)]
      <3> DEFINE k == [s \in Few(m) |-> After(h, s)]
      <3>1. \A s \in Few(m) : h[s] = k[s]
        <4> HIDE DEF h
        <4> QED  BY <2>5
      <3>2. DOMAIN h = Few(m) /\ DOMAIN k = Few(m) /\ h = [s \in DOMAIN h |-> h[s]] /\ k = [s \in DOMAIN k |-> k[s]]
        OBVIOUS
      <3> HIDE DEF h, k
      <3>3. h = k
        BY <3>1, <3>2
      <3> QED  BY <3>3 DEF k
    <2> QED  BY <2>2, <2>6
  <1>5. Cardinality(S) \in Nat /\ Few(Cardinality(S)) = SUBSET S
    BY <1>1, FS_CardinalityType
  <1>6. PICK g : g = [s \in Few(Cardinality(S)) |-> After(g, s)]
    BY <1>4, <1>5
  <1>7. g = [s \in SUBSET S |-> After(g, s)]
    BY <1>5, <1>6
  <1> QED  BY <1>7 DEF Expiries

(* What the timers are once the first k of the spoke's list were looked at. *)
ExpiredUpTo(v, w, L, now, k) ==
    /\ Sound(v)
    /\ \A u \in Timer : IF \E i \in 1 .. k : L[i] = u THEN Expiry(v.tmr[u], w.tmr[u], now)
                        ELSE Alike(v.tmr[u], w.tmr[u])
    /\ \A u \in Timer : w.tmr[u].state # "RUNNING" => v.tmr[u] = w.tmr[u]

LEMMA TurnDoes ==
    ASSUME NEW w, Sound(w), NEW now \in Nat, NEW L \in Seq(Timer),
           \A i, j \in 1 .. Len(L) : L[i] = L[j] => i = j,
           \A i \in 1 .. Len(L) : w.tmr[L[i]].state = "RUNNING",
           NEW r, r = Served(w, L, now)
    PROVE  ExpiredUpTo(r, w, L, now, Len(L))
PROOF
  <1>1. Len(L) \in Nat /\ DOMAIN L = 1 .. Len(L) /\ \A i \in 1 .. Len(L) : L[i] \in Timer
    OBVIOUS
  <1>2. PICK g : Expiries(g, now, L, w, 1 .. Len(L)) /\ r = g[1 .. Len(L)]
    <2>1. \E g : Expiries(g, now, L, w, DOMAIN L)
      <3>1. PICK n \in Nat : n = Len(L)
        BY <1>1
      <3>2. \E g : Expiries(g, now, L, w, 1 .. n)
        BY ExpiriesExist
      <3> QED  BY <1>1, <3>1, <3>2, Zenon
    <2>2. r = (CHOOSE g : Expiries(g, now, L, w, DOMAIN L))[DOMAIN L]
      BY TurnExpires, Zenon
    <2> QED  BY <1>1, <2>1, <2>2
  <1>3. ExpiredUpTo(g[1 .. 0], w, L, now, 0)
    <2>1. g[1 .. 0] = w
      <3>1. 1 .. 0 = {} /\ 1 .. 0 \in SUBSET (1 .. Len(L))
        OBVIOUS
      <3> QED  BY <1>2, <3>1, Zenon DEF Expiries
    <2> QED  BY <2>1 DEF ExpiredUpTo, Alike
  <1>4. ASSUME NEW k \in 1 .. Len(L), ExpiredUpTo(g[1 .. k - 1], w, L, now, k - 1)
        PROVE  ExpiredUpTo(g[1 .. k], w, L, now, k)
    <2>1. PICK v, t, x : v = g[1 .. k - 1] /\ t = L[k] /\ x = g[1 .. k]
      OBVIOUS
    <2>2. /\ Sound(v)
          /\ \A u \in Timer : IF \E i \in 1 .. k - 1 : L[i] = u THEN Expiry(v.tmr[u], w.tmr[u], now)
                              ELSE Alike(v.tmr[u], w.tmr[u])
          /\ \A u \in Timer : w.tmr[u].state # "RUNNING" => v.tmr[u] = w.tmr[u]
      BY <1>4, <2>1, Zenon DEF ExpiredUpTo
    <2>3. x = Expire(v, t, now)
      <3>1. 1 .. k \in SUBSET (1 .. Len(L)) /\ 1 .. k # {} /\ Max(1 .. k) = k /\ (1 .. k) \ {k} = 1 .. k - 1
        BY <1>1, UpTo
      <3>2. x = Expire(g[(1 .. k) \ {Max(1 .. k)}], L[Max(1 .. k)], now)
        BY <1>2, <2>1, <3>1, Zenon DEF Expiries
      <3> QED  BY <2>1, <3>1, <3>2, Zenon
    <2>4. t \in Timer /\ w.tmr[t].state = "RUNNING" /\ ~ \E i \in 1 .. k - 1 : L[i] = t
      <3>1. \A i \in 1 .. k - 1 : i \in 1 .. Len(L) /\ i # k
        BY <1>1
      <3> QED  BY <1>1, <2>1, <3>1
    <2>5. Alike(v.tmr[t], w.tmr[t])
      BY <2>2, <2>4
    <2>6. Sound(x) /\ Expiry(x.tmr[t], v.tmr[t], now) /\ OthersKept(x, v, t)
      <3>1. v.tmr[t].state = "RUNNING"
        BY <2>4, <2>5 DEF Alike
      <3> QED  BY <2>2, <2>3, <2>4, <3>1, ExpireKeeps
    <2>7. ASSUME NEW u \in Timer
          PROVE  /\ IF \E i \in 1 .. k : L[i] = u THEN Expiry(x.tmr[u], w.tmr[u], now)
                    ELSE Alike(x.tmr[u], w.tmr[u])
                 /\ w.tmr[u].state # "RUNNING" => x.tmr[u] = w.tmr[u]
      <3>1. (\E i \in 1 .. k : L[i] = u) <=> u = t \/ \E i \in 1 .. k - 1 : L[i] = u
        BY <2>1
      <3>2. CASE u = t
        <4>1. Expiry(x.tmr[t], w.tmr[t], now)
          BY <2>5, <2>6 DEF Expiry, Alike
        <4> QED  BY <2>4, <3>1, <3>2, <4>1
      <3>3. CASE u # t
        <4>1. Alike(x.tmr[u], v.tmr[u]) /\ (v.tmr[u].state # "RUNNING" => x.tmr[u] = v.tmr[u])
          BY <2>6, <3>3 DEF OthersKept
        <4>2. CASE \E i \in 1 .. k - 1 : L[i] = u
          <5>1. Expiry(x.tmr[u], w.tmr[u], now)
            BY <2>2, <4>1, <4>2 DEF Expiry, Alike
          <5>2. w.tmr[u].state # "RUNNING" => x.tmr[u] = w.tmr[u]
            BY <2>2, <4>1
          <5> QED  BY <3>1, <4>2, <5>1, <5>2
        <4>3. CASE ~ \E i \in 1 .. k - 1 : L[i] = u
          <5>1. Alike(x.tmr[u], w.tmr[u])
            BY <2>2, <4>1, <4>3 DEF Alike
          <5>2. w.tmr[u].state # "RUNNING" => x.tmr[u] = w.tmr[u]
            BY <2>2, <4>1
          <5> QED  BY <3>1, <3>3, <4>3, <5>1, <5>2
        <4> QED  BY <4>2, <4>3
      <3> QED  BY <3>2, <3>3
    <2> QED  BY <2>1, <2>6, <2>7, Zenon DEF ExpiredUpTo
  <1>5. ExpiredUpTo(g[1 .. Len(L)], w, L, now, Len(L))
    <2> DEFINE Bad == {k \in 0 .. Len(L) : ~ ExpiredUpTo(g[1 .. k], w, L, now, k)}
    <2> SUFFICES ASSUME Bad # {} PROVE FALSE
      BY <1>1
    <2>1. Bad \in SUBSET Nat /\ 0 \notin Bad
      BY <1>1, <1>3
    <2>2. PICK k \in Bad : k - 1 \in Nat /\ k - 1 \notin Bad
      <3> HIDE DEF Bad
      <3> QED  BY <2>1, FirstFailure
    <2>3. k \in 1 .. Len(L) /\ k - 1 \in 0 .. Len(L)
      BY <1>1, <2>2
    <2> QED  BY <1>4, <2>2, <2>3
  <1> QED  BY <1>2, <1>5

(* The turn, for every timer of the board. *)
Turned(r, w, now) ==
    /\ Sound(r)
    /\ \A u \in Timer : IF w.tmr[u].state = "RUNNING" THEN Expiry(r.tmr[u], w.tmr[u], now)
                        ELSE r.tmr[u] = w.tmr[u]

LEMMA TurnTurns ==
    ASSUME NEW w, Sound(w), NEW now \in Nat,
           NEW r, r = Served(w, Chain(w.tmr, w.wheel[Spoke(now)].first), now)
    PROVE  Turned(r, w, now)
PROOF
  <1>1. PICK lists : WheelOf(w, lists)
    BY DEF Sound
  <1>2. PICK s, L : s = Spoke(now) /\ L = lists[s]
    OBVIOUS
  <1>3. s \in Spokes
    BY <1>2, TimersAssumption DEF Spoke, Spokes
  <1>4. SpokeAt(w, s, L)
    BY <1>1, <1>2, <1>3 DEF WheelOf
  <1>5. ListAt(w.tmr, w.wheel[s].first, L) /\ \A u \in Timer : Lists(L, u) <=> w.tmr[u].state = "RUNNING" /\ Spoke(w.tmr[u].match) = s
    BY <1>4 DEF SpokeAt
  <1>6. Chain(w.tmr, w.wheel[s].first) = L
    <2>1. PICK tbl, first : tbl = w.tmr /\ first = w.wheel[s].first
      OBVIOUS
    <2>2. Chain(tbl, first) = L
      BY <1>5, <2>1, ChainIs
    <2> QED  BY <2>1, <2>2
  <1>7. L \in Seq(Timer) /\ \A i, j \in 1 .. Len(L) : L[i] = L[j] => i = j
    BY <1>5 DEF ListAt
  <1>8. \A i \in 1 .. Len(L) : L[i] \in Timer /\ w.tmr[L[i]].state = "RUNNING"
    <2>1. \A i \in 1 .. Len(L) : L[i] \in Timer
      BY <1>7
    <2> QED  BY <1>5, <2>1 DEF Lists
  <1>9. ExpiredUpTo(r, w, L, now, Len(L))
    <2>1. r = Served(w, L, now)
      BY <1>2, <1>6
    <2> QED  BY <1>7, <1>8, <2>1, TurnDoes
  <1>10. ASSUME NEW u \in Timer, w.tmr[u].state = "RUNNING"
         PROVE  Expiry(r.tmr[u], w.tmr[u], now)
    <2>1. CASE Lists(L, u)
      BY <1>9, <2>1 DEF ExpiredUpTo, Lists
    <2>2. CASE ~ Lists(L, u)
      <3>1. Alike(r.tmr[u], w.tmr[u])
        BY <1>9, <2>2 DEF ExpiredUpTo, Lists
      <3>2. w.tmr[u].match # now
        BY <1>2, <1>5, <1>10, <2>2
      <3> QED  BY <3>1, <3>2 DEF Expiry, Alike
    <2> QED  BY <2>1, <2>2
  <1> QED  BY <1>9, <1>10 DEF ExpiredUpTo, Turned

-----------------------------------------------------------------------------
(* The timers: the time                                                    *)

(* A time less than two rounds from zero, brought back into the first.     *)
Wound(x) == IF x < TmrWide THEN x ELSE x - TmrWide

LEMMA TimeWraps ==
    /\ TmrWide \in Nat \ {0}
    /\ \A x \in Nat : x < 2 * TmrWide => x % TmrWide = Wound(x)
    /\ \A x \in 0 .. TmrWide - 1 : \A y \in 0 .. TmrWide - 1 :
          (x - y) % TmrWide = IF x >= y THEN x - y ELSE x - y + TmrWide
PROOF
  <1>1. TmrWide \in Nat \ {0}
    BY TimersAssumption
  <1>2. ASSUME NEW x \in Nat, x < 2 * TmrWide
        PROVE  x % TmrWide = Wound(x)
    <2>1. CASE x < TmrWide
      <3>1. x = 0 * TmrWide + x /\ x \in 0 .. TmrWide - 1 /\ 0 \in Int
        BY <1>1, <2>1
      <3> QED  BY <1>1, <2>1, <3>1, EuclidUnique DEF Wound
    <2>2. CASE x >= TmrWide
      <3>1. x = 1 * TmrWide + (x - TmrWide) /\ x - TmrWide \in 0 .. TmrWide - 1 /\ 1 \in Int
        BY <1>1, <1>2, <2>2
      <3>2. x % TmrWide = x - TmrWide
        BY <1>1, <3>1, EuclidUnique
      <3> QED  BY <1>1, <2>2, <3>2 DEF Wound
    <2> QED  BY <1>1, <2>1, <2>2
  <1>3. ASSUME NEW x \in 0 .. TmrWide - 1, NEW y \in 0 .. TmrWide - 1
        PROVE  (x - y) % TmrWide = IF x >= y THEN x - y ELSE x - y + TmrWide
    <2> DEFINE d == x - y
    <2>1. d \in Int /\ (x >= y <=> d >= 0) /\ d < TmrWide /\ d + TmrWide > 0
      BY <1>1
    <2> HIDE DEF d
    <2>2. CASE d >= 0
      <3>1. d = 0 * TmrWide + d /\ d \in 0 .. TmrWide - 1 /\ 0 \in Int
        BY <1>1, <2>1, <2>2
      <3>2. d % TmrWide = d
        BY <1>1, <3>1, EuclidUnique
      <3> QED  BY <2>1, <2>2, <3>2 DEF d
    <2>3. CASE d < 0
      <3>1. d = (-1) * TmrWide + (d + TmrWide) /\ d + TmrWide \in 0 .. TmrWide - 1 /\ -1 \in Int
        BY <1>1, <2>1, <2>3
      <3>2. PICK k \in Int : k = -1
        BY <3>1
      <3>3. d % TmrWide = d + TmrWide
        BY <1>1, <2>1, <3>1, <3>2, EuclidUnique
      <3> QED  BY <2>1, <2>3, <3>3 DEF d
    <2> QED  BY <2>1, <2>2, <2>3
  <1> QED  BY <1>1, <1>2, <1>3

(* A timer agrees with the time n and expires in e turns, if it runs.       *)
InStep(b, n, e) ==
    /\ b.state # "UNUSED" =>
          /\ b.opt \in {"ONE_SHOT", "PERIODIC"} /\ {b.dly, b.period} \subseteq 0 .. TmrWide - 1
          /\ IF b.opt = "PERIODIC" THEN b.period # 0 ELSE b.dly # 0
    /\ IF b.state = "RUNNING" THEN e \in 1 .. TmrWide - 1 /\ b.match = (n + e) % TmrWide
       ELSE e = -1

LEMMA InStepTurns ==
    ASSUME NEW n \in 0 .. TmrWide - 1, NEW b \in TmrBlock, NEW e, InStep(b, n, e), b.state = "RUNNING",
           NEW now, now = (n + 1) % TmrWide, NEW c, Expiry(c, b, now),
           NEW f, f = (IF e # 1 THEN IF e = -1 THEN -1 ELSE e - 1
                       ELSE IF b.opt = "PERIODIC" THEN b.period ELSE -1)
    PROVE  InStep(c, now, f)
PROOF
  <1>1. /\ TmrWide \in Nat \ {0} /\ e \in 1 .. TmrWide - 1 /\ b.match = Wound(n + e) /\ now = Wound(n + 1)
        /\ now \in 0 .. TmrWide - 1
    <2>1. TmrWide \in Nat \ {0} /\ e \in 1 .. TmrWide - 1
      BY TimeWraps DEF InStep
    <2>2. n + e \in Nat /\ n + e < 2 * TmrWide /\ n + 1 \in Nat /\ n + 1 < 2 * TmrWide
      BY <2>1
    <2>3. b.match = Wound(n + e) /\ now = Wound(n + 1)
      BY <2>2, TimeWraps DEF InStep
    <2> QED  BY <2>1, <2>3 DEF Wound
  <1>2. b.match = now <=> e = 1
    BY <1>1 DEF Wound
  <1>3. /\ b.opt \in {"ONE_SHOT", "PERIODIC"} /\ {b.dly, b.period} \subseteq 0 .. TmrWide - 1
        /\ IF b.opt = "PERIODIC" THEN b.period # 0 ELSE b.dly # 0
    BY DEF InStep
  <1>4. CASE e # 1
    <2>1. c.state = "RUNNING" /\ c.match = b.match /\ f = e - 1 /\ f \in 1 .. TmrWide - 1
      BY <1>1, <1>2, <1>4 DEF Expiry
    <2>2. c.match = (now + f) % TmrWide
      <3>1. now + f \in Nat /\ now + f < 2 * TmrWide
        BY <1>1, <2>1
      <3>2. (now + f) % TmrWide = Wound(now + f)
        BY <3>1, TimeWraps
      <3> QED  BY <1>1, <2>1, <3>2 DEF Wound
    <2> QED  BY <1>3, <2>1, <2>2 DEF InStep, Expiry
  <1>5. CASE e = 1 /\ b.opt = "PERIODIC"
    <2>1. c.state = "RUNNING" /\ c.match = (b.period + now) % TmrWide /\ f = b.period
      BY <1>1, <1>2, <1>5 DEF Expiry
    <2>2. f \in 1 .. TmrWide - 1 /\ b.period + now = now + f
      BY <1>1, <1>3, <1>5, <2>1
    <2> QED  BY <1>3, <2>1, <2>2 DEF InStep, Expiry
  <1>6. CASE e = 1 /\ b.opt # "PERIODIC"
    <2>1. c.state = "COMPLETED" /\ f = -1
      BY <1>2, <1>6 DEF Expiry
    <2> QED  BY <1>3, <2>1 DEF InStep, Expiry
  <1> QED  BY <1>4, <1>5, <1>6

-----------------------------------------------------------------------------
(* The timers: the invariant                                               *)

(* The timers that are not used are those of the free list fl. *)
PoolOf(tbl, p, fl) ==
    /\ ListAt(tbl, p.first, fl)
    /\ \A t \in Timer : Lists(fl, t) <=> tbl[t].state = "UNUSED"
    /\ p.free = Len(fl) /\ p.free + p.used = Cardinality(Timer)

TmrPool == [first : Timer \cup {Nil}, free : Nat, used : Int]

(* Timers, wheel and pool agree with one another and with the time. *)
Agree(w, p, n, left) ==
    /\ Sound(w)
    /\ p \in TmrPool /\ \E fl : PoolOf(w.tmr, p, fl)
    /\ n \in 0 .. TmrWide - 1 /\ left \in [Timer -> Int]
    /\ \A t \in Timer : InStep(w.tmr[t], n, left[t])

TimersInv == Agree(Now0, pool, tmrTime, expires)

LEMMA PoolKept ==
    ASSUME NEW tbl, NEW new, NEW p, \E fl : PoolOf(tbl, p, fl),
           \A u \in Timer : IF tbl[u].state = "UNUSED" THEN new[u] = tbl[u]
                            ELSE new[u].state # "UNUSED"
    PROVE  \E fl : PoolOf(new, p, fl)
PROOF
  <1>1. PICK fl : PoolOf(tbl, p, fl)
    OBVIOUS
  <1>2. PICK first : first = p.first
    OBVIOUS
  <1>3. ListAt(tbl, first, fl)
    BY <1>1, <1>2 DEF PoolOf
  <1>4. \A i \in 1 .. Len(fl) : fl[i] \in Timer /\ Lists(fl, fl[i])
    BY <1>3 DEF ListAt, Lists
  <1>5. \A i \in 1 .. Len(fl) : new[fl[i]].next = tbl[fl[i]].next
    BY <1>1, <1>4 DEF PoolOf
  <1>6. ListAt(new, first, fl)
    BY <1>3, <1>5, ListKept
  <1>7. \A t \in Timer : Lists(fl, t) <=> new[t].state = "UNUSED"
    BY <1>1 DEF PoolOf
  <1> QED  BY <1>1, <1>2, <1>6, <1>7 DEF PoolOf

LEMMA TimersStarts == TimersInit => TimersInv
PROOF
  <1> SUFFICES ASSUME TimersInit
               PROVE  TimersInv
    OBVIOUS
  <1> DEFINE n == Cardinality(Timer)
             fl == [i \in 1 .. n |-> i - 1]
  <1>1. n \in Nat \ {0} /\ Timer = 0 .. n - 1 /\ Nil \notin Timer
    BY TimersAreNumbers, TimersAssumption
  <1> HIDE DEF n
  <1>2. PICK tbl, spokes : tbl = tmr /\ spokes = wheel
    OBVIOUS
  <1>3. ASSUME NEW t \in Timer
        PROVE  /\ tbl[t] \in TmrBlock /\ tbl[t].state = "UNUSED"
               /\ tbl[t].next = IF t + 1 \in Timer THEN t + 1 ELSE Nil
    <2>1. tbl[t] = [Blank EXCEPT !.next = IF t + 1 \in Timer THEN t + 1 ELSE Nil]
      BY <1>2 DEF TimersInit, OSTmr_Init
    <2> QED  BY <2>1 DEF Blank, TmrBlock, TmrStates, Options
  <1>4. tbl \in [Timer -> TmrBlock]
    <2>1. tbl = [t \in Timer |-> tbl[t]]
      BY <1>2 DEF TimersInit, OSTmr_Init
    <2> QED  BY <1>3, <2>1
  <1>5. fl \in Seq(Timer) /\ Len(fl) = n /\ \A i \in 1 .. n : fl[i] = i - 1
    BY <1>1
  <1> HIDE DEF fl
  <1>6. ListAt(tbl, 0, fl)
    <2>1. \A i \in 1 .. n : i - 1 \in Timer /\ (i \in Timer <=> i # n)
      BY <1>1
    <2>2. ASSUME NEW i \in 1 .. n
          PROVE  tbl[fl[i]].next = IF i = n THEN Nil ELSE fl[i + 1]
      <3>1. fl[i] = i - 1 /\ i - 1 + 1 = i /\ (i # n => fl[i + 1] = i)
        BY <1>1, <1>5
      <3>2. tbl[i - 1].next = IF i \in Timer THEN i ELSE Nil
        BY <1>3, <2>1, <3>1
      <3> QED  BY <2>1, <3>1, <3>2
    <2>3. \A i, j \in 1 .. n : fl[i] = fl[j] => i = j
      BY <1>1, <1>5
    <2>4. fl[1] = 0
      BY <1>1, <1>5
    <2> QED  BY <1>1, <1>5, <2>2, <2>3, <2>4 DEF ListAt
  <1>7. \A t \in Timer : Lists(fl, t)
    <2>1. \A t \in Timer : t + 1 \in 1 .. n /\ fl[t + 1] = t
      BY <1>1, <1>5
    <2> QED  BY <1>5, <2>1 DEF Lists
  <1>8. pool = [first |-> 0, free |-> n, used |-> 0] /\ 0 \in Timer
    BY <1>1 DEF TimersInit, OSTmr_Init, n
  <1>9. pool \in TmrPool /\ PoolOf(tbl, pool, fl)
    BY <1>1, <1>3, <1>5, <1>6, <1>7, <1>8 DEF TmrPool, PoolOf, n
  <1>10. PICK w : w = [tmr |-> tbl, wheel |-> spokes]
    OBVIOUS
  <1>11. spokes \in [Spokes -> TmrSpoke] /\ \A s \in Spokes : spokes[s] = [first |-> Nil, entries |-> 0]
    BY <1>2 DEF TimersInit, OSTmr_Init, Spokes, TmrSpoke
  <1>12. WheelOf(w, [s \in Spokes |-> <<>>])
    <2>1. ASSUME NEW s \in Spokes
          PROVE  SpokeAt(w, s, <<>>)
      <3>1. <<>> \in Seq(Timer) /\ Len(<<>>) = 0 /\ 1 .. 0 = {}
        OBVIOUS
      <3> QED  BY <1>3, <1>10, <1>11, <3>1 DEF SpokeAt, ListAt, BackAt, Lists
    <2> QED  BY <1>4, <1>10, <1>11, <2>1 DEF WheelOf
  <1>13. tmrTime \in 0 .. TmrWide - 1 /\ expires \in [Timer -> Int] /\ \A t \in Timer : expires[t] = -1
    BY TimeWraps DEF TimersInit, OSTmr_Init
  <1>14. \A t \in Timer : InStep(tbl[t], tmrTime, expires[t])
    BY <1>3, <1>13 DEF InStep
  <1>15. Agree(w, pool, tmrTime, expires)
    BY <1>9, <1>10, <1>12, <1>13, <1>14 DEF Agree, Sound
  <1>16. Now0 = w
    BY <1>2, <1>10 DEF Now0
  <1> QED  BY <1>15, <1>16 DEF TimersInv

LEMMA CreateAgrees ==
    ASSUME TimersInv, NEW k \in TmrKinds, OSTmrCreate(k[1], k[2], k[3])
    PROVE  TimersInv'
PROOF
  <1>1. PICK w, w2 : w = [tmr |-> tmr, wheel |-> wheel] /\ w2 = [tmr |-> tmr', wheel |-> wheel']
    OBVIOUS
  <1>2. Agree(w, pool, tmrTime, expires)
    BY <1>1 DEF TimersInv, Now0
  <1>3. Sound(w) /\ w.tmr \in [Timer -> TmrBlock]
    BY <1>2 DEF Agree, Sound, WheelOf
  <1>4. PICK fl : PoolOf(w.tmr, pool, fl)
    BY <1>2 DEF Agree
  <1>5. PICK old, new, t : old = w.tmr /\ new = w2.tmr /\ t = pool.first
    OBVIOUS
  <1>6. /\ ListAt(old, t, fl) /\ pool.free = Len(fl) /\ pool.free + pool.used = Cardinality(Timer)
        /\ \A u \in Timer : Lists(fl, u) <=> old[u].state = "UNUSED"
    BY <1>4, <1>5 DEF PoolOf
  <1>7. t # Nil /\ pool' = [first |-> old[t].next, free |-> pool.free - 1, used |-> pool.used + 1]
    BY <1>1, <1>5 DEF OSTmrCreate, OSTmr_Alloc
  <1>8. Len(fl) \in Nat /\ 1 \in 1 .. Len(fl) /\ fl[1] = t /\ t \in Timer
    BY <1>6, <1>7 DEF ListAt
  <1>9. old[t].state = "UNUSED"
    BY <1>6, <1>8 DEF Lists
  <1>10. PICK c : c = [Blank EXCEPT !.state = "STOPPED", !.opt = k[3], !.dly = k[1], !.period = k[2]]
    OBVIOUS
  <1>11. {k[1], k[2]} \subseteq 0 .. TmrWide - 1 /\ k[3] \in {"ONE_SHOT", "PERIODIC"} /\ TmrWide \in Nat
         /\ IF k[3] = "PERIODIC" THEN k[2] # 0 ELSE k[1] # 0
    BY TimersAssumption DEF OSTmrCreate
  <1>12. /\ c \in TmrBlock /\ c.state = "STOPPED" /\ c.opt = k[3] /\ c.dly = k[1] /\ c.period = k[2]
    <2>1. PICK dly, period, opt : dly = k[1] /\ period = k[2] /\ opt = k[3]
      OBVIOUS
    <2>2. dly \in Nat /\ period \in Nat /\ opt \in Options
      BY <1>11, <2>1 DEF Options
    <2>3. c = [state |-> "STOPPED", opt |-> opt, dly |-> dly, period |-> period, match |-> 0,
               next |-> Nil, prev |-> Nil]
      BY <1>10, <2>1 DEF Blank
    <2>4. c \in TmrBlock
      BY <2>2, <2>3 DEF TmrBlock, TmrStates
    <2> QED  BY <2>1, <2>3, <2>4
  <1>13. new = [old EXCEPT ![t] = c] /\ w2.wheel = w.wheel
    BY <1>1, <1>5, <1>10 DEF OSTmrCreate
  <1>14. new \in [Timer -> TmrBlock] /\ new[t] = c /\ \A u \in Timer \ {t} : new[u] = old[u]
    BY <1>3, <1>5, <1>8, <1>12, <1>13
  <1>15. Sound(w2)
    <2>1. \A u \in Timer : IF w.tmr[u].state = "RUNNING" THEN w2.tmr[u] = w.tmr[u]
                           ELSE w2.tmr[u].state # "RUNNING"
      BY <1>5, <1>9, <1>12, <1>14
    <2>2. w2.wheel = w.wheel /\ w2.tmr \in [Timer -> TmrBlock]
      BY <1>5, <1>13, <1>14
    <2> QED  BY <1>3, <2>1, <2>2, SoundKept
  <1>16. PICK M, start, one : M = Without(fl, 1) /\ start = old[t].next /\ one = 1
    OBVIOUS
  <1>17. /\ ListAt(new, start, M) /\ Len(M) = Len(fl) - 1
         /\ \A u : Lists(M, u) <=> u # t /\ Lists(fl, u)
    <2>1. \A i \in 1 .. Len(fl) : fl[i] \in Timer /\ (i # 1 => fl[i] # t /\ i # 0)
      BY <1>6, <1>8 DEF ListAt
    <2>2. \A i \in 1 .. Len(fl) : i # one =>
             new[fl[i]].next = IF i = one - 1 THEN old[fl[one]].next ELSE old[fl[i]].next
      BY <1>14, <1>16, <2>1
    <2>3. one \in 1 .. Len(fl) /\ start = (IF one = 1 THEN old[fl[one]].next ELSE t) /\ fl[one] = t
      BY <1>8, <1>16
    <2>4. Shortened(new, start, fl, one)
      <3>1. ListAt(old, t, fl)
        BY <1>6
      <3>2. one \in 1 .. Len(fl)
        BY <2>3
      <3>3. start = IF one = 1 THEN old[fl[one]].next ELSE t
        BY <2>3
      <3> QED  BY <2>2, <3>1, <3>2, <3>3, ListCut
    <2> QED  BY <1>16, <2>3, <2>4 DEF Shortened
  <1>18. PoolOf(new, pool', M)
    <2>1. \A u \in Timer : Lists(M, u) <=> new[u].state = "UNUSED"
      BY <1>6, <1>12, <1>14, <1>17
    <2>2. pool'.first = start /\ pool'.free = Len(M) /\ pool'.free + pool'.used = Cardinality(Timer)
      <3>1. pool.used \in Int /\ pool.free \in Int /\ Cardinality(Timer) \in Nat
        BY <1>2, TimersAreNumbers DEF Agree, TmrPool
      <3> QED  BY <1>6, <1>7, <1>8, <1>16, <1>17, <3>1
    <2> QED  BY <1>17, <2>1, <2>2 DEF PoolOf
  <1>19. pool' \in TmrPool
    <2>1. old[t].next \in Timer \cup {Nil} /\ pool.used \in Int
      BY <1>2, <1>3, <1>5, <1>8 DEF Agree, TmrPool, TmrBlock
    <2> QED  BY <1>6, <1>7, <1>8, <2>1 DEF TmrPool
  <1>20. \A u \in Timer : InStep(new[u], tmrTime, expires[u])
    <2>1. InStep(c, tmrTime, expires[t])
      <3>1. expires[t] = -1
        BY <1>2, <1>5, <1>8, <1>9 DEF Agree, InStep
      <3> QED  BY <1>11, <1>12, <3>1 DEF InStep
    <2> QED  BY <1>2, <1>5, <1>14, <2>1 DEF Agree
  <1>21. tmrTime' = tmrTime /\ expires' = expires
    BY DEF OSTmrCreate
  <1>22. Agree(w2, pool', tmrTime', expires')
    BY <1>2, <1>5, <1>15, <1>18, <1>19, <1>20, <1>21 DEF Agree
  <1> QED  BY <1>1, <1>22 DEF TimersInv, Now0

LEMMA InStepAlike ==
    ASSUME NEW b, NEW c, Alike(c, b), NEW n, NEW e, InStep(b, n, e)
    PROVE  InStep(c, n, e)
PROOF BY DEF Alike, InStep

(* The timer t is in no list of v, which is w apart from that. *)
Loose(v, w, t) ==
    /\ Sound(v)
    /\ v.tmr[t].state \in {"STOPPED", "COMPLETED"}
    /\ v.tmr[t].opt = w.tmr[t].opt /\ v.tmr[t].dly = w.tmr[t].dly /\ v.tmr[t].period = w.tmr[t].period
    /\ OthersKept(v, w, t)

LEMMA UnlinkLoosens ==
    ASSUME NEW w, Sound(w), NEW t \in Timer, w.tmr[t].state # "UNUSED",
           NEW v, v = (IF w.tmr[t].state = "RUNNING" THEN OSTmr_Unlink(w, t) ELSE w)
    PROVE  Loose(v, w, t)
PROOF
  <1>1. PICK b : b = w.tmr[t]
    OBVIOUS
  <1>2. b \in TmrBlock
    BY <1>1 DEF Sound, WheelOf
  <1>3. CASE b.state = "RUNNING"
    <2>1. v = OSTmr_Unlink(w, t)
      BY <1>1, <1>3
    <2>2. Sound(v) /\ Halted(v.tmr[t], b) /\ OthersKept(v, w, t)
      BY <1>1, <1>3, <2>1, UnlinkKeeps
    <2>3. v.tmr[t].state = "STOPPED" /\ v.tmr[t].opt = b.opt /\ v.tmr[t].dly = b.dly /\ v.tmr[t].period = b.period
      BY <1>2, <2>2 DEF Halted, TmrBlock
    <2> QED  BY <1>1, <2>2, <2>3 DEF Loose
  <1>4. CASE b.state # "RUNNING"
    <2>1. v = w
      BY <1>1, <1>4
    <2>2. b.state \in {"STOPPED", "COMPLETED"}
      BY <1>1, <1>2, <1>4 DEF TmrBlock, TmrStates
    <2> QED  BY <1>1, <2>1, <2>2 DEF Loose, OthersKept, Alike
  <1> QED  BY <1>3, <1>4

LEMMA DelAgrees ==
    ASSUME TimersInv, NEW t \in Timer, OSTmrDel(t)
    PROVE  TimersInv'
PROOF
  <1>1. PICK w, w2 : w = [tmr |-> tmr, wheel |-> wheel] /\ w2 = [tmr |-> tmr', wheel |-> wheel']
    OBVIOUS
  <1>2. Agree(w, pool, tmrTime, expires)
    BY <1>1 DEF TimersInv, Now0
  <1>3. Sound(w) /\ w.tmr \in [Timer -> TmrBlock]
    BY <1>2 DEF Agree, Sound, WheelOf
  <1>4. w.tmr[t].state # "UNUSED"
    BY <1>1 DEF OSTmrDel
  <1>5. PICK v : v = (IF w.tmr[t].state = "RUNNING" THEN OSTmr_Unlink(w, t) ELSE w)
    OBVIOUS
  <1>6. Loose(v, w, t)
    BY <1>3, <1>4, <1>5, UnlinkLoosens
  <1>7. Sound(v) /\ v.tmr \in [Timer -> TmrBlock]
    BY <1>6 DEF Loose, Sound, WheelOf
  <1>8. OSTmr_Free(v, t)
    BY <1>1, <1>5 DEF OSTmrDel, Now0
  <1>9. PICK c : c = [Blank EXCEPT !.dly = v.tmr[t].dly, !.next = pool.first]
    OBVIOUS
  <1>10. c \in TmrBlock /\ c.state = "UNUSED" /\ c.next = pool.first
    <2>1. PICK dly, first : dly = v.tmr[t].dly /\ first = pool.first
      OBVIOUS
    <2>2. dly \in Nat /\ first \in Timer \cup {Nil}
      BY <1>2, <1>7, <2>1 DEF TmrBlock, Agree, TmrPool
    <2>3. c = [state |-> "UNUSED", opt |-> "NONE", dly |-> dly, period |-> 0, match |-> 0,
               next |-> first, prev |-> Nil]
      BY <1>9, <2>1 DEF Blank
    <2> QED  BY <2>1, <2>2, <2>3 DEF TmrBlock, TmrStates, Options
  <1>11. w2.tmr = [v.tmr EXCEPT ![t] = c] /\ w2.wheel = v.wheel
    <2>1. v = [tmr |-> v.tmr, wheel |-> v.wheel]
      BY <1>1, <1>5 DEF OSTmr_Unlink
    <2>2. PICK x, y : x = v.tmr /\ y = v.wheel
      OBVIOUS
    <2>3. v = [tmr |-> x, wheel |-> y]
      BY <2>1, <2>2
    <2>4. Leaves([v EXCEPT !.tmr[t] = c])
      BY <1>8, <1>9, Zenon DEF OSTmr_Free
    <2>5. [v EXCEPT !.tmr[t] = c] = [tmr |-> [x EXCEPT ![t] = c], wheel |-> y]
      BY <2>3
    <2>6. tmr' = [x EXCEPT ![t] = c] /\ wheel' = y
      BY <2>4, <2>5 DEF Leaves
    <2> QED  BY <1>1, <2>2, <2>6
  <1>12. w2.tmr \in [Timer -> TmrBlock] /\ w2.tmr[t] = c /\ \A u \in Timer \ {t} : w2.tmr[u] = v.tmr[u]
    BY <1>7, <1>10, <1>11
  <1>13. Sound(w2)
    <2>1. \A u \in Timer : IF v.tmr[u].state = "RUNNING" THEN w2.tmr[u] = v.tmr[u]
                           ELSE w2.tmr[u].state # "RUNNING"
      BY <1>6, <1>10, <1>12 DEF Loose
    <2> QED  BY <1>7, <1>11, <1>12, <2>1, SoundKept
  <1>14. \A u \in Timer \ {t} : /\ Alike(w2.tmr[u], w.tmr[u])
                                /\ w.tmr[u].state # "RUNNING" => w2.tmr[u] = w.tmr[u]
    BY <1>6, <1>12 DEF Loose, OthersKept
  <1>15. PICK fl, first : PoolOf(w.tmr, pool, fl) /\ first = pool.first
    BY <1>2 DEF Agree
  <1>16. PICK old, new, M : old = w.tmr /\ new = w2.tmr /\ M = Pushed(t, fl)
    OBVIOUS
  <1>17. /\ ListAt(old, first, fl) /\ pool.free = Len(fl) /\ pool.free + pool.used = Cardinality(Timer)
         /\ \A u \in Timer : Lists(fl, u) <=> old[u].state = "UNUSED"
    BY <1>15, <1>16 DEF PoolOf
  <1>18. Len(fl) \in Nat /\ \A i \in 1 .. Len(fl) : fl[i] \in Timer /\ Lists(fl, fl[i])
    BY <1>17 DEF ListAt, Lists
  <1>19. /\ ListAt(new, t, M) /\ Len(M) = Len(fl) + 1
         /\ \A u : Lists(M, u) <=> u = t \/ Lists(fl, u)
    <2>1. ~ Lists(fl, t)
      BY <1>4, <1>16, <1>17
    <2>2. \A i \in 1 .. Len(fl) : new[fl[i]].next = old[fl[i]].next
      <3>1. ASSUME NEW i \in 1 .. Len(fl)
            PROVE  new[fl[i]] = old[fl[i]]
        <4>1. fl[i] \in Timer \ {t} /\ old[fl[i]].state = "UNUSED"
          BY <1>17, <1>18, <2>1
        <4> QED  BY <1>14, <1>16, <4>1
      <3> QED  BY <3>1
    <2>3. new[t].next = first
      BY <1>10, <1>12, <1>15, <1>16
    <2>4. ListAt(old, first, fl)
      BY <1>17
    <2> QED  BY <1>16, <2>1, <2>2, <2>3, <2>4, ListPushed
  <1>20. pool' = [first |-> t, free |-> pool.free + 1, used |-> pool.used - 1]
    BY <1>8 DEF OSTmr_Free
  <1>21. PoolOf(new, pool', M) /\ pool' \in TmrPool
    <2>1. \A u \in Timer : Lists(M, u) <=> new[u].state = "UNUSED"
      <3>1. \A u \in Timer \ {t} : old[u].state = new[u].state
        BY <1>14, <1>16 DEF Alike
      <3> QED  BY <1>10, <1>12, <1>16, <1>17, <1>19, <3>1
    <2>2. pool.used \in Int /\ pool.free \in Int /\ Cardinality(Timer) \in Nat
      BY <1>2, TimersAreNumbers DEF Agree, TmrPool
    <2>3. pool'.first = t /\ pool'.free = Len(M) /\ pool'.free + pool'.used = Cardinality(Timer)
      BY <1>17, <1>18, <1>19, <1>20, <2>2
    <2>4. pool' \in TmrPool
      BY <1>17, <1>18, <1>20, <2>2 DEF TmrPool
    <2> QED  BY <1>19, <2>1, <2>3, <2>4 DEF PoolOf
  <1>22. PICK left : left = expires'
    OBVIOUS
  <1>23. left \in [Timer -> Int] /\ left[t] = -1 /\ \A u \in Timer \ {t} : left[u] = expires[u]
    <2>1. left = [expires EXCEPT ![t] = -1]
      BY <1>22 DEF OSTmrDel
    <2> QED  BY <1>2, <2>1 DEF Agree
  <1>24. \A u \in Timer : InStep(new[u], tmrTime, left[u])
    <2>1. InStep(new[t], tmrTime, left[t])
      BY <1>10, <1>12, <1>16, <1>23 DEF InStep
    <2>2. ASSUME NEW u \in Timer \ {t}
          PROVE  InStep(new[u], tmrTime, left[u])
      <3>1. InStep(w.tmr[u], tmrTime, expires[u])
        BY <1>2 DEF Agree
      <3> QED  BY <1>14, <1>16, <1>23, <3>1, InStepAlike
    <2> QED  BY <2>1, <2>2
  <1>25. tmrTime' = tmrTime
    BY DEF OSTmrDel
  <1>26. Agree(w2, pool', tmrTime', expires')
    BY <1>2, <1>13, <1>16, <1>21, <1>22, <1>23, <1>24, <1>25 DEF Agree
  <1> QED  BY <1>1, <1>26 DEF TimersInv, Now0

LEMMA StartAgrees ==
    ASSUME TimersInv, NEW t \in Timer, OSTmrStart(t)
    PROVE  TimersInv'
PROOF
  <1>1. PICK w, w2 : w = [tmr |-> tmr, wheel |-> wheel] /\ w2 = [tmr |-> tmr', wheel |-> wheel']
    OBVIOUS
  <1>2. Agree(w, pool, tmrTime, expires)
    BY <1>1 DEF TimersInv, Now0
  <1>3. Sound(w) /\ w.tmr \in [Timer -> TmrBlock]
    BY <1>2 DEF Agree, Sound, WheelOf
  <1>4. PICK b : b = w.tmr[t]
    OBVIOUS
  <1>5. b \in TmrBlock /\ b.state # "UNUSED" /\ InStep(b, tmrTime, expires[t])
    <2>1. b.state # "UNUSED"
      BY <1>1, <1>4 DEF OSTmrStart
    <2> QED  BY <1>2, <1>3, <1>4, <2>1 DEF Agree
  <1>6. PICK v : v = (IF w.tmr[t].state = "RUNNING" THEN OSTmr_Unlink(w, t) ELSE w)
    OBVIOUS
  <1>7. Loose(v, w, t)
    BY <1>3, <1>4, <1>5, <1>6, UnlinkLoosens
  <1>8. PICK turns, r : turns = Turns(b) /\ r = OSTmr_Link(v, t, tmrTime, turns)
    OBVIOUS
  <1>9. /\ b.opt \in {"ONE_SHOT", "PERIODIC"} /\ b.dly \in 0 .. TmrWide - 1 /\ b.period \in 0 .. TmrWide - 1
        /\ IF b.opt = "PERIODIC" THEN b.period # 0 ELSE b.dly # 0
    BY <1>5 DEF InStep
  <1>10. turns \in 1 .. TmrWide - 1 /\ tmrTime \in 0 .. TmrWide - 1
    BY <1>2, <1>8, <1>9, TimeWraps DEF Turns, Agree
  <1>11. Sound(r) /\ Started(r.tmr[t], v.tmr[t], (turns + tmrTime) % TmrWide) /\ OthersKept(r, v, t)
    <2>1. Sound(v) /\ v.tmr[t].state # "RUNNING"
      BY <1>7 DEF Loose
    <2>2. turns \in Nat /\ tmrTime \in Nat
      BY <1>10
    <2>3. PICK now : now = tmrTime
      OBVIOUS
    <2>4. now \in Nat /\ r = OSTmr_Link(v, t, now, turns)
      BY <1>8, <2>2, <2>3
    <2>5. Sound(r) /\ Started(r.tmr[t], v.tmr[t], (turns + now) % TmrWide) /\ OthersKept(r, v, t)
      BY <2>1, <2>2, <2>4, LinkKeeps
    <2> QED  BY <2>3, <2>5
  <1>12. r = w2
    <2>1. Leaves(r)
      BY <1>1, <1>4, <1>6, <1>8 DEF OSTmrStart, Now0
    <2>2. r = [tmr |-> r.tmr, wheel |-> r.wheel]
      BY <1>8 DEF OSTmr_Link
    <2> QED  BY <1>1, <2>1, <2>2 DEF Leaves
  <1>13. \A u \in Timer \ {t} : /\ Alike(r.tmr[u], w.tmr[u])
                                /\ w.tmr[u].state # "RUNNING" => r.tmr[u] = w.tmr[u]
    <2>1. ASSUME NEW u \in Timer \ {t}
          PROVE  /\ Alike(r.tmr[u], w.tmr[u])
                 /\ w.tmr[u].state # "RUNNING" => r.tmr[u] = w.tmr[u]
      <3>1. /\ Alike(r.tmr[u], v.tmr[u]) /\ (v.tmr[u].state # "RUNNING" => r.tmr[u] = v.tmr[u])
            /\ Alike(v.tmr[u], w.tmr[u]) /\ (w.tmr[u].state # "RUNNING" => v.tmr[u] = w.tmr[u])
        BY <1>7, <1>11 DEF Loose, OthersKept
      <3> QED  BY <3>1 DEF Alike
    <2> QED  BY <2>1
  <1>14. /\ r.tmr[t].state = "RUNNING" /\ r.tmr[t].match = (tmrTime + turns) % TmrWide
         /\ r.tmr[t].opt = b.opt /\ r.tmr[t].dly = b.dly /\ r.tmr[t].period = b.period
    <2>1. turns + tmrTime = tmrTime + turns
      BY <1>10
    <2> QED  BY <1>4, <1>7, <1>11, <2>1 DEF Loose, Started
  <1>15. \E fl : PoolOf(r.tmr, pool, fl)
    <2>1. PICK old, new, p : old = w.tmr /\ new = r.tmr /\ p = pool
      OBVIOUS
    <2>2. \E fl : PoolOf(old, p, fl)
      BY <1>2, <2>1 DEF Agree
    <2>3. ASSUME NEW u \in Timer
          PROVE  IF old[u].state = "UNUSED" THEN new[u] = old[u] ELSE new[u].state # "UNUSED"
      <3>1. CASE u = t
        BY <1>4, <1>5, <1>14, <2>1, <3>1
      <3>2. CASE u # t
        BY <1>13, <2>1, <3>2 DEF Alike
      <3> QED  BY <3>1, <3>2
    <2>4. \E fl : PoolOf(new, p, fl)
      BY <2>2, <2>3, PoolKept
    <2> QED  BY <2>1, <2>4
  <1>16. PICK left : left = expires'
    OBVIOUS
  <1>17. left \in [Timer -> Int] /\ left[t] = turns /\ \A u \in Timer \ {t} : left[u] = expires[u]
    <2>1. left = [expires EXCEPT ![t] = turns]
      BY <1>1, <1>4, <1>8, <1>16 DEF OSTmrStart
    <2> QED  BY <1>2, <1>10, <2>1 DEF Agree
  <1>18. \A u \in Timer : InStep(r.tmr[u], tmrTime, left[u])
    <2>1. InStep(r.tmr[t], tmrTime, left[t])
      BY <1>9, <1>10, <1>14, <1>17 DEF InStep
    <2>2. ASSUME NEW u \in Timer \ {t}
          PROVE  InStep(r.tmr[u], tmrTime, left[u])
      <3>1. InStep(w.tmr[u], tmrTime, expires[u])
        BY <1>2 DEF Agree
      <3> QED  BY <1>13, <1>17, <3>1, InStepAlike
    <2> QED  BY <2>1, <2>2
  <1>19. tmrTime' = tmrTime /\ pool' = pool
    BY DEF OSTmrStart
  <1>20. Agree(r, pool', tmrTime', expires')
    BY <1>2, <1>11, <1>15, <1>16, <1>17, <1>18, <1>19 DEF Agree
  <1> QED  BY <1>1, <1>12, <1>20 DEF TimersInv, Now0

LEMMA StopAgrees ==
    ASSUME TimersInv, NEW t \in Timer, OSTmrStop(t)
    PROVE  TimersInv'
PROOF
  <1>1. PICK w, w2 : w = [tmr |-> tmr, wheel |-> wheel] /\ w2 = [tmr |-> tmr', wheel |-> wheel']
    OBVIOUS
  <1>2. Agree(w, pool, tmrTime, expires)
    BY <1>1 DEF TimersInv, Now0
  <1>3. Sound(w) /\ w.tmr[t].state = "RUNNING"
    BY <1>1, <1>2 DEF Agree, OSTmrStop
  <1>4. PICK v : v = (IF w.tmr[t].state = "RUNNING" THEN OSTmr_Unlink(w, t) ELSE w)
    OBVIOUS
  <1>5. Loose(v, w, t)
    BY <1>3, <1>4, UnlinkLoosens
  <1>6. v = w2
    <2>1. Leaves(v)
      BY <1>1, <1>3, <1>4 DEF OSTmrStop, Now0
    <2>2. v = [tmr |-> v.tmr, wheel |-> v.wheel]
      BY <1>3, <1>4 DEF OSTmr_Unlink
    <2> QED  BY <1>1, <2>1, <2>2 DEF Leaves
  <1>7. \A u \in Timer \ {t} : /\ Alike(v.tmr[u], w.tmr[u])
                               /\ w.tmr[u].state # "RUNNING" => v.tmr[u] = w.tmr[u]
    BY <1>5 DEF Loose, OthersKept
  <1>8. \E fl : PoolOf(v.tmr, pool, fl)
    <2>1. PICK old, new, p : old = w.tmr /\ new = v.tmr /\ p = pool
      OBVIOUS
    <2>2. \E fl : PoolOf(old, p, fl)
      BY <1>2, <2>1 DEF Agree
    <2>3. ASSUME NEW u \in Timer
          PROVE  IF old[u].state = "UNUSED" THEN new[u] = old[u] ELSE new[u].state # "UNUSED"
      <3>1. CASE u = t
        BY <1>3, <1>5, <2>1, <3>1 DEF Loose
      <3>2. CASE u # t
        BY <1>7, <2>1, <3>2 DEF Alike
      <3> QED  BY <3>1, <3>2
    <2>4. \E fl : PoolOf(new, p, fl)
      BY <2>2, <2>3, PoolKept
    <2> QED  BY <2>1, <2>4
  <1>9. PICK left : left = expires'
    OBVIOUS
  <1>10. left \in [Timer -> Int] /\ left[t] = -1 /\ \A u \in Timer \ {t} : left[u] = expires[u]
    <2>1. left = [expires EXCEPT ![t] = -1]
      BY <1>9 DEF OSTmrStop
    <2> QED  BY <1>2, <2>1 DEF Agree
  <1>11. \A u \in Timer : InStep(v.tmr[u], tmrTime, left[u])
    <2>1. InStep(v.tmr[t], tmrTime, left[t])
      <3>1. InStep(w.tmr[t], tmrTime, expires[t])
        BY <1>2 DEF Agree
      <3> QED  BY <1>3, <1>5, <1>10, <3>1 DEF InStep, Loose
    <2>2. ASSUME NEW u \in Timer \ {t}
          PROVE  InStep(v.tmr[u], tmrTime, left[u])
      <3>1. InStep(w.tmr[u], tmrTime, expires[u])
        BY <1>2 DEF Agree
      <3> QED  BY <1>7, <1>10, <3>1, InStepAlike
    <2> QED  BY <2>1, <2>2
  <1>12. tmrTime' = tmrTime /\ pool' = pool
    BY DEF OSTmrStop
  <1>13. Agree(v, pool', tmrTime', expires')
    BY <1>2, <1>5, <1>8, <1>9, <1>10, <1>11, <1>12 DEF Agree, Loose
  <1> QED  BY <1>1, <1>6, <1>13 DEF TimersInv, Now0

LEMMA TaskAgrees ==
    ASSUME TimersInv, OSTmr_Task
    PROVE  TimersInv'
PROOF
  <1>1. PICK w, w2 : w = [tmr |-> tmr, wheel |-> wheel] /\ w2 = [tmr |-> tmr', wheel |-> wheel']
    OBVIOUS
  <1>2. Agree(w, pool, tmrTime, expires)
    BY <1>1 DEF TimersInv, Now0
  <1>3. Sound(w) /\ w.tmr \in [Timer -> TmrBlock] /\ tmrTime \in 0 .. TmrWide - 1
    BY <1>2 DEF Agree, Sound, WheelOf
  <1>4. PICK now, r : now = (tmrTime + 1) % TmrWide /\ r = Served(w, Chain(w.tmr, w.wheel[Spoke(now)].first), now)
    OBVIOUS
  <1>5. now \in 0 .. TmrWide - 1
    <2>1. TmrWide \in Nat \ {0} /\ tmrTime + 1 \in Nat /\ tmrTime + 1 < 2 * TmrWide
      BY <1>3, TimeWraps
    <2>2. now = Wound(tmrTime + 1)
      BY <1>4, <2>1, TimeWraps
    <2> QED  BY <1>3, <2>1, <2>2 DEF Wound
  <1>6. /\ Sound(r)
        /\ \A u \in Timer : IF w.tmr[u].state = "RUNNING" THEN Expiry(r.tmr[u], w.tmr[u], now)
                            ELSE r.tmr[u] = w.tmr[u]
    <2>1. now \in Nat
      BY <1>5
    <2>2. Turned(r, w, now)
      BY <1>3, <1>4, <2>1, TurnTurns
    <2> QED  BY <2>2 DEF Turned
  <1>7. tmr' = r.tmr /\ wheel' = r.wheel
    <2>1. Leaves(Served(Now0, Chain(tmr, wheel[Spoke((tmrTime + 1) % TmrWide)].first), (tmrTime + 1) % TmrWide))
      BY Zenon DEF OSTmr_Task, Served
    <2>2. Now0 = w /\ tmr = w.tmr /\ wheel = w.wheel
      BY <1>1 DEF Now0
    <2>3. Leaves(r)
      BY <1>4, <2>1, <2>2, Zenon
    <2> QED  BY <2>3, Zenon DEF Leaves
  <1>8. w2.tmr = r.tmr /\ w2.wheel = r.wheel
    BY <1>1, <1>7
  <1>9. Sound(w2)
    <2>1. r.tmr \in [Timer -> TmrBlock]
      BY <1>6 DEF Sound, WheelOf
    <2>2. \A u \in Timer : IF r.tmr[u].state = "RUNNING" THEN w2.tmr[u] = r.tmr[u]
                           ELSE w2.tmr[u].state # "RUNNING"
      BY <1>8
    <2> QED  BY <1>6, <1>8, <2>1, <2>2, SoundKept
  <1>10. \E fl : PoolOf(w2.tmr, pool, fl)
    <2>1. PICK old, new, p : old = w.tmr /\ new = w2.tmr /\ p = pool
      OBVIOUS
    <2>2. \E fl : PoolOf(old, p, fl)
      BY <1>2, <2>1 DEF Agree
    <2>3. ASSUME NEW u \in Timer
          PROVE  IF old[u].state = "UNUSED" THEN new[u] = old[u] ELSE new[u].state # "UNUSED"
      <3>1. CASE old[u].state = "RUNNING"
        <4>1. Expiry(new[u], old[u], now)
          BY <1>6, <1>8, <2>1, <3>1
        <4>2. new[u].state # "UNUSED"
          BY <3>1, <4>1 DEF Expiry
        <4> QED  BY <3>1, <4>2
      <3>2. CASE old[u].state # "RUNNING"
        BY <1>6, <1>8, <2>1, <3>2
      <3> QED  BY <3>1, <3>2
    <2>4. \E fl : PoolOf(new, p, fl)
      BY <2>2, <2>3, PoolKept
    <2> QED  BY <2>1, <2>4
  <1>11. PICK left : left = expires'
    OBVIOUS
  <1>12. left = [u \in Timer |-> IF expires[u] # 1 THEN IF expires[u] = -1 THEN -1 ELSE expires[u] - 1
                                ELSE IF w.tmr[u].opt = "PERIODIC" THEN w.tmr[u].period ELSE -1]
    BY <1>1, <1>11, Zenon DEF OSTmr_Task
  <1>13. left \in [Timer -> Int]
    <2>1. \A u \in Timer : expires[u] \in Int /\ w.tmr[u].period \in Int
      BY <1>2, <1>3 DEF Agree, TmrBlock
    <2> QED  BY <1>12, <2>1
  <1>14. ASSUME NEW u \in Timer
         PROVE  InStep(w2.tmr[u], now, left[u])
    <2>1. PICK b, e, c, f : b = w.tmr[u] /\ e = expires[u] /\ c = w2.tmr[u] /\ f = left[u]
      OBVIOUS
    <2>2. b \in TmrBlock /\ InStep(b, tmrTime, e)
      BY <1>2, <1>3, <2>1 DEF Agree
    <2>3. f = (IF e # 1 THEN IF e = -1 THEN -1 ELSE e - 1
               ELSE IF b.opt = "PERIODIC" THEN b.period ELSE -1)
      BY <1>12, <2>1
    <2>4. CASE b.state = "RUNNING"
      <3>1. Expiry(c, b, now)
        BY <1>6, <1>8, <2>1, <2>4
      <3>2. PICK n : n = tmrTime
        OBVIOUS
      <3>3. n \in 0 .. TmrWide - 1 /\ InStep(b, n, e) /\ now = (n + 1) % TmrWide
        BY <1>3, <1>4, <2>2, <3>2
      <3>4. InStep(c, now, f)
        BY <2>2, <2>3, <2>4, <3>1, <3>3, InStepTurns
      <3> QED  BY <2>1, <3>4
    <2>5. CASE b.state # "RUNNING"
      <3>1. c = b
        BY <1>6, <1>8, <2>1, <2>5
      <3>2. e = -1 /\ f = -1
        BY <2>2, <2>3, <2>5 DEF InStep
      <3>3. InStep(c, now, f)
        BY <2>2, <2>5, <3>1, <3>2 DEF InStep
      <3> QED  BY <2>1, <3>3
    <2> QED  BY <2>4, <2>5
  <1>15. tmrTime' = now /\ pool' = pool
    BY <1>4, Zenon DEF OSTmr_Task
  <1>16. Agree(w2, pool', tmrTime', expires')
    BY <1>2, <1>5, <1>9, <1>10, <1>11, <1>13, <1>14, <1>15 DEF Agree
  <1> QED  BY <1>1, <1>16 DEF TimersInv, Now0

LEMMA TimersSteps == TimersInv /\ (TimersNext \/ UNCHANGED timersVars) => TimersInv'
PROOF
  <1> SUFFICES ASSUME TimersInv, TimersNext \/ UNCHANGED timersVars
               PROVE  TimersInv'
    OBVIOUS
  <1>1. CASE \E k \in TmrKinds : OSTmrCreate(k[1], k[2], k[3])
    BY <1>1, CreateAgrees
  <1>2. CASE \E t \in Timer : OSTmrDel(t) \/ OSTmrStart(t) \/ OSTmrStop(t)
    BY <1>2, DelAgrees, StartAgrees, StopAgrees
  <1>3. CASE OSTmrSignal \/ UNCHANGED timersVars
    <2>1. UNCHANGED <<tmr, wheel, pool, tmrTime, expires>>
      BY <1>3 DEF OSTmrSignal, timersVars
    <2> QED  BY <2>1 DEF TimersInv, Now0
  <1>4. CASE OSTmr_Task
    BY <1>4, TaskAgrees
  <1> QED  BY <1>1, <1>2, <1>3, <1>4 DEF TimersNext

LEMMA TimersHoldInv == TimersInv => TimersHold
PROOF
  <1> SUFFICES ASSUME TimersInv
               PROVE  TimersHold
    OBVIOUS
  <1>1. PICK w : w = [tmr |-> tmr, wheel |-> wheel]
    OBVIOUS
  <1>2. Agree(w, pool, tmrTime, expires) /\ w.tmr = tmr /\ w.wheel = wheel
    BY <1>1 DEF TimersInv, Now0
  <1>3. PICK lists : WheelOf(w, lists)
    BY <1>2 DEF Agree, Sound
  <1>4. ASSUME NEW tbl, NEW first, NEW L, ListAt(tbl, first, L)
        PROVE  /\ Chain(tbl, first) = L /\ IsInjective(L)
               /\ \A S \in SUBSET Timer : (\A t \in Timer : Lists(L, t) <=> t \in S) => ToSet(L) = S
    <2>1. L \in Seq(Timer) /\ DOMAIN L = 1 .. Len(L) /\ (\A i \in 1 .. Len(L) : L[i] \in Timer)
          /\ \A i, j \in 1 .. Len(L) : L[i] = L[j] => i = j
      BY <1>4 DEF ListAt
    <2>2. Chain(tbl, first) = L
      BY <1>4, ChainIs
    <2>3. IsInjective(L)
      BY <2>1 DEF IsInjective
    <2>4. ASSUME NEW S \in SUBSET Timer, \A t \in Timer : Lists(L, t) <=> t \in S
          PROVE  ToSet(L) = S
      BY <2>1, <2>4 DEF ToSet, Lists
    <2> QED  BY <2>2, <2>3, <2>4
  <1>5. ASSUME NEW s \in 0 .. WheelSize - 1
        PROVE  LET list == Chain(tmr, wheel[s].first) IN
               /\ ToSet(list) = {t \in Timer : tmr[t].state = "RUNNING" /\ Spoke(tmr[t].match) = s}
               /\ Len(list) = wheel[s].entries /\ IsInjective(list)
               /\ \A i \in 1 .. Len(list) : tmr[list[i]].prev = IF i = 1 THEN Nil ELSE list[i - 1]
    <2>1. PICK L, first, tbl : L = lists[s] /\ first = wheel[s].first /\ tbl = tmr
      OBVIOUS
    <2>2. SpokeAt(w, s, L)
      BY <1>3, <2>1 DEF WheelOf, Spokes
    <2>3. /\ ListAt(tbl, first, L) /\ BackAt(tbl, L) /\ wheel[s].entries = Len(L)
          /\ \A t \in Timer : Lists(L, t) <=> tbl[t].state = "RUNNING" /\ Spoke(tbl[t].match) = s
      BY <1>2, <2>1, <2>2 DEF SpokeAt
    <2>4. PICK S : S = {t \in Timer : tbl[t].state = "RUNNING" /\ Spoke(tbl[t].match) = s}
      OBVIOUS
    <2>5. S \in SUBSET Timer /\ \A t \in Timer : Lists(L, t) <=> t \in S
      BY <2>3, <2>4
    <2>6. Chain(tbl, first) = L /\ IsInjective(L)
      BY <1>4, <2>3
    <2>7. ToSet(L) = S
      BY <1>4, <2>3, <2>5
    <2> QED  BY <2>1, <2>3, <2>4, <2>6, <2>7 DEF BackAt
  <1>6. LET list == Chain(tmr, pool.first) IN
          /\ ToSet(list) = {t \in Timer : tmr[t].state = "UNUSED"}
          /\ Len(list) = pool.free /\ pool.free + pool.used = Cardinality(Timer)
    <2>1. PICK fl, first, tbl : PoolOf(tbl, pool, fl) /\ first = pool.first /\ tbl = tmr
      BY <1>2 DEF Agree
    <2>2. /\ ListAt(tbl, first, fl) /\ pool.free = Len(fl) /\ pool.free + pool.used = Cardinality(Timer)
          /\ \A t \in Timer : Lists(fl, t) <=> tbl[t].state = "UNUSED"
      BY <2>1 DEF PoolOf
    <2>3. PICK S : S = {t \in Timer : tbl[t].state = "UNUSED"}
      OBVIOUS
    <2>4. S \in SUBSET Timer /\ \A t \in Timer : Lists(fl, t) <=> t \in S
      BY <2>2, <2>3
    <2>5. Chain(tbl, first) = fl
      BY <1>4, <2>2
    <2>6. ToSet(fl) = S
      BY <1>4, <2>2, <2>4
    <2> QED  BY <2>1, <2>2, <2>3, <2>5, <2>6
  <1>7. WheelIsSound
    BY <1>5, <1>6 DEF WheelIsSound
  <1>8. ASSUME NEW t \in Timer
        PROVE  /\ expires[t] # -1 <=> OSTmrStateGet(t) = "RUNNING"
               /\ expires[t] # -1 => OSTmrRemainGet(t) = expires[t] /\ expires[t] > 0
               /\ OSTmrStateGet(t) = "STOPPED" => OSTmrRemainGet(t) = Turns(tmr[t])
    <2>1. PICK b, e, n : b = tmr[t] /\ e = expires[t] /\ n = tmrTime
      OBVIOUS
    <2>2. InStep(b, n, e) /\ n \in 0 .. TmrWide - 1
      BY <1>2, <2>1 DEF Agree
    <2>3. OSTmrStateGet(t) = b.state
      BY <2>1 DEF OSTmrStateGet
    <2>4. CASE b.state = "RUNNING"
      <3>1. e \in 1 .. TmrWide - 1 /\ b.match = (n + e) % TmrWide /\ TmrWide \in Nat \ {0}
        BY <2>2, <2>4, TimeWraps DEF InStep
      <3>2. b.match = Wound(n + e) /\ b.match \in 0 .. TmrWide - 1
        <4>1. n + e \in Nat /\ n + e < 2 * TmrWide
          BY <2>2, <3>1
        <4>2. b.match = Wound(n + e)
          BY <3>1, <4>1, TimeWraps
        <4> QED  BY <2>2, <3>1, <4>1, <4>2 DEF Wound
      <3>3. (b.match - n) % TmrWide = IF b.match >= n THEN b.match - n ELSE b.match - n + TmrWide
        BY <2>2, <3>2, TimeWraps
      <3>4. (b.match - n) % TmrWide = e
        BY <2>2, <3>1, <3>2, <3>3 DEF Wound
      <3>5. OSTmrRemainGet(t) = (b.match - n) % TmrWide
        BY <2>1, <2>4 DEF OSTmrRemainGet
      <3> QED  BY <2>1, <2>3, <2>4, <3>1, <3>4, <3>5
    <2>5. CASE b.state = "STOPPED"
      <3>1. e = -1 /\ OSTmrRemainGet(t) = (IF b.opt = "PERIODIC" THEN Turns(b) ELSE b.dly)
        BY <2>1, <2>2, <2>5 DEF InStep, OSTmrRemainGet
      <3>2. b.opt # "PERIODIC" => Turns(b) = b.dly
        BY <2>2, <2>5 DEF InStep, Turns
      <3> QED  BY <2>1, <2>3, <2>5, <3>1, <3>2
    <2>6. CASE b.state # "RUNNING" /\ b.state # "STOPPED"
      <3>1. e = -1
        BY <2>2, <2>6 DEF InStep
      <3> QED  BY <2>1, <2>3, <2>6, <3>1
    <2> QED  BY <2>4, <2>5, <2>6
  <1>9. TimersOnTime
    BY <1>8 DEF TimersOnTime
  <1> QED  BY <1>7, <1>9 DEF TimersHold

-----------------------------------------------------------------------------
(* The bench: the steps that are not a part's own leave its variables alone. *)

LEMMA PartsRest ==
    ASSUME [BoardNext]_boardVars
    PROVE  /\ AdcNext \/ UNCHANGED adcVars
           /\ LockNext \/ RegionsNext \/ UNCHANGED heapVars
           /\ InterruptsNext \/ UNCHANGED interruptsVars
           /\ FilesNext \/ UNCHANGED filesVars
           /\ PrintNext \/ ScanNext \/ UNCHANGED consoleVars
           /\ AlarmsNext \/ WallNext \/ DelayNext \/ UNCHANGED clockVars
           /\ TimersNext \/ UNCHANGED timersVars
           /\ StartupNext \/ UNCHANGED startupVars
           /\ UsageNext \/ StacksNext \/ UNCHANGED statisticsVars
           /\ RegistryNext \/ UNCHANGED registryVars
PROOF
  <1>1. CASE UNCHANGED boardVars
    BY <1>1 DEF boardVars
  <1>2. CASE BoardNext
    BY <1>2 DEF BoardNext, Only
  <1> QED  BY <1>1, <1>2

(* A call of ADC_Read that no other task touches returns a conversion of    *)
(* its own channel, whatever was suspended or resumed before it, for every  *)
(* set of tasks and channels (adc_spi_read.c 15-26).                        *)
THEOREM ReadingIsOwnAlways == BoardSpec => []ReadingIsOwn
PROOF
  <1>1. BoardInit => AdcInv
    BY AdcStarts DEF BoardInit
  <1>2. AdcInv /\ [BoardNext]_boardVars => AdcInv'
    BY PartsRest, AdcSteps
  <1> QED  BY <1>1, <1>2, ReadingIsOwnInv, PTL DEF BoardSpec

(* malloc's lock has one owner who can take it again, the environment's has *)
(* one owner, no two regions of sbrk overlap, and a partition's free list   *)
(* holds exactly what is not given out: for every set of tasks, depth, heap *)
(* and partition (alt_malloc_lock.c 91, 134-138, alt_sbrk.c 96-125).        *)
THEOREM HeapHoldsAlways == BoardSpec => []HeapHolds
PROOF
  <1>1. BoardInit => HeapInv
    BY HeapStarts DEF BoardInit
  <1>2. HeapInv /\ [BoardNext]_boardVars => HeapInv'
    BY PartsRest, HeapSteps
  <1>3. HeapInv => HeapHolds
    BY HeapHoldsInv DEF HeapInv
  <1> QED  BY <1>1, <1>2, <1>3, PTL DEF BoardSpec

(* A handler is started only with the context it was registered with, by a  *)
(* dispatcher that calls a registered line's handler alone, never for a     *)
(* line of lower or equal priority than one it interrupts: for every set    *)
(* of lines, handlers and tasks that register (alt_irq_handler.c 80-167,    *)
(* alt_legacy_irq.h 68-149, alt_iic_isr_register.c 75-100).                 *)
THEOREM HandlersFitAlways == BoardSpec => []HandlersFit
PROOF
  <1>1. BoardInit => InterruptsInv
    BY InterruptsStart DEF BoardInit
  <1>2. InterruptsInv /\ [BoardNext]_boardVars => InterruptsInv'
    BY PartsRest, InterruptsSteps, InterruptsRest
  <1> QED  BY <1>1, <1>2, HandlersFitInv, PTL DEF BoardSpec

(* A descriptor goes on naming what its task opened and is no other task's, *)
(* an exclusive device has one descriptor but for those overlooked, and a   *)
(* driver works on the device it was called for: for every set of tasks and *)
(* size of the table (alt_get_fd.c 64-98, alt_release_fd.c 48-49,           *)
(* alt_fd_lock.c 54-75).                                                    *)
THEOREM DescriptorsHoldAlways == BoardSpec => []DescriptorsHold
PROOF
  <1>1. BoardInit => FilesInv
    BY FilesStart DEF BoardInit
  <1>2. FilesInv /\ [BoardNext]_boardVars => FilesInv'
    BY PartsRest, FilesSteps
  <1> QED  BY <1>1, <1>2, DescriptorsHoldInv, PTL DEF BoardSpec

(* An alarm runs on the tick it was set for, the time of day goes on from   *)
(* what it was set to, and a wait lasts as long as it was asked to: for     *)
(* every width of the counter, rate and choice of alarms, days and delays.  *)
(* One number of ticks is excepted, the largest: alt_alarm_start then takes *)
(* the counter's wrap for none and the alarm runs on the next tick          *)
(* (alt_tick.c 109-138, alt_alarm_start.c 82-96, alt_settod.c 82-84,        *)
(* os_time.c 106-136, alt_busy_sleep.c 52-133).                             *)
THEOREM ClockHoldsAlways ==
    ASSUME Wide - 1 \notin Period
    PROVE  BoardSpec => []ClockHolds
PROOF
  <1>1. BoardInit => ClockInv
    BY ClockStarts DEF BoardInit
  <1>2. ClockInv /\ [BoardNext]_boardVars => ClockInv'
    BY PartsRest, ClockSteps
  <1> QED  BY <1>1, <1>2, ClockHoldsInv, PTL DEF BoardSpec

(* No byte of the console is lost, mixed with another task's or left lying, *)
(* and no task sleeps on it while what it waits for is there: for every set *)
(* of printing tasks, size of the rings and depth of the hardware           *)
(* (altera_avalon_jtag_uart_write.c 98-202, ..._read.c 80-164, ..._init.c   *)
(* 106-197).                                                                *)
THEOREM ConsoleHoldsAlways == BoardSpec => []ConsoleHolds
PROOF
  <1>1. BoardInit => ConsoleInv
    BY ConsoleStarts DEF BoardInit
  <1>2. ConsoleInv /\ [BoardNext]_boardVars => ConsoleInv'
    BY PartsRest, ConsoleSteps
  <1> QED  BY <1>1, <1>2, ConsoleAgrees, PTL DEF BoardSpec

(* Nothing starts before what it needs, the usage is the share of the work  *)
(* and no stack is said deeper than it has been, and no name or request to  *)
(* delete is taken for another block's: for every order of creation, speed  *)
(* of the idle task, size of a stack and set of control blocks, where the   *)
(* events and the queues that the start takes are there (OS_MAX_EVENTS and  *)
(* OS_MAX_QS of system.h are 60 and 20; alt_main.c 82-160, os_core.c        *)
(* 183-230, 785-834, 1809-1880, 1926-2012).                                 *)
THEOREM KernelSidesHoldAlways ==
    ASSUME MaxEvents >= 6, MaxQs >= 1
    PROVE  BoardSpec => []KernelSidesHold
PROOF
  <1> DEFINE Inv == StartupInv /\ UsageInv /\ StacksInv /\ RegistryInv
  <1>1. BoardInit => Inv
    BY StartupStarts, UsageStarts, StacksStart, RegistryStarts DEF BoardInit
  <1>2. Inv /\ [BoardNext]_boardVars => Inv'
    BY PartsRest, StartupSteps, StatisticsSteps, RegistrySteps
  <1>3. Inv => KernelSidesHold
    BY StartsInOrderInv, UsageIsTheWorkInv, StackSaidIsUsedInv, RegistryHoldsInv DEF KernelSidesHold, StatisticsHold
  <1> QED  BY <1>1, <1>2, <1>3, PTL DEF BoardSpec

(* Every spoke of the timers' wheel holds the running timers that expire on *)
(* it and no others, can be walked both ways and is as long as it says, the *)
(* free list holds the timers that are not used, and a timer expires on     *)
(* exactly the turn that was asked for: for every number of timers, size of *)
(* the wheel, width of the time, and delays and periods that are created    *)
(* (os_tmr.c 735-786, 950-1028, 1078-1115).                                 *)
THEOREM TimersHoldAlways == BoardSpec => []TimersHold
PROOF
  <1>1. BoardInit => TimersInv
    BY TimersStarts DEF BoardInit
  <1>2. TimersInv /\ [BoardNext]_boardVars => TimersInv'
    BY PartsRest, TimersSteps
  <1> QED  BY <1>1, <1>2, TimersHoldInv, PTL DEF BoardSpec
=============================================================================
