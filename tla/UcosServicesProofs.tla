------------------------- MODULE UcosServicesProofs -------------------------
(***************************************************************************)
(* Proofs about the kernel with its services, for any number of tasks,     *)
(* priorities, objects, messages and slots.  The first sections are about  *)
(* ordinary applications: those without mutexes, event flags and multiple  *)
(* waits, which may delay, suspend, create, delete and move tasks, lock    *)
(* the scheduler, and use semaphores, mailboxes and queues with timeouts,  *)
(* aborts, deletions and posts from interrupts, in any combination.  The   *)
(* last one is about the priority a mutex lends, in applications with one  *)
(* object at a time that neither suspend nor move tasks.                   *)
(***************************************************************************)
EXTENDS UcosServices, SequenceTheorems, WellFoundedInduction, TLAPS

Ordinary == uses \cap {"MUTEX", "MULTI", "FLAG", "WOKEN"} = {}

-----------------------------------------------------------------------------
(* The inductive invariant. *)

Kinds == {"SEM", "MBOX", "Q"}

Tcb == [prio : Prio, stat : SUBSET (Kinds \cup {"SUSPEND"}), pend : {"OK", "TO", "ABORT"},
        dly : Nat, event : Event \cup {Null}, multi : {{}}, msg : Msg \cup {Null}]

Call == [on : {{}} \cup {{e} : e \in Event}, multi : {FALSE}, pmsg : Msg \cup {Null}]

(* What an object of a type holds. *)
Contents(type) ==
    CASE type = "SEM" -> Nat
      [] type = "MBOX" -> Msg \cup {Null}
      [] type = "Q" -> Ring
      [] OTHER -> {Null}

Ecb == [type : Kinds \cup {"UNUSED"}, wait : SUBSET Prio, obj : Nat \cup Msg \cup {Null} \cup Ring]

Shapes ==
    /\ tcb \in [Task -> Tcb]
    /\ call \in [Task -> Call]
    /\ OSTCBPrioTbl \in [Prio -> Task \cup {"free"}]
    /\ OSRdyTbl \in SUBSET Prio
    /\ ecb \in [Event -> Ecb]
    /\ \A e \in Event : ecb[e].obj \in Contents(Type(e))
    /\ OSLockNesting \in Nat
    /\ node = [t \in Task |-> NoNode]

(* Every task of the priority table has the priority at which it stands.    *)
PrioMaps == \A p \in Prio : OSTCBPrioTbl[p] \in Task => tcb[OSTCBPrioTbl[p]].prio = p

Waiting(t) == tcb[t].stat \cap Kinds # {}

(* Outside a call that waits, a task waits for nothing; inside one its      *)
(* control block names the event, and either it is still waiting, for that  *)
(* kind of object, or it is over and nothing delays the task.               *)
Stage(t) ==
    /\ call[t].on = {} => /\ tcb[t].pend = "OK" /\ ~ Waiting(t)
                          /\ Alive(t) => tcb[t].event = Null
    /\ \A e \in Event : call[t].on = {e} =>
          /\ Alive(t) /\ tcb[t].event = e /\ call[t].pmsg = Null
          /\ Waiting(t) => tcb[t].pend = "OK" /\ tcb[t].stat \ {"SUSPEND"} = {Type(e)}
          /\ ~ Waiting(t) => tcb[t].dly = 0
    /\ ~ Alive(t) => call[t] = NoCall /\ tcb[t].dly = 0

Unblocked(t) == tcb[t].dly = 0 /\ tcb[t].stat = {}
InList(t, e) == call[t].on = {e} /\ (Waiting(t) \/ tcb[t].pend = "TO")

(* TablesAgree and WaitListsMatch, priority by priority. *)
ReadyBit(p) == p \in OSRdyTbl <=> (OSTCBPrioTbl[p] \in Task /\ Unblocked(OSTCBPrioTbl[p]))
WaitBit(e, p) == p \in ecb[e].wait <=> (OSTCBPrioTbl[p] \in Task /\ InList(OSTCBPrioTbl[p], e))

(* NothingWaitsOverSupply, for the kinds there are. *)
Lacks(e) == CASE Type(e) = "SEM" -> ecb[e].obj = 0
              [] Type(e) = "MBOX" -> ecb[e].obj = Null
              [] Type(e) = "Q" -> ecb[e].obj.entries = 0
              [] OTHER -> FALSE

IdleStays == OSTCBPrioTbl[LowestPrio] = Idle /\ Unblocked(Idle) /\ call[Idle] = NoCall

Tables ==
    /\ Shapes
    /\ PrioMaps
    /\ \A t \in Task : Stage(t)
    /\ \A p \in Prio : ReadyBit(p)
    /\ \A e \in Event : \A p \in Prio : WaitBit(e, p)
    /\ \A e \in Event : ecb[e].wait # {} => Lacks(e)
    /\ IdleStays

(* The running task is ready, found at the priority it was switched to at,  *)
(* and the most urgent unless the scheduler is locked.                      *)
Scheduled ==
    /\ OSTCBCur \in Task
    /\ OSPrioCur \in OSRdyTbl /\ OSTCBPrioTbl[OSPrioCur] = OSTCBCur
    /\ Unlocked => OSPrioCur = Min(OSRdyTbl)

KernelInv == Tables /\ Scheduled

-----------------------------------------------------------------------------
(* The scheduler. *)

(* The least priority of a table that is not empty.                         *)
LEMMA MinOfPrios ==
    ASSUME NEW S \in SUBSET Prio, S # {}
    PROVE  Min(S) \in S /\ \A p \in S : Min(S) <= p
PROOF
  <1> DEFINE less == OpToRel(<, Nat)
  <1>1. S \subseteq Nat
    BY CoreAssumption DEF Prio
  <1>2. IsWellFoundedOn(less, Nat)
    BY NatLessThanWellFounded
  <1>3. \A x, y \in Nat : y < x => <<y, x>> \in less
    BY DEF OpToRel
  <1> HIDE DEF less
  <1>4. PICK x \in S : \A y \in S : ~ (<<y, x>> \in less)
    BY <1>1, <1>2, WFMin
  <1>5. ASSUME NEW y \in S
        PROVE  x <= y
    <2>1. x \in Nat /\ y \in Nat
      BY <1>1
    <2>2. ~ (y < x)
      BY <1>3, <1>4, <2>1
    <2> QED  BY <2>1, <2>2
  <1> QED  BY <1>5 DEF Min

LEMMA MinUnique ==
    ASSUME NEW S \in SUBSET Prio, NEW p \in S, \A q \in S : p <= q
    PROVE  Min(S) = p
PROOF
  <1>1. Min(S) \in S /\ Min(S) <= p
    BY MinOfPrios
  <1>2. p <= Min(S)
    BY <1>1
  <1>3. S \subseteq Nat
    BY CoreAssumption DEF Prio
  <1>4. Min(S) \in Nat /\ p \in Nat
    BY <1>1, <1>3
  <1> QED  BY <1>1, <1>2, <1>4

LEMMA LowestIsPrio == LowestPrio \in Prio
PROOF BY CoreAssumption DEF Prio

(* OS_Sched leaves the most urgent ready task running, if the running one   *)
(* is still ready where the scheduler may not switch.                       *)
LEMMA Switch ==
    ASSUME Scheduled, Tables', OS_Sched,
           OSLockNesting' # 0 => OSPrioCur \in OSRdyTbl',
           OSPrioCur \in OSRdyTbl' => OSTCBPrioTbl'[OSPrioCur] = OSTCBCur
    PROVE  Scheduled'
PROOF
  <1> DEFINE high == Min(OSRdyTbl')
  <1>1. /\ OSRdyTbl' \in SUBSET Prio
        /\ \A p \in Prio : p \in OSRdyTbl' => OSTCBPrioTbl'[p] \in Task
        /\ Idle \in Task /\ OSTCBPrioTbl'[LowestPrio] = Idle
        /\ LowestPrio \in OSRdyTbl'
    BY LowestIsPrio, CoreAssumption DEF Tables, Shapes, ReadyBit, IdleStays
  <1>2. high \in OSRdyTbl' /\ high \in Prio
    BY <1>1, MinOfPrios
  <1> HIDE DEF high
  <1>3. CASE OSLockNesting' = 0 /\ high # OSPrioCur
    <2>1. OSPrioCur' = high /\ OSTCBCur' = OSTCBPrioTbl'[high]
      BY <1>3 DEF OS_Sched, OSPrioHighRdy, high
    <2> QED  BY <1>1, <1>2, <2>1 DEF Scheduled, high
  <1>4. CASE ~ (OSLockNesting' = 0 /\ high # OSPrioCur)
    <2>1. OSPrioCur' = OSPrioCur /\ OSTCBCur' = OSTCBCur
      BY <1>4 DEF OS_Sched, OSPrioHighRdy, NoSched, high
    <2>2. OSPrioCur \in OSRdyTbl'
      BY <1>2, <1>4
    <2> QED  BY <1>4, <2>1, <2>2 DEF Scheduled, Unlocked, high
  <1> QED  BY <1>3, <1>4

(* Nor is there anything to switch when the ready table stays as it was.    *)
LEMMA NoSwitch ==
    ASSUME Scheduled, NoSched, UNCHANGED OSRdyTbl,
           OSTCBPrioTbl'[OSPrioCur] = OSTCBPrioTbl[OSPrioCur],
           OSLockNesting' = 0 => Unlocked
    PROVE  Scheduled'
PROOF BY DEF Scheduled, NoSched, Unlocked

(* The running task is one of the table's, and nothing blocks it.           *)
LEMMA RunnerStands ==
    ASSUME KernelInv
    PROVE  /\ OSTCBCur \in Task /\ OSPrioCur \in Prio /\ OSPrioCur \in OSRdyTbl
           /\ tcb[OSTCBCur].prio = OSPrioCur /\ Alive(OSTCBCur) /\ Unblocked(OSTCBCur)
           /\ OSTCBPrioTbl[OSPrioCur] = OSTCBCur
PROOF
  <1>1. OSTCBCur \in Task /\ OSPrioCur \in OSRdyTbl /\ OSTCBPrioTbl[OSPrioCur] = OSTCBCur
    BY DEF KernelInv, Scheduled
  <1>2. OSPrioCur \in Prio
    BY <1>1 DEF KernelInv, Tables, Shapes
  <1>3. tcb[OSTCBCur].prio = OSPrioCur /\ Unblocked(OSTCBCur)
    BY <1>1, <1>2 DEF KernelInv, Tables, PrioMaps, ReadyBit
  <1> QED  BY <1>1, <1>2, <1>3 DEF Alive

-----------------------------------------------------------------------------
(* What an object holds. *)

LEMMA RingMoves ==
    ASSUME NEW r \in Ring, NEW m \in Msg \cup {Null}
    PROVE  /\ r.entries > 0 => Got(r) \in Ring
           /\ r.entries < QSize => Put(r, m) \in Ring /\ PutFront(r, m) \in Ring
           /\ EmptyRing \in Ring
           /\ [r EXCEPT !.in = 1, !.out = 1, !.entries = 0] \in Ring
           /\ r.buf[r.out] \in Msg \cup {Null}
PROOF
  <1> USE EventsAssumption DEF Ring
  <1>1. /\ \A i \in Slot : After(i) \in Slot /\ Before(i) \in Slot
        /\ 1 \in Slot
    BY DEF Slot, After, Before
  <1>2. r.in \in Slot /\ r.out \in Slot /\ r.entries \in 0 .. QSize /\ r.buf \in [Slot -> Msg \cup {Null}]
    OBVIOUS
  <1>3. r.entries > 0 => Got(r) \in Ring
    <2>1. r.entries > 0 => r.entries - 1 \in 0 .. QSize
      BY <1>2
    <2> QED  BY <1>1, <1>2, <2>1 DEF Got
  <1>4. r.entries < QSize => r.entries + 1 \in 0 .. QSize
    BY <1>2
  <1>5. r.entries < QSize => Put(r, m) \in Ring
    BY <1>1, <1>2, <1>4 DEF Put
  <1>6. r.entries < QSize => PutFront(r, m) \in Ring
    BY <1>1, <1>2, <1>4 DEF PutFront
  <1>7. 0 \in 0 .. QSize
    OBVIOUS
  <1>8. EmptyRing \in Ring
    BY <1>1, <1>7 DEF EmptyRing
  <1>9. [r EXCEPT !.in = 1, !.out = 1, !.entries = 0] \in Ring
    BY <1>1, <1>2, <1>7
  <1> QED  BY <1>2, <1>3, <1>5, <1>6, <1>8, <1>9

(* The contents of an object change and, it may be, what the running task   *)
(* has taken from it.  Whoever waits for the object must still find nothing.*)
LEMMA ContentChanges ==
    ASSUME KernelInv, NEW e \in Event, NEW x \in Contents(Type(e)), Becomes(e, x), UNCHANGED node,
           \/ UNCHANGED call
           \/ \E t \in App, m \in Msg \cup {Null} :
                Runs(t) /\ call' = [call EXCEPT ![t].pmsg = m],
           ecb[e].wait = {} \/ Lacks(e)'
    PROVE  KernelInv'
PROOF
  <1>0. /\ Shapes /\ PrioMaps /\ IdleStays /\ Scheduled
        /\ \A t \in Task : Stage(t)
        /\ \A p \in Prio : ReadyBit(p)
        /\ \A f \in Event : \A p \in Prio : WaitBit(f, p)
        /\ \A f \in Event : ecb[f].wait # {} => Lacks(f)
    BY DEF KernelInv, Tables
  <1>1. /\ UNCHANGED <<tcb, OSTCBPrioTbl, OSRdyTbl, OSTCBCur, OSPrioCur, OSLockNesting, node>>
        /\ ecb' = [ecb EXCEPT ![e].obj = x]
    BY DEF Becomes
  <1>2. x \in Nat \cup Msg \cup {Null} \cup Ring
    <2>1. Type(e) \in Kinds \cup {"UNUSED"}
      BY <1>0 DEF Shapes, Ecb, Type
    <2> QED  BY <2>1 DEF Contents, Kinds
  <1>3. /\ ecb' \in [Event -> Ecb]
        /\ \A f \in Event : /\ ecb'[f].type = ecb[f].type /\ ecb'[f].wait = ecb[f].wait
                            /\ f # e => ecb'[f] = ecb[f]
        /\ ecb'[e].obj = x
    BY <1>0, <1>1, <1>2 DEF Shapes, Ecb
  <1>4. /\ call' \in [Task -> Call]
        /\ \A t \in Task : /\ call'[t].on = call[t].on
                           /\ call[t].on # {} => call'[t].pmsg = call[t].pmsg
                           /\ ~ Alive(t) \/ t = Idle => call'[t] = call[t]
    <2>1. CASE UNCHANGED call
      BY <1>0, <2>1 DEF Shapes
    <2>2. CASE ~ UNCHANGED call
      <3>1. PICK t \in App, m \in Msg \cup {Null} : Runs(t) /\ call' = [call EXCEPT ![t].pmsg = m]
        BY <2>2
      <3>2. Alive(t) /\ t \in Task /\ t # Idle /\ call[t].on = {}
        BY <3>1, RunnerStands DEF Runs, App, NoCall
      <3>3. call \in [Task -> Call]
        BY <1>0 DEF Shapes
      <3>4. call[t] \in Call /\ [call[t] EXCEPT !.pmsg = m] \in Call
        BY <3>2, <3>3 DEF Call
      <3>5. call' = [call EXCEPT ![t] = [call[t] EXCEPT !.pmsg = m]]
        BY <3>1, <3>3
      <3>6. /\ call' \in [Task -> Call]
            /\ \A u \in Task : u # t => call'[u] = call[u]
            /\ call'[t].on = call[t].on
        BY <3>2, <3>3, <3>4, <3>5 DEF Call
      <3> QED  BY <3>2, <3>6
    <2> QED  BY <2>1, <2>2
  <1>5. Shapes'
    <2>1. \A f \in Event : ecb'[f].obj \in Contents(ecb'[f].type)
      BY <1>0, <1>3 DEF Shapes, Type
    <2> QED  BY <1>0, <1>1, <1>3, <1>4, <2>1 DEF Shapes, Type, Contents
  <1>6. ASSUME NEW t \in Task
        PROVE  Stage(t)'
    <2>1. Stage(t)
      BY <1>0
    <2> QED  BY <1>1, <1>3, <1>4, <2>1 DEF Stage, Alive, Waiting, Type
  <1>7. ASSUME NEW f \in Event, NEW p \in Prio
        PROVE  WaitBit(f, p)'
    <2>1. WaitBit(f, p)
      BY <1>0
    <2> QED  BY <1>1, <1>3, <1>4, <2>1 DEF WaitBit, InList, Waiting
  <1>8. ASSUME NEW f \in Event, ecb'[f].wait # {}
        PROVE  Lacks(f)'
    BY <1>0, <1>3, <1>8 DEF Lacks, Type
  <1>9. PrioMaps' /\ IdleStays' /\ Scheduled' /\ \A p \in Prio : ReadyBit(p)'
    BY <1>0, <1>1, <1>4, CoreAssumption DEF PrioMaps, IdleStays, Scheduled, ReadyBit, Unblocked, Unlocked
  <1> QED  BY <1>5, <1>6, <1>7, <1>8, <1>9 DEF KernelInv, Tables

(* A new object has nobody waiting for it.                                  *)
LEMMA ObjectCreated ==
    ASSUME KernelInv, NEW e \in Event, NEW type \in Kinds, NEW x \in Contents(type),
           EventCreate(e, type, x), Created, UNCHANGED node
    PROVE  KernelInv'
PROOF
  <1>0. /\ Shapes /\ PrioMaps /\ IdleStays /\ Scheduled
        /\ \A t \in Task : Stage(t)
        /\ \A p \in Prio : ReadyBit(p)
        /\ \A f \in Event : \A p \in Prio : WaitBit(f, p)
        /\ \A f \in Event : ecb[f].wait # {} => Lacks(f)
    BY DEF KernelInv, Tables
  <1>1. /\ UNCHANGED <<tcb, call, OSTCBPrioTbl, OSRdyTbl, OSTCBCur, OSPrioCur, OSLockNesting, node>>
        /\ ecb' = [ecb EXCEPT ![e] = [type |-> type, wait |-> {}, obj |-> x]]
        /\ Type(e) = "UNUSED"
    BY DEF EventCreate, Created, Type
  <1>2. x \in Nat \cup Msg \cup {Null} \cup Ring
    BY DEF Contents, Kinds
  <1>3. ecb[e].wait = {}
    BY <1>0, <1>1 DEF Lacks
  <1>4. /\ ecb' \in [Event -> Ecb]
        /\ \A f \in Event : /\ ecb'[f].wait = ecb[f].wait
                            /\ f # e => ecb'[f] = ecb[f]
        /\ ecb'[e].obj = x /\ ecb'[e].type = type
    BY <1>0, <1>1, <1>2, <1>3 DEF Shapes, Ecb
  <1>5. Shapes'
    <2>1. \A f \in Event : ecb'[f].obj \in Contents(ecb'[f].type)
      BY <1>0, <1>4 DEF Shapes, Type
    <2> QED  BY <1>0, <1>1, <1>4, <2>1 DEF Shapes, Type, Contents
  <1>6. ASSUME NEW t \in Task
        PROVE  Stage(t)'
    <2>1. Stage(t)
      BY <1>0
    <2>2. ~ (Waiting(t) /\ call[t].on = {e})
      <3>1. SUFFICES ASSUME Waiting(t), call[t].on = {e}
                     PROVE  FALSE
        OBVIOUS
      <3>2. Alive(t) /\ tcb[t].prio \in Prio /\ InList(t, e)
        BY <1>0, <2>1, <3>1 DEF Stage, InList, Shapes, Tcb
      <3> QED  BY <1>0, <1>3, <3>2 DEF WaitBit, Alive
    <2> QED  BY <1>1, <1>4, <2>1, <2>2 DEF Stage, Alive, Waiting, Type
  <1>7. ASSUME NEW f \in Event, NEW p \in Prio
        PROVE  WaitBit(f, p)'
    <2>1. WaitBit(f, p)
      BY <1>0
    <2> QED  BY <1>1, <1>4, <2>1 DEF WaitBit, InList, Waiting
  <1>8. ASSUME NEW f \in Event, ecb'[f].wait # {}
        PROVE  Lacks(f)'
    BY <1>0, <1>3, <1>4, <1>8 DEF Lacks, Type
  <1>9. PrioMaps' /\ IdleStays' /\ Scheduled' /\ \A p \in Prio : ReadyBit(p)'
    BY <1>0, <1>1, CoreAssumption DEF PrioMaps, IdleStays, Scheduled, ReadyBit, Unblocked, Unlocked
  <1> QED  BY <1>5, <1>6, <1>7, <1>8, <1>9 DEF KernelInv, Tables

-----------------------------------------------------------------------------
(* A task waits, and is woken. *)

LEMMA BlockMoves ==
    ASSUME KernelInv, NEW t \in App, NEW e \in Event, NEW n \in Nat,
           Runs(t), Type(e) \in Kinds, Block(t, e, n)
    PROVE  /\ tcb' \in [Task -> Tcb]
           /\ \A u \in Task : /\ tcb'[u].prio = tcb[u].prio
                              /\ u # t => tcb'[u] = tcb[u]
           /\ tcb'[t].stat = {Type(e)} /\ tcb'[t].pend = "OK" /\ tcb'[t].event = e /\ tcb'[t].dly = n
           /\ call' \in [Task -> Call]
           /\ \A u \in Task : u # t => call'[u] = call[u]
           /\ call'[t].on = {e} /\ call'[t].pmsg = Null
           /\ ecb' \in [Event -> Ecb]
           /\ \A f \in Event : /\ ecb'[f].type = ecb[f].type /\ ecb'[f].obj = ecb[f].obj
                               /\ f # e => ecb'[f] = ecb[f]
           /\ ecb'[e].wait = ecb[e].wait \cup {OSPrioCur}
           /\ OSRdyTbl' = OSRdyTbl \ {OSPrioCur}
           /\ UNCHANGED <<OSTCBPrioTbl, OSLockNesting>>
           /\ OS_Sched
PROOF
  <1>0. Shapes
    BY DEF KernelInv, Tables
  <1>1. /\ t \in Task /\ t # Idle /\ call[t] = NoCall
        /\ tcb[t].prio = OSPrioCur /\ OSPrioCur \in Prio
        /\ Alive(t) /\ Unblocked(t) /\ OSTCBCur = t
    BY RunnerStands DEF Runs, App
  <1>2. (CHOOSE f \in {e} : TRUE) = e
    OBVIOUS
  <1>3. /\ tcb' = [tcb EXCEPT ![t] = [tcb[t] EXCEPT !.stat = @ \cup {Type(e)}, !.pend = "OK",
                                                   !.dly = n, !.event = e, !.multi = @]]
        /\ call' = [call EXCEPT ![t] = [NoCall EXCEPT !.on = {e}, !.multi = FALSE]]
        /\ OSRdyTbl' = OSRdyTbl \ {OSPrioCur}
        /\ ecb' = Waits(ecb, {e}, OSPrioCur)
        /\ UNCHANGED <<OSTCBPrioTbl, OSLockNesting>>
        /\ OS_Sched
    BY <1>1, <1>2 DEF Block, EventTaskWait
  <1>4. /\ tcb' \in [Task -> Tcb]
        /\ \A u \in Task : /\ tcb'[u].prio = tcb[u].prio
                           /\ u # t => tcb'[u] = tcb[u]
        /\ tcb'[t].stat = {Type(e)} /\ tcb'[t].pend = "OK" /\ tcb'[t].event = e /\ tcb'[t].dly = n
    <2> DEFINE b == [tcb[t] EXCEPT !.stat = @ \cup {Type(e)}, !.pend = "OK", !.dly = n,
                                   !.event = e, !.multi = @]
    <2>1. tcb[t] \in Tcb /\ tcb \in [Task -> Tcb] /\ tcb[t].stat = {}
      BY <1>0, <1>1 DEF Shapes, Unblocked
    <2>2. /\ b \in Tcb /\ b.prio = tcb[t].prio
          /\ b.stat = {Type(e)} /\ b.pend = "OK" /\ b.event = e /\ b.dly = n
      BY <2>1 DEF Tcb
    <2>3. tcb' = [tcb EXCEPT ![t] = b]
      BY <1>3
    <2> QED  BY <1>1, <2>1, <2>2, <2>3
  <1>5. /\ call' \in [Task -> Call]
        /\ \A u \in Task : u # t => call'[u] = call[u]
        /\ call'[t].on = {e} /\ call'[t].pmsg = Null
    BY <1>0, <1>1, <1>3 DEF Shapes, Call, NoCall
  <1>6. /\ ecb' \in [Event -> Ecb]
        /\ \A f \in Event : /\ ecb'[f].type = ecb[f].type /\ ecb'[f].obj = ecb[f].obj
                            /\ f # e => ecb'[f] = ecb[f]
        /\ ecb'[e].wait = ecb[e].wait \cup {OSPrioCur}
    BY <1>0, <1>1, <1>3 DEF Shapes, Ecb, Waits
  <1> QED  BY <1>3, <1>4, <1>5, <1>6

(* The running task waits for an object that has nothing for it.            *)
LEMMA TaskBlocks ==
    ASSUME KernelInv, NEW t \in App, NEW e \in Event, NEW n \in Nat,
           Runs(t), Unlocked, Type(e) \in Kinds, Lacks(e), Block(t, e, n), UNCHANGED node
    PROVE  KernelInv'
PROOF
  <1>0. /\ Shapes /\ PrioMaps /\ IdleStays /\ Scheduled
        /\ \A u \in Task : Stage(u)
        /\ \A p \in Prio : ReadyBit(p)
        /\ \A f \in Event : \A p \in Prio : WaitBit(f, p)
        /\ \A f \in Event : ecb[f].wait # {} => Lacks(f)
    BY DEF KernelInv, Tables
  <1>1. /\ t \in Task /\ t # Idle /\ call[t] = NoCall
        /\ tcb[t].prio = OSPrioCur /\ OSPrioCur \in Prio
        /\ Alive(t) /\ Unblocked(t) /\ OSTCBCur = t
    BY RunnerStands DEF Runs, App
  <1>2. /\ tcb' \in [Task -> Tcb]
        /\ \A u \in Task : /\ tcb'[u].prio = tcb[u].prio
                           /\ u # t => tcb'[u] = tcb[u]
        /\ tcb'[t].stat = {Type(e)} /\ tcb'[t].pend = "OK" /\ tcb'[t].event = e
        /\ call' \in [Task -> Call]
        /\ \A u \in Task : u # t => call'[u] = call[u]
        /\ call'[t].on = {e} /\ call'[t].pmsg = Null
        /\ ecb' \in [Event -> Ecb]
        /\ \A f \in Event : /\ ecb'[f].type = ecb[f].type /\ ecb'[f].obj = ecb[f].obj
                            /\ f # e => ecb'[f] = ecb[f]
        /\ ecb'[e].wait = ecb[e].wait \cup {OSPrioCur}
        /\ OSRdyTbl' = OSRdyTbl \ {OSPrioCur}
        /\ UNCHANGED <<OSTCBPrioTbl, OSLockNesting, node>>
        /\ OS_Sched
    BY BlockMoves
  <1>7. Shapes'
    BY <1>0, <1>2 DEF Shapes, Type, Contents
  <1>8. PrioMaps'
    BY <1>0, <1>2 DEF PrioMaps
  <1>9. ASSUME NEW u \in Task
        PROVE  Stage(u)'
    <2>1. Stage(u)
      BY <1>0
    <2>2. CASE u = t
      <3>1. Type(e)' = Type(e) /\ Type(e) # "SUSPEND" /\ Type(e) \in Kinds
        BY <1>2 DEF Type, Kinds
      <3>2. Waiting(t)' /\ tcb'[t].stat \ {"SUSPEND"} = {Type(e)'}
        BY <1>2, <3>1 DEF Waiting
      <3>3. Alive(t)'
        BY <1>1, <1>2 DEF Alive
      <3> QED
        BY <1>2, <2>2, <3>2, <3>3 DEF Stage
    <2>3. CASE u # t
      BY <1>2, <2>1, <2>3 DEF Stage, Alive, Waiting, Type
    <2> QED  BY <2>2, <2>3
  <1>10. ASSUME NEW p \in Prio
         PROVE  ReadyBit(p)'
    <2>1. ReadyBit(p)
      BY <1>0
    <2>2. CASE p = OSPrioCur
      BY <1>1, <1>2, <2>2, RunnerStands DEF ReadyBit, Unblocked
    <2>3. CASE p # OSPrioCur
      <3>1. OSTCBPrioTbl[p] # t
        BY <1>0, <1>1, <2>3 DEF PrioMaps
      <3> QED  BY <1>2, <2>1, <2>3, <3>1 DEF ReadyBit, Unblocked
    <2> QED  BY <2>2, <2>3
  <1>11. ASSUME NEW f \in Event, NEW p \in Prio
         PROVE  WaitBit(f, p)'
    <2>1. WaitBit(f, p)
      BY <1>0
    <2>2. CASE p = OSPrioCur
      <3>1. OSTCBPrioTbl[p] = t
        BY <2>2, RunnerStands, <1>1
      <3>2. ~ InList(t, f)
        BY <1>1 DEF InList, NoCall
      <3>3. InList(t, f)' <=> f = e
        BY <1>2 DEF InList, Waiting
      <3> QED  BY <1>1, <1>2, <2>1, <2>2, <3>1, <3>2, <3>3 DEF WaitBit
    <2>3. CASE p # OSPrioCur
      <3>1. OSTCBPrioTbl[p] # t
        BY <1>0, <1>1, <2>3 DEF PrioMaps
      <3>2. p \in ecb'[f].wait <=> p \in ecb[f].wait
        BY <1>2, <2>3
      <3> QED  BY <1>2, <2>1, <3>1, <3>2 DEF WaitBit, InList, Waiting
    <2> QED  BY <2>2, <2>3
  <1>12. ASSUME NEW f \in Event, ecb'[f].wait # {}
         PROVE  Lacks(f)'
    BY <1>0, <1>2, <1>12 DEF Lacks, Type
  <1>13. IdleStays'
    BY <1>0, <1>1, <1>2, CoreAssumption DEF IdleStays, Unblocked
  <1>14. Tables'
    BY <1>7, <1>8, <1>9, <1>10, <1>11, <1>12, <1>13 DEF Tables
  <1>15. Scheduled'
    BY <1>0, <1>2, <1>14, Switch DEF Unlocked
  <1> QED  BY <1>14, <1>15 DEF KernelInv

(* What EventTaskRdy does to the blocks of those it wakes and to the list.   *)
EndOfWaits(e, W, pend, m, type, x) ==
    /\ W \subseteq Prio /\ type \in Kinds \cup {"UNUSED"} /\ x \in Contents(type)
    /\ \A p \in W : /\ OSTCBPrioTbl[p] \in Task /\ InList(OSTCBPrioTbl[p], e)
                    /\ tcb[OSTCBPrioTbl[p]].prio = p
    /\ \A t \in TasksAt(W) : call[t].on = {e}
    /\ TasksAt(W) \subseteq Task
    /\ \A t \in TasksAt(W) : /\ InList(t, e) /\ tcb[t].prio \in W
                    /\ OSTCBPrioTbl[tcb[t].prio] = t
    /\ \A p \in Prio : OSTCBPrioTbl[p] \in TasksAt(W) => p \in W
    /\ \A p \in W : OSTCBPrioTbl[p] \in TasksAt(W)
    /\ tcb' \in [Task -> Tcb]
    /\ \A t \in Task : /\ tcb'[t].prio = tcb[t].prio
                       /\ t \notin TasksAt(W) => tcb'[t] = tcb[t]
    /\ \A t \in TasksAt(W) : /\ tcb'[t].dly = 0 /\ tcb'[t].stat = tcb[t].stat \ Kinds
                    /\ tcb'[t].pend = pend /\ tcb'[t].event = e
                    /\ tcb'[t].msg = m
    /\ ecb' \in [Event -> Ecb]
    /\ \A f \in Event : f # e => ecb'[f] = ecb[f]
    /\ ecb'[e].type = type /\ ecb'[e].obj = x /\ ecb'[e].wait = ecb[e].wait \ W

LEMMA WokenMoves ==
    ASSUME KernelInv, NEW e \in Event, NEW W \in SUBSET ecb[e].wait,
           NEW pend \in {"OK", "ABORT"}, NEW m \in Msg \cup {Null}, NEW type, NEW x,
           EventTaskRdy(e, W, pend, m, type, x, TRUE),
           \/ type = Type(e) /\ x = ecb[e].obj
           \/ type = "UNUSED" /\ x = Null /\ W = ecb[e].wait
    PROVE  EndOfWaits(e, W, pend, m, type, x)
PROOF
  <1> DEFINE T == TasksAt(W)
  <1>0. /\ Shapes /\ PrioMaps
        /\ \A u \in Task : Stage(u)
        /\ \A f \in Event : \A p \in Prio : WaitBit(f, p)
    BY DEF KernelInv, Tables
  <1>1. /\ tcb' = Woken(tcb, e, T, pend, m)
        /\ OSRdyTbl' = OSRdyTbl \cup {tcb[t].prio : t \in Unsuspended(T)}
        /\ ecb' = [LeaveLists(e, T) EXCEPT ![e] = [@ EXCEPT !.type = type, !.obj = x]]
        /\ UNCHANGED <<call, OSTCBPrioTbl, OSLockNesting>>
        /\ SchedIf(W # {})
    BY DEF EventTaskRdy
  <1>2. /\ W \subseteq Prio
        /\ \A p \in W : /\ OSTCBPrioTbl[p] \in Task /\ InList(OSTCBPrioTbl[p], e)
                        /\ tcb[OSTCBPrioTbl[p]].prio = p
    BY <1>0 DEF Shapes, Ecb, WaitBit, PrioMaps
  <1>3. /\ T \subseteq Task
        /\ \A t \in T : /\ InList(t, e) /\ tcb[t].prio \in W
                        /\ OSTCBPrioTbl[tcb[t].prio] = t
        /\ \A p \in Prio : OSTCBPrioTbl[p] \in T => p \in W
        /\ \A p \in W : OSTCBPrioTbl[p] \in T
    BY <1>0, <1>2 DEF TasksAt, PrioMaps
  <1> HIDE DEF T
  <1>4. Type(e) \in Kinds \cup {"UNUSED"} /\ x \in Contents(type) /\ type \in Kinds \cup {"UNUSED"}
    BY <1>0 DEF Shapes, Ecb, Type, Contents, Kinds
  <1>5. ASSUME NEW t \in T
        PROVE  /\ tcb[t].event = e /\ call[t].on = {e}
               /\ tcb[t].stat \ {Type(e)} = tcb[t].stat \ Kinds
               /\ Waiting(t) => Type(e) \in Kinds
    <2>1. Stage(t) /\ call[t].on = {e}
      BY <1>0, <1>3, <1>5 DEF InList
    <2>2. tcb[t].stat \subseteq Kinds \cup {"SUSPEND"}
      BY <1>0, <1>3, <1>5 DEF Shapes, Tcb
    <2>3. CASE Waiting(t)
      <3>1. tcb[t].stat \ {"SUSPEND"} = {Type(e)} /\ "SUSPEND" \notin Kinds
        BY <2>1, <2>3 DEF Stage, Kinds
      <3>2. Type(e) \in Kinds
        BY <2>2, <3>1
      <3> QED  BY <2>1, <2>2, <3>1, <3>2 DEF Stage
    <2>4. CASE ~ Waiting(t)
      BY <1>4, <2>1, <2>2, <2>4 DEF Stage, Waiting, Kinds
    <2> QED  BY <2>3, <2>4
  <1>6. /\ tcb' \in [Task -> Tcb]
        /\ \A t \in Task : /\ tcb'[t].prio = tcb[t].prio
                           /\ t \notin T => tcb'[t] = tcb[t]
        /\ \A t \in T : /\ tcb'[t].dly = 0 /\ tcb'[t].stat = tcb[t].stat \ Kinds
                        /\ tcb'[t].pend = pend /\ tcb'[t].event = e
                        /\ tcb'[t].msg = m
    <2>1. ASSUME NEW t \in Task
          PROVE  /\ tcb'[t] \in Tcb /\ tcb'[t].prio = tcb[t].prio
                 /\ t \notin T => tcb'[t] = tcb[t]
                 /\ t \in T => /\ tcb'[t].dly = 0 /\ tcb'[t].stat = tcb[t].stat \ Kinds
                              /\ tcb'[t].pend = pend /\ tcb'[t].event = e
                              /\ tcb'[t].msg = m
      <3>1. tcb[t] \in Tcb /\ tcb[t].multi = {}
        BY <1>0 DEF Shapes, Tcb
      <3>2. CASE t \notin T
        BY <1>1, <3>1, <3>2 DEF Woken
      <3>3. CASE t \in T
        <4>1. tcb'[t] = [tcb[t] EXCEPT !.dly = 0, !.msg = m, !.pend = pend,
                                       !.stat = tcb[t].stat \ {Type(e)}, !.event = tcb[t].event]
          BY <1>1, <3>1, <3>3 DEF Woken, Type
        <4>2. tcb[t].stat \ {Type(e)} = tcb[t].stat \ Kinds /\ tcb[t].event = e
          BY <1>5, <3>3
        <4>3. tcb'[t] = [tcb[t] EXCEPT !.dly = 0, !.msg = m, !.pend = pend,
                                       !.stat = tcb[t].stat \ Kinds, !.event = e]
          BY <4>1, <4>2
        <4>4. tcb[t].stat \ Kinds \in SUBSET (Kinds \cup {"SUSPEND"})
          BY <3>1 DEF Tcb
        <4>5. tcb'[t] \in Tcb /\ tcb'[t].prio = tcb[t].prio
          <5>1. tcb'[t] = [prio |-> tcb[t].prio, stat |-> tcb[t].stat \ Kinds, pend |-> pend,
                           dly |-> 0, event |-> e, multi |-> {}, msg |-> m]
            BY <3>1, <4>3 DEF Tcb
          <5>2. tcb[t].prio \in Prio
            BY <3>1 DEF Tcb
          <5> QED  BY <4>4, <5>1, <5>2 DEF Tcb
        <4>6. /\ tcb'[t].dly = 0 /\ tcb'[t].stat = tcb[t].stat \ Kinds
              /\ tcb'[t].pend = pend /\ tcb'[t].event = e /\ tcb'[t].msg = m
          BY <3>1, <4>3 DEF Tcb
        <4> QED  BY <3>3, <4>5, <4>6
      <3> QED  BY <3>2, <3>3
    <2>2. tcb' = [t \in Task |-> tcb'[t]]
      BY <1>1 DEF Woken
    <2> QED  BY <1>3, <2>1, <2>2
  <1>7. /\ ecb' \in [Event -> Ecb]
        /\ \A f \in Event : f # e => ecb'[f] = ecb[f]
        /\ ecb'[e].type = type /\ ecb'[e].obj = x /\ ecb'[e].wait = ecb[e].wait \ W
    <2> DEFINE l == LeaveLists(e, T)
    <2>1. \A f \in Event : {tcb[t].prio : t \in {u \in T : f = e \/ f \in tcb[u].multi}}
                             = IF f = e THEN W ELSE {}
      <3>1. \A u \in T : tcb[u].multi = {}
        BY <1>0, <1>3 DEF Shapes, Tcb
      <3>2. {tcb[t].prio : t \in T} = W
        BY <1>2, <1>3
      <3> QED  BY <3>1, <3>2
    <2>2. \A f \in Event : l[f] = [ecb[f] EXCEPT !.wait = ecb[f].wait \ (IF f = e THEN W ELSE {})]
      BY <2>1 DEF LeaveLists
    <2>3. DOMAIN l = Event
      BY DEF LeaveLists
    <2>4. \A f \in Event : ecb[f] \in Ecb
      BY <1>0 DEF Shapes
    <2>5. ecb' = [f \in Event |-> IF f = e THEN [l[e] EXCEPT !.type = type, !.obj = x] ELSE l[f]]
      BY <1>1, <2>3 DEF LeaveLists
    <2> HIDE DEF l
    <2>6. x \in Nat \cup Msg \cup {Null} \cup Ring
      BY <1>4 DEF Contents, Kinds
    <2>7. ASSUME NEW f \in Event
          PROVE  /\ ecb'[f] \in Ecb
                 /\ f # e => ecb'[f] = ecb[f]
                 /\ f = e => ecb'[f].type = type /\ ecb'[f].obj = x /\ ecb'[f].wait = ecb[f].wait \ W
      <3>1. CASE f # e
        BY <2>2, <2>4, <2>5, <3>1 DEF Ecb
      <3>2. CASE f = e
        <4>1. ecb'[e] = [[ecb[e] EXCEPT !.wait = ecb[e].wait \ W] EXCEPT !.type = type, !.obj = x]
          BY <2>2, <2>5
        <4>2. ecb[e] \in Ecb /\ ecb[e].wait \ W \in SUBSET Prio
          BY <2>4 DEF Ecb
        <4>3. ecb'[e] = [type |-> type, wait |-> ecb[e].wait \ W, obj |-> x]
          BY <4>1, <4>2 DEF Ecb
        <4> QED  BY <1>4, <2>6, <3>2, <4>2, <4>3 DEF Ecb
      <3> QED  BY <3>1, <3>2
    <2> QED  BY <2>5, <2>7
  <1> QED  BY <1>2, <1>3, <1>4, <1>5, <1>6, <1>7 DEF T, EndOfWaits

(* Some of those in an object's list are woken: with the object kept as it  *)
(* was, or all of them, with the object gone.                               *)
LEMMA TasksWoken ==
    ASSUME KernelInv, NEW e \in Event, NEW W \in SUBSET ecb[e].wait,
           NEW pend \in {"OK", "ABORT"}, NEW m \in Msg \cup {Null}, NEW type, NEW x,
           EventTaskRdy(e, W, pend, m, type, x, TRUE), UNCHANGED node,
           \/ type = Type(e) /\ x = ecb[e].obj
           \/ type = "UNUSED" /\ x = Null /\ W = ecb[e].wait
    PROVE  KernelInv'
PROOF
  <1> DEFINE T == TasksAt(W)
  <1>0. /\ Shapes /\ PrioMaps /\ IdleStays /\ Scheduled
        /\ \A u \in Task : Stage(u)
        /\ \A p \in Prio : ReadyBit(p)
        /\ \A f \in Event : \A p \in Prio : WaitBit(f, p)
        /\ \A f \in Event : ecb[f].wait # {} => Lacks(f)
    BY DEF KernelInv, Tables
  <1>1. /\ tcb' = Woken(tcb, e, T, pend, m)
        /\ OSRdyTbl' = OSRdyTbl \cup {tcb[t].prio : t \in Unsuspended(T)}
        /\ ecb' = [LeaveLists(e, T) EXCEPT ![e] = [@ EXCEPT !.type = type, !.obj = x]]
        /\ UNCHANGED <<call, OSTCBPrioTbl, OSLockNesting, node>>
        /\ SchedIf(W # {})
        /\ EndOfWaits(e, W, pend, m, type, x)
    BY WokenMoves DEF EventTaskRdy
  <1>2. /\ W \subseteq Prio
        /\ \A p \in W : /\ OSTCBPrioTbl[p] \in Task /\ InList(OSTCBPrioTbl[p], e)
                        /\ tcb[OSTCBPrioTbl[p]].prio = p
    BY <1>1 DEF EndOfWaits
  <1>3. /\ T \subseteq Task
        /\ \A t \in T : /\ InList(t, e) /\ tcb[t].prio \in W
                        /\ OSTCBPrioTbl[tcb[t].prio] = t
        /\ \A p \in Prio : OSTCBPrioTbl[p] \in T => p \in W
        /\ \A p \in W : OSTCBPrioTbl[p] \in T
    BY <1>1 DEF EndOfWaits
  <1>4. type \in Kinds \cup {"UNUSED"} /\ x \in Contents(type)
    BY <1>1 DEF EndOfWaits
  <1>5. \A t \in T : call[t].on = {e}
    BY <1>1 DEF EndOfWaits
  <1>6. /\ tcb' \in [Task -> Tcb]
        /\ \A t \in Task : /\ tcb'[t].prio = tcb[t].prio
                           /\ t \notin T => tcb'[t] = tcb[t]
        /\ \A t \in T : /\ tcb'[t].dly = 0 /\ tcb'[t].stat = tcb[t].stat \ Kinds
                        /\ tcb'[t].pend = pend /\ tcb'[t].event = e
                        /\ tcb'[t].msg = m
    BY <1>1 DEF EndOfWaits
  <1>7. /\ ecb' \in [Event -> Ecb]
        /\ \A f \in Event : f # e => ecb'[f] = ecb[f]
        /\ ecb'[e].type = type /\ ecb'[e].obj = x /\ ecb'[e].wait = ecb[e].wait \ W
    BY <1>1 DEF EndOfWaits
  <1> HIDE DEF T
  <1>8. Shapes'
    <2>1. \A f \in Event : ecb'[f].obj \in Contents(ecb'[f].type)
      BY <1>0, <1>4, <1>7 DEF Shapes, Type
    <2>2. OSRdyTbl' \in SUBSET Prio
      BY <1>0, <1>1, <1>2, <1>3 DEF Shapes, Unsuspended
    <2> QED  BY <1>0, <1>1, <1>6, <1>7, <2>1, <2>2 DEF Shapes, Type, Contents
  <1>9. PrioMaps'
    BY <1>0, <1>1, <1>6 DEF PrioMaps
  <1>10. ASSUME NEW t \in Task
         PROVE  Stage(t)'
    <2>1. Stage(t) /\ (Alive(t)' <=> Alive(t))
      BY <1>0, <1>1, <1>6 DEF Alive
    <2>2. CASE t \in T
      <3>1. call'[t].on = {e} /\ ~ Waiting(t)' /\ tcb'[t].dly = 0 /\ tcb'[t].event = e
        BY <1>1, <1>5, <1>6, <2>2 DEF Waiting
      <3>2. \A f \in Event : call'[t].on = {f} => f = e
        BY <3>1
      <3>3. Alive(t) /\ call'[t].pmsg = Null
        BY <1>1, <1>5, <2>1, <2>2 DEF Stage
      <3> QED  BY <2>1, <3>1, <3>2, <3>3 DEF Stage
    <2>3. CASE t \notin T
      <3>1. tcb'[t] = tcb[t] /\ call'[t] = call[t]
        BY <1>1, <1>6, <2>3
      <3>2. ASSUME NEW f \in Event, call[t].on = {f}, Waiting(t)
            PROVE  Type(f)' = Type(f)
        <4>1. CASE f = e /\ W = ecb[e].wait
          <5>1. Alive(t) /\ tcb[t].prio \in Prio /\ InList(t, e)
            BY <1>0, <2>1, <3>2, <4>1 DEF Stage, InList, Shapes, Tcb
          <5> QED  BY <1>0, <1>3, <2>3, <4>1, <5>1 DEF WaitBit, Alive
        <4>2. CASE ~ (f = e /\ W = ecb[e].wait)
          BY <1>7, <4>2 DEF Type
        <4> QED  BY <4>1, <4>2
      <3> QED  BY <2>1, <3>1, <3>2 DEF Stage, Waiting
    <2> QED  BY <2>2, <2>3
  <1>11. ASSUME NEW p \in Prio
         PROVE  ReadyBit(p)'
    <2>1. ReadyBit(p)
      BY <1>0
    <2>2. CASE p \in W
      <3> DEFINE t == OSTCBPrioTbl[p]
      <3>1. t \in T /\ t \in Task /\ tcb[t].prio = p
        BY <1>2, <1>3, <2>2
      <3>2. p \in OSRdyTbl' <=> "SUSPEND" \notin tcb[t].stat
        <4>1. p \notin OSRdyTbl \/ "SUSPEND" \notin tcb[t].stat
          BY <2>1, <3>1 DEF ReadyBit, Unblocked
        <4>2. \A u \in T : tcb[u].prio = p => u = t
          BY <1>3
        <4> QED  BY <1>1, <3>1, <4>1, <4>2 DEF Unsuspended
      <3>3. Unblocked(t)' <=> "SUSPEND" \notin tcb[t].stat
        <4>1. tcb[t].stat \subseteq Kinds \cup {"SUSPEND"} /\ "SUSPEND" \notin Kinds
          BY <1>0, <3>1 DEF Shapes, Tcb, Kinds
        <4>2. tcb[t].stat \ Kinds = {} <=> "SUSPEND" \notin tcb[t].stat
          BY <4>1
        <4>3. tcb'[t].dly = 0 /\ tcb'[t].stat = tcb[t].stat \ Kinds
          BY <1>6, <3>1
        <4> QED  BY <1>1, <4>2, <4>3 DEF Unblocked
      <3> QED  BY <1>1, <3>1, <3>2, <3>3 DEF ReadyBit
    <2>3. CASE p \notin W
      <3>1. p \in OSRdyTbl' <=> p \in OSRdyTbl
        BY <1>1, <1>3, <2>3 DEF Unsuspended
      <3>2. OSTCBPrioTbl[p] \notin T
        BY <1>3, <2>3
      <3> QED  BY <1>1, <1>6, <2>1, <3>1, <3>2 DEF ReadyBit, Unblocked
    <2> QED  BY <2>2, <2>3
  <1>12. ASSUME NEW f \in Event, NEW p \in Prio
         PROVE  WaitBit(f, p)'
    <2>1. WaitBit(f, p)
      BY <1>0
    <2>2. CASE OSTCBPrioTbl[p] \in T
      <3>1. p \in W /\ ~ InList(OSTCBPrioTbl[p], f)'
        BY <1>1, <1>3, <1>6, <2>2 DEF InList, Waiting
      <3>2. p \notin ecb'[f].wait
        <4>1. CASE f = e
          BY <1>7, <3>1, <4>1
        <4>2. CASE f # e
          <5>1. ~ InList(OSTCBPrioTbl[p], f)
            BY <1>5, <2>2, <4>2 DEF InList
          <5> QED  BY <1>7, <2>1, <4>2, <5>1 DEF WaitBit
        <4> QED  BY <4>1, <4>2
      <3> QED  BY <1>1, <3>1, <3>2 DEF WaitBit
    <2>3. CASE OSTCBPrioTbl[p] \notin T
      <3>1. p \notin W
        BY <1>3, <2>3
      <3>2. p \in ecb'[f].wait <=> p \in ecb[f].wait
        BY <1>7, <3>1
      <3> QED  BY <1>1, <1>6, <2>1, <2>3, <3>2 DEF WaitBit, InList, Waiting
    <2> QED  BY <2>2, <2>3
  <1>13. ASSUME NEW f \in Event, ecb'[f].wait # {}
         PROVE  Lacks(f)'
    BY <1>0, <1>7, <1>13 DEF Lacks, Type
  <1>14. IdleStays'
    <2>1. Idle \notin T
      BY <1>0, <1>3 DEF IdleStays, InList, NoCall
    <2> QED  BY <1>0, <1>1, <1>6, <2>1, CoreAssumption DEF IdleStays, Unblocked
  <1>15. Tables'
    BY <1>8, <1>9, <1>10, <1>11, <1>12, <1>13, <1>14 DEF Tables
  <1>16. Scheduled'
    <2>1. CASE W # {}
      <3>1. OS_Sched /\ OSRdyTbl \subseteq OSRdyTbl'
        BY <1>1, <2>1 DEF SchedIf
      <3> QED  BY <1>0, <1>1, <1>15, <3>1, Switch DEF Scheduled
    <2>2. CASE W = {}
      <3>1. NoSched /\ OSRdyTbl' = OSRdyTbl
        BY <1>1, <1>3, <2>2 DEF SchedIf, Unsuspended
      <3> QED  BY <1>0, <1>1, <3>1, NoSwitch DEF Unlocked
    <2> QED  BY <2>1, <2>2
  <1> QED  BY <1>15, <1>16 DEF KernelInv

-----------------------------------------------------------------------------
(* Time. *)

(* The delays of S end, those of the other tasks go on: a plain delay makes *)
(* its task ready, a timeout too, but leaves it in the list.                *)
LEMMA DelaysEnd ==
    ASSUME KernelInv, NEW S \in SUBSET Task, \A t \in S : tcb[t].dly > 0,
           NEW later \in [Task -> Nat], \A t \in Task : later[t] = 0 <=> tcb[t].dly = 0,
           tcb' = [t \in Task |-> IF t \in S THEN DelayOver(tcb[t])
                                  ELSE [tcb[t] EXCEPT !.dly = later[t]]],
           OSRdyTbl' = OSRdyTbl \cup {tcb[t].prio : t \in Unsuspended(S)},
           UNCHANGED <<call, OSTCBPrioTbl, ecb, OSLockNesting, node>>,
           OS_Sched \/ (NoSched /\ Unsuspended(S) = {})
    PROVE  KernelInv'
PROOF
  <1>0. /\ Shapes /\ PrioMaps /\ IdleStays /\ Scheduled
        /\ \A u \in Task : Stage(u)
        /\ \A p \in Prio : ReadyBit(p)
        /\ \A f \in Event : \A p \in Prio : WaitBit(f, p)
        /\ \A f \in Event : ecb[f].wait # {} => Lacks(f)
    BY DEF KernelInv, Tables
  <1>1. ASSUME NEW t \in Task
        PROVE  /\ tcb[t] \in Tcb /\ tcb[t].dly \in Nat
               /\ tcb[t].stat \subseteq Kinds \cup {"SUSPEND"}
               /\ tcb[t].stat \ PendAny = tcb[t].stat \ Kinds
               /\ tcb[t].stat \cap PendAny = tcb[t].stat \cap Kinds
    BY <1>0 DEF Shapes, Tcb, Kinds, PendAny
  <1>2. ASSUME NEW t \in S
        PROVE  /\ tcb[t].dly # 0 /\ Alive(t) /\ tcb[t].prio \in Prio
               /\ OSTCBPrioTbl[tcb[t].prio] = t
               /\ tcb[t].prio \notin OSRdyTbl
    <2>1. tcb[t].dly # 0 /\ Stage(t) /\ tcb[t].prio \in Prio
      BY <1>0, <1>1 DEF Tcb
    <2>2. Alive(t)
      BY <2>1 DEF Stage
    <2> QED  BY <1>0, <2>1, <2>2 DEF Alive, ReadyBit, Unblocked
  <1>3. ASSUME NEW t \in Task
        PROVE  /\ tcb'[t] \in Tcb /\ tcb'[t].prio = tcb[t].prio /\ tcb'[t].event = tcb[t].event
               /\ tcb'[t].msg = tcb[t].msg
               /\ t \in S => /\ tcb'[t].dly = 0 /\ tcb'[t].stat = tcb[t].stat \ Kinds
                            /\ tcb'[t].pend = IF Waiting(t) THEN "TO" ELSE "OK"
               /\ t \notin S => /\ (tcb'[t].dly = 0 <=> tcb[t].dly = 0)
                               /\ tcb'[t].stat = tcb[t].stat /\ tcb'[t].pend = tcb[t].pend
    <2>1. CASE t \in S
      <3>1. tcb'[t] = [tcb[t] EXCEPT !.dly = 0, !.stat = tcb[t].stat \ Kinds,
                                     !.pend = IF Waiting(t) THEN "TO" ELSE "OK"]
        BY <1>1, <2>1 DEF DelayOver, Waiting
      <3>2. tcb[t].stat \ Kinds \in SUBSET (Kinds \cup {"SUSPEND"})
        BY <1>1
      <3>3. tcb[t] \in Tcb
        BY <1>1
      <3> DEFINE pend == IF Waiting(t) THEN "TO" ELSE "OK"
      <3>4. pend \in {"OK", "TO", "ABORT"}
        OBVIOUS
      <3>5. tcb'[t] = [tcb[t] EXCEPT !.dly = 0, !.stat = tcb[t].stat \ Kinds, !.pend = pend]
        BY <3>1
      <3> HIDE DEF pend
      <3>6. tcb'[t] = [prio |-> tcb[t].prio, stat |-> tcb[t].stat \ Kinds, pend |-> pend, dly |-> 0,
                       event |-> tcb[t].event, multi |-> tcb[t].multi, msg |-> tcb[t].msg]
        BY <3>3, <3>5 DEF Tcb
      <3>7. tcb'[t] \in Tcb
        BY <3>2, <3>3, <3>4, <3>6 DEF Tcb
      <3> QED  BY <2>1, <3>6, <3>7 DEF pend
    <2>2. CASE t \notin S
      <3>1. tcb'[t] = [tcb[t] EXCEPT !.dly = later[t]]
        BY <2>2
      <3> QED  BY <1>1, <2>2, <3>1 DEF Tcb
    <2> QED  BY <2>1, <2>2
  <1>4. tcb' \in [Task -> Tcb]
    BY <1>3
  <1>5. \A t \in Task : /\ call'[t] = call[t] /\ OSTCBPrioTbl' = OSTCBPrioTbl
                       /\ ecb' = ecb /\ (Alive(t)' <=> Alive(t))
    BY <1>3 DEF Alive
  <1>6. Shapes'
    <2>1. OSRdyTbl' \in SUBSET Prio
      BY <1>0, <1>2 DEF Shapes, Unsuspended
    <2> QED  BY <1>0, <1>4, <2>1 DEF Shapes, Type, Contents
  <1>7. PrioMaps'
    <2>1. \A t \in Task : tcb'[t].prio = tcb[t].prio
      BY <1>3
    <2> QED  BY <1>0, <2>1 DEF PrioMaps
  <1>8. ASSUME NEW t \in Task
        PROVE  Stage(t)'
    <2>1. Stage(t)
      BY <1>0
    <2>2. CASE t \in S
      <3>1. ~ Waiting(t)' /\ tcb'[t].dly = 0 /\ Alive(t)' /\ Alive(t)
        BY <1>2, <1>3, <1>5, <2>2 DEF Waiting
      <3> QED  BY <1>3, <1>5, <2>1, <2>2, <3>1 DEF Stage
    <2>3. CASE t \notin S
      <3>1. Waiting(t)' <=> Waiting(t)
        BY <1>3, <2>3 DEF Waiting
      <3> QED  BY <1>3, <1>5, <2>1, <2>3, <3>1 DEF Stage, Type
    <2> QED  BY <2>2, <2>3
  <1>9. ASSUME NEW p \in Prio
        PROVE  ReadyBit(p)'
    <2>1. ReadyBit(p)
      BY <1>0
    <2>2. CASE OSTCBPrioTbl[p] \in S
      <3>0. PICK t \in S : t = OSTCBPrioTbl[p]
        BY <2>2
      <3>1. t \in Task /\ tcb[t].prio = p
        BY <1>0, <3>0 DEF PrioMaps
      <3>2. p \in OSRdyTbl' <=> "SUSPEND" \notin tcb[t].stat
        <4>1. p \notin OSRdyTbl
          BY <1>2, <3>1
        <4>2. \A u \in S : tcb[u].prio = p => u = t
          BY <1>2, <3>1
        <4> QED  BY <3>1, <4>1, <4>2 DEF Unsuspended
      <3>3. Unblocked(t)' <=> "SUSPEND" \notin tcb[t].stat
        <4>1. tcb[t].stat \subseteq Kinds \cup {"SUSPEND"} /\ "SUSPEND" \notin Kinds
          BY <1>1, <3>1 DEF Kinds
        <4>2. tcb[t].stat \ Kinds = {} <=> "SUSPEND" \notin tcb[t].stat
          BY <4>1
        <4>3. tcb'[t].dly = 0 /\ tcb'[t].stat = tcb[t].stat \ Kinds
          BY <1>3, <3>1
        <4> QED  BY <4>2, <4>3 DEF Unblocked
      <3> QED  BY <3>0, <3>1, <3>2, <3>3 DEF ReadyBit
    <2>3. CASE OSTCBPrioTbl[p] \notin S
      <3>1. p \in OSRdyTbl' <=> p \in OSRdyTbl
        BY <1>2, <2>3 DEF Unsuspended
      <3> QED  BY <1>3, <2>1, <2>3, <3>1 DEF ReadyBit, Unblocked
    <2> QED  BY <2>2, <2>3
  <1>10. ASSUME NEW f \in Event, NEW p \in Prio
         PROVE  WaitBit(f, p)'
    <2>1. WaitBit(f, p)
      BY <1>0
    <2>2. ASSUME NEW t \in Task
          PROVE  InList(t, f)' <=> InList(t, f)
      <3>1. CASE t \in S
        <4>1. Stage(t) /\ tcb[t].dly # 0 /\ ~ Waiting(t)'
          BY <1>0, <1>2, <1>3, <3>1 DEF Waiting
        <4>2. call[t].on = {f} => Waiting(t) /\ tcb'[t].pend = "TO"
          BY <1>3, <3>1, <4>1 DEF Stage
        <4> QED  BY <4>1, <4>2 DEF InList
      <3>2. CASE t \notin S
        BY <1>3, <3>2 DEF InList, Waiting
      <3> QED  BY <3>1, <3>2
    <2> QED  BY <2>1, <2>2 DEF WaitBit
  <1>11. ASSUME NEW f \in Event, ecb'[f].wait # {}
         PROVE  Lacks(f)'
    BY <1>0, <1>11 DEF Lacks, Type
  <1>12. IdleStays'
    <2>1. Idle \notin S /\ Idle \in Task
      BY <1>0, CoreAssumption DEF IdleStays, Unblocked
    <2> QED  BY <1>0, <1>3, <2>1 DEF IdleStays, Unblocked
  <1>13. Tables'
    BY <1>6, <1>7, <1>8, <1>9, <1>10, <1>11, <1>12 DEF Tables
  <1>14. Scheduled'
    <2>1. CASE OS_Sched
      BY <1>0, <1>13, <2>1, Switch DEF Scheduled
    <2>2. CASE NoSched /\ Unsuspended(S) = {}
      <3>1. OSRdyTbl' = OSRdyTbl
        BY <2>2
      <3> QED  BY <1>0, <2>2, <3>1, NoSwitch DEF Unlocked
    <2> QED  BY <2>1, <2>2
  <1> QED  BY <1>13, <1>14 DEF KernelInv

LEMMA TickStep ==
    ASSUME KernelInv, OSTimeTick, UNCHANGED node
    PROVE  KernelInv'
PROOF
  <1> DEFINE over == {t \in Task : tcb[t].dly = 1}
             later == [t \in Task |-> IF tcb[t].dly \in {0, 1} THEN tcb[t].dly ELSE tcb[t].dly - 1]
  <1>1. \A t \in Task : tcb[t] \in Tcb /\ tcb[t].dly \in Nat
    BY DEF KernelInv, Tables, Shapes, Tcb
  <1>2. later \in [Task -> Nat] /\ \A t \in Task : later[t] = 0 <=> tcb[t].dly = 0
    BY <1>1
  <1>3. tcb' = [t \in Task |-> IF t \in over THEN DelayOver(tcb[t])
                              ELSE [tcb[t] EXCEPT !.dly = later[t]]]
    <2>1. \A t \in Task : tcb[t].dly = 0 => [tcb[t] EXCEPT !.dly = later[t]] = tcb[t]
      BY <1>1 DEF Tcb
    <2>2. \A t \in Task : tcb[t].dly # 0 /\ tcb[t].dly # 1 => later[t] = tcb[t].dly - 1
      OBVIOUS
    <2> QED  BY <2>1, <2>2 DEF OSTimeTick
  <1>4. /\ OSRdyTbl' = OSRdyTbl \cup {tcb[t].prio : t \in Unsuspended(over)}
        /\ UNCHANGED <<call, OSTCBPrioTbl, ecb, OSLockNesting>>
        /\ OS_Sched
    BY DEF OSTimeTick, OSIntExit
  <1>5. over \in SUBSET Task /\ \A t \in over : tcb[t].dly > 0
    BY <1>1
  <1> HIDE DEF over, later
  <1> QED  BY <1>2, <1>3, <1>4, <1>5, DelaysEnd

LEMMA DlyResumeStep ==
    ASSUME KernelInv, NEW p \in Named, OSTimeDlyResume(p), UNCHANGED node
    PROVE  KernelInv'
PROOF
  <1> DEFINE later == [t \in Task |-> tcb[t].dly]
  <1>1. PICK t \in Task : t = OSTCBPrioTbl[p]
    BY DEF Named, TaskPrio, App
  <1>2. \A u \in Task : tcb[u] \in Tcb /\ tcb[u].dly \in Nat /\ tcb \in [Task -> Tcb]
    BY DEF KernelInv, Tables, Shapes, Tcb
  <1>3. later \in [Task -> Nat] /\ \A u \in Task : later[u] = 0 <=> tcb[u].dly = 0
    BY <1>2
  <1>4. \A u \in Task : [tcb[u] EXCEPT !.dly = later[u]] = tcb[u]
    BY <1>2 DEF Tcb
  <1>5. tcb' = [u \in Task |-> IF u \in {t} THEN DelayOver(tcb[u])
                               ELSE [tcb[u] EXCEPT !.dly = later[u]]]
    BY <1>1, <1>2, <1>4 DEF OSTimeDlyResume
  <1>6. /\ OSRdyTbl' = OSRdyTbl \cup {tcb[u].prio : u \in Unsuspended({t})}
        /\ UNCHANGED <<call, OSTCBPrioTbl, ecb, OSLockNesting>>
        /\ OS_Sched \/ (NoSched /\ Unsuspended({t}) = {})
        /\ tcb[t].dly > 0
    BY <1>1 DEF OSTimeDlyResume, SchedIf
  <1> HIDE DEF later
  <1>7. {t} \in SUBSET Task /\ \A u \in {t} : tcb[u].dly > 0
    BY <1>6
  <1> QED  BY <1>3, <1>5, <1>6, <1>7, DelaysEnd

(* The delay or the suspension of one task changes, and its bit with it.    *)
LEMMA OneBlocksOrNot ==
    ASSUME KernelInv, NEW t \in App, Alive(t), NEW b \in Tcb, tcb' = [tcb EXCEPT ![t] = b],
           b.prio = tcb[t].prio, b.event = tcb[t].event, b.pend = tcb[t].pend,
           b.stat \ {"SUSPEND"} = tcb[t].stat \ {"SUSPEND"},
           call[t].on # {} => b.dly = tcb[t].dly,
           OSRdyTbl' \in SUBSET Prio,
           tcb[t].prio \in OSRdyTbl' <=> b.dly = 0 /\ b.stat = {},
           \A p \in Prio \ {tcb[t].prio} : p \in OSRdyTbl' <=> p \in OSRdyTbl,
           UNCHANGED <<call, OSTCBPrioTbl, ecb, OSLockNesting, node>>
    PROVE  Tables'
PROOF
  <1>0. /\ Shapes /\ PrioMaps /\ IdleStays
        /\ \A u \in Task : Stage(u)
        /\ \A p \in Prio : ReadyBit(p)
        /\ \A f \in Event : \A p \in Prio : WaitBit(f, p)
        /\ \A f \in Event : ecb[f].wait # {} => Lacks(f)
        /\ t \in Task /\ t # Idle
    BY DEF KernelInv, Tables, App
  <1>1. /\ tcb' \in [Task -> Tcb] /\ tcb'[t] = b
        /\ \A u \in Task : /\ u # t => tcb'[u] = tcb[u]
                           /\ tcb'[u].prio = tcb[u].prio /\ tcb'[u].event = tcb[u].event
                           /\ tcb'[u].pend = tcb[u].pend
                           /\ call[u].on # {} \/ u # t => tcb'[u].dly = tcb[u].dly
    BY <1>0 DEF Shapes
  <1>2. \A u \in Task : /\ Waiting(u)' <=> Waiting(u)
                       /\ tcb'[u].stat \ {"SUSPEND"} = tcb[u].stat \ {"SUSPEND"}
                       /\ Alive(u)' <=> Alive(u)
    BY <1>1 DEF Waiting, Kinds, Alive
  <1>3. Shapes'
    BY <1>0, <1>1 DEF Shapes, Type, Contents
  <1>4. PrioMaps'
    BY <1>0, <1>1 DEF PrioMaps
  <1>5. ASSUME NEW u \in Task
        PROVE  Stage(u)'
    <2>1. Stage(u)
      BY <1>0
    <2>2. /\ tcb'[u].event = tcb[u].event /\ tcb'[u].pend = tcb[u].pend
          /\ call'[u] = call[u] /\ ecb' = ecb
          /\ call[u].on # {} => tcb'[u].dly = tcb[u].dly
          /\ ~ Alive(u) => tcb'[u].dly = tcb[u].dly
          /\ Waiting(u)' <=> Waiting(u)
          /\ tcb'[u].stat \ {"SUSPEND"} = tcb[u].stat \ {"SUSPEND"}
          /\ Alive(u)' <=> Alive(u)
      BY <1>1, <1>2 DEF Waiting, Alive
    <2>3. \A f \in Event : Type(f)' = Type(f)
      BY DEF Type
    <2>4. \A f \in Event : call[u].on = {f} => call[u].on # {}
      OBVIOUS
    <2> QED  BY <2>1, <2>2, <2>3, <2>4 DEF Stage
  <1>6. ASSUME NEW p \in Prio
        PROVE  ReadyBit(p)'
    <2>1. ReadyBit(p)
      BY <1>0
    <2>2. CASE p = tcb[t].prio
      BY <1>0, <1>1, <2>2 DEF ReadyBit, Unblocked, Alive
    <2>3. CASE p # tcb[t].prio
      <3>1. OSTCBPrioTbl[p] # t
        BY <1>0, <2>3 DEF PrioMaps
      <3> QED  BY <1>1, <2>1, <2>3, <3>1 DEF ReadyBit, Unblocked
    <2> QED  BY <2>2, <2>3
  <1>7. ASSUME NEW f \in Event, NEW p \in Prio
        PROVE  WaitBit(f, p)'
    <2>1. WaitBit(f, p)
      BY <1>0
    <2>2. \A u \in Task : InList(u, f)' <=> InList(u, f)
      BY <1>1, <1>2 DEF InList, Waiting
    <2> QED  BY <2>1, <2>2 DEF WaitBit
  <1>8. ASSUME NEW f \in Event, ecb'[f].wait # {}
        PROVE  Lacks(f)'
    BY <1>0, <1>8 DEF Lacks, Type
  <1>9. IdleStays'
    BY <1>0, <1>1, CoreAssumption DEF IdleStays, Unblocked
  <1> QED  BY <1>3, <1>4, <1>5, <1>6, <1>7, <1>8, <1>9 DEF Tables

LEMMA TimeDlyStep ==
    ASSUME KernelInv, NEW t \in App, NEW n \in Nat \ {0}, Unlocked, OSTimeDly(t, n), UNCHANGED node
    PROVE  KernelInv'
PROOF
  <1> DEFINE b == [tcb[t] EXCEPT !.dly = n]
  <1>1. /\ t \in Task /\ t # Idle /\ call[t] = NoCall /\ Alive(t) /\ OSTCBCur = t
        /\ tcb \in [Task -> Tcb] /\ tcb[t] \in Tcb /\ OSRdyTbl \in SUBSET Prio
    BY RunnerStands DEF OSTimeDly, Runs, App, KernelInv, Tables, Shapes
  <1>2. /\ b \in Tcb /\ b.prio = tcb[t].prio /\ b.event = tcb[t].event /\ b.pend = tcb[t].pend
        /\ b.stat = tcb[t].stat /\ b.dly = n
    BY <1>1 DEF Tcb
  <1>3. tcb' = [tcb EXCEPT ![t] = b]
    BY DEF OSTimeDly
  <1>4. /\ OSRdyTbl' = OSRdyTbl \ {tcb[t].prio}
        /\ UNCHANGED <<call, OSTCBPrioTbl, ecb, OSLockNesting>>
        /\ OS_Sched
    BY DEF OSTimeDly
  <1> HIDE DEF b
  <1>5. Tables'
    <2>1. call[t].on = {}
      BY <1>1 DEF NoCall
    <2>2. tcb[t].prio \in OSRdyTbl' <=> b.dly = 0 /\ b.stat = {}
      BY <1>2, <1>4
    <2>3. \A q \in Prio \ {tcb[t].prio} : q \in OSRdyTbl' <=> q \in OSRdyTbl
      BY <1>4
    <2>4. OSRdyTbl' \in SUBSET Prio
      BY <1>1, <1>4
    <2> QED  BY <1>1, <1>2, <1>3, <1>4, <2>1, <2>2, <2>3, <2>4, OneBlocksOrNot
  <1>6. Scheduled'
    BY <1>4, <1>5, Switch DEF KernelInv, Scheduled, Unlocked
  <1> QED  BY <1>5, <1>6 DEF KernelInv

LEMMA SuspendStep ==
    ASSUME KernelInv, NEW p \in Named, Unlocked, OSTaskSuspend(p), UNCHANGED node
    PROVE  KernelInv'
PROOF
  <1>1. PICK t \in App : t = OSTCBPrioTbl[p] /\ tcb[t].prio = p /\ p \in Prio
    BY DEF Named, TaskPrio, OSTaskQuery
  <1> DEFINE b == [tcb[t] EXCEPT !.stat = tcb[t].stat \cup {"SUSPEND"}]
  <1>2. /\ t \in Task /\ Alive(t)
        /\ tcb \in [Task -> Tcb] /\ tcb[t] \in Tcb /\ OSRdyTbl \in SUBSET Prio
    BY <1>1 DEF App, KernelInv, Tables, Shapes, Alive
  <1>3. /\ b \in Tcb /\ b.prio = tcb[t].prio /\ b.event = tcb[t].event /\ b.pend = tcb[t].pend
        /\ b.stat = tcb[t].stat \cup {"SUSPEND"} /\ b.dly = tcb[t].dly
    BY <1>2 DEF Tcb
  <1>4. tcb' = [tcb EXCEPT ![t] = b]
    BY <1>1 DEF OSTaskSuspend
  <1>5. /\ OSRdyTbl' = OSRdyTbl \ {p}
        /\ UNCHANGED <<call, OSTCBPrioTbl, ecb, OSLockNesting>>
        /\ SchedIf(p = tcb[OSTCBCur].prio)
    BY <1>1 DEF OSTaskSuspend
  <1> HIDE DEF b
  <1>6. Tables'
    BY <1>1, <1>2, <1>3, <1>4, <1>5, OneBlocksOrNot
  <1>7. Scheduled'
    <2>1. CASE p = OSPrioCur
      BY <1>5, <1>6, <2>1, RunnerStands, Switch DEF KernelInv, SchedIf, Scheduled, Unlocked
    <2>2. CASE p # OSPrioCur
      <3>1. NoSched /\ OSPrioCur \in OSRdyTbl' /\ OSPrioCur = Min(OSRdyTbl)
        BY <1>5, <2>2, RunnerStands DEF SchedIf, KernelInv, Scheduled
      <3>2. \A q \in OSRdyTbl' : OSPrioCur <= q
        BY <1>2, <1>5, <3>1, MinOfPrios
      <3>3. Min(OSRdyTbl') = OSPrioCur
        BY <1>2, <1>5, <3>1, <3>2, MinUnique
      <3> QED  BY <1>5, <3>1, <3>3, RunnerStands DEF Scheduled, NoSched
    <2> QED  BY <2>1, <2>2
  <1> QED  BY <1>6, <1>7 DEF KernelInv

LEMMA ResumeStep ==
    ASSUME KernelInv, NEW p \in Named, Unlocked, OSTaskResume(p), UNCHANGED node
    PROVE  KernelInv'
PROOF
  <1>1. PICK t \in App : t = OSTCBPrioTbl[p] /\ tcb[t].prio = p /\ p \in Prio
    BY DEF Named, TaskPrio, OSTaskQuery
  <1> DEFINE b == [tcb[t] EXCEPT !.stat = tcb[t].stat \ {"SUSPEND"}]
             readied == tcb[t].stat = {"SUSPEND"} /\ tcb[t].dly = 0
  <1>2. /\ t \in Task /\ Alive(t)
        /\ tcb \in [Task -> Tcb] /\ tcb[t] \in Tcb /\ OSRdyTbl \in SUBSET Prio
        /\ "SUSPEND" \in tcb[t].stat /\ ReadyBit(p)
    BY <1>1 DEF App, KernelInv, Tables, Shapes, Alive, OSTaskResume
  <1>3. /\ b \in Tcb /\ b.prio = tcb[t].prio /\ b.event = tcb[t].event /\ b.pend = tcb[t].pend
        /\ b.stat = tcb[t].stat \ {"SUSPEND"} /\ b.dly = tcb[t].dly
    BY <1>2 DEF Tcb
  <1>4. tcb' = [tcb EXCEPT ![t] = b]
    BY <1>1 DEF OSTaskResume
  <1>5. /\ OSRdyTbl' = IF readied THEN OSRdyTbl \cup {p} ELSE OSRdyTbl
        /\ UNCHANGED <<call, OSTCBPrioTbl, ecb, OSLockNesting>>
        /\ SchedIf(readied)
    BY <1>1 DEF OSTaskResume
  <1>6. /\ p \notin OSRdyTbl
        /\ readied <=> b.dly = 0 /\ b.stat = {}
    BY <1>1, <1>2, <1>3 DEF ReadyBit, Unblocked
  <1> HIDE DEF b, readied
  <1>7. Tables'
    BY <1>1, <1>2, <1>3, <1>4, <1>5, <1>6, OneBlocksOrNot
  <1>8. Scheduled'
    <2>1. CASE readied
      BY <1>5, <1>7, <2>1, Switch DEF KernelInv, SchedIf, Scheduled, Unlocked
    <2>2. CASE ~ readied
      BY <1>5, <2>2, NoSwitch DEF KernelInv, SchedIf, Unlocked
    <2> QED  BY <2>1, <2>2
  <1> QED  BY <1>7, <1>8 DEF KernelInv

(* A task moves to a free priority, in the ready table or in the list of    *)
(* the object it waits for.  Were it just woken, its block would still name  *)
(* an object whose list it has left.                                       *)
LEMMA ChangePrioStep ==
    ASSUME KernelInv, NEW p \in Named, NEW q \in Prio, Unlocked, ~ JustWoken(OSTCBPrioTbl[p]),
           OSTaskChangePrio(p, q), UNCHANGED node
    PROVE  KernelInv'
PROOF
  <1>1. PICK t \in App : t = OSTCBPrioTbl[p] /\ tcb[t].prio = p /\ p \in Prio
    BY DEF Named, TaskPrio, OSTaskQuery
  <1> DEFINE lists == {e \in Event : e = tcb[t].event}
  <1>0. /\ Shapes /\ PrioMaps /\ IdleStays /\ Scheduled
        /\ \A u \in Task : Stage(u)
        /\ \A r \in Prio : ReadyBit(r)
        /\ \A f \in Event : \A r \in Prio : WaitBit(f, r)
        /\ \A f \in Event : ecb[f].wait # {} => Lacks(f)
        /\ t \in Task /\ t # Idle /\ Alive(t)
    BY <1>1 DEF KernelInv, Tables, App, Alive
  <1>2. tcb[t] \in Tcb /\ tcb[t].multi = {} /\ tcb[t].stat \cap PendAny = tcb[t].stat \cap Kinds
    BY <1>0 DEF Shapes, Tcb, Kinds, PendAny
  <1>3. /\ OSTCBPrioTbl[q] = "free" /\ q # LowestPrio
        /\ OSTCBPrioTbl' = [OSTCBPrioTbl EXCEPT ![p] = "free", ![q] = t]
        /\ OSRdyTbl' = IF p \in OSRdyTbl THEN (OSRdyTbl \ {p}) \cup {q} ELSE OSRdyTbl
        /\ ecb' = Waits(Unwaits(ecb, lists, {p}), lists, q)
        /\ tcb' = [tcb EXCEPT ![t].prio = q]
        /\ UNCHANGED <<call, OSLockNesting, node>>
        /\ OS_Sched
    <2>1. {e \in Event : e = tcb[t].event \/ e \in tcb[t].multi} = lists
      BY <1>2
    <2> QED  BY <1>1, <2>1 DEF OSTaskChangePrio
  <1>4. /\ \A u \in Task : u # "free"
        /\ q # p /\ p # LowestPrio /\ q \notin OSRdyTbl
        /\ \A f \in Event : q \notin ecb[f].wait
        /\ \A f \in Event : f # Null
    BY <1>0, <1>1, <1>3, NamesAssumption DEF IdleStays, ReadyBit, WaitBit, Null
  <1>5. \A f \in Event : /\ f \in lists => p \in ecb[f].wait
                        /\ InList(t, f) <=> f \in lists
    <2>1. ASSUME NEW f \in Event, f \in lists
          PROVE  InList(t, f)
      <3>1. Stage(t) /\ tcb[t].event = f /\ f # Null
        BY <1>0, <1>4, <2>1
      <3>2. call[t].on # {}
        BY <1>0, <3>1 DEF Stage
      <3>3. PICK e \in Event : call[t].on = {e}
        <4>1. call[t] \in Call
          BY <1>0 DEF Shapes
        <4>2. call[t].on \in {{}} \cup {{e} : e \in Event}
          BY <4>1 DEF Call
        <4> QED  BY <3>2, <4>2
      <3>4. e = f
        BY <3>1, <3>3 DEF Stage
      <3> QED  BY <1>1, <1>2, <3>2, <3>3, <3>4 DEF InList, JustWoken, Waiting
    <2>2. ASSUME NEW f \in Event, InList(t, f)
          PROVE  f \in lists
      BY <1>0, <2>2 DEF InList, Stage
    <2> QED  BY <1>0, <1>1, <2>1, <2>2 DEF WaitBit
  <1>6. /\ tcb' \in [Task -> Tcb] /\ tcb'[t].prio = q
        /\ \A u \in Task : /\ u # t => tcb'[u] = tcb[u]
                           /\ tcb'[u].stat = tcb[u].stat /\ tcb'[u].pend = tcb[u].pend
                           /\ tcb'[u].dly = tcb[u].dly /\ tcb'[u].event = tcb[u].event
    <2>1. /\ [tcb[t] EXCEPT !.prio = q] \in Tcb
          /\ tcb' = [tcb EXCEPT ![t] = [tcb[t] EXCEPT !.prio = q]]
      BY <1>2, <1>3 DEF Tcb
    <2>2. tcb \in [Task -> Tcb]
      BY <1>0 DEF Shapes
    <2>3. tcb' \in [Task -> Tcb] /\ tcb'[t] = [tcb[t] EXCEPT !.prio = q]
      BY <1>0, <2>1, <2>2
    <2>4. \A u \in Task : u # t => tcb'[u] = tcb[u]
      BY <2>1, <2>2
    <2>5. /\ tcb'[t].prio = q /\ tcb'[t].stat = tcb[t].stat /\ tcb'[t].pend = tcb[t].pend
          /\ tcb'[t].dly = tcb[t].dly /\ tcb'[t].event = tcb[t].event
      BY <1>2, <2>3 DEF Tcb
    <2> QED  BY <2>3, <2>4, <2>5
  <1>7. /\ ecb' \in [Event -> Ecb]
        /\ \A f \in Event : /\ ecb'[f].type = ecb[f].type /\ ecb'[f].obj = ecb[f].obj
                            /\ f \notin lists => ecb'[f].wait = ecb[f].wait
                            /\ f \in lists => ecb'[f].wait = (ecb[f].wait \ {p}) \cup {q}
    <2>1. \A f \in Event : ecb[f] \in Ecb
      BY <1>0 DEF Shapes
    <2>2. ASSUME NEW f \in Event
          PROVE  /\ ecb'[f] \in Ecb
                 /\ ecb'[f].type = ecb[f].type /\ ecb'[f].obj = ecb[f].obj
                 /\ f \notin lists => ecb'[f].wait = ecb[f].wait
                 /\ f \in lists => ecb'[f].wait = (ecb[f].wait \ {p}) \cup {q}
      <3>1. CASE f \notin lists
        BY <1>3, <2>1, <3>1 DEF Waits, Unwaits
      <3>2. CASE f \in lists
        <4>1. ecb'[f] = [[ecb[f] EXCEPT !.wait = ecb[f].wait \ {p}]
                           EXCEPT !.wait = (ecb[f].wait \ {p}) \cup {q}]
          BY <1>3, <2>1, <3>2 DEF Waits, Unwaits, Ecb
        <4>2. (ecb[f].wait \ {p}) \cup {q} \in SUBSET Prio
          BY <2>1 DEF Ecb
        <4>3. ecb'[f] = [type |-> ecb[f].type, wait |-> (ecb[f].wait \ {p}) \cup {q},
                         obj |-> ecb[f].obj]
          BY <2>1, <4>1 DEF Ecb
        <4> QED  BY <2>1, <3>2, <4>2, <4>3 DEF Ecb
      <3> QED  BY <3>1, <3>2
    <2>3. ecb' = [f \in Event |-> ecb'[f]]
      BY <1>3 DEF Waits
    <2> QED  BY <2>2, <2>3
  <1> HIDE DEF lists
  <1>8. /\ OSTCBPrioTbl' \in [Prio -> Task \cup {"free"}]
        /\ OSTCBPrioTbl'[p] = "free" /\ OSTCBPrioTbl'[q] = t
        /\ \A r \in Prio \ {p, q} : OSTCBPrioTbl'[r] = OSTCBPrioTbl[r]
    BY <1>0, <1>1, <1>3, <1>4 DEF Shapes
  <1>9. Shapes'
    <2>1. OSRdyTbl' \in SUBSET Prio
      BY <1>0, <1>3 DEF Shapes
    <2> QED  BY <1>0, <1>3, <1>6, <1>7, <1>8, <2>1 DEF Shapes, Type, Contents
  <1>10. PrioMaps'
    <2>1. \A r \in Prio \ {p, q} : OSTCBPrioTbl[r] # t
      BY <1>0, <1>1 DEF PrioMaps
    <2> QED  BY <1>0, <1>4, <1>6, <1>8, <2>1 DEF PrioMaps
  <1>11. ASSUME NEW u \in Task
         PROVE  Alive(u)' <=> Alive(u)
    <2>1. CASE u = t
      BY <1>0, <1>6, <1>8, <2>1 DEF Alive
    <2>2. CASE u # t
      <3>1. tcb[u].prio \in Prio /\ tcb'[u].prio = tcb[u].prio
        BY <1>0, <1>6, <2>2 DEF Shapes, Tcb
      <3> QED  BY <1>1, <1>3, <1>4, <1>8, <2>2, <3>1 DEF Alive
    <2> QED  BY <2>1, <2>2
  <1>12. ASSUME NEW u \in Task
         PROVE  Stage(u)'
    <2>1. /\ Stage(u)
          /\ tcb'[u].event = tcb[u].event /\ tcb'[u].pend = tcb[u].pend
          /\ tcb'[u].dly = tcb[u].dly /\ tcb'[u].stat = tcb[u].stat
          /\ call'[u] = call[u]
          /\ Alive(u)' <=> Alive(u)
          /\ \A f \in Event : Type(f)' = Type(f)
      BY <1>0, <1>3, <1>6, <1>7, <1>11 DEF Type
    <2> QED  BY <2>1 DEF Stage, Waiting
  <1>13. ASSUME NEW r \in Prio
         PROVE  ReadyBit(r)'
    <2>1. ReadyBit(r) /\ ReadyBit(p)
      BY <1>0, <1>1
    <2>2. CASE r = p
      BY <1>3, <1>4, <1>8, <2>1, <2>2, <1>1 DEF ReadyBit
    <2>3. CASE r = q
      BY <1>0, <1>1, <1>3, <1>4, <1>6, <1>8, <2>1, <2>3 DEF ReadyBit, Unblocked
    <2>4. CASE r \notin {p, q}
      <3>1. r \in OSRdyTbl' <=> r \in OSRdyTbl
        BY <1>3, <2>4
      <3> QED  BY <1>6, <1>8, <2>1, <2>4, <3>1 DEF ReadyBit, Unblocked
    <2> QED  BY <2>2, <2>3, <2>4
  <1>14. ASSUME NEW f \in Event, NEW r \in Prio
         PROVE  WaitBit(f, r)'
    <2>1. WaitBit(f, r) /\ WaitBit(f, p)
      BY <1>0, <1>1
    <2>2. \A u \in Task : InList(u, f)' <=> InList(u, f)
      BY <1>3, <1>6 DEF InList, Waiting
    <2>3. CASE r = p
      <3>1. p \notin ecb'[f].wait
        BY <1>0, <1>1, <1>4, <1>5, <1>7, <2>1 DEF WaitBit
      <3> QED  BY <1>4, <1>8, <2>3, <3>1 DEF WaitBit
    <2>4. CASE r = q
      <3>1. q \in ecb'[f].wait <=> InList(t, f)
        BY <1>4, <1>5, <1>7
      <3> QED  BY <1>0, <1>8, <2>2, <2>4, <3>1 DEF WaitBit
    <2>5. CASE r \notin {p, q}
      <3>1. r \in ecb'[f].wait <=> r \in ecb[f].wait
        BY <1>7, <2>5
      <3> QED  BY <1>8, <2>1, <2>2, <2>5, <3>1 DEF WaitBit
    <2> QED  BY <2>3, <2>4, <2>5
  <1>15. ASSUME NEW f \in Event, ecb'[f].wait # {}
         PROVE  Lacks(f)'
    <2>1. ecb[f].wait # {}
      BY <1>5, <1>7, <1>15
    <2> QED  BY <1>0, <1>7, <2>1 DEF Lacks, Type
  <1>16. IdleStays'
    BY <1>0, <1>3, <1>4, <1>6, <1>8, LowestIsPrio, CoreAssumption DEF IdleStays, Unblocked
  <1>17. Tables'
    BY <1>9, <1>10, <1>12, <1>13, <1>14, <1>15, <1>16 DEF Tables
  <1>18. Scheduled'
    <2>1. /\ OSTCBPrioTbl[OSPrioCur] = OSTCBCur /\ OSTCBCur \in Task
          /\ OSPrioCur \in Prio /\ OSPrioCur \in OSRdyTbl
      BY RunnerStands
    <2>2. OSPrioCur \in OSRdyTbl' => OSTCBPrioTbl'[OSPrioCur] = OSTCBCur
      BY <1>3, <1>4, <1>8, <2>1
    <2>3. OSLockNesting' = 0
      BY <1>3 DEF Unlocked
    <2> QED  BY <1>0, <1>3, <1>17, <2>2, <2>3, Switch
  <1> QED  BY <1>17, <1>18 DEF KernelInv

(* A task created at a free priority is ready, and in no list.              *)
LEMMA CreateStep ==
    ASSUME KernelInv, NEW t \in App, NEW p \in Prio, OSTaskCreate(t, p), UNCHANGED node
    PROVE  KernelInv'
PROOF
  <1>0. /\ Shapes /\ PrioMaps /\ IdleStays /\ Scheduled
        /\ \A u \in Task : Stage(u)
        /\ \A r \in Prio : ReadyBit(r)
        /\ \A f \in Event : \A r \in Prio : WaitBit(f, r)
        /\ \A f \in Event : ecb[f].wait # {} => Lacks(f)
        /\ t \in Task /\ t # Idle
    BY DEF KernelInv, Tables, App
  <1>1. /\ ~ Alive(t) /\ OSTCBPrioTbl[p] = "free"
        /\ OSTCBPrioTbl' = [OSTCBPrioTbl EXCEPT ![p] = t]
        /\ tcb' = [tcb EXCEPT ![t] = NewTcb(p)]
        /\ OSRdyTbl' = OSRdyTbl \cup {p}
        /\ UNCHANGED <<call, ecb, OSLockNesting, node>>
        /\ OS_Sched
    BY DEF OSTaskCreate
  <1>2. /\ \A u \in Task : u # "free"
        /\ p # LowestPrio /\ p \notin OSRdyTbl
        /\ \A f \in Event : p \notin ecb[f].wait
        /\ \A r \in Prio : OSTCBPrioTbl[r] # t
        /\ call[t] = NoCall
    <2>1. \A u \in Task : u # "free"
      BY NamesAssumption
    <2>2. p # LowestPrio /\ p \notin OSRdyTbl
      BY <1>0, <1>1, <2>1, CoreAssumption DEF IdleStays, ReadyBit
    <2>3. \A f \in Event : p \notin ecb[f].wait
      BY <1>0, <1>1, <2>1 DEF WaitBit
    <2>4. \A r \in Prio : OSTCBPrioTbl[r] # t
      BY <1>0, <1>1 DEF PrioMaps, Alive
    <2>5. call[t] = NoCall
      BY <1>0, <1>1 DEF Stage
    <2> QED  BY <2>1, <2>2, <2>3, <2>4, <2>5
  <1>3. /\ tcb' \in [Task -> Tcb] /\ tcb'[t] = NewTcb(p)
        /\ \A u \in Task : u # t => tcb'[u] = tcb[u]
    BY <1>0, <1>1 DEF Shapes, Tcb, NewTcb, Kinds
  <1>4. /\ OSTCBPrioTbl' \in [Prio -> Task \cup {"free"}]
        /\ OSTCBPrioTbl'[p] = t
        /\ \A r \in Prio \ {p} : OSTCBPrioTbl'[r] = OSTCBPrioTbl[r]
    BY <1>0, <1>1 DEF Shapes
  <1>5. Shapes'
    BY <1>0, <1>1, <1>3, <1>4 DEF Shapes, Type, Contents
  <1>6. PrioMaps'
    BY <1>0, <1>2, <1>3, <1>4 DEF PrioMaps, NewTcb
  <1>7. ASSUME NEW u \in Task
        PROVE  Stage(u)'
    <2>1. CASE u = t
      BY <1>1, <1>2, <1>3, <1>4, <2>1 DEF Stage, Alive, Waiting, NewTcb, NoCall
    <2>2. CASE u # t
      <3>1. tcb[u].prio \in Prio
        BY <1>0 DEF Shapes, Tcb
      <3>2. Alive(u)' <=> Alive(u)
        BY <1>1, <1>2, <1>3, <1>4, <2>2, <3>1 DEF Alive
      <3>3. Stage(u) /\ tcb'[u] = tcb[u]
        BY <1>0, <1>3, <2>2
      <3> QED  BY <1>1, <3>2, <3>3 DEF Stage, Waiting, Type
    <2> QED  BY <2>1, <2>2
  <1>8. ASSUME NEW r \in Prio
        PROVE  ReadyBit(r)'
    <2>1. ReadyBit(r)
      BY <1>0
    <2>2. CASE r = p
      BY <1>0, <1>1, <1>3, <1>4, <2>2 DEF ReadyBit, Unblocked, NewTcb
    <2>3. CASE r # p
      BY <1>1, <1>2, <1>3, <1>4, <2>1, <2>3 DEF ReadyBit, Unblocked
    <2> QED  BY <2>2, <2>3
  <1>9. ASSUME NEW f \in Event, NEW r \in Prio
        PROVE  WaitBit(f, r)'
    <2>1. WaitBit(f, r)
      BY <1>0
    <2>2. CASE r = p
      BY <1>1, <1>2, <1>4, <2>2 DEF WaitBit, InList, NoCall
    <2>3. CASE r # p
      BY <1>1, <1>2, <1>3, <1>4, <2>1, <2>3 DEF WaitBit, InList, Waiting
    <2> QED  BY <2>2, <2>3
  <1>10. ASSUME NEW f \in Event, ecb'[f].wait # {}
         PROVE  Lacks(f)'
    BY <1>0, <1>1, <1>10 DEF Lacks, Type
  <1>11. IdleStays'
    BY <1>0, <1>1, <1>2, <1>3, <1>4, LowestIsPrio, CoreAssumption DEF IdleStays, Unblocked
  <1>12. Tables'
    BY <1>5, <1>6, <1>7, <1>8, <1>9, <1>10, <1>11 DEF Tables
  <1>13. Scheduled'
    <2>1. OSPrioCur \in Prio /\ OSPrioCur \in OSRdyTbl /\ OSTCBPrioTbl[OSPrioCur] = OSTCBCur
      BY RunnerStands
    <2>2. OSPrioCur \in OSRdyTbl' /\ OSTCBPrioTbl'[OSPrioCur] = OSTCBCur
      BY <1>1, <1>2, <1>4, <2>1
    <2> QED  BY <1>0, <1>1, <1>12, <2>2, Switch
  <1> QED  BY <1>12, <1>13 DEF KernelInv

(* A deleted task leaves the ready table or the list it is in.              *)
LEMMA DeleteStep ==
    ASSUME KernelInv, NEW p \in Named, Unlocked, OSTaskDel(p), UNCHANGED node
    PROVE  KernelInv'
PROOF
  <1>1. PICK t \in App : t = OSTCBPrioTbl[p] /\ tcb[t].prio = p /\ p \in Prio
    BY DEF Named, TaskPrio, OSTaskQuery
  <1> DEFINE lists == {e \in Event : e = tcb[t].event}
  <1>0. /\ Shapes /\ PrioMaps /\ IdleStays /\ Scheduled
        /\ \A u \in Task : Stage(u)
        /\ \A r \in Prio : ReadyBit(r)
        /\ \A f \in Event : \A r \in Prio : WaitBit(f, r)
        /\ \A f \in Event : ecb[f].wait # {} => Lacks(f)
        /\ t \in Task /\ t # Idle
        /\ tcb[t] \in Tcb /\ tcb[t].multi = {}
    BY <1>1 DEF KernelInv, Tables, App, Shapes, Tcb
  <1>2. /\ OSRdyTbl' = OSRdyTbl \ {p}
        /\ ecb' = Unwaits(ecb, lists, {p})
        /\ tcb' = [tcb EXCEPT ![t] = [tcb[t] EXCEPT !.dly = 0, !.stat = {}, !.pend = "OK"]]
        /\ call' = [call EXCEPT ![t] = NoCall]
        /\ OSTCBPrioTbl' = [OSTCBPrioTbl EXCEPT ![p] = "free"]
        /\ UNCHANGED <<OSLockNesting, node>>
        /\ OS_Sched
    <2>1. {e \in Event : e = tcb[t].event \/ e \in tcb[t].multi} = lists
      BY <1>0
    <2> QED  BY <1>1, <2>1 DEF OSTaskDel
  <1>3. /\ \A u \in Task : u # "free"
        /\ p # LowestPrio
        /\ \A r \in Prio : OSTCBPrioTbl[r] = t <=> r = p
    BY <1>0, <1>1, NamesAssumption DEF IdleStays, PrioMaps
  <1>4. /\ tcb' \in [Task -> Tcb]
        /\ tcb'[t].dly = 0 /\ tcb'[t].stat = {} /\ tcb'[t].pend = "OK" /\ tcb'[t].prio = p
        /\ \A u \in Task : u # t => tcb'[u] = tcb[u]
    <2>1. tcb \in [Task -> Tcb]
      BY <1>0 DEF Shapes
    <2> DEFINE b == [tcb[t] EXCEPT !.dly = 0, !.stat = {}, !.pend = "OK"]
    <2>2. /\ b \in Tcb /\ b.dly = 0 /\ b.stat = {} /\ b.pend = "OK" /\ b.prio = p
      BY <1>0, <1>1 DEF Tcb
    <2>3. tcb' = [tcb EXCEPT ![t] = b]
      BY <1>2
    <2> HIDE DEF b
    <2> QED  BY <1>0, <2>1, <2>2, <2>3
  <1>5. /\ call' \in [Task -> Call] /\ call'[t] = NoCall
        /\ \A u \in Task : u # t => call'[u] = call[u]
    BY <1>0, <1>2 DEF Shapes, Call, NoCall
  <1>6. /\ ecb' \in [Event -> Ecb]
        /\ \A f \in Event : /\ ecb'[f].type = ecb[f].type /\ ecb'[f].obj = ecb[f].obj
                            /\ ecb'[f].wait = IF f \in lists THEN ecb[f].wait \ {p} ELSE ecb[f].wait
    <2>1. \A f \in Event : ecb[f] \in Ecb
      BY <1>0 DEF Shapes
    <2>2. ASSUME NEW f \in Event
          PROVE  /\ ecb'[f] \in Ecb
                 /\ ecb'[f].type = ecb[f].type /\ ecb'[f].obj = ecb[f].obj
                 /\ ecb'[f].wait = IF f \in lists THEN ecb[f].wait \ {p} ELSE ecb[f].wait
      <3>1. ecb[f] \in Ecb
        BY <2>1
      <3>2. CASE f \notin lists
        BY <1>2, <3>1, <3>2 DEF Unwaits
      <3>3. CASE f \in lists
        <4>1. ecb'[f] = [ecb[f] EXCEPT !.wait = ecb[f].wait \ {p}]
          BY <1>2, <3>1, <3>3 DEF Unwaits
        <4> QED  BY <3>1, <3>3, <4>1 DEF Ecb
      <3> QED  BY <3>2, <3>3
    <2>3. ecb' = [f \in Event |-> ecb'[f]]
      BY <1>2 DEF Unwaits
    <2> QED  BY <2>2, <2>3
  <1>7. /\ OSTCBPrioTbl' \in [Prio -> Task \cup {"free"}]
        /\ OSTCBPrioTbl'[p] = "free"
        /\ \A r \in Prio \ {p} : OSTCBPrioTbl'[r] = OSTCBPrioTbl[r]
    BY <1>0, <1>1, <1>2 DEF Shapes
  <1>8. Shapes'
    <2>1. OSRdyTbl' \in SUBSET Prio
      BY <1>0, <1>2 DEF Shapes
    <2>2. \A f \in Event : ecb'[f].obj \in Contents(ecb'[f].type)
      BY <1>0, <1>6 DEF Shapes, Type
    <2>3. OSLockNesting' \in Nat /\ node' = [u \in Task |-> NoNode]
      BY <1>0, <1>2 DEF Shapes
    <2> QED  BY <1>4, <1>5, <1>6, <1>7, <2>1, <2>2, <2>3 DEF Shapes, Type, Contents
  <1>9. PrioMaps'
    BY <1>0, <1>3, <1>4, <1>7 DEF PrioMaps
  <1>10. ASSUME NEW u \in Task
         PROVE  Stage(u)'
    <2>1. CASE u = t
      BY <1>1, <1>3, <1>4, <1>5, <1>7, <2>1 DEF Stage, Alive, Waiting, NoCall
    <2>2. CASE u # t
      <3>1. tcb[u].prio \in Prio
        BY <1>0 DEF Shapes, Tcb
      <3>2. Alive(u)' <=> Alive(u)
        BY <1>1, <1>3, <1>4, <1>7, <2>2, <3>1 DEF Alive
      <3>3. /\ Stage(u) /\ tcb'[u] = tcb[u] /\ call'[u] = call[u]
            /\ \A f \in Event : Type(f)' = Type(f)
        BY <1>0, <1>4, <1>5, <1>6, <2>2 DEF Type
      <3> QED  BY <3>2, <3>3 DEF Stage, Waiting
    <2> QED  BY <2>1, <2>2
  <1>11. ASSUME NEW r \in Prio
         PROVE  ReadyBit(r)'
    <2>1. ReadyBit(r)
      BY <1>0
    <2> QED  BY <1>2, <1>3, <1>4, <1>7, <2>1 DEF ReadyBit, Unblocked
  <1>12. ASSUME NEW f \in Event, NEW r \in Prio
         PROVE  WaitBit(f, r)'
    <2>1. WaitBit(f, r)
      BY <1>0
    <2>2. CASE r = p
      <3>1. f \notin lists => p \notin ecb[f].wait
        <4>1. InList(t, f) => f \in lists
          BY <1>0 DEF Stage, InList
        <4> QED  BY <1>1, <2>1, <2>2, <4>1 DEF WaitBit
      <3>2. p \notin ecb'[f].wait
        BY <1>6, <3>1
      <3> QED  BY <1>3, <1>7, <2>2, <3>2 DEF WaitBit
    <2>3. CASE r # p
      <3>1. r \in ecb'[f].wait <=> r \in ecb[f].wait
        BY <1>6, <2>3
      <3> QED  BY <1>3, <1>4, <1>5, <1>7, <2>1, <2>3, <3>1 DEF WaitBit, InList, Waiting
    <2> QED  BY <2>2, <2>3
  <1>13. ASSUME NEW f \in Event, ecb'[f].wait # {}
         PROVE  Lacks(f)'
    BY <1>0, <1>6, <1>13 DEF Lacks, Type
  <1>14. IdleStays'
    BY <1>0, <1>3, <1>4, <1>5, <1>7, LowestIsPrio, CoreAssumption DEF IdleStays, Unblocked
  <1>15. Tables'
    BY <1>8, <1>9, <1>10, <1>11, <1>12, <1>13, <1>14 DEF Tables
  <1>16. Scheduled'
    <2>1. OSPrioCur \in Prio /\ OSPrioCur \in OSRdyTbl /\ OSTCBPrioTbl[OSPrioCur] = OSTCBCur
      BY RunnerStands
    <2>2. OSPrioCur \in OSRdyTbl' => OSTCBPrioTbl'[OSPrioCur] = OSTCBCur
      BY <1>2, <1>7, <2>1
    <2>3. OSLockNesting' = 0
      BY <1>2 DEF Unlocked
    <2> QED  BY <1>0, <1>2, <1>15, <2>2, <2>3, Switch
  <1> QED  BY <1>15, <1>16 DEF KernelInv

LEMMA SameTables ==
    ASSUME Tables, UNCHANGED <<tcb, call, OSTCBPrioTbl, OSRdyTbl, ecb, node>>, OSLockNesting' \in Nat
    PROVE  Tables'
PROOF
  <1>1. Shapes'
    BY DEF Tables, Shapes, Type, Contents
  <1>2. PrioMaps' /\ IdleStays'
    BY DEF Tables, PrioMaps, IdleStays, Unblocked
  <1>3. ASSUME NEW t \in Task
        PROVE  Stage(t)'
    <2>1. Stage(t)
      BY DEF Tables
    <2> QED  BY <2>1 DEF Stage, Alive, Waiting, Type
  <1>4. ASSUME NEW p \in Prio
        PROVE  ReadyBit(p)'
    <2>1. ReadyBit(p)
      BY DEF Tables
    <2> QED  BY <2>1 DEF ReadyBit, Unblocked
  <1>5. ASSUME NEW f \in Event, NEW p \in Prio
        PROVE  WaitBit(f, p)'
    <2>1. WaitBit(f, p)
      BY DEF Tables
    <2> QED  BY <2>1 DEF WaitBit, InList, Waiting
  <1>6. ASSUME NEW f \in Event, ecb'[f].wait # {}
        PROVE  Lacks(f)'
    BY <1>6 DEF Tables, Lacks, Type
  <1> QED  BY <1>1, <1>2, <1>3, <1>4, <1>5, <1>6 DEF Tables

LEMMA LockingStep ==
    ASSUME KernelInv, OSSchedLock \/ OSSchedUnlock, UNCHANGED node
    PROVE  KernelInv'
PROOF
  <1>1. /\ UNCHANGED <<tcb, call, OSTCBPrioTbl, OSRdyTbl, ecb, node>>
        /\ OSLockNesting' \in Nat
    BY DEF OSSchedLock, OSSchedUnlock, KernelInv, Tables, Shapes
  <1>2. Tables'
    BY <1>1, SameTables DEF KernelInv
  <1>3. Scheduled'
    <2>1. CASE OSSchedLock
      <3>1. OSLockNesting \in Nat /\ OSLockNesting' = OSLockNesting + 1
        BY <2>1 DEF OSSchedLock, KernelInv, Tables, Shapes
      <3>2. OSLockNesting' # 0
        BY <3>1
      <3> QED  BY <1>1, <2>1, <3>2 DEF OSSchedLock, KernelInv, Scheduled, Unlocked
    <2>2. CASE OSSchedUnlock
      <3>1. OS_Sched
        BY <2>2 DEF OSSchedUnlock
      <3> QED  BY <1>1, <1>2, <3>1, Switch DEF KernelInv, Scheduled
    <2> QED  BY <2>1, <2>2
  <1> QED  BY <1>2, <1>3 DEF KernelInv

(* The running task leaves the call it waited in, and after a timeout the   *)
(* list of its object.                                                     *)
LEMMA PendReturnStep ==
    ASSUME KernelInv, NEW t \in App, PendReturn(t), UNCHANGED node
    PROVE  KernelInv'
PROOF
  <1>0. /\ Shapes /\ PrioMaps /\ IdleStays /\ Scheduled
        /\ \A u \in Task : Stage(u)
        /\ \A r \in Prio : ReadyBit(r)
        /\ \A f \in Event : \A r \in Prio : WaitBit(f, r)
        /\ \A f \in Event : ecb[f].wait # {} => Lacks(f)
        /\ t \in Task /\ t # Idle
    BY DEF KernelInv, Tables, App
  <1>1. /\ OSTCBCur = t /\ Alive(t) /\ Unblocked(t)
        /\ tcb[t].prio = OSPrioCur /\ OSPrioCur \in Prio
        /\ OSTCBPrioTbl[OSPrioCur] = t
    BY RunnerStands DEF PendReturn
  <1>2. PICK e \in Event : call[t].on = {e}
    <2>1. call[t] \in Call
      BY <1>0 DEF Shapes
    <2>2. call[t].on \in {{}} \cup {{e} : e \in Event}
      BY <2>1 DEF Call
    <2>3. call[t].on \cap Event # {}
      BY DEF PendReturn
    <2> QED  BY <2>2, <2>3
  <1> DEFINE over == tcb[t].pend = "TO"
             b == [tcb[t] EXCEPT !.stat = {}, !.pend = "OK", !.event = Null, !.multi = {}, !.msg = Null]
  <1>3. /\ call[t].multi = FALSE /\ tcb[t] \in Tcb
        /\ tcb \in [Task -> Tcb] /\ call \in [Task -> Call]
    BY <1>0 DEF Shapes, Call
  <1>4. /\ ecb' = IF over THEN Unwaits(ecb, {e}, {OSPrioCur}) ELSE ecb
        /\ tcb' = [tcb EXCEPT ![t] = b]
        /\ call' = [call EXCEPT ![t] = NoCall]
        /\ UNCHANGED <<OSTCBPrioTbl, OSRdyTbl, OSTCBCur, OSPrioCur, OSLockNesting, node>>
    BY <1>1, <1>2, <1>3 DEF PendReturn
  <1>5. /\ b \in Tcb /\ b.stat = {} /\ b.pend = "OK" /\ b.event = Null /\ b.dly = 0
        /\ b.prio = tcb[t].prio
    <2>1. tcb[t].dly = 0
      BY <1>1 DEF Unblocked
    <2> QED  BY <1>3, <2>1 DEF Tcb
  <1> HIDE DEF b
  <1>6. /\ tcb' \in [Task -> Tcb] /\ tcb'[t] = b
        /\ \A u \in Task : u # t => tcb'[u] = tcb[u]
        /\ call' \in [Task -> Call] /\ call'[t] = NoCall
        /\ \A u \in Task : u # t => call'[u] = call[u]
        /\ \A u \in Task : tcb'[u].prio = tcb[u].prio
    BY <1>0, <1>3, <1>4, <1>5 DEF Call, NoCall
  <1>7. /\ ecb' \in [Event -> Ecb]
        /\ \A f \in Event : /\ ecb'[f].type = ecb[f].type /\ ecb'[f].obj = ecb[f].obj
                            /\ ecb'[f].wait = IF f = e /\ over THEN ecb[f].wait \ {OSPrioCur}
                                              ELSE ecb[f].wait
    <2>1. ecb \in [Event -> Ecb]
      BY <1>0 DEF Shapes
    <2>2. CASE ~ over
      BY <1>4, <2>1, <2>2
    <2>3. CASE over
      <3>1. ASSUME NEW f \in Event
            PROVE  /\ ecb'[f] \in Ecb
                   /\ ecb'[f].type = ecb[f].type /\ ecb'[f].obj = ecb[f].obj
                   /\ ecb'[f].wait = IF f = e THEN ecb[f].wait \ {OSPrioCur} ELSE ecb[f].wait
        <4>1. ecb[f] \in Ecb
          BY <2>1
        <4>2. CASE f # e
          BY <1>4, <2>3, <4>1, <4>2 DEF Unwaits
        <4>3. CASE f = e
          <5>1. ecb'[f] = [ecb[f] EXCEPT !.wait = ecb[f].wait \ {OSPrioCur}]
            BY <1>4, <2>3, <4>1, <4>3 DEF Unwaits
          <5> QED  BY <4>1, <4>3, <5>1 DEF Ecb
        <4> QED  BY <4>2, <4>3
      <3>2. ecb' = [f \in Event |-> ecb'[f]]
        BY <1>4, <2>3 DEF Unwaits
      <3> QED  BY <2>3, <3>1, <3>2
    <2> QED  BY <2>2, <2>3
  <1>8. Shapes'
    <2>1. \A f \in Event : ecb'[f].obj \in Contents(ecb'[f].type)
      BY <1>0, <1>7 DEF Shapes, Type
    <2>2. /\ OSTCBPrioTbl' \in [Prio -> Task \cup {"free"}] /\ OSRdyTbl' \in SUBSET Prio
          /\ OSLockNesting' \in Nat /\ node' = [u \in Task |-> NoNode]
      BY <1>0, <1>4 DEF Shapes
    <2> QED  BY <1>6, <1>7, <2>1, <2>2 DEF Shapes, Type, Contents
  <1>9. PrioMaps'
    BY <1>0, <1>4, <1>6 DEF PrioMaps
  <1>10. ASSUME NEW u \in Task
         PROVE  Stage(u)'
    <2>1. Stage(u) /\ (Alive(u)' <=> Alive(u)) /\ \A f \in Event : Type(f)' = Type(f)
      BY <1>0, <1>4, <1>6, <1>7 DEF Alive, Type
    <2>2. CASE u = t
      BY <1>1, <1>5, <1>6, <2>1, <2>2 DEF Stage, Waiting, NoCall
    <2>3. CASE u # t
      <3>1. tcb'[u] = tcb[u] /\ call'[u] = call[u]
        BY <1>6, <2>3
      <3> QED  BY <2>1, <3>1 DEF Stage, Waiting
    <2> QED  BY <2>2, <2>3
  <1>11. ASSUME NEW r \in Prio
         PROVE  ReadyBit(r)'
    <2>1. ReadyBit(r)
      BY <1>0
    <2>2. \A u \in Task : Unblocked(u)' <=> Unblocked(u)
      BY <1>1, <1>5, <1>6 DEF Unblocked
    <2> QED  BY <1>4, <2>1, <2>2 DEF ReadyBit
  <1>12. ASSUME NEW f \in Event, NEW r \in Prio
         PROVE  WaitBit(f, r)'
    <2>1. WaitBit(f, r)
      BY <1>0
    <2>2. CASE r = OSPrioCur
      <3>1. InList(t, f) <=> f = e /\ over
        BY <1>1, <1>2 DEF InList, Waiting, Unblocked
      <3>2. r \notin ecb'[f].wait
        BY <1>1, <1>7, <2>1, <2>2, <3>1, <1>0 DEF WaitBit
      <3>3. ~ InList(t, f)'
        BY <1>6 DEF InList, NoCall
      <3> QED  BY <1>1, <1>4, <2>2, <3>2, <3>3 DEF WaitBit
    <2>3. CASE r # OSPrioCur
      <3>1. OSTCBPrioTbl[r] # t
        BY <1>0, <1>1, <2>3 DEF PrioMaps
      <3>2. r \in ecb'[f].wait <=> r \in ecb[f].wait
        BY <1>7, <2>3
      <3> QED  BY <1>4, <1>6, <2>1, <3>1, <3>2 DEF WaitBit, InList, Waiting
    <2> QED  BY <2>2, <2>3
  <1>13. ASSUME NEW f \in Event, ecb'[f].wait # {}
         PROVE  Lacks(f)'
    <2>1. ecb[f].wait # {}
      BY <1>7, <1>13
    <2> QED  BY <1>0, <1>7, <2>1 DEF Lacks, Type
  <1>14. IdleStays'
    BY <1>0, <1>4, <1>6, CoreAssumption DEF IdleStays, Unblocked
  <1>15. Tables'
    BY <1>8, <1>9, <1>10, <1>11, <1>12, <1>13, <1>14 DEF Tables
  <1>16. Scheduled'
    BY <1>0, <1>4, NoSwitch DEF NoSched, Unlocked
  <1> QED  BY <1>15, <1>16 DEF KernelInv

LEMMA MessageReturnStep ==
    ASSUME KernelInv, NEW t \in App, MessageReturn(t), UNCHANGED node
    PROVE  KernelInv'
PROOF
  <1>0. /\ Shapes /\ PrioMaps /\ IdleStays /\ Scheduled
        /\ \A u \in Task : Stage(u)
        /\ \A r \in Prio : ReadyBit(r)
        /\ \A f \in Event : \A r \in Prio : WaitBit(f, r)
        /\ \A f \in Event : ecb[f].wait # {} => Lacks(f)
        /\ t \in Task /\ t # Idle
    BY DEF KernelInv, Tables, App
  <1>1. /\ call' = [call EXCEPT ![t] = NoCall]
        /\ UNCHANGED <<tcb, OSTCBPrioTbl, OSRdyTbl, ecb, OSTCBCur, OSPrioCur, OSLockNesting, node>>
    BY DEF MessageReturn
  <1>2. call[t].on = {}
    <2>1. call[t] \in Call /\ call[t].pmsg # Null
      BY <1>0 DEF MessageReturn, Shapes
    <2>2. call[t].on \in {{}} \cup {{e} : e \in Event}
      BY <2>1 DEF Call
    <2> QED  BY <1>0, <2>1, <2>2 DEF Stage
  <1>3. /\ call' \in [Task -> Call] /\ call'[t] = NoCall
        /\ \A u \in Task : u # t => call'[u] = call[u]
        /\ \A u \in Task : call'[u].on = call[u].on
    BY <1>0, <1>1, <1>2 DEF Shapes, Call, NoCall
  <1>4. Shapes'
    BY <1>0, <1>1, <1>3 DEF Shapes, Type, Contents
  <1>5. ASSUME NEW u \in Task
        PROVE  Stage(u)'
    <2>1. Stage(u) /\ (Alive(u)' <=> Alive(u)) /\ \A f \in Event : Type(f)' = Type(f)
      BY <1>0, <1>1 DEF Alive, Type
    <2>2. call'[u].on = call[u].on /\ (call'[u].pmsg = Null \/ call'[u] = call[u])
          /\ (call'[u] = NoCall \/ call'[u] = call[u]) /\ tcb' = tcb
      BY <1>1, <1>3 DEF NoCall
    <2> QED  BY <2>1, <2>2 DEF Stage, Waiting
  <1>6. ASSUME NEW f \in Event, NEW r \in Prio
        PROVE  WaitBit(f, r)'
    <2>1. WaitBit(f, r)
      BY <1>0
    <2> QED  BY <1>1, <1>3, <2>1 DEF WaitBit, InList, Waiting
  <1>7. ASSUME NEW f \in Event, ecb'[f].wait # {}
        PROVE  Lacks(f)'
    BY <1>0, <1>1, <1>7 DEF Lacks, Type
  <1>8. PrioMaps' /\ IdleStays' /\ Scheduled' /\ \A r \in Prio : ReadyBit(r)'
    BY <1>0, <1>1, <1>3, CoreAssumption DEF PrioMaps, IdleStays, Scheduled, ReadyBit, Unblocked, Unlocked
  <1> QED  BY <1>4, <1>5, <1>6, <1>7, <1>8 DEF KernelInv, Tables

-----------------------------------------------------------------------------
(* The services of each kind of object. *)

LEMMA ObjectHolds ==
    ASSUME KernelInv, NEW e \in Event
    PROVE  /\ Type(e) = "SEM" => ecb[e].obj \in Nat
           /\ Type(e) = "MBOX" => ecb[e].obj \in Msg \cup {Null}
           /\ Type(e) = "Q" => ecb[e].obj \in Ring
           /\ ecb[e].wait \in SUBSET Prio
           /\ ecb[e].wait # {} => Lacks(e) /\ NextWaiter(e) \in SUBSET ecb[e].wait
PROOF
  <1>1. ecb[e].obj \in Contents(Type(e)) /\ ecb[e] \in Ecb
    BY DEF KernelInv, Tables, Shapes
  <1>2. ecb[e].wait \in SUBSET Prio
    BY <1>1 DEF Ecb
  <1>3. ecb[e].wait # {} => Lacks(e)
    BY DEF KernelInv, Tables
  <1> QED  BY <1>1, <1>2, <1>3, MinOfPrios DEF Contents, NextWaiter

(* What is posted goes to those who wait, and the object stays as it was.   *)
LEMMA HandStep ==
    ASSUME KernelInv, NEW e \in Event, NEW m \in Msg \cup {Null}, NEW all \in BOOLEAN,
           Hand(e, m, all, TRUE), UNCHANGED node
    PROVE  KernelInv'
PROOF
  <1> DEFINE W == IF all THEN ecb[e].wait ELSE NextWaiter(e)
             type == Type(e)
             x == ecb[e].obj
  <1>1. W \in SUBSET ecb[e].wait
    BY ObjectHolds DEF Hand
  <1>2. EventTaskRdy(e, W, "OK", m, type, x, TRUE)
    BY DEF Hand
  <1>3. type = Type(e) /\ x = ecb[e].obj
    OBVIOUS
  <1> HIDE DEF W, type, x
  <1> QED  BY <1>1, <1>2, <1>3, TasksWoken

LEMMA DelStep ==
    ASSUME KernelInv, NEW e \in Event, NEW type, NEW always, EventDel(e, type, always), UNCHANGED node
    PROVE  KernelInv'
PROOF
  <1> DEFINE W == ecb[e].wait
  <1>1. EventTaskRdy(e, W, "OK", Null, "UNUSED", Null, TRUE) /\ W = ecb[e].wait
    BY DEF EventDel
  <1> HIDE DEF W
  <1> QED  BY <1>1, TasksWoken

LEMMA AbortStep ==
    ASSUME KernelInv, NEW e \in Event, NEW type, NEW all \in BOOLEAN,
           EventPendAbort(e, type, all), UNCHANGED node
    PROVE  KernelInv'
PROOF
  <1> DEFINE W == IF all THEN ecb[e].wait ELSE NextWaiter(e)
             x == ecb[e].obj
  <1>1. W \in SUBSET ecb[e].wait
    BY ObjectHolds DEF EventPendAbort
  <1>2. EventTaskRdy(e, W, "ABORT", Null, type, x, TRUE)
    BY DEF EventPendAbort
  <1>3. type = Type(e) /\ x = ecb[e].obj
    BY DEF EventPendAbort, Type
  <1> HIDE DEF W, x
  <1> QED  BY <1>1, <1>2, <1>3, TasksWoken

LEMMA ObjectsAndTimeouts ==
    Objects \subseteq Event /\ Timeouts \subseteq Nat
PROOF
  <1>1. (CHOOSE e \in Event : TRUE) \in Event
    BY ServicesAssumption
  <1>2. 0 .. MaxTicks \subseteq Nat
    BY CoreAssumption
  <1> QED  BY <1>1, <1>2 DEF Objects, Timeouts

LEMMA SemaphoresStep ==
    ASSUME KernelInv, Semaphores, UNCHANGED node
    PROVE  KernelInv'
PROOF
  <1>1. PICK e \in Event :
        \/ Created /\ \E n \in {0, MaxCnt} : OSSemCreate(e, n)
        \/ \E t \in App, n \in Nat : OSSemPend(t, e, n)
        \/ OSSemPost(e) \/ OSSemAccept(e)
        \/ \E n \in {0, MaxCnt} : OSSemSet(e, n)
        \/ \E always \in BOOLEAN : OSSemDel(e, always)
        \/ \E all \in BOOLEAN : OSSemPendAbort(e, all)
    BY ObjectsAndTimeouts DEF Semaphores
  <1>2. 0 \in Nat /\ MaxCnt \in Nat
    BY EventsAssumption
  <1>3. \A n \in Nat : Type(e) = "SEM" => n \in Contents(Type(e))
    BY DEF Contents
  <1>4. Type(e) = "SEM" => (Lacks(e) <=> ecb[e].obj = 0)
    BY DEF Lacks
  <1>5. CASE Created /\ \E n \in {0, MaxCnt} : OSSemCreate(e, n)
    <2>1. PICK n \in {0, MaxCnt} : EventCreate(e, "SEM", n)
      BY <1>5 DEF OSSemCreate
    <2>2. n \in Contents("SEM") /\ "SEM" \in Kinds
      BY <1>2 DEF Contents, Kinds
    <2> QED  BY <1>5, <2>1, <2>2, ObjectCreated
  <1>6. CASE \E t \in App, n \in Nat : OSSemPend(t, e, n)
    <2>1. PICK t \in App, n \in Nat : OSSemPend(t, e, n)
      BY <1>6
    <2>2. Runs(t) /\ Unlocked /\ Type(e) = "SEM"
      BY <2>1 DEF OSSemPend, MayPend, Unlocked
    <2>3. CASE ecb[e].obj > 0 /\ Becomes(e, ecb[e].obj - 1) /\ UNCHANGED call
      <3>1. ecb[e].obj \in Nat /\ ecb[e].obj # 0
        BY <2>2, <2>3, ObjectHolds
      <3>2. ecb[e].obj - 1 \in Contents(Type(e))
        BY <1>3, <2>2, <3>1
      <3>3. ecb[e].wait = {}
        BY <1>4, <2>2, <3>1, ObjectHolds
      <3> QED  BY <2>3, <3>2, <3>3, ContentChanges
    <2>4. CASE ecb[e].obj = 0 /\ Block(t, e, n)
      <3>1. Lacks(e) /\ Type(e) \in Kinds
        BY <1>4, <2>2, <2>4 DEF Kinds
      <3> QED  BY <2>2, <2>4, <3>1, TaskBlocks
    <2> QED  BY <2>1, <2>3, <2>4 DEF OSSemPend
  <1>7. CASE OSSemPost(e)
    <2>1. CASE Hand(e, Null, FALSE, TRUE)
      BY <2>1, HandStep
    <2>2. CASE ecb[e].wait = {} /\ Becomes(e, ecb[e].obj + 1) /\ UNCHANGED call
      <3>1. ecb[e].obj + 1 \in Contents(Type(e))
        BY <1>3, <1>7, ObjectHolds DEF OSSemPost
      <3> QED  BY <2>2, <3>1, ContentChanges
    <2> QED  BY <1>7, <2>1, <2>2 DEF OSSemPost
  <1>8. CASE OSSemAccept(e)
    <2>1. ecb[e].obj \in Nat /\ ecb[e].obj # 0 /\ Type(e) = "SEM"
      BY <1>8, ObjectHolds DEF OSSemAccept
    <2>2. ecb[e].obj - 1 \in Contents(Type(e))
      BY <1>3, <2>1
    <2>3. ecb[e].wait = {}
      BY <1>4, <2>1, ObjectHolds
    <2> QED  BY <1>8, <2>2, <2>3, ContentChanges DEF OSSemAccept
  <1>9. CASE \E n \in {0, MaxCnt} : OSSemSet(e, n)
    <2>1. PICK n \in {0, MaxCnt} : OSSemSet(e, n)
      BY <1>9
    <2>2. n \in Contents(Type(e)) /\ Type(e) = "SEM"
      BY <1>2, <1>3, <2>1 DEF OSSemSet
    <2>3. ecb[e].wait = {}
      BY <1>4, <2>1, <2>2, ObjectHolds DEF OSSemSet
    <2> QED  BY <2>1, <2>2, <2>3, ContentChanges DEF OSSemSet
  <1>10. CASE \E always \in BOOLEAN : OSSemDel(e, always)
    BY <1>10, DelStep DEF OSSemDel
  <1>11. CASE \E all \in BOOLEAN : OSSemPendAbort(e, all)
    BY <1>11, AbortStep DEF OSSemPendAbort
  <1> QED  BY <1>1, <1>5, <1>6, <1>7, <1>8, <1>9, <1>10, <1>11

LEMMA MailboxesStep ==
    ASSUME KernelInv, Mailboxes, UNCHANGED node
    PROVE  KernelInv'
PROOF
  <1>1. PICK e \in Event :
        \/ Created /\ \E m \in Msg \cup {Null} : OSMboxCreate(e, m)
        \/ \E t \in App, n \in Nat : OSMboxPend(t, e, n)
        \/ OSMboxAccept(e)
        \/ \E m \in Msg : OSMboxPost(e, m)
        \/ \E m \in Msg, all \in BOOLEAN : OSMboxPostOpt(e, m, all, TRUE)
        \/ \E always \in BOOLEAN : OSMboxDel(e, always)
        \/ \E all \in BOOLEAN : OSMboxPendAbort(e, all)
    BY ObjectsAndTimeouts DEF Mailboxes
  <1>2. Type(e) = "MBOX" => Contents(Type(e)) = Msg \cup {Null}
    BY DEF Contents
  <1>3. Type(e) = "MBOX" => (Lacks(e) <=> ecb[e].obj = Null)
    BY DEF Lacks
  <1>4. CASE Created /\ \E m \in Msg \cup {Null} : OSMboxCreate(e, m)
    <2>1. PICK m \in Msg \cup {Null} : EventCreate(e, "MBOX", m)
      BY <1>4 DEF OSMboxCreate
    <2>2. m \in Contents("MBOX") /\ "MBOX" \in Kinds
      BY DEF Contents, Kinds
    <2> QED  BY <1>4, <2>1, <2>2, ObjectCreated
  <1>5. CASE \E t \in App, n \in Nat : OSMboxPend(t, e, n)
    <2>1. PICK t \in App, n \in Nat : OSMboxPend(t, e, n)
      BY <1>5
    <2>2. Runs(t) /\ Unlocked /\ Type(e) = "MBOX"
      BY <2>1 DEF OSMboxPend, MayPend, Unlocked
    <2>3. CASE /\ ecb[e].obj # Null /\ Becomes(e, Null)
               /\ call' = [call EXCEPT ![t].pmsg = ecb[e].obj]
      <3>1. ecb[e].obj \in Msg \cup {Null} /\ Null \in Contents(Type(e))
        BY <1>2, <2>2, ObjectHolds
      <3>2. ecb[e].wait = {}
        BY <1>3, <2>2, <2>3, ObjectHolds
      <3> QED  BY <2>2, <2>3, <3>1, <3>2, ContentChanges
    <2>4. CASE ecb[e].obj = Null /\ Block(t, e, n)
      <3>1. Lacks(e) /\ Type(e) \in Kinds
        BY <1>3, <2>2, <2>4 DEF Kinds
      <3> QED  BY <2>2, <2>4, <3>1, TaskBlocks
    <2> QED  BY <2>1, <2>3, <2>4 DEF OSMboxPend
  <1>6. CASE OSMboxAccept(e)
    <2>1. Null \in Contents(Type(e)) /\ ecb[e].wait = {}
      BY <1>2, <1>3, <1>6, ObjectHolds DEF OSMboxAccept
    <2> QED  BY <1>6, <2>1, ContentChanges DEF OSMboxAccept
  <1>7. ASSUME NEW m \in Msg, NEW all \in BOOLEAN,
               \/ Hand(e, m, all, TRUE)
               \/ Type(e) = "MBOX" /\ ecb[e].wait = {} /\ Becomes(e, m) /\ UNCHANGED call
        PROVE  KernelInv'
    <2>1. CASE Hand(e, m, all, TRUE)
      BY <2>1, HandStep
    <2>2. CASE Type(e) = "MBOX" /\ ecb[e].wait = {} /\ Becomes(e, m) /\ UNCHANGED call
      <3>1. m \in Contents(Type(e))
        BY <1>2, <2>2
      <3> QED  BY <2>2, <3>1, ContentChanges
    <2> QED  BY <1>7, <2>1, <2>2
  <1>8. CASE \E m \in Msg : OSMboxPost(e, m)
    BY <1>7, <1>8 DEF OSMboxPost
  <1>9. CASE \E m \in Msg, all \in BOOLEAN : OSMboxPostOpt(e, m, all, TRUE)
    BY <1>7, <1>9 DEF OSMboxPostOpt
  <1>10. CASE \E always \in BOOLEAN : OSMboxDel(e, always)
    BY <1>10, DelStep DEF OSMboxDel
  <1>11. CASE \E all \in BOOLEAN : OSMboxPendAbort(e, all)
    BY <1>11, AbortStep DEF OSMboxPendAbort
  <1> QED  BY <1>1, <1>4, <1>5, <1>6, <1>8, <1>9, <1>10, <1>11

LEMMA QueuesStep ==
    ASSUME KernelInv, Queues, UNCHANGED node
    PROVE  KernelInv'
PROOF
  <1>1. PICK e \in Event :
        \/ Created /\ OSQCreate(e)
        \/ \E t \in App, n \in Nat : OSQPend(t, e, n)
        \/ OSQAccept(e) \/ OSQFlush(e)
        \/ \E m \in Msg : OSQPost(e, m) \/ OSQPostFront(e, m)
        \/ \E m \in Msg, all, front \in BOOLEAN : OSQPostOpt(e, m, all, front, TRUE)
        \/ \E always \in BOOLEAN : OSQDel(e, always)
        \/ \E all \in BOOLEAN : OSQPendAbort(e, all)
    BY ObjectsAndTimeouts DEF Queues
  <1>2. Type(e) = "Q" => Contents(Type(e)) = Ring /\ ecb[e].obj \in Ring /\ ecb[e].obj.entries \in Nat
    <2>1. Type(e) = "Q" => Contents(Type(e)) = Ring
      BY DEF Contents
    <2>2. Type(e) = "Q" => ecb[e].obj \in Ring
      BY ObjectHolds
    <2>3. \A r \in Ring : r.entries \in Nat
      BY DEF Ring
    <2> QED  BY <2>1, <2>2, <2>3
  <1>3. Type(e) = "Q" => (Lacks(e) <=> ecb[e].obj.entries = 0)
    BY DEF Lacks
  <1>4. CASE Created /\ OSQCreate(e)
    <2>1. EmptyRing \in Contents("Q") /\ "Q" \in Kinds
      <3>1. EmptyRing \in Ring
        BY EventsAssumption DEF EmptyRing, Ring, Slot
      <3> QED  BY <3>1 DEF Contents, Kinds
    <2> QED  BY <1>4, <2>1, ObjectCreated DEF OSQCreate
  <1>5. CASE \E t \in App, n \in Nat : OSQPend(t, e, n)
    <2>1. PICK t \in App, n \in Nat : OSQPend(t, e, n)
      BY <1>5
    <2>2. Runs(t) /\ Unlocked /\ Type(e) = "Q"
      BY <2>1 DEF OSQPend, MayPend, Unlocked
    <2>3. CASE /\ ecb[e].obj.entries > 0 /\ Becomes(e, Got(ecb[e].obj))
               /\ call' = [call EXCEPT ![t].pmsg = ecb[e].obj.buf[ecb[e].obj.out]]
      <3>1. /\ Got(ecb[e].obj) \in Contents(Type(e))
            /\ ecb[e].obj.buf[ecb[e].obj.out] \in Msg \cup {Null}
        BY <1>2, <2>2, <2>3, RingMoves
      <3>2. ecb[e].wait = {}
        BY <1>2, <1>3, <2>2, <2>3, ObjectHolds
      <3> QED  BY <2>2, <2>3, <3>1, <3>2, ContentChanges
    <2>4. CASE ecb[e].obj.entries = 0 /\ Block(t, e, n)
      <3>1. Lacks(e) /\ Type(e) \in Kinds
        BY <1>3, <2>2, <2>4 DEF Kinds
      <3> QED  BY <2>2, <2>4, <3>1, TaskBlocks
    <2> QED  BY <2>1, <2>3, <2>4 DEF OSQPend
  <1>6. CASE OSQAccept(e)
    <2>1. Type(e) = "Q" /\ ecb[e].obj.entries > 0
      BY <1>6 DEF OSQAccept
    <2>2. Got(ecb[e].obj) \in Contents(Type(e)) /\ ecb[e].wait = {}
      <3>1. Got(ecb[e].obj) \in Ring
        BY <1>2, <2>1, RingMoves
      <3>2. ecb[e].obj.entries # 0
        BY <1>2, <2>1
      <3> QED  BY <1>2, <1>3, <2>1, <3>1, <3>2, ObjectHolds
    <2> QED  BY <1>6, <2>2, ContentChanges DEF OSQAccept
  <1>7. CASE OSQFlush(e)
    <2> DEFINE x == [ecb[e].obj EXCEPT !.in = 1, !.out = 1, !.entries = 0]
    <2>1. Type(e) = "Q" /\ Becomes(e, x) /\ UNCHANGED call
      BY <1>7 DEF OSQFlush
    <2>2. x \in Ring /\ x.entries = 0
      BY <1>2, <2>1, RingMoves DEF Ring
    <2> HIDE DEF x
    <2>3. x \in Contents(Type(e))
      BY <1>2, <2>1, <2>2
    <2>4. Lacks(e)'
      <3>1. ecb'[e] = [ecb[e] EXCEPT !.obj = x] /\ ecb[e] \in Ecb
        BY <2>1 DEF Becomes, KernelInv, Tables, Shapes
      <3>2. ecb'[e].type = "Q" /\ ecb'[e].obj.entries = 0
        BY <2>1, <2>2, <3>1 DEF Ecb, Type
      <3> QED  BY <3>2 DEF Lacks, Type
    <2> QED  BY <2>1, <2>3, <2>4, ContentChanges
  <1>8. ASSUME NEW m \in Msg, NEW all \in BOOLEAN, NEW front \in BOOLEAN, Type(e) = "Q",
               \/ Hand(e, m, all, TRUE)
               \/ /\ Room(e)
                  /\ Becomes(e, IF front THEN PutFront(ecb[e].obj, m) ELSE Put(ecb[e].obj, m))
                  /\ UNCHANGED call
        PROVE  KernelInv'
    <2>1. CASE Hand(e, m, all, TRUE)
      BY <2>1, HandStep
    <2>2. CASE /\ Room(e)
               /\ Becomes(e, IF front THEN PutFront(ecb[e].obj, m) ELSE Put(ecb[e].obj, m))
               /\ UNCHANGED call
      <3> DEFINE x == IF front THEN PutFront(ecb[e].obj, m) ELSE Put(ecb[e].obj, m)
      <3>1. x \in Contents(Type(e)) /\ ecb[e].wait = {}
        BY <1>2, <1>8, <2>2, RingMoves DEF Room
      <3>2. Becomes(e, x)
        BY <2>2
      <3> HIDE DEF x
      <3> QED  BY <2>2, <3>1, <3>2, ContentChanges
    <2> QED  BY <1>8, <2>1, <2>2
  <1>9. CASE \E m \in Msg : OSQPost(e, m) \/ OSQPostFront(e, m)
    <2>1. PICK m \in Msg : OSQPost(e, m) \/ OSQPostFront(e, m)
      BY <1>9
    <2>2. CASE OSQPost(e, m)
      <3>1. \/ Hand(e, m, FALSE, TRUE)
            \/ /\ Room(e)
               /\ Becomes(e, IF FALSE THEN PutFront(ecb[e].obj, m) ELSE Put(ecb[e].obj, m))
               /\ UNCHANGED call
        BY <2>2 DEF OSQPost
      <3> QED  BY <1>8, <2>2, <3>1 DEF OSQPost
    <2>3. CASE OSQPostFront(e, m)
      <3>1. \/ Hand(e, m, FALSE, TRUE)
            \/ /\ Room(e)
               /\ Becomes(e, IF TRUE THEN PutFront(ecb[e].obj, m) ELSE Put(ecb[e].obj, m))
               /\ UNCHANGED call
        BY <2>3 DEF OSQPostFront
      <3> QED  BY <1>8, <2>3, <3>1 DEF OSQPostFront
    <2> QED  BY <2>1, <2>2, <2>3
  <1>10. CASE \E m \in Msg, all, front \in BOOLEAN : OSQPostOpt(e, m, all, front, TRUE)
    BY <1>8, <1>10 DEF OSQPostOpt
  <1>11. CASE \E always \in BOOLEAN : OSQDel(e, always)
    BY <1>11, DelStep DEF OSQDel
  <1>12. CASE \E all \in BOOLEAN : OSQPendAbort(e, all)
    BY <1>12, AbortStep DEF OSQPendAbort
  <1> QED  BY <1>1, <1>4, <1>5, <1>6, <1>7, <1>9, <1>10, <1>11, <1>12

-----------------------------------------------------------------------------
(* The invariant holds initially, and every step keeps it.                 *)

LEMMA KernelStarts ==
    ASSUME Init
    PROVE  KernelInv
PROOF
  <1>1. /\ tcb = [t \in Task |-> NewTcb(At[t])]
        /\ call = [t \in Task |-> NoCall]
        /\ OSTCBPrioTbl = [p \in Prio |-> IF {t \in Task : At[t] = p} = {} THEN "free"
                                         ELSE CHOOSE t \in {u \in Task : At[u] = p} : TRUE]
        /\ OSRdyTbl = {At[t] : t \in Task}
        /\ ecb = [e \in Event |-> Unused]
        /\ OSPrioCur = Min(OSRdyTbl) /\ OSTCBCur = OSTCBPrioTbl[OSPrioCur]
        /\ OSLockNesting = 0
        /\ node = [t \in Task |-> NoNode]
    BY DEF Init, CoreInit, OS_InitEventList, OSStart, FlagInit
  <1>2. ASSUME NEW p \in Prio
        PROVE  /\ \A t \in Task : At[t] = p => OSTCBPrioTbl[p] = t
               /\ p \notin OSRdyTbl => OSTCBPrioTbl[p] = "free"
               /\ p \in OSRdyTbl => OSTCBPrioTbl[p] \in Task /\ At[OSTCBPrioTbl[p]] = p
    <2> DEFINE S == {t \in Task : At[t] = p}
    <2>1. OSTCBPrioTbl[p] = IF S = {} THEN "free" ELSE CHOOSE t \in S : TRUE
      BY <1>1
    <2>2. S # {} => (CHOOSE t \in S : TRUE) \in S
      OBVIOUS
    <2>3. \A t, u \in S : t = u
      BY ServicesAssumption
    <2>4. p \in OSRdyTbl <=> S # {}
      BY <1>1
    <2> QED  BY <2>1, <2>2, <2>3, <2>4
  <1>3. \A t \in Task : At[t] \in Prio /\ t # "free" /\ At[t] \in OSRdyTbl
    BY <1>1, ServicesAssumption, NamesAssumption
  <1>4. ASSUME NEW t \in Task
        PROVE  /\ tcb[t].prio = At[t] /\ tcb[t] \in Tcb /\ Unblocked(t) /\ ~ Waiting(t)
               /\ tcb[t].pend = "OK" /\ tcb[t].event = Null
               /\ call[t] = NoCall /\ call[t].on = {} /\ Alive(t)
    <2>1. tcb[t] = NewTcb(At[t]) /\ call[t] = NoCall
      BY <1>1
    <2>2. Alive(t)
      BY <1>2, <1>3, <2>1 DEF Alive, NewTcb
    <2> QED  BY <1>3, <2>1, <2>2 DEF NewTcb, NoCall, Tcb, Unblocked, Waiting
  <1>5. Shapes
    <2>1. tcb \in [Task -> Tcb]
      BY <1>1, <1>4
    <2>2. call \in [Task -> Call]
      BY <1>1 DEF NoCall, Call
    <2>3. OSTCBPrioTbl \in [Prio -> Task \cup {"free"}]
      <3>1. \A p \in Prio : OSTCBPrioTbl[p] \in Task \cup {"free"}
        BY <1>2
      <3> QED  BY <1>1, <3>1
    <2>4. OSRdyTbl \in SUBSET Prio
      BY <1>1, <1>3
    <2>5. ecb \in [Event -> Ecb] /\ \A e \in Event : ecb[e].obj \in Contents(Type(e))
      BY <1>1 DEF Unused, Ecb, Contents, Type
    <2> QED  BY <1>1, <2>1, <2>2, <2>3, <2>4, <2>5 DEF Shapes
  <1>6. PrioMaps
    BY <1>2, <1>3, <1>4 DEF PrioMaps
  <1>7. ASSUME NEW t \in Task
        PROVE  Stage(t)
    BY <1>4 DEF Stage
  <1>8. ASSUME NEW p \in Prio
        PROVE  ReadyBit(p)
    BY <1>2, <1>3, <1>4 DEF ReadyBit
  <1>9. ASSUME NEW e \in Event
        PROVE  ecb[e].wait = {} /\ \A p \in Prio : WaitBit(e, p)
    <2>1. ecb[e].wait = {}
      BY <1>1 DEF Unused
    <2>2. \A t \in Task : ~ InList(t, e)
      BY <1>4 DEF InList
    <2> QED  BY <2>1, <2>2 DEF WaitBit
  <1>10. IdleStays
    <2>1. Idle \in Task /\ At[Idle] = LowestPrio
      BY CoreAssumption, ServicesAssumption
    <2> QED  BY <1>2, <1>4, <2>1, LowestIsPrio DEF IdleStays
  <1>11. Scheduled
    <2>1. OSRdyTbl \in SUBSET Prio /\ OSRdyTbl # {}
      BY <1>3, <1>5, CoreAssumption DEF Shapes
    <2>2. OSPrioCur \in OSRdyTbl
      BY <1>1, <2>1, MinOfPrios
    <2> QED  BY <1>1, <1>2, <2>1, <2>2 DEF Scheduled
  <1> QED  BY <1>5, <1>6, <1>7, <1>8, <1>9, <1>10, <1>11 DEF KernelInv, Tables

LEMMA KernelSteps ==
    ASSUME KernelInv, Ordinary, [Next]_vars
    PROVE  KernelInv'
PROOF
  <1>1. CASE UNCHANGED vars
    <2>1. /\ UNCHANGED <<tcb, call, OSTCBPrioTbl, OSRdyTbl, ecb, OSLockNesting, node>> /\ NoSched
          /\ OSLockNesting \in Nat
      BY <1>1 DEF vars, core, flagVars, NoSched, KernelInv, Tables, Shapes
    <2>2. Tables'
      BY <2>1, SameTables DEF KernelInv
    <2> QED  BY <2>1, <2>2, NoSwitch DEF KernelInv, Unlocked
  <1>2. CASE Next
    <2>1. \/ /\ \/ Tick \/ Returns \/ Delays \/ Suspension \/ Locking \/ Priorities
                \/ Semaphores \/ Mailboxes \/ Queues
             /\ UNCHANGED node
          \/ Lives \/ FlagReturns
      BY <1>2 DEF Next, Ordinary, flagVars, Several, Mutexes, Flags
    <2>2. CASE Tick /\ UNCHANGED node
      BY <2>2, TickStep DEF Tick
    <2>3. CASE Returns /\ UNCHANGED node
      BY <2>3, PendReturnStep, MessageReturnStep DEF Returns
    <2>4. CASE Delays /\ UNCHANGED node
      <3>1. \A n \in 1 .. MaxTicks : n \in Nat \ {0}
        OBVIOUS
      <3> QED  BY <2>4, <3>1, TimeDlyStep, DlyResumeStep DEF Delays
    <2>5. CASE Suspension /\ UNCHANGED node
      BY <2>5, SuspendStep, ResumeStep DEF Suspension
    <2>6. CASE Locking /\ UNCHANGED node
      BY <2>6, LockingStep DEF Locking
    <2>7. CASE Priorities /\ UNCHANGED node
      BY <2>7, ChangePrioStep DEF Priorities, Ordinary
    <2>8. CASE Semaphores /\ UNCHANGED node
      BY <2>8, SemaphoresStep
    <2>9. CASE Mailboxes /\ UNCHANGED node
      BY <2>9, MailboxesStep
    <2>10. CASE Queues /\ UNCHANGED node
      BY <2>10, QueuesStep
    <2>11. CASE Lives
      <3>1. CASE \E p \in Named : OSTaskDel(p) /\ FlagUnlink(OSTCBPrioTbl[p])
        <4>1. PICK p \in Named : OSTaskDel(p) /\ FlagUnlink(OSTCBPrioTbl[p])
          BY <3>1
        <4>2. UNCHANGED node
          BY <4>1 DEF FlagUnlink, KernelInv, Tables, Shapes
        <4> QED  BY <2>11, <4>1, <4>2, DeleteStep DEF Lives
      <3>2. CASE \E t \in App, p \in Prio : OSTaskCreate(t, p) /\ UNCHANGED flagVars
        BY <3>2, CreateStep DEF flagVars
      <3> QED  BY <2>11, <3>1, <3>2 DEF Lives, OSTaskCreateExt
    <2>12. CASE FlagReturns
      <3>1. PICK t \in Task : call[t].on \cap Group # {}
        BY <2>12 DEF FlagReturns, OSFlagPendReturn, App
      <3>2. call[t] \in Call
        BY DEF KernelInv, Tables, Shapes
      <3>3. call[t].on \in {{}} \cup {{e} : e \in Event}
        BY <3>2 DEF Call
      <3> QED  BY <3>1, <3>3, FlagAssumption
    <2> QED  BY <2>1, <2>2, <2>3, <2>4, <2>5, <2>6, <2>7, <2>8, <2>9, <2>10, <2>11, <2>12
  <1> QED  BY <1>1, <1>2

THEOREM KernelInvHolds == Spec => [](Ordinary => KernelInv)
PROOF
  <1>1. Init => (Ordinary => KernelInv)
    BY KernelStarts
  <1>2. (Ordinary => KernelInv) /\ [Next]_vars => (Ordinary => KernelInv)'
    <2> SUFFICES ASSUME Ordinary => KernelInv, [Next]_vars, Ordinary'
                 PROVE  KernelInv'
      OBVIOUS
    <2>1. Ordinary
      BY DEF Next, vars, Ordinary
    <2> QED  BY <2>1, KernelSteps
  <1> QED  BY <1>1, <1>2, PTL DEF Spec

-----------------------------------------------------------------------------
(* What a reader of the tables may rely on.                                *)

(* A task still waits exactly when its status says so.                      *)
LEMMA StatusTells ==
    ASSUME KernelInv, NEW t \in Task
    PROVE  /\ StillWaits(t) <=> Waiting(t)
           /\ (tcb[t].dly = 0 /\ "SUSPEND" \notin tcb[t].stat /\ ~ StillWaits(t)) <=> Unblocked(t)
           /\ \A e \in Event : (e \in call[t].on /\ (StillWaits(t) \/ tcb[t].pend = "TO")) <=> InList(t, e)
PROOF
  <1>1. Stage(t) /\ tcb[t] \in Tcb /\ call[t] \in Call
    BY DEF KernelInv, Tables, Shapes
  <1>2. /\ tcb[t].stat \subseteq Kinds \cup {"SUSPEND"}
        /\ tcb[t].stat \cap PendAny = tcb[t].stat \cap Kinds
    BY <1>1 DEF Tcb, Kinds, PendAny
  <1>3. call[t].multi = FALSE /\ call[t].on \in {{}} \cup {{e} : e \in Event}
    BY <1>1 DEF Call
  <1>4. StillWaits(t) <=> Waiting(t)
    <2>1. StillWaits(t) <=> call[t].on # {} /\ tcb[t].pend = "OK" /\ Waiting(t)
      BY <1>2, <1>3 DEF StillWaits, Waiting
    <2>2. Waiting(t) => call[t].on # {}
      BY <1>1 DEF Stage
    <2>3. ASSUME Waiting(t)
          PROVE  tcb[t].pend = "OK"
      BY <1>1, <1>3, <2>2, <2>3 DEF Stage
    <2> QED  BY <2>1, <2>2, <2>3
  <1>5. tcb[t].stat = {} <=> "SUSPEND" \notin tcb[t].stat /\ ~ Waiting(t)
    BY <1>2 DEF Waiting
  <1>6. \A e \in Event : e \in call[t].on <=> call[t].on = {e}
    BY <1>3
  <1> QED  BY <1>4, <1>5, <1>6 DEF Unblocked, InList

(* The priorities of the live tasks that satisfy a condition are those of   *)
(* the table whose task satisfies it.                                       *)
LEMMA AtTheirPriorities ==
    ASSUME KernelInv, NEW S \in SUBSET Prio, NEW T \in SUBSET Task,
           \A p \in Prio : p \in S <=> OSTCBPrioTbl[p] \in T
    PROVE  S = {tcb[t].prio : t \in {u \in Live : u \in T}}
PROOF
  <1> DEFINE L == {u \in Live : u \in T}
  <1>0. /\ \A t \in Task : tcb[t].prio \in Prio
        /\ \A p \in Prio : OSTCBPrioTbl[p] \in Task => tcb[OSTCBPrioTbl[p]].prio = p
    BY DEF KernelInv, Tables, Shapes, Tcb, PrioMaps
  <1>1. \A t \in L : t \in Task /\ OSTCBPrioTbl[tcb[t].prio] = t /\ t \in T
    BY DEF Live, Alive
  <1>2. \A p \in S : OSTCBPrioTbl[p] \in L /\ tcb[OSTCBPrioTbl[p]].prio = p
    BY <1>0 DEF Live, Alive
  <1>3. \A t \in L : tcb[t].prio \in S
    BY <1>0, <1>1
  <1> HIDE DEF L
  <1>4. S = {tcb[t].prio : t \in L}
    BY <1>2, <1>3
  <1> QED  BY <1>4 DEF L

(* TablesAgree, in every ordinary application: through all of os_task.c,    *)
(* os_time.c and the pends and posts of os_sem.c, os_mbox.c and os_q.c, the   *)
(* ready table is what the control blocks say, and a priority leads to the   *)
(* task that has it.                                                       *)
THEOREM TablesAgreeOrdinarily == Spec => [](Ordinary => TablesAgree)
PROOF
  <1>1. ASSUME KernelInv
        PROVE  TablesAgree
    <2> DEFINE T == {u \in Task : Unblocked(u)}
    <2>1. /\ OSRdyTbl \in SUBSET Prio /\ T \in SUBSET Task
          /\ \A p \in Prio : p \in OSRdyTbl <=> OSTCBPrioTbl[p] \in T
      BY <1>1 DEF KernelInv, Tables, Shapes, ReadyBit
    <2>2. OSRdyTbl = {tcb[t].prio : t \in {u \in Live : u \in T}}
      BY <1>1, <2>1, AtTheirPriorities
    <2>3. {u \in Live : u \in T} = {u \in Live : /\ tcb[u].dly = 0 /\ "SUSPEND" \notin tcb[u].stat
                                                 /\ ~ StillWaits(u)}
      BY <1>1, StatusTells DEF Live
    <2>4. \A p \in Prio : OSTCBPrioTbl[p] \in Task => OSTaskQuery(p).prio = p
      BY <1>1 DEF KernelInv, Tables, PrioMaps, OSTaskQuery
    <2> QED  BY <2>2, <2>3, <2>4 DEF TablesAgree
  <1> QED  BY <1>1, KernelInvHolds, PTL

(* WaitListsMatch, in every ordinary application: a list names those inside  *)
(* a call on the object to whom nothing was given, and nobody else.          *)
THEOREM WaitListsMatchOrdinarily == Spec => [](Ordinary => WaitListsMatch)
PROOF
  <1>1. ASSUME KernelInv
        PROVE  WaitListsMatch
    <2> SUFFICES ASSUME NEW e \in Event
                 PROVE  ecb[e].wait = {tcb[t].prio : t \in {u \in Live :
                             e \in call[u].on /\ (StillWaits(u) \/ tcb[u].pend = "TO")}}
      BY DEF WaitListsMatch
    <2> DEFINE T == {u \in Task : InList(u, e)}
    <2>1. /\ ecb[e].wait \in SUBSET Prio /\ T \in SUBSET Task
          /\ \A p \in Prio : p \in ecb[e].wait <=> OSTCBPrioTbl[p] \in T
      BY <1>1 DEF KernelInv, Tables, Shapes, Ecb, WaitBit
    <2>2. ecb[e].wait = {tcb[t].prio : t \in {u \in Live : u \in T}}
      BY <1>1, <2>1, AtTheirPriorities
    <2>3. {u \in Live : u \in T} = {u \in Live : /\ e \in call[u].on
                                                 /\ StillWaits(u) \/ tcb[u].pend = "TO"}
      BY <1>1, StatusTells DEF Live
    <2> QED  BY <2>2, <2>3
  <1> QED  BY <1>1, KernelInvHolds, PTL

(* NothingWaitsInVain, in every ordinary application: no task is in the list *)
(* of a semaphore with a count, of a mailbox with a message or of a queue    *)
(* that is not empty, whatever was posted, set, flushed, aborted or deleted. *)
THEOREM NothingWaitsInVainOrdinarily == Spec => [](Ordinary => NothingWaitsInVain)
PROOF
  <1>1. ASSUME KernelInv
        PROVE  NothingWaitsInVain
    <2>1. NothingWaitsOverSupply
      <3> SUFFICES ASSUME NEW e \in Event, ecb[e].wait # {}
                   PROVE  CASE Type(e) = "SEM" -> OSSemQuery(e).OSCnt = 0
                            [] Type(e) = "MBOX" -> OSMboxQuery(e).OSMsg = Null
                            [] Type(e) = "Q" -> OSQQuery(e).OSNMsgs = 0
                            [] Type(e) = "MUTEX" -> ~OSMutexQuery(e).OSValue
                            [] OTHER -> FALSE
        BY DEF NothingWaitsOverSupply
      <3>1. Lacks(e)
        BY <1>1 DEF KernelInv, Tables
      <3>2. Type(e) \in Kinds \cup {"UNUSED"}
        BY <1>1 DEF KernelInv, Tables, Shapes, Ecb, Type
      <3>3. Type(e) \in Kinds
        BY <3>1, <3>2 DEF Lacks, Kinds
      <3> QED  BY <3>1, <3>3 DEF Lacks, Kinds, OSSemQuery, OSMboxQuery, OSQQuery
    <2>2. NoWaitOverFlags
      BY <1>1 DEF NoWaitOverFlags, Live, KernelInv, Tables, Shapes
    <2> QED  BY <2>1, <2>2 DEF NothingWaitsInVain
  <1> QED  BY <1>1, KernelInvHolds, PTL

(* MostUrgentRunsWithoutMutex, in every ordinary application: whenever the   *)
(* scheduler is unlocked the running task is the most urgent ready one; so   *)
(* no service forgets OS_Sched.                                             *)
THEOREM MostUrgentRunsOrdinarily == Spec => [](Ordinary => MostUrgentRunsWithoutMutex)
PROOF
  <1>1. ASSUME KernelInv
        PROVE  MostUrgentRunsWithoutMutex
    <2>1. tcb[OSTCBCur].prio = OSPrioCur
      BY <1>1, RunnerStands
    <2> QED  BY <1>1, <2>1 DEF KernelInv, Scheduled, MostUrgentRunsWithoutMutex, MostUrgentRuns
  <1> QED  BY <1>1, KernelInvHolds, PTL

-----------------------------------------------------------------------------
(* The application that uses of the kernel what Rover uses.                 *)

TheQueue == CHOOSE e \in Event : TRUE

(* A queue's next free slot follows the last message it holds.              *)
Wraps(r) == r.in = ((r.out - 1 + r.entries) % QSize) + 1

(* Its tasks keep their priorities, nothing times out or is aborted, the    *)
(* first object alone is used, as a queue, and a task that was woken has a  *)
(* message.                                                                *)
RoverTask(t) ==
    /\ tcb[t].prio = At[t] /\ OSTCBPrioTbl[At[t]] = t
    /\ tcb[t].pend = "OK" /\ call[t].on \subseteq {TheQueue}
    /\ Waiting(t) => tcb[t].dly = 0
    /\ call[t].on # {} /\ ~ Waiting(t) => tcb[t].msg \in Msg

RoverObjects ==
    /\ \A e \in Event : Type(e) = "UNUSED" \/ (Type(e) = "Q" /\ e = TheQueue)
    /\ Type(TheQueue) = "Q" => Wraps(ecb[TheQueue].obj)

RoverInv == OSLockNesting = 0 /\ (\A t \in Task : RoverTask(t)) /\ RoverObjects

(* Where the i-th message of a ring lies.                                   *)
Place(r, i) == IF r.out + i - 1 <= QSize THEN r.out + i - 1 ELSE r.out + i - 1 - QSize

LEMMA Remainder ==
    ASSUME NEW n \in Nat \ {0}, NEW x \in Nat
    PROVE  /\ x < n => x % n = x
           /\ n <= x /\ x < n + n => x % n = x - n
PROOF OBVIOUS

(* What a ring holds, message by message.                                  *)
LEMMA RingHolds ==
    ASSUME NEW r \in Ring
    PROVE  /\ Held(r) \in Seq(Msg \cup {Null}) /\ Len(Held(r)) = r.entries
           /\ \A i \in 1 .. r.entries : Held(r)[i] = r.buf[Place(r, i)]
           /\ \A i \in 1 .. QSize : Place(r, i) \in Slot
           /\ r.entries < QSize /\ Wraps(r) => r.in = Place(r, r.entries + 1)
           /\ Wraps(r) <=> r.in = IF r.out + r.entries <= QSize THEN r.out + r.entries
                                  ELSE r.out + r.entries - QSize
PROOF
  <1>1. /\ r.out \in 1 .. QSize /\ r.entries \in 0 .. QSize /\ QSize \in Nat \ {0}
        /\ r.buf \in [Slot -> Msg \cup {Null}]
    BY EventsAssumption DEF Ring, Slot
  <1>2. ASSUME NEW i \in 1 .. QSize + 1
        PROVE  ((r.out - 1 + i - 1) % QSize) + 1 = Place(r, i)
    <2> DEFINE x == r.out - 1 + i - 1
    <2>1. x \in Nat /\ x < QSize + QSize
      BY <1>1, <1>2
    <2>2. IF x < QSize THEN x % QSize = x ELSE x % QSize = x - QSize
      BY <1>1, <2>1, Remainder
    <2> HIDE DEF x
    <2>3. (x % QSize) + 1 = IF x < QSize THEN x + 1 ELSE x + 1 - QSize
      BY <1>1, <2>1, <2>2
    <2>4. x = r.out + i - 2
      BY <1>1, <1>2 DEF x
    <2>5. x < QSize <=> r.out + i - 1 <= QSize
      BY <1>1, <1>2, <2>4
    <2>6. (x % QSize) + 1 = Place(r, i)
      BY <1>1, <1>2, <2>3, <2>4, <2>5 DEF Place
    <2> QED  BY <2>6 DEF x
  <1>3. \A i \in 1 .. QSize : Place(r, i) \in Slot
    BY <1>1 DEF Place, Slot
  <1>4. \A i \in 1 .. r.entries : i \in 1 .. QSize /\ i \in 1 .. QSize + 1
    BY <1>1
  <1>5. Held(r) = [i \in 1 .. r.entries |-> r.buf[Place(r, i)]]
    BY <1>2, <1>4 DEF Held
  <1>6. \A i \in 1 .. r.entries : r.buf[Place(r, i)] \in Msg \cup {Null}
    BY <1>1, <1>3, <1>4
  <1>7. Held(r) \in [1 .. r.entries -> Msg \cup {Null}]
    BY <1>5, <1>6
  <1>8. Held(r) \in Seq(Msg \cup {Null}) /\ Len(Held(r)) = r.entries
    <2>1. r.entries \in Nat
      BY <1>1
    <2> QED  BY <1>7, <2>1
  <1>9. Wraps(r) <=> r.in = Place(r, r.entries + 1)
    <2>1. r.entries + 1 \in 1 .. QSize + 1 /\ r.out - 1 + (r.entries + 1) - 1 = r.out - 1 + r.entries
      BY <1>1
    <2>2. ((r.out - 1 + (r.entries + 1) - 1) % QSize) + 1 = Place(r, r.entries + 1)
      BY <1>2, <2>1
    <2> QED  BY <2>1, <2>2 DEF Wraps
  <1>10. Place(r, r.entries + 1) = IF r.out + r.entries <= QSize THEN r.out + r.entries
                                  ELSE r.out + r.entries - QSize
    BY <1>1 DEF Place
  <1>11. \A i \in 1 .. r.entries : Held(r)[i] = r.buf[Place(r, i)]
    BY <1>5
  <1> QED  BY <1>3, <1>8, <1>9, <1>10, <1>11

LEMMA EmptyHolds ==
    /\ EmptyRing \in Ring /\ Wraps(EmptyRing) /\ Held(EmptyRing) = <<>>
    /\ \A r \in Ring : Held(r) = <<>> <=> r.entries = 0
PROOF
  <1>1. EmptyRing \in Ring /\ EmptyRing.entries = 0 /\ EmptyRing.in = 1 /\ EmptyRing.out = 1
    BY EventsAssumption DEF EmptyRing, Ring, Slot
  <1>2. ASSUME NEW r \in Ring
        PROVE  Held(r) = <<>> <=> r.entries = 0
    <2>1. Held(r) \in Seq(Msg \cup {Null}) /\ Len(Held(r)) = r.entries
      BY RingHolds
    <2> QED  BY <2>1, EmptySeq
  <1>3. Wraps(EmptyRing)
    <2>1. 1 + 0 <= QSize
      BY EventsAssumption
    <2> QED  BY <1>1, <2>1, RingHolds
  <1> QED  BY <1>1, <1>2, <1>3

(* A message put into a ring that is not full comes after all others.       *)
LEMMA PutHolds ==
    ASSUME NEW r \in Ring, NEW m \in Msg, r.entries < QSize, Wraps(r)
    PROVE  Held(Put(r, m)) = Append(Held(r), m) /\ Wraps(Put(r, m))
PROOF
  <1> DEFINE s == Put(r, m)
             n == r.entries
  <1>1. /\ r.out \in 1 .. QSize /\ r.in \in 1 .. QSize /\ n \in 0 .. QSize - 1 /\ QSize \in Nat \ {0}
        /\ r.buf \in [Slot -> Msg \cup {Null}]
    BY EventsAssumption DEF Ring, Slot
  <1>2. s \in Ring
    BY RingMoves
  <1>3. /\ s.out = r.out /\ s.entries = n + 1 /\ s.in = After(r.in)
        /\ s.buf = [r.buf EXCEPT ![r.in] = m]
    BY DEF Put, Ring
  <1>4. /\ r.in = Place(r, n + 1)
        /\ r.in = IF r.out + n <= QSize THEN r.out + n ELSE r.out + n - QSize
    BY RingHolds
  <1> HIDE DEF s
  <1>5. Wraps(s)
    <2>1. After(r.in) = IF r.out + (n + 1) <= QSize THEN r.out + (n + 1)
                        ELSE r.out + (n + 1) - QSize
      BY <1>1, <1>4 DEF After
    <2> QED  BY <1>2, <1>3, <2>1, RingHolds
  <1>6. \A i \in 1 .. n + 1 : Place(s, i) = Place(r, i)
    BY <1>3 DEF Place
  <1>7. ASSUME NEW i \in 1 .. n
        PROVE  Held(s)[i] = Held(r)[i]
    <2>1. i \in 1 .. n + 1 /\ i \in 1 .. QSize
      BY <1>1
    <2>2. Place(r, i) \in Slot
      BY <2>1, RingHolds
    <2>3. Place(r, i) # r.in
      BY <1>1, <1>4 DEF Place
    <2>4. Held(s)[i] = s.buf[Place(s, i)]
      BY <1>2, <1>3, <2>1, RingHolds
    <2>5. s.buf[Place(r, i)] = r.buf[Place(r, i)]
      BY <1>1, <1>3, <2>2, <2>3
    <2>6. Held(r)[i] = r.buf[Place(r, i)]
      BY RingHolds
    <2> QED  BY <1>6, <2>1, <2>4, <2>5, <2>6
  <1>8. Held(s)[n + 1] = m
    <2>1. n + 1 \in 1 .. s.entries /\ n + 1 \in 1 .. n + 1 /\ r.in \in Slot
      BY <1>1, <1>3 DEF Slot
    <2>2. Held(s)[n + 1] = s.buf[Place(s, n + 1)]
      BY <1>2, <2>1, RingHolds
    <2>3. s.buf[r.in] = m
      BY <1>1, <1>3, <2>1
    <2> QED  BY <1>4, <1>6, <2>1, <2>2, <2>3
  <1>9. /\ Held(r) \in Seq(Msg \cup {Null}) /\ Len(Held(r)) = n
        /\ Held(s) \in Seq(Msg \cup {Null}) /\ Len(Held(s)) = n + 1
    BY <1>2, <1>3, RingHolds
  <1>10. Held(s) = Append(Held(r), m)
    <2> DEFINE q == Held(r)
               a == Append(q, m)
    <2>1. /\ a \in Seq(Msg \cup {Null}) /\ Len(a) = n + 1 /\ a[n + 1] = m
          /\ \A i \in 1 .. n : a[i] = q[i]
      BY <1>9, AppendProperties
    <2> HIDE DEF a
    <2>2. \A i \in 1 .. n + 1 : i \in 1 .. n \/ i = n + 1
      BY <1>1
    <2>3. \A i \in 1 .. Len(Held(s)) : Held(s)[i] = a[i]
      BY <1>7, <1>8, <1>9, <2>1, <2>2
    <2>4. Held(s) = a
      BY <1>9, <2>1, <2>3, SeqEqual
    <2> QED  BY <2>4 DEF a
  <1> QED  BY <1>5, <1>10 DEF s

(* The message taken from a ring is the one that has been there longest.    *)
LEMMA GotHolds ==
    ASSUME NEW r \in Ring, r.entries > 0
    PROVE  /\ Held(r) # <<>> /\ Head(Held(r)) = r.buf[r.out]
           /\ Tail(Held(r)) = Held(Got(r))
           /\ Wraps(r) => Wraps(Got(r))
PROOF
  <1> DEFINE s == Got(r)
             n == r.entries
             q == Held(r)
  <1>1. /\ r.out \in 1 .. QSize /\ r.in \in 1 .. QSize /\ n \in 1 .. QSize /\ QSize \in Nat \ {0}
    BY EventsAssumption DEF Ring, Slot
  <1>2. s \in Ring
    BY RingMoves
  <1>3. s.out = After(r.out) /\ s.entries = n - 1 /\ s.in = r.in /\ s.buf = r.buf
    BY DEF Got, Ring
  <1> HIDE DEF s
  <1>4. /\ q \in Seq(Msg \cup {Null}) /\ Len(q) = n
        /\ Held(s) \in Seq(Msg \cup {Null}) /\ Len(Held(s)) = n - 1
        /\ \A i \in 1 .. n : q[i] = r.buf[Place(r, i)]
        /\ \A i \in 1 .. n - 1 : Held(s)[i] = s.buf[Place(s, i)]
    BY <1>2, <1>3, RingHolds
  <1> HIDE DEF q
  <1>5. q # <<>>
    BY <1>1, <1>4, EmptySeq
  <1>6. /\ Tail(q) \in Seq(Msg \cup {Null}) /\ Len(Tail(q)) = n - 1
        /\ \A i \in 1 .. n - 1 : Tail(q)[i] = q[i + 1]
    BY <1>4, <1>5, HeadTailProperties
  <1>7. Head(q) = r.buf[r.out]
    <2>1. Head(q) = q[1]
      BY <1>4, <1>5
    <2>2. Place(r, 1) = r.out /\ 1 \in 1 .. n
      BY <1>1 DEF Place
    <2> QED  BY <1>4, <2>1, <2>2
  <1>8. ASSUME NEW i \in 1 .. n - 1
        PROVE  Tail(q)[i] = Held(s)[i]
    <2>1. i + 1 \in 1 .. n
      BY <1>1
    <2>2. Place(s, i) = Place(r, i + 1)
      BY <1>1, <1>3 DEF Place, After
    <2> QED  BY <1>3, <1>4, <1>6, <2>1, <2>2
  <1>9. Tail(q) = Held(s)
    BY <1>4, <1>6, <1>8, SeqEqual
  <1>10. ASSUME Wraps(r)
         PROVE  Wraps(s)
    <2>1. r.in = IF r.out + n <= QSize THEN r.out + n ELSE r.out + n - QSize
      BY <1>10, RingHolds
    <2>2. s.in = IF s.out + s.entries <= QSize THEN s.out + s.entries ELSE s.out + s.entries - QSize
      BY <1>1, <1>3, <2>1 DEF After
    <2> QED  BY <1>2, <2>2, RingHolds
  <1> QED  BY <1>5, <1>7, <1>9, <1>10 DEF s, q

LEMMA TheQueueExists == TheQueue \in Event
PROOF BY ServicesAssumption DEF TheQueue

-----------------------------------------------------------------------------
(* The abstract kernel, in the terms of the tables.                        *)

Delayed == {t \in App : Rovers /\ tcb[t].dly > 0}
Suspended == {t \in App : Rovers /\ "SUSPEND" \in tcb[t].stat}
Pending == {t \in App : Rovers /\ "Q" \in tcb[t].stat}
Queue == IF Rovers THEN QueueOf ELSE <<>>
Mail == [t \in App |-> IF ~ Rovers THEN Null
                       ELSE IF call[t].on # {} /\ "Q" \notin tcb[t].stat THEN tcb[t].msg
                       ELSE call[t].pmsg]

Mapping ==
    /\ Delayed \subseteq App /\ Suspended \subseteq App /\ Pending \subseteq App
    /\ Mail = [t \in App |-> Mail[t]]
    /\ \A t \in App :
         /\ t \in Delayed <=> tcb[t].dly # 0
         /\ t \in Suspended <=> "SUSPEND" \in tcb[t].stat
         /\ t \in Pending <=> Waiting(t)
         /\ Mail[t] = IF call[t].on # {} /\ ~ Waiting(t) THEN tcb[t].msg ELSE call[t].pmsg
         /\ tcb[t].stat \subseteq {"SUSPEND", "Q"}
    /\ Queue = IF Type(TheQueue) = "Q" THEN Held(ecb[TheQueue].obj) ELSE <<>>

LEMMA Mapped == KernelInv /\ RoverInv /\ Rovers => Mapping
PROOF
  <1> SUFFICES ASSUME KernelInv, RoverInv, Rovers
               PROVE  Mapping
    OBVIOUS
  <1>1. ASSUME NEW t \in App
        PROVE  /\ Waiting(t) <=> "Q" \in tcb[t].stat
               /\ tcb[t].stat \subseteq {"SUSPEND", "Q"}
               /\ tcb[t].dly \in Nat
    <2>1. t \in Task /\ tcb[t] \in Tcb /\ Stage(t) /\ RoverTask(t)
      BY DEF App, KernelInv, Tables, Shapes, RoverInv
    <2>2. tcb[t].stat \subseteq Kinds \cup {"SUSPEND"} /\ tcb[t].dly \in Nat
      BY <2>1 DEF Tcb
    <2>3. CASE Waiting(t)
      <3>1. call[t].on = {TheQueue}
        BY <2>1, <2>3 DEF RoverTask, Stage
      <3>2. tcb[t].stat \ {"SUSPEND"} = {Type(TheQueue)}
        BY <2>1, <2>3, <3>1, TheQueueExists DEF Stage
      <3>3. Type(TheQueue) = "Q"
        <4>1. Type(TheQueue) \in Kinds
          BY <2>2, <3>2
        <4> QED  BY <4>1, TheQueueExists DEF RoverInv, RoverObjects, Kinds
      <3> QED  BY <2>2, <2>3, <3>2, <3>3
    <2>4. CASE ~ Waiting(t)
      BY <2>2, <2>4 DEF Waiting, Kinds
    <2> QED  BY <2>2, <2>3, <2>4
  <1>2. \A t \in App : /\ t \in Delayed <=> tcb[t].dly # 0
                       /\ t \in Suspended <=> "SUSPEND" \in tcb[t].stat
                       /\ t \in Pending <=> Waiting(t)
    <2> SUFFICES ASSUME NEW t \in App
                 PROVE  /\ t \in Delayed <=> tcb[t].dly # 0
                        /\ t \in Suspended <=> "SUSPEND" \in tcb[t].stat
                        /\ t \in Pending <=> Waiting(t)
      OBVIOUS
    <2>1. tcb[t].dly \in Nat /\ (Waiting(t) <=> "Q" \in tcb[t].stat)
      BY <1>1
    <2>2. t \in Delayed <=> tcb[t].dly # 0
      BY <2>1 DEF Delayed
    <2>3. t \in Suspended <=> "SUSPEND" \in tcb[t].stat
      BY DEF Suspended
    <2>4. t \in Pending <=> Waiting(t)
      BY <2>1 DEF Pending
    <2> QED  BY <2>2, <2>3, <2>4
  <1>3. \A t \in App : Mail[t] = IF call[t].on # {} /\ ~ Waiting(t) THEN tcb[t].msg ELSE call[t].pmsg
    BY <1>1 DEF Mail
  <1>4. Queue = IF Type(TheQueue) = "Q" THEN Held(ecb[TheQueue].obj) ELSE <<>>
    <2>1. \A e \in Event : Type(e) = "Q" => e = TheQueue
      BY DEF RoverInv, RoverObjects
    <2>2. CASE \E e \in Event : Type(e) = "Q"
      <3> DEFINE q == CHOOSE e \in Event : Type(e) = "Q"
      <3>1. q \in Event /\ Type(q) = "Q"
        BY <2>2
      <3>2. q = TheQueue
        BY <2>1, <3>1
      <3> QED  BY <2>2, <3>1, <3>2 DEF Queue, QueueOf
    <2>3. CASE ~ \E e \in Event : Type(e) = "Q"
      BY <2>3, TheQueueExists DEF Queue, QueueOf
    <2> QED  BY <2>2, <2>3
  <1>5. /\ Delayed \subseteq App /\ Suspended \subseteq App /\ Pending \subseteq App
        /\ Mail = [t \in App |-> Mail[t]]
    BY DEF Delayed, Suspended, Pending, Mail
  <1>6. \A t \in App : tcb[t].stat \subseteq {"SUSPEND", "Q"}
    BY <1>1
  <1> QED
    <2>1. \A t \in App : /\ t \in Delayed <=> tcb[t].dly # 0
                         /\ t \in Suspended <=> "SUSPEND" \in tcb[t].stat
                         /\ t \in Pending <=> Waiting(t)
                         /\ Mail[t] = IF call[t].on # {} /\ ~ Waiting(t) THEN tcb[t].msg ELSE call[t].pmsg
                         /\ tcb[t].stat \subseteq {"SUSPEND", "Q"}
      BY <1>2, <1>3, <1>6
    <2> QED  BY <2>1, <1>4, <1>5 DEF Mapping

(* t is ready in the abstract kernel, and nobody more urgent is.            *)
MayCall(t) ==
    /\ t \in App /\ t \notin Delayed \cup Suspended \cup Pending
    /\ \A u \in App : At[u] < At[t] => u \in Delayed \cup Suspended \cup Pending

LEMMA RunnerMayCall ==
    ASSUME KernelInv, RoverInv, Mapping, NEW t \in App, OSTCBCur = t
    PROVE  MayCall(t)
PROOF
  <1>1. \A u \in App : /\ u \in Task /\ tcb[u].prio = At[u] /\ OSTCBPrioTbl[At[u]] = u
                       /\ At[u] \in Prio
    BY ServicesAssumption DEF App, RoverInv, RoverTask
  <1>2. Unblocked(t) /\ At[t] = OSPrioCur /\ OSRdyTbl \in SUBSET Prio /\ OSPrioCur = Min(OSRdyTbl)
    BY <1>1, RunnerStands DEF KernelInv, Tables, Shapes, Scheduled, Unlocked, RoverInv
  <1>3. \A u \in App : Unblocked(u) <=> u \notin Delayed \cup Suspended \cup Pending
    <2> SUFFICES ASSUME NEW u \in App
                 PROVE  Unblocked(u) <=> u \notin Delayed \cup Suspended \cup Pending
      OBVIOUS
    <2>1. tcb[u].stat \subseteq {"SUSPEND", "Q"} /\ (Waiting(u) <=> "Q" \in tcb[u].stat)
      BY DEF Mapping, Waiting, Kinds
    <2> QED  BY <2>1 DEF Mapping, Unblocked
  <1>4. ASSUME NEW u \in App, Unblocked(u)
        PROVE  ~ (At[u] < At[t])
    <2>1. At[u] \in OSRdyTbl
      BY <1>1, <1>4 DEF KernelInv, Tables, ReadyBit
    <2>2. OSPrioCur <= At[u]
      BY <1>2, <2>1, MinOfPrios
    <2>3. At[u] \in Nat /\ At[t] \in Nat
      BY <1>1, CoreAssumption DEF Prio
    <2> QED  BY <1>2, <2>2, <2>3
  <1> QED  BY <1>2, <1>3, <1>4 DEF MayCall

(* The steps of the abstract kernel.                                       *)
LEMMA AbstractTick ==
    ASSUME NEW S \in SUBSET Delayed, Delayed' = Delayed \ S,
           UNCHANGED <<Suspended, Pending, Queue, Mail>>
    PROVE  K!Next
PROOF BY DEF K!Next, K!OSTimeTick, Delayed, Suspended, Pending, Queue, Mail

LEMMA AbstractCall ==
    ASSUME NEW t \in App, MayCall(t), Mail[t] = Null,
           \/ Delayed' = Delayed \cup {t} /\ UNCHANGED <<Suspended, Pending, Queue, Mail>>
           \/ \E u \in App : /\ Suspended' = Suspended \cup {u} \/ Suspended' = Suspended \ {u}
                             /\ UNCHANGED <<Delayed, Pending, Queue, Mail>>
           \/ \E m \in Msg, u \in Pending :
                /\ \A v \in Pending : At[u] <= At[v]
                /\ Pending' = Pending \ {u} /\ Mail' = [Mail EXCEPT ![u] = m]
                /\ UNCHANGED <<Delayed, Suspended, Queue>>
           \/ \E m \in Msg : /\ Pending = {} /\ Len(Queue) < QSize /\ Queue' = Append(Queue, m)
                             /\ UNCHANGED <<Delayed, Suspended, Pending, Mail>>
           \/ /\ Queue # <<>> /\ Queue' = Tail(Queue) /\ Mail' = [Mail EXCEPT ![t] = Head(Queue)]
              /\ UNCHANGED <<Delayed, Suspended, Pending>>
           \/ /\ Queue = <<>> /\ Pending' = Pending \cup {t}
              /\ UNCHANGED <<Delayed, Suspended, Queue, Mail>>
    PROVE  K!Next
PROOF
  <1> USE DEF Delayed, Suspended, Pending, Queue, Mail
  <1>1. K!Running(t)
    BY DEF MayCall, K!Running, K!Ready
  <1> QED  BY <1>1 DEF K!Next, K!Call, K!OSTimeDly, K!OSTaskSuspend, K!OSTaskResume, K!OSQPost,
                      K!OSQPend, K!MostUrgent

LEMMA AbstractReturn ==
    ASSUME NEW t \in App, MayCall(t), Mail[t] # Null, Mail' = [Mail EXCEPT ![t] = Null],
           UNCHANGED <<Delayed, Suspended, Pending, Queue>>
    PROVE  K!Next
PROOF BY DEF MayCall, K!Next, K!Running, K!Ready, K!OSQReturn, Delayed, Suspended, Pending, Queue, Mail

LEMMA AbstractStutter ==
    ASSUME UNCHANGED <<Delayed, Suspended, Pending, Queue, Mail>>
    PROVE  UNCHANGED K!kernel
PROOF BY DEF K!kernel, Delayed, Suspended, Pending, Queue, Mail

(* A step that changes the block and the call of one task only.            *)
LEMMA OneTaskMoves ==
    ASSUME KernelInv', RoverInv, Rovers, UNCHANGED <<uses, OSTCBPrioTbl, OSLockNesting>>,
           NEW t \in App, RoverTask(t)', RoverObjects',
           \A u \in Task : u # t => tcb'[u] = tcb[u] /\ call'[u] = call[u]
    PROVE  /\ RoverInv' /\ Mapping' /\ Rovers'
           /\ Delayed' = IF tcb'[t].dly # 0 THEN Delayed \cup {t} ELSE Delayed \ {t}
           /\ Suspended' = IF "SUSPEND" \in tcb'[t].stat THEN Suspended \cup {t} ELSE Suspended \ {t}
           /\ Pending' = IF "Q" \in tcb'[t].stat THEN Pending \cup {t} ELSE Pending \ {t}
           /\ \A u \in App : u # t => Mail'[u] = Mail[u]
           /\ Mail'[t] = IF call'[t].on # {} /\ "Q" \notin tcb'[t].stat THEN tcb'[t].msg
                         ELSE call'[t].pmsg
           /\ Mail' = [Mail EXCEPT ![t] = Mail'[t]]
PROOF
  <1>1. Rovers'
    BY DEF Rovers
  <1>2. RoverInv'
    <2>1. ASSUME NEW u \in Task, u # t
          PROVE  RoverTask(u)'
      <3>1. RoverTask(u) /\ tcb'[u] = tcb[u] /\ call'[u] = call[u] /\ OSTCBPrioTbl' = OSTCBPrioTbl
        BY <2>1 DEF RoverInv
      <3> QED  BY <3>1 DEF RoverTask, Waiting
    <2> QED  BY <2>1 DEF RoverInv
  <1>3. Mapping'
    <2>1. KernelInv /\ RoverInv /\ Rovers => Mapping
      BY Mapped
    <2>2. (KernelInv /\ RoverInv /\ Rovers => Mapping)'
      BY <2>1, Mapped, PTL
    <2> QED  BY <1>1, <1>2, <2>2
  <1>4. App \subseteq Task /\ tcb'[t].dly \in Nat
    BY DEF App, KernelInv, Tables, Shapes, Tcb
  <1>5. Delayed' = IF tcb'[t].dly # 0 THEN Delayed \cup {t} ELSE Delayed \ {t}
    BY <1>1, <1>4 DEF Delayed
  <1>6. Suspended' = IF "SUSPEND" \in tcb'[t].stat THEN Suspended \cup {t} ELSE Suspended \ {t}
    BY <1>1, <1>4 DEF Suspended
  <1>7. Pending' = IF "Q" \in tcb'[t].stat THEN Pending \cup {t} ELSE Pending \ {t}
    BY <1>1, <1>4 DEF Pending
  <1>8. \A u \in App : u # t => Mail'[u] = Mail[u]
    BY <1>1, <1>4 DEF Mail
  <1>9. Mail'[t] = IF call'[t].on # {} /\ "Q" \notin tcb'[t].stat THEN tcb'[t].msg
                   ELSE call'[t].pmsg
    BY <1>1 DEF Mail
  <1>10. Mail = [u \in App |-> Mail[u]] /\ Mail' = [u \in App |-> Mail'[u]]
    BY DEF Mail
  <1> HIDE DEF Mail
  <1>11. Mail' = [Mail EXCEPT ![t] = Mail'[t]]
    BY <1>8, <1>10
  <1> QED  BY <1>1, <1>2, <1>3, <1>5, <1>6, <1>7, <1>8, <1>9, <1>11

(* The task that calls a service has no message to take, and may call.     *)
LEMMA CallerMayCall ==
    ASSUME KernelInv, RoverInv, Rovers, NEW t \in App, Runs(t)
    PROVE  /\ MayCall(t) /\ Mail[t] = Null /\ t \in Task
           /\ tcb[t] \in Tcb /\ tcb[t].stat = {} /\ tcb[t].dly = 0 /\ call[t] = NoCall
           /\ tcb[t].prio = OSPrioCur /\ RoverTask(t)
PROOF
  <1>1. Mapping
    BY Mapped
  <1>2. OSTCBCur = t /\ call[t] = NoCall /\ t \in Task
    BY DEF Runs, App
  <1>3. call[t].on = {} /\ call[t].pmsg = Null
    BY <1>2 DEF NoCall
  <1>4. Mail[t] = Null
    BY <1>1, <1>3 DEF Mapping
  <1>5. tcb[t].stat = {} /\ tcb[t].dly = 0 /\ tcb[t].prio = OSPrioCur
    BY <1>2, RunnerStands DEF Unblocked
  <1>6. tcb[t] \in Tcb /\ RoverTask(t)
    BY <1>2 DEF KernelInv, Tables, Shapes, RoverInv
  <1> QED  BY <1>1, <1>2, <1>4, <1>5, <1>6, RunnerMayCall

(* The queue is the same while its block is.                               *)
LEMMA SameQueue ==
    ASSUME Mapping, Mapping', ecb'[TheQueue].type = ecb[TheQueue].type,
           ecb'[TheQueue].obj = ecb[TheQueue].obj
    PROVE  Queue' = Queue
PROOF
  <1>1. Queue = IF ecb[TheQueue].type = "Q" THEN Held(ecb[TheQueue].obj) ELSE <<>>
    BY DEF Mapping, Type
  <1>2. Queue' = IF ecb'[TheQueue].type = "Q" THEN Held(ecb'[TheQueue].obj) ELSE <<>>
    BY DEF Mapping, Type, TheQueue
  <1> QED  BY <1>1, <1>2

LEMMA SameObjects ==
    ASSUME RoverInv, UNCHANGED ecb
    PROVE  RoverObjects'
PROOF BY DEF RoverInv, RoverObjects, Type, TheQueue

-----------------------------------------------------------------------------
(* Each service does what the abstract one promises.                       *)

LEMMA DelayImplemented ==
    ASSUME KernelInv, KernelInv', RoverInv, Rovers, UNCHANGED uses,
           NEW t \in App, NEW n \in Nat \ {0}, OSTimeDly(t, n)
    PROVE  RoverInv' /\ K!Next
PROOF
  <1>1. /\ Runs(t) /\ tcb' = [tcb EXCEPT ![t].dly = n]
        /\ UNCHANGED <<call, OSTCBPrioTbl, ecb, OSLockNesting>>
    BY DEF OSTimeDly
  <1>2. MayCall(t) /\ Mail[t] = Null /\ t \in Task /\ tcb[t].stat = {} /\ RoverTask(t) /\ call[t] = NoCall
    BY <1>1, CallerMayCall
  <1>3. tcb \in [Task -> Tcb] /\ tcb[t] \in Tcb
    BY <1>2 DEF KernelInv, Tables, Shapes
  <1>4. /\ \A u \in Task : u # t => tcb'[u] = tcb[u] /\ call'[u] = call[u]
        /\ tcb'[t] = [tcb[t] EXCEPT !.dly = n]
    BY <1>1, <1>2, <1>3
  <1>5. /\ tcb'[t].prio = tcb[t].prio /\ tcb'[t].stat = {} /\ tcb'[t].pend = tcb[t].pend
        /\ tcb'[t].dly = n
    BY <1>2, <1>3, <1>4 DEF Tcb
  <1>6. RoverTask(t)'
    BY <1>1, <1>2, <1>5 DEF RoverTask, Waiting, NoCall, TheQueue
  <1>7. /\ RoverInv' /\ Mapping'
        /\ Delayed' = IF tcb'[t].dly # 0 THEN Delayed \cup {t} ELSE Delayed \ {t}
        /\ Suspended' = IF "SUSPEND" \in tcb'[t].stat THEN Suspended \cup {t} ELSE Suspended \ {t}
        /\ Pending' = IF "Q" \in tcb'[t].stat THEN Pending \cup {t} ELSE Pending \ {t}
        /\ Mail'[t] = IF call'[t].on # {} /\ "Q" \notin tcb'[t].stat THEN tcb'[t].msg
                      ELSE call'[t].pmsg
        /\ Mail' = [Mail EXCEPT ![t] = Mail'[t]]
    BY <1>1, <1>4, <1>6, OneTaskMoves, SameObjects
  <1>8. Mapping /\ Queue' = Queue
    BY <1>1, <1>7, Mapped, SameQueue
  <1>9. t \notin Delayed \cup Suspended \cup Pending
    BY <1>2 DEF MayCall
  <1>10. /\ Delayed' = Delayed \cup {t} /\ Suspended' = Suspended /\ Pending' = Pending
         /\ Mail'[t] = Null
    BY <1>1, <1>2, <1>5, <1>7, <1>9 DEF NoCall
  <1>11. Mail' = Mail
    BY <1>2, <1>7, <1>8, <1>10 DEF Mapping
  <1> QED  BY <1>2, <1>7, <1>8, <1>10, <1>11, AbstractCall

LEMMA SuspensionImplemented ==
    ASSUME KernelInv, KernelInv', RoverInv, Rovers, UNCHANGED uses,
           SomeTask, NEW p \in Named, OSTaskSuspend(p) \/ OSTaskResume(p)
    PROVE  RoverInv' /\ K!Next
PROOF
  <1>1. PICK t \in App : Runs(t)
    BY DEF SomeTask
  <1>2. MayCall(t) /\ Mail[t] = Null
    BY <1>1, CallerMayCall
  <1>3. PICK u \in App : u \in Task /\ OSTCBPrioTbl[p] = u
    BY DEF Named, TaskPrio, App
  <1>4. PICK stat \in {tcb[u].stat \cup {"SUSPEND"}, tcb[u].stat \ {"SUSPEND"}} :
            tcb' = [tcb EXCEPT ![u].stat = stat]
    BY <1>3 DEF OSTaskSuspend, OSTaskResume
  <1>5. UNCHANGED <<call, OSTCBPrioTbl, ecb, OSLockNesting>>
    BY DEF OSTaskSuspend, OSTaskResume
  <1>6. tcb \in [Task -> Tcb] /\ tcb[u] \in Tcb /\ RoverTask(u)
    BY <1>3 DEF KernelInv, Tables, Shapes, RoverInv
  <1>7. /\ \A v \in Task : v # u => tcb'[v] = tcb[v] /\ call'[v] = call[v]
        /\ tcb'[u] = [tcb[u] EXCEPT !.stat = stat]
    BY <1>3, <1>4, <1>5, <1>6
  <1>8. /\ tcb'[u].prio = tcb[u].prio /\ tcb'[u].stat = stat /\ tcb'[u].pend = tcb[u].pend
        /\ tcb'[u].dly = tcb[u].dly /\ tcb'[u].msg = tcb[u].msg
    BY <1>6, <1>7 DEF Tcb
  <1>9. /\ stat \cap Kinds = tcb[u].stat \cap Kinds
        /\ "Q" \in stat <=> "Q" \in tcb[u].stat
        /\ "SUSPEND" \in stat => stat = tcb[u].stat \cup {"SUSPEND"}
    BY DEF Kinds
  <1>10. RoverTask(u)'
    BY <1>5, <1>6, <1>8, <1>9 DEF RoverTask, Waiting, TheQueue
  <1>11. /\ RoverInv' /\ Mapping'
         /\ Delayed' = IF tcb'[u].dly # 0 THEN Delayed \cup {u} ELSE Delayed \ {u}
         /\ Suspended' = IF "SUSPEND" \in tcb'[u].stat THEN Suspended \cup {u} ELSE Suspended \ {u}
         /\ Pending' = IF "Q" \in tcb'[u].stat THEN Pending \cup {u} ELSE Pending \ {u}
         /\ Mail'[u] = IF call'[u].on # {} /\ "Q" \notin tcb'[u].stat THEN tcb'[u].msg
                       ELSE call'[u].pmsg
         /\ Mail' = [Mail EXCEPT ![u] = Mail'[u]]
    BY <1>3, <1>5, <1>7, <1>10, OneTaskMoves, SameObjects
  <1>12. Mapping /\ Queue' = Queue
    BY <1>5, <1>11, Mapped, SameQueue
  <1>13. /\ u \in Delayed <=> tcb[u].dly # 0
         /\ u \in Pending <=> "Q" \in tcb[u].stat
         /\ Mail[u] = IF call[u].on # {} /\ "Q" \notin tcb[u].stat THEN tcb[u].msg ELSE call[u].pmsg
    <2>1. /\ u \in Delayed <=> tcb[u].dly # 0
          /\ u \in Pending <=> Waiting(u)
          /\ Mail[u] = IF call[u].on # {} /\ ~ Waiting(u) THEN tcb[u].msg ELSE call[u].pmsg
          /\ tcb[u].stat \subseteq {"SUSPEND", "Q"}
      BY <1>3, <1>12 DEF Mapping
    <2>2. Waiting(u) <=> "Q" \in tcb[u].stat
      BY <2>1 DEF Waiting, Kinds
    <2> QED  BY <2>1, <2>2
  <1>14. Delayed' = Delayed /\ Pending' = Pending
    BY <1>8, <1>9, <1>11, <1>13
  <1>15. Mail'[u] = Mail[u]
    BY <1>5, <1>8, <1>9, <1>11, <1>13
  <1>16. Mail' = Mail
    <2>1. Mail = [v \in App |-> Mail[v]]
      BY <1>12 DEF Mapping
    <2> QED  BY <1>3, <1>11, <1>15, <2>1
  <1>17. Suspended' = Suspended \cup {u} \/ Suspended' = Suspended \ {u}
    BY <1>11
  <1> QED  BY <1>2, <1>3, <1>11, <1>12, <1>14, <1>16, <1>17, AbstractCall

(* A step that changes no block and no call leaves the tasks as they are.  *)
LEMMA NoTaskMoves ==
    ASSUME KernelInv', RoverInv, Rovers, UNCHANGED <<uses, tcb, call, OSTCBPrioTbl, OSLockNesting>>,
           RoverObjects'
    PROVE  RoverInv' /\ Mapping' /\ Rovers' /\ UNCHANGED <<Delayed, Suspended, Pending, Mail>>
PROOF
  <1>1. Rovers'
    BY DEF Rovers
  <1>2. RoverInv'
    <2>1. ASSUME NEW u \in Task
          PROVE  RoverTask(u)'
      BY DEF RoverInv, RoverTask, Waiting, TheQueue
    <2> QED  BY <2>1 DEF RoverInv
  <1>3. Mapping'
    <2>1. (KernelInv /\ RoverInv /\ Rovers => Mapping)'
      BY Mapped, PTL
    <2> QED  BY <1>1, <1>2, <2>1
  <1> QED  BY <1>1, <1>2, <1>3 DEF Delayed, Suspended, Pending, Mail

LEMMA CreationImplemented ==
    ASSUME KernelInv, KernelInv', RoverInv, Rovers, UNCHANGED uses, Created, OSQCreate(TheQueue)
    PROVE  RoverInv' /\ UNCHANGED K!kernel
PROOF
  <1>1. /\ ecb[TheQueue].type = "UNUSED" /\ UNCHANGED <<tcb, call, OSTCBPrioTbl, OSLockNesting>>
        /\ ecb' = [ecb EXCEPT ![TheQueue] = [type |-> "Q", wait |-> {}, obj |-> EmptyRing]]
    BY DEF OSQCreate, EventCreate, Created
  <1>2. ecb \in [Event -> Ecb] /\ TheQueue \in Event
    BY TheQueueExists DEF KernelInv, Tables, Shapes
  <1>3. /\ ecb'[TheQueue].type = "Q" /\ ecb'[TheQueue].obj = EmptyRing
        /\ \A e \in Event : e # TheQueue => ecb'[e] = ecb[e]
    BY <1>1, <1>2
  <1>4. RoverObjects'
    <2>1. \A e \in Event : ecb'[e].type = "UNUSED" \/ (ecb'[e].type = "Q" /\ e = TheQueue)
      BY <1>3 DEF RoverInv, RoverObjects, Type
    <2> QED  BY <1>3, <2>1, EmptyHolds DEF RoverObjects, Type, TheQueue
  <1>5. RoverInv' /\ Mapping' /\ UNCHANGED <<Delayed, Suspended, Pending, Mail>>
    BY <1>1, <1>4, NoTaskMoves
  <1>6. Queue = <<>>
    BY <1>1, Mapped DEF Mapping, Type
  <1>7. Queue' = <<>>
    BY <1>3, <1>5, EmptyHolds DEF Mapping, Type, TheQueue
  <1> QED  BY <1>5, <1>6, <1>7, AbstractStutter

-----------------------------------------------------------------------------
(* The queue.                                                              *)

(* Its list names those that wait in the abstract kernel.                  *)
LEMMA ListIsPending ==
    ASSUME KernelInv, RoverInv, Mapping, Type(TheQueue) = "Q"
    PROVE  /\ ecb[TheQueue].wait \in SUBSET Prio
           /\ \A u \in Pending : u \in Task /\ At[u] \in ecb[TheQueue].wait
           /\ \A p \in ecb[TheQueue].wait : /\ OSTCBPrioTbl[p] \in Pending /\ At[OSTCBPrioTbl[p]] = p
                                            /\ call[OSTCBPrioTbl[p]].on = {TheQueue}
PROOF
  <1>1. TheQueue \in Event /\ ecb[TheQueue].wait \in SUBSET Prio
    BY TheQueueExists, ObjectHolds
  <1>2. ASSUME NEW u \in Pending
        PROVE  u \in Task /\ At[u] \in ecb[TheQueue].wait
    <2>1. u \in App /\ u \in Task /\ Waiting(u)
      BY DEF Mapping, App
    <2>2. RoverTask(u) /\ Stage(u) /\ At[u] \in Prio
      BY <2>1, ServicesAssumption DEF RoverInv, KernelInv, Tables
    <2>3. call[u].on = {TheQueue} /\ OSTCBPrioTbl[At[u]] = u
      BY <2>1, <2>2 DEF RoverTask, Stage
    <2>4. WaitBit(TheQueue, At[u])
      BY <1>1, <2>2 DEF KernelInv, Tables
    <2> QED  BY <2>1, <2>3, <2>4 DEF WaitBit, InList
  <1>3. ASSUME NEW p \in ecb[TheQueue].wait
        PROVE  /\ OSTCBPrioTbl[p] \in Pending /\ At[OSTCBPrioTbl[p]] = p
               /\ call[OSTCBPrioTbl[p]].on = {TheQueue}
    <2> DEFINE u == OSTCBPrioTbl[p]
    <2>1. p \in Prio /\ WaitBit(TheQueue, p)
      BY <1>1 DEF KernelInv, Tables
    <2>2. u \in Task /\ InList(u, TheQueue)
      BY <2>1 DEF WaitBit
    <2>3. RoverTask(u) /\ tcb[u].prio = p
      BY <2>1, <2>2 DEF RoverInv, KernelInv, Tables, PrioMaps
    <2>4. Waiting(u) /\ At[u] = p /\ call[u].on = {TheQueue}
      BY <2>2, <2>3 DEF RoverTask, InList
    <2>5. u # Idle
      BY <2>4 DEF KernelInv, Tables, IdleStays, NoCall
    <2>6. u \in App
      BY <2>2, <2>5 DEF App
    <2> QED  BY <2>4, <2>6 DEF Mapping
  <1> QED  BY <1>1, <1>2, <1>3

LEMMA TheRing ==
    ASSUME KernelInv, RoverInv, Mapping, Type(TheQueue) = "Q"
    PROVE  /\ ecb[TheQueue].obj \in Ring /\ Wraps(ecb[TheQueue].obj)
           /\ Queue = Held(ecb[TheQueue].obj) /\ Contents(Type(TheQueue)) = Ring
           /\ ecb[TheQueue] \in Ecb /\ TheQueue \in Event
PROOF BY TheQueueExists, ObjectHolds DEF RoverInv, RoverObjects, Mapping, KernelInv, Tables, Shapes, Contents

(* A step that changes what the queue holds, and nothing else of it.        *)
LEMMA RingBecomes ==
    ASSUME KernelInv, RoverInv, Mapping, Type(TheQueue) = "Q", NEW r \in Ring, Wraps(r),
           ecb' = [ecb EXCEPT ![TheQueue].obj = r]
    PROVE  /\ RoverObjects' /\ (Mapping' => Queue' = Held(r))
PROOF
  <1>1. ecb[TheQueue] \in Ecb /\ ecb \in [Event -> Ecb] /\ TheQueue \in Event
    BY TheRing DEF KernelInv, Tables, Shapes
  <1>2. ecb'[TheQueue] = [ecb[TheQueue] EXCEPT !.obj = r]
    BY <1>1
  <1>3. /\ ecb'[TheQueue].type = "Q" /\ ecb'[TheQueue].obj = r
        /\ \A e \in Event : ecb'[e].type = ecb[e].type
    BY <1>1, <1>2 DEF Ecb, Type
  <1>4. RoverObjects'
    <2>1. \A e \in Event : ecb'[e].type = "UNUSED" \/ (ecb'[e].type = "Q" /\ e = TheQueue)
      BY <1>3 DEF RoverInv, RoverObjects, Type
    <2> QED  BY <1>3, <2>1 DEF RoverObjects, Type, TheQueue
  <1>5. Mapping' => Queue' = Held(r)
    BY <1>3 DEF Mapping, Type, TheQueue
  <1> QED  BY <1>4, <1>5

LEMMA PendImplemented ==
    ASSUME KernelInv, KernelInv', RoverInv, Rovers, UNCHANGED uses,
           NEW t \in App, OSQPend(t, TheQueue, 0)
    PROVE  RoverInv' /\ K!Next
PROOF
  <1>1. Runs(t) /\ Type(TheQueue) = "Q"
    BY DEF OSQPend, MayPend
  <1>2. /\ MayCall(t) /\ Mail[t] = Null /\ t \in Task
        /\ tcb[t] \in Tcb /\ tcb[t].stat = {} /\ tcb[t].dly = 0 /\ call[t] = NoCall
        /\ tcb[t].prio = OSPrioCur /\ RoverTask(t)
    BY <1>1, CallerMayCall
  <1>3. Mapping
    BY Mapped
  <1> DEFINE r == ecb[TheQueue].obj
  <1>4. r \in Ring /\ Wraps(r) /\ Queue = Held(r) /\ TheQueue \in Event
    BY <1>1, <1>3, TheRing
  <1>5. t \notin Delayed \cup Suspended \cup Pending
    BY <1>2 DEF MayCall
  <1>6. call \in [Task -> Call] /\ call[t].on = {}
    BY <1>2 DEF KernelInv, Tables, Shapes, NoCall
  <1>7. CASE /\ r.entries > 0 /\ Becomes(TheQueue, Got(r))
             /\ call' = [call EXCEPT ![t].pmsg = r.buf[r.out]]
    <2>1. /\ UNCHANGED <<tcb, OSTCBPrioTbl, OSLockNesting>>
          /\ ecb' = [ecb EXCEPT ![TheQueue].obj = Got(r)]
      BY <1>7 DEF Becomes
    <2>2. /\ Held(r) # <<>> /\ Head(Held(r)) = r.buf[r.out] /\ Tail(Held(r)) = Held(Got(r))
          /\ Wraps(Got(r)) /\ Got(r) \in Ring
      <3>1. Got(r) \in Ring
        BY <1>4, <1>7, RingMoves
      <3> QED  BY <1>4, <1>7, <3>1, GotHolds
    <2> HIDE DEF r
    <2>3. RoverObjects' /\ (Mapping' => Queue' = Held(Got(r)))
      BY <1>1, <1>3, <2>1, <2>2, RingBecomes DEF r
    <2>4. /\ \A u \in Task : u # t => tcb'[u] = tcb[u] /\ call'[u] = call[u]
          /\ call'[t] = [call[t] EXCEPT !.pmsg = r.buf[r.out]]
      BY <1>2, <1>6, <1>7, <2>1
    <2>5. call'[t].on = {} /\ call'[t].pmsg = r.buf[r.out]
      BY <1>2, <1>6, <2>4 DEF Call
    <2>6. RoverTask(t)'
      BY <1>2, <2>1, <2>5 DEF RoverTask, Waiting, TheQueue
    <2>7. /\ RoverInv' /\ Mapping'
          /\ Delayed' = IF tcb'[t].dly # 0 THEN Delayed \cup {t} ELSE Delayed \ {t}
          /\ Suspended' = IF "SUSPEND" \in tcb'[t].stat THEN Suspended \cup {t} ELSE Suspended \ {t}
          /\ Pending' = IF "Q" \in tcb'[t].stat THEN Pending \cup {t} ELSE Pending \ {t}
          /\ Mail'[t] = IF call'[t].on # {} /\ "Q" \notin tcb'[t].stat THEN tcb'[t].msg
                        ELSE call'[t].pmsg
          /\ Mail' = [Mail EXCEPT ![t] = Mail'[t]]
      BY <2>1, <2>3, <2>4, <2>6, OneTaskMoves
    <2>8. Delayed' = Delayed /\ Suspended' = Suspended /\ Pending' = Pending
      BY <1>2, <1>5, <2>1, <2>7
    <2>9. Mail' = [Mail EXCEPT ![t] = Head(Queue)] /\ Queue # <<>> /\ Queue' = Tail(Queue)
      BY <1>4, <2>2, <2>3, <2>5, <2>7 DEF r
    <2> QED  BY <1>2, <2>7, <2>8, <2>9, AbstractCall
  <1>8. CASE r.entries = 0 /\ Block(t, TheQueue, 0)
    <2>1. /\ tcb' \in [Task -> Tcb]
          /\ \A u \in Task : /\ tcb'[u].prio = tcb[u].prio
                             /\ u # t => tcb'[u] = tcb[u]
          /\ tcb'[t].stat = {"Q"} /\ tcb'[t].pend = "OK" /\ tcb'[t].event = TheQueue /\ tcb'[t].dly = 0
          /\ \A u \in Task : u # t => call'[u] = call[u]
          /\ call'[t].on = {TheQueue} /\ call'[t].pmsg = Null
          /\ \A f \in Event : ecb'[f].type = ecb[f].type /\ ecb'[f].obj = ecb[f].obj
          /\ UNCHANGED <<OSTCBPrioTbl, OSLockNesting>>
      BY <1>1, <1>4, <1>8, BlockMoves DEF Kinds
    <2>2. RoverObjects'
      BY <1>4, <2>1 DEF RoverInv, RoverObjects, Type, TheQueue
    <2>3. RoverTask(t)'
      BY <1>2, <2>1 DEF RoverTask, Waiting, Kinds, TheQueue
    <2>4. /\ RoverInv' /\ Mapping'
          /\ Delayed' = IF tcb'[t].dly # 0 THEN Delayed \cup {t} ELSE Delayed \ {t}
          /\ Suspended' = IF "SUSPEND" \in tcb'[t].stat THEN Suspended \cup {t} ELSE Suspended \ {t}
          /\ Pending' = IF "Q" \in tcb'[t].stat THEN Pending \cup {t} ELSE Pending \ {t}
          /\ Mail'[t] = IF call'[t].on # {} /\ "Q" \notin tcb'[t].stat THEN tcb'[t].msg
                        ELSE call'[t].pmsg
          /\ Mail' = [Mail EXCEPT ![t] = Mail'[t]]
      BY <2>1, <2>2, <2>3, OneTaskMoves
    <2>5. Queue' = Queue /\ Queue = <<>>
      BY <1>3, <1>4, <1>8, <2>1, <2>4, SameQueue, EmptyHolds
    <2>6. Delayed' = Delayed /\ Suspended' = Suspended /\ Pending' = Pending \cup {t}
      BY <1>5, <2>1, <2>4
    <2>7. Mail' = Mail
      <3>1. Mail'[t] = Mail[t] /\ Mail = [u \in App |-> Mail[u]]
        BY <1>2, <1>3, <2>1, <2>4 DEF Mapping
      <3> QED  BY <2>4, <3>1
    <2> QED  BY <1>2, <2>4, <2>5, <2>6, <2>7, AbstractCall
  <1> QED  BY <1>7, <1>8 DEF OSQPend

(* A post to a queue somebody waits on.                                    *)
LEMMA HandImplemented ==
    ASSUME KernelInv, KernelInv', RoverInv, Rovers, UNCHANGED uses, SomeTask, Type(TheQueue) = "Q",
           NEW m \in Msg, Hand(TheQueue, m, FALSE, TRUE)
    PROVE  RoverInv' /\ K!Next
PROOF
  <1> DEFINE q == TheQueue
             p == Min(ecb[q].wait)
  <1>1. PICK t \in App : Runs(t)
    BY DEF SomeTask
  <1>2. MayCall(t) /\ Mail[t] = Null
    BY <1>1, CallerMayCall
  <1>3. Mapping /\ q \in Event
    BY Mapped, TheQueueExists
  <1>4. /\ ecb[q].wait \in SUBSET Prio /\ ecb[q].wait # {}
        /\ \A u \in Pending : u \in Task /\ At[u] \in ecb[q].wait
        /\ \A i \in ecb[q].wait : /\ OSTCBPrioTbl[i] \in Pending /\ At[OSTCBPrioTbl[i]] = i
                                  /\ call[OSTCBPrioTbl[i]].on = {q}
    BY <1>3, ListIsPending DEF Hand
  <1>5. p \in ecb[q].wait /\ \A i \in ecb[q].wait : p <= i
    BY <1>4, MinOfPrios
  <1>6. EventTaskRdy(q, {p}, "OK", m, Type(q), ecb[q].obj, TRUE)
    BY DEF Hand, NextWaiter
  <1> HIDE DEF p
  <1>7. PICK u \in Pending : u = OSTCBPrioTbl[p] /\ At[u] = p /\ call[u].on = {q}
    BY <1>4, <1>5
  <1>8. u \in App /\ u \in Task /\ RoverTask(u)
    BY <1>3, <1>4, <1>7 DEF Mapping, RoverInv
  <1>9. EndOfWaits(q, {p}, "OK", m, Type(q), ecb[q].obj)
    <2>1. {p} \in SUBSET ecb[q].wait /\ m \in Msg \cup {Null}
      BY <1>5
    <2> QED  BY <1>3, <1>6, <2>1, WokenMoves
  <1>10. TasksAt({p}) = {u}
    BY <1>7 DEF TasksAt
  <1>11. /\ \A v \in Task : v # u => tcb'[v] = tcb[v]
         /\ tcb'[u].prio = tcb[u].prio /\ tcb'[u].dly = 0 /\ tcb'[u].stat = tcb[u].stat \ Kinds
         /\ tcb'[u].pend = "OK" /\ tcb'[u].msg = m
         /\ \A f \in Event : f # q => ecb'[f] = ecb[f]
         /\ ecb'[q].type = ecb[q].type /\ ecb'[q].obj = ecb[q].obj
    BY <1>8, <1>9, <1>10 DEF EndOfWaits, Type
  <1>12. UNCHANGED <<call, OSTCBPrioTbl, OSLockNesting>>
    BY <1>6 DEF EventTaskRdy
  <1>13. RoverObjects'
    BY <1>3, <1>11 DEF RoverInv, RoverObjects, Type, TheQueue
  <1>14. RoverTask(u)'
    BY <1>8, <1>11, <1>12 DEF RoverTask, Waiting, Kinds, TheQueue
  <1>15. /\ RoverInv' /\ Mapping'
         /\ Delayed' = IF tcb'[u].dly # 0 THEN Delayed \cup {u} ELSE Delayed \ {u}
         /\ Suspended' = IF "SUSPEND" \in tcb'[u].stat THEN Suspended \cup {u} ELSE Suspended \ {u}
         /\ Pending' = IF "Q" \in tcb'[u].stat THEN Pending \cup {u} ELSE Pending \ {u}
         /\ Mail'[u] = IF call'[u].on # {} /\ "Q" \notin tcb'[u].stat THEN tcb'[u].msg
                       ELSE call'[u].pmsg
         /\ Mail' = [Mail EXCEPT ![u] = Mail'[u]]
    BY <1>8, <1>11, <1>12, <1>13, <1>14, OneTaskMoves
  <1>16. Queue' = Queue
    BY <1>3, <1>11, <1>15, SameQueue
  <1>17. u \notin Delayed /\ (u \in Suspended <=> "SUSPEND" \in tcb[u].stat)
    <2>1. Waiting(u) /\ (u \in Delayed <=> tcb[u].dly # 0) /\ (u \in Suspended <=> "SUSPEND" \in tcb[u].stat)
      BY <1>3, <1>7, <1>8 DEF Mapping
    <2> QED  BY <1>8, <2>1 DEF RoverTask
  <1>18. Delayed' = Delayed /\ Suspended' = Suspended /\ Pending' = Pending \ {u}
    BY <1>11, <1>15, <1>17 DEF Kinds
  <1>19. Mail' = [Mail EXCEPT ![u] = m]
    BY <1>7, <1>11, <1>12, <1>15 DEF Kinds
  <1>20. \A v \in Pending : At[u] <= At[v]
    BY <1>4, <1>5, <1>7
  <1> QED  BY <1>2, <1>15, <1>16, <1>18, <1>19, <1>20, AbstractCall

LEMMA PostImplemented ==
    ASSUME KernelInv, KernelInv', RoverInv, Rovers, UNCHANGED uses, SomeTask,
           NEW m \in Msg, OSQPost(TheQueue, m)
    PROVE  RoverInv' /\ K!Next
PROOF
  <1>1. Type(TheQueue) = "Q" /\ Mapping
    BY Mapped DEF OSQPost
  <1>2. CASE Hand(TheQueue, m, FALSE, TRUE)
    BY <1>1, <1>2, HandImplemented
  <1>3. CASE /\ Room(TheQueue) /\ Becomes(TheQueue, Put(ecb[TheQueue].obj, m)) /\ UNCHANGED call
    <2> DEFINE r == ecb[TheQueue].obj
    <2>1. PICK t \in App : Runs(t)
      BY DEF SomeTask
    <2>2. MayCall(t) /\ Mail[t] = Null
      BY <2>1, CallerMayCall
    <2>3. r \in Ring /\ Wraps(r) /\ Queue = Held(r)
      BY <1>1, TheRing
    <2>4. r.entries < QSize /\ ecb[TheQueue].wait = {}
      BY <1>3 DEF Room
    <2>5. Put(r, m) \in Ring /\ Held(Put(r, m)) = Append(Held(r), m) /\ Wraps(Put(r, m))
      BY <2>3, <2>4, PutHolds, RingMoves
    <2>6. Len(Held(r)) = r.entries
      BY <2>3, RingHolds
    <2>7. /\ UNCHANGED <<tcb, call, OSTCBPrioTbl, OSLockNesting>>
          /\ ecb' = [ecb EXCEPT ![TheQueue].obj = Put(r, m)]
      BY <1>3 DEF Becomes
    <2> HIDE DEF r
    <2>8. RoverObjects' /\ (Mapping' => Queue' = Held(Put(r, m)))
      BY <1>1, <2>5, <2>7, RingBecomes
    <2>9. RoverInv' /\ Mapping' /\ UNCHANGED <<Delayed, Suspended, Pending, Mail>>
      BY <2>7, <2>8, NoTaskMoves
    <2>10. Pending = {}
      BY <1>1, <2>4, ListIsPending
    <2>11. Len(Queue) < QSize /\ Queue' = Append(Queue, m)
      BY <2>3, <2>4, <2>5, <2>6, <2>8, <2>9
    <2> QED  BY <2>2, <2>9, <2>10, <2>11, AbstractCall
  <1> QED  BY <1>2, <1>3 DEF OSQPost

(* A task that has run on after its wait, or that found a message, takes it. *)
LEMMA ReturnImplemented ==
    ASSUME KernelInv, KernelInv', RoverInv, Rovers, UNCHANGED uses,
           NEW t \in App, PendReturn(t) \/ MessageReturn(t)
    PROVE  RoverInv' /\ K!Next
PROOF
  <1>1. OSTCBCur = t /\ t \in Task /\ UNCHANGED <<OSTCBPrioTbl, OSLockNesting>>
    BY DEF PendReturn, MessageReturn, App
  <1>2. Mapping /\ MayCall(t)
    BY <1>1, Mapped, RunnerMayCall
  <1>3. /\ tcb \in [Task -> Tcb] /\ call \in [Task -> Call] /\ tcb[t] \in Tcb /\ call[t] \in Call
        /\ RoverTask(t) /\ Stage(t) /\ tcb[t].stat = {} /\ tcb[t].dly = 0 /\ ~ Waiting(t)
    BY <1>1, RunnerStands DEF KernelInv, Tables, Shapes, RoverInv, Unblocked, Waiting
  <1>4. Mail[t] = IF call[t].on # {} THEN tcb[t].msg ELSE call[t].pmsg
    BY <1>2, <1>3 DEF Mapping
  <1>5. t \notin Delayed \cup Suspended \cup Pending
    BY <1>2 DEF MayCall
  <1>6. Mail[t] # Null /\ UNCHANGED ecb /\ call' = [call EXCEPT ![t] = NoCall]
        /\ (tcb' = tcb \/ tcb' = [tcb EXCEPT ![t] = [@ EXCEPT !.stat = {}, !.pend = "OK", !.event = Null,
                                                              !.multi = {}, !.msg = Null]])
    <2>1. CASE PendReturn(t)
      <3>1. call[t].on # {} /\ ~ call[t].multi /\ tcb[t].pend = "OK"
        BY <1>3, <2>1 DEF PendReturn, RoverTask, Call
      <3>2. tcb[t].msg \in Msg
        BY <1>3, <3>1 DEF RoverTask
      <3>3. Mail[t] # Null
        BY <1>4, <3>1, <3>2, NamesAssumption DEF Null
      <3> QED  BY <2>1, <3>1, <3>3 DEF PendReturn
    <2>2. CASE MessageReturn(t)
      <3>1. call[t].pmsg # Null
        BY <2>2 DEF MessageReturn
      <3>2. call[t].on = {}
        BY <1>3, <3>1, TheQueueExists DEF Stage, RoverTask
      <3> QED  BY <1>4, <2>2, <3>1, <3>2 DEF MessageReturn
    <2> QED  BY <2>1, <2>2
  <1>7. /\ \A u \in Task : u # t => tcb'[u] = tcb[u] /\ call'[u] = call[u]
        /\ call'[t] = NoCall
        /\ tcb'[t].prio = tcb[t].prio /\ tcb'[t].stat = {} /\ tcb'[t].pend = "OK" /\ tcb'[t].dly = 0
    <2>1. \A u \in Task : u # t => tcb'[u] = tcb[u] /\ call'[u] = call[u]
      BY <1>1, <1>3, <1>6
    <2>2. call'[t] = NoCall
      BY <1>1, <1>3, <1>6
    <2>3. \/ tcb'[t] = tcb[t]
          \/ tcb'[t] = [tcb[t] EXCEPT !.stat = {}, !.pend = "OK", !.event = Null,
                                      !.multi = {}, !.msg = Null]
      BY <1>1, <1>3, <1>6
    <2>4. /\ tcb'[t].prio = tcb[t].prio /\ tcb'[t].stat = {} /\ tcb'[t].dly = 0
          /\ tcb'[t].pend = "OK"
      BY <1>3, <2>3 DEF Tcb, RoverTask
    <2> QED  BY <2>1, <2>2, <2>4
  <1>8. RoverObjects'
    BY <1>6, SameObjects
  <1>9. RoverTask(t)'
    BY <1>1, <1>3, <1>7 DEF RoverTask, Waiting, NoCall, TheQueue
  <1>10. /\ RoverInv' /\ Mapping'
         /\ Delayed' = IF tcb'[t].dly # 0 THEN Delayed \cup {t} ELSE Delayed \ {t}
         /\ Suspended' = IF "SUSPEND" \in tcb'[t].stat THEN Suspended \cup {t} ELSE Suspended \ {t}
         /\ Pending' = IF "Q" \in tcb'[t].stat THEN Pending \cup {t} ELSE Pending \ {t}
         /\ Mail'[t] = IF call'[t].on # {} /\ "Q" \notin tcb'[t].stat THEN tcb'[t].msg
                       ELSE call'[t].pmsg
         /\ Mail' = [Mail EXCEPT ![t] = Mail'[t]]
    BY <1>1, <1>7, <1>8, <1>9, OneTaskMoves
  <1>11. Queue' = Queue
    BY <1>2, <1>6, <1>10, SameQueue
  <1>12. Delayed' = Delayed /\ Suspended' = Suspended /\ Pending' = Pending
    BY <1>5, <1>7, <1>10
  <1>13. Mail' = [Mail EXCEPT ![t] = Null]
    BY <1>7, <1>10 DEF NoCall
  <1> QED  BY <1>2, <1>6, <1>10, <1>11, <1>12, <1>13, AbstractReturn

LEMMA TickImplemented ==
    ASSUME KernelInv, KernelInv', RoverInv, Rovers, UNCHANGED uses, OSTimeTick
    PROVE  RoverInv' /\ K!Next
PROOF
  <1> DEFINE over == {t \in Task : tcb[t].dly = 1}
  <1>1. /\ tcb' = [t \in Task |-> CASE tcb[t].dly = 0 -> tcb[t]
                                    [] t \in over -> DelayOver(tcb[t])
                                    [] OTHER -> [tcb[t] EXCEPT !.dly = @ - 1]]
        /\ UNCHANGED <<call, OSTCBPrioTbl, ecb, OSLockNesting>>
    BY DEF OSTimeTick
  <1>2. ASSUME NEW t \in Task
        PROVE  /\ tcb'[t].prio = tcb[t].prio /\ tcb'[t].stat = tcb[t].stat
               /\ tcb'[t].pend = "OK" /\ tcb'[t].msg = tcb[t].msg
               /\ tcb'[t].dly = IF tcb[t].dly = 0 THEN 0 ELSE tcb[t].dly - 1
               /\ RoverTask(t) /\ tcb[t].dly \in Nat
    <2>1. /\ tcb[t] \in Tcb /\ RoverTask(t) /\ tcb[t].dly \in Nat /\ tcb[t].pend = "OK"
          /\ tcb[t].stat \subseteq Kinds \cup {"SUSPEND"}
      BY DEF KernelInv, Tables, Shapes, RoverInv, RoverTask, Tcb
    <2>2. CASE tcb[t].dly = 0
      <3>1. tcb'[t] = tcb[t]
        BY <1>1, <2>2
      <3> QED  BY <2>1, <2>2, <3>1
    <2>3. CASE tcb[t].dly = 1
      <3>1. ~ Waiting(t)
        BY <2>1, <2>3 DEF RoverTask
      <3>2. tcb[t].stat \cap PendAny = {} /\ tcb[t].stat \ PendAny = tcb[t].stat
        BY <2>1, <3>1 DEF Waiting, Kinds, PendAny
      <3>3. tcb'[t] = DelayOver(tcb[t])
        BY <1>1, <2>3
      <3>4. tcb'[t] = [tcb[t] EXCEPT !.dly = 0, !.stat = tcb[t].stat, !.pend = "OK"]
        BY <3>2, <3>3 DEF DelayOver
      <3> QED  BY <2>1, <2>3, <3>4 DEF Tcb
    <2>4. CASE tcb[t].dly # 0 /\ tcb[t].dly # 1
      <3>1. tcb'[t] = [tcb[t] EXCEPT !.dly = @ - 1]
        BY <1>1, <2>4
      <3> QED  BY <2>1, <2>4, <3>1 DEF Tcb
    <2> QED  BY <2>2, <2>3, <2>4
  <1> HIDE DEF over
  <1>3. Mapping /\ Rovers'
    BY Mapped DEF Rovers
  <1>4. RoverObjects'
    BY <1>1, SameObjects
  <1>5. ASSUME NEW t \in Task
        PROVE  RoverTask(t)'
    BY <1>1, <1>2 DEF RoverTask, Waiting, TheQueue
  <1>6. RoverInv'
    BY <1>1, <1>4, <1>5 DEF RoverInv
  <1>7. Mapping'
    <2>1. (KernelInv /\ RoverInv /\ Rovers => Mapping)'
      BY Mapped, PTL
    <2> QED  BY <1>3, <1>6, <2>1
  <1>8. Queue' = Queue
    BY <1>1, <1>3, <1>7, SameQueue
  <1>9. App \subseteq Task
    BY DEF App
  <1>10. Suspended' = Suspended /\ Pending' = Pending
    BY <1>2, <1>3, <1>9 DEF Suspended, Pending
  <1>11. Mail' = Mail
    BY <1>1, <1>2, <1>3, <1>9 DEF Mail
  <1> DEFINE S == {t \in App : tcb[t].dly = 1}
  <1>12. S \in SUBSET Delayed /\ Delayed' = Delayed \ S
    <2>1. \A t \in App : /\ tcb[t].dly \in Nat
                         /\ tcb'[t].dly = IF tcb[t].dly = 0 THEN 0 ELSE tcb[t].dly - 1
      BY <1>2, <1>9
    <2>2. \A t \in App : t \in Delayed <=> tcb[t].dly > 0
      BY DEF Delayed
    <2>3. \A t \in App : t \in Delayed' <=> tcb'[t].dly > 0
      BY <1>3 DEF Delayed
    <2>4. Delayed \subseteq App /\ Delayed' \subseteq App
      BY DEF Delayed
    <2>5. \A t \in App : t \in S => t \in Delayed
      BY <2>1, <2>2
    <2>6. \A t \in App : t \in Delayed' <=> t \in Delayed /\ t \notin S
      BY <2>1, <2>2, <2>3
    <2> HIDE DEF S
    <2>7. S \subseteq App
      BY DEF S
    <2> QED  BY <2>4, <2>5, <2>6, <2>7
  <1> HIDE DEF S
  <1> QED  BY <1>6, <1>8, <1>10, <1>11, <1>12, AbstractTick

-----------------------------------------------------------------------------
(* The refinement.                                                         *)

LEMMA RoverStarts ==
    ASSUME Init
    PROVE  RoverInv /\ K!Init
PROOF
  <1>1. KernelInv
    BY KernelStarts
  <1>2. /\ tcb = [t \in Task |-> NewTcb(At[t])] /\ call = [t \in Task |-> NoCall]
        /\ ecb = [e \in Event |-> Unused] /\ OSLockNesting = 0
    BY DEF Init, CoreInit, OS_InitEventList
  <1>3. \A e \in Event : Type(e) = "UNUSED"
    BY <1>2 DEF Type, Unused
  <1>4. \A t \in Task : /\ tcb[t].prio = At[t] /\ tcb[t].stat = {} /\ tcb[t].pend = "OK" /\ tcb[t].dly = 0
                        /\ call[t].on = {} /\ call[t].pmsg = Null
    BY <1>2 DEF NewTcb, NoCall
  <1>5. ASSUME NEW t \in Task
        PROVE  OSTCBPrioTbl[At[t]] = t
    <2>1. OSTCBPrioTbl = [p \in Prio |-> IF {u \in Task : At[u] = p} = {} THEN "free"
                                         ELSE CHOOSE u \in {v \in Task : At[v] = p} : TRUE]
      BY DEF Init, CoreInit
    <2>2. {u \in Task : At[u] = At[t]} = {t}
      BY ServicesAssumption
    <2>3. At[t] \in Prio
      BY ServicesAssumption
    <2> QED  BY <2>1, <2>2, <2>3
  <1>6. ASSUME NEW t \in Task
        PROVE  RoverTask(t)
    BY <1>4, <1>5 DEF RoverTask, Waiting
  <1>7. RoverInv
    BY <1>2, <1>3, <1>6, TheQueueExists DEF RoverInv, RoverObjects
  <1>8. Delayed = {} /\ Suspended = {} /\ Pending = {}
    BY <1>4 DEF Delayed, Suspended, Pending, App
  <1>9. Queue = <<>>
    BY <1>3 DEF Queue, QueueOf
  <1>10. Mail = [t \in App |-> Null]
    BY <1>4 DEF Mail, App
  <1>11. K!Init
    BY <1>8, <1>9, <1>10 DEF K!Init, Delayed, Suspended, Pending, Queue, Mail
  <1> QED  BY <1>7, <1>11

LEMMA RoverSteps ==
    ASSUME KernelInv, KernelInv', RoverInv, Rovers, Next
    PROVE  RoverInv' /\ [K!Next]_K!kernel
PROOF
  <1>1. /\ uses = {"SUSPEND", "Q"} /\ UNCHANGED uses
        /\ Objects = {TheQueue} /\ Timeouts = {0} /\ (TaskOrIsr <=> SomeTask)
    BY DEF Rovers, Next, Objects, TheQueue, Timeouts, TaskOrIsr
  <1>2. Tick \/ Returns \/ Delays \/ Suspension \/ Queues
    <2>1. ~ FlagReturns
      <3> SUFFICES ASSUME FlagReturns
                   PROVE  FALSE
        OBVIOUS
      <3>1. PICK t \in Task : call[t].on \cap Group # {}
        BY DEF FlagReturns, OSFlagPendReturn, App
      <3>2. call[t] \in Call
        BY DEF KernelInv, Tables, Shapes
      <3>3. call[t].on \in {{}} \cup {{e} : e \in Event}
        BY <3>2 DEF Call
      <3> QED  BY <3>1, <3>3, FlagAssumption
    <2> QED  BY <1>1, <2>1 DEF Next, Locking, Lives, Priorities, Semaphores, Mailboxes, Several,
                               Mutexes, Flags
  <1>3. CASE Tick
    BY <1>1, <1>3, TickImplemented DEF Tick
  <1>4. CASE Returns
    BY <1>1, <1>4, ReturnImplemented DEF Returns
  <1>5. CASE Delays
    <2>1. PICK t \in App, n \in 1 .. MaxTicks : OSTimeDly(t, n)
      BY <1>1, <1>5 DEF Delays
    <2>2. n \in Nat \ {0}
      OBVIOUS
    <2> QED  BY <1>1, <2>1, <2>2, DelayImplemented
  <1>6. CASE Suspension
    BY <1>1, <1>6, SuspensionImplemented DEF Suspension
  <1>7. CASE Queues
    <2>1. \/ SomeTask /\ Created /\ OSQCreate(TheQueue)
          \/ \E t \in App : OSQPend(t, TheQueue, 0)
          \/ \E m \in Msg : SomeTask /\ OSQPost(TheQueue, m)
      BY <1>1, <1>7 DEF Queues
    <2> QED  BY <1>1, <2>1, CreationImplemented, PendImplemented, PostImplemented
  <1> QED  BY <1>2, <1>3, <1>4, <1>5, <1>6, <1>7

(* The kernel, with its tables, rings, control blocks and scheduler,        *)
(* implements for the rover's use of it what Ucos promises, for any tasks   *)
(* and priorities, any messages and any length of the queue: every tick,    *)
(* delay, suspension, resumption, post, pend and return is a step of the    *)
(* abstract kernel (os_core.c 851-919, 1610-1677, os_q.c 388-465, 571-608,  *)
(* os_task.c 790-834, 941-991, os_time.c 44-67).                            *)
THEOREM KernelImplemented == Spec => KernelSpec
PROOF
  <1> DEFINE RInv == Rovers => KernelInv /\ RoverInv
  <1>1. Init => RInv /\ K!Init
    BY KernelStarts, RoverStarts
  <1>2. RInv /\ [Next]_vars => RInv' /\ [K!Next]_K!kernel
    <2> SUFFICES ASSUME RInv, [Next]_vars
                 PROVE  RInv' /\ [K!Next]_K!kernel
      OBVIOUS
    <2>1. uses' = uses
      BY DEF Next, vars
    <2>2. CASE ~ Rovers
      <3>1. ~ Rovers'
        BY <2>1, <2>2 DEF Rovers
      <3>2. UNCHANGED <<Delayed, Suspended, Pending, Queue, Mail>>
        BY <2>2, <3>1 DEF Delayed, Suspended, Pending, Queue, Mail
      <3> QED  BY <3>1, <3>2, AbstractStutter
    <2>3. CASE Rovers
      <3>1. KernelInv /\ RoverInv /\ Ordinary
        BY <2>3 DEF Rovers, Ordinary
      <3>2. KernelInv'
        BY <3>1, KernelSteps
      <3>3. CASE Next
        BY <2>3, <3>1, <3>2, <3>3, RoverSteps
      <3>4. CASE UNCHANGED vars
        <4>1. UNCHANGED <<tcb, call, OSTCBPrioTbl, ecb, OSLockNesting, uses>>
          BY <3>4 DEF vars, core
        <4>2. RoverObjects'
          BY <3>1, <4>1, SameObjects
        <4>3. RoverInv' /\ Mapping' /\ UNCHANGED <<Delayed, Suspended, Pending, Mail>>
          BY <2>3, <3>1, <3>2, <4>1, <4>2, NoTaskMoves
        <4>4. Queue' = Queue
          BY <2>3, <3>1, <4>1, <4>3, Mapped, SameQueue
        <4> QED  BY <3>2, <4>3, <4>4, AbstractStutter
      <3> QED  BY <3>3, <3>4
    <2> QED  BY <2>2, <2>3
  <1> QED  BY <1>1, <1>2, PTL DEF Spec, KernelSpec, K!Spec

-----------------------------------------------------------------------------
(* A mutex and the priority it lends.                                      *)

(* An application with one object at a time, which may be a mutex, and      *)
(* whose tasks are not suspended, moved, created or deleted.  It delays,    *)
(* locks the scheduler, waits with timeouts and for flags, and makes,       *)
(* deletes and makes again its object, as a mutex or as anything else.     *)
LoneMutex == uses \cap {"TWO", "MULTI", "SUSPEND", "PRIO", "LIFE"} = {}

TheObject == CHOOSE e \in Event : TRUE

(* The priorities the tasks were created with. *)
Homes == {At[t] : t \in Task}
AppHomes == {At[t] : t \in App}

PendStatus == {"OK", "TO", "ABORT"}
MsgOrNull == Msg \cup {Null}

WaiterTcb == [prio : Prio, stat : SUBSET PendAny, pend : {"OK", "TO", "ABORT"}, dly : Nat,
              event : Event \cup {Null}, multi : {{}}, msg : Msg \cup {Null}]

MutexRecord == [pip : Prio, prio : Prio \cup {Available}, owner : App \cup {Null}]

CallWith(m) == [on : SUBSET (Event \cup Group), multi : {FALSE}, pmsg : {m}]

NotForEvent(t) == call[t].on = {} \/ call[t].on \cap Group # {}

(* What the control blocks look like; a task outside a wait for an event    *)
(* names none.                                                             *)
LoneForms ==
    /\ tcb \in [Task -> WaiterTcb]
    /\ call = [t \in Task |-> call[t]] /\ \A t \in Task : call[t] \in CallWith(call[t].pmsg)
    /\ ecb = [e \in Event |-> [type |-> ecb[e].type, wait |-> ecb[e].wait, obj |-> ecb[e].obj]]
    /\ OSTCBPrioTbl \in [Prio -> Task \cup {"free", "reserved"}]
    /\ \A t \in Task : /\ call[t].pmsg # Null => call[t].on = {}
                       /\ NotForEvent(t) => tcb[t].event = Null
    /\ \A e \in Event \ {TheObject} : Type(e) = "UNUSED"
    /\ ecb[TheObject].wait \subseteq AppHomes

AtPip(t) == Owned(TheObject) /\ Owner(TheObject) = t /\ tcb[t].prio = Pip(TheObject)

(* A task is at home or, owning the mutex, at its priority, where it is     *)
(* found; at home every task is found whatever it does.                    *)
HomesKept ==
    /\ \A t \in Task : /\ OSTCBPrioTbl[At[t]] = t
                       /\ tcb[t].prio = At[t] \/ AtPip(t)
    /\ \A p \in Prio \ Homes :
          OSTCBPrioTbl[p] = IF ~ (Type(TheObject) = "MUTEX" /\ p = Pip(TheObject)) THEN "free"
                            ELSE IF AtPip(Owner(TheObject)) THEN Owner(TheObject)
                            ELSE "reserved"

(* What a mutex records.  An owner whose control block still names the      *)
(* event was only just woken: it is ready, so that raising it moves no      *)
(* wait list.                                                              *)
MutexKept(e) ==
    /\ ecb[e].obj \in MutexRecord /\ Pip(e) \notin Homes
    /\ ~ Owned(e) => Owner(e) = Null /\ ecb[e].wait = {}
    /\ Owned(e) =>
          /\ Owner(e) \in App /\ ecb[e].obj.prio = At[Owner(e)]
          /\ At[Owner(e)] \notin ecb[e].wait
          /\ tcb[Owner(e)].event = Null \/ tcb[Owner(e)].prio \in OSRdyTbl
          /\ (\E p \in ecb[e].wait : p < ecb[e].obj.prio) => tcb[Owner(e)].prio <= Pip(e)

MutexInv == LoneForms /\ HomesKept /\ (Type(TheObject) = "MUTEX" => MutexKept(TheObject))

LEMMA TheObjectExists == TheObject \in Event
PROOF BY ServicesAssumption DEF TheObject

LEMMA LoneObject == LoneMutex => Objects = {TheObject}
PROOF BY DEF LoneMutex, Objects, TheObject

LEMMA HomesAreApart ==
    /\ \A t \in Task : At[t] \in Prio /\ At[t] \in Homes
    /\ \A t, u \in Task : At[t] = At[u] => t = u
    /\ App \subseteq Task /\ AppHomes \subseteq Homes /\ Homes \subseteq Prio /\ Prio \subseteq Nat
    /\ \A t \in App : At[t] \in AppHomes
    /\ \A p \in AppHomes : \E t \in App : p = At[t]
    /\ Available \notin Prio
PROOF
  <1>1. Prio \subseteq Nat /\ Available \notin Prio
    BY CoreAssumption, MutexAssumption DEF Prio, Available
  <1> QED  BY <1>1, ServicesAssumption DEF Homes, AppHomes, App

(* No two tasks are at the same priority, and only an owner is not at home. *)
LEMMA PriosApart ==
    ASSUME MutexInv
    PROVE  /\ \A t \in Task : tcb[t].prio \in Prio
           /\ \A t, u \in Task : tcb[t].prio = tcb[u].prio => t = u
           /\ \A t \in Task : (Owned(TheObject) /\ Owner(TheObject) = t) \/ tcb[t].prio = At[t]
           /\ \A p \in AppHomes : OSTCBPrioTbl[p] \in App /\ p = At[OSTCBPrioTbl[p]]
PROOF
  <1>1. \A t \in Task : tcb[t].prio \in Prio
    BY DEF MutexInv, LoneForms, WaiterTcb
  <1>2. \A t \in Task : AtPip(t) => tcb[t].prio \notin Homes
    BY DEF MutexInv, MutexKept, AtPip, Owned
  <1>3. \A t, u \in Task : AtPip(t) /\ AtPip(u) => t = u
    BY DEF AtPip
  <1>4. \A t \in Task : (tcb[t].prio = At[t] \/ AtPip(t)) /\ OSTCBPrioTbl[At[t]] = t
    BY DEF MutexInv, HomesKept
  <1> QED  BY <1>1, <1>2, <1>3, <1>4, HomesAreApart DEF AtPip

(* A step under which nobody moves and no owner is put to sleep.            *)
LEMMA LoneFrame ==
    ASSUME MutexInv, LoneForms', UNCHANGED OSTCBPrioTbl,
           \A t \in Task : tcb'[t].prio = tcb[t].prio,
           \/ Type(TheObject) # "MUTEX" /\ ecb'[TheObject].type # "MUTEX"
           \/ /\ ecb'[TheObject].type = "MUTEX" /\ Type(TheObject) = "MUTEX"
              /\ ecb'[TheObject].obj = ecb[TheObject].obj
              /\ ecb'[TheObject].wait \subseteq ecb[TheObject].wait
              /\ Owned(TheObject) =>
                    \/ tcb'[Owner(TheObject)].event = Null
                    \/ tcb[Owner(TheObject)].prio \in OSRdyTbl'
    PROVE  MutexInv'
PROOF
  <1> DEFINE e == TheObject
  <1>1. CASE Type(e) # "MUTEX" /\ ecb'[e].type # "MUTEX"
    <2>1. \A t \in Task : ~ AtPip(t) /\ ~ AtPip(t)'
      BY <1>1 DEF AtPip, Owned, Type
    <2>2. HomesKept'
      BY <1>1, <2>1 DEF MutexInv, HomesKept, Type
    <2> QED  BY <1>1, <2>2 DEF MutexInv, Type
  <1>2. CASE ~ (Type(e) # "MUTEX" /\ ecb'[e].type # "MUTEX")
    <2>1. /\ Type(e) = "MUTEX" /\ Type(e)' = "MUTEX" /\ ecb'[e].obj = ecb[e].obj
          /\ ecb'[e].wait \subseteq ecb[e].wait
          /\ (Owned(e)' <=> Owned(e)) /\ Owner(e)' = Owner(e) /\ Pip(e)' = Pip(e)
          /\ MutexKept(e)
      BY <1>2 DEF Type, Owned, Owner, Pip, MutexInv
    <2>2. Owned(e) => Owner(e) \in Task
      BY <2>1, HomesAreApart DEF MutexKept
    <2>3. \A t \in Task : AtPip(t)' <=> AtPip(t)
      BY <2>1 DEF AtPip
    <2>4. AtPip(Owner(e))' <=> AtPip(Owner(e))
      BY <2>1, <2>2 DEF AtPip
    <2>5. HomesKept'
      BY <2>1, <2>3, <2>4 DEF MutexInv, HomesKept
    <2>6. MutexKept(e)'
      BY <2>1, <2>2 DEF MutexKept
    <2> QED  BY <2>5, <2>6 DEF MutexInv
  <1> QED  BY <1>1, <1>2

-----------------------------------------------------------------------------
(* Steps that leave the object and everybody's priority alone.             *)

(* Only control blocks change, in nothing but status, delay and message.    *)
LEMMA LoneTcbs ==
    ASSUME MutexInv, tcb' \in [Task -> WaiterTcb],
           \A t \in Task : tcb'[t].prio = tcb[t].prio /\ tcb'[t].event = tcb[t].event,
           UNCHANGED <<OSTCBPrioTbl, ecb>>,
           \/ UNCHANGED call
           \/ \E t \in Task : /\ NotForEvent(t)
                              /\ \/ call' = [call EXCEPT ![t] = NoCall]
                                 \/ /\ call[t] = NoCall
                                    /\ \E g \in Group : call' = [call EXCEPT ![t].on = {g}],
           \A t \in Task : tcb[t].event # Null /\ tcb[t].prio \in OSRdyTbl
                              => tcb[t].prio \in OSRdyTbl'
    PROVE  MutexInv'
PROOF
  <1>1. LoneForms
    BY DEF MutexInv
  <1>2. /\ call' = [t \in Task |-> call'[t]]
        /\ \A t \in Task : /\ call'[t] \in CallWith(call'[t].pmsg)
                           /\ call'[t].pmsg # Null => call'[t].on = {}
                           /\ NotForEvent(t)' => tcb[t].event = Null
    <2>1. CASE UNCHANGED call
      BY <1>1, <2>1 DEF LoneForms, NotForEvent
    <2>2. CASE ~ UNCHANGED call
      <3>1. PICK t \in Task : /\ NotForEvent(t)
                              /\ \/ call' = [call EXCEPT ![t] = NoCall]
                                 \/ /\ call[t] = NoCall
                                    /\ \E g \in Group : call' = [call EXCEPT ![t].on = {g}]
        BY <2>2
      <3>2. tcb[t].event = Null
        BY <1>1, <3>1 DEF LoneForms
      <3>3. PICK c : /\ call' = [call EXCEPT ![t] = c]
                     /\ c \in CallWith(Null) /\ c.pmsg = Null
        <4>1. CASE call' = [call EXCEPT ![t] = NoCall]
          <5>1. NoCall \in CallWith(Null) /\ NoCall.pmsg = Null
            BY DEF NoCall, CallWith
          <5> QED  BY <4>1, <5>1
        <4>2. CASE call[t] = NoCall /\ \E g \in Group : call' = [call EXCEPT ![t].on = {g}]
          <5>1. PICK g \in Group : call' = [call EXCEPT ![t].on = {g}]
            BY <4>2
          <5>2. call' = [call EXCEPT ![t] = [NoCall EXCEPT !.on = {g}]]
            <6>1. call' = [call EXCEPT ![t] = [call[t] EXCEPT !.on = {g}]]
              BY <5>1
            <6>2. call[t] = NoCall
              BY <4>2
            <6> QED  BY <6>1, <6>2, Zenon
          <5>3. [NoCall EXCEPT !.on = {g}] \in CallWith(Null) /\ [NoCall EXCEPT !.on = {g}].pmsg = Null
            BY DEF NoCall, CallWith
          <5> QED  BY <5>2, <5>3
        <4> QED  BY <3>1, <4>1, <4>2
      <3> QED  BY <1>1, <3>1, <3>2, <3>3 DEF LoneForms, NotForEvent
    <2> QED  BY <2>1, <2>2
  <1>3. LoneForms'
    BY <1>1, <1>2 DEF LoneForms, Type
  <1>4. Owned(TheObject) => Owner(TheObject) \in Task
    BY HomesAreApart DEF MutexInv, MutexKept, Owned
  <1>5. Type(TheObject) = "MUTEX" /\ Owned(TheObject) =>
            \/ tcb'[Owner(TheObject)].event = Null
            \/ tcb[Owner(TheObject)].prio \in OSRdyTbl'
    BY <1>4 DEF MutexInv, MutexKept
  <1> QED  BY <1>3, <1>5, LoneFrame DEF Type

(* The end of a delay leaves a control block one.                           *)
LEMMA DelayOverForms ==
    ASSUME NEW b \in WaiterTcb
    PROVE  /\ DelayOver(b) \in WaiterTcb
           /\ DelayOver(b).prio = b.prio /\ DelayOver(b).event = b.event
           /\ \A n \in Nat : /\ [b EXCEPT !.dly = n] \in WaiterTcb
                             /\ [b EXCEPT !.dly = n].prio = b.prio
                             /\ [b EXCEPT !.dly = n].event = b.event
PROOF
  <1> DEFINE p == IF b.stat \cap PendAny # {} THEN "TO" ELSE "OK"
  <1>1. p \in {"OK", "TO", "ABORT"}
    OBVIOUS
  <1>2. DelayOver(b) = [b EXCEPT !.dly = 0, !.stat = b.stat \ PendAny, !.pend = p]
    BY DEF DelayOver
  <1> HIDE DEF p
  <1>3. b.stat \ PendAny \in SUBSET PendAny
    BY DEF WaiterTcb
  <1>4. DelayOver(b) = [prio |-> b.prio, stat |-> b.stat \ PendAny, pend |-> p, dly |-> 0,
                        event |-> b.event, multi |-> b.multi, msg |-> b.msg]
    BY <1>2 DEF WaiterTcb
  <1>5. DelayOver(b) \in WaiterTcb /\ DelayOver(b).prio = b.prio /\ DelayOver(b).event = b.event
    BY <1>1, <1>3, <1>4 DEF WaiterTcb
  <1>6. \A n \in Nat : /\ [b EXCEPT !.dly = n] \in WaiterTcb
                       /\ [b EXCEPT !.dly = n].prio = b.prio
                       /\ [b EXCEPT !.dly = n].event = b.event
    BY DEF WaiterTcb
  <1> QED  BY <1>5, <1>6

LEMMA LoneTick ==
    ASSUME MutexInv, OSTimeTick
    PROVE  MutexInv'
PROOF
  <1>1. tcb \in [Task -> WaiterTcb]
    BY DEF MutexInv, LoneForms
  <1>2. ASSUME NEW t \in Task
        PROVE  tcb'[t] \in WaiterTcb /\ tcb'[t].prio = tcb[t].prio /\ tcb'[t].event = tcb[t].event
    <2>1. tcb[t] \in WaiterTcb /\ tcb[t].dly \in Nat
      BY <1>1 DEF WaiterTcb
    <2>2. \/ tcb'[t] = tcb[t]
          \/ tcb'[t] = DelayOver(tcb[t])
          \/ tcb[t].dly # 0 /\ tcb'[t] = [tcb[t] EXCEPT !.dly = tcb[t].dly - 1]
      BY DEF OSTimeTick
    <2>3. PICK b, n : b = tcb[t] /\ n = tcb[t].dly - 1
      OBVIOUS
    <2>4. /\ DelayOver(b) \in WaiterTcb
          /\ DelayOver(b).prio = b.prio /\ DelayOver(b).event = b.event
          /\ n \in Nat => /\ [b EXCEPT !.dly = n] \in WaiterTcb
                         /\ [b EXCEPT !.dly = n].prio = b.prio
                         /\ [b EXCEPT !.dly = n].event = b.event
      BY <2>1, <2>3, DelayOverForms
    <2>5. tcb[t].dly # 0 => n \in Nat
      BY <2>1, <2>3
    <2>6. CASE tcb'[t] = tcb[t]
      BY <2>1, <2>6
    <2>7. CASE tcb'[t] = DelayOver(tcb[t])
      BY <2>3, <2>4, <2>7
    <2>8. CASE tcb[t].dly # 0 /\ tcb'[t] = [tcb[t] EXCEPT !.dly = tcb[t].dly - 1]
      BY <2>3, <2>4, <2>5, <2>8
    <2> QED  BY <2>2, <2>6, <2>7, <2>8
  <1>3. tcb' \in [Task -> WaiterTcb]
    <2>1. tcb' = [t \in Task |-> tcb'[t]]
      BY DEF OSTimeTick
    <2> QED  BY <1>2, <2>1
  <1>4. OSRdyTbl \subseteq OSRdyTbl'
    BY DEF OSTimeTick
  <1>5. UNCHANGED <<OSTCBPrioTbl, ecb, call>>
    BY DEF OSTimeTick
  <1> QED  BY <1>2, <1>3, <1>4, <1>5, LoneTcbs

LEMMA LoneDelays ==
    ASSUME MutexInv, Delays
    PROVE  MutexInv'
PROOF
  <1>0. LoneForms /\ tcb \in [Task -> WaiterTcb]
    BY DEF MutexInv, LoneForms
  <1>1. ASSUME NEW t \in App, NEW n \in 1 .. MaxTicks, OSTimeDly(t, n)
        PROVE  MutexInv'
    <2>1. /\ t \in Task /\ call[t] = NoCall /\ n \in Nat
          /\ tcb' = [tcb EXCEPT ![t].dly = n]
          /\ OSRdyTbl' = OSRdyTbl \ {tcb[t].prio}
          /\ UNCHANGED <<OSTCBPrioTbl, ecb, call>>
      BY <1>1, HomesAreApart DEF OSTimeDly, Runs
    <2>2. tcb[t].event = Null
      BY <1>0, <2>1 DEF LoneForms, NoCall, NotForEvent
    <2>3. /\ tcb' \in [Task -> WaiterTcb]
          /\ \A u \in Task : tcb'[u].prio = tcb[u].prio /\ tcb'[u].event = tcb[u].event
      <3>1. tcb' = [tcb EXCEPT ![t] = [tcb[t] EXCEPT !.dly = n]]
        BY <2>1
      <3> QED  BY <1>0, <2>1, <3>1, DelayOverForms
    <2>4. \A u \in Task : tcb[u].event # Null /\ tcb[u].prio \in OSRdyTbl
                              => tcb[u].prio \in OSRdyTbl'
      BY <2>1, <2>2, PriosApart
    <2> QED  BY <2>1, <2>3, <2>4, LoneTcbs
  <1>2. ASSUME NEW p \in Named, OSTimeDlyResume(p)
        PROVE  MutexInv'
    <2> DEFINE t == OSTCBPrioTbl[p]
    <2>1. t \in Task
      BY <1>2, HomesAreApart DEF Named, TaskPrio
    <2>2. /\ tcb' = [tcb EXCEPT ![t] = DelayOver(tcb[t])]
          /\ OSRdyTbl \subseteq OSRdyTbl'
          /\ UNCHANGED <<OSTCBPrioTbl, ecb, call>>
      BY <1>2 DEF OSTimeDlyResume
    <2> HIDE DEF t
    <2>3. /\ tcb' \in [Task -> WaiterTcb]
          /\ \A u \in Task : tcb'[u].prio = tcb[u].prio /\ tcb'[u].event = tcb[u].event
      BY <1>0, <2>1, <2>2, DelayOverForms
    <2> QED  BY <2>2, <2>3, LoneTcbs
  <1> QED  BY <1>1, <1>2 DEF Delays

LEMMA LoneLocking ==
    ASSUME MutexInv, Locking
    PROVE  MutexInv'
PROOF
  <1>1. UNCHANGED <<tcb, call, OSTCBPrioTbl, OSRdyTbl, ecb>>
    BY DEF Locking, OSSchedLock, OSSchedUnlock
  <1>2. tcb \in [Task -> WaiterTcb]
    BY DEF MutexInv, LoneForms
  <1> QED  BY <1>1, <1>2, LoneTcbs

-----------------------------------------------------------------------------
(* Flags, and the ends of calls.                                           *)

LEMMA LoneFlagTasks ==
    ASSUME MutexInv, NEW T \in SUBSET Task, NEW bits(_), OS_FlagTaskRdy(T, bits)
    PROVE  MutexInv'
PROOF
  <1>1. tcb \in [Task -> WaiterTcb]
    BY DEF MutexInv, LoneForms
  <1>2. /\ tcb' = [t \in Task |-> IF t \in T
                     THEN [tcb[t] EXCEPT !.dly = 0, !.stat = tcb[t].stat \ {"FLAG"}, !.pend = "OK"]
                     ELSE tcb[t]]
        /\ OSRdyTbl \subseteq OSRdyTbl'
        /\ UNCHANGED <<call, OSTCBPrioTbl, ecb>>
    BY DEF OS_FlagTaskRdy
  <1>3. ASSUME NEW t \in Task
        PROVE  tcb'[t] \in WaiterTcb /\ tcb'[t].prio = tcb[t].prio /\ tcb'[t].event = tcb[t].event
    <2>1. tcb[t] \in WaiterTcb /\ tcb[t].stat \ {"FLAG"} \in SUBSET PendAny
      BY <1>1 DEF WaiterTcb
    <2>2. CASE t \in T
      <3>1. tcb'[t] = [prio |-> tcb[t].prio, stat |-> tcb[t].stat \ {"FLAG"}, pend |-> "OK",
                       dly |-> 0, event |-> tcb[t].event, multi |-> tcb[t].multi,
                       msg |-> tcb[t].msg]
        BY <1>2, <2>1, <2>2 DEF WaiterTcb
      <3> QED  BY <2>1, <3>1 DEF WaiterTcb
    <2>3. CASE t \notin T
      BY <1>2, <2>1, <2>3
    <2> QED  BY <2>2, <2>3
  <1>4. tcb' \in [Task -> WaiterTcb]
    BY <1>2, <1>3
  <1> QED  BY <1>2, <1>3, <1>4, LoneTcbs

LEMMA LoneFlagPend ==
    ASSUME MutexInv, NEW t \in App, NEW g \in Group, NEW want, NEW how, NEW consume, NEW n \in Nat,
           OSFlagPend(t, g, want, how, consume, n)
    PROVE  MutexInv'
PROOF
  <1>1. tcb \in [Task -> WaiterTcb] /\ LoneForms
    BY DEF MutexInv, LoneForms
  <1>2. CASE UNCHANGED core
    BY <1>1, <1>2, LoneTcbs DEF core
  <1>3. CASE ~ UNCHANGED core
    <2>1. /\ t \in Task /\ call[t] = NoCall
          /\ tcb' = [tcb EXCEPT ![t] = [tcb[t] EXCEPT !.stat = tcb[t].stat \cup {"FLAG"},
                                                      !.pend = "OK", !.dly = n]]
          /\ OSRdyTbl' = OSRdyTbl \ {tcb[t].prio}
          /\ call' = [call EXCEPT ![t].on = {g}]
          /\ UNCHANGED <<OSTCBPrioTbl, ecb>>
      BY <1>3, HomesAreApart DEF OSFlagPend, OS_FlagBlock, Runs
    <2>2. NotForEvent(t) /\ tcb[t].event = Null
      BY <1>1, <2>1 DEF LoneForms, NoCall, NotForEvent
    <2> DEFINE b == [tcb[t] EXCEPT !.stat = tcb[t].stat \cup {"FLAG"}, !.pend = "OK", !.dly = n]
    <2>3. b \in WaiterTcb /\ b.prio = tcb[t].prio /\ b.event = tcb[t].event
      <3>1. tcb[t] \in WaiterTcb
        BY <1>1, <2>1
      <3>2. PICK s : s = tcb[t].stat \cup {"FLAG"}
        OBVIOUS
      <3>3. s \in SUBSET PendAny
        BY <3>1, <3>2 DEF WaiterTcb, PendAny
      <3>4. b = [tcb[t] EXCEPT !.stat = s, !.pend = "OK", !.dly = n]
        BY <3>2
      <3> HIDE DEF b
      <3> QED  BY <3>1, <3>3, <3>4 DEF WaiterTcb
    <2>4. tcb' = [tcb EXCEPT ![t] = b]
      BY <2>1
    <2> HIDE DEF b
    <2>5. /\ tcb' \in [Task -> WaiterTcb]
          /\ \A u \in Task : tcb'[u].prio = tcb[u].prio /\ tcb'[u].event = tcb[u].event
      BY <1>1, <2>1, <2>3, <2>4
    <2>6. \A u \in Task : tcb[u].event # Null /\ tcb[u].prio \in OSRdyTbl
                              => tcb[u].prio \in OSRdyTbl'
      BY <2>1, <2>2, PriosApart
    <2> QED  BY <2>1, <2>2, <2>5, <2>6, LoneTcbs
  <1> QED  BY <1>2, <1>3

LEMMA LoneFlagReturn ==
    ASSUME MutexInv, FlagReturns
    PROVE  MutexInv'
PROOF
  <1>1. PICK t \in App : OSFlagPendReturn(t)
    BY DEF FlagReturns
  <1>2. tcb \in [Task -> WaiterTcb] /\ LoneForms /\ t \in Task
    BY HomesAreApart DEF MutexInv, LoneForms
  <1>3. /\ call' = [call EXCEPT ![t] = NoCall]
        /\ UNCHANGED <<OSTCBPrioTbl, OSRdyTbl, ecb>>
        /\ \/ UNCHANGED tcb
           \/ tcb' = [tcb EXCEPT ![t] = [tcb[t] EXCEPT !.pend = "OK", !.stat = {}]]
    BY <1>1 DEF OSFlagPendReturn
  <1>4. /\ tcb' \in [Task -> WaiterTcb]
        /\ \A u \in Task : tcb'[u].prio = tcb[u].prio /\ tcb'[u].event = tcb[u].event
    <2>1. tcb[t] \in WaiterTcb
      BY <1>2
    <2>2. /\ [tcb[t] EXCEPT !.pend = "OK", !.stat = {}] \in WaiterTcb
          /\ [tcb[t] EXCEPT !.pend = "OK", !.stat = {}].prio = tcb[t].prio
          /\ [tcb[t] EXCEPT !.pend = "OK", !.stat = {}].event = tcb[t].event
      BY <2>1 DEF WaiterTcb
    <2> QED  BY <1>2, <1>3, <2>2
  <1>5. NotForEvent(t)
    BY <1>1 DEF OSFlagPendReturn, NotForEvent
  <1> QED  BY <1>2, <1>3, <1>4, <1>5, LoneTcbs

(* An edit of a wait list touches nothing else of the block.                *)
LEMMA ListEdited ==
    ASSUME LoneForms, NEW e \in Event, NEW w, NEW r, r = [ecb[e] EXCEPT !.wait = w]
    PROVE  /\ r = [type |-> r.type, wait |-> r.wait, obj |-> r.obj]
           /\ r.type = ecb[e].type /\ r.wait = w /\ r.obj = ecb[e].obj
PROOF
  <1>1. ecb[e] = [type |-> ecb[e].type, wait |-> ecb[e].wait, obj |-> ecb[e].obj]
    BY DEF LoneForms
  <1> QED  BY <1>1

LEMMA ListsEdited ==
    ASSUME LoneForms, NEW w,
           \A e \in Event : ecb'[e] = [ecb[e] EXCEPT !.wait = w[e]] \/ ecb'[e] = ecb[e],
           ecb' = [e \in Event |-> ecb'[e]]
    PROVE  /\ ecb' = [e \in Event |-> [type |-> ecb'[e].type, wait |-> ecb'[e].wait, obj |-> ecb'[e].obj]]
           /\ \A e \in Event : /\ ecb'[e].type = ecb[e].type /\ ecb'[e].obj = ecb[e].obj
                               /\ ecb'[e].wait \in {w[e], ecb[e].wait}
PROOF
  <1>1. ASSUME NEW e \in Event
        PROVE  /\ ecb'[e] = [type |-> ecb'[e].type, wait |-> ecb'[e].wait, obj |-> ecb'[e].obj]
               /\ ecb'[e].type = ecb[e].type /\ ecb'[e].obj = ecb[e].obj
               /\ ecb'[e].wait \in {w[e], ecb[e].wait}
    <2>1. CASE ecb'[e] = [ecb[e] EXCEPT !.wait = w[e]]
      BY <2>1, ListEdited
    <2>2. CASE ecb'[e] = ecb[e]
      BY <2>2 DEF LoneForms
    <2> QED  BY <2>1, <2>2
  <1> QED  BY <1>1

LEMMA LoneReturns ==
    ASSUME MutexInv, Returns
    PROVE  MutexInv'
PROOF
  <1> DEFINE e == TheObject
  <1>1. PICK t \in App : PendReturn(t) \/ MessageReturn(t)
    BY DEF Returns
  <1>2. tcb \in [Task -> WaiterTcb] /\ LoneForms /\ t \in Task /\ e \in Event
    BY HomesAreApart, TheObjectExists DEF MutexInv, LoneForms
  <1>3. CASE MessageReturn(t)
    <2>1. NotForEvent(t)
      BY <1>2, <1>3 DEF MessageReturn, LoneForms, NotForEvent
    <2> QED  BY <1>2, <1>3, <2>1, LoneTcbs DEF MessageReturn
  <1>4. CASE PendReturn(t)
    <2>1. ~ call[t].multi
      BY <1>2 DEF LoneForms, CallWith
    <2>2. tcb' = [tcb EXCEPT ![t] = [tcb[t] EXCEPT !.stat = {}, !.pend = "OK", !.event = Null,
                                                   !.multi = {}, !.msg = Null]]
      BY <1>4, <2>1 DEF PendReturn
    <2>3. /\ tcb' \in [Task -> WaiterTcb]
          /\ \A u \in Task : tcb'[u].prio = tcb[u].prio /\ tcb'[u].event \in {tcb[u].event, Null}
          /\ tcb'[t].event = Null
      <3> DEFINE b == [tcb[t] EXCEPT !.stat = {}, !.pend = "OK", !.event = Null,
                                     !.multi = {}, !.msg = Null]
      <3>1. tcb[t] \in WaiterTcb
        BY <1>2
      <3>2. b \in WaiterTcb /\ b.prio = tcb[t].prio /\ b.event = Null
        BY <3>1 DEF WaiterTcb
      <3> QED  BY <1>2, <2>2, <3>2
    <2>4. /\ call' = [call EXCEPT ![t] = NoCall]
          /\ UNCHANGED <<OSTCBPrioTbl, OSRdyTbl>>
          /\ \E E, P : ecb' = Unwaits(ecb, E, P) \/ ecb' = ecb
      BY <1>4 DEF PendReturn
    <2>5. /\ ecb' = [f \in Event |-> [type |-> ecb'[f].type, wait |-> ecb'[f].wait, obj |-> ecb'[f].obj]]
          /\ \A f \in Event : /\ ecb'[f].type = ecb[f].type /\ ecb'[f].obj = ecb[f].obj
                              /\ ecb'[f].wait \subseteq ecb[f].wait
      <3>1. PICK E, P : ecb' = Unwaits(ecb, E, P) \/ ecb' = ecb
        BY <2>4
      <3>2. CASE ecb' = ecb
        BY <1>2, <3>2 DEF LoneForms
      <3>3. CASE ecb' = Unwaits(ecb, E, P)
        <4> DEFINE w == [f \in Event |-> ecb[f].wait \ P]
        <4>1. /\ \A f \in Event : ecb'[f] = [ecb[f] EXCEPT !.wait = w[f]] \/ ecb'[f] = ecb[f]
              /\ ecb' = [f \in Event |-> ecb'[f]]
              /\ \A f \in Event : w[f] \subseteq ecb[f].wait
          BY <3>3 DEF Unwaits
        <4> HIDE DEF w
        <4> QED  BY <1>2, <4>1, ListsEdited
      <3> QED  BY <3>1, <3>2, <3>3
    <2>6. NoCall \in CallWith(Null) /\ NoCall.pmsg = Null
      BY DEF NoCall, CallWith
    <2>7. /\ call' = [u \in Task |-> call'[u]]
          /\ \A u \in Task : /\ call'[u] \in CallWith(call'[u].pmsg)
                             /\ call'[u].pmsg # Null => call'[u].on = {}
                             /\ NotForEvent(u)' => tcb'[u].event = Null
      BY <1>2, <2>3, <2>4, <2>6 DEF LoneForms, NotForEvent
    <2>8. LoneForms'
      BY <1>2, <2>3, <2>4, <2>5, <2>7 DEF LoneForms, Type
    <2>9. Owned(e) => Owner(e) \in Task
      BY HomesAreApart DEF MutexInv, MutexKept, Owned
    <2>10. Owned(e) => tcb'[Owner(e)].event = Null \/ tcb[Owner(e)].prio \in OSRdyTbl'
      BY <2>3, <2>4, <2>9 DEF MutexInv, MutexKept, Owned
    <2> QED  BY <1>2, <2>3, <2>4, <2>5, <2>8, <2>10, LoneFrame DEF Type
  <1> QED  BY <1>1, <1>3, <1>4

-----------------------------------------------------------------------------
(* An object that is no mutex.                                             *)

(* Its contents change, or it is made, or deleted with nobody waiting.      *)
LEMMA LoneObjectChanges ==
    ASSUME MutexInv, Type(TheObject) # "MUTEX", NEW type, type # "MUTEX", NEW W \in SUBSET AppHomes, NEW x,
           ecb' = [ecb EXCEPT ![TheObject] = [type |-> type, wait |-> W, obj |-> x]],
           UNCHANGED <<tcb, OSTCBPrioTbl, OSRdyTbl>>,
           \/ UNCHANGED call
           \/ \E t \in Task : \E m : call[t] = NoCall /\ call' = [call EXCEPT ![t].pmsg = m]
    PROVE  MutexInv'
PROOF
  <1>1. LoneForms /\ TheObject \in Event
    BY TheObjectExists DEF MutexInv
  <1>2. /\ call' = [t \in Task |-> call'[t]]
        /\ \A t \in Task : /\ call'[t] \in CallWith(call'[t].pmsg)
                           /\ call'[t].on = call[t].on
                           /\ call'[t].pmsg # Null => call'[t].on = {}
    <2>1. CASE UNCHANGED call
      BY <1>1, <2>1 DEF LoneForms
    <2>2. CASE ~ UNCHANGED call
      <3>0. PICK t \in Task : \E m : call[t] = NoCall /\ call' = [call EXCEPT ![t].pmsg = m]
        BY <2>2
      <3>1. PICK m : call[t] = NoCall /\ call' = [call EXCEPT ![t].pmsg = m]
        BY <3>0
      <3>2. call' = [call EXCEPT ![t] = [call[t] EXCEPT !.pmsg = m]]
        BY <3>1
      <3>3. call' = [call EXCEPT ![t] = [NoCall EXCEPT !.pmsg = m]]
        BY <3>1, <3>2, Zenon
      <3>4. PICK c : c = [NoCall EXCEPT !.pmsg = m]
        OBVIOUS
      <3>5. c \in CallWith(m) /\ c.pmsg = m /\ c.on = {}
        BY <3>4 DEF NoCall, CallWith
      <3>6. call[t].on = {}
        BY <3>1 DEF NoCall
      <3> QED  BY <1>1, <3>3, <3>4, <3>5, <3>6 DEF LoneForms
    <2> QED  BY <2>1, <2>2
  <1>3. /\ ecb' = [e \in Event |-> [type |-> ecb'[e].type, wait |-> ecb'[e].wait, obj |-> ecb'[e].obj]]
        /\ ecb'[TheObject].type = type /\ ecb'[TheObject].wait = W
        /\ \A e \in Event \ {TheObject} : ecb'[e] = ecb[e]
    BY <1>1 DEF LoneForms
  <1>4. LoneForms'
    BY <1>1, <1>2, <1>3 DEF LoneForms, Type, NotForEvent
  <1> QED  BY <1>3, <1>4, LoneFrame

LEMMA LoneBecomes ==
    ASSUME MutexInv, Type(TheObject) # "MUTEX", NEW x, Becomes(TheObject, x),
           \/ UNCHANGED call
           \/ \E t \in Task : \E m : call[t] = NoCall /\ call' = [call EXCEPT ![t].pmsg = m]
    PROVE  MutexInv'
PROOF
  <1> DEFINE e == TheObject
  <1>1. e \in Event /\ ecb[e].wait \in SUBSET AppHomes
        /\ ecb = [f \in Event |-> [type |-> ecb[f].type, wait |-> ecb[f].wait, obj |-> ecb[f].obj]]
    BY TheObjectExists DEF MutexInv, LoneForms
  <1>2. ecb' = [ecb EXCEPT ![e] = [ecb[e] EXCEPT !.obj = x]]
        /\ UNCHANGED <<tcb, OSTCBPrioTbl, OSRdyTbl>>
    BY DEF Becomes
  <1>3. ecb[e] = [type |-> ecb[e].type, wait |-> ecb[e].wait, obj |-> ecb[e].obj]
    BY <1>1
  <1>4. [ecb[e] EXCEPT !.obj = x] = [type |-> ecb[e].type, wait |-> ecb[e].wait, obj |-> x]
    BY <1>3
  <1>5. ecb' = [ecb EXCEPT ![e] = [type |-> ecb[e].type, wait |-> ecb[e].wait, obj |-> x]]
    BY <1>2, <1>4
  <1>6. PICK type, W : type = ecb[e].type /\ W = ecb[e].wait
    OBVIOUS
  <1>7. /\ type # "MUTEX" /\ W \in SUBSET AppHomes
        /\ ecb' = [ecb EXCEPT ![e] = [type |-> type, wait |-> W, obj |-> x]]
    BY <1>1, <1>5, <1>6 DEF Type
  <1>8. UNCHANGED <<tcb, OSTCBPrioTbl, OSRdyTbl>>
    BY <1>2
  <1> HIDE DEF e
  <1> QED  BY <1>7, <1>8, LoneObjectChanges DEF e

LEMMA LoneCreated ==
    ASSUME MutexInv, Created, NEW type, type # "MUTEX", NEW x, EventCreate(TheObject, type, x)
    PROVE  MutexInv'
PROOF
  <1>1. Type(TheObject) # "MUTEX" /\ {} \in SUBSET AppHomes
    BY DEF EventCreate, Type
  <1> QED  BY <1>1, LoneObjectChanges DEF Created, EventCreate

LEMMA LoneBlocks ==
    ASSUME MutexInv, NEW t \in App, NEW n \in Nat, Runs(t), Type(TheObject) \in Kinds,
           Block(t, TheObject, n)
    PROVE  MutexInv'
PROOF
  <1> DEFINE e == TheObject
  <1>1. /\ LoneForms /\ e \in Event /\ t \in Task /\ call[t] = NoCall
        /\ tcb[t].prio = At[t] /\ At[t] \in AppHomes /\ Type(e) # "MUTEX"
    BY TheObjectExists, HomesAreApart, PriosApart DEF MutexInv, Runs, Owned, Kinds
  <1>2. (CHOOSE f \in {e} : TRUE) = e
    OBVIOUS
  <1>3. /\ tcb' = [tcb EXCEPT ![t] = [tcb[t] EXCEPT !.stat = tcb[t].stat \cup {Type(e)}, !.pend = "OK",
                                                   !.dly = n, !.event = e, !.multi = tcb[t].multi]]
        /\ call' = [call EXCEPT ![t] = [NoCall EXCEPT !.on = {e}, !.multi = FALSE]]
        /\ ecb' = Waits(ecb, {e}, At[t])
        /\ UNCHANGED OSTCBPrioTbl
    BY <1>1, <1>2 DEF Block, EventTaskWait
  <1>4. /\ tcb' \in [Task -> WaiterTcb]
        /\ \A u \in Task : /\ tcb'[u].prio = tcb[u].prio
                           /\ u # t => tcb'[u] = tcb[u]
    <2>1. tcb \in [Task -> WaiterTcb] /\ tcb[t] \in WaiterTcb
      BY <1>1 DEF LoneForms
    <2>2. PICK s : s = tcb[t].stat \cup {Type(e)}
      OBVIOUS
    <2>3. s \in SUBSET PendAny
      BY <2>1, <2>2 DEF WaiterTcb, PendAny, Kinds
    <2>4. PICK b : b = [tcb[t] EXCEPT !.stat = s, !.pend = "OK", !.dly = n, !.event = e,
                                      !.multi = tcb[t].multi]
      OBVIOUS
    <2>5. b \in WaiterTcb /\ b.prio = tcb[t].prio
      BY <1>1, <2>1, <2>3, <2>4 DEF WaiterTcb
    <2>6. tcb' = [tcb EXCEPT ![t] = b]
      BY <1>3, <2>2, <2>4
    <2> QED  BY <1>1, <2>1, <2>5, <2>6
  <1>5. /\ call' = [u \in Task |-> call'[u]]
        /\ \A u \in Task : /\ call'[u] \in CallWith(call'[u].pmsg)
                           /\ call'[u].pmsg # Null => call'[u].on = {}
                           /\ NotForEvent(u)' => tcb'[u].event = Null
    <2>1. PICK c : c = [NoCall EXCEPT !.on = {e}, !.multi = FALSE]
      OBVIOUS
    <2>2. c \in CallWith(Null) /\ c.pmsg = Null /\ c.on = {e}
      BY <1>1, <2>1 DEF NoCall, CallWith
    <2>3. c.on # {} /\ c.on \cap Group = {}
      BY <1>1, <2>2, FlagAssumption
    <2> QED  BY <1>1, <1>3, <1>4, <2>1, <2>2, <2>3 DEF LoneForms, NotForEvent
  <1>6. /\ ecb' = [f \in Event |-> [type |-> ecb'[f].type, wait |-> ecb'[f].wait, obj |-> ecb'[f].obj]]
        /\ \A f \in Event : /\ ecb'[f].type = ecb[f].type
                            /\ ecb'[f].wait \subseteq ecb[f].wait \cup {At[t]}
    <2> DEFINE w == [f \in Event |-> ecb[f].wait \cup {At[t]}]
    <2>1. /\ \A f \in Event : ecb'[f] = [ecb[f] EXCEPT !.wait = w[f]] \/ ecb'[f] = ecb[f]
          /\ ecb' = [f \in Event |-> ecb'[f]]
          /\ \A f \in Event : w[f] = ecb[f].wait \cup {At[t]}
      BY <1>3 DEF Waits
    <2> HIDE DEF w
    <2> QED  BY <1>1, <2>1, ListsEdited
  <1>7. LoneForms'
    BY <1>1, <1>3, <1>4, <1>5, <1>6 DEF LoneForms, Type
  <1> QED  BY <1>1, <1>3, <1>4, <1>6, <1>7, LoneFrame DEF Type

-----------------------------------------------------------------------------
(* The ends of waits.                                                      *)

(* Those woken keep their priority and the name of the event.               *)
LEMMA LoneWokenForms ==
    ASSUME NEW tc, tc \in [Task -> WaiterTcb], NEW e, NEW T, NEW pend, pend \in PendStatus,
           NEW m, m \in MsgOrNull, NEW w, w = Woken(tc, e, T, pend, m)
    PROVE  /\ w \in [Task -> WaiterTcb]
           /\ \A t \in Task : /\ w[t].prio = tc[t].prio /\ w[t].event = tc[t].event
                              /\ t \notin T => w[t] = tc[t]
PROOF
  <1>1. w = [t \in Task |->
                IF t \in T
                THEN [tc[t] EXCEPT !.dly = 0, !.msg = m, !.pend = pend,
                                   !.stat = tc[t].stat \ {ecb[e].type},
                                   !.event = IF tc[t].multi = {} THEN tc[t].event ELSE e]
                ELSE tc[t]]
    BY DEF Woken
  <1>2. ASSUME NEW t \in Task
        PROVE  /\ w[t] \in WaiterTcb /\ w[t].prio = tc[t].prio /\ w[t].event = tc[t].event
               /\ t \notin T => w[t] = tc[t]
    <2>1. tc[t] \in WaiterTcb /\ tc[t].multi = {}
      BY DEF WaiterTcb, PendStatus, MsgOrNull
    <2>2. PICK s : s = tc[t].stat \ {ecb[e].type}
      OBVIOUS
    <2>3. s \in SUBSET PendAny
      BY <2>1, <2>2 DEF WaiterTcb, PendStatus, MsgOrNull
    <2>4. CASE t \in T
      <3>1. w[t] = [tc[t] EXCEPT !.dly = 0, !.msg = m, !.pend = pend, !.stat = s,
                                 !.event = tc[t].event]
        BY <1>1, <2>1, <2>2, <2>4
      <3>2. PICK b : b = [tc[t] EXCEPT !.dly = 0, !.msg = m, !.pend = pend, !.stat = s,
                                       !.event = tc[t].event]
        OBVIOUS
      <3>3. b \in WaiterTcb /\ b.prio = tc[t].prio /\ b.event = tc[t].event
        BY <2>1, <2>3, <3>2 DEF WaiterTcb, PendStatus, MsgOrNull
      <3> QED  BY <2>4, <3>1, <3>2, <3>3
    <2>5. CASE t \notin T
      BY <1>1, <2>1, <2>5
    <2> QED  BY <2>4, <2>5
  <1>3. w \in [Task -> WaiterTcb]
    BY <1>1, <1>2
  <1> QED  BY <1>2, <1>3

(* Their priorities leave the list, and no other list changes in anything else. *)
LEMMA LoneListsLeft ==
    ASSUME LoneForms, NEW T
    PROVE  /\ LeaveLists(TheObject, T)
                = [f \in Event |-> [type |-> LeaveLists(TheObject, T)[f].type,
                                    wait |-> LeaveLists(TheObject, T)[f].wait,
                                    obj |-> LeaveLists(TheObject, T)[f].obj]]
           /\ \A f \in Event : /\ LeaveLists(TheObject, T)[f].type = ecb[f].type
                               /\ LeaveLists(TheObject, T)[f].obj = ecb[f].obj
           /\ LeaveLists(TheObject, T)[TheObject].wait
                = ecb[TheObject].wait \ {tcb[t].prio : t \in T}
PROOF
  <1> DEFINE e == TheObject
             l == LeaveLists(e, T)
             w == [f \in Event |-> ecb[f].wait
                        \ {tcb[t].prio : t \in {u \in T : f = e \/ f \in tcb[u].multi}}]
  <1>1. /\ \A f \in Event : l[f] = [ecb[f] EXCEPT !.wait = w[f]]
        /\ l = [f \in Event |-> l[f]]
    BY DEF LeaveLists
  <1>2. w[e] = ecb[e].wait \ {tcb[t].prio : t \in T}
    BY TheObjectExists
  <1> HIDE DEF w, l
  <1>3. ASSUME NEW f \in Event
        PROVE  /\ l[f] = [type |-> l[f].type, wait |-> l[f].wait, obj |-> l[f].obj]
               /\ l[f].type = ecb[f].type /\ l[f].wait = w[f] /\ l[f].obj = ecb[f].obj
    BY <1>1, ListEdited
  <1> QED  BY <1>1, <1>2, <1>3, TheObjectExists DEF l

(* The object's type and contents are set after the waiters have left.      *)
LEMMA LoneListsSet ==
    ASSUME LoneForms, NEW T, NEW type, NEW x,
           ecb' = [LeaveLists(TheObject, T) EXCEPT ![TheObject] =
                        [LeaveLists(TheObject, T)[TheObject] EXCEPT !.type = type, !.obj = x]]
    PROVE  /\ ecb' = [f \in Event |-> [type |-> ecb'[f].type, wait |-> ecb'[f].wait, obj |-> ecb'[f].obj]]
           /\ \A f \in Event \ {TheObject} : ecb'[f].type = ecb[f].type
           /\ ecb'[TheObject].type = type /\ ecb'[TheObject].obj = x
           /\ ecb'[TheObject].wait = ecb[TheObject].wait \ {tcb[t].prio : t \in T}
PROOF
  <1> DEFINE e == TheObject
             l == LeaveLists(e, T)
  <1>1. /\ l = [f \in Event |-> [type |-> l[f].type, wait |-> l[f].wait, obj |-> l[f].obj]]
        /\ \A f \in Event : l[f].type = ecb[f].type
        /\ l[e].wait = ecb[e].wait \ {tcb[t].prio : t \in T}
        /\ e \in Event
    BY LoneListsLeft, TheObjectExists
  <1>2. ecb' = [l EXCEPT ![e] = [l[e] EXCEPT !.type = type, !.obj = x]]
    OBVIOUS
  <1> HIDE DEF l
  <1>3. PICK b : b = [l[e] EXCEPT !.type = type, !.obj = x]
    OBVIOUS
  <1>4. b = [type |-> type, wait |-> l[e].wait, obj |-> x]
    <2>1. l[e] = [type |-> l[e].type, wait |-> l[e].wait, obj |-> l[e].obj]
      BY <1>1
    <2> QED  BY <1>3, <2>1
  <1>5. ecb' = [l EXCEPT ![e] = b] /\ e \in Event
    BY <1>1, <1>2, <1>3
  <1>6. ecb'[e] = b /\ \A f \in Event \ {e} : ecb'[f] = l[f]
    BY <1>1, <1>5
  <1>7. ecb' = [f \in Event |-> ecb'[f]]
    BY <1>1, <1>5
  <1>8. b.type = type /\ b.obj = x /\ b.wait = l[e].wait
    BY <1>4
  <1>9. ASSUME NEW f \in Event
        PROVE  ecb'[f] = [type |-> ecb'[f].type, wait |-> ecb'[f].wait, obj |-> ecb'[f].obj]
    <2>1. CASE f = e
      BY <1>4, <1>6, <2>1
    <2>2. CASE f # e
      <3>1. l[f] = [type |-> l[f].type, wait |-> l[f].wait, obj |-> l[f].obj]
        BY <1>1
      <3> QED  BY <1>6, <2>2, <3>1
    <2> QED  BY <2>1, <2>2
  <1>10. /\ \A f \in Event \ {e} : ecb'[f].type = ecb[f].type
         /\ ecb'[e].type = type /\ ecb'[e].obj = x
         /\ ecb'[e].wait = ecb[e].wait \ {tcb[t].prio : t \in T}
    BY <1>1, <1>6, <1>8
  <1>11. ecb' = [f \in Event |-> [type |-> ecb'[f].type, wait |-> ecb'[f].wait, obj |-> ecb'[f].obj]]
    BY <1>7, <1>9
  <1> QED  BY <1>10, <1>11

LEMMA LoneWaitsEnd ==
    ASSUME MutexInv, Type(TheObject) # "MUTEX", NEW W \in SUBSET ecb[TheObject].wait,
           NEW pend \in {"OK", "ABORT"}, NEW m \in Msg \cup {Null}, NEW type, type # "MUTEX", NEW x, NEW b,
           EventTaskRdy(TheObject, W, pend, m, type, x, b)
    PROVE  MutexInv'
PROOF
  <1> DEFINE T == TasksAt(W)
  <1>1. /\ LoneForms /\ TheObject \in Event /\ tcb \in [Task -> WaiterTcb]
        /\ ecb[TheObject].wait \subseteq AppHomes
    BY TheObjectExists DEF MutexInv, LoneForms
  <1>2. /\ tcb' = Woken(tcb, TheObject, T, pend, m)
        /\ ecb' = [LeaveLists(TheObject, T) EXCEPT ![TheObject] =
                        [LeaveLists(TheObject, T)[TheObject] EXCEPT !.type = type, !.obj = x]]
        /\ UNCHANGED <<call, OSTCBPrioTbl>>
    BY DEF EventTaskRdy
  <1> HIDE DEF T
  <1>3. /\ tcb' \in [Task -> WaiterTcb]
        /\ \A t \in Task : tcb'[t].prio = tcb[t].prio /\ tcb'[t].event = tcb[t].event
    <2>1. pend \in PendStatus /\ m \in MsgOrNull
      BY DEF PendStatus, MsgOrNull
    <2> QED  BY <1>1, <1>2, <2>1, LoneWokenForms
  <1>4. /\ ecb' = [f \in Event |-> [type |-> ecb'[f].type, wait |-> ecb'[f].wait, obj |-> ecb'[f].obj]]
        /\ \A f \in Event \ {TheObject} : ecb'[f].type = ecb[f].type
        /\ ecb'[TheObject].type = type
        /\ ecb'[TheObject].wait \subseteq ecb[TheObject].wait
    BY <1>1, <1>2, LoneListsSet
  <1>5. LoneForms'
    BY <1>1, <1>2, <1>3, <1>4 DEF LoneForms, Type, NotForEvent
  <1> QED  BY <1>2, <1>3, <1>4, <1>5, LoneFrame

LEMMA LoneHandDelAbort ==
    ASSUME MutexInv, Type(TheObject) # "MUTEX", NEW m \in Msg \cup {Null}, NEW type, NEW all, NEW b
    PROVE  /\ Hand(TheObject, m, all, b) => MutexInv'
           /\ EventDel(TheObject, type, all) => MutexInv'
           /\ EventPendAbort(TheObject, type, all) => MutexInv'
PROOF
  <1> DEFINE e == TheObject
  <1>1. ecb[e].wait \in SUBSET Prio
    BY HomesAreApart DEF MutexInv, LoneForms
  <1>2. ecb[e].wait # {} => NextWaiter(e) \in SUBSET ecb[e].wait
    BY <1>1, MinOfPrios DEF NextWaiter
  <1>3. PICK W : W = IF all THEN ecb[e].wait ELSE NextWaiter(e)
    OBVIOUS
  <1>4. Null \in Msg \cup {Null} /\ "OK" \in {"OK", "ABORT"} /\ "ABORT" \in {"OK", "ABORT"}
    OBVIOUS
  <1>5. CASE Hand(e, m, all, b)
    <2>1. W \in SUBSET ecb[e].wait /\ EventTaskRdy(e, W, "OK", m, Type(e), ecb[e].obj, b)
      BY <1>2, <1>3, <1>5 DEF Hand
    <2> QED  BY <1>4, <2>1, LoneWaitsEnd
  <1>6. CASE EventDel(e, type, all)
    <2>1. EventTaskRdy(e, ecb[e].wait, "OK", Null, "UNUSED", Null, TRUE) /\ "UNUSED" # "MUTEX"
      BY <1>6 DEF EventDel
    <2> QED  BY <1>4, <2>1, LoneWaitsEnd
  <1>7. CASE EventPendAbort(e, type, all)
    <2>1. /\ W \in SUBSET ecb[e].wait /\ EventTaskRdy(e, W, "ABORT", Null, Type(e), ecb[e].obj, TRUE)
      BY <1>2, <1>3, <1>7 DEF EventPendAbort, Type
    <2> QED  BY <1>4, <2>1, LoneWaitsEnd
  <1> QED  BY <1>5, <1>6, <1>7

LEMMA TimeoutsAreNat == Timeouts \subseteq Nat
PROOF BY CoreAssumption DEF Timeouts

LEMMA LoneSemaphores ==
    ASSUME MutexInv, LoneMutex, Semaphores
    PROVE  MutexInv'
PROOF
  <1> DEFINE e == TheObject
  <1>0. Null \in Msg \cup {Null}
    OBVIOUS
  <1>1. \/ Created /\ \E n \in {0, MaxCnt} : OSSemCreate(e, n)
        \/ \E t \in App, n \in Nat : OSSemPend(t, e, n)
        \/ OSSemPost(e) \/ OSSemAccept(e)
        \/ \E n \in {0, MaxCnt} : OSSemSet(e, n)
        \/ \E always \in BOOLEAN : OSSemDel(e, always)
        \/ \E all \in BOOLEAN : OSSemPendAbort(e, all)
    BY LoneObject, TimeoutsAreNat DEF Semaphores
  <1>2. CASE Created /\ \E n \in {0, MaxCnt} : OSSemCreate(e, n)
    BY <1>2, LoneCreated DEF OSSemCreate
  <1>3. ASSUME NEW t \in App, NEW n \in Nat, OSSemPend(t, e, n)
        PROVE  MutexInv'
    <2>1. Runs(t) /\ Type(e) = "SEM" /\ Type(e) \in Kinds /\ Type(e) # "MUTEX"
      BY <1>3 DEF OSSemPend, MayPend, Kinds
    <2>2. (Becomes(e, ecb[e].obj - 1) /\ UNCHANGED call) \/ Block(t, e, n)
      BY <1>3 DEF OSSemPend
    <2> QED  BY <2>1, <2>2, LoneBecomes, LoneBlocks
  <1>4. CASE OSSemPost(e) \/ OSSemAccept(e)
    <2>1. Type(e) # "MUTEX"
      BY <1>4 DEF OSSemPost, OSSemAccept
    <2>2. Hand(e, Null, FALSE, TRUE) \/ (\E x : Becomes(e, x) /\ UNCHANGED call)
      BY <1>4 DEF OSSemPost, OSSemAccept
    <2> QED  BY <1>0, <2>1, <2>2, LoneBecomes, LoneHandDelAbort
  <1>5. CASE \E n \in {0, MaxCnt} : OSSemSet(e, n)
    BY <1>5, LoneBecomes DEF OSSemSet
  <1>6. CASE \E always \in BOOLEAN : OSSemDel(e, always)
    <2>1. Type(e) # "MUTEX"
      BY <1>6 DEF OSSemDel, EventDel, Type
    <2> QED  BY <1>0, <1>6, <2>1, LoneHandDelAbort DEF OSSemDel
  <1>7. CASE \E all \in BOOLEAN : OSSemPendAbort(e, all)
    <2>1. Type(e) # "MUTEX"
      BY <1>7 DEF OSSemPendAbort, EventPendAbort, Type
    <2> QED  BY <1>0, <1>7, <2>1, LoneHandDelAbort DEF OSSemPendAbort
  <1> QED  BY <1>1, <1>2, <1>3, <1>4, <1>5, <1>6, <1>7

LEMMA LoneMailboxes ==
    ASSUME MutexInv, LoneMutex, Mailboxes
    PROVE  MutexInv'
PROOF
  <1> DEFINE e == TheObject
  <1>0. Null \in Msg \cup {Null} /\ Msg \subseteq Msg \cup {Null}
    OBVIOUS
  <1>1. \/ Created /\ \E m \in Msg \cup {Null} : OSMboxCreate(e, m)
        \/ \E t \in App, n \in Nat : OSMboxPend(t, e, n)
        \/ OSMboxAccept(e)
        \/ \E m \in Msg : OSMboxPost(e, m)
        \/ \E m \in Msg, all \in BOOLEAN : OSMboxPostOpt(e, m, all, TRUE)
        \/ \E always \in BOOLEAN : OSMboxDel(e, always)
        \/ \E all \in BOOLEAN : OSMboxPendAbort(e, all)
    BY LoneObject, TimeoutsAreNat DEF Mailboxes
  <1>2. CASE Created /\ \E m \in Msg \cup {Null} : OSMboxCreate(e, m)
    BY <1>2, LoneCreated DEF OSMboxCreate
  <1>3. ASSUME NEW t \in App, NEW n \in Nat, OSMboxPend(t, e, n)
        PROVE  MutexInv'
    <2>1. Runs(t) /\ Type(e) = "MBOX" /\ Type(e) \in Kinds /\ Type(e) # "MUTEX"
      BY <1>3 DEF OSMboxPend, MayPend, Kinds
    <2>2. t \in Task /\ call[t] = NoCall
      BY <2>1, HomesAreApart DEF Runs
    <2>3. \/ Becomes(e, Null) /\ call' = [call EXCEPT ![t].pmsg = ecb[e].obj]
          \/ Block(t, e, n)
      BY <1>3 DEF OSMboxPend
    <2> QED  BY <2>1, <2>2, <2>3, LoneBecomes, LoneBlocks
  <1>4. CASE OSMboxAccept(e)
    BY <1>4, LoneBecomes DEF OSMboxAccept
  <1>5. ASSUME NEW m \in Msg, NEW all, OSMboxPost(e, m) \/ OSMboxPostOpt(e, m, all, TRUE)
        PROVE  MutexInv'
    <2>1. Type(e) # "MUTEX" /\ m \in Msg \cup {Null}
      BY <1>5 DEF OSMboxPost, OSMboxPostOpt
    <2>2. \/ \E a : Hand(e, m, a, TRUE)
          \/ Becomes(e, m) /\ UNCHANGED call
      BY <1>5 DEF OSMboxPost, OSMboxPostOpt
    <2> QED  BY <2>1, <2>2, LoneBecomes, LoneHandDelAbort
  <1>6. CASE \E always \in BOOLEAN : OSMboxDel(e, always)
    <2>1. Type(e) # "MUTEX"
      BY <1>6 DEF OSMboxDel, EventDel, Type
    <2> QED  BY <1>0, <1>6, <2>1, LoneHandDelAbort DEF OSMboxDel
  <1>7. CASE \E all \in BOOLEAN : OSMboxPendAbort(e, all)
    <2>1. Type(e) # "MUTEX"
      BY <1>7 DEF OSMboxPendAbort, EventPendAbort, Type
    <2> QED  BY <1>0, <1>7, <2>1, LoneHandDelAbort DEF OSMboxPendAbort
  <1> QED  BY <1>1, <1>2, <1>3, <1>4, <1>5, <1>6, <1>7

LEMMA LoneQueues ==
    ASSUME MutexInv, LoneMutex, Queues
    PROVE  MutexInv'
PROOF
  <1> DEFINE e == TheObject
  <1>0. Null \in Msg \cup {Null} /\ Msg \subseteq Msg \cup {Null}
    OBVIOUS
  <1>1. \/ Created /\ OSQCreate(e)
        \/ \E t \in App, n \in Nat : OSQPend(t, e, n)
        \/ \E m \in Msg : OSQPost(e, m) \/ OSQPostFront(e, m)
        \/ OSQAccept(e) \/ OSQFlush(e)
        \/ \E m \in Msg, all, front \in BOOLEAN : OSQPostOpt(e, m, all, front, TRUE)
        \/ \E always \in BOOLEAN : OSQDel(e, always)
        \/ \E all \in BOOLEAN : OSQPendAbort(e, all)
    BY LoneObject, TimeoutsAreNat DEF Queues
  <1>2. CASE Created /\ OSQCreate(e)
    BY <1>2, LoneCreated DEF OSQCreate
  <1>3. ASSUME NEW t \in App, NEW n \in Nat, OSQPend(t, e, n)
        PROVE  MutexInv'
    <2>1. Runs(t) /\ Type(e) = "Q" /\ Type(e) \in Kinds /\ Type(e) # "MUTEX"
      BY <1>3 DEF OSQPend, MayPend, Kinds
    <2>2. t \in Task /\ call[t] = NoCall
      BY <2>1, HomesAreApart DEF Runs
    <2>3. \/ Becomes(e, Got(ecb[e].obj)) /\ \E m : call' = [call EXCEPT ![t].pmsg = m]
          \/ Block(t, e, n)
      BY <1>3 DEF OSQPend
    <2> QED  BY <2>1, <2>2, <2>3, LoneBecomes, LoneBlocks
  <1>4. CASE OSQAccept(e) \/ OSQFlush(e)
    <2>1. Type(e) # "MUTEX" /\ (\E x : Becomes(e, x)) /\ UNCHANGED call
      BY <1>4 DEF OSQAccept, OSQFlush
    <2> QED  BY <2>1, LoneBecomes
  <1>5. ASSUME NEW m \in Msg, NEW all, NEW front,
               OSQPost(e, m) \/ OSQPostFront(e, m) \/ OSQPostOpt(e, m, all, front, TRUE)
        PROVE  MutexInv'
    <2>1. Type(e) # "MUTEX" /\ m \in Msg \cup {Null}
      BY <1>5 DEF OSQPost, OSQPostFront, OSQPostOpt
    <2>2. \/ \E a : Hand(e, m, a, TRUE)
          \/ (\E x : Becomes(e, x)) /\ UNCHANGED call
      BY <1>5 DEF OSQPost, OSQPostFront, OSQPostOpt
    <2> QED  BY <2>1, <2>2, LoneBecomes, LoneHandDelAbort
  <1>6. CASE \E always \in BOOLEAN : OSQDel(e, always)
    <2>1. Type(e) # "MUTEX"
      BY <1>6 DEF OSQDel, EventDel, Type
    <2> QED  BY <1>0, <1>6, <2>1, LoneHandDelAbort DEF OSQDel
  <1>7. CASE \E all \in BOOLEAN : OSQPendAbort(e, all)
    <2>1. Type(e) # "MUTEX"
      BY <1>7 DEF OSQPendAbort, EventPendAbort, Type
    <2> QED  BY <1>0, <1>7, <2>1, LoneHandDelAbort DEF OSQPendAbort
  <1> QED  BY <1>1, <1>2, <1>3, <1>4, <1>5, <1>6, <1>7

LEMMA LoneFlags ==
    ASSUME MutexInv, Flags
    PROVE  MutexInv'
PROOF
  <1>1. PICK g \in Group :
            \/ \E F \in SUBSET Bit : OSFlagCreate(g, F)
            \/ \E t \in App, W \in SUBSET Bit \ {{}}, how \in WaitType, c \in BOOLEAN, n \in Nat :
                    OSFlagPend(t, g, W, how, c, n)
            \/ \E W \in SUBSET Bit \ {{}}, how \in WaitType, c \in BOOLEAN : OSFlagAccept(g, W, how, c)
            \/ \E F \in SUBSET Bit \ {{}}, set \in BOOLEAN : OSFlagPost(g, F, set)
            \/ \E always \in BOOLEAN : OSFlagDel(g, always)
    BY TimeoutsAreNat DEF Flags
  <1>2. CASE \E t \in App, W \in SUBSET Bit \ {{}}, how \in WaitType, c \in BOOLEAN, n \in Nat :
                    OSFlagPend(t, g, W, how, c, n)
    BY <1>2, LoneFlagPend
  <1>3. CASE UNCHANGED core
    <2>1. tcb \in [Task -> WaiterTcb]
      BY DEF MutexInv, LoneForms
    <2> QED  BY <1>3, <2>1, LoneTcbs DEF core
  <1>4. CASE \E F, set : OSFlagPost(g, F, set)
    <2>1. PICK F, set : OSFlagPost(g, F, set)
      BY <1>4
    <2> DEFINE flags == IF set THEN group[g].flags \cup F ELSE group[g].flags \ F
               bits(t) == Ready(flags, node[t].want, node[t].how)
    <2>2. Served(g, flags) \in SUBSET Task /\ OS_FlagTaskRdy(Served(g, flags), bits)
      BY <2>1 DEF OSFlagPost, Served, Waiters
    <2> QED  BY <2>2, LoneFlagTasks
  <1>5. CASE \E always : OSFlagDel(g, always)
    <2> DEFINE none(t) == {}
    <2>1. Waiters(g) \in SUBSET Task /\ OS_FlagTaskRdy(Waiters(g), none)
      BY <1>5 DEF OSFlagDel, Waiters
    <2> QED  BY <2>1, LoneFlagTasks
  <1> QED  BY <1>1, <1>2, <1>3, <1>4, <1>5 DEF OSFlagCreate, OSFlagAccept

-----------------------------------------------------------------------------
(* The services of the mutex.                                              *)

(* The form of the control blocks when only the object changes.             *)
LEMMA LoneObjectSet ==
    ASSUME LoneForms, ecb' = [e \in Event |-> ecb'[e]],
           \A e \in Event \ {TheObject} : ecb'[e] = ecb[e],
           ecb'[TheObject] = [type |-> ecb'[TheObject].type, wait |-> ecb'[TheObject].wait,
                              obj |-> ecb'[TheObject].obj],
           ecb'[TheObject].wait \subseteq AppHomes,
           UNCHANGED <<tcb, call>>, OSTCBPrioTbl' \in [Prio -> Task \cup {"free", "reserved"}]
    PROVE  LoneForms'
PROOF
  <1>1. TheObject \in Event
    BY TheObjectExists
  <1>2. ecb' = [e \in Event |-> [type |-> ecb'[e].type, wait |-> ecb'[e].wait, obj |-> ecb'[e].obj]]
    BY <1>1 DEF LoneForms
  <1> QED  BY <1>1, <1>2 DEF LoneForms, Type, NotForEvent

LEMMA LoneMutexCreate ==
    ASSUME MutexInv, NEW p \in Prio, OSMutexCreate(TheObject, p)
    PROVE  MutexInv'
PROOF
  <1> DEFINE e == TheObject
             x == [pip |-> p, prio |-> Available, owner |-> Null]
  <1>1. /\ LoneForms /\ HomesKept /\ e \in Event
        /\ OSTCBPrioTbl \in [Prio -> Task \cup {"free", "reserved"}]
    BY TheObjectExists DEF MutexInv, LoneForms
  <1>2. /\ Type(e) = "UNUSED" /\ OSTCBPrioTbl[p] = "free"
        /\ ecb' = [ecb EXCEPT ![e] = [type |-> "MUTEX", wait |-> {}, obj |-> x]]
        /\ OSTCBPrioTbl' = [OSTCBPrioTbl EXCEPT ![p] = "reserved"]
        /\ UNCHANGED <<tcb, call>>
    BY DEF OSMutexCreate, EventCreate, Type
  <1>3. p \notin Homes
    BY <1>1, <1>2, NamesAssumption DEF HomesKept, Homes
  <1>4. /\ LoneForms' /\ ecb'[e] = [type |-> "MUTEX", wait |-> {}, obj |-> x]
    <2>1. OSTCBPrioTbl' \in [Prio -> Task \cup {"free", "reserved"}]
      BY <1>1, <1>2
    <2> HIDE DEF x
    <2>2. /\ ecb' = [f \in Event |-> ecb'[f]]
          /\ \A f \in Event \ {e} : ecb'[f] = ecb[f]
          /\ ecb'[e] = [type |-> "MUTEX", wait |-> {}, obj |-> x]
      BY <1>1, <1>2 DEF LoneForms
    <2>3. /\ ecb'[e] = [type |-> ecb'[e].type, wait |-> ecb'[e].wait, obj |-> ecb'[e].obj]
          /\ ecb'[e].wait \subseteq AppHomes
      BY <2>2
    <2> QED  BY <1>1, <1>2, <2>1, <2>2, <2>3, LoneObjectSet
  <1>5. /\ Type(e)' = "MUTEX" /\ Pip(e)' = p /\ ~ Owned(e)' /\ Owner(e)' = Null
        /\ ecb'[e].obj = x /\ ecb'[e].wait = {}
    BY <1>4 DEF Type, Pip, Owned, Owner
  <1>6. HomesKept'
    <2>1. \A t \in Task : tcb[t].prio = At[t]
      BY <1>1, <1>2 DEF HomesKept, AtPip, Owned
    <2>2. \A t \in Task : At[t] # p /\ OSTCBPrioTbl'[At[t]] = t
      BY <1>1, <1>2, <1>3, HomesAreApart DEF HomesKept
    <2>3. \A q \in Prio \ Homes : OSTCBPrioTbl'[q] = IF q # p THEN "free" ELSE "reserved"
      BY <1>1, <1>2 DEF HomesKept
    <2>4. ~ AtPip(Owner(e))'
      BY <1>5 DEF AtPip
    <2> QED  BY <1>2, <1>5, <2>1, <2>2, <2>3, <2>4 DEF HomesKept
  <1>7. x \in MutexRecord
    BY DEF MutexRecord
  <1> QED  BY <1>3, <1>4, <1>5, <1>6, <1>7 DEF MutexInv, MutexKept

(* A task takes the free mutex.                                             *)
LEMMA LoneMutexTaken ==
    ASSUME MutexInv, NEW t \in App, Runs(t), Type(TheObject) = "MUTEX", ~ Owned(TheObject),
           Becomes(TheObject, OwnedBy(TheObject, t, tcb[t].prio)), UNCHANGED call
    PROVE  MutexInv'
PROOF
  <1> DEFINE e == TheObject
             x == [pip |-> Pip(e), prio |-> At[t], owner |-> t]
  <1>1. /\ LoneForms /\ HomesKept /\ MutexKept(e) /\ e \in Event /\ t \in Task
        /\ call[t] = NoCall /\ tcb[t].prio = At[t] /\ At[t] \in Prio /\ At[t] # Available
        /\ OSTCBPrioTbl \in [Prio -> Task \cup {"free", "reserved"}]
    BY TheObjectExists, HomesAreApart, PriosApart DEF MutexInv, Runs, LoneForms
  <1>2. tcb[t].event = Null /\ ecb[e].wait = {}
    BY <1>1 DEF LoneForms, NotForEvent, NoCall, MutexKept
  <1>3. /\ ecb' = [ecb EXCEPT ![e] = [ecb[e] EXCEPT !.obj = x]]
        /\ UNCHANGED <<tcb, OSTCBPrioTbl>>
    BY <1>1 DEF Becomes, OwnedBy
  <1>4. ecb' = [ecb EXCEPT ![e] = [type |-> "MUTEX", wait |-> {}, obj |-> x]]
    <2>1. ecb[e] = [type |-> "MUTEX", wait |-> {}, obj |-> ecb[e].obj]
      BY <1>1, <1>2 DEF LoneForms, Type
    <2> HIDE DEF x
    <2>2. [ecb[e] EXCEPT !.obj = x] = [type |-> "MUTEX", wait |-> {}, obj |-> x]
      BY <2>1
    <2> QED  BY <1>3, <2>2
  <1>5. LoneForms' /\ ecb'[e] = [type |-> "MUTEX", wait |-> {}, obj |-> x]
    <2> HIDE DEF x
    <2>1. /\ ecb' = [f \in Event |-> ecb'[f]]
          /\ \A f \in Event \ {e} : ecb'[f] = ecb[f]
          /\ ecb'[e] = [type |-> "MUTEX", wait |-> {}, obj |-> x]
      BY <1>1, <1>4 DEF LoneForms
    <2>2. /\ ecb'[e] = [type |-> ecb'[e].type, wait |-> ecb'[e].wait, obj |-> ecb'[e].obj]
          /\ ecb'[e].wait \subseteq AppHomes
      BY <2>1
    <2> QED  BY <1>1, <1>3, <2>1, <2>2, LoneObjectSet
  <1>6. /\ Type(e)' = "MUTEX" /\ Pip(e)' = Pip(e) /\ Owned(e)' /\ Owner(e)' = t
        /\ ecb'[e].obj = x /\ ecb'[e].wait = {} /\ ecb'[e].obj.prio = At[t]
    BY <1>1, <1>5 DEF Type, Pip, Owned, Owner
  <1>7. HomesKept'
    <2>1. \A u \in Task : ~ AtPip(u)
      BY DEF AtPip
    <2>2. ~ AtPip(Owner(e))
      BY DEF AtPip
    <2>3. ~ AtPip(t)'
      BY <1>1, <1>3, <1>6 DEF AtPip, MutexKept, Homes
    <2> QED  BY <1>1, <1>3, <1>6, <2>1, <2>2, <2>3 DEF HomesKept
  <1>8. x \in MutexRecord
    BY <1>1 DEF MutexRecord, MutexKept, Pip
  <1> QED  BY <1>1, <1>2, <1>3, <1>5, <1>6, <1>7, <1>8 DEF MutexInv, MutexKept

(* A task waits for a mutex that another one owns, and may raise the owner. *)
LEMMA LoneMutexWaits ==
    ASSUME MutexInv, NEW t \in App, NEW n \in Nat, OSMutexPend(t, TheObject, n),
           Owned(TheObject), Owner(TheObject) # t
    PROVE  MutexInv'
PROOF
  <1> DEFINE e == TheObject
             o == Owner(e)
             up == Raises(t, e)
             pip == Pip(e)
             b == [tcb[t] EXCEPT !.stat = tcb[t].stat \cup {"MUTEX"}, !.pend = "OK", !.dly = n, !.event = e]
             tc == [tcb EXCEPT ![t] = b]
  <1>1. /\ LoneForms /\ HomesKept /\ MutexKept(e) /\ e \in Event /\ Type(e) = "MUTEX"
        /\ t \in Task /\ call[t] = NoCall /\ o \in App /\ o \in Task /\ o # t
        /\ tcb[t].prio = At[t] /\ At[t] \in Prio /\ At[t] \in AppHomes
        /\ tcb \in [Task -> WaiterTcb]
        /\ OSTCBPrioTbl \in [Prio -> Task \cup {"free", "reserved"}]
    BY TheObjectExists, HomesAreApart, PriosApart
       DEF MutexInv, LoneForms, OSMutexPend, MayPend, Runs, MutexKept, Owned
  <1>2. /\ pip \in Prio /\ pip \notin Homes /\ ecb[e].obj \in MutexRecord
        /\ ecb[e].obj.prio = At[o] /\ ecb[e].wait \subseteq AppHomes
        /\ At[o] \notin ecb[e].wait
    BY <1>1 DEF MutexKept, MutexRecord, Pip, LoneForms
  <1>3. BoostedLists(e, o) = ecb
    BY <1>1 DEF BoostedLists, MutexKept
  <1>4. /\ tcb' = IF up THEN Boosted(e, o, tc) ELSE tc
        /\ OSRdyTbl' = (IF up THEN BoostedRdy(e, o) ELSE OSRdyTbl) \ {At[t]}
        /\ ecb' = Waits(ecb, {e}, At[t])
        /\ OSTCBPrioTbl' = IF up THEN [OSTCBPrioTbl EXCEPT ![pip] = o] ELSE OSTCBPrioTbl
        /\ call' = [call EXCEPT ![t].on = {e}]
    BY <1>1, <1>3 DEF OSMutexPend
  <1>5. b \in WaiterTcb /\ b.prio = At[t]
    <2>1. tcb[t] \in WaiterTcb
      BY <1>1
    <2>2. PICK s : s = tcb[t].stat \cup {"MUTEX"}
      OBVIOUS
    <2>3. s \in SUBSET PendAny
      BY <2>1, <2>2 DEF WaiterTcb, PendAny
    <2>4. b = [tcb[t] EXCEPT !.stat = s, !.pend = "OK", !.dly = n, !.event = e]
      BY <2>2
    <2> HIDE DEF b
    <2> QED  BY <1>1, <2>1, <2>3, <2>4 DEF WaiterTcb
  <1>6. /\ tcb' \in [Task -> WaiterTcb]
        /\ tcb'[o].prio = (IF up THEN pip ELSE tcb[o].prio) /\ tcb'[o].event = tcb[o].event
        /\ tcb'[t].prio = At[t]
        /\ \A u \in Task \ {t, o} : tcb'[u] = tcb[u]
    <2> HIDE DEF b
    <2>1. tc \in [Task -> WaiterTcb] /\ tc[t] = b /\ tc[o] = tcb[o]
          /\ \A u \in Task \ {t, o} : tc[u] = tcb[u]
      BY <1>1, <1>5
    <2>2. CASE ~ up
      BY <1>1, <1>4, <1>5, <2>1, <2>2
    <2>3. CASE up
      <3> HIDE DEF tc, pip
      <3>1. tcb' = [tc EXCEPT ![o] = [tc[o] EXCEPT !.prio = pip]]
        BY <1>4, <2>3 DEF Boosted, pip
      <3>2. PICK c : c = [tc[o] EXCEPT !.prio = pip]
        OBVIOUS
      <3>3. c \in WaiterTcb /\ c.prio = pip /\ c.event = tcb[o].event
        <4>1. PICK d : d = tc[o]
          OBVIOUS
        <4>2. d \in WaiterTcb /\ d.event = tcb[o].event
          BY <1>1, <2>1, <4>1
        <4>3. c = [d EXCEPT !.prio = pip]
          BY <3>2, <4>1
        <4> QED  BY <1>2, <4>2, <4>3 DEF WaiterTcb
      <3> QED  BY <1>1, <1>5, <2>1, <2>3, <3>1, <3>2, <3>3
    <2> QED  BY <2>2, <2>3
  <1>7. /\ call' = [u \in Task |-> call'[u]]
        /\ \A u \in Task : /\ call'[u] \in CallWith(call'[u].pmsg)
                           /\ call'[u].pmsg # Null => call'[u].on = {}
                           /\ NotForEvent(u)' => u # t /\ NotForEvent(u)
    <2>1. PICK c : c = [NoCall EXCEPT !.on = {e}]
      OBVIOUS
    <2>2. c \in CallWith(Null) /\ c.pmsg = Null /\ c.on = {e}
      BY <1>1, <2>1 DEF NoCall, CallWith
    <2>3. c.on # {} /\ c.on \cap Group = {}
      BY <1>1, <2>2, FlagAssumption
    <2>4. call' = [call EXCEPT ![t] = [call[t] EXCEPT !.on = {e}]]
      BY <1>4
    <2>5. call[t] = NoCall
      BY <1>1
    <2>6. call' = [call EXCEPT ![t] = c]
      BY <2>1, <2>4, <2>5, Zenon
    <2> QED  BY <1>1, <2>2, <2>3, <2>6 DEF LoneForms, NotForEvent
  <1>8. /\ ecb' = [f \in Event |-> [type |-> ecb'[f].type, wait |-> ecb'[f].wait, obj |-> ecb'[f].obj]]
        /\ \A f \in Event : /\ ecb'[f].type = ecb[f].type /\ ecb'[f].obj = ecb[f].obj
                            /\ ecb'[f].wait \subseteq ecb[f].wait \cup {At[t]}
    <2> DEFINE w == [f \in Event |-> ecb[f].wait \cup {At[t]}]
    <2>1. /\ \A f \in Event : ecb'[f] = [ecb[f] EXCEPT !.wait = w[f]] \/ ecb'[f] = ecb[f]
          /\ ecb' = [f \in Event |-> ecb'[f]]
          /\ \A f \in Event : w[f] = ecb[f].wait \cup {At[t]}
      BY <1>4 DEF Waits
    <2> HIDE DEF w
    <2> QED  BY <1>1, <2>1, ListsEdited
  <1>9. LoneForms'
    <2>1. \A u \in Task : NotForEvent(u)' => tcb'[u].event = Null
      BY <1>1, <1>6, <1>7 DEF LoneForms
    <2>2. OSTCBPrioTbl' \in [Prio -> Task \cup {"free", "reserved"}]
      BY <1>1, <1>2, <1>4
    <2>3. ecb'[e].wait \subseteq AppHomes
      BY <1>1, <1>2, <1>8
    <2> QED  BY <1>1, <1>6, <1>7, <1>8, <2>1, <2>2, <2>3 DEF LoneForms, Type
  <1>10. /\ Type(e)' = "MUTEX" /\ Owned(e)' /\ Owner(e)' = o /\ Pip(e)' = pip
         /\ ecb'[e].obj = ecb[e].obj
    BY <1>1, <1>8 DEF Type, Owned, Owner, Pip
  <1> HIDE DEF b, tc, up, pip, o
  <1>11. up => tcb[o].prio > pip /\ At[o] > At[t]
    BY <1>1, <1>2 DEF up, Raises, pip, o
  <1>12. ~ up => tcb[o].prio <= pip \/ At[o] <= At[t]
    <2>1. tcb[o].prio \in Nat /\ pip \in Nat /\ At[o] \in Nat /\ At[t] \in Nat
      BY <1>1, <1>2, HomesAreApart DEF WaiterTcb
    <2> QED  BY <1>1, <1>2, <2>1 DEF up, Raises, pip, o
  <1>13. /\ tcb[o].prio = At[o] \/ tcb[o].prio = pip
         /\ AtPip(o) <=> tcb[o].prio = pip
         /\ AtPip(o)' <=> tcb'[o].prio = pip
         /\ \A u \in Task : u # o => ~ AtPip(u) /\ ~ AtPip(u)'
         /\ \A u \in Task : u # o => tcb[u].prio = At[u]
    BY <1>1, <1>10 DEF HomesKept, AtPip, o, pip
  <1>14. HomesKept'
    <2>1. ASSUME NEW u \in Task
          PROVE  tcb'[u].prio = At[u] \/ AtPip(u)'
      <3>1. CASE u = o
        <4>1. tcb'[o].prio = At[o] \/ tcb'[o].prio = pip
          BY <1>6, <1>13
        <4> QED  BY <1>10, <3>1, <4>1 DEF AtPip
      <3>2. CASE u = t
        BY <1>6, <3>2
      <3>3. CASE u # o /\ u # t
        BY <1>6, <1>13, <3>3
      <3> QED  BY <3>1, <3>2, <3>3
    <2>2. \A u \in Task : OSTCBPrioTbl'[At[u]] = u
      BY <1>1, <1>2, <1>4, HomesAreApart DEF HomesKept
    <2>3. ASSUME NEW q \in Prio \ Homes
          PROVE  OSTCBPrioTbl'[q] = IF q # pip THEN "free"
                                    ELSE IF tcb'[o].prio = pip THEN o ELSE "reserved"
      <3>1. OSTCBPrioTbl[q] = IF q # pip THEN "free"
                              ELSE IF tcb[o].prio = pip THEN o ELSE "reserved"
        BY <1>1, <1>13 DEF HomesKept, o, pip
      <3> QED  BY <1>1, <1>2, <1>4, <1>6, <3>1
    <2>4. AtPip(Owner(e))' <=> tcb'[o].prio = pip
      BY <1>10 DEF AtPip
    <2> QED  BY <1>10, <2>1, <2>2, <2>3, <2>4 DEF HomesKept
  <1>15. tcb'[o].event = Null \/ tcb'[o].prio \in OSRdyTbl'
    <2>1. tcb[o].event = Null \/ tcb[o].prio \in OSRdyTbl
      BY <1>1 DEF MutexKept, o
    <2>2. pip # At[t] /\ tcb[o].prio # At[t]
      BY <1>1, <1>2, <1>13, HomesAreApart
    <2>3. BoostedRdy(e, o) = IF tcb[o].prio \in OSRdyTbl
                             THEN (OSRdyTbl \ {tcb[o].prio}) \cup {pip} ELSE OSRdyTbl
      BY DEF BoostedRdy, pip
    <2> QED  BY <1>4, <1>6, <2>1, <2>2, <2>3
  <1>16. (\E p \in ecb'[e].wait : p < At[o]) => tcb'[o].prio <= pip
    <2>1. tcb[o].prio \in Nat /\ pip \in Nat /\ At[o] \in Nat /\ At[t] \in Nat
      BY <1>1, <1>2, HomesAreApart DEF WaiterTcb
    <2>2. CASE up
      BY <1>6, <2>1, <2>2
    <2>3. CASE ~ up /\ \E p \in ecb[e].wait : p < At[o]
      BY <1>1, <1>2, <1>6, <2>3 DEF MutexKept, o, pip
    <2>4. CASE ~ up /\ At[t] < At[o]
      BY <1>6, <1>12, <2>1, <2>4
    <2> QED  BY <1>1, <1>8, <2>2, <2>3, <2>4
  <1>17. At[o] \notin ecb'[e].wait
    BY <1>1, <1>2, <1>8, HomesAreApart
  <1>18. MutexKept(e)'
    BY <1>1, <1>2, <1>10, <1>15, <1>16, <1>17 DEF MutexKept
  <1> QED  BY <1>9, <1>14, <1>18 DEF MutexInv

(* The owner gives the mutex back: to its own priority, and to the heir.    *)
LEMMA LoneMutexPost ==
    ASSUME MutexInv, NEW t \in App, OSMutexPost(t, TheObject)
    PROVE  MutexInv'
PROOF
  <1> DEFINE e == TheObject
             pip == Pip(e)
             low == LowersOwner(e, t)
             s == IF low THEN RdyAtPrio(t, ecb[e].obj.prio) ELSE AsIs
             next == Min(ecb[e].wait)
             heir == s.tbl[next]
  <1>1. /\ LoneForms /\ HomesKept /\ MutexKept(e) /\ e \in Event /\ Type(e) = "MUTEX"
        /\ Owned(e) /\ Owner(e) = t /\ t \in Task /\ call[t] = NoCall
        /\ tcb \in [Task -> WaiterTcb]
        /\ OSTCBPrioTbl \in [Prio -> Task \cup {"free", "reserved"}]
    BY TheObjectExists, HomesAreApart
       DEF MutexInv, LoneForms, OSMutexPost, Runs, Owned
  <1>2. /\ pip \in Prio /\ pip \notin Homes /\ ecb[e].obj \in MutexRecord
        /\ ecb[e].obj.prio = At[t] /\ ecb[e].wait \subseteq AppHomes
        /\ At[t] \notin ecb[e].wait
    BY <1>1 DEF MutexKept, MutexRecord, Pip, LoneForms
  <1>3. /\ OSTCBPrioTbl' = [s.tbl EXCEPT ![pip] = "reserved"]
        /\ UNCHANGED call
        /\ \/ /\ ecb[e].wait # {}
              /\ tcb' = Woken(s.tcb, e, {heir}, "OK", Null)
              /\ OSRdyTbl' = s.rdy \cup {tcb[u].prio : u \in Unsuspended({heir})}
              /\ ecb' = [LeaveLists(e, {heir}) EXCEPT ![e].obj = OwnedBy(e, heir, next)]
           \/ /\ ecb[e].wait = {}
              /\ tcb' = s.tcb
              /\ ecb' = [ecb EXCEPT ![e].obj = Freed(e)]
    BY <1>1, <1>2 DEF OSMutexPost
  (* The poster is at home, and no other task was elsewhere. *)
  <1>4. /\ s.tcb \in [Task -> WaiterTcb]
        /\ \A u \in Task : s.tcb[u].prio = At[u] /\ s.tcb[u].event = tcb[u].event
    <2>1. \A u \in Task : u # t => tcb[u].prio = At[u]
      BY <1>1, PriosApart
    <2>2. CASE low
      <3>1. s.tcb = [tcb EXCEPT ![t] = [tcb[t] EXCEPT !.prio = At[t]]]
        BY <1>2, <2>2 DEF RdyAtPrio
      <3>2. /\ [tcb[t] EXCEPT !.prio = At[t]] \in WaiterTcb
            /\ [tcb[t] EXCEPT !.prio = At[t]].prio = At[t]
            /\ [tcb[t] EXCEPT !.prio = At[t]].event = tcb[t].event
        BY <1>1, HomesAreApart DEF WaiterTcb
      <3> HIDE DEF s
      <3> QED  BY <1>1, <2>1, <3>1, <3>2
    <2>3. CASE ~ low
      <3>1. s.tcb = tcb
        BY <2>3 DEF AsIs
      <3>2. tcb[t].prio = At[t]
        BY <1>1, <2>3 DEF LowersOwner, HomesKept, AtPip
      <3> HIDE DEF s
      <3> QED  BY <1>1, <2>1, <3>1, <3>2
    <2> QED  BY <2>2, <2>3
  <1>5. /\ s.tbl \in [Prio -> Task \cup {"free", "reserved"}]
        /\ \A u \in Task : s.tbl[At[u]] = u
        /\ \A q \in Prio \ Homes : q # pip => s.tbl[q] = "free"
    <2>1. \A u \in Task : OSTCBPrioTbl[At[u]] = u
      BY <1>1 DEF HomesKept
    <2>2. \A q \in Prio \ Homes : q # pip => OSTCBPrioTbl[q] = "free"
      BY <1>1 DEF HomesKept
    <2>3. CASE low
      <3>1. s.tbl = [OSTCBPrioTbl EXCEPT ![At[t]] = t]
        BY <1>2, <2>3 DEF RdyAtPrio
      <3> HIDE DEF s
      <3> QED  BY <1>1, <2>1, <2>2, <3>1, HomesAreApart
    <2>4. CASE ~ low
      <3>1. s.tbl = OSTCBPrioTbl
        BY <2>4 DEF AsIs
      <3> HIDE DEF s
      <3> QED  BY <1>1, <2>1, <2>2, <3>1
    <2> QED  BY <2>3, <2>4
  <1>6. /\ OSTCBPrioTbl' \in [Prio -> Task \cup {"free", "reserved"}]
        /\ \A u \in Task : OSTCBPrioTbl'[At[u]] = u
        /\ \A q \in Prio \ Homes : OSTCBPrioTbl'[q] = IF q = pip THEN "reserved" ELSE "free"
    <2> HIDE DEF s, pip
    <2> QED  BY <1>2, <1>3, <1>5, HomesAreApart
  <1>7. CASE ecb[e].wait = {}
    <2> DEFINE x == [pip |-> pip, prio |-> Available, owner |-> Null]
    <2>1. tcb' = s.tcb /\ ecb' = [ecb EXCEPT ![e] = [ecb[e] EXCEPT !.obj = x]]
      BY <1>3, <1>7 DEF Freed
    <2>2. ecb[e] = [type |-> "MUTEX", wait |-> {}, obj |-> ecb[e].obj]
      BY <1>1, <1>7 DEF LoneForms, Type
    <2>3. /\ ecb' = [f \in Event |-> ecb'[f]]
          /\ \A f \in Event \ {e} : ecb'[f] = ecb[f]
          /\ ecb'[e] = [type |-> "MUTEX", wait |-> {}, obj |-> x]
      <3> HIDE DEF x
      <3>1. [ecb[e] EXCEPT !.obj = x] = [type |-> "MUTEX", wait |-> {}, obj |-> x]
        BY <2>2
      <3> QED  BY <1>1, <2>1, <3>1 DEF LoneForms
    <2> HIDE DEF s
    <2>4. LoneForms'
      <3>1. /\ ecb' = [f \in Event |-> [type |-> ecb'[f].type, wait |-> ecb'[f].wait, obj |-> ecb'[f].obj]]
            /\ ecb'[e].wait = {}
        BY <1>1, <2>3 DEF LoneForms
      <3> HIDE DEF x
      <3> QED  BY <1>1, <1>3, <1>4, <1>6, <2>1, <2>3, <3>1 DEF LoneForms, Type, NotForEvent
    <2>5. /\ Type(e)' = "MUTEX" /\ Pip(e)' = pip /\ ~ Owned(e)' /\ Owner(e)' = Null
          /\ ecb'[e].obj = x /\ ecb'[e].wait = {}
      BY <2>3 DEF Type, Pip, Owned, Owner
    <2>6. HomesKept'
      <3>1. ~ AtPip(Owner(e))'
        BY <2>5 DEF AtPip
      <3> QED  BY <1>4, <1>6, <2>1, <2>5, <3>1 DEF HomesKept
    <2>7. x \in MutexRecord
      BY <1>2 DEF MutexRecord
    <2> QED  BY <1>2, <2>4, <2>5, <2>6, <2>7 DEF MutexInv, MutexKept
  <1>8. CASE ecb[e].wait # {}
    <2>1. ecb[e].wait \in SUBSET Prio
      BY <1>2, HomesAreApart
    <2>2. next \in ecb[e].wait /\ next \in Prio /\ \A p \in ecb[e].wait : next <= p
      BY <1>8, <2>1, MinOfPrios
    <2> HIDE DEF next
    <2>3. heir \in App /\ heir \in Task /\ heir # t /\ next = At[heir] /\ tcb[heir].prio = next
      <3>1. PICK u \in App : next = At[u]
        BY <1>2, <2>2, HomesAreApart
      <3> HIDE DEF s
      <3>2. heir = u
        BY <1>5, <3>1, HomesAreApart
      <3>3. u # t
        BY <1>2, <2>2, <3>1
      <3>4. tcb[u].prio = At[u]
        BY <1>1, <3>1, <3>3, PriosApart, HomesAreApart
      <3> QED  BY <3>1, <3>2, <3>3, <3>4, HomesAreApart
    <2> DEFINE x == [pip |-> pip, prio |-> next, owner |-> heir]
    <2>4. /\ tcb' = Woken(s.tcb, e, {heir}, "OK", Null)
          /\ OSRdyTbl' = s.rdy \cup {tcb[u].prio : u \in Unsuspended({heir})}
          /\ ecb' = [LeaveLists(e, {heir}) EXCEPT ![e].obj = x]
      BY <1>3, <1>8 DEF OwnedBy
    <2> HIDE DEF heir, s
    <2>5. /\ tcb' \in [Task -> WaiterTcb]
          /\ \A u \in Task : tcb'[u].prio = At[u] /\ tcb'[u].event = tcb[u].event
      <3>1. "OK" \in PendStatus /\ Null \in MsgOrNull
        BY DEF PendStatus, MsgOrNull
      <3>2. PICK tc : tc = s.tcb
        OBVIOUS
      <3>3. tc \in [Task -> WaiterTcb] /\ tcb' = Woken(tc, e, {heir}, "OK", Null)
        BY <1>4, <2>4, <3>2
      <3>4. \A u \in Task : tcb'[u].prio = tc[u].prio /\ tcb'[u].event = tc[u].event
        BY <3>1, <3>3, LoneWokenForms
      <3>5. tcb' \in [Task -> WaiterTcb]
        BY <3>1, <3>3, LoneWokenForms
      <3> QED  BY <1>4, <3>2, <3>4, <3>5
    <2>6. /\ ecb' = [f \in Event |-> [type |-> ecb'[f].type, wait |-> ecb'[f].wait, obj |-> ecb'[f].obj]]
          /\ \A f \in Event \ {e} : ecb'[f].type = ecb[f].type
          /\ ecb'[e].type = "MUTEX" /\ ecb'[e].obj = x
          /\ ecb'[e].wait = ecb[e].wait \ {next}
      <3> HIDE DEF x
      <3> DEFINE l == LeaveLists(e, {heir})
      <3>1. /\ l = [f \in Event |-> [type |-> l[f].type, wait |-> l[f].wait, obj |-> l[f].obj]]
            /\ \A f \in Event : l[f].type = ecb[f].type
            /\ l[e].wait = ecb[e].wait \ {tcb[u].prio : u \in {heir}}
        BY <1>1, LoneListsLeft
      <3>2. {tcb[u].prio : u \in {heir}} = {next}
        BY <2>3
      <3> HIDE DEF l
      <3>3. ecb' = [l EXCEPT ![e] = [l[e] EXCEPT !.obj = x]]
        BY <2>4 DEF l
      <3>4. PICK b : b = [l[e] EXCEPT !.obj = x]
        OBVIOUS
      <3>5. b = [type |-> "MUTEX", wait |-> ecb[e].wait \ {next}, obj |-> x]
        <4>1. l[e].type = "MUTEX" /\ l[e].wait = ecb[e].wait \ {next}
          BY <1>1, <3>1, <3>2 DEF Type
        <4>2. l[e] = [type |-> l[e].type, wait |-> l[e].wait, obj |-> l[e].obj]
          BY <1>1, <3>1
        <4>3. l[e] = [type |-> "MUTEX", wait |-> ecb[e].wait \ {next}, obj |-> l[e].obj]
          BY <4>1, <4>2
        <4> QED  BY <3>4, <4>3
      <3>6. ecb' = [l EXCEPT ![e] = b] /\ e \in Event
        BY <1>1, <3>3, <3>4
      <3>7. ecb'[e] = b /\ \A f \in Event \ {e} : ecb'[f] = l[f]
        BY <3>1, <3>6
      <3>8. ecb' = [f \in Event |-> ecb'[f]]
        BY <3>1, <3>6
      <3> QED  BY <3>1, <3>5, <3>7, <3>8
    <2>7. LoneForms'
      <3> HIDE DEF x
      <3> QED  BY <1>1, <1>2, <1>3, <1>6, <2>5, <2>6 DEF LoneForms, Type, NotForEvent
    <2>8. /\ Type(e)' = "MUTEX" /\ Pip(e)' = pip /\ Owned(e)' /\ Owner(e)' = heir
          /\ ecb'[e].obj = x /\ ecb'[e].obj.prio = At[heir]
      BY <2>2, <2>3, <2>6, HomesAreApart DEF Type, Pip, Owned, Owner
    <2>9. HomesKept'
      <3>1. At[heir] # pip
        BY <1>2, <2>3, HomesAreApart
      <3>2. ~ AtPip(heir)' /\ ~ AtPip(Owner(e))'
        BY <2>3, <2>5, <2>8, <3>1 DEF AtPip
      <3> QED  BY <1>6, <2>5, <2>8, <3>2 DEF HomesKept
    <2>10. tcb'[heir].prio \in OSRdyTbl'
      <3>1. heir \in Unsuspended({heir})
        <4>1. tcb[heir] \in WaiterTcb
          BY <1>1, <2>3
        <4>2. tcb[heir].stat \subseteq PendAny /\ "SUSPEND" \notin PendAny
          BY <4>1 DEF WaiterTcb, PendAny
        <4> QED  BY <4>2 DEF Unsuspended
      <3> QED  BY <2>3, <2>4, <2>5, <3>1
    <2>11. ~ \E p \in ecb'[e].wait : p < At[heir]
      <3>1. \A p \in ecb[e].wait : p \in Nat /\ next \in Nat /\ next <= p
        BY <2>1, <2>2, HomesAreApart
      <3> QED  BY <2>3, <2>6, <3>1
    <2>12. x \in MutexRecord
      BY <1>2, <2>2, <2>3 DEF MutexRecord
    <2>13. MutexKept(e)'
      BY <1>2, <2>3, <2>6, <2>8, <2>10, <2>11, <2>12 DEF MutexKept
    <2> QED  BY <2>7, <2>9, <2>13 DEF MutexInv
  <1> QED  BY <1>7, <1>8

(* A mutex is deleted when nobody owns it, and then nobody waits for it.    *)
LEMMA LoneMutexDel ==
    ASSUME MutexInv, NEW always, ~ Owned(TheObject), OSMutexDel(TheObject, always)
    PROVE  MutexInv'
PROOF
  <1> DEFINE e == TheObject
             pip == Pip(e)
  <1>1. /\ LoneForms /\ HomesKept /\ MutexKept(e) /\ e \in Event /\ Type(e) = "MUTEX"
        /\ tcb \in [Task -> WaiterTcb]
        /\ OSTCBPrioTbl \in [Prio -> Task \cup {"free", "reserved"}]
    BY TheObjectExists DEF MutexInv, LoneForms, OSMutexDel
  <1>2. Owner(e) = Null /\ ecb[e].wait = {} /\ pip \in Prio /\ pip \notin Homes
    BY <1>1 DEF MutexKept, MutexRecord, Pip
  <1>3. /\ tcb' = Woken(tcb, e, {}, "OK", Null)
        /\ ecb' = [LeaveLists(e, {}) EXCEPT ![e] = Unused]
        /\ OSTCBPrioTbl' = [OSTCBPrioTbl EXCEPT ![pip] = "free"]
        /\ UNCHANGED call
    BY <1>2 DEF OSMutexDel, AsIs
  <1>4. /\ tcb' \in [Task -> WaiterTcb]
        /\ \A u \in Task : tcb'[u].prio = tcb[u].prio /\ tcb'[u].event = tcb[u].event
    <2>1. "OK" \in PendStatus /\ Null \in MsgOrNull
      BY DEF PendStatus, MsgOrNull
    <2>2. PICK tc, T : tc = tcb /\ T = {}
      OBVIOUS
    <2>3. tc \in [Task -> WaiterTcb] /\ tcb' = Woken(tc, e, T, "OK", Null)
      BY <1>1, <1>3, <2>2
    <2>4. tcb' \in [Task -> WaiterTcb]
      BY <2>1, <2>3, LoneWokenForms
    <2>5. \A u \in Task : tcb'[u].prio = tc[u].prio /\ tcb'[u].event = tc[u].event
      BY <2>1, <2>3, LoneWokenForms
    <2> QED  BY <2>2, <2>4, <2>5
  <1>5. /\ ecb' = [f \in Event |-> [type |-> ecb'[f].type, wait |-> ecb'[f].wait, obj |-> ecb'[f].obj]]
        /\ \A f \in Event \ {e} : ecb'[f].type = ecb[f].type
        /\ ecb'[e].type = "UNUSED" /\ ecb'[e].wait = {}
    <2> DEFINE l == LeaveLists(e, {})
    <2>1. /\ l = [f \in Event |-> [type |-> l[f].type, wait |-> l[f].wait, obj |-> l[f].obj]]
          /\ \A f \in Event : l[f].type = ecb[f].type
      BY <1>1, LoneListsLeft
    <2>2. ecb' = [l EXCEPT ![e] = Unused]
      BY <1>3
    <2> HIDE DEF l
    <2> QED  BY <1>1, <2>1, <2>2 DEF Unused
  <1>6. OSTCBPrioTbl' \in [Prio -> Task \cup {"free", "reserved"}]
    BY <1>1, <1>3
  <1>7. LoneForms'
    BY <1>1, <1>3, <1>4, <1>5, <1>6 DEF LoneForms, Type, NotForEvent
  <1>8. HomesKept'
    <2>1. \A u \in Task : tcb[u].prio = At[u]
      BY <1>1 DEF HomesKept, AtPip
    <2>2. \A u \in Task : OSTCBPrioTbl'[At[u]] = u
      BY <1>1, <1>2, <1>3, HomesAreApart DEF HomesKept
    <2>3. \A q \in Prio \ Homes : OSTCBPrioTbl'[q] = "free"
      BY <1>1, <1>2, <1>3 DEF HomesKept
    <2> QED  BY <1>4, <1>5, <2>1, <2>2, <2>3 DEF HomesKept, Type
  <1> QED  BY <1>5, <1>7, <1>8 DEF MutexInv, Type

LEMMA LoneMutexes ==
    ASSUME MutexInv, LoneMutex, Mutexes
    PROVE  MutexInv'
PROOF
  <1> DEFINE e == TheObject
  <1>1. \/ \E p \in Prio : OSMutexCreate(e, p)
        \/ \E t \in App, n \in Nat : ~ (Owned(e) /\ Owner(e) = t) /\ OSMutexPend(t, e, n)
        \/ \E t \in App : OSMutexAccept(t, e) \/ OSMutexPost(t, e)
        \/ ~ Owned(e) /\ \E always \in BOOLEAN : OSMutexDel(e, always)
    BY LoneObject, TimeoutsAreNat DEF Mutexes
  <1>2. ASSUME NEW t \in App, NEW n \in Nat,
               ~ (Owned(e) /\ Owner(e) = t), OSMutexPend(t, e, n)
        PROVE  MutexInv'
    <2>1. CASE Owned(e)
      BY <1>2, <2>1, LoneMutexWaits
    <2>2. CASE ~ Owned(e)
      BY <1>2, <2>2, LoneMutexTaken DEF OSMutexPend, MayPend
    <2> QED  BY <2>1, <2>2
  <1>3. ASSUME NEW t \in App, OSMutexAccept(t, e)
        PROVE  MutexInv'
    BY <1>3, LoneMutexTaken DEF OSMutexAccept
  <1> QED  BY <1>1, <1>2, <1>3, LoneMutexCreate, LoneMutexPost, LoneMutexDel

-----------------------------------------------------------------------------
(* All steps together.                                                     *)

LEMMA MutexStarts == Init => MutexInv
PROOF
  <1> SUFFICES ASSUME Init
               PROVE  MutexInv
    OBVIOUS
  <1>1. /\ tcb = [t \in Task |-> NewTcb(At[t])]
        /\ call = [t \in Task |-> NoCall]
        /\ OSTCBPrioTbl = [p \in Prio |-> IF {t \in Task : At[t] = p} = {} THEN "free"
                                          ELSE CHOOSE t \in {u \in Task : At[u] = p} : TRUE]
        /\ ecb = [e \in Event |-> Unused]
    BY DEF Init, CoreInit, OS_InitEventList
  <1>2. ASSUME NEW t \in Task
        PROVE  /\ tcb[t] \in WaiterTcb /\ tcb[t].prio = At[t] /\ tcb[t].event = Null
               /\ call[t] \in CallWith(call[t].pmsg) /\ call[t].pmsg = Null
    BY <1>1, HomesAreApart DEF NewTcb, WaiterTcb, NoCall, CallWith, PendAny
  <1>3. \A e \in Event : /\ ecb[e] = [type |-> ecb[e].type, wait |-> ecb[e].wait, obj |-> ecb[e].obj]
                         /\ ecb[e].type = "UNUSED" /\ ecb[e].wait = {}
    BY <1>1 DEF Unused
  <1>4. ASSUME NEW p \in Prio
        PROVE  /\ OSTCBPrioTbl[p] \in Task \cup {"free"}
               /\ p \notin Homes => OSTCBPrioTbl[p] = "free"
               /\ \A t \in Task : At[t] = p => OSTCBPrioTbl[p] = t
    <2>1. CASE {t \in Task : At[t] = p} = {}
      BY <1>1, <2>1
    <2>2. CASE {t \in Task : At[t] = p} # {}
      <3>1. PICK t \in Task : At[t] = p
        BY <2>2
      <3>2. {u \in Task : At[u] = p} = {t}
        BY <3>1, HomesAreApart
      <3>3. OSTCBPrioTbl[p] = t
        BY <1>1, <3>2
      <3> QED  BY <3>1, <3>3, HomesAreApart
    <2> QED  BY <2>1, <2>2 DEF Homes
  <1>5. LoneForms
    <2>1. TheObject \in Event
      BY TheObjectExists
    <2>2. OSTCBPrioTbl \in [Prio -> Task \cup {"free", "reserved"}]
      BY <1>1, <1>4
    <2> QED  BY <1>1, <1>2, <1>3, <2>1, <2>2 DEF LoneForms, Type
  <1>6. Type(TheObject) = "UNUSED"
    BY <1>3, TheObjectExists DEF Type
  <1>7. HomesKept
    BY <1>2, <1>4, <1>6, HomesAreApart DEF HomesKept
  <1> QED  BY <1>5, <1>6, <1>7 DEF MutexInv

LEMMA MutexSteps ==
    ASSUME MutexInv, LoneMutex, [Next]_vars
    PROVE  MutexInv'
PROOF
  <1>1. CASE UNCHANGED vars
    <2>1. UNCHANGED <<tcb, call, OSTCBPrioTbl, OSRdyTbl, ecb>>
      BY <1>1 DEF vars, core
    <2>2. tcb \in [Task -> WaiterTcb]
      BY DEF MutexInv, LoneForms
    <2> QED  BY <2>1, <2>2, LoneTcbs
  <1>2. CASE Next
    <2>1. \/ Tick \/ Returns \/ Delays \/ Locking \/ Semaphores \/ Mailboxes \/ Queues
          \/ Mutexes \/ Flags \/ FlagReturns
      BY <1>2 DEF Next, LoneMutex, Suspension, Priorities, Lives, Several
    <2> QED  BY <2>1, LoneTick, LoneReturns, LoneDelays, LoneLocking, LoneSemaphores, LoneMailboxes,
                LoneQueues, LoneMutexes, LoneFlags, LoneFlagReturn DEF Tick
  <1> QED  BY <1>1, <1>2

THEOREM MutexInvHolds == Spec => [](LoneMutex => MutexInv)
PROOF
  <1>1. Init => (LoneMutex => MutexInv)
    BY MutexStarts
  <1>2. (LoneMutex => MutexInv) /\ [Next]_vars => (LoneMutex => MutexInv)'
    <2> SUFFICES ASSUME LoneMutex => MutexInv, [Next]_vars, LoneMutex'
                 PROVE  MutexInv'
      OBVIOUS
    <2>1. LoneMutex
      BY DEF Next, vars, LoneMutex
    <2> QED  BY <2>1, MutexSteps
  <1> QED  BY <1>1, <1>2, PTL DEF Spec

(* While a task more urgent than the owner was waits for a mutex, the owner  *)
(* runs at least at the mutex's priority and is found there; without an     *)
(* owner, or with one at home, that priority is reserved (os_mutex.c        *)
(* 112-121, 331-340, 437-534, 588-612, 711-758).                            *)
THEOREM InheritedPriorityOfALoneMutex == Spec => [](LoneMutex => InheritedPriority)
PROOF
  <1>1. MutexInv => InheritedPriority
    <2> SUFFICES ASSUME MutexInv, NEW e \in Event, Type(e) = "MUTEX"
                 PROVE  /\ Owned(e) /\ (\E p \in ecb[e].wait : p < ecb[e].obj.prio)
                              => tcb[Owner(e)].prio <= Pip(e)
                        /\ OSTCBPrioTbl[Pip(e)] \in {"reserved", Owner(e)}
                        /\ ~ Owned(e) => OSTCBPrioTbl[Pip(e)] = "reserved"
      BY DEF InheritedPriority, OSMutexQuery
    <2>1. e = TheObject
      BY DEF MutexInv, LoneForms
    <2>2. MutexKept(e) /\ HomesKept /\ Pip(e) \in Prio \ Homes
      BY <2>1 DEF MutexInv, MutexKept, MutexRecord, Pip
    <2>3. OSTCBPrioTbl[Pip(e)] = IF AtPip(Owner(e)) THEN Owner(e) ELSE "reserved"
      BY <2>1, <2>2 DEF HomesKept
    <2> QED  BY <2>1, <2>2, <2>3 DEF MutexKept, AtPip
  <1> QED  BY <1>1, MutexInvHolds, PTL
=============================================================================
