------------------------------- MODULE Timers -------------------------------
(***************************************************************************)
(* uC/OS-II's software timers (os_tmr.c): a pool of timer blocks, a wheel  *)
(* whose spokes are doubly linked lists of running timers, and a task that *)
(* turns the wheel once for every signal of the tick.  Every service holds *)
(* OSTmrSem from its first access to its last, as does the timer task for  *)
(* a whole turn, callbacks included: each is one step, and a callback may  *)
(* not call a timer service.  The board's configuration leaves the timers  *)
(* out (OS_TMR_EN is 0); the source is modelled as it stands.              *)
(***************************************************************************)
EXTENDS Integers, FiniteSets, SequencesExt

CONSTANTS Timer,      (* OSTmrTbl, 0 .. OS_TMR_CFG_MAX - 1                   *)
          WheelSize,  (* OS_TMR_CFG_WHEEL_SIZE                               *)
          TmrWide,    (* 2^w: the values of OSTmrTime and OSTmrMatch         *)
          TmrKinds,   (* the timers created: delay, period and option        *)
          MaxSignals  (* bound: signals not yet served (65535 in C)          *)

ASSUME TimersAssumption ==
    /\ WheelSize \in Nat \ {0} /\ MaxSignals \in Nat
    /\ TmrWide \in Nat /\ TmrWide > 0 /\ TmrWide % WheelSize = 0
    /\ IsFiniteSet(Timer) /\ Timer = 0 .. Cardinality(Timer) - 1 /\ Timer # {}
    /\ \A k \in TmrKinds : {k[1], k[2]} \subseteq 0 .. TmrWide - 1 /\ k[3] \in {"ONE_SHOT", "PERIODIC"}

VARIABLES
    tmr,       (* OSTmrTbl                                                   *)
    wheel,     (* OSTmrWheelTbl                                              *)
    pool,      (* OSTmrFreeList, OSTmrFree, OSTmrUsed                        *)
    tmrTime,   (* OSTmrTime                                                  *)
    signals,   (* the count of OSTmrSemSignal                                *)
    expires    (* history: turns until a timer must expire, -1 if none       *)

timersVars == <<tmr, wheel, pool, tmrTime, signals, expires>>

Nil == -1
Blank == [state |-> "UNUSED", opt |-> "NONE", dly |-> 0, period |-> 0, match |-> 0,
          next |-> Nil, prev |-> Nil]

(* All timers in the free list, in the order of the table. *)
OSTmr_Init ==
    /\ tmr = [t \in Timer |-> [Blank EXCEPT !.next = IF t + 1 \in Timer THEN t + 1 ELSE Nil]]
    /\ wheel = [s \in 0 .. WheelSize - 1 |-> [first |-> Nil, entries |-> 0]]
    /\ pool = [first |-> 0, free |-> Cardinality(Timer), used |-> 0]
    /\ tmrTime = 0

TimersInit ==
    /\ OSTmr_Init
    /\ signals = 0
    /\ expires = [t \in Timer |-> -1]

-----------------------------------------------------------------------------
(* The wheel.  w is the table and the wheel, as they are inside a service. *)

Spoke(match) == match % WheelSize

(* The turns from a start to the expiry. *)
Turns(b) == IF b.dly = 0 THEN b.period ELSE b.dly

(* Into the spoke of its expiry, as the first of its list. *)
OSTmr_Link(w, t, now, turns) ==
    LET match == (turns + now) % TmrWide
        s == Spoke(match)
        head == w.wheel[s].first
        linked == [w.tmr EXCEPT ![t] = [@ EXCEPT !.state = "RUNNING", !.match = match,
                                                !.next = head, !.prev = Nil]]
    IN  [tmr |-> IF head = Nil THEN linked ELSE [linked EXCEPT ![head].prev = t],
         wheel |-> [w.wheel EXCEPT ![s] = [first |-> t, entries |-> @.entries + 1]]]

(* Mutant: the new head of the list keeps its predecessor. *)
OSTmr_Unlink_StalePrev(w, t) ==
    LET b == w.tmr[t]
        s == Spoke(b.match)
        first == w.wheel[s].first = t
        passed == IF first THEN w.tmr ELSE [w.tmr EXCEPT ![b.prev].next = b.next]
        back == IF b.next = Nil \/ first THEN passed ELSE [passed EXCEPT ![b.next].prev = b.prev]
    IN  [tmr |-> [back EXCEPT ![t] = [@ EXCEPT !.state = "STOPPED", !.next = Nil, !.prev = Nil]],
         wheel |-> [w.wheel EXCEPT ![s] = [first |-> IF first THEN b.next ELSE @.first,
                                           entries |-> @.entries - 1]]]

OSTmr_Unlink(w, t) ==
    LET b == w.tmr[t]
        s == Spoke(b.match)
        first == w.wheel[s].first = t
        passed == IF first THEN w.tmr ELSE [w.tmr EXCEPT ![b.prev].next = b.next]
        back == IF b.next = Nil THEN passed
                ELSE [passed EXCEPT ![b.next].prev = IF first THEN Nil ELSE b.prev]
    IN  [tmr |-> [back EXCEPT ![t] = [@ EXCEPT !.state = "STOPPED", !.next = Nil, !.prev = Nil]],
         wheel |-> [w.wheel EXCEPT ![s] = [first |-> IF first THEN b.next ELSE @.first,
                                           entries |-> @.entries - 1]]]

Leaves(w) == tmr' = w.tmr /\ wheel' = w.wheel
Now0 == [tmr |-> tmr, wheel |-> wheel]

(* The list that starts at t, at most all timers long. *)
Chain(table, t) ==
    FoldLeft(LAMBDA found, i : LET last == IF found = <<>> THEN t ELSE table[Last(found)].next
                               IN  IF last = Nil THEN found ELSE Append(found, last),
             <<>>, [i \in 1 .. Cardinality(Timer) + 1 |-> i])

-----------------------------------------------------------------------------
(* The services, of a timer that exists; what they refuse changes nothing. *)

OSTmr_Alloc ==
    /\ pool.first # Nil
    /\ pool' = [first |-> tmr[pool.first].next, free |-> pool.free - 1, used |-> pool.used + 1]

(* A name that is too long is an error, yet the timer is taken. *)
OSTmrCreate(dly, period, opt) ==
    /\ IF opt = "PERIODIC" THEN period # 0 ELSE dly # 0
    /\ OSTmr_Alloc
    /\ tmr' = [tmr EXCEPT ![pool.first] = [Blank EXCEPT !.state = "STOPPED", !.opt = opt,
                                                        !.dly = dly, !.period = period]]
    /\ UNCHANGED <<wheel, tmrTime, signals, expires>>

(* Its delay is not cleared. *)
OSTmr_Free(w, t) ==
    /\ Leaves([w EXCEPT !.tmr[t] = [Blank EXCEPT !.dly = w.tmr[t].dly, !.next = pool.first]])
    /\ pool' = [first |-> t, free |-> pool.free + 1, used |-> pool.used - 1]

OSTmrDel(t) ==
    /\ tmr[t].state # "UNUSED"
    /\ OSTmr_Free(IF tmr[t].state = "RUNNING" THEN OSTmr_Unlink(Now0, t) ELSE Now0, t)
    /\ expires' = [expires EXCEPT ![t] = -1]
    /\ UNCHANGED <<tmrTime, signals>>

(* A running timer starts anew. *)
OSTmrStart(t) ==
    /\ tmr[t].state # "UNUSED"
    /\ Leaves(OSTmr_Link(IF tmr[t].state = "RUNNING" THEN OSTmr_Unlink(Now0, t) ELSE Now0,
                         t, tmrTime, Turns(tmr[t])))
    /\ expires' = [expires EXCEPT ![t] = Turns(tmr[t])]
    /\ UNCHANGED <<pool, tmrTime, signals>>

(* With or without a call of its callback. *)
OSTmrStop(t) ==
    /\ tmr[t].state = "RUNNING"
    /\ Leaves(OSTmr_Unlink(Now0, t))
    /\ expires' = [expires EXCEPT ![t] = -1]
    /\ UNCHANGED <<pool, tmrTime, signals>>

(* OSTimeTickHook, once in so many ticks. *)
OSTmrSignal ==
    /\ signals < MaxSignals
    /\ signals' = signals + 1
    /\ UNCHANGED <<tmr, wheel, pool, tmrTime, expires>>

(* The timers of one spoke whose time has come: a periodic one is linked     *)
(* again before the next is looked at, at the head of its new spoke.         *)
Expire(w, t, now) ==
    IF w.tmr[t].match # now THEN w
    ELSE IF w.tmr[t].opt = "PERIODIC"
    THEN OSTmr_Link(OSTmr_Unlink(w, t), t, now, w.tmr[t].period)
    ELSE [OSTmr_Unlink(w, t) EXCEPT !.tmr[t].state = "COMPLETED"]

OSTmr_Task ==
    LET now == (tmrTime + 1) % TmrWide IN
    /\ signals > 0
    /\ signals' = signals - 1
    /\ tmrTime' = now
    /\ Leaves(FoldLeft(LAMBDA w, t : Expire(w, t, now), Now0, Chain(tmr, wheel[Spoke(now)].first)))
    /\ expires' = [t \in Timer |->
                     IF expires[t] # 1 THEN IF expires[t] = -1 THEN -1 ELSE expires[t] - 1
                     ELSE IF tmr[t].opt = "PERIODIC" THEN tmr[t].period ELSE -1]
    /\ UNCHANGED pool

OSTmrStateGet(t) == tmr[t].state

OSTmrRemainGet(t) ==
    CASE tmr[t].state = "RUNNING" -> (tmr[t].match - tmrTime) % TmrWide
      [] tmr[t].state = "STOPPED" -> IF tmr[t].opt = "PERIODIC" THEN Turns(tmr[t]) ELSE tmr[t].dly
      [] OTHER -> 0

TimersNext ==
    \/ \E k \in TmrKinds : OSTmrCreate(k[1], k[2], k[3])
    \/ \E t \in Timer : OSTmrDel(t) \/ OSTmrStart(t) \/ OSTmrStop(t)
    \/ OSTmrSignal
    \/ OSTmr_Task

-----------------------------------------------------------------------------
(* Safety. *)

(* Each spoke's list holds the running timers that expire on it and no      *)
(* others, can be walked both ways and is as long as it says; the rest of   *)
(* the free timers are the free list (os_tmr.c 735-786, 950-1028).          *)
WheelIsSound ==
    /\ \A s \in 0 .. WheelSize - 1 :
         LET list == Chain(tmr, wheel[s].first) IN
         /\ ToSet(list) = {t \in Timer : tmr[t].state = "RUNNING" /\ Spoke(tmr[t].match) = s}
         /\ Len(list) = wheel[s].entries /\ IsInjective(list)
         /\ \A i \in 1 .. Len(list) : tmr[list[i]].prev = IF i = 1 THEN Nil ELSE list[i - 1]
    /\ LET list == Chain(tmr, pool.first) IN
         /\ ToSet(list) = {t \in Timer : tmr[t].state = "UNUSED"}
         /\ Len(list) = pool.free /\ pool.free + pool.used = Cardinality(Timer)

(* A timer expires on exactly the turn that was asked for, periodic ones    *)
(* again and again, also when the time wraps between; what is left of it    *)
(* can be asked at any time, and of a stopped one is what a start gives     *)
(* (os_tmr.c 392-418, 957-965, 1078-1115).                                  *)
TimersOnTime ==
    \A t \in Timer :
        /\ expires[t] # -1 <=> OSTmrStateGet(t) = "RUNNING"
        /\ expires[t] # -1 => OSTmrRemainGet(t) = expires[t] /\ expires[t] > 0
        /\ OSTmrStateGet(t) = "STOPPED" => OSTmrRemainGet(t) = Turns(tmr[t])

(* The two together (os_tmr.c 950-1028, 1078-1115). *)
TimersHold == WheelIsSound /\ TimersOnTime
=============================================================================
