------------------------------- MODULE Clock -------------------------------
(***************************************************************************)
(* The HAL's clock: the tick counter and the alarms that run off it, both  *)
(* w bits wide and compared as unsigned numbers across the wrap, the time  *)
(* of day that is kept as a difference to the counter, the cutting of a    *)
(* delay in hours, minutes and seconds into the delays a task can take,    *)
(* and the loop that waits without the clock.                              *)
(***************************************************************************)
EXTENDS Integers

CONSTANTS Alarm,      (* the alarms that are ever started                    *)
          Wide,       (* 2^w: the values of the counter                      *)
          Period,     (* what callbacks return, 0 among them: no more        *)
          TickRate,   (* ticks per second                                    *)
          Us,         (* ALT_US, the units of tv_usec in a second            *)
          Days,       (* the times that settimeofday is given, in ticks      *)
          Asked,      (* the delays asked for: hours, minutes, seconds, ms   *)
          LoopsPerUs, (* ALT_CPU_FREQ in millions, over 3 cycles a loop      *)
          BusyUs,     (* the microseconds that alt_busy_sleep is asked for   *)
          MaxWall     (* bound: the time of day, in ticks                    *)

ASSUME ClockAssumption ==
    /\ Wide \in Nat \ {0} /\ TickRate \in Nat \ {0} /\ MaxWall \in Nat
    /\ Us \in Nat /\ Us % TickRate = 0 /\ Us >= TickRate
    /\ LoopsPerUs \in Nat \ {0} /\ LoopsPerUs < Wide \div 2 /\ BusyUs \subseteq 0 .. Wide - 1
    /\ Period \subseteq 0 .. Wide - 1 /\ Days \subseteq 0 .. MaxWall
    /\ Asked \subseteq [1 .. 4 -> Nat]

VARIABLES
    nticks,     (* _alt_nticks                                               *)
    alarm,      (* each alarm: in the list, its time and its rollover        *)
    resettime,  (* alt_resettime                                             *)
    delay,      (* a task's OSTimeDlyHMSM: asked, ticks to go, loops to go   *)
    busy,       (* alt_busy_sleep: asked, its big_loops and us, -1 when done *)
    due,        (* history: ticks until an alarm must run, or -1             *)
    ran,        (* history: the alarms that ran on the last tick             *)
    wall,       (* history: the time of day in ticks, -1 if it cannot be told *)
    slept       (* history: the ticks or loops that the delay has taken      *)

alarmVars == <<alarm, due, ran>>
wallVars == <<resettime, wall>>
delayVars == <<delay, busy, slept>>
clockVars == <<nticks, alarmVars, wallVars, delayVars>>

Off == [on |-> FALSE, time |-> 0, rollover |-> FALSE]
NoDelay == [asked |-> <<>>, ticks |-> 0, loops |-> 0]
NotBusy == [asked |-> -1, big |-> 0, us |-> -1]

ClockInit ==
    /\ nticks = 0
    /\ alarm = [a \in Alarm |-> Off]
    /\ resettime = [sec |-> 0, usec |-> 0]
    /\ delay = NoDelay
    /\ busy = NotBusy
    /\ due = [a \in Alarm |-> -1]
    /\ ran = {}
    /\ wall = 0
    /\ slept = 0

-----------------------------------------------------------------------------
(* Alarms *)

(* nticks counts after the tick under way, hence the 1. *)
AlarmStart(a, n) ==
    LET time == (n + nticks + 1) % Wide
    IN  /\ ~ alarm[a].on
        /\ alarm' = [alarm EXCEPT ![a] = [on |-> TRUE, time |-> time, rollover |-> time < nticks]]
        /\ due' = [due EXCEPT ![a] = n + 1]
        /\ ran' = {}
        /\ UNCHANGED <<nticks, wallVars, delayVars>>

AlarmStop(a) ==
    /\ alarm[a].on
    /\ alarm' = [alarm EXCEPT ![a] = Off]
    /\ due' = [due EXCEPT ![a] = -1]
    /\ ran' = {}
    /\ UNCHANGED <<nticks, wallVars, delayVars>>

Now == (nticks + 1) % Wide

(* Mutant: the rollover flag is cleared only after the comparison. *)
Expired_Late(a) == alarm[a].on /\ alarm[a].time <= Now /\ ~ alarm[a].rollover

Expired(a) == alarm[a].on /\ alarm[a].time <= Now /\ (alarm[a].rollover => Now = 0)

(* An alarm after its callback returned p. *)
Rearmed(a, p) ==
    LET time == (alarm[a].time + p) % Wide
    IN  IF p = 0 THEN Off ELSE [on |-> TRUE, time |-> time, rollover |-> time < Now]

(* alt_tick; the alarms do not touch one another, so their order is nothing. *)
(* The time of day can be told from the counter until the counter wraps.     *)
Tick ==
    /\ nticks' = Now
    /\ ran' = {a \in Alarm : Expired(a)}
    /\ \E p \in [Alarm -> Period] :
        /\ \A a \in Alarm \ ran' : p[a] = 0
        /\ alarm' = [a \in Alarm |->
                       IF Expired(a) THEN Rearmed(a, p[a])
                       ELSE [alarm[a] EXCEPT !.rollover = @ /\ Now # 0]]
        /\ due' = [a \in Alarm |->
                       IF due[a] = -1 THEN -1
                       ELSE IF a \notin ran' THEN due[a] - 1
                       ELSE IF p[a] = 0 THEN -1 ELSE due[a] - 1 + p[a]]
    /\ wall' = IF wall \in {-1, MaxWall} \/ Now = 0 THEN -1 ELSE wall + 1
    /\ UNCHANGED <<resettime, delayVars>>

AlarmsNext ==
    \/ Tick
    \/ \E a \in Alarm : AlarmStop(a) \/ \E n \in Period : AlarmStart(a, n)

(* An alarm runs on exactly the tick that it was set for, on none before    *)
(* and on none after, also when the counter wraps between (alt_tick.c       *)
(* 109-138, alt_alarm_start.c 82-96).                                       *)
AlarmsOnTime ==
    \A a \in Alarm :
        /\ due[a] # 0
        /\ alarm[a].on <=> due[a] > 0
        /\ alarm[a].on => (alarm[a].time - nticks) % Wide = due[a] % Wide
        /\ a \in ran /\ alarm[a].on => due[a] \in Period

-----------------------------------------------------------------------------
(* Time of day *)

(* What gettimeofday makes of a tv_usec outside 0 .. ALT_US - 1. *)
Normal(sec, usec) ==
    IF usec >= Us THEN [sec |-> sec + 1, usec |-> usec - Us]
    ELSE IF usec >= 0 THEN [sec |-> sec, usec |-> usec]
    ELSE IF sec <= 0 THEN [sec |-> 0, usec |-> 0]
    ELSE [sec |-> sec - 1, usec |-> usec + Us]

GetTimeOfDay ==
    Normal(resettime.sec + nticks \div TickRate,
           resettime.usec + ((nticks * (Us \div TickRate)) % Us))

(* The product is not widened as it is in gettimeofday: it wraps at Wide. *)
SetTimeOfDay(d) ==
    /\ resettime' = [sec |-> d \div TickRate - nticks \div TickRate,
                     usec |-> (d % TickRate) * (Us \div TickRate)
                              - (((nticks * (Us \div TickRate)) % Wide) % Us)]
    /\ wall' = IF nticks * (Us \div TickRate) < Wide THEN d ELSE -1
    /\ UNCHANGED <<nticks, alarmVars, delayVars>>

WallNext == Tick \/ \E d \in Days : SetTimeOfDay(d)

(* The time of day goes on from what it was set to, tick by tick, until the *)
(* counter wraps; a time set so late that settimeofday's product overflows, *)
(* 71 minutes after the start, is exempt (alt_settod.c 82-84).              *)
TimeOfDayGoesOn ==
    wall # -1 => GetTimeOfDay = [sec |-> wall \div TickRate,
                                 usec |-> (wall % TickRate) * (Us \div TickRate)]

-----------------------------------------------------------------------------
(* OSTimeDlyHMSM, at 1000 ticks a second *)

Loop == 32768

AskedTicks(q) == (q[1] * 3600 + q[2] * 60 + q[3]) * 1000 + q[4]

Refused(q) == q = <<0, 0, 0, 0>> \/ q[2] > 59 \/ q[3] > 59 \/ q[4] > 999

(* Each loop is two delays of 32768. *)
OSTimeDlyHMSM(q) ==
    /\ delay = NoDelay /\ busy = NotBusy
    /\ delay' = IF Refused(q) THEN [NoDelay EXCEPT !.asked = q]
                ELSE [asked |-> q, ticks |-> AskedTicks(q) % 65536, loops |-> 2 * (AskedTicks(q) \div 65536)]
    /\ slept' = 0
    /\ UNCHANGED <<nticks, alarmVars, wallVars, busy>>

(* One OSTimeDly of it is over. *)
DelayPart ==
    /\ delay.ticks > 0 \/ delay.loops > 0
    /\ IF delay.ticks > 0
       THEN slept' = slept + delay.ticks /\ delay' = [delay EXCEPT !.ticks = 0]
       ELSE slept' = slept + Loop /\ delay' = [delay EXCEPT !.loops = @ - 1]
    /\ UNCHANGED <<nticks, alarmVars, wallVars, busy>>

(* In long waits the loop counts down from INT_MAX as often as that fits.   *)
IntMax == Wide \div 2 - 1
UsPerBigLoop == IntMax \div LoopsPerUs

alt_busy_sleep(us) ==
    /\ delay = NoDelay /\ busy = NotBusy
    /\ busy' = [asked |-> us, big |-> us \div UsPerBigLoop, us |-> us]
    /\ UNCHANGED <<nticks, alarmVars, wallVars, delay, slept>>

BigLoop ==
    /\ busy.big > 0
    /\ busy' = [busy EXCEPT !.big = @ - 1, !.us = @ - UsPerBigLoop]
    /\ slept' = slept + IntMax
    /\ UNCHANGED <<nticks, alarmVars, wallVars, delay>>

(* What is left.  After big loops the counter runs until it is 0, which it  *)
(* starts from if they were the whole of it; otherwise until it is at most 0. *)
RestOfLoop ==
    LET n == busy.us * LoopsPerUs IN
    /\ busy.big = 0 /\ busy.us >= 0
    /\ slept' = slept + (IF n > 0 THEN n ELSE IF busy.asked > 0 THEN Wide ELSE 1)
    /\ busy' = [busy EXCEPT !.us = -1]
    /\ UNCHANGED <<nticks, alarmVars, wallVars, delay>>

DelayNext ==
    \/ DelayPart \/ \E q \in Asked : OSTimeDlyHMSM(q)
    \/ BigLoop \/ RestOfLoop \/ \E us \in BusyUs : alt_busy_sleep(us)

(* A task sleeps exactly as long as it asked, however the ticks are cut     *)
(* into 16 bits, or not at all: the rover's 1500 ms are refused             *)
(* (os_time.c 106-136, nav.c 87).                                           *)
DelayIsWhole ==
    delay.asked # <<>> /\ delay.ticks = 0 /\ delay.loops = 0 =>
        slept = IF Refused(delay.asked) THEN 0 ELSE AskedTicks(delay.asked)

(* A busy wait runs its loop at least as often as its microseconds need, and *)
(* more often by no more than the rounding of the big loops, unless these    *)
(* are the whole of it: the counter then wraps (alt_busy_sleep.c 52-133).    *)
BusyWaitIsLongEnough ==
    busy.asked >= 0 /\ busy.us = -1 =>
        LET asked == busy.asked * LoopsPerUs
            bigLoops == busy.asked \div UsPerBigLoop
        IN  /\ slept >= asked
            /\ slept <= asked + 1 + bigLoops * (LoopsPerUs - 1)
                 \/ busy.asked % UsPerBigLoop = 0

-----------------------------------------------------------------------------
(* All of it: what runs off the tick runs when it was asked to, and a wait   *)
(* lasts as long as it was asked to (alt_tick.c 109-138, alt_settod.c 82-84, *)
(* os_time.c 106-136, alt_busy_sleep.c 52-133).                              *)
ClockHolds == AlarmsOnTime /\ TimeOfDayGoesOn /\ DelayIsWhole /\ BusyWaitIsLongEnough
=============================================================================
