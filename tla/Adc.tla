-------------------------------- MODULE Adc --------------------------------
(***************************************************************************)
(* ADC_Read and the ADC_READ controller: two tasks share one start bit,    *)
(* one channel register and one result, without a lock.  The controller    *)
(* starts on a rising edge of the start bit, picks the channel up while it *)
(* shifts, and latches the result; its own clock runs between any two      *)
(* accesses of the tasks.  A conversion takes sixteen clocks, so that it   *)
(* is over when the 10 ms that ADC_Read sleeps are.  Which channel the     *)
(* chip converts in a frame is taken to be the one the frame selects.      *)
(***************************************************************************)
EXTENDS Integers

CONSTANTS Reader,   (* tasks, by their priorities                            *)
          Channels  (* the channels read                                     *)

ASSUME AdcAssumption == Reader \subseteq Nat

VARIABLES
    adcReg,    (* TERASIC_ADC_READ: Start and Channel                        *)
    hw,        (* ADC_READ: st, start_en, the channel shifted out, Data      *)
    adc,       (* each task: where it is in ADC_Read, and its channel        *)
    disturbed, (* history: tasks in whose call another wrote the registers,  *)
               (* or that began while a conversion was under way             *)
    sleeper    (* a task that another has suspended, or 0                    *)

adcVars == <<adcReg, hw, adc, disturbed, sleeper>>

None == -1
Out == [pc |-> "out", ch |-> None, got |-> None]

AdcInit ==
    /\ adcReg = [start |-> FALSE, channel |-> None]
    /\ hw = [st |-> "st_00", start_en |-> FALSE, shifted |-> None, data |-> None]
    /\ adc = [t \in Reader |-> Out]
    /\ disturbed = {}
    /\ sleeper = 0

-----------------------------------------------------------------------------
(* ADC_Read *)

(* A more urgent task lets others run while it sleeps, in ADC_Read or out of it. *)
Asleep(t) == adc[t].pc \in {"out", "sleep"} \/ t = sleeper
MayStep(t, pc) == /\ t # sleeper /\ adc[t].pc = pc
                  /\ \A u \in Reader : u < t => Asleep(u)
InCall(t) == adc[t].pc # "out"
Disturb(t) == {u \in Reader \ {t} : InCall(u)}

Call(t, ch) ==
    /\ MayStep(t, "out")
    /\ adc' = [adc EXCEPT ![t] = [pc |-> "select", ch |-> ch, got |-> None]]
    /\ disturbed' = disturbed \ {t}
    /\ UNCHANGED <<adcReg, hw, sleeper>>

(* Mutant: the first write, which only clears the start bit, is left out. *)
Select_Skipped(t) ==
    /\ MayStep(t, "select")
    /\ adc' = [adc EXCEPT ![t].pc = "start"]
    /\ disturbed' = disturbed \cup Disturb(t)
    /\ UNCHANGED <<adcReg, hw, sleeper>>

(* The first write takes the start bit away, and does not set the channel: *)
(* the controller takes the channel only along with the start bit.         *)
Select(t) ==
    /\ MayStep(t, "select")
    /\ adcReg' = [adcReg EXCEPT !.start = FALSE]
    /\ adc' = [adc EXCEPT ![t].pc = "start"]
    /\ disturbed' = disturbed \cup Disturb(t)
    /\ UNCHANGED <<hw, sleeper>>

StartConversion(t) ==
    /\ MayStep(t, "start")
    /\ adcReg' = [start |-> TRUE, channel |-> adc[t].ch]
    /\ hw' = [hw EXCEPT !.start_en = @ \/ ~ adcReg.start]
    /\ adc' = [adc EXCEPT ![t].pc = "sleep"]
    /\ disturbed' = disturbed \cup Disturb(t)
                    \cup IF hw.st = "st_01" \/ hw.start_en THEN {t} ELSE {}
    /\ UNCHANGED sleeper

(* After usleep the polls find the done flag, or give up and return 0. *)
Poll(t) ==
    /\ MayStep(t, "sleep")
    /\ \/ t \in disturbed
       \/ hw.st \in {"st_00", "st_03"} /\ ~ hw.start_en
    /\ adc' = [adc EXCEPT ![t].pc = "stop", ![t].got = IF hw.st = "st_03" THEN hw.data ELSE None]
    /\ UNCHANGED <<adcReg, hw, disturbed, sleeper>>

Stop(t) ==
    /\ MayStep(t, "stop")
    /\ adcReg' = [adcReg EXCEPT !.start = FALSE]
    /\ adc' = [adc EXCEPT ![t].pc = "return"]
    /\ disturbed' = disturbed \cup Disturb(t)
    /\ UNCHANGED <<hw, sleeper>>

ReturnVoltage(t) ==
    /\ MayStep(t, "return")
    /\ adc' = [adc EXCEPT ![t] = Out]
    /\ UNCHANGED <<adcReg, hw, disturbed, sleeper>>

(* Navigation_Task suspends Servo_Task wherever that is, and resumes it. *)
Suspend(t) ==
    /\ \E u \in Reader : u < t /\ MayStep(u, "out")
    /\ sleeper = 0
    /\ sleeper' = t
    /\ UNCHANGED <<adcReg, hw, adc, disturbed>>

Resume ==
    /\ sleeper # 0
    /\ \E u \in Reader : MayStep(u, "out")
    /\ sleeper' = 0
    /\ UNCHANGED <<adcReg, hw, adc, disturbed>>

-----------------------------------------------------------------------------
(* ADC_READ *)

BeginFrame ==
    /\ hw.st \in {"st_00", "st_03"} /\ hw.start_en
    /\ hw' = [hw EXCEPT !.st = "st_01", !.shifted = None]
    /\ UNCHANGED <<adcReg, adc, disturbed, sleeper>>

ShiftChannel ==
    /\ hw.st = "st_01" /\ hw.shifted = None
    /\ hw' = [hw EXCEPT !.shifted = adcReg.channel]
    /\ UNCHANGED <<adcReg, adc, disturbed, sleeper>>

(* st_02: the result is latched and start_en acknowledged, whichever start *)
(* had set it.                                                             *)
Latch ==
    /\ hw.st = "st_01" /\ hw.shifted # None
    /\ hw' = [st |-> "st_03", start_en |-> FALSE, shifted |-> None, data |-> hw.shifted]
    /\ UNCHANGED <<adcReg, adc, disturbed, sleeper>>

AdcNext ==
    \/ \E t \in Reader : \/ \E ch \in Channels : Call(t, ch)
                         \/ Select(t) \/ StartConversion(t) \/ Poll(t) \/ Stop(t) \/ ReturnVoltage(t)
                         \/ Suspend(t)
    \/ Resume
    \/ BeginFrame \/ ShiftChannel \/ Latch

-----------------------------------------------------------------------------
(* A call that no other task's call touches returns a conversion of its own *)
(* channel, begun by its own start, even right after another call was       *)
(* suspended or resumed half-way; what a task gets is never older than its   *)
(* call (adc_spi_read.c 15-26).                                             *)
ReadingIsOwn ==
    \A t \in Reader : adc[t].pc \in {"stop", "return"} /\ t \notin disturbed => adc[t].got = adc[t].ch
=============================================================================
