------------------------------ MODULE Console ------------------------------
(***************************************************************************)
(* The JTAG UART driver behind printf and scanf: two rings of bytes        *)
(* between the tasks and an interrupt handler, a lock for each direction   *)
(* and one event flag group.  Tasks are preempted between any two          *)
(* accesses; the handler and the alarm run to their end.  A byte to send   *)
(* is known by the task that wrote it; received bytes are only counted.    *)
(***************************************************************************)
EXTENDS Integers, FiniteSets, SequencesExt

CONSTANTS Printer,       (* tasks that print, each of its own priority       *)
          Scanner,       (* the task that reads, the least urgent            *)
          Urgency,       (* Urgency[t] < Urgency[u]: t preempts u            *)
          BufLen,        (* ALTERA_AVALON_JTAG_UART_BUF_LEN                  *)
          Depth,         (* bytes the hardware holds in each direction       *)
          MaxPrint,      (* bound: bytes of one write or read                *)
          Timeout,       (* seconds until the host counts as gone            *)
          MaxInactive    (* where host_inactive stops: INT_MAX - 2           *)

ASSUME ConsoleAssumption ==
    /\ BufLen \in Nat \ {0, 1} /\ Depth \in Nat \ {0} /\ MaxPrint \in Nat \ {0}
    /\ MaxInactive \in Nat /\ Timeout \in 1 .. MaxInactive
    /\ Scanner \notin Printer /\ "nobody" \notin Printer \cup {Scanner}

VARIABLES
    tx,        (* tx_in, tx_out and tx_buf                                   *)
    rx,        (* rx_in and rx_out                                           *)
    irqEnable, (* irq_enable: "WE" and "RE" as written to the hardware       *)
    events,    (* the flags of sp->events that are set                       *)
    lock,      (* write_lock and read_lock: who holds them                   *)
    host,      (* bytes in the hardware, host_inactive, the AC bit           *)
    con,       (* each task: where it is, bytes left, its copies of in, out  *)
    parked,    (* tasks another task has suspended                           *)
    owed       (* history: the bytes accepted and not yet sent, in order     *)

consoleVars == <<tx, rx, irqEnable, events, lock, host, con, parked, owed>>

User == Printer \cup {Scanner}
Free == "nobody"
Ring == 0 .. BufLen - 1

Outside == [pc |-> "idle", left |-> 0, in |-> 0, out |-> 0, got |-> FALSE]

ConsoleInit ==
    /\ tx = [in |-> 0, out |-> 0, buf |-> [i \in Ring |-> Free]]
    /\ rx = [in |-> 0, out |-> 0]
    /\ irqEnable = {"RE"}
    /\ events = {}
    /\ lock = [write |-> Free, read |-> Free]
    /\ host = [tx |-> 0, rx |-> 0, inactive |-> 0, ac |-> FALSE, timeout |-> Timeout]
    /\ con = [t \in User |-> Outside]
    /\ parked = {}
    /\ owed = <<>>

-----------------------------------------------------------------------------
(* The scheduler: the most urgent task that is not blocked runs. *)

TxReady == events \cap {"WRITE_RDY", "TIMEOUT"}
RxReady == events \cap {"READ_RDY", "TIMEOUT"}

Blocked(t) ==
    \/ t \in parked
    \/ con[t].pc = "idle"
    \/ con[t].pc = "wlock" /\ lock.write # Free
    \/ con[t].pc = "rlock" /\ lock.read # Free
    \/ con[t].pc = "wwait" /\ TxReady = {}
    \/ con[t].pc = "rwait" /\ RxReady = {}

MayUse(t) == t \notin parked /\ \A u \in User \ {t} : Urgency[u] < Urgency[t] => Blocked(u)
AtPc(t, pc) == MayUse(t) /\ con[t].pc = pc
Go(t, pc) == con' = [con EXCEPT ![t].pc = pc]
LeaveDriver(t) == con' = [con EXCEPT ![t] = Outside]

EnterDriver(t, pc, n) ==
    /\ AtPc(t, "idle")
    /\ con' = [con EXCEPT ![t] = [@ EXCEPT !.pc = pc, !.left = n]]
    /\ UNCHANGED <<tx, rx, irqEnable, events, lock, host, parked, owed>>

(* Suspension by a task outside the driver, as nav.c does to tasks that print; *)
(* bound: one task at a time.                                               *)
Park(t) ==
    /\ \E u \in User \ {t} : AtPc(u, "idle")
    /\ parked = {}
    /\ parked' = parked \cup {t}
    /\ UNCHANGED <<tx, rx, irqEnable, events, lock, host, con, owed>>

Unpark(t) ==
    /\ t \in parked
    /\ \E u \in User \ {t} : AtPc(u, "idle")
    /\ parked' = parked \ {t}
    /\ UNCHANGED <<tx, rx, irqEnable, events, lock, host, con, owed>>

-----------------------------------------------------------------------------
(* altera_avalon_jtag_uart_write *)

TxSpace(in, out) ==
    IF in < out THEN out - 1 - in ELSE IF out > 0 THEN BufLen - in ELSE BufLen - 1 - in

WriteLock(t) ==
    /\ AtPc(t, "wlock") /\ lock.write = Free
    /\ lock' = [lock EXCEPT !.write = t]
    /\ Go(t, "snap")
    /\ UNCHANGED <<tx, rx, irqEnable, events, host, parked, owed>>

WriteSnapshot(t) ==
    /\ AtPc(t, "snap")
    /\ con' = [con EXCEPT ![t] = IF TxSpace(tx.in, tx.out) = 0
                                 THEN [@ EXCEPT !.out = tx.out, !.pc = "kick"]
                                 ELSE [@ EXCEPT !.in = tx.in, !.out = tx.out, !.pc = "copy"]]
    /\ UNCHANGED <<tx, rx, irqEnable, events, lock, host, parked, owed>>

WriteCopy(t) ==
    LET in == con[t].in
        n == IF TxSpace(in, con[t].out) > con[t].left THEN con[t].left ELSE TxSpace(in, con[t].out)
    IN  /\ AtPc(t, "copy")
        /\ tx' = [tx EXCEPT !.in = (in + n) % BufLen,
                            !.buf = [i \in Ring |-> IF i \in in .. in + n - 1 THEN t ELSE @[i]]]
        /\ owed' = owed \o [i \in 1 .. n |-> t]
        /\ con' = [con EXCEPT ![t] = [@ EXCEPT !.left = con[t].left - n, !.in = 0,
                       !.pc = IF con[t].left > n THEN "snap" ELSE "kick"]]
        /\ UNCHANGED <<rx, irqEnable, events, lock, host, parked>>

WriteKick(t) ==
    /\ AtPc(t, "kick")
    /\ irqEnable' = irqEnable \cup {"WE"}
    /\ \/ con[t].left > 0 /\ Go(t, "wwait")
       \/ Go(t, "wpost") \* all is copied, or the descriptor is O_NONBLOCK
    /\ UNCHANGED <<tx, rx, events, lock, host, parked, owed>>

WriteWait(t) ==
    /\ AtPc(t, "wwait") /\ TxReady # {}
    /\ events' = events \ TxReady
    /\ Go(t, IF con[t].out = tx.out THEN "wpost" ELSE "snap")
    /\ UNCHANGED <<tx, rx, irqEnable, lock, host, parked, owed>>

WritePost(t) ==
    /\ AtPc(t, "wpost")
    /\ lock' = [lock EXCEPT !.write = Free]
    /\ LeaveDriver(t)
    /\ UNCHANGED <<tx, rx, irqEnable, events, host, parked, owed>>

(* altera_avalon_jtag_uart_close polls until the ring is empty or the host gone. *)
CloseConsole(t) ==
    /\ AtPc(t, "close")
    /\ tx.out = tx.in \/ host.inactive >= host.timeout
    /\ LeaveDriver(t)
    /\ UNCHANGED <<tx, rx, irqEnable, events, lock, host, parked, owed>>

-----------------------------------------------------------------------------
(* altera_avalon_jtag_uart_read *)

RxCount(in, out) == IF in >= out THEN in - out ELSE BufLen - out

ReadLock(t) ==
    /\ AtPc(t, "rlock") /\ lock.read = Free
    /\ lock' = [lock EXCEPT !.read = t]
    /\ Go(t, "fetch")
    /\ UNCHANGED <<tx, rx, irqEnable, events, host, parked, owed>>

(* One round of the inner loop: in is read, then n bytes are taken. *)
ReadFetch(t) ==
    LET n == IF RxCount(rx.in, rx.out) > con[t].left THEN con[t].left ELSE RxCount(rx.in, rx.out)
    IN  /\ AtPc(t, "fetch")
        /\ rx' = [rx EXCEPT !.out = (@ + n) % BufLen]
        /\ con' = [con EXCEPT ![t] = [@ EXCEPT !.left = con[t].left - n, !.in = rx.in,
                       !.got = con[t].got \/ n > 0,
                       !.pc = IF n > 0 /\ con[t].left > n THEN "fetch"
                              ELSE IF n > 0 \/ con[t].got THEN "rpost" ELSE "rwait"]]
        /\ UNCHANGED <<tx, irqEnable, events, lock, host, parked, owed>>

ReadWait(t) ==
    /\ AtPc(t, "rwait") /\ RxReady # {}
    /\ events' = events \ RxReady
    /\ Go(t, IF con[t].in = rx.in THEN "rpost" ELSE "fetch")
    /\ UNCHANGED <<tx, rx, irqEnable, lock, host, parked, owed>>

ReadPost(t) ==
    /\ AtPc(t, "rpost")
    /\ lock' = [lock EXCEPT !.read = Free]
    /\ IF con[t].got THEN Go(t, "rearm") ELSE LeaveDriver(t)
    /\ UNCHANGED <<tx, rx, irqEnable, events, host, parked, owed>>

ReadRearm(t) ==
    /\ AtPc(t, "rearm")
    /\ irqEnable' = irqEnable \cup {"RE"}
    /\ LeaveDriver(t)
    /\ UNCHANGED <<tx, rx, events, lock, host, parked, owed>>

-----------------------------------------------------------------------------
(* altera_avalon_jtag_uart_irq, the alarm and the host *)

RI == "RE" \in irqEnable /\ host.rx > 0
WI == "WE" \in irqEnable /\ host.tx < Depth
TxUsed == (tx.in - tx.out) % BufLen
RxFree == (rx.out - rx.in - 1) % BufLen
Fewer(a, b) == IF a < b THEN a ELSE b
Posts(n, flag) == IF n > 0 THEN {flag} ELSE {}

(* Mutant: having sent something, the handler takes itself for done. *)
IrqEnabled_AfterSending(r, w) ==
    {e \in irqEnable : (e = "RE" => ~ (RI /\ host.rx > r)) /\ (e = "WE" => ~ (WI /\ w > 0))}

(* What the handler leaves enabled after it took r bytes and sent w. *)
IrqEnabled(r, w) ==
    {e \in irqEnable : /\ e = "RE" => ~ (RI /\ host.rx > r)
                       /\ e = "WE" => ~ (WI /\ Depth - host.tx > w)}

Irq ==
    LET r == IF RI THEN Fewer(host.rx, RxFree) ELSE 0
        w == IF WI THEN Fewer(Depth - host.tx, TxUsed) ELSE 0
    IN  /\ RI \/ WI
        /\ rx' = [rx EXCEPT !.in = (@ + r) % BufLen]
        /\ tx' = [tx EXCEPT !.out = (@ + w) % BufLen,
                            !.buf = [i \in Ring |-> IF (i - tx.out) % BufLen < w THEN Free ELSE @[i]]]
        /\ host' = [host EXCEPT !.rx = @ - r, !.tx = @ + w]
        /\ events' = events \cup Posts(r, "READ_RDY") \cup Posts(w, "WRITE_RDY")
        /\ irqEnable' = IrqEnabled(r, w)
        /\ owed' = SubSeq(owed, w + 1, Len(owed))
        /\ UNCHANGED <<lock, con, parked>>

(* altera_avalon_jtag_uart_timeout, once a second *)
InactiveAlarm ==
    /\ host' = [host EXCEPT !.ac = FALSE,
                            !.inactive = IF host.ac THEN 0
                                         ELSE IF @ < MaxInactive THEN @ + 1 ELSE @]
    /\ events' = events \cup IF ~ host.ac /\ host.inactive < MaxInactive /\ host.inactive + 1 >= host.timeout
                             THEN {"TIMEOUT"} ELSE {}
    /\ UNCHANGED <<tx, rx, irqEnable, lock, con, parked, owed>>

(* TIOCSTIMEOUT; an argument below 2 stands for never. *)
SetTimeout(s) ==
    /\ \E t \in User : AtPc(t, "idle")
    /\ host' = [host EXCEPT !.timeout = IF s >= 2 THEN s ELSE MaxInactive + 1]
    /\ UNCHANGED <<tx, rx, irqEnable, events, lock, con, parked, owed>>

(* The host takes a byte, or sends one: what raises AC. *)
HostTakes ==
    /\ host.tx > 0
    /\ host' = [host EXCEPT !.tx = @ - 1, !.ac = TRUE]
    /\ UNCHANGED <<tx, rx, irqEnable, events, lock, con, parked, owed>>

HostSends ==
    /\ host.rx < Depth
    /\ host' = [host EXCEPT !.rx = @ + 1, !.ac = TRUE]
    /\ UNCHANGED <<tx, rx, irqEnable, events, lock, con, parked, owed>>

PrintNext ==
    \/ \E t \in Printer : \/ \E n \in 1 .. MaxPrint : EnterDriver(t, "wlock", n)
                          \/ EnterDriver(t, "close", 0)
                          \/ WriteLock(t) \/ WriteSnapshot(t) \/ WriteCopy(t) \/ WriteKick(t)
                          \/ WriteWait(t) \/ WritePost(t) \/ CloseConsole(t)
                          \/ Park(t) \/ Unpark(t)
    \/ Irq \/ InactiveAlarm \/ HostTakes

ScanNext ==
    \/ \E n \in 1 .. MaxPrint : EnterDriver(Scanner, "rlock", n)
    \/ ReadLock(Scanner) \/ ReadFetch(Scanner) \/ ReadWait(Scanner) \/ ReadPost(Scanner) \/ ReadRearm(Scanner)
    \/ Irq \/ InactiveAlarm \/ HostSends
    \/ \E s \in 1 .. 2 : SetTimeout(s)

-----------------------------------------------------------------------------
(* Safety. *)

(* What waits in the transmit ring is what the tasks' writes were accepted  *)
(* for, byte for byte in the order of acceptance (write.c 98-126, 194).     *)
BytesInOrder ==
    /\ TxUsed = Len(owed)
    /\ \A i \in 1 .. Len(owed) : tx.buf[(tx.out + i - 1) % BufLen] = owed[i]

(* Bytes wait in the ring only while the handler is enabled or the writer   *)
(* is about to enable it; a task sleeps for space only while none was freed *)
(* since it looked; the receiver is off only while bytes wait for a reader  *)
(* or a reader is about to enable it (write.c 106-164, init.c 156, 186).     *)
ConsoleKeepsMoving ==
    /\ owed # <<>> => \/ "WE" \in irqEnable
                      \/ \E t \in Printer : con[t].pc \in {"snap", "copy", "kick"}
    /\ \A t \in Printer : con[t].pc = "wwait" /\ "WRITE_RDY" \notin events => tx.out = con[t].out
    /\ con[Scanner].pc = "rwait" /\ "READ_RDY" \notin events => rx.in = con[Scanner].in
    /\ "RE" \notin irqEnable => \/ rx.in # rx.out
                                \/ con[Scanner].pc \in {"fetch", "rpost", "rearm"}

(* The two together: no byte is lost, mixed with another's or left lying, and *)
(* no task is left asleep (altera_avalon_jtag_uart_write.c 98-202,           *)
(* altera_avalon_jtag_uart_init.c 106-197).                                  *)
ConsoleHolds == BytesInOrder /\ ConsoleKeepsMoving
=============================================================================
