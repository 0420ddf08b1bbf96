------------------------------ MODULE Compass ------------------------------
(***************************************************************************)
(* The compass on its two-wire bus, which the processor drives by hand     *)
(* through two parallel ports: every access of a port is a step, and the   *)
(* device, of which only the protocol is modelled, answers to the edges it *)
(* sees.  A byte has Bits bits.  The device may refuse to acknowledge.     *)
(***************************************************************************)
EXTENDS Integers, SequencesExt

CONSTANTS Bits,       (* of a byte: 8                                        *)
          DeviceAddr, (* the device's address for writing, an even number    *)
          Registers,  (* the registers that transfers start at               *)
          MaxLen,     (* bound: bytes of one multiple transfer               *)
          MaxRefused  (* bound: how often the device refuses                 *)

ASSUME CompassAssumption ==
    /\ Bits \in Nat \ {0} /\ MaxLen \in Nat \ {0} /\ MaxRefused \in Nat
    /\ DeviceAddr \in Nat /\ DeviceAddr % 2 = 0 /\ DeviceAddr < 2 ^ Bits
    /\ Registers \subseteq 0 .. 2 ^ Bits - 1

VARIABLES
    line,    (* the two ports: SCL, SDA's output and its direction           *)
    dev,     (* the device: what it expects, bits of it, what it drives      *)
    regs,    (* the device's registers                                       *)
    call,    (* the call of I2C.c under way, and I2C_Verify's around it      *)
    ops,     (* the port accesses of the current routine still to make       *)
    refused, (* how often the device has refused                             *)
    heard,   (* history: what the device took for starts, bytes and stops    *)
    said     (* history: what the routines meant                             *)

compassVars == <<line, dev, regs, call, ops, refused, heard, said>>

Byte == 0 .. 2 ^ Bits - 1
Bit(v, i) == (v \div 2 ^ (Bits - i)) % 2
Value(bits) == FoldLeft(LAMBDA v, b : 2 * v + b, 0, bits)
Quiet == [kind |-> "none", reg |-> 0, data |-> <<>>, len |-> 0, at |-> 0,
          ok |-> TRUE, bits |-> <<>>, got |-> <<>>]
Listening == [phase |-> "idle", bits |-> <<>>, drive |-> 1, reg |-> 0, nack |-> FALSE]

CompassInit ==
    /\ line = [scl |-> 1, sda |-> 1, out |-> TRUE]
    /\ dev = Listening
    /\ regs = [r \in Byte |-> (r + 1) % 2 ^ Bits]
    /\ call = Quiet
    /\ ops = <<>>
    /\ refused = 0
    /\ heard = <<>>
    /\ said = <<>>

-----------------------------------------------------------------------------
(* The device, as the driver relies on it. *)

(* The wire is high unless somebody pulls it down. *)
Wire(l, d) == IF l.out /\ l.sda = 0 THEN 0 ELSE d.drive

Receives(d) == d.phase \in {"address", "register", "write"}

(* The byte it has received is complete: whether it is for this device. *)
Mine(d) == d.phase # "address" \/ Value(d.bits) \div 2 = DeviceAddr \div 2

NextPhase(d) ==
    IF d.nack THEN "deaf"
    ELSE IF d.phase = "address" THEN IF Value(d.bits) % 2 = 1 THEN "send" ELSE "register"
    ELSE "write"

(* On the falling edge it puts the next bit of its register on the wire. *)
Sending(d) == [d EXCEPT !.drive = Bit(regs[d.reg], Len(d.bits) + 1), !.bits = Append(@, 0)]

Rise(d, sda) ==
    IF Receives(d) /\ Len(d.bits) < Bits THEN [d EXCEPT !.bits = Append(@, sda)]
    ELSE IF d.phase = "acked" THEN [d EXCEPT !.nack = sda = 1]
    ELSE d

(* Bits received or sent, an acknowledge bit, and then the next byte. *)
Fall(d, refuses) ==
    CASE Receives(d) /\ Len(d.bits) = Bits /\ d.drive = 1 /\ ~ d.nack ->
           IF refuses \/ ~ Mine(d) THEN [d EXCEPT !.nack = TRUE] ELSE [d EXCEPT !.drive = 0]
      [] Receives(d) /\ Len(d.bits) = Bits ->
           LET n == [d EXCEPT !.phase = NextPhase(d), !.bits = <<>>, !.drive = 1, !.nack = FALSE,
                     !.reg = IF d.phase = "register" THEN Value(d.bits)
                             ELSE IF d.phase = "write" THEN (@ + 1) % 2 ^ Bits ELSE @]
           IN  IF n.phase = "send" THEN Sending(n) ELSE n
      [] d.phase = "send" /\ Len(d.bits) < Bits -> Sending(d)
      [] d.phase = "send" -> [d EXCEPT !.phase = "acked", !.drive = 1]
      [] d.phase = "acked" ->
           IF d.nack THEN [d EXCEPT !.phase = "deaf", !.nack = FALSE, !.bits = <<>>]
           ELSE Sending([d EXCEPT !.phase = "send", !.bits = <<>>, !.reg = (@ + 1) % 2 ^ Bits])
      [] OTHER -> d

(* What the device makes of a new state of the ports. *)
Takes(l) ==
    LET old == Wire(line, dev)
        new == Wire(l, dev)
        full == Receives(dev) /\ Len(dev.bits) = Bits /\ dev.drive = 1 /\ ~ dev.nack
    IN  /\ line' = l
        /\ \/ /\ line.scl = 1 /\ l.scl = 1 /\ old # new
              /\ dev' = [Listening EXCEPT !.phase = IF new = 0 THEN "address" ELSE "idle",
                                          !.reg = dev.reg]
              /\ heard' = Append(heard, IF new = 0 THEN "S" ELSE "P")
              /\ UNCHANGED <<regs, refused>>
           \/ /\ line.scl = 0 /\ l.scl = 1
              /\ dev' = Rise(dev, new)
              /\ UNCHANGED <<regs, refused, heard>>
           \/ /\ line.scl = 1 /\ l.scl = 0
              /\ \E r \in {FALSE, full /\ refused < MaxRefused} :
                    /\ dev' = Fall(dev, r)
                    /\ refused' = IF r THEN refused + 1 ELSE refused
              /\ heard' = IF full \/ (dev.phase = "send" /\ Len(dev.bits) = Bits)
                          THEN Append(heard, IF full THEN Value(dev.bits) ELSE regs[dev.reg])
                          ELSE heard
              /\ regs' = IF full /\ dev'.drive = 0 /\ dev.phase = "write"
                         THEN [regs EXCEPT ![dev.reg] = Value(dev.bits)] ELSE regs
           \/ /\ line.scl = l.scl /\ (l.scl = 1 => old = new)
              /\ UNCHANGED <<dev, regs, refused, heard>>

-----------------------------------------------------------------------------
(* The routines, as the accesses of the ports they make. *)

Scl(b) == <<"scl", b>>
Sda(b) == <<"sda", b>>
DirOut == <<"dir", 1>>
DirIn == <<"dir", 0>>

i2c_start == <<DirOut, Sda(1), Scl(1), Sda(0), Scl(0)>>

i2c_stop == <<DirOut, Sda(0), Scl(1), Sda(1)>>

(* Mutant: a bit is put on the wire while the clock is high. *)
i2c_write_ClockFirst(v) ==
    <<DirOut>> \o FlattenSeq([i \in 1 .. Bits |-> <<Scl(1), Sda(Bit(v, i)), Scl(0)>>])
               \o <<DirIn, Scl(1), <<"ack", 0>>, Scl(0)>>

i2c_write(v) ==
    <<DirOut>> \o FlattenSeq([i \in 1 .. Bits |-> <<Scl(0), Sda(Bit(v, i)), Scl(1), Scl(0)>>])
               \o <<DirIn, Scl(1), <<"ack", 0>>, Scl(0)>>

i2c_read(ack) ==
    <<DirIn, Scl(0)>> \o FlattenSeq([i \in 1 .. Bits |-> <<Scl(1), <<"get", 0>>, Scl(0)>>])
        \o <<<<"got", 0>>, DirOut, Sda(IF ack THEN 0 ELSE 1), Scl(1), Scl(0), Sda(0)>>

(* One access.  "ack" and "get" read SDA, "got" ends a byte. *)
Access ==
    /\ ops # <<>>
    /\ ops' = Tail(ops)
    /\ LET op == Head(ops)
       IN  \/ /\ op[1] = "scl" /\ Takes([line EXCEPT !.scl = op[2]]) /\ UNCHANGED <<call, said>>
           \/ /\ op[1] = "sda" /\ Takes([line EXCEPT !.sda = op[2]]) /\ UNCHANGED <<call, said>>
           \/ /\ op[1] = "dir" /\ Takes([line EXCEPT !.out = (op[2] = 1)]) /\ UNCHANGED <<call, said>>
           \/ /\ op[1] = "ack" /\ call' = [call EXCEPT !.ok = Wire(line, dev) = 0]
              /\ UNCHANGED <<line, dev, regs, refused, heard, said>>
           \/ /\ op[1] = "get" /\ call' = [call EXCEPT !.bits = Append(@, Wire(line, dev))]
              /\ UNCHANGED <<line, dev, regs, refused, heard, said>>
           \/ /\ op[1] = "got"
              /\ call' = [call EXCEPT !.got = Append(@, Value(call.bits)), !.bits = <<>>]
              /\ said' = Append(said, Value(call.bits))
              /\ UNCHANGED <<line, dev, regs, refused, heard>>

-----------------------------------------------------------------------------
(* The four transfers: what each does, routine by routine, while it succeeds. *)

StartBit == [do |-> "start"]
Write(v) == [do |-> "write", v |-> v]
Read(ack) == [do |-> "read", ack |-> ack]

I2C_Write(c) == <<StartBit, Write(DeviceAddr), Write(c.reg), Write(c.data[1])>>
I2C_MultipleWrite(c) ==
    <<StartBit, Write(DeviceAddr), Write(c.reg)>> \o [i \in 1 .. Len(c.data) |-> Write(c.data[i])]
I2C_Read(c) == <<StartBit, Write(DeviceAddr), Write(c.reg), StartBit, Write(DeviceAddr + 1), Read(FALSE)>>
I2C_MultipleRead(c) ==
    <<StartBit, Write(DeviceAddr), Write(c.reg), StartBit, Write(DeviceAddr + 1)>>
        \o [i \in 1 .. c.len |-> Read(i # c.len)]

Plan(c) == CASE c.kind = "write" -> I2C_Write(c)
             [] c.kind = "writes" -> I2C_MultipleWrite(c)
             [] c.kind = "read" -> I2C_Read(c)
             [] c.kind = "reads" -> I2C_MultipleRead(c)

BeginTransfer(c) ==
    /\ call.kind = "none" /\ ops = <<>>
    /\ call' = c
    /\ heard' = <<>> /\ said' = <<>>
    /\ UNCHANGED <<line, dev, regs, ops, refused>>

(* The next routine of the transfer.  After a refusal nothing is sent any   *)
(* more, but for I2C_Read's second start, and every transfer ends in a stop. *)
Routine ==
    LET plan == Plan(call)
        rest == SubSeq(plan, call.at + 1, Len(plan))
        again == call.kind = "read" /\ ~ call.ok /\ StartBit \in ToSet(rest)
        next == IF again THEN StartBit ELSE Head(rest)
    IN  /\ call.kind # "none" /\ ops = <<>>
        /\ IF rest = <<>> \/ (~ call.ok /\ ~ again)
           THEN /\ ops' = i2c_stop
                /\ call' = [call EXCEPT !.kind = "none"]
                /\ said' = Append(said, "P")
           ELSE /\ ops' = CASE next.do = "start" -> i2c_start
                            [] next.do = "write" -> i2c_write(next.v)
                            [] next.do = "read" -> i2c_read(next.ack)
                /\ call' = [call EXCEPT !.at = IF again THEN Len(plan) ELSE @ + 1]
                /\ said' = CASE next.do = "start" -> Append(said, "S")
                             [] next.do = "write" -> Append(said, next.v)
                             [] next.do = "read" -> said
        /\ UNCHANGED <<line, dev, regs, refused, heard>>

CompassNext ==
    \/ Access
    \/ Routine
    \/ \E r \in Registers :
          \/ BeginTransfer([Quiet EXCEPT !.kind = "write", !.reg = r, !.data = <<r>>])
          \/ BeginTransfer([Quiet EXCEPT !.kind = "read", !.reg = r])
          \/ \E n \in 1 .. MaxLen :
                \/ BeginTransfer([Quiet EXCEPT !.kind = "writes", !.reg = r,
                                       !.data = [i \in 1 .. n |-> (r + i) % 2 ^ Bits]])
                \/ BeginTransfer([Quiet EXCEPT !.kind = "reads", !.reg = r, !.len = n])

-----------------------------------------------------------------------------
(* After every routine the device has heard exactly the starts, bytes and   *)
(* stops that the routines meant: no bit is lost or taken for a start or a   *)
(* stop, and the bytes read are the device's (I2C.c 204-313).  Between two   *)
(* transfers the bus is free, whatever was refused (I2C.c 87, 122, 149, 189). *)
HeardAsSaid ==
    ops = <<>> => /\ heard = said
                  /\ call.kind = "none" => line.scl = 1 /\ Wire(line, dev) = 1 /\ dev.phase = "idle"
=============================================================================
