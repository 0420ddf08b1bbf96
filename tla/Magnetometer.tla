---------------------------- MODULE Magnetometer ----------------------------
(***************************************************************************)
(* What is done with the two-wire bus of Compass: the magnetometer's       *)
(* driver (LSM303.c), the task that was to use it and enables it directly, *)
(* and I2C_Verify, which writes to a memory on such a bus and puts back    *)
(* what was there.  A transfer is one step here; the device may refuse it. *)
(* A measurement is known by its number.                                   *)
(***************************************************************************)
EXTENDS Integers, FiniteSets, Sequences

CONSTANTS MaxSample,  (* bound: measurements                                 *)
          MemSize,    (* registers of the memory: 256                        *)
          CellValues, (* what they hold                                      *)
          Fixed       (* the registers that do not take what is written      *)

ASSUME MagnetometerAssumption ==
    /\ MaxSample \in Nat /\ MemSize \in Nat \ {0}
    /\ CellValues \subseteq Nat /\ CellValues \ {0} # {} /\ Fixed \subseteq 0 .. MemSize - 1

VARIABLES
    mag,      (* the device: its mode, the measurement it shows, what of it  *)
              (* has been read                                               *)
    lsm,      (* the LSM303 object: whether it is set up, and its vector m   *)
    magTask,  (* the transfer that LSM303_Task makes next                    *)
    cells,    (* the memory's registers                                      *)
    verify,   (* I2C_Verify: the registers to try, and i2c_data_verify's     *)
              (* next step and local variables                               *)
    ylmRead,  (* history: the register that readMag leaves out was read      *)
    initially (* history: the memory when the verification began             *)

magnetometerVars == <<mag, lsm, magTask, cells, verify, ylmRead, initially>>

Axis == {"x", "y", "z"}
Output == {"xhm", "xlm", "zhm", "zlm", "yhm", "ylm"}
Garbage == -1
Unmeasured == [a \in Axis |-> Garbage]
NoVerify == [todo |-> <<>>, at |-> "none", org |-> 0, test |-> 0, pass |-> TRUE]

MagnetometerInit ==
    /\ mag = [mode |-> "sleep", sample |-> 0, read |-> {}]
    /\ lsm = [set |-> FALSE, m |-> Unmeasured]
    /\ magTask = "sleep"
    /\ cells \in [0 .. MemSize - 1 -> CellValues]
    /\ verify = NoVerify
    /\ ylmRead = FALSE
    /\ initially = cells

-----------------------------------------------------------------------------
(* The device, as LSM303.c takes it to be: it measures anew only once all    *)
(* six registers have been read.                                             *)

Shown(registers) == [mag EXCEPT !.read = @ \cup registers]

Measure ==
    /\ mag.mode = "continuous" /\ mag.sample < MaxSample
    /\ mag.sample = 0 \/ mag.read = Output
    /\ mag' = [mag EXCEPT !.sample = @ + 1, !.read = {}]
    /\ UNCHANGED <<lsm, magTask, cells, verify, ylmRead, initially>>

-----------------------------------------------------------------------------
(* The driver.  A refused transfer is only reported. *)

(* Of the calibration nothing is set. *)
compassInit ==
    /\ lsm' = [lsm EXCEPT !.set = TRUE]
    /\ UNCHANGED <<mag, magTask, cells, verify, ylmRead, initially>>

(* Of the mode register; of the gain it would change the scale only. *)
writeMagReg(mode) ==
    /\ mag' = [mag EXCEPT !.mode = mode]
    /\ UNCHANGED <<lsm, magTask, cells, verify, ylmRead, initially>>

enableDefault == writeMagReg("continuous")

(* The byte goes to wherever an uninitialised pointer points. *)
readMagReg(register) ==
    /\ mag' = Shown({register})
    /\ ylmRead' = (ylmRead \/ register = "ylm")
    /\ UNCHANGED <<lsm, magTask, cells, verify, initially>>

(* Five bytes are read and six are used. *)
readMag ==
    /\ lsm.set
    /\ \/ /\ mag' = Shown(Output \ {"ylm"})
          /\ lsm' = [lsm EXCEPT !.m = [x |-> mag.sample, z |-> mag.sample, y |-> Garbage]]
       \/ /\ lsm' = [lsm EXCEPT !.m = Unmeasured]
          /\ UNCHANGED mag
    /\ UNCHANGED <<magTask, cells, verify, ylmRead, initially>>

(* Scales m in place, by bounds and an acceleration that nothing has set. *)
heading ==
    /\ lsm.set /\ lsm.m # Unmeasured
    /\ lsm' = [lsm EXCEPT !.m = Unmeasured]
    /\ UNCHANGED <<mag, magTask, cells, verify, ylmRead, initially>>

-----------------------------------------------------------------------------
(* Two seconds, one write, one read through an uninitialised pointer, each  *)
(* of which may fail; then the task's function returns.                     *)
LSM303_Task ==
    /\ \/ /\ magTask = "sleep" /\ magTask' = "enable"
          /\ UNCHANGED mag
       \/ /\ magTask = "enable" /\ magTask' = "read"
          /\ mag' \in {mag, [mag EXCEPT !.mode = "continuous"]}
       \/ /\ magTask = "read" /\ magTask' = "returned"
          /\ mag' \in {mag, Shown({"xhm"})}
    /\ UNCHANGED <<lsm, cells, verify, ylmRead, initially>>

-----------------------------------------------------------------------------
(* I2C_Verify, of a memory of that many registers; the last one's number is *)
(* a byte, also when there is none.                                         *)
I2C_Verify(size) ==
    /\ verify.at = "none"
    /\ initially' = cells
    /\ \E test \in CellValues \ {0} :
         verify' = IF size > MemSize THEN [NoVerify EXCEPT !.at = "done", !.pass = FALSE]
                   ELSE [NoVerify EXCEPT !.todo = <<0, (size - 1) % MemSize>>, !.at = "read", !.test = test]
    /\ UNCHANGED <<mag, lsm, magTask, cells, ylmRead>>

Writes(value) ==
    LET r == verify.todo[1] IN cells' = IF r \in Fixed THEN cells ELSE [cells EXCEPT ![r] = value]

(* To the next step, if what was read is as expected. *)
Compared(expected, next) ==
    verify' = IF cells[verify.todo[1]] = expected THEN next
              ELSE [NoVerify EXCEPT !.at = "done", !.pass = FALSE]

(* The register is as it was: the next one, with a test value of its own. *)
NextRegister(test) ==
    IF Len(verify.todo) = 1 THEN [NoVerify EXCEPT !.at = "done"]
    ELSE [NoVerify EXCEPT !.todo = Tail(verify.todo), !.at = "read", !.test = test]

i2c_data_verify ==
    /\ \/ /\ verify.at = "read"
          /\ verify' = [verify EXCEPT !.at = "write", !.org = cells[verify.todo[1]]]
          /\ UNCHANGED cells
       \/ /\ verify.at = "write" /\ Writes(verify.test)
          /\ verify' = [verify EXCEPT !.at = "check"]
       \/ /\ verify.at = "check" /\ Compared(verify.test, [verify EXCEPT !.at = "restore"])
          /\ UNCHANGED cells
       \/ /\ verify.at = "restore" /\ Writes(verify.org)
          /\ verify' = [verify EXCEPT !.at = "again"]
       \/ /\ verify.at = "again"
          /\ \E test \in CellValues \ {0} : Compared(verify.org, NextRegister(test))
          /\ UNCHANGED cells
    /\ UNCHANGED <<mag, lsm, magTask, ylmRead, initially>>

(* Any of the transfers is refused: nothing is put back. *)
VerifyRefused ==
    /\ verify.at \notin {"none", "done"}
    /\ verify' = [NoVerify EXCEPT !.at = "done", !.pass = FALSE]
    /\ UNCHANGED <<mag, lsm, magTask, cells, ylmRead, initially>>

(* The compass and the memory share the routines of the bus alone. *)
CompassUse ==
    \/ Measure \/ compassInit \/ enableDefault \/ readMag \/ heading \/ LSM303_Task
    \/ \E r \in Output : readMagReg(r)

MemoryUse ==
    \/ \E size \in 0 .. MemSize + 1 : I2C_Verify(size)
    \/ i2c_data_verify \/ VerifyRefused

-----------------------------------------------------------------------------
(* Safety. *)

(* What readMag makes of x and z comes from one measurement, but after the  *)
(* first there is no other unless the sixth register is read by itself:     *)
(* readMag asks for five (LSM303.c 117-142), and y is never known.          *)
ReadingIsWhole ==
    /\ lsm.m.x = lsm.m.z /\ lsm.m.y = Garbage
    /\ ~ ylmRead => mag.sample <= 1

(* A verification that passes has left the memory as it was; one that fails *)
(* may leave its test value in one of the two registers that it tries, and  *)
(* in no other (I2C.c 318-364).                                             *)
MemoryIsPutBack ==
    LET changed == {r \in DOMAIN cells : cells[r] # initially[r]} IN
    /\ verify.at = "done" /\ verify.pass => changed = {}
    /\ Cardinality(changed) <= 1
    /\ verify.at = "again" => changed = {}
    /\ changed \cap Fixed = {}

(* The two together (LSM303.c 117-142, I2C.c 318-364).                      *)
MagnetometerHolds == ReadingIsWhole /\ MemoryIsPutBack
=============================================================================
