------------------------------- MODULE Board -------------------------------
(***************************************************************************)
(* The parts of the board support package and of the rover's library that  *)
(* the tasks use below the kernel, and those of the kernel that stand      *)
(* beside its scheduler: timers, start, statistics and names.  Each has    *)
(* its own state and none reads another's, so that a behaviour exercises   *)
(* one of them, chosen at start.                                           *)
(***************************************************************************)
EXTENDS Console, Files, Clock, Heap, Adc, Compass, Magnetometer, Flash, Interrupts,
        Timers, Startup, Statistics, Registry

VARIABLE board  (* the part at work *)

BoardInit ==
    /\ board \in {"print", "scan", "files", "alarms", "wall", "delay", "lock",
                  "regions", "adc", "bus", "compass", "memory", "flash", "interrupts",
                  "timers", "startup", "usage", "stacks", "registry"}
    /\ ConsoleInit /\ FilesInit /\ ClockInit /\ HeapInit
    /\ AdcInit /\ CompassInit /\ MagnetometerInit /\ FlashInit /\ InterruptsInit
    /\ TimersInit /\ StartupInit /\ StatisticsInit /\ RegistryInit
    /\ board \notin {"lock"} => which = "malloc"
    /\ board # "flash" => chip.kind = "few"
    /\ board # "memory" => \A r \in DOMAIN cells : cells[r] = Min(CellValues)
    /\ board # "usage" => app.at = "works" /\ \A n \in Speeds : app.speed <= n

(* Only one part moves. *)
Only(part) ==
    /\ UNCHANGED board
    /\ IF part = "console" THEN TRUE ELSE UNCHANGED consoleVars
    /\ IF part = "files" THEN TRUE ELSE UNCHANGED filesVars
    /\ IF part = "clock" THEN TRUE ELSE UNCHANGED clockVars
    /\ IF part = "heap" THEN TRUE ELSE UNCHANGED heapVars
    /\ IF part = "adc" THEN TRUE ELSE UNCHANGED adcVars
    /\ IF part = "compass" THEN TRUE ELSE UNCHANGED compassVars
    /\ IF part = "magnetometer" THEN TRUE ELSE UNCHANGED magnetometerVars
    /\ IF part = "flash" THEN TRUE ELSE UNCHANGED flashVars
    /\ IF part = "interrupts" THEN TRUE ELSE UNCHANGED interruptsVars
    /\ IF part = "timers" THEN TRUE ELSE UNCHANGED timersVars
    /\ IF part = "startup" THEN TRUE ELSE UNCHANGED startupVars
    /\ IF part = "statistics" THEN TRUE ELSE UNCHANGED statisticsVars
    /\ IF part = "registry" THEN TRUE ELSE UNCHANGED registryVars

BoardNext ==
    \/ board = "print" /\ PrintNext /\ Only("console")
    \/ board = "scan" /\ ScanNext /\ Only("console")
    \/ board = "files" /\ FilesNext /\ Only("files")
    \/ board = "alarms" /\ AlarmsNext /\ Only("clock")
    \/ board = "wall" /\ WallNext /\ Only("clock")
    \/ board = "delay" /\ DelayNext /\ Only("clock")
    \/ board = "lock" /\ LockNext /\ Only("heap")
    \/ board = "regions" /\ RegionsNext /\ Only("heap")
    \/ board = "adc" /\ AdcNext /\ Only("adc")
    \/ board = "bus" /\ CompassNext /\ Only("compass")
    \/ board = "compass" /\ CompassUse /\ Only("magnetometer")
    \/ board = "memory" /\ MemoryUse /\ Only("magnetometer")
    \/ board = "flash" /\ FlashNext /\ Only("flash")
    \/ board = "interrupts" /\ InterruptsNext /\ Only("interrupts")
    \/ board = "timers" /\ TimersNext /\ Only("timers")
    \/ board = "startup" /\ StartupNext /\ Only("startup")
    \/ board = "usage" /\ UsageNext /\ Only("statistics")
    \/ board = "stacks" /\ StacksNext /\ Only("statistics")
    \/ board = "registry" /\ RegistryNext /\ Only("registry")

boardVars == <<board, consoleVars, filesVars, clockVars, heapVars, adcVars,
               compassVars, magnetometerVars, flashVars, interruptsVars, timersVars, startupVars,
               statisticsVars, registryVars>>

(* The bus carries what the routines mean, and what is done with it leaves  *)
(* whole readings and a memory as it was (I2C.c 204-313, 318-364, LSM303.c  *)
(* 117-142).                                                                *)
CompassHolds == HeardAsSaid /\ MagnetometerHolds

(* Nothing starts before what it needs, what the kernel says of processor   *)
(* and stacks is so, and no object is taken for the one that had its block  *)
(* before (alt_main.c 82-160, os_core.c 183-230, 785-834, 1809-1880,        *)
(* 1926-2012).                                                              *)
KernelSidesHold == StartsInOrder /\ StatisticsHold /\ RegistryHolds

BoardSpec == BoardInit /\ [][BoardNext]_boardVars
=============================================================================
