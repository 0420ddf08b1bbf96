------------------------------- MODULE Files -------------------------------
(***************************************************************************)
(* The HAL's file descriptors: a table that tasks share, in which a slot   *)
(* is taken under a semaphore and given back without it, and the exclusive *)
(* use of a device that ioctl(TIOCEXCL) grants.  Tasks are preempted       *)
(* between any two accesses of the table and close only what they opened.  *)
(***************************************************************************)
EXTENDS Integers, FiniteSetsExt, SequencesExt

CONSTANTS Client,     (* the tasks that open and close                       *)
          Device,     (* the devices of alt_dev_list, by name                *)
          Mode,       (* the access modes that are asked for                 *)
          MaxFd       (* ALT_MAX_FD                                          *)

ASSUME FilesAssumption ==
    /\ MaxFd \in Nat /\ MaxFd > 3
    /\ Mode \subseteq {"O_RDONLY", "O_WRONLY", "O_RDWR"}
    /\ Device = {"/dev/null", "/dev/jtag_uart"}
    /\ "nobody" \notin Client

VARIABLES
    fdList,     (* alt_fd_list                                               *)
    maxFd,      (* alt_max_fd                                                *)
    fdLock,     (* alt_fd_list_lock: who holds it                            *)
    doing,      (* each task: the call it is in, its arguments and locals    *)
    opened,     (* history: the descriptors each task has, with their device *)
                (* and mode                                                  *)
    overlooked  (* history: pairs of descriptors alt_fd_lock did not compare *)

filesVars == <<fdList, maxFd, fdLock, doing, opened, overlooked>>

NoDev == "none"
NoTask == "nobody"
Slot == 0 .. MaxFd - 1
FreeSlot == [dev |-> NoDev, flags |-> {}]
Idle == [pc |-> "idle", fd |-> -1, dev |-> NoDev, arg |-> "none"]

(* The functions that each device provides. *)
alt_dev_null == {"write"}
alt_dev_jtag_uart == {"read", "write", "close", "ioctl"}
Driver(d) == IF d = "/dev/null" THEN alt_dev_null ELSE alt_dev_jtag_uart

(* A list grows at its head, and devices need a name.  alt_dev_list starts  *)
(* with the null device; nothing is added to alt_fs_list.                    *)
alt_llist_insert(list, d) == <<d>> \o list
alt_dev_llist_insert(d, list) == IF d = NoDev THEN list ELSE alt_llist_insert(list, d)
alt_dev_list == alt_dev_llist_insert("/dev/jtag_uart", <<"/dev/null">>)
alt_find_dev(name) == IF name \in ToSet(alt_dev_list) THEN name ELSE NoDev

(* alt_open_fd copies a descriptor just opened over a standard one and *)
(* releases it: slot 3 each time, before any task runs.                *)
Redirected(dev, mode) == [dev |-> dev, flags |-> {"DEV", mode}]

FilesInit ==
    /\ fdList = [i \in Slot |-> CASE i = 0 -> Redirected("/dev/jtag_uart", "O_RDONLY")
                                [] i \in {1, 2} -> Redirected("/dev/jtag_uart", "O_WRONLY")
                                [] i > 2 -> FreeSlot]
    /\ maxFd = 3
    /\ fdLock = NoTask
    /\ doing = [t \in Client |-> Idle]
    /\ opened = [t \in Client |-> {}]
    /\ overlooked = {}

Inside(t, pc) == doing[t].pc = pc
Goes(t, pc) == doing' = [doing EXCEPT ![t].pc = pc]
Returns(t) == doing' = [doing EXCEPT ![t] = Idle]
Has(t, i) == \E p \in opened[t] : p[1] = i

-----------------------------------------------------------------------------
(* open; of a name that alt_find_dev does not find it fails at once *)

Open(t, name, mode) ==
    /\ Inside(t, "idle") /\ alt_find_dev(name) # NoDev
    /\ doing' = [doing EXCEPT ![t] = [pc |-> "find", fd |-> -1, dev |-> alt_find_dev(name), arg |-> mode]]
    /\ UNCHANGED <<fdList, maxFd, fdLock, opened, overlooked>>

(* Mutant: the search does not take the semaphore. *)
GetFd_Unlocked(t) ==
    LET free == {i \in Slot : fdList[i].dev = NoDev}
    IN  /\ Inside(t, "find")
        /\ IF free = {}
           THEN Returns(t) /\ UNCHANGED fdLock
           ELSE doing' = [doing EXCEPT ![t].pc = "claim", ![t].fd = Min(free)] /\ UNCHANGED fdLock
        /\ UNCHANGED <<fdList, maxFd, opened, overlooked>>

(* alt_get_fd: the search; without a free slot open fails with EMFILE *)
GetFd(t) ==
    LET free == {i \in Slot : fdList[i].dev = NoDev}
    IN  /\ Inside(t, "find") /\ fdLock = NoTask
        /\ IF free = {}
           THEN Returns(t) /\ UNCHANGED fdLock
           ELSE doing' = [doing EXCEPT ![t].pc = "claim", ![t].fd = Min(free)] /\ fdLock' = t
        /\ UNCHANGED <<fdList, maxFd, opened, overlooked>>

(* alt_get_fd: the slot is taken *)
ClaimFd(t) ==
    LET i == doing[t].fd
    IN  /\ Inside(t, "claim")
        /\ fdList' = [fdList EXCEPT ![i].dev = doing[t].dev]
        /\ maxFd' = IF i > maxFd THEN i ELSE maxFd
        /\ fdLock' = NoTask
        /\ Goes(t, "flags")
        /\ UNCHANGED <<opened, overlooked>>

OpenFlags(t) ==
    /\ Inside(t, "flags")
    /\ fdList' = [fdList EXCEPT ![doing[t].fd].flags = {doing[t].arg}]
    /\ Goes(t, "check")
    /\ UNCHANGED <<maxFd, fdLock, opened, overlooked>>

Locked(i) == \E j \in 0 .. maxFd : j # i /\ fdList[j].dev = fdList[i].dev /\ "EXCL" \in fdList[j].flags

(* alt_file_locked; no device of this system has an open function *)
OpenChecked(t) ==
    LET i == doing[t].fd
    IN  /\ Inside(t, "check")
        /\ fdList' = [fdList EXCEPT ![i].flags = @ \cup {"DEV"}]
        /\ IF Locked(i)
           THEN Goes(t, "release") /\ UNCHANGED opened
           ELSE Returns(t) /\ opened' = [opened EXCEPT ![t] = @ \cup {<<i, doing[t].dev, doing[t].arg>>}]
        /\ UNCHANGED <<maxFd, fdLock, overlooked>>

-----------------------------------------------------------------------------
(* close; alt_release_fd clears first the flags, then the device, and leaves *)
(* the three standard descriptors as they are                                *)

Close(t, i) ==
    /\ Inside(t, "idle")
    /\ Has(t, i)
    /\ opened' = [opened EXCEPT ![t] = {p \in @ : p[1] # i}]
    /\ doing' = [doing EXCEPT ![t] = [Idle EXCEPT !.pc = "release", !.fd = i]]
    /\ UNCHANGED <<fdList, maxFd, fdLock, overlooked>>

ReleaseFlags(t) ==
    /\ Inside(t, "release")
    /\ fdList' = [fdList EXCEPT ![doing[t].fd].flags = {}]
    /\ Goes(t, "free")
    /\ UNCHANGED <<maxFd, fdLock, opened, overlooked>>

ReleaseFd(t) ==
    /\ Inside(t, "free")
    /\ fdList' = [fdList EXCEPT ![doing[t].fd] = FreeSlot]
    /\ overlooked' = {p \in overlooked : doing[t].fd \notin {p[1], p[2]}}
    /\ Returns(t)
    /\ UNCHANGED <<maxFd, fdLock, opened>>

-----------------------------------------------------------------------------
(* ioctl with TIOCEXCL and TIOCNXCL, which every opened device takes *)

LockFd(t, i) ==
    LET others == {j \in 0 .. maxFd - 1 : j # i /\ fdList[j].dev = fdList[i].dev}
    IN  /\ Inside(t, "idle") /\ fdLock = NoTask
        /\ Has(t, i)
        /\ others = {} \* otherwise EACCES
        /\ fdLock' = t
        /\ doing' = [doing EXCEPT ![t] = [Idle EXCEPT !.pc = "excl", !.fd = i]]
        /\ overlooked' = overlooked \cup
               {<<i, j>> : j \in {k \in {maxFd} : k # i /\ fdList[k].dev = fdList[i].dev}}
        /\ UNCHANGED <<fdList, maxFd, opened>>

LockedFd(t) ==
    /\ Inside(t, "excl")
    /\ fdList' = [fdList EXCEPT ![doing[t].fd].flags = @ \cup {"EXCL"}]
    /\ fdLock' = NoTask
    /\ Returns(t)
    /\ UNCHANGED <<maxFd, opened, overlooked>>

UnlockFd(t, i) ==
    /\ Inside(t, "idle")
    /\ Has(t, i)
    /\ fdList' = [fdList EXCEPT ![i].flags = @ \ {"EXCL"}]
    /\ overlooked' = {p \in overlooked : p[1] # i}
    /\ UNCHANGED <<maxFd, fdLock, doing, opened>>

(* fcntl(F_SETFL): only O_APPEND and O_NONBLOCK can be changed *)
SetFlags(t, i, f) ==
    /\ Inside(t, "idle")
    /\ Has(t, i)
    /\ fdList' = [fdList EXCEPT ![i].flags = (@ \ {"O_NONBLOCK"}) \cup f]
    /\ UNCHANGED <<maxFd, fdLock, doing, opened, overlooked>>

-----------------------------------------------------------------------------
(* read, write, lseek, fstat and ioctl, through a descriptor of its own or a *)
(* standard one: the driver's function is looked up, and looks up the device *)
(* again itself.                                                             *)

alt_read(fd) == "O_WRONLY" \notin fd.flags /\ "read" \in Driver(fd.dev) \* otherwise EACCES
alt_write(fd) == "O_RDONLY" \notin fd.flags /\ "write" \in Driver(fd.dev) \* otherwise EACCES
alt_lseek(fd) == "lseek" \in Driver(fd.dev) \* otherwise ENOTSUP
alt_fstat(fd) == "fstat" \in Driver(fd.dev) \* otherwise a character device
alt_isatty(fd) == ~ alt_fstat(fd) \* or what fstat says
alt_ioctl(fd) == "ioctl" \in Driver(fd.dev) \* otherwise ENOTTY

Serves(fd, what) ==
    CASE what = "read" -> alt_read(fd) [] what = "write" -> alt_write(fd)
      [] what = "lseek" -> alt_lseek(fd) [] what = "fstat" -> alt_fstat(fd)
      [] what = "ioctl" -> alt_ioctl(fd)

UseFd(t, i, what) ==
    /\ Inside(t, "idle")
    /\ Has(t, i) \/ i \in {0, 1} \* 2 is as 1
    /\ Serves(fdList[i], what)
    /\ doing' = [doing EXCEPT ![t] = [pc |-> "driver", fd |-> i, dev |-> fdList[i].dev, arg |-> what]]
    /\ UNCHANGED <<fdList, maxFd, fdLock, opened, overlooked>>

DriverDone(t) ==
    /\ Inside(t, "driver")
    /\ Returns(t)
    /\ UNCHANGED <<fdList, maxFd, fdLock, opened, overlooked>>

FilesNext ==
    \E t \in Client :
        \/ \E name \in Device, mode \in Mode : Open(t, name, mode)
        \/ DriverDone(t)
        \/ \E i \in Slot, what \in {"read", "write", "lseek", "fstat", "ioctl"} : UseFd(t, i, what)
        \/ GetFd(t) \/ ClaimFd(t) \/ OpenFlags(t) \/ OpenChecked(t)
        \/ ReleaseFlags(t) \/ ReleaseFd(t) \/ LockedFd(t)
        \/ \E i \in Slot : \/ Close(t, i) \/ LockFd(t, i) \/ UnlockFd(t, i)
                           \/ \E f \in SUBSET {"O_NONBLOCK"} : SetFlags(t, i, f)

-----------------------------------------------------------------------------
(* Safety. *)

(* A descriptor a task has opened goes on naming the device the task opened, *)
(* with the kind of flags open gave it, whatever other tasks open and close  *)
(* (alt_get_fd.c 64-98, alt_release_fd.c 48-49).                             *)
DescriptorsKept ==
    \A t \in Client : \A p \in opened[t] :
        /\ fdList[p[1]].dev = p[2] /\ {"DEV", p[3]} \subseteq fdList[p[1]].flags
        /\ \A u \in Client \ {t} : \A q \in opened[u] : p[1] # q[1]

(* A device used exclusively has no other descriptor, save one that open is *)
(* about to refuse and the one that alt_fd_lock does not compare: the       *)
(* highest ever used (alt_fd_lock.c 61 stops short of alt_max_fd).          *)
ExclusiveIsAlone ==
    \A i, j \in Slot :
        (/\ i # j /\ "EXCL" \in fdList[i].flags
         /\ fdList[j].dev = fdList[i].dev)
        => \/ <<i, j>> \in overlooked
           \/ \E t \in Client : /\ doing[t].fd = j
                                /\ doing[t].pc \in {"claim", "flags", "check", "release", "free"}

(* A driver at work finds the device that was looked up for it, which is a  *)
(* terminal, and is never called for a direction that the descriptor was    *)
(* not opened for (alt_read.c 95-110, alt_write.c 105-125, jtag_uart_fd.c). *)
DriversFindTheirDevice ==
    \A t \in Client : Inside(t, "driver") =>
        LET fd == fdList[doing[t].fd] IN
        /\ fd.dev = doing[t].dev /\ alt_isatty(fd)
        /\ doing[t].arg \in Driver(fd.dev)
        /\ \A p \in opened[t] : p[1] = doing[t].fd =>
             <<p[3], doing[t].arg>> \notin {<<"O_WRONLY", "read">>, <<"O_RDONLY", "write">>}

(* A descriptor is its opener's, an exclusive device has only one and       *)
(* drivers work on what they were called for (alt_get_fd.c 64-98,           *)
(* alt_release_fd.c 48-49, alt_fd_lock.c 54-75).                            *)
DescriptorsHold == DescriptorsKept /\ ExclusiveIsAlone /\ DriversFindTheirDevice
=============================================================================
