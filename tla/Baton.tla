------------------------------- MODULE Baton --------------------------------
(***************************************************************************)
(* What SYSTEM_STATUS and MainQueue are for: one command at a time.  A     *)
(* single baton goes from the servo task, which claims it, to the queue,   *)
(* to the navigation task, which may put the same command back or give the *)
(* baton up.  The history task may keep a baton nobody holds.              *)
(***************************************************************************)
CONSTANTS Command, NoCommand

VARIABLES holder,   (* where the baton is                                    *)
          command   (* the command it stands for, once posted                *)

baton == <<holder, command>>

Init == holder = "free" /\ command = NoCommand

Move(from, to) == holder = from /\ holder' = to

Claim == Move("free", "claimed") /\ UNCHANGED command

Post == Move("claimed", "posted") /\ command' \in Command

Take == Move("posted", "handled") /\ UNCHANGED command

Repeat == Move("handled", "posted") /\ UNCHANGED command

Release == Move("handled", "free") /\ command' = NoCommand

Keep == Move("free", "kept") /\ UNCHANGED command

Next == Claim \/ Post \/ Take \/ Repeat \/ Release \/ Keep

Spec == Init /\ [][Next]_baton
=============================================================================
