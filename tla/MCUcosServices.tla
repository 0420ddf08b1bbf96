--------------------------- MODULE MCUcosServices ---------------------------
EXTENDS UcosServices, TLC

CONSTANTS idle, hi, mid, lo, e1, e2, g1, m1, m2

MCAt == (idle :> 4) @@ (hi :> 1) @@ (mid :> 2) @@ (lo :> 3)
(* The rover's own use of the kernel first, then each kind of object with what *)
(* may end or disturb a wait on it.                                          *)
MCProfiles == {
    {"SUSPEND", "Q"},
    {"SEM", "TIMEOUT", "LIFE", "ABORT", "DEL"},
    {"SEM", "TIMEOUT", "SUSPEND", "DLYRESUME", "LOCK", "ISR"},
    {"SEM", "TIMEOUT", "PRIO"},
    {"MBOX", "TIMEOUT", "OPT", "DEL", "ABORT", "SUSPEND", "DLYRESUME"},
    {"Q", "TIMEOUT", "OPT", "DEL", "ABORT"},
    {"MULTI", "SEM", "MBOX", "TIMEOUT"},
    {"MUTEX", "TIMEOUT", "DEL", "LOCK", "ISR"},
    {"TWO", "MUTEX", "SEM"},
    {"MUTEX", "PRIO"},
    {"FLAG", "ANY", "SUSPEND"},
    {"FLAG", "ANY", "CONSUME", "ISR"},
    {"FLAG", "TIMEOUT", "DEL"} }

(* A mutex beside a semaphore that is waited for with a timeout. *)
MCBeside == {{"TWO", "MUTEX", "SEM", "TIMEOUT"}}

(* OSTCBFlagsRdy decides what happens only while its task is in OSFlagPend. *)
MCView == <<core, group, node, consumes, uses,
            [t \in {u \in Task : call[u].on \cap Group # {}} |-> flagsRdy[t]]>>
=============================================================================
