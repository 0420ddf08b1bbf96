-------------------------------- MODULE Heap --------------------------------
(***************************************************************************)
(* The lock that newlib takes around malloc and free, and the lock around  *)
(* its environment: each a semaphore, the priority of its owner and a      *)
(* count, so that the owner can take it again.  Tasks are preempted        *)
(* between any two accesses, by more urgent tasks only; a post hands the   *)
(* semaphore to the most urgent waiter.  With them, what sbrk gives out    *)
(* and the kernel's memory partitions.                                     *)
(***************************************************************************)
EXTENDS Integers, Sequences, FiniteSets, FiniteSetsExt, SequencesExt

CONSTANTS Mutator,   (* tasks, by their priorities                           *)
          MaxDepth,  (* bound: how often a task takes the lock again         *)
          Limit,     (* __alt_heap_limit, in bytes from __alt_heap_start     *)
          Incr,      (* what sbrk is asked for                               *)
          Blocks     (* the blocks of a partition                            *)

ASSUME HeapAssumption ==
    /\ Mutator \subseteq Nat
    /\ MaxDepth \in Nat \ {0} /\ Limit \in Nat
    /\ Incr \subseteq Nat
    /\ IsFiniteSet(Blocks) /\ Cardinality(Blocks) >= 2

VARIABLES
    which,     (* the lock that the tasks use: "malloc" or "env"             *)
    sem,       (* alt_heapsem or alt_envsem: OSEventCnt and who waits        *)
    lockid,    (* the priority of the owner, or -1                           *)
    locks,     (* how often the owner has taken it                           *)
    at,        (* each task: where it is, and what OSSemQuery told it        *)
    depth,     (* history: how often each task is inside                     *)
    heapEnd,   (* heap_end                                                   *)
    given,     (* history: the regions that sbrk returned                    *)
    free,      (* the free list of the partition                             *)
    nFree,     (* OSMemNFree                                                 *)
    held       (* history: the blocks given out                              *)

lockVars == <<sem, lockid, locks, at, depth>>
sbrkVars == <<heapEnd, given>>
partVars == <<free, nFree, held>>
heapVars == <<which, lockVars, sbrkVars, partVars>>

HeapInit ==
    /\ which \in {"malloc", "env"}
    /\ sem = [cnt |-> 1, waiting |-> {}]
    /\ lockid = -1
    /\ locks = 0
    /\ at = [t \in Mutator |-> [pc |-> "out", seen |-> FALSE]]
    /\ depth = [t \in Mutator |-> 0]
    /\ heapEnd = 0
    /\ given = {}
    /\ free = SetToSeq(Blocks)
    /\ nFree = Cardinality(Blocks)
    /\ held = {}

-----------------------------------------------------------------------------
(* The locks *)

(* A more urgent task that is outside may be asleep, one inside a call runs. *)
Runs(t) == /\ t \notin sem.waiting
           /\ \A u \in Mutator : u < t => at[u].pc \in {"out", "in"} \/ u \in sem.waiting
Moves(t, pc) == at' = [at EXCEPT ![t].pc = pc]
Stands(t, pc) == Runs(t) /\ at[t].pc = pc

(* OSSemQuery: for malloc whether the count is 0, for the environment *)
(* whether OSEventGrp says that somebody waits.                       *)
Query(t) ==
    /\ Runs(t) /\ at[t].pc \in {"out", "in"} /\ depth[t] < MaxDepth
    /\ at' = [at EXCEPT ![t] = [pc |-> "queried",
                  seen |-> IF which = "malloc" THEN sem.cnt = 0 ELSE sem.waiting # {}]]
    /\ UNCHANGED <<sem, lockid, locks, depth>>

Compare(t) ==
    /\ Stands(t, "queried")
    /\ IF at[t].seen /\ lockid = t
       THEN /\ locks' = locks + 1
            /\ depth' = [depth EXCEPT ![t] = @ + 1]
            /\ Moves(t, "in")
            /\ UNCHANGED sem
       ELSE /\ IF sem.cnt > 0
               THEN sem' = [sem EXCEPT !.cnt = @ - 1]
               ELSE sem' = [sem EXCEPT !.waiting = @ \cup {t}]
            /\ Moves(t, "pended")
            /\ UNCHANGED <<locks, depth>>
    /\ UNCHANGED lockid

Locks(t) ==
    /\ Stands(t, "pended")
    /\ locks' = 1
    /\ Moves(t, "locked")
    /\ UNCHANGED <<sem, lockid, depth>>

Owns(t) ==
    /\ Stands(t, "locked")
    /\ lockid' = t
    /\ depth' = [depth EXCEPT ![t] = @ + 1]
    /\ Moves(t, "in")
    /\ UNCHANGED <<sem, locks>>

PostSem == sem' = IF sem.waiting = {} THEN [sem EXCEPT !.cnt = @ + 1]
                  ELSE [sem EXCEPT !.waiting = @ \ {Min(sem.waiting)}]

(* Mutant: the owner is not forgotten with the last unlock. *)
Unlock_KeepsOwner(t) ==
    /\ Stands(t, "in") /\ depth[t] > 0
    /\ locks' = locks - 1
    /\ depth' = [depth EXCEPT ![t] = @ - 1]
    /\ Moves(t, IF locks = 1 THEN "post" ELSE "in")
    /\ UNCHANGED <<sem, lockid>>

(* The decrement and lockid = -1 are one critical section for malloc; in the *)
(* environment's lock they are not, but nobody else writes them meanwhile.   *)
Unlock(t) ==
    /\ Stands(t, "in") /\ depth[t] > 0
    /\ locks' = locks - 1
    /\ depth' = [depth EXCEPT ![t] = @ - 1]
    /\ IF locks = 1 THEN lockid' = -1 /\ Moves(t, "post")
       ELSE Moves(t, "in") /\ UNCHANGED lockid
    /\ UNCHANGED sem

Post(t) ==
    /\ Stands(t, "post")
    /\ PostSem
    /\ Moves(t, "out")
    /\ UNCHANGED <<lockid, locks, depth>>

LockNext ==
    /\ \E t \in Mutator : Query(t) \/ Compare(t) \/ Locks(t) \/ Owns(t) \/ Unlock(t) \/ Post(t)
    /\ UNCHANGED <<which, sbrkVars, partVars>>

-----------------------------------------------------------------------------
(* sbrk, with interrupts off *)

Aligned(n) == 4 * ((n + 3) \div 4)

Sbrk(n) ==
    LET start == Aligned(heapEnd)
    IN  /\ IF start + n > Limit
           THEN heapEnd' = start /\ UNCHANGED given
           ELSE heapEnd' = start + n /\ given' = given \cup {<<start, n>>}
        /\ UNCHANGED <<which, lockVars, partVars>>

-----------------------------------------------------------------------------
(* OSMemGet and OSMemPut *)

OSMemGet ==
    /\ nFree > 0
    /\ held' = held \cup {Head(free)}
    /\ free' = Tail(free)
    /\ nFree' = nFree - 1
    /\ UNCHANGED <<which, lockVars, sbrkVars>>

OSMemPut(b) ==
    /\ nFree < Cardinality(Blocks)
    /\ b \in held
    /\ held' = held \ {b}
    /\ free' = <<b>> \o free
    /\ nFree' = nFree + 1
    /\ UNCHANGED <<which, lockVars, sbrkVars>>

RegionsNext ==
    \/ \E n \in Incr : Sbrk(n)
    \/ OSMemGet
    \/ \E b \in Blocks : OSMemPut(b)

-----------------------------------------------------------------------------
(* At most one task is inside, the count is the owner's, and the owner never *)
(* waits for the semaphore it holds.  The environment's lock keeps the last  *)
(* promise only while somebody else waits: it asks OSEventGrp where malloc's *)
(* asks OSCnt (alt_env_lock.c 81, alt_malloc_lock.c 91, 134-138).            *)
LockIsRecursive ==
    /\ \A t, u \in Mutator : depth[t] > 0 /\ depth[u] > 0 => t = u
    /\ \A t \in Mutator : depth[t] > 0 => /\ lockid = t
                                          /\ locks = depth[t]
                                          /\ which = "malloc" => t \notin sem.waiting

(* No two regions of sbrk overlap or pass the limit, and the partition's     *)
(* count and list hold exactly the blocks that are not given out.            *)
RegionsApart ==
    /\ \A r, s \in given : r[1] < s[1] => r[1] + r[2] <= s[1]
    /\ \A r \in given : r[1] + r[2] <= Limit
    /\ nFree = Len(free) /\ ToSet(free) \cap held = {} /\ Len(free) + Cardinality(held) = Cardinality(Blocks)

(* Both: what is allocated is one task's at a time, and the allocators give *)
(* nothing out twice (alt_malloc_lock.c 91, 134-138, alt_sbrk.c 96-125).    *)
HeapHolds == LockIsRecursive /\ RegionsApart
=============================================================================
