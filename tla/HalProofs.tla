------------------------------ MODULE HalProofs -----------------------------
(***************************************************************************)
(* What the parts of the board support package keep, each for every value  *)
(* of its constants: an inductive invariant of each part and what follows  *)
(* from it.  BoardProofs draws the theorems about the bench from these.    *)
(***************************************************************************)
EXTENDS Console, Files, Clock, Heap, Adc, Interrupts,
        FiniteSetTheorems, SequenceTheorems, WellFoundedInduction, TLAPS

-----------------------------------------------------------------------------
(* ADC_Read and the controller *)

AdcLabel == {"out", "select", "start", "sleep", "stop", "return"}
AdcValue == Channels \cup {None}

AdcTypes ==
    /\ adcReg \in [start : BOOLEAN, channel : AdcValue]
    /\ hw \in [st : {"st_00", "st_01", "st_03"}, start_en : BOOLEAN, shifted : AdcValue,
               data : AdcValue]
    /\ adc \in [Reader -> [pc : AdcLabel, ch : AdcValue, got : AdcValue]]

(* The conversion of channel ch: asked for, under way, or done. *)
Converts(ch) ==
    /\ adcReg = [start |-> TRUE, channel |-> ch]
    /\ \/ hw.st \in {"st_00", "st_03"} /\ hw.start_en
       \/ hw.st = "st_01" /\ hw.start_en /\ hw.shifted \in {None, ch}
       \/ hw.st = "st_03" /\ ~ hw.start_en /\ hw.data = ch

(* What a task that nobody disturbed finds in the registers, step by step. *)
OwnCall(t) ==
    /\ adc[t].pc = "start" => ~ adcReg.start
    /\ adc[t].pc = "sleep" => Converts(adc[t].ch)
    /\ adc[t].pc \in {"stop", "return"} => adc[t].got = adc[t].ch

AdcInv == AdcTypes /\ \A t \in Reader \ disturbed : OwnCall(t)

LEMMA AdcStep ==
    ASSUME AdcInv, AdcNext
    PROVE  AdcInv'
PROOF
  <1> USE DEF AdcTypes, AdcLabel, AdcValue
  <1>0. AdcTypes /\ \A t \in Reader \ disturbed : OwnCall(t)
    BY DEF AdcInv
  <1>1. ASSUME NEW t \in Reader, NEW ch \in Channels, Call(t, ch)
        PROVE  AdcInv'
    <2>1. AdcTypes'  BY <1>0, <1>1 DEF Call, MayStep
    <2>2. ASSUME NEW u \in Reader \ disturbed'
          PROVE  OwnCall(u)'
      BY <1>0, <1>1, <2>2 DEF Call, MayStep, OwnCall, Converts
    <2> QED  BY <2>1, <2>2 DEF AdcInv
  <1>2. ASSUME NEW t \in Reader, Select(t)
        PROVE  AdcInv'
    <2>1. AdcTypes'  BY <1>0, <1>2 DEF Select, MayStep
    <2>2. ASSUME NEW u \in Reader \ disturbed'
          PROVE  OwnCall(u)'
      BY <1>0, <1>2, <2>2 DEF Select, MayStep, OwnCall, Converts, Disturb, InCall
    <2> QED  BY <2>1, <2>2 DEF AdcInv
  <1>3. ASSUME NEW t \in Reader, StartConversion(t)
        PROVE  AdcInv'
    <2>1. AdcTypes'  BY <1>0, <1>3 DEF StartConversion, MayStep
    <2>2. ASSUME NEW u \in Reader \ disturbed'
          PROVE  OwnCall(u)'
      <3>1. u \in Reader \ disturbed
        BY <1>3, <2>2 DEF StartConversion
      <3>2. CASE u = t
        <4>1. hw.st # "st_01" /\ ~ hw.start_en
          BY <1>3, <2>2, <3>2 DEF StartConversion
        <4>2. ~ adcReg.start
          BY <1>0, <1>3, <3>1, <3>2 DEF StartConversion, MayStep, OwnCall
        <4>3. adc'[t].pc = "sleep" /\ adc'[t].ch = adc[t].ch
          BY <1>0, <1>3 DEF StartConversion
        <4>4. Converts(adc[t].ch)'
          <5>1. adcReg' = [start |-> TRUE, channel |-> adc[t].ch] /\ hw' = [hw EXCEPT !.start_en = TRUE]
            BY <1>3, <4>2 DEF StartConversion
          <5>2. hw'.start_en /\ hw'.st = hw.st /\ hw.st \in {"st_00", "st_03"}
            BY <1>0, <4>1, <5>1
          <5> QED  BY <4>3, <5>1, <5>2 DEF Converts
        <4> QED  BY <3>2, <4>3, <4>4 DEF OwnCall, Converts
      <3>3. CASE u # t
        <4>1. ~ InCall(u) /\ adc'[u] = adc[u]
          BY <1>0, <1>3, <2>2, <3>3 DEF StartConversion, Disturb
        <4> QED  BY <4>1 DEF OwnCall, InCall
      <3> QED  BY <3>2, <3>3
    <2> QED  BY <2>1, <2>2 DEF AdcInv
  <1>4. ASSUME NEW t \in Reader, Poll(t)
        PROVE  AdcInv'
    <2>1. AdcTypes'
      <3>1. PICK v \in AdcValue : v = IF hw.st = "st_03" THEN hw.data ELSE None
        BY <1>0
      <3>2. PICK a \in [pc : AdcLabel, ch : AdcValue, got : AdcValue] :
              a = [adc[t] EXCEPT !.pc = "stop", !.got = v]
        BY <1>0
      <3>3. adc' = [adc EXCEPT ![t] = a]
        BY <1>4, <3>1, <3>2 DEF Poll
      <3>4. UNCHANGED <<adcReg, hw>>
        BY <1>4 DEF Poll
      <3> QED  BY <1>0, <3>3, <3>4
    <2>2. ASSUME NEW u \in Reader \ disturbed'
          PROVE  OwnCall(u)'
      BY <1>0, <1>4, <2>2 DEF Poll, MayStep, OwnCall, Converts
    <2> QED  BY <2>1, <2>2 DEF AdcInv
  <1>5. ASSUME NEW t \in Reader, Stop(t)
        PROVE  AdcInv'
    <2>1. AdcTypes'  BY <1>0, <1>5 DEF Stop, MayStep
    <2>2. ASSUME NEW u \in Reader \ disturbed'
          PROVE  OwnCall(u)'
      BY <1>0, <1>5, <2>2 DEF Stop, MayStep, OwnCall, Converts, Disturb, InCall
    <2> QED  BY <2>1, <2>2 DEF AdcInv
  <1>6. ASSUME NEW t \in Reader, ReturnVoltage(t)
        PROVE  AdcInv'
    <2>1. AdcTypes'  BY <1>0, <1>6 DEF ReturnVoltage, MayStep, Out
    <2>2. ASSUME NEW u \in Reader \ disturbed'
          PROVE  OwnCall(u)'
      BY <1>0, <1>6, <2>2 DEF ReturnVoltage, MayStep, OwnCall, Converts, Out
    <2> QED  BY <2>1, <2>2 DEF AdcInv
  <1>7. ASSUME UNCHANGED <<adcReg, hw, adc, disturbed>>
        PROVE  AdcInv'
    BY <1>0, <1>7 DEF AdcInv, OwnCall, Converts
  <1>8. CASE BeginFrame
    <2>1. AdcTypes'  BY <1>0, <1>8 DEF BeginFrame
    <2>2. ASSUME NEW u \in Reader \ disturbed'
          PROVE  OwnCall(u)'
      BY <1>0, <1>8, <2>2 DEF BeginFrame, OwnCall, Converts
    <2> QED  BY <2>1, <2>2 DEF AdcInv
  <1>9. CASE ShiftChannel
    <2>1. AdcTypes'  BY <1>0, <1>9 DEF ShiftChannel
    <2>2. ASSUME NEW u \in Reader \ disturbed'
          PROVE  OwnCall(u)'
      BY <1>0, <1>9, <2>2 DEF ShiftChannel, OwnCall, Converts
    <2> QED  BY <2>1, <2>2 DEF AdcInv
  <1>10. CASE Latch
    <2>1. AdcTypes'  BY <1>0, <1>10 DEF Latch
    <2>2. ASSUME NEW u \in Reader \ disturbed'
          PROVE  OwnCall(u)'
      BY <1>0, <1>10, <2>2 DEF Latch, OwnCall, Converts
    <2> QED  BY <2>1, <2>2 DEF AdcInv
  <1> QED
    BY <1>1, <1>2, <1>3, <1>4, <1>5, <1>6, <1>7, <1>8, <1>9, <1>10 DEF AdcNext, Suspend, Resume

LEMMA AdcStarts == AdcInit => AdcInv
PROOF BY DEF AdcInit, AdcInv, AdcTypes, AdcValue, AdcLabel, OwnCall, Out

LEMMA AdcSteps == AdcInv /\ (AdcNext \/ UNCHANGED adcVars) => AdcInv'
PROOF
  <1>1. AdcInv /\ UNCHANGED adcVars => AdcInv'
    BY DEF AdcInv, AdcTypes, AdcValue, AdcLabel, OwnCall, Converts, adcVars
  <1> QED  BY <1>1, AdcStep

LEMMA ReadingIsOwnInv == AdcInv => ReadingIsOwn
PROOF BY DEF AdcInv, OwnCall, ReadingIsOwn

-----------------------------------------------------------------------------
(* The locks of malloc and of the environment *)

LockLabel == {"out", "queried", "pended", "locked", "in", "post"}

LockTypes ==
    /\ which \in {"malloc", "env"}
    /\ sem \in [cnt : {0, 1}, waiting : SUBSET Mutator]
    /\ lockid \in Mutator \cup {-1}
    /\ locks \in Int
    /\ at \in [Mutator -> [pc : LockLabel, seen : BOOLEAN]]
    /\ depth \in [Mutator -> Nat]

(* The task that has the semaphore: from the moment it need not wait for it *)
(* any more until it has posted it.                                         *)
HasSem(t) ==
    \/ at[t].pc = "pended" /\ t \notin sem.waiting
    \/ at[t].pc \in {"locked", "post"}
    \/ depth[t] > 0

(* What each statement of a lock or an unlock finds. *)
LockStage(t) ==
    /\ at[t].pc = "in" => depth[t] > 0
    /\ at[t].pc \in {"out", "locked", "post"} => depth[t] = 0
    /\ at[t].pc = "locked" => locks = 1
    /\ at[t].pc = "pended" /\ depth[t] > 0 => t \in sem.waiting
    /\ t \in sem.waiting => at[t].pc = "pended"

(* The owner is known as such, and malloc's lock recognises it: the owner's *)
(* query finds the count 0, since the count is 0 while anyone has it.       *)
LockOwner(t) ==
    /\ lockid = t <=> depth[t] > 0
    /\ depth[t] > 0 => locks = depth[t]
    /\ which = "malloc" /\ depth[t] > 0 =>
          at[t].pc = "in" \/ (at[t].pc = "queried" /\ at[t].seen)
    /\ HasSem(t) => sem.cnt = 0

LockInv ==
    /\ LockTypes
    /\ \A t \in Mutator : LockStage(t) /\ LockOwner(t)
    /\ \A t, u \in Mutator : HasSem(t) /\ HasSem(u) => t = u

(* One step of a task, with what it leaves to the others.                   *)
LEMMA LockStep ==
    ASSUME LockInv, LockNext
    PROVE  LockInv'
PROOF
  <1> USE HeapAssumption DEF LockTypes, LockLabel
  <1>0. /\ LockTypes
        /\ \A t \in Mutator : LockStage(t) /\ LockOwner(t)
        /\ \A t, u \in Mutator : HasSem(t) /\ HasSem(u) => t = u
        /\ UNCHANGED which
    BY DEF LockInv, LockNext
  <1>1. ASSUME NEW t \in Mutator, Query(t)
        PROVE  LockInv'
    <2>0. LockStage(t) /\ LockOwner(t)
      BY <1>0
    <2>1. LockTypes'
      BY <1>0, <1>1, <2>0 DEF Query, Runs, LockStage, LockOwner, HasSem
    <2>2. ASSUME NEW u \in Mutator
          PROVE  LockStage(u)' /\ LockOwner(u)'
      <3>1. LockStage(u) /\ LockOwner(u) /\ (HasSem(t) /\ HasSem(u) => t = u)
        BY <1>0
      <3>2. LockStage(u)'
        BY <1>0, <1>1, <2>0, <3>1 DEF Query, Runs, LockStage, LockOwner, HasSem
      <3>3. LockOwner(u)'
        <4>1. UNCHANGED <<sem, lockid, locks, depth, which>>
          BY <1>0, <1>1 DEF Query
        <4>2. CASE u = t
          <5>1. at'[t].pc = "queried" /\ at[t].pc \in {"out", "in"}
            BY <1>0, <1>1 DEF Query
          <5>4. ASSUME which = "malloc", sem.cnt = 0
                PROVE  at'[t].seen
            BY <1>0, <1>1, <5>4 DEF Query
          <5>2. depth[t] > 0 => HasSem(t) /\ sem.cnt = 0
            BY <2>0 DEF LockOwner, HasSem
          <5>3. HasSem(t)' => depth[t] > 0
            BY <4>1, <5>1 DEF HasSem
          <5> QED  BY <2>0, <4>1, <4>2, <5>1, <5>2, <5>3, <5>4 DEF LockOwner
        <4>3. CASE u # t
          <5>1. at'[u] = at[u]
            BY <1>0, <1>1, <4>3 DEF Query
          <5> QED  BY <3>1, <4>1, <5>1 DEF LockOwner, HasSem
        <4> QED  BY <4>2, <4>3
      <3> QED  BY <3>2, <3>3
    <2>3. ASSUME NEW u \in Mutator, NEW v \in Mutator, HasSem(u)', HasSem(v)'
          PROVE  u = v
      <3>1. /\ LockStage(u) /\ LockOwner(u) /\ (HasSem(t) /\ HasSem(u) => t = u)
            /\ LockStage(v) /\ LockOwner(v) /\ (HasSem(t) /\ HasSem(v) => t = v)
            /\ HasSem(u) /\ HasSem(v) => u = v
        BY <1>0
      <3> QED
        BY <1>0, <1>1, <2>0, <2>3, <3>1 DEF Query, Runs, LockStage, LockOwner, HasSem
    <2> QED  BY <2>1, <2>2, <2>3 DEF LockInv
  <1>2. ASSUME NEW t \in Mutator, Compare(t)
        PROVE  LockInv'
    <2>0. LockStage(t) /\ LockOwner(t)
      BY <1>0
    <2>1. LockTypes'
      BY <1>0, <1>2, <2>0 DEF Compare, Stands, Runs, Moves, LockStage, LockOwner, HasSem
    <2>2. ASSUME NEW u \in Mutator
          PROVE  LockStage(u)' /\ LockOwner(u)'
      <3>1. LockStage(u) /\ LockOwner(u) /\ (HasSem(t) /\ HasSem(u) => t = u)
        BY <1>0
      <3>2. LockStage(u)'
        BY <1>0, <1>2, <2>0, <3>1 DEF Compare, Stands, Runs, Moves, LockStage, LockOwner, HasSem
      <3>3. LockOwner(u)'
        BY <1>0, <1>2, <2>0, <3>1 DEF Compare, Stands, Runs, Moves, LockStage, LockOwner, HasSem
      <3> QED  BY <3>2, <3>3
    <2>3. ASSUME NEW u \in Mutator, NEW v \in Mutator, HasSem(u)', HasSem(v)'
          PROVE  u = v
      <3>1. /\ LockStage(u) /\ LockOwner(u) /\ (HasSem(t) /\ HasSem(u) => t = u)
            /\ LockStage(v) /\ LockOwner(v) /\ (HasSem(t) /\ HasSem(v) => t = v)
            /\ HasSem(u) /\ HasSem(v) => u = v
        BY <1>0
      <3> QED
        BY <1>0, <1>2, <2>0, <2>3, <3>1 DEF Compare, Stands, Runs, Moves, LockStage, LockOwner, HasSem
    <2> QED  BY <2>1, <2>2, <2>3 DEF LockInv
  <1>3. ASSUME NEW t \in Mutator, Locks(t)
        PROVE  LockInv'
    <2>0. LockStage(t) /\ LockOwner(t)
      BY <1>0
    <2>1. LockTypes'
      BY <1>0, <1>3, <2>0 DEF Locks, Stands, Runs, Moves, LockStage, LockOwner, HasSem
    <2>2. ASSUME NEW u \in Mutator
          PROVE  LockStage(u)' /\ LockOwner(u)'
      <3>1. LockStage(u) /\ LockOwner(u) /\ (HasSem(t) /\ HasSem(u) => t = u)
        BY <1>0
      <3>2. LockStage(u)'
        BY <1>0, <1>3, <2>0, <3>1 DEF Locks, Stands, Runs, Moves, LockStage, LockOwner, HasSem
      <3>3. LockOwner(u)'
        BY <1>0, <1>3, <2>0, <3>1 DEF Locks, Stands, Runs, Moves, LockStage, LockOwner, HasSem
      <3> QED  BY <3>2, <3>3
    <2>3. ASSUME NEW u \in Mutator, NEW v \in Mutator, HasSem(u)', HasSem(v)'
          PROVE  u = v
      <3>1. /\ LockStage(u) /\ LockOwner(u) /\ (HasSem(t) /\ HasSem(u) => t = u)
            /\ LockStage(v) /\ LockOwner(v) /\ (HasSem(t) /\ HasSem(v) => t = v)
            /\ HasSem(u) /\ HasSem(v) => u = v
        BY <1>0
      <3> QED
        BY <1>0, <1>3, <2>0, <2>3, <3>1 DEF Locks, Stands, Runs, Moves, LockStage, LockOwner, HasSem
    <2> QED  BY <2>1, <2>2, <2>3 DEF LockInv
  <1>4. ASSUME NEW t \in Mutator, Owns(t)
        PROVE  LockInv'
    <2>0. LockStage(t) /\ LockOwner(t)
      BY <1>0
    <2>1. LockTypes'
      BY <1>0, <1>4, <2>0 DEF Owns, Stands, Runs, Moves, LockStage, LockOwner, HasSem
    <2>2. ASSUME NEW u \in Mutator
          PROVE  LockStage(u)' /\ LockOwner(u)'
      <3>1. LockStage(u) /\ LockOwner(u) /\ (HasSem(t) /\ HasSem(u) => t = u)
        BY <1>0
      <3>2. LockStage(u)'
        BY <1>0, <1>4, <2>0, <3>1 DEF Owns, Stands, Runs, Moves, LockStage, LockOwner, HasSem
      <3>3. LockOwner(u)'
        <4>1. /\ at[t].pc = "locked" /\ depth[t] = 0 /\ locks = 1
              /\ HasSem(t)
          BY <1>4, <2>0 DEF Owns, Stands, LockStage, HasSem
        <4>2. CASE u = t
          <5>1. /\ lockid' = t /\ depth'[t] = 1 /\ at'[t].pc = "in"
                /\ locks' = 1 /\ sem' = sem
            BY <1>0, <1>4, <4>1 DEF Owns, Moves
          <5>2. sem.cnt = 0
            BY <2>0, <4>1 DEF LockOwner
          <5> QED  BY <4>2, <5>1, <5>2 DEF LockOwner, HasSem
        <4>3. CASE u # t
          <5>1. ~ HasSem(u)
            BY <3>1, <4>1, <4>3
          <5>2. ~ HasSem(u)' /\ depth'[u] = depth[u]
            BY <1>0, <1>4, <4>3, <5>1 DEF Owns, Moves, HasSem
          <5> QED  BY <1>0, <1>4, <4>3, <5>1, <5>2 DEF Owns, LockOwner, HasSem
        <4> QED  BY <4>2, <4>3
      <3> QED  BY <3>2, <3>3
    <2>3. ASSUME NEW u \in Mutator, NEW v \in Mutator, HasSem(u)', HasSem(v)'
          PROVE  u = v
      <3>1. /\ LockStage(u) /\ LockOwner(u) /\ (HasSem(t) /\ HasSem(u) => t = u)
            /\ LockStage(v) /\ LockOwner(v) /\ (HasSem(t) /\ HasSem(v) => t = v)
            /\ HasSem(u) /\ HasSem(v) => u = v
        BY <1>0
      <3> QED
        BY <1>0, <1>4, <2>0, <2>3, <3>1 DEF Owns, Stands, Runs, Moves, LockStage, LockOwner, HasSem
    <2> QED  BY <2>1, <2>2, <2>3 DEF LockInv
  <1>5. ASSUME NEW t \in Mutator, Unlock(t)
        PROVE  LockInv'
    <2>0. LockStage(t) /\ LockOwner(t)
      BY <1>0
    <2>1. LockTypes'
      BY <1>0, <1>5, <2>0 DEF Unlock, Stands, Runs, Moves, LockStage, LockOwner, HasSem
    <2>2. ASSUME NEW u \in Mutator
          PROVE  LockStage(u)' /\ LockOwner(u)'
      <3>1. LockStage(u) /\ LockOwner(u) /\ (HasSem(t) /\ HasSem(u) => t = u)
        BY <1>0
      <3>2. LockStage(u)'
        BY <1>0, <1>5, <2>0, <3>1 DEF Unlock, Stands, Runs, Moves, LockStage, LockOwner, HasSem
      <3>3. LockOwner(u)'
        BY <1>0, <1>5, <2>0, <3>1 DEF Unlock, Stands, Runs, Moves, LockStage, LockOwner, HasSem
      <3> QED  BY <3>2, <3>3
    <2>3. ASSUME NEW u \in Mutator, NEW v \in Mutator, HasSem(u)', HasSem(v)'
          PROVE  u = v
      <3>1. /\ LockStage(u) /\ LockOwner(u) /\ (HasSem(t) /\ HasSem(u) => t = u)
            /\ LockStage(v) /\ LockOwner(v) /\ (HasSem(t) /\ HasSem(v) => t = v)
            /\ HasSem(u) /\ HasSem(v) => u = v
        BY <1>0
      <3> QED
        BY <1>0, <1>5, <2>0, <2>3, <3>1 DEF Unlock, Stands, Runs, Moves, LockStage, LockOwner, HasSem
    <2> QED  BY <2>1, <2>2, <2>3 DEF LockInv
  <1>6. ASSUME NEW t \in Mutator, Post(t)
        PROVE  LockInv'
    <2>0. LockStage(t) /\ LockOwner(t)
      BY <1>0
    <2>1. LockTypes'
      BY <1>0, <1>6, <2>0 DEF Post, Stands, Runs, Moves, PostSem, LockStage, LockOwner, HasSem
    <2>2. ASSUME NEW u \in Mutator
          PROVE  LockStage(u)' /\ LockOwner(u)'
      <3>1. LockStage(u) /\ LockOwner(u) /\ (HasSem(t) /\ HasSem(u) => t = u)
        BY <1>0
      <3>2. LockStage(u)'
        BY <1>0, <1>6, <2>0, <3>1 DEF Post, Stands, Runs, Moves, PostSem, LockStage, LockOwner, HasSem
      <3>3. LockOwner(u)'
        BY <1>0, <1>6, <2>0, <3>1 DEF Post, Stands, Runs, Moves, PostSem, LockStage, LockOwner, HasSem
      <3> QED  BY <3>2, <3>3
    <2>3. ASSUME NEW u \in Mutator, NEW v \in Mutator, HasSem(u)', HasSem(v)'
          PROVE  u = v
      <3>1. /\ LockStage(u) /\ LockOwner(u) /\ (HasSem(t) /\ HasSem(u) => t = u)
            /\ LockStage(v) /\ LockOwner(v) /\ (HasSem(t) /\ HasSem(v) => t = v)
            /\ HasSem(u) /\ HasSem(v) => u = v
        BY <1>0
      <3> QED
        BY <1>0, <1>6, <2>0, <2>3, <3>1 DEF Post, Stands, Runs, Moves, PostSem, LockStage, LockOwner, HasSem
    <2> QED  BY <2>1, <2>2, <2>3 DEF LockInv
  <1> QED  BY <1>1, <1>2, <1>3, <1>4, <1>5, <1>6 DEF LockNext

-----------------------------------------------------------------------------
(* sbrk and the memory partitions *)

SbrkInv ==
    /\ heapEnd \in Nat
    /\ given \subseteq Nat \X Nat
    /\ \A r \in given : r[1] + r[2] <= heapEnd /\ r[1] + r[2] <= Limit
    /\ \A r, s \in given : r[1] < s[1] => r[1] + r[2] <= s[1]

LEMMA AlignedUpward ==
    ASSUME NEW n \in Nat
    PROVE  Aligned(n) \in Nat /\ n <= Aligned(n)
PROOF BY DEF Aligned

LEMMA SbrkStep ==
    ASSUME SbrkInv, NEW n \in Incr, Sbrk(n)
    PROVE  SbrkInv'
PROOF
  <1> DEFINE start == Aligned(heapEnd)
  <1>1. /\ heapEnd \in Nat /\ given \subseteq Nat \X Nat
        /\ \A r \in given : r[1] + r[2] <= heapEnd /\ r[1] + r[2] <= Limit
        /\ \A r, s \in given : r[1] < s[1] => r[1] + r[2] <= s[1]
    BY DEF SbrkInv
  <1>2. n \in Nat /\ Limit \in Nat
    BY HeapAssumption
  <1>3. start \in Nat /\ heapEnd <= start
    BY <1>1, AlignedUpward
  <1>4. CASE start + n > Limit
    <2>1. heapEnd' = start /\ given' = given
      BY <1>4 DEF Sbrk
    <2> HIDE DEF start
    <2>2. \A r \in given : r[1] \in Nat /\ r[2] \in Nat
      BY <1>1
    <2>3. \A r \in given : r[1] + r[2] <= start
      BY <1>1, <1>3, <2>2
    <2> QED  BY <1>1, <1>3, <2>1, <2>3 DEF SbrkInv
  <1>5. CASE ~ (start + n > Limit)
    <2> DEFINE new == <<start, n>>
    <2>1. heapEnd' = start + n /\ given' = given \cup {new}
      BY <1>5 DEF Sbrk
    <2> HIDE DEF start
    <2>2. /\ new \in Nat \X Nat /\ new[1] = start /\ new[2] = n
          /\ start + n \in Nat /\ start + n <= Limit
      BY <1>2, <1>3, <1>5
    <2> HIDE DEF new
    <2>3. ASSUME NEW r \in given'
          PROVE  r[1] + r[2] <= start + n /\ r[1] + r[2] <= Limit
      <3>1. CASE r = new
        BY <1>2, <1>3, <2>2, <3>1
      <3>2. CASE r \in given
        <4>1. r[1] \in Nat /\ r[2] \in Nat /\ r[1] + r[2] <= heapEnd /\ r[1] + r[2] <= Limit
          BY <1>1, <3>2
        <4> QED  BY <1>1, <1>2, <1>3, <4>1
      <3> QED  BY <2>1, <3>1, <3>2
    <2>4. ASSUME NEW r \in given', NEW s \in given', r[1] < s[1]
          PROVE  r[1] + r[2] <= s[1]
      <3>1. \A q \in given : q[1] \in Nat /\ q[2] \in Nat /\ q[1] + q[2] <= start
        BY <1>1, <1>3
      <3>2. CASE r \in given /\ s \in given
        BY <1>1, <2>4, <3>2
      <3>3. CASE s = new
        BY <1>2, <1>3, <2>1, <2>2, <2>4, <3>1, <3>3
      <3>4. CASE r = new /\ s \in given
        BY <1>2, <1>3, <2>2, <2>4, <3>1, <3>4
      <3> QED  BY <2>1, <3>2, <3>3, <3>4
    <2>5. given' \subseteq Nat \X Nat
      BY <1>1, <2>1, <2>2
    <2> QED  BY <2>1, <2>2, <2>3, <2>4, <2>5 DEF SbrkInv
  <1> QED  BY <1>4, <1>5

(* The free list and the blocks given out are the partition's, each once.   *)
PartInv ==
    /\ free \in Seq(Blocks) /\ held \subseteq Blocks
    /\ \A i, j \in DOMAIN free : free[i] = free[j] => i = j
    /\ \A i \in DOMAIN free : free[i] \notin held
    /\ nFree = Len(free) /\ Len(free) + Cardinality(held) = Cardinality(Blocks)

LEMMA PartInit == HeapInit => PartInv
PROOF
  <1> SUFFICES ASSUME HeapInit PROVE PartInv
    OBVIOUS
  <1> DEFINE n == Cardinality(Blocks)
  <1>1. IsFiniteSet(Blocks) /\ n \in Nat /\ ExistsBijection(1..n, Blocks)
    BY HeapAssumption, FS_CardinalityType
  <1>2. \E f \in [1..n -> Blocks] : IsInjective(f)
    BY <1>1 DEF ExistsBijection, Bijection, Injection
  <1>3. free \in [1..n -> Blocks] /\ IsInjective(free)
    BY <1>2 DEF HeapInit, SetToSeq
  <1>4. free \in Seq(Blocks) /\ Len(free) = n /\ DOMAIN free = 1..n
    BY <1>1, <1>3
  <1>5. Cardinality({}) = 0
    BY FS_EmptySet
  <1> QED
    BY <1>1, <1>3, <1>4, <1>5 DEF HeapInit, PartInv, IsInjective

LEMMA PartGet ==
    ASSUME PartInv, OSMemGet
    PROVE  PartInv'
PROOF
  <1>1. /\ free \in Seq(Blocks) /\ free # <<>> /\ held \subseteq Blocks
        /\ \A i, j \in 1..Len(free) : free[i] = free[j] => i = j
        /\ \A i \in 1..Len(free) : free[i] \notin held
    BY DEF PartInv, OSMemGet
  <1>2. /\ held' = held \cup {free[1]} /\ free' = Tail(free) /\ nFree' = nFree - 1
        /\ free[1] \in Blocks
    BY <1>1 DEF OSMemGet
  <1>3. /\ free' \in Seq(Blocks) /\ Len(free') = Len(free) - 1 /\ Len(free) \in Nat
        /\ \A i \in 1..Len(free') : free'[i] = free[i + 1] /\ i + 1 \in 2..Len(free)
    BY <1>1, <1>2
  <1>4. IsFiniteSet(held) /\ Cardinality(held) \in Nat
    BY <1>1, HeapAssumption, FS_Subset, FS_CardinalityType
  <1>5. Cardinality(held') = Cardinality(held) + 1
    <2>1. free[1] \notin held
      BY <1>1
    <2> QED  BY <1>2, <1>4, <2>1, FS_AddElement
  <1>6. \A i, j \in 1..Len(free') : free'[i] = free'[j] => i = j
    BY <1>1, <1>3
  <1>7. \A i \in 1..Len(free') : free'[i] \notin held'
    BY <1>1, <1>2, <1>3
  <1>8. held' \subseteq Blocks
    BY <1>1, <1>2
  <1> QED
    BY <1>2, <1>3, <1>4, <1>5, <1>6, <1>7, <1>8 DEF PartInv

LEMMA PartPut ==
    ASSUME PartInv, NEW b \in Blocks, OSMemPut(b)
    PROVE  PartInv'
PROOF
  <1>1. /\ free \in Seq(Blocks) /\ held \subseteq Blocks /\ b \in held
        /\ \A i, j \in 1..Len(free) : free[i] = free[j] => i = j
        /\ \A i \in 1..Len(free) : free[i] \notin held
    <2>1. DOMAIN free = 1..Len(free)
      BY DEF PartInv
    <2> QED  BY <2>1 DEF PartInv, OSMemPut
  <1>2. held' = held \ {b} /\ free' = <<b>> \o free /\ nFree' = nFree + 1
    BY DEF OSMemPut
  <1>3. /\ free' \in Seq(Blocks) /\ Len(free') = Len(free) + 1 /\ Len(free) \in Nat
        /\ free'[1] = b
        /\ \A i \in 2..Len(free') : free'[i] = free[i - 1] /\ i - 1 \in 1..Len(free)
    BY <1>1, <1>2
  <1>4. IsFiniteSet(held) /\ Cardinality(held) \in Nat
    BY <1>1, HeapAssumption, FS_Subset, FS_CardinalityType
  <1>5. Cardinality(held') = Cardinality(held) - 1
    BY <1>1, <1>2, <1>4, FS_RemoveElement
  <1>6. ASSUME NEW i \in 1..Len(free'), NEW j \in 1..Len(free'), free'[i] = free'[j]
        PROVE  i = j
    <2>1. i = 1 \/ i \in 2..Len(free')
      BY <1>3
    <2>2. j = 1 \/ j \in 2..Len(free')
      BY <1>3
    <2>3. CASE i = 1 /\ j = 1
      BY <2>3
    <2>4. CASE i = 1 /\ j \in 2..Len(free')
      BY <1>1, <1>3, <1>6, <2>4
    <2>5. CASE i \in 2..Len(free') /\ j = 1
      BY <1>1, <1>3, <1>6, <2>5
    <2>6. CASE i \in 2..Len(free') /\ j \in 2..Len(free')
      <3>1. free[i - 1] = free[j - 1]
        BY <1>3, <1>6, <2>6
      <3>2. i - 1 = j - 1
        BY <1>1, <1>3, <2>6, <3>1
      <3> QED  BY <3>2
    <2> QED  BY <2>1, <2>2, <2>3, <2>4, <2>5, <2>6
  <1>7. ASSUME NEW i \in 1..Len(free')
        PROVE  free'[i] \notin held'
    <2>1. i = 1 \/ i \in 2..Len(free')
      BY <1>3
    <2> QED  BY <1>1, <1>2, <1>3, <2>1
  <1>8. held' \subseteq Blocks
    BY <1>1, <1>2
  <1>9. DOMAIN free' = 1..Len(free')
    BY <1>3
  <1>10. nFree' = Len(free') /\ Len(free') + Cardinality(held') = Cardinality(Blocks)
    BY <1>2, <1>3, <1>4, <1>5 DEF PartInv
  <1> QED
    BY <1>3, <1>6, <1>7, <1>8, <1>9, <1>10 DEF PartInv

HeapInv == LockInv /\ SbrkInv /\ PartInv

LEMMA HeapStarts ==
    ASSUME HeapInit
    PROVE  HeapInv
PROOF
  <1>1. LockInv
    BY HeapAssumption DEF HeapInit, LockInv, LockTypes, LockLabel, LockStage, LockOwner, HasSem
  <1>2. SbrkInv
    BY DEF HeapInit, SbrkInv
  <1> QED  BY <1>1, <1>2, PartInit DEF HeapInv

LEMMA HeapSteps ==
    ASSUME HeapInv, LockNext \/ RegionsNext \/ UNCHANGED heapVars
    PROVE  HeapInv'
PROOF
  <1>0. LockInv /\ SbrkInv /\ PartInv
    BY DEF HeapInv
  <1>1. ASSUME UNCHANGED <<which, lockVars>>
        PROVE  LockInv'
    BY <1>0, <1>1 DEF LockInv, LockTypes, LockStage, LockOwner, HasSem, lockVars
  <1>2. ASSUME UNCHANGED sbrkVars
        PROVE  SbrkInv'
    BY <1>0, <1>2 DEF SbrkInv, sbrkVars
  <1>3. ASSUME UNCHANGED partVars
        PROVE  PartInv'
    BY <1>0, <1>3 DEF PartInv, partVars
  <1>4. CASE LockNext
    BY <1>0, <1>2, <1>3, <1>4, LockStep DEF LockNext, HeapInv
  <1>5. ASSUME NEW n \in Incr, Sbrk(n)
        PROVE  HeapInv'
    BY <1>0, <1>1, <1>3, <1>5, SbrkStep DEF Sbrk, HeapInv
  <1>6. CASE OSMemGet
    BY <1>0, <1>1, <1>2, <1>6, PartGet DEF OSMemGet, HeapInv
  <1>7. ASSUME NEW b \in Blocks, OSMemPut(b)
        PROVE  HeapInv'
    BY <1>0, <1>1, <1>2, <1>7, PartPut DEF OSMemPut, HeapInv
  <1>8. CASE UNCHANGED heapVars
    BY <1>1, <1>2, <1>3, <1>8 DEF heapVars, HeapInv
  <1> QED  BY <1>4, <1>5, <1>6, <1>7, <1>8 DEF RegionsNext

LEMMA HeapHoldsInv ==
    ASSUME LockInv, SbrkInv, PartInv
    PROVE  HeapHolds
PROOF
  <1>1. LockIsRecursive
    BY DEF LockInv, LockTypes, LockStage, LockOwner, HasSem, LockIsRecursive
  <1>2. RegionsApart
    BY DEF SbrkInv, PartInv, RegionsApart, ToSet
  <1> QED  BY <1>1, <1>2 DEF HeapHolds

-----------------------------------------------------------------------------
(* Interrupts *)

RegisterLabel == {"idle", "disable", "off", "handler", "context", "inner", "write", "restore", "finish"}
OrNull == Handler \cup {"null"}
Registration == [pc : RegisterLabel, id : Nat, handler : OrNull, outer : {TRUE}, inner : BOOLEAN,
                 copy : SUBSET Line]
Frame == [at : {"first", "again", "inside", "open", "closed"}, line : Nat, old : SUBSET Line]

InterruptsTypes ==
    /\ table \in [Line -> [handler : OrNull, context : OrNull]]
    /\ active \in SUBSET Line /\ ienable \in SUBSET Line
    /\ raised \in SUBSET Line /\ mask \in SUBSET Line
    /\ registering \in [Registrar -> Registration]
    /\ pie \in [Registrar -> BOOLEAN]
    /\ service \in Seq(Frame)
    /\ dispatched \in [handler : OrNull, context : OrNull]

(* A task has interrupts off from "handler" on until it has finished, and   *)
(* meanwhile is alone.                                                      *)
RegistersAlone ==
    /\ \A t \in Registrar : /\ pie[t] <=> registering[t].pc \in {"idle", "disable", "off"}
                            /\ registering[t].pc \in {"write", "restore"} => ~ registering[t].inner
                            /\ registering[t].pc # "idle" => registering[t].id \in Line
    /\ \A t, u \in Registrar : ~ pie[t] /\ ~ pie[u] => t = u
    /\ service # <<>> => \A t \in Registrar : pie[t]

(* A line's entry is whole and its bit is right. *)
Row(i) == /\ table[i].handler = table[i].context
          /\ i \in active <=> table[i].handler # "null"

Writing == {"context", "inner", "write"}

(* All entries are so but the one that is being written. *)
TableFollows ==
    /\ \A i \in Line : Row(i) \/ \E t \in Registrar : registering[t].pc \in Writing /\ registering[t].id = i
    /\ \A t \in Registrar :
          /\ registering[t].pc \in Writing => table[registering[t].id].handler = registering[t].handler
          /\ registering[t].pc \in Writing \ {"context"} =>
                table[registering[t].id].context = registering[t].handler
          /\ registering[t].pc = "write" => registering[t].copy = active
    /\ ienable = active \cap mask \/ \E t \in Registrar : registering[t].pc = "restore"

(* The lines that may interrupt the n-th dispatcher. *)
Under(n) == IF n = 0 THEN Line ELSE {l \in Line : l < service[n].line}

Nested ==
    /\ \A j \in 1 .. Len(service) :
          /\ j < Len(service) => service[j].at = "open"
          /\ service[j].at = "open" => service[j].old = Under(j - 1)
          /\ j > 1 /\ service[j].at \in {"inside", "open", "closed"} => service[j].line < service[j - 1].line
    /\ mask = IF service = <<>> THEN Line
              ELSE IF OnTop("open") THEN Under(Len(service)) ELSE Under(Len(service) - 1)

Dispatched ==
    /\ dispatched.handler = dispatched.context
    /\ OnTop("inside") => dispatched.handler # "null"
    /\ OnTop("first") => Pending # {}

InterruptsInv == InterruptsTypes /\ RegistersAlone /\ TableFollows /\ Nested /\ Dispatched

LEMMA LowestIsPending ==
    ASSUME InterruptsTypes, Pending # {}
    PROVE  Lowest(Pending) \in Pending
PROOF
  <1> DEFINE less == OpToRel(<, Nat)
  <1>1. Pending \subseteq Nat
    BY InterruptsAssumption DEF InterruptsTypes, Pending
  <1>2. IsWellFoundedOn(less, Nat)
    BY NatLessThanWellFounded
  <1>3. \A x, y \in Nat : y < x => <<y, x>> \in less
    BY DEF OpToRel
  <1> HIDE DEF less
  <1>4. PICK x \in Pending : \A y \in Pending : ~ (<<y, x>> \in less)
    BY <1>1, <1>2, WFMin
  <1>5. ASSUME NEW y \in Pending
        PROVE  x <= y
    <2>1. x \in Nat /\ y \in Nat
      BY <1>1
    <2>2. ~ (y < x)
      BY <1>3, <1>4, <2>1
    <2> QED  BY <2>1, <2>2
  <1> QED  BY <1>5 DEF Lowest

(* A registration goes on to `to'.                                         *)
Keeps(t, to) ==
    /\ registering' \in [Registrar -> Registration]
    /\ registering'[t].pc = to /\ registering'[t].id = registering[t].id
    /\ registering'[t].handler = registering[t].handler

LEMMA Moved ==
    ASSUME InterruptsTypes, NEW t \in Registrar, NEW to \in RegisterLabel,
           registering' = [registering EXCEPT ![t].pc = to]
    PROVE  Keeps(t, to)
PROOF BY DEF Keeps, InterruptsTypes, Registration

(* Before the first entry is written a registration moves only itself.      *)
LEMMA QuietLines ==
    ASSUME InterruptsTypes, RegistersAlone, TableFollows, NEW t \in Registrar,
           registering[t].pc \in {"disable", "off"},
           \/ Keeps(t, "off") /\ pie' = pie /\ pie[t]
           \/ Keeps(t, "handler") /\ pie' = [pie EXCEPT ![t] = FALSE],
           service = <<>>, \A u \in Registrar \ {t} : pie[u] /\ registering'[u] = registering[u],
           UNCHANGED <<table, active, ienable, raised, mask, service, dispatched>>
    PROVE  InterruptsTypes' /\ RegistersAlone' /\ TableFollows'
PROOF
  <1>1. InterruptsTypes'
    BY DEF InterruptsTypes, Keeps
  <1>2. RegistersAlone'
    BY DEF InterruptsTypes, RegistersAlone, Keeps
  <1>3. TableFollows'
    BY DEF TableFollows, Row, Writing, Keeps
  <1> QED  BY <1>1, <1>2, <1>3

(* A step of a registration. *)
LEMMA RegistrationStep ==
    ASSUME InterruptsInv, NEW t \in Registrar,
           \/ \E i \in Line, h \in OrNull : alt_ic_isr_register(t, i, h)
           \/ alt_irq_disable_all(t) \/ alt_iic_isr_register(t) \/ alt_irq_enable(t)
           \/ alt_irq_enable_all(t)
    PROVE  InterruptsInv'
PROOF
  <1>0. InterruptsTypes /\ RegistersAlone /\ TableFollows /\ Nested /\ Dispatched
    BY DEF InterruptsInv
  <1> DEFINE b == registering[t]
  <1>1. /\ service = <<>> /\ mask = Line /\ \A u \in Registrar \ {t} : pie[u]
        /\ UNCHANGED <<raised, mask, service, dispatched>>
        /\ \A u \in Registrar \ {t} : registering'[u] = registering[u] /\ pie'[u] = pie[u]
    BY <1>0 DEF InterruptsTypes, Nested, alt_ic_isr_register, alt_irq_disable_all, alt_iic_isr_register,
                alt_irq_enable, alt_irq_enable_all, Advances, MayRegister
  <1>2. \A u \in Registrar \ {t} : registering[u].pc \in {"idle", "disable", "off"}
    BY <1>0, <1>1 DEF RegistersAlone
  <1>3. Dispatched' /\ Nested'
    <2>1. ~ OnTop("inside")' /\ ~ OnTop("first")'
      BY <1>1 DEF OnTop
    <2> QED  BY <1>0, <1>1, <2>1 DEF Dispatched, Nested, Under
  <1>4. CASE \E i \in Line, h \in OrNull : alt_ic_isr_register(t, i, h)
    <2>1. PICK i \in Line, h \in OrNull : alt_ic_isr_register(t, i, h)
      BY <1>4
    <2>2. registering'[t] = [AtRest EXCEPT !.pc = "disable", !.id = i, !.handler = h]
      BY <1>0, <2>1 DEF alt_ic_isr_register, InterruptsTypes
    <2>3. b.pc = "idle" /\ i \in Nat
      BY <2>1, InterruptsAssumption DEF alt_ic_isr_register
    <2>4. InterruptsTypes'
      <3>1. [AtRest EXCEPT !.pc = "disable", !.id = i, !.handler = h] \in Registration
        BY <2>3 DEF AtRest, Registration, RegisterLabel
      <3> QED  BY <1>0, <2>1, <3>1 DEF InterruptsTypes, alt_ic_isr_register
    <2>5. /\ registering'[t].pc = "disable" /\ registering'[t].id = i
      BY <2>2 DEF AtRest
    <2>6. RegistersAlone'
      <3>1. pie' = pie /\ service' = service
        BY <2>1 DEF alt_ic_isr_register
      <3>2. pie[t] <=> b.pc \in {"idle", "disable", "off"}
        BY <1>0 DEF RegistersAlone
      <3>3. ASSUME NEW u \in Registrar
            PROVE  /\ pie'[u] <=> registering'[u].pc \in {"idle", "disable", "off"}
                   /\ registering'[u].pc \in {"write", "restore"} => ~ registering'[u].inner
                   /\ registering'[u].pc # "idle" => registering'[u].id \in Line
        <4>1. CASE u = t
          BY <2>1, <2>3, <2>5, <3>1, <3>2, <4>1
        <4>2. CASE u # t
          BY <1>0, <1>1, <4>2 DEF RegistersAlone
        <4> QED  BY <4>1, <4>2
      <3> QED  BY <1>0, <3>1, <3>3 DEF RegistersAlone
    <2>7. TableFollows'
      BY <1>0, <1>1, <1>2, <2>1, <2>3, <2>5 DEF TableFollows, Row, Writing, alt_ic_isr_register
    <2> QED  BY <1>3, <2>4, <2>6, <2>7 DEF InterruptsInv
  <1>5. CASE alt_irq_disable_all(t)
    <2>1. UNCHANGED <<table, active, ienable>>
      BY <1>5 DEF alt_irq_disable_all
    <2>2. CASE b.pc = "disable" /\ registering' = [registering EXCEPT ![t].pc = "off", ![t].outer = pie[t]]
               /\ pie' = pie
      <3>0. pie[t]
        BY <1>0, <2>2 DEF RegistersAlone
      <3>1. b \in Registration /\ pie[t] = TRUE
        BY <1>0, <3>0 DEF InterruptsTypes
      <3>2. registering' = [registering EXCEPT ![t] = [b EXCEPT !.pc = "off", !.outer = TRUE]]
        BY <1>0, <2>2, <3>1 DEF InterruptsTypes
      <3>3. Keeps(t, "off")
        BY <1>0, <3>1, <3>2 DEF Keeps, Registration, RegisterLabel, InterruptsTypes
      <3>4. InterruptsTypes' /\ RegistersAlone' /\ TableFollows'
        BY <1>0, <1>1, <2>1, <2>2, <3>0, <3>3, QuietLines
      <3> QED  BY <1>3, <3>4 DEF InterruptsInv
    <2>3. CASE b.pc = "off" /\ registering' = [registering EXCEPT ![t].pc = "handler"]
               /\ pie' = [pie EXCEPT ![t] = FALSE]
      <3>1. Keeps(t, "handler")
        BY <1>0, <2>3, Moved DEF RegisterLabel
      <3>2. pie' \in [Registrar -> BOOLEAN] /\ pie'[t] = FALSE
        BY <1>0, <2>3 DEF InterruptsTypes
      <3> QED  BY <1>0, <1>1, <1>2, <1>3, <2>1, <2>3, <3>1, <3>2, QuietLines DEF InterruptsInv
    <2> QED  BY <1>5, <2>2, <2>3 DEF alt_irq_disable_all, Advances
  <1>6. CASE alt_iic_isr_register(t)
    <2>1. UNCHANGED <<active, ienable, pie>>
      BY <1>6 DEF alt_iic_isr_register
    <2> DEFINE i == b.id
               h == b.handler
    <2>2. CASE b.pc = "handler" /\ registering' = [registering EXCEPT ![t].pc = "context"]
               /\ table' = [table EXCEPT ![i].handler = h]
      <3>1. i \in Line /\ h \in OrNull /\ table[i] \in [handler : OrNull, context : OrNull]
        BY <1>0, <2>2 DEF RegistersAlone, InterruptsTypes, Registration
      <3>2. Keeps(t, "context")
        BY <1>0, <2>2, Moved DEF RegisterLabel
      <3> HIDE DEF i, h
      <3>3. /\ table' \in [Line -> [handler : OrNull, context : OrNull]] /\ table'[i].handler = h
            /\ \A l \in Line : l # i => table'[l] = table[l]
        BY <1>0, <2>2, <3>1 DEF InterruptsTypes
      <3>4. InterruptsTypes' /\ RegistersAlone'
        BY <1>0, <1>1, <2>1, <2>2, <3>1, <3>2, <3>3 DEF InterruptsTypes, RegistersAlone, Keeps, i
      <3>5. TableFollows'
        BY <1>0, <1>1, <1>2, <2>1, <2>2, <3>1, <3>2, <3>3 DEF TableFollows, Row, Writing, Keeps, i, h
      <3> QED  BY <1>3, <3>4, <3>5 DEF InterruptsInv
    <2>3. CASE b.pc = "context" /\ registering' = [registering EXCEPT ![t].pc = "inner"]
               /\ table' = [table EXCEPT ![i].context = h]
      <3>1. i \in Line /\ h \in OrNull /\ table[i] \in [handler : OrNull, context : OrNull]
        BY <1>0, <2>3 DEF RegistersAlone, InterruptsTypes, Registration
      <3>2. Keeps(t, "inner")
        BY <1>0, <2>3, Moved DEF RegisterLabel
      <3> HIDE DEF i, h
      <3>3. /\ table' \in [Line -> [handler : OrNull, context : OrNull]] /\ table'[i].context = h
            /\ table'[i].handler = table[i].handler
            /\ \A l \in Line : l # i => table'[l] = table[l]
        BY <1>0, <2>3, <3>1 DEF InterruptsTypes
      <3>4. InterruptsTypes' /\ RegistersAlone'
        BY <1>0, <1>1, <2>1, <2>3, <3>1, <3>2, <3>3 DEF InterruptsTypes, RegistersAlone, Keeps, i
      <3>5. TableFollows'
        BY <1>0, <1>1, <1>2, <2>1, <2>3, <3>1, <3>2, <3>3 DEF TableFollows, Row, Writing, Keeps, i, h
      <3> QED  BY <1>3, <3>4, <3>5 DEF InterruptsInv
    <2> QED  BY <1>6, <2>2, <2>3 DEF alt_iic_isr_register, Advances
  <1>7. CASE alt_irq_enable(t)
    <2>1. UNCHANGED table
      BY <1>7 DEF alt_irq_enable
    <2>2. CASE /\ b.pc = "inner" /\ UNCHANGED <<active, ienable>>
               /\ registering' = [registering EXCEPT ![t].pc = "write", ![t].inner = pie[t], ![t].copy = active]
               /\ pie' = [pie EXCEPT ![t] = FALSE]
      <3>1. b \in Registration /\ pie[t] = FALSE /\ active \in SUBSET Line
        BY <1>0, <2>2 DEF RegistersAlone, InterruptsTypes
      <3>2. registering' = [registering EXCEPT ![t] = [b EXCEPT !.pc = "write", !.inner = FALSE, !.copy = active]]
        BY <1>0, <2>2, <3>1 DEF InterruptsTypes
      <3>3. Keeps(t, "write") /\ ~ registering'[t].inner /\ registering'[t].copy = active
        BY <1>0, <3>1, <3>2 DEF Keeps, Registration, RegisterLabel, InterruptsTypes
      <3>4. pie' = pie
        BY <1>0, <2>2, <3>1 DEF InterruptsTypes
      <3>5. InterruptsTypes' /\ RegistersAlone'
        BY <1>0, <1>1, <2>1, <2>2, <3>3, <3>4 DEF InterruptsTypes, RegistersAlone, Keeps
      <3>6. TableFollows'
        BY <1>0, <1>1, <1>2, <2>1, <2>2, <3>3 DEF TableFollows, Row, Writing, Keeps
      <3> QED  BY <1>3, <3>5, <3>6 DEF InterruptsInv
    <2>3. CASE /\ b.pc = "write" /\ registering' = [registering EXCEPT ![t].pc = "restore"]
               /\ active' = IF b.handler # "null" THEN b.copy \cup {b.id} ELSE b.copy \ {b.id}
               /\ UNCHANGED <<ienable, pie>>
      <3>1. b \in Registration /\ b.id \in Line /\ ~ b.inner
        BY <1>0, <2>3 DEF RegistersAlone, InterruptsTypes
      <3>2. registering' = [registering EXCEPT ![t] = [b EXCEPT !.pc = "restore"]]
        BY <1>0, <2>3, <3>1 DEF InterruptsTypes
      <3>3. Keeps(t, "restore") /\ ~ registering'[t].inner
        BY <1>0, <3>1, <3>2 DEF Keeps, Registration, RegisterLabel, InterruptsTypes
      <3>4. InterruptsTypes' /\ RegistersAlone'
        <4>1. active' \in SUBSET Line
          BY <2>3, <3>1 DEF Registration
        <4> QED  BY <1>0, <1>1, <2>1, <2>3, <3>1, <3>3, <4>1 DEF InterruptsTypes, RegistersAlone, Keeps
      <3>5. TableFollows'
        <4>1. /\ b.copy = active /\ table[b.id].handler = b.handler /\ table[b.id].context = b.handler
              /\ \A i \in Line : i # b.id => Row(i)
          BY <1>0, <1>2, <2>3 DEF TableFollows, Writing
        <4>2. \A i \in Line : Row(i)'
          BY <2>1, <2>3, <3>1, <4>1 DEF Row
        <4> QED  BY <1>1, <1>2, <2>1, <3>3, <4>2 DEF TableFollows, Writing, Keeps
      <3> QED  BY <1>3, <3>4, <3>5 DEF InterruptsInv
    <2>4. CASE /\ b.pc = "restore" /\ registering' = [registering EXCEPT ![t].pc = "finish"]
               /\ ienable' = active /\ pie' = [pie EXCEPT ![t] = b.inner] /\ UNCHANGED active
      <3>1. b \in Registration /\ b.inner = FALSE /\ pie[t] = FALSE
        BY <1>0, <2>4 DEF RegistersAlone, InterruptsTypes, Registration
      <3>2. Keeps(t, "finish")
        BY <1>0, <2>4, Moved DEF RegisterLabel
      <3>3. pie' = pie
        BY <1>0, <2>4, <3>1 DEF InterruptsTypes
      <3>4. InterruptsTypes' /\ RegistersAlone'
        BY <1>0, <1>1, <2>1, <2>4, <3>2, <3>3 DEF InterruptsTypes, RegistersAlone, Keeps
      <3>5. TableFollows'
        <4>1. \A i \in Line : Row(i)
          BY <1>0, <1>2, <2>4 DEF TableFollows, Writing
        <4>2. ienable' = active' \cap mask'
          BY <1>0, <1>1, <2>4 DEF InterruptsTypes
        <4> QED  BY <1>1, <1>2, <2>1, <2>4, <3>2, <4>1, <4>2 DEF TableFollows, Writing, Keeps, Row
      <3> QED  BY <1>3, <3>4, <3>5 DEF InterruptsInv
    <2> QED  BY <1>7, <2>2, <2>3, <2>4 DEF alt_irq_enable, Advances
  <1>8. CASE alt_irq_enable_all(t)
    <2>1. /\ UNCHANGED <<table, active, ienable>>
          /\ b.pc = "finish" /\ registering'[t] = AtRest /\ pie' = [pie EXCEPT ![t] = TRUE]
      <3>1. b \in Registration /\ registering \in [Registrar -> Registration]
        BY <1>0 DEF InterruptsTypes
      <3>2. b.outer = TRUE
        BY <3>1 DEF Registration
      <3> QED  BY <1>8, <3>1, <3>2 DEF alt_irq_enable_all
    <2>2. InterruptsTypes'
      <3>1. AtRest \in Registration
        BY DEF AtRest, Registration, RegisterLabel, OrNull
      <3> QED  BY <1>0, <1>1, <1>8, <2>1, <3>1 DEF InterruptsTypes, alt_irq_enable_all
    <2>3. RegistersAlone'
      BY <1>0, <1>1, <2>1 DEF RegistersAlone, InterruptsTypes, AtRest
    <2>4. TableFollows'
      BY <1>0, <1>1, <1>2, <2>1 DEF TableFollows, Row, Writing, InterruptsTypes, AtRest
    <2> QED  BY <1>3, <2>2, <2>3, <2>4 DEF InterruptsInv
  <1> QED  BY <1>4, <1>5, <1>6, <1>7, <1>8

(* The dispatcher on top goes on.                                           *)
LEMMA FrameChanges ==
    ASSUME InterruptsTypes, Nested, NEW n \in Nat \ {0}, n = Len(service), NEW f \in Frame,
           service' = [service EXCEPT ![n] = f],
           f.at = "open" => f.old = Under(n - 1),
           n > 1 /\ f.at \in {"inside", "open", "closed"} => f.line < service[n - 1].line,
           mask' = IF f.at = "open" THEN {l \in Line : l < f.line} ELSE Under(n - 1)
    PROVE  Nested' /\ service' \in Seq(Frame) /\ Last(service)' = f /\ service' # <<>>
PROOF
  <1>1. /\ service' \in Seq(Frame) /\ Len(service') = n /\ service' # <<>> /\ service'[n] = f
        /\ \A j \in 1 .. n : j # n => service'[j] = service[j]
    BY DEF InterruptsTypes
  <1>2. Last(service)' = f
    BY <1>1 DEF Last
  <1>3. \A k \in 0 .. n - 1 : Under(k)' = Under(k)
    <2> SUFFICES ASSUME NEW k \in 0 .. n - 1
                 PROVE  Under(k)' = Under(k)
      OBVIOUS
    <2>1. k = 0 \/ (k \in 1 .. n /\ k # n)
      OBVIOUS
    <2> QED  BY <1>1, <2>1 DEF Under
  <1>4. Under(n)' = {l \in Line : l < f.line}
    BY <1>1 DEF Under
  <1>5. ASSUME NEW j \in 1 .. Len(service')
        PROVE  /\ j < Len(service') => service'[j].at = "open"
               /\ service'[j].at = "open" => service'[j].old = Under(j - 1)'
               /\ j > 1 /\ service'[j].at \in {"inside", "open", "closed"} =>
                    service'[j].line < service'[j - 1].line
    <2>1. CASE j = n
      <3>1. Under(n - 1)' = Under(n - 1) /\ (n > 1 => service'[n - 1] = service[n - 1])
        BY <1>1, <1>3
      <3> QED  BY <1>1, <2>1, <3>1
    <2>2. CASE j # n
      <3>1. j \in 1 .. n /\ j - 1 \in 0 .. n - 1
        BY <1>1, <2>2
      <3>2. service'[j] = service[j] /\ (j > 1 => service'[j - 1] = service[j - 1]) /\ Under(j - 1)' = Under(j - 1)
        BY <1>1, <1>3, <2>2, <3>1
      <3>3. /\ service[j].at = "open" /\ service[j].old = Under(j - 1)
            /\ j > 1 => service[j].line < service[j - 1].line
        BY <2>2, <3>1 DEF Nested
      <3> QED  BY <3>2, <3>3
    <2> QED  BY <2>1, <2>2
  <1>6. mask' = IF service' = <<>> THEN Line
                ELSE IF OnTop("open")' THEN Under(n)' ELSE Under(n - 1)'
    BY <1>1, <1>2, <1>3, <1>4 DEF OnTop
  <1> QED  BY <1>1, <1>2, <1>5, <1>6 DEF Nested

(* A step of a device or of the dispatcher.                                 *)
LEMMA DispatchStep ==
    ASSUME InterruptsInv,
           \/ \E i \in Line : Raise(i)
           \/ alt_irq_entry \/ alt_irq_handler \/ alt_irq_interruptible \/ alt_irq_non_interruptible
    PROVE  InterruptsInv'
PROOF
  <1>0. InterruptsTypes /\ RegistersAlone /\ TableFollows /\ Nested /\ Dispatched
    BY DEF InterruptsInv
  <1>1. UNCHANGED <<table, active, registering, pie>>
    BY DEF Raise, alt_irq_entry, alt_irq_handler, alt_irq_interruptible, alt_irq_non_interruptible
  <1>a. service \in Seq(Frame) /\ Len(service) \in Nat
    BY <1>0 DEF InterruptsTypes
  <1>b. PICK n \in Nat : n = Len(service)
    BY <1>a
  <1>2. /\ service = <<>> <=> n = 0
        /\ \A j \in 1 .. n : service[j] \in Frame
        /\ Last(service) = service[n]
    BY <1>a, <1>b DEF Last
  (* Whoever is on top of the stack, no registration is under way.         *)
  <1>3. ASSUME \A t \in Registrar : pie[t]
        PROVE  /\ \A i \in Line : Row(i)
               /\ ienable = active \cap mask
    BY <1>0, <1>3 DEF RegistersAlone, TableFollows, Writing
  <1>4. service # <<>> => \A t \in Registrar : pie[t]
    BY <1>0 DEF RegistersAlone
  <1>5. ASSUME service' # <<>> => \A t \in Registrar : pie[t]
        PROVE  RegistersAlone'
    BY <1>0, <1>1, <1>5 DEF RegistersAlone
  <1>6. ASSUME ienable' = active \cap mask' \/ UNCHANGED <<ienable, mask>>
        PROVE  TableFollows'
    BY <1>0, <1>1, <1>6 DEF TableFollows, Row
  <1>7. CASE \E i \in Line : Raise(i)
    <2>1. PICK i \in Line : Raise(i)
      BY <1>7
    <2>2. UNCHANGED <<service, mask, ienable, dispatched>> /\ raised' = raised \cup {i}
      BY <2>1 DEF Raise
    <2>3. InterruptsTypes'
      BY <1>0, <1>1, <2>2 DEF InterruptsTypes
    <2>4. Nested'
      BY <1>0, <2>2 DEF Nested, Under, OnTop
    <2>5. Dispatched'
      BY <1>0, <2>2 DEF Dispatched, OnTop, Pending
    <2>6. RegistersAlone' /\ TableFollows'
      BY <1>4, <1>5, <1>6, <2>2
    <2> QED  BY <2>3, <2>4, <2>5, <2>6 DEF InterruptsInv
  <1>8. CASE alt_irq_entry
    <2> DEFINE frame == [at |-> "first", line |-> 0, old |-> {}]
    <2>1. /\ service' = Append(service, frame) /\ Pending # {} /\ UNCHANGED <<ienable, raised, mask, dispatched>>
          /\ IF service = <<>> THEN \A t \in Registrar : pie[t] ELSE OnTop("open")
      BY <1>8 DEF alt_irq_entry
    <2>2. frame \in Frame /\ frame.at = "first"
      BY DEF Frame
    <2> HIDE DEF frame
    <2>3. /\ service' \in Seq(Frame) /\ Len(service') = n + 1 /\ service' # <<>>
          /\ \A j \in 1 .. n : service'[j] = service[j]
          /\ service'[n + 1] = frame /\ Last(service)' = frame
      BY <1>a, <1>b, <2>1, <2>2 DEF Last
    <2>4. \A t \in Registrar : pie[t]
      BY <1>4, <2>1
    <2>5. InterruptsTypes'
      BY <1>0, <1>1, <2>1, <2>3 DEF InterruptsTypes
    <2>6. RegistersAlone' /\ TableFollows'
      BY <1>5, <1>6, <2>1, <2>4
    <2>7. \A k \in 0 .. n : Under(k)' = Under(k)
      <3> SUFFICES ASSUME NEW k \in 0 .. n
                   PROVE  Under(k)' = Under(k)
        OBVIOUS
      <3>1. k = 0 \/ k \in 1 .. n
        OBVIOUS
      <3> QED  BY <2>3, <3>1 DEF Under
    <2>8. service # <<>> => service[n].at = "open"
      BY <1>2, <2>1 DEF OnTop
    <2>9. Nested'
      <3>1. ASSUME NEW j \in 1 .. Len(service')
            PROVE  /\ j < Len(service') => service'[j].at = "open"
                   /\ service'[j].at = "open" => service'[j].old = Under(j - 1)'
                   /\ j > 1 /\ service'[j].at \in {"inside", "open", "closed"} =>
                        service'[j].line < service'[j - 1].line
        <4>1. CASE j = n + 1
          BY <1>2, <2>2, <2>3, <4>1
        <4>2. CASE j # n + 1
          <5>1. j \in 1 .. n /\ j - 1 \in 0 .. n
            BY <1>2, <2>3, <4>2
          <5>2. j < n => service[j].at = "open"
            BY <1>0, <1>b, <5>1 DEF Nested
          <5>3. service[j].at = "open"
            BY <1>2, <2>8, <5>1, <5>2
          <5>4. service'[j] = service[j] /\ Under(j - 1)' = Under(j - 1) /\ service[j].old = Under(j - 1)
            BY <1>0, <1>b, <2>3, <2>7, <5>1, <5>3 DEF Nested
          <5>5. j > 1 => service[j].line < service[j - 1].line
            BY <1>0, <1>b, <5>1, <5>3 DEF Nested
          <5>6. j > 1 => j - 1 \in 1 .. n
            BY <5>1
          <5> QED  BY <2>3, <5>3, <5>4, <5>5, <5>6
        <4> QED  BY <4>1, <4>2
      <3>2. ~ OnTop("open")'
        BY <2>2, <2>3 DEF OnTop, Last
      <3>3. mask' = Under(n)
        <4>1. CASE service = <<>>
          BY <1>0, <1>2, <2>1, <4>1 DEF Nested, Under
        <4>2. CASE service # <<>>
          BY <1>0, <1>b, <2>1, <4>2 DEF Nested
        <4> QED  BY <4>1, <4>2
      <3>4. Under(n)' = Under(n) /\ Len(service') - 1 = n
        BY <2>3, <2>7
      <3> QED  BY <2>3, <3>1, <3>2, <3>3, <3>4 DEF Nested
    <2>10. Dispatched'
      BY <1>0, <2>1, <2>2, <2>3 DEF Dispatched, OnTop, Last, Pending
    <2> QED  BY <2>5, <2>6, <2>9, <2>10 DEF InterruptsInv
  <1>9. CASE alt_irq_handler \/ alt_irq_interruptible \/ alt_irq_non_interruptible
    <2>1. service # <<>> /\ service[n] \in Frame /\ n \in 1 .. n /\ \A t \in Registrar : pie[t]
      BY <1>2, <1>4, <1>9 DEF alt_irq_handler, alt_irq_interruptible, alt_irq_non_interruptible, OnTop
    <2>2. RegistersAlone'
      BY <1>5, <2>1
    <2>3. (\A i \in Line : Row(i)) /\ ienable = active \cap mask
      BY <1>3, <2>1
    <2>4. service[n].line \in Nat /\ service[n].old \in SUBSET Line
      BY <2>1 DEF Frame
    <2>5. /\ service[n].at = "open" => mask = Under(n) /\ service[n].old = Under(n - 1)
          /\ service[n].at # "open" => mask = Under(n - 1)
          /\ n > 1 /\ service[n].at \in {"inside", "open", "closed"} => service[n].line < service[n - 1].line
      BY <1>0, <1>b, <1>2, <2>1 DEF Nested, OnTop
    <2>6. CASE /\ service[n].at \in {"first", "again"} /\ Pending # {} /\ UNCHANGED <<ienable, mask>>
               /\ dispatched' = table[Lowest(Pending)] /\ raised' = raised \ {Lowest(Pending)}
               /\ Becomes([at |-> "inside", line |-> Lowest(Pending), old |-> {}])
      <3>0. PICK i : i = Lowest(Pending)
        OBVIOUS
      <3>1. i \in ienable /\ i \in active /\ i \in Under(n - 1) /\ i \in Line /\ i \in Nat
        <4>1. i \in ienable
          BY <1>0, <2>6, <3>0, LowestIsPending DEF Pending
        <4>2. i \in active /\ i \in Under(n - 1)
          BY <2>3, <2>5, <2>6, <4>1
        <4> QED  BY <1>0, <4>1, <4>2, InterruptsAssumption DEF InterruptsTypes
      <3>2. PICK f \in Frame : f = [at |-> "inside", line |-> i, old |-> {}]
        BY <3>1 DEF Frame
      <3>3. service' = [service EXCEPT ![n] = f]
        BY <1>b, <2>6, <3>0, <3>2 DEF Becomes
      <3>4. n > 1 => i < service[n - 1].line
        BY <2>1, <3>1 DEF Under
      <3>5. Nested' /\ service' \in Seq(Frame) /\ Last(service)' = f /\ service' # <<>>
        <4>1. mask' = IF f.at = "open" THEN {l \in Line : l < f.line} ELSE Under(n - 1)
          BY <2>5, <2>6, <3>2
        <4>2. n > 1 /\ f.at \in {"inside", "open", "closed"} => f.line < service[n - 1].line
          BY <2>5, <2>6, <3>2, <3>4
        <4>3. f.at = "open" => f.old = Under(n - 1)
          BY <3>2
        <4>4. InterruptsTypes /\ Nested /\ n \in Nat \ {0} /\ n = Len(service)
          BY <1>0, <1>b, <2>1
        <4> QED  BY <3>3, <4>1, <4>2, <4>3, <4>4, FrameChanges
      <3>6. table[i] \in [handler : OrNull, context : OrNull] /\ table[i].handler = table[i].context
            /\ table[i].handler # "null"
        BY <1>0, <2>3, <3>1 DEF Row, InterruptsTypes
      <3>7. InterruptsTypes'
        BY <1>0, <1>1, <2>6, <3>0, <3>5, <3>6 DEF InterruptsTypes
      <3>8. Dispatched'
        BY <2>6, <3>0, <3>2, <3>5, <3>6 DEF Dispatched, OnTop
      <3> QED  BY <1>6, <2>2, <2>6, <3>5, <3>7, <3>8 DEF InterruptsInv
    <2>7. CASE /\ service[n].at \in {"inside", "closed"} /\ UNCHANGED <<ienable, mask, dispatched, raised>>
               /\ Becomes([at |-> "again", line |-> 0, old |-> {}])
      <3>0. [at |-> "again", line |-> 0, old |-> {}] \in Frame
        BY DEF Frame
      <3>1. PICK f \in Frame : f = [at |-> "again", line |-> 0, old |-> {}]
        BY <3>0
      <3>2. service' = [service EXCEPT ![n] = f]
        BY <1>b, <2>7, <3>1 DEF Becomes
      <3>3. Nested' /\ service' \in Seq(Frame) /\ Last(service)' = f /\ service' # <<>>
        <4>1. mask' = IF f.at = "open" THEN {l \in Line : l < f.line} ELSE Under(n - 1)
          BY <2>5, <2>7, <3>1
        <4>2. n > 1 /\ f.at \in {"inside", "open", "closed"} => f.line < service[n - 1].line
          BY <2>5, <2>7, <3>1
        <4>3. f.at = "open" => f.old = Under(n - 1)
          BY <2>5, <2>7, <3>1
        <4>4. InterruptsTypes /\ Nested /\ n \in Nat \ {0} /\ n = Len(service)
          BY <1>0, <1>b, <2>1
        <4> QED  BY <3>2, <4>1, <4>2, <4>3, <4>4, FrameChanges
      <3>4. InterruptsTypes'
        BY <1>0, <1>1, <2>7, <3>3 DEF InterruptsTypes
      <3>5. Dispatched'
        BY <1>0, <2>7, <3>1, <3>3 DEF Dispatched, OnTop
      <3> QED  BY <1>6, <2>2, <2>7, <3>3, <3>4, <3>5 DEF InterruptsInv
    <2>8. CASE /\ service[n].at = "again" /\ service' = Front(service)
               /\ UNCHANGED <<ienable, mask, dispatched, raised>>
      <3>1. /\ service' \in Seq(Frame) /\ Len(service') = n - 1
            /\ \A j \in 1 .. n - 1 : service'[j] = service[j]
            /\ service' = <<>> <=> n = 1
            /\ Last(service)' = service'[n - 1]
        <4>1. service' = SubSeq(service, 1, n - 1)
          BY <1>b, <2>8 DEF Front
        <4>2. \A j \in 1 .. n - 1 : service[j] \in Frame
          BY <1>2
        <4>3. /\ SubSeq(service, 1, n - 1) \in Seq(Frame)
              /\ Len(SubSeq(service, 1, n - 1)) = IF 1 <= n - 1 THEN (n - 1) - 1 + 1 ELSE 0
              /\ \A j \in 1 .. (n - 1) - 1 + 1 : SubSeq(service, 1, n - 1)[j] = service[1 + j - 1]
          BY <4>2, SubSeqProperties
        <4>4. Len(service') = n - 1 /\ service' \in Seq(Frame)
          BY <2>1, <4>1, <4>3
        <4>5. \A j \in 1 .. n - 1 : service'[j] = service[j]
          BY <4>1, <4>3
        <4>6. service' = <<>> <=> n = 1
          BY <4>4
        <4> QED  BY <4>4, <4>5, <4>6 DEF Last
      <3>2. \A k \in 0 .. n - 1 : Under(k)' = Under(k)
        <4> SUFFICES ASSUME NEW k \in 0 .. n - 1
                     PROVE  Under(k)' = Under(k)
          OBVIOUS
        <4>1. k = 0 \/ k \in 1 .. n - 1
          OBVIOUS
        <4> QED  BY <3>1, <4>1 DEF Under
      <3>3. \A j \in 1 .. n - 1 :
              /\ service[j].at = "open" /\ service[j].old = Under(j - 1)
              /\ j > 1 => service[j].line < service[j - 1].line
        BY <1>0, <1>b DEF Nested
      <3>4. \A j \in 1 .. n - 1 :
              /\ service'[j].at = "open" /\ service'[j].old = Under(j - 1)'
              /\ j > 1 => service'[j].line < service'[j - 1].line
        <4> SUFFICES ASSUME NEW j \in 1 .. n - 1
                     PROVE  /\ service'[j].at = "open" /\ service'[j].old = Under(j - 1)'
                            /\ j > 1 => service'[j].line < service'[j - 1].line
          OBVIOUS
        <4>1. j - 1 \in 0 .. n - 1 /\ (j > 1 => j - 1 \in 1 .. n - 1)
          OBVIOUS
        <4> QED  BY <3>1, <3>2, <3>3, <4>1
      <3>5. n > 1 => OnTop("open")'
        <4>1. n > 1 => n - 1 \in 1 .. n - 1
          OBVIOUS
        <4> QED  BY <3>1, <3>4, <4>1 DEF OnTop
      <3>6. mask' = IF service' = <<>> THEN Line ELSE Under(n - 1)'
        <4>1. mask' = Under(n - 1) /\ Under(n - 1)' = Under(n - 1)
          BY <2>1, <2>5, <2>8, <3>2
        <4>2. Under(0) = Line
          BY DEF Under
        <4> QED  BY <3>1, <4>1, <4>2
      <3>7. Nested'
        BY <3>1, <3>4, <3>5, <3>6 DEF Nested
      <3>8. InterruptsTypes'
        BY <1>0, <1>1, <2>8, <3>1 DEF InterruptsTypes
      <3>9. Dispatched'
        BY <1>0, <2>8, <3>1, <3>5 DEF Dispatched, OnTop
      <3> QED  BY <1>6, <2>2, <2>8, <3>7, <3>8, <3>9 DEF InterruptsInv
    <2>9. CASE /\ service[n].at = "inside" /\ UNCHANGED <<dispatched, raised>>
               /\ mask' = {l \in Line : l < service[n].line} /\ ienable' = active \cap mask'
               /\ Becomes([at |-> "open", line |-> service[n].line, old |-> mask])
      <3>0. [at |-> "open", line |-> service[n].line, old |-> mask] \in Frame
        BY <1>0, <2>4 DEF Frame, InterruptsTypes
      <3>1. PICK f \in Frame : f = [at |-> "open", line |-> service[n].line, old |-> mask]
        BY <3>0
      <3>2. service' = [service EXCEPT ![n] = f]
        BY <1>b, <2>9, <3>1 DEF Becomes
      <3>3. Nested' /\ service' \in Seq(Frame) /\ Last(service)' = f /\ service' # <<>>
        <4>1. mask' = IF f.at = "open" THEN {l \in Line : l < f.line} ELSE Under(n - 1)
          BY <2>5, <2>9, <3>1
        <4>2. n > 1 /\ f.at \in {"inside", "open", "closed"} => f.line < service[n - 1].line
          BY <2>5, <2>9, <3>1
        <4>3. f.at = "open" => f.old = Under(n - 1)
          BY <2>5, <2>9, <3>1
        <4>4. InterruptsTypes /\ Nested /\ n \in Nat \ {0} /\ n = Len(service)
          BY <1>0, <1>b, <2>1
        <4> QED  BY <3>2, <4>1, <4>2, <4>3, <4>4, FrameChanges
      <3>4. InterruptsTypes'
        BY <1>0, <1>1, <2>9, <3>3 DEF InterruptsTypes
      <3>5. Dispatched'
        BY <1>0, <2>9, <3>1, <3>3 DEF Dispatched, OnTop
      <3> QED  BY <1>6, <2>2, <2>9, <3>3, <3>4, <3>5 DEF InterruptsInv
    <2>10. CASE /\ service[n].at = "open" /\ UNCHANGED <<dispatched, raised>>
                /\ mask' = service[n].old /\ ienable' = mask' \cap active
                /\ Becomes([at |-> "closed", line |-> service[n].line, old |-> {}])
      <3>0. [at |-> "closed", line |-> service[n].line, old |-> {}] \in Frame
        BY <2>4 DEF Frame
      <3>1. PICK f \in Frame : f = [at |-> "closed", line |-> service[n].line, old |-> {}]
        BY <3>0
      <3>2. service' = [service EXCEPT ![n] = f]
        BY <1>b, <2>10, <3>1 DEF Becomes
      <3>3. Nested' /\ service' \in Seq(Frame) /\ Last(service)' = f /\ service' # <<>>
        <4>1. mask' = IF f.at = "open" THEN {l \in Line : l < f.line} ELSE Under(n - 1)
          BY <2>5, <2>10, <3>1
        <4>2. n > 1 /\ f.at \in {"inside", "open", "closed"} => f.line < service[n - 1].line
          BY <2>5, <2>10, <3>1
        <4>3. f.at = "open" => f.old = Under(n - 1)
          BY <2>5, <2>10, <3>1
        <4>4. InterruptsTypes /\ Nested /\ n \in Nat \ {0} /\ n = Len(service)
          BY <1>0, <1>b, <2>1
        <4> QED  BY <3>2, <4>1, <4>2, <4>3, <4>4, FrameChanges
      <3>4. InterruptsTypes'
        BY <1>0, <1>1, <2>4, <2>10, <3>3 DEF InterruptsTypes
      <3>5. Dispatched'
        BY <1>0, <2>10, <3>1, <3>3 DEF Dispatched, OnTop
      <3> QED  BY <1>6, <2>2, <2>10, <3>3, <3>4, <3>5 DEF InterruptsInv
    <2> QED
      <3>1. \A s : OnTop(s) <=> service[n].at = s
        BY <1>2, <2>1 DEF OnTop
      <3>2. CASE alt_irq_handler
        BY <1>2, <2>6, <2>7, <2>8, <3>1, <3>2 DEF alt_irq_handler
      <3>3. CASE alt_irq_interruptible
        BY <1>2, <2>9, <3>1, <3>3 DEF alt_irq_interruptible
      <3>4. CASE alt_irq_non_interruptible
        BY <1>2, <2>10, <3>1, <3>4 DEF alt_irq_non_interruptible
      <3> QED  BY <1>9, <3>2, <3>3, <3>4
  <1> QED  BY <1>7, <1>8, <1>9


LEMMA InterruptsStart == InterruptsInit => InterruptsInv
PROOF
  <1> SUFFICES ASSUME InterruptsInit
               PROVE  InterruptsInv
    OBVIOUS
  <1>1. service = <<>> /\ service \in Seq(Frame) /\ Len(service) = 0
    BY DEF InterruptsInit
  <1>2. InterruptsTypes
    <2>1. AtRest \in Registration
      BY DEF AtRest, Registration, RegisterLabel, OrNull
    <2> QED  BY <1>1, <2>1 DEF InterruptsInit, InterruptsTypes, OrNull
  <1>3. RegistersAlone
    BY DEF InterruptsInit, RegistersAlone, AtRest
  <1>4. TableFollows
    BY DEF InterruptsInit, TableFollows, Row, AtRest, Writing
  <1>5. Nested
    BY <1>1 DEF InterruptsInit, Nested
  <1>6. Dispatched
    BY <1>1 DEF InterruptsInit, Dispatched, OnTop
  <1> QED  BY <1>2, <1>3, <1>4, <1>5, <1>6 DEF InterruptsInv

LEMMA InterruptsSteps == InterruptsInv /\ InterruptsNext => InterruptsInv'
PROOF BY RegistrationStep, DispatchStep DEF InterruptsNext, OrNull

LEMMA InterruptsRest == InterruptsInv /\ UNCHANGED interruptsVars => InterruptsInv'
PROOF
  <1> SUFFICES ASSUME InterruptsInv, UNCHANGED interruptsVars
               PROVE  InterruptsInv'
    OBVIOUS
  <1>1. UNCHANGED <<table, active, ienable, raised, registering, pie, mask, service, dispatched>>
    BY DEF interruptsVars
  <1>2. InterruptsTypes'
    BY <1>1 DEF InterruptsInv, InterruptsTypes
  <1>3. RegistersAlone'
    BY <1>1 DEF InterruptsInv, RegistersAlone
  <1>4. TableFollows'
    BY <1>1 DEF InterruptsInv, TableFollows, Row
  <1>5. Nested'
    BY <1>1 DEF InterruptsInv, Nested, Under, OnTop
  <1>6. Dispatched'
    BY <1>1 DEF InterruptsInv, Dispatched, OnTop, Pending
  <1> QED  BY <1>2, <1>3, <1>4, <1>5, <1>6 DEF InterruptsInv

LEMMA HandlersFitInv == InterruptsInv => HandlersFit
PROOF
  <1> SUFFICES ASSUME InterruptsInv
               PROVE  HandlersFit
    OBVIOUS
  <1>1. InterruptsTypes /\ RegistersAlone /\ TableFollows /\ Nested /\ Dispatched
    BY DEF InterruptsInv
  <1>2. HandlersFound
    <2>1. ASSUME \A t \in Registrar : registering[t].pc = "idle", service = <<>>
          PROVE  active = ienable /\ \A i \in Line : alt_ic_irq_enabled(i) <=> table[i].handler # "null"
      <3>1. mask = Line /\ active \subseteq Line
        BY <1>1, <2>1 DEF Nested, InterruptsTypes
      <3>2. (\A i \in Line : Row(i)) /\ ienable = active \cap mask
        BY <1>1, <2>1 DEF TableFollows, Writing
      <3> QED  BY <3>1, <3>2 DEF Row, alt_ic_irq_enabled
    <2> QED  BY <1>1, <2>1 DEF Dispatched, HandlersFound
  <1>3. NestsByUrgency
    <2>1. ASSUME NEW j \in 2 .. Len(service)
          PROVE  /\ service[j - 1].at = "open"
                 /\ service[j].at \in {"inside", "open", "closed"} => service[j].line < service[j - 1].line
      <3>1. Len(service) \in Nat
        BY <1>1 DEF InterruptsTypes
      <3>2. j \in 1 .. Len(service) /\ j - 1 \in 1 .. Len(service) /\ j > 1 /\ j - 1 < Len(service)
        BY <3>1
      <3> QED  BY <1>1, <3>2 DEF Nested
    <2>2. service = <<>> => mask = Line
      BY <1>1 DEF Nested
    <2> QED  BY <2>1, <2>2 DEF NestsByUrgency
  <1> QED  BY <1>2, <1>3 DEF HandlersFit

-----------------------------------------------------------------------------
(* File descriptors *)

Names == Device \cup {NoDev}
AccessMode == {"O_RDONLY", "O_WRONLY", "O_RDWR"}
Flags == {"DEV", "EXCL", "O_NONBLOCK"} \cup AccessMode
Argument == {"none", "read", "write", "lseek", "fstat", "ioctl"} \cup AccessMode
FileCall == {"idle", "find", "claim", "flags", "check", "release", "free", "excl", "driver"}
Between == {"flags", "check", "release", "free"}

FilesTypes ==
    /\ fdList \in [Slot -> [dev : Names, flags : SUBSET Flags]]
    /\ maxFd \in 0 .. MaxFd - 1
    /\ doing \in [Client -> [pc : FileCall, fd : -1 .. MaxFd - 1, dev : Names, arg : Argument]]
    /\ opened \in [Client -> SUBSET (Slot \X Device \X Mode)]

(* A task holds what it has opened, and the slot it is opening or closing. *)
Holds(t, i) == Has(t, i) \/ (doing[t].pc \in Between /\ doing[t].fd = i)

(* A slot in use lies below the highest ever used; a free one is blank; the *)
(* standard ones stay in use.                                               *)
SlotsInUse ==
    \A i \in Slot : /\ fdList[i].dev # NoDev => i <= maxFd
                    /\ fdList[i].dev = NoDev => fdList[i].flags = {} /\ i > 2

(* What a task holds is in use, and its own. *)
SlotsHeld ==
    /\ \A t \in Client, i \in Slot : Holds(t, i) => i > 2 /\ fdList[i].dev # NoDev
    /\ \A t, u \in Client, i \in Slot : Holds(t, i) /\ Holds(u, i) => t = u

(* What a task relies on, by where it is in its call. *)
CallStage(t) ==
    /\ doing[t].pc \in Between => doing[t].fd \in Slot /\ ~ Has(t, doing[t].fd)
    /\ doing[t].pc \in {"find", "claim", "flags", "check"} => doing[t].dev \in Device /\ doing[t].arg \in Mode
    /\ doing[t].pc = "claim" => /\ fdLock = t /\ doing[t].fd \in Slot
                                /\ fdList[doing[t].fd].dev = NoDev
    /\ doing[t].pc \in {"flags", "check"} => fdList[doing[t].fd].dev = doing[t].dev
    /\ doing[t].pc = "check" => doing[t].arg \in fdList[doing[t].fd].flags
    /\ doing[t].pc = "excl" => fdLock = t /\ Has(t, doing[t].fd)
    /\ doing[t].pc = "driver" =>
         /\ Has(t, doing[t].fd) \/ doing[t].fd \in {0, 1}
         /\ fdList[doing[t].fd].dev = doing[t].dev
         /\ doing[t].arg \in Driver(doing[t].dev)
         /\ \A p \in opened[t] : p[1] = doing[t].fd =>
              <<p[3], doing[t].arg>> \notin {<<"O_WRONLY", "read">>, <<"O_RDONLY", "write">>}

Kept(t) == \A p \in opened[t] : fdList[p[1]].dev = p[2] /\ {"DEV", p[3]} \subseteq fdList[p[1]].flags

(* Of the device of an exclusive descriptor, or of one about to become so,  *)
(* every other descriptor was overlooked or is on its way in or out.        *)
Alone ==
    /\ \A i, j \in Slot : i # j /\ "EXCL" \in fdList[i].flags /\ fdList[j].dev = fdList[i].dev =>
         <<i, j>> \in overlooked \/ \E t \in Client : doing[t].pc \in Between /\ doing[t].fd = j
    /\ \A t \in Client, j \in Slot :
         doing[t].pc = "excl" /\ j # doing[t].fd /\ fdList[j].dev = fdList[doing[t].fd].dev =>
           <<doing[t].fd, j>> \in overlooked

FilesInv ==
    /\ FilesTypes /\ SlotsInUse /\ SlotsHeld /\ Alone
    /\ \A t \in Client : CallStage(t) /\ Kept(t)

LEMMA FilesGiven ==
    /\ MaxFd \in Nat /\ MaxFd > 3 /\ NoTask \notin Client /\ NoDev \notin Device
    /\ "EXCL" \notin Mode /\ "DEV" \notin Mode /\ "O_NONBLOCK" \notin Mode
    /\ Mode \subseteq AccessMode
    /\ Slot = 0 .. MaxFd - 1
PROOF
  <1>1. "EXCL" \notin Mode /\ "DEV" \notin Mode /\ "O_NONBLOCK" \notin Mode
    BY FilesAssumption
  <1> QED  BY <1>1, FilesAssumption DEF NoTask, NoDev, Slot, AccessMode

LEMMA HasTyped ==
    ASSUME FilesTypes, NEW t \in Client, NEW p \in opened[t]
    PROVE  p[1] \in Slot /\ p[2] \in Device /\ p[3] \in Mode /\ Has(t, p[1])
PROOF
  <1>1. p \in Slot \X Device \X Mode
    BY DEF FilesTypes
  <1> QED  BY <1>1 DEF Has

(* A step of t disturbs no other task. *)
LEMMA OthersGoOn ==
    ASSUME FilesInv, NEW t \in Client,
           \A u \in Client : u # t => doing'[u] = doing[u] /\ opened'[u] = opened[u],
           \A i \in Slot : \/ fdList'[i] = fdList[i]
                           \/ Holds(t, i)
                           \/ doing[t].pc = "claim" /\ i = doing[t].fd,
           fdLock' = fdLock \/ fdLock \in {t, NoTask}
    PROVE  \A u \in Client : u # t => CallStage(u)' /\ Kept(u)'
PROOF
  <1> SUFFICES ASSUME NEW u \in Client, u # t
               PROVE  CallStage(u)' /\ Kept(u)'
    OBVIOUS
  <1>0. FilesTypes /\ SlotsInUse /\ SlotsHeld /\ CallStage(u) /\ Kept(u) /\ CallStage(t)
    BY DEF FilesInv
  <1>1. doing'[u] = doing[u] /\ opened'[u] = opened[u] /\ \A i : Has(u, i)' <=> Has(u, i)
    BY DEF Has
  <1>2. \A i \in Slot : Holds(u, i) => fdList'[i] = fdList[i]
    BY <1>0 DEF SlotsHeld, CallStage
  <1>3. \A i \in Slot : i <= 2 => fdList'[i] = fdList[i]
    BY <1>0, FilesGiven DEF SlotsHeld, SlotsInUse, CallStage
  <1>4. Kept(u)'
    <2> SUFFICES ASSUME NEW p \in opened[u]
                 PROVE  fdList'[p[1]] = fdList[p[1]]
      BY <1>0, <1>1 DEF Kept
    <2> QED  BY <1>0, <1>2, HasTyped DEF Holds
  <1>5. doing[u].pc \in Between => doing[u].fd \in Slot /\ fdList'[doing[u].fd] = fdList[doing[u].fd]
    BY <1>0, <1>2 DEF CallStage, Holds
  <1>6. doing[u].pc = "claim" => fdLock' = u /\ doing[u].fd \in Slot /\ fdList'[doing[u].fd] = fdList[doing[u].fd]
    BY <1>0, FilesGiven DEF CallStage, SlotsHeld
  <1>7. doing[u].pc = "excl" => fdLock' = u
    BY <1>0, FilesGiven DEF CallStage
  <1>8. doing[u].pc = "driver" => fdList'[doing[u].fd] = fdList[doing[u].fd]
    <2>1. CASE Has(u, doing[u].fd)
      <3>1. doing[u].fd \in Slot
        BY <1>0, <2>1, HasTyped DEF Has
      <3> QED  BY <1>2, <2>1, <3>1 DEF Holds
    <2>2. CASE doing[u].fd \in {0, 1}
      BY <1>3, <2>2, FilesGiven
    <2> QED  BY <1>0, <2>1, <2>2 DEF CallStage
  <1>9. CallStage(u)'
    BY <1>0, <1>1, <1>5, <1>6, <1>7, <1>8 DEF CallStage, Between
  <1> QED  BY <1>4, <1>9

(* A step of t that leaves the slots alone, and the pairs overlooked. *)
LEMMA SlotsStay ==
    ASSUME FilesInv, NEW t \in Client, UNCHANGED <<fdList, maxFd>>,
           \A u \in Client : u # t => doing'[u] = doing[u] /\ opened'[u] = opened[u],
           \A i \in Slot : Holds(t, i)' => Holds(t, i),
           overlooked \subseteq overlooked',
           doing[t].pc \in Between => doing'[t].pc \in Between /\ doing'[t].fd = doing[t].fd,
           doing'[t].pc # "excl"
    PROVE  SlotsInUse' /\ SlotsHeld' /\ Alone'
PROOF
  <1>1. SlotsInUse'
    BY DEF FilesInv, SlotsInUse
  <1>2. \A u \in Client, i \in Slot : Holds(u, i)' => Holds(u, i)
    BY DEF Holds, Has
  <1>3. SlotsHeld'
    BY <1>2 DEF FilesInv, SlotsHeld
  <1>4. \A j : (\E u \in Client : doing[u].pc \in Between /\ doing[u].fd = j) =>
               (\E u \in Client : doing'[u].pc \in Between /\ doing'[u].fd = j)
    OBVIOUS
  <1>5. Alone'
    BY <1>4 DEF FilesInv, Alone
  <1> QED  BY <1>1, <1>3, <1>5

LEMMA OpenStep ==
    ASSUME FilesInv, NEW t \in Client, NEW name \in Device, NEW mode \in Mode, Open(t, name, mode)
    PROVE  FilesInv'
PROOF
  <1>1. /\ doing[t].pc = "idle" /\ UNCHANGED <<fdList, maxFd, fdLock, opened, overlooked>>
        /\ doing' = [doing EXCEPT ![t] = [pc |-> "find", fd |-> -1, dev |-> alt_find_dev(name), arg |-> mode]]
    BY DEF Open, Inside
  <1>2. alt_find_dev(name) \in Device
    BY DEF Open, alt_find_dev
  <1>3. FilesTypes'
    BY <1>1, <1>2, FilesGiven DEF FilesInv, FilesTypes, FileCall, Names, Argument
  <1>4. /\ doing'[t] = [pc |-> "find", fd |-> -1, dev |-> alt_find_dev(name), arg |-> mode]
        /\ \A u \in Client : u # t => doing'[u] = doing[u]
    BY <1>1 DEF FilesInv, FilesTypes
  <1>5. CallStage(t)' /\ Kept(t)'
    BY <1>1, <1>2, <1>4 DEF FilesInv, CallStage, Kept, Between
  <1>6. \A i \in Slot : Holds(t, i)' => Holds(t, i)
    BY <1>1, <1>4 DEF Holds, Has, Between
  <1>7. SlotsInUse' /\ SlotsHeld' /\ Alone'
    BY <1>1, <1>4, <1>6, SlotsStay DEF Between
  <1> QED  BY <1>1, <1>3, <1>4, <1>5, <1>7, OthersGoOn DEF FilesInv

LEMMA FreeSlotFound ==
    ASSUME NEW unused \in SUBSET Slot, unused # {}
    PROVE  Min(unused) \in unused
PROOF
  <1> DEFINE less == OpToRel(<, Nat)
  <1>1. unused \subseteq Nat
    BY FilesGiven
  <1>2. IsWellFoundedOn(less, Nat)
    BY NatLessThanWellFounded
  <1>3. \A x, y \in Nat : y < x => <<y, x>> \in less
    BY DEF OpToRel
  <1> HIDE DEF less
  <1>4. PICK x \in unused : \A y \in unused : ~ (<<y, x>> \in less)
    BY <1>1, <1>2, WFMin
  <1>5. ASSUME NEW y \in unused
        PROVE  x <= y
    <2>1. x \in Nat /\ y \in Nat
      BY <1>1
    <2>2. ~ (y < x)
      BY <1>3, <1>4, <2>1
    <2> QED  BY <2>1, <2>2
  <1> QED  BY <1>5 DEF Min

LEMMA GetFdStep ==
    ASSUME FilesInv, NEW t \in Client, GetFd(t)
    PROVE  FilesInv'
PROOF
  <1> DEFINE unused == {i \in Slot : fdList[i].dev = NoDev}
  <1>1. /\ doing[t].pc = "find" /\ fdLock = NoTask /\ UNCHANGED <<fdList, maxFd, opened, overlooked>>
        /\ IF unused = {}
           THEN doing' = [doing EXCEPT ![t] = Idle] /\ UNCHANGED fdLock
           ELSE doing' = [doing EXCEPT ![t].pc = "claim", ![t].fd = Min(unused)] /\ fdLock' = t
    BY DEF GetFd, Inside, Returns
  <1>2. CallStage(t)' /\ Kept(t)' /\ FilesTypes' /\ (doing'[t].pc = "idle" \/ doing'[t].pc = "claim")
        /\ \A u \in Client : u # t => doing'[u] = doing[u]
    <2>1. CASE unused = {}
      <3> HIDE DEF unused
      <3>1. doing' = [doing EXCEPT ![t] = Idle]
        BY <1>1, <2>1
      <3>2. doing'[t] = Idle /\ \A u \in Client : u # t => doing'[u] = doing[u]
        BY <3>1 DEF FilesInv, FilesTypes
      <3>3. Idle \in [pc : FileCall, fd : -1 .. MaxFd - 1, dev : Names, arg : Argument]
        BY FilesGiven DEF Idle, FileCall, Names, Argument
      <3>4. FilesTypes'
        BY <1>1, <3>1, <3>3 DEF FilesInv, FilesTypes
      <3> QED  BY <1>1, <3>2, <3>4 DEF FilesInv, CallStage, Kept, Between, Idle
    <2>2. CASE unused # {}
      <3>1. PICK k \in Slot : k = Min(unused) /\ fdList[k].dev = NoDev
        BY <2>2, FreeSlotFound
      <3> HIDE DEF unused
      <3>2. doing' = [doing EXCEPT ![t].pc = "claim", ![t].fd = k] /\ fdLock' = t
        BY <1>1, <2>2, <3>1
      <3>3. /\ doing'[t].pc = "claim" /\ doing'[t].fd = k /\ doing'[t].dev = doing[t].dev
            /\ doing'[t].arg = doing[t].arg /\ \A u \in Client : u # t => doing'[u] = doing[u]
        BY <3>2 DEF FilesInv, FilesTypes
      <3>4. FilesTypes'
        <4>1. k \in -1 .. MaxFd - 1
          BY <3>1, FilesGiven
        <4> QED  BY <1>1, <3>2, <4>1 DEF FilesInv, FilesTypes, FileCall
      <3>5. CallStage(t)'
        BY <1>1, <3>1, <3>2, <3>3 DEF FilesInv, CallStage, Between
      <3>6. Kept(t)'
        BY <1>1 DEF FilesInv, Kept
      <3> QED  BY <3>3, <3>4, <3>5, <3>6
    <2> QED  BY <2>1, <2>2
  <1>3. \A i \in Slot : Holds(t, i)' => Holds(t, i)
    BY <1>1, <1>2 DEF Holds, Has, Between
  <1>4. SlotsInUse' /\ SlotsHeld' /\ Alone'
    BY <1>1, <1>2, <1>3, SlotsStay DEF Between
  <1> QED  BY <1>1, <1>2, <1>4, OthersGoOn DEF FilesInv

LEMMA UseStep ==
    ASSUME FilesInv, NEW t \in Client, NEW i \in Slot, NEW what \in {"read", "write", "lseek", "fstat", "ioctl"},
           UseFd(t, i, what)
    PROVE  FilesInv'
PROOF
  <1>1. /\ doing[t].pc = "idle" /\ UNCHANGED <<fdList, maxFd, fdLock, opened, overlooked>>
        /\ Has(t, i) \/ i \in {0, 1}
        /\ Serves(fdList[i], what)
        /\ doing' = [doing EXCEPT ![t] = [pc |-> "driver", fd |-> i, dev |-> fdList[i].dev, arg |-> what]]
    BY DEF UseFd, Inside
  <1>2. FilesTypes'
    <2>1. /\ i \in -1 .. MaxFd - 1 /\ fdList[i].dev \in Names /\ what \in Argument
          /\ "driver" \in FileCall
      BY FilesGiven DEF FilesInv, FilesTypes, FileCall, Argument
    <2> QED  BY <1>1, <2>1 DEF FilesInv, FilesTypes
  <1>3. /\ doing'[t] = [pc |-> "driver", fd |-> i, dev |-> fdList[i].dev, arg |-> what]
        /\ \A u \in Client : u # t => doing'[u] = doing[u]
    BY <1>1 DEF FilesInv, FilesTypes
  <1>4. what \in Driver(fdList[i].dev)
        /\ (what = "read" => "O_WRONLY" \notin fdList[i].flags)
        /\ (what = "write" => "O_RDONLY" \notin fdList[i].flags)
    BY <1>1 DEF Serves, alt_read, alt_write, alt_lseek, alt_fstat, alt_ioctl
  <1>5. Kept(t)'
    BY <1>1 DEF FilesInv, Kept
  <1>6. CallStage(t)'
    <2>1. \A p \in opened[t] : p[1] = i => p[3] \in fdList[i].flags
      BY DEF FilesInv, Kept
    <2>2. Has(t, i)' <=> Has(t, i)
      BY <1>1 DEF Has
    <2> QED  BY <1>1, <1>3, <1>4, <2>1, <2>2 DEF CallStage, Between
  <1>7. \A j \in Slot : Holds(t, j)' => Holds(t, j)
    BY <1>1, <1>3 DEF Holds, Has, Between
  <1>8. SlotsInUse' /\ SlotsHeld' /\ Alone'
    BY <1>1, <1>3, <1>7, SlotsStay DEF Between
  <1> QED  BY <1>1, <1>2, <1>3, <1>5, <1>6, <1>8, OthersGoOn DEF FilesInv

LEMMA DriverDoneStep ==
    ASSUME FilesInv, NEW t \in Client, DriverDone(t)
    PROVE  FilesInv'
PROOF
  <1>1. /\ doing[t].pc = "driver" /\ UNCHANGED <<fdList, maxFd, fdLock, opened, overlooked>>
        /\ doing' = [doing EXCEPT ![t] = Idle]
    BY DEF DriverDone, Inside, Returns
  <1>2. FilesTypes'
    <2>1. Idle \in [pc : FileCall, fd : -1 .. MaxFd - 1, dev : Names, arg : Argument]
      BY FilesGiven DEF Idle, FileCall, Names, Argument
    <2> QED  BY <1>1, <2>1 DEF FilesInv, FilesTypes
  <1>3. doing'[t] = Idle /\ \A u \in Client : u # t => doing'[u] = doing[u]
    BY <1>1 DEF FilesInv, FilesTypes
  <1>4. CallStage(t)' /\ Kept(t)'
    BY <1>1, <1>3 DEF FilesInv, CallStage, Kept, Between, Idle
  <1>5. \A j \in Slot : Holds(t, j)' => Holds(t, j)
    BY <1>1, <1>3 DEF Holds, Has, Between, Idle
  <1>6. SlotsInUse' /\ SlotsHeld' /\ Alone'
    BY <1>1, <1>3, <1>5, SlotsStay DEF Between, Idle
  <1> QED  BY <1>1, <1>2, <1>3, <1>4, <1>6, OthersGoOn DEF FilesInv

(* A step of t that changes the flags of a slot it holds. *)
LEMMA FlagsChange ==
    ASSUME FilesInv, NEW t \in Client, NEW k \in Slot, Holds(t, k), NEW f \in SUBSET Flags,
           fdList' = [fdList EXCEPT ![k].flags = f], maxFd' = maxFd,
           \A u \in Client : u # t => doing'[u] = doing[u] /\ opened'[u] = opened[u],
           \A i \in Slot : Holds(t, i)' => Holds(t, i)
    PROVE  /\ fdList' \in [Slot -> [dev : Names, flags : SUBSET Flags]]
           /\ SlotsInUse' /\ SlotsHeld'
           /\ fdList'[k].flags = f
           /\ \A i \in Slot : fdList'[i].dev = fdList[i].dev /\ (i # k => fdList'[i] = fdList[i])
PROOF
  <1>0. FilesTypes /\ SlotsInUse /\ SlotsHeld
    BY DEF FilesInv
  <1>1. /\ fdList' \in [Slot -> [dev : Names, flags : SUBSET Flags]]
        /\ fdList'[k].flags = f
        /\ \A i \in Slot : fdList'[i].dev = fdList[i].dev /\ (i # k => fdList'[i] = fdList[i])
    BY <1>0 DEF FilesTypes
  <1>2. fdList[k].dev # NoDev
    BY <1>0 DEF SlotsHeld
  <1>3. SlotsInUse'
    BY <1>0, <1>1, <1>2 DEF SlotsInUse
  <1>4. \A u \in Client, i \in Slot : Holds(u, i)' => Holds(u, i)
    BY DEF Holds, Has
  <1>5. SlotsHeld'
    BY <1>0, <1>1, <1>4 DEF SlotsHeld
  <1> QED  BY <1>1, <1>3, <1>5

LEMMA OpenFlagsStep ==
    ASSUME FilesInv, NEW t \in Client, OpenFlags(t)
    PROVE  FilesInv'
PROOF
  <1>0. FilesTypes /\ CallStage(t) /\ Kept(t) /\ Alone
    BY DEF FilesInv
  <1>1. PICK k \in Slot : k = doing[t].fd
    BY <1>0 DEF OpenFlags, Inside, CallStage, Between
  <1>2. /\ doing[t].pc = "flags" /\ fdList' = [fdList EXCEPT ![k].flags = {doing[t].arg}]
        /\ doing' = [doing EXCEPT ![t].pc = "check"]
        /\ UNCHANGED <<maxFd, fdLock, opened, overlooked>>
    BY <1>1 DEF OpenFlags, Inside, Goes
  <1>3. {doing[t].arg} \in SUBSET Flags /\ "EXCL" \notin {doing[t].arg}
    BY <1>0, <1>2, FilesGiven DEF CallStage, Flags
  <1>4. /\ doing'[t].pc = "check" /\ doing'[t].fd = k /\ doing'[t].dev = doing[t].dev
        /\ doing'[t].arg = doing[t].arg
        /\ \A u \in Client : u # t => doing'[u] = doing[u]
        /\ doing' \in [Client -> [pc : FileCall, fd : -1 .. MaxFd - 1, dev : Names, arg : Argument]]
    BY <1>0, <1>1, <1>2 DEF FilesTypes, FileCall
  <1>5. Holds(t, k) /\ \A i \in Slot : Holds(t, i)' => Holds(t, i)
    BY <1>1, <1>2, <1>4 DEF Holds, Has, Between
  <1>6. /\ fdList' \in [Slot -> [dev : Names, flags : SUBSET Flags]]
        /\ SlotsInUse' /\ SlotsHeld'
        /\ fdList'[k].flags = {doing[t].arg}
        /\ \A i \in Slot : fdList'[i].dev = fdList[i].dev /\ (i # k => fdList'[i] = fdList[i])
    <2>1. \A u \in Client : u # t => doing'[u] = doing[u] /\ opened'[u] = opened[u]
      BY <1>2, <1>4
    <2>2. maxFd' = maxFd /\ fdList' = [fdList EXCEPT ![k].flags = {doing[t].arg}]
      BY <1>2
    <2> QED  BY <1>3, <1>5, <2>1, <2>2, FlagsChange
  <1>7. FilesTypes'
    BY <1>0, <1>2, <1>4, <1>6 DEF FilesTypes
  <1>8. ~ Has(t, k)
    BY <1>0, <1>1, <1>2 DEF CallStage, Between
  <1>9. CallStage(t)'
    <2>1. Has(t, k)' <=> Has(t, k)
      BY <1>2 DEF Has
    <2> QED  BY <1>0, <1>1, <1>2, <1>4, <1>6, <1>8, <2>1 DEF CallStage, Between
  <1>10. Kept(t)'
    <2>1. \A p \in opened[t] : p[1] \in Slot /\ p[1] # k
      BY <1>0, <1>8, HasTyped
    <2> QED  BY <1>0, <1>2, <1>6, <2>1 DEF Kept
  <1>11. Alone'
    BY <1>0, <1>1, <1>2, <1>3, <1>4, <1>6 DEF Alone, Between
  <1> QED  BY <1>2, <1>4, <1>5, <1>6, <1>7, <1>9, <1>10, <1>11, OthersGoOn DEF FilesInv

LEMMA OpenCheckedStep ==
    ASSUME FilesInv, NEW t \in Client, OpenChecked(t)
    PROVE  FilesInv'
PROOF
  <1>0. FilesTypes /\ CallStage(t) /\ Kept(t) /\ Alone /\ SlotsInUse
    BY DEF FilesInv
  <1>1. PICK k \in Slot : k = doing[t].fd
    BY <1>0 DEF OpenChecked, Inside, CallStage, Between
  <1>2. /\ doing[t].pc = "check" /\ fdList' = [fdList EXCEPT ![k].flags = fdList[k].flags \cup {"DEV"}]
        /\ IF Locked(k)
           THEN doing' = [doing EXCEPT ![t].pc = "release"] /\ UNCHANGED opened
           ELSE /\ doing' = [doing EXCEPT ![t] = Idle]
                /\ opened' = [opened EXCEPT ![t] = opened[t] \cup {<<k, doing[t].dev, doing[t].arg>>}]
        /\ UNCHANGED <<maxFd, fdLock, overlooked>>
    BY <1>1 DEF OpenChecked, Inside, Goes, Returns
  <1>3. fdList[k].flags \cup {"DEV"} \in SUBSET Flags
    BY <1>0 DEF FilesTypes, Flags
  <1>4. /\ fdList[k].dev = doing[t].dev /\ doing[t].dev \in Device /\ doing[t].arg \in Mode
        /\ doing[t].arg \in fdList[k].flags /\ ~ Has(t, k)
    BY <1>0, <1>1, <1>2 DEF CallStage, Between
  <1>5. \A p \in opened[t] : p[1] \in Slot /\ p[1] # k
    BY <1>0, <1>4, HasTyped
  <1>6. CASE Locked(k)
    <2>0. doing \in [Client -> [pc : FileCall, fd : -1 .. MaxFd - 1, dev : Names, arg : Argument]]
      BY <1>0 DEF FilesTypes
    <2>1. /\ doing'[t].pc = "release" /\ doing'[t].fd = k
          /\ \A u \in Client : u # t => doing'[u] = doing[u]
          /\ doing' \in [Client -> [pc : FileCall, fd : -1 .. MaxFd - 1, dev : Names, arg : Argument]]
          /\ opened' = opened
      <3>1. doing' = [doing EXCEPT ![t].pc = "release"] /\ opened' = opened
        BY <1>2, <1>6
      <3>2. "release" \in FileCall
        BY DEF FileCall
      <3> QED  BY <1>1, <2>0, <3>1, <3>2
    <2>2. Holds(t, k) /\ \A i \in Slot : Holds(t, i)' => Holds(t, i)
      BY <1>1, <1>2, <2>1 DEF Holds, Has, Between
    <2>3. /\ fdList' \in [Slot -> [dev : Names, flags : SUBSET Flags]]
          /\ SlotsInUse' /\ SlotsHeld'
          /\ fdList'[k].flags = fdList[k].flags \cup {"DEV"}
          /\ \A i \in Slot : fdList'[i].dev = fdList[i].dev /\ (i # k => fdList'[i] = fdList[i])
      <3>1. \A u \in Client : u # t => doing'[u] = doing[u] /\ opened'[u] = opened[u]
        BY <2>1
      <3>2. maxFd' = maxFd /\ fdList' = [fdList EXCEPT ![k].flags = fdList[k].flags \cup {"DEV"}]
        BY <1>2
      <3> QED  BY <1>3, <2>2, <3>1, <3>2, FlagsChange
    <2>4. FilesTypes'
      BY <1>0, <1>2, <2>1, <2>3 DEF FilesTypes
    <2>5. CallStage(t)'
      <3>1. Has(t, k)' <=> Has(t, k)
        BY <2>1 DEF Has
      <3> QED  BY <1>4, <2>1, <3>1 DEF CallStage, Between
    <2>6. Kept(t)'
      BY <1>0, <1>5, <2>1, <2>3 DEF Kept
    <2>7. Alone'
      BY <1>0, <1>1, <1>2, <2>1, <2>3 DEF Alone, Between
    <2> QED  BY <1>2, <2>1, <2>2, <2>3, <2>4, <2>5, <2>6, <2>7, OthersGoOn DEF FilesInv
  <1>7. CASE ~ Locked(k)
    <2> DEFINE new == <<k, doing[t].dev, doing[t].arg>>
    <2>0. new \in Slot \X Device \X Mode /\ new[1] = k /\ new[2] = doing[t].dev /\ new[3] = doing[t].arg
      BY <1>4
    <2>a. Idle \in [pc : FileCall, fd : -1 .. MaxFd - 1, dev : Names, arg : Argument] /\ Idle.pc = "idle"
      BY FilesGiven DEF Idle, FileCall, Names, Argument
    <2>b. opened' = [opened EXCEPT ![t] = opened[t] \cup {new}] /\ doing' = [doing EXCEPT ![t] = Idle]
      BY <1>2, <1>7
    <2>c. PICK q : q = new
      OBVIOUS
    <2> HIDE DEF new
    <2>1. /\ doing'[t] = Idle
          /\ \A u \in Client : u # t => doing'[u] = doing[u] /\ opened'[u] = opened[u]
          /\ doing' \in [Client -> [pc : FileCall, fd : -1 .. MaxFd - 1, dev : Names, arg : Argument]]
          /\ opened'[t] = opened[t] \cup {q}
          /\ opened' \in [Client -> SUBSET (Slot \X Device \X Mode)]
      BY <1>0, <2>0, <2>a, <2>b, <2>c DEF FilesTypes
    <2>2. Holds(t, k) /\ \A i \in Slot : Holds(t, i)' => Holds(t, i)
      BY <1>1, <1>2, <2>0, <2>1, <2>a, <2>c DEF Holds, Has, Between
    <2>3. /\ fdList' \in [Slot -> [dev : Names, flags : SUBSET Flags]]
          /\ SlotsInUse' /\ SlotsHeld'
          /\ fdList'[k].flags = fdList[k].flags \cup {"DEV"}
          /\ \A i \in Slot : fdList'[i].dev = fdList[i].dev /\ (i # k => fdList'[i] = fdList[i])
      BY <1>2, <1>3, <2>1, <2>2, FlagsChange
    <2>4. FilesTypes'
      BY <1>0, <1>2, <2>1, <2>3 DEF FilesTypes
    <2>5. CallStage(t)'
      BY <2>1, <2>a DEF CallStage, Between
    <2>6. Kept(t)'
      BY <1>0, <1>4, <1>5, <2>0, <2>1, <2>3, <2>c DEF Kept
    <2>7. Alone'
      <3>1. ASSUME NEW i \in Slot, i # k, "EXCL" \in fdList'[i].flags
            PROVE  fdList'[k].dev # fdList'[i].dev
        <4>1. fdList'[i] = fdList[i] /\ fdList[i].dev # NoDev
          BY <1>0, <2>3, <3>1 DEF SlotsInUse
        <4>2. i \in 0 .. maxFd
          BY <1>0, <4>1, FilesGiven DEF SlotsInUse, FilesTypes
        <4> QED  BY <1>7, <2>3, <3>1, <4>1, <4>2 DEF Locked
      <3>2. ASSUME NEW i \in Slot, NEW j \in Slot, i # j, "EXCL" \in fdList'[i].flags,
                   fdList'[j].dev = fdList'[i].dev
            PROVE  \/ <<i, j>> \in overlooked'
                   \/ \E u \in Client : doing'[u].pc \in Between /\ doing'[u].fd = j
        <4>1. j # k
          BY <3>1, <3>2
        <4>2. "EXCL" \in fdList[i].flags /\ fdList[j].dev = fdList[i].dev
          BY <2>3, <3>2
        <4>3. <<i, j>> \in overlooked \/ \E u \in Client : doing[u].pc \in Between /\ doing[u].fd = j
          BY <1>0, <3>2, <4>2 DEF Alone
        <4> QED  BY <1>1, <1>2, <2>1, <4>1, <4>3
      <3>3. \A u \in Client : doing'[u].pc = "excl" => u # t
        BY <2>1, <2>a
      <3> QED  BY <1>0, <1>2, <2>1, <2>3, <3>2, <3>3 DEF Alone, CallStage
    <2> QED  BY <1>2, <2>1, <2>2, <2>3, <2>4, <2>5, <2>6, <2>7, OthersGoOn DEF FilesInv
  <1> QED  BY <1>6, <1>7

LEMMA CloseStep ==
    ASSUME FilesInv, NEW t \in Client, NEW k \in Slot, Close(t, k)
    PROVE  FilesInv'
PROOF
  <1>0. FilesTypes /\ CallStage(t) /\ Kept(t)
    BY DEF FilesInv
  <1>1. /\ doing[t].pc = "idle" /\ Has(t, k)
        /\ opened' = [opened EXCEPT ![t] = {p \in opened[t] : p[1] # k}]
        /\ doing' = [doing EXCEPT ![t] = [Idle EXCEPT !.pc = "release", !.fd = k]]
        /\ UNCHANGED <<fdList, maxFd, fdLock, overlooked>>
    BY DEF Close, Inside
  <1>2. PICK r : r = [Idle EXCEPT !.pc = "release", !.fd = k]
    OBVIOUS
  <1>3. /\ r \in [pc : FileCall, fd : -1 .. MaxFd - 1, dev : Names, arg : Argument]
        /\ r.pc = "release" /\ r.fd = k
    <2>1. r = [pc |-> "release", fd |-> k, dev |-> NoDev, arg |-> "none"]
      BY <1>2 DEF Idle
    <2>2. k \in -1 .. MaxFd - 1
      BY FilesGiven
    <2> QED  BY <2>1, <2>2 DEF FileCall, Names, Argument
  <1>4. /\ doing'[t] = r /\ opened'[t] = {p \in opened[t] : p[1] # k}
        /\ \A u \in Client : u # t => doing'[u] = doing[u] /\ opened'[u] = opened[u]
        /\ FilesTypes'
    BY <1>0, <1>1, <1>2, <1>3 DEF FilesTypes
  <1>5. ~ Has(t, k)' /\ \A i : Has(t, i)' => Has(t, i)
    BY <1>4 DEF Has
  <1>6. CallStage(t)' /\ Kept(t)'
    BY <1>0, <1>1, <1>3, <1>4, <1>5 DEF CallStage, Kept, Between
  <1>7. \A i \in Slot : Holds(t, i)' => Holds(t, i)
    BY <1>1, <1>3, <1>4, <1>5 DEF Holds
  <1>8. SlotsInUse' /\ SlotsHeld' /\ Alone'
    BY <1>1, <1>3, <1>4, <1>7, SlotsStay DEF Between
  <1> QED  BY <1>1, <1>4, <1>6, <1>8, OthersGoOn DEF FilesInv

LEMMA ReleaseFlagsStep ==
    ASSUME FilesInv, NEW t \in Client, ReleaseFlags(t)
    PROVE  FilesInv'
PROOF
  <1>0. FilesTypes /\ CallStage(t) /\ Kept(t) /\ Alone
    BY DEF FilesInv
  <1>1. PICK k \in Slot : k = doing[t].fd
    BY <1>0 DEF ReleaseFlags, Inside, CallStage, Between
  <1>2. /\ doing[t].pc = "release" /\ fdList' = [fdList EXCEPT ![k].flags = {}]
        /\ doing' = [doing EXCEPT ![t].pc = "free"]
        /\ UNCHANGED <<maxFd, fdLock, opened, overlooked>>
    BY <1>1 DEF ReleaseFlags, Inside, Goes
  <1>3. /\ doing'[t].pc = "free" /\ doing'[t].fd = k
        /\ \A u \in Client : u # t => doing'[u] = doing[u]
        /\ doing' \in [Client -> [pc : FileCall, fd : -1 .. MaxFd - 1, dev : Names, arg : Argument]]
    BY <1>0, <1>1, <1>2 DEF FilesTypes, FileCall
  <1>4. Holds(t, k) /\ \A i \in Slot : Holds(t, i)' => Holds(t, i)
    BY <1>1, <1>2, <1>3 DEF Holds, Has, Between
  <1>5. /\ fdList' \in [Slot -> [dev : Names, flags : SUBSET Flags]]
        /\ SlotsInUse' /\ SlotsHeld'
        /\ fdList'[k].flags = {}
        /\ \A i \in Slot : fdList'[i].dev = fdList[i].dev /\ (i # k => fdList'[i] = fdList[i])
    <2>1. \A u \in Client : u # t => doing'[u] = doing[u] /\ opened'[u] = opened[u]
      BY <1>2, <1>3
    <2>2. maxFd' = maxFd /\ fdList' = [fdList EXCEPT ![k].flags = {}] /\ {} \in SUBSET Flags
      BY <1>2
    <2> QED  BY <1>4, <2>1, <2>2, FlagsChange
  <1>6. FilesTypes'
    BY <1>0, <1>2, <1>3, <1>5 DEF FilesTypes
  <1>7. ~ Has(t, k) /\ ~ Has(t, k)'
    BY <1>0, <1>1, <1>2 DEF CallStage, Between, Has
  <1>8. CallStage(t)'
    BY <1>3, <1>7 DEF CallStage, Between
  <1>9. Kept(t)'
    <2>1. \A p \in opened[t] : p[1] \in Slot /\ p[1] # k
      BY <1>0, <1>7, HasTyped
    <2> QED  BY <1>0, <1>2, <1>5, <2>1 DEF Kept
  <1>10. Alone'
    BY <1>0, <1>1, <1>2, <1>3, <1>5 DEF Alone, Between
  <1> QED  BY <1>2, <1>3, <1>4, <1>5, <1>6, <1>8, <1>9, <1>10, OthersGoOn DEF FilesInv

(* The slot that has been found is taken. *)
LEMMA ClaimStep ==
    ASSUME FilesInv, NEW t \in Client, ClaimFd(t)
    PROVE  FilesInv'
PROOF
  <1>0. FilesTypes /\ CallStage(t) /\ Kept(t) /\ Alone /\ SlotsInUse /\ SlotsHeld
    BY DEF FilesInv
  <1>1. PICK k \in Slot : k = doing[t].fd
    BY <1>0 DEF ClaimFd, Inside, CallStage, Between
  <1>2. /\ doing[t].pc = "claim" /\ fdList' = [fdList EXCEPT ![k].dev = doing[t].dev]
        /\ doing' = [doing EXCEPT ![t].pc = "flags"]
        /\ maxFd' = (IF k > maxFd THEN k ELSE maxFd) /\ fdLock' = NoTask
        /\ UNCHANGED <<opened, overlooked>>
    BY <1>1 DEF ClaimFd, Inside, Goes
  <1>3. /\ fdList[k].dev = NoDev /\ fdList[k].flags = {} /\ k > 2 /\ fdLock = t
        /\ doing[t].dev \in Device /\ doing[t].dev # NoDev /\ doing[t].arg \in Mode
    BY <1>0, <1>1, <1>2, FilesGiven DEF CallStage, SlotsInUse
  <1>4. /\ doing'[t].pc = "flags" /\ doing'[t].fd = k /\ doing'[t].dev = doing[t].dev
        /\ doing'[t].arg = doing[t].arg
        /\ \A u \in Client : u # t => doing'[u] = doing[u] /\ opened'[u] = opened[u]
        /\ doing' \in [Client -> [pc : FileCall, fd : -1 .. MaxFd - 1, dev : Names, arg : Argument]]
    BY <1>0, <1>1, <1>2 DEF FilesTypes, FileCall
  <1>5. /\ fdList' \in [Slot -> [dev : Names, flags : SUBSET Flags]]
        /\ fdList'[k].dev = doing[t].dev /\ fdList'[k].flags = {}
        /\ \A i \in Slot : i # k => fdList'[i] = fdList[i]
    BY <1>0, <1>2, <1>3 DEF FilesTypes, Names
  <1>6. FilesTypes'
    <2>1. maxFd' \in 0 .. MaxFd - 1
      BY <1>0, <1>2, FilesGiven DEF FilesTypes
    <2> QED  BY <1>0, <1>2, <1>4, <1>5, <2>1 DEF FilesTypes
  <1>7. \A u \in Client : ~ Holds(u, k)
    BY <1>0, <1>3 DEF SlotsHeld
  <1>8. \A u \in Client, i \in Slot : Holds(u, i)' <=> Holds(u, i) \/ (u = t /\ i = k)
    BY <1>1, <1>2, <1>4 DEF Holds, Has, Between
  <1>9. SlotsHeld'
    BY <1>0, <1>3, <1>5, <1>7, <1>8 DEF SlotsHeld
  <1>10. SlotsInUse'
    BY <1>0, <1>2, <1>3, <1>5, FilesGiven DEF SlotsInUse, FilesTypes
  <1>11. CallStage(t)'
    <2>1. ~ Has(t, k)'
      BY <1>2, <1>7 DEF Holds, Has
    <2> QED  BY <1>3, <1>4, <1>5, <2>1 DEF CallStage, Between
  <1>12. Kept(t)'
    <2>1. \A p \in opened[t] : p[1] \in Slot /\ p[1] # k
      BY <1>0, <1>7, HasTyped DEF Holds
    <2> QED  BY <1>0, <1>2, <1>5, <2>1 DEF Kept
  <1>13. Alone'
    <2>1. ASSUME NEW i \in Slot, NEW j \in Slot, i # j, "EXCL" \in fdList'[i].flags,
                 fdList'[j].dev = fdList'[i].dev
          PROVE  \/ <<i, j>> \in overlooked'
                 \/ \E u \in Client : doing'[u].pc \in Between /\ doing'[u].fd = j
      <3>1. i # k
        BY <1>5, <2>1
      <3>2. CASE j = k
        BY <1>4, <3>2 DEF Between
      <3>3. CASE j # k
        <4>1. <<i, j>> \in overlooked \/ \E u \in Client : doing[u].pc \in Between /\ doing[u].fd = j
          BY <1>0, <1>5, <2>1, <3>1, <3>3 DEF Alone
        <4> QED  BY <1>1, <1>2, <1>4, <3>3, <4>1
      <3> QED  BY <3>2, <3>3
    <2>2. \A u \in Client : doing'[u].pc # "excl"
      BY <1>3, <1>4 DEF FilesInv, CallStage
    <2> QED  BY <2>1, <2>2 DEF Alone
  <1> QED  BY <1>1, <1>2, <1>3, <1>4, <1>5, <1>6, <1>9, <1>10, <1>11, <1>12, <1>13, OthersGoOn DEF FilesInv

LEMMA ReleaseStep ==
    ASSUME FilesInv, NEW t \in Client, ReleaseFd(t)
    PROVE  FilesInv'
PROOF
  <1>0. FilesTypes /\ CallStage(t) /\ Kept(t) /\ Alone /\ SlotsInUse /\ SlotsHeld
    BY DEF FilesInv
  <1>1. PICK k \in Slot : k = doing[t].fd
    BY <1>0 DEF ReleaseFd, Inside, CallStage, Between
  <1>2. /\ doing[t].pc = "free" /\ fdList' = [fdList EXCEPT ![k] = FreeSlot]
        /\ doing' = [doing EXCEPT ![t] = Idle]
        /\ overlooked' = {p \in overlooked : k \notin {p[1], p[2]}}
        /\ UNCHANGED <<maxFd, fdLock, opened>>
    BY <1>1 DEF ReleaseFd, Inside, Returns
  <1>3. Holds(t, k) /\ ~ Has(t, k) /\ k > 2
    BY <1>0, <1>1, <1>2 DEF CallStage, Holds, Between, SlotsHeld
  <1>4. /\ doing'[t].pc = "idle"
        /\ \A u \in Client : u # t => doing'[u] = doing[u] /\ opened'[u] = opened[u]
        /\ doing' \in [Client -> [pc : FileCall, fd : -1 .. MaxFd - 1, dev : Names, arg : Argument]]
    <2>1. Idle \in [pc : FileCall, fd : -1 .. MaxFd - 1, dev : Names, arg : Argument] /\ Idle.pc = "idle"
      BY FilesGiven DEF Idle, FileCall, Names, Argument
    <2> QED  BY <1>0, <1>2, <2>1 DEF FilesTypes
  <1>5. /\ fdList' \in [Slot -> [dev : Names, flags : SUBSET Flags]]
        /\ fdList'[k].dev = NoDev /\ fdList'[k].flags = {}
        /\ \A i \in Slot : i # k => fdList'[i] = fdList[i]
    <2>1. FreeSlot \in [dev : Names, flags : SUBSET Flags] /\ FreeSlot.dev = NoDev /\ FreeSlot.flags = {}
      BY DEF FreeSlot, Names
    <2> QED  BY <1>0, <1>2, <2>1 DEF FilesTypes
  <1>6. FilesTypes'
    BY <1>0, <1>2, <1>4, <1>5 DEF FilesTypes
  <1>7. \A i \in Slot : Holds(t, i)' => Has(t, i) /\ i # k
    BY <1>2, <1>3, <1>4 DEF Holds, Has, Between
  <1>8. \A u \in Client, i \in Slot : Holds(u, i)' => Holds(u, i) /\ i # k
    BY <1>0, <1>3, <1>4, <1>7 DEF Holds, Has, SlotsHeld
  <1>9. SlotsHeld'
    BY <1>0, <1>5, <1>8 DEF SlotsHeld
  <1>10. SlotsInUse'
    BY <1>0, <1>2, <1>3, <1>5 DEF SlotsInUse
  <1>11. CallStage(t)'
    BY <1>4 DEF CallStage, Between
  <1>12. Kept(t)'
    <2>1. \A p \in opened[t] : p[1] \in Slot /\ p[1] # k
      BY <1>0, <1>3, HasTyped
    <2> QED  BY <1>0, <1>2, <1>5, <2>1 DEF Kept
  <1>13. Alone'
    <2>1. ASSUME NEW i \in Slot, NEW j \in Slot, i # j, "EXCL" \in fdList'[i].flags,
                 fdList'[j].dev = fdList'[i].dev
          PROVE  \/ <<i, j>> \in overlooked'
                 \/ \E u \in Client : doing'[u].pc \in Between /\ doing'[u].fd = j
      <3>1. i # k /\ "EXCL" \in fdList[i].flags /\ fdList[i].dev # NoDev
        BY <1>0, <1>5, <2>1 DEF SlotsInUse
      <3>2. j # k
        BY <1>5, <2>1, <3>1
      <3>3. <<i, j>> \in overlooked \/ \E u \in Client : doing[u].pc \in Between /\ doing[u].fd = j
        BY <1>0, <1>5, <2>1, <3>1, <3>2 DEF Alone
      <3>4. <<i, j>> \in overlooked => <<i, j>> \in overlooked'
        BY <1>2, <3>1, <3>2
      <3> QED  BY <1>1, <1>4, <3>2, <3>3, <3>4
    <2>2. ASSUME NEW u \in Client, NEW j \in Slot, doing'[u].pc = "excl", j # doing'[u].fd,
                 fdList'[j].dev = fdList'[doing'[u].fd].dev
          PROVE  <<doing'[u].fd, j>> \in overlooked'
      <3>1. u # t /\ doing'[u] = doing[u]
        BY <1>4, <2>2
      <3>2. Has(u, doing[u].fd)
        BY <2>2, <3>1 DEF FilesInv, CallStage
      <3>3. doing[u].fd \in Slot
        BY <1>0, <3>2, HasTyped DEF Has
      <3>4. doing[u].fd # k /\ fdList[doing[u].fd].dev # NoDev
        BY <1>0, <1>3, <3>1, <3>2, <3>3 DEF SlotsHeld, Holds
      <3>5. j # k /\ fdList[j].dev = fdList[doing[u].fd].dev
        BY <1>5, <2>2, <3>1, <3>3, <3>4
      <3>6. <<doing[u].fd, j>> \in overlooked
        BY <1>0, <2>2, <3>1, <3>5 DEF Alone
      <3> QED  BY <1>2, <3>1, <3>4, <3>5, <3>6
    <2> QED  BY <2>1, <2>2 DEF Alone
  <1> QED  BY <1>2, <1>3, <1>4, <1>5, <1>6, <1>9, <1>10, <1>11, <1>12, <1>13, OthersGoOn DEF FilesInv

(* A descriptor becomes exclusive, once those compared are of other devices. *)
LEMMA LockStepOfFiles ==
    ASSUME FilesInv, NEW t \in Client, NEW k \in Slot, LockFd(t, k)
    PROVE  FilesInv'
PROOF
  <1>0. FilesTypes /\ CallStage(t) /\ Kept(t) /\ Alone /\ SlotsInUse /\ SlotsHeld
    BY DEF FilesInv
  <1>1. /\ doing[t].pc = "idle" /\ fdLock = NoTask /\ Has(t, k) /\ fdLock' = t
        /\ {j \in 0 .. maxFd - 1 : j # k /\ fdList[j].dev = fdList[k].dev} = {}
        /\ doing' = [doing EXCEPT ![t] = [Idle EXCEPT !.pc = "excl", !.fd = k]]
        /\ overlooked' = overlooked \cup
               {<<k, j>> : j \in {n \in {maxFd} : n # k /\ fdList[n].dev = fdList[k].dev}}
        /\ UNCHANGED <<fdList, maxFd, opened>>
    BY DEF LockFd, Inside
  <1>2. PICK r : r = [Idle EXCEPT !.pc = "excl", !.fd = k]
    OBVIOUS
  <1>3. /\ r \in [pc : FileCall, fd : -1 .. MaxFd - 1, dev : Names, arg : Argument]
        /\ r.pc = "excl" /\ r.fd = k
    <2>1. r = [pc |-> "excl", fd |-> k, dev |-> NoDev, arg |-> "none"]
      BY <1>2 DEF Idle
    <2>2. k \in -1 .. MaxFd - 1
      BY FilesGiven
    <2> QED  BY <2>1, <2>2 DEF FileCall, Names, Argument
  <1>4. /\ doing'[t] = r
        /\ \A u \in Client : u # t => doing'[u] = doing[u] /\ opened'[u] = opened[u]
        /\ FilesTypes'
    BY <1>0, <1>1, <1>2, <1>3 DEF FilesTypes
  <1>5. \A u, j : Has(u, j)' <=> Has(u, j)
    BY <1>1 DEF Has
  <1>6. CallStage(t)' /\ Kept(t)'
    BY <1>0, <1>1, <1>3, <1>4, <1>5 DEF CallStage, Kept, Between
  <1>7. \A u \in Client, i \in Slot : Holds(u, i)' => Holds(u, i)
    BY <1>3, <1>4, <1>5 DEF Holds, Between
  <1>8. SlotsInUse' /\ SlotsHeld'
    BY <1>0, <1>1, <1>7 DEF SlotsInUse, SlotsHeld
  <1>9. Alone'
    <2>1. ASSUME NEW j \in Slot, j # k, fdList[j].dev = fdList[k].dev
          PROVE  <<k, j>> \in overlooked'
      <3>1. fdList[k].dev # NoDev
        BY <1>0, <1>1 DEF SlotsHeld, Holds
      <3>2. j <= maxFd
        BY <1>0, <2>1, <3>1 DEF SlotsInUse
      <3>3. j \notin 0 .. maxFd - 1
        BY <1>1, <2>1
      <3>4. j = maxFd
        BY <1>0, <3>2, <3>3, FilesGiven DEF FilesTypes
      <3> QED  BY <1>1, <2>1, <3>4
    <2>2. \A u \in Client : u # t => doing[u].pc # "excl"
      BY <1>1, FilesGiven DEF FilesInv, CallStage
    <2>3. overlooked \subseteq overlooked'
      BY <1>1
    <2>4. \A j : (\E u \in Client : doing[u].pc \in Between /\ doing[u].fd = j) =>
                 (\E u \in Client : doing'[u].pc \in Between /\ doing'[u].fd = j)
      BY <1>1, <1>4 DEF Between
    <2>5. \A u \in Client, j \in Slot :
             doing'[u].pc = "excl" /\ j # doing'[u].fd /\ fdList'[j].dev = fdList'[doing'[u].fd].dev =>
               <<doing'[u].fd, j>> \in overlooked'
      BY <1>1, <1>3, <1>4, <2>1, <2>2
    <2> QED  BY <1>0, <1>1, <2>3, <2>4, <2>5 DEF Alone
  <1> QED  BY <1>1, <1>4, <1>6, <1>8, <1>9, OthersGoOn DEF FilesInv

LEMMA LockedStep ==
    ASSUME FilesInv, NEW t \in Client, LockedFd(t)
    PROVE  FilesInv'
PROOF
  <1>0. FilesTypes /\ CallStage(t) /\ Kept(t) /\ Alone
    BY DEF FilesInv
  <1>a. doing[t].pc = "excl" /\ Has(t, doing[t].fd) /\ fdLock = t
    BY <1>0 DEF LockedFd, Inside, CallStage
  <1>1. PICK k \in Slot : k = doing[t].fd
    BY <1>0, <1>a, HasTyped DEF Has
  <1>2. /\ fdList' = [fdList EXCEPT ![k].flags = fdList[k].flags \cup {"EXCL"}]
        /\ doing' = [doing EXCEPT ![t] = Idle] /\ fdLock' = NoTask
        /\ UNCHANGED <<maxFd, opened, overlooked>>
    BY <1>1 DEF LockedFd, Returns
  <1>3. fdList[k].flags \cup {"EXCL"} \in SUBSET Flags
    BY <1>0 DEF FilesTypes, Flags
  <1>4. /\ doing'[t].pc = "idle"
        /\ \A u \in Client : u # t => doing'[u] = doing[u] /\ opened'[u] = opened[u]
        /\ doing' \in [Client -> [pc : FileCall, fd : -1 .. MaxFd - 1, dev : Names, arg : Argument]]
    <2>1. Idle \in [pc : FileCall, fd : -1 .. MaxFd - 1, dev : Names, arg : Argument] /\ Idle.pc = "idle"
      BY FilesGiven DEF Idle, FileCall, Names, Argument
    <2> QED  BY <1>0, <1>2, <2>1 DEF FilesTypes
  <1>5. Holds(t, k) /\ \A i \in Slot : Holds(t, i)' => Holds(t, i)
    BY <1>1, <1>2, <1>4, <1>a DEF Holds, Has, Between
  <1>6. /\ fdList' \in [Slot -> [dev : Names, flags : SUBSET Flags]]
        /\ SlotsInUse' /\ SlotsHeld'
        /\ fdList'[k].flags = fdList[k].flags \cup {"EXCL"}
        /\ \A i \in Slot : fdList'[i].dev = fdList[i].dev /\ (i # k => fdList'[i] = fdList[i])
    <2>1. maxFd' = maxFd /\ fdList' = [fdList EXCEPT ![k].flags = fdList[k].flags \cup {"EXCL"}]
      BY <1>2
    <2> QED  BY <1>3, <1>4, <1>5, <2>1, FlagsChange
  <1>7. FilesTypes'
    BY <1>0, <1>2, <1>4, <1>6 DEF FilesTypes
  <1>8. CallStage(t)'
    BY <1>4 DEF CallStage, Between
  <1>9. Kept(t)'
    <2>1. \A p \in opened[t] : p[1] \in Slot
      BY <1>0, HasTyped
    <2> QED  BY <1>0, <1>2, <1>6, <2>1 DEF Kept
  <1>10. Alone'
    <2>1. ASSUME NEW i \in Slot, NEW j \in Slot, i # j, "EXCL" \in fdList'[i].flags,
                 fdList'[j].dev = fdList'[i].dev
          PROVE  \/ <<i, j>> \in overlooked'
                 \/ \E u \in Client : doing'[u].pc \in Between /\ doing'[u].fd = j
      <3>1. CASE i = k
        BY <1>0, <1>1, <1>2, <1>6, <1>a, <2>1, <3>1 DEF Alone
      <3>2. CASE i # k
        <4>1. <<i, j>> \in overlooked \/ \E u \in Client : doing[u].pc \in Between /\ doing[u].fd = j
          BY <1>0, <1>6, <2>1, <3>2 DEF Alone
        <4> QED  BY <1>2, <1>4, <1>a, <4>1 DEF Between
      <3> QED  BY <3>1, <3>2
    <2>2. \A u \in Client : doing'[u].pc # "excl"
      BY <1>4, <1>a DEF FilesInv, CallStage
    <2> QED  BY <2>1, <2>2 DEF Alone
  <1> QED  BY <1>2, <1>4, <1>5, <1>6, <1>7, <1>8, <1>9, <1>10, <1>a, OthersGoOn DEF FilesInv

(* TIOCNXCL and F_SETFL: flags that open did not set. *)
LEMMA OwnFlags ==
    ASSUME FilesInv, NEW t \in Client, NEW k \in Slot, NEW f \in SUBSET Flags,
           doing[t].pc = "idle", Has(t, k),
           fdList' = [fdList EXCEPT ![k].flags = f],
           fdList[k].flags \cap ({"DEV"} \cup Mode) \subseteq f,
           "EXCL" \in f => "EXCL" \in fdList[k].flags /\ overlooked' = overlooked,
           overlooked' = overlooked \/ ("EXCL" \notin f /\ overlooked' = {p \in overlooked : p[1] # k}),
           UNCHANGED <<maxFd, fdLock, doing, opened>>
    PROVE  FilesInv'
PROOF
  <1>0. FilesTypes /\ CallStage(t) /\ Kept(t) /\ Alone
    BY DEF FilesInv
  <1>1. \A u \in Client : u # t => doing'[u] = doing[u] /\ opened'[u] = opened[u]
    OBVIOUS
  <1>2. Holds(t, k) /\ \A u, i : Holds(u, i)' <=> Holds(u, i)
    BY DEF Holds, Has
  <1>3. /\ fdList' \in [Slot -> [dev : Names, flags : SUBSET Flags]]
        /\ SlotsInUse' /\ SlotsHeld'
        /\ fdList'[k].flags = f
        /\ \A i \in Slot : fdList'[i].dev = fdList[i].dev /\ (i # k => fdList'[i] = fdList[i])
    <2>1. maxFd' = maxFd
      OBVIOUS
    <2> QED  BY <1>1, <1>2, <2>1, FlagsChange
  <1>4. FilesTypes'
    BY <1>0, <1>3 DEF FilesTypes
  <1>5. CallStage(t)'
    BY DEF CallStage, Between
  <1>6. Kept(t)'
    <2> SUFFICES ASSUME NEW p \in opened[t]
                 PROVE  fdList'[p[1]].dev = p[2] /\ {"DEV", p[3]} \subseteq fdList'[p[1]].flags
      BY DEF Kept
    <2>1. p[1] \in Slot /\ p[3] \in Mode /\ fdList[p[1]].dev = p[2] /\ {"DEV", p[3]} \subseteq fdList[p[1]].flags
      BY <1>0, HasTyped DEF Kept
    <2> QED  BY <1>3, <2>1
  <1>7. Alone'
    <2>1. ASSUME NEW i \in Slot, NEW j \in Slot, i # j, "EXCL" \in fdList'[i].flags,
                 fdList'[j].dev = fdList'[i].dev
          PROVE  \/ <<i, j>> \in overlooked'
                 \/ \E u \in Client : doing'[u].pc \in Between /\ doing'[u].fd = j
      <3>1. "EXCL" \in fdList[i].flags /\ fdList[j].dev = fdList[i].dev
        BY <1>3, <2>1
      <3>2. <<i, j>> \in overlooked \/ \E u \in Client : doing[u].pc \in Between /\ doing[u].fd = j
        BY <1>0, <2>1, <3>1 DEF Alone
      <3>3. <<i, j>> \in overlooked => <<i, j>> \in overlooked'
        BY <1>3, <2>1
      <3> QED  BY <3>2, <3>3
    <2>2. ASSUME NEW u \in Client, NEW j \in Slot, doing'[u].pc = "excl", j # doing'[u].fd,
                 fdList'[j].dev = fdList'[doing'[u].fd].dev
          PROVE  <<doing'[u].fd, j>> \in overlooked'
      <3>1. u # t /\ doing'[u] = doing[u] /\ Has(u, doing[u].fd)
        BY <2>2 DEF FilesInv, CallStage
      <3>2. doing[u].fd \in Slot
        BY <1>0, <3>1, HasTyped DEF Has
      <3>3. doing[u].fd # k
        BY <3>1 DEF FilesInv, SlotsHeld, Holds
      <3>4. <<doing[u].fd, j>> \in overlooked
        BY <1>0, <1>3, <2>2, <3>1, <3>2 DEF Alone
      <3> QED  BY <3>1, <3>3, <3>4
    <2> QED  BY <2>1, <2>2 DEF Alone
  <1> QED  BY <1>1, <1>2, <1>3, <1>4, <1>5, <1>6, <1>7, OthersGoOn DEF FilesInv

LEMMA UnlockStep ==
    ASSUME FilesInv, NEW t \in Client, NEW k \in Slot, UnlockFd(t, k)
    PROVE  FilesInv'
PROOF
  <1>1. /\ doing[t].pc = "idle" /\ Has(t, k)
        /\ fdList' = [fdList EXCEPT ![k].flags = fdList[k].flags \ {"EXCL"}]
        /\ overlooked' = {p \in overlooked : p[1] # k}
        /\ UNCHANGED <<maxFd, fdLock, doing, opened>>
    BY DEF UnlockFd, Inside
  <1>2. PICK f : f = fdList[k].flags \ {"EXCL"}
    OBVIOUS
  <1>3. /\ f \in SUBSET Flags /\ "EXCL" \notin f /\ fdList[k].flags \cap ({"DEV"} \cup Mode) \subseteq f
    BY <1>2, FilesGiven DEF FilesInv, FilesTypes
  <1> QED  BY <1>1, <1>2, <1>3, OwnFlags

LEMMA SetFlagsStep ==
    ASSUME FilesInv, NEW t \in Client, NEW k \in Slot, NEW n \in SUBSET {"O_NONBLOCK"}, SetFlags(t, k, n)
    PROVE  FilesInv'
PROOF
  <1>1. /\ doing[t].pc = "idle" /\ Has(t, k)
        /\ fdList' = [fdList EXCEPT ![k].flags = (fdList[k].flags \ {"O_NONBLOCK"}) \cup n]
        /\ UNCHANGED <<maxFd, fdLock, doing, opened, overlooked>>
    BY DEF SetFlags, Inside
  <1>2. PICK f : f = (fdList[k].flags \ {"O_NONBLOCK"}) \cup n
    OBVIOUS
  <1>3. /\ f \in SUBSET Flags /\ fdList[k].flags \cap ({"DEV"} \cup Mode) \subseteq f
        /\ "EXCL" \in f => "EXCL" \in fdList[k].flags
    BY <1>2, FilesGiven DEF FilesInv, FilesTypes, Flags
  <1>4. fdList' = [fdList EXCEPT ![k].flags = f] /\ overlooked' = overlooked
    BY <1>1, <1>2
  <1>5. UNCHANGED <<maxFd, fdLock, doing, opened>>
    BY <1>1
  <1> QED  BY <1>1, <1>3, <1>4, <1>5, OwnFlags

LEMMA FilesStart == FilesInit => FilesInv
PROOF
  <1> SUFFICES ASSUME FilesInit PROVE FilesInv
    OBVIOUS
  <1>0. /\ fdList = [i \in Slot |-> IF i = 0 THEN Redirected("/dev/jtag_uart", "O_RDONLY")
                                    ELSE IF i \in {1, 2} THEN Redirected("/dev/jtag_uart", "O_WRONLY")
                                    ELSE FreeSlot]
    <2>1. \A i \in Slot : i = 0 \/ i \in {1, 2} \/ i > 2
      BY FilesGiven
    <2> QED  BY <2>1, FilesGiven DEF FilesInit
  <1>1. /\ maxFd = 3 /\ doing = [t \in Client |-> Idle] /\ opened = [t \in Client |-> {}]
    BY DEF FilesInit
  <1>2. /\ Redirected("/dev/jtag_uart", "O_RDONLY") \in [dev : Names, flags : SUBSET Flags]
        /\ Redirected("/dev/jtag_uart", "O_WRONLY") \in [dev : Names, flags : SUBSET Flags]
        /\ FreeSlot \in [dev : Names, flags : SUBSET Flags]
        /\ Idle \in [pc : FileCall, fd : -1 .. MaxFd - 1, dev : Names, arg : Argument]
    BY FilesGiven, FilesAssumption DEF Redirected, FreeSlot, Names, Flags, AccessMode, Idle, FileCall, Argument
  <1>3. FilesTypes
    BY <1>0, <1>1, <1>2, FilesGiven DEF FilesTypes
  <1>4. \A i \in Slot : /\ i <= 2 => fdList[i].dev = "/dev/jtag_uart" /\ "EXCL" \notin fdList[i].flags
                        /\ i > 2 => fdList[i].dev = NoDev /\ fdList[i].flags = {}
    BY <1>0, FilesGiven DEF Redirected, FreeSlot
  <1>5. SlotsInUse
    BY <1>1, <1>4, FilesGiven DEF SlotsInUse, NoDev
  <1>6. \A t \in Client, i \in Slot : ~ Holds(t, i)
    BY <1>1 DEF Holds, Has, Idle, Between
  <1>7. SlotsHeld
    BY <1>6 DEF SlotsHeld
  <1>8. Alone
    BY <1>1, <1>4, FilesGiven DEF Alone, Idle
  <1>9. \A t \in Client : CallStage(t) /\ Kept(t)
    BY <1>1 DEF CallStage, Kept, Idle, Between
  <1> QED  BY <1>3, <1>5, <1>7, <1>8, <1>9 DEF FilesInv

LEMMA FilesSteps ==
    ASSUME FilesInv, FilesNext \/ UNCHANGED filesVars
    PROVE  FilesInv'
PROOF
  <1>1. CASE FilesNext
    BY <1>1, OpenStep, DriverDoneStep, UseStep, GetFdStep, ClaimStep, OpenFlagsStep, OpenCheckedStep,
       ReleaseFlagsStep, ReleaseStep, LockedStep, CloseStep, LockStepOfFiles, UnlockStep, SetFlagsStep
       DEF FilesNext
  <1>2. CASE UNCHANGED filesVars
    BY <1>2 DEF filesVars, FilesInv, FilesTypes, SlotsInUse, SlotsHeld, Holds, Has, Alone, CallStage, Kept
  <1> QED  BY <1>1, <1>2

LEMMA DescriptorsHoldInv == FilesInv => DescriptorsHold
PROOF
  <1> SUFFICES ASSUME FilesInv PROVE DescriptorsHold
    OBVIOUS
  <1>0. FilesTypes /\ SlotsHeld /\ SlotsInUse /\ Alone /\ \A t \in Client : CallStage(t) /\ Kept(t)
    BY DEF FilesInv
  <1>1. DescriptorsKept
    <2> SUFFICES ASSUME NEW t \in Client, NEW p \in opened[t]
                 PROVE  /\ fdList[p[1]].dev = p[2] /\ {"DEV", p[3]} \subseteq fdList[p[1]].flags
                        /\ \A u \in Client \ {t} : \A q \in opened[u] : p[1] # q[1]
      BY DEF DescriptorsKept
    <2>1. p[1] \in Slot /\ Holds(t, p[1])
      BY <1>0, HasTyped DEF Holds
    <2>2. \A u \in Client \ {t} : \A q \in opened[u] : Holds(u, q[1])
      BY DEF Holds, Has
    <2>3. \A u \in Client \ {t} : \A q \in opened[u] : p[1] # q[1]
      BY <1>0, <2>1, <2>2 DEF SlotsHeld
    <2> QED  BY <1>0, <2>3 DEF Kept
  <1>2. ExclusiveIsAlone
    BY <1>0 DEF Alone, ExclusiveIsAlone, Between
  <1>3. DriversFindTheirDevice
    <2> SUFFICES ASSUME NEW t \in Client, doing[t].pc = "driver"
                 PROVE  /\ fdList[doing[t].fd].dev = doing[t].dev /\ alt_isatty(fdList[doing[t].fd])
                        /\ doing[t].arg \in Driver(doing[t].dev)
                        /\ \A p \in opened[t] : p[1] = doing[t].fd =>
                             <<p[3], doing[t].arg>> \notin {<<"O_WRONLY", "read">>, <<"O_RDONLY", "write">>}
      BY DEF DriversFindTheirDevice, Inside
    <2>1. alt_isatty(fdList[doing[t].fd])
      BY DEF alt_isatty, alt_fstat, Driver, alt_dev_null, alt_dev_jtag_uart
    <2> QED  BY <1>0, <2>1 DEF CallStage
  <1> QED  BY <1>1, <1>2, <1>3 DEF DescriptorsHold

-----------------------------------------------------------------------------
(* The clock *)

LEMMA EuclidUnique ==
    ASSUME NEW a \in Int, NEW b \in Nat \ {0}, NEW q \in Int, NEW r \in 0 .. b - 1, a = q * b + r
    PROVE  a \div b = q /\ a % b = r
PROOF
  <1> DEFINE d == a \div b
             m == a % b
  <1>1. d \in Int /\ m \in 0 .. b - 1 /\ a = d * b + m
    OBVIOUS
  <1> HIDE DEF d, m
  <1>2. d = q
    <2>1. CASE d >= q + 1
      <3>1. (d - q) * b >= b
        <4> DEFINE x == d - q - 1
        <4>1. x \in Nat /\ d - q = x + 1
          BY <1>1, <2>1
        <4> HIDE DEF x
        <4>2. (x + 1) * b = x * b + b /\ x * b >= 0
          BY <4>1
        <4> QED  BY <4>1, <4>2, <1>1
      <3>2. (d - q) * b = r - m
        BY <1>1
      <3> QED  BY <1>1, <3>1, <3>2
    <2>2. CASE d <= q - 1
      <3>1. (q - d) * b >= b
        <4> DEFINE x == q - d - 1
        <4>1. x \in Nat /\ q - d = x + 1
          BY <1>1, <2>2
        <4> HIDE DEF x
        <4>2. (x + 1) * b = x * b + b /\ x * b >= 0
          BY <4>1
        <4> QED  BY <4>1, <4>2, <1>1
      <3>2. (q - d) * b = m - r
        BY <1>1
      <3> QED  BY <1>1, <3>1, <3>2
    <2> QED  BY <1>1, <2>1, <2>2
  <1>3. m = r
    BY <1>1, <1>2
  <1> QED  BY <1>2, <1>3 DEF d, m

LEMMA Wraps ==
    ASSUME NEW x \in Nat, x < 2 * Wide
    PROVE  x % Wide = IF x < Wide THEN x ELSE x - Wide
PROOF
  <1>1. Wide \in Nat \ {0}
    BY ClockAssumption
  <1>2. CASE x < Wide
    <2>1. x = 0 * Wide + x /\ x \in 0 .. Wide - 1 /\ 0 \in Int
      BY <1>1, <1>2
    <2>2. x % Wide = x
      BY <1>1, <2>1, EuclidUnique
    <2> QED  BY <1>2, <2>2
  <1>3. CASE x >= Wide
    <2>1. x = 1 * Wide + (x - Wide) /\ x - Wide \in 0 .. Wide - 1 /\ 1 \in Int
      BY <1>1, <1>3
    <2>2. x % Wide = x - Wide
      BY <1>1, <2>1, EuclidUnique
    <2> QED  BY <1>1, <1>3, <2>2
  <1> QED  BY <1>1, <1>2, <1>3

(* An alarm's time is that of the tick it is due on, and its rollover flag  *)
(* says whether the counter wraps before that.                              *)
Set(a) ==
    /\ alarm[a].on => /\ due[a] \in 1 .. Wide - 1
                      /\ alarm[a].rollover <=> nticks + due[a] >= Wide
                      /\ alarm[a].time = nticks + due[a] - (IF alarm[a].rollover THEN Wide ELSE 0)
    /\ ~ alarm[a].on => due[a] = -1
    /\ a \in ran /\ alarm[a].on => due[a] \in Period

AlarmInv ==
    /\ nticks \in 0 .. Wide - 1
    /\ alarm \in [Alarm -> [on : BOOLEAN, time : 0 .. Wide - 1, rollover : BOOLEAN]]
    /\ due \in [Alarm -> Int]
    /\ \A a \in Alarm : Set(a)

LEMMA AlarmStarts ==
    ASSUME AlarmInv, Wide - 1 \notin Period, NEW b \in Alarm, NEW n \in Period, AlarmStart(b, n)
    PROVE  AlarmInv'
PROOF
  <1>0. Wide \in Nat \ {0} /\ n \in 0 .. Wide - 2 /\ nticks \in 0 .. Wide - 1
    BY ClockAssumption DEF AlarmInv
  <1>1. PICK time : time = (n + nticks + 1) % Wide
    OBVIOUS
  <1>2. time = (IF n + nticks + 1 < Wide THEN n + nticks + 1 ELSE n + nticks + 1 - Wide)
    BY <1>0, <1>1, Wraps
  <1>3. /\ alarm' = [alarm EXCEPT ![b] = [on |-> TRUE, time |-> time, rollover |-> time < nticks]]
        /\ due' = [due EXCEPT ![b] = n + 1] /\ ran' = {} /\ nticks' = nticks
    BY <1>1 DEF AlarmStart
  <1>4. time \in 0 .. Wide - 1 /\ (time < nticks) \in BOOLEAN /\ (time < nticks <=> nticks + n + 1 >= Wide)
    BY <1>0, <1>2
  <1>5. /\ alarm' \in [Alarm -> [on : BOOLEAN, time : 0 .. Wide - 1, rollover : BOOLEAN]]
        /\ due' \in [Alarm -> Int]
    BY <1>0, <1>3, <1>4 DEF AlarmInv
  <1>6. ASSUME NEW a \in Alarm
        PROVE  Set(a)'
    <2>1. CASE a = b
      <3>1. /\ alarm'[a].on /\ alarm'[a].time = time /\ due'[a] = n + 1
            /\ alarm'[a].rollover <=> time < nticks
        BY <1>3, <2>1 DEF AlarmInv
      <3> QED  BY <1>0, <1>2, <1>3, <1>4, <3>1 DEF Set
    <2>2. CASE a # b
      <3>1. alarm'[a] = alarm[a] /\ due'[a] = due[a]
        BY <1>3, <2>2 DEF AlarmInv
      <3> QED  BY <1>3, <3>1 DEF Set, AlarmInv
    <2> QED  BY <2>1, <2>2
  <1> QED  BY <1>0, <1>3, <1>5, <1>6 DEF AlarmInv

LEMMA AlarmStops ==
    ASSUME AlarmInv, NEW b \in Alarm, AlarmStop(b)
    PROVE  AlarmInv'
PROOF
  <1>0. Wide \in Nat \ {0}
    BY ClockAssumption
  <1>1. ASSUME NEW a \in Alarm
        PROVE  Set(a)'
    BY <1>1 DEF AlarmStop, AlarmInv, Set, Off
  <1> QED  BY <1>0, <1>1 DEF AlarmStop, AlarmInv, Off

LEMMA AlarmsTick ==
    ASSUME AlarmInv, Tick
    PROVE  AlarmInv'
PROOF
  <1>0. Wide \in Nat \ {0} /\ nticks \in 0 .. Wide - 1 /\ Period \subseteq 0 .. Wide - 1
    BY ClockAssumption DEF AlarmInv
  <1>1. Now = IF nticks + 1 < Wide THEN nticks + 1 ELSE 0
    BY <1>0, Wraps DEF Now
  <1>2. Now \in 0 .. Wide - 1
    BY <1>0, <1>1
  <1>3. PICK p \in [Alarm -> Period] :
          /\ \A a \in Alarm \ ran' : p[a] = 0
          /\ alarm' = [a \in Alarm |->
                         IF Expired(a) THEN Rearmed(a, p[a])
                         ELSE [alarm[a] EXCEPT !.rollover = alarm[a].rollover /\ Now # 0]]
          /\ due' = [a \in Alarm |->
                         IF due[a] = -1 THEN -1
                         ELSE IF a \notin ran' THEN due[a] - 1
                         ELSE IF p[a] = 0 THEN -1 ELSE due[a] - 1 + p[a]]
    BY DEF Tick
  <1>4. nticks' = Now /\ ran' = {a \in Alarm : Expired(a)}
    BY DEF Tick
  <1>5. ASSUME NEW a \in Alarm
        PROVE  /\ Set(a)' /\ due'[a] \in Int
               /\ alarm'[a] \in [on : BOOLEAN, time : 0 .. Wide - 1, rollover : BOOLEAN]
    <2>1. /\ Set(a) /\ due[a] \in Int
          /\ alarm[a] \in [on : BOOLEAN, time : 0 .. Wide - 1, rollover : BOOLEAN]
      BY DEF AlarmInv
    <2>2. Expired(a) <=> alarm[a].on /\ due[a] = 1
      BY <1>0, <1>1, <2>1 DEF Expired, Set
    <2>3. CASE Expired(a)
      <3>1. p[a] \in Period /\ p[a] \in 0 .. Wide - 1
        BY <1>0, <1>3
      <3>2. /\ alarm[a].on /\ due[a] = 1 /\ a \in ran'
            /\ alarm'[a] = Rearmed(a, p[a])
            /\ due'[a] = IF p[a] = 0 THEN -1 ELSE p[a]
        BY <1>3, <1>4, <2>2, <2>3, <3>1
      <3>3. alarm[a].time = Now
        BY <1>0, <1>1, <2>1, <3>2 DEF Set
      <3>4. CASE p[a] = 0
        <4>1. alarm'[a] = Off /\ due'[a] = -1
          BY <3>2, <3>4 DEF Rearmed
        <4> QED  BY <1>0, <4>1 DEF Set, Off
      <3>5. CASE p[a] # 0
        <4>1. PICK time : time = (alarm[a].time + p[a]) % Wide
          OBVIOUS
        <4>2. time = IF Now + p[a] < Wide THEN Now + p[a] ELSE Now + p[a] - Wide
          BY <1>0, <1>2, <3>1, <3>3, <4>1, Wraps
        <4>3. alarm'[a] = [on |-> TRUE, time |-> time, rollover |-> time < Now] /\ due'[a] = p[a]
          BY <3>2, <3>5, <4>1 DEF Rearmed
        <4>4. time \in 0 .. Wide - 1 /\ (time < Now) \in BOOLEAN /\ (time < Now <=> Now + p[a] >= Wide)
          BY <1>0, <1>2, <3>1, <3>5, <4>2
        <4>5. alarm'[a].on /\ alarm'[a].time = time /\ (alarm'[a].rollover <=> time < Now)
          <5>1. alarm'[a].on /\ alarm'[a].time = time
            BY <4>3
          <5>2. CASE time < Now
            <6>1. alarm'[a] = [on |-> TRUE, time |-> time, rollover |-> TRUE]
              BY <4>3, <4>4, <5>2
            <6> QED  BY <5>1, <5>2, <6>1
          <5>3. CASE ~ (time < Now)
            <6>1. alarm'[a] = [on |-> TRUE, time |-> time, rollover |-> FALSE]
              BY <4>3, <4>4, <5>3
            <6> QED  BY <5>1, <5>3, <6>1
          <5> QED  BY <5>2, <5>3
        <4>6. Set(a)'
          BY <1>0, <1>2, <1>4, <3>1, <3>5, <4>2, <4>3, <4>4, <4>5 DEF Set
        <4> QED  BY <3>1, <4>3, <4>4, <4>6
      <3> QED  BY <3>4, <3>5
    <2>4. CASE ~ Expired(a)
      <3>1. /\ a \notin ran'
            /\ alarm'[a] = [alarm[a] EXCEPT !.rollover = alarm[a].rollover /\ Now # 0]
            /\ due'[a] = IF due[a] = -1 THEN -1 ELSE due[a] - 1
        BY <1>3, <1>4, <2>4
      <3>2. /\ alarm'[a].on = alarm[a].on /\ alarm'[a].time = alarm[a].time
            /\ alarm'[a].rollover <=> alarm[a].rollover /\ Now # 0
            /\ alarm'[a] \in [on : BOOLEAN, time : 0 .. Wide - 1, rollover : BOOLEAN]
        BY <2>1, <3>1
      <3>3. CASE alarm[a].on
        <4>1. /\ due[a] \in 2 .. Wide - 1 /\ due'[a] = due[a] - 1
              /\ alarm[a].rollover <=> nticks + due[a] >= Wide
              /\ alarm[a].time = nticks + due[a] - (IF alarm[a].rollover THEN Wide ELSE 0)
          BY <1>0, <2>1, <2>2, <2>4, <3>1, <3>3 DEF Set
        <4>2. CASE nticks + 1 < Wide
          <5>1. alarm'[a].rollover <=> alarm[a].rollover
            BY <1>0, <1>1, <3>2, <4>2
          <5> QED  BY <1>0, <1>1, <1>4, <3>1, <3>2, <3>3, <4>1, <4>2, <5>1 DEF Set
        <4>3. CASE nticks + 1 = Wide
          <5>1. alarm[a].rollover /\ ~ alarm'[a].rollover /\ Now = 0
            BY <1>0, <1>1, <3>2, <4>1, <4>3
          <5> QED  BY <1>0, <1>4, <3>1, <3>2, <3>3, <4>1, <4>3, <5>1 DEF Set
        <4> QED  BY <1>0, <4>2, <4>3
      <3>4. CASE ~ alarm[a].on
        BY <2>1, <3>1, <3>2, <3>4 DEF Set
      <3> QED  BY <3>3, <3>4
    <2> QED  BY <2>3, <2>4
  <1>6. /\ alarm' \in [Alarm -> [on : BOOLEAN, time : 0 .. Wide - 1, rollover : BOOLEAN]]
        /\ due' \in [Alarm -> Int]
    <2>1. alarm' = [a \in Alarm |-> alarm'[a]] /\ due' = [a \in Alarm |-> due'[a]]
      BY <1>3
    <2> QED  BY <1>5, <2>1
  <1> QED  BY <1>2, <1>4, <1>5, <1>6 DEF AlarmInv

-----------------------------------------------------------------------------

LEMMA Scales ==
    ASSUME NEW k \in Nat \ {0}, NEW x \in Int, NEW y \in Int
    PROVE  /\ x * k >= y * k <=> x >= y
           /\ x * k \in Int
PROOF
  <1>1. ASSUME NEW i \in Int, NEW j \in Int, i < j
        PROVE  i * k < j * k
    <2> DEFINE n == j - i - 1
    <2>1. n \in Nat /\ j = i + n + 1
      BY <1>1
    <2> HIDE DEF n
    <2>2. (i + n + 1) * k = i * k + n * k + k /\ n * k >= 0
      BY <2>1
    <2>3. i * k \in Int /\ n * k \in Int /\ (i * k) + (n * k) + k > i * k
      BY <2>1, <2>2
    <2> QED  BY <2>1, <2>2, <2>3
  <1>2. x * k \in Int /\ y * k \in Int
    OBVIOUS
  <1>3. CASE x < y
    BY <1>1, <1>2, <1>3
  <1>4. CASE y < x
    BY <1>1, <1>2, <1>4
  <1>5. CASE x = y
    BY <1>2, <1>5
  <1> QED  BY <1>3, <1>4, <1>5

TickUs == Us \div TickRate

LEMMA WholeTicks == TickUs \in Nat \ {0} /\ Us = TickRate * TickUs /\ Us \in Nat \ {0}
PROOF
  <1>1. Us \in Nat /\ TickRate \in Nat \ {0} /\ Us % TickRate = 0 /\ Us >= TickRate
    BY ClockAssumption
  <1>2. TickUs \in Int /\ Us = TickRate * TickUs
    BY <1>1 DEF TickUs
  <1>3. TickUs > 0
    <2>1. CASE TickUs <= 0
      <3>1. TickRate * TickUs <= 0
        BY <1>1, <1>2, <2>1
      <3> QED  BY <1>1, <1>2, <3>1
    <2> QED  BY <1>2, <2>1
  <1>4. Us \in Nat \ {0}
    BY <1>1
  <1> QED  BY <1>2, <1>3, <1>4

(* What is left of a number of ticks below the second, in microseconds. *)
LEMMA LeftOver ==
    ASSUME NEW n \in Nat
    PROVE  /\ n = (n \div TickRate) * TickRate + (n % TickRate)
           /\ n \div TickRate \in Nat /\ n % TickRate \in 0 .. TickRate - 1
           /\ (n * TickUs) % Us = (n % TickRate) * TickUs
PROOF
  <1>0. TickRate \in Nat \ {0} /\ TickUs \in Nat \ {0} /\ Us = TickRate * TickUs /\ Us \in Nat \ {0}
    BY WholeTicks, ClockAssumption
  <1> DEFINE q == n \div TickRate
             r == n % TickRate
  <1>2. q \in Int /\ r \in 0 .. TickRate - 1 /\ n = q * TickRate + r
    BY <1>0
  <1> HIDE DEF q, r
  <1>3. q >= 0
    <2>1. CASE q <= -1
      <3>1. (-1) * TickRate >= q * TickRate
        BY <1>0, <1>2, <2>1, Scales
      <3> QED  BY <1>0, <1>2, <3>1
    <2> QED  BY <1>2, <2>1
  <1>4. r * TickUs \in 0 .. Us - 1
    <2>1. r * TickUs >= 0 * TickUs /\ ~ (r * TickUs >= TickRate * TickUs) /\ r * TickUs \in Int
      BY <1>0, <1>2, Scales
    <2> QED  BY <1>0, <2>1
  <1>5. n * TickUs = q * Us + r * TickUs
    <2>1. (q * TickRate + r) * TickUs = q * (TickRate * TickUs) + r * TickUs
      BY <1>0, <1>2
    <2> QED  BY <1>0, <1>2, <2>1
  <1>6. PICK a \in Int, w \in 0 .. Us - 1 : a = n * TickUs /\ w = r * TickUs
    BY <1>0, <1>4
  <1>7. a % Us = w
    <2>1. a = q * Us + w
      BY <1>5, <1>6
    <2> QED  BY <1>0, <1>2, <2>1, EuclidUnique
  <1>8. (n * TickUs) % Us = r * TickUs
    BY <1>6, <1>7
  <1>9. q \in Nat
    BY <1>2, <1>3
  <1> QED  BY <1>2, <1>8, <1>9 DEF q, r

(* Counter and difference make up the time of day, in ticks. *)
WallInv ==
    /\ resettime \in [sec : Int, usec : Int]
    /\ wall \in -1 .. MaxWall
    /\ wall # -1 =>
         \E u \in 1 - TickRate .. TickRate - 1 :
             /\ resettime.usec = u * TickUs
             /\ resettime.sec * TickRate + u + nticks = wall

LEMMA WallTicks ==
    ASSUME AlarmInv, WallInv, Tick
    PROVE  WallInv'
PROOF
  <1>0. Wide \in Nat \ {0} /\ MaxWall \in Nat /\ nticks \in 0 .. Wide - 1 /\ TickRate \in Nat \ {0}
    BY ClockAssumption DEF AlarmInv
  <1>1. Now = IF nticks + 1 < Wide THEN nticks + 1 ELSE 0
    BY <1>0, Wraps DEF Now
  <1>2. /\ nticks' = Now /\ resettime' = resettime
        /\ wall' = IF wall \in {-1, MaxWall} \/ Now = 0 THEN -1 ELSE wall + 1
    BY DEF Tick, wallVars
  <1>3. CASE wall \in {-1, MaxWall} \/ Now = 0
    BY <1>0, <1>2, <1>3 DEF WallInv
  <1>4. CASE ~ (wall \in {-1, MaxWall} \/ Now = 0)
    <2>1. PICK u \in 1 - TickRate .. TickRate - 1 :
             resettime.usec = u * TickUs /\ resettime.sec * TickRate + u + nticks = wall
      BY <1>4 DEF WallInv
    <2>2. nticks' = nticks + 1 /\ wall' = wall + 1 /\ wall \in 0 .. MaxWall - 1
      BY <1>0, <1>1, <1>2, <1>4 DEF WallInv
    <2>3. resettime.sec \in Int /\ resettime.sec * TickRate \in Int
      BY <1>0 DEF WallInv
    <2>4. resettime'.usec = u * TickUs /\ resettime'.sec * TickRate + u + nticks' = wall'
      <3>1. PICK m \in Int : m = resettime.sec * TickRate
        BY <2>3
      <3>2. m + u + (nticks + 1) = wall + 1
        BY <1>0, <2>1, <2>2, <3>1
      <3>3. resettime'.sec * TickRate = m
        BY <1>2, <3>1
      <3> QED  BY <1>2, <2>1, <2>2, <3>2, <3>3
    <2> QED  BY <1>0, <1>2, <2>2, <2>4 DEF WallInv
  <1> QED  BY <1>3, <1>4

LEMMA WallIsSet ==
    ASSUME AlarmInv, WallInv, NEW d \in Days, SetTimeOfDay(d)
    PROVE  WallInv'
PROOF
  <1>0. /\ Wide \in Nat \ {0} /\ nticks \in Nat /\ d \in 0 .. MaxWall /\ d \in Nat /\ MaxWall \in Nat
        /\ TickRate \in Nat \ {0} /\ TickUs \in Nat \ {0} /\ Us \in Nat \ {0}
    <2>1. nticks \in Nat
      BY ClockAssumption DEF AlarmInv
    <2>2. d \in 0 .. MaxWall /\ d \in Nat
      BY ClockAssumption
    <2> QED  BY <2>1, <2>2, ClockAssumption, WholeTicks
  <1> DEFINE s == d \div TickRate
             r == d % TickRate
             q == nticks \div TickRate
             e == nticks % TickRate
  <1>1. d \in Nat /\ nticks \in Nat
    BY <1>0
  <1>2. /\ s \in Nat /\ q \in Nat /\ r \in 0 .. TickRate - 1 /\ e \in 0 .. TickRate - 1
        /\ d = s * TickRate + r /\ nticks = q * TickRate + e
        /\ (nticks * TickUs) % Us = e * TickUs
    BY <1>1, LeftOver
  <1>3. PICK x : x = ((nticks * TickUs) % Wide) % Us
    OBVIOUS
  <1>4. nticks * TickUs \in Nat
    BY <1>0
  <1>5. (nticks * TickUs) % Wide \in Nat
    BY <1>0, <1>4
  <1>6. x \in Int
    BY <1>0, <1>3, <1>5
  <1>7. /\ resettime' = [sec |-> s - q, usec |-> r * TickUs - x] /\ nticks' = nticks
        /\ wall' = IF nticks * TickUs < Wide THEN d ELSE -1
    BY <1>3 DEF SetTimeOfDay, TickUs
  <1> HIDE DEF s, r, q, e
  <1>8. s - q \in Int /\ r * TickUs - x \in Int
    BY <1>0, <1>2, <1>6
  <1>9. resettime'.sec = s - q /\ resettime'.usec = r * TickUs - x /\ resettime' \in [sec : Int, usec : Int]
    BY <1>7, <1>8
  <1>10. CASE nticks * TickUs < Wide
    <2>1. (nticks * TickUs) % Wide = nticks * TickUs
      <3>1. nticks * TickUs = 0 * Wide + nticks * TickUs /\ nticks * TickUs \in 0 .. Wide - 1 /\ 0 \in Int
        BY <1>0, <1>4, <1>10
      <3> QED  BY <1>0, <1>4, <3>1, EuclidUnique
    <2>2. x = e * TickUs
      BY <1>2, <1>3, <2>1
    <2>3. r * TickUs - e * TickUs = (r - e) * TickUs /\ r - e \in 1 - TickRate .. TickRate - 1
      BY <1>0, <1>2
    <2>4. (s - q) * TickRate + (r - e) + nticks = d
      <3>1. (s - q) * TickRate = s * TickRate - q * TickRate
            /\ s * TickRate \in Int /\ q * TickRate \in Int
        BY <1>0, <1>2
      <3> QED  BY <1>0, <1>2, <3>1
    <2> QED  BY <1>0, <1>7, <1>9, <1>10, <2>2, <2>3, <2>4 DEF WallInv
  <1>11. CASE ~ (nticks * TickUs < Wide)
    BY <1>0, <1>7, <1>9, <1>11 DEF WallInv
  <1> QED  BY <1>10, <1>11

LEMMA WallIsRight == AlarmInv /\ WallInv => TimeOfDayGoesOn
PROOF
  <1> SUFFICES ASSUME AlarmInv, WallInv, wall # -1
               PROVE  GetTimeOfDay = [sec |-> wall \div TickRate, usec |-> (wall % TickRate) * TickUs]
    BY DEF TimeOfDayGoesOn, TickUs
  <1>0. /\ nticks \in Nat /\ wall \in Nat /\ resettime.sec \in Int
        /\ TickRate \in Nat \ {0} /\ TickUs \in Nat \ {0} /\ Us \in Nat \ {0} /\ Us = TickRate * TickUs
    <2>1. nticks \in Nat
      BY ClockAssumption DEF AlarmInv
    <2>2. wall \in -1 .. MaxWall /\ resettime \in [sec : Int, usec : Int]
      BY DEF WallInv
    <2>3. wall \in Nat /\ resettime.sec \in Int
      BY <2>2, ClockAssumption
    <2> QED  BY <2>1, <2>3, ClockAssumption, WholeTicks
  <1>1. PICK u \in 1 - TickRate .. TickRate - 1 :
          resettime.usec = u * TickUs /\ resettime.sec * TickRate + u + nticks = wall
    BY DEF WallInv
  <1> DEFINE q == nticks \div TickRate
             e == nticks % TickRate
  <1>3. /\ q \in Nat /\ e \in 0 .. TickRate - 1 /\ nticks = q * TickRate + e
        /\ (nticks * TickUs) % Us = e * TickUs
    <2>0. nticks \in Nat
      BY <1>0
    <2> QED  BY <2>0, LeftOver
  <1>2. GetTimeOfDay = Normal(resettime.sec + q, resettime.usec + ((nticks * TickUs) % Us))
    BY DEF GetTimeOfDay, TickUs
  <1> HIDE DEF q, e
  <1>4. PICK s \in Int, v \in 1 - TickRate .. 2 * TickRate - 2 : s = resettime.sec + q /\ v = u + e
    BY <1>0, <1>1, <1>3
  <1>5. GetTimeOfDay = Normal(s, v * TickUs)
    <2>1. u * TickUs + e * TickUs = (u + e) * TickUs
      BY <1>0, <1>1, <1>3
    <2> QED  BY <1>1, <1>2, <1>3, <1>4, <2>1
  <1>6. s * TickRate + v = wall
    <2>1. /\ (resettime.sec + q) * TickRate = resettime.sec * TickRate + q * TickRate
          /\ resettime.sec * TickRate \in Int /\ q * TickRate \in Int
      BY <1>0, <1>3
    <2> QED  BY <1>0, <1>1, <1>3, <1>4, <2>1
  <1>7. /\ v * TickUs >= Us <=> v >= TickRate
        /\ v * TickUs >= 0 <=> v >= 0
        /\ v * TickUs \in Int
    <2>1. 0 * TickUs = 0 /\ v \in Int /\ TickRate \in Int
      BY <1>0
    <2>2. v * TickUs >= TickRate * TickUs <=> v >= TickRate
      BY <1>0, <2>1, Scales
    <2>3. v * TickUs >= 0 * TickUs <=> v >= 0
      BY <1>0, <2>1, Scales
    <2> QED  BY <1>0, <2>1, <2>2, <2>3, Scales
  <1>8. CASE v >= TickRate
    <2>1. Normal(s, v * TickUs) = [sec |-> s + 1, usec |-> v * TickUs - Us]
      BY <1>7, <1>8 DEF Normal
    <2>2. wall = (s + 1) * TickRate + (v - TickRate) /\ s + 1 \in Int /\ v - TickRate \in 0 .. TickRate - 1
      BY <1>0, <1>4, <1>6, <1>8
    <2>3. wall \div TickRate = s + 1 /\ wall % TickRate = v - TickRate
      <3>1. PICK z \in Int, y \in 0 .. TickRate - 1 : z = s + 1 /\ y = v - TickRate
        BY <2>2
      <3>2. wall = z * TickRate + y
        BY <2>2, <3>1
      <3>3. wall \div TickRate = z /\ wall % TickRate = y
        BY <1>0, <3>2, EuclidUnique
      <3> QED  BY <3>1, <3>3
    <2>4. (v - TickRate) * TickUs = v * TickUs - Us
      BY <1>0, <1>4
    <2> QED  BY <1>5, <2>1, <2>3, <2>4
  <1>9. CASE v < TickRate /\ v >= 0
    <2>1. Normal(s, v * TickUs) = [sec |-> s, usec |-> v * TickUs]
      BY <1>0, <1>7, <1>9 DEF Normal
    <2>2. wall \div TickRate = s /\ wall % TickRate = v
      BY <1>0, <1>6, <1>9, EuclidUnique
    <2> QED  BY <1>5, <2>1, <2>2
  <1>10. CASE v < 0
    <2>1. s >= 1
      <3>1. CASE s <= 0
        <4>1. 0 * TickRate >= s * TickRate /\ s * TickRate \in Int
          BY <1>0, <3>1, Scales
        <4> QED  BY <1>0, <1>6, <1>10, <4>1
      <3> QED  BY <3>1
    <2>2. Normal(s, v * TickUs) = [sec |-> s - 1, usec |-> v * TickUs + Us]
      BY <1>0, <1>7, <1>10, <2>1 DEF Normal
    <2>3. wall = (s - 1) * TickRate + (v + TickRate) /\ s - 1 \in Int /\ v + TickRate \in 0 .. TickRate - 1
      BY <1>0, <1>4, <1>6, <1>10
    <2>4. wall \div TickRate = s - 1 /\ wall % TickRate = v + TickRate
      <3>1. PICK z \in Int, y \in 0 .. TickRate - 1 : z = s - 1 /\ y = v + TickRate
        BY <2>3
      <3>2. wall = z * TickRate + y
        BY <2>3, <3>1
      <3>3. wall \div TickRate = z /\ wall % TickRate = y
        BY <1>0, <3>2, EuclidUnique
      <3> QED  BY <3>1, <3>3
    <2>5. (v + TickRate) * TickUs = v * TickUs + Us
      BY <1>0, <1>4
    <2> QED  BY <1>5, <2>2, <2>4, <2>5
  <1> QED  BY <1>0, <1>8, <1>9, <1>10

-----------------------------------------------------------------------------

(* What a delay was asked for is what it has slept and what it has to go. *)
DelayTold ==
    /\ delay.asked \in Asked /\ delay.ticks \in Nat /\ delay.loops \in Nat /\ slept \in Nat
    /\ slept + delay.ticks + delay.loops * Loop
         = IF Refused(delay.asked) THEN 0 ELSE AskedTicks(delay.asked)

(* A busy wait's microseconds are those of its big loops and the rest. *)
BusyTold ==
    /\ busy.asked \in BusyUs /\ busy.big \in Nat /\ slept \in Nat
    /\ busy.big <= busy.asked \div UsPerBigLoop
    /\ \/ /\ busy.us = busy.big * UsPerBigLoop + (busy.asked % UsPerBigLoop)
          /\ slept = (busy.asked \div UsPerBigLoop - busy.big) * IntMax
       \/ busy.us = -1 /\ busy.big = 0 /\ BusyWaitIsLongEnough

DelayInv ==
    /\ delay \in [asked : {<<>>} \cup Asked, ticks : Nat, loops : Nat]
    /\ busy \in [asked : {-1} \cup BusyUs, big : Nat, us : {-1} \cup Nat]
    /\ delay = NoDelay \/ busy = NotBusy
    /\ delay = NoDelay /\ busy = NotBusy => slept = 0
    /\ delay # NoDelay => DelayTold
    /\ busy # NotBusy => BusyTold

LEMMA Given ==
    /\ BusyUs \subseteq Nat
    /\ Wide \in Nat \ {0} /\ LoopsPerUs \in Nat \ {0}
PROOF BY ClockAssumption

LEMMA GivenDelay ==
    ASSUME NEW h \in Asked
    PROVE  /\ h[1] \in Nat /\ h[2] \in Nat /\ h[3] \in Nat /\ h[4] \in Nat
           /\ h # <<>>
PROOF
  <1>1. Asked \subseteq [1 .. 4 -> Nat]
    BY ClockAssumption
  <1>2. h[1] \in Nat /\ h[2] \in Nat /\ h[3] \in Nat /\ h[4] \in Nat
    BY <1>1
  <1>3. h # <<>>
    <2>1. DOMAIN h = 1 .. 4 /\ DOMAIN <<>> = {}
      BY <1>1
    <2>2. 1 \in 1 .. 4
      OBVIOUS
    <2> QED  BY <2>1, <2>2
  <1> QED  BY <1>2, <1>3, Zenon

LEMMA DelayIsTold ==
    ASSUME DelayInv, NEW h, OSTimeDlyHMSM(h), h \in Asked
    PROVE  DelayInv'
PROOF
  <1>1. /\ delay = NoDelay /\ busy = NotBusy /\ busy' = busy /\ slept' = 0
        /\ delay' = IF Refused(h) THEN [NoDelay EXCEPT !.asked = h]
                    ELSE [asked |-> h, ticks |-> AskedTicks(h) % 65536,
                          loops |-> 2 * (AskedTicks(h) \div 65536)]
    BY DEF OSTimeDlyHMSM
  <1>2. PICK n \in Nat : n = AskedTicks(h)
    <2>1. h[1] \in Nat /\ h[2] \in Nat /\ h[3] \in Nat /\ h[4] \in Nat
      BY GivenDelay
    <2> QED  BY <2>1 DEF AskedTicks
  <1>3. n % 65536 \in Nat /\ 2 * (n \div 65536) \in Nat /\ (n % 65536) + (2 * (n \div 65536)) * 32768 = n
    BY <1>2
  <1>4. CASE Refused(h)
    <2>1. delay' = [asked |-> h, ticks |-> 0, loops |-> 0]
      BY <1>1, <1>4 DEF NoDelay
    <2>2. delay'.asked = h /\ delay'.ticks = 0 /\ delay'.loops = 0
      BY <2>1
    <2>3. DelayTold'
      BY <1>1, <1>4, <2>2 DEF DelayTold, Loop
    <2>4. delay' \in [asked : {<<>>} \cup Asked, ticks : Nat, loops : Nat]
      BY <2>1
    <2>5. slept' = 0
      BY <1>1
    <2> QED  BY <1>1, <2>3, <2>4, <2>5 DEF DelayInv
  <1>5. CASE ~ Refused(h)
    <2>1. delay' = [asked |-> h, ticks |-> n % 65536, loops |-> 2 * (n \div 65536)]
      BY <1>1, <1>2, <1>5
    <2>2. delay'.asked = h /\ delay'.ticks = n % 65536 /\ delay'.loops = 2 * (n \div 65536)
      BY <2>1
    <2>3. DelayTold'
      BY <1>1, <1>2, <1>3, <1>5, <2>2 DEF DelayTold, Loop
    <2>4. delay' \in [asked : {<<>>} \cup Asked, ticks : Nat, loops : Nat]
      BY <1>3, <2>1
    <2> QED  BY <1>1, <2>3, <2>4 DEF DelayInv
  <1> QED  BY <1>4, <1>5

LEMMA DelayGoesOn ==
    ASSUME DelayInv, DelayPart
    PROVE  DelayInv'
PROOF
  <1>1. delay # NoDelay /\ DelayTold /\ busy = NotBusy
    BY DEF DelayPart, DelayInv, NoDelay
  <1>2. delay \in [asked : {<<>>} \cup Asked, ticks : Nat, loops : Nat] /\ busy' = busy
    BY DEF DelayPart, DelayInv
  <1>3. CASE delay.ticks > 0
    <2>1. slept' = slept + delay.ticks /\ delay' = [delay EXCEPT !.ticks = 0]
      BY <1>3 DEF DelayPart
    <2>2. /\ delay'.asked = delay.asked /\ delay'.ticks = 0 /\ delay'.loops = delay.loops
          /\ delay' \in [asked : {<<>>} \cup Asked, ticks : Nat, loops : Nat]
      BY <1>2, <2>1
    <2>3. DelayTold'
      BY <1>1, <2>1, <2>2 DEF DelayTold, Loop
    <2>4. delay'.asked # <<>>
      BY <1>1, <2>2, GivenDelay DEF DelayTold
    <2> QED  BY <1>1, <1>2, <2>2, <2>3, <2>4 DEF DelayInv, NoDelay
  <1>4. CASE ~ (delay.ticks > 0)
    <2>1. delay.loops > 0 /\ slept' = slept + Loop /\ delay' = [delay EXCEPT !.loops = delay.loops - 1]
      BY <1>4 DEF DelayPart
    <2>2. /\ delay'.asked = delay.asked /\ delay'.ticks = delay.ticks
          /\ delay'.loops = delay.loops - 1 /\ delay.loops - 1 \in Nat
          /\ delay' \in [asked : {<<>>} \cup Asked, ticks : Nat, loops : Nat]
      BY <1>2, <2>1
    <2>3. DelayTold'
      <3>1. PICK l \in Nat, k \in Nat : l = delay.loops /\ k = l - 1
        BY <1>2, <2>2
      <3>2. k * 32768 + 32768 = l * 32768
        BY <3>1
      <3>3. PICK x : x = IF Refused(delay.asked) THEN 0 ELSE AskedTicks(delay.asked)
        OBVIOUS
      <3>4. slept + delay.ticks + l * 32768 = x /\ slept \in Nat /\ delay.ticks \in Nat /\ delay.asked \in Asked
        BY <1>1, <3>1, <3>3 DEF DelayTold, Loop
      <3>5. slept' = slept + 32768 /\ delay'.ticks = delay.ticks /\ delay'.loops = k /\ delay'.asked = delay.asked
        BY <2>1, <2>2, <3>1 DEF Loop
      <3>6. slept' + delay'.ticks + delay'.loops * 32768 = x /\ slept' \in Nat
        BY <3>1, <3>2, <3>4, <3>5
      <3> QED  BY <3>1, <3>3, <3>4, <3>5, <3>6 DEF DelayTold, Loop
    <2>4. delay'.asked # <<>>
      BY <1>1, <2>2, GivenDelay DEF DelayTold
    <2> QED  BY <1>1, <1>2, <2>2, <2>3, <2>4 DEF DelayInv, NoDelay
  <1> QED  BY <1>3, <1>4

(* A big loop takes whole microseconds and less than one more. *)
LEMMA BigLoops ==
    /\ IntMax \in Nat \ {0} /\ UsPerBigLoop \in Nat \ {0}
    /\ UsPerBigLoop * LoopsPerUs <= IntMax
    /\ IntMax <= UsPerBigLoop * LoopsPerUs + (LoopsPerUs - 1)
PROOF
  <1>1. Wide \in Nat \ {0} /\ LoopsPerUs \in Nat \ {0} /\ LoopsPerUs < Wide \div 2
    BY ClockAssumption
  <1>2. IntMax \in Nat \ {0} /\ LoopsPerUs <= IntMax
    BY <1>1 DEF IntMax
  <1>3. PICK q, r : q = IntMax \div LoopsPerUs /\ r = IntMax % LoopsPerUs
    OBVIOUS
  <1>4. q \in Int /\ r \in 0 .. LoopsPerUs - 1 /\ IntMax = q * LoopsPerUs + r
    BY <1>1, <1>2, <1>3
  <1>5. q >= 1
    <2>1. CASE q <= 0
      <3>1. 0 * LoopsPerUs >= q * LoopsPerUs /\ q * LoopsPerUs \in Int /\ 0 * LoopsPerUs = 0
        BY <1>1, <1>4, <2>1, Scales
      <3> QED  BY <1>1, <1>2, <1>4, <3>1
    <2> QED  BY <1>4, <2>1
  <1>6. UsPerBigLoop = q
    BY <1>3 DEF UsPerBigLoop
  <1>7. q * LoopsPerUs \in Int
    BY <1>1, <1>4
  <1> QED  BY <1>1, <1>2, <1>4, <1>5, <1>6, <1>7

LEMMA BusyIsTold ==
    ASSUME DelayInv, NEW us \in BusyUs, alt_busy_sleep(us)
    PROVE  DelayInv'
PROOF
  <1>1. /\ delay = NoDelay /\ busy = NotBusy /\ delay' = delay /\ slept' = slept /\ slept = 0
        /\ busy' = [asked |-> us, big |-> us \div UsPerBigLoop, us |-> us]
    BY DEF alt_busy_sleep, DelayInv
  <1>2. UsPerBigLoop \in Nat \ {0} /\ us \in Nat
    BY BigLoops, Given
  <1>3. PICK b, r : b = us \div UsPerBigLoop /\ r = us % UsPerBigLoop
    OBVIOUS
  <1>4. b \in Int /\ r \in 0 .. UsPerBigLoop - 1 /\ us = b * UsPerBigLoop + r
    BY <1>2, <1>3
  <1>5. b \in Nat
    <2>1. CASE b <= -1
      <3>1. (-1) * UsPerBigLoop >= b * UsPerBigLoop /\ b * UsPerBigLoop \in Int
        BY <1>2, <1>4, <2>1, Scales
      <3> QED  BY <1>2, <1>4, <3>1
    <2> QED  BY <1>4, <2>1
  <1>6. busy' = [asked |-> us, big |-> b, us |-> us]
    BY <1>1, <1>3
  <1>7. busy'.asked = us /\ busy'.big = b /\ busy'.us = us
    BY <1>6
  <1>8. IntMax \in Nat /\ (b - b) * IntMax = 0
    BY <1>5, BigLoops
  <1>9. BusyTold'
    BY <1>1, <1>2, <1>3, <1>4, <1>5, <1>7, <1>8 DEF BusyTold
  <1>10. busy' \in [asked : {-1} \cup BusyUs, big : Nat, us : {-1} \cup Nat]
    BY <1>2, <1>5, <1>6
  <1>11. busy' # NotBusy
    BY <1>2, <1>7 DEF NotBusy
  <1> QED  BY <1>1, <1>9, <1>10, <1>11 DEF DelayInv

LEMMA BigLoopGoesOn ==
    ASSUME DelayInv, BigLoop
    PROVE  DelayInv'
PROOF
  <1>1. /\ busy \in [asked : {-1} \cup BusyUs, big : Nat, us : {-1} \cup Nat]
        /\ busy.big > 0 /\ busy # NotBusy /\ BusyTold /\ delay = NoDelay
    BY DEF BigLoop, DelayInv, NotBusy
  <1>2. /\ busy' = [busy EXCEPT !.big = busy.big - 1, !.us = busy.us - UsPerBigLoop]
        /\ slept' = slept + IntMax /\ delay' = delay
    BY DEF BigLoop
  <1>3. /\ busy'.asked = busy.asked /\ busy'.big = busy.big - 1 /\ busy'.us = busy.us - UsPerBigLoop
        /\ busy' = [asked |-> busy.asked, big |-> busy.big - 1, us |-> busy.us - UsPerBigLoop]
    BY <1>1, <1>2
  <1>4. PICK b \in Nat, q \in Int, p \in Nat \ {0}, r \in Nat, m \in Nat \ {0} :
           /\ b = busy.big - 1 /\ q = busy.asked \div UsPerBigLoop /\ p = UsPerBigLoop
           /\ r = busy.asked % UsPerBigLoop /\ m = IntMax
    <2>1. busy.asked \in Nat /\ busy.big - 1 \in Nat
      <3>1. busy.asked \in Nat
        BY <1>1, Given DEF BusyTold
      <3>2. busy.big - 1 \in Nat
        BY <1>1
      <3> QED  BY <3>1, <3>2
    <2>2. /\ busy.asked \div UsPerBigLoop \in Int /\ busy.asked % UsPerBigLoop \in Nat
      BY <2>1, BigLoops
    <2> QED  BY <2>1, <2>2, BigLoops
  <1>5. /\ busy.us = (b + 1) * p + r /\ slept = (q - (b + 1)) * m /\ b + 1 <= q
    <2>1. busy.big = b + 1
      BY <1>1, <1>4
    <2> QED  BY <1>1, <1>4, <2>1 DEF BusyTold
  <1>6. busy'.us = b * p + r /\ slept' = (q - b) * m
    <2>1. (b + 1) * p = b * p + p /\ b * p \in Int
      BY <1>4
    <2>2. (q - (b + 1)) * m + m = (q - b) * m
      BY <1>4
    <2> QED  BY <1>2, <1>3, <1>4, <1>5, <2>1, <2>2
  <1>7. b * p + r \in Nat /\ (q - b) * m \in Nat
    BY <1>4, <1>5
  <1>8. BusyTold'
    <2>1. busy'.asked \in BusyUs /\ busy'.big \in Nat /\ slept' \in Nat
      BY <1>1, <1>3, <1>4, <1>6, <1>7 DEF BusyTold
    <2>2. busy'.big <= busy'.asked \div UsPerBigLoop
      <3>1. b <= q
        BY <1>4, <1>5
      <3> QED  BY <1>3, <1>4, <3>1
    <2>3. /\ busy'.us = busy'.big * UsPerBigLoop + (busy'.asked % UsPerBigLoop)
          /\ slept' = (busy'.asked \div UsPerBigLoop - busy'.big) * IntMax
      <3>1. busy'.big = b /\ busy'.asked \div UsPerBigLoop = q /\ busy'.asked % UsPerBigLoop = r
        BY <1>3, <1>4
      <3> QED  BY <1>4, <1>6, <3>1
    <2> QED  BY <2>1, <2>2, <2>3 DEF BusyTold
  <1>9. busy' \in [asked : {-1} \cup BusyUs, big : Nat, us : {-1} \cup Nat]
    BY <1>1, <1>3, <1>4, <1>6, <1>7
  <1>10. busy' # NotBusy
    <2>1. busy'.asked \in Nat
      BY <1>1, <1>3, Given DEF BusyTold
    <2> QED  BY <2>1 DEF NotBusy
  <1> QED  BY <1>1, <1>2, <1>8, <1>9, <1>10 DEF DelayInv

LEMMA BusyEnds ==
    ASSUME DelayInv, RestOfLoop
    PROVE  DelayInv'
PROOF
  <1>1. /\ busy \in [asked : {-1} \cup BusyUs, big : Nat, us : {-1} \cup Nat]
        /\ busy.big = 0 /\ busy.us >= 0 /\ busy # NotBusy /\ BusyTold /\ delay = NoDelay
    BY DEF RestOfLoop, DelayInv, NotBusy
  <1>2. /\ busy' = [busy EXCEPT !.us = -1] /\ delay' = delay
        /\ slept' = slept + (IF busy.us * LoopsPerUs > 0 THEN busy.us * LoopsPerUs
                             ELSE IF busy.asked > 0 THEN Wide ELSE 1)
    BY DEF RestOfLoop
  <1>3. busy'.asked = busy.asked /\ busy'.big = busy.big /\ busy'.us = -1
    BY <1>1, <1>2
  <1>4. PICK a \in Nat, q \in Int, p \in Nat \ {0}, r \in Nat, m \in Nat \ {0}, l \in Nat \ {0} :
           /\ a = busy.asked /\ q = busy.asked \div UsPerBigLoop /\ p = UsPerBigLoop
           /\ r = busy.asked % UsPerBigLoop /\ m = IntMax /\ l = LoopsPerUs
    <2>1. busy.asked \in Nat /\ LoopsPerUs \in Nat \ {0}
      BY <1>1, Given DEF BusyTold
    <2>2. /\ busy.asked \div UsPerBigLoop \in Int /\ busy.asked % UsPerBigLoop \in Nat
      BY <2>1, BigLoops
    <2> QED  BY <2>1, <2>2, BigLoops
  <1>5. busy.us = r /\ slept = q * m /\ 0 <= q /\ q * m \in Nat
    <2>1. busy.us = 0 * p + r /\ slept = (q - 0) * m /\ 0 <= q
      BY <1>1, <1>4 DEF BusyTold
    <2> QED  BY <1>4, <2>1
  <1>6. a = q * p + r
    <2>1. /\ busy.asked = (busy.asked \div UsPerBigLoop) * UsPerBigLoop + (busy.asked % UsPerBigLoop)
      <3>1. busy.asked \in Nat /\ UsPerBigLoop \in Nat \ {0}
        BY <1>1, Given, BigLoops DEF BusyTold
      <3> QED  BY <3>1
    <2> QED  BY <1>4, <2>1
  <1>7. p * l <= m /\ m <= p * l + (l - 1)
    BY <1>4, BigLoops
  <1>8. /\ (q * p) * l <= q * m /\ q * m <= (q * p) * l + q * (l - 1)
        /\ (q * p) * l \in Int /\ q * m \in Int /\ q * (l - 1) \in Int
    <2>1. q * m >= q * (p * l)
      <3>1. PICK d \in Nat : m = p * l + d
        BY <1>4, <1>7
      <3>2. q * m = q * (p * l) + q * d /\ q * d >= 0 /\ q * (p * l) \in Int /\ q * d \in Int
        BY <1>4, <1>5, <3>1
      <3> QED  BY <3>2
    <2>2. q * m <= q * (p * l) + q * (l - 1)
      <3>1. PICK d \in Nat : p * l + (l - 1) = m + d
        BY <1>4, <1>7
      <3>2. q * (p * l + (l - 1)) = q * m + q * d /\ q * d >= 0 /\ q * m \in Int /\ q * d \in Int
        BY <1>4, <1>5, <3>1
      <3>3. q * (p * l + (l - 1)) = q * (p * l) + q * (l - 1)
        BY <1>4
      <3> QED  BY <3>2, <3>3
    <2>3. (q * p) * l = q * (p * l)
      BY <1>4
    <2> QED  BY <1>4, <2>1, <2>2, <2>3
  <1>9. a * l = (q * p) * l + r * l /\ r * l \in Nat /\ (r * l > 0 <=> r > 0)
    <2>1. (q * p + r) * l = (q * p) * l + r * l
      BY <1>4
    <2>2. r * l \in Nat
      BY <1>4
    <2>3. r > 0 => r * l > 0
      BY <1>4
    <2>4. r = 0 => r * l = 0
      BY <1>4
    <2>5. a * l = (q * p + r) * l
      BY <1>6
    <2>6. r * l > 0 <=> r > 0
      BY <1>4, <2>3, <2>4
    <2> QED  BY <2>1, <2>2, <2>5, <2>6
  <1>10. PICK s \in Nat : s = slept' /\ s = q * m + (IF r * l > 0 THEN r * l ELSE IF a > 0 THEN Wide ELSE 1)
    <2>1. slept' = q * m + (IF r * l > 0 THEN r * l ELSE IF a > 0 THEN Wide ELSE 1)
      BY <1>2, <1>4, <1>5
    <2>2. PICK x \in Nat : x = IF r * l > 0 THEN r * l ELSE IF a > 0 THEN Wide ELSE 1
      BY <1>9, Given
    <2>3. slept' = q * m + x /\ q * m + x \in Nat
      <3>1. PICK y \in Nat : y = q * m
        BY <1>5
      <3>2. slept' = y + x
        BY <2>1, <2>2, <3>1, Zenon
      <3>3. y + x \in Nat
        OBVIOUS
      <3> QED  BY <3>1, <3>2, <3>3, Zenon
    <2> QED  BY <2>1, <2>3
  <1>11. BusyWaitIsLongEnough'
    <2>a. PICK al \in Int : al = a * l
      BY <1>4
    <2>b. PICK qpl \in Int : qpl = (q * p) * l
      BY <1>8
    <2>c. PICK qm \in Int : qm = q * m
      BY <1>8
    <2>d. PICK ql \in Int : ql = q * (l - 1)
      BY <1>8
    <2>e. PICK rl \in Int : rl = r * l
      BY <1>9
    <2>0. al = a * l /\ qpl = (q * p) * l /\ qm = q * m /\ ql = q * (l - 1) /\ rl = r * l
      BY <2>a, <2>b, <2>c, <2>d, <2>e
    <2>1. s >= a * l
      <3>1. /\ al = qpl + rl /\ rl >= 0 /\ qpl <= qm
            /\ s = qm + (IF rl > 0 THEN rl ELSE IF a > 0 THEN Wide ELSE 1)
        BY <1>8, <1>9, <1>10, <2>0
      <3>2. s >= al
        BY <2>0, <3>1, Given
      <3> QED  BY <2>0, <3>2
    <2>2. s <= a * l + 1 + q * (l - 1) \/ r = 0
      <3>1. /\ al = qpl + rl /\ (rl > 0 <=> r > 0) /\ qm <= qpl + ql
            /\ s = qm + (IF rl > 0 THEN rl ELSE IF a > 0 THEN Wide ELSE 1)
        BY <1>8, <1>9, <1>10, <2>0
      <3>2. s <= al + 1 + ql \/ r = 0
        BY <1>4, <2>0, <3>1
      <3> QED  BY <2>0, <3>2
    <2>3. BusyWaitIsLongEnough' <=> s >= a * l /\ (s <= a * l + 1 + q * (l - 1) \/ r = 0)
      BY <1>3, <1>4, <1>10 DEF BusyWaitIsLongEnough
    <2> QED  BY <2>1, <2>2, <2>3
  <1>12. BusyTold'
    <2>1. busy'.asked \in BusyUs /\ busy'.big \in Nat /\ slept' \in Nat
      BY <1>1, <1>3, <1>10 DEF BusyTold
    <2>2. busy'.big <= busy'.asked \div UsPerBigLoop
      BY <1>1, <1>3, <1>4, <1>5
    <2> QED  BY <1>1, <1>3, <1>11, <2>1, <2>2 DEF BusyTold
  <1>13. busy' \in [asked : {-1} \cup BusyUs, big : Nat, us : {-1} \cup Nat]
    BY <1>1, <1>2
  <1>14. busy' # NotBusy
    BY <1>3, <1>4 DEF NotBusy
  <1> QED  BY <1>1, <1>2, <1>12, <1>13, <1>14 DEF DelayInv

-----------------------------------------------------------------------------

ClockInv == AlarmInv /\ WallInv /\ DelayInv

LEMMA ClockStarts == ClockInit => ClockInv
PROOF
  <1> SUFFICES ASSUME ClockInit PROVE ClockInv
    OBVIOUS
  <1>0. Wide \in Nat \ {0} /\ TickRate \in Nat \ {0} /\ MaxWall \in Nat /\ TickUs \in Nat \ {0}
    BY Given, ClockAssumption, WholeTicks
  <1>1. AlarmInv
    BY <1>0 DEF ClockInit, AlarmInv, Set, Off
  <1>2. WallInv
    <2>1. 0 * TickUs = 0 /\ 0 * TickRate = 0 /\ 0 \in 1 - TickRate .. TickRate - 1
      BY <1>0
    <2>2. resettime = [sec |-> 0, usec |-> 0] /\ wall = 0 /\ nticks = 0
      BY DEF ClockInit
    <2>3. resettime.sec = 0 /\ resettime.usec = 0 /\ resettime \in [sec : Int, usec : Int]
      BY <2>2
    <2>4. resettime.usec = 0 * TickUs /\ resettime.sec * TickRate + 0 + nticks = wall
      BY <2>1, <2>2, <2>3
    <2> QED  BY <1>0, <2>1, <2>2, <2>3, <2>4 DEF WallInv
  <1>3. DelayInv
    BY DEF ClockInit, DelayInv, NoDelay, NotBusy
  <1> QED  BY <1>1, <1>2, <1>3 DEF ClockInv

LEMMA ClockSteps ==
    ASSUME ClockInv, Wide - 1 \notin Period, AlarmsNext \/ WallNext \/ DelayNext \/ UNCHANGED clockVars
    PROVE  ClockInv'
PROOF
  <1>0. AlarmInv /\ WallInv /\ DelayInv
    BY DEF ClockInv
  <1>1. ASSUME UNCHANGED <<nticks, alarmVars>>
        PROVE  AlarmInv'
    BY <1>0, <1>1 DEF alarmVars, AlarmInv, Set
  <1>2. ASSUME UNCHANGED <<nticks, wallVars>>
        PROVE  WallInv'
    BY <1>0, <1>2 DEF wallVars, WallInv
  <1>3. ASSUME UNCHANGED delayVars
        PROVE  DelayInv'
    BY <1>0, <1>3 DEF delayVars, DelayInv, DelayTold, BusyTold, BusyWaitIsLongEnough
  <1>4. CASE Tick
    <2>1. UNCHANGED delayVars
      BY <1>4 DEF Tick
    <2> QED  BY <1>0, <1>3, <1>4, <2>1, AlarmsTick, WallTicks DEF ClockInv
  <1>5. ASSUME NEW a \in Alarm, AlarmStop(a)
        PROVE  ClockInv'
    <2>1. UNCHANGED <<nticks, wallVars>> /\ UNCHANGED delayVars
      BY <1>5 DEF AlarmStop
    <2> QED  BY <1>0, <1>2, <1>3, <1>5, <2>1, AlarmStops DEF ClockInv
  <1>6. ASSUME NEW a \in Alarm, NEW n \in Period, AlarmStart(a, n)
        PROVE  ClockInv'
    <2>1. UNCHANGED <<nticks, wallVars>> /\ UNCHANGED delayVars
      BY <1>6 DEF AlarmStart
    <2> QED  BY <1>0, <1>2, <1>3, <1>6, <2>1, AlarmStarts DEF ClockInv
  <1>7. ASSUME NEW d \in Days, SetTimeOfDay(d)
        PROVE  ClockInv'
    <2>1. UNCHANGED <<nticks, alarmVars>> /\ UNCHANGED delayVars
      BY <1>7 DEF SetTimeOfDay
    <2> QED  BY <1>0, <1>1, <1>3, <1>7, <2>1, WallIsSet DEF ClockInv
  <1>8. CASE DelayNext
    <2>1. UNCHANGED <<nticks, alarmVars>> /\ UNCHANGED <<nticks, wallVars>>
      BY <1>8 DEF DelayNext, DelayPart, OSTimeDlyHMSM, BigLoop, RestOfLoop, alt_busy_sleep
    <2>2. DelayInv'
      BY <1>0, <1>8, DelayIsTold, DelayGoesOn, BusyIsTold, BigLoopGoesOn, BusyEnds DEF DelayNext
    <2> QED  BY <1>1, <1>2, <2>1, <2>2 DEF ClockInv
  <1>9. CASE UNCHANGED clockVars
    <2>1. UNCHANGED <<nticks, alarmVars>> /\ UNCHANGED <<nticks, wallVars>> /\ UNCHANGED delayVars
      BY <1>9 DEF clockVars
    <2> QED  BY <1>1, <1>2, <1>3, <2>1 DEF ClockInv
  <1> QED  BY <1>4, <1>5, <1>6, <1>7, <1>8, <1>9 DEF AlarmsNext, WallNext

LEMMA ClockHoldsInv == ClockInv => ClockHolds
PROOF
  <1> SUFFICES ASSUME AlarmInv, WallInv, DelayInv
               PROVE  ClockHolds
    BY DEF ClockInv
  <1>0. Wide \in Nat \ {0}
    BY Given
  <1>1. AlarmsOnTime
    <2> SUFFICES ASSUME NEW a \in Alarm
                 PROVE  /\ due[a] # 0
                        /\ alarm[a].on <=> due[a] > 0
                        /\ alarm[a].on => (alarm[a].time - nticks) % Wide = due[a] % Wide
                        /\ a \in ran /\ alarm[a].on => due[a] \in Period
      BY DEF AlarmsOnTime
    <2>1. Set(a) /\ alarm[a] \in [on : BOOLEAN, time : 0 .. Wide - 1, rollover : BOOLEAN]
          /\ nticks \in 0 .. Wide - 1 /\ due[a] \in Int
      BY DEF AlarmInv
    <2>2. CASE alarm[a].on
      <3>1. due[a] \in 1 .. Wide - 1
        BY <2>1, <2>2 DEF Set
      <3>2. due[a] % Wide = due[a]
        BY <1>0, <3>1, Wraps
      <3>3. (alarm[a].time - nticks) % Wide = due[a]
        <4>1. CASE alarm[a].rollover
          <5>1. PICK x \in Int : x = alarm[a].time - nticks /\ x = (-1) * Wide + due[a]
            BY <1>0, <2>1, <2>2, <4>1 DEF Set
          <5>2. -1 \in Int /\ due[a] \in 0 .. Wide - 1
            BY <1>0, <3>1
          <5>3. x % Wide = due[a]
            BY <1>0, <5>1, <5>2, EuclidUnique
          <5> QED  BY <5>1, <5>3
        <4>2. CASE ~ alarm[a].rollover
          <5>1. alarm[a].time - nticks = due[a]
            BY <1>0, <2>1, <2>2, <4>2 DEF Set
          <5> QED  BY <3>2, <5>1
        <4> QED  BY <4>1, <4>2
      <3> QED  BY <1>0, <2>1, <2>2, <3>1, <3>2, <3>3 DEF Set
    <2>3. CASE ~ alarm[a].on
      BY <2>1, <2>3 DEF Set
    <2> QED  BY <2>2, <2>3
  <1>2. TimeOfDayGoesOn
    BY WallIsRight
  <1>3. DelayIsWhole
    <2> SUFFICES ASSUME delay.asked # <<>>, delay.ticks = 0, delay.loops = 0
                 PROVE  slept = IF Refused(delay.asked) THEN 0 ELSE AskedTicks(delay.asked)
      BY DEF DelayIsWhole
    <2>1. DelayTold
      BY DEF DelayInv, NoDelay
    <2> QED  BY <2>1 DEF DelayTold, Loop
  <1>4. BusyWaitIsLongEnough
    <2>1. CASE busy.us = -1 /\ busy.asked >= 0
      <3>1. BusyTold /\ busy.big \in Nat
        BY <2>1 DEF DelayInv, NotBusy
      <3>2. CASE busy.us = busy.big * UsPerBigLoop + (busy.asked % UsPerBigLoop)
        <4>1. busy.asked \in Nat /\ UsPerBigLoop \in Nat \ {0}
          BY <3>1, Given, BigLoops DEF BusyTold
        <4>2. busy.asked % UsPerBigLoop \in Nat /\ busy.big * UsPerBigLoop \in Nat
          BY <3>1, <4>1
        <4> QED  BY <2>1, <3>2, <4>2
      <3> QED  BY <3>1, <3>2 DEF BusyTold
    <2>2. CASE ~ (busy.us = -1 /\ busy.asked >= 0)
      BY <2>2 DEF BusyWaitIsLongEnough
    <2> QED  BY <2>1, <2>2
  <1> QED  BY <1>1, <1>2, <1>3, <1>4 DEF ClockHolds

-----------------------------------------------------------------------------
(* The console *)

Holding == {"snap", "copy", "kick", "wwait", "wpost"}
ConsolePc == {"idle", "wlock", "close", "rlock", "fetch", "rwait", "rpost", "rearm"} \cup Holding
Flags3 == {"READ_RDY", "WRITE_RDY", "TIMEOUT"}

ConsoleTypes ==
    /\ tx \in [in : Ring, out : Ring, buf : [Ring -> User \cup {Free}]]
    /\ rx \in [in : Ring, out : Ring]
    /\ irqEnable \in SUBSET {"RE", "WE"}
    /\ events \in SUBSET Flags3
    /\ lock \in [write : User \cup {Free}, read : User \cup {Free}]
    /\ host \in [tx : 0 .. Depth, rx : 0 .. Depth, inactive : Nat, ac : BOOLEAN, timeout : Nat]
    /\ con \in [User -> [pc : ConsolePc, left : Nat, in : Ring, out : Ring, got : BOOLEAN]]
    /\ owed \in Seq(User)

(* The place k places after place o of a ring, and how far i is after o. *)
Place(o, k) == IF o + k < BufLen THEN o + k ELSE o + k - BufLen
Dist(o, i) == IF o <= i THEN i - o ELSE i - o + BufLen

RingHolds ==
    /\ Dist(tx.out, tx.in) = Len(owed)
    /\ \A i \in 1 .. Len(owed) : tx.buf[Place(tx.out, i - 1)] = owed[i]

(* The writer has the lock; what it saw of the ring was no emptier than it  *)
(* is, and where there was no room it sleeps only if it misses nothing.     *)
WriterAlone ==
    \A t \in User : con[t].pc \in Holding =>
        /\ lock.write = t /\ t \in Printer
        /\ con[t].pc = "copy" => con[t].in = tx.in /\ Len(owed) <= Dist(con[t].out, tx.in)
        /\ con[t].pc = "wwait" \/ (con[t].pc = "kick" /\ con[t].left > 0) =>
             "WRITE_RDY" \in events \/ tx.out = con[t].out

SenderIsOn ==
    owed # <<>> => "WE" \in irqEnable \/ \E t \in Printer : con[t].pc \in {"snap", "copy", "kick"}

(* The reader turns the receiver on again once it has made room. *)
ReceiverIsOn ==
    /\ \/ "RE" \in irqEnable
       \/ rx.in # rx.out
       \/ con[Scanner].pc \in {"fetch", "rpost", "rearm"} /\ con[Scanner].got
    /\ con[Scanner].pc \in {"rlock", "fetch", "rwait"} /\ ~ con[Scanner].got => con[Scanner].left > 0
    /\ con[Scanner].pc = "rwait" => ~ con[Scanner].got /\ ("READ_RDY" \in events \/ rx.in = con[Scanner].in)
    /\ con[Scanner].pc = "rearm" => con[Scanner].got
    /\ con[Scanner].pc \in {"idle", "rlock"} => ~ con[Scanner].got

ConsoleInv == ConsoleTypes /\ RingHolds /\ WriterAlone /\ SenderIsOn /\ ReceiverIsOn

ConRecord == [pc : ConsolePc, left : Nat, in : Ring, out : Ring, got : BOOLEAN]

LEMMA ConsoleGiven ==
    /\ BufLen \in Nat /\ BufLen > 1 /\ Ring = 0 .. BufLen - 1
    /\ Depth \in Nat \ {0} /\ Timeout \in Nat /\ MaxInactive \in Nat
    /\ Scanner \in User /\ Scanner \notin Printer /\ Printer \subseteq User /\ Free \notin User
PROOF BY ConsoleAssumption DEF Ring, User, Free

LEMMA RemainderIs ==
    ASSUME NEW b \in Nat \ {0}, NEW r \in 0 .. b - 1
    PROVE  r % b = r /\ (r + b) % b = r /\ (r - b) % b = r
PROOF OBVIOUS

(* Places and distances, without the remainders of the code. *)
LEMMA PlaceIs ==
    ASSUME NEW o \in Ring, NEW k \in 0 .. BufLen
    PROVE  (o + k) % BufLen = Place(o, k) /\ Place(o, k) \in Ring
PROOF
  <1>0. BufLen \in Nat \ {0} /\ o \in 0 .. BufLen - 1 /\ Ring = 0 .. BufLen - 1
    BY ConsoleGiven
  <1>1. Place(o, k) \in 0 .. BufLen - 1 /\ (o + k = Place(o, k) \/ o + k = Place(o, k) + BufLen)
    BY <1>0 DEF Place
  <1> QED  BY <1>0, <1>1, RemainderIs

LEMMA DistIs ==
    ASSUME NEW o \in Ring, NEW i \in Ring
    PROVE  (i - o) % BufLen = Dist(o, i) /\ Dist(o, i) \in Ring
PROOF
  <1>0. BufLen \in Nat \ {0} /\ o \in 0 .. BufLen - 1 /\ i \in 0 .. BufLen - 1 /\ Ring = 0 .. BufLen - 1
    BY ConsoleGiven
  <1>1. Dist(o, i) \in 0 .. BufLen - 1 /\ (i - o = Dist(o, i) \/ i - o = Dist(o, i) - BufLen)
    BY <1>0 DEF Dist
  <1> QED  BY <1>0, <1>1, RemainderIs

(* The receiver's room is one less than the way from its end to its start. *)
LEMMA RoomIs ==
    ASSUME NEW o \in Ring, NEW i \in Ring
    PROVE  (o - i - 1) % BufLen = IF i = o THEN BufLen - 1 ELSE Dist(i, o) - 1
PROOF
  <1>0. BufLen \in Nat \ {0} /\ o \in 0 .. BufLen - 1 /\ i \in 0 .. BufLen - 1
    BY ConsoleGiven
  <1>1. PICK r : r = IF i = o THEN BufLen - 1 ELSE Dist(i, o) - 1
    OBVIOUS
  <1>2. r \in 0 .. BufLen - 1 /\ (o - i - 1 = r \/ o - i - 1 = r - BufLen)
    BY <1>0, <1>1 DEF Dist
  <1> QED  BY <1>0, <1>1, <1>2, RemainderIs

LEMMA RingWays ==
    ASSUME NEW o \in Ring, NEW i \in Ring
    PROVE  /\ \A n \in Nat : Dist(o, i) + n < BufLen =>
                 Dist(o, Place(i, n)) = Dist(o, i) + n /\ Place(i, n) = Place(o, Dist(o, i) + n)
           /\ \A w \in 0 .. Dist(o, i) : Dist(Place(o, w), i) = Dist(o, i) - w
           /\ Dist(o, i) = 0 <=> o = i
           /\ Place(o, 0) = o
PROOF
  <1>0. BufLen \in Nat \ {0} /\ o \in 0 .. BufLen - 1 /\ i \in 0 .. BufLen - 1
    BY ConsoleGiven
  <1> QED  BY <1>0 DEF Place, Dist

LEMMA PlacesAdd ==
    ASSUME NEW o \in Ring, NEW k \in Nat, NEW j \in Nat, k + j < BufLen
    PROVE  Place(Place(o, k), j) = Place(o, k + j)
PROOF
  <1>0. BufLen \in Nat \ {0} /\ o \in 0 .. BufLen - 1
    BY ConsoleGiven
  <1> QED  BY <1>0 DEF Place

LEMMA PlacesApart ==
    ASSUME NEW o \in Ring, NEW k \in 0 .. BufLen - 1, NEW j \in 0 .. BufLen - 1, k # j
    PROVE  Place(o, k) # Place(o, j)
PROOF
  <1>0. BufLen \in Nat \ {0} /\ o \in 0 .. BufLen - 1
    BY ConsoleGiven
  <1> QED  BY <1>0 DEF Place

-----------------------------------------------------------------------------
(* One task moves and the bytes stay as they are. *)
LEMMA TaskMoves ==
    ASSUME ConsoleInv, NEW t \in User, NEW r \in ConRecord, con' = [con EXCEPT ![t] = r],
           UNCHANGED <<tx, owed, host>>,
           rx' \in [in : Ring, out : Ring], events' \in SUBSET Flags3, irqEnable' \in SUBSET {"RE", "WE"},
           lock' \in [write : User \cup {Free}, read : User \cup {Free}],
           irqEnable \subseteq irqEnable',
           r.pc \in Holding => lock'.write = t /\ t \in Printer,
           r.pc = "copy" => r.in = tx.in /\ Len(owed) <= Dist(r.out, tx.in),
           r.pc = "wwait" \/ (r.pc = "kick" /\ r.left > 0) => "WRITE_RDY" \in events' \/ tx.out = r.out,
           con[t].pc \in {"snap", "copy", "kick"} => r.pc \in {"snap", "copy", "kick"} \/ "WE" \in irqEnable',
           \A u \in User \ {t} : con[u].pc \in Holding =>
              lock'.write = u /\ ("WRITE_RDY" \in events => "WRITE_RDY" \in events')
    PROVE  ConsoleTypes' /\ RingHolds' /\ WriterAlone' /\ SenderIsOn'
PROOF
  <1>1. con \in [User -> ConRecord]
    BY DEF ConsoleInv, ConsoleTypes, ConRecord
  <1>2. con' \in [User -> ConRecord] /\ con'[t] = r /\ \A u \in User \ {t} : con'[u] = con[u]
    BY <1>1
  <1>3. ConsoleTypes'
    BY <1>2 DEF ConsoleInv, ConsoleTypes, ConRecord
  <1>4. RingHolds'
    BY DEF ConsoleInv, RingHolds
  <1>5. ASSUME NEW u \in User, con'[u].pc \in Holding
        PROVE  /\ lock'.write = u /\ u \in Printer
               /\ con'[u].pc = "copy" => con'[u].in = tx'.in /\ Len(owed') <= Dist(con'[u].out, tx'.in)
               /\ con'[u].pc = "wwait" \/ (con'[u].pc = "kick" /\ con'[u].left > 0) =>
                    "WRITE_RDY" \in events' \/ tx'.out = con'[u].out
    <2>1. CASE u = t
      BY <1>2, <1>5, <2>1
    <2>2. CASE u # t
      <3>1. con'[u] = con[u] /\ con[u].pc \in Holding
        BY <1>2, <1>5, <2>2
      <3>2. lock'.write = u /\ ("WRITE_RDY" \in events => "WRITE_RDY" \in events')
        BY <2>2, <3>1
      <3> QED  BY <3>1, <3>2 DEF ConsoleInv, WriterAlone
    <2> QED  BY <2>1, <2>2
  <1>6. WriterAlone'
    BY <1>5 DEF WriterAlone
  <1>7. SenderIsOn'
    <2> SUFFICES ASSUME owed # <<>>
                 PROVE  "WE" \in irqEnable' \/ \E u \in Printer : con'[u].pc \in {"snap", "copy", "kick"}
      BY DEF SenderIsOn
    <2>1. CASE "WE" \in irqEnable
      BY <2>1
    <2>2. ASSUME NEW u \in Printer, con[u].pc \in {"snap", "copy", "kick"}
          PROVE  "WE" \in irqEnable' \/ \E v \in Printer : con'[v].pc \in {"snap", "copy", "kick"}
      <3>1. u \in User
        BY ConsoleGiven
      <3> QED  BY <1>2, <2>2, <3>1
    <2> QED  BY <2>1, <2>2 DEF ConsoleInv, SenderIsOn
  <1> QED  BY <1>3, <1>4, <1>6, <1>7

(* What concerns the reader stays. *)
LEMMA ReaderRests ==
    ASSUME ConsoleInv, con'[Scanner] = con[Scanner], rx' = rx, "RE" \in irqEnable => "RE" \in irqEnable',
           "READ_RDY" \in events => "READ_RDY" \in events'
    PROVE  ReceiverIsOn'
PROOF BY DEF ConsoleInv, ReceiverIsOn

LEMMA WriterIs ==
    ASSUME ConsoleInv, NEW t \in User, con[t].pc \in Holding
    PROVE  lock.write = t /\ t \in Printer /\ t # Scanner /\ \A u \in User \ {t} : con[u].pc \notin Holding
PROOF BY ConsoleGiven DEF ConsoleInv, WriterAlone

-----------------------------------------------------------------------------
LEMMA EnterStep ==
    ASSUME ConsoleInv, NEW t \in User, NEW n \in Nat, NEW pc \in {"wlock", "close", "rlock"},
           EnterDriver(t, pc, n), t = Scanner => pc = "rlock" /\ n > 0
    PROVE  ConsoleInv'
PROOF
  <1>0. con \in [User -> ConRecord]
    BY DEF ConsoleInv, ConsoleTypes, ConRecord
  <1>1. PICK r : r = [con[t] EXCEPT !.pc = pc, !.left = n]
    OBVIOUS
  <1>2. /\ con' = [con EXCEPT ![t] = r] /\ con[t].pc = "idle"
        /\ UNCHANGED <<tx, rx, irqEnable, events, lock, host, owed>>
    BY <1>1 DEF EnterDriver, AtPc
  <1>3. r \in ConRecord /\ r.pc = pc /\ r.left = n /\ r.got = con[t].got
    BY <1>0, <1>1 DEF ConRecord, ConsolePc
  <1>4. pc \notin Holding /\ con[t].pc \notin Holding
    BY <1>2 DEF Holding
  <1>5. ConsoleTypes' /\ RingHolds' /\ WriterAlone' /\ SenderIsOn'
    <2>1. \A u \in User : con[u].pc \in Holding => lock.write = u
      BY DEF ConsoleInv, WriterAlone
    <2> QED  BY <1>2, <1>3, <1>4, <2>1, TaskMoves DEF ConsoleInv, ConsoleTypes, Holding
  <1>6. ReceiverIsOn'
    <2>1. CASE t = Scanner
      <3>1. con'[Scanner] = r /\ ~ r.got /\ r.left > 0 /\ r.pc = "rlock"
        BY <1>0, <1>2, <1>3, <2>1 DEF ConsoleInv, ReceiverIsOn
      <3> QED  BY <1>2, <2>1, <3>1 DEF ConsoleInv, ReceiverIsOn
    <2>2. CASE t # Scanner
      BY <1>0, <1>2, <2>2, ConsoleGiven, ReaderRests
    <2> QED  BY <2>1, <2>2
  <1> QED  BY <1>5, <1>6 DEF ConsoleInv

(* A step that only moves a writer, and may touch its lock. *)
LEMMA WriterMoves ==
    ASSUME ConsoleInv, NEW t \in Printer, NEW r \in ConRecord, con' = [con EXCEPT ![t] = r],
           UNCHANGED <<tx, rx, owed, host>>, irqEnable' \in SUBSET {"RE", "WE"}, irqEnable \subseteq irqEnable',
           events' \in SUBSET Flags3, "READ_RDY" \in events => "READ_RDY" \in events',
           lock' \in [write : User \cup {Free}, read : User \cup {Free}],
           \A u \in User \ {t} : con[u].pc \notin Holding,
           r.pc \in Holding => lock'.write = t,
           r.pc = "copy" => r.in = tx.in /\ Len(owed) <= Dist(r.out, tx.in),
           r.pc = "wwait" \/ (r.pc = "kick" /\ r.left > 0) => "WRITE_RDY" \in events' \/ tx.out = r.out,
           con[t].pc \in {"snap", "copy", "kick"} => r.pc \in {"snap", "copy", "kick"} \/ "WE" \in irqEnable'
    PROVE  ConsoleInv'
PROOF
  <1>0. con \in [User -> ConRecord] /\ t \in User /\ t # Scanner
    BY ConsoleGiven DEF ConsoleInv, ConsoleTypes, ConRecord
  <1>1. ConsoleTypes' /\ RingHolds' /\ WriterAlone' /\ SenderIsOn'
    BY <1>0, TaskMoves DEF ConsoleInv, ConsoleTypes
  <1>2. ReceiverIsOn'
    BY <1>0, ConsoleGiven, ReaderRests
  <1> QED  BY <1>1, <1>2 DEF ConsoleInv

LEMMA WriteLockStep ==
    ASSUME ConsoleInv, NEW t \in Printer, WriteLock(t)
    PROVE  ConsoleInv'
PROOF
  <1>0. con \in [User -> ConRecord] /\ t \in User /\ lock \in [write : User \cup {Free}, read : User \cup {Free}]
    BY ConsoleGiven DEF ConsoleInv, ConsoleTypes, ConRecord
  <1>1. PICK r : r = [con[t] EXCEPT !.pc = "snap"]
    OBVIOUS
  <1>2. /\ con' = [con EXCEPT ![t] = r] /\ con[t].pc = "wlock" /\ lock.write = Free
        /\ lock' = [lock EXCEPT !.write = t] /\ UNCHANGED <<tx, rx, irqEnable, events, host, owed>>
    BY <1>1 DEF WriteLock, AtPc, Go
  <1>3. r \in ConRecord /\ r.pc = "snap"
    BY <1>0, <1>1 DEF ConRecord, ConsolePc, Holding
  <1>4. lock' \in [write : User \cup {Free}, read : User \cup {Free}] /\ lock'.write = t
    BY <1>0, <1>2
  <1>5. \A u \in User : con[u].pc \notin Holding
    BY <1>2, ConsoleGiven DEF ConsoleInv, WriterAlone
  <1> QED  BY <1>2, <1>3, <1>4, <1>5, WriterMoves DEF ConsoleInv, ConsoleTypes

LEMMA WriteSnapshotStep ==
    ASSUME ConsoleInv, NEW t \in Printer, WriteSnapshot(t)
    PROVE  ConsoleInv'
PROOF
  <1>0. /\ con \in [User -> ConRecord] /\ t \in User /\ tx.in \in Ring /\ tx.out \in Ring
        /\ Dist(tx.out, tx.in) = Len(owed)
    BY ConsoleGiven DEF ConsoleInv, ConsoleTypes, ConRecord, RingHolds
  <1>1. PICK r : r = IF TxSpace(tx.in, tx.out) = 0 THEN [con[t] EXCEPT !.out = tx.out, !.pc = "kick"]
                     ELSE [con[t] EXCEPT !.in = tx.in, !.out = tx.out, !.pc = "copy"]
    OBVIOUS
  <1>2. /\ con' = [con EXCEPT ![t] = r] /\ con[t].pc = "snap"
        /\ UNCHANGED <<tx, rx, irqEnable, events, lock, host, owed>>
    BY <1>1 DEF WriteSnapshot, AtPc
  <1>3. /\ r \in ConRecord /\ r.pc \in {"kick", "copy"} /\ r.out = tx.out
        /\ r.pc = "copy" => r.in = tx.in
    <2>1. CASE TxSpace(tx.in, tx.out) = 0
      BY <1>0, <1>1, <2>1 DEF ConRecord, ConsolePc, Holding
    <2>2. CASE TxSpace(tx.in, tx.out) # 0
      BY <1>0, <1>1, <2>2 DEF ConRecord, ConsolePc, Holding
    <2> QED  BY <2>1, <2>2
  <1>4. lock.write = t /\ \A u \in User \ {t} : con[u].pc \notin Holding
    BY <1>0, <1>2, WriterIs DEF Holding
  <1>5. Len(owed) <= Dist(r.out, tx.in)
    <2>1. Len(owed) \in Nat
      BY DEF ConsoleInv, ConsoleTypes
    <2> QED  BY <1>0, <1>3, <2>1
  <1> QED  BY <1>2, <1>3, <1>4, <1>5, WriterMoves DEF ConsoleInv, ConsoleTypes

LEMMA WriteKickStep ==
    ASSUME ConsoleInv, NEW t \in Printer, WriteKick(t)
    PROVE  ConsoleInv'
PROOF
  <1>0. con \in [User -> ConRecord] /\ t \in User
    BY ConsoleGiven DEF ConsoleInv, ConsoleTypes, ConRecord
  <1>1. PICK pc \in {"wwait", "wpost"} : con' = [con EXCEPT ![t].pc = pc] /\ (pc = "wwait" => con[t].left > 0)
    BY DEF WriteKick, Go
  <1>2. PICK r : r = [con[t] EXCEPT !.pc = pc]
    OBVIOUS
  <1>3. /\ con' = [con EXCEPT ![t] = r] /\ con[t].pc = "kick" /\ irqEnable' = irqEnable \cup {"WE"}
        /\ UNCHANGED <<tx, rx, events, lock, host, owed>>
    BY <1>1, <1>2 DEF WriteKick, AtPc
  <1>4. r \in ConRecord /\ r.pc = pc /\ r.out = con[t].out /\ r.left = con[t].left
    BY <1>0, <1>2 DEF ConRecord, ConsolePc, Holding
  <1>5. lock.write = t /\ \A u \in User \ {t} : con[u].pc \notin Holding
    BY <1>0, <1>3, WriterIs DEF Holding
  <1>6. pc = "wwait" => "WRITE_RDY" \in events \/ tx.out = con[t].out
    BY <1>0, <1>1, <1>3 DEF ConsoleInv, WriterAlone, Holding
  <1> QED  BY <1>3, <1>4, <1>5, <1>6, WriterMoves DEF ConsoleInv, ConsoleTypes

LEMMA WriteWaitStep ==
    ASSUME ConsoleInv, NEW t \in Printer, WriteWait(t)
    PROVE  ConsoleInv'
PROOF
  <1>0. con \in [User -> ConRecord] /\ t \in User
    BY ConsoleGiven DEF ConsoleInv, ConsoleTypes, ConRecord
  <1>1. PICK pc \in {"wpost", "snap"} : con' = [con EXCEPT ![t].pc = pc]
    BY DEF WriteWait, Go
  <1>2. PICK r : r = [con[t] EXCEPT !.pc = pc]
    OBVIOUS
  <1>3. /\ con' = [con EXCEPT ![t] = r] /\ con[t].pc = "wwait" /\ events' = events \ TxReady
        /\ UNCHANGED <<tx, rx, irqEnable, lock, host, owed>>
    BY <1>1, <1>2 DEF WriteWait, AtPc
  <1>4. r \in ConRecord /\ r.pc = pc
    BY <1>0, <1>2 DEF ConRecord, ConsolePc, Holding
  <1>5. lock.write = t /\ \A u \in User \ {t} : con[u].pc \notin Holding
    BY <1>0, <1>3, WriterIs DEF Holding
  <1>6. events' \in SUBSET Flags3 /\ ("READ_RDY" \in events => "READ_RDY" \in events')
    BY <1>3 DEF ConsoleInv, ConsoleTypes, TxReady
  <1> QED  BY <1>3, <1>4, <1>5, <1>6, WriterMoves DEF ConsoleInv, ConsoleTypes

LEMMA OutsideIsRecord == Outside \in ConRecord /\ Outside.pc = "idle" /\ ~ Outside.got
PROOF
  <1>1. 0 \in Ring
    BY ConsoleGiven
  <1> QED  BY <1>1 DEF Outside, ConRecord, ConsolePc

LEMMA WriteEnds ==
    ASSUME ConsoleInv, NEW t \in Printer, WritePost(t) \/ CloseConsole(t)
    PROVE  ConsoleInv'
PROOF
  <1>0. con \in [User -> ConRecord] /\ t \in User /\ lock \in [write : User \cup {Free}, read : User \cup {Free}]
    BY ConsoleGiven DEF ConsoleInv, ConsoleTypes, ConRecord
  <1>1. PICK r \in ConRecord : r = Outside /\ r.pc = "idle"
    BY OutsideIsRecord
  <1>2. con' = [con EXCEPT ![t] = r] /\ UNCHANGED <<tx, rx, irqEnable, events, host, owed>>
    BY <1>1 DEF WritePost, CloseConsole, LeaveDriver
  <1>3. CASE WritePost(t)
    <2>1. con[t].pc = "wpost" /\ lock' = [lock EXCEPT !.write = Free]
      BY <1>3 DEF WritePost, AtPc
    <2>2. lock' \in [write : User \cup {Free}, read : User \cup {Free}]
      BY <1>0, <2>1
    <2>3. \A u \in User \ {t} : con[u].pc \notin Holding
      BY <1>0, <2>1, WriterIs DEF Holding
    <2> QED  BY <1>1, <1>2, <2>1, <2>2, <2>3, WriterMoves DEF ConsoleInv, ConsoleTypes, Holding
  <1>4. CASE CloseConsole(t)
    <2>1. con[t].pc = "close" /\ lock' = lock
      BY <1>4 DEF CloseConsole, AtPc
    <2>2. \A u \in User : con[u].pc \in Holding => lock.write = u
      BY DEF ConsoleInv, WriterAlone
    <2>3. ConsoleTypes' /\ RingHolds' /\ WriterAlone' /\ SenderIsOn'
      BY <1>0, <1>1, <1>2, <2>1, <2>2, TaskMoves DEF ConsoleInv, ConsoleTypes, Holding
    <2>4. ReceiverIsOn'
      BY <1>0, <1>2, ConsoleGiven, ReaderRests
    <2> QED  BY <2>3, <2>4 DEF ConsoleInv
  <1> QED  BY <1>3, <1>4

(* What is copied at once fits between the writer's end and the sender's start. *)
LEMMA SpaceFits ==
    ASSUME NEW i \in Ring, NEW o \in Ring
    PROVE  /\ TxSpace(i, o) \in Nat /\ i + TxSpace(i, o) <= BufLen
           /\ Dist(o, i) + TxSpace(i, o) < BufLen
PROOF
  <1>0. BufLen \in Nat \ {0} /\ o \in 0 .. BufLen - 1 /\ i \in 0 .. BufLen - 1
    BY ConsoleGiven
  <1> QED  BY <1>0 DEF TxSpace, Dist

(* n bytes of task t go to the end of the ring. *)
LEMMA BytesAppended ==
    ASSUME ConsoleInv, NEW t \in User, NEW n \in Nat, tx.in + n <= BufLen, Len(owed) + n < BufLen,
           tx' = [tx EXCEPT !.in = (tx.in + n) % BufLen,
                            !.buf = [i \in Ring |-> IF i \in tx.in .. tx.in + n - 1 THEN t ELSE tx.buf[i]]],
           owed' = owed \o [i \in 1 .. n |-> t]
    PROVE  /\ tx' \in [in : Ring, out : Ring, buf : [Ring -> User \cup {Free}]] /\ tx'.out = tx.out
           /\ owed' \in Seq(User) /\ RingHolds'
PROOF
  <1>0. /\ tx.in \in Ring /\ tx.out \in Ring /\ tx.buf \in [Ring -> User \cup {Free}]
        /\ tx \in [in : Ring, out : Ring, buf : [Ring -> User \cup {Free}]]
        /\ owed \in Seq(User) /\ Dist(tx.out, tx.in) = Len(owed) /\ Len(owed) \in Nat
        /\ \A i \in 1 .. Len(owed) : tx.buf[Place(tx.out, i - 1)] = owed[i]
    BY DEF ConsoleInv, ConsoleTypes, RingHolds
  <1>00. BufLen \in Nat \ {0} /\ Ring = 0 .. BufLen - 1
    BY ConsoleGiven
  <1>1. PICK more : more = [i \in 1 .. n |-> t]
    OBVIOUS
  <1>2. more \in Seq(User) /\ Len(more) = n /\ \A i \in 1 .. n : more[i] = t
    BY <1>1
  <1>3. /\ owed' \in Seq(User) /\ Len(owed') = Len(owed) + n
        /\ \A i \in 1 .. Len(owed) + n : owed'[i] = IF i <= Len(owed) THEN owed[i] ELSE more[i - Len(owed)]
    <2>1. owed' = owed \o more
      BY <1>1
    <2>2. owed \in Seq(User) /\ more \in Seq(User)
      BY <1>0, <1>2
    <2>3. /\ owed \o more \in Seq(User) /\ Len(owed \o more) = Len(owed) + Len(more)
          /\ \A i \in 1 .. Len(owed) + Len(more) :
                (owed \o more)[i] = IF i <= Len(owed) THEN owed[i] ELSE more[i - Len(owed)]
      BY <2>2, ConcatProperties
    <2> QED  BY <1>2, <2>1, <2>3
  <1>4. /\ tx'.in = Place(tx.in, n) /\ Place(tx.in, n) \in Ring /\ tx'.out = tx.out
        /\ tx'.buf = [i \in Ring |-> IF i \in tx.in .. tx.in + n - 1 THEN t ELSE tx.buf[i]]
    <2>1. n \in 0 .. BufLen
      BY <1>0, <1>00
    <2>2. (tx.in + n) % BufLen = Place(tx.in, n) /\ Place(tx.in, n) \in Ring
      BY <1>0, <2>1, PlaceIs
    <2> QED  BY <1>0, <2>2
  <1>5. tx' \in [in : Ring, out : Ring, buf : [Ring -> User \cup {Free}]]
    <2>1. [i \in Ring |-> IF i \in tx.in .. tx.in + n - 1 THEN t ELSE tx.buf[i]] \in [Ring -> User \cup {Free}]
      BY <1>0
    <2> QED  BY <1>0, <1>4, <2>1
  <1>6. Dist(tx'.out, tx'.in) = Len(owed')
    BY <1>0, <1>3, <1>4, RingWays
  <1>7. Place(tx.out, Len(owed)) = tx.in
    BY <1>0, <1>00 DEF Place, Dist
  <1>8. ASSUME NEW i \in 1 .. Len(owed')
        PROVE  tx'.buf[Place(tx'.out, i - 1)] = owed'[i]
    <2>0. i - 1 \in 0 .. BufLen - 1 /\ i \in 1 .. Len(owed) + n /\ Place(tx.out, i - 1) \in Ring
      <3>1. i - 1 \in 0 .. BufLen /\ i - 1 \in 0 .. BufLen - 1 /\ i \in 1 .. Len(owed) + n
        BY <1>0, <1>00, <1>3
      <3> QED  BY <1>0, <3>1, PlaceIs
    <2>1. CASE i <= Len(owed)
      <3>1. Place(tx.out, i - 1) \notin tx.in .. tx.in + n - 1
        <4> SUFFICES ASSUME Place(tx.out, i - 1) \in tx.in .. tx.in + n - 1
                     PROVE  FALSE
          OBVIOUS
        <4>0. PICK j \in 0 .. n - 1 : Place(tx.out, i - 1) = tx.in + j
          <5>1. tx.in \in Int /\ Place(tx.out, i - 1) \in Int
            BY <1>0, <1>00, <2>0
          <5>2. Place(tx.out, i - 1) - tx.in \in 0 .. n - 1
            BY <5>1
          <5> QED  BY <5>1, <5>2
        <4>1. tx.in + j = Place(tx.in, j)
          BY <1>0, <1>00 DEF Place
        <4>2. Place(tx.in, j) = Place(tx.out, Len(owed) + j)
          <5>1. j \in Nat /\ Len(owed) + j < BufLen
            BY <1>0, <1>00
          <5> QED  BY <1>0, <1>7, <5>1, PlacesAdd
        <4>3. Len(owed) + j \in 0 .. BufLen - 1 /\ Len(owed) + j # i - 1
          <5>1. j \in Nat /\ Len(owed) \in Nat /\ Len(owed) + j < BufLen
            BY <1>0, <1>00
          <5>2. i \in Nat /\ i <= Len(owed) /\ BufLen \in Nat
            BY <1>00, <2>0, <2>1
          <5> QED  BY <5>1, <5>2
        <4> QED  BY <1>0, <2>0, <4>0, <4>1, <4>2, <4>3, PlacesApart
      <3>2. tx'.buf[Place(tx'.out, i - 1)] = tx.buf[Place(tx.out, i - 1)]
        BY <1>4, <2>0, <3>1
      <3>3. owed'[i] = owed[i] /\ i \in 1 .. Len(owed)
        BY <1>0, <1>3, <2>0, <2>1
      <3> QED  BY <1>0, <3>2, <3>3
    <2>2. CASE ~ i <= Len(owed)
      <3>1. PICK j \in 0 .. n - 1 : i - 1 = Len(owed) + j
        <4>1. i - 1 - Len(owed) \in 0 .. n - 1 /\ i - 1 = Len(owed) + (i - 1 - Len(owed))
          BY <1>0, <2>0, <2>2
        <4> QED  BY <4>1
      <3>2. Place(tx.out, i - 1) = Place(tx.in, j)
        <4>1. j \in Nat /\ Len(owed) + j < BufLen
          BY <1>0, <1>00
        <4> QED  BY <1>0, <1>7, <3>1, <4>1, PlacesAdd
      <3>3. Place(tx.in, j) = tx.in + j
        BY <1>0, <1>00 DEF Place
      <3>4. Place(tx.out, i - 1) \in tx.in .. tx.in + n - 1
        BY <1>0, <1>00, <3>2, <3>3
      <3>5. tx'.buf[Place(tx'.out, i - 1)] = t
        BY <1>4, <2>0, <3>4
      <3>6. owed'[i] = t
        <4>1. i - Len(owed) \in 1 .. n
          BY <1>0, <2>0, <2>2
        <4> QED  BY <1>2, <1>3, <2>0, <2>2, <4>1
      <3> QED  BY <3>5, <3>6
    <2> QED  BY <2>1, <2>2
  <1> QED  BY <1>3, <1>4, <1>5, <1>6, <1>8 DEF RingHolds

LEMMA WriteCopyStep ==
    ASSUME ConsoleInv, NEW t \in Printer, WriteCopy(t)
    PROVE  ConsoleInv'
PROOF
  <1>0. /\ con \in [User -> ConRecord] /\ t \in User /\ t # Scanner
        /\ tx.in \in Ring /\ tx.out \in Ring /\ Dist(tx.out, tx.in) = Len(owed) /\ Len(owed) \in Nat
    <2>1. con \in [User -> ConRecord] /\ tx.in \in Ring /\ tx.out \in Ring /\ owed \in Seq(User)
      BY DEF ConsoleInv, ConsoleTypes, ConRecord
    <2>2. Dist(tx.out, tx.in) = Len(owed) /\ Len(owed) \in Nat
      BY <2>1 DEF ConsoleInv, RingHolds
    <2> QED  BY <2>1, <2>2, ConsoleGiven
  <1>1. con[t].pc = "copy" /\ con[t].in = tx.in /\ Len(owed) <= Dist(con[t].out, tx.in)
    BY <1>0 DEF WriteCopy, AtPc, ConsoleInv, WriterAlone, Holding
  <1>2. lock.write = t /\ \A u \in User \ {t} : con[u].pc \notin Holding
    BY <1>0, <1>1, WriterIs DEF Holding
  <1>3. /\ TxSpace(tx.in, con[t].out) \in Nat /\ tx.in + TxSpace(tx.in, con[t].out) <= BufLen
        /\ Dist(con[t].out, tx.in) + TxSpace(tx.in, con[t].out) < BufLen
        /\ con[t].left \in Nat /\ con[t].out \in Ring /\ Dist(con[t].out, tx.in) \in Nat
        /\ BufLen \in Nat
    <2>1. con[t].out \in Ring /\ con[t].left \in Nat
      BY <1>0 DEF ConRecord
    <2>2. Dist(con[t].out, tx.in) \in Nat /\ BufLen \in Nat
      <3>1. Dist(con[t].out, tx.in) \in Ring
        BY <1>0, <2>1, DistIs
      <3> QED  BY <3>1, ConsoleGiven
    <2> QED  BY <1>0, <2>1, <2>2, SpaceFits
  <1>4. PICK n : n = IF TxSpace(tx.in, con[t].out) > con[t].left THEN con[t].left ELSE TxSpace(tx.in, con[t].out)
    OBVIOUS
  <1>5. n \in Nat /\ n <= con[t].left /\ tx.in + n <= BufLen /\ Len(owed) + n < BufLen
    <2>1. tx.in \in Nat
      BY <1>0, ConsoleGiven
    <2> QED  BY <1>0, <1>1, <1>3, <1>4, <2>1
  <1>6. PICK r : r = [con[t] EXCEPT !.left = con[t].left - n, !.in = 0,
                       !.pc = IF con[t].left > n THEN "snap" ELSE "kick"]
    OBVIOUS
  <1>7. /\ tx' = [tx EXCEPT !.in = (tx.in + n) % BufLen,
                            !.buf = [i \in Ring |-> IF i \in tx.in .. tx.in + n - 1 THEN t ELSE tx.buf[i]]]
        /\ owed' = owed \o [i \in 1 .. n |-> t] /\ con' = [con EXCEPT ![t] = r]
        /\ UNCHANGED <<rx, irqEnable, events, lock, host>>
    BY <1>1, <1>4, <1>6 DEF WriteCopy
  <1>8. /\ tx' \in [in : Ring, out : Ring, buf : [Ring -> User \cup {Free}]] /\ tx'.out = tx.out
        /\ owed' \in Seq(User) /\ RingHolds'
    BY <1>0, <1>5, <1>7, BytesAppended
  <1>9. r \in ConRecord /\ (r.pc = "snap" \/ (r.pc = "kick" /\ r.left = 0))
    <2>1. con[t].left - n \in Nat /\ 0 \in Ring
      BY <1>3, <1>5, ConsoleGiven
    <2>2. CASE con[t].left > n
      BY <1>0, <1>6, <2>1, <2>2 DEF ConRecord, ConsolePc, Holding
    <2>3. CASE ~ con[t].left > n
      <3>1. con[t].left - n = 0
        BY <1>3, <1>5, <2>3
      <3> QED  BY <1>0, <1>6, <2>1, <2>3, <3>1 DEF ConRecord, ConsolePc, Holding
    <2> QED  BY <2>2, <2>3
  <1>10. con' \in [User -> ConRecord] /\ con'[t] = r /\ \A u \in User \ {t} : con'[u] = con[u]
    BY <1>0, <1>7, <1>9
  <1>11. ConsoleTypes'
    BY <1>7, <1>8, <1>10 DEF ConsoleInv, ConsoleTypes, ConRecord
  <1>12. WriterAlone'
    BY <1>2, <1>7, <1>9, <1>10 DEF WriterAlone, Holding
  <1>13. SenderIsOn'
    BY <1>9, <1>10 DEF SenderIsOn
  <1>14. ReceiverIsOn'
    BY <1>0, <1>7, <1>10, ConsoleGiven, ReaderRests
  <1> QED  BY <1>8, <1>11, <1>12, <1>13, <1>14 DEF ConsoleInv

-----------------------------------------------------------------------------
(* A step of the reader: r is where it goes. *)
LEMMA ReaderMoves ==
    ASSUME ConsoleInv, NEW r \in ConRecord, con' = [con EXCEPT ![Scanner] = r], UNCHANGED <<tx, owed, host>>,
           rx' \in [in : Ring, out : Ring], events' \in SUBSET Flags3, irqEnable' \in SUBSET {"RE", "WE"},
           lock' \in [write : User \cup {Free}, read : User \cup {Free}], lock'.write = lock.write,
           irqEnable \subseteq irqEnable', "WRITE_RDY" \in events => "WRITE_RDY" \in events',
           r.pc \notin Holding,
           "RE" \in irqEnable' \/ rx'.in # rx'.out \/ (r.pc \in {"fetch", "rpost", "rearm"} /\ r.got),
           r.pc \in {"rlock", "fetch", "rwait"} /\ ~ r.got => r.left > 0,
           r.pc = "rwait" => ~ r.got /\ ("READ_RDY" \in events' \/ rx'.in = r.in),
           r.pc = "rearm" => r.got,
           r.pc \in {"idle", "rlock"} => ~ r.got
    PROVE  ConsoleInv'
PROOF
  <1>0. con \in [User -> ConRecord] /\ Scanner \in User /\ Scanner \notin Printer
    BY ConsoleGiven DEF ConsoleInv, ConsoleTypes, ConRecord
  <1>1. con[Scanner].pc \notin Holding /\ con'[Scanner] = r
    BY <1>0 DEF ConsoleInv, WriterAlone
  <1>2. \A u \in User : con[u].pc \in Holding => lock'.write = u
    BY DEF ConsoleInv, WriterAlone
  <1>3. ConsoleTypes' /\ RingHolds' /\ WriterAlone' /\ SenderIsOn'
    BY <1>0, <1>1, <1>2, TaskMoves DEF Holding
  <1>4. ReceiverIsOn'
    BY <1>1 DEF ReceiverIsOn
  <1> QED  BY <1>3, <1>4 DEF ConsoleInv

LEMMA ReadLockStep ==
    ASSUME ConsoleInv, ReadLock(Scanner)
    PROVE  ConsoleInv'
PROOF
  <1>0. /\ con \in [User -> ConRecord] /\ Scanner \in User
        /\ lock \in [write : User \cup {Free}, read : User \cup {Free}]
    BY ConsoleGiven DEF ConsoleInv, ConsoleTypes, ConRecord
  <1>1. PICK r : r = [con[Scanner] EXCEPT !.pc = "fetch"]
    OBVIOUS
  <1>2. /\ con' = [con EXCEPT ![Scanner] = r] /\ con[Scanner].pc = "rlock"
        /\ lock' = [lock EXCEPT !.read = Scanner] /\ UNCHANGED <<tx, rx, irqEnable, events, host, owed>>
    BY <1>1 DEF ReadLock, AtPc, Go
  <1>3. r \in ConRecord /\ r.pc = "fetch" /\ r.left = con[Scanner].left /\ r.got = con[Scanner].got
    BY <1>0, <1>1 DEF ConRecord, ConsolePc
  <1>4. lock' \in [write : User \cup {Free}, read : User \cup {Free}] /\ lock'.write = lock.write
    BY <1>0, <1>2
  <1>5. /\ ~ r.got /\ r.left > 0
        /\ "RE" \in irqEnable \/ rx.in # rx.out
    BY <1>2, <1>3 DEF ConsoleInv, ReceiverIsOn
  <1> QED  BY <1>2, <1>3, <1>4, <1>5, ReaderMoves DEF ConsoleInv, ConsoleTypes, Holding

LEMMA CountFits ==
    ASSUME NEW i \in Ring, NEW o \in Ring
    PROVE  RxCount(i, o) \in 0 .. BufLen /\ (RxCount(i, o) = 0 <=> i = o)
PROOF
  <1>0. BufLen \in Nat \ {0} /\ o \in 0 .. BufLen - 1 /\ i \in 0 .. BufLen - 1
    BY ConsoleGiven
  <1> QED  BY <1>0 DEF RxCount

LEMMA ReadFetchStep ==
    ASSUME ConsoleInv, ReadFetch(Scanner)
    PROVE  ConsoleInv'
PROOF
  <1>0. /\ con \in [User -> ConRecord] /\ Scanner \in User
        /\ rx \in [in : Ring, out : Ring] /\ rx.in \in Ring /\ rx.out \in Ring
        /\ con[Scanner].left \in Nat /\ con[Scanner].got \in BOOLEAN
    <2>1. con \in [User -> ConRecord] /\ Scanner \in User /\ rx \in [in : Ring, out : Ring]
      BY ConsoleGiven DEF ConsoleInv, ConsoleTypes, ConRecord
    <2> QED  BY <2>1 DEF ConRecord
  <1>1. PICK n : n = IF RxCount(rx.in, rx.out) > con[Scanner].left THEN con[Scanner].left
                     ELSE RxCount(rx.in, rx.out)
    OBVIOUS
  <1>2. PICK r : r = [con[Scanner] EXCEPT !.left = con[Scanner].left - n, !.in = rx.in,
                       !.got = con[Scanner].got \/ n > 0,
                       !.pc = IF n > 0 /\ con[Scanner].left > n THEN "fetch"
                              ELSE IF n > 0 \/ con[Scanner].got THEN "rpost" ELSE "rwait"]
    OBVIOUS
  <1>3. /\ con' = [con EXCEPT ![Scanner] = r] /\ con[Scanner].pc = "fetch"
        /\ rx' = [rx EXCEPT !.out = (rx.out + n) % BufLen]
        /\ UNCHANGED <<tx, irqEnable, events, lock, host, owed>>
    BY <1>1, <1>2 DEF ReadFetch, AtPc
  <1>4. /\ n \in 0 .. BufLen /\ n <= con[Scanner].left /\ con[Scanner].left - n \in Nat
        /\ n = 0 => con[Scanner].left = 0 \/ rx.in = rx.out
    <2>1. RxCount(rx.in, rx.out) \in 0 .. BufLen /\ (RxCount(rx.in, rx.out) = 0 <=> rx.in = rx.out)
      BY <1>0, CountFits
    <2>2. BufLen \in Nat
      BY ConsoleGiven
    <2> QED  BY <1>0, <1>1, <2>1, <2>2
  <1>5. (rx.out + n) % BufLen \in Ring
    BY <1>0, <1>4, PlaceIs
  <1>6. rx' \in [in : Ring, out : Ring] /\ rx'.in = rx.in /\ rx'.out = (rx.out + n) % BufLen
    BY <1>0, <1>3, <1>5
  <1>7. con[Scanner].got \/ con[Scanner].left > 0
    BY <1>3 DEF ConsoleInv, ReceiverIsOn
  <1>8. CASE n > 0
    <2>1. r \in ConRecord /\ r.pc \in {"fetch", "rpost"} /\ r.got
      <3>1. CASE con[Scanner].left > n
        BY <1>0, <1>2, <1>4, <1>8, <3>1 DEF ConRecord, ConsolePc
      <3>2. CASE ~ con[Scanner].left > n
        BY <1>0, <1>2, <1>4, <1>8, <3>2 DEF ConRecord, ConsolePc
      <3> QED  BY <3>1, <3>2
    <2> QED  BY <1>3, <1>6, <2>1, ReaderMoves DEF ConsoleInv, ConsoleTypes, Holding
  <1>9. CASE ~ n > 0
    <2>0. n = 0 /\ rx'.out = rx.out
      <3>1. n = 0
        BY <1>4, <1>9
      <3>2. (rx.out + 0) % BufLen = Place(rx.out, 0) /\ Place(rx.out, 0) = rx.out
        <4>1. 0 \in 0 .. BufLen
          BY ConsoleGiven
        <4> QED  BY <1>0, <4>1, PlaceIs, RingWays
      <3> QED  BY <1>6, <3>1, <3>2
    <2>1. CASE con[Scanner].got
      <3>0. r = [con[Scanner] EXCEPT !.left = con[Scanner].left - n, !.in = rx.in, !.got = TRUE, !.pc = "rpost"]
        <4>1. (con[Scanner].got \/ n > 0) = TRUE /\ ~ (n > 0 /\ con[Scanner].left > n)
          BY <1>9, <2>1
        <4> QED  BY <1>2, <2>1, <4>1
      <3>1. r \in ConRecord /\ r.pc = "rpost" /\ r.got
        BY <1>0, <1>4, <3>0 DEF ConRecord, ConsolePc
      <3> QED  BY <1>3, <1>6, <3>1, ReaderMoves DEF ConsoleInv, ConsoleTypes, Holding
    <2>2. CASE ~ con[Scanner].got
      <3>1. r \in ConRecord /\ r.pc = "rwait" /\ ~ r.got /\ r.in = rx.in /\ r.left > 0
        <4>1. con[Scanner].left - n = con[Scanner].left /\ con[Scanner].left > 0
          BY <1>0, <1>7, <2>0, <2>2
        <4>2. r = [con[Scanner] EXCEPT !.left = con[Scanner].left - n, !.in = rx.in, !.got = FALSE,
                                       !.pc = "rwait"]
          <5>1. (con[Scanner].got \/ n > 0) = FALSE /\ ~ (n > 0 /\ con[Scanner].left > n)
            BY <1>9, <2>2
          <5> QED  BY <1>2, <1>9, <2>2, <5>1
        <4> QED  BY <1>0, <1>4, <4>1, <4>2 DEF ConRecord, ConsolePc
      <3>2. "RE" \in irqEnable \/ rx.in # rx.out
        BY <1>3, <2>2 DEF ConsoleInv, ReceiverIsOn
      <3> QED  BY <1>3, <1>6, <2>0, <3>1, <3>2, ReaderMoves DEF ConsoleInv, ConsoleTypes, Holding
    <2> QED  BY <2>1, <2>2
  <1> QED  BY <1>8, <1>9

LEMMA ReadWaitStep ==
    ASSUME ConsoleInv, ReadWait(Scanner)
    PROVE  ConsoleInv'
PROOF
  <1>0. con \in [User -> ConRecord] /\ Scanner \in User
    BY ConsoleGiven DEF ConsoleInv, ConsoleTypes, ConRecord
  <1>1. PICK pc \in {"rpost", "fetch"} : con' = [con EXCEPT ![Scanner].pc = pc]
    BY DEF ReadWait, Go
  <1>2. PICK r : r = [con[Scanner] EXCEPT !.pc = pc]
    OBVIOUS
  <1>3. /\ con' = [con EXCEPT ![Scanner] = r] /\ con[Scanner].pc = "rwait" /\ events' = events \ RxReady
        /\ UNCHANGED <<tx, rx, irqEnable, lock, host, owed>>
    BY <1>1, <1>2 DEF ReadWait, AtPc
  <1>4. r \in ConRecord /\ r.pc = pc /\ r.left = con[Scanner].left /\ r.got = con[Scanner].got
    BY <1>0, <1>2 DEF ConRecord, ConsolePc
  <1>5. events' \in SUBSET Flags3 /\ ("WRITE_RDY" \in events => "WRITE_RDY" \in events')
    BY <1>3 DEF ConsoleInv, ConsoleTypes, RxReady
  <1>6. ("RE" \in irqEnable \/ rx.in # rx.out) /\ ~ r.got /\ r.left > 0
    BY <1>3, <1>4 DEF ConsoleInv, ReceiverIsOn
  <1> QED  BY <1>3, <1>4, <1>5, <1>6, ReaderMoves DEF ConsoleInv, ConsoleTypes, Holding

LEMMA ReadEnds ==
    ASSUME ConsoleInv, ReadPost(Scanner) \/ ReadRearm(Scanner)
    PROVE  ConsoleInv'
PROOF
  <1>0. /\ con \in [User -> ConRecord] /\ Scanner \in User
        /\ lock \in [write : User \cup {Free}, read : User \cup {Free}] /\ con[Scanner].got \in BOOLEAN
    <2>1. con \in [User -> ConRecord] /\ Scanner \in User
      BY ConsoleGiven DEF ConsoleInv, ConsoleTypes, ConRecord
    <2> QED  BY <2>1 DEF ConsoleInv, ConsoleTypes, ConRecord
  <1>1. PICK r \in ConRecord : r = Outside /\ r.pc = "idle" /\ ~ r.got
    BY OutsideIsRecord
  <1>2. CASE ReadPost(Scanner)
    <2>0. con[Scanner].pc = "rpost" /\ UNCHANGED <<tx, rx, irqEnable, events, host, owed>>
      BY <1>2 DEF ReadPost, AtPc
    <2>1. lock' \in [write : User \cup {Free}, read : User \cup {Free}] /\ lock'.write = lock.write
      BY <1>0, <1>2 DEF ReadPost
    <2>2. CASE con[Scanner].got
      <3>1. PICK q : q = [con[Scanner] EXCEPT !.pc = "rearm"]
        OBVIOUS
      <3>2. con' = [con EXCEPT ![Scanner] = q]
        BY <1>2, <2>2, <3>1 DEF ReadPost, Go
      <3>3. q \in ConRecord /\ q.pc = "rearm" /\ q.got
        BY <1>0, <2>2, <3>1 DEF ConRecord, ConsolePc
      <3> QED  BY <2>0, <2>1, <3>2, <3>3, ReaderMoves DEF ConsoleInv, ConsoleTypes, Holding
    <2>3. CASE ~ con[Scanner].got
      <3>1. con' = [con EXCEPT ![Scanner] = r]
        BY <1>1, <1>2, <2>3 DEF ReadPost, LeaveDriver
      <3>2. "RE" \in irqEnable \/ rx.in # rx.out
        BY <2>3 DEF ConsoleInv, ReceiverIsOn
      <3> QED  BY <1>1, <2>0, <2>1, <3>1, <3>2, ReaderMoves DEF ConsoleInv, ConsoleTypes, Holding
    <2> QED  BY <2>2, <2>3
  <1>3. CASE ReadRearm(Scanner)
    <2>1. /\ con' = [con EXCEPT ![Scanner] = r] /\ irqEnable' = irqEnable \cup {"RE"}
          /\ UNCHANGED <<tx, rx, events, lock, host, owed>>
      BY <1>1, <1>3 DEF ReadRearm, LeaveDriver
    <2> QED  BY <1>1, <2>1, ReaderMoves DEF ConsoleInv, ConsoleTypes, Holding
  <1> QED  BY <1>2, <1>3

-----------------------------------------------------------------------------
HostType == [tx : 0 .. Depth, rx : 0 .. Depth, inactive : Nat, ac : BOOLEAN, timeout : Nat]

(* The handler sends the w oldest bytes. *)
LEMMA BytesSent ==
    ASSUME ConsoleInv, NEW w \in 0 .. Len(owed),
           tx' = [tx EXCEPT !.out = (tx.out + w) % BufLen,
                            !.buf = [i \in Ring |-> IF (i - tx.out) % BufLen < w THEN Free ELSE tx.buf[i]]],
           owed' = SubSeq(owed, w + 1, Len(owed))
    PROVE  /\ tx' \in [in : Ring, out : Ring, buf : [Ring -> User \cup {Free}]] /\ tx'.in = tx.in
           /\ w = 0 => tx'.out = tx.out
           /\ owed' \in Seq(User) /\ Len(owed') = Len(owed) - w /\ RingHolds'
PROOF
  <1>0. /\ tx.in \in Ring /\ tx.out \in Ring /\ tx.buf \in [Ring -> User \cup {Free}]
        /\ tx \in [in : Ring, out : Ring, buf : [Ring -> User \cup {Free}]]
        /\ owed \in Seq(User) /\ Dist(tx.out, tx.in) = Len(owed) /\ Len(owed) \in Nat
        /\ \A i \in 1 .. Len(owed) : tx.buf[Place(tx.out, i - 1)] = owed[i]
    BY DEF ConsoleInv, ConsoleTypes, RingHolds
  <1>00. BufLen \in Nat \ {0} /\ Ring = 0 .. BufLen - 1
    BY ConsoleGiven
  <1>1. Len(owed) < BufLen
    BY <1>0, <1>00, DistIs
  <1>2. /\ tx'.out = Place(tx.out, w) /\ Place(tx.out, w) \in Ring /\ tx'.in = tx.in
        /\ tx'.buf = [i \in Ring |-> IF (i - tx.out) % BufLen < w THEN Free ELSE tx.buf[i]]
    <2>1. w \in 0 .. BufLen
      BY <1>0, <1>00, <1>1
    <2> QED  BY <1>0, <2>1, PlaceIs
  <1>3. tx' \in [in : Ring, out : Ring, buf : [Ring -> User \cup {Free}]]
    <2>1. [i \in Ring |-> IF (i - tx.out) % BufLen < w THEN Free ELSE tx.buf[i]] \in [Ring -> User \cup {Free}]
      BY <1>0
    <2> QED  BY <1>0, <1>2, <2>1
  <1>4. w = 0 => tx'.out = tx.out
    BY <1>0, <1>2, RingWays
  <1>5. /\ owed' \in Seq(User) /\ Len(owed') = Len(owed) - w
        /\ \A i \in 1 .. Len(owed) - w : owed'[i] = owed[w + i]
    <2>1. w + 1 \in Int /\ Len(owed) \in Int /\ \A i \in w + 1 .. Len(owed) : owed[i] \in User
      BY <1>0
    <2>2. /\ owed' \in Seq(User) /\ Len(owed') = IF w + 1 <= Len(owed) THEN Len(owed) - (w + 1) + 1 ELSE 0
          /\ \A i \in 1 .. Len(owed) - (w + 1) + 1 : owed'[i] = owed[(w + 1) + i - 1]
      BY <2>1, SubSeqProperties
    <2>3. ASSUME NEW i \in 1 .. Len(owed) - w
          PROVE  owed'[i] = owed[w + i]
      <3>1. (w + 1) + i - 1 = w + i /\ i \in 1 .. Len(owed) - (w + 1) + 1
        BY <1>0
      <3> QED  BY <2>2, <3>1
    <2>4. Len(owed') = Len(owed) - w
      BY <1>0, <2>2
    <2> QED  BY <2>2, <2>3, <2>4
  <1>6. Dist(tx'.out, tx'.in) = Len(owed')
    BY <1>0, <1>2, <1>5, RingWays
  <1>7. ASSUME NEW i \in 1 .. Len(owed')
        PROVE  tx'.buf[Place(tx'.out, i - 1)] = owed'[i]
    <2>0. i \in 1 .. Len(owed) - w
      BY <1>5
    <2>1. PICK k \in 0 .. Len(owed) - 1 : k = w + (i - 1) /\ k + 1 = w + i
      <3>1. w + (i - 1) \in 0 .. Len(owed) - 1 /\ w + (i - 1) + 1 = w + i
        BY <1>0, <2>0
      <3> QED  BY <3>1
    <2>2. k < BufLen /\ k \in Nat /\ k \in 0 .. BufLen /\ w \in Nat /\ i - 1 \in Nat /\ ~ k < w
      <3>1. k < BufLen /\ k \in Nat /\ k \in 0 .. BufLen
        BY <1>0, <1>00, <1>1
      <3>2. w \in Nat /\ i \in Nat /\ i >= 1
        BY <1>0, <2>0
      <3> QED  BY <2>1, <3>1, <3>2
    <2>3. Place(tx'.out, i - 1) = Place(tx.out, k) /\ Place(tx.out, k) \in Ring
      <3>1. Place(Place(tx.out, w), i - 1) = Place(tx.out, w + (i - 1))
        BY <1>0, <2>1, <2>2, PlacesAdd
      <3>2. Place(tx.out, k) \in Ring
        BY <1>0, <2>2, PlaceIs
      <3> QED  BY <1>2, <2>1, <3>1, <3>2
    <2>4. (Place(tx.out, k) - tx.out) % BufLen = k
      <3>1. Dist(tx.out, tx.out) = 0
        BY <1>0, RingWays
      <3>2. Dist(tx.out, tx.out) + k < BufLen /\ Dist(tx.out, tx.out) + k = k
        BY <2>2, <3>1
      <3>3. Dist(tx.out, Place(tx.out, k)) = k
        BY <1>0, <2>2, <3>2, RingWays
      <3> QED  BY <1>0, <2>3, <3>3, DistIs
    <2>5. tx'.buf[Place(tx'.out, i - 1)] = tx.buf[Place(tx.out, k)]
      BY <1>2, <2>2, <2>3, <2>4
    <2>6. tx.buf[Place(tx.out, k)] = owed[k + 1]
      <3>1. k + 1 \in 1 .. Len(owed) /\ (k + 1) - 1 = k
        BY <1>0
      <3> QED  BY <1>0, <3>1
    <2> QED  BY <1>5, <2>0, <2>1, <2>5, <2>6
  <1> QED  BY <1>2, <1>3, <1>4, <1>5, <1>6, <1>7 DEF RingHolds

(* What the handler takes in and gives out is bounded by both sides. *)
LEMMA IrqTakes ==
    ASSUME ConsoleInv, NEW r, NEW w,
           r = IF RI THEN Fewer(host.rx, RxFree) ELSE 0,
           w = IF WI THEN Fewer(Depth - host.tx, TxUsed) ELSE 0
    PROVE  /\ r \in 0 .. BufLen /\ host.rx - r \in 0 .. Depth
           /\ w \in 0 .. Len(owed) /\ host.tx + w \in 0 .. Depth
           /\ RI /\ host.rx > r => Place(rx.in, r) # rx.out
           /\ WI /\ Depth - host.tx > w => w = Len(owed)
           /\ ~ RI => r = 0
PROOF
  <1>0. /\ tx.in \in Ring /\ tx.out \in Ring /\ rx.in \in Ring /\ rx.out \in Ring
        /\ host.tx \in 0 .. Depth /\ host.rx \in 0 .. Depth
        /\ Dist(tx.out, tx.in) = Len(owed) /\ Len(owed) \in Nat
    BY DEF ConsoleInv, ConsoleTypes, RingHolds
  <1>00. BufLen \in Nat /\ BufLen > 1 /\ Ring = 0 .. BufLen - 1 /\ Depth \in Nat
    BY ConsoleGiven
  <1>1. TxUsed = Len(owed)
    BY <1>0, DistIs DEF TxUsed
  <1>2. RxFree = IF rx.in = rx.out THEN BufLen - 1 ELSE Dist(rx.in, rx.out) - 1
    BY <1>0, RoomIs DEF RxFree
  <1>3. Dist(rx.in, rx.out) \in Ring /\ (rx.in # rx.out => Dist(rx.in, rx.out) > 0)
    <2>1. Dist(rx.in, rx.out) \in Ring /\ (Dist(rx.in, rx.out) = 0 <=> rx.in = rx.out)
      BY <1>0, DistIs, RingWays
    <2> QED  BY <1>00, <2>1
  <1>4. RxFree \in 0 .. BufLen - 1
    BY <1>00, <1>2, <1>3
  <1>5. w \in 0 .. Len(owed) /\ host.tx + w \in 0 .. Depth /\ (WI /\ Depth - host.tx > w => w = Len(owed))
    <2>1. CASE WI
      <3>1. w = Fewer(Depth - host.tx, Len(owed))
        BY <1>1, <2>1
      <3>2. Depth - host.tx \in Nat /\ host.tx \in Nat
        BY <1>0, <1>00
      <3>3. /\ w \in Nat /\ w <= Depth - host.tx /\ w <= Len(owed)
            /\ Depth - host.tx > w => w = Len(owed)
        BY <1>0, <3>1, <3>2 DEF Fewer
      <3> QED  BY <1>0, <1>00, <3>2, <3>3
    <2>2. CASE ~ WI
      BY <1>0, <1>00, <2>2
    <2> QED  BY <2>1, <2>2
  <1>6. /\ r \in 0 .. BufLen - 1 /\ host.rx - r \in 0 .. Depth /\ (RI /\ host.rx > r => r = RxFree)
        /\ ~ RI => r = 0
    BY <1>0, <1>00, <1>4 DEF Fewer
  <1>7. Place(rx.in, RxFree) # rx.out
    <2>1. CASE rx.in = rx.out
      BY <1>0, <1>00, <1>2, <2>1 DEF Place
    <2>2. CASE rx.in # rx.out
      BY <1>0, <1>00, <1>2, <2>2 DEF Place, Dist
    <2> QED  BY <2>1, <2>2
  <1> QED  BY <1>00, <1>5, <1>6, <1>7

LEMMA IrqStep ==
    ASSUME ConsoleInv, Irq
    PROVE  ConsoleInv'
PROOF
  <1>0. /\ rx \in [in : Ring, out : Ring] /\ rx.in \in Ring /\ host \in HostType /\ tx.out \in Ring
        /\ irqEnable \in SUBSET {"RE", "WE"} /\ events \in SUBSET Flags3 /\ con \in [User -> ConRecord]
    BY DEF ConsoleInv, ConsoleTypes, HostType, ConRecord
  <1>1. PICK r : r = IF RI THEN Fewer(host.rx, RxFree) ELSE 0
    OBVIOUS
  <1>2. PICK w : w = IF WI THEN Fewer(Depth - host.tx, TxUsed) ELSE 0
    OBVIOUS
  <1>3. /\ r \in 0 .. BufLen /\ host.rx - r \in 0 .. Depth
        /\ w \in 0 .. Len(owed) /\ host.tx + w \in 0 .. Depth
        /\ RI /\ host.rx > r => Place(rx.in, r) # rx.out
        /\ WI /\ Depth - host.tx > w => w = Len(owed)
        /\ ~ RI => r = 0
    BY <1>1, <1>2, IrqTakes
  <1>4. /\ rx' = [rx EXCEPT !.in = (rx.in + r) % BufLen]
        /\ tx' = [tx EXCEPT !.out = (tx.out + w) % BufLen,
                            !.buf = [i \in Ring |-> IF (i - tx.out) % BufLen < w THEN Free ELSE tx.buf[i]]]
        /\ host' = [host EXCEPT !.rx = host.rx - r, !.tx = host.tx + w]
        /\ events' = events \cup Posts(r, "READ_RDY") \cup Posts(w, "WRITE_RDY")
        /\ irqEnable' = IrqEnabled(r, w)
        /\ owed' = SubSeq(owed, w + 1, Len(owed))
        /\ UNCHANGED <<lock, con>>
    BY <1>1, <1>2 DEF Irq
  <1>5. /\ tx' \in [in : Ring, out : Ring, buf : [Ring -> User \cup {Free}]] /\ tx'.in = tx.in
        /\ w = 0 => tx'.out = tx.out
        /\ owed' \in Seq(User) /\ Len(owed') = Len(owed) - w /\ RingHolds'
    BY <1>3, <1>4, BytesSent
  <1>6. rx'.in = Place(rx.in, r) /\ rx'.out = rx.out /\ rx' \in [in : Ring, out : Ring]
        /\ (r = 0 => rx'.in = rx.in)
    <2>1. (rx.in + r) % BufLen = Place(rx.in, r) /\ Place(rx.in, r) \in Ring
      BY <1>0, <1>3, PlaceIs
    <2>2. Place(rx.in, 0) = rx.in
      BY <1>0, RingWays
    <2> QED  BY <1>0, <1>4, <2>1, <2>2
  <1>7. /\ events \subseteq events' /\ events' \in SUBSET Flags3
        /\ r # 0 => "READ_RDY" \in events'
        /\ w # 0 => "WRITE_RDY" \in events'
    <2>1. (r # 0 => r > 0) /\ (w # 0 => w > 0)
      BY <1>3
    <2> QED  BY <1>0, <1>4, <2>1 DEF Posts, Flags3
  <1>8. /\ irqEnable' \in SUBSET {"RE", "WE"}
        /\ "RE" \in irqEnable => "RE" \in irqEnable' \/ (RI /\ host.rx > r)
        /\ "WE" \in irqEnable => "WE" \in irqEnable' \/ (WI /\ Depth - host.tx > w)
    BY <1>0, <1>4 DEF IrqEnabled
  <1>9. host' \in HostType
    BY <1>0, <1>3, <1>4 DEF HostType
  <1>10. ConsoleTypes'
    BY <1>4, <1>5, <1>6, <1>7, <1>8, <1>9 DEF ConsoleInv, ConsoleTypes, HostType
  <1>11. Len(owed) \in Nat /\ Len(owed') <= Len(owed)
    <2>1. Len(owed) \in Nat
      BY DEF ConsoleInv, ConsoleTypes
    <2> QED  BY <1>3, <1>5, <2>1
  <1>12. ASSUME NEW u \in User, con'[u].pc \in Holding
         PROVE  /\ lock'.write = u /\ u \in Printer
                /\ con'[u].pc = "copy" => con'[u].in = tx'.in /\ Len(owed') <= Dist(con'[u].out, tx'.in)
                /\ con'[u].pc = "wwait" \/ (con'[u].pc = "kick" /\ con'[u].left > 0) =>
                     "WRITE_RDY" \in events' \/ tx'.out = con'[u].out
    <2>1. /\ lock.write = u /\ u \in Printer
          /\ con[u].pc = "copy" => con[u].in = tx.in /\ Len(owed) <= Dist(con[u].out, tx.in)
          /\ con[u].pc = "wwait" \/ (con[u].pc = "kick" /\ con[u].left > 0) =>
               "WRITE_RDY" \in events \/ tx.out = con[u].out
      BY <1>4, <1>12 DEF ConsoleInv, WriterAlone
    <2>2. con[u].pc = "copy" => Len(owed') <= Dist(con[u].out, tx.in)
      <3>1. con[u].out \in Ring /\ tx.in \in Ring
        BY <1>0 DEF ConRecord, ConsoleInv, ConsoleTypes
      <3>2. Dist(con[u].out, tx.in) \in Ring
        BY <3>1, DistIs
      <3>3. Len(owed') \in Nat
        BY <1>5
      <3> QED  BY <1>11, <2>1, <3>2, <3>3, ConsoleGiven
    <2> QED  BY <1>4, <1>5, <1>7, <2>1, <2>2
  <1>13. WriterAlone'
    BY <1>12 DEF WriterAlone
  <1>14. SenderIsOn'
    <2> SUFFICES ASSUME owed' # <<>>
                 PROVE  "WE" \in irqEnable' \/ \E t \in Printer : con[t].pc \in {"snap", "copy", "kick"}
      BY <1>4 DEF SenderIsOn
    <2>1. Len(owed') # 0
      BY <1>5, EmptySeq
    <2>2. w # Len(owed) /\ owed # <<>>
      BY <1>3, <1>5, <1>11, <2>1
    <2> QED  BY <1>3, <1>8, <2>2 DEF ConsoleInv, SenderIsOn
  <1>15. ReceiverIsOn'
    <2>1. "RE" \in irqEnable' \/ rx'.in # rx'.out \/ (con'[Scanner].pc \in {"fetch", "rpost", "rearm"} /\ con'[Scanner].got)
      <3>1. CASE "RE" \in irqEnable
        BY <1>3, <1>6, <1>8, <3>1
      <3>2. CASE "RE" \notin irqEnable
        BY <1>3, <1>4, <1>6, <3>2 DEF RI, ConsoleInv, ReceiverIsOn
      <3> QED  BY <3>1, <3>2
    <2>2. con[Scanner].pc = "rwait" => "READ_RDY" \in events' \/ rx'.in = con[Scanner].in
      BY <1>6, <1>7 DEF ConsoleInv, ReceiverIsOn
    <2> QED  BY <1>4, <2>1, <2>2 DEF ConsoleInv, ReceiverIsOn
  <1> QED  BY <1>5, <1>10, <1>13, <1>14, <1>15 DEF ConsoleInv

(* The alarm, the host and a task that suspends another leave the rings alone. *)
LEMMA RingsRest ==
    ASSUME ConsoleInv, UNCHANGED <<tx, rx, irqEnable, lock, con, owed>>, host' \in HostType,
           events \subseteq events', events' \in SUBSET Flags3
    PROVE  ConsoleInv'
PROOF
  <1>1. ConsoleTypes'
    BY DEF ConsoleInv, ConsoleTypes, HostType
  <1>2. RingHolds' /\ SenderIsOn'
    BY DEF ConsoleInv, RingHolds, SenderIsOn
  <1>3. WriterAlone'
    BY DEF ConsoleInv, WriterAlone
  <1>4. ReceiverIsOn'
    BY DEF ConsoleInv, ReceiverIsOn
  <1> QED  BY <1>1, <1>2, <1>3, <1>4 DEF ConsoleInv

LEMMA HostSteps ==
    ASSUME ConsoleInv, \/ InactiveAlarm \/ HostTakes \/ HostSends
                       \/ \E s \in 1 .. 2 : SetTimeout(s)
                       \/ \E t \in Printer : Park(t) \/ Unpark(t)
                       \/ UNCHANGED consoleVars
    PROVE  ConsoleInv'
PROOF
  <1>0. host \in HostType /\ events \in SUBSET Flags3 /\ Depth \in Nat \ {0} /\ MaxInactive \in Nat
    BY ConsoleGiven DEF ConsoleInv, ConsoleTypes, HostType
  <1>1. CASE InactiveAlarm
    <2>1. PICK n \in Nat : host' = [host EXCEPT !.ac = FALSE, !.inactive = n]
      <3>1. PICK n : n = IF host.ac THEN 0 ELSE IF host.inactive < MaxInactive THEN host.inactive + 1 ELSE host.inactive
        OBVIOUS
      <3>2. n \in Nat
        BY <1>0, <3>1 DEF HostType
      <3> QED  BY <1>1, <3>1, <3>2 DEF InactiveAlarm
    <2>2. host' \in HostType
      BY <1>0, <2>1 DEF HostType
    <2>3. events \subseteq events' /\ events' \in SUBSET Flags3
      BY <1>0, <1>1 DEF InactiveAlarm, Flags3
    <2> QED  BY <1>1, <2>2, <2>3, RingsRest DEF InactiveAlarm
  <1>2. CASE HostTakes
    <2>1. host.tx - 1 \in 0 .. Depth
      BY <1>0, <1>2 DEF HostTakes, HostType
    <2>2. host' = [host EXCEPT !.tx = host.tx - 1, !.ac = TRUE]
      BY <1>2 DEF HostTakes
    <2>3. host' \in HostType
      BY <1>0, <2>1, <2>2 DEF HostType
    <2> QED  BY <1>0, <1>2, <2>3, RingsRest DEF HostTakes
  <1>3. CASE HostSends
    <2>1. host.rx + 1 \in 0 .. Depth
      BY <1>0, <1>3 DEF HostSends, HostType
    <2>2. host' = [host EXCEPT !.rx = host.rx + 1, !.ac = TRUE]
      BY <1>3 DEF HostSends
    <2>3. host' \in HostType
      BY <1>0, <2>1, <2>2 DEF HostType
    <2> QED  BY <1>0, <1>3, <2>3, RingsRest DEF HostSends
  <1>4. ASSUME NEW s \in 1 .. 2, SetTimeout(s)
        PROVE  ConsoleInv'
    <2>1. host' \in HostType
      BY <1>0, <1>4 DEF SetTimeout, HostType
    <2> QED  BY <1>0, <1>4, <2>1, RingsRest DEF SetTimeout
  <1>5. ASSUME NEW t \in Printer, Park(t) \/ Unpark(t)
        PROVE  ConsoleInv'
    BY <1>0, <1>5, RingsRest DEF Park, Unpark
  <1>6. CASE UNCHANGED consoleVars
    BY <1>0, <1>6, RingsRest DEF consoleVars
  <1> QED  BY <1>1, <1>2, <1>3, <1>4, <1>5, <1>6

LEMMA ConsoleStarts == ConsoleInit => ConsoleInv
PROOF
  <1> SUFFICES ASSUME ConsoleInit
               PROVE  ConsoleInv
    OBVIOUS
  <1>1. /\ 0 \in Ring /\ Depth \in Nat \ {0} /\ Timeout \in Nat /\ Scanner \in User /\ Free \in User \cup {Free}
    BY ConsoleGiven
  <1>2. \A t \in User : con[t] = Outside
    BY DEF ConsoleInit
  <1>3. tx \in [in : Ring, out : Ring, buf : [Ring -> User \cup {Free}]]
    BY <1>1 DEF ConsoleInit
  <1>4. host \in [tx : 0 .. Depth, rx : 0 .. Depth, inactive : Nat, ac : BOOLEAN, timeout : Nat]
    BY <1>1 DEF ConsoleInit
  <1>5. con \in [User -> ConRecord]
    BY OutsideIsRecord DEF ConsoleInit
  <1>6. owed = <<>> /\ owed \in Seq(User) /\ Len(owed) = 0
    BY DEF ConsoleInit
  <1>7. ConsoleTypes
    BY <1>1, <1>3, <1>4, <1>5, <1>6 DEF ConsoleInit, ConsoleTypes, ConRecord
  <1>8. RingHolds
    BY <1>6, <1>1 DEF ConsoleInit, RingHolds, Dist
  <1>9. WriterAlone
    BY <1>2, OutsideIsRecord DEF WriterAlone, Holding
  <1>10. SenderIsOn /\ ReceiverIsOn
    BY <1>1, <1>2, <1>6, OutsideIsRecord DEF ConsoleInit, SenderIsOn, ReceiverIsOn
  <1> QED  BY <1>7, <1>8, <1>9, <1>10 DEF ConsoleInv

LEMMA ConsoleSteps == ConsoleInv /\ (PrintNext \/ ScanNext \/ UNCHANGED consoleVars) => ConsoleInv'
PROOF
  <1> SUFFICES ASSUME ConsoleInv, PrintNext \/ ScanNext \/ UNCHANGED consoleVars
               PROVE  ConsoleInv'
    OBVIOUS
  <1>0. MaxPrint \in Nat /\ Scanner \in User /\ Scanner \notin Printer /\ Printer \subseteq User
    BY ConsoleGiven, ConsoleAssumption
  <1>1. ASSUME NEW t \in Printer, NEW n \in 1 .. MaxPrint, EnterDriver(t, "wlock", n)
        PROVE  ConsoleInv'
    <2>1. n \in Nat /\ t \in User /\ t # Scanner
      BY <1>0
    <2> QED  BY <1>1, <2>1, EnterStep
  <1>2. ASSUME NEW t \in Printer, EnterDriver(t, "close", 0)
        PROVE  ConsoleInv'
    <2>1. 0 \in Nat /\ t \in User /\ t # Scanner
      BY <1>0
    <2> QED  BY <1>2, <2>1, EnterStep
  <1>3. ASSUME NEW n \in 1 .. MaxPrint, EnterDriver(Scanner, "rlock", n)
        PROVE  ConsoleInv'
    <2>1. n \in Nat /\ n > 0
      BY <1>0
    <2> QED  BY <1>0, <1>3, <2>1, EnterStep
  <1>4. ASSUME NEW t \in Printer,
               WriteLock(t) \/ WriteSnapshot(t) \/ WriteCopy(t) \/ WriteKick(t) \/ WriteWait(t)
               \/ WritePost(t) \/ CloseConsole(t)
        PROVE  ConsoleInv'
    BY <1>4, WriteLockStep, WriteSnapshotStep, WriteCopyStep, WriteKickStep, WriteWaitStep, WriteEnds
  <1>5. CASE ReadLock(Scanner) \/ ReadFetch(Scanner) \/ ReadWait(Scanner) \/ ReadPost(Scanner) \/ ReadRearm(Scanner)
    BY <1>5, ReadLockStep, ReadFetchStep, ReadWaitStep, ReadEnds
  <1>6. CASE Irq
    BY <1>6, IrqStep
  <1>7. CASE \/ InactiveAlarm \/ HostTakes \/ HostSends
             \/ \E s \in 1 .. 2 : SetTimeout(s)
             \/ \E t \in Printer : Park(t) \/ Unpark(t)
             \/ UNCHANGED consoleVars
    BY <1>7, HostSteps
  <1>8. CASE PrintNext
    BY <1>1, <1>2, <1>4, <1>6, <1>7, <1>8 DEF PrintNext
  <1>9. CASE ScanNext
    BY <1>3, <1>5, <1>6, <1>7, <1>9 DEF ScanNext
  <1> QED  BY <1>7, <1>8, <1>9

LEMMA ConsoleAgrees == ConsoleInv => ConsoleHolds
PROOF
  <1> SUFFICES ASSUME ConsoleInv
               PROVE  ConsoleHolds
    OBVIOUS
  <1>0. /\ tx.in \in Ring /\ tx.out \in Ring /\ Dist(tx.out, tx.in) = Len(owed) /\ Len(owed) \in Nat
        /\ \A i \in 1 .. Len(owed) : tx.buf[Place(tx.out, i - 1)] = owed[i]
        /\ BufLen \in Nat /\ Ring = 0 .. BufLen - 1 /\ Printer \subseteq User
    BY ConsoleGiven DEF ConsoleInv, ConsoleTypes, RingHolds
  <1>1. TxUsed = Len(owed) /\ Len(owed) \in Ring
    BY <1>0, DistIs DEF TxUsed
  <1>2. ASSUME NEW i \in 1 .. Len(owed)
        PROVE  tx.buf[(tx.out + i - 1) % BufLen] = owed[i]
    <2>1. i - 1 \in 0 .. BufLen /\ tx.out + i - 1 = tx.out + (i - 1)
      BY <1>0, <1>1
    <2>2. (tx.out + (i - 1)) % BufLen = Place(tx.out, i - 1)
      BY <1>0, <2>1, PlaceIs
    <2> QED  BY <1>0, <2>1, <2>2
  <1>3. ConsoleKeepsMoving
    <2>1. \A t \in Printer : con[t].pc = "wwait" /\ "WRITE_RDY" \notin events => tx.out = con[t].out
      BY <1>0 DEF ConsoleInv, WriterAlone, Holding
    <2>2. con[Scanner].pc = "rwait" /\ "READ_RDY" \notin events => rx.in = con[Scanner].in
      BY DEF ConsoleInv, ReceiverIsOn
    <2>3. "RE" \notin irqEnable => rx.in # rx.out \/ con[Scanner].pc \in {"fetch", "rpost", "rearm"}
      BY DEF ConsoleInv, ReceiverIsOn
    <2> QED  BY <2>1, <2>2, <2>3 DEF ConsoleInv, SenderIsOn, ConsoleKeepsMoving
  <1> QED  BY <1>1, <1>2, <1>3 DEF ConsoleHolds, BytesInOrder
=============================================================================
