---------------------------- MODULE RouteProofs -----------------------------
(***************************************************************************)
(* The record is right about the rover, however long the route and         *)
(* whatever turns it takes: the direction it faces, the place it has come  *)
(* to, and the verdict on the course.  The sums over the steps of a route  *)
(* are unfolded by induction on the size of a set, carried out as the      *)
(* smallest counterexample.                                                *)
(***************************************************************************)
EXTENDS Route, FiniteSetTheorems, WellFoundedInduction, TLAPS

Types ==
    /\ TRVL \in [0..MaxSteps -> Step]
    /\ TRVL_INDEX \in 1..MaxSteps
    /\ ENCODER_0A \in Int
    /\ ENCODER_INIT \in Int
    /\ heading \in Direction
    /\ retired \in BOOLEAN
    /\ step \in Int
    /\ steps \in Nat

(* The steps below TRVL_INDEX are complete. *)
Complete == \A i \in 0..(TRVL_INDEX - 1) : TRVL[i].dir \in Direction

HeadingInv == Types /\ Complete /\ HeadingIsRecorded

-----------------------------------------------------------------------------
(* The table of newDir turns as the rover does.                            *)
LEMMA newDirTurns ==
    ASSUME NEW d \in Direction
    PROVE  /\ newDir(d, "F") = d
           /\ newDir(d, "L") = Turned(d, Quarters["L"])
           /\ newDir(d, "R") = Turned(d, Quarters["R"])
           /\ newDir(d, "B") = Turned(d, Quarters["B"])
<1>1. ASSUME NEW q \in 1..3, NEW e \in Direction, Bearing[e] = (Bearing[d] + q) % 4
      PROVE  Turned(d, q) = e
  <2>1. \A f \in Direction : Bearing[f] = Bearing[e] => f = e
    BY SMT DEF Direction, Bearing
  <2> QED  BY <1>1, <2>1, Zenon DEF Turned
<1>2. Quarters["L"] = 3 /\ Quarters["R"] = 1 /\ Quarters["B"] = 2
  BY DEF Quarters
<1>3. /\ newDir(d, "F") = d
      /\ newDir(d, "L") \in Direction /\ newDir(d, "R") \in Direction /\ newDir(d, "B") \in Direction
      /\ Bearing[newDir(d, "L")] = (Bearing[d] + 3) % 4
      /\ Bearing[newDir(d, "R")] = (Bearing[d] + 1) % 4
      /\ Bearing[newDir(d, "B")] = (Bearing[d] + 2) % 4
  BY SMT DEF newDir, Direction, Bearing
<1> QED  BY <1>1, <1>2, <1>3

LEMMA TurnedTurns ==
    ASSUME NEW d \in Direction, NEW q \in 1..3
    PROVE  Turned(d, q) \in Direction
<1>1. \E e \in Direction : Bearing[e] = (Bearing[d] + q) % 4
  BY SMT DEF Direction, Bearing
<1> QED  BY <1>1 DEF Turned

LEMMA DirAfterMove ==
    ASSUME Types, Complete, NEW move \in {"F", "L", "R", "B"}
    PROVE  /\ DirAfter(move) \in Direction
           /\ HeadingIsRecorded /\ Recording =>
                  DirAfter(move) = IF move = "F" THEN heading ELSE Turned(heading, Quarters[move])
<1>1. TRVL[TRVL_INDEX - 1].dir \in Direction
  <2>1. TRVL_INDEX - 1 \in 0..(TRVL_INDEX - 1)
    BY SMT DEF Types
  <2> QED  BY <2>1 DEF Complete
<1>2. move # "F" => Quarters[move] \in 1..3
  BY SMT DEF Quarters
<1>3. ASSUME NEW d \in Direction
      PROVE  newDir(d, move) = IF move = "F" THEN d ELSE Turned(d, Quarters[move])
  BY <1>3, newDirTurns
<1> QED  BY <1>1, <1>2, <1>3, TurnedTurns DEF DirAfter, HeadingIsRecorded

(* A new step at TRVL_INDEX that faces where the rover now does. *)
LEMMA StepRecorded ==
    ASSUME HeadingInv, TRVL_INDEX < MaxSteps, TRVL_INDEX' = TRVL_INDEX + 1,
           NEW s \in Step, s.dir \in Direction,
           TRVL' = [TRVL EXCEPT ![TRVL_INDEX] = s],
           Recording' => heading' = s.dir
    PROVE  /\ TRVL' \in [0..MaxSteps -> Step] /\ TRVL_INDEX' \in 1..MaxSteps
           /\ Complete' /\ HeadingIsRecorded'
<1> USE DEF HeadingInv, Types
<1>1. TRVL_INDEX \in 0..MaxSteps /\ TRVL_INDEX' \in 1..MaxSteps /\ TRVL_INDEX' - 1 = TRVL_INDEX
  BY RouteAssumption, SMT
<1>2. TRVL' \in [0..MaxSteps -> Step] /\ TRVL'[TRVL_INDEX] = s
  BY <1>1
<1>3. Complete'
  <2> SUFFICES ASSUME NEW i \in 0..TRVL_INDEX PROVE TRVL'[i].dir \in Direction
    BY <1>1 DEF Complete
  <2>1. i \in 0..MaxSteps /\ (i = TRVL_INDEX \/ i \in 0..(TRVL_INDEX - 1))
    BY RouteAssumption, SMT
  <2>2. CASE i = TRVL_INDEX
    BY <1>2, <2>2
  <2>3. CASE i # TRVL_INDEX
    BY <1>2, <2>1, <2>3 DEF Complete
  <2> QED  BY <2>2, <2>3
<1>4. HeadingIsRecorded'
  BY <1>1, <1>2 DEF HeadingIsRecorded
<1> QED  BY <1>1, <1>2, <1>3, <1>4

(* A change of the step at TRVL_INDEX alone. *)
LEMMA OpenStepChanged ==
    ASSUME HeadingInv, TRVL_INDEX' = TRVL_INDEX, NEW s \in Step,
           TRVL' = [TRVL EXCEPT ![TRVL_INDEX] = s],
           Recording' => heading' = heading /\ Recording
    PROVE  TRVL' \in [0..MaxSteps -> Step] /\ Complete' /\ HeadingIsRecorded'
<1> USE DEF HeadingInv, Types
<1>1. ASSUME NEW i \in 0..(TRVL_INDEX - 1) PROVE TRVL'[i] = TRVL[i]
  <2>1. i \in 0..MaxSteps /\ i # TRVL_INDEX
    BY RouteAssumption, SMT
  <2> QED  BY <2>1
<1>2. TRVL_INDEX - 1 \in 0..(TRVL_INDEX - 1)
  BY SMT
<1> QED  BY <1>1, <1>2 DEF Complete, HeadingIsRecorded

LEMMA HeadingInit == Init => HeadingInv
<1> SUFFICES ASSUME Init PROVE HeadingInv
  OBVIOUS
<1>1. /\ 0 \in 0..MaxSteps /\ 1 \in 1..MaxSteps /\ -1 \in Int /\ 0 \in Nat /\ 0 \in Int /\ 1 \in Int
      /\ 1 - 1 = 0 /\ 0..(1 - 1) = {0}
  BY RouteAssumption, SMT
<1>2. TRVL[0] = [move |-> "F", dir |-> "N", count |-> 1]
  BY <1>1 DEF Init
<1>3. TRVL \in [0..MaxSteps -> Step]
  BY <1>1, Zenon DEF Init, Step, Direction
<1>4. Types
  BY <1>1, <1>3, Zenon DEF Init, Types, Direction
<1>5. Complete /\ HeadingIsRecorded
  BY <1>1, <1>2, Zenon DEF Init, Complete, HeadingIsRecorded, Direction
<1> QED  BY <1>4, <1>5 DEF HeadingInv

LEMMA CountTypes ==
    ASSUME ENCODER_0A \in Int, NEW n \in Int, Count(n)
    PROVE  ENCODER_0A' \in Int
  BY SMT DEF Count

LEMMA OpenLegKeeps == HeadingInv /\ OpenLeg => HeadingInv'
<1> SUFFICES ASSUME HeadingInv, OpenLeg PROVE HeadingInv'
  OBVIOUS
<1> DEFINE s == [TRVL[TRVL_INDEX] EXCEPT !.move = "F"]
<1>1. TRVL_INDEX \in 0..MaxSteps
  BY RouteAssumption, SMT DEF HeadingInv, Types
<1>2. s \in Step /\ TRVL' = [TRVL EXCEPT ![TRVL_INDEX] = s]
  BY <1>1 DEF OpenLeg, HeadingInv, Types, Step
<1>3. Recording' => heading' = heading /\ Recording
  BY DEF OpenLeg, history, rover, Recording
<1>4. TRVL' \in [0..MaxSteps -> Step] /\ Complete' /\ HeadingIsRecorded'
  BY <1>2, <1>3, OpenStepChanged DEF OpenLeg
<1> QED  BY <1>4 DEF OpenLeg, HeadingInv, Types, history, rover

LEMMA CloseLegKeeps == HeadingInv /\ CloseLeg => HeadingInv'
<1> SUFFICES ASSUME HeadingInv, CloseLeg PROVE HeadingInv'
  OBVIOUS
<1> DEFINE s == [TRVL[TRVL_INDEX] EXCEPT !.dir = DirAfter("F"), !.count = ENCODER_0A - ENCODER_INIT]
<1>1. TRVL_INDEX \in 0..MaxSteps /\ ENCODER_0A - ENCODER_INIT \in Int
  BY RouteAssumption, SMT DEF HeadingInv, Types
<1>2. /\ DirAfter("F") \in Direction
      /\ Recording => DirAfter("F") = heading
  BY DirAfterMove DEF HeadingInv
<1>3. s \in Step /\ s.dir = DirAfter("F") /\ TRVL' = [TRVL EXCEPT ![TRVL_INDEX] = s]
  BY <1>1, <1>2 DEF CloseLeg, HeadingInv, Types, Step
<1>4. Recording' => heading' = s.dir
  BY <1>2, <1>3 DEF CloseLeg, history, rover, Recording
<1>5. /\ TRVL' \in [0..MaxSteps -> Step] /\ TRVL_INDEX' \in 1..MaxSteps
      /\ Complete' /\ HeadingIsRecorded'
  BY <1>2, <1>3, <1>4, StepRecorded DEF CloseLeg
<1> QED  BY <1>5 DEF CloseLeg, HeadingInv, Types, history, rover

LEMMA TurnKeeps ==
    ASSUME HeadingInv, NEW move \in {"L", "R", "B"}, NEW back \in Int, Turn(move, back)
    PROVE  HeadingInv'
<1> DEFINE s == [TRVL[TRVL_INDEX] EXCEPT !.move = move, !.dir = DirAfter(move)]
<1>1. TRVL_INDEX \in 0..MaxSteps /\ ENCODER_0A \in Int /\ back + 1 \in Int
  BY RouteAssumption, SMT DEF HeadingInv, Types
<1>2. /\ DirAfter(move) \in Direction
      /\ Recording => DirAfter(move) = Turned(heading, Quarters[move])
  BY DirAfterMove DEF HeadingInv
<1>3. s \in Step /\ s.dir = DirAfter(move) /\ TRVL' = [TRVL EXCEPT ![TRVL_INDEX] = s]
  BY <1>1, <1>2 DEF Turn, HeadingInv, Types, Step
<1>4. Recording' => heading' = s.dir
  BY <1>2, <1>3 DEF Turn, history, Recording
<1>5. /\ TRVL' \in [0..MaxSteps -> Step] /\ TRVL_INDEX' \in 1..MaxSteps
      /\ Complete' /\ HeadingIsRecorded'
  BY <1>2, <1>3, <1>4, StepRecorded DEF Turn
<1>6. heading' \in Direction
  <2>1. Quarters[move] \in 1..3
    BY SMT DEF Quarters
  <2> QED  BY <2>1, TurnedTurns DEF Turn, HeadingInv, Types
<1>7. ENCODER_0A' \in Int
  BY <1>1, CountTypes DEF Turn
<1> QED  BY <1>5, <1>6, <1>7 DEF Turn, HeadingInv, Types, history

LEMMA StartReplayKeeps == HeadingInv /\ StartReplay => HeadingInv'
<1> SUFFICES ASSUME HeadingInv, StartReplay PROVE HeadingInv'
  OBVIOUS
<1> DEFINE s == IF LegOpen
                THEN [TRVL[TRVL_INDEX] EXCEPT !.dir = DirAfter("F"), !.count = ENCODER_0A - ENCODER_INIT]
                ELSE TRVL[TRVL_INDEX]
<1>1. TRVL_INDEX \in 0..MaxSteps /\ ENCODER_0A - ENCODER_INIT \in Int
  BY RouteAssumption, SMT DEF HeadingInv, Types
<1>2. DirAfter("F") \in Direction
  BY DirAfterMove DEF HeadingInv
<1>3. s \in Step /\ TRVL' = [TRVL EXCEPT ![TRVL_INDEX] = s]
  <2>1. CASE LegOpen
    BY <1>1, <1>2, <2>1 DEF StartReplay, Fill, HeadingInv, Types, Step
  <2>2. CASE ~LegOpen
    BY <1>1, <2>2 DEF StartReplay, Fill, HeadingInv, Types
  <2> QED  BY <2>1, <2>2
<1>4. ~Recording'
  BY SMT DEF StartReplay, Recording
<1>5. TRVL' \in [0..MaxSteps -> Step] /\ Complete' /\ HeadingIsRecorded'
  <2> HIDE DEF s
  <2> QED  BY <1>3, <1>4, OpenStepChanged DEF StartReplay
<1>6. heading' \in Direction /\ step' \in Int /\ steps' \in Nat
  BY TurnedTurns, SMT DEF StartReplay, HeadingInv, Types
<1> QED  BY <1>5, <1>6 DEF StartReplay, HeadingInv, Types

LEMMA ReplayKeeps == HeadingInv /\ (ReplayStep \/ EndReplay) => HeadingInv'
<1>1. ASSUME HeadingInv, ReplayStep PROVE HeadingInv'
  <2>1. step' \in Int /\ ~Recording'
    BY <1>1, SMT DEF ReplayStep, HeadingInv, Types, Recording
  <2>2. heading' \in Direction
    BY <1>1, TurnedTurns, SMT DEF ReplayStep, HeadingInv, Types, Quarters, rover
  <2> QED  BY <1>1, <2>1, <2>2 DEF ReplayStep, HeadingInv, Types, Complete, HeadingIsRecorded, record
<1>2. ASSUME HeadingInv, EndReplay PROVE HeadingInv'
  <2>1. step' \in Int /\ ~Recording'
    BY <1>2, SMT DEF EndReplay, Recording
  <2> QED  BY <1>2, <2>1 DEF EndReplay, HeadingInv, Types, Complete, HeadingIsRecorded, record, rover
<1> QED  BY <1>1, <1>2

LEMMA HeadingStep == HeadingInv /\ [Next]_vars => HeadingInv'
<1> SUFFICES ASSUME HeadingInv, [Next]_vars PROVE HeadingInv'
  OBVIOUS
<1>1. Rolls \subseteq Int /\ 0 \in Int
  BY RouteAssumption, SMT
<1>2. ASSUME NEW n \in Rolls, Roll(n) PROVE HeadingInv'
  <2>1. ENCODER_0A' \in Int
    BY <1>1, <1>2, CountTypes DEF Roll, HeadingInv, Types
  <2> QED  BY <1>2, <2>1 DEF Roll, HeadingInv, Types, Complete, HeadingIsRecorded, Recording,
                             record, history
<1>3. CASE UNCHANGED vars
  BY <1>3 DEF HeadingInv, Types, Complete, HeadingIsRecorded, Recording, vars, record, history, rover
<1>4. CASE Next
  BY <1>1, <1>2, <1>4, OpenLegKeeps, CloseLegKeeps, TurnKeeps, StartReplayKeeps, ReplayKeeps DEF Next
<1> QED  BY <1>3, <1>4

-----------------------------------------------------------------------------
(* Sums over finite sets.                                                  *)

(* What MapThenSumSet evaluates over S when its operator is v: g gives the *)
(* sum of every subset, an element chosen at a time.                       *)
Sums(g, v, S) ==
    g = [s \in SUBSET S |-> IF s = {} THEN 0
                            ELSE LET x == CHOOSE x \in s : TRUE IN v[x] + g[s \ {x}]]

(* Among subsets of a finite set there is a smallest one. *)
LEMMA SmallestSubset ==
    ASSUME NEW S, IsFiniteSet(S), NEW D \in SUBSET SUBSET S, D # {}
    PROVE  \E s \in D : \A t \in D : t \subseteq s => t = s
<1> DEFINE R == StrictSubsetOrdering(S)
<1>1. IsWellFoundedOn(R, SUBSET S)
  BY FS_StrictSubsetOrderingWellFounded, FS_FiniteSubsetsOfFinite
<1>2. \A s, t \in D : t \subseteq s /\ t # s => <<t, s>> \in R
  BY DEF StrictSubsetOrdering
<1> HIDE DEF R
<1>3. PICK s \in D : \A t \in D : ~ (<<t, s>> \in R)
  BY <1>1, WFMin
<1> QED  BY <1>2, <1>3

(* The sums exist: they are built by the size of the subset. *)
LEMMA SumsExist ==
    ASSUME NEW S, IsFiniteSet(S), NEW v
    PROVE  \E g : Sums(g, v, S)
<1> DEFINE pick(s) == CHOOSE x \in s : TRUE
           Small(n) == {s \in SUBSET S : Cardinality(s) <= n}
           Next1(g, s) == IF s = {} THEN 0 ELSE v[pick(s)] + g[s \ {pick(s)}]
           Bad == {n \in Nat : ~ \E g : g = [s \in Small(n) |-> Next1(g, s)]}
<1>1. \A s \in SUBSET S : IsFiniteSet(s) /\ Cardinality(s) \in Nat /\ Cardinality(s) <= Cardinality(S)
  BY FS_Subset, FS_CardinalityType
<1>2. \A s \in SUBSET S : s # {} => s \ {pick(s)} \in SUBSET S /\ Cardinality(s \ {pick(s)}) = Cardinality(s) - 1
  BY <1>1, FS_RemoveElement
<1>3. \A s \in SUBSET S : s # {} => Cardinality(s) # 0
  BY <1>1, FS_EmptySet
<1>4. Bad = {}
  <2> SUFFICES ASSUME Bad # {} PROVE FALSE
    OBVIOUS
  <2> DEFINE less == OpToRel(<, Nat)
  <2>1. IsWellFoundedOn(less, Nat) /\ Bad \subseteq Nat
    BY NatLessThanWellFounded
  <2>2. \A x, y \in Nat : y < x => <<y, x>> \in less
    BY DEF OpToRel
  <2> HIDE DEF less, Bad
  <2>3. PICK n \in Bad : \A m \in Bad : ~ (<<m, n>> \in less)
    BY <2>1, WFMin
  <2>4. n \in Nat /\ (n = 0 \/ (n - 1 \in Nat /\ n - 1 \notin Bad))
    <3>1. n \in Nat
      BY <2>1
    <3>2. n = 0 \/ (n - 1 \in Nat /\ n - 1 < n)
      BY <3>1
    <3> QED  BY <2>2, <2>3, <3>1, <3>2
  <2>5. CASE n = 0
    <3> DEFINE g == [s \in Small(0) |-> 0]
    <3>1. \A s \in Small(0) : s = {}
      BY <1>1, <1>3, SMT
    <3>2. g = [s \in Small(0) |-> Next1(g, s)]
      BY <3>1
    <3> QED  BY <2>5, <3>2 DEF Bad
  <2>6. CASE n - 1 \in Nat /\ n - 1 \notin Bad
    <3>1. PICK g : g = [s \in Small(n - 1) |-> Next1(g, s)]
      BY <2>6 DEF Bad
    <3> DEFINE h == [s \in Small(n) |-> IF s \in Small(n - 1) THEN g[s] ELSE Next1(g, s)]
    <3>2. ASSUME NEW s \in Small(n) PROVE h[s] = Next1(h, s)
      <4>1. CASE s = {}
        BY <3>1, <4>1
      <4>2. CASE s # {}
        <5> DEFINE t == s \ {pick(s)}
        <5>1. t \in SUBSET S /\ Cardinality(t) = Cardinality(s) - 1 /\ Cardinality(s) \in Nat /\ Cardinality(s) <= n
          BY <1>1, <1>2, <4>2
        <5>2. t \in Small(n - 1) /\ t \in Small(n)
          <6> HIDE DEF t
          <6> QED  BY <2>4, <5>1, SMT
        <5>3. h[t] = g[t]
          <6> HIDE DEF t
          <6> QED  BY <5>2
        <5>4. h[s] = v[pick(s)] + g[t]
          <6>1. CASE s \in Small(n - 1)
            BY <3>1, <4>2, <6>1
          <6>2. CASE s \notin Small(n - 1)
            BY <4>2, <6>2
          <6> QED  BY <6>1, <6>2
        <5> QED  BY <4>2, <5>3, <5>4
      <4> QED  BY <4>1, <4>2
    <3>3. h = [s \in Small(n) |-> Next1(h, s)]
      <4> DEFINE k == [s \in Small(n) |-> Next1(h, s)]
      <4>1. \A s \in Small(n) : h[s] = k[s]
        <5> HIDE DEF h
        <5> QED  BY <3>2
      <4>2. DOMAIN h = Small(n) /\ DOMAIN k = Small(n) /\ h = [s \in DOMAIN h |-> h[s]] /\ k = [s \in DOMAIN k |-> k[s]]
        OBVIOUS
      <4> HIDE DEF h, k
      <4>3. h = k
        BY <4>1, <4>2
      <4> QED  BY <4>3 DEF k
    <3> QED  BY <2>3, <3>3 DEF Bad
  <2> QED  BY <2>4, <2>5, <2>6
<1>5. Cardinality(S) \in Nat /\ Small(Cardinality(S)) = SUBSET S
  BY <1>1, FS_CardinalityType
<1>6. PICK g : g = [s \in Small(Cardinality(S)) |-> Next1(g, s)]
  BY <1>4, <1>5
<1>7. g = [s \in SUBSET S |-> Next1(g, s)]
  BY <1>5, <1>6
<1> QED  BY <1>7 DEF Sums

LEMMA SumsUnfold ==
    ASSUME NEW S, NEW v, NEW g, Sums(g, v, S), NEW s \in SUBSET S, s # {}
    PROVE  \E x \in s : g[s] = v[x] + g[s \ {x}]
<1>1. (CHOOSE x \in s : TRUE) \in s
  OBVIOUS
<1> QED  BY <1>1 DEF Sums

LEMMA SumsEmpty ==
    ASSUME NEW S, NEW v, NEW g, Sums(g, v, S)
    PROVE  g[{}] = 0
  BY DEF Sums

LEMMA SumsTyped ==
    ASSUME NEW S, IsFiniteSet(S), NEW v, \A x \in S : v[x] \in Int, NEW g, Sums(g, v, S)
    PROVE  \A s \in SUBSET S : g[s] \in Int
<1> DEFINE Bad == {s \in SUBSET S : g[s] \notin Int}
<1> SUFFICES ASSUME Bad # {} PROVE FALSE
  OBVIOUS
<1>1. PICK s \in Bad : \A t \in Bad : t \subseteq s => t = s
  <2> HIDE DEF Bad
  <2>1. Bad \in SUBSET SUBSET S
    BY DEF Bad
  <2> QED  BY <2>1, SmallestSubset
<1>2. s # {}
  BY SumsEmpty
<1>3. PICK x \in s : g[s] = v[x] + g[s \ {x}]
  BY <1>2, SumsUnfold
<1>4. s \ {x} \in SUBSET S /\ s \ {x} \notin Bad
  BY <1>1
<1> QED  BY <1>3, <1>4

(* It does not matter which element is taken out. *)
LEMMA SumsTakeOut ==
    ASSUME NEW S, IsFiniteSet(S), NEW v, \A x \in S : v[x] \in Int, NEW g, Sums(g, v, S)
    PROVE  \A s \in SUBSET S, x \in S : x \in s => g[s] = v[x] + g[s \ {x}]
<1> DEFINE Bad == {s \in SUBSET S : \E x \in s : g[s] # v[x] + g[s \ {x}]}
<1> SUFFICES ASSUME Bad # {} PROVE FALSE
  OBVIOUS
<1>1. PICK s \in Bad : \A t \in Bad : t \subseteq s => t = s
  <2> HIDE DEF Bad
  <2>1. Bad \in SUBSET SUBSET S
    BY DEF Bad
  <2> QED  BY <2>1, SmallestSubset
<1>2. PICK x \in s : g[s] # v[x] + g[s \ {x}]
  OBVIOUS
<1>3. PICK y \in s : g[s] = v[y] + g[s \ {y}]
  BY SumsUnfold
<1>4. x # y
  BY <1>2, <1>3
<1> DEFINE r == (s \ {x}) \ {y}
<1>5. r = (s \ {y}) \ {x}
  OBVIOUS
<1>6. g[s \ {y}] = v[x] + g[r]
  <2>1. s \ {y} \in SUBSET S /\ s \ {y} \notin Bad /\ x \in s \ {y}
    BY <1>1, <1>4
  <2> QED  BY <1>5, <2>1
<1>7. g[s \ {x}] = v[y] + g[r]
  <2>1. s \ {x} \in SUBSET S /\ s \ {x} \notin Bad /\ y \in s \ {x}
    BY <1>1, <1>4
  <2> QED  BY <2>1
<1>8. v[x] \in Int /\ v[y] \in Int /\ g[r] \in Int
  BY SumsTyped
<1> QED
  <2> HIDE DEF r
  <2> QED  BY <1>2, <1>3, <1>6, <1>7, <1>8

(* The sum of a set depends on nothing but the values of its elements. *)
LEMMA SumsAgree ==
    ASSUME NEW S, IsFiniteSet(S), NEW v, \A x \in S : v[x] \in Int, NEW g, Sums(g, v, S),
           NEW T, IsFiniteSet(T), NEW w, \A x \in T : w[x] \in Int, NEW h, Sums(h, w, T),
           NEW u \in SUBSET S, u \in SUBSET T, \A x \in u : v[x] = w[x]
    PROVE  g[u] = h[u]
<1> DEFINE Bad == {s \in SUBSET u : g[s] # h[s]}
<1> SUFFICES ASSUME Bad # {} PROVE FALSE
  OBVIOUS
<1>0. IsFiniteSet(u)
  BY FS_Subset
<1>1. PICK s \in Bad : \A t \in Bad : t \subseteq s => t = s
  <2> HIDE DEF Bad
  <2>1. Bad \in SUBSET SUBSET u
    BY DEF Bad
  <2> QED  BY <1>0, <2>1, SmallestSubset
<1>2. s # {}
  BY SumsEmpty
<1>3. PICK x \in s : TRUE
  BY <1>2
<1>4. g[s] = v[x] + g[s \ {x}]
  BY SumsTakeOut
<1>5. h[s] = w[x] + h[s \ {x}]
  BY SumsTakeOut
<1>6. s \ {x} \in SUBSET u /\ s \ {x} \notin Bad
  BY <1>1
<1> QED  BY <1>4, <1>5, <1>6

Total(v, S) == (CHOOSE g : Sums(g, v, S))[S]

LEMMA TotalIsSum ==
    ASSUME NEW S, IsFiniteSet(S), NEW v
    PROVE  \E g : Sums(g, v, S) /\ Total(v, S) = g[S]
<1>1. Sums(CHOOSE g : Sums(g, v, S), v, S)
  BY SumsExist
<1> QED  BY <1>1 DEF Total

LEMMA TotalDependsOn ==
    ASSUME NEW S, IsFiniteSet(S), NEW v, NEW w,
           \A x \in S : v[x] \in Int /\ v[x] = w[x]
    PROVE  Total(v, S) = Total(w, S)
<1>1. PICK g : Sums(g, v, S) /\ Total(v, S) = g[S]
  BY TotalIsSum
<1>2. PICK h : Sums(h, w, S) /\ Total(w, S) = h[S]
  BY TotalIsSum
<1> QED  BY <1>1, <1>2, SumsAgree

(* The total up to a step is the total before it and the step's own value. *)
LEMMA TotalUpTo ==
    ASSUME NEW a \in Int, NEW b \in Int, a <= b + 1, NEW v, \A x \in a..(b + 1) : v[x] \in Int
    PROVE  /\ Total(v, a..b) \in Int
           /\ Total(v, a..(b + 1)) = Total(v, a..b) + v[b + 1]
<1>1. IsFiniteSet(a..b) /\ IsFiniteSet(a..(b + 1))
  BY FS_Interval
<1>2. PICK g : Sums(g, v, a..b) /\ Total(v, a..b) = g[a..b]
  BY <1>1, TotalIsSum
<1>3. PICK h : Sums(h, v, a..(b + 1)) /\ Total(v, a..(b + 1)) = h[a..(b + 1)]
  BY <1>1, TotalIsSum
<1>4. /\ a..b \in SUBSET (a..(b + 1)) /\ b + 1 \in a..(b + 1)
      /\ (a..(b + 1)) \ {b + 1} = a..b
  OBVIOUS
<1>5. h[a..(b + 1)] = v[b + 1] + h[a..b]
  <2> DEFINE D == a..(b + 1)
  <2>1. /\ IsFiniteSet(D) /\ Sums(h, v, D) /\ \A x \in D : v[x] \in Int
        /\ b + 1 \in D /\ D \ {b + 1} = a..b /\ D \in SUBSET D
    BY <1>1, <1>3, <1>4
  <2> HIDE DEF D
  <2>2. h[D] = v[b + 1] + h[D \ {b + 1}]
    BY <2>1, SumsTakeOut
  <2> QED  BY <2>1, <2>2 DEF D
<1>6. g[a..b] = h[a..b]
  BY <1>1, <1>2, <1>3, <1>4, SumsAgree
<1>7. g[a..b] \in Int /\ v[b + 1] \in Int
  BY <1>1, <1>2, <1>4, SumsTyped
<1> QED  BY <1>2, <1>3, <1>5, <1>6, <1>7

LEMMA TotalOfNone == \A v : \A a \in Int : Total(v, a..(a - 1)) = 0
<1> SUFFICES ASSUME NEW v, NEW a \in Int PROVE Total(v, a..(a - 1)) = 0
  OBVIOUS
<1>1. a..(a - 1) = {} /\ IsFiniteSet({})
  BY FS_EmptySet
<1>2. PICK g : Sums(g, v, {}) /\ Total(v, {}) = g[{}]
  BY <1>1, TotalIsSum
<1> QED  BY <1>1, <1>2, SumsEmpty

-----------------------------------------------------------------------------
(* The two sums of module Route.                                           *)

Northings(route) ==
    [i \in 0..MaxSteps |-> CASE route[i].dir = "N" -> route[i].count
                             [] route[i].dir = "S" -> -route[i].count
                             [] OTHER -> 0]

Alongs(route, d) == [i \in 0..MaxSteps |-> IF route[i].dir = d THEN route[i].count ELSE 0]

(* The functions MapThenSumSet chooses from. *)
NorthSums(g, route, k) ==
    g = [s \in SUBSET (0..k) |->
            IF s = {} THEN 0
            ELSE LET x == CHOOSE x \in s : TRUE
                 IN (CASE route[x].dir = "N" -> route[x].count
                       [] route[x].dir = "S" -> -route[x].count
                       [] OTHER -> 0) + g[s \ {x}]]

AlongSums(g, route, d, k) ==
    g = [s \in SUBSET (1..k) |->
            IF s = {} THEN 0
            ELSE LET x == CHOOSE x \in s : TRUE
                 IN (IF route[x].dir = d THEN route[x].count ELSE 0) + g[s \ {x}]]

LEMMA SumsOfRoute ==
    ASSUME NEW route, NEW k \in 0..MaxSteps
    PROVE  /\ (CHOOSE g : NorthSums(g, route, k))[0..k] = Total(Northings(route), 0..k)
           /\ \A d : (CHOOSE g : AlongSums(g, route, d, k))[1..k] = Total(Alongs(route, d), 1..k)
<1>1. /\ IsFiniteSet(0..k) /\ IsFiniteSet(1..k)
      /\ 0..k \subseteq 0..MaxSteps /\ 1..k \subseteq 0..MaxSteps
  BY FS_Interval, RouteAssumption
<1>2. \A s : s # {} => (CHOOSE x \in s : TRUE) \in s
  OBVIOUS
<1>3. ASSUME NEW g PROVE NorthSums(g, route, k) <=> Sums(g, Northings(route), 0..k)
  BY <1>1, <1>2 DEF NorthSums, Sums, Northings
<1>4. ASSUME NEW g, NEW d PROVE AlongSums(g, route, d, k) <=> Sums(g, Alongs(route, d), 1..k)
  BY <1>1, <1>2 DEF AlongSums, Sums, Alongs
<1>5. (CHOOSE g : NorthSums(g, route, k)) = CHOOSE g : Sums(g, Northings(route), 0..k)
  BY <1>3, Zenon
<1>6. (CHOOSE g : NorthSums(g, route, k))[0..k] = Total(Northings(route), 0..k)
  BY <1>5, Zenon DEF Total
<1>7. ASSUME NEW d
      PROVE  (CHOOSE g : AlongSums(g, route, d, k))[1..k] = Total(Alongs(route, d), 1..k)
  <2>1. (CHOOSE g : AlongSums(g, route, d, k)) = CHOOSE g : Sums(g, Alongs(route, d), 1..k)
    BY <1>4, Zenon
  <2> QED  BY <2>1, Zenon DEF Total
<1> QED  BY <1>6, <1>7

LEMMA NorthTotal ==
    ASSUME NEW k \in 0..MaxSteps
    PROVE  /\ North(k) = Total(Northings(TRVL), 0..k)
           /\ North(k)' = Total(Northings(TRVL'), 0..k)
<1>1. North(k) = (CHOOSE g : NorthSums(g, TRVL, k))[0..k]
  BY DEF North, MapThenSumSet, MapThenFoldSet, NorthSums
<1>2. North(k)' = (CHOOSE g : NorthSums(g, TRVL', k))[0..k]
  BY DEF North, MapThenSumSet, MapThenFoldSet, NorthSums
<1> QED  BY <1>1, <1>2, SumsOfRoute

(* Where a route leads in its first k steps, and n edges further if a leg  *)
(* is open.                                                                *)
At(route, k) ==
    [north |-> Edge * (Total(Alongs(route, "N"), 1..k) - Total(Alongs(route, "S"), 1..k)),
     east  |-> Edge * (Total(Alongs(route, "E"), 1..k) - Total(Alongs(route, "W"), 1..k))]

LedTo(route, k, open, d, n) ==
    IF open THEN Go(At(route, k), d, Edge * n) ELSE At(route, k)

LEMMA RecordedNow ==
    TRVL_INDEX \in 1..MaxSteps =>
        Recorded = LedTo(TRVL, TRVL_INDEX - 1, LegOpen, heading, ENCODER_0A - ENCODER_INIT)
<1> DEFINE Along(d) == (CHOOSE g : AlongSums(g, TRVL, d, TRVL_INDEX - 1))[1..(TRVL_INDEX - 1)]
           led == [north |-> Edge * (Along("N") - Along("S")), east |-> Edge * (Along("E") - Along("W"))]
<1> SUFFICES ASSUME TRVL_INDEX \in 1..MaxSteps
             PROVE  Recorded = LedTo(TRVL, TRVL_INDEX - 1, LegOpen, heading, ENCODER_0A - ENCODER_INIT)
  OBVIOUS
<1>1. TRVL_INDEX - 1 \in 0..MaxSteps
  BY RouteAssumption, SMT
<1>2. Recorded = IF LegOpen THEN Go(led, heading, Edge * (ENCODER_0A - ENCODER_INIT)) ELSE led
  BY DEF Recorded, MapThenSumSet, MapThenFoldSet, AlongSums
<1>3. \A d : Along(d) = Total(Alongs(TRVL, d), 1..(TRVL_INDEX - 1))
  BY <1>1, SumsOfRoute
<1> HIDE DEF Along
<1> QED  BY <1>2, <1>3 DEF LedTo, At

LEMMA RecordedNext ==
    (TRVL_INDEX \in 1..MaxSteps =>
        Recorded = LedTo(TRVL, TRVL_INDEX - 1, LegOpen, heading, ENCODER_0A - ENCODER_INIT))'
  BY RecordedNow, PTL

-----------------------------------------------------------------------------
(* What is recorded adds up to where the rover is.                         *)

Point == [north : Int, east : Int]

(* Nothing is written beyond TRVL_INDEX ... *)
Unwritten ==
    \A i \in (TRVL_INDEX + 1)..MaxSteps :
        TRVL[i].move = "none" /\ TRVL[i].dir = "none" /\ TRVL[i].count = 0

(* ... some beginning of what is closed has completed the course ... *)
Decided == \E k \in 0..(TRVL_INDEX - 1) : North(k) >= Course

(* ... and the step at TRVL_INDEX has no length until History_Task fills   *)
(* it, which it does only to a route that is decided.                      *)
OpenStep ==
    /\ Recording => TRVL[TRVL_INDEX].count = 0
    /\ Decided \/ (TRVL[TRVL_INDEX].dir = "none" /\ TRVL[TRVL_INDEX].count = 0)

Placed == Recording => place \in Point /\ lost \in Point

RouteInv == HeadingInv /\ Unwritten /\ OpenStep /\ Placed /\ LegsAddUp

North1(d, n) == IF d = "N" THEN n ELSE IF d = "S" THEN 0 - n ELSE 0
East1(d, n)  == IF d = "E" THEN n ELSE IF d = "W" THEN 0 - n ELSE 0

LEMMA Goes ==
    ASSUME NEW p \in Point, NEW d \in Direction, NEW n \in Int
    PROVE  /\ Go(p, d, n) \in Point
           /\ Go(p, d, n).north = p.north + North1(d, n)
           /\ Go(p, d, n).east  = p.east + East1(d, n)
<1>1. p = [north |-> p.north, east |-> p.east] /\ p.north \in Int /\ p.east \in Int
  BY DEF Point
<1>2. CASE d = "N"
  <2>1. Go(p, d, n) = [north |-> p.north + n, east |-> p.east]
    BY <1>1, <1>2 DEF Go, Point
  <2> QED  BY <1>1, <1>2, <2>1 DEF Point, North1, East1
<1>3. CASE d = "S"
  <2>1. Go(p, d, n) = [north |-> p.north - n, east |-> p.east]
    BY <1>1, <1>3 DEF Go, Point
  <2> QED  BY <1>1, <1>3, <2>1 DEF Point, North1, East1
<1>4. CASE d = "E"
  <2>1. Go(p, d, n) = [north |-> p.north, east |-> p.east + n]
    BY <1>1, <1>4 DEF Go, Point
  <2> QED  BY <1>1, <1>4, <2>1 DEF Point, North1, East1
<1>5. CASE d = "W"
  <2>1. Go(p, d, n) = [north |-> p.north, east |-> p.east - n]
    BY <1>1, <1>5 DEF Go, Point
  <2> QED  BY <1>1, <1>5, <2>1 DEF Point, North1, East1
<1> QED  BY <1>2, <1>3, <1>4, <1>5 DEF Direction

LEMMA Numbers ==
    ASSUME NEW route \in [0..MaxSteps -> Step]
    PROVE  /\ \A i \in 0..MaxSteps : Northings(route)[i] \in Int
           /\ \A d : \A i \in 0..MaxSteps : Alongs(route, d)[i] \in Int
<1>1. \A i \in 0..MaxSteps : route[i].count \in Int
  BY DEF Step
<1> QED  BY <1>1 DEF Northings, Alongs

(* Steps that two routes have in common lead equally far. *)
LEMMA SameSteps ==
    ASSUME NEW r \in [0..MaxSteps -> Step], NEW s \in [0..MaxSteps -> Step], NEW k \in 0..MaxSteps,
           \A i \in 0..k : s[i] = r[i]
    PROVE  /\ Total(Northings(s), 0..k) = Total(Northings(r), 0..k)
           /\ \A d : Total(Alongs(s, d), 1..k) = Total(Alongs(r, d), 1..k)
<1>1. /\ IsFiniteSet(0..k) /\ IsFiniteSet(1..k)
      /\ 0..k \subseteq 0..MaxSteps /\ 1..k \subseteq 0..k
  BY FS_Interval, RouteAssumption
<1>2. \A i \in 0..k : Northings(r)[i] \in Int /\ Northings(s)[i] = Northings(r)[i]
  BY <1>1, Numbers DEF Northings
<1>3. Total(Northings(s), 0..k) = Total(Northings(r), 0..k)
  BY <1>1, <1>2, TotalDependsOn
<1>4. ASSUME NEW d PROVE Total(Alongs(s, d), 1..k) = Total(Alongs(r, d), 1..k)
  <2>1. \A i \in 1..k : Alongs(r, d)[i] \in Int /\ Alongs(s, d)[i] = Alongs(r, d)[i]
    BY <1>1, Numbers DEF Alongs
  <2> QED  BY <1>1, <2>1, TotalDependsOn
<1> QED  BY <1>3, <1>4

Routes == [0..MaxSteps -> Step]

LEMMA SameBeginnings ==
    ASSUME NEW r \in Routes, NEW s \in Routes, NEW j \in 0..MaxSteps,
           \A i \in 0..j : s[i] = r[i]
    PROVE  \A k \in 0..j : Total(Northings(s), 0..k) = Total(Northings(r), 0..k)
<1> SUFFICES ASSUME NEW k \in 0..j PROVE Total(Northings(s), 0..k) = Total(Northings(r), 0..k)
  OBVIOUS
<1>1. k \in 0..MaxSteps
  BY RouteAssumption
<1>2. \A i \in 0..k : i \in 0..j
  BY RouteAssumption
<1>3. \A i \in 0..k : s[i] = r[i]
  BY <1>2
<1> QED  BY <1>1, <1>3, SameSteps DEF Routes

LEMMA OneMoreStep ==
    ASSUME NEW route \in [0..MaxSteps -> Step], NEW k \in 0..MaxSteps, k + 1 <= MaxSteps
    PROVE  /\ Total(Northings(route), 0..k) \in Int
           /\ Total(Northings(route), 0..(k + 1)) = Total(Northings(route), 0..k) + Northings(route)[k + 1]
           /\ \A d : /\ Total(Alongs(route, d), 1..k) \in Int
                     /\ Total(Alongs(route, d), 1..(k + 1)) =
                            Total(Alongs(route, d), 1..k) + Alongs(route, d)[k + 1]
<1>1. /\ 0..(k + 1) \subseteq 0..MaxSteps /\ 1..(k + 1) \subseteq 0..MaxSteps
      /\ k \in Int /\ 0 <= k + 1 /\ 1 <= k + 1
  BY RouteAssumption
<1>2. \A x \in 0..(k + 1) : Northings(route)[x] \in Int
  BY <1>1, Numbers
<1>3. ASSUME NEW d PROVE \A x \in 1..(k + 1) : Alongs(route, d)[x] \in Int
  BY <1>1, Numbers
<1>4. /\ Total(Northings(route), 0..k) \in Int
      /\ Total(Northings(route), 0..(k + 1)) = Total(Northings(route), 0..k) + Northings(route)[k + 1]
  BY <1>1, <1>2, TotalUpTo
<1>5. ASSUME NEW d
      PROVE  /\ Total(Alongs(route, d), 1..k) \in Int
             /\ Total(Alongs(route, d), 1..(k + 1)) =
                    Total(Alongs(route, d), 1..k) + Alongs(route, d)[k + 1]
  BY <1>1, <1>3, TotalUpTo
<1> QED  BY <1>4, <1>5

(* A closed step leads as far as the rover went on it. *)
LEMMA AtNext ==
    ASSUME NEW route \in [0..MaxSteps -> Step], NEW k \in 0..MaxSteps, k + 1 <= MaxSteps,
           route[k + 1].dir \in Direction
    PROVE  /\ At(route, k) \in Point
           /\ At(route, k + 1) = Go(At(route, k), route[k + 1].dir, Edge * route[k + 1].count)
<1> DEFINE d == route[k + 1].dir
           c == route[k + 1].count
<1>1. k + 1 \in 0..MaxSteps /\ c \in Int /\ d \in Direction
  <2>1. k + 1 \in 0..MaxSteps
    BY RouteAssumption
  <2> QED  BY <2>1 DEF Step
<1>2. \A e : Alongs(route, e)[k + 1] = IF d = e THEN c ELSE 0
  BY <1>1 DEF Alongs
<1>3. /\ \A e : Total(Alongs(route, e), 1..k) \in Int
      /\ \A e : Total(Alongs(route, e), 1..(k + 1)) = Total(Alongs(route, e), 1..k) + Alongs(route, e)[k + 1]
  BY OneMoreStep
<1>4. \A e : Total(Alongs(route, e), 1..(k + 1)) = Total(Alongs(route, e), 1..k) + (IF d = e THEN c ELSE 0)
  BY <1>2, <1>3
<1> DEFINE A(e) == Total(Alongs(route, e), 1..k)
           B(e) == Total(Alongs(route, e), 1..(k + 1))
<1>5. /\ A("N") \in Int /\ A("S") \in Int /\ A("E") \in Int /\ A("W") \in Int
      /\ \A e : B(e) = A(e) + (IF d = e THEN c ELSE 0)
  BY <1>3, <1>4
<1>6. /\ At(route, k) = [north |-> 5 * (A("N") - A("S")), east |-> 5 * (A("E") - A("W"))]
      /\ At(route, k + 1) = [north |-> 5 * (B("N") - B("S")), east |-> 5 * (B("E") - B("W"))]
  BY DEF At, Edge
<1> HIDE DEF A, B, d, c
<1>7. At(route, k) \in Point
  BY <1>5, <1>6 DEF Point
<1>8. /\ B("N") = A("N") + (IF d = "N" THEN c ELSE 0) /\ B("S") = A("S") + (IF d = "S" THEN c ELSE 0)
      /\ B("E") = A("E") + (IF d = "E" THEN c ELSE 0) /\ B("W") = A("W") + (IF d = "W" THEN c ELSE 0)
  BY <1>5
<1>9. /\ 5 * (B("N") - B("S")) = 5 * (A("N") - A("S")) + (CASE d = "N" -> 5 * c [] d = "S" -> -(5 * c) [] OTHER -> 0)
      /\ 5 * (B("E") - B("W")) = 5 * (A("E") - A("W")) + (CASE d = "E" -> 5 * c [] d = "W" -> -(5 * c) [] OTHER -> 0)
  <2>1. A("N") \in Int /\ A("S") \in Int /\ A("E") \in Int /\ A("W") \in Int /\ c \in Int
    BY <1>1, <1>5
  <2>2. 5 * (B("N") - B("S")) = 5 * (A("N") - A("S")) + (CASE d = "N" -> 5 * c [] d = "S" -> -(5 * c) [] OTHER -> 0)
    BY <1>8, <2>1
  <2>3. 5 * (B("E") - B("W")) = 5 * (A("E") - A("W")) + (CASE d = "E" -> 5 * c [] d = "W" -> -(5 * c) [] OTHER -> 0)
    BY <1>8, <2>1
  <2> QED  BY <2>2, <2>3
<1>10. Go(At(route, k), d, Edge * c) = At(route, k + 1)
  <2>1. 5 * (A("N") - A("S")) \in Int /\ 5 * (A("E") - A("W")) \in Int /\ 5 * c \in Int
    BY <1>1, <1>5
  <2>2. CASE d = "N"
    <3>1. At(route, k + 1) = [north |-> 5 * (A("N") - A("S")) + 5 * c, east |-> 5 * (A("E") - A("W"))]
      BY <1>6, <1>9, <2>1, <2>2
    <3>2. Go(At(route, k), d, Edge * c) = [north |-> 5 * (A("N") - A("S")) + 5 * c, east |-> 5 * (A("E") - A("W"))]
      BY <1>6, <2>1, <2>2 DEF Go, Edge
    <3> QED  BY <3>1, <3>2
  <2>3. CASE d = "S"
    <3>1. At(route, k + 1) = [north |-> 5 * (A("N") - A("S")) - 5 * c, east |-> 5 * (A("E") - A("W"))]
      BY <1>6, <1>9, <2>1, <2>3
    <3>2. Go(At(route, k), d, Edge * c) = [north |-> 5 * (A("N") - A("S")) - 5 * c, east |-> 5 * (A("E") - A("W"))]
      BY <1>6, <2>1, <2>3 DEF Go, Edge
    <3> QED  BY <3>1, <3>2
  <2>4. CASE d = "E"
    <3>1. At(route, k + 1) = [north |-> 5 * (A("N") - A("S")), east |-> 5 * (A("E") - A("W")) + 5 * c]
      BY <1>6, <1>9, <2>1, <2>4
    <3>2. Go(At(route, k), d, Edge * c) = [north |-> 5 * (A("N") - A("S")), east |-> 5 * (A("E") - A("W")) + 5 * c]
      BY <1>6, <2>1, <2>4 DEF Go, Edge
    <3> QED  BY <3>1, <3>2
  <2>5. CASE d = "W"
    <3>1. At(route, k + 1) = [north |-> 5 * (A("N") - A("S")), east |-> 5 * (A("E") - A("W")) - 5 * c]
      BY <1>6, <1>9, <2>1, <2>5
    <3>2. Go(At(route, k), d, Edge * c) = [north |-> 5 * (A("N") - A("S")), east |-> 5 * (A("E") - A("W")) - 5 * c]
      BY <1>6, <2>1, <2>5 DEF Go, Edge
    <3> QED  BY <3>1, <3>2
  <2> QED  BY <1>1, <2>2, <2>3, <2>4, <2>5 DEF Direction
<1> QED  BY <1>7, <1>10 DEF d, c

(* The closed steps of a step and the next. *)
LEMMA ClosedStepsKept ==
    ASSUME Types, TRVL' \in [0..MaxSteps -> Step], TRVL_INDEX' \in 1..MaxSteps,
           TRVL_INDEX' >= TRVL_INDEX, \A i \in 0..(TRVL_INDEX - 1) : TRVL'[i] = TRVL[i]
    PROVE  /\ Decided => Decided'
           /\ TRVL_INDEX' = TRVL_INDEX => (Decided' => Decided)
           /\ At(TRVL', TRVL_INDEX - 1) = At(TRVL, TRVL_INDEX - 1)
           /\ At(TRVL, TRVL_INDEX - 1) \in Point
<1>0. TRVL_INDEX \in Int /\ TRVL_INDEX' \in Int /\ 1 <= TRVL_INDEX /\ TRVL_INDEX <= MaxSteps /\ MaxSteps \in Nat
  BY RouteAssumption, SMT DEF Types
<1>1. /\ TRVL_INDEX - 1 \in 0..MaxSteps /\ MaxSteps \in Nat /\ (TRVL_INDEX - 1) + 1 <= MaxSteps
      /\ \A k \in 0..(TRVL_INDEX - 1) : k \in 0..MaxSteps /\ k \in 0..(TRVL_INDEX' - 1)
                                        /\ 0..k \subseteq 0..(TRVL_INDEX - 1)
  <2>1. TRVL_INDEX - 1 \in 0..MaxSteps /\ (TRVL_INDEX - 1) + 1 <= MaxSteps
    BY <1>0
  <2>2. \A k \in 0..(TRVL_INDEX - 1) : k \in 0..MaxSteps /\ k \in 0..(TRVL_INDEX' - 1)
    <3>1. ASSUME NEW m \in Int, m >= TRVL_INDEX
          PROVE  \A k \in 0..(TRVL_INDEX - 1) : k \in 0..MaxSteps /\ k \in 0..(m - 1)
      BY <1>0, <3>1
    <3> QED  BY <1>0, <3>1
  <2>3. \A k \in 0..(TRVL_INDEX - 1) : 0..k \subseteq 0..(TRVL_INDEX - 1)
    BY <1>0
  <2> QED  BY <1>0, <2>1, <2>2, <2>3
<1>2. \A k \in 0..(TRVL_INDEX - 1) : North(k)' = North(k)
  <2>1. PICK r, s, j : r = TRVL /\ s = TRVL' /\ j = TRVL_INDEX - 1
    OBVIOUS
  <2>2. /\ r \in Routes /\ s \in Routes /\ j \in 0..MaxSteps
        /\ \A i \in 0..j : s[i] = r[i]
    BY <1>1, <2>1 DEF Types, Routes
  <2>3. \A k \in 0..j : Total(Northings(s), 0..k) = Total(Northings(r), 0..k)
    BY <2>2, SameBeginnings
  <2> QED  BY <1>1, <2>1, <2>3, NorthTotal
<1>3. Decided => Decided'
  BY <1>1, <1>2 DEF Decided
<1>4. TRVL_INDEX' = TRVL_INDEX => (Decided' => Decided)
  BY <1>1, <1>2 DEF Decided
<1>5. \A d : Total(Alongs(TRVL', d), 1..(TRVL_INDEX - 1)) = Total(Alongs(TRVL, d), 1..(TRVL_INDEX - 1))
  BY <1>1, SameSteps DEF Types
<1>6. \A d : Total(Alongs(TRVL, d), 1..(TRVL_INDEX - 1)) \in Int
  BY <1>1, OneMoreStep DEF Types
<1>7. At(TRVL, TRVL_INDEX - 1) \in Point
  BY <1>6 DEF At, Point, Edge
<1> QED  BY <1>3, <1>4, <1>5, <1>7 DEF At

(* The step at TRVL_INDEX decides nothing. *)
LEMMA EvalIsDecided == Types /\ OpenStep => (evalHistory <=> Decided)
<1> SUFFICES ASSUME Types, OpenStep PROVE evalHistory <=> Decided
  OBVIOUS
<1> DEFINE j == TRVL_INDEX - 1
<1>1. /\ j \in 0..MaxSteps /\ j + 1 = TRVL_INDEX /\ TRVL_INDEX \in 0..MaxSteps /\ j + 1 <= MaxSteps
      /\ \A k \in 0..TRVL_INDEX : k \in 0..j \/ k = TRVL_INDEX
      /\ \A k \in 0..j : k \in 0..TRVL_INDEX
      /\ j \in 0..j
  BY RouteAssumption, SMT DEF Types
<1>2. Decided => evalHistory
  BY <1>1 DEF Decided, evalHistory
<1>3. ASSUME ~ Decided PROVE North(TRVL_INDEX) = North(j)
  <2>1. Northings(TRVL)[TRVL_INDEX] = 0
    BY <1>1, <1>3 DEF OpenStep, Northings
  <2>2. /\ Total(Northings(TRVL), 0..j) \in Int
        /\ Total(Northings(TRVL), 0..(j + 1)) = Total(Northings(TRVL), 0..j) + Northings(TRVL)[j + 1]
    BY <1>1, OneMoreStep DEF Types
  <2>3. North(TRVL_INDEX) = Total(Northings(TRVL), 0..TRVL_INDEX) /\ North(j) = Total(Northings(TRVL), 0..j)
    BY <1>1, NorthTotal
  <2> HIDE DEF j
  <2> QED  BY <1>1, <2>1, <2>2, <2>3
<1>4. evalHistory => Decided
  BY <1>1, <1>3 DEF Decided, evalHistory
<1> QED  BY <1>2, <1>4

LEMMA EvalIsDecidedNext == (Types /\ OpenStep => (evalHistory <=> Decided))'
  BY EvalIsDecided, PTL

(* A step at TRVL_INDEX is closed and has direction d. *)
LEMMA ClosedStepAdds ==
    ASSUME Types, TRVL' \in [0..MaxSteps -> Step], TRVL_INDEX' \in 1..MaxSteps,
           TRVL_INDEX' = TRVL_INDEX + 1, \A i \in 0..(TRVL_INDEX - 1) : TRVL'[i] = TRVL[i],
           TRVL'[TRVL_INDEX].dir \in Direction
    PROVE  At(TRVL', TRVL_INDEX' - 1) =
               Go(At(TRVL, TRVL_INDEX - 1), TRVL'[TRVL_INDEX].dir, Edge * TRVL'[TRVL_INDEX].count)
<1> DEFINE j == TRVL_INDEX - 1
<1>1. j \in 0..MaxSteps /\ j + 1 = TRVL_INDEX /\ j + 1 <= MaxSteps /\ TRVL_INDEX' - 1 = j + 1
  BY RouteAssumption, SMT DEF Types
<1>2. At(TRVL', j) = At(TRVL, j)
  <2>1. TRVL_INDEX' >= TRVL_INDEX
    BY <1>1
  <2> QED  BY <2>1, ClosedStepsKept
<1> HIDE DEF j
<1>3. At(TRVL', j + 1) = Go(At(TRVL', j), TRVL'[j + 1].dir, Edge * TRVL'[j + 1].count)
  BY <1>1, AtNext
<1> QED  BY <1>1, <1>2, <1>3 DEF j

(* A step without a length decides nothing. *)
LEMMA EmptyStepDecidesNothing ==
    ASSUME Types, TRVL' \in [0..MaxSteps -> Step], TRVL_INDEX' \in 1..MaxSteps,
           TRVL_INDEX' = TRVL_INDEX + 1, \A i \in 0..(TRVL_INDEX - 1) : TRVL'[i] = TRVL[i],
           TRVL'[TRVL_INDEX].count = 0
    PROVE  Decided' => Decided
<1>0. PICK j \in Int : j = TRVL_INDEX - 1
  BY SMT DEF Types
<1>1. /\ j \in 0..MaxSteps /\ j + 1 = TRVL_INDEX /\ j + 1 <= MaxSteps /\ TRVL_INDEX' - 1 = j + 1
      /\ j + 1 \in 0..MaxSteps /\ j \in 0..j
      /\ \A k \in 0..(j + 1) : k \in 0..j \/ k = j + 1
      /\ \A k \in 0..j : k \in 0..MaxSteps /\ 0..k \subseteq 0..j
  BY <1>0, RouteAssumption, SMT DEF Types
<1>2. /\ \A i \in 0..j : TRVL'[i] = TRVL[i]
      /\ TRVL'[j + 1].count = 0
  BY <1>0, <1>1
<1>3. Decided <=> \E k \in 0..j : North(k) >= Course
  BY <1>0 DEF Decided
<1>4. Decided' <=> \E k \in 0..(j + 1) : North(k)' >= Course
  BY <1>1 DEF Decided
<1>5. \A k \in 0..j : North(k)' = North(k)
  <2>1. PICK r, s : r = TRVL /\ s = TRVL'
    OBVIOUS
  <2>2. /\ r \in Routes /\ s \in Routes /\ j \in 0..MaxSteps
        /\ \A i \in 0..j : s[i] = r[i]
    BY <1>1, <1>2, <2>1 DEF Types, Routes
  <2>3. \A k \in 0..j : Total(Northings(s), 0..k) = Total(Northings(r), 0..k)
    BY <2>2, SameBeginnings
  <2> QED  BY <1>1, <2>1, <2>3, NorthTotal
<1>6. North(j + 1)' = North(j)'
  <2>1. Northings(TRVL')[j + 1] = 0
    BY <1>1, <1>2 DEF Northings
  <2>2. /\ Total(Northings(TRVL'), 0..j) \in Int
        /\ Total(Northings(TRVL'), 0..(j + 1)) = Total(Northings(TRVL'), 0..j) + Northings(TRVL')[j + 1]
    BY <1>1, OneMoreStep
  <2>3. Total(Northings(TRVL'), 0..(j + 1)) = Total(Northings(TRVL'), 0..j)
    BY <2>1, <2>2
  <2>4. North(j + 1)' = Total(Northings(TRVL'), 0..(j + 1)) /\ North(j)' = Total(Northings(TRVL'), 0..j)
    BY <1>1, NorthTotal
  <2> QED  BY <2>3, <2>4
<1> QED  BY <1>1, <1>3, <1>4, <1>5, <1>6

(* Nothing but the step at TRVL_INDEX changes. *)
LEMMA UnwrittenKept ==
    ASSUME Types, Unwritten, TRVL_INDEX' \in {TRVL_INDEX, TRVL_INDEX + 1},
           \A i \in 0..MaxSteps : i # TRVL_INDEX => TRVL'[i] = TRVL[i]
    PROVE  /\ Unwritten'
           /\ TRVL_INDEX' = TRVL_INDEX + 1 /\ TRVL_INDEX < MaxSteps =>
                  /\ TRVL'[TRVL_INDEX'].move = "none"
                  /\ TRVL'[TRVL_INDEX'].dir = "none"
                  /\ TRVL'[TRVL_INDEX'].count = 0
<1>1. \A i \in (TRVL_INDEX + 1)..MaxSteps : i \in 0..MaxSteps /\ i # TRVL_INDEX
  BY SMT DEF Types
<1>2. \A m \in {TRVL_INDEX, TRVL_INDEX + 1} : \A i \in (m + 1)..MaxSteps : i \in (TRVL_INDEX + 1)..MaxSteps
  BY SMT DEF Types
<1>3. TRVL_INDEX < MaxSteps => TRVL_INDEX + 1 \in (TRVL_INDEX + 1)..MaxSteps
  BY RouteAssumption, SMT DEF Types
<1> QED  BY <1>1, <1>2, <1>3 DEF Unwritten

LEMMA RouteInit == Init => RouteInv
<1> SUFFICES ASSUME Init PROVE RouteInv
  OBVIOUS
<1>1. HeadingInv
  BY HeadingInit
<1>2. /\ 1 \in 0..MaxSteps /\ 1 - 1 = 0 /\ 0 \in 0..MaxSteps
      /\ \A i \in 2..MaxSteps : i \in 0..MaxSteps /\ i # 0
      /\ 1 + 1 = 2
  BY RouteAssumption, SMT
<1>3. Unwritten
  BY <1>2 DEF Init, Unwritten
<1>4. OpenStep
  BY <1>2 DEF Init, OpenStep
<1>5. Placed
  BY DEF Init, Placed, Origin, Point
<1>6. LegsAddUp
  <2>1. ~ LegOpen
    BY <1>2 DEF Init, LegOpen
  <2>2. \A d : Total(Alongs(TRVL, d), 1..(1 - 1)) = 0
    BY TotalOfNone
  <2>3. Recorded = [north |-> 0, east |-> 0]
    <3>1. Recorded = At(TRVL, 1 - 1)
      <4>1. TRVL_INDEX = 1 /\ TRVL_INDEX \in 1..MaxSteps
        BY RouteAssumption, SMT DEF Init
      <4> QED  BY <2>1, <4>1, RecordedNow DEF LedTo
    <3> QED  BY <2>2, <3>1, SMT DEF At, Edge
  <2> QED  BY <2>3, SMT DEF Init, LegsAddUp, Origin
<1> QED  BY <1>1, <1>3, <1>4, <1>5, <1>6 DEF RouteInv

Adds(p, q, r) == p.north = q.north + r.north /\ p.east = q.east + r.east

LEMMA GoingAdds ==
    ASSUME NEW p \in Point, NEW q \in Point, NEW r \in Point, NEW d \in Direction,
           NEW m \in Int, NEW n \in Int
    PROVE  /\ Go(q, d, 0) = q
           /\ Go(Go(q, d, m), d, n) = Go(q, d, m + n)
           /\ Adds(p, q, r) => Adds(Go(p, d, n), Go(q, d, n), r) /\ Adds(Go(p, d, n), q, Go(r, d, n))
           /\ Adds(p, Go(q, d, n), r) => Adds(p, q, Go(r, d, n))
<1>1. \A a, b \in Point : a.north = b.north /\ a.east = b.east => a = b
  BY DEF Point
<1>2. \A a \in Point : a.north \in Int /\ a.east \in Int
  BY DEF Point
<1>3. \A a \in Point : \A i \in Int :
          /\ Go(a, d, i) \in Point
          /\ Go(a, d, i).north = a.north + North1(d, i)
          /\ Go(a, d, i).east  = a.east + East1(d, i)
  BY Goes
<1>4. /\ \A i, j \in Int : North1(d, i) + North1(d, j) = North1(d, i + j)
                           /\ East1(d, i) + East1(d, j) = East1(d, i + j)
      /\ \A i \in Int : North1(d, i) \in Int /\ East1(d, i) \in Int
      /\ North1(d, 0) = 0 /\ East1(d, 0) = 0
  <2>1. ASSUME NEW i \in Int, NEW j \in Int
        PROVE  North1(d, i) + North1(d, j) = North1(d, i + j) /\ East1(d, i) + East1(d, j) = East1(d, i + j)
    BY DEF North1, East1
  <2>2. \A i \in Int : North1(d, i) \in Int /\ East1(d, i) \in Int
    BY DEF North1, East1
  <2>3. North1(d, 0) = 0 /\ East1(d, 0) = 0
    BY DEF North1, East1
  <2> QED  BY <2>1, <2>2, <2>3
<1>5. /\ q.north \in Int /\ q.east \in Int /\ r.north \in Int /\ r.east \in Int /\ p.north \in Int /\ p.east \in Int
      /\ North1(d, n) \in Int /\ East1(d, n) \in Int /\ North1(d, m) \in Int /\ East1(d, m) \in Int
  BY <1>2, <1>4
<1>6. Go(q, d, 0) = q
  <2>1. Go(q, d, 0).north = q.north + 0 /\ Go(q, d, 0).east = q.east + 0 /\ Go(q, d, 0) \in Point
    BY <1>3, <1>4
  <2>2. q.north + 0 = q.north /\ q.east + 0 = q.east
    BY <1>5
  <2> QED  BY <1>1, <2>1, <2>2
<1>7. Go(Go(q, d, m), d, n) = Go(q, d, m + n)
  <2>1. /\ Go(q, d, m) \in Point /\ m + n \in Int
        /\ Go(q, d, m).north = q.north + North1(d, m) /\ Go(q, d, m).east = q.east + East1(d, m)
    BY <1>3
  <2>2. /\ Go(Go(q, d, m), d, n) \in Point
        /\ Go(Go(q, d, m), d, n).north = q.north + North1(d, m) + North1(d, n)
        /\ Go(Go(q, d, m), d, n).east = q.east + East1(d, m) + East1(d, n)
    BY <1>3, <2>1
  <2>3. /\ Go(q, d, m + n) \in Point
        /\ Go(q, d, m + n).north = q.north + North1(d, m + n)
        /\ Go(q, d, m + n).east = q.east + East1(d, m + n)
    BY <1>3, <2>1
  <2>4. /\ q.north + North1(d, m) + North1(d, n) = q.north + North1(d, m + n)
        /\ q.east + East1(d, m) + East1(d, n) = q.east + East1(d, m + n)
    <3>1. North1(d, m) + North1(d, n) = North1(d, m + n) /\ East1(d, m) + East1(d, n) = East1(d, m + n)
      BY <1>4
    <3> QED  BY <1>5, <3>1
  <2> QED  BY <1>1, <2>2, <2>3, <2>4
<1>8. /\ Go(p, d, n).north = p.north + North1(d, n) /\ Go(p, d, n).east = p.east + East1(d, n)
      /\ Go(q, d, n).north = q.north + North1(d, n) /\ Go(q, d, n).east = q.east + East1(d, n)
      /\ Go(r, d, n).north = r.north + North1(d, n) /\ Go(r, d, n).east = r.east + East1(d, n)
  BY <1>3
<1>9. ASSUME Adds(p, q, r)
      PROVE  Adds(Go(p, d, n), Go(q, d, n), r) /\ Adds(Go(p, d, n), q, Go(r, d, n))
  <2>1. p.north = q.north + r.north /\ p.east = q.east + r.east
    BY <1>9 DEF Adds
  <2>2. /\ p.north + North1(d, n) = (q.north + North1(d, n)) + r.north
        /\ p.east + East1(d, n) = (q.east + East1(d, n)) + r.east
        /\ p.north + North1(d, n) = q.north + (r.north + North1(d, n))
        /\ p.east + East1(d, n) = q.east + (r.east + East1(d, n))
    BY <1>5, <2>1
  <2> QED  BY <1>8, <2>2 DEF Adds
<1>10. ASSUME Adds(p, Go(q, d, n), r) PROVE Adds(p, q, Go(r, d, n))
  <2>1. p.north = (q.north + North1(d, n)) + r.north /\ p.east = (q.east + East1(d, n)) + r.east
    BY <1>8, <1>10 DEF Adds
  <2>2. p.north = q.north + (r.north + North1(d, n)) /\ p.east = q.east + (r.east + East1(d, n))
    BY <1>5, <2>1
  <2> QED  BY <1>8, <2>2 DEF Adds
<1> QED  BY <1>6, <1>7, <1>9, <1>10

(* What the invariant says of a state, with the sums unfolded. *)
LEMMA Unfolded ==
    RouteInv =>
        /\ TRVL_INDEX \in 1..MaxSteps /\ TRVL_INDEX \in 0..MaxSteps /\ TRVL \in [0..MaxSteps -> Step]
        /\ heading \in Direction /\ ENCODER_0A \in Int /\ ENCODER_INIT \in Int
        /\ At(TRVL, TRVL_INDEX - 1) \in Point
        /\ Recording => /\ place \in Point /\ lost \in Point
                        /\ Adds(place, IF LegOpen THEN Go(At(TRVL, TRVL_INDEX - 1), heading,
                                                          Edge * (ENCODER_0A - ENCODER_INIT))
                                                  ELSE At(TRVL, TRVL_INDEX - 1), lost)
<1> SUFFICES ASSUME RouteInv
    PROVE /\ TRVL_INDEX \in 1..MaxSteps /\ TRVL_INDEX \in 0..MaxSteps /\ TRVL \in [0..MaxSteps -> Step]
          /\ heading \in Direction /\ ENCODER_0A \in Int /\ ENCODER_INIT \in Int
          /\ At(TRVL, TRVL_INDEX - 1) \in Point
          /\ Recording => /\ place \in Point /\ lost \in Point
                          /\ Adds(place, LedTo(TRVL, TRVL_INDEX - 1, LegOpen, heading, ENCODER_0A - ENCODER_INIT), lost)
  BY DEF LedTo
<1>1. /\ TRVL_INDEX \in 1..MaxSteps /\ TRVL \in [0..MaxSteps -> Step]
      /\ heading \in Direction /\ ENCODER_0A \in Int /\ ENCODER_INIT \in Int
  BY DEF RouteInv, HeadingInv, Types
<1>2. TRVL_INDEX \in 0..MaxSteps /\ TRVL_INDEX - 1 \in 0..MaxSteps /\ (TRVL_INDEX - 1) + 1 <= MaxSteps
  BY <1>1, RouteAssumption
<1>3. At(TRVL, TRVL_INDEX - 1) \in Point
  <2>1. \A d : Total(Alongs(TRVL, d), 1..(TRVL_INDEX - 1)) \in Int
    BY <1>1, <1>2, OneMoreStep
  <2> QED  BY <2>1 DEF At, Point, Edge
<1> QED  BY <1>1, <1>2, <1>3, RecordedNow DEF RouteInv, Placed, LegsAddUp, Adds

(* To re-establish the sums after a step. *)
LEMMA AddsUpNext ==
    ASSUME TRVL_INDEX' \in 1..MaxSteps,
           Recording' => Adds(place', IF LegOpen' THEN Go(At(TRVL', TRVL_INDEX' - 1), heading',
                                                         Edge * (ENCODER_0A' - ENCODER_INIT'))
                                                  ELSE At(TRVL', TRVL_INDEX' - 1), lost')
    PROVE  LegsAddUp'
  BY RecordedNext DEF LegsAddUp, Adds, LedTo

(* What a step has to establish besides HeadingInv, and what it may do to  *)
(* the verdict.                                                            *)
RouteGoesOn ==
    /\ Unwritten' /\ OpenStep' /\ Placed' /\ LegsAddUp'
    /\ Decided' # Decided => Decided' /\ LegOpen /\ TRVL_INDEX' = TRVL_INDEX + 1

LEMMA DecidedIsBoolean == Decided \in BOOLEAN /\ Decided' \in BOOLEAN
  BY DEF Decided

(* The three actions that write the record leave the closed steps alone.   *)
LEMMA ClosedAlone ==
    ASSUME RouteInv, HeadingInv', TRVL_INDEX' \in {TRVL_INDEX, TRVL_INDEX + 1},
           \A i \in 0..MaxSteps : i # TRVL_INDEX => TRVL'[i] = TRVL[i]
    PROVE  /\ TRVL' \in [0..MaxSteps -> Step] /\ TRVL_INDEX' \in 1..MaxSteps
           /\ \A i \in 0..(TRVL_INDEX - 1) : TRVL'[i] = TRVL[i]
           /\ Decided => Decided'
           /\ TRVL_INDEX' = TRVL_INDEX => (Decided' = Decided)
           /\ At(TRVL', TRVL_INDEX - 1) = At(TRVL, TRVL_INDEX - 1)
           /\ Unwritten'
<1>1. Types /\ Types' /\ Unwritten /\ TRVL' \in [0..MaxSteps -> Step] /\ TRVL_INDEX' \in 1..MaxSteps
  BY DEF RouteInv, HeadingInv, Types
<1>2. \A i \in 0..(TRVL_INDEX - 1) : TRVL'[i] = TRVL[i]
  <2>1. \A i \in 0..(TRVL_INDEX - 1) : i \in 0..MaxSteps /\ i # TRVL_INDEX
    BY <1>1, RouteAssumption, SMT DEF Types
  <2> QED  BY <2>1
<1>3. TRVL_INDEX' >= TRVL_INDEX
  BY <1>1, SMT DEF Types
<1>4. /\ Decided => Decided'
      /\ TRVL_INDEX' = TRVL_INDEX => (Decided' => Decided)
      /\ At(TRVL', TRVL_INDEX - 1) = At(TRVL, TRVL_INDEX - 1)
  BY <1>1, <1>2, <1>3, ClosedStepsKept
<1>5. Unwritten'
  BY <1>1, UnwrittenKept
<1> QED  BY <1>1, <1>2, <1>4, <1>5, DecidedIsBoolean

LEMMA OpenLegGoesOn == RouteInv /\ HeadingInv' /\ OpenLeg => RouteGoesOn
<1> SUFFICES ASSUME RouteInv, HeadingInv', OpenLeg PROVE RouteGoesOn
  OBVIOUS
<1> DEFINE at == At(TRVL, TRVL_INDEX - 1)
           n == Edge * (ENCODER_0A - ENCODER_INIT)
<1>1. /\ TRVL_INDEX \in 0..MaxSteps /\ TRVL_INDEX \in 1..MaxSteps /\ TRVL \in [0..MaxSteps -> Step]
      /\ heading \in Direction /\ at \in Point /\ ENCODER_0A \in Int /\ n \in Int
      /\ Recording => /\ place \in Point /\ lost \in Point
                      /\ Adds(place, IF LegOpen THEN Go(at, heading, n) ELSE at, lost)
  BY Unfolded DEF Edge
<1>2. TRVL_INDEX' = TRVL_INDEX /\ heading' = heading /\ place' = place /\ Recording' = Recording
  BY DEF OpenLeg, history, rover, Recording
<1>3. TRVL' = [TRVL EXCEPT ![TRVL_INDEX] = [TRVL[TRVL_INDEX] EXCEPT !.move = "F"]]
  BY <1>1 DEF OpenLeg
<1>4. /\ \A i \in 0..MaxSteps : i # TRVL_INDEX => TRVL'[i] = TRVL[i]
      /\ TRVL'[TRVL_INDEX].move = "F"
      /\ TRVL'[TRVL_INDEX].dir = TRVL[TRVL_INDEX].dir /\ TRVL'[TRVL_INDEX].count = TRVL[TRVL_INDEX].count
  <2>1. TRVL[TRVL_INDEX] \in Step
    BY <1>1
  <2> QED  BY <1>1, <1>3, <2>1 DEF Step
<1>5. Decided' = Decided /\ At(TRVL', TRVL_INDEX - 1) = at /\ Unwritten'
  BY <1>2, <1>4, ClosedAlone
<1>6. OpenStep'
  BY <1>2, <1>4, <1>5 DEF OpenStep, RouteInv
<1>7. lost' = IF LegOpen THEN Go(lost, heading, n) ELSE lost
  BY DEF OpenLeg
<1> HIDE DEF at, n
<1>8. Placed'
  BY <1>1, <1>2, <1>7, Goes DEF Placed
<1>9. LegsAddUp'
  <2>1. LegOpen' /\ Edge * (ENCODER_0A' - ENCODER_INIT') = 0
    <3>1. ENCODER_0A' = ENCODER_0A /\ ENCODER_INIT' = ENCODER_0A
      BY DEF OpenLeg
    <3> QED  BY <1>1, <1>2, <1>4, <3>1 DEF LegOpen, Edge
  <2>2. ASSUME Recording' PROVE Adds(place', Go(at, heading, 0), lost')
    <3>1. Recording
      BY <1>2, <2>2
    <3>2. Go(at, heading, 0) = at
      BY <1>1, <3>1, GoingAdds
    <3>3. LegOpen => Adds(place, at, Go(lost, heading, n))
      BY <1>1, <3>1, GoingAdds
    <3> QED  BY <1>1, <1>2, <1>7, <3>1, <3>2, <3>3
  <2> QED  BY <1>1, <1>2, <1>5, <2>1, <2>2, AddsUpNext
<1> QED  BY <1>5, <1>6, <1>8, <1>9 DEF RouteGoesOn

LEMMA CloseLegGoesOn == RouteInv /\ HeadingInv' /\ CloseLeg => RouteGoesOn
<1> SUFFICES ASSUME RouteInv, HeadingInv', CloseLeg PROVE RouteGoesOn
  OBVIOUS
<1> DEFINE at == At(TRVL, TRVL_INDEX - 1)
           c == ENCODER_0A - ENCODER_INIT
<1>1. /\ TRVL_INDEX \in 0..MaxSteps /\ TRVL_INDEX \in 1..MaxSteps /\ TRVL \in [0..MaxSteps -> Step]
      /\ heading \in Direction /\ at \in Point /\ c \in Int
      /\ Recording => /\ place \in Point /\ lost \in Point
                      /\ Adds(place, IF LegOpen THEN Go(at, heading, Edge * c) ELSE at, lost)
  BY Unfolded
<1>2. /\ TRVL_INDEX' = TRVL_INDEX + 1 /\ TRVL_INDEX < MaxSteps /\ LegOpen
      /\ heading' = heading /\ place' = place /\ lost' = lost /\ Recording' = Recording
  BY DEF CloseLeg, history, rover, Recording
<1>3. DirAfter("F") \in Direction /\ (Recording => DirAfter("F") = heading)
  BY DirAfterMove DEF RouteInv, HeadingInv
<1>4. TRVL' = [TRVL EXCEPT ![TRVL_INDEX] = [TRVL[TRVL_INDEX] EXCEPT !.dir = DirAfter("F"), !.count = c]]
  BY <1>1 DEF CloseLeg
<1>5. /\ \A i \in 0..MaxSteps : i # TRVL_INDEX => TRVL'[i] = TRVL[i]
      /\ TRVL'[TRVL_INDEX].dir = DirAfter("F") /\ TRVL'[TRVL_INDEX].count = c
  <2>1. TRVL[TRVL_INDEX] \in Step
    BY <1>1
  <2> QED  BY <1>1, <1>4, <2>1 DEF Step
<1>6. /\ TRVL' \in [0..MaxSteps -> Step] /\ TRVL_INDEX' \in 1..MaxSteps
      /\ \A i \in 0..(TRVL_INDEX - 1) : TRVL'[i] = TRVL[i]
      /\ Decided => Decided'
      /\ Unwritten'
  BY <1>2, <1>5, ClosedAlone
<1>7. /\ TRVL'[TRVL_INDEX'].move = "none" /\ TRVL'[TRVL_INDEX'].dir = "none"
      /\ TRVL'[TRVL_INDEX'].count = 0
  BY <1>2, <1>5, UnwrittenKept DEF RouteInv, HeadingInv
<1>8. OpenStep'
  BY <1>7 DEF OpenStep
<1>9. Placed'
  BY <1>1, <1>2 DEF Placed
<1>10. At(TRVL', TRVL_INDEX' - 1) = Go(at, DirAfter("F"), Edge * c)
  BY <1>2, <1>3, <1>5, <1>6, ClosedStepAdds DEF RouteInv, HeadingInv
<1>11. LegsAddUp'
  <2> HIDE DEF at, c
  <2>1. ~ LegOpen'
    BY <1>7 DEF LegOpen
  <2> QED  BY <1>1, <1>2, <1>3, <1>6, <1>10, <2>1, AddsUpNext
<1>12. Decided' # Decided => Decided' /\ LegOpen /\ TRVL_INDEX' = TRVL_INDEX + 1
  BY <1>2, <1>6, DecidedIsBoolean
<1> QED  BY <1>6, <1>8, <1>9, <1>11, <1>12 DEF RouteGoesOn

LEMMA TurnGoesOn ==
    ASSUME RouteInv, HeadingInv', NEW move \in {"L", "R", "B"}, NEW back \in Int, Turn(move, back)
    PROVE  RouteGoesOn
<1> DEFINE at == At(TRVL, TRVL_INDEX - 1)
           n == -Edge * back
<1>1. /\ TRVL_INDEX \in 0..MaxSteps /\ TRVL_INDEX \in 1..MaxSteps /\ TRVL \in [0..MaxSteps -> Step]
      /\ heading \in Direction /\ at \in Point /\ n \in Int
      /\ Recording => /\ place \in Point /\ lost \in Point
                      /\ Adds(place, IF LegOpen THEN Go(at, heading, Edge * (ENCODER_0A - ENCODER_INIT)) ELSE at, lost)
  BY Unfolded DEF Edge
<1>2. /\ TRVL_INDEX' = TRVL_INDEX + 1 /\ TRVL_INDEX < MaxSteps /\ ~ LegOpen
      /\ place' = Go(place, heading, n) /\ lost' = Go(lost, heading, n) /\ Recording' = Recording
  BY DEF Turn, history, Recording
<1>3. DirAfter(move) \in Direction
  BY DirAfterMove DEF RouteInv, HeadingInv
<1>4. TRVL' = [TRVL EXCEPT ![TRVL_INDEX] = [TRVL[TRVL_INDEX] EXCEPT !.move = move, !.dir = DirAfter(move)]]
  BY <1>1 DEF Turn
<1>5. /\ \A i \in 0..MaxSteps : i # TRVL_INDEX => TRVL'[i] = TRVL[i]
      /\ TRVL'[TRVL_INDEX].dir = DirAfter(move) /\ TRVL'[TRVL_INDEX].count = TRVL[TRVL_INDEX].count
  <2>1. TRVL[TRVL_INDEX] \in Step
    BY <1>1
  <2> QED  BY <1>1, <1>4, <2>1 DEF Step
<1>6. /\ TRVL' \in [0..MaxSteps -> Step] /\ TRVL_INDEX' \in 1..MaxSteps
      /\ \A i \in 0..(TRVL_INDEX - 1) : TRVL'[i] = TRVL[i]
      /\ Decided => Decided'
      /\ Unwritten'
  BY <1>2, <1>5, ClosedAlone
<1>7. /\ TRVL'[TRVL_INDEX'].move = "none" /\ TRVL'[TRVL_INDEX'].dir = "none"
      /\ TRVL'[TRVL_INDEX'].count = 0
  BY <1>2, <1>5, UnwrittenKept DEF RouteInv, HeadingInv
<1>8. OpenStep'
  BY <1>7 DEF OpenStep
<1> HIDE DEF n
<1>9. Placed'
  BY <1>1, <1>2, Goes DEF Placed
<1>10. At(TRVL', TRVL_INDEX' - 1) = Go(at, DirAfter(move), Edge * TRVL[TRVL_INDEX].count)
  BY <1>2, <1>3, <1>5, <1>6, ClosedStepAdds DEF RouteInv, HeadingInv
<1>11. LegsAddUp'
  <2> HIDE DEF at
  <2>1. ~ LegOpen'
    BY <1>7 DEF LegOpen
  <2>2. ASSUME Recording' PROVE Adds(place', At(TRVL', TRVL_INDEX' - 1), lost')
    <3>1. Recording /\ place \in Point /\ lost \in Point /\ Adds(place, at, lost)
      BY <1>1, <1>2, <2>2
    <3>2. Edge * TRVL[TRVL_INDEX].count = 0
      BY <3>1 DEF RouteInv, OpenStep, Edge
    <3>3. At(TRVL', TRVL_INDEX' - 1) = at
      BY <1>1, <1>3, <1>10, <3>1, <3>2, GoingAdds
    <3>4. Adds(Go(place, heading, n), at, Go(lost, heading, n))
      BY <1>1, <3>1, GoingAdds
    <3> QED  BY <1>2, <3>3, <3>4
  <2> QED  BY <1>6, <2>1, <2>2, AddsUpNext
<1>12. Decided' => Decided
  <2> SUFFICES ASSUME ~ Decided PROVE ~ Decided'
    OBVIOUS
  <2>1. TRVL[TRVL_INDEX].count = 0
    BY DEF RouteInv, OpenStep
  <2>2. TRVL'[TRVL_INDEX].count = 0
    BY <1>5, <2>1
  <2> QED  BY <1>2, <1>6, <2>2, EmptyStepDecidesNothing DEF RouteInv, HeadingInv
<1> QED  BY <1>2, <1>6, <1>8, <1>9, <1>11, <1>12, DecidedIsBoolean DEF RouteGoesOn

LEMMA StartReplayGoesOn == RouteInv /\ HeadingInv' /\ StartReplay => RouteGoesOn
<1> SUFFICES ASSUME RouteInv, HeadingInv', StartReplay PROVE RouteGoesOn
  OBVIOUS
<1>1. /\ TRVL_INDEX \in 0..MaxSteps /\ TRVL_INDEX \in 1..MaxSteps /\ TRVL \in [0..MaxSteps -> Step]
  BY Unfolded
<1>2. TRVL_INDEX' = TRVL_INDEX /\ ~ Recording'
  BY SMT DEF StartReplay, Recording
<1>3. \A i \in 0..MaxSteps : i # TRVL_INDEX => TRVL'[i] = TRVL[i]
  <2>1. CASE LegOpen
    BY <1>1, <2>1 DEF StartReplay, Fill
  <2>2. CASE ~ LegOpen
    BY <1>1, <2>2 DEF StartReplay, Fill
  <2> QED  BY <2>1, <2>2
<1>4. Decided' = Decided /\ Unwritten' /\ TRVL_INDEX' \in 1..MaxSteps
  BY <1>1, <1>2, <1>3, ClosedAlone
<1>5. Decided'
  BY <1>4, EvalIsDecided DEF StartReplay, RouteInv, HeadingInv
<1>6. OpenStep' /\ Placed' /\ LegsAddUp'
  BY <1>2, <1>5 DEF OpenStep, Placed, LegsAddUp
<1> QED  BY <1>4, <1>6 DEF RouteGoesOn

(* Steps that leave the record alone. *)
LEMMA RecordAlone ==
    ASSUME RouteInv, UNCHANGED record, Recording' => Recording
    PROVE  Unwritten' /\ Decided' = Decided /\ OpenStep' /\ (TRVL_INDEX' \in 1..MaxSteps)
           /\ At(TRVL', TRVL_INDEX' - 1) = At(TRVL, TRVL_INDEX - 1) /\ LegOpen' = LegOpen
<1>1. /\ TRVL' = TRVL /\ TRVL_INDEX' = TRVL_INDEX /\ TRVL_INDEX \in 1..MaxSteps
      /\ TRVL \in [0..MaxSteps -> Step] /\ Types /\ Unwritten /\ OpenStep
      /\ TRVL_INDEX \in 0..MaxSteps
  BY Unfolded DEF record, RouteInv, HeadingInv
<1>2. TRVL_INDEX' >= TRVL_INDEX
  BY <1>1
<1>3. Decided' = Decided
  BY <1>1, <1>2, ClosedStepsKept, DecidedIsBoolean
<1>4. Unwritten'
  BY <1>1 DEF Unwritten
<1>5. OpenStep'
  BY <1>1, <1>3 DEF OpenStep
<1> QED  BY <1>1, <1>3, <1>4, <1>5 DEF LegOpen

LEMMA RollGoesOn == ASSUME RouteInv, HeadingInv', NEW m \in Int, Roll(m) PROVE RouteGoesOn
<1> DEFINE at == At(TRVL, TRVL_INDEX - 1)
           n == Edge * (ENCODER_0A - ENCODER_INIT)
<1>1. Recording' = Recording /\ UNCHANGED record /\ LegOpen /\ heading' = heading /\ lost' = lost
  BY DEF Roll, history, Recording
<1>2. /\ heading \in Direction /\ at \in Point /\ n \in Int /\ Edge * m \in Int
      /\ Recording => /\ place \in Point /\ lost \in Point
                      /\ Adds(place, IF LegOpen THEN Go(at, heading, n) ELSE at, lost)
  BY Unfolded DEF Edge
<1>3. Unwritten' /\ Decided' = Decided /\ OpenStep' /\ TRVL_INDEX' \in 1..MaxSteps
      /\ At(TRVL', TRVL_INDEX' - 1) = at /\ LegOpen'
  BY <1>1, RecordAlone
<1>4. place' = Go(place, heading, Edge * m) /\ Edge * (ENCODER_0A' - ENCODER_INIT') = n + Edge * m
  <2>1. ENCODER_0A' = ENCODER_0A + m /\ ENCODER_INIT' = ENCODER_INIT /\ ENCODER_0A \in Int /\ ENCODER_INIT \in Int
    BY Unfolded DEF Roll, Count, record
  <2> QED  BY <2>1 DEF Roll, Edge
<1> HIDE DEF at, n
<1>5. Placed'
  BY <1>1, <1>2, <1>4, Goes DEF Placed
<1>6. LegsAddUp'
  <2>1. ASSUME Recording' PROVE Adds(place', Go(at, heading, n + Edge * m), lost')
    <3>1. place \in Point /\ lost \in Point /\ Adds(place, Go(at, heading, n), lost)
      BY <1>1, <1>2, <2>1
    <3>2. Go(at, heading, n) \in Point
      BY <1>2, Goes
    <3>3. Adds(Go(place, heading, Edge * m), Go(Go(at, heading, n), heading, Edge * m), lost)
      BY <1>2, <3>1, <3>2, GoingAdds
    <3>4. Go(Go(at, heading, n), heading, Edge * m) = Go(at, heading, n + Edge * m)
      BY <1>2, <3>1, GoingAdds
    <3> QED  BY <1>1, <1>4, <3>3, <3>4
  <2> QED  BY <1>1, <1>3, <1>4, <2>1, AddsUpNext
<1> QED  BY <1>3, <1>5, <1>6 DEF RouteGoesOn

LEMMA ReplayGoesOn == RouteInv /\ HeadingInv' /\ (ReplayStep \/ EndReplay) => RouteGoesOn
<1> SUFFICES ASSUME RouteInv, ReplayStep \/ EndReplay PROVE RouteGoesOn
  OBVIOUS
<1>1. UNCHANGED record /\ ~ Recording'
  BY SMT DEF ReplayStep, EndReplay, Recording
<1>2. Unwritten' /\ Decided' = Decided /\ OpenStep'
  BY <1>1, RecordAlone
<1>3. Placed' /\ LegsAddUp'
  BY <1>1 DEF Placed, LegsAddUp
<1> QED  BY <1>2, <1>3 DEF RouteGoesOn

LEMMA IdleGoesOn == RouteInv /\ UNCHANGED vars => RouteGoesOn
<1> SUFFICES ASSUME RouteInv, UNCHANGED vars PROVE RouteGoesOn
  OBVIOUS
<1>1. /\ UNCHANGED record /\ Recording' = Recording /\ heading' = heading /\ place' = place /\ lost' = lost
      /\ ENCODER_0A' = ENCODER_0A /\ ENCODER_INIT' = ENCODER_INIT
  BY DEF vars, record, history, rover, Recording
<1>2. Unwritten' /\ Decided' = Decided /\ OpenStep' /\ TRVL_INDEX' \in 1..MaxSteps
      /\ At(TRVL', TRVL_INDEX' - 1) = At(TRVL, TRVL_INDEX - 1) /\ LegOpen' = LegOpen
  BY <1>1, RecordAlone
<1>3. Placed'
  BY <1>1 DEF Placed, RouteInv
<1>4. LegsAddUp'
  BY <1>1, <1>2, Unfolded, AddsUpNext
<1> QED  BY <1>2, <1>3, <1>4 DEF RouteGoesOn

LEMMA RouteStep == RouteInv /\ [Next]_vars => RouteInv' /\ RouteGoesOn
<1> SUFFICES ASSUME RouteInv, [Next]_vars PROVE RouteInv' /\ RouteGoesOn
  OBVIOUS
<1>1. HeadingInv'
  BY HeadingStep DEF RouteInv
<1>2. Rolls \subseteq Int /\ 0 \in Int
  BY RouteAssumption, SMT
<1>3. CASE UNCHANGED vars
  BY <1>1, <1>3, IdleGoesOn DEF RouteGoesOn, RouteInv
<1>4. CASE Next
  <2>1. RouteGoesOn
    BY <1>1, <1>2, <1>4, OpenLegGoesOn, RollGoesOn, CloseLegGoesOn, TurnGoesOn, StartReplayGoesOn, ReplayGoesOn
       DEF Next
  <2> QED  BY <1>1, <2>1 DEF RouteGoesOn, RouteInv
<1> QED  BY <1>3, <1>4

(* Until the route is driven again, the step recorded last has the         *)
(* direction the rover faces, for routes of every length.                  *)
THEOREM HeadingIsRecordedAlways == Spec => []HeadingIsRecorded
<1>1. HeadingInv => HeadingIsRecorded
  BY DEF HeadingInv
<1> QED  BY <1>1, HeadingInit, HeadingStep, PTL DEF Spec

(* Where the recorded steps lead is where the rover is, but for what it    *)
(* rolled on a leg that was opened again and what it backed out, however   *)
(* far it drives.                                                          *)
THEOREM LegsAddUpAlways == Spec => []LegsAddUp
<1>1. RouteInv => LegsAddUp
  BY DEF RouteInv
<1> QED  BY <1>1, RouteInit, RouteStep, PTL DEF Spec

(* The verdict on the course changes only when a leg is closed, and only   *)
(* to true.                                                                *)
THEOREM VerdictIsLatchedAlways == Spec => VerdictIsLatched
<1>1. RouteInv /\ [Next]_vars =>
          [evalHistory' # evalHistory => evalHistory' /\ LegOpen /\ TRVL_INDEX' = TRVL_INDEX + 1]_vars
  <2> SUFFICES ASSUME RouteInv, [Next]_vars, evalHistory' # evalHistory
               PROVE  evalHistory' /\ LegOpen /\ TRVL_INDEX' = TRVL_INDEX + 1
    OBVIOUS
  <2>1. RouteInv' /\ RouteGoesOn
    BY RouteStep
  <2>2. evalHistory <=> Decided
    BY EvalIsDecided DEF RouteInv, HeadingInv
  <2>3. evalHistory' <=> Decided'
    BY <2>1, EvalIsDecidedNext DEF RouteInv, HeadingInv
  <2>4. evalHistory \in BOOLEAN /\ evalHistory' \in BOOLEAN
    BY DEF evalHistory
  <2> QED  BY <2>1, <2>2, <2>3, <2>4, DecidedIsBoolean DEF RouteGoesOn
<1> QED  BY <1>1, RouteInit, RouteStep, PTL DEF Spec, VerdictIsLatched
=============================================================================
