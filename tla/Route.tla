------------------------------- MODULE Route --------------------------------
(***************************************************************************)
(* The recorded route TRVL: what Navigation_Task writes into it as the     *)
(* rover moves, what evalHistory makes of it, and how executeHistory       *)
(* drives it again.  Directions, headings and lengths are the data that    *)
(* module Rover leaves out; the order in which the tasks get there is      *)
(* Rover's, and only what it allows is assumed: the rover rolls forward on *)
(* an open leg (RecordedMotion), and a turn is completed and recorded      *)
(* without a delay in between.  heading, place and lost are history: where *)
(* the rover really is, and what of its way no leg shows.  ENCODER_0A is   *)
(* taken as exact; module Odometry says how exact it is.                   *)
(***************************************************************************)
EXTENDS Integers, FiniteSetsExt

CONSTANTS Course,     (* COURSE_LENGTH - 0.05 * COURSE_LENGTH, in edges      *)
          Rolls,      (* edges the rover may roll at a time                  *)
          MaxSteps,   (* a bound: steps of the route, 400 in the code        *)
          MaxEdges,   (* a bound: edges in all                               *)
          MaxReplays  (* a bound: how often the route is driven again        *)

ASSUME RouteAssumption ==
    /\ Course \in Nat \ {0}
    /\ Rolls \subseteq Nat \ {0}
    /\ MaxSteps \in Nat \ {0}
    /\ MaxEdges \in Nat
    /\ MaxReplays \in Nat

Direction == {"N", "E", "S", "W"}

VARIABLES TRVL, TRVL_INDEX,
          ENCODER_0A, ENCODER_INIT,
          step,       (* executeHistory's i, or -1 while it does not run     *)
          steps,      (* the TRVL_INDEX it was called with                   *)
          replays,    (* replays completed                                   *)
          retired,    (* Navigation_Task and Servo_Task are suspended        *)
          heading,
          place,      (* [north, east] of the origin, in fifths of an edge   *)
          lost        (* the same, of what was rolled and not recorded       *)

record  == <<TRVL, TRVL_INDEX, ENCODER_INIT>>
history == <<step, steps, replays, retired>>
rover   == <<heading, place>>
vars    == <<record, ENCODER_0A, history, rover, lost>>

Step == [move : {"F", "L", "R", "B", "none"}, dir : Direction \cup {"none"}, count : Int]

TypeOK ==
    /\ TRVL \in [0..MaxSteps -> Step]
    /\ TRVL_INDEX \in 1..MaxSteps
    /\ \A i \in 0..(TRVL_INDEX - 1) : TRVL[i].move # "none" /\ TRVL[i].dir # "none"
    /\ ENCODER_0A \in 0..MaxEdges
    /\ ENCODER_INIT \in 0..MaxEdges
    /\ step \in -1..MaxSteps
    /\ steps \in 0..MaxSteps
    /\ replays \in 0..MaxReplays
    /\ retired \in BOOLEAN
    /\ heading \in Direction
    /\ place \in [north : Int, east : Int]
    /\ lost \in [north : Int, east : Int]

-----------------------------------------------------------------------------
(* The ground. *)

Origin == [north |-> 0, east |-> 0]

(* Fifths of an edge: 95 % of 16 times a count is 76 fifths.               *)
Edge == 5
Replayed(count) == 76 * count

(* n further on in direction d. *)
Go(from, d, n) ==
    CASE d = "N" -> [from EXCEPT !.north = @ + n]
      [] d = "S" -> [from EXCEPT !.north = @ - n]
      [] d = "E" -> [from EXCEPT !.east = @ + n]
      [] d = "W" -> [from EXCEPT !.east = @ - n]

Bearing == [N |-> 0, E |-> 1, S |-> 2, W |-> 3]

(* The direction some quarter turns to the right of d. *)
Turned(d, quarters) ==
    CHOOSE e \in Direction : Bearing[e] = (Bearing[d] + quarters) % 4

Quarters == [R |-> 1, B |-> 2, L |-> 3]

-----------------------------------------------------------------------------
(* newDir: the direction after a move, out of the one before.              *)

(* Mutant: a right turn from the west is taken for one to the south. *)
newDir_RightOfWest(old, move) ==
    CASE move = "F" -> old
      [] move = "L" -> [N |-> "W", W |-> "S", E |-> "N", S |-> "E"][old]
      [] move = "R" -> [N |-> "E", W |-> "S", E |-> "S", S |-> "W"][old]
      [] move = "B" -> [N |-> "S", W |-> "E", E |-> "W", S |-> "N"][old]

newDir(old, move) ==
    CASE move = "F" -> old
      [] move = "L" -> [N |-> "W", W |-> "S", E |-> "N", S |-> "E"][old]
      [] move = "R" -> [N |-> "E", W |-> "N", E |-> "S", S |-> "W"][old]
      [] move = "B" -> [N |-> "S", W |-> "E", E |-> "W", S |-> "N"][old]

(* The direction TRVL gives to a move recorded next. *)
DirAfter(move) == newDir(TRVL[TRVL_INDEX - 1].dir, move)

LegOpen == TRVL[TRVL_INDEX].move = "F"

(* How far north the steps up to k have led. *)
North(k) ==
    MapThenSumSet(LAMBDA i : CASE TRVL[i].dir = "N" -> TRVL[i].count
                               [] TRVL[i].dir = "S" -> -TRVL[i].count
                               [] OTHER -> 0,
                  0..k)

(* evalHistory: some beginning of the route has completed the course. *)
evalHistory == \E k \in 0..TRVL_INDEX : North(k) >= Course

-----------------------------------------------------------------------------
(* main(): the rover faces north at the origin; step 0 stands for nothing, *)
(* but has a count of 1.                                                   *)
Init ==
    /\ TRVL = [i \in 0..MaxSteps |->
                  IF i = 0 THEN [move |-> "F", dir |-> "N", count |-> 1]
                           ELSE [move |-> "none", dir |-> "none", count |-> 0]]
    /\ TRVL_INDEX = 1
    /\ ENCODER_0A = 0
    /\ ENCODER_INIT = 0
    /\ step = -1 /\ steps = 0 /\ replays = 0 /\ retired = FALSE
    /\ heading = "N" /\ place = Origin
    /\ lost = Origin

(* The wheels turn n edges. *)
Count(n) ==
    /\ ENCODER_0A + n <= MaxEdges
    /\ ENCODER_0A' = ENCODER_0A + n

(* Mutant: ENCODER_INIT keeps the value of an earlier leg. *)
OpenLeg_KeepsInit ==
    /\ ~retired
    /\ TRVL' = [TRVL EXCEPT ![TRVL_INDEX].move = "F"]
    /\ lost' = IF LegOpen THEN Go(lost, heading, Edge * (ENCODER_0A - ENCODER_INIT)) ELSE lost
    /\ UNCHANGED <<TRVL_INDEX, ENCODER_0A, ENCODER_INIT, history, rover>>

(* FRONT_IS_CLEAR.  A leg that is open is begun again. *)
OpenLeg ==
    /\ ~retired
    /\ TRVL' = [TRVL EXCEPT ![TRVL_INDEX].move = "F"]
    /\ ENCODER_INIT' = ENCODER_0A
    /\ lost' = IF LegOpen THEN Go(lost, heading, Edge * (ENCODER_0A - ENCODER_INIT)) ELSE lost
    /\ UNCHANGED <<TRVL_INDEX, ENCODER_0A, history, rover>>

Roll(n) ==
    /\ LegOpen /\ step = -1 /\ ~retired
    /\ Count(n)
    /\ place' = Go(place, heading, Edge * n)
    /\ UNCHANGED <<record, history, heading, lost>>

(* FRONT_IS_BLOCKED with a leg open. *)
CloseLeg ==
    /\ ~retired /\ LegOpen /\ TRVL_INDEX < MaxSteps
    /\ TRVL' = [TRVL EXCEPT ![TRVL_INDEX].dir = DirAfter("F"),
                            ![TRVL_INDEX].count = ENCODER_0A - ENCODER_INIT]
    /\ TRVL_INDEX' = TRVL_INDEX + 1
    /\ UNCHANGED <<ENCODER_0A, ENCODER_INIT, history, rover, lost>>

(* FRONT_IS_BLOCKED, the leg being closed: a turn to the side, or a half   *)
(* turn after backing out, is made and recorded.                           *)
Turn(move, back) ==
    /\ ~retired /\ ~LegOpen /\ TRVL_INDEX < MaxSteps
    /\ Count(back + 1)
    /\ heading' = Turned(heading, Quarters[move])
    /\ place' = Go(place, heading, -Edge * back)
    /\ lost' = Go(lost, heading, -Edge * back)
    /\ TRVL' = [TRVL EXCEPT ![TRVL_INDEX].move = move,
                            ![TRVL_INDEX].dir = DirAfter(move)]
    /\ TRVL_INDEX' = TRVL_INDEX + 1
    /\ UNCHANGED <<ENCODER_INIT, history>>

(* Mutant: the open leg of a finished course is closed as FRONT_IS_BLOCKED  *)
(* closes one, but taken back from the step before.                        *)
Fill_StepBefore ==
    TRVL' = [TRVL EXCEPT ![TRVL_INDEX - 1].dir = DirAfter("F"),
                         ![TRVL_INDEX - 1].count = ENCODER_0A - ENCODER_INIT]

(* History_Task completes an open leg, but leaves it open. *)
Fill ==
    TRVL' = IF LegOpen
            THEN [TRVL EXCEPT ![TRVL_INDEX].dir = DirAfter("F"),
                              ![TRVL_INDEX].count = ENCODER_0A - ENCODER_INIT]
            ELSE TRVL

(* History_Task finds the course completed: a half turn, then the route    *)
(* from its first step.                                                    *)
StartReplay ==
    /\ step = -1 /\ replays < MaxReplays
    /\ evalHistory
    /\ Fill
    /\ heading' = Turned(heading, 2)
    /\ step' = 0
    /\ steps' = TRVL_INDEX
    /\ UNCHANGED <<TRVL_INDEX, ENCODER_0A, ENCODER_INIT, replays, retired, place, lost>>

(* A leg is driven for 16 times its count; left becomes right; a half turn *)
(* is skipped.  The edges no longer matter.                                *)
ReplayStep ==
    /\ step \in 0..(steps - 1)
    /\ step' = step + 1
    /\ \/ /\ TRVL[step].move = "F"
          /\ place' = Go(place, heading, Replayed(TRVL[step].count))
          /\ UNCHANGED heading
       \/ /\ TRVL[step].move = "L" /\ heading' = Turned(heading, Quarters["R"])
          /\ UNCHANGED place
       \/ /\ TRVL[step].move = "R" /\ heading' = Turned(heading, Quarters["L"])
          /\ UNCHANGED place
       \/ TRVL[step].move = "B" /\ UNCHANGED rover
    /\ UNCHANGED <<record, ENCODER_0A, steps, replays, retired, lost>>

EndReplay ==
    /\ step # -1 /\ step = steps
    /\ step' = -1
    /\ replays' = replays + 1
    /\ retired' = TRUE
    /\ UNCHANGED <<record, ENCODER_0A, steps, rover, lost>>

Next ==
    \/ OpenLeg
    \/ \E n \in Rolls : Roll(n)
    \/ CloseLeg
    \/ Turn("L", 0) \/ Turn("R", 0)
    \/ \E n \in Rolls : Turn("B", n)
    \/ StartReplay
    \/ ReplayStep
    \/ EndReplay

Spec == Init /\ [][Next]_vars

-----------------------------------------------------------------------------
Recording == step = -1 /\ ~retired

(* The record is right about the rover's heading: the last step recorded   *)
(* has the direction it faces (nav.c 69, 111, 119, 129).                   *)
HeadingIsRecorded == Recording => TRVL[TRVL_INDEX - 1].dir = heading

(* Where the recorded steps lead from the origin, step 0 left out; an open *)
(* leg leads on for what has been rolled on it.                            *)
Recorded ==
    LET along(d) == MapThenSumSet(LAMBDA i : IF TRVL[i].dir = d THEN TRVL[i].count ELSE 0,
                                  1..(TRVL_INDEX - 1))
        sum == [north |-> Edge * (along("N") - along("S")),
                east  |-> Edge * (along("E") - along("W"))]
    IN IF LegOpen THEN Go(sum, heading, Edge * (ENCODER_0A - ENCODER_INIT)) ELSE sum

(* Every edge rolled forward is in one leg and in its direction, and the   *)
(* edges of a turn are in none; what the record misses is exactly what was *)
(* rolled on a leg that was opened again (158) and what the rover backed   *)
(* out (125), which is recorded as a half turn alone.                      *)
LegsAddUp ==
    Recording => /\ place.north = Recorded.north + lost.north
                 /\ place.east = Recorded.east + lost.east

(* The verdict on the course becomes true when a leg is closed and at no   *)
(* other step, and stays: History_Task, which asks every 10 s, finds it    *)
(* whenever it comes, and drives the route again and again.                *)
VerdictIsLatched ==
    [][evalHistory' # evalHistory => evalHistory' /\ LegOpen /\ TRVL_INDEX' = TRVL_INDEX + 1]_vars

Distance(p) == (IF p.north < 0 THEN -p.north ELSE p.north)
             + (IF p.east < 0 THEN -p.east ELSE p.east)

(* "Go back in history to origin!" (motors.c 270): at the end of the       *)
(* replay the rover is nearer to the origin than the course is long.       *)
BackAtOrigin == retired => Distance(place) <= Edge * Course
=============================================================================
