------------------------------ MODULE MCBoard ------------------------------
(* Small instances of every part of the board. *)
EXTENDS Board, TLC

MCUrgency == [t \in {"a", "b", "s"} |-> CASE t = "a" -> 1 [] t = "b" -> 2 [] t = "s" -> 3]

(* Delays at the edges: none, the rover's 1500 ms, the last tick counts      *)
(* before and after 16 bits overflow, an hour, and minutes out of range.     *)
MCDelays == {<<0, 0, 0, 0>>, <<0, 0, 0, 1>>, <<0, 0, 0, 999>>, <<0, 0, 0, 1500>>,
             <<0, 1, 5, 535>>, <<0, 1, 5, 536>>, <<0, 2, 11, 72>>, <<1, 0, 0, 0>>, <<0, 60, 0, 0>>}

(* Over the end of a page and of a block, to the end of the small *)
(* chip, beyond it, and beyond the large one.                                *)
MCSpans == {<<3, 4>>, <<5, 3>>, <<8, 2>>, <<16, 1>>}

(* Delay, period and kind of the timers: two run once, one repeats. *)
MCTmrKinds == {<<3, 0, "ONE_SHOT">>, <<0, 2, "PERIODIC">>, <<0, 1, "ONE_SHOT">>}

(* The priorities of nav.c's tasks, in the order main() creates them. *)
MCMainTasks == <<1, 5, 2, 3, 4>>

(* A name that fits, and one that does not. *)
MCNameLen == [short |-> 1, long |-> 9]
=============================================================================
