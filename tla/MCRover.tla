------------------------------ MODULE MCRover -------------------------------
EXTENDS RoverProperties
MCVolt == 1..3

(* Everything may be seen; obstacles are ahead only. *)
MCSight == [i \in 0..2 |-> BOOLEAN]
MCSightAhead == [i \in 0..2 |-> IF i = 1 THEN BOOLEAN ELSE {TRUE}]
=============================================================================
