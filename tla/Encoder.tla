------------------------------ MODULE Encoder -------------------------------
(***************************************************************************)
(* The wheels' counters as the software sees them.  encoder.vhd counts the *)
(* rising edges of channel A, one instance for each motor, in a register   *)
(* that nothing resets; IORD returns it as a signed number.                *)
(***************************************************************************)
EXTENDS Integers

CONSTANTS Half,         (* 2^31: a counter takes twice as many values       *)
          Gap           (* a bound: edges between two readings, at most     *)

ASSUME EncoderAssumption ==
    /\ Half \in Nat \ {0}
    /\ Gap \in 1..Half

CounterSize == 2 * Half

Motor == {0, 1}

Counter == 0..(CounterSize - 1)

(* A rising edge: 32 bits wrap around. *)
Increment(c) == IF c = CounterSize - 1 THEN 0 ELSE c + 1

(* What IORD returns of a counter: an int. *)
IORD(c) == IF c < Half THEN c ELSE c - CounterSize

Reading == -Half..(Half - 1)
=============================================================================
