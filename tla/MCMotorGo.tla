----------------------------- MODULE MCMotorGo ------------------------------
EXTENDS MotorGo
MCStart == Counter
MCFloor == -2 * CounterSize
=============================================================================
