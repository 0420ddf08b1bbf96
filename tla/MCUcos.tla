------------------------------- MODULE MCUcos -------------------------------
EXTENDS Ucos, TLC

CONSTANTS navi, servo, history, blocked, clear, none

MCTask == {navi, servo, history}
MCPrio == (navi :> 2) @@ (servo :> 3) @@ (history :> 4)
=============================================================================
