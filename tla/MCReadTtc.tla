------------------------------- MODULE MCReadTtc -------------------------------
(* Two registers, one of each kind of reader. *)
EXTENDS ReadTtc

CONSTANTS time_counter, reset_counter
MCHkRegs == {time_counter, reset_counter}
MCDirect == {time_counter}
=============================================================================
