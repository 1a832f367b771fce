------------------------------ MODULE MCEpsRead ------------------------------
(* Three data registers, two of them heater registers. *)
EXTENDS EpsRead

MCHeaterRegs == {2, 3}
=============================================================================
