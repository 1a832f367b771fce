--------------------------- MODULE MCHeaterControl ---------------------------
(* Model checking of HeaterControl. *)
EXTENDS HeaterControl
=============================================================================
