------------------------------ MODULE MCTtcDriver ------------------------------
(* Two callers on one radio, with one register and the length.  The radios share
   nothing but the mutex. *)
EXTENDS TtcDriver

CONSTANTS c1, c2, r0, reg
MCClients == {c1, c2}
MCRadios == {r0}
MCRegs == {reg}
=============================================================================
