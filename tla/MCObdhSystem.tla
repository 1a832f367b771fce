----------------------------- MODULE MCObdhSystem -----------------------------
(* Four of the five threads: the one joined first, two that loop, and the one
   that returns, with a thread joined before and after it. *)
EXTENDS ObdhSystem

CONSTANTS pos_det, read_eps, read_edc, control_heater
MCOrder == <<pos_det, read_eps, read_edc, control_heater>>
MCOnce == {read_edc}
=============================================================================
