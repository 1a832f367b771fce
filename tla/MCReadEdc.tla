------------------------------- MODULE MCReadEdc -------------------------------
(* A FIFO of three packages.  Seconds are scaled down: the machine has
   been up for 3, J2000 is at 10, and a uint32_t wraps at 32. *)
EXTENDS ReadEdc
=============================================================================
