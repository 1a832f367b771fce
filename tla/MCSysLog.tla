------------------------------- MODULE MCSysLog -------------------------------
(* Three threads: a holder, a waiter and one about to call. *)
EXTENDS SysLog

CONSTANTS t1, t2, t3
MCThreads == {t1, t2, t3}
=============================================================================
