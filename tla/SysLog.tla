-------------------------------- MODULE SysLog --------------------------------
(***************************************************************************)
(* The event log shared by every thread (src/src/system/sys_log.c).  A     *)
(* call takes the static log_mutex, opens the log file, prints the parts   *)
(* of one line, closes the file and gives the mutex back; when fopen fails *)
(* it returns -1 instead, and keeps the mutex.                             *)
(*                                                                         *)
(* Printing to stdout puts each part into one stream that all threads      *)
(* share; printing to a file fills the caller's own FILE, which fflush     *)
(* appends to the file in one piece.                                       *)
(***************************************************************************)
EXTENDS Naturals

CONSTANTS
  Threads,    \* the threads that log
  NoThread    \* log_mutex is free

ASSUME NoThreadIsNoThread == NoThread \notin Threads

VARIABLES
  dest,      \* what log_file names, set once by main(): "stdout" or "file"
  holder,    \* the thread that has log_mutex
  pc,        \* where each thread is in its call
  kind,      \* which of the two functions it called: "event" or "msg"
  authors,   \* threads that printed a part of the unfinished line on stdout
  leaked     \* history: a call has returned without giving the mutex back

vars == <<dest, holder, pc, kind, authors, leaked>>

\* The places of a call: between the lock and the unlock a thread is at one of
\* Critical.
Critical == {"open", "prefix", "body", "newline", "unlock"}

TypeOK ==
  /\ dest \in {"stdout", "file"}
  /\ holder \in Threads \cup {NoThread}
  /\ pc \in [Threads -> {"idle", "wait"} \cup Critical]
  /\ kind \in [Threads -> {"event", "msg"}]
  /\ authors \subseteq Threads
  /\ leaked \in BOOLEAN

Init ==
  /\ dest \in {"stdout", "file"}
  /\ holder = NoThread
  /\ pc = [t \in Threads |-> "idle"]
  /\ kind = [t \in Threads |-> "event"]
  /\ authors = {}
  /\ leaked = FALSE

Goto(t, from, to) == pc[t] = from /\ pc' = [pc EXCEPT ![t] = to]

\* A thread calls sys_log_print_event_from_module or sys_log_print_msg.
Call(t) ==
  /\ Goto(t, "idle", "wait")
  /\ \E f \in {"event", "msg"} : kind' = [kind EXCEPT ![t] = f]
  /\ UNCHANGED <<dest, holder, authors, leaked>>

\* Mutation: the lock does not wait.
Lock_NoWait(t) ==
  /\ Goto(t, "wait", "open")
  /\ holder' = t
  /\ UNCHANGED <<dest, kind, authors, leaked>>

\* Mutation: the mutex is recursive.
Lock_Recursive(t) ==
  /\ holder \in {NoThread, t}
  /\ Goto(t, "wait", "open")
  /\ holder' = t
  /\ UNCHANGED <<dest, kind, authors, leaked>>

\* pthread_mutex_lock; the mutex is not recursive, so its holder waits too.
Lock(t) ==
  /\ holder = NoThread
  /\ Goto(t, "wait", "open")
  /\ holder' = t
  /\ UNCHANGED <<dest, kind, authors, leaked>>

\* stdout, or an fopen that succeeds.
Open(t) ==
  /\ Goto(t, "open", IF kind[t] = "event" THEN "prefix" ELSE "body")
  /\ UNCHANGED <<dest, holder, kind, authors, leaked>>

\* fopen fails: return -1, with the mutex still locked.
OpenFails(t) ==
  /\ dest = "file"
  /\ Goto(t, "open", "idle")
  /\ leaked' = TRUE
  /\ UNCHANGED <<dest, holder, kind, authors>>

\* A part of the line reaches the stream.
Put(t) == authors' = IF dest = "stdout" THEN authors \cup {t} ELSE authors

\* The time stamp, level and module of an event.
PrintPrefix(t) ==
  /\ Goto(t, "prefix", "body")
  /\ Put(t)
  /\ UNCHANGED <<dest, holder, kind, leaked>>

PrintBody(t) ==
  /\ Goto(t, "body", "newline")
  /\ Put(t)
  /\ UNCHANGED <<dest, holder, kind, leaked>>

\* The newline ends the line; fflush writes it out.
PrintNewline(t) ==
  /\ Goto(t, "newline", "unlock")
  /\ authors' = {}
  /\ UNCHANGED <<dest, holder, kind, leaked>>

\* Mutation: the unlock is forgotten.
Unlock_Forgotten(t) ==
  /\ Goto(t, "unlock", "idle")
  /\ UNCHANGED <<dest, holder, kind, authors, leaked>>

\* fclose and pthread_mutex_unlock.
Unlock(t) ==
  /\ Goto(t, "unlock", "idle")
  /\ holder' = NoThread
  /\ UNCHANGED <<dest, kind, authors, leaked>>

\* A step of a thread that is past the lock.
Inside(t) == \/ Open(t) \/ OpenFails(t) \/ PrintPrefix(t) \/ PrintBody(t)
             \/ PrintNewline(t) \/ Unlock(t)

Next == \E t \in Threads : Call(t) \/ Lock(t) \/ Inside(t)

Spec == Init /\ [][Next]_vars

\* Every thread of the program logs in each of its cycles, and a thread that has
\* the mutex goes on.  The mutex need not be fair to a waiting thread.
Fairness ==
  \A t \in Threads : WF_vars(Call(t)) /\ WF_vars(Lock(t)) /\ WF_vars(Inside(t))

FairSpec == Spec /\ Fairness

-----------------------------------------------------------------------------
(* Properties *)

\* At most one thread is between taking the mutex and giving it back, and after
\* a call has kept the mutex no thread is.
MutualExclusion ==
  /\ \A t, u \in Threads : (pc[t] \in Critical /\ pc[u] \in Critical) => t = u
  /\ leaked => \A t \in Threads : pc[t] \notin Critical

\* No line mixes parts of two calls, on the shared stream either: an unfinished
\* line has one author, who is still inside the call.
LinesWhole ==
  \A t \in authors : pc[t] \in {"body", "newline"} /\ authors = {t}

\* A thread that takes the mutex gives it back, unless an fopen fails.
SectionsEnd == (holder # NoThread) ~> (holder = NoThread \/ leaked)

\* One failed fopen is final: no log call of any thread returns after it.
LeakIsFinal ==
  [][leaked => \A t \in Threads : pc[t] # "idle" => pc'[t] # "idle"]_vars

-----------------------------------------------------------------------------
(* The inductive invariant *)

\* The mutex has an owner exactly while a thread is inside a call, or for ever
\* once a call has leaked it; what has been printed of a line is its owner's.
LockOwned ==
  /\ \A t \in Threads : pc[t] \in Critical => holder = t /\ ~leaked
  /\ leaked => holder # NoThread
  /\ (holder # NoThread /\ ~leaked) => pc[holder] \in Critical

IInv == TypeOK /\ LockOwned /\ LinesWhole
=============================================================================
