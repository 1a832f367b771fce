------------------------------ MODULE ObdhSystem ------------------------------
(***************************************************************************)
(* The process as a whole: main() creates its threads one after the other  *)
(* and joins them in the same order (src/src/main.c), each thread works in *)
(* passes that write the log (src/src/threads), the log has one mutex      *)
(* (module SysLog), and the service manager starts the process again       *)
(* whenever it ends (src/services/obdh2-sim.service).                      *)
(*                                                                         *)
(* A pass is reduced to its log calls: what else it does waits for no      *)
(* other thread.  ctx.lock is taken by the position thread only and        *)
(* ttc_mutex by the radio thread only.                                     *)
(***************************************************************************)
EXTENDS Naturals, Sequences

CONSTANTS
  Order,      \* the threads, in the order main() creates and joins them
  Once,       \* the threads that return after one pass: read_edc
  NoThread,   \* log_mutex is free
  MaxLogs,    \* bound on the log calls of a pass
  MaxFaults   \* bound on failed allocations and thread creations

Threads == { Order[i] : i \in DOMAIN Order }

ASSUME SystemConstants ==
  /\ Len(Order) \in Nat \ {0} /\ DOMAIN Order = 1 .. Len(Order)
  /\ \A i, j \in DOMAIN Order : Order[i] = Order[j] => i = j
  /\ Once \subseteq Threads /\ Order[1] \notin Once
  /\ NoThread \notin Threads
  /\ MaxLogs \in Nat \ {0} /\ MaxFaults \in Nat

VARIABLES
  at,       \* main(): before the creations, in them, in the joins, or over
  next,     \* main(): the position in Order it creates or joins
  place,    \* where each thread is in its life
  logs,     \* log calls of the current pass of each thread
  logpc,    \* where each thread is in its log call
  holder,   \* the thread that has log_mutex
  leaked,   \* a log call has returned without giving the mutex back
  faults    \* the used part of MaxFaults

logVars  == <<logpc, holder, leaked>>
mainVars == <<at, next, faults>>
vars     == <<mainVars, place, logs, logVars>>

\* The log, printing events to a file.
Log == INSTANCE SysLog WITH dest <- "file", pc <- logpc, authors <- {},
                            kind <- [t \in Threads |-> "event"]

TypeOK ==
  /\ at \in {"setup", "create", "join", "crashed", "returned"}
  /\ next \in DOMAIN Order
  /\ place \in [Threads -> {"unborn", "absent", "pass", "sleep", "ended"}]
  /\ logs \in [Threads -> 0..MaxLogs]
  /\ logpc \in [Threads -> {"idle", "wait"} \cup Log!Critical]
  /\ holder \in Threads \cup {NoThread}
  /\ leaked \in BOOLEAN
  /\ faults \in 0..MaxFaults

\* A new process: the context is zeroed and the log mutex is free.
Fresh == [ at     |-> "setup",
           next   |-> 1,
           place  |-> [t \in Threads |-> "unborn"],
           logs   |-> [t \in Threads |-> 0],
           logpc  |-> [t \in Threads |-> "idle"],
           holder |-> NoThread,
           leaked |-> FALSE ]

Init ==
  /\ at = Fresh.at /\ next = Fresh.next
  /\ place = Fresh.place /\ logs = Fresh.logs
  /\ logpc = Fresh.logpc /\ holder = Fresh.holder /\ leaked = Fresh.leaked
  /\ faults = 0

Gone == at \in {"crashed", "returned"}

-----------------------------------------------------------------------------
(* main() *)

\* calloc for the thread ids, and pthread_mutex_init, which cannot fail here.
Setup ==
  /\ at = "setup"
  /\ at' = "create"
  /\ UNCHANGED <<next, faults, place, logs, logVars>>

Fail == faults < MaxFaults /\ faults' = faults + 1

\* calloc returns NULL, which is not checked: the first pthread_create writes
\* its thread id through it.
SetupFails ==
  /\ at = "setup" /\ Fail
  /\ at' = "crashed"
  /\ UNCHANGED <<next, place, logs, logVars>>

\* From one thread to the next, and after the last one to what follows.
Advance(phase, after) ==
  IF next = Len(Order) THEN at' = after /\ next' = 1
                       ELSE at' = phase /\ next' = next + 1

\* The next thread is created, and may run before main() goes on.
Create ==
  /\ at = "create"
  /\ place' = [place EXCEPT ![Order[next]] = "pass"]
  /\ Advance("create", "join")
  /\ UNCHANGED <<faults, logs, logVars>>

\* pthread_create fails; its result is ignored and the thread id stays zero.
CreateFails ==
  /\ at = "create" /\ Fail
  /\ place' = [place EXCEPT ![Order[next]] = "absent"]
  /\ Advance("create", "join")
  /\ UNCHANGED <<logs, logVars>>

\* Mutation: the threads are joined from the last to the first.
Joined_Backwards == Order[Len(Order) + 1 - next]

\* The thread whose turn it is to be joined.
Joined == Order[next]

\* Mutation: the joins do not wait.
Over_Detached(t) == place[t] # "absent"

\* The thread has returned.
Over(t) == place[t] = "ended"

\* pthread_join waits for the thread; after the last one main() returns, and
\* the context, a local variable of its, goes with the process.
Join ==
  /\ at = "join" /\ Over(Joined)
  /\ Advance("join", "returned")
  /\ UNCHANGED <<faults, place, logs, logVars>>

\* pthread_join on the zero id of a thread that was never created is undefined:
\* it returns an error, which is ignored, or the process dies.
JoinAbsent ==
  /\ at = "join" /\ place[Joined] = "absent"
  /\ \/ Advance("join", "returned")
     \/ at' = "crashed" /\ UNCHANGED next
  /\ UNCHANGED <<faults, place, logs, logVars>>

\* Mutation: Restart=on-failure.
Restarted_OnFailure == at = "crashed"

\* Restart=always: whatever ended the process.
Restarted == Gone

\* The service manager starts the process again.
Restart ==
  /\ Restarted
  /\ at' = Fresh.at /\ next' = Fresh.next
  /\ place' = Fresh.place /\ logs' = Fresh.logs
  /\ logpc' = Fresh.logpc /\ holder' = Fresh.holder /\ leaked' = Fresh.leaked
  /\ UNCHANGED faults

-----------------------------------------------------------------------------
(* The threads *)

\* The thread is in a pass of a live process, and not in a log call.
Works(t) == ~Gone /\ place[t] = "pass" /\ logpc[t] = "idle"

LogCall(t) ==
  /\ Works(t) /\ logs[t] < MaxLogs
  /\ logs' = [logs EXCEPT ![t] = @ + 1]
  /\ Log!Call(t)
  /\ UNCHANGED <<mainVars, place>>

LogLock(t) == ~Gone /\ Log!Lock(t) /\ UNCHANGED <<mainVars, place, logs>>

LogInside(t) == ~Gone /\ Log!Inside(t) /\ UNCHANGED <<mainVars, place, logs>>

\* Mutation: read_edc_thread loops, and its loop does not sleep.
AfterPass_NoReturn(t) == IF t \in Once THEN "pass" ELSE "sleep"

\* The return of read_edc_thread stands at the end of its loop; the other
\* threads sleep until their next period.
AfterPass(t) == IF t \in Once THEN "ended" ELSE "sleep"

\* The end of a pass: every thread has logged at least once in it, data or an
\* error.
EndPass(t) ==
  /\ Works(t) /\ logs[t] > 0
  /\ place' = [place EXCEPT ![t] = AfterPass(t)]
  /\ logs' = [logs EXCEPT ![t] = 0]
  /\ UNCHANGED <<mainVars, logVars>>

\* clock_nanosleep returns.
Wake(t) ==
  /\ ~Gone /\ place[t] = "sleep"
  /\ place' = [place EXCEPT ![t] = "pass"]
  /\ UNCHANGED <<mainVars, logs, logVars>>

Main == Setup \/ SetupFails \/ Create \/ CreateFails \/ Join \/ JoinAbsent

Thread(t) == LogCall(t) \/ LogLock(t) \/ LogInside(t) \/ EndPass(t) \/ Wake(t)

Next == Main \/ Restart \/ \E t \in Threads : Thread(t)

\* Every thread goes on, and the service manager does.  Waiting for the log is
\* fair in the strong sense: between two passes each of the other threads sleeps,
\* the heater thread 10 seconds and the rest a minute or more, so that a thread that
\* waits finds the mutex free again and again.
Fairness ==
  /\ WF_vars(Main) /\ WF_vars(Restart)
  /\ \A t \in Threads : /\ WF_vars(LogCall(t) \/ EndPass(t))
                        /\ SF_vars(LogLock(t))
                        /\ WF_vars(LogInside(t))
                        /\ WF_vars(Wake(t))

Spec == Init /\ [][Next]_vars /\ Fairness

-----------------------------------------------------------------------------
(* Properties *)

\* The position thread, which main() joins first and which never returns.
First == Order[1]

\* The context every thread points to is a local variable of main(): when main()
\* has returned, no thread is left that could still use it.
CtxOutlivesThreads ==
  at = "returned" => \A t \in Threads : place[t] \notin {"pass", "sleep"}

\* Only a position thread that could not be created, or thread ids that could
\* not be allocated, end the process: whatever other thread is missing, main()
\* never comes to the join that would be undefined.
FirstThreadKeepsProcess == Gone => place[First] \in {"unborn", "absent"}

\* However a process has ended, another one comes to its joins, once the failures
\* stop.  It need not have its position thread: a process that has lost it and survives
\* the join goes on without it.
ServiceRecovers == Gone ~> at = "join"

\* No thread waits for the log for ever: a pass of each thread, which is at most MaxLogs
\* log calls here, ends unless a log call has kept the mutex or the process ends.  (That
\* the loops of a pass come to an end is in the models of the threads.)
PassesEnd ==
  \A t \in Threads : (place[t] = "pass") ~> (place[t] # "pass" \/ leaked \/ Gone)

\* One failed fopen ends the mission of a process that has a position thread:
\* every thread that has not returned is blocked in the log for good, and since
\* main() waits for one of them the process never ends and the service manager
\* never starts it again.
LeakEndsMission ==
  (leaked /\ place[First] \in {"pass", "sleep"}) ~>
    [](/\ at = "join"
       /\ \A t \in Threads : place[t] \in {"absent", "ended"} \/ logpc[t] = "wait")
-----------------------------------------------------------------------------
(* The inductive invariant *)

\* Where main() is and how far each thread has come: in the creations exactly the
\* threads before next were born, in the joins those before next are over, and only
\* a thread of one pass ever ends.
LifeSoFar ==
  /\ at = "setup" => next = 1 /\ \A t \in Threads : place[t] = "unborn"
  /\ at = "create" => \A i \in DOMAIN Order : place[Order[i]] = "unborn" <=> i >= next
  /\ at = "join" => \A i \in DOMAIN Order :
                      place[Order[i]] # "unborn" /\ (i < next => place[Order[i]] \in {"absent", "ended"})
  /\ at = "returned" => \A t \in Threads : place[t] \in {"absent", "ended"}
  /\ \A t \in Threads : place[t] = "ended" => t \in Once

IInv == TypeOK /\ LifeSoFar /\ FirstThreadKeepsProcess /\ Log!LockOwned
=============================================================================
