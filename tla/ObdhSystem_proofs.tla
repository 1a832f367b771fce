--------------------------- MODULE ObdhSystem_proofs ---------------------------
(* Theorems about ObdhSystem, for any number of threads, of which any may     *)
(* return after one pass but the first, and for any bounds.                   *)
EXTENDS ObdhSystem, TLAPS

(* Every position of Order names a thread, and every thread has one.          *)
LEMMA Positions ==
  /\ \A i \in DOMAIN Order : Order[i] \in Threads
  /\ \A t \in Threads : \E i \in DOMAIN Order : t = Order[i]
  /\ 1 \in DOMAIN Order /\ Len(Order) \in DOMAIN Order
BY SystemConstants DEF Threads

(***************************************************************************)
(* Types.                                                                  *)
(***************************************************************************)
LEMMA InitTypes == Init => TypeOK
BY Positions, SystemConstants DEF Init, Fresh, TypeOK

LEMMA AdvanceTypes ==
  ASSUME TypeOK, NEW phase, NEW after, Advance(phase, after)
  PROVE  next' \in DOMAIN Order /\ at' \in {phase, after}
BY Positions, SystemConstants DEF TypeOK, Advance

LEMMA StepTypes == TypeOK /\ [Next]_vars => TypeOK'
<1> SUFFICES ASSUME TypeOK, [Next]_vars PROVE TypeOK'
  OBVIOUS
<1> USE DEF TypeOK, mainVars, logVars
<1>1. ASSUME Main PROVE TypeOK'
  <2>1. CASE Setup
    BY <2>1 DEF Setup
  <2>2. CASE SetupFails
    BY <2>2, SystemConstants DEF SetupFails, Fail
  <2>3. CASE Create
    BY <2>3, AdvanceTypes DEF Create
  <2>4. CASE CreateFails
    <3>1. next' \in DOMAIN Order /\ at' \in {"create", "join"}
      BY <2>4, AdvanceTypes DEF CreateFails
    <3>2. faults' \in 0..MaxFaults
      BY <2>4, SystemConstants DEF CreateFails, Fail
    <3>3. QED
      BY <2>4, <3>1, <3>2 DEF CreateFails
  <2>5. CASE Join
    BY <2>5, AdvanceTypes DEF Join
  <2>6. CASE JoinAbsent
    BY <2>6, AdvanceTypes DEF JoinAbsent
  <2>7. QED
    BY <1>1, <2>1, <2>2, <2>3, <2>4, <2>5, <2>6 DEF Main
<1>2. ASSUME Restart PROVE TypeOK'
  <2>1. /\ at' = "setup" /\ next' = 1 /\ holder' = NoThread /\ leaked' = FALSE
        /\ place' = [t \in Threads |-> "unborn"] /\ logs' = [t \in Threads |-> 0]
        /\ logpc' = [t \in Threads |-> "idle"] /\ faults' = faults
    BY <1>2 DEF Restart, Fresh
  <2>2. 1 \in DOMAIN Order /\ 0 \in 0..MaxLogs
    BY Positions, SystemConstants
  <2>3. QED
    BY <2>1, <2>2
<1>3. ASSUME NEW t \in Threads, Thread(t) PROVE TypeOK'
  <2>1. CASE LogCall(t)
    BY <2>1, SystemConstants DEF LogCall, Works, Log!Call, Log!Goto
  <2>2. CASE LogLock(t)
    BY <2>2 DEF LogLock, Log!Lock, Log!Goto, Log!Critical
  <2>3. CASE LogInside(t)
    BY <2>3 DEF LogInside, Log!Inside, Log!Open, Log!OpenFails, Log!PrintPrefix, Log!PrintBody,
                Log!PrintNewline, Log!Unlock, Log!Goto, Log!Critical
  <2>4. CASE EndPass(t)
    BY <2>4, SystemConstants DEF EndPass, AfterPass
  <2>5. CASE Wake(t)
    BY <2>5 DEF Wake
  <2>6. QED
    BY <1>3, <2>1, <2>2, <2>3, <2>4, <2>5 DEF Thread
<1>4. CASE UNCHANGED vars
  BY <1>4 DEF vars
<1>5. QED
  BY <1>1, <1>2, <1>3, <1>4 DEF Next
(***************************************************************************)
(* The invariant.                                                          *)
(***************************************************************************)
LEMMA InitInv == Init => IInv
<1> SUFFICES ASSUME Init PROVE IInv
  OBVIOUS
<1>1. TypeOK
  BY InitTypes
<1>2. LifeSoFar /\ FirstThreadKeepsProcess
  BY Positions DEF Init, Fresh, LifeSoFar, FirstThreadKeepsProcess, Gone
<1>3. Log!LockOwned
  BY SystemConstants DEF Init, Fresh, Log!LockOwned, Log!Critical
<1>4. QED
  BY <1>1, <1>2, <1>3 DEF IInv

(* The log of the process is the log of SysLog: its mutex has an owner exactly *)
(* while a thread is inside a call, or once a call has leaked it.             *)
LEMMA LockStep == TypeOK /\ Log!LockOwned /\ [Next]_vars => Log!LockOwned'
<1> SUFFICES ASSUME TypeOK, Log!LockOwned, [Next]_vars PROVE Log!LockOwned'
  OBVIOUS
<1> USE SystemConstants DEF Log!LockOwned, Log!Critical
<1>1. CASE UNCHANGED logVars
  BY <1>1 DEF logVars
<1>2. CASE Restart
  <2>1. logpc' = [t \in Threads |-> "idle"] /\ holder' = NoThread /\ leaked' = FALSE
    BY <1>2 DEF Restart, Fresh
  <2>2. QED
    BY <2>1
<1>3. ASSUME NEW t \in Threads, LogCall(t) \/ LogLock(t) \/ LogInside(t) PROVE Log!LockOwned'
  <2> USE DEF TypeOK, Log!Goto
  <2>1. CASE LogCall(t)
    BY <2>1 DEF LogCall, Log!Call
  <2>2. CASE LogLock(t)
    BY <2>2 DEF LogLock, Log!Lock
  <2>3. CASE LogInside(t)
    BY <2>3 DEF LogInside, Log!Inside, Log!Open, Log!OpenFails, Log!PrintPrefix, Log!PrintBody,
                Log!PrintNewline, Log!Unlock
  <2>4. QED
    BY <1>3, <2>1, <2>2, <2>3
<1>4. QED
  BY <1>1, <1>2, <1>3
  DEF Next, Main, Setup, SetupFails, Create, CreateFails, Join, JoinAbsent, Thread, EndPass, Wake, vars

(* What one step of main() or of a thread does to the lives of the threads.   *)
LEMMA LifeStep ==
  TypeOK /\ LifeSoFar /\ FirstThreadKeepsProcess /\ [Next]_vars
    => LifeSoFar' /\ FirstThreadKeepsProcess'
<1> SUFFICES ASSUME TypeOK, LifeSoFar, FirstThreadKeepsProcess, [Next]_vars
             PROVE  LifeSoFar' /\ FirstThreadKeepsProcess'
  OBVIOUS
<1> DEFINE Goal == LifeSoFar' /\ FirstThreadKeepsProcess'
<1> USE DEF LifeSoFar, FirstThreadKeepsProcess, Gone, First, mainVars
<1>1. CASE Setup
  <2>1. at' = "create" /\ next' = 1 /\ place' = place /\ at = "setup"
    BY <1>1 DEF Setup
  <2>2. QED
    BY <2>1, Positions, SystemConstants
<1>2. CASE SetupFails
  <2>1. at' = "crashed" /\ place' = place /\ at = "setup" /\ Order[1] \in Threads
    BY <1>2, Positions DEF SetupFails
  <2>2. QED
    BY <2>1
<1>3. CASE Create
  <2>1. place' = [place EXCEPT ![Order[next]] = "pass"] /\ Order[next] \in Threads
    BY <1>3, Positions DEF Create, TypeOK
  <2>2. CASE next = Len(Order) /\ at' = "join" /\ next' = 1
    BY <1>3, <2>1, <2>2, Positions, SystemConstants DEF Create, TypeOK
  <2>3. CASE next # Len(Order) /\ at' = "create" /\ next' = next + 1
    BY <1>3, <2>1, <2>3, Positions, SystemConstants DEF Create, TypeOK
  <2>4. QED
    BY <1>3, <2>2, <2>3 DEF Create, Advance
<1>4. CASE CreateFails
  <2>1. place' = [place EXCEPT ![Order[next]] = "absent"] /\ Order[next] \in Threads
    BY <1>4, Positions DEF CreateFails, TypeOK
  <2>2. CASE next = Len(Order) /\ at' = "join" /\ next' = 1
    BY <1>4, <2>1, <2>2, Positions, SystemConstants DEF CreateFails, TypeOK
  <2>3. CASE next # Len(Order) /\ at' = "create" /\ next' = next + 1
    BY <1>4, <2>1, <2>3, Positions, SystemConstants DEF CreateFails, TypeOK
  <2>4. QED
    BY <1>4, <2>2, <2>3 DEF CreateFails, Advance
<1>5. CASE Join \/ (JoinAbsent /\ Advance("join", "returned"))
  <2>1. /\ place' = place /\ at = "join" /\ place[Order[next]] \in {"ended", "absent"}
        /\ Advance("join", "returned")
    BY <1>5 DEF Join, JoinAbsent, Joined, Over
  <2>2. CASE next = Len(Order) /\ at' = "returned" /\ next' = 1
    <3>1. \A i \in DOMAIN Order : place[Order[i]] \in {"absent", "ended"}
      BY <2>1, <2>2, SystemConstants DEF TypeOK
    <3>2. QED
      BY <2>1, <2>2, <3>1, Positions, SystemConstants
  <2>3. CASE next # Len(Order) /\ at' = "join" /\ next' = next + 1
    BY <2>1, <2>3, SystemConstants DEF TypeOK
  <2>4. QED
    BY <2>1, <2>2, <2>3 DEF Advance
<1>6. CASE JoinAbsent /\ at' = "crashed" /\ UNCHANGED next
  <2>1. place' = place /\ at = "join" /\ place[Order[next]] = "absent"
    BY <1>6 DEF JoinAbsent, Joined
  <2>2. place[Order[1]] = "absent"
    <3>1. CASE next = 1
      BY <2>1, <3>1
    <3>2. CASE next # 1
      <4>1. 1 < next
        BY <3>2, SystemConstants DEF TypeOK
      <4>2. QED
        BY <2>1, <4>1, Positions, SystemConstants
    <3>3. QED
      BY <3>1, <3>2
  <2>3. QED
    BY <1>6, <2>1, <2>2
<1>7. CASE Restart
  <2>1. at' = "setup" /\ next' = 1 /\ place' = [t \in Threads |-> "unborn"]
    BY <1>7 DEF Restart, Fresh
  <2>2. QED
    BY <2>1, Positions
<1>8. ASSUME NEW t \in Threads, EndPass(t) \/ Wake(t) PROVE Goal
  <2>1. /\ at' = at /\ next' = next /\ at \notin {"crashed", "returned"}
        /\ place[t] \in {"pass", "sleep"}
        /\ \E p \in {"pass", "sleep", "ended"} :
              place' = [place EXCEPT ![t] = p] /\ (p = "ended" => t \in Once)
    BY <1>8 DEF EndPass, Wake, Works, AfterPass
  <2>2. PICK p \in {"pass", "sleep", "ended"} :
              place' = [place EXCEPT ![t] = p] /\ (p = "ended" => t \in Once)
    BY <2>1
  <2>3. \A u \in Threads : place'[u] = (IF u = t THEN p ELSE place[u])
    BY <2>2 DEF TypeOK
  <2>4. QED
    BY <2>1, <2>2, <2>3, Positions
<1>9. CASE UNCHANGED <<at, next, place>>
  BY <1>9
<1>10. QED
  BY <1>1, <1>2, <1>3, <1>4, <1>5, <1>6, <1>7, <1>8, <1>9
  DEF Next, Main, Thread, JoinAbsent, LogCall, LogLock, LogInside, vars

LEMMA StepInv == IInv /\ [Next]_vars => IInv'
BY StepTypes, LockStep, LifeStep DEF IInv

THEOREM Invariance == Spec => []IInv
<1>1. QED
  BY InitInv, StepInv, PTL DEF Spec

(* Every variable keeps its type. *)
THEOREM TypeCorrect == Spec => []TypeOK
<1>1. IInv => TypeOK
  BY DEF IInv
<1>2. QED
  BY <1>1, Invariance, PTL

(* When main() has returned, and its context is gone, no thread is left that  *)
(* could use it.                                                              *)
THEOREM ContextLives == Spec => []CtxOutlivesThreads
<1>1. IInv => CtxOutlivesThreads
  BY DEF IInv, LifeSoFar, CtxOutlivesThreads
<1>2. QED
  BY <1>1, Invariance, PTL

(* A process ends only when its position thread was never created: main()    *)
(* does not come to an undefined join otherwise, whatever threads it lacks.   *)
THEOREM FirstKeeps == Spec => []FirstThreadKeepsProcess
<1>1. IInv => FirstThreadKeepsProcess
  BY DEF IInv
<1>2. QED
  BY <1>1, Invariance, PTL

(* In every process at most one thread is inside a log call, and none once a  *)
(* failed fopen has kept the mutex.                                           *)
THEOREM LogExclusive == Spec => []Log!MutualExclusion
<1>1. IInv => Log!MutualExclusion
  BY DEF IInv, Log!LockOwned, Log!MutualExclusion
<1>2. QED
  BY <1>1, Invariance, PTL
=============================================================================
