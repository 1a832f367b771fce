---------------------------- MODULE HeaterControl ----------------------------
(***************************************************************************)
(* The battery-heater control loop: pos_det_thread publishes whether the   *)
(* propagated position is in eclipse (src/src/threads/pos_det.c), the      *)
(* control_heater thread reads that flag without taking the context lock   *)
(* and drives four EPS registers over I2C, one independent write after the *)
(* other (src/src/threads/control_heater.c).                               *)
(*                                                                         *)
(* Both threads write to the log in every pass, and whoever logs waits for *)
(* its mutex (src/src/system/sys_log.c).  A call whose fopen fails keeps   *)
(* the mutex: whoever logs after that waits for ever.  How the threads     *)
(* share the mutex otherwise is in SysLog and ObdhSystem.                  *)
(*                                                                         *)
(* Around them: the EPS module, which may restart and which drives the     *)
(* duty cycle itself while a heater is in automatic mode; I2C writes that  *)
(* fail, with or without having reached the EPS; the process being killed  *)
(* and started again by the service manager with a zeroed context while    *)
(* the registers keep their values.                                        *)
(***************************************************************************)
EXTENDS Naturals, Sequences

CONSTANTS
  MaxFaults,   \* bound on failed I2C writes and EPS restarts together
  MaxOrbit,    \* bound on changes of the orbit's eclipse state
  MaxCrashes   \* bound on process deaths

ASSUME HeaterBounds == /\ MaxFaults \in Nat
                       /\ MaxOrbit \in Nat
                       /\ MaxCrashes \in Nat

\* The two battery heaters and the values the thread writes.
Heater == {1, 2}
AUTOMATIC == 0
MANUAL == 1
DutyOn == 50
DutyOff == 0

\* The registers of the EPS this loop touches: a mode and a duty per heater.
Reg == {"mode", "duty"} \X Heater
ModeReg(h) == <<"mode", h>>
DutyReg(h) == <<"duty", h>>

\* Mutation: both duty cycles are written to heater 1.
EclipsePlan_SameHeater == << [reg |-> ModeReg(1), val |-> MANUAL],
                             [reg |-> ModeReg(2), val |-> MANUAL],
                             [reg |-> DutyReg(1), val |-> DutyOn],
                             [reg |-> DutyReg(1), val |-> DutyOn] >>

\* Mutation: the duty cycles are written before the modes.
EclipsePlan_DutyFirst == << [reg |-> DutyReg(1), val |-> DutyOn],
                            [reg |-> DutyReg(2), val |-> DutyOn],
                            [reg |-> ModeReg(1), val |-> MANUAL],
                            [reg |-> ModeReg(2), val |-> MANUAL] >>

\* eps_set_param calls of one pass, in source order.
EclipsePlan == << [reg |-> ModeReg(1), val |-> MANUAL],
                  [reg |-> ModeReg(2), val |-> MANUAL],
                  [reg |-> DutyReg(1), val |-> DutyOn],
                  [reg |-> DutyReg(2), val |-> DutyOn] >>

SunPlan == << [reg |-> DutyReg(1), val |-> DutyOff],
              [reg |-> DutyReg(2), val |-> DutyOff] >>

Plan(dark) == IF dark THEN EclipsePlan ELSE SunPlan

VARIABLES
  orbit,      \* what predict_orbit reports as my_orbit.eclipsed now
  reg,        \* the registers of the EPS
  up,         \* the process is running
  leaked,     \* a failed fopen has kept log_mutex, in this process
  sat,        \* predict_parse_tle returned a TLE (the local sat is not NULL)
  pos,        \* pos_det: at "predict", in its "log" call, or about to "publish"
  sample,     \* pos_det: my_orbit.eclipsed
  eclipsed,   \* ctx->cond.eclipsed
  step,       \* control_heater: the next write of the pass, 0 between passes
  logging,    \* control_heater: a log call comes before the next step
  seen,       \* control_heater: the flag the current or last pass branched on
  clean,      \* history: no write of this pass failed, no EPS restart since
  everDark,   \* history: this process has computed an eclipsed position
  faults, changes, crashes    \* used parts of the three bounds

vars == <<orbit, reg, up, leaked, sat, pos, sample, eclipsed, step, logging, seen,
          clean, everDark, faults, changes, crashes>>

process    == <<up, leaked>>
posVars    == <<pos, sample, eclipsed, sat>>
heaterVars == <<step, logging, seen, clean>>
envVars    == <<orbit, changes, crashes>>

\* A register file as the EPS may hold it.
Registers ==
  { r \in [Reg -> {AUTOMATIC, MANUAL, DutyOn}] :
      \A h \in Heater : /\ r[ModeReg(h)] \in {AUTOMATIC, MANUAL}
                        /\ r[DutyReg(h)] \in {DutyOff, DutyOn} }

\* The types, flags apart from what is counted.
FlagsOK ==
  /\ orbit \in BOOLEAN /\ up \in BOOLEAN /\ sat \in BOOLEAN
  /\ leaked \in BOOLEAN /\ logging \in BOOLEAN
  /\ pos \in {"predict", "log", "publish"}
  /\ sample \in BOOLEAN /\ eclipsed \in BOOLEAN
  /\ seen \in BOOLEAN /\ clean \in BOOLEAN /\ everDark \in BOOLEAN

CountsOK ==
  /\ reg \in Registers
  /\ step \in 0..4 /\ (~seen => step <= 2)    \* the lengths of the plans
  /\ faults \in 0..MaxFaults
  /\ changes \in 0..MaxOrbit
  /\ crashes \in 0..MaxCrashes

TypeOK == FlagsOK /\ CountsOK

Init ==
  /\ orbit \in BOOLEAN /\ sat \in BOOLEAN
  /\ reg \in Registers
  /\ up = TRUE /\ leaked = FALSE
  /\ pos = "predict" /\ sample = FALSE /\ eclipsed = FALSE
  /\ step = 0 /\ logging = FALSE /\ seen = FALSE /\ clean = FALSE
  /\ everDark = FALSE
  /\ faults = 0 /\ changes = 0 /\ crashes = 0

-----------------------------------------------------------------------------
(* pos_det_thread *)

\* A cycle with a parsed TLE: predict_orbit computes the eclipse state.  A cycle
\* without one only logs, and leaves the flag as it is.
PosPredict ==
  /\ up /\ pos = "predict" /\ sat
  /\ sample' = orbit
  /\ everDark' = (everDark \/ orbit)
  /\ pos' = "log"
  /\ UNCHANGED <<eclipsed, sat, reg, process, heaterVars, envVars, faults>>

\* The position is logged before the flag is stored.
PosLog ==
  /\ up /\ pos = "log" /\ ~leaked
  /\ pos' = "publish"
  /\ UNCHANGED <<sample, eclipsed, sat, reg, process, heaterVars, envVars, everDark, faults>>

\* The flag is stored under ctx->lock, which no other thread ever takes.
PosPublish ==
  /\ up /\ pos = "publish"
  /\ eclipsed' = sample
  /\ pos' = "predict"
  /\ UNCHANGED <<sample, sat, reg, process, heaterVars, envVars, everDark, faults>>

-----------------------------------------------------------------------------
(* control_heater_thread *)

\* Mutation: the flag is read before the loop and never again.
HeaterRead_Hoisted ==
  /\ up /\ step = 0 /\ ~logging
  /\ step' = 1 /\ logging' = TRUE
  /\ clean' = TRUE
  /\ UNCHANGED <<posVars, seen, reg, process, envVars, everDark, faults>>

\* Mutation: an eclipse once seen is never forgotten.
HeaterRead_Latched ==
  /\ up /\ step = 0 /\ ~logging
  /\ seen' = (seen \/ eclipsed)
  /\ step' = 1 /\ logging' = TRUE
  /\ clean' = TRUE
  /\ UNCHANGED <<posVars, reg, process, envVars, everDark, faults>>

\* A pass starts: the flag is read once, without the lock, and decides the
\* whole pass.  What it says is logged before the first write.
HeaterRead ==
  /\ up /\ step = 0 /\ ~logging
  /\ seen' = eclipsed
  /\ step' = 1 /\ logging' = TRUE
  /\ clean' = TRUE
  /\ UNCHANGED <<posVars, reg, process, envVars, everDark, faults>>

\* The log call returns.
HeaterLog ==
  /\ up /\ logging /\ ~leaked
  /\ logging' = FALSE
  /\ UNCHANGED <<posVars, step, seen, clean, reg, process, envVars, everDark, faults>>

\* The thread goes on to the next write of the pass, whatever this one returned.
Advance == step' = IF step = Len(Plan(seen)) THEN 0 ELSE step + 1

\* The register file after the write the thread is at.
Written == [reg EXCEPT ![Plan(seen)[step].reg] = Plan(seen)[step].val]

\* eps_set_param succeeds.
HeaterWrite ==
  /\ up /\ step # 0 /\ ~logging
  /\ reg' = Written
  /\ Advance
  /\ UNCHANGED <<posVars, logging, seen, clean, process, envVars, everDark, faults>>

\* eps_set_param returns a negative value, which is logged and not retried.
\* The frame may have reached the EPS all the same.
HeaterWriteFails ==
  /\ up /\ step # 0 /\ ~logging
  /\ faults < MaxFaults
  /\ faults' = faults + 1
  /\ reg' \in {reg, Written}
  /\ clean' = FALSE
  /\ Advance /\ logging' = TRUE
  /\ UNCHANGED <<posVars, seen, process, envVars, everDark>>

-----------------------------------------------------------------------------
(* The environment: the orbit, the EPS module, the service manager *)

OrbitChanges ==
  /\ changes < MaxOrbit
  /\ changes' = changes + 1
  /\ orbit' = ~orbit
  /\ UNCHANGED <<posVars, heaterVars, reg, process, everDark, faults, crashes>>

\* In automatic mode the EPS drives the duty cycle of a heater itself.
EpsAutomatic ==
  /\ \E h \in Heater, d \in {DutyOff, DutyOn} :
       /\ reg[ModeReg(h)] = AUTOMATIC
       /\ reg' = [reg EXCEPT ![DutyReg(h)] = d]
  /\ UNCHANGED <<posVars, heaterVars, envVars, process, everDark, faults>>

\* The EPS restarts: both heaters are back in automatic mode.
EpsRestarts ==
  /\ faults < MaxFaults
  /\ faults' = faults + 1
  /\ reg' \in { r \in Registers : \A h \in Heater : r[ModeReg(h)] = AUTOMATIC }
  /\ clean' = FALSE
  /\ UNCHANGED <<posVars, step, logging, seen, envVars, process, everDark>>

\* A log call of any thread of the process, these two included, returns because
\* its fopen failed.
LogLeaks ==
  /\ up /\ ~leaked
  /\ leaked' = TRUE
  /\ UNCHANGED <<posVars, heaterVars, reg, up, envVars, everDark, faults>>

\* The process dies between two steps of its threads; Restart=always brings
\* it back, with a zeroed context.
Crash ==
  /\ up /\ crashes < MaxCrashes
  /\ crashes' = crashes + 1
  /\ up' = FALSE
  /\ step' = 0 /\ logging' = FALSE /\ seen' = FALSE /\ clean' = FALSE
  /\ pos' = "predict" /\ sample' = FALSE
  /\ everDark' = FALSE
  /\ UNCHANGED <<eclipsed, sat, leaked, reg, orbit, changes, faults>>

\* Mutation: the context is not zeroed.
Start_StaleContext ==
  /\ ~up
  /\ up' = TRUE /\ leaked' = FALSE
  /\ sat' \in BOOLEAN
  /\ UNCHANGED <<pos, sample, eclipsed, heaterVars, reg, envVars, everDark, faults>>

\* main(): the context starts as { 0 }, the mutex of the log is free, and the
\* threads are created.
Start ==
  /\ ~up
  /\ up' = TRUE /\ leaked' = FALSE
  /\ eclipsed' = FALSE
  /\ sat' \in BOOLEAN
  /\ UNCHANGED <<pos, sample, heaterVars, reg, envVars, everDark, faults>>

Next ==
  \/ PosPredict \/ PosLog \/ PosPublish
  \/ HeaterRead \/ HeaterLog \/ HeaterWrite \/ HeaterWriteFails
  \/ OrbitChanges \/ EpsAutomatic \/ EpsRestarts \/ LogLeaks
  \/ Crash \/ Start

\* Each thread sleeps until an absolute time and then runs its cycle; the
\* service manager restarts the process.  A log call returns as long as no fopen
\* has failed: a thread that has the mutex gives it back, and those that want it
\* sleep for most of each period (PassesEnd of ObdhSystem).  After a leak PosLog
\* and HeaterLog are disabled, and nothing is asked of their threads.
Fairness ==
  /\ WF_vars(PosPredict) /\ WF_vars(PosLog) /\ WF_vars(PosPublish)
  /\ WF_vars(HeaterRead) /\ WF_vars(HeaterLog) /\ WF_vars(HeaterWrite \/ HeaterWriteFails)
  /\ WF_vars(Start)

Spec == Init /\ [][Next]_vars
FairSpec == Spec /\ Fairness

-----------------------------------------------------------------------------
(* Properties *)

\* After a pass whose writes were all reported as done, and as long as the EPS
\* has not restarted since, both heaters are as the pass meant them: in manual
\* mode at 50% if it saw an eclipse, and at 0% wherever manual mode is on if it
\* did not.
PassTakesEffect ==
  (clean /\ step = 0) =>
    \A h \in Heater :
      /\ seen => reg[ModeReg(h)] = MANUAL /\ reg[DutyReg(h)] = DutyOn
      /\ (~seen /\ reg[ModeReg(h)] = MANUAL) => reg[DutyReg(h)] = DutyOff

\* This step raises the duty cycle of heater h.
SwitchedOn(h) == reg'[DutyReg(h)] > reg[DutyReg(h)]

\* A manual heater is switched on only by a process that has itself computed an
\* eclipsed position: neither the zeroed flag read before the first publication
\* nor a flag left by an earlier process switches a heater on.
HeatNeedsEclipse ==
  [][\A h \in Heater :
       SwitchedOn(h) /\ reg[ModeReg(h)] = MANUAL /\ reg'[ModeReg(h)] = MANUAL
         => everDark]_vars

\* Within a pass that has met no fault, a heater that is switched on has been
\* put in manual mode before: the 50% never lands on a heater that is still
\* under the control of the EPS.
ManualBeforeDuty ==
  [][\A h \in Heater :
       SwitchedOn(h) /\ clean /\ step # step' => reg[ModeReg(h)] = MANUAL]_vars

\* The process stays up with a parsed TLE and a log that still works.
Working == up /\ sat /\ ~leaked

\* If it stays so and the orbit stays in eclipse, both heaters end up in manual
\* mode at 50% for good: lost writes, EPS restarts and process deaths are all made
\* good by a later pass.  A failed fopen is not: the next pass waits for the log
\* before its first write, so nothing is promised of a process that has met one.
EclipseHeats ==
  <>[](Working /\ orbit) =>
    <>[](\A h \in Heater : reg[ModeReg(h)] = MANUAL /\ reg[DutyReg(h)] = DutyOn)

\* If the orbit stays in sunlight instead, no heater in manual mode keeps heating.
SunCools ==
  <>[](Working /\ ~orbit) =>
    <>[](\A h \in Heater : reg[ModeReg(h)] = MANUAL => reg[DutyReg(h)] = DutyOff)

-----------------------------------------------------------------------------
(* The inductive invariant *)

\* Write j of the pass is over.
Done(j) == step = 0 \/ j < step

\* What a fault-free pass has achieved so far: the modes before the duties in an
\* eclipse, each duty that manual mode protects in sunlight.
DoneSoFar ==
  clean =>
    \A h \in Heater :
      /\ seen => /\ Done(h) => reg[ModeReg(h)] = MANUAL
                 /\ Done(2 + h) => reg[DutyReg(h)] = DutyOn
      /\ (~seen /\ Done(h) /\ reg[ModeReg(h)] = MANUAL) => reg[DutyReg(h)] = DutyOff

\* Wherever an eclipse is noted in this process, it has computed one.
DarkIsReal ==
  /\ (sample \/ seen) => everDark
  /\ (up /\ eclipsed) => everDark

IInv == TypeOK /\ DoneSoFar /\ DarkIsReal
=============================================================================
