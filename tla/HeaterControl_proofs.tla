------------------------- MODULE HeaterControl_proofs -------------------------
(* Theorems about HeaterControl, for any bounds on faults, orbit changes and  *)
(* process deaths.                                                            *)
EXTENDS HeaterControl, TLAPS

(* What the four registers are, and that writing one leaves the others alone. *)
LEMMA Registers4 ==
  /\ Reg = {ModeReg(1), ModeReg(2), DutyReg(1), DutyReg(2)}
  /\ \A h, g \in Heater : ModeReg(h) # DutyReg(g)
  /\ ModeReg(1) # ModeReg(2) /\ DutyReg(1) # DutyReg(2)
BY DEF Reg, ModeReg, DutyReg, Heater

(* The two plans, written out. *)
LEMMA Plans ==
  /\ Len(EclipsePlan) = 4 /\ Len(SunPlan) = 2
  /\ EclipsePlan[1] = [reg |-> ModeReg(1), val |-> MANUAL]
  /\ EclipsePlan[2] = [reg |-> ModeReg(2), val |-> MANUAL]
  /\ EclipsePlan[3] = [reg |-> DutyReg(1), val |-> DutyOn]
  /\ EclipsePlan[4] = [reg |-> DutyReg(2), val |-> DutyOn]
  /\ SunPlan[1] = [reg |-> DutyReg(1), val |-> DutyOff]
  /\ SunPlan[2] = [reg |-> DutyReg(2), val |-> DutyOff]
BY DEF EclipsePlan, SunPlan

(* What the write of each step does to the registers. *)
LEMMA Writes ==
  ASSUME TypeOK, step # 0
  PROVE  /\ seen => \/ step = 1 /\ Written = [reg EXCEPT ![ModeReg(1)] = MANUAL]
                    \/ step = 2 /\ Written = [reg EXCEPT ![ModeReg(2)] = MANUAL]
                    \/ step = 3 /\ Written = [reg EXCEPT ![DutyReg(1)] = DutyOn]
                    \/ step = 4 /\ Written = [reg EXCEPT ![DutyReg(2)] = DutyOn]
         /\ ~seen => \/ step = 1 /\ Written = [reg EXCEPT ![DutyReg(1)] = DutyOff]
                     \/ step = 2 /\ Written = [reg EXCEPT ![DutyReg(2)] = DutyOff]
<1>1. CASE seen
  <2>1. Plan(seen) = EclipsePlan
    BY <1>1 DEF Plan
  <2>2. \A r \in Reg, v \in Nat :
          Plan(seen)[step] = [reg |-> r, val |-> v] => Written = [reg EXCEPT ![r] = v]
    BY DEF Written
  <2>3. step \in {1, 2, 3, 4}
    BY DEF TypeOK, FlagsOK, CountsOK
  <2>4. ModeReg(1) \in Reg /\ ModeReg(2) \in Reg /\ DutyReg(1) \in Reg /\ DutyReg(2) \in Reg
    BY Registers4
  <2>5. CASE step = 1
    BY <1>1, <2>1, <2>2, <2>4, <2>5, Plans DEF MANUAL
  <2>6. CASE step = 2
    BY <1>1, <2>1, <2>2, <2>4, <2>6, Plans DEF MANUAL
  <2>7. CASE step = 3
    BY <1>1, <2>1, <2>2, <2>4, <2>7, Plans DEF DutyOn
  <2>8. CASE step = 4
    BY <1>1, <2>1, <2>2, <2>4, <2>8, Plans DEF DutyOn
  <2>9. QED
    BY <2>3, <2>5, <2>6, <2>7, <2>8
<1>2. CASE ~seen
  <2>1. Plan(seen) = SunPlan
    BY <1>2 DEF Plan
  <2>2. \A r \in Reg, v \in Nat :
          Plan(seen)[step] = [reg |-> r, val |-> v] => Written = [reg EXCEPT ![r] = v]
    BY DEF Written
  <2>3. step \in {1, 2}
    BY <1>2 DEF TypeOK, FlagsOK, CountsOK
  <2>4. DutyReg(1) \in Reg /\ DutyReg(2) \in Reg
    BY Registers4
  <2>5. QED
    BY <1>2, <2>1, <2>2, <2>3, <2>4, Plans DEF DutyOff
<1>3. QED
  BY <1>1, <1>2

(* The pass goes on to the next write of its plan, or ends with it. *)
LEMMA Steps ==
  ASSUME TypeOK, step # 0, Advance
  PROVE  step' = IF step = (IF seen THEN 4 ELSE 2) THEN 0 ELSE step + 1
<1>1. CASE seen
  <2>1. Len(Plan(seen)) = 4
    BY <1>1, Plans DEF Plan
  <2>2. QED
    BY <1>1, <2>1 DEF Advance
<1>2. CASE ~seen
  <2>1. Len(Plan(seen)) = 2
    BY <1>2, Plans DEF Plan
  <2>2. QED
    BY <1>2, <2>1 DEF Advance
<1>3. QED
  BY <1>1, <1>2

(* The register file after a write is again one the EPS may hold. *)
LEMMA WrittenType ==
  ASSUME TypeOK, step # 0
  PROVE  Written \in Registers
<1>1. reg \in Registers
  BY DEF TypeOK, FlagsOK, CountsOK
<1>2. \A h \in Heater : /\ [reg EXCEPT ![ModeReg(h)] = MANUAL] \in Registers
                        /\ [reg EXCEPT ![DutyReg(h)] = DutyOn] \in Registers
                        /\ [reg EXCEPT ![DutyReg(h)] = DutyOff] \in Registers
  BY <1>1, Registers4 DEF Registers, Heater, AUTOMATIC, MANUAL, DutyOn, DutyOff
<1>3. QED
  BY <1>2, Writes DEF Heater

LEMMA InitInv == Init => IInv
<1> SUFFICES ASSUME Init PROVE IInv
  OBVIOUS
<1>1. FlagsOK
  BY DEF Init, FlagsOK
<1>2. CountsOK
  BY HeaterBounds DEF Init, CountsOK
<1>3. DoneSoFar /\ DarkIsReal
  BY DEF Init, DoneSoFar, DarkIsReal
<1>4. QED
  BY <1>1, <1>2, <1>3 DEF IInv, TypeOK

(* Types: the flags, then the registers and counters. *)
LEMMA StepFlags == TypeOK /\ [Next]_vars => FlagsOK'
<1> SUFFICES ASSUME TypeOK, [Next]_vars PROVE FlagsOK'
  OBVIOUS
<1> USE DEF TypeOK, FlagsOK, posVars, heaterVars, envVars, process
<1>1. CASE PosPredict
  BY <1>1 DEF PosPredict
<1>2. CASE PosPublish
  BY <1>2 DEF PosPublish
<1>3. CASE HeaterRead
  BY <1>3 DEF HeaterRead
<1>4. CASE HeaterWrite
  BY <1>4 DEF HeaterWrite
<1>5. CASE HeaterWriteFails
  BY <1>5 DEF HeaterWriteFails
<1>6. CASE OrbitChanges
  BY <1>6 DEF OrbitChanges
<1>7. CASE EpsAutomatic
  BY <1>7 DEF EpsAutomatic
<1>8. CASE EpsRestarts
  BY <1>8 DEF EpsRestarts
<1>9. CASE Crash
  BY <1>9 DEF Crash
<1>10. CASE Start
  BY <1>10 DEF Start
<1>11. CASE PosLog \/ HeaterLog \/ LogLeaks
  BY <1>11 DEF PosLog, HeaterLog, LogLeaks
<1>12. CASE UNCHANGED vars
  BY <1>12 DEF vars
<1>13. QED
  BY <1>1, <1>2, <1>3, <1>4, <1>5, <1>6, <1>7, <1>8, <1>9, <1>10, <1>11, <1>12 DEF Next

LEMMA StepCounts == TypeOK /\ [Next]_vars => CountsOK'
<1> SUFFICES ASSUME TypeOK, [Next]_vars PROVE CountsOK'
  OBVIOUS
<1> USE HeaterBounds DEF TypeOK, CountsOK, posVars, heaterVars, envVars, process
<1>1. CASE PosPredict
  BY <1>1 DEF PosPredict
<1>2. CASE PosPublish
  BY <1>2 DEF PosPublish
<1>3. CASE HeaterRead
  BY <1>3 DEF HeaterRead
<1>4. CASE HeaterWrite
  BY <1>4, WrittenType, Steps DEF HeaterWrite
<1>5. CASE HeaterWriteFails
  BY <1>5, WrittenType, Steps DEF HeaterWriteFails
<1>6. CASE OrbitChanges
  BY <1>6 DEF OrbitChanges
<1>7. CASE EpsAutomatic
  BY <1>7, Registers4 DEF EpsAutomatic, Registers, Heater, DutyOn, DutyOff, AUTOMATIC, MANUAL
<1>8. CASE EpsRestarts
  BY <1>8 DEF EpsRestarts
<1>9. CASE Crash
  BY <1>9 DEF Crash
<1>10. CASE Start
  BY <1>10 DEF Start
<1>11. CASE PosLog \/ HeaterLog \/ LogLeaks
  BY <1>11 DEF PosLog, HeaterLog, LogLeaks
<1>12. CASE UNCHANGED vars
  BY <1>12 DEF vars
<1>13. QED
  BY <1>1, <1>2, <1>3, <1>4, <1>5, <1>6, <1>7, <1>8, <1>9, <1>10, <1>11, <1>12 DEF Next

(* What a fault-free pass has achieved stays achieved. *)
LEMMA StepDone == IInv /\ [Next]_vars => DoneSoFar'
<1> SUFFICES ASSUME IInv, [Next]_vars PROVE DoneSoFar'
  OBVIOUS
<1> USE DEF IInv, TypeOK, DoneSoFar, Done, Heater, posVars, heaterVars, envVars, process
<1>1. CASE PosPredict \/ PosLog \/ PosPublish \/ HeaterLog \/ OrbitChanges \/ LogLeaks \/ Start
  <2>1. UNCHANGED <<seen, clean, step, reg>>
    BY <1>1 DEF PosPredict, PosLog, PosPublish, HeaterLog, OrbitChanges, LogLeaks, Start
  <2>2. QED
    BY <2>1
<1>2. CASE HeaterRead
  BY <1>2 DEF HeaterRead
<1>3. CASE HeaterWrite
  <2>1. /\ UNCHANGED <<seen, clean>> /\ reg' = Written
        /\ step' = IF step = (IF seen THEN 4 ELSE 2) THEN 0 ELSE step + 1
    BY <1>3, Steps DEF HeaterWrite
  <2>2. reg \in [Reg -> {AUTOMATIC, MANUAL, DutyOn}] /\ step \in 1..4
    BY <1>3 DEF HeaterWrite, CountsOK, Registers
  <2>3. CASE seen
    BY <2>1, <2>2, <2>3, Writes, Registers4
  <2>4. CASE ~seen
    BY <2>1, <2>2, <2>4, Writes, Registers4
  <2>5. QED
    BY <2>3, <2>4
<1>4. CASE HeaterWriteFails \/ EpsRestarts \/ Crash
  BY <1>4 DEF HeaterWriteFails, EpsRestarts, Crash
<1>5. CASE EpsAutomatic
  <2>1. PICK g \in Heater, d \in {DutyOff, DutyOn} :
          reg[ModeReg(g)] = AUTOMATIC /\ reg' = [reg EXCEPT ![DutyReg(g)] = d]
    BY <1>5 DEF EpsAutomatic
  <2>2. /\ \A h \in Heater : reg'[ModeReg(h)] = reg[ModeReg(h)]
        /\ \A h \in Heater : reg[ModeReg(h)] = MANUAL => reg'[DutyReg(h)] = reg[DutyReg(h)]
    BY <2>1, Registers4 DEF CountsOK, Registers, AUTOMATIC, MANUAL
  <2>3. QED
    BY <1>5, <2>2 DEF EpsAutomatic, CountsOK
<1>6. CASE UNCHANGED vars
  BY <1>6 DEF vars
<1>7. QED
  BY <1>1, <1>2, <1>3, <1>4, <1>5, <1>6 DEF Next

(* A note of an eclipse comes from a position this process has computed. *)
LEMMA StepDark == IInv /\ [Next]_vars => DarkIsReal'
<1> SUFFICES ASSUME IInv, [Next]_vars PROVE DarkIsReal'
  OBVIOUS
<1> USE DEF IInv, TypeOK, FlagsOK, DarkIsReal, posVars, heaterVars, envVars, process
<1>1. CASE PosPredict
  BY <1>1 DEF PosPredict
<1>2. CASE PosPublish
  BY <1>2 DEF PosPublish
<1>3. CASE HeaterRead
  BY <1>3 DEF HeaterRead
<1>4. CASE HeaterWrite \/ HeaterWriteFails
  BY <1>4 DEF HeaterWrite, HeaterWriteFails
<1>5. CASE OrbitChanges \/ EpsAutomatic \/ EpsRestarts
  BY <1>5 DEF OrbitChanges, EpsAutomatic, EpsRestarts
<1>6. CASE Crash
  BY <1>6 DEF Crash
<1>7. CASE Start
  BY <1>7 DEF Start
<1>8. CASE PosLog \/ HeaterLog \/ LogLeaks
  BY <1>8 DEF PosLog, HeaterLog, LogLeaks
<1>9. CASE UNCHANGED vars
  BY <1>9 DEF vars
<1>10. QED
  BY <1>1, <1>2, <1>3, <1>4, <1>5, <1>6, <1>7, <1>8, <1>9 DEF Next

(* The inductive invariant. *)
THEOREM Invariance == Spec => []IInv
<1>1. IInv /\ [Next]_vars => IInv'
  BY StepFlags, StepCounts, StepDone, StepDark DEF IInv, TypeOK
<1>2. QED
  BY InitInv, <1>1, PTL DEF Spec

(* Every variable keeps its type. *)
THEOREM TypeCorrect == Spec => []TypeOK
<1>1. IInv => TypeOK
  BY DEF IInv
<1>2. QED
  BY <1>1, Invariance, PTL

(* A pass whose writes all succeeded leaves both heaters as it meant them,    *)
(* until the EPS restarts or the next pass begins.                            *)
THEOREM PassEffect == Spec => []PassTakesEffect
<1>1. IInv => PassTakesEffect
  BY DEF IInv, DoneSoFar, Done, PassTakesEffect
<1>2. QED
  BY <1>1, Invariance, PTL

(* A heater in manual mode is switched on only by a process that has computed *)
(* an eclipsed position itself.                                               *)
THEOREM EclipseNeeded == Spec => HeatNeedsEclipse
<1>1. ASSUME IInv, [Next]_vars, NEW h \in Heater, SwitchedOn(h),
             reg[ModeReg(h)] = MANUAL, reg'[ModeReg(h)] = MANUAL
      PROVE  everDark
  <2> USE <1>1 DEF SwitchedOn, IInv, TypeOK
  <2>0. /\ reg \in [Reg -> {AUTOMATIC, MANUAL, DutyOn}]
        /\ reg[DutyReg(h)] \in {DutyOff, DutyOn}
    BY DEF CountsOK, Registers
  <2>1. reg' # reg
    BY <2>0 DEF DutyOff, DutyOn
  <2>2. CASE HeaterWrite \/ HeaterWriteFails
    <3>1. reg' = Written /\ step # 0
      BY <2>1, <2>2 DEF HeaterWrite, HeaterWriteFails
    <3>2. seen
      BY <3>1, <2>0, Writes, Registers4 DEF Heater, DutyOff, DutyOn
    <3>3. QED
      BY <3>2 DEF DarkIsReal
  <2>3. CASE EpsAutomatic
    BY <2>0, <2>3, Registers4 DEF EpsAutomatic, Heater, DutyOff, DutyOn, MANUAL, AUTOMATIC
  <2>4. CASE EpsRestarts
    BY <2>4 DEF EpsRestarts, MANUAL, AUTOMATIC
  <2>5. QED
    BY <2>1, <2>2, <2>3, <2>4
       DEF Next, vars, PosPredict, PosLog, PosPublish, HeaterRead, HeaterLog, OrbitChanges,
           LogLeaks, Crash, Start
<1>2. IInv /\ [Next]_vars =>
        [\A h \in Heater :
           SwitchedOn(h) /\ reg[ModeReg(h)] = MANUAL /\ reg'[ModeReg(h)] = MANUAL
             => everDark]_vars
  BY <1>1
<1>3. QED
  BY <1>2, Invariance, PTL DEF Spec, HeatNeedsEclipse

(* In a pass without a fault, the 50% lands only on a heater that has been    *)
(* taken out of automatic mode.                                               *)
THEOREM ModeFirst == Spec => ManualBeforeDuty
<1>1. ASSUME IInv, [Next]_vars, NEW h \in Heater, SwitchedOn(h), clean, step # step'
      PROVE  reg[ModeReg(h)] = MANUAL
  <2> USE <1>1 DEF SwitchedOn, IInv, TypeOK
  <2>0. /\ reg \in [Reg -> {AUTOMATIC, MANUAL, DutyOn}]
        /\ reg[DutyReg(h)] \in {DutyOff, DutyOn}
    BY DEF CountsOK, Registers
  <2>1. reg' # reg
    BY <2>0 DEF DutyOff, DutyOn
  <2>2. HeaterWrite \/ HeaterWriteFails
    BY <2>1 DEF Next, vars, PosPredict, PosLog, PosPublish, HeaterRead, HeaterLog, OrbitChanges,
                EpsAutomatic, EpsRestarts, LogLeaks, Crash, Start, heaterVars
  <2>3. reg' = Written /\ step # 0
    BY <2>1, <2>2 DEF HeaterWrite, HeaterWriteFails
  <2>4. seen /\ step = 2 + h
    BY <2>3, <2>0, Writes, Registers4 DEF Heater, DutyOff, DutyOn
  <2>5. QED
    BY <2>4 DEF DoneSoFar, Done, Heater
<1>2. IInv /\ [Next]_vars =>
        [\A h \in Heater :
           SwitchedOn(h) /\ clean /\ step # step' => reg[ModeReg(h)] = MANUAL]_vars
  BY <1>1
<1>3. QED
  BY <1>2, Invariance, PTL DEF Spec, ManualBeforeDuty
=============================================================================
