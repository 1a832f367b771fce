---------------------------- MODULE ReadTtc_proofs ----------------------------
(* Theorems about ReadTtc, for any number of radios, any registers, any limit *)
(* of failed packets and any number of failing accesses.                      *)
EXTENDS ReadTtc, TLAPS

LEMMA InitInv == Init => IInv
<1> SUFFICES ASSUME Init PROVE IInv
  OBVIOUS
<1> USE ReadTtcConstants
<1>1. TypeOK
  <2>1. 0 \in Radios /\ 0 \in 0 .. MaxCount /\ 0 \in 0 .. MaxFaults
    BY DEF Radios
  <2>2. data \in [Radios -> [HkRegs -> Field]]
    BY DEF Init, Field
  <2>3. /\ answered \in [Radios -> SUBSET {"id", "hw", "fw"}] /\ count \in [Radios -> 0 .. MaxCount]
        /\ isOpen \in [Radios -> BOOLEAN] /\ high \in [Radios -> BOOLEAN]
    BY <2>1 DEF Init
  <2>4. QED
    BY <2>1, <2>2, <2>3 DEF Init, TypeOK, At
<1>2. OpeningSoFar /\ FieldsSoFar /\ PrintedFresh /\ HealthyRadioKept
  BY DEF Init, OpeningSoFar, FieldsSoFar, PrintedFresh, HealthyRadioKept
<1>3. HighSoFar /\ OpenedRight
  BY DEF Init, HighSoFar, OpenedRight
<1>4. QED
  BY <1>1, <1>2, <1>3 DEF IInv

(* Where the thread goes after a call for one radio.                          *)
LEMMA CallTypes ==
  ASSUME TypeOK, NEW call \in {"init", "get", "check"}, NextCall(call)
  PROVE  radio' \in Radios /\ at' \in {"init", "get", "check", "sleep"}
BY ReadTtcConstants DEF TypeOK, Radios, NextCall

LEMMA StayTypes ==
  ASSUME TypeOK, NEW a \in At, Stay(a)
  PROVE  radio' \in Radios /\ at' = a /\ radio' = radio
BY DEF TypeOK, Stay

LEMMA FaultTypes ==
  ASSUME TypeOK, Answers \/ Fails
  PROVE  faults' \in 0 .. MaxFaults
BY ReadTtcConstants DEF TypeOK, Answers, Fails

(* The log calls an action ends with, or not.                                 *)
LEMMA LogTypes == ASSUME NEW b \in BOOLEAN, Logs(b) PROVE logging' \in BOOLEAN
BY DEF Logs

(* ttc_init.                                                                  *)
LEMMA OpeningInv ==
  IInv /\ (InitDevice \/ InitHardwareVersion \/ InitFirmwareVersion) => IInv'
<1> SUFFICES ASSUME IInv, InitDevice \/ InitHardwareVersion \/ InitFirmwareVersion PROVE IInv'
  OBVIOUS
<1> USE DEF IInv, device
<1>1. UNCHANGED <<left, err_counter, data, seen, expected, count, high, leaked>> /\ logging' \in BOOLEAN
  <2>1. UNCHANGED <<left, err_counter, data, seen, expected, count, high, leaked>>
    BY DEF InitDevice, InitHardwareVersion, InitFirmwareVersion
  <2>2. logging' \in BOOLEAN
    BY DEF InitDevice, InitHardwareVersion, InitFirmwareVersion, Logs
  <2>3. QED
    BY <2>1, <2>2
<1>2. HighSoFar'
  BY <1>1 DEF HighSoFar
<1>3. radio \in Radios
  BY DEF TypeOK
<1>4. CASE InitDevice
  <2>1. CASE isOpen[radio]
    <3>1. NextCall("init") /\ UNCHANGED <<answered, faults, isOpen>>
      BY <1>4, <2>1 DEF InitDevice
    <3>2. QED
      BY <1>1, <1>2, <3>1, CallTypes
      DEF TypeOK, At, OpeningSoFar, FieldsSoFar, OpenedRight, PrintedFresh, HealthyRadioKept
  <2>2. CASE ~isOpen[radio]
    <3>1. PICK ok \in BOOLEAN, told \in BOOLEAN :
            /\ CheckDevice(ok, told)
            /\ answered' = [answered EXCEPT ![radio] = IF told THEN {"id"} ELSE {}]
            /\ IF ok THEN Stay("init_hw") ELSE NextCall("init")
      BY <1>4, <2>2 DEF InitDevice
    <3>2. isOpen' = isOpen
      BY <1>4 DEF InitDevice
    <3>3. faults' \in 0 .. MaxFaults /\ (ok /\ told => expected[radio])
      BY <3>1, FaultTypes DEF CheckDevice
    <3>4. \/ ok /\ at' = "init_hw" /\ radio' = radio
          \/ radio' \in Radios /\ at' \in {"init", "get", "check", "sleep"}
      BY <3>1, CallTypes, StayTypes DEF At
    <3>5. TypeOK'
      BY <1>1, <1>3, <3>1, <3>2, <3>3, <3>4 DEF TypeOK, At
    <3>6. OpeningSoFar' /\ OpenedRight'
      BY <1>1, <1>3, <2>2, <3>1, <3>2, <3>3, <3>4 DEF TypeOK, OpeningSoFar, OpenedRight
    <3>7. FieldsSoFar' /\ PrintedFresh' /\ HealthyRadioKept'
      BY <3>4 DEF FieldsSoFar, PrintedFresh, HealthyRadioKept
    <3>8. QED
      BY <1>2, <3>5, <3>6, <3>7
  <2>3. QED
    BY <2>1, <2>2
<1>5. CASE InitHardwareVersion
  <2>1. at = "init_hw" /\ isOpen' = isOpen /\ faults' \in 0 .. MaxFaults
    BY <1>5, FaultTypes DEF InitHardwareVersion, Ready
  <2>2. \/ answered' = [answered EXCEPT ![radio] = @ \cup {"hw"}] /\ at' = "init_fw" /\ radio' = radio
        \/ answered' = answered /\ radio' \in Radios /\ at' \in {"init", "get", "check", "sleep"}
    BY <1>5, CallTypes, StayTypes DEF InitHardwareVersion, At
  <2>3. TypeOK'
    BY <1>1, <1>3, <2>1, <2>2 DEF TypeOK, At
  <2>4. OpeningSoFar' /\ OpenedRight'
    BY <1>1, <1>3, <2>1, <2>2 DEF TypeOK, OpeningSoFar, OpenedRight
  <2>5. FieldsSoFar' /\ PrintedFresh' /\ HealthyRadioKept'
    BY <2>2 DEF FieldsSoFar, PrintedFresh, HealthyRadioKept
  <2>6. QED
    BY <1>2, <2>3, <2>4, <2>5
<1>6. CASE InitFirmwareVersion
  <2>1. at = "init_fw" /\ faults' \in 0 .. MaxFaults
        /\ radio' \in Radios /\ at' \in {"init", "get", "check", "sleep"}
    BY <1>6, FaultTypes, CallTypes DEF InitFirmwareVersion, Ready
  <2>2. \/ /\ answered' = [answered EXCEPT ![radio] = @ \cup {"fw"}]
           /\ isOpen' = [isOpen EXCEPT ![radio] = TRUE]
        \/ UNCHANGED <<answered, isOpen>>
    BY <1>6 DEF InitFirmwareVersion
  <2>3. TypeOK'
    <3>1. isOpen' \in [Radios -> BOOLEAN]
      BY <1>3, <2>2 DEF TypeOK
    <3>2. answered' \in [Radios -> SUBSET {"id", "hw", "fw"}]
      <4>1. answered[radio] \cup {"fw"} \in SUBSET {"id", "hw", "fw"}
        BY <1>3 DEF TypeOK
      <4>2. QED
        BY <1>3, <2>2, <4>1 DEF TypeOK
    <3>3. QED
      BY <1>1, <2>1, <3>1, <3>2 DEF TypeOK, At
  <2>4. OpenedRight'
    BY <1>1, <1>3, <2>1, <2>2 DEF TypeOK, OpeningSoFar, OpenedRight
  <2>5. OpeningSoFar' /\ FieldsSoFar' /\ PrintedFresh' /\ HealthyRadioKept'
    BY <2>1 DEF OpeningSoFar, FieldsSoFar, PrintedFresh, HealthyRadioKept
  <2>6. QED
    BY <1>2, <2>3, <2>4, <2>5
<1>7. QED
  BY <1>4, <1>5, <1>6

(* ttc_get_data, and printing.                                                *)
LEMMA ReadingInv ==
  IInv /\ (GetData \/ (\E f \in HkRegs : ReadField(f)) \/ GetDataEnds \/ PrintData) => IInv'
<1> SUFFICES ASSUME IInv, GetData \/ (\E f \in HkRegs : ReadField(f)) \/ GetDataEnds \/ PrintData
             PROVE  IInv'
  OBVIOUS
<1> USE DEF IInv, device, history
<1>1. UNCHANGED <<isOpen, seen, expected, count, answered, high, leaked>> /\ logging' \in BOOLEAN
  <2>1. UNCHANGED <<isOpen, seen, expected, count, answered, high, leaked>>
    BY DEF GetData, ReadField, GetDataEnds, PrintData
  <2>2. logging' \in BOOLEAN
    BY DEF GetData, ReadField, GetDataEnds, PrintData, Logs, TypeOK
  <2>3. QED
    BY <2>1, <2>2
<1>2. HighSoFar' /\ OpenedRight'
  BY <1>1 DEF HighSoFar, OpenedRight
<1>3. CASE GetData
  <2>1. PICK ok \in BOOLEAN, told \in BOOLEAN :
          CheckDevice(ok, told) /\ Stay(IF ok THEN "get_hk" ELSE "print")
    BY <1>3 DEF GetData
  <2>2. left' = HkRegs /\ err_counter' = FALSE /\ data' = data
    BY <1>3 DEF GetData
  <2>3. faults' \in 0 .. MaxFaults /\ (~ok => ~expected[radio])
    BY <2>1, FaultTypes DEF CheckDevice, TypeOK
  <2>4. radio' = radio /\ at' = (IF ok THEN "get_hk" ELSE "print")
    BY <2>1 DEF Stay
  <2>5. TypeOK'
    BY <1>1, <2>2, <2>3, <2>4 DEF TypeOK, At
  <2>6. OpeningSoFar' /\ FieldsSoFar' /\ PrintedFresh' /\ HealthyRadioKept'
    BY <1>1, <2>2, <2>3, <2>4 DEF OpeningSoFar, FieldsSoFar, PrintedFresh, HealthyRadioKept
  <2>7. QED
    BY <1>2, <2>5, <2>6
<1>4. ASSUME NEW f \in HkRegs, ReadField(f) PROVE IInv'
  <2>1. at = "get_hk" /\ at' = at /\ radio' = radio /\ left' = left \ {f} /\ radio \in Radios
        /\ faults' \in 0 .. MaxFaults
    BY <1>4, FaultTypes DEF ReadField, Ready, TypeOK
  <2>2. \/ data' = [data EXCEPT ![radio][f] = "new"] /\ err_counter' = err_counter
        \/ /\ data' = [data EXCEPT ![radio][f] = IF f \in Direct THEN @ ELSE "ones"]
           /\ err_counter' = TRUE
    BY <1>4 DEF ReadField
  <2>3. data' \in [Radios -> [HkRegs -> Field]]
    <3>1. PICK v \in Field : data' = [data EXCEPT ![radio] = [data[radio] EXCEPT ![f] = v]]
      <4>1. data[radio][f] \in Field /\ "new" \in Field /\ "ones" \in Field
        BY <2>1 DEF TypeOK, Field
      <4>2. QED
        BY <2>2, <4>1
    <3>2. QED
      BY <2>1, <3>1 DEF TypeOK
  <2>4. TypeOK'
    BY <1>1, <2>1, <2>2, <2>3 DEF TypeOK
  <2>5. FieldsSoFar'
    <3> SUFFICES ASSUME ~err_counter', NEW g \in HkRegs, g \notin left'
                 PROVE  data'[radio][g] = "new"
      BY <2>1 DEF FieldsSoFar
    <3>1. data' = [data EXCEPT ![radio][f] = "new"] /\ ~err_counter
      BY <2>2
    <3>2. CASE g = f
      BY <2>1, <3>1, <3>2 DEF TypeOK
    <3>3. CASE g # f
      <4>1. data[radio][g] = "new"
        BY <2>1, <3>1, <3>3 DEF FieldsSoFar
      <4>2. QED
        BY <2>1, <3>1, <3>3, <4>1 DEF TypeOK
    <3>4. QED
      BY <3>2, <3>3
  <2>6. OpeningSoFar' /\ PrintedFresh' /\ HealthyRadioKept'
    BY <2>1 DEF OpeningSoFar, PrintedFresh, HealthyRadioKept
  <2>7. QED
    BY <1>2, <2>4, <2>5, <2>6
<1>5. CASE GetDataEnds
  <2>1. at = "get_hk" /\ left = {} /\ UNCHANGED <<left, err_counter, data, faults>>
    BY <1>5 DEF GetDataEnds, Ready
  <2>2. \/ ~err_counter /\ at' = "print" /\ radio' = radio
        \/ radio' \in Radios /\ at' \in {"init", "get", "check", "sleep"}
    BY <1>5, CallTypes, StayTypes DEF GetDataEnds, At
  <2>3. TypeOK'
    BY <1>1, <2>1, <2>2 DEF TypeOK, At
  <2>4. OpeningSoFar' /\ FieldsSoFar' /\ PrintedFresh' /\ HealthyRadioKept'
    BY <2>1, <2>2 DEF OpeningSoFar, FieldsSoFar, PrintedFresh, HealthyRadioKept, Fresh
  <2>5. QED
    BY <1>2, <2>3, <2>4
<1>6. CASE PrintData
  <2>1. UNCHANGED <<left, err_counter, data, faults>>
        /\ radio' \in Radios /\ at' \in {"init", "get", "check", "sleep"}
    BY <1>6, CallTypes DEF PrintData
  <2>2. TypeOK'
    BY <1>1, <2>1 DEF TypeOK, At
  <2>3. OpeningSoFar' /\ FieldsSoFar' /\ PrintedFresh' /\ HealthyRadioKept'
    BY <2>1 DEF OpeningSoFar, FieldsSoFar, PrintedFresh, HealthyRadioKept
  <2>4. QED
    BY <1>2, <2>2, <2>3
<1>7. QED
  BY <1>3, <1>4, <1>5, <1>6

(* ttc_check_failed_pkts, the sleep, and the radios themselves.               *)
LEMMA CheckingInv == IInv /\ (CheckFailedPkts \/ ResetDevice \/ NextPeriod) => IInv'
<1> SUFFICES ASSUME IInv, CheckFailedPkts \/ ResetDevice \/ NextPeriod PROVE IInv'
  OBVIOUS
<1> USE ReadTtcConstants DEF IInv, device
<1>1. UNCHANGED <<isOpen, left, err_counter, expected, answered, leaked>> /\ logging' \in BOOLEAN
  <2>1. UNCHANGED <<isOpen, left, err_counter, expected, answered, leaked>>
    BY DEF CheckFailedPkts, ResetDevice, NextPeriod
  <2>2. logging' \in BOOLEAN
    BY DEF CheckFailedPkts, ResetDevice, NextPeriod, Logs
  <2>3. QED
    BY <2>1, <2>2
<1>2. OpenedRight'
  BY <1>1 DEF OpenedRight
<1>3. CASE CheckFailedPkts
  <2>1. UNCHANGED <<data, count, high>> /\ seen' \in 0 .. MaxCount /\ faults' \in 0 .. MaxFaults
    BY <1>3, FaultTypes DEF CheckFailedPkts, TypeOK
  <2>2. \/ count[radio] >= TTC_MAX_FAILED_PACKETS /\ at' = "reset" /\ radio' = radio
        \/ radio' \in Radios /\ at' \in {"init", "get", "check", "sleep"}
    BY <1>3, CallTypes, StayTypes DEF CheckFailedPkts, At
  <2>3. TypeOK'
    BY <1>1, <2>1, <2>2 DEF TypeOK, At
  <2>4. HealthyRadioKept' /\ HighSoFar'
    BY <2>1, <2>2 DEF HealthyRadioKept, HighSoFar, TypeOK
  <2>5. OpeningSoFar' /\ FieldsSoFar' /\ PrintedFresh'
    BY <2>2 DEF OpeningSoFar, FieldsSoFar, PrintedFresh
  <2>6. QED
    BY <1>2, <2>3, <2>4, <2>5
<1>4. CASE ResetDevice
  <2>1. UNCHANGED <<data, seen, high>> /\ faults' \in 0 .. MaxFaults
        /\ radio' \in Radios /\ at' \in {"init", "get", "check", "sleep"}
    BY <1>4, FaultTypes, CallTypes DEF ResetDevice
  <2>2. count' = count \/ count' = [count EXCEPT ![radio] = 0]
    BY <1>4 DEF ResetDevice
  <2>3. TypeOK'
    BY <1>1, <2>1, <2>2 DEF TypeOK, At
  <2>4. HighSoFar'
    BY <2>1, <2>2 DEF HighSoFar, TypeOK
  <2>5. OpeningSoFar' /\ FieldsSoFar' /\ PrintedFresh' /\ HealthyRadioKept'
    BY <2>1 DEF OpeningSoFar, FieldsSoFar, PrintedFresh, HealthyRadioKept
  <2>6. QED
    BY <1>2, <2>3, <2>4, <2>5
<1>5. CASE NextPeriod
  <2>1. UNCHANGED <<seen, faults, count>> /\ at' = "init" /\ radio' = radio
    BY <1>5 DEF NextPeriod, Stay
  <2>2. data' = [r \in Radios |-> [f \in HkRegs |-> IF data[r][f] = "new" THEN "old" ELSE data[r][f]]]
        /\ high' = [r \in Radios |-> count[r] >= TTC_MAX_FAILED_PACKETS]
    BY <1>5 DEF NextPeriod
  <2>3. data' \in [Radios -> [HkRegs -> Field]] /\ high' \in [Radios -> BOOLEAN]
    BY <2>2 DEF TypeOK, Field
  <2>4. TypeOK'
    BY <1>1, <2>1, <2>3 DEF TypeOK, At
  <2>5. HighSoFar'
    BY <2>1, <2>2 DEF HighSoFar
  <2>6. OpeningSoFar' /\ FieldsSoFar' /\ PrintedFresh' /\ HealthyRadioKept'
    BY <2>1 DEF OpeningSoFar, FieldsSoFar, PrintedFresh, HealthyRadioKept
  <2>7. QED
    BY <1>2, <2>4, <2>5, <2>6
<1>6. QED
  BY <1>3, <1>4, <1>5

LEMMA RadioInv == ASSUME IInv, NEW r \in Radios, PacketFails(r) \/ PacketDecoded(r) PROVE IInv'
<1> USE ReadTtcConstants DEF IInv, thread, history
<1>1. UNCHANGED <<at, logging, leaked, radio, isOpen, left, err_counter, data, seen, expected,
                  answered, faults>>
  BY DEF PacketFails, PacketDecoded
<1>2. OpeningSoFar' /\ FieldsSoFar' /\ OpenedRight' /\ PrintedFresh'
  BY <1>1 DEF OpeningSoFar, FieldsSoFar, OpenedRight, PrintedFresh, Fresh
<1>3. CASE PacketFails(r)
  <2>1. count' = [count EXCEPT ![r] = @ + 1] /\ count[r] < MaxCount
        /\ high' = [high EXCEPT ![r] = @ \/ count'[r] >= TTC_MAX_FAILED_PACKETS]
    BY <1>3 DEF PacketFails
  <2>2. count' \in [Radios -> 0 .. MaxCount] /\ high' \in [Radios -> BOOLEAN]
    BY <2>1 DEF TypeOK
  <2>3. \A s \in Radios : high'[s] = (high[s] \/ (s = r /\ count'[s] >= TTC_MAX_FAILED_PACKETS))
    BY <2>1 DEF TypeOK
  <2>4. HighSoFar' /\ HealthyRadioKept'
    BY <1>1, <2>1, <2>3 DEF HighSoFar, HealthyRadioKept, TypeOK
  <2>5. QED
    BY <1>1, <1>2, <2>2, <2>4 DEF TypeOK
<1>4. CASE PacketDecoded(r)
  <2>1. count' = [count EXCEPT ![r] = 0] /\ high' = high
    BY <1>4 DEF PacketDecoded
  <2>2. QED
    BY <1>1, <1>2, <2>1 DEF TypeOK, HighSoFar, HealthyRadioKept
<1>5. QED
  BY <1>3, <1>4

LEMMA LogInv == IInv /\ (LogReturns \/ LogLeaks) => IInv'
<1> SUFFICES ASSUME IInv, LogReturns \/ LogLeaks PROVE IInv'
  OBVIOUS
<1>1. /\ UNCHANGED <<at, radio, isOpen, left, err_counter, data, seen, device, history>>
      /\ logging' \in {logging, FALSE} /\ leaked' \in {leaked, TRUE}
  BY DEF LogReturns, LogLeaks, thread
<1>2. TypeOK'
  BY <1>1 DEF IInv, TypeOK, device, history
<1>3. QED
  BY <1>1, <1>2 DEF IInv, device, history, OpeningSoFar, FieldsSoFar, HighSoFar, OpenedRight,
                    PrintedFresh, Fresh, HealthyRadioKept

LEMMA StepInv == IInv /\ [Next]_vars => IInv'
<1> SUFFICES ASSUME IInv, [Next]_vars PROVE IInv'
  OBVIOUS
<1>1. CASE UNCHANGED vars
  BY <1>1 DEF vars, thread, device, history, IInv, TypeOK, OpeningSoFar, FieldsSoFar, HighSoFar,
              OpenedRight, PrintedFresh, Fresh, HealthyRadioKept
<1>2. QED
  BY <1>1, OpeningInv, ReadingInv, CheckingInv, RadioInv, LogInv DEF Next, Thread

THEOREM Invariance == Spec => []IInv
<1>1. QED
  BY InitInv, StepInv, PTL DEF Spec

(* Every variable keeps its type. *)
THEOREM TypeCorrect == Spec => []TypeOK
<1>1. IInv => TypeOK
  BY DEF IInv
<1>2. QED
  BY <1>1, Invariance, PTL

(* What is printed of a radio with the expected ID was all read in this period. *)
THEOREM FreshPrinted == Spec => []PrintedFresh
<1>1. IInv => PrintedFresh
  BY DEF IInv
<1>2. QED
  BY <1>1, Invariance, PTL

(* A radio is open only after both versions were answered, and never after it *)
(* answered with another ID.                                                  *)
THEOREM OpenedOnceRight == Spec => []OpenedRight
<1>1. IInv => OpenedRight
  BY DEF IInv
<1>2. QED
  BY <1>1, Invariance, PTL

(* A radio whose count stayed below the limit for the period is not reset.    *)
THEOREM HealthyKept == Spec => []HealthyRadioKept
<1>1. IInv => HealthyRadioKept
  BY DEF IInv
<1>2. QED
  BY <1>1, Invariance, PTL
=============================================================================
