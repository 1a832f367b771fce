----------------------------- MODULE ReadEdc_proofs ----------------------------
(* Theorems about ReadEdc, for any depth of the FIFO, any number of packages  *)
(* and any number of failures, resets and crashes.                            *)
EXTENDS ReadEdc, FiniteSetTheorems, TLAPS

LEMMA ClockValue == RtcValue \in Clock /\ RtcValue # Unset
<1>1. \A a \in Int, w \in Nat \ {0} : a % w \in 0 .. w - 1
  OBVIOUS
<1>2. RtcValue \in 0 .. Width - 1
  BY <1>1, ReadEdcConstants DEF RtcValue
<1>3. QED
  BY <1>2, ReadEdcConstants DEF Clock, Unset

LEMMA InitInv == Init => IInv
<1> SUFFICES ASSUME Init PROVE IInv
  OBVIOUS
<1>1. TypeOK
  <2>1. fifo \in Seq(Frame) /\ printed \in Seq(Pkgs) /\ Len(fifo) = 0
    BY DEF Init
  <2>2. Unset \in Clock
    BY ReadEdcConstants DEF Unset, Clock
  <2>3. 0 \in 0 .. FifoDepth /\ 0 \in 0 .. MaxPkgs /\ 0 \in 0 .. MaxTrouble /\ 0 <= FifoDepth
    BY ReadEdcConstants
  <2>4. QED
    BY <2>1, <2>2, <2>3 DEF Init, TypeOK, At
<1>2. PrintedInOrder /\ QueueSoFar /\ InHand
  BY DEF Init, PrintedInOrder, QueueSoFar, InHand
<1>3. LossSoFar
  <2>1. Missing = {} /\ Spare = 0
    BY DEF Init, Missing, Spare, Strayed
  <2>2. QED
    BY <2>1, FS_EmptySet DEF Init, LossSoFar, Strayed
<1>4. BacklogSoFar /\ ClockSoFar
  BY DEF Init, BacklogSoFar, ClockSoFar
<1>5. QED
  BY <1>1, <1>2, <1>3, <1>4 DEF IInv

(***************************************************************************)
(* What a step does to the sequences.                                      *)
(***************************************************************************)
\* A non-empty FIFO without its oldest package.
LEMMA TailOf ==
  ASSUME NEW S, NEW s \in Seq(S), s # <<>>
  PROVE  /\ Tail(s) \in Seq(S) /\ Len(Tail(s)) = Len(s) - 1 /\ Len(s) \in Nat \ {0}
         /\ Head(s) = s[1] /\ s[1] \in S
         /\ \A k \in 1 .. Len(s) - 1 : Tail(s)[k] = s[k + 1]
OBVIOUS

LEMMA AppendTo ==
  ASSUME NEW S, NEW s \in Seq(S), NEW e \in S
  PROVE  /\ Append(s, e) \in Seq(S) /\ Len(Append(s, e)) = Len(s) + 1 /\ Len(s) \in Nat
         /\ Append(s, e)[Len(s) + 1] = e
         /\ \A k \in 1 .. Len(s) : Append(s, e)[k] = s[k]
OBVIOUS

\* The removal of the oldest package: only that one is gone.
LEMMA Removal ==
  ASSUME TypeOK, Remove
  PROVE  /\ fifo' \in Seq(Frame) /\ Len(fifo') <= Len(fifo) /\ Len(fifo') \in Nat
         /\ fifo = <<>> => fifo' = fifo
         /\ fifo # <<>> => fifo' = Tail(fifo) /\ Ids(fifo) \subseteq Ids(fifo)' \cup {Head(fifo).id}
<1>1. CASE fifo = <<>>
  BY <1>1 DEF Remove, TypeOK
<1>2. CASE fifo # <<>>
  <2>1. fifo' = Tail(fifo) /\ fifo \in Seq(Frame)
    BY <1>2 DEF Remove, TypeOK
  <2>2. Ids(fifo) \subseteq Ids(Tail(fifo)) \cup {Head(fifo).id}
    <3> SUFFICES ASSUME NEW k \in DOMAIN fifo PROVE fifo[k].id \in Ids(Tail(fifo)) \cup {Head(fifo).id}
      BY DEF Ids
    <3>1. k \in 1 .. Len(fifo)
      BY <2>1
    <3>2. CASE k = 1
      BY <1>2, <2>1, <3>2, TailOf
    <3>3. CASE k # 1
      <4>1. k - 1 \in DOMAIN Tail(fifo) /\ Tail(fifo)[k - 1] = fifo[k]
        BY <1>2, <2>1, <3>1, <3>3, TailOf
      <4>2. QED
        BY <4>1 DEF Ids
    <3>4. QED
      BY <3>2, <3>3
  <2>3. Ids(fifo)' = Ids(Tail(fifo))
    BY <2>1
  <2>4. QED
    BY <1>2, <2>1, <2>2, <2>3, TailOf
<1>3. QED
  BY <1>1, <1>2

(* What the sequences hold.                                                  *)
LEMMA Frames == \A f \in Frame : f.id \in Pkgs /\ f.id \in Nat
BY DEF Frame, Pkgs

LEMMA SequenceTypes ==
  ASSUME TypeOK
  PROVE  /\ fifo \in Seq(Frame) /\ printed \in Seq(Pkgs) /\ decoded \in 0 .. MaxPkgs
         /\ Len(fifo) \in Nat /\ Len(printed) \in Nat
         /\ DOMAIN fifo = 1 .. Len(fifo) /\ DOMAIN printed = 1 .. Len(printed)
         /\ \A k \in DOMAIN fifo : fifo[k].id \in Nat /\ fifo[k].id \in Pkgs
         /\ \A a \in DOMAIN printed : printed[a] \in Nat
<1>1. fifo \in Seq(Frame) /\ printed \in Seq(Pkgs) /\ decoded \in 0 .. MaxPkgs
  BY DEF TypeOK
<1>2. /\ Len(fifo) \in Nat /\ Len(printed) \in Nat
      /\ DOMAIN fifo = 1 .. Len(fifo) /\ DOMAIN printed = 1 .. Len(printed)
      /\ \A k \in DOMAIN fifo : fifo[k] \in Frame
      /\ \A a \in DOMAIN printed : printed[a] \in Pkgs
  BY <1>1
<1>3. QED
  BY <1>1, <1>2, Frames DEF Pkgs

(***************************************************************************)
(* Types.                                                                  *)
(***************************************************************************)
LEMMA NextTypes ==
  ASSUME TypeOK, InHand, at \in {"get", "pop", "print"}, NextPkg
  PROVE  /\ i' \in 0 .. FifoDepth /\ at' \in {"get", "end"}
         /\ i' = i + 1 /\ (at' = "get" <=> i + 1 < ptt_available)
BY ReadEdcConstants DEF TypeOK, InHand, NextPkg

LEMMA StepTypes == TypeOK /\ InHand /\ LossSoFar /\ [Next]_vars => TypeOK'
<1> SUFFICES ASSUME TypeOK, InHand, LossSoFar, [Next]_vars PROVE TypeOK'
  OBVIOUS
<1>1. trouble \in 0 .. MaxTrouble /\ (trouble < MaxTrouble => trouble + 1 \in 0 .. MaxTrouble)
  BY ReadEdcConstants DEF TypeOK
<1>2. CASE SetClock
  BY <1>1, <1>2, ClockValue DEF SetClock, Goto, Logs, Works, Trouble, log, TypeOK, At
<1>3. CASE Resume \/ ReadHk
  BY <1>1, <1>3 DEF Resume, ReadHk, Goto, Logs, Works, Trouble, edc, log, TypeOK, At
<1>4. CASE ReadState
  <2>1. Ids(fifo) \subseteq Pkgs
    <3>1. \A k \in DOMAIN fifo : fifo[k] \in Frame
      BY DEF TypeOK
    <3>2. QED
      BY <3>1 DEF Ids, Frame
  <2>2. Len(fifo) \in 0 .. FifoDepth /\ 0 \in 0 .. FifoDepth
    BY ReadEdcConstants DEF TypeOK
  <2>3. QED
    BY <1>1, <1>4, <2>1, <2>2 DEF ReadState, Logs, Works, Trouble, edc, log, TypeOK, At
<1>5. CASE GetPtt
  <2>1. CASE Works /\ fifo # <<>> /\ ptt' = Head(fifo).id /\ at' = "pop" /\ UNCHANGED i /\ Logs(FALSE)
    <3>1. Head(fifo) \in Frame
      BY <2>1, TailOf DEF TypeOK
    <3>2. ptt' \in Pkgs
      BY <2>1, <3>1 DEF Frame
    <3>3. QED
      BY <1>5, <2>1, <3>2 DEF GetPtt, Works, Logs, edc, log, TypeOK, At
  <2>2. CASE (Works \/ Trouble) /\ NextPkg /\ UNCHANGED ptt /\ Logs(TRUE)
    <3>1. i' \in 0 .. FifoDepth /\ at' \in At
      BY <1>5, <2>2, NextTypes DEF GetPtt, Ready, At
    <3>2. trouble' \in 0 .. MaxTrouble
      BY <1>1, <2>2 DEF Works, Trouble, TypeOK
    <3>3. QED
      BY <1>5, <2>2, <3>1, <3>2 DEF GetPtt, Logs, edc, log, TypeOK
  <2>3. QED
    BY <1>5, <2>1, <2>2 DEF GetPtt
<1>6. CASE PopPtt
  <2>1. fifo' \in Seq(Frame) /\ Len(fifo') <= FifoDepth
    <3>1. CASE Remove
      <4>1. fifo' \in Seq(Frame) /\ Len(fifo') <= Len(fifo) /\ Len(fifo') \in Nat
        BY <3>1, Removal
      <4>2. Len(fifo) <= FifoDepth /\ Len(fifo) \in Nat
        BY DEF TypeOK
      <4>3. QED
        BY <4>1, <4>2, ReadEdcConstants
    <3>2. CASE UNCHANGED fifo
      BY <3>2 DEF TypeOK
    <3>3. QED
      BY <1>6, <3>1, <3>2 DEF PopPtt
  <2>2. i' \in 0 .. FifoDepth /\ at' \in At
    BY <1>6, NextTypes DEF PopPtt, Ready, TypeOK, At
  <2>3. logging' \in BOOLEAN /\ trouble' \in 0 .. MaxTrouble
    BY <1>1, <1>6 DEF PopPtt, Logs, Works, Trouble
  <2>4. QED
    BY <1>6, <2>1, <2>2, <2>3 DEF PopPtt, log, TypeOK
<1>7. CASE PrintPtt
  <2>1. ptt \in Pkgs
    BY <1>7 DEF PrintPtt, InHand, TypeOK, NoPkg
  <2>2. printed' \in Seq(Pkgs)
    BY <1>7, <2>1, AppendTo DEF PrintPtt, TypeOK
  <2>3. QED
    BY <1>7, <2>2, NextTypes DEF PrintPtt, edc, log, TypeOK, At
<1>8. CASE Decode
  <2>1. decoded' \in 0 .. MaxPkgs /\ decoded' \in Pkgs
    BY <1>8, ReadEdcConstants DEF Decode, TypeOK, Pkgs
  <2>2. [id |-> decoded', time_tag |-> clock] \in Frame
    BY <2>1 DEF TypeOK, Frame
  <2>3. fifo' \in Seq(Frame) /\ Len(fifo') <= FifoDepth
    BY <1>8, <2>2, AppendTo, ReadEdcConstants DEF Decode, TypeOK
  <2>4. owed' \subseteq Pkgs
    BY <1>8, <2>1 DEF Decode, TypeOK
  <2>5. QED
    BY <1>8, <2>1, <2>3, <2>4 DEF Decode, thread, log, TypeOK
<1>9. CASE EdcResets
  <2>1. fifo' \in Seq(Frame) /\ Len(fifo') <= FifoDepth /\ Unset \in Clock
    BY <1>9, ReadEdcConstants DEF EdcResets, Clock, Unset
  <2>2. owed' \subseteq Pkgs /\ clock' \in Clock /\ trouble' \in 0 .. MaxTrouble
    BY <1>1, <1>9, <2>1 DEF EdcResets, Trouble, TypeOK
  <2>3. /\ UNCHANGED <<at, logging, i, ptt_available, ptt, decoded, leaked, leaks, printed, announced>>
        /\ decoding' \in BOOLEAN /\ clockLost' \in BOOLEAN
    BY <1>9 DEF EdcResets, thread, log
  <2>4. QED
    BY <2>1, <2>2, <2>3 DEF TypeOK
<1>10. CASE Crash
  <2>1. /\ at' \in At /\ logging' \in BOOLEAN /\ ptt' \in Pkgs \cup {NoPkg}
        /\ announced' \subseteq Pkgs /\ leaked' \in BOOLEAN
    BY <1>10 DEF Crash, At
  <2>2. /\ i' \in 0 .. FifoDepth /\ ptt_available' \in 0 .. FifoDepth /\ trouble' \in 0 .. MaxTrouble
    BY <1>1, <1>10, ReadEdcConstants DEF Crash, Trouble
  <2>3. UNCHANGED <<fifo, decoding, clock, decoded, leaks, printed, owed, clockLost>>
    BY <1>10 DEF Crash, edc
  <2>4. QED
    BY <2>1, <2>2, <2>3 DEF TypeOK
<1>11. CASE PrintPttFails \/ LogLeaks
  <2>1. leaked' \in BOOLEAN /\ trouble' \in 0 .. MaxTrouble
    BY <1>1, <1>11 DEF PrintPttFails, LogLeaks, FopenFails, Trouble
  <2>2. leaks' \in 0 .. MaxTrouble
    <3>1. trouble < MaxTrouble /\ leaks' = leaks + 1 /\ leaks <= trouble
      BY <1>11 DEF PrintPttFails, LogLeaks, FopenFails, Trouble, LossSoFar
    <3>2. leaks \in Nat
      BY DEF TypeOK
    <3>3. QED
      BY <1>1, <3>1, <3>2, ReadEdcConstants
  <2>3. CASE PrintPttFails
    BY <2>1, <2>2, <2>3, NextTypes DEF PrintPttFails, edc, TypeOK, At
  <2>4. CASE LogLeaks
    BY <2>1, <2>2, <2>4 DEF LogLeaks, thread, edc, TypeOK
  <2>5. QED
    BY <1>11, <2>3, <2>4
<1>12. CASE LogReturns
  BY <1>12 DEF LogReturns, edc, log, TypeOK
<1>13. CASE UNCHANGED vars
  BY <1>13 DEF vars, thread, edc, log, TypeOK
<1>14. QED
  BY <1>2, <1>3, <1>4, <1>5, <1>6, <1>7, <1>8, <1>9, <1>10, <1>11, <1>12, <1>13 DEF Next, Thread

(***************************************************************************)
(* The clock.                                                              *)
(***************************************************************************)
LEMMA ClockStep == ClockSoFar /\ [Next]_vars => ClockSoFar'
<1> SUFFICES ASSUME ClockSoFar, [Next]_vars PROVE ClockSoFar'
  OBVIOUS
<1>1. CASE SetClock
  BY <1>1, ClockValue DEF SetClock, Goto, Ready, ClockSoFar
<1>2. CASE Resume \/ ReadHk \/ ReadState \/ GetPtt \/ PopPtt \/ PrintPtt \/ PrintPttFails
  BY <1>2 DEF Resume, ReadHk, ReadState, GetPtt, PopPtt, PrintPtt, PrintPttFails, Goto, Ready, edc,
              ClockSoFar
<1>3. CASE LogReturns \/ LogLeaks \/ Decode \/ EdcResets \/ Crash \/ UNCHANGED vars
  BY <1>3 DEF LogReturns, LogLeaks, Decode, EdcResets, Crash, vars, thread, edc, ClockSoFar
<1>4. QED
  BY <1>1, <1>2, <1>3 DEF Next, Thread

(***************************************************************************)
(* The order of the packages, from the EDC to the log.                     *)
(***************************************************************************)
LEMMA OrderStep ==
  TypeOK /\ PrintedInOrder /\ QueueSoFar /\ InHand /\ [Next]_vars
    => PrintedInOrder' /\ QueueSoFar' /\ InHand'
<1> SUFFICES ASSUME TypeOK, PrintedInOrder, QueueSoFar, InHand, [Next]_vars
             PROVE  PrintedInOrder' /\ QueueSoFar' /\ InHand'
  OBVIOUS
<1>1. /\ fifo \in Seq(Frame) /\ printed \in Seq(Pkgs) /\ decoded \in 0 .. MaxPkgs
      /\ Len(fifo) \in Nat /\ Len(printed) \in Nat
      /\ DOMAIN fifo = 1 .. Len(fifo) /\ DOMAIN printed = 1 .. Len(printed)
      /\ \A k \in DOMAIN fifo : fifo[k].id \in Nat /\ fifo[k].id \in Pkgs
      /\ \A a \in DOMAIN printed : printed[a] \in Nat
  BY SequenceTypes
<1>2. CASE SetClock \/ Resume \/ ReadHk \/ LogReturns \/ LogLeaks \/ Crash \/ UNCHANGED vars
  BY <1>2 DEF SetClock, Resume, ReadHk, LogReturns, LogLeaks, Crash, vars, thread, edc, Goto,
              PrintedInOrder, QueueSoFar, InHand
<1>3. CASE ReadState
  <2>1. at' = "get" => i' < ptt_available'
    BY <1>1, <1>3 DEF ReadState
  <2>2. at' \in {"get", "end"} /\ UNCHANGED <<edc, printed>>
    BY <1>3 DEF ReadState
  <2>3. QED
    BY <2>1, <2>2 DEF edc, PrintedInOrder, QueueSoFar, InHand
<1>4. CASE GetPtt
  <2>1. CASE fifo # <<>> /\ ptt' = Head(fifo).id /\ at' = "pop" /\ UNCHANGED i
    <3>1. Head(fifo) = fifo[1] /\ 1 \in DOMAIN fifo
      BY <1>1, <2>1, TailOf
    <3>2. ptt' \in 1 .. decoded /\ \A a \in DOMAIN printed : printed[a] < ptt'
      BY <1>1, <2>1, <3>1 DEF QueueSoFar, Pkgs
    <3>3. \A k \in DOMAIN fifo : ptt' <= fifo[k].id
      BY <1>1, <2>1, <3>1 DEF QueueSoFar
    <3>4. QED
      BY <1>4, <2>1, <3>2, <3>3 DEF GetPtt, Ready, edc, PrintedInOrder, QueueSoFar, InHand
  <2>2. CASE NextPkg /\ UNCHANGED ptt
    BY <1>4, <2>2, NextTypes DEF GetPtt, Ready, edc, PrintedInOrder, QueueSoFar, InHand
  <2>3. QED
    BY <1>4, <2>1, <2>2 DEF GetPtt
<1>5. CASE PopPtt
  <2>1. ASSUME Remove
        PROVE  \A k \in DOMAIN fifo' : k \in 1 .. Len(fifo) /\ \E j \in DOMAIN fifo :
                 fifo'[k] = fifo[j] /\ (fifo # <<>> => j = k + 1)
    BY <1>1, <2>1, Removal, TailOf
  <2>2. ASSUME Remove, UNCHANGED <<printed, decoded>>
        PROVE  QueueSoFar'
    <3>1. \A k \in DOMAIN fifo' : \E j \in DOMAIN fifo : fifo'[k] = fifo[j]
      BY <2>1, <2>2
    <3>2. \A a, b \in DOMAIN fifo' : a < b => fifo'[a].id < fifo'[b].id
      <4>1. CASE fifo = <<>>
        BY <1>1, <2>2, <4>1, Removal
      <4>2. CASE fifo # <<>>
        <5>1. \A a \in DOMAIN fifo' : a \in Nat /\ a + 1 \in DOMAIN fifo /\ fifo'[a] = fifo[a + 1]
          BY <1>1, <2>1, <2>2, <4>2
        <5>2. QED
          BY <1>1, <5>1 DEF QueueSoFar
      <4>3. QED
        BY <4>1, <4>2
    <3>3. QED
      BY <2>2, <3>1, <3>2 DEF QueueSoFar
  <2>3. CASE Works /\ Remove /\ at' = "print" /\ UNCHANGED i
    <3>1. \A k \in DOMAIN fifo' : ptt < fifo'[k].id
      <4> SUFFICES ASSUME NEW k \in DOMAIN fifo' PROVE ptt < fifo'[k].id
        OBVIOUS
      <4>1. fifo # <<>>
        BY <2>3, Removal
      <4>2. k + 1 \in DOMAIN fifo /\ 1 \in DOMAIN fifo /\ fifo'[k] = fifo[k + 1] /\ k \in Nat \ {0}
        BY <1>1, <2>1, <2>3, <4>1
      <4>3. ptt <= fifo[1].id /\ fifo[1].id < fifo[k + 1].id /\ ptt \in Nat
        BY <1>1, <1>5, <4>2 DEF PopPtt, Ready, InHand, QueueSoFar
      <4>4. QED
        BY <1>1, <4>2, <4>3
    <3>2. QED
      BY <1>5, <2>2, <2>3, <3>1 DEF PopPtt, PrintedInOrder, InHand
  <2>4. CASE NextPkg /\ Remove
    BY <1>5, <2>2, <2>4, NextTypes DEF PopPtt, Ready, PrintedInOrder, InHand
  <2>5. CASE NextPkg /\ UNCHANGED fifo
    BY <1>5, <2>5, NextTypes DEF PopPtt, Ready, PrintedInOrder, QueueSoFar, InHand
  <2>6. QED
    BY <1>5, <2>3, <2>4, <2>5 DEF PopPtt
<1>6. CASE PrintPtt
  <2>1. /\ ptt \in Pkgs /\ ptt \in 1 .. decoded /\ \A a \in DOMAIN printed : printed[a] < ptt
        /\ \A k \in DOMAIN fifo : ptt < fifo[k].id
    <3>1. at = "print"
      BY <1>6 DEF PrintPtt
    <3>2. QED
      <4>1. ptt \in 1 .. decoded /\ \A a \in DOMAIN printed : printed[a] < ptt
        BY <3>1 DEF InHand
      <4>2. ptt \in Pkgs
        BY <1>1, <4>1, ReadEdcConstants DEF Pkgs
      <4>3. QED
        BY <3>1, <4>1, <4>2 DEF InHand
  <2>2. /\ DOMAIN printed' = 1 .. Len(printed) + 1 /\ printed'[Len(printed) + 1] = ptt
        /\ \A a \in 1 .. Len(printed) : printed'[a] = printed[a]
    BY <1>1, <1>6, <2>1, AppendTo DEF PrintPtt
  <2>3. PrintedInOrder'
    BY <1>1, <2>1, <2>2 DEF PrintedInOrder
  <2>4. QueueSoFar'
    BY <1>1, <1>6, <2>1, <2>2 DEF PrintPtt, edc, QueueSoFar
  <2>5. QED
    BY <1>6, <2>3, <2>4, NextTypes DEF PrintPtt, InHand
<1>7. CASE Decode
  <2>1. decoded' = decoded + 1 /\ UNCHANGED <<thread, printed>>
    BY <1>7 DEF Decode
  <2>2. CASE UNCHANGED fifo
    BY <1>1, <2>1, <2>2 DEF thread, PrintedInOrder, QueueSoFar, InHand
  <2>3. CASE fifo' = Append(fifo, [id |-> decoded', time_tag |-> clock])
    <3>1. [id |-> decoded', time_tag |-> clock] \in Frame
      <4>1. decoded' \in Pkgs
        <5>1. decoded < MaxPkgs /\ decoded \in 0 .. MaxPkgs
          BY <1>1, <1>7 DEF Decode
        <5>2. QED
          BY <2>1, <5>1, ReadEdcConstants DEF Pkgs
      <4>2. QED
        BY <4>1 DEF Frame, TypeOK
    <3>2. /\ DOMAIN fifo' = 1 .. Len(fifo) + 1 /\ fifo'[Len(fifo) + 1].id = decoded + 1
          /\ \A k \in 1 .. Len(fifo) : fifo'[k] = fifo[k]
      BY <1>1, <2>1, <2>3, <3>1, AppendTo
    <3>3. QueueSoFar'
      <4>1. \A a, b \in DOMAIN fifo' : a < b => fifo'[a].id < fifo'[b].id
        BY <1>1, <3>2 DEF QueueSoFar
      <4>2. \A k \in DOMAIN fifo' : fifo'[k].id <= decoded'
        BY <1>1, <2>1, <3>2 DEF QueueSoFar
      <4>3. \A a \in DOMAIN printed : printed[a] <= decoded' /\ \A k \in DOMAIN fifo' : printed[a] < fifo'[k].id
        BY <1>1, <2>1, <3>2 DEF QueueSoFar
      <4>4. QED
        BY <2>1, <4>1, <4>2, <4>3 DEF QueueSoFar
    <3>4. InHand'
      <4>1. at = "pop" => \A k \in DOMAIN fifo' : ptt <= fifo'[k].id
        BY <1>1, <3>2 DEF InHand
      <4>2. at = "print" => \A k \in DOMAIN fifo' : ptt < fifo'[k].id
        BY <1>1, <3>2 DEF InHand
      <4>3. at \in {"pop", "print"} => ptt \in 1 .. decoded'
        BY <1>1, <2>1 DEF InHand
      <4>4. QED
        BY <2>1, <4>1, <4>2, <4>3 DEF thread, InHand
    <3>5. QED
      BY <2>1, <3>3, <3>4 DEF PrintedInOrder
  <2>4. QED
    BY <1>7, <2>2, <2>3 DEF Decode
<1>8. CASE EdcResets
  BY <1>1, <1>8 DEF EdcResets, thread, PrintedInOrder, QueueSoFar, InHand
<1>9. CASE PrintPttFails
  BY <1>9, NextTypes DEF PrintPttFails, edc, PrintedInOrder, QueueSoFar, InHand
<1>10. QED
  BY <1>2, <1>3, <1>4, <1>5, <1>6, <1>7, <1>8, <1>9 DEF Next, Thread

(***************************************************************************)
(* Losses.                                                                 *)
(***************************************************************************)
LEMMA MissingFinite == ASSUME TypeOK PROVE IsFiniteSet(Missing) /\ Cardinality(Missing) \in Nat
<1>1. IsFiniteSet(Pkgs)
  BY ReadEdcConstants, FS_Interval DEF Pkgs
<1>2. Missing \subseteq Pkgs
  BY DEF TypeOK, Missing
<1>3. QED
  BY <1>1, <1>2, FS_Subset, FS_CardinalityType

\* At most one package more.
LEMMA OneMore ==
  ASSUME TypeOK, NEW x, Missing' \subseteq Missing \cup {x}
  PROVE  Cardinality(Missing') \in Nat /\ Cardinality(Missing') <= Cardinality(Missing) + 1
<1>1. /\ IsFiniteSet(Missing \cup {x}) /\ Cardinality(Missing \cup {x}) <= Cardinality(Missing) + 1
      /\ Cardinality(Missing) \in Nat
  BY MissingFinite, FS_AddElement, FS_CardinalityType
<1>2. /\ Cardinality(Missing') <= Cardinality(Missing \cup {x}) /\ Cardinality(Missing') \in Nat
      /\ Cardinality(Missing \cup {x}) \in Nat
  BY <1>1, FS_Subset, FS_CardinalityType
<1>3. QED
  BY <1>1, <1>2

LEMMA NoneMore ==
  ASSUME TypeOK, Missing' \subseteq Missing
  PROVE  Cardinality(Missing') \in Nat /\ Cardinality(Missing') <= Cardinality(Missing)
BY MissingFinite, FS_Subset, FS_CardinalityType

\* What a step may cost: nothing, one package that was expected to go or that a failure
\* pays for.
LEMMA LossKept ==
  ASSUME TypeOK, LossSoFar, NEW x, Strayed' => ptt' \notin owed',
         \/ /\ Works \/ Trouble
            /\ UNCHANGED leaks /\ Missing' \subseteq Missing /\ Spare' <= Spare
         \/ /\ Works \/ Trouble
            /\ UNCHANGED leaks /\ Missing' \subseteq Missing \cup {x} /\ Spare' < Spare
         \/ /\ Trouble /\ UNCHANGED leaks /\ Missing' \subseteq Missing \cup {x} /\ Spare' <= Spare
         \/ /\ Trouble /\ leaks' = leaks + 1
            /\ Missing' \subseteq Missing \cup {x} /\ Spare' <= Spare + 1
  PROVE  LossSoFar'
<1> DEFINE m == Cardinality(Missing)  n == Cardinality(Missing')
<1>1. m \in Nat /\ Spare \in Nat /\ Spare' \in Nat /\ trouble \in Nat /\ leaks \in Nat
  BY MissingFinite, ReadEdcConstants DEF TypeOK, Spare
<1>2. m + Spare <= trouble + leaks /\ leaks <= trouble
  BY DEF LossSoFar
<1>3. /\ Missing' \subseteq Missing => n \in Nat /\ n <= m
      /\ Missing' \subseteq Missing \cup {x} => n \in Nat /\ n <= m + 1
  BY NoneMore, OneMore
<1>4. Missing' \subseteq Missing \cup {x}
  OBVIOUS
<1>5. n + Spare' <= trouble' + leaks' /\ leaks' <= trouble'
  <2> HIDE DEF m, n
  <2>1. (Works => trouble' = trouble) /\ (Trouble => trouble' = trouble + 1)
    BY DEF Works, Trouble
  <2>2. QED
    BY <1>1, <1>2, <1>3, <1>4, <2>1
<1>6. QED
  BY <1>5 DEF LossSoFar

LEMMA LossStep == TypeOK /\ InHand /\ LossSoFar /\ [Next]_vars => LossSoFar'
<1> SUFFICES ASSUME TypeOK, InHand, LossSoFar, [Next]_vars PROVE LossSoFar'
  OBVIOUS
<1>1. /\ fifo \in Seq(Frame) /\ Len(fifo) \in Nat
      /\ leaked \in BOOLEAN /\ trouble \in Nat /\ leaks \in Nat
  BY SequenceTypes, ReadEdcConstants DEF TypeOK
<1>2. CASE SetClock \/ Resume \/ ReadHk \/ ReadState \/ LogReturns
  <2>1. at # "pop" \/ LogReturns
    BY <1>2 DEF SetClock, Resume, ReadHk, ReadState, Goto, Ready
  <2>2. /\ (at # "print" /\ at' # "print") \/ LogReturns
        /\ at' # "pop" \/ LogReturns
    BY <1>2 DEF SetClock, Resume, ReadHk, ReadState, Goto, Ready
  <2>3. UNCHANGED <<fifo, printed, owed, leaked, leaks, ptt>> /\ (Works \/ Trouble)
    BY <1>2 DEF SetClock, Resume, ReadHk, ReadState, LogReturns, edc, log, Works
  <2>4. LogReturns => at' = at
    BY DEF LogReturns
  <2>5. Missing' = Missing /\ (Strayed' => Strayed) /\ Spare' <= Spare
    BY <2>1, <2>2, <2>3, <2>4 DEF Missing, Ids, Printed, Hand, Spare, Strayed
  <2>6. Strayed' => ptt' \notin owed'
    BY <2>3, <2>5 DEF LossSoFar
  <2>7. QED
    BY <2>3, <2>5, <2>6, LossKept
<1>3. CASE GetPtt
  <2>1. /\ at = "get" /\ UNCHANGED <<fifo, printed, owed, leaked, leaks>> /\ (Works \/ Trouble)
        /\ ~Strayed'
    BY <1>3, NextTypes DEF GetPtt, Ready, edc, log, Strayed
  <2>2. at' # "print"
    BY <1>3, <2>1, NextTypes DEF GetPtt
  <2>3. Missing' = Missing /\ Spare' <= Spare
    BY <2>1, <2>2 DEF Missing, Ids, Printed, Hand, Spare, Strayed
  <2>4. QED
    BY <2>1, <2>3, LossKept
<1>4. CASE PopPtt
  <2>1. /\ at = "pop" /\ UNCHANGED <<printed, owed, leaked, leaks, ptt>> /\ (Works \/ Trouble)
        /\ at' # "pop"
    BY <1>4, NextTypes DEF PopPtt, Ready, log
  <2>2. ~Strayed' /\ Hand = {}
    BY <2>1 DEF Strayed, Hand
  <2>3. CASE Works /\ Remove /\ at' = "print"
    <3>1. Spare' = 0
      BY <2>2, <2>3 DEF Spare
    <3>2. CASE ~Strayed /\ ~leaked
      <4>1. fifo # <<>> /\ Head(fifo).id = ptt
        BY <2>1, <3>2 DEF Strayed
      <4>2. Hand' = {ptt} /\ Ids(fifo) \subseteq Ids(fifo)' \cup {ptt}
        BY <2>1, <2>3, <3>2, <4>1, Removal DEF Hand
      <4>3. Missing' \subseteq Missing
        BY <2>1, <2>2, <4>2 DEF Missing, Printed
      <4>4. Spare' <= Spare
        BY <3>1 DEF Spare
      <4>5. QED
        BY <2>1, <2>2, <4>3, <4>4, LossKept
    <3>3. CASE Strayed \/ leaked
      <4>1. Spare' < Spare
        BY <2>1, <3>1, <3>3 DEF Spare
      <4>2. PICK x : Missing' \subseteq Missing \cup {x}
        <5>1. CASE fifo = <<>>
          <6>1. Ids(fifo)' = Ids(fifo)
            BY <2>3, <5>1, Removal
          <6>2. Missing' \subseteq Missing
            BY <2>1, <2>2, <6>1 DEF Missing, Printed
          <6>3. QED
            BY <6>2
        <5>2. CASE fifo # <<>>
          <6>1. Ids(fifo) \subseteq Ids(fifo)' \cup {Head(fifo).id}
            BY <2>3, <5>2, Removal
          <6>2. Missing' \subseteq Missing \cup {Head(fifo).id}
            BY <2>1, <2>2, <6>1 DEF Missing, Printed
          <6>3. QED
            BY <6>2
        <5>3. QED
          BY <5>1, <5>2
      <4>3. QED
        BY <2>1, <2>2, <4>1, <4>2, LossKept
    <3>4. QED
      BY <3>2, <3>3
  <2>4. CASE Trouble /\ (Remove \/ UNCHANGED fifo) /\ NextPkg
    <3>1. Spare' <= Spare
      BY <1>1, <2>1, <2>2 DEF Spare
    <3>2. Ids(fifo) \subseteq Ids(fifo)' \cup {Head(fifo).id}
      <4>1. CASE fifo = <<>> \/ UNCHANGED fifo
        <5>1. fifo' = fifo
          BY <2>4, <4>1, Removal
        <5>2. QED
          BY <5>1
      <4>2. CASE fifo # <<>> /\ Remove
        BY <4>2, Removal
      <4>3. QED
        BY <2>4, <4>1, <4>2
    <3>3. Missing' \subseteq Missing \cup {Head(fifo).id}
      BY <2>1, <2>2, <3>2 DEF Missing, Printed
    <3>4. QED
      BY <2>1, <2>2, <2>4, <3>1, <3>3, LossKept
  <2>5. QED
    BY <1>4, <2>3, <2>4 DEF PopPtt
<1>5. CASE PrintPtt
  <2>1. /\ at = "print" /\ ~leaked /\ ptt \in Pkgs /\ UNCHANGED <<fifo, owed, leaked, leaks>> /\ Works
        /\ printed' = Append(printed, ptt) /\ at' \in {"get", "end"}
    BY <1>5, NextTypes DEF PrintPtt, InHand, TypeOK, NoPkg, edc, log, Works
  <2>2. Printed \cup {ptt} \subseteq Printed'
    <3>1. printed \in Seq(Pkgs) /\ DOMAIN printed = 1 .. Len(printed) /\ Len(printed) \in Nat
      BY SequenceTypes
    <3>2. /\ DOMAIN printed' = 1 .. Len(printed) + 1 /\ printed'[Len(printed) + 1] = ptt
          /\ \A a \in 1 .. Len(printed) : printed'[a] = printed[a]
      BY <2>1, <3>1, AppendTo
    <3>3. QED
      BY <3>1, <3>2 DEF Printed
  <2>3. Hand = {ptt} /\ Ids(fifo)' = Ids(fifo) /\ ~Strayed' /\ Spare' = 0
    BY <2>1 DEF Hand, Strayed, Spare, Ids
  <2>4. Missing' \subseteq Missing
    BY <2>1, <2>2, <2>3 DEF Missing
  <2>5. Spare' <= Spare
    BY <2>3 DEF Spare
  <2>6. QED
    BY <2>1, <2>3, <2>4, <2>5, LossKept
<1>6. CASE PrintPttFails \/ LogLeaks
  <2>1. /\ UNCHANGED <<fifo, printed, owed, ptt>> /\ ~leaked /\ leaked' /\ Trouble /\ leaks' = leaks + 1
        /\ at' = at \/ at' \in {"get", "end"}
    BY <1>6, NextTypes DEF PrintPttFails, LogLeaks, FopenFails, thread, edc
  <2>2. /\ PrintPttFails => at = "print" /\ at' \in {"get", "end"}
        /\ LogLeaks => at' = at
    BY NextTypes DEF PrintPttFails, LogLeaks, thread
  <2>3. Missing' \subseteq Missing \cup {ptt}
    BY <2>1 DEF Missing, Ids, Printed, Hand
  <2>4. Strayed' => Strayed
    BY <1>6, <2>1, <2>2 DEF Strayed
  <2>5. Spare' <= Spare + 1
    BY <2>1, <2>4 DEF Spare
  <2>6. Strayed' => ptt' \notin owed'
    BY <2>1, <2>4 DEF LossSoFar
  <2>7. QED
    BY <2>1, <2>3, <2>5, <2>6, LossKept
<1>7. CASE Decode
  <2>1. UNCHANGED <<printed, leaked, leaks, at, ptt>> /\ Works
    BY <1>7 DEF Decode, thread, log, Works
  <2>2. Strayed' => Strayed
    <3>1. CASE fifo = <<>>
      BY <2>1, <3>1 DEF Strayed
    <3>2. CASE fifo # <<>>
      <4>1. Head(fifo') = Head(fifo) /\ fifo' # <<>>
        BY <1>1, <1>7, <3>2 DEF Decode
      <4>2. QED
        BY <2>1, <3>2, <4>1 DEF Strayed
    <3>3. QED
      BY <3>1, <3>2
  <2>3. Spare' <= Spare
    BY <2>1, <2>2 DEF Spare
  <2>4. owed' \subseteq owed \cup {decoded + 1} /\ decoded \in Nat
    BY <1>7, ReadEdcConstants DEF Decode, TypeOK
  <2>5. Strayed' => ptt' \notin owed'
    <3>1. Strayed => ptt \in 1 .. decoded /\ ptt \notin owed
      BY DEF Strayed, InHand, LossSoFar
    <3>2. QED
      BY <2>1, <2>2, <2>4, <3>1
  <2>6. Missing' \subseteq Missing
    <3>1. CASE UNCHANGED <<fifo, owed>>
      BY <2>1, <3>1 DEF Missing, Ids, Printed, Hand
    <3>2. CASE /\ fifo' = Append(fifo, [id |-> decoded', time_tag |-> clock])
               /\ owed' = owed \cup {decoded'}
      <4>1. /\ DOMAIN fifo' = 1 .. Len(fifo) + 1 /\ fifo'[Len(fifo) + 1].id = decoded'
            /\ \A k \in 1 .. Len(fifo) : fifo'[k] = fifo[k]
        BY <1>1, <3>2
      <4>2. Ids(fifo) \cup {decoded'} \subseteq Ids(fifo)'
        BY <1>1, <4>1 DEF Ids
      <4>3. Printed' = Printed /\ Hand' = Hand
        BY <2>1 DEF Printed, Hand
      <4>4. QED
        BY <3>2, <4>2, <4>3 DEF Missing
    <3>3. QED
      BY <1>7, <3>1, <3>2 DEF Decode
  <2>7. QED
    BY <2>1, <2>3, <2>5, <2>6, LossKept
<1>8. CASE EdcResets
  <2>1. /\ UNCHANGED <<at, ptt, printed, leaked, leaks>> /\ Trouble
        /\ fifo' = <<>> /\ owed' = owed \ Ids(fifo)
    BY <1>8 DEF EdcResets, thread, log
  <2>2. Missing' \subseteq Missing
    BY <2>1 DEF Missing, Printed, Hand
  <2>3. Spare' <= Spare + 1
    BY <1>1, <2>1 DEF Spare
  <2>4. Strayed' => ptt' \notin owed'
    <3>1. CASE Strayed
      BY <2>1, <3>1 DEF LossSoFar
    <3>2. CASE at = "pop" /\ ~Strayed
      <4>1. fifo # <<>> /\ Head(fifo).id = ptt
        BY <3>2 DEF Strayed
      <4>2. 1 \in DOMAIN fifo /\ Head(fifo) = fifo[1]
        BY <1>1, <4>1, TailOf
      <4>3. ptt \in Ids(fifo)
        BY <4>1, <4>2 DEF Ids
      <4>4. QED
        BY <2>1, <4>3
    <3>3. QED
      BY <2>1, <3>1, <3>2 DEF Strayed
  <2>5. QED
    <3>1. Cardinality(Missing) \in Nat /\ Cardinality(Missing') \in Nat
          /\ Cardinality(Missing') <= Cardinality(Missing)
      BY <2>2, MissingFinite, NoneMore
    <3>2. Spare \in Nat /\ Spare' \in Nat /\ trouble' = trouble + 1 /\ leaks' = leaks
      BY <2>1 DEF Spare, Trouble
    <3>3. Cardinality(Missing) + Spare <= trouble + leaks /\ leaks <= trouble
      BY DEF LossSoFar
    <3>4. Cardinality(Missing') + Spare' <= trouble' + leaks' /\ leaks' <= trouble'
      BY <1>1, <2>3, <3>1, <3>2, <3>3
    <3>5. QED
      BY <2>4, <3>4 DEF LossSoFar
<1>9. CASE Crash
  <2>1. UNCHANGED <<fifo, printed, owed, leaks>> /\ Trouble /\ at' = "clock" /\ ~leaked'
    BY <1>9 DEF Crash, edc
  <2>2. Missing' \subseteq Missing \cup {ptt}
    BY <2>1 DEF Missing, Ids, Printed, Hand
  <2>3. ~Strayed' /\ Spare' = 0
    BY <2>1 DEF Strayed, Spare
  <2>4. Spare' <= Spare
    BY <2>3 DEF Spare
  <2>5. QED
    BY <2>1, <2>2, <2>3, <2>4, LossKept
<1>10. CASE UNCHANGED vars
  <2>1. UNCHANGED <<at, ptt, fifo, printed, owed, leaked, leaks, trouble>>
    BY <1>10 DEF vars, thread, edc, log
  <2>2. Missing' = Missing /\ Spare' = Spare /\ Strayed' = Strayed
    BY <2>1 DEF Missing, Ids, Printed, Hand, Spare, Strayed
  <2>3. QED
    BY <2>1, <2>2 DEF LossSoFar
<1>11. QED
  BY <1>2, <1>3, <1>4, <1>5, <1>6, <1>7, <1>8, <1>9, <1>10 DEF Next, Thread

(***************************************************************************)
(* The announced packages.                                                 *)
(***************************************************************************)
\* Nothing went wrong before a step after which nothing has gone wrong.
LEMMA NoTrouble ==
  ASSUME TypeOK, [Next]_vars, trouble' = 0
  PROVE  trouble = 0 /\ Works /\ ~Trouble
<1>1. trouble \in Nat /\ ~Trouble
  BY DEF TypeOK, Trouble
<1>2. CASE SetClock \/ Resume \/ ReadHk \/ ReadState
  BY <1>1, <1>2 DEF SetClock, Resume, ReadHk, ReadState, Works
<1>3. CASE GetPtt
  BY <1>1, <1>3 DEF GetPtt, Works
<1>4. CASE PopPtt \/ PrintPtt \/ LogReturns
  BY <1>1, <1>4 DEF PopPtt, PrintPtt, LogReturns, Works
<1>5. CASE PrintPttFails \/ LogLeaks \/ Decode \/ EdcResets \/ Crash \/ UNCHANGED vars
  BY <1>1, <1>5 DEF PrintPttFails, LogLeaks, FopenFails, Decode, EdcResets, Crash, vars, Works
<1>6. QED
  BY <1>2, <1>3, <1>4, <1>5 DEF Next, Thread

LEMMA BacklogStep == TypeOK /\ InHand /\ LossSoFar /\ BacklogSoFar /\ [Next]_vars => BacklogSoFar'
<1> SUFFICES ASSUME TypeOK, InHand, LossSoFar, BacklogSoFar, [Next]_vars, trouble' = 0
             PROVE  BacklogSoFar'
  BY DEF BacklogSoFar
<1>1. /\ fifo \in Seq(Frame) /\ Len(fifo) \in Nat /\ DOMAIN fifo = 1 .. Len(fifo)
      /\ i \in Nat /\ ptt_available \in Nat
      /\ printed \in Seq(Pkgs) /\ Len(printed) \in Nat /\ DOMAIN printed = 1 .. Len(printed)
  BY SequenceTypes, ReadEdcConstants DEF TypeOK
<1>2. Works /\ ~Trouble /\ trouble = 0
  BY NoTrouble
<1>3. CASE SetClock \/ Resume \/ ReadHk
  BY <1>2, <1>3 DEF SetClock, Resume, ReadHk, Goto, Ready, BacklogSoFar
<1>4. CASE ReadState
  <2>1. /\ announced' = Ids(fifo) /\ ptt_available' = Len(fifo) /\ i' = 0 /\ UNCHANGED <<fifo, printed>>
        /\ at' = IF fifo = <<>> THEN "end" ELSE "get"
    BY <1>2, <1>4 DEF ReadState, edc
  <2>2. Left' = Len(fifo) /\ FirstIds(Len(fifo))' = Ids(fifo)
    BY <1>1, <2>1 DEF Left, FirstIds, Ids
  <2>3. fifo = <<>> => Ids(fifo) = {}
    BY DEF Ids
  <2>4. QED
    BY <1>1, <2>1, <2>2, <2>3 DEF BacklogSoFar
<1>5. CASE GetPtt
  <2>1. /\ at = "get" /\ Left <= Len(fifo) /\ announced \subseteq Printed \cup FirstIds(Left)
        /\ i < ptt_available
    BY <1>2, <1>5 DEF GetPtt, Ready, BacklogSoFar, InHand
  <2>2. at' = "pop" /\ UNCHANGED <<i, ptt_available, fifo, printed, announced>>
    <3>1. fifo # <<>>
      BY <1>1, <2>1 DEF Left
    <3>2. QED
      BY <1>2, <1>5, <3>1 DEF GetPtt, edc
  <2>3. QED
    BY <2>1, <2>2 DEF BacklogSoFar, Left, FirstIds, Printed
<1>6. CASE PopPtt
  <2>1. /\ Left <= Len(fifo) /\ announced \subseteq Printed \cup FirstIds(Left)
        /\ i < ptt_available /\ Left \in Nat \ {0}
    BY <1>1, <1>2, <1>6 DEF PopPtt, Ready, BacklogSoFar, InHand, Left
  <2>2. fifo # <<>> /\ Head(fifo).id = ptt
    <3>1. Cardinality(Missing) \in Nat /\ leaks \in Nat /\ leaks <= trouble
      BY MissingFinite DEF LossSoFar, TypeOK
    <3>2. Strayed => Spare >= 1
      BY DEF Spare
    <3>3. Spare \in Nat
      BY DEF Spare
    <3>4. ~Strayed
      BY <1>2, <3>1, <3>2, <3>3 DEF LossSoFar
    <3>5. QED
      BY <1>6, <3>4 DEF PopPtt, Ready, Strayed
  <2>3. /\ fifo' = Tail(fifo) /\ at' = "print"
        /\ UNCHANGED <<i, ptt, ptt_available, printed, announced>>
    <3>1. Remove
      BY <1>2, <1>6 DEF PopPtt
    <3>2. QED
      BY <1>2, <1>6, <2>2, <3>1, Removal DEF PopPtt
  <2>4. /\ Len(fifo') = Len(fifo) - 1 /\ fifo[1].id = ptt
        /\ \A k \in 1 .. Len(fifo) - 1 : fifo'[k] = fifo[k + 1]
    BY <1>1, <2>2, <2>3, TailOf
  <2>5. FirstIds(Left) \subseteq {ptt} \cup FirstIds(Left - 1)'
    <3> SUFFICES ASSUME NEW k \in 1 .. Left PROVE fifo[k].id \in {ptt} \cup FirstIds(Left - 1)'
      BY DEF FirstIds
    <3>1. CASE k = 1
      BY <2>4, <3>1
    <3>2. CASE k # 1
      <4>1. k - 1 \in 1 .. Left - 1 /\ fifo'[k - 1] = fifo[k] /\ Left' = Left
        BY <2>1, <2>3, <2>4, <3>2 DEF Left
      <4>2. QED
        BY <4>1 DEF FirstIds
    <3>3. QED
      BY <3>1, <3>2
  <2>6. Left' = Left /\ Printed' = Printed
    BY <2>3 DEF Left, Printed
  <2>7. QED
    BY <1>1, <2>1, <2>3, <2>4, <2>5, <2>6 DEF BacklogSoFar
<1>7. CASE PrintPtt
  <2>1. /\ Left - 1 <= Len(fifo) /\ announced \subseteq Printed \cup {ptt} \cup FirstIds(Left - 1)
        /\ i < ptt_available
    BY <1>2, <1>7 DEF PrintPtt, BacklogSoFar, InHand
  <2>2. /\ UNCHANGED <<fifo, ptt_available, announced>> /\ i' = i + 1
        /\ at' \in {"get", "end"} /\ (at' = "get" <=> i + 1 < ptt_available)
    BY <1>7, NextTypes DEF PrintPtt, edc
  <2>3. Left' = Left - 1
    BY <1>1, <2>2 DEF Left
  <2>4. Printed \cup {ptt} \subseteq Printed'
    <3>1. ptt \in Pkgs
      BY <1>7 DEF PrintPtt, InHand, TypeOK, NoPkg
    <3>2. /\ DOMAIN printed' = 1 .. Len(printed) + 1 /\ printed'[Len(printed) + 1] = ptt
          /\ \A a \in 1 .. Len(printed) : printed'[a] = printed[a]
      BY <1>1, <1>7, <3>1, AppendTo DEF PrintPtt
    <3>3. QED
      BY <1>1, <3>2 DEF Printed
  <2>5. FirstIds(Left - 1) = FirstIds(Left)'
    BY <2>2, <2>3 DEF FirstIds
  <2>6. at' = "end" => FirstIds(Left)' = {}
    BY <1>1, <2>2, <2>3 DEF FirstIds, Left
  <2>7. QED
    BY <2>1, <2>2, <2>3, <2>4, <2>5, <2>6 DEF BacklogSoFar
<1>8. CASE Decode
  <2>1. UNCHANGED <<at, i, ptt, ptt_available, printed, announced>>
    BY <1>8 DEF Decode, thread
  <2>2. Len(fifo) <= Len(fifo') /\ Len(fifo') \in Nat /\ \A k \in 1 .. Len(fifo) : fifo'[k] = fifo[k]
    BY <1>1, <1>8 DEF Decode
  <2>3. Left' = Left /\ Printed' = Printed /\ Left \in Int
    BY <1>1, <2>1 DEF Left, Printed
  <2>4. \A n \in Int : n <= Len(fifo) => FirstIds(n)' = FirstIds(n)
    BY <1>1, <2>2 DEF FirstIds
  <2>5. QED
    BY <1>1, <1>2, <2>1, <2>2, <2>3, <2>4 DEF BacklogSoFar
<1>9. CASE EdcResets \/ Crash \/ PrintPttFails \/ LogLeaks
  BY <1>2, <1>9 DEF EdcResets, Crash, PrintPttFails, LogLeaks, FopenFails
<1>10. CASE LogReturns \/ UNCHANGED vars
  BY <1>10 DEF LogReturns, vars, thread, edc, BacklogSoFar, Left, FirstIds, Printed
<1>11. QED
  BY <1>3, <1>4, <1>5, <1>6, <1>7, <1>8, <1>9, <1>10 DEF Next, Thread

(***************************************************************************)
(* The theorems.                                                           *)
(***************************************************************************)
LEMMA StepInv == IInv /\ [Next]_vars => IInv'
BY StepTypes, ClockStep, OrderStep, LossStep, BacklogStep DEF IInv

THEOREM Invariance == Spec => []IInv
<1>1. QED
  BY InitInv, StepInv, PTL DEF Spec

(* Every variable keeps its type. *)
THEOREM TypeCorrect == Spec => []TypeOK
<1>1. IInv => TypeOK
  BY DEF IInv
<1>2. QED
  BY <1>1, Invariance, PTL

(* No package is printed twice or out of order, whatever fails and however    *)
(* often the process crashes.                                                 *)
THEOREM InOrder == Spec => []PrintedInOrder
<1>1. IInv => PrintedInOrder
  BY DEF IInv
<1>2. QED
  BY <1>1, Invariance, PTL

(* Besides the packages that a reset finds in the FIFO, a reset, a failed     *)
(* transfer and a crash cost at most one package each, a failed fopen two.    *)
THEOREM OneLossEach == Spec => []LossPerTrouble
<1>1. IInv => LossPerTrouble
  <2> SUFFICES ASSUME IInv PROVE LossPerTrouble
    OBVIOUS
  <2>1. Cardinality(Missing) + Spare <= trouble + leaks
    BY DEF IInv, LossSoFar
  <2>2. Cardinality(Missing) \in Nat /\ Spare \in Nat /\ trouble \in Nat /\ leaks \in Nat
    BY MissingFinite, ReadEdcConstants DEF IInv, TypeOK, Spare
  <2>3. QED
    BY <2>1, <2>2 DEF LossPerTrouble
<1>2. QED
  BY <1>1, Invariance, PTL

(* When nothing goes wrong every announced package is printed.                *)
THEOREM AllPrinted == Spec => []BacklogPrinted
<1>1. IInv => BacklogPrinted
  BY DEF IInv, BacklogSoFar, BacklogPrinted, Printed
<1>2. QED
  BY <1>1, Invariance, PTL

(* The decoder runs without a clock only after a failure or a reset.          *)
THEOREM ClockFirst == Spec => []DecodingHasClock
<1>1. IInv => DecodingHasClock
  <2>1. ClockSoFar => DecodingHasClock
    BY DEF ClockSoFar, DecodingHasClock
  <2>2. QED
    BY <2>1 DEF IInv
<1>2. QED
  BY <1>1, Invariance, PTL
=============================================================================
