--------------------------- MODULE TtcDriver_proofs ---------------------------
(***************************************************************************)
(* The mutex of the TTC driver does its work for any number of callers and *)
(* radios and whatever ioctl returns: sections exclude each other, nobody  *)
(* comes between the two transfers of a section, and the value a register  *)
(* read reports is the answer to its own request.                          *)
(***************************************************************************)
EXTENDS TtcDriver, TLAPS

\* Every variable of the driver keeps its type, for any callers and radios.
THEOREM TypeCorrect == Spec => []TypeOK
<1> USE TtcConstants DEF Adr
<1>1. Init => TypeOK
  BY DEF Init, TypeOK, Reply, Zeros, Op, Interface, LEN, Inside
<1>2. TypeOK /\ [Next]_vars => TypeOK'
  <2> SUFFICES ASSUME TypeOK, [Next]_vars PROVE TypeOK'
    OBVIOUS
  <2> USE DEF TypeOK, Goto, Inside
  <2>1. ASSUME NEW c \in Clients, Call(c) PROVE TypeOK'
    BY <2>1 DEF Call, Op, Interface, LEN, Reply, Zeros
  <2>2. ASSUME NEW c \in Clients, Take(c) PROVE TypeOK'
    BY <2>2 DEF Take
  <2>3. ASSUME NEW c \in Clients, FirstDone(c) PROVE TypeOK'
    <3>1. Asked(c) \in Reply
      BY DEF Asked, Wanted, Reply
    <3>2. reply' \in [Radios -> Reply]
      <4> DEFINE r == call[c].radio
      <4>1. CASE UNCHANGED reply
        BY <4>1
      <4>2. CASE reply' = [reply EXCEPT ![r] = IF call[c].op \in {"send", "write"} THEN @ ELSE Asked(c)]
        BY <4>2, <3>1
      <4> QED BY <2>3, <4>1, <4>2 DEF FirstDone, Request
    <3>3. announced' \in [Radios -> Clients \cup {NoClient}]
      <4> DEFINE r == call[c].radio
      <4>1. PICK x \in Clients \cup {NoClient} : announced' = [announced EXCEPT ![r] = x]
        BY <2>3 DEF FirstDone, Request
      <4> QED BY <4>1
    <3> QED BY <2>3, <3>2, <3>3 DEF FirstDone
  <2>4. ASSUME NEW c \in Clients, FirstFails(c) PROVE TypeOK'
    BY <2>4 DEF FirstFails
  <2>5. ASSUME NEW c \in Clients, SecondRead(c) PROVE TypeOK'
    BY <2>5 DEF SecondRead, Reply
  <2>6. ASSUME NEW c \in Clients, SecondSend(c) PROVE TypeOK'
    BY <2>6 DEF SecondSend
  <2>7. ASSUME NEW c \in Clients, Give(c) PROVE TypeOK'
    <3>1. call' \in [Clients -> [op : Op, radio : Radios, adr : Adr]]
      <4>1. CASE call' = [call EXCEPT ![c].op = "packet"]
        BY <4>1 DEF Op
      <4> QED BY <2>7, <4>1 DEF Give, NextSection, Return
    <3> QED BY <2>7, <3>1 DEF Give, NextSection, Return
  <2>8. ASSUME NEW r \in Radios, RadioRestarts(r) PROVE TypeOK'
    BY <2>8 DEF RadioRestarts, Reply
  <2>9. CASE UNCHANGED vars
    BY <2>9 DEF vars
  <2> QED BY <2>1, <2>2, <2>3, <2>4, <2>5, <2>6, <2>7, <2>8, <2>9 DEF Next, Section
<1> QED BY <1>1, <1>2, PTL DEF Spec

-----------------------------------------------------------------------------
\* What a section has got when it is about to give the mutex back.
IInv == MutualExclusion /\ Undisturbed /\ ReadIsOwn

\* One step of any client or radio keeps the three of them.
LEMMA Inductive == TypeOK /\ TypeOK' /\ IInv /\ [Next]_vars => IInv'
<1> SUFFICES ASSUME TypeOK, TypeOK', IInv, [Next]_vars PROVE IInv'
  OBVIOUS
<1> USE TtcConstants DEF Goto, Inside
\* A step of client c moves only c, and leaves what the others wait for alone
\* because none of them is inside a section.
<1>1. ASSUME NEW c \in Clients, Call(c) PROVE IInv'
  BY <1>1 DEF TypeOK, Call, IInv, MutualExclusion, Undisturbed, ReadIsOwn, Asked, Wanted
<1>2. ASSUME NEW c \in Clients, Take(c) PROVE IInv'
  BY <1>2 DEF TypeOK, Take, IInv, MutualExclusion, Undisturbed, ReadIsOwn, Asked, Wanted
<1>3. ASSUME NEW c \in Clients, FirstDone(c) PROVE IInv'
  <2>1. \A d \in Clients \ {c} : pc[d] \notin Inside /\ pc'[d] = pc[d]
    BY <1>3 DEF TypeOK, FirstDone, IInv, MutualExclusion
  <2>2. MutualExclusion'
    BY <1>3, <2>1 DEF TypeOK, FirstDone, IInv, MutualExclusion
  <2>3. Undisturbed'
    BY <1>3, <2>1 DEF TypeOK, FirstDone, GoesOn, Request, Undisturbed, Asked, Wanted
  <2>4. ReadIsOwn'
    BY <1>3, <2>1 DEF TypeOK, FirstDone, ReadIsOwn
  <2> QED BY <2>2, <2>3, <2>4 DEF IInv
<1>4. ASSUME NEW c \in Clients, FirstFails(c) PROVE IInv'
  BY <1>4 DEF TypeOK, FirstFails, IInv, MutualExclusion, Undisturbed, ReadIsOwn, Asked, Wanted
<1>5. ASSUME NEW c \in Clients, SecondRead(c) PROVE IInv'
  <2>1. \A d \in Clients \ {c} : pc[d] \notin Inside /\ pc'[d] = pc[d]
    BY <1>5 DEF TypeOK, SecondRead, IInv, MutualExclusion
  <2>2. MutualExclusion' /\ Undisturbed'
    BY <1>5, <2>1 DEF TypeOK, SecondRead, IInv, MutualExclusion, Undisturbed
  <2>3. ReadIsOwn'
    <3> SUFFICES ASSUME NEW d \in Clients, pc'[d] = "give", err'[d] = 0,
                        call'[d].op \in {"read", "recv"}
                 PROVE  got'[d].adr = call'[d].adr /\ (missed'[d] \/ got'[d].by = d)
      BY DEF ReadIsOwn
    <3>1. CASE d # c
      BY <1>5, <2>1, <3>1 DEF SecondRead
    <3>2. CASE d = c
      <4> DEFINE f == reply[call[c].radio]
      <4>1. got'[c] = f /\ Accepts(c, f)
        BY <1>5, <3>2 DEF TypeOK, SecondRead
      <4>2. UNCHANGED <<call, missed>>
        BY <1>5 DEF SecondRead
      <4>3. f.adr = call[c].adr
        BY <4>1, <4>2, <3>2 DEF Accepts, Wanted
      <4>4. ~missed[c] => f = Asked(c)
        BY <1>5 DEF SecondRead, IInv, Undisturbed
      <4>5. Asked(c).by = c
        BY DEF Asked
      <4> QED BY <3>2, <4>1, <4>2, <4>3, <4>4, <4>5
    <3> QED BY <3>1, <3>2
  <2> QED BY <2>2, <2>3 DEF IInv
<1>6. ASSUME NEW c \in Clients, SecondSend(c) PROVE IInv'
  <2>1. \A d \in Clients \ {c} : pc[d] \notin Inside /\ pc'[d] = pc[d]
    BY <1>6 DEF TypeOK, SecondSend, IInv, MutualExclusion
  <2> QED
    BY <1>6, <2>1 DEF TypeOK, SecondSend, IInv, MutualExclusion, Undisturbed, ReadIsOwn
<1>7. ASSUME NEW c \in Clients, Give(c) PROVE IInv'
  <2>1. \A d \in Clients \ {c} : pc[d] \notin Inside /\ pc'[d] = pc[d]
    BY <1>7 DEF TypeOK, Give, NextSection, Return, IInv, MutualExclusion
  <2>2. pc'[c] \notin Inside
    BY <1>7 DEF TypeOK, Give, NextSection, Return
  <2> QED BY <2>1, <2>2 DEF TypeOK, IInv, MutualExclusion, Undisturbed, ReadIsOwn
<1>8. ASSUME NEW r \in Radios, RadioRestarts(r) PROVE IInv'
  BY <1>8 DEF TypeOK, RadioRestarts, IInv, MutualExclusion, Undisturbed, ReadIsOwn, Asked, Wanted
<1>9. CASE UNCHANGED vars
  BY <1>9 DEF vars, IInv, MutualExclusion, Undisturbed, ReadIsOwn, Asked, Wanted
<1> QED BY <1>1, <1>2, <1>3, <1>4, <1>5, <1>6, <1>7, <1>8, <1>9 DEF Next, Section

\* The three hold together in every behaviour.
THEOREM Invariance == Spec => []IInv
<1>1. Init => IInv
  BY DEF Init, IInv, MutualExclusion, Undisturbed, ReadIsOwn, Inside
<1> QED BY <1>1, TypeCorrect, Inductive, PTL DEF Spec

\* At most one caller is between taking and giving the mutex.
THEOREM Exclusive == Spec => []MutualExclusion
BY Invariance, PTL DEF IInv

\* Nobody speaks to a radio between the two transfers of another's section.
THEOREM NoDisturbance == Spec => []Undisturbed
BY Invariance, PTL DEF IInv

\* A register read that reports success reports the value of that register,
\* and of its own request unless the radio missed it.
THEOREM OwnAnswer == Spec => []ReadIsOwn
BY Invariance, PTL DEF IInv
=============================================================================
