---------------------------- MODULE EpsRead_proofs ----------------------------
(* Theorems about EpsRead, for any number of registers and any retry budget   *)
(* that a uint8_t holds.                                                      *)
EXTENDS EpsRead, TLAPS

(* The kinds of contents are all different.                                   *)
LEMMA Contents ==
  /\ ID \notin DataReg
  /\ \A r \in {ID} \cup DataReg :
        r # NoReg /\ r # Zero /\ r # Junk /\ r # Foreign /\ r # Undef
  /\ Zero # Junk /\ Zero # Foreign /\ Zero # Undef /\ Junk # Foreign /\ Junk # Undef
  /\ Foreign # Undef
BY EpsReadConstants DEF ID, DataReg, NoReg, Zero, Junk, Foreign, Undef

(* retry_count does not wrap as long as an attempt is left.                   *)
LEMMA Decremented == \A n \in 1..255 : Decrement(n) = n - 1
BY DEF Decrement

(* What an attempt that failed does to the loop, while one was left.          *)
LEMMA AttemptFailed ==
  ASSUME TypeOK, RetryBudget, retry > 0
  PROVE  /\ Decrement(retry) = retry - 1
         /\ retry - 1 \in 0..255 /\ fails + 1 \in 0..MaxRetries
         /\ (fails + 1) + (retry - 1) = MaxRetries
BY Decremented, EpsReadConstants DEF TypeOK, RetryBudget

(* What a reply can hold.                                                     *)
LEMMA ReplyKinds ==
  ASSUME TypeOK, NEW f \in Replies
  PROVE  /\ f.val \in Value \ {Undef}
         /\ f.ok => node /\ (f.val = Zero \/ (sel # NoReg /\ f.val = ContentOf(sel)))
         /\ f.ok => f.val # Junk
         /\ f.val = ID => f.ok /\ node /\ isEps
<1>1. sel # NoReg => ContentOf(sel) \in {Foreign, sel} /\ sel \in {ID} \cup DataReg
  BY DEF ContentOf, TypeOK
<1>2. CASE f = [ok |-> FALSE, val |-> Junk]
  BY <1>2, Contents DEF Value
<1>3. CASE node /\ f = [ok |-> TRUE, val |-> Zero]
  BY <1>3, Contents DEF Value
<1>4. CASE node /\ sel # NoReg /\ f = [ok |-> TRUE, val |-> ContentOf(sel)]
  <2>1. f.val = ID => isEps
    BY <1>1, <1>4, Contents DEF ContentOf, TypeOK
  <2>2. f.val \in {ID, Foreign} \cup DataReg
    BY <1>1, <1>4
  <2>3. Junk \notin {ID, Foreign} \cup DataReg /\ Undef \notin {ID, Foreign} \cup DataReg
    BY Contents
  <2>4. QED
    BY <1>4, <2>1, <2>2, <2>3 DEF Value
<1>5. QED
  BY <1>2, <1>3, <1>4 DEF Replies

LEMMA InitInv == Init => IInv
<1> SUFFICES ASSUME Init PROVE IInv
  OBVIOUS
<1> USE EpsReadConstants
<1>1. TypeOK
  <2>1. data \in [DataReg -> Value]
    BY DEF Init, Value
  <2>2. retry \in 0..255 /\ fails \in 0..MaxRetries /\ errs \in 0..NRegs
    BY DEF Init
  <2>3. QED
    BY <2>1, <2>2 DEF Init, TypeOK
<1>2. LoopsOK /\ InFlight /\ FieldsSoFar
  <2>1. at = "init" /\ phase = "address" /\ k = ID /\ errs = 0 /\ retry = MaxRetries /\ fresh = {}
    BY DEF Init
  <2>2. QED
    BY <2>1 DEF LoopsOK, InFlight, FieldsSoFar
<1>3. OwnRegister /\ OpensOnlyTheEps /\ RetryBudget
  BY DEF Init, OwnRegister, OpensOnlyTheEps, RetryBudget
<1>4. QED
  BY <1>1, <1>2, <1>3 DEF IInv

(* The first message of a transaction.                                        *)
LEMMA AddressInv == IInv /\ Address => IInv'
<1> SUFFICES ASSUME IInv, Address PROVE IInv'
  OBVIOUS
<1> USE DEF IInv, Address, loopVars
<1>1. TypeOK'
  BY DEF TypeOK
<1>2. LoopsOK' /\ FieldsSoFar' /\ OpensOnlyTheEps' /\ RetryBudget'
  BY DEF LoopsOK, FieldsSoFar, OpensOnlyTheEps, RetryBudget
<1>3. InFlight'
  BY DEF InFlight, Reading
<1>4. OwnRegister'
  <2>1. k \notin fresh
    <3>1. CASE at = "init"
      BY <3>1, Contents DEF LoopsOK, TypeOK
    <3>2. CASE at = "get"
      <4>1. fresh \subseteq 1..(k - 1) /\ k \in 1..NRegs
        BY <3>2 DEF LoopsOK, FieldsSoFar, DataReg
      <4>2. QED
        BY <4>1, EpsReadConstants
    <3>3. QED
      BY <3>1, <3>2 DEF Reading
  <2>2. QED
    BY <2>1 DEF OwnRegister
<1>5. QED
  BY <1>1, <1>2, <1>3, <1>4

(* The reply to eps_init.                                                     *)
LEMMA InitReplyInv == IInv /\ InitReply => IInv'
<1> SUFFICES ASSUME IInv, InitReply PROVE IInv'
  OBVIOUS
<1>1. PICK f \in Replies :
        IF ReadOk(f) /\ IsEpsId(f) /\ node
          THEN isOpen' = TRUE /\ EnterGet
          ELSE isOpen' = FALSE /\ Failed(RetryInit, Leave("gave_up"))
  BY DEF InitReply
<1>2. /\ at = "init" /\ ~isOpen /\ phase' = "address" /\ fresh' = {}
      /\ UNCHANGED <<node, isEps, sel, leaked, rerr, data, strayed>>
  BY DEF InitReply, busVars
<1>3. retry > 0 /\ k = ID /\ errs = 0
  BY <1>2 DEF IInv, LoopsOK
<1>4. \/ isOpen' = FALSE /\ RetryInit /\ err' = 1 /\ retry' = retry - 1 /\ retry - 1 > 0
         /\ fails' = fails + 1
      \/ isOpen' = FALSE /\ Leave("gave_up") /\ retry - 1 = 0
      \/ EnterGet /\ isOpen' \in BOOLEAN /\ (isOpen' => node /\ isEps)
  <2>1. CASE ReadOk(f) /\ IsEpsId(f) /\ node
    BY <1>1, <2>1, ReplyKinds DEF IInv, ReadOk, IsEpsId
  <2>2. CASE ~(ReadOk(f) /\ IsEpsId(f) /\ node)
    <3>1. isOpen' = FALSE /\ Failed(RetryInit, Leave("gave_up"))
      BY <1>1, <2>2
    <3>2. Decrement(retry) = retry - 1 /\ retry \in Nat
      BY <1>3, AttemptFailed DEF IInv, TypeOK
    <3>3. QED
      BY <1>3, <3>1, <3>2 DEF Failed
  <2>3. QED
    BY <2>1, <2>2
<1>5. TypeOK' /\ RetryBudget' /\ LoopsOK'
  <2>0. /\ retry - 1 \in 0..255 /\ fails + 1 \in 0..MaxRetries
        /\ (fails + 1) + (retry - 1) = MaxRetries
    BY <1>3, AttemptFailed DEF IInv
  <2>1. CASE isOpen' = FALSE /\ RetryInit /\ err' = 1 /\ retry' = retry - 1 /\ retry - 1 > 0
             /\ fails' = fails + 1
    <3>1. TypeOK'
      BY <1>2, <1>3, <2>0, <2>1 DEF IInv, TypeOK, RetryInit
    <3>2. RetryBudget' /\ LoopsOK'
      BY <1>3, <2>0, <2>1 DEF RetryBudget, LoopsOK, RetryInit
    <3>3. QED
      BY <3>1, <3>2
  <2>2. CASE EnterGet /\ isOpen' \in BOOLEAN
    BY <1>2, <2>2, EpsReadConstants DEF IInv, TypeOK, RetryBudget, LoopsOK, EnterGet, DataReg
  <2>3. CASE isOpen' = FALSE /\ Leave("gave_up") /\ retry - 1 = 0
    <3>1. retry' = 0 /\ fails' = fails + 1 /\ fails' = MaxRetries
      <4>1. retry - 1 = 0 /\ fails' = fails + 1 /\ retry' = 0
        BY <2>3 DEF Leave
      <4>2. fails \in Nat
        BY DEF IInv, TypeOK
      <4>3. QED
        BY <2>0, <4>1, <4>2, EpsReadConstants
    <3>2. TypeOK'
      <4>1. at' = "gave_up" /\ k' = ID /\ errs' = 0 /\ err' = 1 /\ isOpen' = FALSE
        BY <2>3 DEF Leave
      <4>2. retry' \in 0..255 /\ fails' \in 0..MaxRetries /\ errs' \in 0..NRegs
        BY <2>0, <3>1, <4>1, EpsReadConstants
      <4>3. QED
        BY <1>2, <4>1, <4>2 DEF IInv, TypeOK
    <3>3. RetryBudget' /\ LoopsOK'
      BY <1>3, <2>3, <3>1, EpsReadConstants DEF RetryBudget, LoopsOK, Leave
    <3>4. QED
      BY <3>2, <3>3
  <2>4. QED
    BY <1>4, <2>1, <2>2, <2>3
<1>6. InFlight' /\ FieldsSoFar' /\ OwnRegister'
  BY <1>2, <1>4, EpsReadConstants
  DEF InFlight, FieldsSoFar, OwnRegister, RetryInit, Leave, EnterGet, DataReg
<1>7. OpensOnlyTheEps'
  BY <1>2, <1>4 DEF IInv, OpensOnlyTheEps
<1>8. QED
  BY <1>5, <1>6, <1>7 DEF IInv

(* The reply to one register of eps_get_data: the next register, the end of    *)
(* the record, or a failed attempt.                                           *)
LEMMA GetReplyInv == IInv /\ GetReply => IInv'
<1> SUFFICES ASSUME IInv, GetReply PROVE IInv'
  OBVIOUS
<1>1. PICK f \in Replies :
        LET bad == CountError(f)
            done == k = NRegs
        IN /\ data' = [data EXCEPT ![k] = f.val]
           /\ fresh' = IF done /\ bad > 0 THEN {}
                       ELSE IF ReadOk(f) THEN fresh \cup {k} ELSE fresh
           /\ \/ ~done /\ k' = k + 1 /\ errs' = bad /\ UNCHANGED <<at, err, retry, fails>>
              \/ /\ done /\ bad = 0
                 /\ at' = "print" /\ err' = 0 /\ k' = ID /\ errs' = 0
                 /\ UNCHANGED <<retry, fails>>
              \/ done /\ bad > 0 /\ Failed(RetryGet, Leave("print"))
  BY DEF GetReply
<1>2. /\ at = "get" /\ isOpen /\ phase = "reply" /\ phase' = "address"
      /\ UNCHANGED <<node, isEps, sel, isOpen, leaked, rerr, strayed>>
  BY DEF GetReply, busVars
<1>3. retry > 0 /\ k \in DataReg /\ errs < k /\ k \in 1..NRegs
  BY <1>2 DEF IInv, LoopsOK, DataReg
<1> DEFINE bad == CountError(f)
<1>4. bad \in 0..k /\ (bad = 0 <=> errs = 0 /\ ReadOk(f))
  BY <1>3, EpsReadConstants DEF IInv, TypeOK, CountError
<1>5. /\ fresh \subseteq 1..(k - 1) /\ (errs = 0 => 1..(k - 1) \subseteq fresh)
      /\ \A g \in fresh : data[g] \notin {Undef, Junk}
  BY <1>2 DEF IInv, FieldsSoFar
<1>6. data' = [data EXCEPT ![k] = f.val] /\ data'[k] = f.val
      /\ \A g \in fresh : data'[g] = data[g]
  BY <1>1, <1>3, <1>5 DEF IInv, TypeOK
<1>7. ReadOk(f) => f.val \notin {Undef, Junk}
  BY ReplyKinds DEF IInv, ReadOk
<1>8. ReadOk(f) /\ k \notin strayed => f.val \in {k, Zero}
  <2>1. ReadOk(f) /\ k \notin strayed => sel \in {k, NoReg} /\ f.ok
    BY <1>2 DEF IInv, InFlight, ReadOk
  <2>2. ContentOf(k) = k
    BY <1>3, Contents DEF ContentOf
  <2>3. QED
    BY <2>1, <2>2, ReplyKinds DEF IInv
<1>9. \A g \in fresh' : data'[g] \notin {Undef, Junk}
  BY <1>1, <1>5, <1>6, <1>7
<1>10. OwnRegister'
  <2> SUFFICES ASSUME NEW g \in fresh', g \notin strayed' PROVE data'[g] \in {g, Zero}
    BY DEF OwnRegister
  <2>1. CASE g \in fresh
    BY <1>2, <1>6, <2>1 DEF IInv, OwnRegister
  <2>2. CASE g = k /\ ReadOk(f)
    BY <1>2, <1>6, <1>8, <2>2
  <2>3. QED
    BY <1>1, <2>1, <2>2
<1>11. data' \in [DataReg -> Value] /\ fresh' \subseteq DataReg
  BY <1>1, <1>3, ReplyKinds DEF IInv, TypeOK
<1>12. \/ k # NRegs /\ k' = k + 1 /\ errs' = bad /\ UNCHANGED <<at, err, retry, fails>>
          /\ fresh' = (IF ReadOk(f) THEN fresh \cup {k} ELSE fresh)
       \/ /\ k = NRegs /\ bad = 0 /\ fresh' = fresh \cup {k}
          /\ at' = "print" /\ err' = 0 /\ k' = ID /\ errs' = 0
          /\ UNCHANGED <<retry, fails>>
       \/ fresh' = {} /\ RetryGet /\ err' = 1 /\ retry' = retry - 1 /\ retry - 1 > 0
          /\ fails' = fails + 1
       \/ fresh' = {} /\ Leave("print") /\ retry - 1 = 0
  BY <1>1, <1>3, <1>4, AttemptFailed DEF IInv, Failed, TypeOK
<1>13. TypeOK' /\ RetryBudget' /\ LoopsOK'
  <2>1. CASE k # NRegs /\ k' = k + 1 /\ errs' = bad /\ UNCHANGED <<at, err, retry, fails>>
    BY <1>2, <1>3, <1>4, <1>11, <2>1, EpsReadConstants
    DEF IInv, TypeOK, RetryBudget, LoopsOK, DataReg
  <2>2. CASE at' = "print" /\ err' = 0 /\ k' = ID /\ errs' = 0 /\ UNCHANGED <<retry, fails>>
    BY <1>2, <1>3, <1>11, <2>2, EpsReadConstants DEF IInv, TypeOK, RetryBudget, LoopsOK
  <2>3. CASE RetryGet /\ err' = 1 /\ retry' = retry - 1 /\ retry - 1 > 0 /\ fails' = fails + 1
    BY <1>2, <1>3, <1>11, <2>3, AttemptFailed, EpsReadConstants
    DEF IInv, TypeOK, RetryBudget, LoopsOK, RetryGet, DataReg
  <2>4. CASE Leave("print") /\ retry - 1 = 0
    BY <1>2, <1>3, <1>11, <2>4, AttemptFailed, EpsReadConstants
    DEF IInv, TypeOK, RetryBudget, LoopsOK, Leave
  <2>5. QED
    BY <1>12, <2>1, <2>2, <2>3, <2>4
<1>14. FieldsSoFar'
  <2>1. CASE k # NRegs /\ k' = k + 1 /\ errs' = bad /\ UNCHANGED <<at, err, retry, fails>>
             /\ fresh' = (IF ReadOk(f) THEN fresh \cup {k} ELSE fresh)
    <3>1. fresh' \subseteq 1..(k' - 1)
      BY <1>3, <1>5, <2>1, EpsReadConstants
    <3>2. errs' = 0 => 1..(k' - 1) \subseteq fresh'
      BY <1>3, <1>4, <1>5, <2>1, EpsReadConstants
    <3>3. QED
      BY <1>2, <1>9, <2>1, <3>1, <3>2 DEF FieldsSoFar
  <2>2. CASE k = NRegs /\ bad = 0 /\ fresh' = fresh \cup {k} /\ at' = "print"
    <3>1. fresh' = DataReg
      <4>1. 1..(NRegs - 1) \subseteq fresh /\ fresh' = fresh \cup {NRegs}
        BY <1>4, <1>5, <2>2
      <4>2. \A g \in 1..NRegs : g = NRegs \/ g \in 1..(NRegs - 1)
        BY EpsReadConstants
      <4>3. QED
        BY <1>11, <4>1, <4>2 DEF DataReg
    <3>2. QED
      BY <1>9, <2>2, <3>1 DEF FieldsSoFar
  <2>3. CASE fresh' = {} /\ RetryGet
    BY <2>3, EpsReadConstants DEF FieldsSoFar, RetryGet
  <2>4. CASE fresh' = {} /\ Leave("print")
    BY <2>4 DEF FieldsSoFar, Leave
  <2>5. QED
    BY <1>12, <2>1, <2>2, <2>3, <2>4
<1>15. InFlight' /\ OpensOnlyTheEps'
  BY <1>2 DEF IInv, InFlight, OpensOnlyTheEps
<1>16. QED
  BY <1>10, <1>13, <1>14, <1>15 DEF IInv

LEMMA StepInv == IInv /\ [Next]_vars => IInv'
<1> SUFFICES ASSUME IInv, [Next]_vars PROVE IInv'
  OBVIOUS
<1>1. CASE InitAlreadyOpen
  <2>1. phase = "address"
    BY <1>1 DEF InitAlreadyOpen, IInv, TypeOK, InFlight, Reading
  <2>2. TypeOK' /\ RetryBudget' /\ LoopsOK'
    BY <1>1, EpsReadConstants
    DEF InitAlreadyOpen, EnterGet, busVars, IInv, TypeOK, RetryBudget, LoopsOK, DataReg
  <2>3. InFlight' /\ FieldsSoFar' /\ OwnRegister' /\ OpensOnlyTheEps'
    BY <1>1, <2>1, EpsReadConstants
    DEF InitAlreadyOpen, EnterGet, busVars, IInv, InFlight, FieldsSoFar, OwnRegister, OpensOnlyTheEps
  <2>4. QED
    BY <2>2, <2>3 DEF IInv
<1>2. CASE GetNotOpen
  <2>1. phase = "address" /\ k = 1 /\ fresh = {} /\ retry > 0
    BY <1>2 DEF GetNotOpen, IInv, TypeOK, InFlight, Reading, LoopsOK, FieldsSoFar
  <2>2. \/ RetryGet /\ err' = 1 /\ retry' = retry - 1 /\ retry - 1 > 0 /\ fails' = fails + 1
        \/ Leave("print") /\ retry - 1 = 0
    BY <1>2, <2>1, AttemptFailed DEF GetNotOpen, Failed, IInv, TypeOK
  <2>3. UNCHANGED <<node, isEps, sel, isOpen, leaked, phase, rerr, data, fresh, strayed>>
    BY <1>2 DEF GetNotOpen, busVars
  <2>4. TypeOK' /\ RetryBudget' /\ LoopsOK'
    <3>1. CASE RetryGet /\ err' = 1 /\ retry' = retry - 1 /\ retry - 1 > 0 /\ fails' = fails + 1
      BY <2>1, <2>3, <3>1, AttemptFailed, EpsReadConstants
      DEF RetryGet, IInv, TypeOK, RetryBudget, LoopsOK, DataReg
    <3>2. CASE Leave("print") /\ retry - 1 = 0
      BY <2>1, <2>3, <3>2, AttemptFailed, EpsReadConstants
      DEF Leave, IInv, TypeOK, RetryBudget, LoopsOK
    <3>3. QED
      BY <2>2, <3>1, <3>2
  <2>5. InFlight' /\ FieldsSoFar' /\ OwnRegister' /\ OpensOnlyTheEps'
    BY <2>1, <2>2, <2>3, EpsReadConstants
    DEF RetryGet, Leave, IInv, InFlight, FieldsSoFar, OwnRegister, OpensOnlyTheEps
  <2>6. QED
    BY <2>4, <2>5 DEF IInv
<1>3. CASE PrintRecord
  <2>1. phase = "address"
    BY <1>3 DEF PrintRecord, IInv, TypeOK, InFlight, Reading
  <2>2. TypeOK' /\ RetryBudget' /\ LoopsOK'
    BY <1>3, EpsReadConstants DEF PrintRecord, busVars, IInv, TypeOK, RetryBudget, LoopsOK
  <2>3. InFlight' /\ FieldsSoFar' /\ OwnRegister' /\ OpensOnlyTheEps'
    BY <1>3, <2>1
    DEF PrintRecord, busVars, IInv, InFlight, FieldsSoFar, OwnRegister, OpensOnlyTheEps
  <2>4. QED
    BY <2>2, <2>3 DEF IInv
<1>4. CASE HeaterWrites
  <2>1. sel' \in {sel, NoReg} \cup HeaterRegs
    BY <1>4 DEF HeaterWrites
  <2>2. TypeOK' /\ RetryBudget' /\ LoopsOK'
    BY <1>4, <2>1, EpsReadConstants
    DEF HeaterWrites, loopVars, IInv, TypeOK, RetryBudget, LoopsOK, DataReg
  <2>3. InFlight' /\ FieldsSoFar' /\ OwnRegister' /\ OpensOnlyTheEps'
    BY <1>4 DEF HeaterWrites, loopVars, IInv, InFlight, Reading, FieldsSoFar, OwnRegister, OpensOnlyTheEps
  <2>4. QED
    BY <2>2, <2>3 DEF IInv
<1>5. CASE EpsRestarts \/ LogLeaks \/ UNCHANGED vars
  <2>1. /\ UNCHANGED <<node, isEps, isOpen, at, k, errs, err, retry, fails, phase, rerr, data,
                       fresh, strayed>>
        /\ sel' \in {sel, NoReg} /\ leaked' \in BOOLEAN
    BY <1>5 DEF EpsRestarts, LogLeaks, vars, busVars, loopVars, IInv, TypeOK
  <2>2. TypeOK' /\ RetryBudget' /\ LoopsOK'
    <3>1. TypeOK'
      BY <2>1 DEF IInv, TypeOK
    <3>2. RetryBudget' /\ LoopsOK'
      BY <2>1 DEF IInv, RetryBudget, LoopsOK
    <3>3. QED
      BY <3>1, <3>2
  <2>3. InFlight' /\ FieldsSoFar' /\ OwnRegister' /\ OpensOnlyTheEps'
    BY <2>1 DEF IInv, InFlight, Reading, FieldsSoFar, OwnRegister, OpensOnlyTheEps
  <2>4. QED
    BY <2>2, <2>3 DEF IInv
<1>6. CASE LogGaveUp
  <2>1. phase = "address" /\ fresh = {}
    BY <1>6 DEF LogGaveUp, IInv, TypeOK, InFlight, Reading, FieldsSoFar
  <2>2. TypeOK' /\ RetryBudget' /\ LoopsOK'
    BY <1>6, EpsReadConstants
    DEF LogGaveUp, EnterGet, busVars, IInv, TypeOK, RetryBudget, LoopsOK, DataReg
  <2>3. InFlight' /\ FieldsSoFar' /\ OwnRegister' /\ OpensOnlyTheEps'
    BY <1>6, <2>1, EpsReadConstants
    DEF LogGaveUp, EnterGet, busVars, IInv, InFlight, FieldsSoFar, OwnRegister, OpensOnlyTheEps
  <2>4. QED
    BY <2>2, <2>3 DEF IInv
<1>7. QED
  BY <1>1, <1>2, <1>3, <1>4, <1>5, <1>6, AddressInv, InitReplyInv, GetReplyInv DEF Next, ReadEpsThread

THEOREM Invariance == Spec => []IInv
<1>1. QED
  BY InitInv, StepInv, PTL DEF Spec

(* Every variable keeps its type: retry_count does not wrap. *)
THEOREM TypeCorrect == Spec => []TypeOK
<1>1. IInv => TypeOK
  BY DEF IInv
<1>2. QED
  BY <1>1, Invariance, PTL

(* A record printed after a successful call is whole. *)
THEOREM WholeRecord == Spec => []SuccessIsWhole
<1>1. IInv => SuccessIsWhole
  BY DEF IInv, FieldsSoFar, SuccessIsWhole
<1>2. QED
  BY <1>1, Invariance, PTL

(* A field of a whole record is of its own register, unless another message   *)
(* fell into its transaction or the EPS did not act on its request.           *)
THEOREM OwnContent == Spec => []OwnRegister
<1>1. IInv => OwnRegister
  BY DEF IInv
<1>2. QED
  BY <1>1, Invariance, PTL

(* The device is open only when the module on the bus is the EPS. *)
THEOREM OpenIsEps == Spec => []OpensOnlyTheEps
<1>1. IInv => OpensOnlyTheEps
  BY DEF IInv
<1>2. QED
  BY <1>1, Invariance, PTL

(* Each loop makes at most READ_EPS_MAX_RETRIES failing attempts, and gives up *)
(* after exactly that many.                                                   *)
THEOREM BudgetKept == Spec => []RetryBudget
<1>1. IInv => RetryBudget
  BY DEF IInv
<1>2. QED
  BY <1>1, Invariance, PTL
=============================================================================
