------------------------------- MODULE EpsRead -------------------------------
(***************************************************************************)
(* The EPS telemetry reader: read_eps_thread (src/src/threads/read_eps.c)  *)
(* through eps_init and eps_get_data (src/src/devices/eps.c) down to the   *)
(* register transaction of sl_eps2_read_reg (src/src/drivers/sl_eps2.c):   *)
(* one I2C message that names a register, a 50 ms delay, one I2C message   *)
(* that fetches the reply.                                                 *)
(*                                                                         *)
(* Nothing reserves the bus between the two messages, and the heater       *)
(* thread writes registers of the same EPS meanwhile.  Both messages may   *)
(* fail, and the EPS may acknowledge the first one and not act on it: it   *)
(* then shifts out its earlier reply.  A reply may be damaged (the CRC     *)
(* then differs) or be all zeros, which the CRC-8 with initial value 0     *)
(* accepts.  The register that a reply names is not compared.              *)
(*                                                                         *)
(* The thread logs when it has given up opening the device, and prints the *)
(* record through the log, which keeps its mutex after a failed fopen      *)
(* (src/src/system/sys_log.c).                                             *)
(***************************************************************************)
EXTENDS Naturals, FiniteSets

CONSTANTS
  NRegs,        \* number of registers sl_eps2_read_data reads (46 in the code)
  HeaterRegs,   \* those of them the heater thread writes
  MaxRetries    \* READ_EPS_MAX_RETRIES

ASSUME EpsReadConstants == /\ NRegs \in Nat \ {0}
                           /\ HeaterRegs \subseteq 1..NRegs
                           /\ MaxRetries \in 1..255

\* Register 0 stands for SL_EPS2_REG_DEVICE_ID, 1..NRegs for the data registers
\* in the order they are read.
ID == 0
DataReg == 1..NRegs
NoReg == NRegs + 1     \* the EPS has no reply to give

\* What a 32-bit field holds, told apart by where it came from: the content of
\* the register of that number, the word of an all-zero frame, bytes of a failed
\* transfer, an identifier that is not SL_EPS2_DEVICE_ID, or indeterminate.
Zero == NRegs + 2
Junk == NRegs + 3
Foreign == NRegs + 4
Undef == NRegs + 5
Value == {ID} \cup DataReg \cup {Zero, Junk, Foreign, Undef}

VARIABLES
  node,      \* the I2C controller path exists
  isEps,     \* the device at the EPS address has the EPS identifier
  sel,       \* the register the device will reply with
  isOpen,    \* eps_is_open
  at,        \* thread: in the "init" loop, logging that it "gave_up", in the "get"
             \* loop, or in the log calls of eps_print_data, "print"
  leaked,    \* a failed fopen has kept log_mutex
  phase,     \* next I2C message of the transaction: "address" or "reply"
  k,         \* register of the transaction
  rerr,      \* the err of sl_eps2_read_reg after its first message
  errs,      \* err_counter of sl_eps2_read_data
  err,       \* err of the thread's loops
  retry,     \* retry_count, a uint8_t
  data,      \* eps_data, on the thread's stack
  fails,     \* history: failed attempts of the current loop
  fresh,     \* history: fields stored by a successful read of the current call
  strayed    \* history: registers whose last transaction another message fell
             \* into, or whose request the EPS did not act on

busVars  == <<node, isEps, sel>>
loopVars == <<at, k, errs, err, retry, fails>>
vars == <<busVars, isOpen, leaked, loopVars, phase, rerr, data, fresh, strayed>>

TypeOK ==
  /\ node \in BOOLEAN
  /\ isEps \in BOOLEAN
  /\ sel \in {ID} \cup DataReg \cup {NoReg}
  /\ isOpen \in BOOLEAN
  /\ leaked \in BOOLEAN
  /\ at \in {"init", "gave_up", "get", "print"}
  /\ phase \in {"address", "reply"}
  /\ k \in {ID} \cup DataReg
  /\ rerr \in BOOLEAN
  /\ errs \in 0..NRegs
  /\ err \in {0, 1}          \* 1 for the code's -1
  /\ retry \in 0..255
  /\ data \in [DataReg -> Value]
  /\ fails \in 0..MaxRetries
  /\ fresh \subseteq DataReg
  /\ strayed \subseteq {ID} \cup DataReg

Init ==
  /\ node \in BOOLEAN
  /\ isEps \in BOOLEAN
  /\ sel = NoReg
  /\ isOpen = FALSE /\ leaked = FALSE
  /\ at = "init" /\ phase = "address" /\ k = ID
  /\ rerr = FALSE /\ errs = 0 /\ err = 0
  /\ retry = MaxRetries /\ fails = 0
  /\ data = [f \in DataReg |-> Undef]
  /\ fresh = {} /\ strayed = {}

-----------------------------------------------------------------------------
(* sl_eps2_read_reg *)

\* The thread is inside a transaction: eps_init checks the device only while it
\* is not open, eps_get_data reads it only when it is.
Reading == \/ at = "init" /\ ~isOpen
           \/ at = "get" /\ isOpen

\* First message: the register address and its CRC.  It fails, or it is
\* acknowledged, which does not say that the EPS acts on it.
Address ==
  /\ Reading /\ phase = "address"
  /\ phase' = "reply"
  /\ \/ node /\ rerr' = FALSE /\ sel' = k /\ strayed' = strayed \ {k}
     \/ node /\ rerr' = FALSE /\ UNCHANGED sel /\ strayed' = strayed \cup {k}
     \/ rerr' = TRUE /\ UNCHANGED sel /\ strayed' = strayed \ {k}
  /\ UNCHANGED <<node, isEps, isOpen, leaked, loopVars, data, fresh>>

\* The identifier register tells the EPS from another device.
ContentOf(r) == IF r = ID /\ ~isEps THEN Foreign ELSE r

\* What the second message and the CRC check leave: read() failed or the CRC is
\* wrong, an all-zero frame, or the frame of the register the device selected.
\* The value is stored whatever the outcome.
Replies ==
  {[ok |-> FALSE, val |-> Junk]}
    \cup (IF node THEN {[ok |-> TRUE, val |-> Zero]} ELSE {})
    \cup (IF node /\ sel # NoReg THEN {[ok |-> TRUE, val |-> ContentOf(sel)]} ELSE {})

\* Mutation: a failure of the first message is forgotten.
ReadOk_ReplyOnly(f) == f.ok

ReadOk(f) == f.ok /\ ~rerr

\* sl_eps2_check_device: buf == SL_EPS2_DEVICE_ID.
IsEpsId(f) == f.val = ID

\* Mutation: only the last of the reads counts.
CountError_LastOnly(f) == IF ReadOk(f) THEN 0 ELSE 1

\* err_counter after the read of one register.
CountError(f) == errs + (IF ReadOk(f) THEN 0 ELSE 1)

-----------------------------------------------------------------------------
(* The retry loops of read_eps_thread *)

\* retry_count-- on a uint8_t.
Decrement(n) == (n + 255) % 256

\* Loop state on entering the second loop: err = 0, retry_count reset.
EnterGet ==
  /\ at' = "get" /\ k' = 1 /\ errs' = 0
  /\ err' = 0 /\ retry' = MaxRetries /\ fails' = 0

\* Mutation: a failed attempt costs nothing.
Failed_NoDecrement(restart, leave) ==
  restart /\ err' = 1 /\ UNCHANGED <<retry, fails>>

\* An attempt of either loop failed: retry after 100 ms, or leave the loop.
Failed(restart, leave) ==
  IF Decrement(retry) > 0
    THEN /\ restart
         /\ err' = 1 /\ retry' = Decrement(retry) /\ fails' = fails + 1
    ELSE leave

RetryInit == at' = "init" /\ k' = ID /\ errs' = 0
RetryGet  == at' = "get" /\ k' = 1 /\ errs' = 0
Leave(to) == /\ at' = to /\ k' = ID /\ errs' = 0
             /\ err' = 1 /\ retry' = 0 /\ fails' = fails + 1

\* eps_init on an open device returns 0 at once.
InitAlreadyOpen ==
  /\ at = "init" /\ isOpen
  /\ EnterGet
  /\ fresh' = {}
  /\ UNCHANGED <<busVars, isOpen, leaked, phase, rerr, data, strayed>>

\* sl_eps2_init: the path check and the ID check both have to pass.
InitReply ==
  /\ at = "init" /\ ~isOpen /\ phase = "reply"
  /\ phase' = "address"
  /\ \E f \in Replies :
       IF ReadOk(f) /\ IsEpsId(f) /\ node
         THEN isOpen' = TRUE /\ EnterGet
         ELSE isOpen' = FALSE /\ Failed(RetryInit, Leave("gave_up"))
  /\ fresh' = {}
  /\ UNCHANGED <<busVars, leaked, rerr, data, strayed>>

\* The log call after the last failed attempt to open the device returns.
LogGaveUp ==
  /\ at = "gave_up" /\ ~leaked
  /\ EnterGet
  /\ UNCHANGED <<busVars, isOpen, leaked, phase, rerr, data, fresh, strayed>>

\* eps_get_data on a device that is not open returns -1 without touching data.
GetNotOpen ==
  /\ at = "get" /\ ~isOpen
  /\ Failed(RetryGet, Leave("print"))
  /\ UNCHANGED <<busVars, isOpen, leaked, phase, rerr, data, fresh, strayed>>

\* One register read of sl_eps2_read_data: the field is assigned, a failure is
\* counted, and after the last register the count decides the attempt.
GetReply ==
  /\ at = "get" /\ isOpen /\ phase = "reply"
  /\ phase' = "address"
  /\ \E f \in Replies :
       LET bad == CountError(f)
           done == k = NRegs
       IN /\ data' = [data EXCEPT ![k] = f.val]
          /\ fresh' = IF done /\ bad > 0 THEN {}
                      ELSE IF ReadOk(f) THEN fresh \cup {k} ELSE fresh
          /\ \/ ~done /\ k' = k + 1 /\ errs' = bad /\ UNCHANGED <<at, err, retry, fails>>
             \/ /\ done /\ bad = 0
                /\ at' = "print" /\ err' = 0 /\ k' = ID /\ errs' = 0
                /\ UNCHANGED <<retry, fails>>
             \/ done /\ bad > 0 /\ Failed(RetryGet, Leave("print"))
  /\ UNCHANGED <<busVars, isOpen, leaked, rerr, strayed>>

\* eps_print_data runs whatever the loops ended with; its log calls return, and
\* the next cycle begins.
PrintRecord ==
  /\ at = "print" /\ ~leaked
  /\ at' = "init" /\ err' = 0 /\ retry' = MaxRetries /\ fails' = 0
  /\ fresh' = {} /\ strayed' = {}
  /\ UNCHANGED <<busVars, isOpen, leaked, k, errs, phase, rerr, data>>

-----------------------------------------------------------------------------
(* The rest of the bus *)

\* The heater thread's 6-byte write, between any two messages of this thread.
\* What the EPS replies with afterwards is its firmware's choice: the register
\* selected before, the one written, or nothing.
HeaterWrites ==
  /\ node
  /\ \E r \in HeaterRegs : sel' \in {sel, r, NoReg}
  /\ strayed' = IF phase = "reply" THEN strayed \cup {k} ELSE strayed
  /\ UNCHANGED <<node, isEps, isOpen, leaked, loopVars, phase, rerr, data, fresh>>

\* The EPS restarts and has no reply to give.
EpsRestarts ==
  /\ sel' = NoReg
  /\ UNCHANGED <<node, isEps, isOpen, leaked, loopVars, phase, rerr, data, fresh, strayed>>

\* A log call of any thread, of this one too, returns because its fopen failed.
LogLeaks ==
  /\ ~leaked /\ leaked' = TRUE
  /\ UNCHANGED <<busVars, isOpen, loopVars, phase, rerr, data, fresh, strayed>>

ReadEpsThread == \/ InitAlreadyOpen \/ Address \/ InitReply \/ LogGaveUp
                 \/ GetNotOpen \/ GetReply \/ PrintRecord

Next == ReadEpsThread \/ HeaterWrites \/ EpsRestarts \/ LogLeaks

\* The thread runs: it waits for delays, for I2C calls, which return, and for the
\* log, whose calls return until an fopen fails (PassesEnd of ObdhSystem); after
\* that nothing is asked of a thread that logs.  The rest of the bus need not move.
Spec == Init /\ [][Next]_vars
FairSpec == Spec /\ WF_vars(ReadEpsThread)

-----------------------------------------------------------------------------
(* Properties *)

\* When eps_get_data has returned 0, the record that is printed is whole: every
\* field was stored by a successful read of that one call, none is left over
\* from an earlier call, indeterminate, or made of a failed transfer.
SuccessIsWhole ==
  (at = "print" /\ err = 0) =>
    \A f \in DataReg : f \in fresh /\ data[f] \notin {Undef, Junk}

\* A field of a whole record may be another register's in two cases only: another
\* message fell between the two of its transaction, or the EPS acknowledged its
\* request without acting on it.  Any other field that was read successfully holds
\* a content of its own register (or the zero of an all-zero frame, which the CRC
\* cannot tell from a real one): an address message that failed never lets an
\* earlier register's reply through, not even one of an earlier cycle.
OwnRegister ==
  \A f \in fresh \ strayed : data[f] \in {f, Zero}

\* The device is marked open only when the module that answers on the bus is the
\* EPS: no absent controller, zero frame, foreign identifier or other register
\* that it replies with passes for its identifier.
OpensOnlyTheEps == isOpen => node /\ isEps

\* Each loop of a cycle makes at most READ_EPS_MAX_RETRIES failing attempts, and
\* telemetry is given up only after exactly that many; the second loop has its
\* full budget however many attempts the first one used.
RetryBudget ==
  /\ fails + retry = MaxRetries
  /\ at = "gave_up" \/ (at = "print" /\ err # 0) => fails = MaxRetries

\* Whatever the bus does, the thread comes back to reporting, and to a new cycle,
\* for ever, unless an fopen of the log fails.
KeepsReporting == []~leaked => []<>(at = "print") /\ []<>(at = "init")

-----------------------------------------------------------------------------
(* The inductive invariant *)

\* Where the loops are: a loop that is entered has attempts left, and the errors
\* counted in an attempt are among the registers it has read.
LoopsOK ==
  /\ at \in {"init", "get"} => retry > 0
  /\ at # "get" => k = ID /\ errs = 0
  /\ at = "get" => k \in DataReg /\ errs < k /\ (~isOpen => k = 1)

\* Between the two messages of a transaction that nothing fell into and that the
\* EPS acts on, it has the register that was named, or no reply at all.
InFlight ==
  /\ phase = "reply" => Reading
  /\ phase = "reply" /\ ~rerr /\ k \notin strayed => sel \in {k, NoReg}

\* The fields read so far, all of them as long as no error was counted.
FieldsSoFar ==
  /\ \A f \in fresh : data[f] \notin {Undef, Junk}
  /\ at = "get" => fresh \subseteq 1..(k - 1) /\ (errs = 0 => 1..(k - 1) \subseteq fresh)
  /\ at = "print" /\ err = 0 => fresh = DataReg
  /\ at = "gave_up" => fresh = {}

IInv == /\ TypeOK /\ LoopsOK /\ InFlight /\ FieldsSoFar
        /\ OwnRegister /\ OpensOnlyTheEps /\ RetryBudget
=============================================================================
