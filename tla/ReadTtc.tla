------------------------------- MODULE ReadTtc -------------------------------
(***************************************************************************)
(* The thread that serves the two TTC radios (src/src/threads/read_ttc.c   *)
(* with src/src/devices/ttc.c): once a period it opens the radios that are *)
(* not open yet, reads and prints the housekeeping data of each, and       *)
(* resets a radio that counts too many failed packets in a row.            *)
(*                                                                         *)
(* Every register access is a step of its own, which may fail, and the     *)
(* radios count packets between any two of them.  The device on a chip     *)
(* select may be another one than the code expects.                        *)
(*                                                                         *)
(* The thread logs what it does, what fails and what it has read, and      *)
(* waits for ever for a log that has kept its mutex after a failed fopen   *)
(* (src/src/system/sys_log.c).                                             *)
(***************************************************************************)
EXTENDS Integers, FiniteSets

CONSTANTS
  NRadios,                 \* TTC_0, TTC_1, ...
  HkRegs,                  \* the registers of the housekeeping data
  Direct,                  \* those read straight into their field of the data
  TTC_MAX_FAILED_PACKETS,
  Success,                 \* what ioctl returns for a completed transfer (TtcDriver)
  MaxCount,                \* bound on the radio's counter of failed packets
  MaxFaults                \* bound on the accesses that fail

ASSUME ReadTtcConstants ==
  /\ NRadios \in Nat \ {0} /\ MaxFaults \in Nat
  /\ IsFiniteSet(HkRegs) /\ Direct \subseteq HkRegs
  /\ TTC_MAX_FAILED_PACKETS \in Nat \ {0}
  /\ MaxCount \in Nat /\ MaxCount >= TTC_MAX_FAILED_PACKETS
  /\ Success \in Nat

Radios == 0 .. NRadios - 1

VARIABLES
  at,         \* the access the thread is at
  logging,    \* the log calls that come before it are not over
  leaked,     \* a failed fopen has kept log_mutex
  radio,      \* the radio it is for
  isOpen,     \* ttc_0_is_open, ttc_1_is_open
  left,       \* the registers ttc_get_data has still to read
  err_counter,\* err_counter of sl_ttc2_read_hk_data is not 0
  data,       \* ttc0_data, ttc1_data: the value of each field
  seen,       \* n_conseq_failed_packets as read
  expected,   \* per radio: the device on the chip select has the expected ID
  count,      \* per radio: its counter of consecutive failed packets
  answered,   \* history: what the radio has answered in this ttc_init
  high,       \* history: the count has reached the limit in this period
  faults      \* history: accesses that have failed

thread  == <<at, logging, radio, isOpen, left, err_counter, data, seen>>
device  == <<expected, count>>
history == <<answered, high, faults>>
vars == <<thread, leaked, device, history>>

At == {"init", "init_hw", "init_fw", "get", "get_hk", "print", "check", "reset", "sleep"}

\* A field of the data: never written, all ones after a failed read, or a value
\* read in an earlier period or in this one.
Field == {"unset", "ones", "old", "new"}

TypeOK ==
  /\ at \in At /\ radio \in Radios
  /\ logging \in BOOLEAN /\ leaked \in BOOLEAN
  /\ isOpen \in [Radios -> BOOLEAN]
  /\ left \subseteq HkRegs /\ err_counter \in BOOLEAN
  /\ data \in [Radios -> [HkRegs -> Field]]
  /\ seen \in 0 .. MaxCount
  /\ expected \in [Radios -> BOOLEAN]
  /\ count \in [Radios -> 0 .. MaxCount]
  /\ answered \in [Radios -> SUBSET {"id", "hw", "fw"}]
  /\ high \in [Radios -> BOOLEAN]
  /\ faults \in 0 .. MaxFaults

Init ==
  /\ at = "init" /\ radio = 0 /\ logging = FALSE /\ leaked = FALSE
  /\ isOpen = [r \in Radios |-> FALSE]
  /\ left = HkRegs /\ err_counter = FALSE
  /\ data = [r \in Radios |-> [f \in HkRegs |-> "unset"]]
  /\ seen = 0
  /\ expected \in [Radios -> BOOLEAN]
  /\ count = [r \in Radios |-> 0]
  /\ answered = [r \in Radios |-> {}]
  /\ high = [r \in Radios |-> FALSE]
  /\ faults = 0

-----------------------------------------------------------------------------
\* An access is taken for done, or for failed: it has failed, or ioctl returns
\* something else than 0 although it is done.
Answers == Success = 0 /\ UNCHANGED faults
Fails == \/ faults < MaxFaults /\ faults' = faults + 1
         \/ Success # 0 /\ UNCHANGED faults

\* The step is followed by log calls, or by none.
Logs(b) == logging' = b

\* The log calls return.
LogReturns ==
  /\ logging /\ ~leaked
  /\ logging' = FALSE
  /\ UNCHANGED <<at, radio, isOpen, left, err_counter, data, seen, device, history, leaked>>

\* A log call of any thread, of this one too, returns because its fopen failed.
LogLeaks ==
  /\ ~leaked /\ leaked' = TRUE
  /\ UNCHANGED <<thread, device, history>>

\* Mutation: a radio that was not open ends the period.
NextCall_GiveUpOnClosed(call) ==
  IF call = "init" /\ ~isOpen[radio] THEN at' = "sleep" /\ radio' = 0
  ELSE IF radio + 1 < NRadios THEN at' = call /\ radio' = radio + 1
  ELSE /\ at' = CASE call = "init" -> "get" [] call = "get" -> "check" [] call = "check" -> "sleep"
       /\ radio' = 0

\* The same call for the next radio, or the next call for the first one.
NextCall(call) ==
  IF radio + 1 < NRadios THEN at' = call /\ radio' = radio + 1
  ELSE /\ at' = CASE call = "init" -> "get" [] call = "get" -> "check" [] call = "check" -> "sleep"
       /\ radio' = 0

Stay(a) == at' = a /\ UNCHANGED radio

\* The thread is at access a, and has logged what comes before it.
Ready(a) == at = a /\ ~logging

\* sl_ttc2_check_device: 0 when the ID is the expected one, and 0 as well when it
\* could not be read, because err is only set after a successful read.
CheckDevice(ok, told) == \/ Answers /\ told = TRUE /\ ok = expected[radio]
                         \/ Fails /\ told = FALSE /\ ok = TRUE

\* ttc_init up to sl_ttc2_init, which checks the device.  An open radio is left
\* alone; the others are announced in the log before the check.
InitDevice ==
  /\ Ready("init")
  /\ IF isOpen[radio]
       THEN NextCall("init") /\ Logs(FALSE) /\ UNCHANGED <<answered, faults>>
       ELSE /\ ~leaked
            /\ \E ok, told \in BOOLEAN :
                 /\ CheckDevice(ok, told)
                 /\ answered' = [answered EXCEPT ![radio] = IF told THEN {"id"} ELSE {}]
                 /\ IF ok THEN Stay("init_hw") ELSE NextCall("init")
                 /\ Logs(~ok)
  /\ UNCHANGED <<isOpen, left, err_counter, data, seen, device, high, leaked>>

\* The rest of ttc_init: the versions; the second one answered opens the radio.
InitHardwareVersion ==
  /\ Ready("init_hw")
  /\ \/ /\ Answers
        /\ answered' = [answered EXCEPT ![radio] = @ \cup {"hw"}]
        /\ Stay("init_fw") /\ Logs(FALSE)
     \/ Fails /\ UNCHANGED answered /\ NextCall("init") /\ Logs(TRUE)
  /\ UNCHANGED <<isOpen, left, err_counter, data, seen, device, high, leaked>>

InitFirmwareVersion ==
  /\ Ready("init_fw")
  /\ \/ /\ Answers
        /\ answered' = [answered EXCEPT ![radio] = @ \cup {"fw"}]
        /\ isOpen' = [isOpen EXCEPT ![radio] = TRUE]
     \/ Fails /\ UNCHANGED <<answered, isOpen>>
  /\ NextCall("init") /\ Logs(TRUE)
  /\ UNCHANGED <<left, err_counter, data, seen, device, high, leaked>>

\* ttc_get_data up to sl_ttc2_check_device.  When that fails the call still
\* returns 0, and the data is printed as it is.  Whether the radio is open is not
\* asked.
GetData ==
  /\ Ready("get")
  /\ \E ok, told \in BOOLEAN :
       CheckDevice(ok, told) /\ Stay(IF ok THEN "get_hk" ELSE "print") /\ Logs(~ok)
  /\ left' = HkRegs /\ err_counter' = FALSE
  /\ UNCHANGED <<isOpen, data, seen, device, answered, high, leaked>>

\* Mutation: failed reads are not counted.
ReadField_NotCounted(f) ==
  /\ Ready("get_hk") /\ f \in left
  /\ left' = left \ {f}
  /\ \/ Answers /\ data' = [data EXCEPT ![radio][f] = "new"]
     \/ Fails /\ data' = [data EXCEPT ![radio][f] = IF f \in Direct THEN @ ELSE "ones"]
  /\ UNCHANGED <<at, logging, radio, isOpen, err_counter, seen, device, answered, high, leaked>>

\* One read of sl_ttc2_read_hk_data.  The readers that go through a local buffer
\* store its initial UINT32_MAX when the read fails; the others store nothing.
ReadField(f) ==
  /\ Ready("get_hk") /\ f \in left
  /\ left' = left \ {f}
  /\ \/ /\ Answers
        /\ data' = [data EXCEPT ![radio][f] = "new"]
        /\ UNCHANGED err_counter
     \/ /\ Fails
        /\ data' = [data EXCEPT ![radio][f] = IF f \in Direct THEN @ ELSE "ones"]
        /\ err_counter' = TRUE
  /\ UNCHANGED <<at, logging, radio, isOpen, seen, device, answered, high, leaked>>

\* ttc_get_data returns: the data is printed only if every read succeeded.
GetDataEnds ==
  /\ Ready("get_hk") /\ left = {}
  /\ IF err_counter THEN NextCall("get") ELSE Stay("print")
  /\ Logs(err_counter)
  /\ UNCHANGED <<isOpen, left, err_counter, data, seen, device, history, leaked>>

\* The log calls of ttc_print_data return.
PrintData ==
  /\ Ready("print") /\ ~leaked
  /\ NextCall("get") /\ Logs(FALSE)
  /\ UNCHANGED <<isOpen, left, err_counter, data, seen, device, history, leaked>>

\* Mutation: the counter of the first radio is the one that is read.
CheckFailedPkts_FirstRadio ==
  /\ Ready("check")
  /\ \/ /\ Answers
        /\ seen' = count[0] /\ Logs(FALSE)
        /\ IF seen' >= TTC_MAX_FAILED_PACKETS THEN Stay("reset") ELSE NextCall("check")
     \/ /\ Fails
        /\ UNCHANGED seen
        /\ NextCall("check") /\ Logs(TRUE)
  /\ UNCHANGED <<isOpen, left, err_counter, data, device, answered, high, leaked>>

\* Mutation: a radio that is not open is not checked.
CheckFailedPkts_OpenOnly ==
  /\ Ready("check")
  /\ \/ /\ Answers
        /\ seen' = count[radio] /\ Logs(FALSE)
        /\ IF isOpen[radio] /\ seen' >= TTC_MAX_FAILED_PACKETS
             THEN Stay("reset") ELSE NextCall("check")
     \/ /\ Fails
        /\ UNCHANGED seen
        /\ NextCall("check") /\ Logs(TRUE)
  /\ UNCHANGED <<isOpen, left, err_counter, data, device, answered, high, leaked>>

\* ttc_check_failed_pkts up to the comparison with the limit.
CheckFailedPkts ==
  /\ Ready("check")
  /\ \/ /\ Answers
        /\ seen' = count[radio] /\ Logs(FALSE)
        /\ IF seen' >= TTC_MAX_FAILED_PACKETS THEN Stay("reset") ELSE NextCall("check")
     \/ /\ Fails
        /\ UNCHANGED seen
        /\ NextCall("check") /\ Logs(TRUE)
  /\ UNCHANGED <<isOpen, left, err_counter, data, device, answered, high, leaked>>

\* The write of SL_TTC2_REG_RESET_DEVICE; one that fails, having reached the radio
\* or not, is logged and not retried.
ResetDevice ==
  /\ Ready("reset")
  /\ \/ Answers /\ count' = [count EXCEPT ![radio] = 0] /\ Logs(FALSE)
     \/ Fails /\ count' \in {count, [count EXCEPT ![radio] = 0]} /\ Logs(TRUE)
  /\ NextCall("check")
  /\ UNCHANGED <<isOpen, left, err_counter, data, seen, expected, answered, high, leaked>>

\* The next period: what was read before it is old.
NextPeriod ==
  /\ Ready("sleep")
  /\ Stay("init") /\ Logs(FALSE)
  /\ data' = [r \in Radios |-> [f \in HkRegs |-> IF data[r][f] = "new" THEN "old" ELSE data[r][f]]]
  /\ high' = [r \in Radios |-> count[r] >= TTC_MAX_FAILED_PACKETS]
  /\ UNCHANGED <<isOpen, left, err_counter, seen, device, answered, faults, leaked>>

Thread == \/ InitDevice \/ InitHardwareVersion \/ InitFirmwareVersion
          \/ GetData \/ (\E f \in HkRegs : ReadField(f)) \/ GetDataEnds \/ PrintData
          \/ CheckFailedPkts \/ ResetDevice \/ NextPeriod \/ LogReturns

\* A radio fails to decode a packet, or decodes one.
PacketFails(r) ==
  /\ count[r] < MaxCount
  /\ count' = [count EXCEPT ![r] = @ + 1]
  /\ high' = [high EXCEPT ![r] = @ \/ count'[r] >= TTC_MAX_FAILED_PACKETS]
  /\ UNCHANGED <<thread, leaked, expected, answered, faults>>

PacketDecoded(r) ==
  /\ count[r] > 0
  /\ count' = [count EXCEPT ![r] = 0]
  /\ UNCHANGED <<thread, leaked, expected, history>>

Next == Thread \/ LogLeaks \/ \E r \in Radios : PacketFails(r) \/ PacketDecoded(r)

Spec == Init /\ [][Next]_vars

\* The thread keeps running: it waits for transfers, for the sleep and for the log,
\* whose calls return until an fopen fails (PassesEnd of ObdhSystem).
FairSpec == Spec /\ WF_vars(Thread)
-----------------------------------------------------------------------------
Fresh(r) == \A f \in HkRegs : data[r][f] = "new"

\* What is printed of a device with the expected ID was all read in this period: no
\* field of an earlier one, unset or left at all ones (err_counter of
\* sl_ttc2_read_hk_data and err of ttc_get_data).  A device that answers with another
\* ID is excepted: ttc_get_data returns 0 for it and whatever the record holds is
\* printed (ttc.c:226).
PrintedFresh == at = "print" /\ expected[radio] => Fresh(radio)

\* A radio is open only after both versions were answered in one ttc_init, and a
\* device that answered with another ID is never opened.
OpenedRight ==
  \A r \in Radios : isOpen[r] =>
    {"hw", "fw"} \subseteq answered[r] /\ (expected[r] \/ "id" \notin answered[r])

\* A radio whose counter has stayed below the limit for the whole period is not
\* reset, whatever the other one counts.
HealthyRadioKept == at = "reset" => high[radio]

\* Transfers that are done are taken for done, and no fopen of the log fails.
Working == Success = 0 /\ []~leaked

\* Then a radio that counts more failed packets than the maximum is reset in the
\* end, or recovers, though it never opened and though the other one fails.
FailingRadioReset ==
  Working => \A r \in Radios :
    count[r] > TTC_MAX_FAILED_PACKETS ~> count[r] < TTC_MAX_FAILED_PACKETS

\* And faults that end leave no trace: the data of every radio is shown again and
\* again, and every radio is checked.
EveryRadioServed ==
  Working => \A r \in Radios : /\ []<>(at = "print" /\ radio = r)
                               /\ []<>(at = "check" /\ radio = r)

-----------------------------------------------------------------------------
(* The inductive invariant *)

\* How far the opening of a radio has come.
OpeningSoFar ==
  /\ at \in {"init_hw", "init_fw"} =>
       ~isOpen[radio] /\ ("id" \in answered[radio] => expected[radio])
  /\ at = "init_fw" => "hw" \in answered[radio]

\* The fields read in this call, all of them as long as no read has failed.
FieldsSoFar ==
  at = "get_hk" /\ ~err_counter => \A f \in HkRegs \ left : data[radio][f] = "new"

\* A count at the limit is noticed in the period it is there.
HighSoFar == \A r \in Radios : count[r] >= TTC_MAX_FAILED_PACKETS => high[r]

IInv == /\ TypeOK /\ OpeningSoFar /\ FieldsSoFar /\ HighSoFar
        /\ OpenedRight /\ PrintedFresh /\ HealthyRadioKept
=============================================================================
