------------------------------- MODULE ReadEdc -------------------------------
(***************************************************************************)
(* The thread that empties the EDC payload (src/src/threads/read_edc.c,    *)
(* through src/src/devices/payload.c and src/src/drivers/edc.c): it sets   *)
(* the clock of the EDC, resumes its PTT decoder, and then reads, removes  *)
(* and prints as many packages as the state frame announced.  It does so   *)
(* once and returns.                                                       *)
(*                                                                         *)
(* A command may fail, executed by the EDC or not; a frame may be lost or  *)
(* fail its checksum; the EDC may reset; and the process may crash and be  *)
(* started again by its service, as the unit file asks.  A package is      *)
(* printed by log calls, and one failed fopen keeps every later one of the *)
(* process from returning (src/src/system/sys_log.c).                      *)
(***************************************************************************)
EXTENDS Integers, FiniteSets, Sequences

CONSTANTS
  FifoDepth,      \* packages the EDC keeps, 64 in the device
  MaxPkgs,        \* bound on the packages the EDC decodes
  MaxTrouble,     \* bound on failed transfers, failed fopens, resets and crashes
  Uptime,         \* CLOCK_MONOTONIC when the thread reads it
  J2000,          \* 946684800
  Width           \* values of a uint32_t

ASSUME ReadEdcConstants ==
  /\ FifoDepth \in Nat \ {0} /\ MaxPkgs \in Nat /\ MaxTrouble \in Nat
  /\ Uptime \in Nat /\ J2000 \in Nat /\ Width \in Nat \ {0}

Unset == -1    \* the clock of an EDC that has just started
NoPkg == 0

Pkgs == 1 .. MaxPkgs
Clock == -1 .. Width - 1
Frame == [id : Pkgs, time_tag : Clock]

VARIABLES
  at,             \* the call the thread is at
  logging,        \* the log calls that come before it are not over
  i,              \* packages of the loop already dealt with
  ptt_available,  \* of the state frame
  ptt,            \* the package in the local variable ptt
  fifo,           \* EDC: packages not removed yet, oldest first
  decoding,       \* EDC: the PTT decoder runs
  clock,          \* EDC: its RTC
  decoded,        \* EDC: packages decoded so far
  leaked,         \* a failed fopen of this process has kept log_mutex
  printed,        \* history: the packages in the log, with all their lines
  owed,           \* history: packages that reached the FIFO, less those a reset
                  \* of the EDC found there and discarded
  announced,      \* history: the packages in the FIFO when its state was read
  clockLost,      \* history: setting the clock failed, or the EDC reset after it
  trouble,        \* history: failures, resets and crashes so far
  leaks           \* history: those of them that were failed fopens

thread == <<at, logging, i, ptt_available, ptt>>
edc == <<fifo, decoding, clock, decoded>>
log == <<leaked, leaks>>
vars == <<thread, edc, log, printed, owed, announced, clockLost, trouble>>

At == {"clock", "resume", "hk", "state", "get", "pop", "print", "end"}

TypeOK ==
  /\ at \in At /\ logging \in BOOLEAN
  /\ i \in 0 .. FifoDepth /\ ptt_available \in 0 .. FifoDepth
  /\ ptt \in Pkgs \cup {NoPkg}
  /\ fifo \in Seq(Frame) /\ Len(fifo) <= FifoDepth
  /\ decoding \in BOOLEAN /\ clock \in Clock
  /\ decoded \in 0 .. MaxPkgs
  /\ printed \in Seq(Pkgs) /\ owed \subseteq Pkgs /\ announced \subseteq Pkgs
  /\ clockLost \in BOOLEAN /\ leaked \in BOOLEAN
  /\ trouble \in 0 .. MaxTrouble /\ leaks \in 0 .. MaxTrouble

\* payload_init, before the first call, has failed and is logged, or not.
Init ==
  /\ at = "clock" /\ logging \in BOOLEAN /\ i = 0 /\ ptt_available = 0 /\ ptt = NoPkg
  /\ fifo = <<>> /\ decoding = FALSE /\ clock = Unset /\ decoded = 0
  /\ printed = <<>> /\ owed = {} /\ announced = {}
  /\ clockLost = FALSE /\ leaked = FALSE
  /\ trouble = 0 /\ leaks = 0

Ids(s) == {s[k].id : k \in DOMAIN s}
Works == UNCHANGED trouble
Trouble == trouble < MaxTrouble /\ trouble' = trouble + 1
Ready(call) == at = call /\ ~logging
Logs(b) == logging' = b    \* The step is followed by log calls, or by none.
Goto(from, to) == Ready(from) /\ at' = to

-----------------------------------------------------------------------------
\* PAYLOAD_UNIX_TO_J2000_EPOCH of the seconds of CLOCK_MONOTONIC, as a uint32_t.
RtcValue == (Uptime - J2000) % Width

\* payload_set_clock; a failure is logged and the thread goes on.
SetClock ==
  /\ Goto("clock", "resume")
  /\ \/ Works /\ clock' = RtcValue /\ clockLost' = FALSE /\ Logs(FALSE)
     \/ Trouble /\ clock' \in {clock, RtcValue} /\ clockLost' = TRUE /\ Logs(TRUE)
  /\ UNCHANGED <<i, ptt_available, ptt, fifo, decoding, decoded, log, printed, owed, announced>>

\* Mutation: the decoder is resumed before the clock is set.
Resume_First ==
  /\ Goto("clock", "clock")
  /\ \/ Works /\ decoding' = TRUE /\ Logs(FALSE)
     \/ Trouble /\ decoding' \in {decoding, TRUE} /\ Logs(TRUE)
  /\ UNCHANGED <<i, ptt_available, ptt, fifo, clock, decoded, log, printed, owed, announced,
                 clockLost>>

\* payload_write_cmd of EDC_CMD_PTT_RESUME, whatever became of the clock.
Resume ==
  /\ Goto("resume", "hk")
  /\ \/ Works /\ decoding' = TRUE /\ Logs(FALSE)
     \/ Trouble /\ decoding' \in {decoding, TRUE} /\ Logs(TRUE)
  /\ UNCHANGED <<i, ptt_available, ptt, fifo, clock, decoded, log, printed, owed, announced,
                 clockLost>>

\* payload_read_data of the housekeeping frame: it is printed, or the failure is.
ReadHk ==
  /\ Goto("hk", "state")
  /\ Works \/ Trouble
  /\ Logs(TRUE)
  /\ UNCHANGED <<i, ptt_available, ptt, edc, log, printed, owed, announced, clockLost>>

\* payload_read_data of the state frame, which says how many packages to read, and
\* is printed before they are.
ReadState ==
  /\ Ready("state")
  /\ \/ /\ Works
        /\ ptt_available' = Len(fifo)
        /\ announced' = Ids(fifo)
        /\ at' = IF fifo = <<>> THEN "end" ELSE "get"
     \/ Trouble /\ at' = "end" /\ UNCHANGED <<ptt_available, announced>>
  /\ i' = 0
  /\ Logs(TRUE)
  /\ UNCHANGED <<ptt, edc, log, printed, owed, clockLost>>

\* Mutation: one package too few.
NextPkg_OffByOne == /\ i' = i + 1
                    /\ at' = IF i + 2 < ptt_available THEN "get" ELSE "end"

\* The loop over the announced packages.
NextPkg == /\ i' = i + 1
           /\ at' = IF i + 1 < ptt_available THEN "get" ELSE "end"

\* Mutation: the result of reading the package is not looked at.
GetPtt_Unchecked ==
  /\ Goto("get", "pop")
  /\ \/ Works /\ fifo # <<>> /\ ptt' = Head(fifo).id
     \/ Works /\ fifo = <<>> /\ UNCHANGED ptt
     \/ Trouble /\ UNCHANGED ptt
  /\ Logs(FALSE)
  /\ UNCHANGED <<i, ptt_available, edc, log, printed, owed, announced, clockLost>>

\* payload_read_data of a package, up to edc_get_ptt: the oldest one stays in the
\* FIFO.  An empty frame counts as a failure.
GetPtt ==
  /\ Ready("get")
  /\ \/ /\ Works /\ fifo # <<>>
        /\ ptt' = Head(fifo).id
        /\ at' = "pop" /\ UNCHANGED i /\ Logs(FALSE)
     \/ /\ IF fifo = <<>> THEN Works ELSE Trouble
        /\ NextPkg /\ Logs(TRUE)
        /\ UNCHANGED ptt
  /\ UNCHANGED <<ptt_available, edc, log, printed, owed, announced, clockLost>>

\* The EDC removes its oldest package, if any.
Remove == fifo' = IF fifo = <<>> THEN fifo ELSE Tail(fifo)

\* edc_pop_ptt_pkg; unless it is acknowledged the package is not printed.
PopPtt ==
  /\ at = "pop"
  /\ \/ Works /\ Remove /\ at' = "print" /\ UNCHANGED i /\ Logs(FALSE)
     \/ /\ Trouble
        /\ Remove \/ UNCHANGED fifo
        /\ NextPkg /\ Logs(TRUE)
  /\ UNCHANGED <<ptt_available, ptt, decoding, clock, decoded, log, printed, owed, announced,
                 clockLost>>

\* Mutation: the thread removes the package too, after payload_read_data has.
PrintPtt_PopToo ==
  /\ at = "print" /\ ~leaked
  /\ printed' = Append(printed, ptt)
  /\ Remove
  /\ NextPkg
  /\ UNCHANGED <<logging, ptt_available, ptt, decoding, clock, decoded, log, owed, announced,
                 clockLost, trouble>>

\* edc_print_ptt, whose log calls return, and the end of the loop's body.
PrintPtt ==
  /\ at = "print" /\ ~leaked
  /\ printed' = Append(printed, ptt)
  /\ NextPkg
  /\ UNCHANGED <<logging, ptt_available, ptt, edc, log, owed, announced, clockLost, trouble>>

FopenFails == ~leaked /\ leaked' = TRUE /\ Trouble /\ leaks' = leaks + 1

\* The last log call of edc_print_ptt fails: the package is not printed with all its
\* lines, and the thread goes on, up to its next log call.
PrintPttFails ==
  /\ at = "print" /\ FopenFails
  /\ NextPkg
  /\ UNCHANGED <<logging, ptt_available, ptt, edc, printed, owed, announced, clockLost>>

\* Any other log call fails: of another thread, or of this one with calls to come.
LogLeaks ==
  /\ FopenFails
  /\ UNCHANGED <<thread, edc, printed, owed, announced, clockLost>>

\* The log calls before a call return.
LogReturns ==
  /\ logging /\ ~leaked
  /\ logging' = FALSE
  /\ UNCHANGED <<at, i, ptt_available, ptt, edc, log, printed, owed, announced, clockLost, trouble>>

Thread == SetClock \/ Resume \/ ReadHk \/ ReadState \/ GetPtt \/ PopPtt \/ PrintPtt
          \/ PrintPttFails \/ LogReturns

\* The EDC decodes a package; a full FIFO discards it.
Decode ==
  /\ decoding /\ decoded < MaxPkgs
  /\ decoded' = decoded + 1
  /\ IF Len(fifo) = FifoDepth THEN UNCHANGED <<fifo, owed>>
     ELSE /\ fifo' = Append(fifo, [id |-> decoded', time_tag |-> clock])
          /\ owed' = owed \cup {decoded'}
  /\ UNCHANGED <<thread, decoding, clock, log, printed, announced, clockLost, trouble>>

\* The EDC starts again, with an empty FIFO and a paused decoder: whatever was in
\* the FIFO is gone.
EdcResets ==
  /\ Trouble
  /\ fifo' = <<>> /\ decoding' = FALSE /\ clock' = Unset
  /\ owed' = owed \ Ids(fifo)
  /\ clockLost' = TRUE
  /\ UNCHANGED <<thread, decoded, log, printed, announced>>

\* The process dies, with its threads and its mutex, and the service starts it again.
Crash ==
  /\ Trouble
  /\ at' = "clock" /\ logging' \in BOOLEAN
  /\ i' = 0 /\ ptt_available' = 0 /\ ptt' = NoPkg
  /\ leaked' = FALSE
  /\ announced' = {}
  /\ UNCHANGED <<edc, leaks, printed, owed, clockLost>>

Next == Thread \/ LogLeaks \/ Decode \/ EdcResets \/ Crash

Spec == Init /\ [][Next]_vars
-----------------------------------------------------------------------------
\* No package is printed twice or out of order, whatever fails, and across crashes:
\* it is printed only after the EDC has acknowledged its removal.
PrintedInOrder == \A a, b \in DOMAIN printed : a < b => printed[a] < printed[b]

Printed == {printed[k] : k \in DOMAIN printed}

\* The package that is being printed; with a leaked log it never will be.
Hand == IF at = "print" /\ ~leaked THEN {ptt} ELSE {}

\* Packages that reached the FIFO, were not discarded there by a reset, and are
\* neither there any more nor printed nor about to be.
Missing == owed \ (Ids(fifo) \cup Printed \cup Hand)

\* What goes missing: a reset of the EDC costs the packages in its FIFO, which are not
\* counted here, and at most one more, the next to be removed in place of the one in
\* hand.  A failed transfer or a crash costs at most one package, and a failed
\* fopen two: one printed in part and the next, removed before the thread stops at
\* the log.  (The removal comes after the reading, before the printing, and is not
\* repeated.)
LossPerTrouble == Cardinality(Missing) <= trouble + leaks

\* When nothing went wrong the thread has printed every package that was in the
\* FIFO when the state was read.
BacklogPrinted == at = "end" /\ trouble = 0 => announced \subseteq {printed[k] : k \in DOMAIN printed}

\* The decoder does not run without a clock, unless setting the clock failed or
\* the EDC reset: the clock is set before the decoder is resumed.
DecodingHasClock == decoding /\ clock = Unset => clockLost
-----------------------------------------------------------------------------
\* What keeps the order: the FIFO is in the order of decoding, behind everything
\* printed; the package in hand is behind the printed ones and not behind the FIFO.
QueueSoFar ==
  /\ \A a, b \in DOMAIN fifo : a < b => fifo[a].id < fifo[b].id
  /\ \A k \in DOMAIN fifo : fifo[k].id <= decoded
  /\ \A a \in DOMAIN printed : /\ printed[a] <= decoded
                               /\ \A k \in DOMAIN fifo : printed[a] < fifo[k].id

InHand ==
  /\ at \in {"get", "pop", "print"} => i < ptt_available
  /\ at \in {"pop", "print"} => /\ ptt \in 1 .. decoded
                                /\ \A a \in DOMAIN printed : printed[a] < ptt
  /\ at = "pop" => \A k \in DOMAIN fifo : ptt <= fifo[k].id
  /\ at = "print" => \A k \in DOMAIN fifo : ptt < fifo[k].id

\* The package in hand is no longer the oldest one of the EDC: removing "it" removes
\* another one, and only a reset can have done this, which took the one in hand too.
Strayed == at = "pop" /\ (fifo = <<>> \/ Head(fifo).id # ptt)

\* Losses that are still to come of what has happened: the package removed in place of
\* the one in hand, and the one removed before the thread stops at a leaked log.
Spare == (IF Strayed THEN 1 ELSE 0) + (IF leaked /\ at # "print" THEN 1 ELSE 0)

LossSoFar ==
  /\ Cardinality(Missing) + Spare <= trouble + leaks
  /\ leaks <= trouble
  /\ Strayed => ptt \notin owed

\* The announced packages that are still to be printed, when nothing went wrong.
FirstIds(n) == {fifo[k].id : k \in 1 .. n}
Left == ptt_available - i
BacklogSoFar ==
  trouble = 0 =>
    /\ at \in {"clock", "resume", "hk", "state"} => announced = {}
    /\ at \in {"get", "pop"} => Left <= Len(fifo) /\ announced \subseteq Printed \cup FirstIds(Left)
    /\ at = "print" => /\ Left - 1 <= Len(fifo)
                       /\ announced \subseteq Printed \cup {ptt} \cup FirstIds(Left - 1)
    /\ at = "end" => announced \subseteq Printed

ClockSoFar == clock = Unset => clockLost \/ (at = "clock" /\ ~decoding)

IInv == TypeOK /\ PrintedInOrder /\ QueueSoFar /\ InHand /\ LossSoFar /\ BacklogSoFar /\ ClockSoFar
=============================================================================
