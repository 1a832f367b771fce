------------------------------ MODULE EpsFrames ------------------------------
(***************************************************************************)
(* The register frames between the EPS driver (src/src/drivers/sl_eps2.c)  *)
(* and the EPS, byte by byte: the registers behind the driver's selectors, *)
(* the widths its readers cut a register to, the modes it refuses to write *)
(* and what its CRC-8 lets through.  Unlike the radio's reply, the reply   *)
(* of the EPS is not compared with the request: its first byte is covered  *)
(* by the CRC and by nothing else.                                         *)
(***************************************************************************)
EXTENDS Bytes

CONSTANTS
  Words,   \* values written
  Masks    \* disturbances of one byte

VARIABLES
  bank,    \* the EPS: the data bytes of each register
  step,    \* what was done last
  adr,     \* the register of the access
  val,     \* the value written last
  mode,    \* [kind, index, mode] of the last call that sets a mode
  frame,   \* the reply on the bus
  how,     \* history: it is the reply to the request, off by one byte, or another
  got      \* what the reader gave its caller

vars == <<bank, step, adr, val, mode, frame, how, got>>

Regs == 0 .. 51
Failed == <<>>

\* The frame of sl_eps2_write_reg, and the reply that sl_eps2_read_reg expects.
Frame(a, w) == LET f == <<a>> \o w IN Append(f, Crc8(f))

\* Mutation: the result of sl_eps2_check_crc is not used.
ReadReg_Unchecked(f) == SubSeq(f, 2, 5)

ReadReg(f) == IF Crc8(SubSeq(f, 1, 5)) = f[6] THEN SubSeq(f, 2, 5) ELSE Failed

\* The register each reader names, by the selector it is given (sl_eps2.h).
SolarVoltageReg == [my_px |-> 5, mx_pz |-> 6, mz_py |-> 7, all |-> 17]
SolarCurrentReg == [panel \in 0 .. 5 |-> 8 + panel]
MpptDutyReg == [mppt \in 0 .. 2 |-> 14 + mppt]
RtdReg == [rtd \in 0 .. 6 |-> 19 + rtd]
BatteryCurrentReg == [now |-> 27, average |-> 28, accumulated |-> 29]
HeaterDutyReg == [heater \in 0 .. 1 |-> 39 + heater]

\* Mutation: the cases of two MPPTs name each other's register.
ModeReg_Swapped == [mppt |-> [i \in 0 .. 2 |-> IF i = 0 THEN 44 ELSE IF i = 1 THEN 43 ELSE 45],
                    heater |-> [i \in 0 .. 1 |-> 46 + i]]

ModeReg == [mppt |-> [i \in 0 .. 2 |-> 43 + i], heater |-> [i \in 0 .. 1 |-> 46 + i]]

\* The bytes of the type in which the readers return a register.
Of1Byte ==
  {3, 32, 33, 34, 37, 38, 41} \cup {MpptDutyReg[i] : i \in 0 .. 2} \cup {HeaterDutyReg[i] : i \in 0 .. 1}
    \cup {ModeReg.mppt[i] : i \in 0 .. 2} \cup {ModeReg.heater[i] : i \in 0 .. 1}
Of4Bytes == {0, 42, 48, 49, 50, 51}
TypeSize(a) == IF a \in Of1Byte THEN 1 ELSE IF a \in Of4Bytes THEN 4 ELSE 2

Reader(a, f) == IF ReadReg(f) = Failed THEN Failed ELSE Low(TypeSize(a), ReadReg(f))

\* sl_eps2_read_data: the register it reads into each field, in the order in which
\* sl_eps2_data_t declares them.
DataReads ==
  <<0, 1, 2, 3, 4, SolarVoltageReg.my_px, SolarVoltageReg.mx_pz, SolarVoltageReg.mz_py>>
    \o [i \in 1 .. 6 |-> SolarCurrentReg[i - 1]] \o [i \in 1 .. 3 |-> MpptDutyReg[i - 1]]
    \o <<SolarVoltageReg.all, 18>> \o [i \in 1 .. 7 |-> RtdReg[i - 1]]
    \o <<26, BatteryCurrentReg.now, BatteryCurrentReg.average, BatteryCurrentReg.accumulated>>
    \o [i \in 1 .. 9 |-> 29 + i] \o [i \in 1 .. 2 |-> HeaterDutyReg[i - 1]]
    \o [i \in 1 .. 3 |-> ModeReg.mppt[i - 1]] \o [i \in 1 .. 2 |-> ModeReg.heater[i - 1]]

\* sl_eps2_set_mppt_mode, sl_eps2_set_heater_mode: 0 is automatic, 1 is manual.
Accepted(c) == c.mode \in {0, 1} /\ c.index \in DOMAIN ModeReg[c.kind]

-----------------------------------------------------------------------------
\* The EPS: each register starts with bytes of its own.
Pattern(a) == <<a + 1, a + 65, a + 129, a + 193>>
Fresh == [a \in Regs |-> Pattern(a)]
Reply(a) == Frame(a, bank[a])

NoMode == [kind |-> "none", index |-> 0, mode |-> 0]
Calls == [kind : {"mppt", "heater"}, index : 0 .. 3, mode : 0 .. 2]

TypeOK ==
  /\ bank \in [Regs -> Word]
  /\ step \in {"idle", "written", "modeset", "replied", "read", "record"}
  /\ adr \in Regs /\ val \in Words
  /\ frame \in {<<>>} \cup [1 .. 6 -> Byte]
  /\ how \in {"reply", "off", "other"}
  /\ mode \in Calls \cup {NoMode}
  /\ got \in {Failed} \cup Word \cup [1 .. 46 -> Word]

Init ==
  /\ bank = Fresh
  /\ step = "idle" /\ adr = 0 /\ val \in Words /\ mode = NoMode
  /\ frame = <<>> /\ how = "reply" /\ got = Failed

\* The EPS takes a write frame.
Take(f) == bank' = [bank EXCEPT ![f[1]] = SubSeq(f, 2, 5)]

\* eps_set_param.
SetParam ==
  /\ step = "idle" /\ step' = "written"
  /\ \E a \in Regs : adr' = a /\ Take(Frame(a, val))
  /\ UNCHANGED <<val, mode, frame, how, got>>

\* sl_eps2_set_mppt_mode and sl_eps2_set_heater_mode, indices and modes out of range
\* included.
SetMode ==
  /\ step = "idle" /\ step' = "modeset"
  /\ \E c \in Calls :
       /\ mode' = c
       /\ IF Accepted(c) THEN Take(Frame(ModeReg[c.kind][c.index], <<0, 0, 0, c.mode>>))
                         ELSE UNCHANGED bank
  /\ UNCHANGED <<adr, val, frame, how, got>>

\* eps_get_param and the readers of one register, up to the reply.
GetParam ==
  /\ step \in {"idle", "written"} /\ step' = "replied"
  /\ \E a \in Regs : (step = "written" => a = adr) /\ adr' = a /\ frame' = Reply(a)
  /\ UNCHANGED <<bank, val, mode, how, got>>

\* One byte arrives wrong, or the EPS missed the request and shifts out zeros or the
\* reply to an earlier one.
Disturb ==
  /\ step = "replied" /\ how = "reply"
  /\ \/ how' = "off" /\ frame' \in OneByteOff(frame, Masks)
     \/ how' = "other" /\ frame' \in {[i \in 1 .. 6 |-> 0]} \cup {Reply(a) : a \in {0, 26, 51} \ {adr}}
  /\ UNCHANGED <<bank, step, adr, val, mode, got>>

\* The rest of sl_eps2_read_reg, and the reader.
Decode ==
  /\ step = "replied" /\ step' = "read"
  /\ got' = Reader(adr, frame)
  /\ UNCHANGED <<bank, adr, val, mode, frame, how>>

\* sl_eps2_read_data with nothing going wrong, on the registers as they are now.
ReadData ==
  /\ step \in {"idle", "modeset"} /\ step' = "record"
  /\ got' = [k \in DOMAIN DataReads |-> Reader(DataReads[k], Reply(DataReads[k]))]
  /\ UNCHANGED <<bank, adr, val, mode, frame, how>>

\* The next access.
Again ==
  /\ step \in {"read", "record"}
  /\ step' = "idle" /\ bank' = Fresh /\ adr' = 0 /\ mode' = NoMode
  /\ frame' = <<>> /\ how' = "reply" /\ got' = Failed
  /\ UNCHANGED val

Next == SetParam \/ SetMode \/ GetParam \/ Disturb \/ Decode \/ ReadData \/ Again
-----------------------------------------------------------------------------
\* What eps_set_param wrote is what the register's reader returns, cut to its type.
WrittenIsRead ==
  step = "read" /\ how = "reply" /\ bank[adr] # Pattern(adr) =>
    got = Low(TypeSize(adr), val)

\* A reply with one wrong byte, its first one included, never gives a value.
OneByteOffRejected == step = "read" /\ how = "off" => got = Failed

\* Each field of the telemetry record is the register that sl_eps2.h lists at its
\* place (0 to 40 and 43 to 47).  A mode that was set stands in its own field and in no
\* other; a mode other than 0 and 1, or of an MPPT or heater that does not exist, is
\* refused and leaves every field as it was.
RecordInOrder ==
  step = "record" =>
    \A k \in 1 .. 46 :
      LET a == IF k <= 41 THEN k - 1 ELSE k + 1
          set == /\ mode.kind # "none" /\ mode.mode \in {0, 1}
                 /\ mode.index < (IF mode.kind = "mppt" THEN 3 ELSE 2)
                 /\ a = (IF mode.kind = "mppt" THEN 43 ELSE 46) + mode.index
      IN got[k] = IF set THEN <<0, 0, 0, mode.mode>> ELSE Low(TypeSize(a), Pattern(a))
-----------------------------------------------------------------------------
(* The inductive invariant *)

\* The registers have their own bytes, but for the one that was written or set.
BankSoFar ==
  /\ step \notin {"modeset", "record"} => mode = NoMode
  /\ step = "idle" => bank = Fresh
  /\ step \in {"written", "replied", "read"} =>
       bank = Fresh \/ bank = [Fresh EXCEPT ![adr] = val]
  /\ step = "modeset" =>
       /\ mode \in Calls
       /\ bank = IF Accepted(mode)
                   THEN [Fresh EXCEPT ![ModeReg[mode.kind][mode.index]] = <<0, 0, 0, mode.mode>>]
                   ELSE Fresh

\* A reply is undisturbed as long as its history says so.
FrameSoFar ==
  /\ step \in {"replied", "read"} =>
       /\ frame \in [1 .. 6 -> Byte]
       /\ how = "reply" => frame = Reply(adr)
       /\ how = "off" => frame \in OneByteOff(Reply(adr), Masks)
  /\ step \in {"idle", "written", "modeset", "record"} => how = "reply"
  /\ step = "read" => got = Reader(adr, frame)

IInv == TypeOK /\ BankSoFar /\ FrameSoFar /\ RecordInOrder
=============================================================================
