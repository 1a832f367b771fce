------------------------------ MODULE TtcFrames ------------------------------
(***************************************************************************)
(* The register frames between the TTC driver (src/src/drivers/sl_ttc2.c)  *)
(* and a radio, byte by byte: how a value of 8, 16 or 32 bits is laid into *)
(* the four data bytes, how it is taken out again, and what the checks of  *)
(* sl_ttc2_read_reg let through.  One register is written, one is read,    *)
(* and the reply may be disturbed on its way.                              *)
(***************************************************************************)
EXTENDS Bytes

CONSTANTS
  Words,   \* values written
  Masks    \* disturbances of one byte

VARIABLES
  bank,    \* the radio: the data bytes of each register
  step,    \* what was done last
  adr,     \* the register of the access
  val,     \* the value written last
  frame,   \* the reply on the bus
  whole,   \* history: it is the radio's reply to the request, undisturbed
  got      \* what the reader gave its caller

vars == <<bank, step, adr, val, frame, whole, got>>

\* The registers, by the numbers of sl_ttc2.h.
DEVICE_ID == 0
HARDWARE_VERSION == 1
TX_ENABLE == 18
LEN_FIRST_RX == 23
RESET_DEVICE == 24
Regs == 0 .. 25

\* sl_ttc2_set_tx_enable: the transmitter off or on.
Enables == {<<0, 0, 0, 0>>, <<0, 0, 0, 1>>}

PREAMBLE == 126
READ_REG == 1
WRITE_REG == 2
Failed == <<>>

\* sl_ttc2_write_reg: the registers whose value takes two bytes, or one.
Written16 == {DEVICE_ID, 4, 6, 7, 8, 9, 10, 11, 13, 14, 15, LEN_FIRST_RX}
Written8 == {HARDWARE_VERSION, 5, 12, 16, 17, TX_ENABLE, 21, 22, RESET_DEVICE}

WrittenSize(a) == IF a \in Written16 THEN 2 ELSE IF a \in Written8 THEN 1 ELSE 4
Request(cmd, a, data) == LET f == <<PREAMBLE, cmd, a>> \o data IN Append(f, Crc8(f))
WriteFrame(a, w) == Request(WRITE_REG, a, LeftAligned(WrittenSize(a), w))

\* sl_ttc2_read_reg: the registers it takes 16 or 8 bits of.
Read16 == {DEVICE_ID, 4, 6, 7, 8, 9, 10, 11, 13, 14, 15, LEN_FIRST_RX}
Read8 == {HARDWARE_VERSION, 5, 12, 16, 17, TX_ENABLE, 21, 22}

ReadSize(a) == IF a \in Read16 THEN 2 ELSE IF a \in Read8 THEN 1 ELSE 4

ReadReg(a, f) ==
  IF Crc8(SubSeq(f, 1, 7)) = f[8] /\ f[1] = PREAMBLE /\ f[2] = READ_REG /\ f[3] = a
    THEN High(ReadSize(a), SubSeq(f, 4, 7))
    ELSE Failed

\* The register each reader names, by the selector it is given.
VoltageReg == [mcu |-> 6, radio |-> 9]
CurrentReg == [mcu |-> 7, radio |-> 10]
TempReg == [mcu |-> 8, radio |-> 11, antenna |-> 14]
PktCounterReg == [tx |-> 19, rx |-> 20]
FifoReg == [tx |-> 21, rx |-> 22]

\* The bytes of the type in which the readers return a register; 4 where there is
\* none or where the reader passes the word on.
Of2Bytes == {DEVICE_ID, 4, VoltageReg.mcu, VoltageReg.radio, CurrentReg.mcu, CurrentReg.radio,
             TempReg.mcu, TempReg.radio, TempReg.antenna, 13, 15, LEN_FIRST_RX}
Of1Byte == {HARDWARE_VERSION, 5, 12, 16, 17, TX_ENABLE, FifoReg.tx, FifoReg.rx}
TypeSize(a) == IF a \in Of2Bytes THEN 2 ELSE IF a \in Of1Byte THEN 1 ELSE 4

Reader(a, f) == IF ReadReg(a, f) = Failed THEN Failed ELSE Low(TypeSize(a), ReadReg(a, f))

\* Mutation: two readings of sl_ttc2_read_hk_data with each other's selector.
HkReads_Swapped ==
  <<3, 4, 5, VoltageReg.radio, CurrentReg.mcu, TempReg.mcu, VoltageReg.mcu, CurrentReg.radio,
    TempReg.radio, 12, 13, TempReg.antenna, 15, 16, 17, PktCounterReg.tx, PktCounterReg.rx>>

\* sl_ttc2_read_hk_data: the register it reads into each field, in the order in which
\* sl_ttc2_hk_data_t declares them.
HkReads ==
  <<3, 4, 5, VoltageReg.mcu, CurrentReg.mcu, TempReg.mcu, VoltageReg.radio, CurrentReg.radio,
    TempReg.radio, 12, 13, TempReg.antenna, 15, 16, 17, PktCounterReg.tx, PktCounterReg.rx>>

-----------------------------------------------------------------------------
\* The radio: each register starts with bytes of its own, takes what a write frame
\* carries and gives it back in the reply to a read.
Pattern(a) == <<a + 1, a + 65, a + 129, a + 193>>
Reply(a) == Request(READ_REG, a, bank[a])

Fresh == [a \in Regs |-> Pattern(a)]

\* What may arrive in place of the reply of a register: the reply with one byte wrong,
\* or, when the radio missed the request, zeros or the reply to an earlier one.
Wrong(a) == OneByteOff(Reply(a), Masks) \cup {[i \in 1 .. 8 |-> 0]}
              \cup {Reply(b) : b \in Regs \ {a}}

TypeOK ==
  /\ bank \in [Regs -> Word]
  /\ step \in {"idle", "written", "replied", "read", "record"}
  /\ adr \in Regs /\ val \in Words \cup Enables
  /\ frame \in {<<>>} \cup [1 .. 8 -> Byte]
  /\ whole \in BOOLEAN
  /\ got \in {Failed} \cup Word \cup [1 .. 17 -> Word]

Init ==
  /\ bank = Fresh
  /\ step = "idle" /\ adr = 0 /\ val \in Words
  /\ frame = <<>> /\ whole = TRUE /\ got = Failed

\* The radio takes a write frame.
Take(f) == bank' = [bank EXCEPT ![f[3]] = SubSeq(f, 4, 7)]

\* ttc_set_param.
SetParam ==
  /\ step = "idle" /\ step' = "written"
  /\ \E a \in Regs : adr' = a /\ Take(WriteFrame(a, val))
  /\ UNCHANGED <<val, frame, whole, got>>

\* ttc_enter_hibernation, ttc_leave_hibernation.
Hibernation ==
  /\ step = "idle" /\ step' = "written" /\ adr' = TX_ENABLE
  /\ val' \in Enables
  /\ Take(WriteFrame(TX_ENABLE, val'))
  /\ UNCHANGED <<frame, whole, got>>

\* ttc_get_param and the readers of one register, up to the reply.
GetParam ==
  /\ step \in {"idle", "written"} /\ step' = "replied"
  /\ \E a \in Regs : (step = "written" => a = adr) /\ adr' = a /\ frame' = Reply(a)
  /\ UNCHANGED <<bank, val, whole, got>>

\* Something else arrives.
Disturb ==
  /\ step = "replied" /\ whole
  /\ frame' \in Wrong(adr) /\ whole' = FALSE
  /\ UNCHANGED <<bank, step, adr, val, got>>

\* The rest of sl_ttc2_read_reg, and the reader.
Decode ==
  /\ step = "replied" /\ step' = "read"
  /\ got' = Reader(adr, frame)
  /\ UNCHANGED <<bank, adr, val, frame, whole>>

\* sl_ttc2_read_hk_data with nothing going wrong.
ReadHkData ==
  /\ step = "idle" /\ step' = "record"
  /\ got' = [k \in DOMAIN HkReads |-> Reader(HkReads[k], Reply(HkReads[k]))]
  /\ UNCHANGED <<bank, adr, val, frame, whole>>

\* The next access.
Again == /\ step \in {"read", "record"}
         /\ step' = "idle" /\ bank' = Fresh /\ adr' = 0
         /\ frame' = <<>> /\ whole' = TRUE /\ got' = Failed
         /\ val' \in Words

Next == SetParam \/ Hibernation \/ GetParam \/ Disturb \/ Decode \/ ReadHkData \/ Again
-----------------------------------------------------------------------------
\* What was written to a register is what its reader returns, cut to the reader's
\* type: the switch of sl_ttc2_write_reg, that of sl_ttc2_read_reg and the types of
\* the readers are three lists of the same registers.  RESET_DEVICE, which nobody
\* reads, is missing from the second.
WrittenIsRead ==
  step = "read" /\ whole /\ adr # RESET_DEVICE /\ bank[adr] # Pattern(adr) =>
    got = Low(TypeSize(adr), val)

\* A reply with one wrong byte, to another register or of zeros only never gives a
\* value: the CRC-8, the preamble, the command and the address.
DisturbedRejected == step = "read" /\ ~whole => got = Failed

\* Each field of the housekeeping record is read from the register that sl_ttc2.h
\* lists at its place (3 to 20, TX_ENABLE apart), at that register's width.
HkInOrder ==
  step = "record" =>
    \A k \in 1 .. 17 : LET a == IF k <= 15 THEN k + 2 ELSE k + 3
                       IN got[k] = High(TypeSize(a), Pattern(a))
-----------------------------------------------------------------------------
(* The inductive invariant *)

\* The registers have their own bytes, but for the one that was written: it has what
\* the frame carried.
BankSoFar ==
  \/ bank = Fresh
  \/ /\ step \in {"written", "replied", "read"}
     /\ bank = [Fresh EXCEPT ![adr] = LeftAligned(WrittenSize(adr), val)]

\* A reply is undisturbed as long as its history says so.
FrameSoFar ==
  /\ step = "idle" => bank = Fresh
  /\ step \in {"idle", "written", "record"} => whole
  /\ step \in {"replied", "read"} => IF whole THEN frame = Reply(adr) ELSE frame \in Wrong(adr)
  /\ step = "read" => got = Reader(adr, frame)

IInv == TypeOK /\ BankSoFar /\ FrameSoFar /\ HkInOrder
=============================================================================
