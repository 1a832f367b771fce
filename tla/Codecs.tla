------------------------------ MODULE Codecs ------------------------------
(***************************************************************************)
(* The frames of the three devices in one run.  Each behaviour is that of  *)
(* one device; the variables of the others keep a fixed value, so that the *)
(* numbers of states add up instead of multiplying.                        *)
(***************************************************************************)
EXTENDS Bytes

CONSTANTS Words, Masks, Temps, Freqs, Packages

VARIABLES
  device,                                                        \* the device of this behaviour
  bank, step, adr, val, frame, got,                              \* TtcFrames and EpsFrames
  whole,                                                         \* TtcFrames
  mode, how,                                                     \* EpsFrames
  registered, active, edc, temp, freq, call, sent, err, out      \* EdcPayload

registers == <<bank, step, adr, val, frame, got>>
payload == <<registered, active, edc, temp, freq, call, sent, err, out>>
codecVars == <<device, registers, whole, mode, how, payload>>

\* Words and bytes, and disturbances that change something; frequencies whose product
\* with 128 is an int32_t.
ASSUME CodecsConstants ==
  Words \subseteq Word /\ Masks \subseteq 1 .. 255 /\ Temps \subseteq Byte /\ Packages \in Byte
ASSUME CodecsFreqs ==
  \A f \in Freqs : f \in Int /\ -16777216 <= f /\ f <= 16777215

Radio == INSTANCE TtcFrames
Eps == INSTANCE EpsFrames
Edc == INSTANCE EdcPayload WITH Times <- Words

Off == "off"
RegistersOff == bank = Off /\ step = Off /\ adr = Off /\ val = Off /\ frame = Off /\ got = Off
PayloadOff ==
  /\ registered = Off /\ active = Off /\ edc = Off /\ temp = Off /\ freq = Off
  /\ call = Off /\ sent = Off /\ err = Off /\ out = Off

CodecsInit ==
  \/ device = "radio" /\ Radio!Init /\ mode = Off /\ how = Off /\ PayloadOff
  \/ device = "eps" /\ Eps!Init /\ whole = Off /\ PayloadOff
  \/ device = "edc" /\ Edc!Init /\ RegistersOff /\ whole = Off /\ mode = Off /\ how = Off

CodecsNext ==
  \/ device = "radio" /\ Radio!Next /\ UNCHANGED <<device, mode, how, payload>>
  \/ device = "eps" /\ Eps!Next /\ UNCHANGED <<device, whole, payload>>
  \/ device = "edc" /\ Edc!Next /\ UNCHANGED <<device, registers, whole, mode, how>>

CodecsSpec == CodecsInit /\ [][CodecsNext]_codecVars

\* The properties of the three modules, each for the behaviours of its device.
\* What is written to a register of a radio is what its reader returns, and the
\* housekeeping record has each register in its field, at its width.
RadioValuesRight == device = "radio" => Radio!WrittenIsRead /\ Radio!HkInOrder

\* What is written to a register of the EPS is what its reader returns, the record
\* has each register in its field, and a mode goes to its own register only.
EpsValuesRight == device = "eps" => Eps!WrittenIsRead /\ Eps!RecordInOrder

\* No disturbed reply of a radio gives a value, and no reply of the EPS with one
\* wrong byte does.
RepliesChecked == /\ device = "radio" => Radio!DisturbedRejected
                  /\ device = "eps" => Eps!OneByteOffRejected

\* A payload read that returns PL_OK gives what the EDC had, field by field: the
\* temperature 40 less than its byte up to 167 and 256 less than that above, where the
\* int8_t wraps, and user_msg the message with the frame's checksum behind it.
EdcOkMeansDecoded == device = "edc" => Edc!OkMeansDecoded

\* After a payload call that returns PL_OK the EDC has done what was asked for.
EdcCommandArrives == device = "edc" => Edc!CommandArrives

\* A payload call that does not return PL_OK leaves the EDC as it was, a lost
\* acknowledgement apart, and no call loses a package.
EdcFailedCallsHarmless == [][device = "edc" => Edc!HarmlessIfFailed]_codecVars
-----------------------------------------------------------------------------
\* The inductive invariant.
CodecsInv ==
  /\ device \in {"radio", "eps", "edc"}
  /\ device = "radio" => Radio!IInv
  /\ device = "eps" => Eps!IInv
  /\ device = "edc" => Edc!IInv
=============================================================================
