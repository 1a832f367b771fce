------------------------------ MODULE EdcPayload ------------------------------
(***************************************************************************)
(* The payload interface of the EDC, from the dispatch of libmop           *)
(* (subprojects/libmop/src/payload.c) through the adapter                  *)
(* (src/src/devices/payload.c) and the driver (src/src/drivers/edc.c) to   *)
(* the bytes on the I2C bus and the EDC behind it.  Any function of the    *)
(* interface may be called at any time, on a handle that was registered or *)
(* not; each access to the bus may fail, and a reply may be disturbed.     *)
(* ReadEdc has the order in which the EDC thread makes these calls.        *)
(***************************************************************************)
EXTENDS Bytes

CONSTANTS
  Times,   \* clock values and command arguments: words
  Temps,   \* board temperatures the EDC reports: bytes
  Freqs,   \* carrier frequencies the EDC reports, within 2^24: beyond, the decoder overflows
  Masks,   \* disturbances of one byte
  Packages \* PTT packages in the EDC's FIFO at the start

VARIABLES
  registered,  \* payload_edc_init filled the handle
  active,      \* ctx->active
  edc,         \* the EDC: clock, pause, number of packages taken from the FIFO
  temp, freq,  \* what it measures
  call,        \* [fn, arg, word, bus]: the call made last, and how the bus behaved
  sent,        \* the frames it put on the bus
  err,         \* what it returned
  out          \* what it wrote to its caller's buffer

vars == <<registered, active, edc, temp, freq, call, sent, err, out>>

PL_OK == 0
INVALID_ARG == 1
UNKNOWN == 3
UNSUPPORTED_FN == 4
DATA == 6

RTC_SET == 1
PTT_POP == 6
PTT_PAUSE == 8
PTT_RESUME == 9
SAMPLER_START == 10
GET_STATE == 48
GET_PTT_PKG == 49
GET_HK_PKG == 50
GET_ADC_SEQ == 52
ECHO == 240
Commands == {RTC_SET, PTT_POP, PTT_PAUSE, PTT_RESUME, SAMPLER_START, GET_STATE, GET_PTT_PKG,
             GET_HK_PKG, GET_ADC_SEQ, ECHO}

ID_STATE == 17
ID_PTT == 34
ID_ADC_SEQ == 51
ID_HK == 68
Kinds == {ID_STATE, ID_PTT, ID_HK}
FrameLen(kind) == CASE kind = ID_STATE -> 9 [] kind = ID_PTT -> 49 [] kind = ID_HK -> 26
GetCommand(kind) ==
  CASE kind = ID_STATE -> GET_STATE [] kind = ID_PTT -> GET_PTT_PKG [] kind = ID_HK -> GET_HK_PKG
NotWritten == <<>>

\* Mutation: the parameter goes out with the high byte first.
CmdFrame_HighFirst(id, param) ==
  CASE id = RTC_SET -> <<id>> \o param
    [] id = GET_PTT_PKG -> <<id, 0>>
    [] id = GET_ADC_SEQ -> <<id, 0, 0>>
    [] OTHER -> <<id>>

\* edc_write_cmd: the bytes of a command.
CmdFrame(id, param) ==
  CASE id = RTC_SET -> <<id>> \o Reversed(param)
    [] id = GET_PTT_PKG -> <<id, 0>>
    [] id = GET_ADC_SEQ -> <<id, 0, 0>>
    [] OTHER -> <<id>>

ChecksumRight(f) == f[Len(f)] = XorSum(SubSeq(f, 1, Len(f) - 1))

\* Mutation: the kind of the frame is not compared.
Accepted_AnyKind(kind, f) == ChecksumRight(f)

\* edc_get_state, edc_get_ptt, edc_get_hk: the frame is of the kind asked for, and its
\* last byte is the XOR of the others.
Accepted(kind, f) == f[1] = kind /\ ChecksumRight(f)

Signed8(b) == IF b >= 128 THEN b - 256 ELSE b
Int32(w) == Signed8(w[1]) * 16777216 + w[2] * 65536 + w[3] * 256 + w[4]
Truncated(a, b) == IF a >= 0 THEN a \div b ELSE -((-a) \div b)
Field(f, from, n) == Reversed(SubSeq(f, from + 1, from + n))

\* The fields of a frame, by the offsets the decoders use.
DecodeState(f) ==
  [current_time |-> Field(f, 1, 4), ptt_available |-> f[6], ptt_is_paused |-> f[7] # 0,
   sampler_state |-> f[8]]

\* The frequency in kHz is freq * 128 / 2^11 + 401635 as a double, cut to an integer.
DecodePtt(f) ==
  [time_tag |-> Field(f, 1, 4), error_code |-> f[6],
   carrier_freq |-> Truncated(Int32(Field(f, 6, 4)) + 16 * 401635, 16),
   carrier_abs |-> Field(f, 10, 2), msg_byte_length |-> f[13], user_msg |-> SubSeq(f, 14, 49)]

\* (int8_t)raw - 40 is stored in an int8_t: its low eight bits.
DecodeHk(f) ==
  [current_time |-> Field(f, 1, 4), elapsed_time |-> Field(f, 5, 4),
   current_supply_d |-> Field(f, 9, 2), current_supply_a |-> Field(f, 11, 2),
   voltage_supply |-> Field(f, 13, 2), temp |-> Signed8((f[16] + 216) % 256), pll_sync_bit |-> f[17],
   adc_rms |-> Field(f, 17, 2), num_rx_ptt |-> Field(f, 19, 4), max_parl_decod |-> f[24],
   mem_err_count |-> f[25]]

Decode(kind, f) ==
  CASE kind = ID_STATE -> DecodeState(f) [] kind = ID_PTT -> DecodePtt(f) [] kind = ID_HK -> DecodeHk(f)

-----------------------------------------------------------------------------
\* The EDC, as edc.h describes its commands and frames.
Word32(i) ==
  LET n == IF i < 0 THEN i + 2147483647 + 1 ELSE i
      top == n \div 16777216
  IN <<IF i < 0 THEN top + 128 ELSE top, (n \div 65536) % 256, (n \div 256) % 256, n % 256>>

Seq8(from, n) == [i \in 1 .. n |-> (from + i) % 256]
Message(k) == Seq8(100 + 40 * k, 35)
Closed(f) == Append(f, XorSum(f))
StateFrame ==
  Closed(<<ID_STATE>> \o Reversed(edc.clock) \o <<Packages - edc.taken, IF edc.paused THEN 1 ELSE 0, 2>>)
PttBody(k) ==
  <<ID_PTT>> \o Seq8(20 + k, 4) \o <<k>> \o Reversed(Word32(freq)) \o <<7, 8, 35>> \o Message(k)
PttFrame ==
  IF edc.taken = Packages THEN [i \in 1 .. 49 |-> 255] ELSE Closed(PttBody(edc.taken))
HkFrame ==
  Closed(<<ID_HK>> \o Reversed(edc.clock) \o Seq8(10, 4) \o Seq8(20, 2) \o Seq8(22, 2) \o Seq8(24, 2) \o <<temp, 1>> \o Seq8(30, 2)
           \o Seq8(40, 4) \o <<50, 51>>)
FrameOf(kind) == CASE kind = ID_STATE -> StateFrame [] kind = ID_PTT -> PttFrame [] kind = ID_HK -> HkFrame

\* What a command frame makes the EDC do.
React(f) ==
  edc' = CASE f[1] = RTC_SET -> [edc EXCEPT !.clock = Reversed(SubSeq(f, 2, 5))]
           [] f[1] = PTT_POP -> [edc EXCEPT !.taken = IF @ < Packages THEN @ + 1 ELSE @]
           [] f[1] = PTT_PAUSE -> [edc EXCEPT !.paused = TRUE]
           [] f[1] = PTT_RESUME -> [edc EXCEPT !.paused = FALSE]
           [] OTHER -> edc

\* A frame of another kind, or zeros, where one of this kind was asked for.
Others(kind) ==
  {[i \in 1 .. FrameLen(kind) |-> 0]}
    \cup {LET f == FrameOf(k)
          IN [i \in 1 .. FrameLen(kind) |-> IF i <= Len(f) THEN f[i] ELSE 0] : k \in Kinds \ {kind}}

\* How the bus behaves in a call.  A write that is not acknowledged has reached the EDC
\* and fails all the same.
Buses == {"works", "write_fails", "unacknowledged", "read_fails", "off", "other", "pop_fails",
          "pop_unacknowledged"}
PopBuses == {"pop_fails", "pop_unacknowledged"}
Disturbed(kind, bus) ==
  CASE bus = "off" -> OneByteOff(FrameOf(kind), Masks) [] bus = "other" -> Others(kind)
    [] OTHER -> {FrameOf(kind)}

NoFrame == {"write_fails", "unacknowledged", "read_fails"}

Called(fn, arg, word, bus) == [fn |-> fn, arg |-> arg, word |-> word, bus |-> bus]

TypeOK ==
  /\ registered \in BOOLEAN /\ active \in BOOLEAN
  /\ edc \in [clock : Word, paused : BOOLEAN, taken : 0 .. Packages]
  /\ temp \in Temps /\ freq \in Freqs
  /\ call.bus \in Buses
  /\ err \in {PL_OK, INVALID_ARG, -UNKNOWN, -UNSUPPORTED_FN, -DATA, -INVALID_ARG}
  /\ Len(sent) <= 2

Init ==
  /\ registered = FALSE /\ active = FALSE
  /\ edc = [clock |-> ZeroWord, paused |-> TRUE, taken |-> 0]
  /\ temp \in Temps /\ freq \in Freqs
  /\ call = Called("none", 0, ZeroWord, "works") /\ sent = <<>> /\ err = PL_OK /\ out = NotWritten

\* Mutation: the pop is sent before the package is looked at.
PopAfter_Always(f) == TRUE

\* edc_pl_read_data pops a package after it was read and copied.
PopAfter(f) == Accepted(ID_PTT, f)

\* A call that ends before it reaches the bus.
Returns(fn, arg, e) ==
  /\ call' = Called(fn, arg, ZeroWord, "works") /\ err' = e /\ sent' = <<>> /\ out' = NotWritten
  /\ UNCHANGED <<registered, active, edc, temp, freq>>

\* The dispatch on a handle that nobody filled, or with a null buffer.
Refused(fn, arg) == Returns(fn, arg, INVALID_ARG)

\* payload_edc_init: 1 is the EDC on the I2C bus, 2 is not supported.
PayloadEdcInit ==
  \/ registered' = TRUE /\ call' = Called("register", 1, ZeroWord, "works") /\ err' = PL_OK
     /\ sent' = <<>> /\ out' = NotWritten
     /\ UNCHANGED <<active, edc, temp, freq>>
  \/ Returns("register", 2, -UNSUPPORTED_FN)
  \/ \E id \in {0, 3} : Returns("register", id, -INVALID_ARG)

\* payload_init, edc_pl_init, edc_init: the device file exists and a STATE frame comes
\* back; its checksum is not looked at.
PayloadInit ==
  IF ~registered THEN Refused("init", 0)
  ELSE \E bus \in Buses \ PopBuses : \E f \in Disturbed(ID_STATE, bus) :
         LET good == bus \notin NoFrame /\ f[1] = ID_STATE
         IN /\ err' = IF good THEN PL_OK ELSE -UNKNOWN
            /\ active' = (active \/ good)
            /\ call' = Called("init", 0, ZeroWord, bus) /\ out' = NotWritten
            /\ sent' = IF bus = "write_fails" THEN <<>> ELSE <<CmdFrame(GET_STATE, ZeroWord)>>
            /\ UNCHANGED <<registered, edc, temp, freq>>

\* payload_read_data, edc_pl_read_data and the decoders: the buffer is null, too small or
\* large enough, the type a frame's or not.
ReadData ==
  \E type \in Kinds \cup {ID_ADC_SEQ}, buffer \in {"null", "small", "enough"} :
    IF ~registered \/ buffer = "null" THEN Refused("read", type)
    ELSE IF type = ID_ADC_SEQ THEN Returns("read", type, -UNSUPPORTED_FN)
    ELSE IF buffer = "small" THEN Returns("read", type, -DATA)
    ELSE \E bus \in Buses : \E f \in Disturbed(type, bus) :
           LET good == bus \notin NoFrame /\ Accepted(type, f)
               pops == type = ID_PTT /\ bus \notin NoFrame \cup {"pop_fails"} /\ PopAfter(f)
               pop == CmdFrame(PTT_POP, ZeroWord)
           IN /\ bus \in PopBuses => type = ID_PTT
              /\ out' = IF good THEN Decode(type, f) ELSE NotWritten
              /\ err' = IF good /\ bus \notin PopBuses THEN PL_OK ELSE -UNKNOWN
              /\ sent' = IF bus = "write_fails" THEN <<>>
                         ELSE <<CmdFrame(GetCommand(type), ZeroWord)>>
                                \o (IF pops THEN <<pop>> ELSE <<>>)
              /\ IF pops THEN React(pop) ELSE UNCHANGED edc
              /\ call' = Called("read", type, ZeroWord, bus)
              /\ UNCHANGED <<registered, active, temp, freq>>

\* A command reaches the EDC or does not, and is acknowledged or not.
Command(fn, arg, word, f) ==
  \E bus \in {"works", "write_fails", "unacknowledged"} :
    /\ err' = IF bus = "works" THEN PL_OK ELSE -UNKNOWN
    /\ IF bus = "write_fails" THEN sent' = <<>> /\ UNCHANGED edc
                              ELSE sent' = <<f>> /\ React(f)
    /\ call' = Called(fn, arg, word, bus) /\ out' = NotWritten
    /\ UNCHANGED <<registered, active, temp, freq>>

\* payload_write_cmd, edc_pl_write_cmd, edc_write_cmd: four arguments, the highest byte
\* first; a command the driver does not know, or fewer arguments, are refused.
WriteCmd ==
  \E cmd \in Commands \cup {0}, buffer \in {"null", "small", "enough"}, args \in Times :
    IF ~registered \/ buffer = "null" THEN Refused("cmd", cmd)
    ELSE IF buffer = "small" THEN Returns("cmd", cmd, -DATA)
    ELSE IF cmd \notin Commands THEN Returns("cmd", cmd, -UNKNOWN)
    ELSE Command("cmd", cmd, args, CmdFrame(cmd, args))

\* PAYLOAD_UNIX_TO_J2000_EPOCH: ts - 946684800 in 32 bits.
SinceJ2000(ts) == Minus(ts, <<56, 109, 67, 128>>)

\* payload_set_clock, edc_pl_set_clock, edc_set_rtc_time.
SetClock ==
  \E null \in BOOLEAN, ts \in Times :
    IF ~registered \/ null THEN Refused("clock", 0)
    ELSE Command("clock", 0, ts, CmdFrame(RTC_SET, SinceJ2000(ts)))

\* payload_write_data, payload_get_clock, payload_enable, payload_disable.
Unsupported ==
  \E fn \in {"write", "get_clock", "enable", "disable"} :
    IF ~registered THEN Refused(fn, 0)
    ELSE Returns(fn, 0, -UNSUPPORTED_FN)

Next == PayloadEdcInit \/ PayloadInit \/ ReadData \/ WriteCmd \/ SetClock \/ Unsupported
-----------------------------------------------------------------------------
\* khz is f * 128 / 2^11 + 401635 without what is behind the point.
CutToKhz(khz, f) ==
  LET khz16 == f + 16 * 401635
  IN IF khz16 >= 0 THEN khz16 - 16 * khz \in 0 .. 15 ELSE 16 * khz - khz16 \in 0 .. 15

\* What edc_hk_t.temp holds for a byte of the frame: 40 less, as edc.h has it, up to the
\* byte 167; from 168 on the int8_t wraps, and 168 reads as -128.
Celsius(byte) == IF byte < 168 THEN byte - 40 ELSE byte - 296

\* What a read that returned PL_OK wrote is what the EDC had, field by field: no frame
\* with a wrong byte, of another kind or of zeros is decoded, and every field comes from
\* the bytes that edc.h lists for it, with two exceptions that are stated: a temperature
\* above 127 degrees wraps, and the 36 bytes of user_msg are the 35 of the message and
\* then the frame's checksum.  (The package is the one before the pop.)
OkMeansDecoded ==
  call.fn = "read" /\ err = PL_OK =>
    /\ call.bus = "works"
    /\ call.arg = ID_STATE =>
         out = [current_time |-> edc.clock, ptt_available |-> Packages - edc.taken,
                ptt_is_paused |-> edc.paused, sampler_state |-> 2]
    /\ call.arg = ID_PTT =>
         /\ out.time_tag = Reversed(Seq8(19 + edc.taken, 4)) /\ out.error_code = edc.taken - 1
         /\ CutToKhz(out.carrier_freq, freq)
         /\ out.carrier_abs = <<8, 7>>
         /\ out.msg_byte_length = 35 /\ out.user_msg = Append(Message(edc.taken - 1), XorSum(PttBody(edc.taken - 1)))
    /\ call.arg = ID_HK =>
         /\ out.current_time = edc.clock /\ out.elapsed_time = <<14, 13, 12, 11>>
         /\ out.current_supply_d = <<22, 21>> /\ out.current_supply_a = <<24, 23>>
         /\ out.voltage_supply = <<26, 25>> /\ out.temp = Celsius(temp)
         /\ out.pll_sync_bit = 1 /\ out.adc_rms = <<32, 31>> /\ out.num_rx_ptt = <<44, 43, 42, 41>>
         /\ out.max_parl_decod = 50 /\ out.mem_err_count = 51

\* What the EDC does after a call that returned PL_OK is what was asked for: its clock
\* counts from J2000 what set_clock was given from 1970, modulo 2^32, and RTC_SET as a
\* plain command takes its four arguments as they stand.
CommandArrives ==
  err = PL_OK =>
    /\ call.fn = "clock" => Plus(edc.clock, <<56, 109, 67, 128>>) = call.word
    /\ call.fn = "cmd" /\ call.arg = RTC_SET => edc.clock = call.word
    /\ call.fn = "cmd" /\ call.arg \in {PTT_PAUSE, PTT_RESUME} => edc.paused = (call.arg = PTT_PAUSE)

\* A call that did not return PL_OK leaves the EDC as it was, unless only the
\* acknowledgement was lost; even then a package leaves the FIFO only by a pop command or
\* by a read that gave it to the caller.
HarmlessIfFailed ==
  /\ err' # PL_OK => edc' = edc \/ call'.bus \in {"unacknowledged", "pop_unacknowledged"}
  /\ edc'.taken # edc.taken => call'.fn = "cmd" \/ out' # NotWritten
-----------------------------------------------------------------------------
\* The inductive invariant: each call overwrites what the one before left.
IInv == TypeOK /\ OkMeansDecoded /\ CommandArrives
=============================================================================
