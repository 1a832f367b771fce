------------------------------ MODULE TtcPackets ------------------------------
(***************************************************************************)
(* Packets through a TTC radio: ttc_send, ttc_recv and ttc_avail of        *)
(* src/src/devices/ttc.c over the packet functions of                      *)
(* src/src/drivers/sl_ttc2.c, as called by several threads.                *)
(*                                                                         *)
(* TtcDriver shows that nobody speaks to a radio inside a section of the   *)
(* mutex, so here a section is one step.  A reception takes three of them: *)
(* the number of packets, the length of the first one, and the packet,     *)
(* which the radio removes from its FIFO as it hands it out.  What SPI can *)
(* do to a section is as in TtcDriver: the host's transfer fails, the      *)
(* radio misses the command and shifts out an older reply again, or the    *)
(* reply arrives damaged.                                                  *)
(***************************************************************************)
EXTENDS Naturals, Sequences

CONSTANTS
  Callers,     \* threads
  Lens,        \* lengths of the packets that arrive
  MaxPackets,  \* bound on the packets that arrive
  MaxFifo,     \* packets the radio's FIFO takes
  MaxFaults    \* bound on transfers that go wrong

\* 227 is the longest packet whose transfer fits the 230 bytes of sl_ttc2_spi_read.
ASSUME TtcPacketsConstants ==
  Lens \subseteq 1 .. 227 /\ MaxPackets \in Nat /\ MaxFifo \in Nat /\ MaxFaults \in Nat

\* A frame the radio shifts out: a packet, the reply of a register, or zeros.
Packets == [kind : {"packet"}, id : 1 .. MaxPackets, val : Lens]
RegReply(adr, v) == [kind |-> adr, id |-> 0, val |-> v]
Zeros == RegReply("zeros", 0)
Replies == [kind : {"zeros", "id", "fifo", "len"}, id : {0}, val : Nat]
Frames == Packets \cup Replies
UNREAD == 65535    \* (uint16_t) of what a failed register read leaves

VARIABLES
  fifo,       \* the radio's received packets
  stale,      \* the frame it shifts out to a caller whose command it missed
  idMatches,  \* its ID is the one expected on this port
  given,      \* history: per packet taken for transmission, whether its sender
              \* could not read the ID
  pc,         \* the next section of each caller
  len,        \* *len of its reception
  unread,     \* history: the ID could not be read
  missed,     \* history: the radio missed a command of the call
  raced,      \* history: somebody else took a packet since the length was read
  delivered,  \* history: what receptions that returned 0 gave their callers
  excused,    \* history: packets whose transfer went wrong or was raced
  arrived, faults

vars == <<fifo, stale, idMatches, given, pc, len, unread, missed, raced,
          delivered, excused, arrived, faults>>
radio == <<fifo, idMatches, given, arrived>>
receptions == <<len, raced, delivered, excused>>

\* What a reception that returned 0 leaves in the history.
Receptions == [what : Frames, len : 1 .. 300, missed : BOOLEAN, raced : BOOLEAN]

RadioOK ==
  /\ fifo \in Seq(Packets) /\ Len(fifo) <= MaxFifo
  /\ stale \in Frames
  /\ idMatches \in BOOLEAN /\ given \in SUBSET BOOLEAN
  /\ arrived \in 0 .. MaxPackets /\ faults \in 0 .. MaxFaults

CallsOK ==
  /\ pc \in [Callers -> {"idle", "avail", "length", "packet", "check", "transmit"}]
  /\ len \in [Callers -> 0 .. UNREAD]
  /\ unread \in [Callers -> BOOLEAN]
  /\ missed \in [Callers -> BOOLEAN] /\ raced \in [Callers -> BOOLEAN]
  /\ delivered \in Seq(Receptions)
  /\ excused \subseteq 1 .. MaxPackets

TypeOK == RadioOK /\ CallsOK

Init ==
  /\ fifo = <<>> /\ stale = Zeros
  /\ idMatches \in BOOLEAN
  /\ given = {}
  /\ pc = [c \in Callers |-> "idle"]
  /\ len = [c \in Callers |-> 0]
  /\ unread = [c \in Callers |-> FALSE]
  /\ missed = [c \in Callers |-> FALSE]
  /\ raced = [c \in Callers |-> FALSE]
  /\ delivered = <<>> /\ excused = {}
  /\ arrived = 0 /\ faults = 0

Goto(c, from, to) == pc[c] = from /\ pc' = [pc EXCEPT ![c] = to]

-----------------------------------------------------------------------------
\* What a section may meet.
Fine == UNCHANGED <<faults, missed>>
Fault == faults < MaxFaults /\ faults' = faults + 1
HostFails == Fault /\ UNCHANGED missed
Misses(c) == Fault /\ missed' = [missed EXCEPT ![c] = TRUE]

\* sl_ttc2_read_reg of a register that holds v: it succeeds with the value got.  The
\* reply to an earlier read of the same register passes its checks.
ReadReg(c, adr, v, ok, got) ==
  \/ Fine /\ ok = TRUE /\ got = v /\ stale' = RegReply(adr, v)
  \/ HostFails /\ ok = FALSE /\ got = UNREAD /\ stale' \in {stale, RegReply(adr, v)}
  \/ /\ Misses(c) /\ UNCHANGED stale
     /\ ok = (stale.kind = adr)
     /\ got = IF ok THEN stale.val ELSE UNREAD

\* A call of ttc_recv, and of ttc_send.
BeginRecv(c) ==
  /\ Goto(c, "idle", "avail")
  /\ missed' = [missed EXCEPT ![c] = FALSE]
  /\ UNCHANGED <<radio, stale, unread, receptions, faults>>

BeginSend(c) ==
  /\ Goto(c, "idle", "check")
  /\ missed' = [missed EXCEPT ![c] = FALSE]
  /\ UNCHANGED <<radio, stale, unread, receptions, faults>>

\* ttc_avail: the number of packets in the RX FIFO, or -1; with none of them
\* ttc_recv returns -1.
Avail(c) ==
  /\ \E ok \in BOOLEAN, n \in (0 .. MaxFifo) \cup {UNREAD} :
       /\ ReadReg(c, "fifo", Len(fifo), ok, n)
       /\ Goto(c, "avail", IF ok /\ n > 0 THEN "length" ELSE "idle")
  /\ UNCHANGED <<radio, unread, receptions>>

\* LEN_FIRST_RX_PACKET_IN_FIFO of the radio.
FirstLen == IF fifo = <<>> THEN 0 ELSE Head(fifo).val

\* sl_ttc2_read_len_rx_pkt_in_fifo: *len is written even when the read fails.
Length(c) ==
  /\ \E ok \in BOOLEAN, n \in Lens \cup {0, UNREAD} :
       /\ ReadReg(c, "len", FirstLen, ok, n)
       /\ len' = [len EXCEPT ![c] = n]
       /\ Goto(c, "length", IF ok /\ n > 0 /\ n <= 300 THEN "packet" ELSE "idle")
  /\ raced' = [raced EXCEPT ![c] = FALSE]
  /\ UNCHANGED <<radio, unread, delivered, excused>>

\* The bytes of a frame behind its preamble and command, its CRC apart.
Body(f) == IF f.kind = "packet" THEN f.val ELSE 5

\* Mutation: a CRC of zero is taken for a frame that ended early.
CrcFits_Strict(f, l) == f # Zeros /\ Body(f) < l

\* The CRC of the frame read with l bytes of data: it fits a frame of that length, a
\* shorter one too, because the CRC of a frame and its own CRC is 0 and stays 0 over
\* the zeros that follow, and zeros alone.  A fit by chance is left out.
CrcFits(f, l) == f = Zeros \/ Body(f) <= l

\* The radio hands out its first packet, and is without it.
Hand == IF fifo = <<>> THEN Zeros ELSE Head(fifo)
Taken(c) ==
  /\ fifo' = IF fifo = <<>> THEN fifo ELSE Tail(fifo)
  /\ raced' = [d \in Callers |-> raced[d] \/ (d # c /\ fifo # <<>>)]
  /\ stale' = Hand

Excuse(f) == excused' = IF f.kind = "packet" THEN excused \cup {f.id} ELSE excused

\* The caller gets what it read, or -1.
Deliver(c, f) ==
  IF CrcFits(f, len[c])
    THEN /\ delivered' = Append(delivered, [what |-> f, len |-> len[c],
                                            missed |-> missed'[c], raced |-> raced[c]])
         /\ UNCHANGED excused
    ELSE /\ UNCHANGED delivered
         /\ IF raced[c] THEN Excuse(f) ELSE UNCHANGED excused

\* Mutation: a transfer that failed is read again without the command.
Packet_AnyTransfer(c) ==
  /\ Goto(c, "packet", "idle")
  /\ \/ Fine /\ Taken(c) /\ Deliver(c, Hand)
     \/ HostFails /\ Deliver(c, stale) /\ UNCHANGED <<fifo, raced, stale>>
  /\ UNCHANGED <<idMatches, given, arrived, unread, len>>

\* The rest of sl_ttc2_read_packet: the command, then the frame.
Packet(c) ==
  /\ Goto(c, "packet", "idle")
  /\ \/ Fine /\ Taken(c) /\ Deliver(c, Hand)
     \/ HostFails /\ UNCHANGED <<fifo, raced, stale, delivered, excused>>
     \/ HostFails /\ Taken(c) /\ Excuse(Hand) /\ UNCHANGED delivered
     \/ Misses(c) /\ Deliver(c, stale) /\ UNCHANGED <<fifo, raced, stale>>
  /\ UNCHANGED <<idMatches, given, arrived, unread, len>>

-----------------------------------------------------------------------------
\* Mutation: the result of the check is not looked at.
Check_Ignored(c) ==
  /\ Goto(c, "check", "transmit")
  /\ \E ok \in BOOLEAN, n \in {0, 1, UNREAD} :
       /\ ReadReg(c, "id", IF idMatches THEN 1 ELSE 0, ok, n)
       /\ unread' = [unread EXCEPT ![c] = ~ok]
  /\ UNCHANGED <<radio, receptions>>

\* sl_ttc2_check_device, whose result is 0 too when the ID cannot be read.
Check(c) ==
  /\ \E ok \in BOOLEAN, n \in {0, 1, UNREAD} :
       /\ ReadReg(c, "id", IF idMatches THEN 1 ELSE 0, ok, n)
       /\ unread' = [unread EXCEPT ![c] = ~ok]
       /\ Goto(c, "check", IF ok /\ n # 1 THEN "idle" ELSE "transmit")
  /\ UNCHANGED <<radio, receptions>>

\* sl_ttc2_transmit_packet: the header, then the bytes.  The radio takes a packet
\* whose header it heard and whose bytes came.
Transmit(c) ==
  /\ Goto(c, "transmit", "idle")
  /\ \/ Fine /\ given' = given \cup {unread[c]}
     \/ (HostFails \/ Misses(c)) /\ UNCHANGED given
  /\ UNCHANGED <<fifo, stale, idMatches, arrived, unread, receptions>>

\* A packet arrives.
Arrives ==
  /\ arrived < MaxPackets /\ Len(fifo) < MaxFifo
  /\ arrived' = arrived + 1
  /\ \E l \in Lens : fifo' = Append(fifo, [kind |-> "packet", id |-> arrived', val |-> l])
  /\ UNCHANGED <<stale, idMatches, given, pc, len, unread, missed, raced,
                 delivered, excused, faults>>

Call(c) == \/ BeginRecv(c) \/ Avail(c) \/ Length(c) \/ Packet(c)
           \/ BeginSend(c) \/ Check(c) \/ Transmit(c)
Next == Arrives \/ \E c \in Callers : Call(c)
Spec == Init /\ [][Next]_vars
-----------------------------------------------------------------------------
\* A reception that returned 0 gave its caller one whole packet, with the length of
\* that packet, unless the radio missed a command of the call or somebody else took
\* a packet between its length and its bytes (sl_ttc2_read_packet reads the two in
\* different sections of the mutex); and whoever receives, packets are given out in
\* the order they arrived and none twice, as long as the commands are heard.
DeliveredWhole ==
  \A k \in DOMAIN delivered :
    LET d == delivered[k]
    IN ~d.missed =>
         /\ ~d.raced => d.what.kind = "packet" /\ d.what.val = d.len
         /\ \A j \in 1 .. k - 1 :
              ~delivered[j].missed /\ {delivered[j].what.kind, d.what.kind} = {"packet"}
                => delivered[j].what.id < d.what.id

\* A packet that has left the FIFO was given to a caller, or its transfer went wrong
\* or was raced: no reception drops one on its own.
NoPacketDropped ==
  \A i \in 1 .. arrived :
    \/ \E k \in DOMAIN fifo : fifo[k].id = i
    \/ \E k \in DOMAIN delivered : delivered[k].what.id = i
    \/ i \in excused

\* A radio with the wrong ID is given a packet only by a call that could not read
\* the ID, which sl_ttc2_check_device takes for a right one.
WrongRadioSilent == ~idMatches => FALSE \notin given
-----------------------------------------------------------------------------
(* The inductive invariant *)

\* The FIFO is in the order of arrival, and behind every packet that was given out
\* to a caller whose commands were heard.
FifoInOrder ==
  /\ \A k \in DOMAIN fifo : fifo[k].id <= arrived
  /\ \A j, k \in DOMAIN fifo : j < k => fifo[j].id < fifo[k].id
  /\ \A i \in DOMAIN delivered :
       LET d == delivered[i]
       IN ~d.missed /\ d.what.kind = "packet" =>
            d.what.id <= arrived /\ \A k \in DOMAIN fifo : d.what.id < fifo[k].id

\* An old reply that is shifted out again in place of a new one is still right: a packet
\* taken in the meantime would have replaced it.
OldReply ==
  /\ stale.kind = "len" /\ stale.val # 0 => fifo # <<>> /\ fifo[1].val = stale.val
  /\ stale.kind = "id" => stale.val = IF idMatches THEN 1 ELSE 0

\* Before its last section a caller knows the length of the first packet, unless another
\* caller took that packet; and one that goes on to transmit has read the right ID, or none.
KnowsFirst ==
  \A c \in Callers :
    pc[c] = "packet" =>
      /\ len[c] \in 1 .. 300
      /\ ~raced[c] => fifo # <<>> /\ fifo[1].val = len[c]
KnowsId == \A c \in Callers : pc[c] = "transmit" /\ ~idMatches => unread[c]

IInv == /\ TypeOK /\ FifoInOrder /\ OldReply /\ KnowsFirst /\ KnowsId
        /\ DeliveredWhole /\ NoPacketDropped /\ WrongRadioSilent
=============================================================================
