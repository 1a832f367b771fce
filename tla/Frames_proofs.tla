----------------------------- MODULE Frames_proofs -----------------------------
(***************************************************************************)
(* What goes over the buses, as packets and byte by byte: what ttc_recv    *)
(* and ttc_send promise of packets, for any callers, any lengths and       *)
(* numbers of packets, any depth of the radio's FIFO and any number of     *)
(* transfers that go wrong; and what the frames of the radio, the EPS and  *)
(* the EDC carry, for any words, any disturbances of a byte, and any       *)
(* temperature, carrier frequency and number of packages of the EDC.       *)
(***************************************************************************)
EXTENDS TtcPackets, Codecs, SequenceTheorems, WellFoundedInduction, TLAPS

-----------------------------------------------------------------------------
(* TtcPackets *)

(* What a failed read of the length leaves is more than a packet has.         *)
LEMMA Unread == UNREAD \in Nat /\ UNREAD > 300
BY DEF UNREAD

(* A sequence of packets that is not empty, its first one and the rest.       *)
LEMMA TailOf ==
  ASSUME NEW T, NEW s \in Seq(T), s # <<>>
  PROVE  /\ Head(s) = s[1] /\ s[1] \in T /\ Len(s) \in Nat \ {0}
         /\ Tail(s) \in Seq(T) /\ Len(Tail(s)) = Len(s) - 1
         /\ \A k \in 1 .. Len(s) - 1 : Tail(s)[k] = s[k + 1] /\ s[k + 1] \in T
OBVIOUS

(* A sequence with one more element behind it.                                *)
LEMMA AppendTo ==
  ASSUME NEW T, NEW s \in Seq(T), NEW x \in T
  PROVE  /\ Append(s, x) \in Seq(T) /\ Len(s) \in Nat /\ Len(Append(s, x)) = Len(s) + 1
         /\ \A k \in 1 .. Len(s) : Append(s, x)[k] = s[k] /\ s[k] \in T
         /\ Append(s, x)[Len(s) + 1] = x
OBVIOUS

(* What the radio can shift out.                                              *)
LEMMA FrameTypes ==
  /\ Zeros \in Frames /\ Zeros.kind = "zeros" /\ Zeros.id = 0 /\ Zeros.val = 0
  /\ \A a \in {"zeros", "id", "fifo", "len"}, v \in Nat :
       /\ RegReply(a, v) \in Frames
       /\ RegReply(a, v).kind = a /\ RegReply(a, v).id = 0 /\ RegReply(a, v).val = v
  /\ \A f \in Frames : /\ f.id \in Nat /\ f.val \in Nat
                       /\ f.kind \in {"packet", "zeros", "id", "fifo", "len"}
                       /\ f.kind = "packet" => f \in Packets
  /\ \A f \in Packets : /\ f \in Frames /\ f.kind = "packet"
                        /\ f.id \in 1 .. MaxPackets /\ f.val \in 1 .. 227
<1>1. \A a \in {"zeros", "id", "fifo", "len"}, v \in Nat :
        /\ RegReply(a, v) \in Replies
        /\ RegReply(a, v).kind = a /\ RegReply(a, v).id = 0 /\ RegReply(a, v).val = v
  BY DEF Replies, RegReply
<1>2. \A f \in Replies : f.id \in Nat /\ f.val \in Nat /\ f.kind \in {"zeros", "id", "fifo", "len"}
  BY DEF Replies
<1>3. \A f \in Packets : f.kind = "packet" /\ f.id \in 1 .. MaxPackets /\ f.val \in 1 .. 227
  BY TtcPacketsConstants DEF Packets
<1>4. Zeros \in Replies /\ Zeros.kind = "zeros" /\ Zeros.id = 0 /\ Zeros.val = 0
  BY <1>1 DEF Zeros
<1>5. \A f \in Packets : f.id \in Nat /\ f.val \in Nat
  BY <1>3, TtcPacketsConstants
<1>6. QED
  BY <1>1, <1>2, <1>3, <1>4, <1>5 DEF Frames

(* What a read of a register does to the radio and to the histories.          *)
LEMMA ReadRegEffect ==
  ASSUME RadioOK, CallsOK, NEW c \in Callers, NEW a \in {"id", "fifo", "len"}, NEW v \in Nat,
         NEW ok \in BOOLEAN, NEW read, ReadReg(c, a, v, ok, read)
  PROVE  /\ faults' \in 0 .. MaxFaults
         /\ missed' \in {missed, [missed EXCEPT ![c] = TRUE]}
         /\ stale' \in Frames /\ stale' \in {stale, RegReply(a, v)}
<1>1. RegReply(a, v) \in Frames
  BY FrameTypes
<1>2. stale \in Frames /\ faults \in 0 .. MaxFaults
  BY DEF RadioOK
<1>3. /\ Fine \/ HostFails \/ Misses(c)
      /\ stale' \in {stale, RegReply(a, v)}
  BY DEF ReadReg
<1>4. faults' \in 0 .. MaxFaults /\ missed' \in {missed, [missed EXCEPT ![c] = TRUE]}
  BY <1>2, <1>3, TtcPacketsConstants DEF Fine, Fault, HostFails, Misses
<1>5. QED
  BY <1>1, <1>2, <1>3, <1>4

(* A read that succeeds has got the value, or the one of an old reply.        *)
LEMMA ReadRegValue ==
  ASSUME NEW c, NEW a, NEW v, NEW read, ReadReg(c, a, v, TRUE, read)
  PROVE  read = v \/ (stale.kind = a /\ read = stale.val)
BY DEF ReadReg

(* Initially the FIFO and the histories are empty.                            *)
LEMMA InitInv == Init => IInv
<1> SUFFICES ASSUME Init PROVE IInv
  OBVIOUS
<1>1. fifo = <<>> /\ delivered = <<>> /\ Len(fifo) = 0 /\ DOMAIN fifo = {} /\ DOMAIN delivered = {}
  BY DEF Init
<1>2. RadioOK
  BY <1>1, FrameTypes, TtcPacketsConstants DEF Init, RadioOK
<1>3. CallsOK
  BY <1>1, Unread DEF Init, CallsOK
<1>4. FifoInOrder /\ DeliveredWhole
  BY <1>1 DEF FifoInOrder, DeliveredWhole
<1>5. OldReply
  BY FrameTypes DEF Init, OldReply
<1>6. KnowsFirst /\ KnowsId /\ WrongRadioSilent
  BY DEF Init, KnowsFirst, KnowsId, WrongRadioSilent
<1>7. NoPacketDropped
  BY DEF Init, NoPacketDropped
<1>8. QED
  BY <1>2, <1>3, <1>4, <1>5, <1>6, <1>7 DEF IInv, TypeOK

(* What the packet that is handed out is, and what it leaves in the FIFO.     *)
LEMMA HandOver ==
  ASSUME RadioOK, CallsOK, NEW c \in Callers, Taken(c)
  PROVE  /\ Hand \in Frames /\ stale' = Hand
         /\ fifo' \in Seq(Packets) /\ Len(fifo') <= MaxFifo
         /\ raced' \in [Callers -> BOOLEAN] /\ raced'[c] = raced[c]
         /\ fifo = <<>> => Hand = Zeros /\ fifo' = fifo /\ raced' = raced
         /\ fifo # <<>> => /\ Hand = fifo[1] /\ Hand \in Packets
                           /\ DOMAIN fifo' = 1 .. Len(fifo) - 1
                           /\ \A k \in DOMAIN fifo' : k + 1 \in DOMAIN fifo /\ fifo'[k] = fifo[k + 1]
                           /\ \A d \in Callers : d # c => raced'[d]
<1>1. fifo \in Seq(Packets) /\ Len(fifo) <= MaxFifo /\ Len(fifo) \in Nat /\ raced \in [Callers -> BOOLEAN]
  BY DEF RadioOK, CallsOK
<1>2. CASE fifo = <<>>
  BY <1>1, <1>2, FrameTypes DEF Taken, Hand
<1>3. CASE fifo # <<>>
  <2>1. /\ Hand = fifo[1] /\ fifo[1] \in Packets /\ fifo' = Tail(fifo) /\ stale' = Hand
        /\ raced' = [d \in Callers |-> raced[d] \/ d # c]
    BY <1>1, <1>3, TailOf DEF Taken, Hand
  <2>2. /\ fifo' \in Seq(Packets) /\ Len(fifo') = Len(fifo) - 1
        /\ \A k \in 1 .. Len(fifo) - 1 : fifo'[k] = fifo[k + 1]
    BY <1>1, <1>3, <2>1, TailOf
  <2>3. Len(fifo') <= MaxFifo /\ Len(fifo) \in Nat \ {0}
    BY <1>1, <1>3, <2>2, TailOf, TtcPacketsConstants
  <2>4. DOMAIN fifo' = 1 .. Len(fifo) - 1 /\ \A k \in DOMAIN fifo' : k + 1 \in DOMAIN fifo
    BY <1>1, <2>2, <2>3
  <2>5. raced' \in [Callers -> BOOLEAN] /\ raced'[c] = raced[c] /\ \A d \in Callers : d # c => raced'[d]
    BY <1>1, <2>1
  <2>6. QED
    BY <1>3, <2>1, <2>2, <2>3, <2>4, <2>5, FrameTypes
<1>4. QED
  BY <1>2, <1>3

(* Only a transfer of packet bytes and an arrival touch the FIFO and what     *)
(* the callers were given.                                                    *)
Quiet(c) == BeginRecv(c) \/ Avail(c) \/ Length(c) \/ BeginSend(c) \/ Check(c) \/ Transmit(c)

LEMMA QuietKeeps ==
  ASSUME NEW c, Quiet(c)
  PROVE  UNCHANGED <<fifo, idMatches, arrived, delivered, excused>>
BY DEF Quiet, BeginRecv, Avail, Length, BeginSend, Check, Transmit, radio, receptions

(* What a caller is given.                                                    *)
Given(c, f) == [what |-> f, len |-> len[c], missed |-> missed'[c], raced |-> raced[c]]

LEMMA Delivery ==
  ASSUME CallsOK, NEW c \in Callers, NEW f \in Frames, len[c] \in 1 .. 300,
         missed' \in [Callers -> BOOLEAN], Deliver(c, f)
  PROVE  /\ delivered' \in Seq(Receptions)
         /\ excused' \subseteq 1 .. MaxPackets /\ excused \subseteq excused'
         /\ CrcFits(f, len[c]) => delivered' = Append(delivered, Given(c, f)) /\ Given(c, f) \in Receptions
         /\ ~CrcFits(f, len[c]) => delivered' = delivered
         /\ ~CrcFits(f, len[c]) /\ raced[c] /\ f.kind = "packet" => f.id \in excused'
<1>1. /\ delivered \in Seq(Receptions) /\ excused \subseteq 1 .. MaxPackets
      /\ raced \in [Callers -> BOOLEAN]
  BY DEF CallsOK
<1>2. Given(c, f) \in Receptions
  BY <1>1 DEF Given, Receptions
<1>3. CASE CrcFits(f, len[c])
  <2>1. delivered' = Append(delivered, Given(c, f)) /\ excused' = excused
    BY <1>3 DEF Deliver, Given
  <2>2. QED
    BY <1>1, <1>2, <1>3, <2>1, AppendTo
<1>4. CASE ~CrcFits(f, len[c])
  <2>1. delivered' = delivered /\ (IF raced[c] THEN Excuse(f) ELSE UNCHANGED excused)
    BY <1>4 DEF Deliver
  <2>2. /\ f.kind = "packet" => f.id \in 1 .. MaxPackets
        /\ excused' = excused \/ (f.kind = "packet" /\ excused' = excused \cup {f.id})
        /\ raced[c] /\ f.kind = "packet" => f.id \in excused'
    BY <2>1, FrameTypes DEF Excuse
  <2>3. QED
    BY <1>1, <1>4, <2>1, <2>2
<1>5. QED
  BY <1>3, <1>4

(* The four outcomes of the transfer of a packet.                             *)
LEMMA PacketOutcomes ==
  ASSUME RadioOK, CallsOK, NEW c \in Callers, Packet(c)
  PROVE  /\ pc[c] = "packet" /\ pc' = [pc EXCEPT ![c] = "idle"]
         /\ UNCHANGED <<idMatches, given, arrived, unread, len>>
         /\ faults' \in 0 .. MaxFaults /\ missed' \in [Callers -> BOOLEAN]
         /\ \/ missed' = missed /\ Taken(c) /\ Deliver(c, Hand)
            \/ missed' = missed /\ UNCHANGED <<fifo, raced, stale, delivered, excused>>
            \/ missed' = missed /\ Taken(c) /\ Excuse(Hand) /\ UNCHANGED delivered
            \/ missed'[c] /\ Deliver(c, stale) /\ UNCHANGED <<fifo, raced, stale>>
<1>1. missed \in [Callers -> BOOLEAN] /\ faults \in 0 .. MaxFaults
  BY DEF RadioOK, CallsOK
<1>2. faults' \in 0 .. MaxFaults /\ missed' \in [Callers -> BOOLEAN]
  <2>1. (Fine \/ HostFails \/ Misses(c)) => faults' \in 0 .. MaxFaults
    BY <1>1, TtcPacketsConstants DEF Fine, Fault, HostFails, Misses
  <2>2. (Fine \/ HostFails \/ Misses(c)) => missed' \in [Callers -> BOOLEAN]
    BY <1>1 DEF Fine, HostFails, Misses
  <2>3. QED
    BY <2>1, <2>2 DEF Packet
<1>3. Misses(c) => missed'[c]
  BY <1>1 DEF Misses
<1>4. QED
  BY <1>2, <1>3 DEF Packet, Goto, Fine, HostFails

(* The length register, and what a caller can have read from it.              *)
LEMMA Lengths ==
  /\ fifo \in Seq(Packets) => FirstLen \in Nat
  /\ fifo \in Seq(Packets) /\ FirstLen # 0 => fifo # <<>> /\ fifo[1].val = FirstLen
  /\ Lens \cup {0, UNREAD} \subseteq 0 .. UNREAD
<1>1. fifo \in Seq(Packets) /\ fifo # <<>> => FirstLen = fifo[1].val /\ FirstLen \in Nat
  BY TailOf, FrameTypes DEF FirstLen
<1>2. fifo = <<>> => FirstLen = 0
  BY DEF FirstLen
<1>3. Lens \cup {0, UNREAD} \subseteq 0 .. UNREAD
  BY Unread, TtcPacketsConstants
<1>4. QED
  BY <1>1, <1>2, <1>3

(* An arrival is a packet behind all others.                                  *)
LEMMA ArrivesEffect ==
  ASSUME RadioOK, Arrives
  PROVE  /\ arrived' = arrived + 1 /\ arrived' \in 1 .. MaxPackets
         /\ fifo' \in Seq(Packets) /\ Len(fifo') <= MaxFifo
         /\ Len(fifo) \in Nat /\ DOMAIN fifo = 1 .. Len(fifo) /\ DOMAIN fifo' = 1 .. Len(fifo) + 1
         /\ \A k \in DOMAIN fifo : fifo'[k] = fifo[k]
         /\ fifo'[Len(fifo) + 1].id = arrived'
         /\ UNCHANGED <<stale, idMatches, given, pc, len, unread, missed, raced,
                        delivered, excused, faults>>
<1>1. /\ fifo \in Seq(Packets) /\ Len(fifo) \in Nat /\ arrived \in Nat /\ arrived < MaxPackets
      /\ Len(fifo) < MaxFifo
  BY TtcPacketsConstants DEF RadioOK, Arrives
<1>2. arrived' = arrived + 1 /\ arrived' \in 1 .. MaxPackets
  BY <1>1, TtcPacketsConstants DEF Arrives
<1>3. PICK l \in Lens : fifo' = Append(fifo, [kind |-> "packet", id |-> arrived', val |-> l])
  BY DEF Arrives
<1> DEFINE p == [kind |-> "packet", id |-> arrived', val |-> l]
<1>4. p \in Packets /\ p.id = arrived'
  BY <1>2 DEF Packets
<1> HIDE DEF p
<1>5. /\ fifo' \in Seq(Packets) /\ Len(fifo') = Len(fifo) + 1
      /\ \A k \in 1 .. Len(fifo) : fifo'[k] = fifo[k]
      /\ fifo'[Len(fifo) + 1] = p
  BY <1>1, <1>3, <1>4, AppendTo DEF p
<1>6. DOMAIN fifo = 1 .. Len(fifo) /\ DOMAIN fifo' = 1 .. Len(fifo) + 1 /\ Len(fifo') <= MaxFifo
  BY <1>1, <1>5, TtcPacketsConstants
<1>7. QED
  BY <1>1, <1>2, <1>4, <1>5, <1>6 DEF Arrives

(* Types.                                                                     *)
LEMMA StepRadio == TypeOK /\ KnowsFirst /\ [Next]_vars => RadioOK'
<1> SUFFICES ASSUME RadioOK, CallsOK, KnowsFirst, [Next]_vars PROVE RadioOK'
  BY DEF TypeOK
<1>1. CASE Arrives
  BY <1>1, ArrivesEffect, TtcPacketsConstants DEF RadioOK
<1>2. ASSUME NEW c \in Callers, BeginRecv(c) \/ BeginSend(c) PROVE RadioOK'
  BY <1>2 DEF BeginRecv, BeginSend, radio, RadioOK
<1>3. ASSUME NEW c \in Callers, Avail(c) PROVE RadioOK'
  <2>1. Len(fifo) \in Nat
    BY DEF RadioOK
  <2>2. stale' \in Frames /\ faults' \in 0 .. MaxFaults
    BY <1>3, <2>1, ReadRegEffect DEF Avail
  <2>3. QED
    BY <1>3, <2>2 DEF Avail, radio, RadioOK
<1>4. ASSUME NEW c \in Callers, Length(c) PROVE RadioOK'
  <2>1. FirstLen \in Nat
    BY Lengths DEF RadioOK
  <2>2. stale' \in Frames /\ faults' \in 0 .. MaxFaults
    BY <1>4, <2>1, ReadRegEffect DEF Length
  <2>3. QED
    BY <1>4, <2>2 DEF Length, radio, RadioOK
<1>5. ASSUME NEW c \in Callers, Check(c) PROVE RadioOK'
  <2>1. (IF idMatches THEN 1 ELSE 0) \in Nat
    OBVIOUS
  <2>2. stale' \in Frames /\ faults' \in 0 .. MaxFaults
    BY <1>5, <2>1, ReadRegEffect DEF Check
  <2>3. QED
    BY <1>5, <2>2 DEF Check, radio, RadioOK
<1>6. ASSUME NEW c \in Callers, Transmit(c) PROVE RadioOK'
  <2>1. unread[c] \in BOOLEAN
    BY DEF CallsOK
  <2>2. faults' \in 0 .. MaxFaults
    BY <1>6, TtcPacketsConstants DEF Transmit, RadioOK, Fine, HostFails, Misses, Fault
  <2>3. given' \in SUBSET BOOLEAN
    BY <1>6, <2>1 DEF Transmit, RadioOK
  <2>4. QED
    BY <1>6, <2>2, <2>3 DEF Transmit, RadioOK
<1>7. ASSUME NEW c \in Callers, Packet(c) PROVE RadioOK'
  <2>1. UNCHANGED <<idMatches, given, arrived>> /\ faults' \in 0 .. MaxFaults
    BY <1>7, PacketOutcomes
  <2>2. Taken(c) \/ UNCHANGED <<fifo, stale>>
    BY <1>7, PacketOutcomes
  <2>3. fifo' \in Seq(Packets) /\ Len(fifo') <= MaxFifo /\ stale' \in Frames
    BY <2>2, HandOver DEF RadioOK
  <2>4. QED
    BY <2>1, <2>3 DEF RadioOK
<1>8. CASE UNCHANGED vars
  BY <1>8 DEF vars, RadioOK
<1>9. QED
  BY <1>1, <1>2, <1>3, <1>4, <1>5, <1>6, <1>7, <1>8 DEF Next, Call

LEMMA StepCalls == TypeOK /\ KnowsFirst /\ [Next]_vars => CallsOK'
<1> SUFFICES ASSUME RadioOK, CallsOK, KnowsFirst, [Next]_vars PROVE CallsOK'
  BY DEF TypeOK
<1>0. /\ pc \in [Callers -> {"idle", "avail", "length", "packet", "check", "transmit"}]
      /\ len \in [Callers -> 0 .. UNREAD] /\ unread \in [Callers -> BOOLEAN]
      /\ missed \in [Callers -> BOOLEAN] /\ raced \in [Callers -> BOOLEAN]
  BY DEF CallsOK
<1>1. CASE Arrives
  BY <1>1, ArrivesEffect DEF CallsOK
<1>2. ASSUME NEW c \in Callers, BeginRecv(c) \/ BeginSend(c) PROVE CallsOK'
  BY <1>0, <1>2 DEF BeginRecv, BeginSend, Goto, receptions, CallsOK
<1>3. ASSUME NEW c \in Callers, Avail(c) PROVE CallsOK'
  <2>1. Len(fifo) \in Nat
    BY DEF RadioOK
  <2>2. missed' \in [Callers -> BOOLEAN]
    BY <1>0, <1>3, <2>1, ReadRegEffect DEF Avail
  <2>3. QED
    BY <1>0, <1>3, <2>2 DEF Avail, Goto, receptions, CallsOK
<1>4. ASSUME NEW c \in Callers, Length(c) PROVE CallsOK'
  <2>1. FirstLen \in Nat
    BY Lengths DEF RadioOK
  <2>2. missed' \in [Callers -> BOOLEAN]
    <3>1. PICK ok \in BOOLEAN, n \in Lens \cup {0, UNREAD} : ReadReg(c, "len", FirstLen, ok, n)
      BY <1>4 DEF Length
    <3>2. missed' \in {missed, [missed EXCEPT ![c] = TRUE]}
      BY <2>1, <3>1, ReadRegEffect
    <3>3. QED
      BY <1>0, <3>2
  <2>3. len' \in [Callers -> 0 .. UNREAD] /\ raced' \in [Callers -> BOOLEAN]
    BY <1>0, <1>4, Lengths DEF Length
  <2>4. pc' \in [Callers -> {"idle", "avail", "length", "packet", "check", "transmit"}]
    BY <1>0, <1>4 DEF Length, Goto
  <2>5. QED
    BY <1>0, <1>4, <2>2, <2>3, <2>4 DEF Length, CallsOK
<1>5. ASSUME NEW c \in Callers, Check(c) PROVE CallsOK'
  <2>1. (IF idMatches THEN 1 ELSE 0) \in Nat
    OBVIOUS
  <2>2. missed' \in [Callers -> BOOLEAN]
    <3>1. PICK ok \in BOOLEAN, n \in {0, 1, UNREAD} :
            ReadReg(c, "id", IF idMatches THEN 1 ELSE 0, ok, n)
      BY <1>5 DEF Check
    <3>2. missed' \in {missed, [missed EXCEPT ![c] = TRUE]}
      BY <2>1, <3>1, ReadRegEffect
    <3>3. QED
      BY <1>0, <3>2
  <2>3. QED
    BY <1>0, <1>5, <2>2 DEF Check, Goto, receptions, CallsOK
<1>6. ASSUME NEW c \in Callers, Transmit(c) PROVE CallsOK'
  <2>1. missed' \in [Callers -> BOOLEAN]
    BY <1>0, <1>6 DEF Transmit, Fine, HostFails, Misses
  <2>2. QED
    BY <1>0, <1>6, <2>1 DEF Transmit, Goto, receptions, CallsOK
<1>7. ASSUME NEW c \in Callers, Packet(c) PROVE CallsOK'
  <2>1. /\ pc[c] = "packet" /\ pc' = [pc EXCEPT ![c] = "idle"] /\ UNCHANGED <<unread, len>>
        /\ missed' \in [Callers -> BOOLEAN]
    BY <1>7, PacketOutcomes
  <2>2. raced' \in [Callers -> BOOLEAN]
    BY <1>0, <1>7, PacketOutcomes, HandOver
  <2>3. len[c] \in 1 .. 300 /\ Hand \in Frames /\ stale \in Frames
    BY <2>1, TailOf, FrameTypes DEF KnowsFirst, Hand, RadioOK
  <2>4. delivered' \in Seq(Receptions) /\ excused' \subseteq 1 .. MaxPackets
    <3>1. CASE Deliver(c, Hand) \/ Deliver(c, stale)
      BY <2>1, <2>3, <3>1, Delivery
    <3>2. CASE Excuse(Hand) /\ UNCHANGED delivered
      <4>1. excused' \in {excused, excused \cup {Hand.id}} /\ (excused' # excused => Hand.id \in 1 .. MaxPackets)
        BY <2>3, <3>2, FrameTypes DEF Excuse
      <4>2. QED
        BY <3>2, <4>1 DEF CallsOK
    <3>3. CASE UNCHANGED <<delivered, excused>>
      BY <3>3 DEF CallsOK
    <3>4. QED
      BY <1>7, <3>1, <3>2, <3>3, PacketOutcomes
  <2>5. QED
    BY <1>0, <2>1, <2>2, <2>4 DEF CallsOK
<1>8. CASE UNCHANGED vars
  BY <1>8 DEF vars, CallsOK
<1>9. QED
  BY <1>1, <1>2, <1>3, <1>4, <1>5, <1>6, <1>7, <1>8 DEF Next, Call

(* The histories and the FIFO, as functions.                                  *)
LEMMA Domains ==
  ASSUME RadioOK, CallsOK
  PROVE  /\ Len(fifo) \in Nat /\ DOMAIN fifo = 1 .. Len(fifo)
         /\ \A k \in DOMAIN fifo : fifo[k] \in Packets /\ fifo[k].id \in Nat
         /\ Len(delivered) \in Nat /\ DOMAIN delivered = 1 .. Len(delivered)
         /\ \A k \in DOMAIN delivered : /\ delivered[k].what \in Frames /\ delivered[k].what.id \in Nat
                                       /\ delivered[k].missed \in BOOLEAN
         /\ arrived \in Nat
<1>1. /\ Len(fifo) \in Nat /\ DOMAIN fifo = 1 .. Len(fifo)
      /\ \A k \in DOMAIN fifo : fifo[k] \in Packets
      /\ arrived \in Nat
  BY TtcPacketsConstants DEF RadioOK
<1>2. /\ Len(delivered) \in Nat /\ DOMAIN delivered = 1 .. Len(delivered)
      /\ \A k \in DOMAIN delivered : delivered[k] \in Receptions
  BY DEF CallsOK
<1>3. \A r \in Receptions : r.what \in Frames /\ r.missed \in BOOLEAN
  BY DEF Receptions
<1>4. QED
  BY <1>1, <1>2, <1>3, FrameTypes

(* The history after a packet was given: what was there, and the new entry.   *)
LEMMA Extended ==
  ASSUME RadioOK, CallsOK, NEW r \in Receptions, delivered' = Append(delivered, r)
  PROVE  /\ DOMAIN delivered' = 1 .. Len(delivered) + 1
         /\ \A k \in DOMAIN delivered : k \in DOMAIN delivered' /\ delivered'[k] = delivered[k]
         /\ delivered'[Len(delivered) + 1] = r
         /\ \A k \in DOMAIN delivered' : k \in DOMAIN delivered \/ k = Len(delivered) + 1
BY AppendTo, Domains DEF CallsOK

(* What a caller is given by a transfer whose command was heard is the packet *)
(* ahead of the FIFO that is left.                                            *)
LEMMA StepOrder == TypeOK /\ KnowsFirst /\ FifoInOrder /\ [Next]_vars => FifoInOrder'
<1> SUFFICES ASSUME RadioOK, CallsOK, KnowsFirst, FifoInOrder, [Next]_vars PROVE FifoInOrder'
  BY DEF TypeOK
<1> DEFINE Heard(d) == ~d.missed /\ d.what.kind = "packet"
           Behind(d, q) == d.what.id <= arrived /\ \A k \in DOMAIN q : d.what.id < q[k].id
<1>1. CASE UNCHANGED <<fifo, arrived, delivered>>
  BY <1>1 DEF FifoInOrder
<1>2. CASE Arrives
  <2>1. /\ \A k \in DOMAIN fifo' : fifo'[k].id <= arrived'
        /\ \A j, k \in DOMAIN fifo' : j < k => fifo'[j].id < fifo'[k].id
    BY <1>2, ArrivesEffect, Domains DEF FifoInOrder
  <2>2. ASSUME NEW i \in DOMAIN delivered', Heard(delivered'[i])
        PROVE  /\ delivered'[i].what.id <= arrived'
               /\ \A k \in DOMAIN fifo' : delivered'[i].what.id < fifo'[k].id
    <3>1. delivered' = delivered
      BY <1>2, ArrivesEffect
    <3>2. /\ delivered[i].what.id <= arrived
          /\ \A k \in DOMAIN fifo : delivered[i].what.id < fifo[k].id
      BY <2>2, <3>1 DEF FifoInOrder
    <3>3. QED
      BY <1>2, <3>1, <3>2, ArrivesEffect, Domains
  <2>3. QED
    BY <2>1, <2>2 DEF FifoInOrder
<1>3. ASSUME NEW c \in Callers, Packet(c) PROVE FifoInOrder'
  <2>1. /\ pc[c] = "packet" /\ arrived' = arrived /\ missed' \in [Callers -> BOOLEAN]
        /\ len[c] \in 1 .. 300
    BY <1>3, PacketOutcomes DEF KnowsFirst
  <2>2. /\ \A k \in DOMAIN fifo' : fifo'[k].id <= arrived
        /\ \A j, k \in DOMAIN fifo' : j < k => fifo'[j].id < fifo'[k].id
        /\ \A k \in DOMAIN fifo' : \E j \in DOMAIN fifo : fifo'[k] = fifo[j]
    <3>1. CASE fifo' = fifo
      BY <3>1 DEF FifoInOrder
    <3>2. CASE Taken(c) /\ fifo # <<>>
      <4>1. \A k \in DOMAIN fifo' : k \in Nat /\ k + 1 \in DOMAIN fifo /\ fifo'[k] = fifo[k + 1]
        BY <3>2, HandOver, Domains
      <4>2. \A j, k \in DOMAIN fifo' : j < k => fifo'[j].id < fifo'[k].id
        <5>1. SUFFICES ASSUME NEW j \in DOMAIN fifo', NEW k \in DOMAIN fifo', j < k
                       PROVE  fifo'[j].id < fifo'[k].id
          OBVIOUS
        <5>2. j + 1 < k + 1 /\ j + 1 \in DOMAIN fifo /\ k + 1 \in DOMAIN fifo
          BY <4>1, <5>1
        <5>3. QED
          BY <4>1, <5>2 DEF FifoInOrder
      <4>3. QED
        BY <4>1, <4>2 DEF FifoInOrder
    <3>3. CASE Taken(c) /\ fifo = <<>>
      BY <3>1, <3>3, HandOver
    <3>4. QED
      BY <1>3, <3>1, <3>2, <3>3, PacketOutcomes
  <2>3. ASSUME NEW i \in DOMAIN delivered, Heard(delivered[i]) PROVE Behind(delivered[i], fifo')
    BY <2>2, <2>3, Domains DEF FifoInOrder
  <2>4. CASE delivered' = delivered
    BY <2>1, <2>2, <2>3, <2>4 DEF FifoInOrder
  <2>5. ASSUME NEW f \in Frames, Deliver(c, f), CrcFits(f, len[c]),
               ~missed'[c] => f = Hand /\ Taken(c)
        PROVE  FifoInOrder'
    <3>1. Given(c, f) \in Receptions /\ delivered' = Append(delivered, Given(c, f))
      BY <2>1, <2>5, Delivery
    <3>2. ~missed'[c] /\ f.kind = "packet" => Behind(Given(c, f), fifo')
      <4>1. SUFFICES ASSUME ~missed'[c], f.kind = "packet" PROVE Behind(Given(c, f), fifo')
        OBVIOUS
      <4>2. f = Hand /\ Taken(c) /\ fifo # <<>>
        BY <2>5, <4>1, FrameTypes, HandOver
      <4>3. f = fifo[1] /\ 1 \in DOMAIN fifo
        BY <4>2, HandOver, Domains, TailOf DEF RadioOK
      <4>4. ASSUME NEW k \in DOMAIN fifo' PROVE f.id < fifo'[k].id
        <5>1. k + 1 \in DOMAIN fifo /\ fifo'[k] = fifo[k + 1] /\ 1 < k + 1
          BY <4>2, HandOver, Domains
        <5>2. QED
          BY <4>3, <5>1 DEF FifoInOrder
      <4>5. f.id <= arrived
        BY <4>3 DEF FifoInOrder
      <4>6. QED
        BY <4>4, <4>5 DEF Given
    <3>3. \A i \in DOMAIN delivered' : Heard(delivered'[i]) => Behind(delivered'[i], fifo')
      <4>1. Given(c, f).missed = missed'[c] /\ Given(c, f).what = f
        BY DEF Given
      <4>2. QED
        BY <2>3, <3>1, <3>2, <4>1, Extended
    <3>4. QED
      BY <2>1, <2>2, <3>3 DEF FifoInOrder
  <2>6. ASSUME NEW f, Deliver(c, f) PROVE CrcFits(f, len[c]) \/ delivered' = delivered
    BY <2>6 DEF Deliver
  <2>7. QED
    <3>1. CASE Deliver(c, Hand) /\ Taken(c)
      <4>1. Hand \in Frames
        BY <3>1, HandOver
      <4>2. QED
        BY <2>4, <2>5, <2>6, <3>1, <4>1
    <3>2. CASE Deliver(c, stale) /\ missed'[c]
      <4>1. stale \in Frames
        BY DEF RadioOK
      <4>2. QED
        BY <2>4, <2>5, <2>6, <3>2, <4>1
    <3>3. QED
      BY <1>3, <2>4, <3>1, <3>2, PacketOutcomes
<1>4. QED
  BY <1>1, <1>2, <1>3, QuietKeeps DEF Next, Call, Quiet, vars

(* What waits to be shifted out again is about the first packet and the ID as *)
(* they are.                                                                  *)
LEMMA StepReply == TypeOK /\ OldReply /\ [Next]_vars => OldReply'
<1> SUFFICES ASSUME RadioOK, CallsOK, OldReply, [Next]_vars PROVE OldReply'
  BY DEF TypeOK
<1>1. CASE UNCHANGED <<fifo, idMatches, stale>>
  BY <1>1 DEF OldReply
<1>2. CASE Arrives
  <2>1. fifo # <<>> => fifo' # <<>> /\ fifo'[1] = fifo[1]
    BY <1>2, ArrivesEffect, Domains, TailOf DEF RadioOK
  <2>2. QED
    BY <1>2, <2>1, ArrivesEffect DEF OldReply
<1>3. ASSUME NEW c \in Callers, NEW a \in {"id", "fifo", "len"}, NEW v \in Nat, NEW ok \in BOOLEAN, NEW n,
             ReadReg(c, a, v, ok, n), UNCHANGED <<fifo, idMatches>>,
             a = "len" => v = FirstLen, a = "id" => v = IF idMatches THEN 1 ELSE 0
      PROVE  OldReply'
  <2>1. stale' = stale \/ (stale'.kind = a /\ stale'.val = v)
    BY <1>3, ReadRegEffect, FrameTypes
  <2>2. a = "len" /\ v # 0 => fifo # <<>> /\ fifo[1].val = v
    BY <1>3, Lengths DEF RadioOK
  <2>3. QED
    BY <1>3, <2>1, <2>2 DEF OldReply
<1>4. ASSUME NEW c \in Callers, Avail(c) PROVE OldReply'
  BY <1>3, <1>4, Domains DEF Avail, radio
<1>5. ASSUME NEW c \in Callers, Length(c) PROVE OldReply'
  BY <1>3, <1>5, Lengths DEF Length, radio, RadioOK
<1>6. ASSUME NEW c \in Callers, Check(c) PROVE OldReply'
  BY <1>3, <1>6 DEF Check, radio
<1>7. ASSUME NEW c \in Callers, Packet(c) PROVE OldReply'
  <2>1. UNCHANGED <<fifo, idMatches, stale>> \/ Taken(c)
    BY <1>7, PacketOutcomes
  <2>2. CASE Taken(c)
    <3>1. stale'.kind = "packet" \/ stale'.kind = "zeros"
      BY <2>2, HandOver, FrameTypes
    <3>2. QED
      BY <3>1 DEF OldReply
  <2>3. QED
    BY <1>1, <2>1, <2>2
<1>8. ASSUME NEW c \in Callers, BeginRecv(c) \/ BeginSend(c) \/ Transmit(c) PROVE OldReply'
  BY <1>1, <1>8 DEF BeginRecv, BeginSend, Transmit, radio
<1>9. QED
  BY <1>1, <1>2, <1>4, <1>5, <1>6, <1>7, <1>8 DEF Next, Call, vars

(* Nobody else takes the first packet from a caller without racing it.        *)
LEMMA StepFirst == TypeOK /\ OldReply /\ KnowsFirst /\ [Next]_vars => KnowsFirst'
<1> SUFFICES ASSUME RadioOK, CallsOK, OldReply, KnowsFirst, [Next]_vars,
                    NEW d \in Callers, pc'[d] = "packet"
             PROVE  /\ len'[d] \in 1 .. 300
                    /\ ~raced'[d] => fifo' # <<>> /\ fifo'[1].val = len'[d]
  BY DEF TypeOK, KnowsFirst
<1>0. /\ pc \in [Callers -> {"idle", "avail", "length", "packet", "check", "transmit"}]
      /\ len \in [Callers -> 0 .. UNREAD] /\ raced \in [Callers -> BOOLEAN]
  BY DEF CallsOK
<1>1. CASE pc[d] = "packet" /\ len'[d] = len[d] /\ raced'[d] = raced[d] /\ UNCHANGED fifo
  BY <1>1 DEF KnowsFirst
<1>2. CASE Arrives
  <2>1. fifo # <<>> => fifo' # <<>> /\ fifo'[1] = fifo[1]
    BY <1>2, ArrivesEffect, Domains, TailOf DEF RadioOK
  <2>2. QED
    BY <1>2, <2>1, ArrivesEffect DEF KnowsFirst
<1> DEFINE Goal == /\ len'[d] \in 1 .. 300
                   /\ ~raced'[d] => fifo' # <<>> /\ fifo'[1].val = len'[d]
<1>3. ASSUME NEW c \in Callers, Length(c) PROVE Goal
  <2>1. CASE c # d
    BY <1>0, <1>1, <1>3, <2>1 DEF Length, Goto, radio
  <2>2. CASE c = d
    <3>1. PICK ok \in BOOLEAN, n \in Lens \cup {0, UNREAD} :
            /\ ReadReg(c, "len", FirstLen, ok, n)
            /\ len' = [len EXCEPT ![c] = n]
            /\ Goto(c, "length", IF ok /\ n > 0 /\ n <= 300 THEN "packet" ELSE "idle")
      BY <1>3 DEF Length
    <3>2. ok /\ n > 0 /\ n <= 300
      BY <1>0, <2>2, <3>1 DEF Goto
    <3>3. n = FirstLen \/ (stale.kind = "len" /\ n = stale.val)
      <4>1. FirstLen \in Nat
        BY Lengths DEF RadioOK
      <4>2. ReadReg(c, "len", FirstLen, TRUE, n)
        BY <3>1, <3>2
      <4>3. QED
        BY <4>2, ReadRegValue
    <3>4. fifo # <<>> /\ fifo[1].val = n
      BY <3>2, <3>3, Lengths DEF RadioOK, OldReply
    <3>5. len'[d] = n /\ n \in 1 .. 300
      <4>1. n \in 0 .. UNREAD /\ UNREAD \in Nat
        BY Lengths, Unread
      <4>2. QED
        BY <1>0, <2>2, <3>1, <3>2, <4>1
    <3>6. QED
      BY <1>3, <3>4, <3>5 DEF Length, radio
  <2>3. QED
    BY <2>1, <2>2
<1>4. ASSUME NEW c \in Callers, Packet(c) PROVE Goal
  <2>1. c # d /\ pc[d] = "packet" /\ UNCHANGED len
    BY <1>0, <1>4, PacketOutcomes
  <2>2. CASE UNCHANGED <<fifo, raced>>
    BY <1>1, <2>1, <2>2
  <2>3. CASE Taken(c) /\ fifo = <<>>
    BY <1>1, <2>1, <2>3, HandOver
  <2>4. CASE Taken(c) /\ fifo # <<>>
    <3>1. \A e \in Callers : e # c => raced'[e]
      BY <2>4, HandOver
    <3>2. QED
      BY <2>1, <2>4, <3>1 DEF KnowsFirst
  <2>5. QED
    BY <1>4, <2>2, <2>3, <2>4, PacketOutcomes
<1>5. ASSUME NEW c \in Callers, BeginRecv(c) \/ BeginSend(c) \/ Avail(c) \/ Check(c) \/ Transmit(c) PROVE Goal
  <2>1. UNCHANGED <<fifo, len, raced>>
    BY <1>5 DEF BeginRecv, BeginSend, Avail, Check, Transmit, radio, receptions
  <2>2. PICK from, to \in {"idle", "avail", "length", "check", "transmit"} : Goto(c, from, to)
    BY <1>5 DEF BeginRecv, BeginSend, Avail, Check, Transmit
  <2>3. pc[d] = "packet"
    BY <1>0, <2>2 DEF Goto
  <2>4. QED
    BY <1>1, <2>1, <2>3
<1>6. CASE UNCHANGED vars
  BY <1>1, <1>6 DEF vars
<1>7. QED
  BY <1>2, <1>3, <1>4, <1>5, <1>6 DEF Next, Call

(* A radio with the wrong ID gets past the check only unread.                 *)
LEMMA StepId ==
  TypeOK /\ OldReply /\ KnowsId /\ WrongRadioSilent /\ [Next]_vars => KnowsId' /\ WrongRadioSilent'
<1> SUFFICES ASSUME RadioOK, CallsOK, OldReply, KnowsId, WrongRadioSilent, [Next]_vars
             PROVE  KnowsId' /\ WrongRadioSilent'
  BY DEF TypeOK
<1>0. /\ pc \in [Callers -> {"idle", "avail", "length", "packet", "check", "transmit"}]
      /\ unread \in [Callers -> BOOLEAN]
  BY DEF CallsOK
<1>1. CASE UNCHANGED <<idMatches, given, pc, unread>>
  BY <1>1 DEF KnowsId, WrongRadioSilent
<1>2. ASSUME NEW c \in Callers, Check(c) PROVE KnowsId' /\ WrongRadioSilent'
  <2>1. PICK ok \in BOOLEAN, n \in {0, 1, UNREAD} :
          /\ ReadReg(c, "id", IF idMatches THEN 1 ELSE 0, ok, n)
          /\ unread' = [unread EXCEPT ![c] = ~ok]
          /\ Goto(c, "check", IF ok /\ n # 1 THEN "idle" ELSE "transmit")
    BY <1>2 DEF Check
  <2>2. UNCHANGED <<idMatches, given>>
    BY <1>2 DEF Check, radio
  <2>3. ASSUME pc'[c] = "transmit", ~idMatches PROVE unread'[c]
    <3>1. SUFFICES ASSUME ok = TRUE PROVE FALSE
      BY <1>0, <2>1
    <3>2. n = 1
      BY <1>0, <2>1, <2>3, <3>1 DEF Goto
    <3>3. ReadReg(c, "id", 0, TRUE, n)
      BY <2>1, <2>3, <3>1
    <3>4. n = 0 \/ (stale.kind = "id" /\ n = stale.val)
      BY <3>3, ReadRegValue
    <3>5. QED
      BY <2>3, <3>2, <3>4 DEF OldReply
  <2>4. ASSUME NEW d \in Callers, d # c PROVE pc'[d] = pc[d] /\ unread'[d] = unread[d]
    BY <1>0, <2>1, <2>4 DEF Goto
  <2>5. QED
    BY <2>2, <2>3, <2>4 DEF KnowsId, WrongRadioSilent
<1>3. ASSUME NEW c \in Callers, Transmit(c) PROVE KnowsId' /\ WrongRadioSilent'
  <2>1. /\ pc[c] = "transmit" /\ pc' = [pc EXCEPT ![c] = "idle"] /\ UNCHANGED <<idMatches, unread>>
        /\ given' = given \/ given' = given \cup {unread[c]}
    BY <1>3 DEF Transmit, Goto
  <2>2. ~idMatches => unread[c] # FALSE
    BY <2>1 DEF KnowsId
  <2>3. QED
    BY <1>0, <2>1, <2>2 DEF KnowsId, WrongRadioSilent
<1>4. ASSUME NEW c \in Callers, BeginRecv(c) \/ BeginSend(c) \/ Avail(c) \/ Length(c) \/ Packet(c)
      PROVE  KnowsId' /\ WrongRadioSilent'
  <2>1. UNCHANGED <<idMatches, given, unread>>
    BY <1>4 DEF BeginRecv, BeginSend, Avail, Length, Packet, radio, receptions
  <2>2. PICK from, to \in {"idle", "avail", "length", "packet", "check"} : Goto(c, from, to)
    BY <1>4 DEF BeginRecv, BeginSend, Avail, Length, Packet
  <2>3. QED
    BY <1>0, <2>1, <2>2 DEF Goto, KnowsId, WrongRadioSilent
<1>5. CASE Arrives
  BY <1>1, <1>5, ArrivesEffect
<1>6. QED
  BY <1>1, <1>2, <1>3, <1>4, <1>5 DEF Next, Call, vars

(* What is true of an entry of the history, and of a later one.               *)
Whole(d) == ~d.missed /\ ~d.raced => d.what.kind = "packet" /\ d.what.val = d.len
Before(e, d) ==
  ~d.missed /\ ~e.missed /\ {e.what.kind, d.what.kind} = {"packet"} => e.what.id < d.what.id

(* An entry that is added is whole, and behind the packets of the others.     *)
LEMMA StepWhole ==
  TypeOK /\ KnowsFirst /\ FifoInOrder /\ DeliveredWhole /\ [Next]_vars => DeliveredWhole'
<1> SUFFICES ASSUME RadioOK, CallsOK, KnowsFirst, FifoInOrder, DeliveredWhole, [Next]_vars
             PROVE  DeliveredWhole'
  BY DEF TypeOK
<1>1. CASE delivered' = delivered
  BY <1>1 DEF DeliveredWhole
<1>2. \A k \in DOMAIN delivered : /\ Whole(delivered[k])
                                 /\ \A j \in 1 .. k - 1 : Before(delivered[j], delivered[k])
  BY DEF DeliveredWhole, Whole, Before
<1>3. ASSUME NEW c \in Callers, pc[c] = "packet", NEW f \in Frames, Deliver(c, f),
             missed' \in [Callers -> BOOLEAN], ~missed'[c] => f = Hand /\ Taken(c)
      PROVE  DeliveredWhole'
  <2>1. len[c] \in 1 .. 300 /\ raced[c] \in BOOLEAN
    BY <1>3 DEF KnowsFirst, CallsOK
  <2>2. CASE CrcFits(f, len[c])
    <3> DEFINE r == Given(c, f)
    <3>1. r \in Receptions /\ delivered' = Append(delivered, r)
      BY <1>3, <2>1, <2>2, Delivery
    <3>2. /\ r.what = f /\ r.len = len[c] /\ r.missed = missed'[c] /\ r.raced = raced[c]
      BY DEF Given
    <3> HIDE DEF r
    <3>3. Whole(r)
      BY <1>3, <3>2, HandOver, FrameTypes DEF Whole, KnowsFirst
    <3>4. \A j \in DOMAIN delivered : Before(delivered[j], r)
      <4>1. SUFFICES ASSUME NEW j \in DOMAIN delivered, ~missed'[c], f.kind = "packet",
                            ~delivered[j].missed, delivered[j].what.kind = "packet"
                     PROVE  delivered[j].what.id < f.id
        BY <3>2 DEF Before
      <4>2. fifo # <<>> /\ f = fifo[1]
        BY <1>3, <4>1, HandOver, FrameTypes
      <4>3. 1 \in DOMAIN fifo
        BY <4>2, TailOf, Domains DEF RadioOK
      <4>4. QED
        BY <4>1, <4>2, <4>3 DEF FifoInOrder
    <3>5. ASSUME NEW k \in DOMAIN delivered'
          PROVE  /\ Whole(delivered'[k])
                 /\ \A j \in 1 .. k - 1 : Before(delivered'[j], delivered'[k])
      <4>1. CASE k \in DOMAIN delivered
        BY <1>2, <3>1, <4>1, Extended, Domains
      <4>2. CASE k = Len(delivered) + 1
        BY <3>1, <3>3, <3>4, <4>2, Extended, Domains
      <4>3. QED
        BY <3>1, <4>1, <4>2, Extended
    <3>6. QED
      BY <3>5 DEF DeliveredWhole, Whole, Before
  <2>3. CASE ~CrcFits(f, len[c])
    BY <1>1, <2>3, <1>3 DEF Deliver
  <2>4. QED
    BY <2>2, <2>3
<1>4. ASSUME NEW c \in Callers, Packet(c) PROVE DeliveredWhole'
  <2>1. Hand \in Frames /\ stale \in Frames
    BY TailOf, FrameTypes DEF Hand, RadioOK
  <2>2. pc[c] = "packet" /\ missed' \in [Callers -> BOOLEAN]
    BY <1>4, PacketOutcomes
  <2>3. CASE Deliver(c, Hand) /\ Taken(c)
    BY <1>3, <2>1, <2>2, <2>3
  <2>4. CASE Deliver(c, stale) /\ missed'[c]
    BY <1>3, <2>1, <2>2, <2>4
  <2>5. QED
    BY <1>1, <1>4, <2>3, <2>4, PacketOutcomes
<1>5. CASE Arrives
  BY <1>1, <1>5, ArrivesEffect
<1>6. QED
  BY <1>1, <1>4, <1>5, QuietKeeps DEF Next, Call, Quiet, vars

(* A packet that leaves the FIFO is given to somebody, or excused: when the   *)
(* caller was not raced its length is the packet's own, so the CRC fits.      *)
LEMMA StepDropped == TypeOK /\ KnowsFirst /\ NoPacketDropped /\ [Next]_vars => NoPacketDropped'
<1> SUFFICES ASSUME RadioOK, CallsOK, KnowsFirst, NoPacketDropped, [Next]_vars,
                    NEW i \in 1 .. arrived'
             PROVE  \/ \E k \in DOMAIN fifo' : fifo'[k].id = i
                    \/ \E k \in DOMAIN delivered' : delivered'[k].what.id = i
                    \/ i \in excused'
  BY DEF TypeOK, NoPacketDropped
<1> DEFINE Kept == \/ \E k \in DOMAIN fifo' : fifo'[k].id = i
                   \/ \E k \in DOMAIN delivered' : delivered'[k].what.id = i
                   \/ i \in excused'
<1>1. CASE UNCHANGED <<fifo, arrived, delivered, excused>>
  BY <1>1 DEF NoPacketDropped
<1>2. CASE Arrives
  <2>1. i \in 1 .. arrived \/ i = arrived'
    BY <1>2, ArrivesEffect, Domains
  <2>2. CASE i = arrived'
    <3>1. Len(fifo) + 1 \in DOMAIN fifo' /\ fifo'[Len(fifo) + 1].id = i
      BY <1>2, <2>2, ArrivesEffect
    <3>2. QED
      BY <3>1
  <2>3. CASE i \in 1 .. arrived /\ \E k \in DOMAIN fifo : fifo[k].id = i
    <3>1. PICK k \in DOMAIN fifo : fifo[k].id = i
      BY <2>3
    <3>2. k \in DOMAIN fifo' /\ fifo'[k].id = i
      BY <1>2, <3>1, ArrivesEffect
    <3>3. QED
      BY <3>2
  <2>4. UNCHANGED <<delivered, excused>>
    BY <1>2, ArrivesEffect
  <2>5. QED
    BY <2>1, <2>2, <2>3, <2>4 DEF NoPacketDropped
<1>3. ASSUME NEW c \in Callers, Packet(c) PROVE Kept
  <2>1. /\ pc[c] = "packet" /\ arrived' = arrived /\ missed' \in [Callers -> BOOLEAN]
        /\ len[c] \in 1 .. 300
    BY <1>3, PacketOutcomes DEF KnowsFirst
  <2>2. Hand \in Frames /\ stale \in Frames
    BY TailOf, FrameTypes DEF Hand, RadioOK
  <2>3. /\ \A k \in DOMAIN delivered : k \in DOMAIN delivered' /\ delivered'[k] = delivered[k]
        /\ excused \subseteq excused'
    <3>1. ASSUME NEW f \in Frames, Deliver(c, f)
          PROVE  /\ \A k \in DOMAIN delivered : k \in DOMAIN delivered' /\ delivered'[k] = delivered[k]
                 /\ excused \subseteq excused'
      <4>1. CASE CrcFits(f, len[c])
        BY <2>1, <3>1, <4>1, Delivery, Extended
      <4>2. CASE ~CrcFits(f, len[c])
        BY <2>1, <3>1, <4>2, Delivery
      <4>3. QED
        BY <4>1, <4>2
    <3>2. CASE Excuse(Hand) /\ UNCHANGED delivered
      BY <3>2 DEF Excuse
    <3>3. QED
      BY <1>3, <2>2, <3>1, <3>2, PacketOutcomes
  <2>4. CASE \E k \in DOMAIN delivered : delivered[k].what.id = i
    BY <2>3, <2>4
  <2>5. CASE i \in excused
    BY <2>3, <2>5
  <2>6. ASSUME NEW k \in DOMAIN fifo, fifo[k].id = i PROVE Kept
    <3>1. CASE fifo' = fifo
      BY <2>6, <3>1
    <3>2. CASE Taken(c) /\ k > 1
      <4>1. k - 1 \in DOMAIN fifo' /\ fifo'[k - 1] = fifo[k]
        <5>1. fifo # <<>>
          BY <2>6, Domains
        <5>2. k - 1 \in DOMAIN fifo' /\ (k - 1) + 1 = k
          BY <3>2, <5>1, HandOver, Domains
        <5>3. fifo'[k - 1] = fifo[(k - 1) + 1]
          BY <3>2, <5>1, <5>2, HandOver
        <5>4. QED
          BY <5>2, <5>3
      <4>2. QED
        BY <2>6, <4>1
    <3>3. CASE Taken(c) /\ k = 1
      <4>1. fifo # <<>> /\ Hand = fifo[1] /\ Hand.id = i /\ Hand.kind = "packet"
        BY <2>6, <3>3, HandOver, Domains, FrameTypes
      <4>2. CASE Excuse(Hand)
        BY <4>1, <4>2 DEF Excuse
      <4>3. CASE Deliver(c, Hand) /\ CrcFits(Hand, len[c])
        <5>1. delivered' = Append(delivered, Given(c, Hand)) /\ Given(c, Hand) \in Receptions
          BY <2>1, <2>2, <4>3, Delivery
        <5>2. /\ Len(delivered) + 1 \in DOMAIN delivered'
              /\ delivered'[Len(delivered) + 1] = Given(c, Hand)
          BY <5>1, Extended, Domains
        <5>3. Given(c, Hand).what = Hand
          BY DEF Given
        <5>4. QED
          BY <4>1, <5>2, <5>3
      <4>4. CASE Deliver(c, Hand) /\ ~CrcFits(Hand, len[c])
        <5>1. raced[c]
          <6>1. SUFFICES ASSUME ~raced[c] PROVE FALSE
            OBVIOUS
          <6>2. fifo[1].val = len[c]
            BY <2>1, <6>1 DEF KnowsFirst
          <6>3. Hand.val = len[c]
            BY <4>1, <6>2
          <6>4. len[c] \in Nat
            BY <2>1
          <6>5. QED
            BY <4>1, <4>4, <6>3, <6>4 DEF CrcFits, Body
        <5>2. QED
          BY <2>1, <2>2, <4>1, <4>4, <5>1, Delivery
      <4>5. QED
        BY <1>3, <3>1, <4>2, <4>3, <4>4, PacketOutcomes
    <3>4. QED
      BY <1>3, <2>6, <3>1, <3>2, <3>3, Domains, PacketOutcomes
  <2>7. QED
    BY <2>1, <2>4, <2>5, <2>6 DEF NoPacketDropped
<1>4. QED
  BY <1>1, <1>2, <1>3, QuietKeeps DEF Next, Call, Quiet, vars

LEMMA StepInv == IInv /\ [Next]_vars => IInv'
BY StepRadio, StepCalls, StepOrder, StepReply, StepFirst, StepId, StepWhole, StepDropped DEF IInv, TypeOK

(* The FIFO is in the order of arrival and ahead of it is only what was given *)
(* out; a caller about to read a packet knows the length of the first one.    *)
THEOREM Invariance == Spec => []IInv
<1>1. QED
  BY InitInv, StepInv, PTL DEF Spec

(* Every variable keeps its type.                                             *)
THEOREM TypeCorrect == Spec => []TypeOK
<1>1. IInv => TypeOK
  BY DEF IInv
<1>2. QED
  BY <1>1, Invariance, PTL

(* A reception that returned 0 gave its caller one whole packet with its own  *)
(* length, in the order of arrival and none twice, unless the radio missed a  *)
(* command of the call or another caller took a packet between the two        *)
(* sections of sl_ttc2_read_packet.                                           *)
THEOREM WholePackets == Spec => []DeliveredWhole
<1>1. IInv => DeliveredWhole
  BY DEF IInv
<1>2. QED
  BY <1>1, Invariance, PTL

(* No reception drops a packet on its own: one that left the FIFO was given   *)
(* to a caller, or its transfer went wrong or was raced.                      *)
THEOREM NothingDropped == Spec => []NoPacketDropped
<1>1. IInv => NoPacketDropped
  BY DEF IInv
<1>2. QED
  BY <1>1, Invariance, PTL

(* ttc_send gives a packet to a radio with the wrong ID only when it could    *)
(* not read the ID.                                                           *)
THEOREM WrongIdSilent == Spec => []WrongRadioSilent
<1>1. IInv => WrongRadioSilent
  BY DEF IInv
<1>2. QED
  BY <1>1, Invariance, PTL

-----------------------------------------------------------------------------
(* Codecs: bytes, checksums and words *)

(* A set of naturals that is not empty has a least member.                   *)
LEMMA Least ==
  ASSUME NEW T \in SUBSET Nat, T # {}
  PROVE  \E m \in T : \A n \in T : m <= n
<1>1. IsWellFoundedOn(OpToRel(<, Nat), Nat)
  BY NatLessThanWellFounded
<1>2. PICK m \in T : \A n \in T : <<n, m>> \notin OpToRel(<, Nat)
  BY <1>1, WFMin
<1>3. \A n \in T : ~ (n < m)
  BY <1>2 DEF OpToRel
<1>4. \A n \in T : n \in Nat
  OBVIOUS
<1>5. QED
  BY <1>3, <1>4

(* A byte is the sum of its eight bits.                                      *)
LEMMA Bits ==
  ASSUME NEW a \in Byte
  PROVE  /\ a = 1 * Bit(a, 1) + 2 * Bit(a, 2) + 4 * Bit(a, 4) + 8 * Bit(a, 8)
               + 16 * Bit(a, 16) + 32 * Bit(a, 32) + 64 * Bit(a, 64) + 128 * Bit(a, 128)
         /\ Bit(a, 1) \in {0, 1}
         /\ Bit(a, 2) \in {0, 1}
         /\ Bit(a, 4) \in {0, 1}
         /\ Bit(a, 8) \in {0, 1}
         /\ Bit(a, 16) \in {0, 1}
         /\ Bit(a, 32) \in {0, 1}
         /\ Bit(a, 64) \in {0, 1}
         /\ Bit(a, 128) \in {0, 1}
BY DEF Bit, Byte

(* The table of XORs at two bytes.                                           *)
LEMMA XorSumOf ==
  ASSUME NEW a \in Byte, NEW b \in Byte
  PROVE  XorOf(a, b) = XorBit(a, b, 1) + XorBit(a, b, 2) + XorBit(a, b, 4) + XorBit(a, b, 8)
                       + XorBit(a, b, 16) + XorBit(a, b, 32) + XorBit(a, b, 64) + XorBit(a, b, 128)
BY DEF XorOf, Xors

(* The XOR of two bytes is a byte, whichever comes first.                    *)
LEMMA XorType ==
  ASSUME NEW a \in Byte, NEW b \in Byte
  PROVE  XorOf(a, b) \in Byte /\ XorOf(a, b) = XorOf(b, a)
<1>1. XorOf(a, b) \in Byte
  <2> DEFINE b1 == XorBit(a, b, 1)
             b2 == XorBit(a, b, 2)
             b4 == XorBit(a, b, 4)
             b8 == XorBit(a, b, 8)
             b16 == XorBit(a, b, 16)
             b32 == XorBit(a, b, 32)
             b64 == XorBit(a, b, 64)
             b128 == XorBit(a, b, 128)
  <2>1. XorOf(a, b) = b1 + b2 + b4 + b8 + b16 + b32 + b64 + b128
    BY XorSumOf
  <2>2. /\ b1 \in 0 .. 1 /\ b2 \in 0 .. 2 /\ b4 \in 0 .. 4 /\ b8 \in 0 .. 8 /\ b16 \in 0 .. 16
        /\ b32 \in 0 .. 32 /\ b64 \in 0 .. 64 /\ b128 \in 0 .. 128
    BY DEF XorBit
  <2> HIDE DEF b1, b2, b4, b8, b16, b32, b64, b128
  <2>3. QED
    BY <2>1, <2>2 DEF Byte
<1>2. XorOf(a, b) = XorOf(b, a)
  BY XorSumOf DEF XorBit
<1>3. QED
  BY <1>1, <1>2

(* XOR with a byte loses nothing.                                            *)
LEMMA XorInj ==
  ASSUME NEW a \in Byte, NEW b \in Byte, NEW c \in Byte, XorOf(a, b) = XorOf(a, c)
  PROVE  b = c
<1>1. /\ XorBit(a, b, 1) = XorBit(a, c, 1)
      /\ XorBit(a, b, 2) = XorBit(a, c, 2)
      /\ XorBit(a, b, 4) = XorBit(a, c, 4)
      /\ XorBit(a, b, 8) = XorBit(a, c, 8)
      /\ XorBit(a, b, 16) = XorBit(a, c, 16)
      /\ XorBit(a, b, 32) = XorBit(a, c, 32)
      /\ XorBit(a, b, 64) = XorBit(a, c, 64)
      /\ XorBit(a, b, 128) = XorBit(a, c, 128)
  BY XorSumOf DEF XorBit
<1>2. /\ Bit(b, 1) = Bit(c, 1)
      /\ Bit(b, 2) = Bit(c, 2)
      /\ Bit(b, 4) = Bit(c, 4)
      /\ Bit(b, 8) = Bit(c, 8)
      /\ Bit(b, 16) = Bit(c, 16)
      /\ Bit(b, 32) = Bit(c, 32)
      /\ Bit(b, 64) = Bit(c, 64)
      /\ Bit(b, 128) = Bit(c, 128)
  BY <1>1, Bits DEF XorBit
<1>3. QED
  BY <1>2, Bits

(* The lowest bit of the XOR of an even byte with 0 is not that with 7.       *)
LEMMA LowestBit ==
  ASSUME NEW a \in Byte, NEW b \in Byte, a % 2 = 0, b % 2 = 0
  PROVE  XorOf(a, 0) # XorOf(b, 7)
<1>1. /\ Bit(a, 1) = 0 /\ Bit(b, 1) = 0 /\ Bit(0, 1) = 0 /\ Bit(7, 1) = 1
  BY DEF Bit, Byte
<1>2. XorBit(a, 0, 1) = 0 /\ XorBit(b, 7, 1) = 1
  BY <1>1 DEF XorBit
<1>3. XorOf(a, 0) % 2 = 0
  <2>1. 0 \in Byte /\ 7 \in Byte
    BY DEF Byte
  <2>2. QED
    BY <1>2, <2>1, XorSumOf DEF XorBit
<1>4. XorOf(b, 7) % 2 = 1
  <2>1. 0 \in Byte /\ 7 \in Byte
    BY DEF Byte
  <2>2. QED
    BY <1>2, <2>1, XorSumOf DEF XorBit
<1>5. QED
  BY <1>3, <1>4

(* One shift of the CRC register loses nothing: the polynomial is odd.       *)
LEMMA ShiftInj ==
  /\ Shift \in [Byte -> Byte]
  /\ \A c, d \in Byte : Shift[c] = Shift[d] => c = d
<1> DEFINE Double(c) == (c * 2) % 256
           Poly(c) == IF c >= 128 THEN 7 ELSE 0
<1>1. \A c \in Byte : Double(c) \in Byte /\ Double(c) % 2 = 0 /\ Poly(c) \in Byte
  BY DEF Byte
<1>2. \A c, d \in Byte : (c >= 128 <=> d >= 128) /\ Double(c) = Double(d) => c = d
  BY DEF Byte
<1>3. \A c \in Byte : Shift[c] = XorOf(Double(c), Poly(c))
  BY DEF Shift
<1>4. Shift \in [Byte -> Byte]
  <2>1. \A c \in Byte : XorOf(Double(c), Poly(c)) \in Byte
    BY <1>1, XorType
  <2>2. QED
    BY <2>1 DEF Shift
<1>5. ASSUME NEW c \in Byte, NEW d \in Byte, Shift[c] = Shift[d] PROVE c = d
  <2> HIDE DEF Double
  <2>1. XorOf(Double(c), Poly(c)) = XorOf(Double(d), Poly(d))
    BY <1>3, <1>5
  <2>2. c >= 128 <=> d >= 128
    BY <1>1, <2>1, LowestBit
  <2>3. Poly(c) = Poly(d)
    BY <2>2
  <2>4. XorOf(Poly(c), Double(c)) = XorOf(Poly(c), Double(d))
    BY <1>1, <2>1, <2>3, XorType
  <2>5. Double(c) = Double(d)
    BY <1>1, <2>4, XorInj
  <2>6. QED
    BY <1>2, <2>2, <2>5
<1>6. QED
  BY <1>4, <1>5

(* A step that loses nothing, taken twice, loses nothing.                    *)
LEMMA TwiceInj ==
  ASSUME NEW f \in [Byte -> Byte], \A c, d \in Byte : f[c] = f[d] => c = d
  PROVE  /\ Twice(f) \in [Byte -> Byte]
         /\ \A c, d \in Byte : Twice(f)[c] = Twice(f)[d] => c = d
BY DEF Twice

(* A round of crc8_get_val loses nothing.                                    *)
LEMMA ShiftedInj ==
  /\ Shifted \in [Byte -> Byte]
  /\ \A c, d \in Byte : Shifted[c] = Shifted[d] => c = d
<1> DEFINE two == Twice(Shift)
           four == Twice(two)
<1>1. two \in [Byte -> Byte] /\ \A c, d \in Byte : two[c] = two[d] => c = d
  BY ShiftInj, TwiceInj
<1> HIDE DEF two
<1>2. four \in [Byte -> Byte] /\ \A c, d \in Byte : four[c] = four[d] => c = d
  BY <1>1, TwiceInj
<1> HIDE DEF four
<1>3. Twice(four) \in [Byte -> Byte] /\ \A c, d \in Byte : Twice(four)[c] = Twice(four)[d] => c = d
  BY <1>2, TwiceInj
<1>4. QED
  BY <1>3 DEF Shifted, two, four

(* A table in which neither of its two arguments can be changed unseen.       *)
Sensitive(table) ==
  /\ table \in [Byte -> [Byte -> Byte]]
  /\ \A a, b, x \in Byte : table[a][x] = table[b][x] => a = b
  /\ \A a, x, y \in Byte : table[a][x] = table[a][y] => x = y

(* A round of the XOR sum hears both of its operands.                        *)
LEMMA XorsSensitive == Sensitive(Xors)
<1>1. Xors \in [Byte -> [Byte -> Byte]]
  <2>1. \A a, b \in Byte : Xors[a][b] \in Byte
    BY XorType DEF XorOf
  <2>2. \A a \in Byte : Xors[a] \in [Byte -> Byte]
    BY <2>1 DEF Xors
  <2>3. QED
    BY <2>2 DEF Xors
<1>2. \A a, x, y \in Byte : Xors[a][x] = Xors[a][y] => x = y
  BY XorInj DEF XorOf
<1>3. \A a, x \in Byte : Xors[a][x] = Xors[x][a]
  BY XorType DEF XorOf
<1>4. QED
  BY <1>1, <1>2, <1>3 DEF Sensitive

(* A round of the CRC hears the register and the byte.                       *)
LEMMA CrcSensitive == Sensitive(CrcTable)
<1>1. Sensitive(Xors)
  BY XorsSensitive
<1>2. \A a, b \in Byte : Xors[a][b] \in Byte /\ CrcTable[a][b] = Shifted[Xors[a][b]]
  BY <1>1 DEF Sensitive, CrcTable, XorOf
<1>3. CrcTable \in [Byte -> [Byte -> Byte]]
  <2>1. \A a, b \in Byte : Shifted[XorOf(a, b)] \in Byte
    BY <1>2, ShiftedInj DEF XorOf
  <2>2. QED
    BY <2>1 DEF CrcTable
<1>4. QED
  BY <1>1, <1>2, <1>3, ShiftedInj DEF Sensitive

(* The values of the checksum while the bytes of s go in.                     *)
Course(table, s, n, c) ==
  /\ c \in [0 .. n -> Byte] /\ c[0] = 0
  /\ \A k \in 1 .. n : c[k] = table[c[k - 1]][s[k]]

(* The values a checksum goes through exist, up to every length.             *)
LEMMA CourseExists ==
  ASSUME NEW table, Sensitive(table), NEW s \in Seq(Byte)
  PROVE  \A n \in 0 .. Len(s) : \E c : Course(table, s, n, c)
<1> DEFINE T == {n \in 0 .. Len(s) : ~ \E c : Course(table, s, n, c)}
<1>1. SUFFICES ASSUME T # {} PROVE FALSE
  OBVIOUS
<1>2. PICK m \in T : \A n \in T : m <= n
  <2>1. T \in SUBSET Nat
    OBVIOUS
  <2> HIDE DEF T
  <2>2. QED
    BY <1>1, <2>1, Least
<1>3. m # 0
  <2>1. Course(table, s, 0, [k \in 0 .. 0 |-> 0])
    BY DEF Course, Byte
  <2>2. QED
    BY <2>1
<1>4. m \in 1 .. Len(s) /\ m - 1 \in 0 .. Len(s) /\ m - 1 \notin T
  BY <1>2, <1>3
<1>5. PICK c : Course(table, s, m - 1, c)
  BY <1>4
<1> DEFINE d == [k \in 0 .. m |-> IF k = m THEN table[c[m - 1]][s[m]] ELSE c[k]]
<1>6. table[c[m - 1]][s[m]] \in Byte
  <2>1. c[m - 1] \in Byte
    BY <1>4, <1>5 DEF Course
  <2>2. s[m] \in Byte
    BY <1>4
  <2>3. QED
    BY <2>1, <2>2 DEF Sensitive
<1>7. d \in [0 .. m -> Byte] /\ d[0] = 0
  BY <1>4, <1>5, <1>6 DEF Course
<1>8. ASSUME NEW k \in 1 .. m PROVE d[k] = table[d[k - 1]][s[k]]
  <2>1. d[k - 1] = c[k - 1]
    BY <1>4
  <2>2. CASE k = m
    BY <2>1, <2>2
  <2>3. CASE k # m
    <3>1. k \in 1 .. m - 1 /\ k \in 0 .. m
      BY <1>4, <2>3
    <3>2. d[k] = c[k]
      BY <2>3, <3>1
    <3>3. c[k] = table[c[k - 1]][s[k]]
      BY <1>5, <3>1 DEF Course
    <3>4. QED
      BY <2>1, <3>2, <3>3
  <2>4. QED
    BY <2>2, <2>3
<1>9. Course(table, s, m, d)
  <2> HIDE DEF d
  <2>1. QED
    BY <1>7, <1>8 DEF Course
<1>10. QED
  BY <1>4, <1>9

(* A checksum is the last of the values it goes through.                     *)
LEMMA ChecksumCourse ==
  ASSUME NEW table, Sensitive(table), NEW s \in Seq(Byte)
  PROVE  \E c : Course(table, s, Len(s), c) /\ Checksum(table, s) = c[Len(s)]
<1> DEFINE F(f) == [n \in 0 .. Len(s) |-> IF n = 0 THEN 0 ELSE table[f[n - 1]][s[n]]]
           c == CHOOSE f : f = F(f)
<1>1. Checksum(table, s) = c[Len(s)]
  BY DEF Checksum
<1>2. PICK d : Course(table, s, Len(s), d)
  BY CourseExists
<1>3. Len(s) \in Nat
  OBVIOUS
<1>4. d = F(d)
  BY <1>2, <1>3 DEF Course
<1>5. c = F(c)
  <2> HIDE DEF F
  <2>1. QED
    BY <1>4
<1>6. ASSUME NEW k \in 0 .. Len(s) PROVE c[k] = d[k]
  <2> DEFINE T == {n \in 0 .. Len(s) : c[n] # d[n]}
  <2>1. SUFFICES ASSUME T # {} PROVE FALSE
    OBVIOUS
  <2>2. PICK m \in T : \A n \in T : m <= n
    <3>1. T \in SUBSET Nat
      OBVIOUS
    <3> HIDE DEF T
    <3>2. QED
      BY <2>1, <3>1, Least
  <2> HIDE DEF c
  <2>3. m \in 0 .. Len(s) /\ c[m] # d[m]
    OBVIOUS
  <2>4. c[m] = F(c)[m] /\ d[m] = F(d)[m]
    BY <1>4, <1>5
  <2>5. m = 0 \/ c[m - 1] = d[m - 1]
    BY <2>2, <2>3
  <2>6. QED
    BY <2>3, <2>4, <2>5
<1>7. Course(table, s, Len(s), c)
  <2> HIDE DEF c
  <2>1. c \in [0 .. Len(s) -> Byte]
    BY <1>2, <1>5, <1>6 DEF Course
  <2>2. \A k \in 1 .. Len(s) : k \in 0 .. Len(s) /\ k - 1 \in 0 .. Len(s)
    BY <1>3
  <2>3. QED
    BY <1>2, <1>3, <1>6, <2>1, <2>2 DEF Course
<1>8. QED
  BY <1>1, <1>7

(* A checksum by such a table sees every single byte that is wrong, in a      *)
(* frame of any length.                                                       *)
LEMMA OneByteSeen ==
  ASSUME NEW table, Sensitive(table), NEW s \in Seq(Byte), NEW i \in 1 .. Len(s),
         NEW b \in Byte, b # s[i]
  PROVE  Checksum(table, [s EXCEPT ![i] = b]) # Checksum(table, s)
<1> DEFINE t == [s EXCEPT ![i] = b]
<1>1. /\ t \in Seq(Byte) /\ Len(t) = Len(s) /\ t[i] = b /\ Len(s) \in Nat
      /\ \A k \in 1 .. Len(s) : k # i => t[k] = s[k]
      /\ \A k \in 1 .. Len(s) : s[k] \in Byte /\ t[k] \in Byte
  OBVIOUS
<1> HIDE DEF t
<1>2. PICK c : Course(table, s, Len(s), c) /\ Checksum(table, s) = c[Len(s)]
  BY ChecksumCourse
<1>3. PICK d : Course(table, t, Len(s), d) /\ Checksum(table, t) = d[Len(s)]
  BY <1>1, ChecksumCourse
<1>4. \A k \in 1 .. Len(s) : /\ c[k] = table[c[k - 1]][s[k]] /\ d[k] = table[d[k - 1]][t[k]]
                            /\ c[k - 1] \in Byte /\ d[k - 1] \in Byte
  <2>1. \A k \in 1 .. Len(s) : k - 1 \in 0 .. Len(s)
    BY <1>1
  <2>2. QED
    BY <1>2, <1>3, <2>1 DEF Course
<1>5. ASSUME NEW k \in 0 .. i - 1 PROVE c[k] = d[k]
  <2> DEFINE T == {n \in 0 .. i - 1 : c[n] # d[n]}
  <2>1. SUFFICES ASSUME T # {} PROVE FALSE
    OBVIOUS
  <2>2. PICK m \in T : \A n \in T : m <= n
    <3>1. T \in SUBSET Nat
      OBVIOUS
    <3> HIDE DEF T
    <3>2. QED
      BY <2>1, <3>1, Least
  <2>3. m # 0
    BY <1>2, <1>3 DEF Course
  <2>4. m \in 1 .. Len(s) /\ m # i
    BY <1>1, <2>2, <2>3
  <2>5. c[m - 1] = d[m - 1]
    <3>1. m - 1 \in 0 .. i - 1 /\ ~(m <= m - 1)
      BY <2>2, <2>3
    <3>2. m - 1 \notin T
      BY <2>2, <3>1
    <3>3. QED
      BY <3>1, <3>2
  <2>6. QED
    BY <1>1, <1>4, <2>4, <2>5
<1>6. c[i] # d[i]
  <2>1. i - 1 \in 0 .. i - 1
    OBVIOUS
  <2>2. c[i - 1] = d[i - 1]
    BY <1>5, <2>1
  <2>3. /\ c[i] = table[c[i - 1]][s[i]] /\ d[i] = table[c[i - 1]][b]
        /\ c[i - 1] \in Byte /\ s[i] \in Byte
    BY <1>1, <1>4, <2>2
  <2>4. table[c[i - 1]][s[i]] # table[c[i - 1]][b]
    BY <2>3 DEF Sensitive
  <2>5. QED
    BY <2>3, <2>4
<1>7. ASSUME NEW k \in i .. Len(s) PROVE c[k] # d[k]
  <2> DEFINE T == {n \in i .. Len(s) : c[n] = d[n]}
  <2>1. SUFFICES ASSUME T # {} PROVE FALSE
    OBVIOUS
  <2>2. PICK m \in T : \A n \in T : m <= n
    <3>1. T \in SUBSET Nat
      OBVIOUS
    <3> HIDE DEF T
    <3>2. QED
      BY <2>1, <3>1, Least
  <2>3. m # i
    BY <1>6
  <2>4. m \in 1 .. Len(s) /\ m # i /\ c[m - 1] # d[m - 1]
    BY <1>1, <2>2, <2>3
  <2>5. /\ c[m] = table[c[m - 1]][s[m]] /\ d[m] = table[d[m - 1]][s[m]]
        /\ c[m - 1] \in Byte /\ d[m - 1] \in Byte /\ s[m] \in Byte
    BY <1>1, <1>4, <2>4
  <2>6. table[c[m - 1]][s[m]] # table[d[m - 1]][s[m]]
    BY <2>4, <2>5 DEF Sensitive
  <2>7. QED
    BY <2>2, <2>5, <2>6
<1>8. QED
  <2>1. Len(s) \in i .. Len(s)
    BY <1>1
  <2>2. c[Len(s)] # d[Len(s)]
    BY <1>7, <2>1
  <2>3. QED
    BY <1>2, <1>3, <2>2 DEF t

(* XOR with 0 changes nothing.                                               *)
LEMMA XorZero == \A a \in Byte : XorOf(a, 0) = a
<1> SUFFICES ASSUME NEW a \in Byte PROVE XorOf(a, 0) = a
  OBVIOUS
<1>1. 0 \in Byte
  BY DEF Byte
<1>2. /\ XorBit(a, 0, 1) = 1 * Bit(a, 1) /\ XorBit(a, 0, 2) = 2 * Bit(a, 2)
      /\ XorBit(a, 0, 4) = 4 * Bit(a, 4) /\ XorBit(a, 0, 8) = 8 * Bit(a, 8)
      /\ XorBit(a, 0, 16) = 16 * Bit(a, 16) /\ XorBit(a, 0, 32) = 32 * Bit(a, 32)
      /\ XorBit(a, 0, 64) = 64 * Bit(a, 64) /\ XorBit(a, 0, 128) = 128 * Bit(a, 128)
  <2>1. \A m \in {1, 2, 4, 8, 16, 32, 64, 128} : Bit(0, m) = 0
    BY DEF Bit
  <2>2. QED
    BY <2>1, Bits DEF XorBit
<1>3. QED
  BY <1>1, <1>2, Bits, XorSumOf

(* XOR with a mask that is not 0 changes the byte.                           *)
LEMMA XorChanges ==
  ASSUME NEW a \in Byte, NEW m \in 1 .. 255
  PROVE  XorOf(a, m) \in Byte /\ XorOf(a, m) # a
<1>1. m \in Byte /\ 0 \in Byte /\ m # 0
  BY DEF Byte
<1>2. QED
  BY <1>1, XorZero, XorInj, XorType

(* A checksum is a byte.                                                     *)
LEMMA ChecksumType ==
  ASSUME NEW table, Sensitive(table), NEW s \in Seq(Byte)
  PROVE  Checksum(table, s) \in Byte
<1>1. PICK c : Course(table, s, Len(s), c) /\ Checksum(table, s) = c[Len(s)]
  BY ChecksumCourse
<1>2. Len(s) \in 0 .. Len(s)
  OBVIOUS
<1>3. QED
  BY <1>1, <1>2 DEF Course

(* A frame that ends in such a checksum never passes with one wrong byte,     *)
(* that of the checksum included.                                             *)
LEMMA ClosedSeen ==
  ASSUME NEW table, Sensitive(table), NEW s \in Seq(Byte),
         NEW i \in 1 .. Len(s) + 1, NEW b \in Byte,
         b # Append(s, Checksum(table, s))[i]
  PROVE  LET h == [Append(s, Checksum(table, s)) EXCEPT ![i] = b]
         IN h[Len(s) + 1] # Checksum(table, SubSeq(h, 1, Len(s)))
<1> DEFINE k == Checksum(table, s)
           g == Append(s, k)
           h == [g EXCEPT ![i] = b]
           n == Len(s)
<1>1. k \in Byte /\ n \in Nat
  BY ChecksumType
<1> HIDE DEF k
<1>2. /\ g \in Seq(Byte) /\ Len(g) = n + 1 /\ g[n + 1] = k
      /\ \A j \in 1 .. n : g[j] = s[j]
  BY <1>1
<1> HIDE DEF g
<1>3. /\ h \in Seq(Byte) /\ Len(h) = n + 1 /\ h[i] = b
      /\ \A j \in 1 .. n + 1 : j # i => h[j] = g[j]
  BY <1>1, <1>2
<1> HIDE DEF h
<1>4. /\ SubSeq(h, 1, n) \in Seq(Byte) /\ Len(SubSeq(h, 1, n)) = n
      /\ \A j \in 1 .. n : SubSeq(h, 1, n)[j] = h[j]
  BY <1>1, <1>3
<1>5. CASE i = n + 1
  <2>1. SubSeq(h, 1, n) = s
    BY <1>1, <1>2, <1>3, <1>4, <1>5, SeqEqual
  <2>2. b # k
    BY <1>2, <1>5 DEF g, k
  <2>3. h[n + 1] # Checksum(table, SubSeq(h, 1, n))
    BY <1>3, <1>5, <2>1, <2>2 DEF k
  <2>4. QED
    BY <2>3 DEF k, n, h, g
<1>6. CASE i # n + 1
  <2>1. i \in 1 .. n /\ b # s[i]
    BY <1>1, <1>2, <1>6 DEF g, k
  <2>2. SubSeq(h, 1, n) = [s EXCEPT ![i] = b]
    <3>1. /\ [s EXCEPT ![i] = b] \in Seq(Byte) /\ Len([s EXCEPT ![i] = b]) = n
          /\ \A j \in 1 .. n : [s EXCEPT ![i] = b][j] = IF j = i THEN b ELSE s[j]
      BY <2>1
    <3>2. \A j \in 1 .. n : SubSeq(h, 1, n)[j] = [s EXCEPT ![i] = b][j]
      BY <1>1, <1>2, <1>3, <1>4, <3>1
    <3>3. QED
      BY <1>4, <3>1, <3>2, SeqEqual
  <2>3. h[n + 1] = k
    BY <1>1, <1>2, <1>3, <1>6
  <2>4. Checksum(table, [s EXCEPT ![i] = b]) # k
    BY <2>1, OneByteSeen DEF k, n
  <2>5. h[n + 1] # Checksum(table, SubSeq(h, 1, n))
    BY <2>2, <2>3, <2>4
  <2>6. QED
    BY <2>5 DEF k, n, h, g
<1>7. QED
  BY <1>5, <1>6

-----------------------------------------------------------------------------
(* The frames of a radio *)

(* The operators of Bytes are the same ones inside TtcFrames.                *)
LEMMA RadioBytes ==
  /\ Radio!Byte = Byte /\ Radio!Word = Word
  /\ \A s : Radio!Crc8(s) = Crc8(s)
  /\ \A f : Radio!OneByteOff(f, Masks) = OneByteOff(f, Masks)
  /\ \A n, w : /\ Radio!Low(n, w) = Low(n, w) /\ Radio!High(n, w) = High(n, w)
               /\ Radio!LeftAligned(n, w) = LeftAligned(n, w)
<1>1. Radio!Xors = Xors /\ Radio!Byte = Byte
  BY DEF Radio!Xors, Xors, Radio!XorBit, XorBit, Radio!Bit, Bit, Radio!Byte, Byte
<1>2. \A a, b : Radio!XorOf(a, b) = XorOf(a, b)
  BY <1>1 DEF Radio!XorOf, XorOf
<1>3. Radio!Shift = Shift
  BY <1>1, <1>2 DEF Radio!Shift, Shift
<1>4. \A f : Radio!Twice(f) = Twice(f)
  BY <1>1 DEF Radio!Twice, Twice
<1>5. Radio!CrcTable = CrcTable
  BY <1>1, <1>2, <1>3, <1>4 DEF Radio!CrcTable, CrcTable, Radio!Shifted, Shifted
<1>6. \A s : Radio!Crc8(s) = Crc8(s)
  BY <1>5 DEF Radio!Crc8, Crc8, Radio!Checksum, Checksum
<1>7. \A f : Radio!OneByteOff(f, Masks) = OneByteOff(f, Masks)
  BY <1>2 DEF Radio!OneByteOff, OneByteOff
<1>8. QED
  BY <1>1, <1>6, <1>7 DEF Radio!Word, Word, Radio!Low, Low, Radio!High, High,
                         Radio!LeftAligned, LeftAligned

(* Casts of a word are words, and what is laid into the data bytes at a      *)
(* width comes out of them at that width.                                    *)
LEMMA WordOps ==
  ASSUME NEW n \in {1, 2, 4}, NEW w \in Word
  PROVE  /\ Low(n, w) \in Word /\ High(n, w) \in Word /\ LeftAligned(n, w) \in Word
         /\ High(n, LeftAligned(n, w)) = Low(n, w) /\ Low(n, Low(n, w)) = Low(n, w)
         /\ Low(n, High(n, w)) = High(n, w)
<1> USE DEF Word, Byte, Low, High, LeftAligned
<1>1. CASE n = 1
  BY <1>1
<1>2. CASE n = 2
  BY <1>2
<1>3. CASE n = 4
  BY <1>3
<1>4. QED
  BY <1>1, <1>2, <1>3

(* An array is a sequence.                                                   *)
LEMMA ArraySeq ==
  ASSUME NEW n \in Nat, NEW S, NEW w \in [1 .. n -> S]
  PROVE  w \in Seq(S) /\ Len(w) = n
<1>1. w \in Seq(S)
  BY SeqDef
<1>2. DOMAIN w = 1 .. Len(w) /\ Len(w) \in Nat
  BY <1>1, LenProperties
<1>3. 1 .. n = 1 .. Len(w)
  BY <1>2
<1>4. QED
  BY <1>1, <1>2, <1>3

(* The frames of a radio: three bytes, the four of a word and the checksum.   *)
LEMMA SevenBytes ==
  ASSUME NEW p \in Byte, NEW q \in Byte, NEW a \in Byte, NEW w \in Word
  PROVE  /\ <<p, q, a>> \o w \in Seq(Byte) /\ Len(<<p, q, a>> \o w) = 7
         /\ \A i \in 1 .. 4 : (<<p, q, a>> \o w)[i + 3] = w[i]
         /\ (<<p, q, a>> \o w)[1] = p /\ (<<p, q, a>> \o w)[2] = q /\ (<<p, q, a>> \o w)[3] = a
<1>1. w \in Seq(Byte) /\ Len(w) = 4
  BY ArraySeq DEF Word
<1> DEFINE h == <<p, q, a>>
<1>2. /\ h \in Seq(Byte) /\ Len(h) = 3
      /\ h[1] = p /\ h[2] = q /\ h[3] = a
  OBVIOUS
<1> HIDE DEF h
<1>3. /\ h \o w \in Seq(Byte) /\ Len(h \o w) = 7
      /\ \A i \in 1 .. 7 : (h \o w)[i] = IF i <= 3 THEN h[i] ELSE w[i - 3]
  <2>1. /\ h \o w \in Seq(Byte) /\ Len(h \o w) = Len(h) + Len(w)
        /\ \A i \in 1 .. Len(h) + Len(w) :
             (h \o w)[i] = IF i <= Len(h) THEN h[i] ELSE w[i - Len(h)]
    BY <1>1, <1>2, ConcatProperties
  <2>2. QED
    BY <1>1, <1>2, <2>1
<1>4. \A i \in 1 .. 4 : (h \o w)[i + 3] = w[i]
  <2>1. \A i \in 1 .. 4 : i + 3 \in 1 .. 7 /\ ~(i + 3 <= 3) /\ (i + 3) - 3 = i
    OBVIOUS
  <2>2. QED
    BY <1>3, <2>1
<1>5. (h \o w)[1] = p /\ (h \o w)[2] = q /\ (h \o w)[3] = a
  BY <1>2, <1>3
<1>6. QED
  BY <1>3, <1>4, <1>5 DEF h

(* What a receiver cuts out of a frame of n bytes and a checksum.             *)
LEMMA ClosedIs ==
  ASSUME NEW s \in Seq(Byte), NEW k \in Byte
  PROVE  /\ Append(s, k) \in [1 .. Len(s) + 1 -> Byte] /\ Append(s, k) \in Seq(Byte)
         /\ Len(Append(s, k)) = Len(s) + 1 /\ Append(s, k)[Len(s) + 1] = k
         /\ \A i \in 1 .. Len(s) : Append(s, k)[i] = s[i]
         /\ SubSeq(Append(s, k), 1, Len(s)) = s
<1> DEFINE f == Append(s, k)
           n == Len(s)
           m == n + 1
<1>1. n \in Nat
  OBVIOUS
<1>2. /\ f \in Seq(Byte) /\ Len(f) = m /\ f[m] = k
      /\ \A i \in 1 .. n : f[i] = s[i]
  BY AppendProperties
<1> HIDE DEF f, n
<1>3. f \in [1 .. m -> Byte]
  BY <1>2, LenProperties
<1>4. \A i \in 1 .. n : f[i] \in Byte
  BY <1>2, ElementOfSeq DEF n
<1>5. /\ SubSeq(f, 1, n) \in Seq(Byte) /\ Len(SubSeq(f, 1, n)) = n
      /\ \A i \in 1 .. n : SubSeq(f, 1, n)[i] = f[i]
  <2>1. /\ SubSeq(f, 1, n) \in Seq(Byte)
        /\ Len(SubSeq(f, 1, n)) = IF 1 <= n THEN n - 1 + 1 ELSE 0
        /\ \A i \in 1 .. n - 1 + 1 : SubSeq(f, 1, n)[i] = f[1 + i - 1]
    BY <1>1, <1>4, SubSeqProperties
  <2>2. QED
    BY <1>1, <2>1
<1>6. SubSeq(f, 1, n) = s
  BY <1>2, <1>5, SeqEqual DEF n
<1>7. QED
  BY <1>2, <1>3, <1>6 DEF f, n

(* The four bytes from the one at i on.                                       *)
LEMMA FourAt ==
  ASSUME NEW f \in Seq(Byte), NEW w \in Word, NEW i \in 1 .. Len(f), NEW n \in 1 .. Len(f),
         n = i + 3, \A j \in 1 .. 4 : f[i + j - 1] = w[j]
  PROVE  SubSeq(f, i, n) = w
<1>1. \A j \in i .. n : f[j] \in Byte
  <2>1. \A j \in i .. n : j \in 1 .. Len(f)
    OBVIOUS
  <2>2. QED
    BY <2>1, ElementOfSeq
<1>2. n \in Int
  OBVIOUS
<1> DEFINE g == SubSeq(f, i, n)
<1>3. /\ g \in Seq(Byte) /\ Len(g) = IF i <= n THEN n - i + 1 ELSE 0
      /\ \A j \in 1 .. n - i + 1 : g[j] = f[i + j - 1]
  BY <1>2, <1>1, SubSeqProperties
<1> HIDE DEF g
<1>4. Len(g) = 4 /\ \A j \in 1 .. 4 : g[j] = w[j]
  BY <1>3
<1>5. w \in Seq(Byte) /\ Len(w) = 4
  BY ArraySeq DEF Word
<1>6. g = w
  BY <1>3, <1>4, <1>5, SeqEqual
<1>7. QED
  BY <1>6 DEF g

(* A frame of the radio: preamble, command, register, data, CRC.             *)
LEMMA RequestIs ==
  ASSUME NEW q \in Byte, NEW a \in Radio!Regs, NEW w \in Word
  PROVE  LET f == Radio!Request(q, a, w)
             s == <<126, q, a>> \o w
         IN /\ s \in Seq(Byte) /\ Len(s) = 7 /\ f = Append(s, Crc8(s))
            /\ f \in [1 .. 8 -> Byte] /\ f[1] = 126 /\ f[2] = q /\ f[3] = a
            /\ SubSeq(f, 1, 7) = s /\ f[8] = Crc8(s) /\ SubSeq(f, 4, 7) = w
<1> DEFINE s == <<126, q, a>> \o w
           k == Crc8(s)
           f == Append(s, k)
<1>1. 126 \in Byte /\ a \in Byte
  BY DEF Byte, Radio!Regs
<1>2. /\ s \in Seq(Byte) /\ Len(s) = 7 /\ \A i \in 1 .. 4 : s[i + 3] = w[i]
      /\ s[1] = 126 /\ s[2] = q /\ s[3] = a
  BY <1>1, SevenBytes
<1>3. f = Radio!Request(q, a, w)
  BY RadioBytes DEF Radio!Request, Radio!PREAMBLE
<1> HIDE DEF s
<1>4. k \in Byte
  BY <1>2, CrcSensitive, ChecksumType DEF Crc8
<1> HIDE DEF k
<1>5. /\ f \in [1 .. 8 -> Byte] /\ f \in Seq(Byte) /\ Len(f) = 8 /\ f[8] = k
      /\ \A i \in 1 .. 7 : f[i] = s[i]
      /\ SubSeq(f, 1, 7) = s
  <2>1. /\ f \in [1 .. Len(s) + 1 -> Byte] /\ f \in Seq(Byte) /\ Len(f) = Len(s) + 1
        /\ f[Len(s) + 1] = k /\ \A i \in 1 .. Len(s) : f[i] = s[i]
        /\ SubSeq(f, 1, Len(s)) = s
    <3>1. s \in Seq(Byte)
      BY <1>2
    <3>2. QED
      BY <3>1, <1>4, ClosedIs
  <2> HIDE DEF f
  <2>2. Len(s) + 1 = 8 /\ Len(s) = 7
    BY <1>2
  <2>3. QED
    BY <2>1, <2>2
<1> HIDE DEF f
<1>6. SubSeq(f, 4, 7) = w
  <2>1. \A j \in 1 .. 4 : f[4 + j - 1] = w[j]
    <3>1. \A j \in 1 .. 4 : 4 + j - 1 \in 1 .. 7 /\ 4 + j - 1 = j + 3
      OBVIOUS
    <3>2. QED
      BY <1>2, <1>5, <3>1
  <2>2. 4 \in 1 .. Len(f) /\ 7 \in 1 .. Len(f) /\ 7 = 4 + 3
    BY <1>5
  <2>3. QED
    BY <1>5, <2>1, <2>2, FourAt
<1>7. f = Append(s, k)
  BY DEF f
<1>8. f[1] = 126 /\ f[2] = q /\ f[3] = a
  BY <1>2, <1>5
<1>9. QED
  BY <1>2, <1>3, <1>5, <1>6, <1>7, <1>8 DEF k, s

(* The three lists of registers name the same width for each register;       *)
(* RESET_DEVICE is missing from the list of those that are read.             *)
LEMMA RadioSizes ==
  ASSUME NEW a \in Radio!Regs
  PROVE  /\ Radio!TypeSize(a) \in {1, 2, 4} /\ Radio!WrittenSize(a) \in {1, 2, 4}
         /\ Radio!ReadSize(a) = Radio!TypeSize(a)
         /\ a # Radio!RESET_DEVICE => Radio!WrittenSize(a) = Radio!TypeSize(a)
<1>1. Radio!Read16 = Radio!Of2Bytes /\ Radio!Read8 = Radio!Of1Byte
  BY DEF Radio!Read16, Radio!Of2Bytes, Radio!Read8, Radio!Of1Byte, Radio!VoltageReg,
         Radio!CurrentReg, Radio!TempReg, Radio!FifoReg, Radio!DEVICE_ID, Radio!LEN_FIRST_RX,
         Radio!HARDWARE_VERSION, Radio!TX_ENABLE
<1>2. Radio!ReadSize(a) = Radio!TypeSize(a)
  BY <1>1 DEF Radio!ReadSize, Radio!TypeSize
<1>3. Radio!Written16 = Radio!Read16 /\ Radio!Written8 = Radio!Read8 \cup {Radio!RESET_DEVICE}
  BY DEF Radio!Read16, Radio!Written16, Radio!Read8, Radio!Written8
<1>4. a # Radio!RESET_DEVICE => Radio!WrittenSize(a) = Radio!ReadSize(a)
  BY <1>3 DEF Radio!ReadSize, Radio!WrittenSize
<1>5. QED
  BY <1>2, <1>4 DEF Radio!TypeSize, Radio!WrittenSize

(* A value is not taken for a failure.                                       *)
LEMMA WordNotFailed == \A w \in Word : w # <<>>
<1>1. ASSUME NEW w \in Word PROVE Len(w) = 4
  BY ArraySeq DEF Word
<1>2. QED
  BY <1>1, EmptySeq

(* Each register starts with four bytes.                                     *)
LEMMA RadioPatterns == \A a \in Radio!Regs : Radio!Pattern(a) \in Word
BY DEF Radio!Regs, Radio!Pattern, Word, Byte

(* What the reader of a register makes of the radio's reply, and of what may  *)
(* come in its place.                                                         *)
LEMMA RadioReads ==
  ASSUME NEW a \in Radio!Regs, NEW w \in Word
  PROVE  Radio!Reader(a, Radio!Request(Radio!READ_REG, a, w)) = High(Radio!TypeSize(a), w)
<1> DEFINE f == Radio!Request(Radio!READ_REG, a, w)
           n == Radio!TypeSize(a)
<1>1. Radio!READ_REG \in Byte
  BY DEF Radio!READ_REG, Byte
<1>2. /\ f[1] = 126 /\ f[2] = Radio!READ_REG /\ f[3] = a
      /\ f[8] = Crc8(SubSeq(f, 1, 7)) /\ SubSeq(f, 4, 7) = w
  <2> DEFINE s == <<126, Radio!READ_REG, a>> \o w
  <2>1. /\ f[1] = 126 /\ f[2] = Radio!READ_REG /\ f[3] = a
        /\ SubSeq(f, 1, 7) = s /\ f[8] = Crc8(s) /\ SubSeq(f, 4, 7) = w
    BY <1>1, RequestIs
  <2>2. QED
    BY <2>1
<1>3. n \in {1, 2, 4} /\ n = Radio!ReadSize(a)
  BY RadioSizes
<1> HIDE DEF f, n
<1>4. Radio!ReadReg(a, f) = High(n, w)
  BY <1>2, <1>3, RadioBytes DEF Radio!ReadReg, Radio!PREAMBLE
<1>5. High(n, w) \in Word /\ High(n, w) # <<>> /\ Low(n, High(n, w)) = High(n, w)
  BY <1>3, WordOps, WordNotFailed
<1>6. Radio!Reader(a, f) = High(n, w)
  BY <1>4, <1>5, RadioBytes DEF Radio!Reader, Radio!Failed, n
<1>7. QED
  BY <1>6 DEF f, n

(* A reply names its register.                                               *)
LEMMA RadioReplies ==
  ASSUME NEW b \in Radio!Regs, NEW w \in Word
  PROVE  /\ Radio!Request(Radio!READ_REG, b, w) \in [1 .. 8 -> Byte]
         /\ Radio!Request(Radio!READ_REG, b, w)[3] = b
<1> DEFINE q == Radio!READ_REG
           f == Radio!Request(q, b, w)
           s == <<126, q, b>> \o w
<1>1. q \in Byte
  BY DEF Radio!READ_REG, Byte
<1> HIDE DEF q
<1>2. /\ s \in Seq(Byte) /\ Len(s) = 7 /\ f = Append(s, Crc8(s))
      /\ f \in [1 .. 8 -> Byte] /\ f[1] = 126 /\ f[2] = q /\ f[3] = b
      /\ SubSeq(f, 1, 7) = s
  BY <1>1, RequestIs
<1>3. QED
  BY <1>2 DEF q

(* The checks of sl_ttc2_read_reg let nothing else through in place of a     *)
(* reply.                                                                    *)
LEMMA RadioRejects ==
  ASSUME bank \in [Radio!Regs -> Word], NEW a \in Radio!Regs, NEW f \in Radio!Wrong(a)
  PROVE  Radio!Reader(a, f) = Radio!Failed /\ f \in [1 .. 8 -> Byte]
<1>1. Radio!READ_REG \in Byte
  BY DEF Radio!READ_REG, Byte
<1>2. SUFFICES /\ f \in [1 .. 8 -> Byte]
               /\ ~ (Crc8(SubSeq(f, 1, 7)) = f[8] /\ f[1] = 126 /\ f[3] = a)
  BY RadioBytes DEF Radio!Reader, Radio!ReadReg, Radio!PREAMBLE
<1>3. CASE f \in OneByteOff(Radio!Reply(a), Masks)
  <2> DEFINE g == Radio!Reply(a)
             s == <<126, Radio!READ_REG, a>> \o bank[a]
  <2>1. /\ s \in Seq(Byte) /\ Len(s) = 7 /\ g = Append(s, Crc8(s)) /\ g \in [1 .. 8 -> Byte]
    BY <1>1, RequestIs DEF Radio!Reply
  <2> HIDE DEF g, s
  <2>2. PICK i \in 1 .. 8, m \in Masks : f = [g EXCEPT ![i] = XorOf(g[i], m)]
    BY <1>3, <2>1 DEF OneByteOff, g
  <2>3. m \in 1 .. 255
    BY CodecsConstants
  <2>4. XorOf(g[i], m) \in Byte /\ XorOf(g[i], m) # g[i]
    BY <2>1, <2>3, XorChanges
  <2>5. f \in [1 .. 8 -> Byte]
    BY <2>1, <2>2, <2>4
  <2>6. f[Len(s) + 1] # Checksum(CrcTable, SubSeq(f, 1, Len(s)))
    <3> DEFINE b == XorOf(g[i], m)
    <3>1. b \in Byte /\ b # Append(s, Checksum(CrcTable, s))[i] /\ i \in 1 .. Len(s) + 1
      BY <2>1, <2>4 DEF Crc8
    <3>2. f = [Append(s, Checksum(CrcTable, s)) EXCEPT ![i] = b]
      BY <2>1, <2>2 DEF Crc8
    <3> HIDE DEF b
    <3>3. QED
      BY <2>1, <3>1, <3>2, CrcSensitive, ClosedSeen
  <2>7. f[8] # Crc8(SubSeq(f, 1, 7))
    <3>1. Len(s) + 1 = 8 /\ Len(s) = 7
      BY <2>1
    <3>2. QED
      BY <2>6, <3>1 DEF Crc8
  <2>8. QED
    BY <2>5, <2>7
<1>4. CASE f = [i \in 1 .. 8 |-> 0]
  BY <1>4 DEF Byte
<1>5. CASE \E b \in Radio!Regs \ {a} : f = Radio!Reply(b)
  BY <1>5, RadioReplies DEF Radio!Reply
<1>6. QED
  BY <1>3, <1>4, <1>5, RadioBytes DEF Radio!Wrong

(* The registers of the housekeeping record, in the order of its fields.     *)
LEMMA RadioHkReads ==
  /\ DOMAIN Radio!HkReads = 1 .. 17
  /\ \A k \in 1 .. 17 : Radio!HkReads[k] = (IF k <= 15 THEN k + 2 ELSE k + 3)
BY DEF Radio!HkReads, Radio!VoltageReg, Radio!CurrentReg, Radio!TempReg, Radio!PktCounterReg

(* What the registers start with.                                            *)
LEMMA RadioFresh ==
  /\ Radio!Fresh \in [Radio!Regs -> Word] /\ \A a \in Radio!Regs : Radio!Fresh[a] = Radio!Pattern(a)
  /\ Radio!Enables \subseteq Word /\ 0 \in Radio!Regs /\ Radio!TX_ENABLE \in Radio!Regs
<1>1. Radio!Fresh \in [Radio!Regs -> Word]
  BY RadioPatterns DEF Radio!Fresh
<1>2. \A a \in Radio!Regs : Radio!Fresh[a] = Radio!Pattern(a)
  BY DEF Radio!Fresh
<1>3. Radio!Enables \subseteq Word
  BY DEF Radio!Enables, Word, Byte
<1>4. 0 \in Radio!Regs /\ Radio!TX_ENABLE \in Radio!Regs
  BY DEF Radio!Regs, Radio!TX_ENABLE
<1>5. QED
  BY <1>1, <1>2, <1>3, <1>4

(* The invariant holds of a radio that nobody spoke to.                      *)
LEMMA RadioStarts == Radio!Init => Radio!IInv
<1> SUFFICES ASSUME Radio!Init PROVE Radio!IInv
  OBVIOUS
<1> USE DEF Radio!Init
<1>1. Radio!TypeOK
  BY RadioFresh, RadioBytes DEF Radio!TypeOK
<1>2. Radio!BankSoFar /\ Radio!FrameSoFar /\ Radio!HkInOrder
  BY DEF Radio!BankSoFar, Radio!FrameSoFar, Radio!HkInOrder
<1>3. QED
  BY <1>1, <1>2 DEF Radio!IInv

(* The radio takes a word at the width of the register it is for.             *)
LEMMA RadioTakes ==
  ASSUME NEW a \in Radio!Regs, NEW w \in Word, bank = Radio!Fresh, Radio!Take(Radio!WriteFrame(a, w))
  PROVE  /\ bank' = [Radio!Fresh EXCEPT ![a] = LeftAligned(Radio!WrittenSize(a), w)]
         /\ bank' \in [Radio!Regs -> Word]
<1> DEFINE d == LeftAligned(Radio!WrittenSize(a), w)
           f == Radio!Request(Radio!WRITE_REG, a, d)
           s == <<126, Radio!WRITE_REG, a>> \o d
<1>1. d \in Word
  BY RadioSizes, WordOps
<1>2. Radio!WRITE_REG \in Byte
  BY DEF Radio!WRITE_REG, Byte
<1>3. f = Radio!WriteFrame(a, w)
  BY RadioBytes DEF Radio!WriteFrame
<1> HIDE DEF d
<1>4. f[3] = a /\ SubSeq(f, 1, 7) = s /\ SubSeq(f, 4, 7) = d
  BY <1>1, <1>2, RequestIs
<1> HIDE DEF f
<1>5. bank' = [Radio!Fresh EXCEPT ![a] = d]
  BY <1>3, <1>4 DEF Radio!Take
<1>6. bank' \in [Radio!Regs -> Word]
  BY <1>1, <1>5, RadioFresh
<1>7. QED
  BY <1>5, <1>6 DEF d

(* What the type invariant says of the registers and their replies.          *)
LEMMA RadioTyped ==
  ASSUME Radio!TypeOK
  PROVE  /\ bank \in [Radio!Regs -> Word] /\ adr \in Radio!Regs /\ val \in Word
         /\ \A a \in Radio!Regs : Radio!Reply(a) \in [1 .. 8 -> Byte]
<1>1. bank \in [Radio!Regs -> Word] /\ adr \in Radio!Regs /\ val \in Word
  BY RadioBytes, RadioFresh, CodecsConstants DEF Radio!TypeOK
<1>2. \A a \in Radio!Regs : bank[a] \in Word
  BY <1>1
<1>3. QED
  BY <1>1, <1>2, RadioReplies DEF Radio!Reply

(* A reader gives a word or fails.                                           *)
LEMMA RadioReaderTyped ==
  ASSUME Radio!TypeOK, Radio!FrameSoFar, step = "replied"
  PROVE  Radio!Reader(adr, frame) \in {Radio!Failed} \cup Word
<1>1. /\ bank \in [Radio!Regs -> Word] /\ adr \in Radio!Regs
  BY RadioTyped
<1>2. CASE whole
  <2>1. frame = Radio!Reply(adr) /\ bank[adr] \in Word
    BY <1>1, <1>2 DEF Radio!FrameSoFar
  <2>2. Radio!Reader(adr, frame) = High(Radio!TypeSize(adr), bank[adr])
    BY <1>1, <2>1, RadioReads DEF Radio!Reply
  <2>3. QED
    BY <1>1, <2>1, <2>2, RadioSizes, WordOps
<1>3. CASE ~whole
  BY <1>1, <1>3, RadioRejects DEF Radio!FrameSoFar
<1>4. QED
  BY <1>2, <1>3

(* Every access to a radio preserves the invariant.                          *)
LEMMA RadioSteps ==
  ASSUME Radio!IInv, Radio!Next
  PROVE  Radio!IInv'
<1>1. /\ Radio!TypeOK /\ Radio!BankSoFar /\ Radio!FrameSoFar
      /\ bank \in [Radio!Regs -> Word] /\ adr \in Radio!Regs /\ val \in Word
      /\ \A a \in Radio!Regs : Radio!Reply(a) \in [1 .. 8 -> Byte]
  BY RadioTyped DEF Radio!IInv
<1>2. bank' = bank => /\ \A a : Radio!Reply(a)' = Radio!Reply(a)
                      /\ \A a : Radio!Wrong(a)' = Radio!Wrong(a)
  <2>1. bank' = bank => \A a : Radio!Reply(a)' = Radio!Reply(a)
    BY DEF Radio!Reply
  <2>2. QED
    BY <2>1 DEF Radio!Wrong
<1>3. CASE Radio!SetParam
  <2>1. PICK a \in Radio!Regs : adr' = a /\ Radio!Take(Radio!WriteFrame(a, val))
    BY <1>3 DEF Radio!SetParam
  <2>2. bank = Radio!Fresh
    BY <1>1, <1>3 DEF Radio!FrameSoFar, Radio!SetParam
  <2>3. /\ bank' = [Radio!Fresh EXCEPT ![a] = LeftAligned(Radio!WrittenSize(a), val)]
        /\ bank' \in [Radio!Regs -> Word]
    BY <1>1, <2>1, <2>2, RadioTakes
  <2> USE DEF Radio!SetParam
  <2>4. Radio!TypeOK'
    BY <1>1, <1>3, <2>1, <2>3, RadioBytes DEF Radio!TypeOK
  <2>5. Radio!BankSoFar'
    BY <1>3, <2>1, <2>3, RadioBytes DEF Radio!BankSoFar
  <2>6. Radio!FrameSoFar' /\ Radio!HkInOrder'
    BY <1>1, <1>3 DEF Radio!FrameSoFar, Radio!HkInOrder
  <2>7. QED
    BY <2>4, <2>5, <2>6 DEF Radio!IInv
<1>4. CASE Radio!Hibernation
  <2>1. /\ val' \in Radio!Enables /\ val' \in Word /\ adr' = Radio!TX_ENABLE
        /\ Radio!TX_ENABLE \in Radio!Regs /\ Radio!Take(Radio!WriteFrame(Radio!TX_ENABLE, val'))
    BY <1>4, RadioFresh DEF Radio!Hibernation
  <2>2. bank = Radio!Fresh
    BY <1>1, <1>4 DEF Radio!FrameSoFar, Radio!Hibernation
  <2>3. /\ bank' = [Radio!Fresh EXCEPT ![adr'] = LeftAligned(Radio!WrittenSize(adr'), val')]
        /\ bank' \in [Radio!Regs -> Word]
    BY <2>1, <2>2, RadioTakes
  <2> USE DEF Radio!Hibernation
  <2>4. Radio!TypeOK'
    BY <1>1, <1>4, <2>1, <2>3, RadioBytes DEF Radio!TypeOK
  <2>5. Radio!BankSoFar'
    BY <1>4, <2>1, <2>3, RadioBytes DEF Radio!BankSoFar
  <2>6. Radio!FrameSoFar' /\ Radio!HkInOrder'
    BY <1>1, <1>4 DEF Radio!FrameSoFar, Radio!HkInOrder
  <2>7. QED
    BY <2>4, <2>5, <2>6 DEF Radio!IInv
<1>5. CASE Radio!GetParam
  <2>1. PICK a \in Radio!Regs : (step = "written" => a = adr) /\ adr' = a /\ frame' = Radio!Reply(a)
    BY <1>5 DEF Radio!GetParam
  <2> USE DEF Radio!GetParam
  <2>2. Radio!TypeOK'
    BY <1>1, <1>5, <2>1, RadioBytes DEF Radio!TypeOK
  <2>3. Radio!BankSoFar'
    BY <1>1, <1>5, <2>1, RadioBytes DEF Radio!BankSoFar, Radio!FrameSoFar, Radio!Fresh
  <2>4. Radio!FrameSoFar' /\ Radio!HkInOrder'
    BY <1>1, <1>2, <1>5, <2>1 DEF Radio!FrameSoFar, Radio!HkInOrder
  <2>5. QED
    BY <2>2, <2>3, <2>4 DEF Radio!IInv
<1>6. CASE Radio!Disturb
  <2>1. frame' \in Radio!Wrong(adr) /\ frame' \in [1 .. 8 -> Byte]
    BY <1>1, <1>6, RadioRejects DEF Radio!Disturb
  <2> USE DEF Radio!Disturb
  <2>2. Radio!TypeOK'
    BY <1>1, <1>6, <2>1, RadioBytes DEF Radio!TypeOK
  <2>3. Radio!BankSoFar'
    BY <1>1, <1>6 DEF Radio!BankSoFar, Radio!Fresh
  <2>4. Radio!FrameSoFar' /\ Radio!HkInOrder'
    BY <1>1, <1>2, <1>6, <2>1 DEF Radio!FrameSoFar, Radio!HkInOrder
  <2>5. QED
    BY <2>2, <2>3, <2>4 DEF Radio!IInv
<1>7. CASE Radio!Decode
  <2>1. got' = Radio!Reader(adr, frame) /\ got' \in {Radio!Failed} \cup Word
    BY <1>1, <1>7, RadioReaderTyped DEF Radio!Decode
  <2> USE DEF Radio!Decode
  <2>2. Radio!TypeOK'
    BY <1>1, <1>7, <2>1, RadioBytes DEF Radio!TypeOK
  <2>3. Radio!BankSoFar'
    BY <1>1, <1>7 DEF Radio!BankSoFar, Radio!Fresh
  <2>4. Radio!FrameSoFar' /\ Radio!HkInOrder'
    BY <1>1, <1>2, <1>7, <2>1 DEF Radio!FrameSoFar, Radio!HkInOrder, Radio!Reader, Radio!ReadReg
  <2>5. QED
    BY <2>2, <2>3, <2>4 DEF Radio!IInv
<1>8. CASE Radio!ReadHkData
  <2>1. bank = Radio!Fresh
    BY <1>1, <1>8 DEF Radio!FrameSoFar, Radio!ReadHkData
  <2>2. \A a \in Radio!Regs : /\ Radio!Reader(a, Radio!Reply(a)) = High(Radio!TypeSize(a), Radio!Pattern(a))
                              /\ High(Radio!TypeSize(a), Radio!Pattern(a)) \in Word
    BY <2>1, RadioFresh, RadioPatterns, RadioReads, RadioSizes, WordOps DEF Radio!Reply
  <2>3. got' = [k \in 1 .. 17 |-> Radio!Reader(Radio!HkReads[k], Radio!Reply(Radio!HkReads[k]))]
    BY <1>8, RadioHkReads DEF Radio!ReadHkData
  <2>4. \A k \in 1 .. 17 : LET a == IF k <= 15 THEN k + 2 ELSE k + 3
                           IN a \in Radio!Regs /\ Radio!HkReads[k] = a
    BY RadioHkReads DEF Radio!Regs
  <2>5. \A k \in 1 .. 17 : LET a == IF k <= 15 THEN k + 2 ELSE k + 3
                           IN got'[k] = High(Radio!TypeSize(a), Radio!Pattern(a)) /\ got'[k] \in Word
    BY <2>2, <2>3, <2>4
  <2>6. got' \in [1 .. 17 -> Word]
    BY <2>3, <2>5
  <2> USE DEF Radio!ReadHkData
  <2>7. Radio!TypeOK'
    BY <1>1, <1>8, <2>6, RadioBytes DEF Radio!TypeOK
  <2>8. Radio!BankSoFar'
    BY <1>8, <2>1 DEF Radio!BankSoFar, Radio!Fresh
  <2>9. Radio!HkInOrder'
    BY <2>5, RadioBytes DEF Radio!HkInOrder, Radio!TypeSize, Radio!Pattern
  <2>10. Radio!FrameSoFar'
    BY <1>1, <1>8 DEF Radio!FrameSoFar
  <2>11. QED
    BY <2>7, <2>8, <2>9, <2>10 DEF Radio!IInv
<1>9. CASE Radio!Again
  <2> USE DEF Radio!Again
  <2>1. Radio!TypeOK'
    BY <1>1, <1>9, RadioFresh, RadioBytes DEF Radio!TypeOK
  <2>2. Radio!BankSoFar' /\ Radio!FrameSoFar' /\ Radio!HkInOrder'
    BY <1>9 DEF Radio!BankSoFar, Radio!FrameSoFar, Radio!HkInOrder, Radio!Fresh
  <2>3. QED
    BY <2>1, <2>2 DEF Radio!IInv
<1>10. QED
  BY <1>3, <1>4, <1>5, <1>6, <1>7, <1>8, <1>9 DEF Radio!Next

(* What the invariant says of a radio's frames.                               *)
LEMMA RadioRight ==
  ASSUME Radio!IInv
  PROVE  Radio!WrittenIsRead /\ Radio!HkInOrder /\ Radio!DisturbedRejected
<1>1. /\ Radio!TypeOK /\ Radio!BankSoFar /\ Radio!FrameSoFar /\ Radio!HkInOrder
      /\ bank \in [Radio!Regs -> Word] /\ adr \in Radio!Regs /\ val \in Word
  BY RadioTyped DEF Radio!IInv
<1>2. ASSUME step = "read", whole, adr # Radio!RESET_DEVICE, bank[adr] # Radio!Pattern(adr)
      PROVE  got = Low(Radio!TypeSize(adr), val)
  <2>1. bank[adr] = LeftAligned(Radio!WrittenSize(adr), val)
    BY <1>1, <1>2, RadioBytes, RadioFresh DEF Radio!BankSoFar
  <2>2. got = Radio!Reader(adr, Radio!Request(Radio!READ_REG, adr, bank[adr])) /\ bank[adr] \in Word
    BY <1>1, <1>2 DEF Radio!FrameSoFar, Radio!Reply
  <2>3. got = High(Radio!TypeSize(adr), bank[adr])
    BY <1>1, <2>2, RadioReads
  <2>4. Radio!WrittenSize(adr) = Radio!TypeSize(adr) /\ Radio!TypeSize(adr) \in {1, 2, 4}
    BY <1>1, <1>2, RadioSizes
  <2>5. QED
    BY <1>1, <2>1, <2>3, <2>4, WordOps
<1>3. ASSUME step = "read", ~whole PROVE got = Radio!Failed
  BY <1>1, <1>3, RadioRejects DEF Radio!FrameSoFar
<1>4. QED
  BY <1>1, <1>2, <1>3, RadioBytes DEF Radio!WrittenIsRead, Radio!DisturbedRejected

-----------------------------------------------------------------------------
(* The frames of the EPS *)

(* The operators of Bytes are the same ones inside EpsFrames.                *)
LEMMA EpsBytes ==
  /\ Eps!Byte = Byte /\ Eps!Word = Word
  /\ \A s : Eps!Crc8(s) = Crc8(s)
  /\ \A f : Eps!OneByteOff(f, Masks) = OneByteOff(f, Masks)
  /\ \A n, w : Eps!Low(n, w) = Low(n, w)
<1>1. Eps!Xors = Xors /\ Eps!Byte = Byte
  BY DEF Eps!Xors, Xors, Eps!XorBit, XorBit, Eps!Bit, Bit, Eps!Byte, Byte
<1>2. \A a, b : Eps!XorOf(a, b) = XorOf(a, b)
  BY <1>1 DEF Eps!XorOf, XorOf
<1>3. Eps!Shift = Shift
  BY <1>1, <1>2 DEF Eps!Shift, Shift
<1>4. \A f : Eps!Twice(f) = Twice(f)
  BY <1>1 DEF Eps!Twice, Twice
<1>5. Eps!CrcTable = CrcTable
  BY <1>1, <1>2, <1>3, <1>4 DEF Eps!CrcTable, CrcTable, Eps!Shifted, Shifted
<1>6. \A s : Eps!Crc8(s) = Crc8(s)
  BY <1>5 DEF Eps!Crc8, Crc8, Eps!Checksum, Checksum
<1>7. \A f : Eps!OneByteOff(f, Masks) = OneByteOff(f, Masks)
  BY <1>2 DEF Eps!OneByteOff, OneByteOff
<1>8. QED
  BY <1>1, <1>6, <1>7 DEF Eps!Word, Word, Eps!Low, Low

(* A register's number and its data bytes.                                   *)
LEMMA FiveBytes ==
  ASSUME NEW a \in Byte, NEW w \in Word
  PROVE  /\ <<a>> \o w \in Seq(Byte) /\ Len(<<a>> \o w) = 5
         /\ \A i \in 1 .. 4 : (<<a>> \o w)[i + 1] = w[i]
         /\ (<<a>> \o w)[1] = a
<1>1. w \in Seq(Byte) /\ Len(w) = 4
  BY ArraySeq DEF Word
<1> DEFINE h == <<a>>
<1>2. h \in Seq(Byte) /\ Len(h) = 1 /\ h[1] = a
  OBVIOUS
<1> HIDE DEF h
<1>3. /\ h \o w \in Seq(Byte) /\ Len(h \o w) = 5
      /\ \A i \in 1 .. 5 : (h \o w)[i] = IF i <= 1 THEN h[i] ELSE w[i - 1]
  <2>1. /\ h \o w \in Seq(Byte) /\ Len(h \o w) = Len(h) + Len(w)
        /\ \A i \in 1 .. Len(h) + Len(w) :
             (h \o w)[i] = IF i <= Len(h) THEN h[i] ELSE w[i - Len(h)]
    BY <1>1, <1>2, ConcatProperties
  <2>2. QED
    BY <1>1, <1>2, <2>1
<1>4. \A i \in 1 .. 4 : (h \o w)[i + 1] = w[i]
  <2>1. \A i \in 1 .. 4 : i + 1 \in 1 .. 5 /\ ~(i + 1 <= 1) /\ (i + 1) - 1 = i
    OBVIOUS
  <2>2. QED
    BY <1>3, <2>1
<1>5. (h \o w)[1] = a
  BY <1>2, <1>3
<1>6. QED
  BY <1>3, <1>4, <1>5 DEF h

(* A frame of the EPS: register, data, CRC.                                  *)
LEMMA FrameIs ==
  ASSUME NEW a \in Eps!Regs, NEW w \in Word
  PROVE  LET f == Eps!Frame(a, w)
             s == <<a>> \o w
         IN /\ s \in Seq(Byte) /\ Len(s) = 5 /\ f = Append(s, Crc8(s))
            /\ f \in [1 .. 6 -> Byte] /\ f[1] = a
            /\ SubSeq(f, 1, 5) = s /\ f[6] = Crc8(s) /\ SubSeq(f, 2, 5) = w
<1> DEFINE s == <<a>> \o w
           k == Crc8(s)
           f == Append(s, k)
<1>1. a \in Byte
  BY DEF Byte, Eps!Regs
<1>2. s \in Seq(Byte) /\ Len(s) = 5 /\ s[1] = a /\ \A i \in 1 .. 4 : s[i + 1] = w[i]
  BY <1>1, FiveBytes
<1>3. f = Eps!Frame(a, w)
  BY EpsBytes DEF Eps!Frame
<1> HIDE DEF s
<1>4. k \in Byte
  BY <1>2, CrcSensitive, ChecksumType DEF Crc8
<1> HIDE DEF k
<1>5. /\ f \in [1 .. 6 -> Byte] /\ f \in Seq(Byte) /\ Len(f) = 6 /\ f[6] = k
      /\ \A i \in 1 .. 5 : f[i] = s[i]
      /\ SubSeq(f, 1, 5) = s
  <2>1. /\ f \in [1 .. Len(s) + 1 -> Byte] /\ f \in Seq(Byte) /\ Len(f) = Len(s) + 1
        /\ f[Len(s) + 1] = k /\ \A i \in 1 .. Len(s) : f[i] = s[i]
        /\ SubSeq(f, 1, Len(s)) = s
    <3>1. s \in Seq(Byte)
      BY <1>2
    <3>2. QED
      BY <3>1, <1>4, ClosedIs
  <2> HIDE DEF f
  <2>2. Len(s) + 1 = 6 /\ Len(s) = 5
    BY <1>2
  <2>3. QED
    BY <2>1, <2>2
<1> HIDE DEF f
<1>6. SubSeq(f, 2, 5) = w
  <2>1. \A j \in 1 .. 4 : f[2 + j - 1] = w[j]
    <3>1. \A j \in 1 .. 4 : 2 + j - 1 \in 1 .. 5 /\ 2 + j - 1 = j + 1
      OBVIOUS
    <3>2. QED
      BY <1>2, <1>5, <3>1
  <2>2. 2 \in 1 .. Len(f) /\ 5 \in 1 .. Len(f) /\ 5 = 2 + 3
    BY <1>5
  <2>3. QED
    BY <1>5, <2>1, <2>2, FourAt
<1>7. f = Append(s, k)
  BY DEF f
<1>8. f[1] = a
  BY <1>2, <1>5
<1>9. QED
  BY <1>2, <1>3, <1>5, <1>6, <1>7, <1>8 DEF k, s

(* Each register has a width and starts with four bytes; a mode is a byte.   *)
LEMMA EpsTypes ==
  /\ \A a \in Eps!Regs : Eps!TypeSize(a) \in {1, 2, 4} /\ Eps!Pattern(a) \in Word
  /\ Eps!Fresh \in [Eps!Regs -> Word] /\ \A a \in Eps!Regs : Eps!Fresh[a] = Eps!Pattern(a)
  /\ \A m \in 0 .. 2 : <<0, 0, 0, m>> \in Word /\ Low(1, <<0, 0, 0, m>>) = <<0, 0, 0, m>>
<1>1. \A a \in Eps!Regs : Eps!TypeSize(a) \in {1, 2, 4}
  BY DEF Eps!TypeSize
<1>2. \A a \in Eps!Regs : Eps!Pattern(a) \in Word
  BY DEF Eps!Regs, Eps!Pattern, Word, Byte
<1>3. Eps!Fresh \in [Eps!Regs -> Word] /\ \A a \in Eps!Regs : Eps!Fresh[a] = Eps!Pattern(a)
  BY <1>2 DEF Eps!Fresh
<1>4. \A m \in 0 .. 2 : <<0, 0, 0, m>> \in Word /\ Low(1, <<0, 0, 0, m>>) = <<0, 0, 0, m>>
  BY DEF Low, Word, Byte
<1>5. QED
  BY <1>1, <1>2, <1>3, <1>4

(* An undisturbed reply gives the register's value, cut to the reader's      *)
(* type.                                                                     *)
LEMMA EpsReads ==
  ASSUME NEW a \in Eps!Regs, NEW w \in Word
  PROVE  Eps!Reader(a, Eps!Frame(a, w)) = Low(Eps!TypeSize(a), w)
<1> DEFINE f == Eps!Frame(a, w)
           s == <<a>> \o w
<1>1. SubSeq(f, 1, 5) = s /\ f[6] = Crc8(s) /\ SubSeq(f, 2, 5) = w
  BY FrameIs
<1> HIDE DEF f, s
<1>2. Eps!ReadReg(f) = w
  BY <1>1, EpsBytes DEF Eps!ReadReg
<1>3. w # <<>>
  BY WordNotFailed
<1>4. Eps!Reader(a, f) = Low(Eps!TypeSize(a), w)
  BY <1>2, <1>3, EpsBytes DEF Eps!Reader, Eps!Failed
<1>5. QED
  BY <1>4 DEF f

(* A reader gives a word or fails.                                           *)
LEMMA EpsReaderTyped ==
  ASSUME NEW a \in Eps!Regs, NEW f \in [1 .. 6 -> Byte]
  PROVE  Eps!Reader(a, f) \in {Eps!Failed} \cup Word
<1> DEFINE w == [j \in 1 .. 4 |-> f[j + 1]]
<1>1. w \in Word
  BY DEF Word
<1>2. f \in Seq(Byte) /\ Len(f) = 6
  BY ArraySeq
<1>3. SubSeq(f, 2, 5) = w
  <2>1. \A j \in 1 .. 4 : f[2 + j - 1] = w[j]
    OBVIOUS
  <2> HIDE DEF w
  <2>2. 2 \in 1 .. Len(f) /\ 5 \in 1 .. Len(f) /\ 5 = 2 + 3
    BY <1>2
  <2>3. QED
    BY <1>1, <1>2, <2>1, <2>2, FourAt
<1> HIDE DEF w
<1>4. Low(Eps!TypeSize(a), w) \in Word
  BY <1>1, EpsTypes, WordOps
<1>5. QED
  BY <1>3, <1>4, EpsBytes DEF Eps!Reader, Eps!ReadReg

(* The CRC lets no reply with a wrong byte through.                          *)
LEMMA EpsRejects ==
  ASSUME bank \in [Eps!Regs -> Word], NEW a \in Eps!Regs, NEW f \in OneByteOff(Eps!Reply(a), Masks)
  PROVE  Eps!Reader(a, f) = Eps!Failed /\ f \in [1 .. 6 -> Byte]
<1> DEFINE g == Eps!Reply(a)
           s == <<a>> \o bank[a]
<1>1. /\ s \in Seq(Byte) /\ Len(s) = 5 /\ g = Append(s, Crc8(s)) /\ g \in [1 .. 6 -> Byte]
  BY FrameIs DEF Eps!Reply
<1> HIDE DEF g, s
<1>2. PICK i \in 1 .. 6, m \in Masks : f = [g EXCEPT ![i] = XorOf(g[i], m)]
  BY <1>1 DEF OneByteOff, g
<1>3. m \in 1 .. 255
  BY CodecsConstants
<1>4. XorOf(g[i], m) \in Byte /\ XorOf(g[i], m) # g[i]
  BY <1>1, <1>3, XorChanges
<1>5. f \in [1 .. 6 -> Byte]
  BY <1>1, <1>2, <1>4
<1>6. f[Len(s) + 1] # Checksum(CrcTable, SubSeq(f, 1, Len(s)))
  <2> DEFINE b == XorOf(g[i], m)
  <2>1. b \in Byte /\ b # Append(s, Checksum(CrcTable, s))[i] /\ i \in 1 .. Len(s) + 1
    BY <1>1, <1>4 DEF Crc8
  <2>2. f = [Append(s, Checksum(CrcTable, s)) EXCEPT ![i] = b]
    BY <1>1, <1>2 DEF Crc8
  <2> HIDE DEF b
  <2>3. QED
    BY <1>1, <2>1, <2>2, CrcSensitive, ClosedSeen
<1>7. f[6] # Crc8(SubSeq(f, 1, 5))
  <2>1. Len(s) + 1 = 6 /\ Len(s) = 5
    BY <1>1
  <2>2. QED
    BY <1>6, <2>1 DEF Crc8
<1>8. QED
  BY <1>5, <1>7, EpsBytes DEF Eps!Reader, Eps!ReadReg

(* The register at each place of the record.                                  *)
RecordReg(k) == IF k <= 41 THEN k - 1 ELSE k + 1
RecordFrom(n, s) == s \in Seq(Int) /\ \A k \in 1 .. Len(s) : s[k] = RecordReg(n + k)

(* Two pieces of the record's list of registers, one behind the other.       *)
LEMMA RecordGrows ==
  ASSUME NEW s, RecordFrom(0, s), NEW t, RecordFrom(Len(s), t)
  PROVE  RecordFrom(0, s \o t) /\ Len(s \o t) = Len(s) + Len(t)
<1> DEFINE n == Len(s)
           m == Len(t)
<1>1. /\ s \in Seq(Int) /\ n \in Nat /\ \A k \in 1 .. n : s[k] = RecordReg(0 + k)
      /\ t \in Seq(Int) /\ m \in Nat /\ \A k \in 1 .. m : t[k] = RecordReg(n + k)
  BY DEF RecordFrom
<1>2. /\ s \o t \in Seq(Int) /\ Len(s \o t) = n + m
      /\ \A k \in 1 .. n + m : (s \o t)[k] = IF k <= n THEN s[k] ELSE t[k - n]
  BY <1>1, ConcatProperties
<1>3. ASSUME NEW k \in 1 .. n + m PROVE (s \o t)[k] = RecordReg(0 + k)
  <2>1. CASE k <= n
    BY <1>1, <1>2, <2>1
  <2>2. CASE ~(k <= n)
    <3>1. k - n \in 1 .. m /\ n + (k - n) = 0 + k
      BY <1>1, <2>2
    <3>2. QED
      BY <1>1, <1>2, <2>2, <3>1
  <2>3. QED
    BY <2>1, <2>2
<1>4. QED
  BY <1>2, <1>3 DEF RecordFrom

(* sl_eps2_read_data reads the register of each field.                       *)
LEMMA EpsDataReads ==
  /\ DOMAIN Eps!DataReads = 1 .. 46
  /\ \A k \in 1 .. 46 : Eps!DataReads[k] = RecordReg(k) /\ RecordReg(k) \in Eps!Regs
<1> DEFINE t1 == <<0, 1, 2, 3, 4, Eps!SolarVoltageReg.my_px, Eps!SolarVoltageReg.mx_pz,
                   Eps!SolarVoltageReg.mz_py>>
           t2 == [i \in 1 .. 6 |-> Eps!SolarCurrentReg[i - 1]]
           t3 == [i \in 1 .. 3 |-> Eps!MpptDutyReg[i - 1]]
           t4 == <<Eps!SolarVoltageReg.all, 18>>
           t5 == [i \in 1 .. 7 |-> Eps!RtdReg[i - 1]]
           t6 == <<26, Eps!BatteryCurrentReg.now, Eps!BatteryCurrentReg.average,
                   Eps!BatteryCurrentReg.accumulated>>
           t7 == [i \in 1 .. 9 |-> 29 + i]
           t8 == [i \in 1 .. 2 |-> Eps!HeaterDutyReg[i - 1]]
           t9 == [i \in 1 .. 3 |-> Eps!ModeReg.mppt[i - 1]]
           t10 == [i \in 1 .. 2 |-> Eps!ModeReg.heater[i - 1]]
<1>1. Eps!DataReads = t1 \o t2 \o t3 \o t4 \o t5 \o t6 \o t7 \o t8 \o t9 \o t10
  BY DEF Eps!DataReads
<1>2. RecordFrom(0, t1) /\ Len(t1) = 8
  BY DEF RecordFrom, RecordReg, Eps!SolarVoltageReg
<1>3. RecordFrom(8, t2) /\ Len(t2) = 6
  <2>1. t2 \in [1 .. 6 -> Int] /\ \A k \in 1 .. 6 : t2[k] = RecordReg(8 + k)
    BY DEF RecordReg, Eps!SolarCurrentReg
  <2> HIDE DEF t2
  <2>2. QED
    BY <2>1, ArraySeq DEF RecordFrom
<1>4. RecordFrom(14, t3) /\ Len(t3) = 3
  <2>1. t3 \in [1 .. 3 -> Int] /\ \A k \in 1 .. 3 : t3[k] = RecordReg(14 + k)
    BY DEF RecordReg, Eps!MpptDutyReg
  <2> HIDE DEF t3
  <2>2. QED
    BY <2>1, ArraySeq DEF RecordFrom
<1>5. RecordFrom(17, t4) /\ Len(t4) = 2
  <2>1. t4 \in [1 .. 2 -> Int] /\ \A k \in 1 .. 2 : t4[k] = RecordReg(17 + k)
    BY DEF RecordReg, Eps!SolarVoltageReg
  <2> HIDE DEF t4
  <2>2. QED
    BY <2>1, ArraySeq DEF RecordFrom
<1>6. RecordFrom(19, t5) /\ Len(t5) = 7
  <2>1. t5 \in [1 .. 7 -> Int] /\ \A k \in 1 .. 7 : t5[k] = RecordReg(19 + k)
    BY DEF RecordReg, Eps!RtdReg
  <2> HIDE DEF t5
  <2>2. QED
    BY <2>1, ArraySeq DEF RecordFrom
<1>7. RecordFrom(26, t6) /\ Len(t6) = 4
  <2>1. t6 \in [1 .. 4 -> Int] /\ \A k \in 1 .. 4 : t6[k] = RecordReg(26 + k)
    BY DEF RecordReg, Eps!BatteryCurrentReg
  <2> HIDE DEF t6
  <2>2. QED
    BY <2>1, ArraySeq DEF RecordFrom
<1>8. RecordFrom(30, t7) /\ Len(t7) = 9
  <2>1. t7 \in [1 .. 9 -> Int] /\ \A k \in 1 .. 9 : t7[k] = RecordReg(30 + k)
    BY DEF RecordReg
  <2> HIDE DEF t7
  <2>2. QED
    BY <2>1, ArraySeq DEF RecordFrom
<1>9. RecordFrom(39, t8) /\ Len(t8) = 2
  <2>1. t8 \in [1 .. 2 -> Int] /\ \A k \in 1 .. 2 : t8[k] = RecordReg(39 + k)
    BY DEF RecordReg, Eps!HeaterDutyReg
  <2> HIDE DEF t8
  <2>2. QED
    BY <2>1, ArraySeq DEF RecordFrom
<1>10. RecordFrom(41, t9) /\ Len(t9) = 3
  <2>1. t9 \in [1 .. 3 -> Int] /\ \A k \in 1 .. 3 : t9[k] = RecordReg(41 + k)
    BY DEF RecordReg, Eps!ModeReg
  <2> HIDE DEF t9
  <2>2. QED
    BY <2>1, ArraySeq DEF RecordFrom
<1>11. RecordFrom(44, t10) /\ Len(t10) = 2
  <2>1. t10 \in [1 .. 2 -> Int] /\ \A k \in 1 .. 2 : t10[k] = RecordReg(44 + k)
    BY DEF RecordReg, Eps!ModeReg
  <2> HIDE DEF t10
  <2>2. QED
    BY <2>1, ArraySeq DEF RecordFrom
<1> DEFINE p2 == t1 \o t2
           p3 == p2 \o t3
           p4 == p3 \o t4
           p5 == p4 \o t5
           p6 == p5 \o t6
           p7 == p6 \o t7
           p8 == p7 \o t8
           p9 == p8 \o t9
<1> HIDE DEF t1, t2, t3, t4, t5, t6, t7, t8, t9, t10
<1>12. RecordFrom(0, p2) /\ Len(p2) = 14
  <2>1. RecordFrom(0, t1 \o t2) /\ Len(t1 \o t2) = Len(t1) + Len(t2)
    BY <1>3, <1>2, RecordGrows
  <2>2. QED
    BY <1>3, <1>2, <2>1
<1> HIDE DEF p2
<1>13. RecordFrom(0, p3) /\ Len(p3) = 17
  <2>1. RecordFrom(0, p2 \o t3) /\ Len(p2 \o t3) = Len(p2) + Len(t3)
    BY <1>4, <1>12, RecordGrows
  <2>2. QED
    BY <1>4, <1>12, <2>1
<1> HIDE DEF p3
<1>14. RecordFrom(0, p4) /\ Len(p4) = 19
  <2>1. RecordFrom(0, p3 \o t4) /\ Len(p3 \o t4) = Len(p3) + Len(t4)
    BY <1>5, <1>13, RecordGrows
  <2>2. QED
    BY <1>5, <1>13, <2>1
<1> HIDE DEF p4
<1>15. RecordFrom(0, p5) /\ Len(p5) = 26
  <2>1. RecordFrom(0, p4 \o t5) /\ Len(p4 \o t5) = Len(p4) + Len(t5)
    BY <1>6, <1>14, RecordGrows
  <2>2. QED
    BY <1>6, <1>14, <2>1
<1> HIDE DEF p5
<1>16. RecordFrom(0, p6) /\ Len(p6) = 30
  <2>1. RecordFrom(0, p5 \o t6) /\ Len(p5 \o t6) = Len(p5) + Len(t6)
    BY <1>7, <1>15, RecordGrows
  <2>2. QED
    BY <1>7, <1>15, <2>1
<1> HIDE DEF p6
<1>17. RecordFrom(0, p7) /\ Len(p7) = 39
  <2>1. RecordFrom(0, p6 \o t7) /\ Len(p6 \o t7) = Len(p6) + Len(t7)
    BY <1>8, <1>16, RecordGrows
  <2>2. QED
    BY <1>8, <1>16, <2>1
<1> HIDE DEF p7
<1>18. RecordFrom(0, p8) /\ Len(p8) = 41
  <2>1. RecordFrom(0, p7 \o t8) /\ Len(p7 \o t8) = Len(p7) + Len(t8)
    BY <1>9, <1>17, RecordGrows
  <2>2. QED
    BY <1>9, <1>17, <2>1
<1> HIDE DEF p8
<1>19. RecordFrom(0, p9) /\ Len(p9) = 44
  <2>1. RecordFrom(0, p8 \o t9) /\ Len(p8 \o t9) = Len(p8) + Len(t9)
    BY <1>10, <1>18, RecordGrows
  <2>2. QED
    BY <1>10, <1>18, <2>1
<1> HIDE DEF p9
<1>20. RecordFrom(0, Eps!DataReads) /\ Len(Eps!DataReads) = 46
  <2>1. Eps!DataReads = p9 \o t10
    BY <1>1 DEF p2, p3, p4, p5, p6, p7, p8, p9
  <2>2. RecordFrom(0, p9 \o t10) /\ Len(p9 \o t10) = Len(p9) + Len(t10)
    BY <1>11, <1>19, RecordGrows
  <2>3. QED
    BY <1>11, <1>19, <2>1, <2>2
<1>21. DOMAIN Eps!DataReads = 1 .. 46
  BY <1>20, LenProperties DEF RecordFrom
<1>22. \A k \in 1 .. 46 : RecordReg(k) \in Eps!Regs
  BY DEF RecordReg, Eps!Regs
<1>23. QED
  BY <1>20, <1>21, <1>22 DEF RecordFrom

(* The invariant holds of an EPS that nobody spoke to.                       *)
LEMMA EpsStarts == Eps!Init => Eps!IInv
<1> SUFFICES ASSUME Eps!Init PROVE Eps!IInv
  OBVIOUS
<1> USE DEF Eps!Init
<1>1. Eps!TypeOK
  BY EpsTypes, EpsBytes DEF Eps!TypeOK, Eps!Regs
<1>2. Eps!BankSoFar /\ Eps!FrameSoFar /\ Eps!RecordInOrder
  BY DEF Eps!BankSoFar, Eps!FrameSoFar, Eps!RecordInOrder
<1>3. QED
  BY <1>1, <1>2 DEF Eps!IInv

(* The EPS has what a write frame carries.                                   *)
LEMMA EpsTakes ==
  ASSUME NEW a \in Eps!Regs, NEW w \in Word, bank = Eps!Fresh, Eps!Take(Eps!Frame(a, w))
  PROVE  bank' = [Eps!Fresh EXCEPT ![a] = w] /\ bank' \in [Eps!Regs -> Word]
<1> DEFINE f == Eps!Frame(a, w)
           s == <<a>> \o w
<1>1. f[1] = a /\ SubSeq(f, 1, 5) = s /\ SubSeq(f, 2, 5) = w
  BY FrameIs
<1>2. bank' = [bank EXCEPT ![f[1]] = SubSeq(f, 2, 5)]
  BY DEF Eps!Take
<1> HIDE DEF f
<1>3. bank' = [Eps!Fresh EXCEPT ![a] = w]
  BY <1>1, <1>2
<1>4. QED
  BY <1>3, EpsTypes

(* What the type invariant says of the registers and their replies.          *)
LEMMA EpsTyped ==
  ASSUME Eps!TypeOK
  PROVE  /\ bank \in [Eps!Regs -> Word] /\ adr \in Eps!Regs /\ val \in Word
         /\ \A a \in Eps!Regs : Eps!Reply(a) \in [1 .. 6 -> Byte]
<1>1. bank \in [Eps!Regs -> Word] /\ adr \in Eps!Regs /\ val \in Word
  BY EpsBytes, CodecsConstants DEF Eps!TypeOK
<1>2. ASSUME NEW a \in Eps!Regs PROVE Eps!Reply(a) \in [1 .. 6 -> Byte]
  <2> DEFINE f == Eps!Frame(a, bank[a])
             s == <<a>> \o bank[a]
  <2>1. bank[a] \in Word
    BY <1>1
  <2>2. f = Append(s, Crc8(s)) /\ f \in [1 .. 6 -> Byte]
    BY <2>1, FrameIs
  <2>3. QED
    BY <2>2 DEF Eps!Reply
<1>3. QED
  BY <1>1, <1>2

(* The register and the word of a mode that the driver accepts.               *)
LEMMA ModeTarget ==
  ASSUME NEW c \in Eps!Calls
  PROVE  /\ Eps!Accepted(c) <=> /\ c.mode \in {0, 1}
                                /\ c.index < (IF c.kind = "mppt" THEN 3 ELSE 2)
         /\ Eps!Accepted(c) =>
              /\ Eps!ModeReg[c.kind][c.index] = (IF c.kind = "mppt" THEN 43 ELSE 46) + c.index
              /\ Eps!ModeReg[c.kind][c.index] \in Eps!Regs
              /\ Eps!TypeSize(Eps!ModeReg[c.kind][c.index]) = 1
         /\ c.kind # "none" /\ c.mode \in 0 .. 2 /\ c.index \in 0 .. 3
         /\ <<0, 0, 0, c.mode>> \in Word
<1>1. /\ c.kind \in {"mppt", "heater"} /\ c.index \in 0 .. 3 /\ c.mode \in 0 .. 2
  BY DEF Eps!Calls
<1>2. /\ \A i \in 0 .. 3 : i \in DOMAIN Eps!ModeReg["mppt"] <=> i < 3
      /\ \A i \in 0 .. 3 : i \in DOMAIN Eps!ModeReg["heater"] <=> i < 2
      /\ \A i \in 0 .. 2 : Eps!ModeReg["mppt"][i] = 43 + i
      /\ \A i \in 0 .. 1 : Eps!ModeReg["heater"][i] = 46 + i
  BY DEF Eps!ModeReg
<1>3. Eps!Accepted(c) <=> c.mode \in {0, 1} /\ c.index < (IF c.kind = "mppt" THEN 3 ELSE 2)
  BY <1>1, <1>2 DEF Eps!Accepted
<1>4. Eps!Accepted(c) =>
        Eps!ModeReg[c.kind][c.index] = (IF c.kind = "mppt" THEN 43 ELSE 46) + c.index
  BY <1>1, <1>2, <1>3
<1>5. \A a \in 43 .. 47 : Eps!TypeSize(a) = 1 /\ a \in Eps!Regs
  <2>1. \A a \in 43 .. 47 : a \in Eps!Of1Byte
    <3>1. /\ 43 = Eps!ModeReg.mppt[0] /\ 44 = Eps!ModeReg.mppt[1] /\ 45 = Eps!ModeReg.mppt[2]
          /\ 46 = Eps!ModeReg.heater[0] /\ 47 = Eps!ModeReg.heater[1]
      BY DEF Eps!ModeReg
    <3>2. \A a \in 43 .. 47 : a = 43 \/ a = 44 \/ a = 45 \/ a = 46 \/ a = 47
      OBVIOUS
    <3>3. QED
      BY <3>1, <3>2 DEF Eps!Of1Byte
  <2>2. QED
    BY <2>1 DEF Eps!TypeSize, Eps!Regs
<1>6. Eps!Accepted(c) => Eps!ModeReg[c.kind][c.index] \in 43 .. 47
  BY <1>1, <1>3, <1>4
<1>7. QED
  BY <1>1, <1>3, <1>4, <1>5, <1>6, EpsTypes

(* The record of the telemetry, read after a mode was set or without one.     *)
LEMMA RecordRead ==
  ASSUME bank \in [Eps!Regs -> Word], Eps!BankSoFar, step \in {"idle", "modeset"}, Eps!ReadData
  PROVE  Eps!RecordInOrder' /\ got' \in [1 .. 46 -> Word]
<1>1. got' = [k \in 1 .. 46 |-> Eps!Reader(Eps!DataReads[k], Eps!Reply(Eps!DataReads[k]))]
  BY EpsDataReads DEF Eps!ReadData
<1>2. \A a \in Eps!Regs : /\ Eps!Reader(a, Eps!Reply(a)) = Low(Eps!TypeSize(a), bank[a])
                          /\ Low(Eps!TypeSize(a), bank[a]) \in Word
  BY EpsReads, EpsTypes, WordOps DEF Eps!Reply
<1>3. \A k \in 1 .. 46 : LET a == RecordReg(k)
                         IN got'[k] = Low(Eps!TypeSize(a), bank[a]) /\ got'[k] \in Word
  BY <1>1, <1>2, EpsDataReads
<1>4. got' \in [1 .. 46 -> Word]
  BY <1>1, <1>3
<1>5. mode' = mode
  BY DEF Eps!ReadData
<1>6. ASSUME NEW k \in 1 .. 46
      PROVE  LET a == RecordReg(k)
                 set == /\ mode.kind # "none" /\ mode.mode \in {0, 1}
                        /\ mode.index < (IF mode.kind = "mppt" THEN 3 ELSE 2)
                        /\ a = (IF mode.kind = "mppt" THEN 43 ELSE 46) + mode.index
             IN got'[k] = IF set THEN <<0, 0, 0, mode.mode>> ELSE Low(Eps!TypeSize(a), Eps!Pattern(a))
  <2> DEFINE a == RecordReg(k)
             set == /\ mode.kind # "none" /\ mode.mode \in {0, 1}
                    /\ mode.index < (IF mode.kind = "mppt" THEN 3 ELSE 2)
                    /\ a = (IF mode.kind = "mppt" THEN 43 ELSE 46) + mode.index
  <2>1. a \in Eps!Regs /\ got'[k] = Low(Eps!TypeSize(a), bank[a])
    BY <1>3, EpsDataReads
  <2> HIDE DEF a
  <2>2. CASE step = "idle"
    <3>1. bank = Eps!Fresh /\ mode.kind = "none"
      BY <2>2 DEF Eps!BankSoFar, Eps!NoMode
    <3>2. bank[a] = Eps!Pattern(a)
      BY <2>1, <3>1, EpsTypes
    <3>3. QED
      BY <2>1, <3>1, <3>2 DEF a
  <2>3. CASE step = "modeset"
    <3> DEFINE r == Eps!ModeReg[mode.kind][mode.index]
               w == <<0, 0, 0, mode.mode>>
    <3>1. /\ mode \in Eps!Calls
          /\ bank = IF Eps!Accepted(mode) THEN [Eps!Fresh EXCEPT ![r] = w] ELSE Eps!Fresh
      BY <2>3 DEF Eps!BankSoFar
    <3>2. CASE Eps!Accepted(mode)
      <4>1. /\ r \in Eps!Regs /\ Eps!TypeSize(r) = 1 /\ (set <=> a = r)
            /\ mode.mode \in 0 .. 2
        BY <3>1, <3>2, ModeTarget
      <4>2. Low(1, w) = w
        BY <4>1, EpsTypes
      <4> HIDE DEF set, r, w
      <4>3. bank[a] = IF a = r THEN w ELSE Eps!Pattern(a)
        BY <2>1, <3>1, <3>2, <4>1, EpsTypes
      <4>4. got'[k] = IF set THEN w ELSE Low(Eps!TypeSize(a), Eps!Pattern(a))
        BY <2>1, <4>1, <4>2, <4>3
      <4>5. QED
        BY <4>4 DEF set, w, a
    <3>3. CASE ~Eps!Accepted(mode)
      <4>1. ~set
        BY <3>1, <3>3, ModeTarget
      <4> HIDE DEF set
      <4>2. bank[a] = Eps!Pattern(a)
        BY <2>1, <3>1, <3>3, EpsTypes
      <4>3. got'[k] = IF set THEN w ELSE Low(Eps!TypeSize(a), Eps!Pattern(a))
        BY <2>1, <4>1, <4>2
      <4>4. QED
        BY <4>3 DEF set, a
    <3>4. QED
      BY <3>2, <3>3
  <2>4. QED
    BY <2>2, <2>3
<1>7. Eps!RecordInOrder'
  BY <1>5, <1>6, EpsBytes DEF Eps!RecordInOrder, RecordReg, Eps!TypeSize, Eps!Pattern
<1>8. QED
  BY <1>4, <1>7

(* Every access to the EPS preserves the invariant.                          *)
LEMMA EpsSteps ==
  ASSUME Eps!IInv, Eps!Next
  PROVE  Eps!IInv'
<1>1. /\ Eps!TypeOK /\ Eps!BankSoFar /\ Eps!FrameSoFar
      /\ bank \in [Eps!Regs -> Word] /\ adr \in Eps!Regs /\ val \in Word
      /\ \A a \in Eps!Regs : Eps!Reply(a) \in [1 .. 6 -> Byte]
  BY EpsTyped DEF Eps!IInv
<1>2. bank' = bank => \A a : Eps!Reply(a)' = Eps!Reply(a)
  BY DEF Eps!Reply
<1>3. CASE Eps!SetParam
  <2>1. PICK a \in Eps!Regs : adr' = a /\ Eps!Take(Eps!Frame(a, val))
    BY <1>3 DEF Eps!SetParam
  <2>2. bank = Eps!Fresh
    BY <1>1, <1>3 DEF Eps!BankSoFar, Eps!SetParam
  <2>3. bank' = [Eps!Fresh EXCEPT ![a] = val] /\ bank' \in [Eps!Regs -> Word]
    BY <1>1, <2>1, <2>2, EpsTakes
  <2> USE DEF Eps!SetParam
  <2>4. Eps!TypeOK'
    BY <1>1, <1>3, <2>1, <2>3, EpsBytes DEF Eps!TypeOK
  <2>5. Eps!BankSoFar'
    BY <1>1, <1>3, <2>1, <2>3 DEF Eps!BankSoFar
  <2>6. Eps!FrameSoFar' /\ Eps!RecordInOrder'
    BY <1>1, <1>3 DEF Eps!FrameSoFar, Eps!RecordInOrder
  <2>7. QED
    BY <2>4, <2>5, <2>6 DEF Eps!IInv
<1>4. CASE Eps!SetMode
  <2>1. PICK c \in Eps!Calls :
          /\ mode' = c
          /\ IF Eps!Accepted(c)
               THEN Eps!Take(Eps!Frame(Eps!ModeReg[c.kind][c.index], <<0, 0, 0, c.mode>>))
               ELSE UNCHANGED bank
    BY <1>4 DEF Eps!SetMode
  <2>2. bank = Eps!Fresh
    BY <1>1, <1>4 DEF Eps!BankSoFar, Eps!SetMode
  <2>3. /\ bank' = IF Eps!Accepted(c)
                     THEN [Eps!Fresh EXCEPT ![Eps!ModeReg[c.kind][c.index]] = <<0, 0, 0, c.mode>>]
                     ELSE Eps!Fresh
        /\ bank' \in [Eps!Regs -> Word]
    <3>1. CASE Eps!Accepted(c)
      <4> DEFINE r == Eps!ModeReg[c.kind][c.index]
                 w == <<0, 0, 0, c.mode>>
      <4>1. r \in Eps!Regs /\ w \in Word
        BY <3>1, ModeTarget
      <4>2. Eps!Take(Eps!Frame(r, w))
        BY <2>1, <3>1
      <4> HIDE DEF r, w
      <4>3. bank' = [Eps!Fresh EXCEPT ![r] = w] /\ bank' \in [Eps!Regs -> Word]
        BY <2>2, <4>1, <4>2, EpsTakes
      <4>4. QED
        BY <3>1, <4>3 DEF r, w
    <3>2. CASE ~Eps!Accepted(c)
      BY <1>1, <2>1, <2>2, <3>2
    <3>3. QED
      BY <3>1, <3>2
  <2>4. /\ step = "idle" /\ step' = "modeset" /\ adr' = adr /\ val' = val
        /\ frame' = frame /\ how' = how /\ got' = got /\ mode' \in Eps!Calls
    BY <1>4, <2>1 DEF Eps!SetMode
  <2>5. Eps!TypeOK'
    BY <1>1, <2>3, <2>4, EpsBytes DEF Eps!TypeOK
  <2>6. Eps!BankSoFar'
    BY <2>1, <2>3, <2>4 DEF Eps!BankSoFar, Eps!Accepted
  <2>7. Eps!FrameSoFar' /\ Eps!RecordInOrder'
    BY <1>1, <2>4 DEF Eps!FrameSoFar, Eps!RecordInOrder
  <2>8. QED
    BY <2>5, <2>6, <2>7 DEF Eps!IInv
<1>5. CASE Eps!GetParam
  <2>1. PICK a \in Eps!Regs : (step = "written" => a = adr) /\ adr' = a /\ frame' = Eps!Reply(a)
    BY <1>5 DEF Eps!GetParam
  <2> USE DEF Eps!GetParam
  <2>2. Eps!TypeOK'
    BY <1>1, <1>5, <2>1, EpsBytes DEF Eps!TypeOK
  <2>3. Eps!BankSoFar'
    BY <1>1, <1>5, <2>1 DEF Eps!BankSoFar, Eps!Fresh
  <2>4. Eps!FrameSoFar' /\ Eps!RecordInOrder'
    BY <1>1, <1>2, <1>5, <2>1, EpsBytes DEF Eps!FrameSoFar, Eps!RecordInOrder
  <2>5. QED
    BY <2>2, <2>3, <2>4 DEF Eps!IInv
<1>6. CASE Eps!Disturb
  <2>1. frame = Eps!Reply(adr)
    BY <1>1, <1>6 DEF Eps!FrameSoFar, Eps!Disturb
  <2>2. /\ how' \in {"off", "other"} /\ frame' \in [1 .. 6 -> Byte]
        /\ how' = "off" => frame' \in OneByteOff(Eps!Reply(adr), Masks)
    <3>1. CASE how' = "off" /\ frame' \in Eps!OneByteOff(frame, Masks)
      BY <1>1, <2>1, <3>1, EpsBytes, EpsRejects
    <3>2. CASE how' = "other" /\ frame' = [i \in 1 .. 6 |-> 0]
      BY <3>2 DEF Byte
    <3>3. CASE how' = "other" /\ \E a \in {0, 26, 51} : frame' = Eps!Reply(a)
      BY <1>1, <3>3 DEF Eps!Regs
    <3>4. QED
      BY <1>6, <3>1, <3>2, <3>3 DEF Eps!Disturb
  <2> USE DEF Eps!Disturb
  <2>3. Eps!TypeOK'
    BY <1>1, <1>6, <2>2, EpsBytes DEF Eps!TypeOK
  <2>4. Eps!BankSoFar'
    BY <1>1, <1>6 DEF Eps!BankSoFar, Eps!Fresh
  <2>5. Eps!FrameSoFar' /\ Eps!RecordInOrder'
    BY <1>1, <1>2, <1>6, <2>2, EpsBytes DEF Eps!FrameSoFar, Eps!RecordInOrder
  <2>6. QED
    BY <2>3, <2>4, <2>5 DEF Eps!IInv
<1>7. CASE Eps!Decode
  <2>1. got' = Eps!Reader(adr, frame) /\ frame \in [1 .. 6 -> Byte]
    BY <1>1, <1>7, EpsBytes DEF Eps!Decode, Eps!FrameSoFar
  <2>2. got' \in {Eps!Failed} \cup Word
    BY <1>1, <2>1, EpsReaderTyped
  <2> USE DEF Eps!Decode
  <2>3. Eps!TypeOK'
    BY <1>1, <1>7, <2>2, EpsBytes DEF Eps!TypeOK
  <2>4. Eps!BankSoFar'
    BY <1>1, <1>7 DEF Eps!BankSoFar, Eps!Fresh
  <2>5. Eps!FrameSoFar' /\ Eps!RecordInOrder'
    BY <1>1, <1>2, <1>7, <2>1, EpsBytes DEF Eps!FrameSoFar, Eps!RecordInOrder, Eps!Reader, Eps!ReadReg
  <2>6. QED
    BY <2>3, <2>4, <2>5 DEF Eps!IInv
<1>8. CASE Eps!ReadData
  <2>1. Eps!RecordInOrder' /\ got' \in [1 .. 46 -> Word]
    BY <1>1, <1>8, RecordRead DEF Eps!ReadData
  <2> USE DEF Eps!ReadData
  <2>2. Eps!TypeOK'
    BY <1>1, <1>8, <2>1, EpsBytes DEF Eps!TypeOK
  <2>3. Eps!BankSoFar' /\ Eps!FrameSoFar'
    BY <1>1, <1>8 DEF Eps!BankSoFar, Eps!FrameSoFar
  <2>4. QED
    BY <2>1, <2>2, <2>3 DEF Eps!IInv
<1>9. CASE Eps!Again
  <2> USE DEF Eps!Again
  <2>1. Eps!TypeOK'
    BY <1>1, <1>9, EpsTypes, EpsBytes DEF Eps!TypeOK, Eps!Regs
  <2>2. Eps!BankSoFar' /\ Eps!FrameSoFar' /\ Eps!RecordInOrder'
    BY <1>9 DEF Eps!BankSoFar, Eps!FrameSoFar, Eps!RecordInOrder, Eps!Fresh
  <2>3. QED
    BY <2>1, <2>2 DEF Eps!IInv
<1>10. QED
  BY <1>3, <1>4, <1>5, <1>6, <1>7, <1>8, <1>9 DEF Eps!Next

(* The invariant gives the three properties of the EPS.                      *)
LEMMA EpsRight ==
  ASSUME Eps!IInv
  PROVE  Eps!WrittenIsRead /\ Eps!RecordInOrder /\ Eps!OneByteOffRejected
<1>1. /\ Eps!TypeOK /\ Eps!BankSoFar /\ Eps!FrameSoFar /\ Eps!RecordInOrder
      /\ bank \in [Eps!Regs -> Word] /\ adr \in Eps!Regs /\ val \in Word
  BY EpsTyped DEF Eps!IInv
<1>2. ASSUME step = "read", how = "reply", bank[adr] # Eps!Pattern(adr)
      PROVE  got = Low(Eps!TypeSize(adr), val)
  <2>1. bank[adr] = val
    BY <1>1, <1>2, EpsTypes DEF Eps!BankSoFar
  <2>2. got = Eps!Reader(adr, Eps!Frame(adr, bank[adr])) /\ bank[adr] \in Word
    BY <1>1, <1>2 DEF Eps!FrameSoFar, Eps!Reply
  <2>3. QED
    BY <1>1, <2>1, <2>2, EpsReads
<1>3. ASSUME step = "read", how = "off" PROVE got = Eps!Failed
  <2>1. frame \in OneByteOff(Eps!Reply(adr), Masks) /\ got = Eps!Reader(adr, frame)
    BY <1>1, <1>3, EpsBytes DEF Eps!FrameSoFar
  <2>2. QED
    BY <1>1, <2>1, EpsRejects
<1>4. QED
  BY <1>1, <1>2, <1>3, EpsBytes DEF Eps!WrittenIsRead, Eps!OneByteOffRejected

-----------------------------------------------------------------------------
(* The frames of the EDC *)

(* The operators of Bytes are the same ones inside EdcPayload.               *)
LEMMA EdcBytes ==
  /\ Edc!Byte = Byte /\ Edc!Word = Word /\ Edc!ZeroWord = ZeroWord
  /\ \A s : Edc!XorSum(s) = XorSum(s) /\ Edc!Reversed(s) = Reversed(s)
  /\ \A f : Edc!OneByteOff(f, Masks) = OneByteOff(f, Masks)
  /\ \A a, b : Edc!Plus(a, b) = Plus(a, b) /\ Edc!Minus(a, b) = Minus(a, b)
<1>1. Edc!Xors = Xors /\ Edc!Byte = Byte
  BY DEF Edc!Xors, Xors, Edc!XorBit, XorBit, Edc!Bit, Bit, Edc!Byte, Byte
<1>2. \A s : Edc!XorSum(s) = XorSum(s)
  BY <1>1 DEF Edc!XorSum, XorSum, Edc!Checksum, Checksum
<1>3. \A f : Edc!OneByteOff(f, Masks) = OneByteOff(f, Masks)
  BY <1>1 DEF Edc!OneByteOff, OneByteOff, Edc!XorOf, XorOf
<1>4. \A a, b : Edc!Plus(a, b) = Plus(a, b) /\ Edc!Minus(a, b) = Minus(a, b)
  BY DEF Edc!Plus, Plus, Edc!Minus, Minus, Edc!Upper, Upper, Edc!Lower, Lower,
         Edc!FromHalves, FromHalves
<1>5. QED
  BY <1>1, <1>2, <1>3, <1>4 DEF Edc!Word, Word, Edc!ZeroWord, ZeroWord, Edc!Reversed, Reversed

(* Reversed twice, a sequence is itself.                                     *)
LEMMA Reverses ==
  ASSUME NEW s \in Seq(Byte)
  PROVE  Reversed(s) \in Seq(Byte) /\ Len(Reversed(s)) = Len(s) /\ Reversed(Reversed(s)) = s
<1> DEFINE n == Len(s)
           r == Reversed(s)
<1>1. n \in Nat /\ DOMAIN s = 1 .. n /\ \A i \in 1 .. n : s[i] \in Byte
  BY LenProperties, ElementOfSeq
<1> HIDE DEF n
<1>2. r = [i \in 1 .. n |-> s[n + 1 - i]]
  BY <1>1 DEF Reversed, n
<1>3. \A i \in 1 .. n : n + 1 - i \in 1 .. n /\ n + 1 - (n + 1 - i) = i
  BY <1>1
<1>4. r \in [1 .. n -> Byte]
  BY <1>1, <1>2, <1>3
<1> HIDE DEF r
<1>5. r \in Seq(Byte) /\ Len(r) = n
  BY <1>1, <1>4, ArraySeq
<1>6. Reversed(r) = [i \in 1 .. n |-> r[n + 1 - i]]
  BY <1>4, <1>5 DEF Reversed
<1>7. \A i \in 1 .. n : Reversed(r)[i] = s[i]
  BY <1>2, <1>3, <1>6
<1>8. Reversed(r) \in [1 .. n -> Byte]
  BY <1>1, <1>6, <1>7
<1>9. Reversed(r) = s
  BY <1>1, <1>7, <1>8, ArraySeq, SeqEqual DEF n
<1>10. QED
  BY <1>5, <1>9 DEF r, n

(* s stands in f behind the first n bytes.                                    *)
Part(f, n, s) ==
  /\ f \in Seq(Byte) /\ s \in Seq(Byte) /\ n \in Nat /\ n + Len(s) <= Len(f)
  /\ \A k \in 1 .. Len(s) : f[n + k] = s[k]

(* A sequence stands in itself.                                              *)
LEMMA WholePart == \A s \in Seq(Byte) : Part(s, 0, s)
BY DEF Part

(* What stands in a sequence keeps its place when another follows it.        *)
LEMMA Joined ==
  ASSUME NEW s \in Seq(Byte), NEW t \in Seq(Byte)
  PROVE  /\ s \o t \in Seq(Byte) /\ Len(s \o t) = Len(s) + Len(t)
         /\ Part(s \o t, Len(s), t) /\ \A n, u : Part(s, n, u) => Part(s \o t, n, u)
<1> DEFINE l == Len(s)
           m == Len(t)
           f == s \o t
<1>1. /\ l \in Nat /\ m \in Nat
      /\ f \in Seq(Byte) /\ Len(f) = l + m
      /\ \A i \in 1 .. l + m : f[i] = IF i <= l THEN s[i] ELSE t[i - l]
  BY ConcatProperties
<1> HIDE DEF f
<1>2. Part(f, l, t)
  <2> HIDE DEF l, m
  <2>1. ASSUME NEW k \in 1 .. m PROVE f[l + k] = t[k]
    <3>1. l + k \in 1 .. l + m /\ ~(l + k <= l) /\ (l + k) - l = k
      BY <1>1
    <3>2. QED
      BY <1>1, <3>1
  <2>2. QED
    BY <1>1, <2>1 DEF Part, m
<1>3. ASSUME NEW n, NEW u, Part(s, n, u) PROVE Part(f, n, u)
  <2>1. /\ u \in Seq(Byte) /\ n \in Nat /\ Len(u) \in Nat /\ n + Len(u) <= l
        /\ \A k \in 1 .. Len(u) : s[n + k] = u[k]
    BY <1>3 DEF Part
  <2>2. \A k \in 1 .. Len(u) : n + k \in 1 .. l + m /\ n + k <= l
    BY <1>1, <2>1
  <2> HIDE DEF l, m
  <2>3. \A k \in 1 .. Len(u) : f[n + k] = u[k]
    BY <1>1, <2>1, <2>2
  <2>4. n + Len(u) <= Len(f)
    BY <1>1, <2>1
  <2>5. QED
    BY <1>1, <2>1, <2>3, <2>4 DEF Part
<1>4. QED
  BY <1>1, <1>2, <1>3 DEF f

(* How edc.c takes a field of several bytes out of a frame.                  *)
LEMMA PartIs ==
  ASSUME NEW f, NEW n, NEW s, Part(f, n, s)
  PROVE  SubSeq(f, n + 1, n + Len(s)) = s /\ Edc!Field(f, n, Len(s)) = Reversed(s)
<1> DEFINE m == Len(s)
           a == n + 1
           b == n + m
           g == SubSeq(f, a, b)
<1>1. /\ f \in Seq(Byte) /\ s \in Seq(Byte) /\ n \in Nat /\ m \in Nat /\ n + m <= Len(f)
      /\ \A k \in 1 .. m : f[n + k] = s[k]
  BY DEF Part
<1> HIDE DEF m
<1>2. \A j \in n + 1 .. n + m : f[j] \in Byte
  <2>1. \A j \in n + 1 .. n + m : j \in 1 .. Len(f)
    BY <1>1
  <2>2. QED
    BY <1>1, <2>1, ElementOfSeq
<1>3. /\ a \in Int /\ b \in Int /\ b - a + 1 = m /\ (IF a <= b THEN b - a + 1 ELSE 0) = m
      /\ \A j \in 1 .. m : a + j - 1 = n + j
      /\ \A j \in a .. b : f[j] \in Byte
  BY <1>1, <1>2
<1> HIDE DEF a, b
<1>4. /\ g \in Seq(Byte) /\ Len(g) = IF a <= b THEN b - a + 1 ELSE 0
      /\ \A j \in 1 .. b - a + 1 : g[j] = f[a + j - 1]
  BY <1>3, SubSeqProperties
<1> HIDE DEF g
<1>5. Len(g) = m /\ \A j \in 1 .. m : g[j] = s[j]
  BY <1>1, <1>3, <1>4
<1>6. g = s
  BY <1>1, <1>4, <1>5, SeqEqual DEF m
<1>7. QED
  BY <1>6, EdcBytes DEF Edc!Field, g, a, b, m

(* A frame closed by its checksum; no frame with one wrong byte has a right  *)
(* one.                                                                      *)
LEMMA EdcClosed ==
  ASSUME NEW s \in Seq(Byte)
  PROVE  /\ Edc!Closed(s) \in Seq(Byte) /\ Len(Edc!Closed(s)) = Len(s) + 1
         /\ \A n, u : Part(s, n, u) => Part(Edc!Closed(s), n, u)
         /\ \A h \in OneByteOff(Edc!Closed(s), Masks) : ~ Edc!ChecksumRight(h)
<1> DEFINE k == XorSum(s)
           f == Append(s, k)
           n == Len(s)
<1>1. f = Edc!Closed(s)
  BY EdcBytes DEF Edc!Closed
<1>2. k \in Byte /\ n \in Nat
  BY XorsSensitive, ChecksumType DEF XorSum
<1> HIDE DEF k
<1>3. f \in Seq(Byte) /\ Len(f) = n + 1 /\ \A i \in 1 .. n : f[i] = s[i]
  BY <1>2, AppendProperties
<1>4. ASSUME NEW m, NEW u, Part(s, m, u) PROVE Part(f, m, u)
  <2>1. /\ u \in Seq(Byte) /\ m \in Nat /\ Len(u) \in Nat /\ m + Len(u) <= n
        /\ \A j \in 1 .. Len(u) : s[m + j] = u[j]
    BY <1>4 DEF Part
  <2>2. \A j \in 1 .. Len(u) : m + j \in 1 .. n
    BY <2>1
  <2> HIDE DEF f, n
  <2>3. \A j \in 1 .. Len(u) : f[m + j] = u[j]
    BY <1>3, <2>1, <2>2
  <2>4. m + Len(u) <= Len(f)
    BY <1>2, <1>3, <2>1
  <2>5. QED
    BY <1>3, <2>1, <2>3, <2>4 DEF Part
<1>5. ASSUME NEW h \in OneByteOff(f, Masks) PROVE ~ Edc!ChecksumRight(h)
  <2> HIDE DEF f
  <2>1. DOMAIN f = 1 .. n + 1
    BY <1>3, LenProperties
  <2>2. PICK i \in 1 .. n + 1, m \in Masks : h = [f EXCEPT ![i] = XorOf(f[i], m)]
    BY <2>1 DEF OneByteOff
  <2>3. m \in 1 .. 255 /\ f[i] \in Byte
    BY <1>3, CodecsConstants, ElementOfSeq
  <2> DEFINE b == XorOf(f[i], m)
  <2>4. b \in Byte /\ b # f[i]
    BY <2>3, XorChanges
  <2> HIDE DEF b
  <2>5. h = [f EXCEPT ![i] = b]
    BY <2>2 DEF b
  <2>6. h[n + 1] # XorSum(SubSeq(h, 1, n))
    <3>1. f = Append(s, Checksum(Xors, s))
      BY DEF f, k, XorSum
    <3>2. b # Append(s, Checksum(Xors, s))[i] /\ h = [Append(s, Checksum(Xors, s)) EXCEPT ![i] = b]
      BY <2>4, <2>5, <3>1
    <3>3. QED
      BY <2>4, <3>2, XorsSensitive, ClosedSeen DEF XorSum, n
  <2>7. Len(h) = n + 1
    BY <1>3, <2>4, <2>5, ExceptSeq
  <2>8. Len(h) - 1 = n
    BY <1>2, <2>7
  <2>9. QED
    BY <2>6, <2>7, <2>8, EdcBytes DEF Edc!ChecksumRight
<1>6. QED
  BY <1>1, <1>3, <1>4, <1>5

(* The numbers the EDC counts up.                                            *)
LEMMA Seq8Is ==
  \A from \in Int, n \in Nat :
    /\ Edc!Seq8(from, n) \in Seq(Byte) /\ Len(Edc!Seq8(from, n)) = n
    /\ \A i \in 1 .. n : Edc!Seq8(from, n)[i] = (from + i) % 256
<1>1. ASSUME NEW from \in Int, NEW n \in Nat
      PROVE  /\ Edc!Seq8(from, n) \in [1 .. n -> Byte]
             /\ \A i \in 1 .. n : Edc!Seq8(from, n)[i] = (from + i) % 256
  BY DEF Edc!Seq8, Byte
<1>2. QED
  BY <1>1, ArraySeq

(* A number and its four bytes.                                              *)
LEMMA FourDigits ==
  ASSUME NEW n \in Nat
  PROVE  n = (n \div 16777216) * 16777216 + ((n \div 65536) % 256) * 65536
               + ((n \div 256) % 256) * 256 + (n % 256)
<1> DEFINE a == n \div 256
           b == n \div 65536
           c == n \div 16777216
<1>1. a \in Nat /\ n = 256 * a + (n % 256)
  BY SMT
<1>2. b \in Nat /\ a = 256 * b + (a % 256)
  BY SMT
<1>3. c \in Nat /\ b = 256 * c + (b % 256)
  BY SMT
<1> HIDE DEF a, b, c
<1>4. n = c * 16777216 + (b % 256) * 65536 + (a % 256) * 256 + (n % 256)
  BY <1>1, <1>2, <1>3, SMT
<1>5. QED
  BY <1>4, SMT DEF a, b, c

(* How the EDC sends a number is how the driver takes it.                     *)
LEMMA Word32Is ==
  ASSUME NEW i \in Int, -16777216 <= i, i <= 16777215
  PROVE  Edc!Word32(i) \in [1 .. 4 -> 0 .. 255] /\ Edc!Int32(Edc!Word32(i)) = i
<1> DEFINE n == IF i < 0 THEN i + 2147483647 + 1 ELSE i
           c == n \div 16777216
           d == IF i < 0 THEN c + 128 ELSE c
           x == (n \div 65536) % 256
           y == (n \div 256) % 256
           z == n % 256
<1>1. n \in Nat /\ c \in Nat /\ (i < 0 => c = 127) /\ (~(i < 0) => c = 0)
  BY SMT
<1>2. x \in 0 .. 255 /\ y \in 0 .. 255 /\ z \in 0 .. 255
  BY <1>1, SMT
<1>3. n = c * 16777216 + x * 65536 + y * 256 + z
  BY <1>1, FourDigits, SMT
<1>4. Edc!Word32(i) = <<d, x, y, z>>
  BY SMT DEF Edc!Word32
<1>5. i = n \/ (i < 0 /\ i + 2147483648 = n)
  BY SMT
<1> HIDE DEF n, c, x, y, z
<1>6. d \in 0 .. 255
  BY <1>1, SMT
<1>7. Edc!Signed8(d) = IF i < 0 THEN -1 ELSE 0
  BY <1>1, SMT DEF Edc!Signed8
<1> HIDE DEF d
<1>8. Edc!Signed8(d) * 16777216 + x * 65536 + y * 256 + z = i
  BY <1>1, <1>2, <1>3, <1>5, <1>7, SMT
<1>9. Edc!Word32(i) \in [1 .. 4 -> 0 .. 255]
  BY <1>2, <1>4, <1>6, SMT
<1>10. Edc!Int32(Edc!Word32(i)) = i
  BY <1>2, <1>4, <1>6, <1>8, SMT DEF Edc!Int32
<1>11. QED
  BY <1>9, <1>10, SMT

(* A number of 17 bits by its two low bytes and what is left of it.           *)
LEMMA HalfOf ==
  ASSUME NEW l \in Int, -65536 <= l, l <= 65535
  PROVE  /\ l \div 65536 \in {-1, 0}
         /\ (l \div 256) % 256 \in Byte /\ l % 256 \in Byte
         /\ 256 * ((l \div 256) % 256) + (l % 256) = l - 65536 * (l \div 65536)
<1> DEFINE a == l \div 256
           b == l \div 65536
<1>1. a \in Int /\ l = 256 * a + (l % 256) /\ l % 256 \in 0 .. 255
  BY SMT
<1>2. b \in Int /\ a = 256 * b + (a % 256) /\ a % 256 \in 0 .. 255
  BY SMT
<1>3. b \in {-1, 0}
  BY SMT
<1> HIDE DEF a, b
<1>4. 256 * (a % 256) + (l % 256) = l - 65536 * b
  BY <1>1, <1>2, <1>3, SMT
<1>5. QED
  BY <1>1, <1>2, <1>3, <1>4, SMT DEF a, b, Byte

Hi(n) == (n \div 256) % 256
Lo(n) == n % 256

(* The two bytes of a half word.                                             *)
LEMMA HiLo ==
  ASSUME NEW x \in Byte, NEW y \in Byte
  PROVE  /\ 256 * x + y \in Int /\ 0 <= 256 * x + y /\ 256 * x + y <= 65535
         /\ Hi(256 * x + y) = x /\ Lo(256 * x + y) = y
BY SMT DEF Byte, Hi, Lo

(* What a half of a subtraction, with the borrow c of the lower half, gives   *)
(* when the half z of the subtrahend is added again.                          *)
Undone(u, z, c) ==
  LET l == u - z + c
      p == 256 * Hi(l) + Lo(l) + z - c
  IN /\ Hi(l) \in Byte /\ Lo(l) \in Byte /\ l \div 65536 \in {-1, 0}
     /\ p \div 65536 = -(l \div 65536) /\ Hi(p) = Hi(u) /\ Lo(p) = Lo(u)

(* What a subtraction of halves takes away, an addition gives back, borrow   *)
(* and carry included.                                                       *)
LEMMA Undo ==
  ASSUME NEW u \in Int, 0 <= u, u <= 65535, NEW z \in Int, 0 <= z, z <= 65535,
         NEW c \in {-1, 0}
  PROVE  Undone(u, z, c)
<1> DEFINE l == u - z + c
           k == l \div 65536
           p == 256 * Hi(l) + Lo(l) + z - c
<1>1. l \in Int /\ -65536 <= l /\ l <= 65535
  BY SMT
<1>2. k \in {-1, 0} /\ Hi(l) \in Byte /\ Lo(l) \in Byte /\ 256 * Hi(l) + Lo(l) = l - 65536 * k
  <2> HIDE DEF l
  <2>1. QED
    BY <1>1, HalfOf DEF Hi, Lo
<1> HIDE DEF k
<1>3. p = u - 65536 * k
  <2>1. ASSUME NEW n, n = l - 65536 * k PROVE n + z - c = u - 65536 * k
    BY <1>2, <2>1, SMT
  <2>2. QED
    BY <1>2, <2>1
<1> HIDE DEF p
<1>4. p \div 65536 = -k /\ Hi(p) = Hi(u) /\ Lo(p) = Lo(u)
  <2>1. CASE k = 0
    <3>1. p = u
      BY <1>3, <2>1, SMT
    <3>2. u \div 65536 = 0
      BY SMT
    <3>3. QED
      BY <2>1, <3>1, <3>2
  <2>2. CASE k = -1
    <3>1. p = u + 65536
      BY <1>3, <2>2, SMT
    <3>2. (u + 65536) \div 65536 = 1 /\ Hi(u + 65536) = Hi(u) /\ Lo(u + 65536) = Lo(u)
      BY SMT DEF Hi, Lo
    <3>3. QED
      BY <2>2, <3>1, <3>2
  <2>3. QED
    BY <1>2, <2>1, <2>2
<1>5. k = l \div 65536 /\ p = 256 * Hi(l) + Lo(l) + z - c
  BY DEF k, p
<1>6. QED
  <2> HIDE DEF l
  <2>1. Undone(u, z, c) =
          (/\ Hi(l) \in Byte /\ Lo(l) \in Byte /\ l \div 65536 \in {-1, 0}
           /\ p \div 65536 = -(l \div 65536) /\ Hi(p) = Hi(u) /\ Lo(p) = Lo(u))
    BY DEF Undone, l, p
  <2>2. QED
    BY <1>2, <1>4, <1>5, <2>1

(* Minus and Plus undo each other, modulo 2^32.                               *)
LEMMA MinusPlus ==
  ASSUME NEW v \in Word, NEW w \in Word
  PROVE  Minus(v, w) \in Word /\ Plus(Minus(v, w), w) = v
<1> DEFINE lv == Lower(v)
           lw == Lower(w)
           uv == Upper(v)
           uw == Upper(w)
           l == lv - lw
           k == l \div 65536
           h == uv - uw + k
           m == <<Hi(h), Lo(h), Hi(l), Lo(l)>>
           p == Lower(m) + lw
           q == Upper(m) + uw + p \div 65536
<1>1. /\ v[1] \in Byte /\ v[2] \in Byte /\ v[3] \in Byte /\ v[4] \in Byte
      /\ w[1] \in Byte /\ w[2] \in Byte /\ w[3] \in Byte /\ w[4] \in Byte
  BY DEF Word
<1>2. Minus(v, w) = m
  BY DEF Minus, FromHalves, Hi, Lo
<1>3. Plus(m, w) = <<Hi(q), Lo(q), Hi(p), Lo(p)>>
  BY DEF Plus, FromHalves, Hi, Lo
<1>4. /\ lv \in Int /\ 0 <= lv /\ lv <= 65535 /\ Hi(lv) = v[3] /\ Lo(lv) = v[4]
      /\ lw \in Int /\ 0 <= lw /\ lw <= 65535
  BY <1>1, HiLo DEF Lower
<1>5. /\ uv \in Int /\ 0 <= uv /\ uv <= 65535 /\ Hi(uv) = v[1] /\ Lo(uv) = v[2]
      /\ uw \in Int /\ 0 <= uw /\ uw <= 65535
  BY <1>1, HiLo DEF Upper
<1> HIDE DEF lv, lw, uv, uw
<1>6. Lower(m) = 256 * Hi(l) + Lo(l) /\ Upper(m) = 256 * Hi(h) + Lo(h)
  BY DEF Lower, Upper
<1>7. Undone(lv, lw, 0)
  BY <1>4, Undo
<1>8. /\ k \in {-1, 0} /\ Hi(l) \in Byte /\ Lo(l) \in Byte /\ p \div 65536 = -k
      /\ Hi(p) = v[3] /\ Lo(p) = v[4]
  <2>1. lv - lw + 0 = l /\ l \in Int
    BY <1>4, SMT
  <2> HIDE DEF l
  <2>2. 256 * Hi(l) + Lo(l) + lw - 0 = p
    <3>1. Hi(l) \in Int /\ Lo(l) \in Int
      BY <2>1, SMT DEF Hi, Lo
    <3>2. p = 256 * Hi(l) + Lo(l) + lw
      BY <1>6
    <3> HIDE DEF p
    <3>3. QED
      BY <1>4, <3>1, <3>2, SMT
  <2> HIDE DEF p
  <2>3. QED
    BY <1>4, <1>7, <2>1, <2>2 DEF Undone
<1>9. Undone(uv, uw, k)
  <2>1. k \in {-1, 0}
    BY <1>8
  <2> HIDE DEF k
  <2>2. QED
    BY <1>5, <2>1, Undo
<1>10. Hi(h) \in Byte /\ Lo(h) \in Byte /\ Hi(q) = v[1] /\ Lo(q) = v[2]
  <2>1. h \in Int
    <3> HIDE DEF k
    <3>1. QED
      BY <1>5, <1>8, SMT
  <2>2. 256 * Hi(h) + Lo(h) + uw - k = q
    <3> HIDE DEF h
    <3>1. Hi(h) \in Int /\ Lo(h) \in Int
      BY <2>1, SMT DEF Hi, Lo
    <3>2. q = 256 * Hi(h) + Lo(h) + uw + (-k)
      BY <1>6, <1>8
    <3> HIDE DEF q, k
    <3>3. QED
      BY <1>5, <1>8, <3>1, <3>2, SMT
  <2>3. h = uv - uw + k
    OBVIOUS
  <2> HIDE DEF h, k, q
  <2>4. QED
    BY <1>5, <1>9, <2>2, <2>3 DEF Undone
<1>11. m \in Word
  <2> HIDE DEF h, l
  <2>1. QED
    BY <1>8, <1>10 DEF Word
<1>12. v = <<v[1], v[2], v[3], v[4]>>
  BY DEF Word
<1>13. QED
  <2> HIDE DEF m, p, q
  <2>1. QED
    BY <1>2, <1>3, <1>8, <1>10, <1>11, <1>12

(* A closed frame of the EDC: its kind and length, and no disturbance passes. *)
Framed(f, kind, n) ==
  /\ f \in Seq(Byte) /\ Len(f) = n /\ f[1] = kind
  /\ \A h \in OneByteOff(f, Masks) : ~ Edc!ChecksumRight(h)

(* What Closed adds to a frame whose first part is the kind.                  *)
LEMMA FrameCases ==
  ASSUME NEW s \in Seq(Byte), NEW kind, Part(s, 0, <<kind>>), NEW n \in Nat, n = Len(s) + 1
  PROVE  Framed(Edc!Closed(s), kind, n) /\ \A k, u : Part(s, k, u) => Part(Edc!Closed(s), k, u)
<1>1. /\ Edc!Closed(s) \in Seq(Byte) /\ Len(Edc!Closed(s)) = n
      /\ \A k, u : Part(s, k, u) => Part(Edc!Closed(s), k, u)
      /\ \A h \in OneByteOff(Edc!Closed(s), Masks) : ~ Edc!ChecksumRight(h)
  BY EdcClosed
<1>2. Part(Edc!Closed(s), 0, <<kind>>)
  BY <1>1
<1>3. Edc!Closed(s)[1] = kind
  BY <1>2 DEF Part
<1>4. QED
  BY <1>1, <1>3 DEF Framed

(* The last byte of a closed frame is the checksum of the others.             *)
LEMMA ClosedLast ==
  ASSUME NEW s \in Seq(Byte), Len(s) + 1 = 49
  PROVE  Edc!Closed(s)[49] = XorSum(s)
<1> DEFINE k == XorSum(s)
<1>1. Edc!Closed(s) = Append(s, k) /\ k \in Byte
  BY EdcBytes, XorsSensitive, ChecksumType DEF Edc!Closed, XorSum
<1> HIDE DEF k
<1>2. Append(s, k)[Len(s) + 1] = k
  BY <1>1, AppendProperties
<1>3. QED
  BY <1>1, <1>2 DEF k

(* The parts of a frame, one after the other.                                 *)
Grows(s, n, t, m) ==
  /\ s \in Seq(Byte) /\ t \in Seq(Byte)
  /\ s \o t \in Seq(Byte) /\ Len(s \o t) = m /\ Part(s \o t, n, t)
  /\ \A k, u : Part(s, k, u) => Part(s \o t, k, u)

(* The length of a frame so far, and where its last piece stands.            *)
LEMMA Grow ==
  ASSUME NEW s \in Seq(Byte), NEW t \in Seq(Byte), NEW n \in Nat, Len(s) = n,
         NEW m \in Nat, n + Len(t) = m
  PROVE  Grows(s, n, t, m)
BY Joined DEF Grows

(* Bytes written out are sequences.                                          *)
LEMMA Tuples ==
  \A x, y, z \in Byte :
    /\ <<x>> \in Seq(Byte) /\ Len(<<x>>) = 1 /\ <<x, y>> \in Seq(Byte) /\ Len(<<x, y>>) = 2
    /\ <<x, y, z>> \in Seq(Byte) /\ Len(<<x, y, z>>) = 3
OBVIOUS

(* What the type invariant says of the EDC.                                  *)
LEMMA EdcTyped ==
  ASSUME Edc!TypeOK
  PROVE  /\ edc.clock \in Word /\ edc.paused \in BOOLEAN /\ edc.taken \in 0 .. Packages
         /\ edc = [clock |-> edc.clock, paused |-> edc.paused, taken |-> edc.taken]
         /\ temp \in Byte /\ freq \in Freqs /\ Packages \in 0 .. 255
         /\ edc.taken \in Byte /\ Packages - edc.taken \in Byte
         /\ Reversed(edc.clock) \in Seq(Byte) /\ Len(Reversed(edc.clock)) = 4
         /\ Reversed(Reversed(edc.clock)) = edc.clock
<1>1. edc \in [clock : Word, paused : BOOLEAN, taken : 0 .. Packages] /\ temp \in Temps /\ freq \in Freqs
  BY EdcBytes DEF Edc!TypeOK
<1>2. temp \in Byte /\ Packages \in 0 .. 255
  BY <1>1, CodecsConstants DEF Byte
<1>3. edc.taken \in Byte /\ Packages - edc.taken \in Byte
  BY <1>1, <1>2 DEF Byte
<1>4. edc.clock \in Seq(Byte) /\ Len(edc.clock) = 4
  <2>1. edc.clock \in Word
    BY <1>1
  <2>2. QED
    BY <2>1, ArraySeq DEF Word
<1>5. QED
  BY <1>1, <1>2, <1>3, <1>4, Reverses

(* The STATE frame: where edc.h puts each field.                             *)
LEMMA StateFrameIs ==
  ASSUME Edc!TypeOK
  PROVE  LET f == Edc!StateFrame
         IN /\ Framed(f, 17, 9) /\ Part(f, 1, Reversed(edc.clock))
            /\ f[6] = Packages - edc.taken /\ f[7] = (IF edc.paused THEN 1 ELSE 0) /\ f[8] = 2
<1> DEFINE a == <<17>>
           b == Reversed(edc.clock)
           p == IF edc.paused THEN 1 ELSE 0
           c == <<Packages - edc.taken, p, 2>>
           s == a \o b
           t == s \o c
           f == Edc!Closed(t)
<1>1. 17 \in Byte /\ p \in Byte /\ 2 \in Byte /\ Packages - edc.taken \in Byte
  BY EdcTyped DEF Byte
<1>2. f = Edc!StateFrame
  BY EdcBytes DEF Edc!StateFrame, Edc!ID_STATE
<1> HIDE DEF p
<1>3. /\ a \in Seq(Byte) /\ Len(a) = 1 /\ c \in Seq(Byte) /\ Len(c) = 3
      /\ c[1] = Packages - edc.taken /\ c[2] = p /\ c[3] = 2
  BY <1>1, Tuples
<1>4. b \in Seq(Byte) /\ Len(b) = 4
  BY EdcTyped
<1> HIDE DEF b, c
<1>5. Grows(a, 1, b, 5)
  <2>1. a \in Seq(Byte) /\ Len(a) = 1 /\ 1 + Len(b) = 5
    BY <1>3, <1>4
  <2> HIDE DEF a
  <2>2. QED
    BY <1>4, <2>1, Grow
<1>6. Grows(s, 5, c, 8)
  <2>1. s \in Seq(Byte) /\ Len(s) = 5 /\ 5 + Len(c) = 8
    BY <1>3, <1>5 DEF Grows
  <2> HIDE DEF s
  <2>2. QED
    BY <1>3, <2>1, Grow
<1>7. Part(t, 0, a) /\ Part(t, 1, b) /\ Part(t, 5, c) /\ t \in Seq(Byte) /\ Len(t) + 1 = 9
  <2>1. Part(a, 0, a)
    BY <1>3, WholePart
  <2> HIDE DEF a
  <2>2. Part(s, 0, a) /\ Part(s, 1, b)
    BY <1>5, <2>1 DEF Grows
  <2> HIDE DEF s
  <2>3. QED
    BY <1>6, <2>2 DEF Grows
<1> HIDE DEF t
<1>8. Framed(f, 17, 9) /\ Part(f, 1, b) /\ Part(f, 5, c)
  BY <1>7, FrameCases
<1> HIDE DEF f
<1>9. f[6] = c[1] /\ f[7] = c[2] /\ f[8] = c[3]
  BY <1>3, <1>8 DEF Part
<1>10. QED
  BY <1>2, <1>3, <1>8, <1>9 DEF b, p

(* The pieces of a frame that count up.                                      *)
LEMMA Sequences8 ==
  ASSUME NEW from \in Int, NEW n \in {2, 4, 35}
  PROVE  Edc!Seq8(from, n) \in Seq(Byte) /\ Len(Edc!Seq8(from, n)) = n
BY Seq8Is

(* The PTT frame, when a package is left: where edc.h puts each field.       *)
LEMMA PttFrameIs ==
  ASSUME Edc!TypeOK, edc.taken # Packages
  PROVE  LET f == Edc!PttFrame
         IN /\ f[49] = Edc!XorSum(Edc!PttBody(edc.taken))
            /\ Framed(f, 34, 49) /\ Part(f, 1, Edc!Seq8(20 + edc.taken, 4)) /\ f[6] = edc.taken
            /\ Part(f, 6, Reversed(Edc!Word32(freq))) /\ Part(f, 10, <<7, 8, 35>>)
            /\ Part(f, 13, Edc!Message(edc.taken))
<1> DEFINE a == <<34>>
           b == Edc!Seq8(20 + edc.taken, 4)
           c == <<edc.taken>>
           d == Reversed(Edc!Word32(freq))
           e == <<7, 8, 35>>
           g == Edc!Message(edc.taken)
           ab == a \o b
           ac == ab \o c
           ad == ac \o d
           ae == ad \o e
           ag == ae \o g
           f == Edc!Closed(ag)
<1>1. 34 \in Byte /\ 7 \in Byte /\ 8 \in Byte /\ 35 \in Byte /\ edc.taken \in Byte
  BY EdcTyped DEF Byte
<1>2. /\ a \in Seq(Byte) /\ Len(a) = 1 /\ c \in Seq(Byte) /\ Len(c) = 1
      /\ e \in Seq(Byte) /\ Len(e) = 3 /\ c[1] = edc.taken
  BY <1>1, Tuples
<1>3. b \in Seq(Byte) /\ Len(b) = 4 /\ g \in Seq(Byte) /\ Len(g) = 35
  <2>1. 20 + edc.taken \in Int /\ 100 + 40 * edc.taken \in Int
    BY <1>1 DEF Byte
  <2>2. QED
    BY <2>1, Sequences8 DEF Edc!Message
<1>4. d \in Seq(Byte) /\ Len(d) = 4
  <2>1. freq \in Int /\ -16777216 <= freq /\ freq <= 16777215
    BY EdcTyped, CodecsFreqs
  <2>2. Edc!Word32(freq) \in [1 .. 4 -> Byte]
    BY <2>1, Word32Is DEF Byte
  <2>3. Edc!Word32(freq) \in Seq(Byte) /\ Len(Edc!Word32(freq)) = 4
    BY <2>2, ArraySeq
  <2>4. QED
    BY <2>3, Reverses
<1>5. f = Edc!PttFrame /\ ag = Edc!PttBody(edc.taken)
  BY EdcBytes DEF Edc!PttFrame, Edc!PttBody, Edc!ID_PTT
<1> HIDE DEF a, b, c, d, e, g
<1>6. Grows(a, 1, b, 5)
  <2>1. 1 + Len(b) = 5
    BY <1>2, <1>3
  <2>2. QED
    BY <1>2, <1>3, <2>1, Grow
<1>7. ab \in Seq(Byte) /\ Len(ab) = 5
  BY <1>6 DEF Grows
<1> HIDE DEF ab
<1>8. Grows(ab, 5, c, 6)
  <2>1. 5 + Len(c) = 6
    BY <1>2, <1>7
  <2>2. QED
    BY <1>2, <1>7, <2>1, Grow
<1>9. ac \in Seq(Byte) /\ Len(ac) = 6
  BY <1>8 DEF Grows
<1> HIDE DEF ac
<1>10. Grows(ac, 6, d, 10)
  <2>1. 6 + Len(d) = 10
    BY <1>4, <1>9
  <2>2. QED
    BY <1>4, <1>9, <2>1, Grow
<1>11. ad \in Seq(Byte) /\ Len(ad) = 10
  BY <1>10 DEF Grows
<1> HIDE DEF ad
<1>12. Grows(ad, 10, e, 13)
  <2>1. 10 + Len(e) = 13
    BY <1>2, <1>11
  <2>2. QED
    BY <1>2, <1>11, <2>1, Grow
<1>13. ae \in Seq(Byte) /\ Len(ae) = 13
  BY <1>12 DEF Grows
<1> HIDE DEF ae
<1>14. Grows(ae, 13, g, 48)
  <2>1. 13 + Len(g) = 48
    BY <1>3, <1>13
  <2>2. QED
    BY <1>3, <1>13, <2>1, Grow
<1>15. ag \in Seq(Byte) /\ Len(ag) + 1 = 49
  BY <1>14 DEF Grows
<1>16. /\ Part(a, 0, a)
       /\ \A k, u : Part(a, k, u) => Part(ab, k, u)
       /\ \A k, u : Part(ab, k, u) => Part(ac, k, u)
       /\ \A k, u : Part(ac, k, u) => Part(ad, k, u)
       /\ \A k, u : Part(ad, k, u) => Part(ae, k, u)
       /\ \A k, u : Part(ae, k, u) => Part(ag, k, u)
       /\ Part(ab, 1, b) /\ Part(ac, 5, c) /\ Part(ad, 6, d) /\ Part(ae, 10, e) /\ Part(ag, 13, g)
  BY <1>2, <1>6, <1>8, <1>10, <1>12, <1>14, WholePart DEF Grows, ab, ac, ad, ae
<1> HIDE DEF ag
<1>17. /\ Part(ag, 0, a) /\ Part(ag, 1, b) /\ Part(ag, 5, c) /\ Part(ag, 6, d) /\ Part(ag, 10, e)
       /\ Part(ag, 13, g)
  BY <1>16
<1>18. Framed(f, 34, 49) /\ \A k, u : Part(ag, k, u) => Part(f, k, u)
  BY <1>15, <1>17, FrameCases DEF a
<1> HIDE DEF f
<1>19. f[6] = edc.taken
  <2>1. Part(f, 5, c)
    BY <1>17, <1>18
  <2>2. QED
    BY <1>2, <2>1 DEF Part
<1>20. f[49] = Edc!XorSum(Edc!PttBody(edc.taken))
  BY <1>5, <1>15, ClosedLast, EdcBytes DEF f
<1>21. QED
  BY <1>5, <1>17, <1>18, <1>19, <1>20 DEF b, d, e, g

(* The HK frame: where edc.h puts each field.                                *)
LEMMA HkFrameIs ==
  ASSUME Edc!TypeOK
  PROVE  LET f == Edc!HkFrame
         IN /\ Framed(f, 68, 26) /\ Part(f, 1, Reversed(edc.clock)) /\ Part(f, 5, Edc!Seq8(10, 4))
            /\ Part(f, 9, Edc!Seq8(20, 2)) /\ Part(f, 11, Edc!Seq8(22, 2))
            /\ Part(f, 13, Edc!Seq8(24, 2)) /\ f[16] = temp /\ f[17] = 1
            /\ Part(f, 17, Edc!Seq8(30, 2)) /\ Part(f, 19, Edc!Seq8(40, 4))
            /\ f[24] = 50 /\ f[25] = 51
<1> DEFINE a == <<68>>
           b == Reversed(edc.clock)
           c == Edc!Seq8(10, 4)
           d == Edc!Seq8(20, 2)
           e == Edc!Seq8(22, 2)
           g == Edc!Seq8(24, 2)
           i == <<temp, 1>>
           j == Edc!Seq8(30, 2)
           l == Edc!Seq8(40, 4)
           m == <<50, 51>>
           ab == a \o b
           ac == ab \o c
           ad == ac \o d
           ae == ad \o e
           ag == ae \o g
           ai == ag \o i
           aj == ai \o j
           al == aj \o l
           am == al \o m
           f == Edc!Closed(am)
<1>1. 68 \in Byte /\ 1 \in Byte /\ 50 \in Byte /\ 51 \in Byte /\ temp \in Byte
  BY EdcTyped DEF Byte
<1>2. /\ a \in Seq(Byte) /\ Len(a) = 1 /\ i \in Seq(Byte) /\ Len(i) = 2
      /\ m \in Seq(Byte) /\ Len(m) = 2 /\ i[1] = temp /\ i[2] = 1 /\ m[1] = 50 /\ m[2] = 51
  BY <1>1, Tuples
<1>3. /\ c \in Seq(Byte) /\ Len(c) = 4 /\ d \in Seq(Byte) /\ Len(d) = 2
      /\ e \in Seq(Byte) /\ Len(e) = 2 /\ g \in Seq(Byte) /\ Len(g) = 2
      /\ j \in Seq(Byte) /\ Len(j) = 2 /\ l \in Seq(Byte) /\ Len(l) = 4
  BY Sequences8
<1>4. b \in Seq(Byte) /\ Len(b) = 4
  BY EdcTyped
<1>5. f = Edc!HkFrame
  BY EdcBytes DEF Edc!HkFrame, Edc!ID_HK
<1> HIDE DEF a, b, c, d, e, g, i, j, l, m
<1>6. Grows(a, 1, b, 5)
  <2>1. 1 + Len(b) = 5
    BY <1>2, <1>4
  <2>2. QED
    BY <1>2, <1>4, <2>1, Grow
<1>7. ab \in Seq(Byte) /\ Len(ab) = 5
  BY <1>6 DEF Grows
<1> HIDE DEF ab
<1>8. Grows(ab, 5, c, 9)
  <2>1. 5 + Len(c) = 9
    BY <1>3, <1>7
  <2>2. QED
    BY <1>3, <1>7, <2>1, Grow
<1>9. ac \in Seq(Byte) /\ Len(ac) = 9
  BY <1>8 DEF Grows
<1> HIDE DEF ac
<1>10. Grows(ac, 9, d, 11)
  <2>1. 9 + Len(d) = 11
    BY <1>3, <1>9
  <2>2. QED
    BY <1>3, <1>9, <2>1, Grow
<1>11. ad \in Seq(Byte) /\ Len(ad) = 11
  BY <1>10 DEF Grows
<1> HIDE DEF ad
<1>12. Grows(ad, 11, e, 13)
  <2>1. 11 + Len(e) = 13
    BY <1>3, <1>11
  <2>2. QED
    BY <1>3, <1>11, <2>1, Grow
<1>13. ae \in Seq(Byte) /\ Len(ae) = 13
  BY <1>12 DEF Grows
<1> HIDE DEF ae
<1>14. Grows(ae, 13, g, 15)
  <2>1. 13 + Len(g) = 15
    BY <1>3, <1>13
  <2>2. QED
    BY <1>3, <1>13, <2>1, Grow
<1>15. ag \in Seq(Byte) /\ Len(ag) = 15
  BY <1>14 DEF Grows
<1> HIDE DEF ag
<1>16. Grows(ag, 15, i, 17)
  <2>1. 15 + Len(i) = 17
    BY <1>2, <1>15
  <2>2. QED
    BY <1>2, <1>15, <2>1, Grow
<1>17. ai \in Seq(Byte) /\ Len(ai) = 17
  BY <1>16 DEF Grows
<1> HIDE DEF ai
<1>18. Grows(ai, 17, j, 19)
  <2>1. 17 + Len(j) = 19
    BY <1>3, <1>17
  <2>2. QED
    BY <1>3, <1>17, <2>1, Grow
<1>19. aj \in Seq(Byte) /\ Len(aj) = 19
  BY <1>18 DEF Grows
<1> HIDE DEF aj
<1>20. Grows(aj, 19, l, 23)
  <2>1. 19 + Len(l) = 23
    BY <1>3, <1>19
  <2>2. QED
    BY <1>3, <1>19, <2>1, Grow
<1>21. al \in Seq(Byte) /\ Len(al) = 23
  BY <1>20 DEF Grows
<1> HIDE DEF al
<1>22. Grows(al, 23, m, 25)
  <2>1. 23 + Len(m) = 25
    BY <1>2, <1>21
  <2>2. QED
    BY <1>2, <1>21, <2>1, Grow
<1>23. am \in Seq(Byte) /\ Len(am) + 1 = 26
  BY <1>22 DEF Grows
<1>24. /\ Part(a, 0, a)
       /\ \A k, u : Part(a, k, u) => Part(ab, k, u)
       /\ \A k, u : Part(ab, k, u) => Part(ac, k, u)
       /\ \A k, u : Part(ac, k, u) => Part(ad, k, u)
       /\ \A k, u : Part(ad, k, u) => Part(ae, k, u)
       /\ \A k, u : Part(ae, k, u) => Part(ag, k, u)
       /\ \A k, u : Part(ag, k, u) => Part(ai, k, u)
       /\ \A k, u : Part(ai, k, u) => Part(aj, k, u)
       /\ \A k, u : Part(aj, k, u) => Part(al, k, u)
       /\ \A k, u : Part(al, k, u) => Part(am, k, u)
       /\ Part(ab, 1, b) /\ Part(ac, 5, c) /\ Part(ad, 9, d) /\ Part(ae, 11, e) /\ Part(ag, 13, g)
       /\ Part(ai, 15, i) /\ Part(aj, 17, j) /\ Part(al, 19, l) /\ Part(am, 23, m)
  BY <1>2, <1>6, <1>8, <1>10, <1>12, <1>14, <1>16, <1>18, <1>20, <1>22, WholePart
  DEF Grows, ab, ac, ad, ae, ag, ai, aj, al
<1> HIDE DEF am
<1>25. /\ Part(am, 0, a) /\ Part(am, 1, b) /\ Part(am, 5, c) /\ Part(am, 9, d) /\ Part(am, 11, e)
       /\ Part(am, 13, g) /\ Part(am, 15, i) /\ Part(am, 17, j) /\ Part(am, 19, l)
       /\ Part(am, 23, m)
  BY <1>24
<1>26. Framed(f, 68, 26) /\ \A k, u : Part(am, k, u) => Part(f, k, u)
  BY <1>23, <1>25, FrameCases DEF a
<1> HIDE DEF f
<1>27. f[16] = temp /\ f[17] = 1 /\ f[24] = 50 /\ f[25] = 51
  <2>1. Part(f, 15, i) /\ Part(f, 23, m)
    BY <1>25, <1>26
  <2>2. /\ 1 \in 1 .. Len(i) /\ 2 \in 1 .. Len(i) /\ 1 \in 1 .. Len(m) /\ 2 \in 1 .. Len(m)
        /\ 16 = 15 + 1 /\ 17 = 15 + 2 /\ 24 = 23 + 1 /\ 25 = 23 + 2
    BY <1>2
  <2>3. f[16] = i[1] /\ f[17] = i[2] /\ f[24] = m[1] /\ f[25] = m[2]
    BY <1>2, <2>1, <2>2 DEF Part
  <2>4. QED
    BY <1>2, <2>3
<1>28. QED
  BY <1>5, <1>25, <1>26, <1>27 DEF b, c, d, e, g, j, l

(* The three XORs met below.                                                 *)
LEMMA XorsAre == Xors[0][34] = 34 /\ Xors[34][255] = 221 /\ Xors[221][255] = 34
<1>1. 0 \in Byte /\ 34 \in Byte /\ 221 \in Byte /\ 255 \in Byte
  BY DEF Byte
<1>2. XorOf(34, 0) = 34 /\ XorOf(0, 34) = XorOf(34, 0)
  BY <1>1, XorZero, XorType
<1>3. /\ Bit(34, 1) = 0 /\ Bit(34, 2) = 1 /\ Bit(34, 4) = 0 /\ Bit(34, 8) = 0
      /\ Bit(34, 16) = 0 /\ Bit(34, 32) = 1 /\ Bit(34, 64) = 0 /\ Bit(34, 128) = 0
  BY DEF Bit
<1>4. /\ Bit(221, 1) = 1 /\ Bit(221, 2) = 0 /\ Bit(221, 4) = 1 /\ Bit(221, 8) = 1
      /\ Bit(221, 16) = 1 /\ Bit(221, 32) = 0 /\ Bit(221, 64) = 1 /\ Bit(221, 128) = 1
  BY DEF Bit
<1>5. /\ Bit(255, 1) = 1 /\ Bit(255, 2) = 1 /\ Bit(255, 4) = 1 /\ Bit(255, 8) = 1
      /\ Bit(255, 16) = 1 /\ Bit(255, 32) = 1 /\ Bit(255, 64) = 1 /\ Bit(255, 128) = 1
  BY DEF Bit
<1>6. XorOf(34, 255) = 1 + 0 + 4 + 8 + 16 + 0 + 64 + 128
  <2>1. /\ XorBit(34, 255, 1) = 1 /\ XorBit(34, 255, 2) = 0 /\ XorBit(34, 255, 4) = 4
        /\ XorBit(34, 255, 8) = 8 /\ XorBit(34, 255, 16) = 16 /\ XorBit(34, 255, 32) = 0
        /\ XorBit(34, 255, 64) = 64 /\ XorBit(34, 255, 128) = 128
    BY <1>3, <1>5 DEF XorBit
  <2>2. QED
    BY <1>1, <2>1, XorSumOf
<1>7. XorOf(221, 255) = 0 + 2 + 0 + 0 + 0 + 32 + 0 + 0
  <2>1. /\ XorBit(221, 255, 1) = 0 /\ XorBit(221, 255, 2) = 2 /\ XorBit(221, 255, 4) = 0
        /\ XorBit(221, 255, 8) = 0 /\ XorBit(221, 255, 16) = 0 /\ XorBit(221, 255, 32) = 32
        /\ XorBit(221, 255, 64) = 0 /\ XorBit(221, 255, 128) = 0
    BY <1>4, <1>5 DEF XorBit
  <2>2. QED
    BY <1>1, <2>1, XorSumOf
<1>8. QED
  BY <1>2, <1>6, <1>7 DEF XorOf

(* Without a package the EDC sends 49 bytes of 255; one wrong byte does not   *)
(* make a package of them.                                                    *)
AllOnes == [k \in 1 .. 49 |-> 255]

(* No frame of 255 only is taken for a package, one wrong byte or not: the   *)
(* XOR of 34 and 47 times 255 is not 255.                                    *)
LEMMA NoPackage ==
  ASSUME NEW h, h = AllOnes \/ h \in OneByteOff(AllOnes, Masks)
  PROVE  ~ Edc!Accepted(34, h)
<1> DEFINE e == AllOnes
<1>1. SUFFICES ASSUME Edc!Accepted(34, h) PROVE FALSE
  OBVIOUS
<1>2. h[1] = 34
  BY <1>1 DEF Edc!Accepted
<1>3. h[Len(h)] = XorSum(SubSeq(h, 1, Len(h) - 1))
  BY <1>1, EdcBytes DEF Edc!Accepted, Edc!ChecksumRight
<1>4. DOMAIN e = 1 .. 49 /\ e[1] = 255 /\ \A k \in 1 .. 49 : e[k] = 255
  BY DEF AllOnes
<1> HIDE DEF e
<1>5. \E i \in 1 .. 49 : \E b : h = [e EXCEPT ![i] = b]
  <2>1. CASE h = e
    <3>1. e[1] = 34
      BY <1>2, <2>1
    <3>2. QED
      BY <1>4, <3>1
  <2>2. CASE h \in OneByteOff(e, Masks)
    <3>1. \E i \in DOMAIN e, m \in Masks : h = [e EXCEPT ![i] = XorOf(e[i], m)]
      BY <2>2 DEF OneByteOff
    <3> HIDE DEF XorOf
    <3>2. \E i \in DOMAIN e : \E b : h = [e EXCEPT ![i] = b]
      BY <3>1
    <3>3. QED
      BY <1>4, <3>2
  <2>3. QED
    BY <2>1, <2>2 DEF e
<1>6. PICK i \in 1 .. 49 : \E b : h = [e EXCEPT ![i] = b]
  BY <1>5
<1>6a. PICK b : h = [e EXCEPT ![i] = b]
  BY <1>6
<1>6b. i = 1 /\ b = 34
  BY <1>2, <1>4, <1>6a
<1>7. h = [k \in 1 .. 49 |-> IF k = 1 THEN 34 ELSE 255]
  BY <1>6a, <1>6b DEF e, AllOnes
<1> DEFINE n == 48
           s == SubSeq(h, 1, n)
<1>8. n \in Nat /\ n >= 1 /\ n = 48
  OBVIOUS
<1>9. /\ s \in Seq(Byte) /\ Len(s) = n /\ XorSum(s) = 255
      /\ \A k \in 1 .. n : s[k] \in Byte /\ (k = 1 => s[k] = 34) /\ (k # 1 => s[k] = 255)
  <2>1. h \in [1 .. 49 -> Byte]
    BY <1>7 DEF Byte
  <2>2. h \in Seq(Byte) /\ Len(h) = 49
    BY <2>1, ArraySeq
  <2>3. XorSum(s) = 255
    BY <1>3, <1>7, <2>2
  <2>4. \A k \in 1 .. n : h[k] \in Byte /\ (k = 1 => h[k] = 34) /\ (k # 1 => h[k] = 255)
    BY <1>7, <2>1
  <2> HIDE DEF n
  <2>5. /\ s \in Seq(Byte) /\ Len(s) = IF 1 <= n THEN n - 1 + 1 ELSE 0
        /\ \A k \in 1 .. n - 1 + 1 : s[k] = h[1 + k - 1]
    BY <1>8, <2>2, <2>4, SubSeqProperties
  <2>6. n - 1 + 1 = n /\ (IF 1 <= n THEN n - 1 + 1 ELSE 0) = n /\ \A k \in 1 .. n : 1 + k - 1 = k
    BY <1>8
  <2> HIDE DEF s
  <2>7. \A k \in 1 .. n : s[k] = h[k]
    BY <2>5, <2>6
  <2>8. Len(s) = n
    BY <2>5, <2>6
  <2>9. \A k \in 1 .. n : s[k] \in Byte /\ (k = 1 => s[k] = 34) /\ (k # 1 => s[k] = 255)
    BY <2>4, <2>7
  <2>10. s \in Seq(Byte)
    BY <2>5
  <2>11. QED
    BY <2>3, <2>8, <2>9, <2>10
<1> HIDE DEF n, s
<1>10. PICK c : Course(Xors, s, n, c) /\ XorSum(s) = c[n]
  <2>1. s \in Seq(Byte)
    BY <1>9
  <2>2. \E c : Course(Xors, s, Len(s), c) /\ Checksum(Xors, s) = c[Len(s)]
    BY <2>1, ChecksumCourse, XorsSensitive
  <2>3. QED
    BY <1>9, <2>2 DEF XorSum
<1>11. Xors[0][34] = 34 /\ Xors[34][255] = 221 /\ Xors[221][255] = 34
  BY XorsAre
<1>12. ASSUME NEW k \in 1 .. n PROVE c[k] \in {34, 221}
  <2> DEFINE T == {j \in 1 .. n : c[j] \notin {34, 221}}
  <2>1. SUFFICES ASSUME T # {} PROVE FALSE
    OBVIOUS
  <2>2. PICK m \in T : \A j \in T : m <= j
    <3>1. T \in SUBSET Nat
      OBVIOUS
    <3> HIDE DEF T
    <3>2. QED
      BY <2>1, <3>1, Least
  <2>3. m \in 1 .. n /\ c[m] \notin {34, 221} /\ c[m] = Xors[c[m - 1]][s[m]]
    BY <1>10 DEF Course
  <2>4. \A j \in 1 .. n : j < m => c[j] \in {34, 221}
    BY <2>2, <2>3
  <2> HIDE DEF T
  <2>5. CASE m = 1
    <3>1. m - 1 = 0 /\ c[0] = 0 /\ s[m] = 34
      BY <1>9, <1>10, <2>3, <2>5 DEF Course
    <3>2. QED
      BY <1>11, <2>3, <3>1
  <2>6. CASE m # 1
    <3>1. m - 1 \in 1 .. n /\ m - 1 < m
      BY <1>8, <2>3, <2>6
    <3>2. c[m - 1] \in {34, 221}
      BY <2>4, <3>1
    <3>3. s[m] = 255
      BY <1>9, <2>3, <2>6
    <3>4. QED
      BY <1>11, <2>3, <3>2, <3>3
  <2>7. QED
    BY <2>5, <2>6
<1>13. n \in 1 .. n
  BY <1>8
<1>14. c[n] = 255 /\ c[n] \in {34, 221}
  BY <1>9, <1>10, <1>12, <1>13
<1>15. QED
  BY <1>14

(* The numbers of the frames, and their lengths.                             *)
LEMMA EdcNumbers ==
  /\ Edc!ID_STATE = 17 /\ Edc!ID_PTT = 34 /\ Edc!ID_HK = 68 /\ Edc!ID_ADC_SEQ = 51
  /\ Edc!Kinds = {17, 34, 68} /\ Edc!PL_OK = 0 /\ Edc!NotWritten = <<>>
  /\ Edc!FrameLen(17) = 9 /\ Edc!FrameLen(34) = 49 /\ Edc!FrameLen(68) = 26
  /\ Edc!FrameOf(17) = Edc!StateFrame /\ Edc!FrameOf(34) = Edc!PttFrame
  /\ Edc!FrameOf(68) = Edc!HkFrame
BY DEF Edc!ID_STATE, Edc!ID_PTT, Edc!ID_HK, Edc!ID_ADC_SEQ, Edc!Kinds, Edc!PL_OK, Edc!NotWritten,
       Edc!FrameLen, Edc!FrameOf

(* A frame has a first byte.                                                 *)
LEMMA SomeBytes == \A n \in {9, 26, 49} : 1 <= n
OBVIOUS

(* The first byte of the frame that the EDC sends for a kind.                 *)
LEMMA FirstBytes ==
  ASSUME Edc!TypeOK, NEW k \in {17, 34, 68}
  PROVE  Edc!FrameOf(k)[1] \in {k, 255} /\ 1 <= Len(Edc!FrameOf(k))
<1>1. CASE k = 17
  <2>1. Edc!StateFrame[1] = k /\ Len(Edc!StateFrame) \in {9, 26, 49}
    BY <1>1, StateFrameIs DEF Framed
  <2>2. Edc!FrameOf(k) = Edc!StateFrame
    BY <1>1, EdcNumbers
  <2>3. QED
    BY <2>1, <2>2, SomeBytes
<1>2. CASE k = 68
  <2>1. Edc!HkFrame[1] = k /\ Len(Edc!HkFrame) \in {9, 26, 49}
    BY <1>2, HkFrameIs DEF Framed
  <2>2. Edc!FrameOf(k) = Edc!HkFrame
    BY <1>2, EdcNumbers
  <2>3. QED
    BY <2>1, <2>2, SomeBytes
<1>3. CASE k = 34 /\ edc.taken # Packages
  <2>1. Edc!PttFrame[1] = k /\ Len(Edc!PttFrame) \in {9, 26, 49}
    BY <1>3, PttFrameIs DEF Framed
  <2>2. Edc!FrameOf(k) = Edc!PttFrame
    BY <1>3, EdcNumbers
  <2>3. QED
    BY <2>1, <2>2, SomeBytes
<1>4. CASE k = 34 /\ edc.taken = Packages
  <2> DEFINE e == [i \in 1 .. 49 |-> 255]
  <2>1. Edc!PttFrame = e
    BY <1>4 DEF Edc!PttFrame
  <2>2. e \in [1 .. 49 -> Byte] /\ e[1] = 255
    BY DEF Byte
  <2> HIDE DEF e
  <2>3. Len(e) = 49
    BY <2>2, ArraySeq
  <2>4. Edc!FrameOf(k) = e
    BY <1>4, <2>1, EdcNumbers
  <2>5. QED
    BY <2>2, <2>3, <2>4, SomeBytes
<1>5. QED
  BY <1>1, <1>2, <1>3, <1>4

(* A decoder accepts the frame that the EDC has sent for it, or none.         *)
LEMMA AcceptedIsSent ==
  ASSUME Edc!TypeOK, NEW kind \in {17, 34, 68}, NEW bus, NEW f \in Edc!Disturbed(kind, bus),
         Edc!Accepted(kind, f)
  PROVE  /\ bus \notin {"off", "other"} /\ f = Edc!FrameOf(kind)
         /\ kind = 34 => edc.taken # Packages
<1> DEFINE g == Edc!FrameOf(kind)
<1>1. f[1] = kind /\ Edc!ChecksumRight(f)
  BY DEF Edc!Accepted
<1>2. ASSUME kind = 34, edc.taken = Packages PROVE f # g /\ f \notin OneByteOff(g, Masks)
  <2>1. g = AllOnes
    BY <1>2, EdcNumbers DEF Edc!PttFrame, AllOnes
  <2> HIDE DEF g
  <2>2. QED
    BY <1>2, <2>1, NoPackage
<1>3. f \notin OneByteOff(g, Masks)
  <2>1. CASE kind = 34 /\ edc.taken = Packages
    BY <1>2, <2>1
  <2>2. CASE ~(kind = 34 /\ edc.taken = Packages)
    <3>1. \A h \in OneByteOff(g, Masks) : ~ Edc!ChecksumRight(h)
      BY <2>2, EdcNumbers, StateFrameIs, PttFrameIs, HkFrameIs DEF Framed
    <3>2. QED
      BY <1>1, <3>1
  <2>3. QED
    BY <2>1, <2>2
<1>4. f \notin Edc!Others(kind)
  <2> DEFINE n == Edc!FrameLen(kind)
             o(k) == [i \in 1 .. n |-> IF i <= Len(Edc!FrameOf(k)) THEN Edc!FrameOf(k)[i] ELSE 0]
             z == [i \in 1 .. n |-> 0]
  <2>1. 1 \in 1 .. n
    BY EdcNumbers
  <2>2. Edc!Others(kind) = {z} \cup {o(k) : k \in {17, 34, 68} \ {kind}}
    BY EdcNumbers DEF Edc!Others
  <2> HIDE DEF n
  <2>3. f # z
    <3>1. z[1] = 0 /\ kind # 0
      BY <2>1
    <3> HIDE DEF z
    <3>2. QED
      BY <1>1, <3>1
  <2>4. ASSUME NEW k \in {17, 34, 68} \ {kind}
        PROVE  f # o(k)
    <3>1. Edc!FrameOf(k)[1] \in {k, 255} /\ 1 <= Len(Edc!FrameOf(k))
      BY FirstBytes
    <3>2. o(k)[1] = Edc!FrameOf(k)[1]
      BY <2>1, <3>1
    <3> HIDE DEF o
    <3>3. QED
      BY <1>1, <3>1, <3>2
  <2> HIDE DEF o, z
  <2>5. QED
    BY <2>2, <2>3, <2>4
<1>5. bus \notin {"off", "other"} /\ f = g
  BY <1>3, <1>4, EdcBytes DEF Edc!Disturbed
<1>6. QED
  BY <1>2, <1>5

(* ... of m bytes.                                                            *)
PartOf(f, n, m, s) == Part(f, n, s) /\ Len(s) = m

(* A field is the piece that stands at its place, its lowest byte last.      *)
LEMMA FieldIs ==
  ASSUME NEW f, NEW n, NEW m, NEW s, PartOf(f, n, m, s)
  PROVE  Edc!Field(f, n, m) = Reversed(s)
BY PartIs DEF PartOf

(* The fields that count up, as the driver takes them.                       *)
LEMMA ReversedSeq8 ==
  /\ Reversed(Edc!Seq8(10, 4)) = <<14, 13, 12, 11>> /\ Reversed(Edc!Seq8(20, 2)) = <<22, 21>>
  /\ Reversed(Edc!Seq8(22, 2)) = <<24, 23>> /\ Reversed(Edc!Seq8(24, 2)) = <<26, 25>>
  /\ Reversed(Edc!Seq8(30, 2)) = <<32, 31>> /\ Reversed(Edc!Seq8(40, 4)) = <<44, 43, 42, 41>>
  /\ Reversed(<<7, 8>>) = <<8, 7>>
<1>1. \A x, y : Reversed(<<x, y>>) = <<y, x>>
  BY DEF Reversed
<1>2. \A x, y, z, w : Reversed(<<x, y, z, w>>) = <<w, z, y, x>>
  BY DEF Reversed
<1>3. /\ Edc!Seq8(20, 2) = <<21, 22>> /\ Edc!Seq8(22, 2) = <<23, 24>>
      /\ Edc!Seq8(24, 2) = <<25, 26>> /\ Edc!Seq8(30, 2) = <<31, 32>>
  BY DEF Edc!Seq8
<1>4. Edc!Seq8(10, 4) = <<11, 12, 13, 14>> /\ Edc!Seq8(40, 4) = <<41, 42, 43, 44>>
  BY DEF Edc!Seq8
<1>5. QED
  BY <1>1, <1>2, <1>3, <1>4

(* What a read returns of the frame that the EDC has sent.                    *)
LEMMA StateDecoded ==
  ASSUME Edc!TypeOK
  PROVE  Edc!Decode(17, Edc!StateFrame) =
           [current_time |-> edc.clock, ptt_available |-> Packages - edc.taken,
            ptt_is_paused |-> edc.paused, sampler_state |-> 2]
<1> DEFINE f == Edc!StateFrame
<1>1. /\ Part(f, 1, Reversed(edc.clock)) /\ f[6] = Packages - edc.taken
      /\ f[7] = (IF edc.paused THEN 1 ELSE 0) /\ f[8] = 2
  BY StateFrameIs
<1>2. edc.paused \in BOOLEAN /\ Len(Reversed(edc.clock)) = 4 /\ Reversed(Reversed(edc.clock)) = edc.clock
  BY EdcTyped
<1> HIDE DEF f
<1>3. Edc!Field(f, 1, 4) = edc.clock
  <2>1. PartOf(f, 1, 4, Reversed(edc.clock))
    BY <1>1, <1>2 DEF PartOf
  <2>2. QED
    BY <1>2, <2>1, FieldIs
<1>4. (f[7] # 0) = edc.paused
  BY <1>1, <1>2
<1>5. Edc!Decode(17, f) = Edc!DecodeState(f)
  BY DEF Edc!Decode, Edc!ID_HK, Edc!ID_STATE, Edc!ID_PTT
<1>6. QED
  BY <1>1, <1>3, <1>4, <1>5 DEF Edc!DecodeState, f

(* edc_get_hk gives what the EDC has, field by field.                        *)
LEMMA HkDecoded ==
  ASSUME Edc!TypeOK
  PROVE  LET o == Edc!Decode(68, Edc!HkFrame)
         IN /\ o.current_time = edc.clock /\ o.elapsed_time = <<14, 13, 12, 11>>
            /\ o.current_supply_d = <<22, 21>> /\ o.current_supply_a = <<24, 23>>
            /\ o.voltage_supply = <<26, 25>> /\ o.temp = Edc!Celsius(temp)
            /\ o.pll_sync_bit = 1 /\ o.adc_rms = <<32, 31>> /\ o.num_rx_ptt = <<44, 43, 42, 41>>
            /\ o.max_parl_decod = 50 /\ o.mem_err_count = 51
<1> DEFINE f == Edc!HkFrame
           o == Edc!Decode(68, f)
<1>1. /\ Part(f, 1, Reversed(edc.clock)) /\ Part(f, 5, Edc!Seq8(10, 4))
      /\ Part(f, 9, Edc!Seq8(20, 2)) /\ Part(f, 11, Edc!Seq8(22, 2))
      /\ Part(f, 13, Edc!Seq8(24, 2)) /\ f[16] = temp /\ f[17] = 1
      /\ Part(f, 17, Edc!Seq8(30, 2)) /\ Part(f, 19, Edc!Seq8(40, 4))
      /\ f[24] = 50 /\ f[25] = 51
  BY HkFrameIs
<1>2. temp \in Byte /\ Len(Reversed(edc.clock)) = 4 /\ Reversed(Reversed(edc.clock)) = edc.clock
  BY EdcTyped
<1> HIDE DEF f
<1>3. /\ Edc!Field(f, 1, 4) = edc.clock /\ Edc!Field(f, 5, 4) = <<14, 13, 12, 11>>
      /\ Edc!Field(f, 9, 2) = <<22, 21>> /\ Edc!Field(f, 11, 2) = <<24, 23>>
      /\ Edc!Field(f, 13, 2) = <<26, 25>> /\ Edc!Field(f, 17, 2) = <<32, 31>>
      /\ Edc!Field(f, 19, 4) = <<44, 43, 42, 41>>
  <2>1. ASSUME NEW n, NEW from \in Int, NEW m \in {2, 4}, Part(f, n, Edc!Seq8(from, m))
        PROVE  Edc!Field(f, n, m) = Reversed(Edc!Seq8(from, m))
    <3>1. PartOf(f, n, m, Edc!Seq8(from, m))
      BY <2>1, Sequences8 DEF PartOf
    <3>2. QED
      BY <3>1, FieldIs
  <2>2. Edc!Field(f, 1, 4) = edc.clock
    <3>1. PartOf(f, 1, 4, Reversed(edc.clock))
      BY <1>1, <1>2 DEF PartOf
    <3>2. QED
      BY <1>2, <3>1, FieldIs
  <2>3. QED
    BY <1>1, <2>1, <2>2, ReversedSeq8
<1>4. o = Edc!DecodeHk(f)
  BY DEF Edc!Decode, Edc!ID_HK, Edc!ID_STATE, Edc!ID_PTT
<1> HIDE DEF o
<1>5. o.temp = Edc!Signed8((temp + 216) % 256)
  BY <1>1, <1>4 DEF Edc!DecodeHk
<1>6. o.temp = Edc!Celsius(temp)
  <2>1. \A t \in Byte : Edc!Signed8((t + 216) % 256) = Edc!Celsius(t)
    BY SMT DEF Edc!Signed8, Edc!Celsius, Byte
  <2>2. QED
    BY <1>2, <1>5, <2>1
<1>7. QED
  BY <1>1, <1>3, <1>4, <1>6 DEF Edc!DecodeHk, o, f

(* A division of C cuts towards 0.                                           *)
LEMMA Cut ==
  ASSUME NEW n \in Int
  PROVE  IF n >= 0 THEN n - 16 * Edc!Truncated(n, 16) \in 0 .. 15
                   ELSE 16 * Edc!Truncated(n, 16) - n \in 0 .. 15
<1>1. CASE n >= 0
  BY <1>1, SMT DEF Edc!Truncated
<1>2. CASE ~(n >= 0)
  BY <1>2, SMT DEF Edc!Truncated
<1>3. QED
  BY <1>1, <1>2

(* A sequence with one more byte behind it.                                  *)
LEMMA Appended ==
  ASSUME NEW g \in Seq(Byte), NEW x \in Byte
  PROVE  /\ Append(g, x) \in Seq(Byte) /\ Len(Append(g, x)) = Len(g) + 1
         /\ Append(g, x)[Len(g) + 1] = x /\ \A i \in 1 .. Len(g) : Append(g, x)[i] = g[i]
BY AppendProperties

(* 36 bytes are the first 35 and the last.                                   *)
LEMMA OneMore ==
  ASSUME NEW u \in Seq(Byte), NEW g \in Seq(Byte), NEW x \in Byte,
         Len(u) = 36, Len(g) = 35, u[36] = x, \A k \in 1 .. 35 : u[k] = g[k]
  PROVE  u = Append(g, x)
<1> DEFINE a == Append(g, x)
<1>1. /\ a \in Seq(Byte) /\ Len(a) = Len(g) + 1 /\ a[Len(g) + 1] = x
      /\ \A i \in 1 .. Len(g) : a[i] = g[i]
  BY Appended
<1> HIDE DEF a
<1>2. Len(a) = 36 /\ a[36] = x /\ \A k \in 1 .. 35 : a[k] = g[k]
  BY <1>1
<1>3. \A k \in 1 .. 36 : k = 36 \/ k \in 1 .. 35
  OBVIOUS
<1>4. \A k \in 1 .. Len(u) : u[k] = a[k]
  BY <1>2, <1>3
<1>5. Len(u) = Len(a)
  BY <1>2
<1>6. u = a
  BY <1>1, <1>4, <1>5, SeqEqual
<1>7. QED
  BY <1>6 DEF a

(* edc_get_ptt gives the oldest package, field by field.                     *)
LEMMA PttDecoded ==
  ASSUME Edc!TypeOK, edc.taken # Packages
  PROVE  LET o == Edc!Decode(34, Edc!PttFrame)
         IN /\ o.time_tag = Reversed(Edc!Seq8(20 + edc.taken, 4)) /\ o.error_code = edc.taken
            /\ Edc!CutToKhz(o.carrier_freq, freq)
            /\ o.carrier_abs = <<8, 7>> /\ o.msg_byte_length = 35
            /\ o.user_msg = Append(Edc!Message(edc.taken), Edc!XorSum(Edc!PttBody(edc.taken)))
<1> DEFINE f == Edc!PttFrame
           o == Edc!Decode(34, f)
           w == Edc!Word32(freq)
           t == Edc!Seq8(20 + edc.taken, 4)
           g == Edc!Message(edc.taken)
           u == SubSeq(f, 14, 49)
           x == Edc!XorSum(Edc!PttBody(edc.taken))
<1>1. /\ f[49] = x /\ f \in Seq(Byte) /\ Len(f) = 49 /\ Part(f, 1, t) /\ f[6] = edc.taken
      /\ Part(f, 6, Reversed(w)) /\ Part(f, 10, <<7, 8, 35>>) /\ Part(f, 13, g)
  BY PttFrameIs DEF Framed
<1>2. freq \in Int /\ -16777216 <= freq /\ freq <= 16777215 /\ edc.taken \in Byte
  BY EdcTyped, CodecsFreqs
<1>3. w \in Seq(Byte) /\ Len(w) = 4 /\ Edc!Int32(w) = freq
  <2>1. w \in [1 .. 4 -> Byte] /\ Edc!Int32(w) = freq
    BY <1>2, Word32Is DEF Byte
  <2> HIDE DEF w
  <2>2. QED
    BY <2>1, ArraySeq
<1>4. Len(t) = 4 /\ g \in Seq(Byte) /\ Len(g) = 35
  <2>1. 20 + edc.taken \in Int /\ 100 + 40 * edc.taken \in Int
    BY <1>2 DEF Byte
  <2>2. QED
    BY <2>1, Sequences8 DEF Edc!Message
<1> HIDE DEF f, w, t, g, x
<1>5. Reversed(Reversed(w)) = w /\ Len(Reversed(w)) = 4
  BY <1>3, Reverses
<1>6. Edc!Field(f, 6, 4) = w /\ Edc!Field(f, 1, 4) = Reversed(t)
  <2>1. PartOf(f, 6, 4, Reversed(w)) /\ PartOf(f, 1, 4, t)
    BY <1>1, <1>4, <1>5 DEF PartOf
  <2>2. QED
    BY <1>5, <2>1, FieldIs
<1>7. Edc!Field(f, 10, 2) = <<8, 7>> /\ f[13] = 35
  <2> DEFINE p == <<7, 8>>
             q == <<7, 8, 35>>
  <2>1. p \in Seq(Byte) /\ Len(p) = 2 /\ Len(q) = 3
    <3>1. 7 \in Byte /\ 8 \in Byte /\ 35 \in Byte
      BY DEF Byte
    <3>2. QED
      BY <3>1, Tuples
  <2>2. q[1] = 7 /\ q[2] = 8 /\ q[3] = 35 /\ p[1] = 7 /\ p[2] = 8
    OBVIOUS
  <2> HIDE DEF p, q
  <2>3. \A k \in 1 .. 3 : f[10 + k] = q[k]
    BY <1>1, <2>1 DEF Part, q
  <2>4. f[10 + 1] = 7 /\ f[10 + 2] = 8 /\ f[10 + 3] = 35
    BY <2>2, <2>3
  <2>5. \A k \in 1 .. Len(p) : f[10 + k] = p[k]
    BY <2>1, <2>2, <2>4
  <2>6. 10 + Len(p) <= Len(f) /\ 10 \in Nat
    BY <1>1, <2>1
  <2>7. PartOf(f, 10, 2, p)
    BY <1>1, <2>1, <2>5, <2>6 DEF Part, PartOf
  <2>8. QED
    BY <2>4, <2>7, FieldIs, ReversedSeq8 DEF p
<1>8. u = Append(g, x)
  <2>1. /\ u \in Seq(Byte) /\ Len(u) = 36 /\ \A k \in 1 .. 36 : u[k] = f[13 + k]
    <3> DEFINE a == 14
               b == 49
    <3>1. \A k \in a .. b : f[k] \in Byte
      <4>1. \A k \in a .. b : k \in 1 .. 49
        OBVIOUS
      <4>2. QED
        BY <1>1, <4>1, ElementOfSeq
    <3>2. /\ SubSeq(f, a, b) \in Seq(Byte)
          /\ Len(SubSeq(f, a, b)) = IF a <= b THEN b - a + 1 ELSE 0
          /\ \A k \in 1 .. b - a + 1 : SubSeq(f, a, b)[k] = f[a + k - 1]
      BY <1>1, <3>1, SubSeqProperties
    <3>3. \A k \in 1 .. 36 : k \in 1 .. b - a + 1 /\ a + k - 1 = 13 + k
      OBVIOUS
    <3>4. (IF a <= b THEN b - a + 1 ELSE 0) = 36
      OBVIOUS
    <3>5. QED
      BY <3>2, <3>3, <3>4
  <2> HIDE DEF u
  <2>2. 49 \in 1 .. Len(f)
    BY <1>1
  <2>3. x \in Byte
    BY <1>1, <2>2, ElementOfSeq
  <2>4. \A k \in 1 .. 35 : u[k] = g[k]
    <3>1. \A k \in 1 .. 35 : k \in 1 .. 36 /\ k \in 1 .. Len(g)
      BY <1>4
    <3>2. \A k \in 1 .. Len(g) : f[13 + k] = g[k]
      BY <1>1 DEF Part
    <3>3. QED
      BY <2>1, <3>1, <3>2
  <2>5. u[36] = x
    <3>1. u[36] = f[13 + 36]
      BY <2>1
    <3>2. QED
      BY <1>1, <3>1
  <2>6. QED
    BY <1>4, <2>1, <2>3, <2>4, <2>5, OneMore
<1>9. o = Edc!DecodePtt(f)
  BY DEF Edc!Decode, Edc!ID_HK, Edc!ID_STATE, Edc!ID_PTT
<1> HIDE DEF o
<1> DEFINE k16 == freq + 16 * 401635
<1>10. /\ o.carrier_freq = Edc!Truncated(k16, 16) /\ k16 \in Int
  BY <1>2, <1>3, <1>6, <1>9 DEF Edc!DecodePtt
<1> HIDE DEF k16
<1>11. Edc!CutToKhz(o.carrier_freq, freq)
  <2>1. IF k16 >= 0 THEN k16 - 16 * o.carrier_freq \in 0 .. 15 ELSE 16 * o.carrier_freq - k16 \in 0 .. 15
    BY <1>10, Cut
  <2>2. QED
    BY <2>1 DEF Edc!CutToKhz, k16
<1>12. /\ o.time_tag = Reversed(t) /\ o.error_code = edc.taken /\ o.carrier_abs = <<8, 7>>
       /\ o.msg_byte_length = 35 /\ o.user_msg = u
  BY <1>1, <1>6, <1>7, <1>9 DEF Edc!DecodePtt
<1>13. QED
  BY <1>8, <1>11, <1>12 DEF o, f, t, g, x

(* The four arguments of a command, as the EDC takes them.                   *)
LEMMA SetClockFrame ==
  ASSUME NEW p \in Word
  PROVE  LET f == <<1>> \o Reversed(p)
         IN f[1] = 1 /\ Reversed(SubSeq(f, 2, 5)) = p
<1> DEFINE a == <<1>>
           r == Reversed(p)
           f == a \o r
<1>1. p \in Seq(Byte) /\ Len(p) = 4
  BY ArraySeq DEF Word
<1>2. r \in Seq(Byte) /\ Len(r) = 4 /\ Reversed(r) = p
  BY <1>1, Reverses
<1>3. a \in Seq(Byte) /\ Len(a) = 1 /\ a[1] = 1
  <2>1. 1 \in Byte
    BY DEF Byte
  <2>2. QED
    BY <2>1, Tuples
<1> HIDE DEF a, r
<1>4. Part(f, Len(a), r) /\ Part(f, 0, a)
  BY <1>2, <1>3, Joined, WholePart
<1> HIDE DEF f
<1>5. SubSeq(f, Len(a) + 1, Len(a) + Len(r)) = r
  BY <1>4, PartIs
<1>6. Len(a) + 1 = 2 /\ Len(a) + Len(r) = 5
  BY <1>2, <1>3
<1>7. f[1] = 1
  BY <1>3, <1>4 DEF Part
<1>8. QED
  BY <1>2, <1>5, <1>6, <1>7 DEF f, a, r

(* What a command does to the EDC, by its number.                            *)
LEMMA Reaction ==
  ASSUME NEW f, Edc!React(f)
  PROVE  /\ f[1] = 1 => edc' = [edc EXCEPT !.clock = Reversed(SubSeq(f, 2, 5))]
         /\ f[1] = 6 => edc' = [edc EXCEPT !.taken = IF @ < Packages THEN @ + 1 ELSE @]
         /\ f[1] = 8 => edc' = [edc EXCEPT !.paused = TRUE]
         /\ f[1] = 9 => edc' = [edc EXCEPT !.paused = FALSE]
         /\ f[1] \notin {1, 6, 8, 9} => edc' = edc
<1> DEFINE e1 == [edc EXCEPT !.clock = Reversed(SubSeq(f, 2, 5))]
           e6 == [edc EXCEPT !.taken = IF @ < Packages THEN @ + 1 ELSE @]
           e8 == [edc EXCEPT !.paused = TRUE]
           e9 == [edc EXCEPT !.paused = FALSE]
<1>1. edc' = CASE f[1] = 1 -> e1 [] f[1] = 6 -> e6 [] f[1] = 8 -> e8 [] f[1] = 9 -> e9 [] OTHER -> edc
  BY EdcBytes DEF Edc!React, Edc!RTC_SET, Edc!PTT_POP, Edc!PTT_PAUSE, Edc!PTT_RESUME
<1> HIDE DEF e1, e6, e8, e9
<1>2. /\ f[1] = 1 => edc' = e1
      /\ f[1] = 6 => edc' = e6
      /\ f[1] = 8 => edc' = e8
      /\ f[1] = 9 => edc' = e9
      /\ f[1] \notin {1, 6, 8, 9} => edc' = edc
  BY <1>1
<1>3. QED
  BY <1>2 DEF e1, e6, e8, e9

(* What a command frame does to the EDC.                                      *)
LEMMA Reacts ==
  ASSUME Edc!TypeOK, NEW id \in Edc!Commands, NEW p \in Word, Edc!React(Edc!CmdFrame(id, p))
  PROVE  /\ edc' = [clock |-> IF id = 1 THEN p ELSE edc.clock,
                    paused |-> IF id = 8 THEN TRUE ELSE IF id = 9 THEN FALSE ELSE edc.paused,
                    taken |-> IF id = 6 /\ edc.taken < Packages THEN edc.taken + 1 ELSE edc.taken]
         /\ edc' \in [clock : Word, paused : BOOLEAN, taken : 0 .. Packages]
<1> DEFINE f == Edc!CmdFrame(id, p)
<1>1. id \in {1, 6, 8, 9, 10, 48, 49, 50, 52, 240}
  BY DEF Edc!Commands, Edc!RTC_SET, Edc!PTT_POP, Edc!PTT_PAUSE, Edc!PTT_RESUME, Edc!SAMPLER_START,
         Edc!GET_STATE, Edc!GET_PTT_PKG, Edc!GET_HK_PKG, Edc!GET_ADC_SEQ, Edc!ECHO
<1>2. f[1] = id /\ (id = 1 => Reversed(SubSeq(f, 2, 5)) = p)
  <2>1. CASE id = 1
    <3>1. f = <<1>> \o Reversed(p)
      BY <2>1, EdcBytes DEF Edc!CmdFrame, Edc!RTC_SET, Edc!GET_PTT_PKG, Edc!GET_ADC_SEQ
    <3>2. QED
      BY <2>1, <3>1, SetClockFrame
  <2>2. CASE id = 49
    BY <2>2 DEF Edc!CmdFrame, Edc!RTC_SET, Edc!GET_PTT_PKG, Edc!GET_ADC_SEQ
  <2>3. CASE id = 52
    BY <2>3 DEF Edc!CmdFrame, Edc!RTC_SET, Edc!GET_PTT_PKG, Edc!GET_ADC_SEQ
  <2>4. CASE id \notin {1, 49, 52}
    BY <2>4 DEF Edc!CmdFrame, Edc!RTC_SET, Edc!GET_PTT_PKG, Edc!GET_ADC_SEQ
  <2>5. QED
    BY <2>1, <2>2, <2>3, <2>4
<1> HIDE DEF f
<1>3. /\ edc.clock \in Word /\ edc.paused \in BOOLEAN /\ edc.taken \in 0 .. Packages /\ Packages \in 0 .. 255
      /\ edc = [clock |-> edc.clock, paused |-> edc.paused, taken |-> edc.taken]
  BY EdcTyped
<1>4. Edc!React(f)
  BY DEF f
<1>5. edc' = [clock |-> IF id = 1 THEN p ELSE edc.clock,
              paused |-> IF id = 8 THEN TRUE ELSE IF id = 9 THEN FALSE ELSE edc.paused,
              taken |-> IF id = 6 /\ edc.taken < Packages THEN edc.taken + 1 ELSE edc.taken]
  <2>1. CASE id = 1
    <3>1. edc' = [edc EXCEPT !.clock = p]
      BY <1>2, <1>4, <2>1, Reaction
    <3>2. QED
      BY <1>3, <2>1, <3>1
  <2>2. CASE id = 6
    <3>1. edc' = [edc EXCEPT !.taken = IF edc.taken < Packages THEN edc.taken + 1 ELSE edc.taken]
      BY <1>2, <1>4, <2>2, Reaction
    <3>2. QED
      BY <1>3, <2>2, <3>1
  <2>3. CASE id = 8
    <3>1. edc' = [edc EXCEPT !.paused = TRUE]
      BY <1>2, <1>4, <2>3, Reaction
    <3>2. edc' = [clock |-> edc.clock, paused |-> TRUE, taken |-> edc.taken]
      BY <1>3, <3>1
    <3>3. QED
      BY <2>3, <3>2
  <2>4. CASE id = 9
    <3>1. edc' = [edc EXCEPT !.paused = FALSE]
      BY <1>2, <1>4, <2>4, Reaction
    <3>2. edc' = [clock |-> edc.clock, paused |-> FALSE, taken |-> edc.taken]
      BY <1>3, <3>1
    <3>3. QED
      BY <2>4, <3>2
  <2>5. CASE id \notin {1, 6, 8, 9}
    <3>1. edc' = edc
      BY <1>2, <1>4, <2>5, Reaction
    <3>2. QED
      BY <1>3, <2>5, <3>1
  <2>6. QED
    BY <2>1, <2>2, <2>3, <2>4, <2>5
<1>6. (IF id = 6 /\ edc.taken < Packages THEN edc.taken + 1 ELSE edc.taken) \in 0 .. Packages
  BY <1>3
<1>7. QED
  BY <1>3, <1>5, <1>6

(* The numbers of the errors.                                                *)
LEMMA EdcErrors ==
  /\ Edc!PL_OK = 0 /\ Edc!INVALID_ARG = 1 /\ -Edc!UNKNOWN = -3 /\ -Edc!UNSUPPORTED_FN = -4
  /\ -Edc!DATA = -6 /\ -Edc!INVALID_ARG = -1
BY DEF Edc!PL_OK, Edc!INVALID_ARG, Edc!UNKNOWN, Edc!UNSUPPORTED_FN, Edc!DATA

(* A call that fails promises nothing of what it returns.                     *)
LEMMA EdcFails ==
  ASSUME Edc!TypeOK', err' # 0
  PROVE  Edc!IInv'
BY EdcErrors DEF Edc!IInv, Edc!OkMeansDecoded, Edc!CommandArrives

(* A call that ends before it reaches the bus preserves the invariant.       *)
LEMMA EdcReturns ==
  ASSUME Edc!IInv, NEW fn, NEW arg, NEW e \in {1, -3, -4, -6, -1}, Edc!Returns(fn, arg, e)
  PROVE  Edc!IInv' /\ Edc!HarmlessIfFailed
<1>1. /\ err' = e /\ e # 0 /\ call'.bus = "works" /\ sent' = <<>> /\ edc' = edc
      /\ registered' = registered /\ active' = active /\ temp' = temp /\ freq' = freq
  BY DEF Edc!Returns, Edc!Called
<1>2. Edc!TypeOK'
  BY <1>1, EdcErrors DEF Edc!IInv, Edc!TypeOK, Edc!Buses
<1>3. QED
  BY <1>1, <1>2, EdcFails DEF Edc!HarmlessIfFailed

(* The invariant holds before the first call.                                *)
LEMMA EdcStarts == Edc!Init => Edc!IInv
<1> SUFFICES ASSUME Edc!Init PROVE Edc!IInv
  OBVIOUS
<1> USE DEF Edc!Init
<1>1. Edc!TypeOK
  <2>1. edc \in [clock : Word, paused : BOOLEAN, taken : 0 .. Packages]
    BY EdcBytes, CodecsConstants DEF Word, Byte, ZeroWord
  <2>2. err \in {Edc!PL_OK, Edc!INVALID_ARG, -Edc!UNKNOWN, -Edc!UNSUPPORTED_FN, -Edc!DATA, -Edc!INVALID_ARG}
    OBVIOUS
  <2>3. call.bus \in Edc!Buses
    BY DEF Edc!Buses, Edc!Called
  <2>4. Len(sent) <= 2
    OBVIOUS
  <2>5. QED
    BY <2>1, <2>2, <2>3, <2>4, EdcBytes DEF Edc!TypeOK
<1>2. Edc!OkMeansDecoded /\ Edc!CommandArrives
  BY DEF Edc!OkMeansDecoded, Edc!CommandArrives, Edc!Called
<1>3. QED
  BY <1>1, <1>2 DEF Edc!IInv

(* One command on the bus, of write_cmd or set_clock.                         *)
LEMMA EdcCommand ==
  ASSUME Edc!IInv, NEW fn \in {"cmd", "clock"}, NEW id \in Edc!Commands, NEW arg, NEW word, NEW p \in Word,
         fn = "cmd" => arg = id /\ p = word,
         fn = "clock" => id = 1 /\ p = Minus(word, <<56, 109, 67, 128>>) /\ word \in Word,
         Edc!Command(fn, arg, word, Edc!CmdFrame(id, p))
  PROVE  Edc!IInv' /\ Edc!HarmlessIfFailed
<1> DEFINE f == Edc!CmdFrame(id, p)
<1> HIDE DEF f
<1>1. PICK bus \in {"works", "write_fails", "unacknowledged"} :
        /\ err' = IF bus = "works" THEN Edc!PL_OK ELSE -Edc!UNKNOWN
        /\ IF bus = "write_fails" THEN sent' = <<>> /\ UNCHANGED edc
                                  ELSE sent' = <<f>> /\ Edc!React(f)
        /\ call' = Edc!Called(fn, arg, word, bus)
        /\ UNCHANGED <<registered, active, temp, freq>>
  BY DEF Edc!Command, f
<1>2. /\ registered' = registered /\ active' = active /\ temp' = temp /\ freq' = freq
      /\ call'.fn = fn /\ call'.arg = arg /\ call'.word = word /\ call'.bus = bus
      /\ err' = (IF bus = "works" THEN 0 ELSE -3) /\ Len(sent') <= 2
  <2>1. Len(sent') <= 2
    <3>1. sent' = <<>> \/ sent' = <<f>>
      BY <1>1
    <3>2. Len(<<>>) = 0 /\ Len(<<f>>) = 1 /\ 0 <= 2 /\ 1 <= 2
      OBVIOUS
    <3>3. QED
      BY <3>1, <3>2
  <2>2. err' = (IF bus = "works" THEN 0 ELSE -3)
    BY <1>1, EdcErrors
  <2>3. QED
    BY <1>1, <2>1, <2>2 DEF Edc!Called
<1>3. /\ Edc!TypeOK /\ edc \in [clock : Word, paused : BOOLEAN, taken : 0 .. Packages]
  BY EdcBytes DEF Edc!IInv, Edc!TypeOK
<1> DEFINE after == [clock |-> IF id = 1 THEN p ELSE edc.clock,
                     paused |-> IF id = 8 THEN TRUE ELSE IF id = 9 THEN FALSE ELSE edc.paused,
                     taken |-> IF id = 6 /\ edc.taken < Packages THEN edc.taken + 1 ELSE edc.taken]
<1>4. /\ bus = "write_fails" => edc' = edc
      /\ bus # "write_fails" => edc' = after
      /\ edc' \in [clock : Word, paused : BOOLEAN, taken : 0 .. Packages]
  <2>1. CASE bus = "write_fails"
    BY <1>1, <1>3, <2>1
  <2>2. CASE bus # "write_fails"
    <3>1. Edc!React(Edc!CmdFrame(id, p))
      BY <1>1, <2>2 DEF f
    <3>2. QED
      BY <1>3, <2>2, <3>1, Reacts
  <2>3. QED
    BY <2>1, <2>2
<1>5. Edc!TypeOK'
  <2>1. /\ registered \in BOOLEAN /\ active \in BOOLEAN /\ temp \in Temps /\ freq \in Freqs
    BY <1>3 DEF Edc!TypeOK
  <2>2. call'.bus \in Edc!Buses
    BY <1>2 DEF Edc!Buses
  <2>3. err' \in {Edc!PL_OK, Edc!INVALID_ARG, -Edc!UNKNOWN, -Edc!UNSUPPORTED_FN, -Edc!DATA, -Edc!INVALID_ARG}
    BY <1>2, EdcErrors
  <2>4. QED
    BY <1>2, <1>4, <2>1, <2>2, <2>3, EdcBytes DEF Edc!TypeOK
<1>6. CASE bus # "works"
  <2>1. Edc!IInv'
    BY <1>2, <1>5, <1>6, EdcFails
  <2>2. bus \in {"write_fails", "unacknowledged"}
    BY <1>6
  <2>3. fn = "clock" => edc'.taken = edc.taken
    <3>1. fn = "clock" => after.taken = edc.taken
      OBVIOUS
    <3> HIDE DEF after
    <3>2. QED
      BY <1>4, <3>1
  <2>4. QED
    BY <1>2, <1>4, <2>1, <2>2, <2>3 DEF Edc!HarmlessIfFailed
<1>7. CASE bus = "works"
  <2>1. edc' = after /\ err' = 0
    BY <1>2, <1>4, <1>7
  <2>2. Edc!OkMeansDecoded'
    BY <1>2 DEF Edc!OkMeansDecoded
  <2>3. fn = "clock" => Plus(edc'.clock, <<56, 109, 67, 128>>) = word
    <3>1. fn = "clock" => after.clock = Minus(word, <<56, 109, 67, 128>>)
      OBVIOUS
    <3>2. <<56, 109, 67, 128>> \in Word
      BY DEF Word, Byte
    <3> HIDE DEF after
    <3>3. QED
      BY <2>1, <3>1, <3>2, MinusPlus
  <2>4. /\ fn = "cmd" /\ arg = 1 => edc'.clock = word
        /\ fn = "cmd" /\ arg = 8 => edc'.paused = TRUE
        /\ fn = "cmd" /\ arg = 9 => edc'.paused = FALSE
        /\ fn = "clock" => edc'.taken = edc.taken
    BY <2>1
  <2>5. Edc!CommandArrives'
    BY <1>2, <2>3, <2>4, EdcBytes
    DEF Edc!CommandArrives, Edc!RTC_SET, Edc!PTT_PAUSE, Edc!PTT_RESUME
  <2>6. Edc!HarmlessIfFailed
    BY <1>2, <2>1, <2>4, EdcErrors DEF Edc!HarmlessIfFailed
  <2>7. QED
    BY <1>5, <2>2, <2>5, <2>6 DEF Edc!IInv
<1>8. QED
  BY <1>6, <1>7

(* The frames that a read of a package puts on the bus.                       *)
LEMMA OneOrTwo ==
  ASSUME NEW x, NEW y, NEW c \in BOOLEAN
  PROVE  Len(<<x>> \o (IF c THEN <<y>> ELSE <<>>)) <= 2
<1> DEFINE S == {x, y}
           a == <<x>>
           b == IF c THEN <<y>> ELSE <<>>
<1>1. a \in Seq(S) /\ Len(a) = 1
  OBVIOUS
<1>2. b \in Seq(S) /\ Len(b) \in {0, 1}
  <2>1. <<>> \in Seq(S) /\ Len(<<>>) = 0 /\ <<y>> \in Seq(S) /\ Len(<<y>>) = 1
    OBVIOUS
  <2>2. QED
    BY <2>1
<1> HIDE DEF S, a, b
<1>3. Len(a \o b) = Len(a) + Len(b)
  BY <1>1, <1>2, ConcatProperties
<1>4. 1 + 0 <= 2 /\ 1 + 1 <= 2
  OBVIOUS
<1>5. QED
  BY <1>1, <1>2, <1>3, <1>4 DEF a, b

(* payload_edc_init and payload_init preserve the invariant.                 *)
LEMMA EdcInit ==
  ASSUME Edc!IInv, Edc!PayloadEdcInit \/ Edc!PayloadInit
  PROVE  Edc!IInv' /\ Edc!HarmlessIfFailed
<1>1. /\ Edc!TypeOK /\ registered \in BOOLEAN /\ active \in BOOLEAN /\ temp \in Temps /\ freq \in Freqs
      /\ edc \in [clock : Edc!Word, paused : BOOLEAN, taken : 0 .. Packages]
  BY DEF Edc!IInv, Edc!TypeOK
<1>2. ASSUME NEW fn, NEW arg, NEW e \in {1, -3, -4, -6, -1}, Edc!Returns(fn, arg, e)
      PROVE Edc!IInv' /\ Edc!HarmlessIfFailed
  BY <1>2, EdcReturns
<1>3. ASSUME edc' = edc, temp' = temp, freq' = freq, registered' \in BOOLEAN, active' \in BOOLEAN,
             call'.bus \in Edc!Buses, call'.fn \in {"register", "init"}, Len(sent') <= 2,
             err' \in {0, -3}
      PROVE  Edc!IInv' /\ Edc!HarmlessIfFailed
  <2>1. err' \in {Edc!PL_OK, Edc!INVALID_ARG, -Edc!UNKNOWN, -Edc!UNSUPPORTED_FN, -Edc!DATA, -Edc!INVALID_ARG}
    BY <1>3, EdcErrors
  <2>2. Edc!TypeOK'
    BY <1>1, <1>3, <2>1 DEF Edc!TypeOK
  <2>3. Edc!OkMeansDecoded' /\ Edc!CommandArrives'
    BY <1>3 DEF Edc!OkMeansDecoded, Edc!CommandArrives
  <2>4. QED
    BY <1>3, <2>2, <2>3 DEF Edc!IInv, Edc!HarmlessIfFailed
<1>4. CASE Edc!PayloadEdcInit
  <2>1. CASE /\ registered' = TRUE /\ call' = Edc!Called("register", 1, Edc!ZeroWord, "works")
             /\ err' = Edc!PL_OK /\ sent' = <<>> /\ UNCHANGED <<active, edc, temp, freq>>
    <3>1. call'.bus \in Edc!Buses /\ call'.fn = "register"
      BY <2>1 DEF Edc!Called, Edc!Buses
    <3>2. Len(sent') <= 2
      <4>1. Len(<<>>) <= 2
        OBVIOUS
      <4>2. QED
        BY <2>1, <4>1
    <3>3. QED
      BY <1>1, <1>3, <2>1, <3>1, <3>2, EdcErrors
  <2>2. CASE \E arg, e : e \in {1, -3, -4, -6, -1} /\ Edc!Returns("register", arg, e)
    BY <1>2, <2>2
  <2>3. QED
    BY <1>4, <2>1, <2>2, EdcErrors DEF Edc!PayloadEdcInit
<1>5. CASE Edc!PayloadInit
  <2>1. CASE ~registered
    BY <1>2, <1>5, <2>1, EdcErrors DEF Edc!PayloadInit, Edc!Refused
  <2>2. CASE registered
    <3>1. PICK bus \in Edc!Buses \ Edc!PopBuses, good \in BOOLEAN :
            /\ err' = IF good THEN Edc!PL_OK ELSE -Edc!UNKNOWN
            /\ active' = (active \/ good)
            /\ call' = Edc!Called("init", 0, Edc!ZeroWord, bus)
            /\ sent' = IF bus = "write_fails" THEN <<>> ELSE <<Edc!CmdFrame(Edc!GET_STATE, Edc!ZeroWord)>>
            /\ UNCHANGED <<registered, edc, temp, freq>>
      BY <1>5, <2>2 DEF Edc!PayloadInit
    <3>2. Len(sent') <= 2
      <4>1. \A x : Len(<<>>) <= 2 /\ Len(<<x>>) <= 2
        OBVIOUS
      <4>2. QED
        BY <3>1, <4>1
    <3>3. call'.bus \in Edc!Buses /\ call'.fn = "init"
      BY <3>1 DEF Edc!Called
    <3>4. err' \in {0, -3} /\ active' \in BOOLEAN
      BY <1>1, <3>1, EdcErrors
    <3>5. QED
      BY <1>1, <1>3, <3>1, <3>2, <3>3, <3>4
  <2>3. QED
    BY <1>1, <2>1, <2>2
<1>6. QED
  BY <1>4, <1>5

(* What a read does once it reaches the bus.                                  *)
Bus(type, bus, f) ==
  LET good == bus \notin Edc!NoFrame /\ Edc!Accepted(type, f)
      pops == type = Edc!ID_PTT /\ bus \notin Edc!NoFrame \cup {"pop_fails"} /\ Edc!PopAfter(f)
      pop == Edc!CmdFrame(Edc!PTT_POP, Edc!ZeroWord)
  IN /\ bus \in Edc!PopBuses => type = Edc!ID_PTT
     /\ out' = IF good THEN Edc!Decode(type, f) ELSE Edc!NotWritten
     /\ err' = IF good /\ bus \notin Edc!PopBuses THEN Edc!PL_OK ELSE -Edc!UNKNOWN
     /\ sent' = IF bus = "write_fails" THEN <<>>
                ELSE <<Edc!CmdFrame(Edc!GetCommand(type), Edc!ZeroWord)>>
                       \o (IF pops THEN <<pop>> ELSE <<>>)
     /\ IF pops THEN Edc!React(pop) ELSE UNCHANGED edc
     /\ call' = Edc!Called("read", type, Edc!ZeroWord, bus)
     /\ UNCHANGED <<registered, active, temp, freq>>

(* So does payload_read_data, however the bus behaves.                       *)
LEMMA EdcRead ==
  ASSUME Edc!IInv, NEW type \in {17, 34, 68}, NEW bus \in Edc!Buses,
         NEW f \in Edc!Disturbed(type, bus), Bus(type, bus, f)
  PROVE  Edc!IInv' /\ Edc!HarmlessIfFailed
<1> DEFINE good == bus \notin Edc!NoFrame /\ Edc!Accepted(type, f)
           pops == type = 34 /\ bus \notin Edc!NoFrame \cup {"pop_fails"} /\ Edc!Accepted(34, f)
           first == Edc!CmdFrame(Edc!GetCommand(type), Edc!ZeroWord)
           pop == Edc!CmdFrame(6, ZeroWord)
<1>1. good \in BOOLEAN /\ pops \in BOOLEAN
  OBVIOUS
<1>2. pops = (type = Edc!ID_PTT /\ bus \notin Edc!NoFrame \cup {"pop_fails"} /\ Edc!PopAfter(f))
  BY EdcNumbers DEF Edc!PopAfter
<1>3. pop = Edc!CmdFrame(Edc!PTT_POP, Edc!ZeroWord)
  BY EdcBytes DEF Edc!PTT_POP
<1>4. /\ bus \in Edc!PopBuses => type = 34
      /\ out' = IF good THEN Edc!Decode(type, f) ELSE Edc!NotWritten
      /\ err' = IF good /\ bus \notin Edc!PopBuses THEN Edc!PL_OK ELSE -Edc!UNKNOWN
      /\ sent' = IF bus = "write_fails" THEN <<>> ELSE <<first>> \o (IF pops THEN <<pop>> ELSE <<>>)
      /\ IF pops THEN Edc!React(pop) ELSE UNCHANGED edc
      /\ call' = Edc!Called("read", type, Edc!ZeroWord, bus)
      /\ UNCHANGED <<registered, active, temp, freq>>
  BY <1>2, <1>3, EdcNumbers DEF Bus
<1>5. Len(sent') <= 2
  <2>1. Len(<<first>> \o (IF pops THEN <<pop>> ELSE <<>>)) <= 2
    <3> HIDE DEF first, pop, pops
    <3>1. QED
      BY <1>1, OneOrTwo
  <2>2. Len(<<>>) <= 2
    OBVIOUS
  <2> HIDE DEF first, pop, pops
  <2>3. QED
    BY <1>4, <2>1, <2>2
<1>6. IF pops THEN Edc!React(Edc!CmdFrame(6, ZeroWord)) ELSE UNCHANGED edc
  BY <1>4
<1>7. pops => good /\ type = 34 /\ bus # "pop_fails"
  OBVIOUS
<1>8. /\ Edc!TypeOK /\ registered \in BOOLEAN /\ active \in BOOLEAN /\ temp \in Temps /\ freq \in Freqs
      /\ edc \in [clock : Word, paused : BOOLEAN, taken : 0 .. Packages]
  BY EdcBytes DEF Edc!IInv, Edc!TypeOK
<1>9. call'.fn = "read" /\ call'.arg = type /\ call'.bus = bus
  BY <1>4 DEF Edc!Called
<1>10. err' \in {0, -3} /\ (err' = 0 <=> good /\ bus \notin Edc!PopBuses)
  BY <1>4, EdcErrors
<1>11. good => bus \notin {"off", "other"} /\ f = Edc!FrameOf(type) /\ (type = 34 => edc.taken # Packages)
  BY <1>8, AcceptedIsSent
<1> HIDE DEF good, pops, first, pop
<1>12. err' = 0 => bus = "works"
  <2>1. good => bus \notin Edc!NoFrame
    BY DEF good
  <2>2. QED
    BY <1>10, <1>11, <2>1 DEF Edc!Buses, Edc!PopBuses, Edc!NoFrame
<1>13. /\ edc.taken \in 0 .. Packages /\ Packages \in 0 .. 255
       /\ edc = [clock |-> edc.clock, paused |-> edc.paused, taken |-> edc.taken]
  BY <1>8, EdcTyped
<1>14. /\ ~pops => edc' = edc
       /\ pops => /\ edc' = [clock |-> edc.clock, paused |-> edc.paused, taken |-> edc.taken + 1]
                  /\ good /\ type = 34
       /\ edc' \in [clock : Word, paused : BOOLEAN, taken : 0 .. Packages]
  <2>1. CASE ~pops
    BY <1>8, <1>6, <2>1
  <2>2. CASE pops
    <3>1. 6 \in Edc!Commands /\ ZeroWord \in Word
      BY DEF Edc!Commands, Edc!PTT_POP, ZeroWord, Word, Byte
    <3>2. good /\ type = 34 /\ edc.taken # Packages
      BY <1>11, <1>7, <2>2
    <3>3. edc.taken < Packages
      <4>1. \A m \in 0 .. 255 : \A n \in 0 .. m : n # m => n < m
        OBVIOUS
      <4>2. QED
        BY <1>13, <3>2, <4>1
    <3>4. Edc!React(Edc!CmdFrame(6, ZeroWord))
      BY <1>6, <2>2
    <3>5. ASSUME NEW id \in Edc!Commands, id = 6, Edc!React(Edc!CmdFrame(id, ZeroWord))
          PROVE  /\ edc' = [clock |-> edc.clock, paused |-> edc.paused, taken |-> edc.taken + 1]
                 /\ edc' \in [clock : Word, paused : BOOLEAN, taken : 0 .. Packages]
      <4>1. /\ edc' = [clock |-> IF id = 1 THEN ZeroWord ELSE edc.clock,
                       paused |-> IF id = 8 THEN TRUE ELSE IF id = 9 THEN FALSE ELSE edc.paused,
                       taken |-> IF id = 6 /\ edc.taken < Packages THEN edc.taken + 1 ELSE edc.taken]
            /\ edc' \in [clock : Word, paused : BOOLEAN, taken : 0 .. Packages]
        BY <1>8, <3>1, <3>5, Reacts
      <4>2. id # 1 /\ id # 8 /\ id # 9
        BY <3>5
      <4>3. QED
        BY <3>3, <3>5, <4>1, <4>2
    <3>6. QED
      BY <2>2, <3>1, <3>2, <3>4, <3>5
  <2>3. QED
    BY <2>1, <2>2
<1>15. Edc!TypeOK'
  <2>1. err' \in {Edc!PL_OK, Edc!INVALID_ARG, -Edc!UNKNOWN, -Edc!UNSUPPORTED_FN, -Edc!DATA, -Edc!INVALID_ARG}
    BY <1>10, EdcErrors
  <2>2. QED
    BY <1>8, <1>9, <1>14, <1>4, <1>5, <2>1, EdcBytes DEF Edc!TypeOK
<1>16. Edc!CommandArrives'
  BY <1>9 DEF Edc!CommandArrives
<1>17. Edc!HarmlessIfFailed
  <2>1. ASSUME err' # 0 PROVE edc' = edc \/ bus = "pop_unacknowledged"
    <3>1. CASE pops
      <4>1. bus \in Edc!PopBuses /\ bus # "pop_fails"
        BY <1>10, <1>7, <2>1, <3>1
      <4>2. QED
        BY <4>1 DEF Edc!PopBuses
    <3>2. QED
      BY <1>14, <3>1
  <2>2. ASSUME edc'.taken # edc.taken PROVE out' # Edc!NotWritten
    <3>1. good /\ type = 34
      BY <1>14, <2>2
    <3>2. out' = Edc!DecodePtt(f)
      BY <1>4, <3>1 DEF Edc!Decode, Edc!ID_STATE, Edc!ID_PTT, Edc!ID_HK
    <3>3. "error_code" \in DOMAIN Edc!DecodePtt(f)
      BY DEF Edc!DecodePtt
    <3>4. DOMAIN Edc!NotWritten = {}
      BY DEF Edc!NotWritten
    <3>5. QED
      BY <3>2, <3>3, <3>4
  <2>3. QED
    BY <1>9, <2>1, <2>2, EdcErrors DEF Edc!HarmlessIfFailed
<1>18. ASSUME err' = 0 PROVE Edc!OkMeansDecoded'
  <2>1. bus = "works" /\ out' = Edc!Decode(type, Edc!FrameOf(type)) /\ temp' = temp /\ freq' = freq
    BY <1>10, <1>11, <1>12, <1>18, <1>4
  <2>2. ASSUME type = 17
        PROVE  out' = [current_time |-> edc'.clock, ptt_available |-> Packages - edc'.taken,
                       ptt_is_paused |-> edc'.paused, sampler_state |-> 2]
    <3>1. edc' = edc
      BY <1>14, <2>2
    <3>2. out' = Edc!Decode(17, Edc!StateFrame)
      BY <2>1, <2>2, EdcNumbers
    <3>3. QED
      BY <1>8, <3>1, <3>2, StateDecoded
  <2>3. ASSUME type = 34
        PROVE  /\ out'.time_tag = Reversed(Edc!Seq8(19 + edc'.taken, 4)) /\ out'.error_code = edc'.taken - 1
               /\ Edc!CutToKhz(out'.carrier_freq, freq)
               /\ out'.carrier_abs = <<8, 7>>
               /\ out'.msg_byte_length = 35
               /\ out'.user_msg = Append(Edc!Message(edc'.taken - 1), Edc!XorSum(Edc!PttBody(edc'.taken - 1)))
    <3>1. pops /\ edc.taken # Packages
      BY <1>10, <1>11, <1>18, <2>1, <2>3 DEF good, pops
    <3>2. edc'.taken = edc.taken + 1 /\ edc.taken \in Int
      BY <1>13, <1>14, <3>1
    <3>3. 19 + edc'.taken = 20 + edc.taken /\ edc'.taken - 1 = edc.taken
      BY <3>2
    <3>4. out' = Edc!Decode(34, Edc!PttFrame)
      BY <2>1, <2>3, EdcNumbers
    <3>5. QED
      BY <1>8, <3>1, <3>3, <3>4, PttDecoded
  <2>4. ASSUME type = 68
        PROVE  /\ out'.current_time = edc'.clock /\ out'.elapsed_time = <<14, 13, 12, 11>>
               /\ out'.current_supply_d = <<22, 21>> /\ out'.current_supply_a = <<24, 23>>
               /\ out'.voltage_supply = <<26, 25>> /\ out'.temp = Edc!Celsius(temp)
               /\ out'.pll_sync_bit = 1 /\ out'.adc_rms = <<32, 31>> /\ out'.num_rx_ptt = <<44, 43, 42, 41>>
               /\ out'.max_parl_decod = 50 /\ out'.mem_err_count = 51
    <3>1. edc' = edc
      BY <1>14, <2>4
    <3>2. out' = Edc!Decode(68, Edc!HkFrame)
      BY <2>1, <2>4, EdcNumbers
    <3>3. QED
      BY <1>8, <3>1, <3>2, HkDecoded
  <2>5. Edc!PttBody(edc.taken - 1)' = Edc!PttBody(edc'.taken - 1)
    BY <2>1 DEF Edc!PttBody
  <2>6. QED
    BY <1>9, <2>1, <2>2, <2>3, <2>4, <2>5, EdcBytes
    DEF Edc!OkMeansDecoded, Edc!ID_STATE, Edc!ID_PTT, Edc!ID_HK
<1>19. QED
  <2>1. err' # 0 => Edc!OkMeansDecoded'
    BY EdcErrors DEF Edc!OkMeansDecoded
  <2>2. QED
    BY <1>15, <1>16, <1>17, <1>18, <2>1 DEF Edc!IInv

(* Every call of the payload interface preserves the invariant, and is       *)
(* harmless when it fails.                                                   *)
LEMMA EdcSteps ==
  ASSUME Edc!IInv, Edc!Next
  PROVE  Edc!IInv' /\ Edc!HarmlessIfFailed
<1>1. ASSUME NEW fn, NEW arg, NEW e \in {1, -3, -4, -6, -1}, Edc!Returns(fn, arg, e)
      PROVE Edc!IInv' /\ Edc!HarmlessIfFailed
  BY <1>1, EdcReturns
<1>2. ASSUME NEW fn, NEW arg, Edc!Refused(fn, arg) PROVE Edc!IInv' /\ Edc!HarmlessIfFailed
  BY <1>1, <1>2, EdcErrors DEF Edc!Refused
<1>3. CASE Edc!PayloadEdcInit \/ Edc!PayloadInit
  BY <1>3, EdcInit
<1>4. CASE Edc!ReadData
  <2>1. PICK type \in Edc!Kinds \cup {Edc!ID_ADC_SEQ}, buffer \in {"null", "small", "enough"} :
          IF ~registered \/ buffer = "null" THEN Edc!Refused("read", type)
          ELSE IF type = Edc!ID_ADC_SEQ THEN Edc!Returns("read", type, -Edc!UNSUPPORTED_FN)
          ELSE IF buffer = "small" THEN Edc!Returns("read", type, -Edc!DATA)
          ELSE \E bus \in Edc!Buses : \E f \in Edc!Disturbed(type, bus) : Bus(type, bus, f)
    BY <1>4 DEF Edc!ReadData, Bus
  <2>2. CASE ~registered \/ buffer = "null"
    BY <1>2, <2>1, <2>2
  <2>3. CASE ~(~registered \/ buffer = "null") /\ (type = Edc!ID_ADC_SEQ \/ buffer = "small")
    BY <1>1, <2>1, <2>3, EdcErrors
  <2>4. CASE ~(~registered \/ buffer = "null") /\ ~(type = Edc!ID_ADC_SEQ \/ buffer = "small")
    <3>1. PICK bus \in Edc!Buses : \E f \in Edc!Disturbed(type, bus) : Bus(type, bus, f)
      BY <2>1, <2>4
    <3>2. PICK f \in Edc!Disturbed(type, bus) : Bus(type, bus, f)
      BY <3>1
    <3>3. type \in {17, 34, 68}
      BY <2>1, <2>4, EdcNumbers
    <3>4. QED
      BY <3>2, <3>3, EdcRead
  <2>5. QED
    BY <2>2, <2>3, <2>4
<1>5. CASE Edc!WriteCmd
  <2>1. PICK cmd \in Edc!Commands \cup {0}, buffer \in {"null", "small", "enough"}, args \in Words :
          IF ~registered \/ buffer = "null" THEN Edc!Refused("cmd", cmd)
          ELSE IF buffer = "small" THEN Edc!Returns("cmd", cmd, -Edc!DATA)
          ELSE IF cmd \notin Edc!Commands THEN Edc!Returns("cmd", cmd, -Edc!UNKNOWN)
          ELSE Edc!Command("cmd", cmd, args, Edc!CmdFrame(cmd, args))
    BY <1>5 DEF Edc!WriteCmd
  <2>2. CASE ~registered \/ buffer = "null"
    BY <1>2, <2>1, <2>2
  <2>3. CASE ~(~registered \/ buffer = "null") /\ (buffer = "small" \/ cmd \notin Edc!Commands)
    BY <1>1, <2>1, <2>3, EdcErrors
  <2>4. CASE ~(~registered \/ buffer = "null") /\ ~(buffer = "small" \/ cmd \notin Edc!Commands)
    <3>1. Edc!Command("cmd", cmd, args, Edc!CmdFrame(cmd, args)) /\ cmd \in Edc!Commands /\ args \in Word
      BY <2>1, <2>4, CodecsConstants
    <3>2. QED
      BY <3>1, EdcCommand
  <2>5. QED
    BY <2>2, <2>3, <2>4
<1>6. CASE Edc!SetClock
  <2>1. PICK null \in BOOLEAN, ts \in Words :
          IF ~registered \/ null THEN Edc!Refused("clock", 0)
          ELSE Edc!Command("clock", 0, ts, Edc!CmdFrame(Edc!RTC_SET, Edc!SinceJ2000(ts)))
    BY <1>6 DEF Edc!SetClock
  <2>2. CASE ~registered \/ null
    BY <1>2, <2>1, <2>2
  <2>3. CASE ~(~registered \/ null)
    <3> DEFINE p == Minus(ts, <<56, 109, 67, 128>>)
    <3>1. ts \in Word /\ p \in Word
      <4>1. <<56, 109, 67, 128>> \in Word /\ ts \in Word
        BY CodecsConstants DEF Word, Byte
      <4>2. QED
        BY <4>1, MinusPlus
    <3>2. Edc!Command("clock", 0, ts, Edc!CmdFrame(1, p)) /\ 1 \in Edc!Commands
      BY <2>1, <2>3, EdcBytes DEF Edc!SinceJ2000, Edc!RTC_SET, Edc!Commands
    <3>3. p = Minus(ts, <<56, 109, 67, 128>>)
      OBVIOUS
    <3> HIDE DEF p
    <3>4. QED
      BY <3>1, <3>2, <3>3, EdcCommand
  <2>4. QED
    BY <2>2, <2>3
<1>7. CASE Edc!Unsupported
  BY <1>1, <1>2, <1>7, EdcErrors DEF Edc!Unsupported
<1>8. QED
  BY <1>3, <1>4, <1>5, <1>6, <1>7 DEF Edc!Next

-----------------------------------------------------------------------------
(* The three devices together *)

(* Nothing of a device changes when its variables do not.                     *)
LEMMA RadioKeeps == UNCHANGED codecVars /\ Radio!IInv => Radio!IInv'
BY DEF codecVars, registers, Radio!IInv, Radio!TypeOK, Radio!BankSoFar, Radio!FrameSoFar,
       Radio!HkInOrder, Radio!Reply, Radio!Wrong

(* The same for the EPS.                                                     *)
LEMMA EpsKeeps == UNCHANGED codecVars /\ Eps!IInv => Eps!IInv'
BY DEF codecVars, registers, Eps!IInv, Eps!TypeOK, Eps!BankSoFar, Eps!FrameSoFar,
       Eps!RecordInOrder, Eps!Reply

(* The same for the EDC.                                                     *)
LEMMA EdcKeeps == UNCHANGED codecVars /\ Edc!IInv => Edc!IInv'
<1> SUFFICES ASSUME UNCHANGED codecVars, Edc!IInv PROVE Edc!IInv'
  OBVIOUS
<1>1. /\ registered' = registered /\ active' = active /\ edc' = edc /\ temp' = temp
      /\ freq' = freq /\ call' = call /\ sent' = sent /\ err' = err /\ out' = out
  BY DEF codecVars, payload
<1>2. Edc!TypeOK'
  BY <1>1 DEF Edc!IInv, Edc!TypeOK
<1>3. Edc!OkMeansDecoded'
  <2>1. Edc!PttBody(edc.taken - 1)' = Edc!PttBody(edc.taken - 1)
    BY <1>1 DEF Edc!PttBody
  <2>2. QED
    BY <1>1, <2>1 DEF Edc!IInv, Edc!OkMeansDecoded
<1>4. Edc!CommandArrives'
  BY <1>1 DEF Edc!IInv, Edc!CommandArrives
<1>5. QED
  BY <1>2, <1>3, <1>4 DEF Edc!IInv

(* The three together.                                                       *)
LEMMA CodecsStarts == CodecsInit => CodecsInv
BY RadioStarts, EpsStarts, EdcStarts DEF CodecsInit, CodecsInv

(* The three together.                                                       *)
LEMMA CodecsSteps ==
  ASSUME CodecsInv, CodecsNext
  PROVE  CodecsInv' /\ (device = "edc" => Edc!HarmlessIfFailed)
<1>1. CASE device = "radio" /\ Radio!Next /\ UNCHANGED <<device, mode, how, payload>>
  BY <1>1, RadioSteps DEF CodecsInv
<1>2. CASE device = "eps" /\ Eps!Next /\ UNCHANGED <<device, whole, payload>>
  BY <1>2, EpsSteps DEF CodecsInv
<1>3. CASE device = "edc" /\ Edc!Next /\ UNCHANGED <<device, registers, whole, mode, how>>
  BY <1>3, EdcSteps DEF CodecsInv
<1>4. QED
  BY <1>1, <1>2, <1>3 DEF CodecsNext

(* The inductive invariant: a reply is the device's own as long as its        *)
(* history says so, and what the driver gave its caller is what the reply     *)
(* carried.                                                                   *)
THEOREM CodecsInvariance == CodecsSpec => []CodecsInv
<1>1. CodecsInv /\ UNCHANGED codecVars => CodecsInv'
  <2>1. UNCHANGED codecVars => device' = device
    BY DEF codecVars
  <2>2. QED
    BY <2>1, RadioKeeps, EpsKeeps, EdcKeeps DEF CodecsInv
<1>2. CodecsInv /\ [CodecsNext]_codecVars => CodecsInv'
  BY <1>1, CodecsSteps
<1>3. QED
  BY CodecsStarts, <1>2, PTL DEF CodecsSpec

(* What sl_ttc2_write_reg puts into a register of a radio is what its reader  *)
(* returns, cut to the reader's type, for every word; every field of the      *)
(* housekeeping record comes from its own register at that width.             *)
THEOREM RadioValues == CodecsSpec => []RadioValuesRight
<1>1. CodecsInv => RadioValuesRight
  BY RadioRight DEF CodecsInv, RadioValuesRight
<1>2. QED
  BY <1>1, CodecsInvariance, PTL

(* What sl_eps2_write_reg puts into a register of the EPS is what its reader  *)
(* returns, every field of sl_eps2_data_t comes from its own register, and a  *)
(* mode reaches the register of its MPPT or heater and no other.              *)
THEOREM EpsValues == CodecsSpec => []EpsValuesRight
<1>1. CodecsInv => EpsValuesRight
  BY EpsRight DEF CodecsInv, EpsValuesRight
<1>2. QED
  BY <1>1, CodecsInvariance, PTL

(* No reply with a wrong byte passes the checks of sl_ttc2_read_reg and       *)
(* sl_eps2_read_reg, whichever byte it is and however wrong; for a radio,     *)
(* neither does a reply of zeros or to another register.                      *)
THEOREM RepliesTrusted == CodecsSpec => []RepliesChecked
<1>1. CodecsInv => RepliesChecked
  BY RadioRight, EpsRight DEF CodecsInv, RepliesChecked
<1>2. QED
  BY <1>1, CodecsInvariance, PTL

(* A payload_read_data that returns PL_OK has each field of the frame the EDC *)
(* sent: no frame with a wrong byte, of another kind or of zeros is taken.    *)
(* The temperature is its byte less 40 up to 167 and less 296 above, where    *)
(* the int8_t wraps, and behind the 35 bytes of the message user_msg has the  *)
(* frame's checksum.                                                          *)
THEOREM EdcDecoded == CodecsSpec => []EdcOkMeansDecoded
<1>1. CodecsInv => EdcOkMeansDecoded
  BY DEF CodecsInv, EdcOkMeansDecoded, Edc!IInv
<1>2. QED
  BY <1>1, CodecsInvariance, PTL

(* After payload_set_clock returned PL_OK the EDC counts from J2000 what it   *)
(* was given from 1970, modulo 2^32, and a plain command arrives as it is.    *)
THEOREM EdcArrives == CodecsSpec => []EdcCommandArrives
<1>1. CodecsInv => EdcCommandArrives
  BY DEF CodecsInv, EdcCommandArrives, Edc!IInv
<1>2. QED
  BY <1>1, CodecsInvariance, PTL

(* A payload call that fails leaves the EDC as it was, unless only the        *)
(* acknowledgement was lost, and takes no package that the caller did not get.*)
THEOREM EdcHarmless == CodecsSpec => EdcFailedCallsHarmless
<1>1. CodecsInv /\ [CodecsNext]_codecVars => [device = "edc" => Edc!HarmlessIfFailed]_codecVars
  BY CodecsSteps
<1>2. QED
  BY <1>1, CodecsInvariance, PTL DEF CodecsSpec, EdcFailedCallsHarmless
================================================================================
