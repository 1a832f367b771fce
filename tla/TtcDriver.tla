------------------------------ MODULE TtcDriver ------------------------------
(***************************************************************************)
(* The TTC radio driver (src/src/drivers/sl_ttc2*.c): register reads and   *)
(* writes and packet transmission and reception over SPI, as calls that    *)
(* any thread may make.  An operation is up to two SPI transfers with a    *)
(* delay between them, all inside one section of the mutex that both       *)
(* radios share; a reception first reads the length register in a section  *)
(* of its own.                                                             *)
(*                                                                         *)
(* SPI has no acknowledgement: a transfer the host completed may have been *)
(* missed by the radio, which then has an old reply, or zeros, to shift    *)
(* out.  spi_transfer returns what ioctl(SPI_IOC_MESSAGE) returns, and the *)
(* constant Success says what that is when the transfer worked.            *)
(***************************************************************************)
EXTENDS Naturals

CONSTANTS
  Clients,    \* threads that call the driver
  NoClient,   \* nobody
  Radios,     \* the radios, one SPI chip select each
  Regs,       \* registers, the length of the first received packet apart
  Success     \* what ioctl returns for a completed transfer: 0 as the callers
              \* of spi_transfer expect, or a positive number of bytes

ASSUME TtcConstants == /\ NoClient \notin Clients
                       /\ "rx_len" \notin Regs
                       /\ Success \in Nat

\* The operations of the driver's interface, and the second section of a
\* reception, which follows the one that read the length.
Interface == {"read", "write", "send", "recv"}
Op == Interface \cup {"packet"}
LEN == "rx_len"    \* SL_TTC2_REG_LEN_FIRST_RX_PACKET_IN_FIFO
Adr == Regs \cup {LEN}

\* What a radio shifts out next: the reply to a request, known by its kind, its
\* register and the client that asked for it, or zeros.
Zeros == [cmd |-> "zeros", adr |-> LEN, by |-> NoClient]
Reply == [cmd : {"read", "packet"}, adr : Adr, by : Clients \cup {NoClient}] \cup {Zeros}

VARIABLES
  holder,     \* the client that has ttc_mutex
  pc,         \* where each client is in its call
  call,       \* its operation, radio and register
  err,        \* err of the call: 0 done, 1 for -1, or what spi_write returned
  got,        \* the reply the call has accepted, Zeros if none
  reply,      \* per radio: the frame it shifts out next
  announced,  \* per radio: the client whose packet it takes the next bytes for
  missed,     \* history: the radio missed the first transfer of the section, or
              \* has restarted since
  spiOk       \* history: every transfer of the call was completed by the host

vars == <<holder, pc, call, err, got, reply, announced, missed, spiOk>>

\* In "first", "second" and "give" a client is inside the mutex.
Inside == {"first", "second", "give"}

TypeOK ==
  /\ holder \in Clients \cup {NoClient}
  /\ pc \in [Clients -> {"idle", "take"} \cup Inside]
  /\ call \in [Clients -> [op : Op, radio : Radios, adr : Adr]]
  /\ err \in [Clients -> {0, 1, Success}]
  /\ got \in [Clients -> Reply]
  /\ reply \in [Radios -> Reply]
  /\ announced \in [Radios -> Clients \cup {NoClient}]
  /\ missed \in [Clients -> BOOLEAN]
  /\ spiOk \in [Clients -> BOOLEAN]

Init ==
  /\ holder = NoClient
  /\ pc = [c \in Clients |-> "idle"]
  /\ call \in [Clients -> {[op |-> "read", radio |-> r, adr |-> LEN] : r \in Radios}]
  /\ err = [c \in Clients |-> 1]
  /\ got = [c \in Clients |-> Zeros]
  /\ reply = [r \in Radios |-> Zeros]
  /\ announced = [r \in Radios |-> NoClient]
  /\ missed = [c \in Clients |-> FALSE]
  /\ spiOk = [c \in Clients |-> TRUE]

Goto(c, from, to) == pc[c] = from /\ pc' = [pc EXCEPT ![c] = to]

\* A call of sl_ttc2_read_reg, write_reg, transmit_packet or read_packet; the
\* last one begins with a read of the length register.
Call(c) ==
  /\ Goto(c, "idle", "take")
  /\ \E op \in Interface, r \in Radios, a \in Regs :
       call' = [call EXCEPT ![c] = [op |-> op, radio |-> r,
                                    adr |-> IF op \in {"send", "recv"} THEN LEN ELSE a]]
  /\ err' = [err EXCEPT ![c] = 1]
  /\ got' = [got EXCEPT ![c] = Zeros]
  /\ spiOk' = [spiOk EXCEPT ![c] = TRUE]
  /\ UNCHANGED <<holder, reply, announced, missed>>

\* Mutation: the mutex is not waited for.
Take_NoWait(c) ==
  /\ Goto(c, "take", "first")
  /\ holder' = c
  /\ missed' = [missed EXCEPT ![c] = FALSE]
  /\ UNCHANGED <<call, err, got, reply, announced, spiOk>>

\* sl_ttc2_mutex_take: a plain pthread_mutex_lock, without a timeout.
Take(c) ==
  /\ holder = NoClient
  /\ Goto(c, "take", "first")
  /\ holder' = c
  /\ missed' = [missed EXCEPT ![c] = FALSE]
  /\ UNCHANGED <<call, err, got, reply, announced, spiOk>>

\* What a section that reads asks the radio for.
Wanted(c) == IF call[c].op = "packet" THEN "packet" ELSE "read"
Asked(c) == [cmd |-> Wanted(c), adr |-> call[c].adr, by |-> c]

\* What the radio makes of the first transfer of a section.  It drops the
\* announcement of a packet whose bytes never came.
Request(c) ==
  LET r == call[c].radio
  IN /\ announced' = [announced EXCEPT ![r] = IF call[c].op = "send" THEN c ELSE NoClient]
     /\ reply' = [reply EXCEPT ![r] = IF call[c].op \in {"send", "write"} THEN @ ELSE Asked(c)]

\* The second transfer follows only a first one that returned 0.
GoesOn(c, ret) == call[c].op # "write" /\ ret = 0

\* First transfer of a section, completed by the host: taken or missed by the
\* radio.  A register write is over with it and returns its result.
FirstDone(c) ==
  /\ Goto(c, "first", IF GoesOn(c, Success) THEN "second" ELSE "give")
  /\ err' = [err EXCEPT ![c] = IF call[c].op = "write" THEN Success ELSE 1]
  /\ \/ Request(c) /\ UNCHANGED missed
     \/ /\ missed' = [missed EXCEPT ![c] = TRUE]
        /\ announced' = [announced EXCEPT ![call[c].radio] = NoClient]
        /\ UNCHANGED reply
  /\ UNCHANGED <<holder, call, got, spiOk>>

\* First transfer, not completed: open or ioctl failed, spi_transfer returns -1.
FirstFails(c) ==
  /\ Goto(c, "first", "give")
  /\ err' = [err EXCEPT ![c] = 1]
  /\ spiOk' = [spiOk EXCEPT ![c] = FALSE]
  /\ UNCHANGED <<holder, call, got, reply, announced, missed>>

\* Mutation: only the check value of a reply is looked at.
Accepts_AnyFrame(c, f) == TRUE

\* Checks on the second frame.  A register reply carries the preamble, the
\* command and the address; of a packet only the CRC is checked, which zeros and
\* every undamaged frame pass.
Accepts(c, f) == Wanted(c) = "read" => f.cmd = "read" /\ f.adr = call[c].adr

\* Second transfer of a read: the radio shifts out its reply, or a damaged one.
SecondRead(c) ==
  /\ call[c].op # "send"
  /\ Goto(c, "second", "give")
  /\ LET f == reply[call[c].radio]
         ok == Success = 0 /\ Accepts(c, f)
     IN \/ /\ err' = [err EXCEPT ![c] = IF ok THEN 0 ELSE 1]
           /\ got' = [got EXCEPT ![c] = IF ok THEN f ELSE Zeros]
           /\ UNCHANGED spiOk
        \/ /\ err' = [err EXCEPT ![c] = 1]
           /\ got' = [got EXCEPT ![c] = Zeros]
           /\ spiOk' = [spiOk EXCEPT ![c] = FALSE]
  /\ UNCHANGED <<holder, call, reply, announced, missed>>

\* Second transfer of a transmission: the bytes of the packet.
SecondSend(c) ==
  /\ call[c].op = "send"
  /\ Goto(c, "second", "give")
  /\ \/ /\ err' = [err EXCEPT ![c] = Success]
        /\ announced' = [announced EXCEPT ![call[c].radio] = NoClient]
        /\ UNCHANGED spiOk
     \/ /\ err' = [err EXCEPT ![c] = 1]
        /\ spiOk' = [spiOk EXCEPT ![c] = FALSE]
        /\ UNCHANGED announced
  /\ UNCHANGED <<holder, call, got, reply, missed>>

\* Between the two sections of a reception: the length is in range, or the call
\* ends there with err = -1.
NextSection(c) ==
  /\ call[c].op = "recv" /\ err[c] = 0
  /\ err' = [err EXCEPT ![c] = 1]
  /\ \/ /\ pc' = [pc EXCEPT ![c] = "take"]
        /\ call' = [call EXCEPT ![c].op = "packet"]
     \/ /\ pc' = [pc EXCEPT ![c] = "idle"]
        /\ UNCHANGED call

Return(c) ==
  /\ ~(call[c].op = "recv" /\ err[c] = 0)
  /\ pc' = [pc EXCEPT ![c] = "idle"]
  /\ UNCHANGED <<err, call>>

\* Mutation: an error path forgets the mutex.
Give_NotOnError(c) ==
  /\ pc[c] = "give"
  /\ holder' = IF err[c] = 0 THEN NoClient ELSE holder
  /\ NextSection(c) \/ Return(c)
  /\ UNCHANGED <<got, reply, announced, missed, spiOk>>

\* The delay that ends every section, and sl_ttc2_mutex_give.
Give(c) ==
  /\ pc[c] = "give"
  /\ holder' = NoClient
  /\ NextSection(c) \/ Return(c)
  /\ UNCHANGED <<got, reply, announced, missed, spiOk>>

\* A radio restarts.
RadioRestarts(r) ==
  /\ reply' = [reply EXCEPT ![r] = Zeros]
  /\ announced' = [announced EXCEPT ![r] = NoClient]
  /\ missed' = [c \in Clients |-> missed[c] \/ call[c].radio = r]
  /\ UNCHANGED <<holder, pc, call, err, got, spiOk>>

Section(c) == \/ FirstDone(c) \/ FirstFails(c) \/ SecondRead(c) \/ SecondSend(c) \/ Give(c)

Next == \/ \E c \in Clients : Call(c) \/ Take(c) \/ Section(c)
        \/ \E r \in Radios : RadioRestarts(r)

Spec == Init /\ [][Next]_vars

\* A client that has the mutex goes on: only SPI transfers and delays lie
\* between the two mutex calls.
FairSpec == Spec /\ \A c \in Clients : WF_vars(Take(c)) /\ WF_vars(Section(c))
-----------------------------------------------------------------------------
\* The clients between sl_ttc2_mutex_take and _give: never two at a time.
\* (ttc_mutex around both transfers of read_reg, write_reg, transmit_packet and
\* read_packet.)
MutualExclusion == \A c \in Clients : pc[c] \in Inside => holder = c

\* Between the two transfers of a section nobody speaks to that radio: the bytes
\* of a packet follow the announcement of the same caller, and the reply that
\* waits to be shifted out is the one this caller asked for.
Undisturbed ==
  \A c \in Clients : pc[c] = "second" /\ ~missed[c] =>
    IF call[c].op = "send" THEN announced[call[c].radio] = c
                           ELSE reply[call[c].radio] = Asked(c)

\* A register read that reports success has the value of the register it asked
\* for, and that of its own request unless the radio missed it: the preamble,
\* command and address checks of sl_ttc2_read_reg.
ReadIsOwn ==
  \A c \in Clients :
    pc[c] = "give" /\ err[c] = 0 /\ call[c].op \in {"read", "recv"} =>
      got[c].adr = call[c].adr /\ (missed[c] \/ got[c].by = c)

\* A section whose transfers all completed and reached the radio reports
\* success: "\return The status/error code" of sl_ttc2.h.
SuccessReported ==
  \A c \in Clients : pc[c] = "give" /\ spiOk[c] /\ ~missed[c] => err[c] = 0

\* Whatever fails inside a section, the mutex is given back.
SectionsEnd == \A c \in Clients : holder = c ~> holder = NoClient
=============================================================================
