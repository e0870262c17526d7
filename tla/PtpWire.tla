------------------------------ MODULE PtpWire ------------------------------
(***************************************************************************)
(* The bytes of a message: ptp_extract_header(), ptp_extract_timestamps(), *)
(* ptp_construct_binary_header() and their companions in ptp.c.  The slave *)
(* builds a Delay_Req in a fresh pbuf, the master reads it and answers,    *)
(* other masters and slaves send messages of their own.                    *)
(*                                                                         *)
(* A word of the little-endian processor is the sequence of its bytes from *)
(* the least significant one, a payload a function from offsets to bytes.  *)
(* What the master writes and reads is laid out as IEEE 1588 prints it:    *)
(* field after field, the most significant byte first.                     *)
(***************************************************************************)
EXTENDS Integers, Sequences, SequencesExt

CONSTANTS
    Mac,           (* hardware address of this slave                          *)
    OtherMacs,     (* those of other slaves                                   *)
    SeqIds,        (* values of delay_reqSequenceID                           *)
    Fillings,      (* what a pbuf may hold that pbuf_alloc() has just given   *)
    Types,         (* messageIDs received                                     *)
    FlagFields,    (* the two octets of flags of messages received            *)
    Times,         (* timestamps of the master, [sec, nanosec] in bytes       *)
    Residences     (* values of the correction field in nanoseconds           *)

Byte == 0 .. 255
Word(n) == {w \in Seq(Byte) : Len(w) = n}

ASSUME WireAssumption ==
    /\ \A mac \in OtherMacs \cup {Mac} : mac \in Word(6)
    /\ Mac \notin OtherMacs /\ OtherMacs # {}
    /\ \A s \in SeqIds : s \in Word(2)
    /\ Fillings \subseteq Byte /\ Types \subseteq 0 .. 15
    /\ \A f \in FlagFields : f \in Word(2)
    /\ \A t \in Times : t.sec \in Word(6) /\ t.nanosec \in Word(4)
    /\ Residences \subseteq Int

VARIABLES
    payload,       (* the pbuf built or received last                         *)
    delayReq,      (* sDelayReqHeader when the last Delay_Req was built       *)
    message,       (* what the sender of the last message meant               *)
    header,        (* the static header of ptp_process_packet()               *)
    accepted       (* what it took from the last message, if it was ours      *)

wireVars == <<payload, delayReq, message, header, accepted>>

-----------------------------------------------------------------------------
(***************************************************************************)
(* Bytes and words.                                                        *)
(***************************************************************************)
Load(p, at, n) == [k \in 1 .. n |-> p[at + k - 1]]
Store(p, at, w) == [k \in DOMAIN p |-> IF k \in at .. (at + Len(w) - 1) THEN w[k - at + 1] ELSE p[k]]
Zeros(n) == [k \in 1 .. n |-> 0]

\* ntohs(), ntohl(), ntohll() and their inverses.
Swap(w) == Reverse(w)
ShiftLeft16(w) == Zeros(2) \o SubSeq(w, 1, Len(w) - 2)
ShiftRight16(w) == SubSeq(w, 3, Len(w)) \o Zeros(2)

\* An int32_t.
Signed(w) ==
    (IF w[4] < 128 THEN w[4] ELSE w[4] - 256) * 16777216 + w[3] * 65536 + w[2] * 256 + w[1]

Bit(w, k) == (w[k \div 8 + 1] \div 2^(k % 8)) % 2

-----------------------------------------------------------------------------
(***************************************************************************)
(* Reading.                                                                *)
(***************************************************************************)
ptp_load_flags(bitfield) ==
    [PTP_SECURITY |-> Bit(bitfield, 15), PTP_ProfileSpecific_2 |-> Bit(bitfield, 14),
     PTP_ProfileSpecific_1 |-> Bit(bitfield, 13), PTP_UNICAST |-> Bit(bitfield, 10),
     PTP_TWO_STEP |-> Bit(bitfield, 9), PTP_ALTERNATE_MASTER |-> Bit(bitfield, 8),
     FREQUENCY_TRACEABLE |-> Bit(bitfield, 5), TIME_TRACEABLE |-> Bit(bitfield, 4),
     PTP_TIMESCALE |-> Bit(bitfield, 3), PTP_UTC_REASONABLE |-> Bit(bitfield, 2),
     PTP_LI_59 |-> Bit(bitfield, 1), PTP_LI_61 |-> Bit(bitfield, 0)]

\* Mutant of CorrectionNs: the bytes are swapped after the shift.
ShiftedFirst(p) == Swap(ShiftRight16(Load(p, 8, 8)))

CorrectionNs(p) == ShiftRight16(Swap(Load(p, 8, 8)))

\* Mutant of MessageID: the upper half of the byte is not masked out.
WholeByte(p) == p[0]

MessageID(p) == p[0] % 16

\* Mutant of Flags: the bytes are taken in the order of the host.
HostFlags(p) == ptp_load_flags(Load(p, 6, 2))

Flags(p) == ptp_load_flags(Swap(Load(p, 6, 2)))

ptp_extract_header(p) ==
    [messageID |-> MessageID(p), transportSpecific |-> p[0] - (p[0] % 16), versionPTP |-> p[1],
     messageLength |-> Swap(Load(p, 2, 2)), subdomainNumber |-> p[4],
     flags |-> Flags(p), correction_ns |-> CorrectionNs(p),
     correction_subns |-> SubSeq(Swap(Load(p, 8, 8)), 1, 2),
     clockIdentity |-> Load(p, 20, 8), sourcePortID |-> Swap(Load(p, 28, 2)),
     sequenceID |-> Swap(Load(p, 30, 2)), control |-> p[32], logMessagePeriod |-> p[33]]

\* Mutant of Seconds: the 48 bits are swapped where they are.
SecondsUnshifted(p) == Swap(Load(p, 34, 6) \o Zeros(2))

\* The 48 bits become the upper ones of 64, which are swapped.
Seconds(p) == Swap(ShiftLeft16(Load(p, 34, 6) \o Zeros(2)))

ptp_extract_timestamps(p) == [sec |-> Seconds(p), nanosec |-> Swap(Load(p, 40, 4))]

ptp_read_delay_resp_id_data(p) ==
    [requestingSourceClockIdentity |-> Load(p, 44, 8),
     requestingSourcePortIdentity |-> Swap(Load(p, 52, 2))]

-----------------------------------------------------------------------------
(***************************************************************************)
(* Writing.                                                                *)
(***************************************************************************)
ClockIdentity(mac) == SubSeq(mac, 1, 3) \o <<255, 254>> \o SubSeq(mac, 4, 6)

DelayReqHeader(sequenceID) ==
    [messageID |-> 1, transportSpecific |-> 0, versionPTP |-> 2, messageLength |-> <<44, 0>>,
     subdomainNumber |-> 0, correction_ns |-> Zeros(8), correction_subns |-> Zeros(2),
     clockIdentity |-> ClockIdentity(Mac), sourcePortID |-> <<1, 0>>,
     sequenceID |-> sequenceID, control |-> 1, logMessagePeriod |-> 127]

FirstByte(h) == (h.transportSpecific * 16 + (h.messageID % 16)) % 256
Correction(h) == h.correction_subns \o SubSeq(h.correction_ns, 1, 6)

\* Mutant of StoreFlags: the flags, always zero, are not written.
FlagsKept(p) == p

StoreFlags(p) == Store(p, 6, Zeros(2))
StorePorts(p, h) == Store(Store(p, 28, Swap(h.sourcePortID)), 30, Swap(h.sequenceID))

\* The reserved octets, 5 and 16 to 19 (_r2 and _r3 of struct PTPHeader), are not
\* written: they are sent as the pbuf held them.
ptp_construct_binary_header(p, h) ==
    LET start == Store(Store(p, 0, <<FirstByte(h), h.versionPTP>> \o Swap(h.messageLength)),
                       4, <<h.subdomainNumber>>)
        middle == Store(StoreFlags(start), 8, Swap(Correction(h)))
    IN  Store(StorePorts(Store(middle, 20, h.clockIdentity), h),
              32, <<h.control, h.logMessagePeriod>>)

ptp_write_binary_timestamps(p, ts) ==
    Store(Store(p, 34, SubSeq(Swap(ShiftLeft16(ts.sec)), 1, 6)), 40, Swap(ts.nanosec))

ptp_send_delay_req_message(old, sequenceID) ==
    ptp_write_binary_timestamps(
        ptp_construct_binary_header(old, DelayReqHeader(sequenceID)),
        [sec |-> Zeros(8), nanosec |-> Zeros(4)])

-----------------------------------------------------------------------------
(***************************************************************************)
(* The others on the network.                                              *)
(***************************************************************************)
\* An integer of nanoseconds as 48 bits in two's complement; \div rounds down.
Signed48(ns) ==
    [k \in 1 .. 6 |-> IF k < 3 THEN IF ns < 0 THEN 255 ELSE 0 ELSE (ns \div 256^(6 - k)) % 256]

Standard(m) ==
    <<16 * m.transportSpecific + m.messageID, 2, 0, 54, 0, 0>> \o m.flags
    \o Signed48(m.correction) \o <<128, 0>> \o Zeros(4)
    \o m.clockIdentity \o <<0, 1>> \o m.sequenceID \o <<3, 0>>
    \o m.time.sec \o m.time.nanosec \o m.requestor

\* Where the standard has the twelve flags: the octet of the field and the bit in it.
MeantFlags(field) ==
    LET Meant(octet, bit) == (field[octet] \div 2^bit) % 2
    IN  [PTP_ALTERNATE_MASTER |-> Meant(1, 0), PTP_TWO_STEP |-> Meant(1, 1),
         PTP_UNICAST |-> Meant(1, 2), PTP_ProfileSpecific_1 |-> Meant(1, 5),
         PTP_ProfileSpecific_2 |-> Meant(1, 6), PTP_SECURITY |-> Meant(1, 7),
         PTP_LI_61 |-> Meant(2, 0), PTP_LI_59 |-> Meant(2, 1),
         PTP_UTC_REASONABLE |-> Meant(2, 2), PTP_TIMESCALE |-> Meant(2, 3),
         TIME_TRACEABLE |-> Meant(2, 4), FREQUENCY_TRACEABLE |-> Meant(2, 5)]

Packet(m) == [at \in 0 .. 53 |-> Standard(m)[at + 1]]

Master == ClockIdentity(CHOOSE mac \in OtherMacs : TRUE)

\* Identity, port and number of a Delay_Req, as the master reads and returns them.
Requestor(p) == Load(p, 20, 10)
Number(p) == Load(p, 30, 2)

\* Mutant of IsOurs: the port is not compared.
PortIgnored(p) ==
    ptp_read_delay_resp_id_data(p).requestingSourceClockIdentity = ClockIdentity(Mac)

IsOurs(p) ==
    LET id == ptp_read_delay_resp_id_data(p)
    IN  /\ id.requestingSourceClockIdentity = ClockIdentity(Mac)
        /\ id.requestingSourcePortIdentity = delayReq.sourcePortID

Nothing == [taken |-> FALSE]

Init ==
    /\ \E old \in Fillings, s \in SeqIds :
          /\ delayReq = DelayReqHeader(s)
          /\ payload = ptp_send_delay_req_message([at \in 0 .. 43 |-> old], s)
    /\ message = Nothing /\ header = Nothing /\ accepted = Nothing

\* The next Delay_Req, in a pbuf that holds old data.
SendDelayReq(old, s) ==
    /\ delayReq' = DelayReqHeader(s)
    /\ payload' = ptp_send_delay_req_message([at \in 0 .. 43 |-> old], s)
    /\ message' = Nothing /\ header' = Nothing /\ accepted' = Nothing

\* The state machine, waiting for a Delay_Resp, processes a packet.
Receive(m) ==
    /\ message' = m
    /\ payload' = Packet(m)
    /\ header' = ptp_extract_header(payload')
    /\ accepted' =
          IF header'.messageID = 9 /\ header'.sequenceID = delayReq.sequenceID /\ IsOurs(payload')
          THEN [taken |-> TRUE, time |-> ptp_extract_timestamps(payload'),
                nanosec |-> Signed(header'.correction_ns)]
          ELSE Nothing
    /\ UNCHANGED delayReq

\* The pbuf still holds the Delay_Req: an answer to it, or to another one.
Answer ==
    /\ message = Nothing
    /\ \E type \in Types, transport \in {0, 1}, time \in Times, ns \in Residences,
          requestor \in {Requestor(payload), ClockIdentity(Mac) \o <<0, 2>>}
                           \cup {ClockIdentity(mac) \o <<0, 1>> : mac \in OtherMacs},
          number \in {Number(payload)} \cup {Reverse(s) : s \in SeqIds},
          flags \in FlagFields :
             Receive([messageID |-> type, transportSpecific |-> transport, flags |-> flags,
                      correction |-> ns, clockIdentity |-> Master, time |-> time,
                      sequenceID |-> number, requestor |-> requestor])

Next ==
    \/ \E old \in Fillings, s \in SeqIds : SendDelayReq(old, s)
    \/ Answer

Spec == Init /\ [][Next]_wireVars

-----------------------------------------------------------------------------
TypeOK ==
    /\ DOMAIN payload = 0 .. (IF message = Nothing THEN 43 ELSE 53)
    /\ \A at \in DOMAIN payload : payload[at] \in Byte
    /\ header # Nothing => header.messageID \in 0 .. 15 /\ header.sequenceID \in Word(2)
    /\ accepted.taken => accepted.time.sec \in Word(8) /\ accepted.nanosec \in Int

\* Every octet of a Delay_Req that carries a field is the standard's, whatever the
\* pbuf held before: version 2, no correction and no origin time, the slave's identity,
\* port 1 and the number of ptp_send_delay_req_message().  It says nothing of the five
\* reserved octets, which the standard wants to be zero and the code leaves alone.
FieldsAreStandard ==
    message = Nothing =>
        /\ Load(payload, 0, 5) = <<1, 2, 0, 44, 0>>
        /\ Load(payload, 6, 10) = Zeros(10)
        /\ Requestor(payload) = SubSeq(Mac, 1, 3) \o <<255, 254>> \o SubSeq(Mac, 4, 6) \o <<0, 1>>
        /\ Number(payload) = Reverse(delayReq.sequenceID)
        /\ Load(payload, 32, 12) = <<1, 127>> \o Zeros(10)

\* "if sent to us as a response to our Delay_Req then continue processing" (ptp.c:612):
\* a Delay_Resp is taken if and only if it returns what the Delay_Req carried.
OwnAnswerTaken ==
    [][ message = Nothing /\ message' # Nothing =>
          accepted'.taken = (/\ message'.messageID = 9
                             /\ message'.requestor = Requestor(payload)
                             /\ message'.sequenceID = Number(payload)) ]_wireVars

\* The header is what its sender meant: identifier and identity, and each of the twelve
\* flags, which come from where the standard has them.
HeaderIsRead ==
    message # Nothing =>
        /\ header.sequenceID = Reverse(message.sequenceID)
        /\ header.clockIdentity = message.clockIdentity
        /\ header.flags = MeantFlags(message.flags)

\* ptp_extract_timestamps() reads the 48 and 32 bits of the master's time.
TimeIsRead ==
    accepted.taken => accepted.time = [sec |-> Reverse(message.time.sec) \o Zeros(2),
                                       nanosec |-> Reverse(message.time.nanosec)]

\* The correction is the sender's number of nanoseconds, also if that is negative:
\* header.correction_ns holds it without its sign, and the assignment to an int32_t
\* brings the sign back.
CorrectionIsRead == accepted.taken => accepted.nanosec = message.correction

-----------------------------------------------------------------------------
(***************************************************************************)
(* What always holds: the pbuf is a Delay_Req of this slave in some old    *)
(* data, or a message of another with what was read of it.                 *)
(***************************************************************************)
IsMessage(m) ==
    /\ m # Nothing
    /\ m.messageID \in 0 .. 15 /\ m.transportSpecific \in {0, 1}
    /\ m.flags \in Word(2) /\ m.correction \in Residences
    /\ m.clockIdentity \in Word(8) /\ m.sequenceID \in Word(2)
    /\ m.time.sec \in Word(6) /\ m.time.nanosec \in Word(4) /\ m.requestor \in Word(10)

IsRequest ==
    /\ message = Nothing /\ header = Nothing /\ accepted = Nothing
    /\ \E old \in Fillings, s \in SeqIds :
          /\ delayReq = DelayReqHeader(s)
          /\ payload = ptp_send_delay_req_message([at \in 0 .. 43 |-> old], s)

IsRead ==
    /\ IsMessage(message)
    /\ payload = Packet(message) /\ header = ptp_extract_header(payload)
    /\ \/ accepted = Nothing
       \/ accepted = [taken |-> TRUE, time |-> ptp_extract_timestamps(payload),
                      nanosec |-> Signed(header.correction_ns)]

\* The codec is type-correct, and inductively: what is in the pbuf was built by the
\* slave from its header, or by another from a message, and read from there.
WireInv == TypeOK /\ (IsRequest \/ IsRead)
=============================================================================
