------------------------------ MODULE PacketIo ------------------------------
(***************************************************************************)
(* The framing of packets (src/src/platform/posix/split.rs, fd.rs,         *)
(* utils.rs, async/codec.rs).  One program runs on two devices, one with   *)
(* packet information ("pi") and one without ("plain"), and reads from a   *)
(* Wintun session too ("wintun"): each call is made on all of them, so     *)
(* that what the header changes is a difference between their states.      *)
(*                                                                         *)
(* External: the kernel.  It takes a message whole, scatters a message     *)
(* over the buffers of a read and drops the rest, refuses more than IovMax *)
(* buffers, and on an L3 device without the header anything but IP.        *)
(***************************************************************************)
EXTENDS Integers, SequencesExt

CONSTANTS
    Packets,    \* packets and frames, as sequences of bytes
    Widths,     \* lengths of the buffers of a read
    IovMax,     \* buffers that the kernel accepts in one call
    MaxBufs,    \* bound: buffers in one call of the program
    MaxQueue    \* bound: packets to read, and packets in the codec

ASSUME PacketsAssumption == Packets \subseteq Seq(0..255) \ {<<>>}
ASSUME BoundsAssumption ==
    Widths \subseteq Nat /\ IovMax \in Nat \ {0} /\ MaxBufs \in Nat /\ MaxQueue \in Nat

PIL     == 4
Posix   == {"plain", "pi"}
Devices == Posix \cup {"wintun"}

VARIABLES
    layer,     \* Configuration::layer
    rx,        \* packets that wait to be read, for each device
    dst,       \* packets that the codec has encoded into its buffer
    call,      \* the lengths of the buffers of the last call
    written,   \* the packets in them, if it was a write
    got,       \* what it returned, if it was a read, for each device
    tx,        \* what the kernel took of it, for each POSIX device
    ok         \* whether it returned Ok, for each POSIX device

vars == <<layer, rx, dst, call, written, got, tx, ok>>

BufLists(S) == UNION {[1..n -> S] : n \in 0..MaxBufs}

-----------------------------------------------------------------------------
(* Bytes and buffers *)

Least(a, b) == IF a < b THEN a ELSE b

(* The room in the first i buffers, and in all of them. *)
Upto(lens) ==
    LET sum[i \in 0..Len(lens)] == IF i = 0 THEN 0 ELSE sum[i - 1] + lens[i]
    IN  sum

Size(lens) == Upto(lens)[Len(lens)]

(* What is left of the first i members of a sequence without those that are x. *)
Without(s, x) ==
    LET kept[i \in 0..Len(s)] ==
            IF i = 0 THEN <<>> ELSE IF s[i] = x THEN kept[i - 1] ELSE Append(kept[i - 1], s[i])
    IN  kept

(* is_ipv6 looks at the first nibble, and refuses no data at all. *)
Version(buf) == IF buf = <<>> THEN 0 ELSE buf[1] \div 16

(* Mutant: any other version counts as IPv4. *)
AnyVersion(buf) == buf # <<>>
IsIp(buf)       == Version(buf) \in {4, 6}

(* packet_information on Linux: the flags, and ETH_P_IPV6 or ETH_P_IP. *)
PacketInformation(buf) == IF Version(buf) = 6 THEN <<0, 0, 134, 221>> ELSE <<0, 0, 8, 0>>

Offset(d)      == IF d = "pi" THEN PIL ELSE 0
NonEmpty(bufs) == Without(bufs, <<>>)[Len(bufs)]

(* The buffer that decides the header.  Mutant: the first one, empty or not. *)
FirstBuffer(bufs) == Head(bufs)
Leading(bufs)     == Head(NonEmpty(bufs))

-----------------------------------------------------------------------------
(* Reading *)

(* The kernel fills the buffers in their order. *)
Scatter(data, lens) ==
    [i \in DOMAIN lens |->
        SubSeq(data, Upto(lens)[i - 1] + 1, Least(Upto(lens)[i], Len(data)))]

(* A round of the loop of DataExt::putv. *)
PutOne(data, done, len) ==
    LET k == Least(len, Len(data) - done.n)
    IN  [n |-> done.n + k, bufs |-> Append(done.bufs, SubSeq(data, done.n + 1, done.n + k))]

Putv(data, lens) ==
    LET put[i \in 0..Len(lens)] ==
            IF i = 0 THEN [n |-> 0, bufs |-> <<>>] ELSE PutOne(data, put[i - 1], lens[i])
    IN  put[Len(lens)]

(* The buffers that Reader::recv and recv_vectored pass to the kernel: with    *)
(* the header, one for it, and only those that have room.                      *)
Iovs(d, lens) ==
    IF Offset(d) = 0 THEN lens ELSE <<Offset(d)>> \o Without(lens, 0)[Len(lens)]

(* The count that they return.  Mutant: the header is counted too. *)
CountAll(d, amount) == amount
Count(d, amount)    == IF amount <= Offset(d) THEN 0 ELSE amount - Offset(d)

(* What was scattered behind the header, in the buffers of the program. *)
Behind(d, parts, lens) ==
    IF Offset(d) = 0 THEN parts
    ELSE [i \in DOMAIN lens |->
             IF lens[i] = 0 THEN <<>> ELSE parts[1 + Len(Without(lens, 0)[i])]]

Recv(d, lens) ==
    LET data == (IF Offset(d) = 0 THEN <<>> ELSE PacketInformation(Head(rx[d]))) \o Head(rx[d])
    IN  [n    |-> Count(d, Least(Size(Iovs(d, lens)), Len(data))),
         bufs |-> Behind(d, Scatter(data, Iovs(d, lens)), lens)]

NoData(lens) == [n |-> 0, bufs |-> [i \in DOMAIN lens |-> <<>>]]

(* The kernel neither takes too many buffers nor gives a packet for no room. *)
Takes(d, lens) ==
    d \in Posix => Len(Iovs(d, lens)) \in 0..IovMax /\ Size(Iovs(d, lens)) > 0

(* recv or recv_vectored on each device: one packet, or an error or nothing. *)
Read(lens) ==
    /\ \A d \in Devices : rx[d] # <<>>
    /\ call' = lens
    /\ got' = [d \in Devices |->
                  IF ~Takes(d, lens) THEN NoData(lens)
                  ELSE IF d = "wintun" THEN Putv(Head(rx[d]), lens)
                  ELSE Recv(d, lens)]
    /\ rx' = [d \in Devices |-> IF Takes(d, lens) THEN Tail(rx[d]) ELSE rx[d]]
    /\ tx' = [d \in Posix |-> <<>>]
    /\ ok' = [d \in Posix |-> TRUE]
    /\ written' = <<>>
    /\ UNCHANGED <<layer, dst>>

-----------------------------------------------------------------------------
(* Writing *)

Refused         == [ok |-> FALSE, took |-> <<>>]
Nothing         == [ok |-> TRUE,  took |-> <<>>]
Took(proto, data) == [ok |-> TRUE, took |-> <<[proto |-> proto, data |-> data]>>]

(* write or writev without the header, and writev with it in front. *)
KernelPlain(bufs, vectored) ==
    LET data == FlattenSeq(bufs)
    IN  IF Len(bufs) > IovMax THEN Refused
        ELSE IF data = <<>> THEN (IF vectored THEN Nothing ELSE Refused)
        ELSE IF layer = "L2" THEN Took(0, data)
        ELSE IF IsIp(data) THEN Took(Version(data), data) ELSE Refused

KernelPi(bufs) ==
    IF Len(bufs) > IovMax THEN Refused
    ELSE Took(IF layer = "L2" THEN 0 ELSE IF Head(bufs)[3] = 134 THEN 6 ELSE 4,
              FlattenSeq(Tail(bufs)))

(* Writer::send, with one buffer, and send_vectored. *)
Send(d, bufs, vectored) ==
    IF Offset(d) = 0 THEN KernelPlain(bufs, vectored)
    ELSE IF NonEmpty(bufs) = <<>> THEN (IF vectored THEN Nothing ELSE Refused)
    ELSE IF ~IsIp(Leading(bufs)) THEN Refused
    ELSE KernelPi(<<PacketInformation(Leading(bufs))>> \o NonEmpty(bufs))

(* A call of the program with the buffers that hold `packets`. *)
Write(bufs, vectored, packets) ==
    /\ call' = [i \in DOMAIN bufs |-> Len(bufs[i])]
    /\ written' = packets
    /\ tx' = [d \in Posix |-> Send(d, bufs, vectored).took]
    /\ ok' = [d \in Posix |-> Send(d, bufs, vectored).ok]
    /\ got' = [d \in Devices |-> NoData(<<>>)]
    /\ UNCHANGED <<layer, rx>>

(* A packet in one buffer, or cut in up to three, of which some may be empty. *)
WriteOne == \E p \in Packets : Write(<<p>>, FALSE, <<p>>) /\ UNCHANGED dst

WriteCut ==
    \E p \in Packets : \E i \in 0..Len(p) : \E j \in i..Len(p) :
        /\ Write(<<SubSeq(p, 1, i), SubSeq(p, i + 1, j), SubSeq(p, j + 1, Len(p))>>, TRUE, <<p>>)
        /\ UNCHANGED dst

WriteEmpty == \E v \in BOOLEAN : Write(<<<<>>>>, v, <<>>) /\ UNCHANGED dst

(* TunPacketCodec.  encode appends to what has not been written yet; decode    *)
(* takes all that a read gave as one packet.                                   *)
Encode == \E p \in Packets :
    /\ Len(dst) < MaxQueue
    /\ dst' = Append(dst, p)
    /\ UNCHANGED <<layer, rx, call, written, got, tx, ok>>

Flush ==
    /\ dst # <<>>
    /\ Write(<<FlattenSeq(dst)>>, FALSE, dst)
    /\ dst' = <<>>

Decode(buf) == IF buf = <<>> THEN <<>> ELSE <<buf>>

-----------------------------------------------------------------------------

Init ==
    /\ layer \in {"L2", "L3"}
    /\ \E q \in UNION {[1..n -> Packets] : n \in 0..MaxQueue} : rx = [d \in Devices |-> q]
    /\ tx = [d \in Posix |-> <<>>]
    /\ dst = <<>>
    /\ call = <<>>
    /\ got = [d \in Devices |-> NoData(<<>>)]
    /\ ok = [d \in Posix |-> TRUE]
    /\ written = <<>>

Next ==
    \/ \E lens \in BufLists(Widths) : Read(lens)
    \/ WriteOne \/ WriteCut \/ WriteEmpty \/ Encode \/ Flush

Spec == Init /\ [][Next]_vars

-----------------------------------------------------------------------------

(* A read that takes a packet gives the program its beginning, as much as      *)
(* there is room for, in the order of the buffers, with the right count, and   *)
(* none of the header, whether the kernel scatters it or the loop of putv      *)
(* (split.rs:76-117, utils.rs:32-49).                                          *)
ReadsGiveThePacket ==
    [][ \A d \in Devices : rx'[d] # rx[d] =>
            /\ got'[d].n = Least(Size(call'), Len(Head(rx[d])))
            /\ FlattenSeq(got'[d].bufs) = SubSeq(Head(rx[d]), 1, got'[d].n)
            /\ \A i \in DOMAIN call' : Len(got'[d].bufs[i]) <= call'[i] ]_vars

(* A write that returned Ok is one message of the kernel, which holds all of   *)
(* its data, in order, under the protocol of the packet, however the packet    *)
(* was cut (split.rs:149-179); one packet for each write comes out of decode   *)
(* as it went in (codec.rs:33-52).                                             *)
WritesArriveWhole ==
    \A d \in Posix :
        IF written = <<>> \/ ~ok[d] THEN tx[d] = <<>>
        ELSE /\ Len(tx[d]) = 1
             /\ tx[d][1].data = FlattenSeq(written)
             /\ layer = "L3" => tx[d][1].proto = Version(Head(written))
             /\ Len(written) = 1 => Decode(tx[d][1].data) = written

(* The calls whose outcome the header cannot change by their size: room for a  *)
(* byte, and a place left for the header among the buffers of the kernel.      *)
HasRoom(lens) == Len(lens) < IovMax /\ Size(lens) > 0

(* Packet information is not seen by the program (linux/mod.rs:52): the same   *)
(* calls return the same on both devices and leave the same to be read and to  *)
(* be sent, except calls without room and writes to an L2 device.              *)
SameOnBoth == rx["pi"] = rx["plain"] /\ tx["pi"] = tx["plain"] /\ got["pi"] = got["plain"]
                /\ ok["pi"] = ok["plain"]

PacketInformationInvisible ==
    [][ SameOnBoth /\ HasRoom(call') /\ (layer = "L3" \/ rx' # rx)
            => SameOnBoth' ]_vars
=============================================================================
