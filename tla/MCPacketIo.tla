----------------------------- MODULE MCPacketIo -----------------------------
(* Instances of PacketIo for TLC: IPv4 and IPv6 packets, and a frame that is   *)
(* neither.                                                                    *)
EXTENDS PacketIo
MCPackets == {<<69, 1, 2>>, <<96>>, <<51, 3>>}
=============================================================================
