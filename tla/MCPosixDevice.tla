---------------------------- MODULE MCPosixDevice ----------------------------
(* Instances of PosixDevice for TLC.  The integer is 10.0.0.255 with its octets *)
(* from the low end on, the broadcast address that of its class A network.     *)
EXTENDS PosixDevice

Address == Ip4(10, 0, 0, 1)
Peer    == Ip4(10, 0, 0, 2)
Local6  == [v |-> 6, octets |-> Zeros(15) \o <<1>>]
Str(ip) == [form |-> "str", value |-> ip]

MCInputs ==
    [addr |-> {[form |-> "int", value |-> -16777206], Str(Address), Str(Local6),
               [form |-> "ip", value |-> Local6]},
     dst  |-> {Str(Peer)},
     brd  |-> {Str(Ip4(10, 255, 255, 255))},
     mask |-> {Str(Ip4(255, 255, 0, 0)), Str(Ip4(255, 0, 255, 0))},
     mtu  |-> {1400, 60},
     up   |-> {TRUE}]

MCValues == {<<"addr", Peer>>, <<"addr", Local6>>, <<"mask", Ip4(255, 255, 255, 0)>>,
             <<"mtu", 1400>>, <<"mtu", 60>>, <<"up", FALSE>>}

(* A network card, and a persistent interface that still has its options. *)
MCBefore ==
    {Fresh("other", "L2"),
     [Fresh("none", "L3") EXCEPT !.held = {"persist"}, !.mtu = 1400, !.addr = Address,
          !.dst = Address, !.brd = Zero, !.mask = Host]}
=============================================================================
