------------------------------ MODULE Addresses ------------------------------
(***************************************************************************)
(* Addresses on their way from a Configuration to an ioctl and back        *)
(* (src/src/address.rs, src/src/platform/posix/sockaddr.rs), byte by byte  *)
(* on a little-endian Linux.  An IP address is [v |-> 4 or 6, octets].     *)
(***************************************************************************)
EXTENDS Integers, FiniteSets, Sequences

CONSTANT Unset    \* an option not given, an address not answered

AF_INET  == 2
AF_INET6 == 10
OVERWRITE_SIZE == 24    \* the union of an ifreq
UnionSize      == 128   \* sockaddr_storage

Zeros(n) == [k \in 1..n |-> 0]
Ip4(a, b, c, d) == [v |-> 4, octets |-> <<a, b, c, d>>]
Zero == Ip4(0, 0, 0, 0)
Host == Ip4(255, 255, 255, 255)

-----------------------------------------------------------------------------
(* IntoAddress: what a program gives Configuration, as [form, value].  An      *)
(* IpAddr or SocketAddr of IPv6 and a text that is no address panic.           *)

IpAddresses == [v : {4}, octets : [1..4 -> 0..255]] \cup [v : {6}, octets : [1..16 -> 0..255]]

AddressInputs == [form : {"int"}, value : Int] \cup [form : {"ip"}, value : IpAddresses]
                    \cup [form : {"str"}, value : IpAddresses \cup {Unset}]

(* u32, and i32 as u32: the octets from the low end on. *)
U32Octets(n) ==
    <<n % 256, (n \div 256) % 256, (n \div 65536) % 256, (n \div 16777216) % 256>>

IntoAddress(x) ==
    CASE x.form = "int"                    -> [v |-> 4, octets |-> U32Octets(x.value)]
      [] x.form = "str" /\ x.value # Unset -> x.value
      [] x.form = "ip" /\ x.value.v = 4    -> x.value
      [] OTHER                             -> Unset

-----------------------------------------------------------------------------
(* sockaddr_union, as bytes *)

Port(p) == <<p \div 256, p % 256>>

rs_addr_to_sockaddr(ip, port) ==
    LET sa == IF ip.v = 4
              THEN <<AF_INET, 0>> \o Port(port) \o ip.octets
              ELSE <<AF_INET6, 0>> \o Port(port) \o Zeros(4) \o ip.octets
    IN  sa \o Zeros(UnionSize - Len(sa))

(* The first bytes of the union replace those of the destination. *)
ipaddr_to_sockaddr(ip, port, addr, size) ==
    [k \in DOMAIN addr |->
        IF k <= size /\ k <= UnionSize THEN rs_addr_to_sockaddr(ip, port)[k] ELSE addr[k]]

Family(sa) == sa[1] + 256 * sa[2]

sockaddr_to_rs_addr(sa) ==
    CASE Family(sa) = AF_INET  -> [v |-> 4, octets |-> SubSeq(sa, 5, 8)]
      [] Family(sa) = AF_INET6 -> [v |-> 6, octets |-> SubSeq(sa, 9, 24)]
      [] OTHER                 -> Unset

-----------------------------------------------------------------------------
(* External: what the kernel reads from a sockaddr_in and answers with, and   *)
(* the masks and broadcast addresses it derives (octets of masks are 0 or 255). *)

InAddr(sa)         == [v |-> 4, octets |-> SubSeq(sa, 5, 8)]
KernelSockaddr(ip) == <<AF_INET, 0, 0, 0>> \o ip.octets \o Zeros(8)

Holey(mask) == \E j, k \in 1..4 : j < k /\ mask.octets[j] < mask.octets[k]

ClassMask(ip) ==
    IF ip.octets[1] < 128 THEN Ip4(255, 0, 0, 0)
    ELSE IF ip.octets[1] < 192 THEN Ip4(255, 255, 0, 0) ELSE Ip4(255, 255, 255, 0)

Broadcast(ip, mask) ==
    [ip EXCEPT !.octets = [k \in 1..4 |-> IF mask.octets[k] = 0 THEN 255 ELSE @[k]]]
==============================================================================
