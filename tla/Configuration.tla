---------------------------- MODULE Configuration ----------------------------
(***************************************************************************)
(* A Configuration (src/src/configuration.rs), the order in which          *)
(* AbstractDevice::configure (src/src/device.rs) applies it, and what the  *)
(* macOS and FreeBSD devices make of its addresses: an alias and a route.  *)
(***************************************************************************)
EXTENDS Sequences, FiniteSets

CONSTANTS
    Addrs, Dests,       \* IPv4 addresses of the interface and of its peer
    Masks,              \* netmasks
    HoleyMasks,         \* the masks among them that are not a prefix
    Net,                \* [Addrs \X Masks -> networks]
    DefaultAddr, DefaultDest, DefaultMask,
    Unset               \* an option that the configuration leaves out

VARIABLES       \* of a macOS or a FreeBSD device
    stage,      \* "new": in Device::new; "live"; "gone"; on FreeBSD, "configure": in
                \* Device::new, after set_alias
    config,     \* the Configuration given to Device::new, while it runs
    todo,       \* the setter calls that remain of configure, <<field, value>> each
    iface,      \* the address, peer and netmask of the interface
    route,      \* Device::route: the copy, or Unset
    table       \* routes of the kernel added by this device, as <<network, gateway>>

Routes == [addr : Addrs, dest : Dests, mask : Masks]

ASSUME MasksAssumption ==
    /\ HoleyMasks \subseteq Masks
    /\ DefaultAddr \in Addrs /\ DefaultDest \in Dests /\ DefaultMask \in Masks \ HoleyMasks
    /\ Unset \notin Addrs \cup Dests \cup Masks \cup Routes

(* The options of a Configuration; the last three do not concern the addresses. *)
Configs == [addr : Addrs \cup {Unset}, dest : Dests \cup {Unset}, mask : Masks \cup {Unset},
            other : SUBSET {"broadcast", "mtu", "enabled"}]

NoOptions == [addr |-> Unset, dest |-> Unset, mask |-> Unset, other |-> {}]

(* AbstractDevice::configure: the setters of the options given, in this order, *)
(* as <<field, value>>.                                                        *)
Plan(c) ==
    LET Option(f)  == IF c[f] = Unset THEN <<>> ELSE <<<<f, c[f]>>>>
        Switch(f)  == IF f \in c.other THEN <<<<f, Unset>>>> ELSE <<>>
    IN  Option("addr") \o Option("dest") \o Switch("broadcast") \o Option("mask")
            \o Switch("mtu") \o Switch("enabled")

(* The setter calls that it can make. *)
Calls == ({"addr"} \X Addrs) \cup ({"dest"} \X Dests) \cup ({"mask"} \X Masks)
             \cup ({"broadcast", "mtu", "enabled"} \X {Unset})

(* The alias that Device::new sets. *)
Alias(c) ==
    LET Given(f, default) == IF c[f] = Unset THEN default ELSE c[f]
    IN  [addr |-> Given("addr", DefaultAddr), dest |-> Given("dest", DefaultDest),
         mask |-> Given("mask", DefaultMask)]

(* The route of an alias, as `route` is told to add or delete it: a network and  *)
(* a gateway.  ip_mask_to_prefix refuses the masks without a prefix.             *)
Key(r)       == <<Net[<<r.addr, r.mask>>], r.dest>>
HasPrefix(r) == r.mask \notin HoleyMasks
=============================================================================
