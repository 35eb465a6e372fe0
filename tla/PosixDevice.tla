----------------------------- MODULE PosixDevice -----------------------------
(***************************************************************************)
(* The Linux device and its interface (src/src/platform/linux/device.rs),  *)
(* and the devices of iOS, Android and OpenHarmony, which adopt a          *)
(* descriptor and leave its interface alone (platform/ios, android, ohos). *)
(* A device reaches its interface by the name that it remembers.           *)
(*                                                                         *)
(* External: the kernel, which keeps the interfaces and answers the ioctls *)
(* (it takes IPv4 addresses only, and a new address resets the peer, the   *)
(* broadcast address and the mask), and the programs that rename.          *)
(***************************************************************************)
EXTENDS Addresses

CONSTANTS
    Names,       \* names of interfaces, as short as the kernel wants them
    LongName,    \* a name that does not fit an ifreq
    Inputs,      \* [Options -> what a program gives Configuration for each]
    Values,      \* what it gives the setters of a live device, as <<option, value>>
    Before,      \* interfaces of other programs, and persistent ones, from before
    DefaultMtu, MinMtu,
    MaxCalls     \* bound: calls on a live device, and renames by others

Platforms == {"linux", "ios", "android", "ohos"}
IpOptions == {"addr", "dst", "brd", "mask"}
Options   == IpOptions \cup {"mtu", "up"}
Absent    == [owner |-> "absent"]

(* What the kernel keeps of an interface. *)
IsInterface(i) ==
    /\ DOMAIN i = {"owner", "layer", "held", "qdisc"} \cup Options
    /\ i.owner \in {"mine", "other", "none"}
    /\ i.addr # Unset => i.addr.v = 4 /\ ~Holey(i.mask)
    /\ i.mtu \in Nat /\ i.mtu >= MinMtu

ASSUME NamesAssumption == LongName \notin Names
ASSUME MtuAssumption ==
    /\ DefaultMtu \in Nat /\ MinMtu \in Nat /\ DefaultMtu >= MinMtu
    /\ Inputs.mtu \subseteq Nat
    /\ \A call \in Values : call[1] \in Options /\ (call[1] = "mtu" => call[2] \in Nat)
ASSUME InputsAssumption ==
    Unset \notin IpAddresses /\ \A o \in IpOptions : Inputs[o] \subseteq AddressInputs
ASSUME BeforeAssumption == \A i \in Before : IsInterface(i) /\ i.owner # "mine"

VARIABLES
    platform,
    stage,     \* progress of Device::new
    config,    \* what Configuration was given, until the first call
    todo,      \* the setters that configure has still to call
    name,      \* Device::tun_name
    mtu,       \* Tun::mtu, the copy
    ifaces,    \* the interfaces of the system, by name
    calls,     \* calls and renames so far
    renamed    \* history: another program has renamed the device's interface

vars == <<platform, stage, config, todo, name, mtu, ifaces, calls, renamed>>

OptionSets == LET Or(o) == Inputs[o] \cup {Unset} IN
    [addr : Or("addr"), dst : Or("dst"), brd : Or("brd"), mask : Or("mask"),
     mtu : Or("mtu"), up : Or("up")]

(* raw_fd is set for the devices that adopt a descriptor. *)
Configs == [opts : OptionSets, name : Names \cup {LongName, Unset}, layer : {"L2", "L3"},
            root : BOOLEAN, raw_fd : BOOLEAN]

(* A call of a setter that configure can make. *)
Setting(o, x) == IF o \in IpOptions THEN IntoAddress(x) ELSE x
Requests      == UNION {{<<o, Setting(o, x)>> : x \in Inputs[o]} : o \in Options}

Mine == {n \in Names : ifaces[n].owner = "mine"}
Free == {n \in Names : ifaces[n] = Absent}

TypeOK ==
    /\ platform \in Platforms
    /\ stage \in {"new", "configure", "live", "gone"}
    /\ todo \in Seq(Requests)
    /\ name \in Names \cup {"", "vpn-tun", Unset}
    /\ mtu \in Nat
    /\ \A n \in Names \ Free : IsInterface(ifaces[n])
    /\ Cardinality(Mine) <= 1

-----------------------------------------------------------------------------
(* The kernel *)

Fresh(owner, layer) ==
    [owner |-> owner, layer |-> layer, held |-> {}, qdisc |-> "default", up |-> FALSE,
     addr |-> Unset, dst |-> Unset, brd |-> Unset, mask |-> Unset, mtu |-> DefaultMtu]

Accepts(i, o, v) ==
    CASE o = "up"   -> TRUE
      [] o = "mtu"  -> v >= MinMtu
      [] o = "addr" -> Family(v) = AF_INET
      [] o = "mask" -> Family(v) = AF_INET /\ i.addr # Unset /\ ~Holey(InAddr(v))
      [] OTHER      -> Family(v) = AF_INET /\ i.addr # Unset

Derived(i, mask) == IF i.layer = "L3" THEN Zero ELSE Broadcast(i.addr, mask)

(* The interface with the option set. *)
Apply(i, o, v) ==
    CASE o \in {"up", "mtu"}  -> [i EXCEPT ![o] = v]
      [] o = "addr" /\ i.addr # InAddr(v) ->
            LET j == [i EXCEPT !.addr = InAddr(v), !.dst = InAddr(v),
                               !.mask = IF i.layer = "L3" THEN Host ELSE ClassMask(InAddr(v))]
            IN  [j EXCEPT !.brd = Derived(j, j.mask)]
      [] o = "mask" /\ i.layer = "L2" /\ i.brd = Derived(i, i.mask) ->
            [i EXCEPT !.mask = InAddr(v), !.brd = Derived(i, InAddr(v))]
      [] OTHER -> [i EXCEPT ![o] = InAddr(v)]

(* The descriptor is closed: the interface goes with it, unless persistent. *)
Closed(ifs) ==
    [n \in Names |-> IF ifs[n].owner # "mine" THEN ifs[n]
                     ELSE IF "persist" \in ifs[n].held THEN [ifs[n] EXCEPT !.owner = "none"]
                     ELSE Absent]

-----------------------------------------------------------------------------
(* The setters of the Linux device *)

(* The value as the setter puts it into the ifreq. *)
Request(o, v) == IF o \in IpOptions THEN ipaddr_to_sockaddr(v, 0, Zeros(16), OVERWRITE_SIZE) ELSE v

(* A setter that succeeds, on the interface that has the device's name; a new  *)
(* MTU is copied after the ioctl.                                              *)
Sets(o, v) ==
    /\ name \in Names
    /\ ifaces[name] # Absent
    /\ Accepts(ifaces[name], o, Request(o, v))
    /\ ifaces' = [ifaces EXCEPT ![name] = Apply(@, o, Request(o, v))]
    /\ mtu' = IF o = "mtu" THEN v ELSE mtu

(* A setter that fails: no such interface, a value the kernel refuses, or no   *)
(* permission.                                                                 *)
Refused == UNCHANGED <<mtu, ifaces>>

(* The getters: the kernel's sockaddr, read as an address, or an error. *)
Answer(o) ==
    IF name \notin Names THEN Unset
    ELSE IF ifaces[name] = Absent \/ ifaces[name].addr = Unset THEN Unset
    ELSE sockaddr_to_rs_addr(KernelSockaddr(ifaces[name][o]))

(* configure: the setters of the options given, in the order of the code.     *)
(* Mutant: the mask before the address.                                        *)
PlanOf(order, opts) ==
    LET Call(k) == LET o == order[k]
                   IN  IF opts[o] = Unset THEN <<>> ELSE <<<<o, Setting(o, opts[o])>>>>
    IN  Call(1) \o Call(2) \o Call(3) \o Call(4) \o Call(5) \o Call(6)

PlanMaskFirst(opts) == PlanOf(<<"mask", "addr", "dst", "brd", "mtu", "up">>, opts)
Plan(opts)          == PlanOf(<<"addr", "dst", "brd", "mask", "mtu", "up">>, opts)

-----------------------------------------------------------------------------
(* Device::new on Linux *)

Panics(opts) == \E o \in IpOptions : opts[o] # Unset /\ IntoAddress(opts[o]) = Unset
MtuOf(opts)  == IF opts.mtu = Unset THEN DefaultMtu ELSE opts.mtu

(* The builder of Configuration panics; a name is too long, a descriptor is    *)
(* given (or none to adopt), or the kernel refuses.                            *)
NewFails ==
    /\ stage = "new"
    /\ stage' = "gone"
    /\ UNCHANGED <<platform, config, todo, name, mtu, ifaces, calls, renamed>>

(* TUNSETIFF creates an interface, or attaches to a persistent one of the same *)
(* kind; its name is the one asked for or one that the kernel picks.           *)
Open ==
    /\ stage = "new" /\ platform = "linux"
    /\ ~Panics(config.opts) /\ ~config.raw_fd
    /\ \E n \in IF config.name = Unset THEN Free ELSE Names \cap {config.name} :
          /\ \/ /\ n \in Free
                /\ ifaces' = [ifaces EXCEPT ![n] = Fresh("mine", config.layer)]
             \/ /\ n \notin Free
                /\ ifaces[n].owner = "none" /\ ifaces[n].layer = config.layer
                /\ ifaces' = [ifaces EXCEPT ![n].owner = "mine"]
          /\ name' = n
    /\ mtu' = MtuOf(config.opts)
    /\ stage' = IF config.root THEN "configure" ELSE "live"
    /\ todo' = IF config.root THEN Plan(config.opts) ELSE <<>>
    /\ UNCHANGED <<platform, config, calls, renamed>>

ConfigureStep ==
    /\ todo # <<>>
    /\ Sets(Head(todo)[1], Head(todo)[2])
    /\ todo' = Tail(todo)
    /\ UNCHANGED <<platform, stage, config, name, calls, renamed>>

(* `?` drops the device. *)
ConfigureFails ==
    /\ todo # <<>>
    /\ ifaces' = Closed(ifaces)
    /\ stage' = "gone"
    /\ todo' = <<>>
    /\ UNCHANGED <<platform, config, name, mtu, calls, renamed>>

(* set_qdisc looks the name up; when it fails, that is only logged. *)
SetQdisc ==
    /\ stage = "configure" /\ todo = <<>>
    /\ ifaces' \in {ifaces, [ifaces EXCEPT ![name] =
                        IF @ = Absent THEN @ ELSE [@ EXCEPT !.qdisc = "pfifo_fast"]]}
    /\ stage' = "live"
    /\ UNCHANGED <<platform, config, todo, name, mtu, calls, renamed>>

-----------------------------------------------------------------------------
(* The devices that adopt: the name they answer, the options that their setters *)
(* keep (the others return Ok and do nothing) and that their getters answer.    *)

IosDevice     == [tun_name |-> "", keeps |-> {"mtu"}, answers |-> {"mtu"}]
AndroidDevice == [tun_name |-> "", keeps |-> {"mtu"}, answers |-> {"mtu"}]
OhosDevice    == [tun_name |-> "vpn-tun", keeps |-> {"mtu"}, answers |-> {"mtu"}]

Adopted == [ios |-> IosDevice, android |-> AndroidDevice, ohos |-> OhosDevice]

(* Device::new wraps the descriptor that it is given, and configures nothing. *)
Adopt ==
    /\ stage = "new" /\ platform # "linux"
    /\ ~Panics(config.opts) /\ config.raw_fd
    /\ name' = Adopted[platform].tun_name
    /\ mtu' = MtuOf(config.opts)
    /\ stage' = "live"
    /\ UNCHANGED <<platform, config, todo, ifaces, calls, renamed>>

AdoptedSets(o, v) ==
    /\ mtu' = IF o \in Adopted[platform].keeps THEN v ELSE mtu
    /\ UNCHANGED ifaces

-----------------------------------------------------------------------------
(* Calls on a live device *)

Called ==
    /\ calls < MaxCalls
    /\ calls' = calls + 1
    /\ config' = Unset

Set(o, v) ==
    /\ stage = "live"
    /\ Called
    /\ IF platform = "linux" THEN Sets(o, v) \/ Refused ELSE AdoptedSets(o, v)
    /\ UNCHANGED <<platform, stage, todo, name, renamed>>

(* The interface `from` is named `to`, which no other has. *)
Renames(from, to) ==
    /\ ifaces[from] # Absent
    /\ to \in Free \cup {from}
    /\ ifaces' = [n \in Names |-> IF n = to THEN ifaces[from]
                                 ELSE IF n = from THEN Absent ELSE ifaces[n]]

(* set_tun_name: the kernel first, then the name is remembered; no other device *)
(* implements it.  Mutant: the name is remembered when the ioctl fails, too.    *)
NameRemembered(n) == name' = n /\ UNCHANGED ifaces
NameRefused(n)    == UNCHANGED <<name, ifaces>>

SetTunName(n) ==
    /\ stage = "live"
    /\ platform = "linux"
    /\ Called
    /\ \/ name \in Names /\ n \in Names /\ Renames(name, n) /\ name' = n
       \/ NameRefused(n)
    /\ UNCHANGED <<platform, stage, todo, mtu, renamed>>

(* persist, user and group go through the descriptor of the device. *)
Hold(what) ==
    /\ stage = "live"
    /\ platform = "linux"
    /\ Called
    /\ ifaces' = [n \in Names |-> IF n \in Mine THEN [ifaces[n] EXCEPT !.held = @ \cup {what}]
                                 ELSE ifaces[n]]
    /\ UNCHANGED <<platform, stage, todo, name, mtu, renamed>>

(* The device, or both its halves, are dropped. *)
Drop ==
    /\ stage = "live"
    /\ stage' = "gone"
    /\ ifaces' = IF platform = "linux" THEN Closed(ifaces) ELSE ifaces
    /\ config' = Unset
    /\ UNCHANGED <<platform, todo, name, mtu, calls, renamed>>

(* Another program renames an interface. *)
OutsideRename(from, to) ==
    /\ stage \in {"configure", "live"}
    /\ calls < MaxCalls
    /\ from # to /\ Renames(from, to)
    /\ calls' = calls + 1
    /\ renamed' = (renamed \/ from \in Mine)
    /\ UNCHANGED <<platform, stage, config, todo, name, mtu>>

-----------------------------------------------------------------------------

Init ==
    /\ platform \in Platforms
    /\ stage = "new"
    /\ config \in Configs
    /\ todo = <<>>
    /\ name = Unset
    /\ mtu = DefaultMtu
    /\ ifaces \in [Names -> {Absent} \cup Before]
    /\ calls = 0
    /\ renamed = FALSE

Next ==
    \/ NewFails \/ Open \/ ConfigureStep \/ ConfigureFails \/ SetQdisc \/ Adopt
    \/ \E call \in Values : Set(call[1], call[2])
    \/ \E n \in Names \cup {LongName} : SetTunName(n)
    \/ \E what \in {"persist", "user", "group"} : Hold(what)
    \/ Drop
    \/ \E from, to \in Names : OutsideRename(from, to)

Spec == Init /\ [][Next]_vars

-----------------------------------------------------------------------------

(* Whether an address is the one that the program meant: an integer, u32 or i32, *)
(* holds the octets from the low end on.                                         *)
IsMeant(x, ip) ==
    IF x.form # "int" THEN ip = x.value
    ELSE LET Octet(k) == ip.octets[k]
         IN  /\ ip # Unset
             /\ Octet(1) + 256 * Octet(2) + 65536 * Octet(3) = x.value % 16777216
             /\ Octet(4) = (x.value \div 16777216) % 256

(* A new device answers each option that its configuration gave, as the test   *)
(* platform/mod.rs:71-88 expects: whatever was on a persistent interface, and  *)
(* although a new address resets the peer, the broadcast address and the mask. *)
(* (On L2 the kernel may adapt a broadcast address to the mask.)               *)
NewDeviceAnswersItsOptions ==
    stage = "live" /\ config # Unset /\ config.root /\ ~renamed =>
        LET opts     == config.opts
            Given(o) == opts[o] # Unset
            Kept     == {o \in IpOptions : o # "brd" \/ config.layer = "L3" \/ ~Given("mask")}
        IN  /\ Given("mtu") => mtu = opts.mtu
            /\ platform = "linux" =>
                  /\ \A o \in Kept : Given(o) => IsMeant(opts[o], Answer(o))
                  /\ \A o \in {"mtu", "up"} : Given(o) => ifaces[name][o] = opts[o]

(* Unless another program has renamed its interface, a device changes no other *)
(* interface: each rename of its own, refused or not, leaves it the name of    *)
(* its own (linux/device.rs:197-206, 276-299).                                 *)
OthersUntouched ==
    [][ \/ \E from, to \in Names : OutsideRename(from, to)
        \/ renamed
        \/ \A n \in Names : ifaces[n] # Absent /\ ifaces[n].owner = "other"
                                => ifaces'[n] = ifaces[n] ]_vars
=============================================================================
