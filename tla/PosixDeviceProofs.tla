-------------------------- MODULE PosixDeviceProofs --------------------------
(***************************************************************************)
(* Theorems about PosixDevice, for all names, options, interfaces of other *)
(* programs and numbers of calls.                                          *)
(***************************************************************************)
EXTENDS PosixDevice, SequenceTheorems, FiniteSetTheorems, TLAPS

(* The interfaces, those of other programs included, are as the kernel keeps them. *)
KernelInv ==
    /\ DOMAIN ifaces = Names
    /\ \A n \in Names : ifaces[n] = Absent \/ IsInterface(ifaces[n])

(* The device has no interface before it has opened one, and at most one after. *)
OneInv ==
    /\ Mine = {} \/ \E m \in Names : Mine = {m}
    /\ stage = "new" => Mine = {} /\ config \in Configs

(* Only configure has setters to call, and only on Linux. *)
TodoInv ==
    /\ todo # <<>> => stage = "configure"
    /\ stage = "configure" => platform = "linux"

(* Until another program renames it, a Linux device remembers the name of its *)
(* interface.                                                                 *)
NameInv ==
    platform = "linux" /\ stage \in {"configure", "live"} /\ ~renamed =>
        name \in Names /\ Mine = {name}

IInv == TypeOK /\ KernelInv /\ OneInv /\ TodoInv /\ NameInv

-----------------------------------------------------------------------------
(* What the kernel keeps *)

LEMMA OctetsOf == \A a, b, c, d : \A k \in 1..4 :
    Ip4(a, b, c, d).octets[k] =
        IF k = 1 THEN a ELSE IF k = 2 THEN b ELSE IF k = 3 THEN c ELSE d
  BY DEF Ip4

(* The masks that the kernel derives are prefixes. *)
LEMMA HostIsPrefix == ~Holey(Host)
  BY OctetsOf DEF Holey, Host

LEMMA ClassMaskIsPrefix == \A ip : ~Holey(ClassMask(ip))
  <1> SUFFICES ASSUME NEW ip PROVE ~Holey(ClassMask(ip))
    OBVIOUS
  <1>1. ~Holey(Ip4(255, 0, 0, 0)) /\ ~Holey(Ip4(255, 255, 0, 0)) /\ ~Holey(Ip4(255, 255, 255, 0))
    BY OctetsOf DEF Holey
  <1>2. ClassMask(ip) \in {Ip4(255, 0, 0, 0), Ip4(255, 255, 0, 0), Ip4(255, 255, 255, 0)}
    BY DEF ClassMask
  <1>3. QED
    BY <1>1, <1>2

LEMMA FreshIs ==
    ASSUME NEW layer
    PROVE  IsInterface(Fresh("mine", layer)) /\ Fresh("mine", layer).owner = "mine"
  BY MtuAssumption DEF Fresh, IsInterface, Options, IpOptions

LEMMA AbsentIs == Absent.owner = "absent" /\ ~IsInterface(Absent)
  BY DEF Absent, IsInterface

(* An ioctl that the kernel accepts leaves an interface of the same owner. *)
LEMMA ApplyKeeps ==
    ASSUME NEW i, IsInterface(i), NEW o \in Options, NEW v, Accepts(i, o, v), o = "mtu" => v \in Nat
    PROVE  IsInterface(Apply(i, o, v)) /\ Apply(i, o, v).owner = i.owner
  <1> DEFINE Kept(j) == IsInterface(j) /\ j.owner = i.owner
             a == InAddr(v)
  <1>1. a.v = 4
    BY DEF InAddr
  <1>2. o \in {"addr", "dst", "brd", "mask", "mtu", "up"}
    BY DEF Options, IpOptions
  <1> HIDE DEF a
  <1>3. CASE o = "up"
    <2>1. Apply(i, o, v) = [i EXCEPT !["up"] = v]
      BY <1>3 DEF Apply
    <2>2. QED
      BY <2>1 DEF IsInterface, Options, IpOptions
  <1>4. CASE o = "mtu"
    <2>1. Apply(i, o, v) = [i EXCEPT !["mtu"] = v] /\ v >= MinMtu /\ v \in Nat
      BY <1>4 DEF Apply, Accepts
    <2>2. QED
      BY <2>1 DEF IsInterface, Options, IpOptions
  <1>5. CASE o = "addr"
    <2>1. CASE i.addr # a
      <3> DEFINE mask == IF i.layer = "L3" THEN Host ELSE ClassMask(a)
                 j == [i EXCEPT !.addr = a, !.dst = a, !.mask = mask]
      <3>1. ~Holey(mask)
        BY HostIsPrefix, ClassMaskIsPrefix
      <3>2. Apply(i, o, v) = [j EXCEPT !["brd"] = Derived(j, j.mask)]
        BY <1>5, <2>1 DEF Apply, a
      <3> HIDE DEF mask
      <3>3. Kept(j)
        BY <1>1, <3>1 DEF IsInterface, Options, IpOptions
      <3> HIDE DEF j
      <3>4. QED
        BY <3>2, <3>3 DEF IsInterface, Options, IpOptions
    <2>2. CASE i.addr = a
      <3>1. Apply(i, o, v) = [i EXCEPT !["addr"] = a]
        BY <1>5, <2>2 DEF Apply, a
      <3>2. a # Unset => ~Holey(i.mask)
        BY <2>2 DEF IsInterface
      <3>3. QED
        BY <1>1, <3>1, <3>2 DEF IsInterface, Options, IpOptions
    <2>3. QED
      BY <2>1, <2>2
  <1>6. CASE o = "mask"
    <2>1. ~Holey(a)
      BY <1>6 DEF Accepts, a
    <2> DEFINE j == [i EXCEPT !["mask"] = a]
    <2>2. Kept(j)
      BY <2>1 DEF IsInterface, Options, IpOptions
    <2>3. Apply(i, o, v) = j \/ \E brd : Apply(i, o, v) = [j EXCEPT !["brd"] = brd]
      <3>1. CASE i.layer = "L2" /\ i.brd = Derived(i, i.mask)
        <4>1. Apply(i, o, v) = [i EXCEPT !.mask = a, !.brd = Derived(i, a)]
          BY <1>6, <3>1 DEF Apply, a
        <4>2. QED
          BY <4>1
      <3>2. CASE ~(i.layer = "L2" /\ i.brd = Derived(i, i.mask))
        BY <1>6, <3>2 DEF Apply, a
      <3>3. QED
        BY <3>1, <3>2
    <2> HIDE DEF j
    <2>4. QED
      BY <2>2, <2>3 DEF IsInterface, Options, IpOptions
  <1>7. CASE o \in {"dst", "brd"}
    <2>1. Apply(i, o, v) = [i EXCEPT ![o] = a]
      BY <1>7 DEF Apply, a
    <2>2. QED
      BY <1>7, <2>1 DEF IsInterface, Options, IpOptions
  <1>8. QED
    BY <1>2, <1>3, <1>4, <1>5, <1>6, <1>7

-----------------------------------------------------------------------------
(* What the device and the other programs do to the interfaces *)

(* What a step that belongs to the device leaves of the interfaces of others. *)
OthersSame == \A n \in Names : ifaces[n] # Absent /\ ifaces[n].owner = "other" => ifaces'[n] = ifaces[n]

Owners == \A n \in Names : ifaces'[n].owner = ifaces[n].owner

LEMMA OwnersKeep == Owners => Mine' = Mine
  BY DEF Owners, Mine

LEMMA SetsKeeps ==
    ASSUME KernelInv, NEW o \in Options, NEW v, o = "mtu" => v \in Nat, Sets(o, v)
    PROVE  /\ KernelInv' /\ Owners
           /\ \A n \in Names \ {name} : ifaces'[n] = ifaces[n]
           /\ mtu \in Nat => mtu' \in Nat
  <1> DEFINE r == Request(o, v)
             i == Apply(ifaces[name], o, r)
  <1>1. /\ name \in Names /\ ifaces[name] # Absent /\ Accepts(ifaces[name], o, r)
        /\ ifaces' = [ifaces EXCEPT ![name] = i]
        /\ mtu' = IF o = "mtu" THEN v ELSE mtu
    BY DEF Sets
  <1>2. o = "mtu" => r \in Nat
    BY DEF Request, IpOptions
  <1> HIDE DEF r
  <1>3. IsInterface(ifaces[name])
    BY <1>1 DEF KernelInv
  <1>4. IsInterface(i) /\ i.owner = ifaces[name].owner
    BY <1>1, <1>2, <1>3, ApplyKeeps
  <1> HIDE DEF i
  <1>5. QED
    BY <1>1, <1>4 DEF KernelInv, Owners

LEMMA ClosedKeeps ==
    ASSUME KernelInv, ifaces' = Closed(ifaces)
    PROVE  KernelInv' /\ Mine' = {} /\ OthersSame
  <1>1. ASSUME NEW n \in Names
        PROVE  /\ ifaces'[n] = Absent \/ IsInterface(ifaces'[n])
               /\ ifaces'[n].owner # "mine"
               /\ ifaces[n].owner = "other" => ifaces'[n] = ifaces[n]
    <2>1. CASE ifaces[n].owner # "mine"
      BY <2>1 DEF Closed, KernelInv
    <2>2. CASE ifaces[n].owner = "mine" /\ ifaces'[n] = Absent
      BY <2>2, AbsentIs
    <2>3. CASE ifaces[n].owner = "mine" /\ ifaces'[n] = [ifaces[n] EXCEPT !.owner = "none"]
      <3>1. IsInterface(ifaces[n])
        BY <2>3, AbsentIs DEF KernelInv
      <3>2. QED
        BY <2>3, <3>1 DEF IsInterface
    <2>4. QED
      BY <2>1, <2>2, <2>3 DEF Closed
  <1>2. DOMAIN ifaces' = Names
    BY DEF Closed
  <1>3. QED
    BY <1>1, <1>2 DEF KernelInv, Mine, OthersSame

LEMMA RenamesKeeps ==
    ASSUME KernelInv, NEW from \in Names, NEW to \in Names, Renames(from, to)
    PROVE  /\ KernelInv'
           /\ Mine' = IF from \in Mine THEN (Mine \ {from}) \cup {to} ELSE Mine
           /\ \A n \in Names \ {from} : ifaces[n] # Absent => ifaces'[n] = ifaces[n]
  <1>1. /\ to = from \/ ifaces[to] = Absent
        /\ ifaces' = [n \in Names |-> IF n = to THEN ifaces[from]
                                      ELSE IF n = from THEN Absent ELSE ifaces[n]]
    BY DEF Renames, Free
  <1>2. KernelInv'
    BY <1>1 DEF KernelInv
  <1>3. Absent.owner # "mine"
    BY AbsentIs
  <1>4. \A n \in Names : n \in Mine' <=> (n = to /\ from \in Mine) \/ (n \notin {to, from} /\ n \in Mine)
    BY <1>1, <1>3 DEF Mine
  <1>5. to # from => to \notin Mine
    BY <1>1, <1>3 DEF Mine
  <1>6. Mine \subseteq Names /\ Mine' \subseteq Names
    BY DEF Mine
  <1>7. QED
    BY <1>1, <1>2, <1>4, <1>5, <1>6

LEMMA OpenKeeps ==
    ASSUME KernelInv, TypeOK, OneInv, Open
    PROVE  /\ KernelInv' /\ OthersSame
           /\ name' \in Names /\ Mine' = {name'}
  <1>1. PICK n \in Names :
           /\ \/ n \in Free /\ ifaces' = [ifaces EXCEPT ![n] = Fresh("mine", config.layer)]
              \/ n \notin Free /\ ifaces[n].owner = "none" /\ ifaces' = [ifaces EXCEPT ![n].owner = "mine"]
           /\ name' = n
    BY DEF Open, Free
  <1> DEFINE i == ifaces'[n]
  <1>2. /\ IsInterface(i) /\ i.owner = "mine"
        /\ ifaces[n] = Absent \/ ifaces[n].owner = "none"
        /\ \A k \in Names \ {n} : ifaces'[k] = ifaces[k]
        /\ DOMAIN ifaces' = Names
    <2>1. CASE n \in Free /\ ifaces' = [ifaces EXCEPT ![n] = Fresh("mine", config.layer)]
      BY <2>1, FreshIs DEF Free, KernelInv
    <2>2. CASE n \notin Free /\ ifaces[n].owner = "none" /\ ifaces' = [ifaces EXCEPT ![n].owner = "mine"]
      <3>1. IsInterface(ifaces[n])
        BY <2>2 DEF Free, KernelInv
      <3>2. i = [ifaces[n] EXCEPT !.owner = "mine"]
        BY <2>2 DEF KernelInv
      <3>3. IsInterface(i) /\ i.owner = "mine"
        BY <3>1, <3>2 DEF IsInterface
      <3>4. QED
        BY <2>2, <3>3 DEF KernelInv
    <2>3. QED
      BY <1>1, <2>1, <2>2
  <1>3. Mine = {}
    BY DEF Open, OneInv
  <1>4. Mine' = {n}
    BY <1>2, <1>3 DEF Mine
  <1>5. KernelInv'
    BY <1>2 DEF KernelInv
  <1>6. OthersSame
    BY <1>2 DEF OthersSame
  <1>7. QED
    BY <1>1, <1>4, <1>5, <1>6

LEMMA QdiscKeeps ==
    ASSUME KernelInv, SetQdisc
    PROVE  KernelInv' /\ Owners /\ \A n \in Names \ {name} : ifaces'[n] = ifaces[n]
  <1>1. CASE UNCHANGED ifaces
    BY <1>1 DEF KernelInv, Owners
  <1>2. CASE ifaces' = [ifaces EXCEPT ![name] =
                          IF @ = Absent THEN @ ELSE [@ EXCEPT !.qdisc = "pfifo_fast"]]
    <2> DEFINE i == IF ifaces[name] = Absent THEN ifaces[name]
                    ELSE [ifaces[name] EXCEPT !.qdisc = "pfifo_fast"]
    <2>1. ifaces' = [ifaces EXCEPT ![name] = i]
      BY <1>2
    <2>2. name \in Names => (i = Absent \/ IsInterface(i)) /\ i.owner = ifaces[name].owner
      BY DEF KernelInv, IsInterface
    <2> HIDE DEF i
    <2>3. QED
      BY <2>1, <2>2 DEF KernelInv, Owners
  <1>3. QED
    BY <1>1, <1>2 DEF SetQdisc

LEMMA HoldKeeps ==
    ASSUME KernelInv, NEW what, Hold(what)
    PROVE  KernelInv' /\ Owners /\ OthersSame
  <1>1. ifaces' = [n \in Names |-> IF n \in Mine THEN [ifaces[n] EXCEPT !.held = @ \cup {what}]
                                   ELSE ifaces[n]]
    BY DEF Hold
  <1>2. ASSUME NEW n \in Mine
        PROVE  /\ IsInterface([ifaces[n] EXCEPT !.held = @ \cup {what}])
               /\ [ifaces[n] EXCEPT !.held = @ \cup {what}].owner = "mine"
    <2>1. IsInterface(ifaces[n]) /\ ifaces[n].owner = "mine"
      BY AbsentIs DEF KernelInv, Mine
    <2>2. QED
      BY <2>1 DEF IsInterface
  <1>3. QED
    BY <1>1, <1>2 DEF KernelInv, Owners, OthersSame, Mine

-----------------------------------------------------------------------------
(* The setters of a configuration *)

LEMMA RequestsAre ==
    ASSUME NEW r \in Requests
    PROVE  r[1] \in Options /\ (r[1] = "mtu" => r[2] \in Nat)
  <1>1. PICK o \in Options : \E x \in Inputs[o] : r = <<o, Setting(o, x)>>
    BY DEF Requests
  <1>2. PICK x \in Inputs[o] : r = <<o, Setting(o, x)>>
    BY <1>1
  <1>3. r[1] = o /\ r[2] = Setting(o, x)
    BY <1>2
  <1>4. o = "mtu" => Setting(o, x) = x /\ x \in Nat
    BY MtuAssumption DEF Setting, IpOptions
  <1>5. QED
    BY <1>1, <1>3, <1>4

(* The setters in s are those of the options in S that are given, and that of *)
(* the address can only be the first.                                          *)
Asks(opts, s, S) ==
    /\ s \in Seq(Requests)
    /\ \A i \in 1..Len(s) :
          /\ s[i][1] \in S /\ opts[s[i][1]] # Unset
          /\ s[i][2] = Setting(s[i][1], opts[s[i][1]])
    /\ \A i \in 2..Len(s) : s[i][1] # "addr"
    /\ \A o \in S : opts[o] # Unset => \E i \in 1..Len(s) : s[i][1] = o

LEMMA AsksBoth ==
    ASSUME NEW opts, NEW s, NEW t, NEW S, NEW T,
           Asks(opts, s, S), Asks(opts, t, T), "addr" \notin T
    PROVE  Asks(opts, s \o t, S \cup T)
  <1> DEFINE u == s \o t
  <1>1. s \in Seq(Requests) /\ t \in Seq(Requests)
    BY DEF Asks
  <1>2. /\ u \in Seq(Requests) /\ Len(u) = Len(s) + Len(t)
        /\ Len(s) \in Nat /\ Len(t) \in Nat
        /\ \A i \in 1..Len(u) : u[i] = IF i <= Len(s) THEN s[i] ELSE t[i - Len(s)]
    BY <1>1, ConcatProperties
  <1> HIDE DEF u
  <1>3. \A i \in 1..Len(s) : i \in 1..Len(u) /\ u[i] = s[i]
    BY <1>2
  <1>4. \A i \in 1..Len(t) : i + Len(s) \in 1..Len(u) /\ u[i + Len(s)] = t[i]
    BY <1>2
  <1>5. ASSUME NEW i \in 1..Len(u)
        PROVE  /\ u[i][1] \in S \cup T /\ opts[u[i][1]] # Unset
               /\ u[i][2] = Setting(u[i][1], opts[u[i][1]])
               /\ i >= 2 => u[i][1] # "addr"
    <2>1. CASE i <= Len(s)
      <3>1. i \in 1..Len(s) /\ u[i] = s[i]
        BY <1>2, <2>1
      <3>2. i >= 2 => i \in 2..Len(s)
        BY <1>2, <3>1
      <3>3. QED
        BY <3>1, <3>2 DEF Asks
    <2>2. CASE i > Len(s)
      <3>1. i - Len(s) \in 1..Len(t) /\ u[i] = t[i - Len(s)]
        BY <1>2, <2>2
      <3>2. QED
        BY <3>1 DEF Asks
    <2>3. QED
      BY <1>2, <2>1, <2>2
  <1>6. ASSUME NEW o \in S \cup T, opts[o] # Unset
        PROVE  \E i \in 1..Len(u) : u[i][1] = o
    <2>1. CASE o \in S
      <3>1. PICK i \in 1..Len(s) : s[i][1] = o
        BY <1>6, <2>1 DEF Asks
      <3>2. QED
        BY <1>3, <3>1
    <2>2. CASE o \in T
      <3>1. PICK i \in 1..Len(t) : t[i][1] = o
        BY <1>6, <2>2 DEF Asks
      <3>2. QED
        BY <1>4, <3>1
    <2>3. QED
      BY <2>1, <2>2
  <1>7. \A i \in 2..Len(u) : i \in 1..Len(u) /\ i >= 2
    BY <1>2
  <1>8. QED
    BY <1>2, <1>5, <1>6, <1>7 DEF Asks, u

(* configure asks for each option that its configuration gives, and for the    *)
(* address first.                                                              *)
LEMMA PlanAsks == \A opts \in OptionSets : Asks(opts, Plan(opts), Options)
  <1> SUFFICES ASSUME NEW opts \in OptionSets PROVE Asks(opts, Plan(opts), Options)
    OBVIOUS
  <1> DEFINE Call(o) == IF opts[o] = Unset THEN <<>> ELSE <<<<o, Setting(o, opts[o])>>>>
             S1 == {"addr"} \cup {"dst"}
             S2 == S1 \cup {"brd"}
             S3 == S2 \cup {"mask"}
             S4 == S3 \cup {"mtu"}
             s1 == Call("addr") \o Call("dst")
             s2 == s1 \o Call("brd")
             s3 == s2 \o Call("mask")
             s4 == s3 \o Call("mtu")
  <1>1. \A o \in Options : opts[o] \in Inputs[o] \cup {Unset}
    BY DEF OptionSets, Options, IpOptions
  <1>2. ASSUME NEW o \in Options
        PROVE  Asks(opts, Call(o), {o})
    <2>1. CASE opts[o] = Unset
      BY <2>1, EmptySeq DEF Asks
    <2>2. CASE opts[o] # Unset
      <3> DEFINE r == <<o, Setting(o, opts[o])>>
      <3>1. r \in Requests
        BY <1>1, <2>2 DEF Requests
      <3>2. r[1] = o /\ r[2] = Setting(o, opts[o])
        OBVIOUS
      <3>3. Call(o) = <<r>>
        BY <2>2
      <3> HIDE DEF r
      <3>4. Call(o) \in Seq(Requests) /\ Len(Call(o)) = 1 /\ Call(o)[1] = r
        BY <3>1, <3>3
      <3> HIDE DEF Call
      <3>5. QED
        BY <2>2, <3>2, <3>4 DEF Asks
    <2>3. QED
      BY <2>1, <2>2
  <1>3. Plan(opts) = s4 \o Call("up")
    BY DEF Plan, PlanOf
  <1>4. /\ Asks(opts, Call("addr"), {"addr"}) /\ Asks(opts, Call("dst"), {"dst"})
        /\ Asks(opts, Call("brd"), {"brd"}) /\ Asks(opts, Call("mask"), {"mask"})
        /\ Asks(opts, Call("mtu"), {"mtu"}) /\ Asks(opts, Call("up"), {"up"})
    BY <1>2 DEF Options, IpOptions
  <1> HIDE DEF Call
  <1>5. Asks(opts, s1, S1)
    BY <1>4, AsksBoth
  <1> HIDE DEF s1
  <1>6. Asks(opts, s2, S2)
    BY <1>4, <1>5, AsksBoth
  <1> HIDE DEF s2
  <1>7. Asks(opts, s3, S3)
    BY <1>4, <1>6, AsksBoth
  <1> HIDE DEF s3
  <1>8. Asks(opts, s4, S4)
    BY <1>4, <1>7, AsksBoth
  <1> HIDE DEF s4
  <1>9. Asks(opts, Plan(opts), S4 \cup {"up"})
    BY <1>3, <1>4, <1>8, AsksBoth
  <1>10. S4 \cup {"up"} = Options
    BY DEF Options, IpOptions
  <1>11. QED
    BY <1>9, <1>10

LEMMA MtuType == \A c \in Configs : MtuOf(c.opts) \in Nat
  BY MtuAssumption DEF Configs, OptionSets, MtuOf

LEMMA HeadIs ==
    ASSUME todo \in Seq(Requests), todo # <<>>
    PROVE  /\ Tail(todo) \in Seq(Requests)
           /\ Head(todo)[1] \in Options /\ (Head(todo)[1] = "mtu" => Head(todo)[2] \in Nat)
  <1>1. Head(todo) \in Requests /\ Tail(todo) \in Seq(Requests)
    OBVIOUS
  <1>2. QED
    BY <1>1, RequestsAre

(* The devices that adopt a descriptor: no name of an interface, only the MTU. *)
LEMMA AdoptedAre ==
    ASSUME NEW p \in Platforms, p # "linux"
    PROVE  Adopted[p].tun_name \in {"", "vpn-tun"} /\ Adopted[p].keeps = {"mtu"}
  <1>1. p \in {"ios", "android", "ohos"}
    BY DEF Platforms
  <1>2. Adopted[p] \in {IosDevice, AndroidDevice, OhosDevice}
    BY <1>1 DEF Adopted
  <1>3. IosDevice.tun_name = "" /\ AndroidDevice.tun_name = "" /\ OhosDevice.tun_name = "vpn-tun"
    BY DEF IosDevice, AndroidDevice, OhosDevice
  <1>4. IosDevice.keeps = {"mtu"} /\ AndroidDevice.keeps = {"mtu"} /\ OhosDevice.keeps = {"mtu"}
    BY DEF IosDevice, AndroidDevice, OhosDevice
  <1>5. QED
    BY <1>2, <1>3, <1>4

LEMMA ValuesAre ==
    ASSUME NEW call \in Values
    PROVE  call[1] \in Options /\ (call[1] = "mtu" => call[2] \in Nat)
  BY MtuAssumption

-----------------------------------------------------------------------------
(* The invariant *)

LEMMA CardOne == (Mine = {} \/ \E m \in Names : Mine = {m}) => Cardinality(Mine) <= 1
  BY FS_Singleton, FS_EmptySet

LEMMA InitIInv == Init => IInv
  <1> SUFFICES ASSUME Init PROVE IInv
    OBVIOUS
  <1> USE DEF Init
  <1>1. ASSUME NEW n \in Names
        PROVE  (ifaces[n] = Absent \/ IsInterface(ifaces[n])) /\ ifaces[n].owner # "mine"
    BY BeforeAssumption, AbsentIs
  <1>2. KernelInv
    BY <1>1 DEF KernelInv
  <1>3. Mine = {}
    BY <1>1 DEF Mine
  <1>4. TypeOK
    BY <1>2, <1>3, CardOne, EmptySeq, MtuAssumption DEF TypeOK, KernelInv, Free
  <1>5. OneInv /\ TodoInv /\ NameInv
    BY <1>3 DEF OneInv, TodoInv, NameInv
  <1>6. QED
    BY <1>2, <1>4, <1>5 DEF IInv

(* The interfaces after a step, of others and of the device. *)
LEMMA NextKernel ==
    ASSUME IInv, [Next]_vars
    PROVE  /\ KernelInv'
           /\ Mine' = {} \/ \E m \in Names : Mine' = {m}
           /\ stage' = "new" => Mine' = {}
  <1> DEFINE Good == /\ KernelInv'
                     /\ Mine' = {} \/ \E m \in Names : Mine' = {m}
                     /\ stage' = "new" => Mine' = {}
  <1>1. KernelInv /\ OneInv /\ TypeOK /\ TodoInv
    BY DEF IInv
  <1>2. ASSUME UNCHANGED ifaces, stage' = "new" => stage = "new"
        PROVE  Good
    BY <1>1, <1>2 DEF KernelInv, OneInv, Mine
  <1>3. ASSUME KernelInv', Owners, stage' = "new" => stage = "new"
        PROVE  Good
    BY <1>1, <1>3, OwnersKeep DEF OneInv
  <1>4. ASSUME NEW from \in Names, NEW to \in Names, Renames(from, to), stage' # "new"
        PROVE  Good
    BY <1>1, <1>4, RenamesKeeps DEF OneInv
  <1>5. CASE NewFails
    BY <1>2, <1>5 DEF NewFails
  <1>6. CASE Open
    BY <1>1, <1>6, OpenKeeps DEF Open
  <1>7. CASE ConfigureStep
    <2>1. Sets(Head(todo)[1], Head(todo)[2]) /\ todo # <<>> /\ stage' = stage
      BY <1>7 DEF ConfigureStep
    <2>2. KernelInv' /\ Owners
      BY <1>1, <2>1, HeadIs, SetsKeeps DEF TypeOK
    <2>3. QED
      BY <1>3, <2>1, <2>2
  <1>8. CASE ConfigureFails
    BY <1>1, <1>8, ClosedKeeps DEF ConfigureFails
  <1>9. CASE SetQdisc
    BY <1>1, <1>3, <1>9, QdiscKeeps DEF SetQdisc
  <1>10. CASE Adopt
    BY <1>2, <1>10 DEF Adopt
  <1>11. ASSUME NEW call \in Values, Set(call[1], call[2])
         PROVE  Good
    <2>1. stage' = stage
      BY <1>11 DEF Set
    <2>2. CASE UNCHANGED ifaces
      BY <1>2, <2>1, <2>2
    <2>3. CASE Sets(call[1], call[2])
      BY <1>1, <1>3, <2>1, <2>3, ValuesAre, SetsKeeps
    <2>4. QED
      BY <1>11, <2>2, <2>3 DEF Set, Refused, AdoptedSets
  <1>12. ASSUME NEW n \in Names \cup {LongName}, SetTunName(n)
         PROVE  Good
    BY <1>2, <1>4, <1>12 DEF SetTunName, NameRefused
  <1>13. ASSUME NEW what, Hold(what)
         PROVE  Good
    BY <1>1, <1>3, <1>13, HoldKeeps DEF Hold
  <1>14. CASE Drop
    <2>1. CASE platform = "linux"
      BY <1>1, <1>14, <2>1, ClosedKeeps DEF Drop
    <2>2. CASE platform # "linux"
      BY <1>2, <1>14, <2>2 DEF Drop
    <2>3. QED
      BY <2>1, <2>2
  <1>15. ASSUME NEW from \in Names, NEW to \in Names, OutsideRename(from, to)
         PROVE  Good
    BY <1>4, <1>15 DEF OutsideRename
  <1>16. CASE UNCHANGED vars
    BY <1>2, <1>16 DEF vars
  <1>17. QED
    BY <1>5, <1>6, <1>7, <1>8, <1>9, <1>10, <1>11, <1>12, <1>13, <1>14, <1>15, <1>16 DEF Next

(* The other variables: their types, the setters that remain, and the          *)
(* configuration until Device::new has used it.                                *)
LEMMA NextTypes ==
    ASSUME IInv, [Next]_vars
    PROVE  /\ platform' \in Platforms
           /\ stage' \in {"new", "configure", "live", "gone"}
           /\ todo' \in Seq(Requests)
           /\ name' \in Names \cup {"", "vpn-tun", Unset}
           /\ mtu' \in Nat
           /\ TodoInv'
           /\ stage' = "new" => config' \in Configs
  <1> DEFINE T == /\ platform \in Platforms
                  /\ stage \in {"new", "configure", "live", "gone"}
                  /\ todo \in Seq(Requests)
                  /\ name \in Names \cup {"", "vpn-tun", Unset}
                  /\ mtu \in Nat
                  /\ todo # <<>> => stage = "configure"
                  /\ stage = "configure" => platform = "linux"
                  /\ stage = "new" => config \in Configs
  <1>1. T /\ KernelInv
    BY DEF IInv, TypeOK, TodoInv, OneInv
  <1> SUFFICES T'
    BY DEF TodoInv
  <1>2. CASE NewFails
    BY <1>1, <1>2 DEF NewFails
  <1>3. CASE Open
    <2>1. config \in Configs /\ config.opts \in OptionSets
      BY <1>1, <1>3 DEF Open, Configs
    <2>2. Plan(config.opts) \in Seq(Requests) /\ MtuOf(config.opts) \in Nat /\ <<>> \in Seq(Requests)
      BY <2>1, PlanAsks, MtuType, EmptySeq DEF Asks
    <2>3. name' \in Names
      BY <1>3 DEF Open, Free
    <2>4. QED
      BY <1>1, <1>3, <2>2, <2>3 DEF Open
  <1>4. CASE ConfigureStep
    <2>1. /\ Sets(Head(todo)[1], Head(todo)[2]) /\ todo # <<>> /\ todo' = Tail(todo)
          /\ UNCHANGED <<platform, stage, config, name>>
      BY <1>4 DEF ConfigureStep
    <2>2. mtu' \in Nat /\ todo' \in Seq(Requests)
      BY <1>1, <2>1, HeadIs, SetsKeeps
    <2>3. QED
      BY <1>1, <2>1, <2>2
  <1>5. CASE ConfigureFails
    BY <1>1, <1>5, EmptySeq DEF ConfigureFails
  <1>6. CASE SetQdisc
    BY <1>1, <1>6 DEF SetQdisc
  <1>7. CASE Adopt
    <2>1. MtuOf(config.opts) \in Nat
      BY <1>1, <1>7, MtuType DEF Adopt
    <2>2. Adopted[platform].tun_name \in {"", "vpn-tun"}
      BY <1>1, <1>7, AdoptedAre DEF Adopt
    <2>3. QED
      BY <1>1, <1>7, <2>1, <2>2 DEF Adopt
  <1>8. ASSUME NEW call \in Values, Set(call[1], call[2])
        PROVE  T'
    <2>1. stage = "live" /\ todo = <<>> /\ UNCHANGED <<platform, stage, todo, name>>
      BY <1>1, <1>8 DEF Set
    <2>2. mtu' \in Nat
      <3>1. CASE Sets(call[1], call[2])
        BY <1>1, <3>1, ValuesAre, SetsKeeps
      <3>2. CASE Refused
        BY <1>1, <3>2 DEF Refused
      <3>3. CASE AdoptedSets(call[1], call[2]) /\ platform # "linux"
        <4>1. Adopted[platform].keeps = {"mtu"}
          BY <1>1, <3>3, AdoptedAre
        <4>2. QED
          BY <1>1, <3>3, <4>1, ValuesAre DEF AdoptedSets
      <3>4. QED
        BY <1>8, <3>1, <3>2, <3>3 DEF Set
    <2>3. QED
      BY <1>1, <2>1, <2>2
  <1>9. ASSUME NEW n \in Names \cup {LongName}, SetTunName(n)
        PROVE  T'
    BY <1>1, <1>9 DEF SetTunName, NameRefused
  <1>10. ASSUME NEW what, Hold(what)
         PROVE  T'
    BY <1>1, <1>10 DEF Hold
  <1>11. CASE Drop
    BY <1>1, <1>11 DEF Drop
  <1>12. ASSUME NEW from \in Names, NEW to \in Names, OutsideRename(from, to)
         PROVE  T'
    BY <1>1, <1>12 DEF OutsideRename
  <1>13. CASE UNCHANGED vars
    BY <1>1, <1>13 DEF vars
  <1>14. QED
    BY <1>2, <1>3, <1>4, <1>5, <1>6, <1>7, <1>8, <1>9, <1>10, <1>11, <1>12, <1>13 DEF Next

(* The name that a Linux device remembers. *)
LEMMA NextName ==
    ASSUME IInv, [Next]_vars
    PROVE  NameInv'
  <1>1. KernelInv /\ OneInv /\ TypeOK /\ TodoInv /\ NameInv
    BY DEF IInv
  <1> DEFINE Live == stage \in {"configure", "live"}
  <1>2. ASSUME Owners, UNCHANGED <<platform, name, renamed>>, stage' \in {"configure", "live"} => Live
        PROVE  NameInv'
    BY <1>1, <1>2, OwnersKeep DEF NameInv
  <1>3. ASSUME UNCHANGED <<platform, name, renamed, ifaces>>, stage' \in {"configure", "live"} => Live
        PROVE  NameInv'
    BY <1>2, <1>3 DEF Owners
  <1>4. ASSUME platform' # "linux" \/ stage' = "gone"
        PROVE  NameInv'
    BY <1>4 DEF NameInv
  <1>5. CASE NewFails \/ ConfigureFails \/ Drop \/ Adopt
    BY <1>4, <1>5 DEF NewFails, ConfigureFails, Drop, Adopt
  <1>6. CASE Open
    BY <1>1, <1>6, OpenKeeps DEF NameInv
  <1>7. CASE ConfigureStep
    <2>1. /\ Sets(Head(todo)[1], Head(todo)[2]) /\ todo # <<>>
          /\ UNCHANGED <<platform, stage, name, renamed>>
      BY <1>7 DEF ConfigureStep
    <2>2. Owners
      BY <1>1, <2>1, HeadIs, SetsKeeps DEF TypeOK
    <2>3. QED
      BY <1>2, <2>1, <2>2
  <1>8. CASE SetQdisc
    BY <1>1, <1>2, <1>8, QdiscKeeps DEF SetQdisc
  <1>9. ASSUME NEW call \in Values, Set(call[1], call[2])
        PROVE  NameInv'
    <2>1. UNCHANGED <<platform, stage, name, renamed>>
      BY <1>9 DEF Set
    <2>2. CASE UNCHANGED ifaces
      BY <1>3, <2>1, <2>2
    <2>3. CASE Sets(call[1], call[2])
      BY <1>1, <1>2, <2>1, <2>3, ValuesAre, SetsKeeps
    <2>4. QED
      BY <1>9, <2>2, <2>3 DEF Set, Refused, AdoptedSets
  <1>10. ASSUME NEW n \in Names \cup {LongName}, SetTunName(n)
         PROVE  NameInv'
    <2>1. UNCHANGED <<platform, stage, renamed>> /\ stage = "live" /\ platform = "linux"
      BY <1>10 DEF SetTunName
    <2>2. CASE UNCHANGED <<name, ifaces>>
      BY <1>3, <2>1, <2>2
    <2>3. CASE name \in Names /\ n \in Names /\ Renames(name, n) /\ name' = n
      <3>1. Mine' = IF name \in Mine THEN (Mine \ {name}) \cup {n} ELSE Mine
        BY <1>1, <2>3, RenamesKeeps
      <3>2. ~renamed => Mine = {name}
        BY <1>1, <2>1 DEF NameInv
      <3>3. QED
        BY <2>1, <2>3, <3>1, <3>2 DEF NameInv
    <2>4. QED
      BY <1>10, <2>2, <2>3 DEF SetTunName, NameRefused
  <1>11. ASSUME NEW what, Hold(what)
         PROVE  NameInv'
    BY <1>1, <1>2, <1>11, HoldKeeps DEF Hold
  <1>12. ASSUME NEW from \in Names, NEW to \in Names, OutsideRename(from, to)
         PROVE  NameInv'
    <2>1. /\ Renames(from, to) /\ renamed' = (renamed \/ from \in Mine)
          /\ UNCHANGED <<platform, stage, name>>
      BY <1>12 DEF OutsideRename
    <2>2. ~renamed' => ~renamed /\ Mine' = Mine
      BY <1>1, <2>1, RenamesKeeps
    <2>3. QED
      BY <1>1, <2>1, <2>2 DEF NameInv
  <1>13. CASE UNCHANGED vars
    BY <1>3, <1>13 DEF vars
  <1>14. QED
    BY <1>5, <1>6, <1>7, <1>8, <1>9, <1>10, <1>11, <1>12, <1>13 DEF Next

THEOREM Invariance == Spec => []IInv
  <1>1. IInv /\ [Next]_vars => IInv'
    <2> SUFFICES ASSUME IInv, [Next]_vars PROVE IInv'
      OBVIOUS
    <2>1. KernelInv' /\ (Mine' = {} \/ \E m \in Names : Mine' = {m}) /\ (stage' = "new" => Mine' = {})
      BY NextKernel
    <2>2. Cardinality(Mine') <= 1
      <3>1. CASE Mine' = {}
        BY <3>1, FS_EmptySet
      <3>2. ASSUME NEW m \in Names, Mine' = {m}
            PROVE  Cardinality(Mine') <= 1
        BY <3>2, FS_Singleton
      <3>3. QED
        BY <2>1, <3>1, <3>2
    <2>3. TypeOK'
      BY <2>1, <2>2, NextTypes DEF TypeOK, KernelInv, Free
    <2>4. OneInv' /\ TodoInv'
      BY <2>1, NextTypes DEF OneInv
    <2>5. QED
      BY <2>1, <2>3, <2>4, NextName DEF IInv
  <1>2. QED
    BY InitIInv, <1>1, PTL DEF Spec

(* Every interface stays one that the kernel could keep, with an IPv4 address  *)
(* and a prefix for a mask, and at most one of them is the device's.           *)
THEOREM TypeCorrect == Spec => []TypeOK
  <1>1. IInv => TypeOK
    BY DEF IInv
  <1>2. QED
    BY <1>1, Invariance, PTL

(* Until another program renames its interface, no call of a device and no     *)
(* failure of one changes the interface of another program.                    *)
THEOREM OthersSafety == Spec => OthersUntouched
  <1> DEFINE Untouched == \/ \E from, to \in Names : OutsideRename(from, to)
                          \/ renamed
                          \/ OthersSame
  <1>1. IInv /\ [Next]_vars => [Untouched]_vars
    <2> SUFFICES ASSUME IInv, Next, ~renamed, ~(\E from, to \in Names : OutsideRename(from, to))
                 PROVE  OthersSame
      OBVIOUS
    <2>1. KernelInv /\ OneInv /\ TypeOK /\ TodoInv /\ NameInv
      BY DEF IInv
    <2>2. ASSUME UNCHANGED ifaces
          PROVE  OthersSame
      BY <2>2 DEF OthersSame
    <2>3. ASSUME platform = "linux", stage \in {"configure", "live"},
                 \A n \in Names \ {name} : ifaces[n] # Absent => ifaces'[n] = ifaces[n]
          PROVE  OthersSame
      <3>1. Mine = {name}
        BY <2>1, <2>3 DEF NameInv
      <3>2. ifaces[name].owner = "mine"
        BY <3>1 DEF Mine
      <3>3. QED
        BY <2>3, <3>2 DEF OthersSame
    <2>4. CASE NewFails \/ Adopt
      BY <2>2, <2>4 DEF NewFails, Adopt
    <2>5. CASE Open
      BY <2>1, <2>5, OpenKeeps
    <2>6. CASE ConfigureStep
      <3>1. /\ Sets(Head(todo)[1], Head(todo)[2]) /\ todo # <<>>
            /\ stage = "configure" /\ platform = "linux"
        BY <2>1, <2>6 DEF ConfigureStep, TodoInv
      <3>2. \A n \in Names \ {name} : ifaces'[n] = ifaces[n]
        BY <2>1, <3>1, HeadIs, SetsKeeps DEF TypeOK
      <3>3. QED
        BY <2>3, <3>1, <3>2
    <2>7. CASE ConfigureFails
      BY <2>1, <2>7, ClosedKeeps DEF ConfigureFails
    <2>8. CASE SetQdisc
      <3>1. \A n \in Names \ {name} : ifaces'[n] = ifaces[n]
        BY <2>1, <2>8, QdiscKeeps
      <3>2. QED
        BY <2>1, <2>3, <2>8, <3>1 DEF SetQdisc, TodoInv
    <2>9. ASSUME NEW call \in Values, Set(call[1], call[2])
          PROVE  OthersSame
      <3>1. CASE UNCHANGED ifaces
        BY <2>2, <3>1
      <3>2. CASE platform = "linux" /\ Sets(call[1], call[2])
        <4>1. \A n \in Names \ {name} : ifaces'[n] = ifaces[n]
          BY <2>1, <3>2, ValuesAre, SetsKeeps
        <4>2. QED
          BY <2>3, <2>9, <3>2, <4>1 DEF Set
      <3>3. QED
        BY <2>9, <3>1, <3>2 DEF Set, Refused, AdoptedSets
    <2>10. ASSUME NEW n \in Names \cup {LongName}, SetTunName(n)
           PROVE  OthersSame
      <3>1. CASE UNCHANGED ifaces
        BY <2>2, <3>1
      <3>2. CASE name \in Names /\ n \in Names /\ Renames(name, n)
        <4>1. \A k \in Names \ {name} : ifaces[k] # Absent => ifaces'[k] = ifaces[k]
          BY <2>1, <3>2, RenamesKeeps
        <4>2. QED
          BY <2>3, <2>10, <4>1 DEF SetTunName
      <3>3. QED
        BY <2>10, <3>1, <3>2 DEF SetTunName, NameRefused
    <2>11. ASSUME NEW what, Hold(what)
           PROVE  OthersSame
      BY <2>1, <2>11, HoldKeeps
    <2>12. CASE Drop
      BY <2>1, <2>2, <2>12, ClosedKeeps DEF Drop
    <2>13. QED
      BY <2>4, <2>5, <2>6, <2>7, <2>8, <2>9, <2>10, <2>11, <2>12 DEF Next
  <1>2. [Untouched]_vars => [ \/ \E from, to \in Names : OutsideRename(from, to)
                              \/ renamed
                              \/ \A n \in Names : ifaces[n] # Absent /\ ifaces[n].owner = "other"
                                                      => ifaces'[n] = ifaces[n] ]_vars
    BY DEF OthersSame
  <1>3. QED
    BY <1>1, <1>2, Invariance, PTL DEF Spec, OthersUntouched

-----------------------------------------------------------------------------
(* Addresses on the way to the kernel and back *)

LEMMA OctetsAre == \A n \in Int : U32Octets(n) \in [1..4 -> 0..255]
  <1> SUFFICES ASSUME NEW n \in Int PROVE U32Octets(n) \in [1..4 -> 0..255]
    OBVIOUS
  <1> DEFINE Byte(k) == (n \div k) % 256
  <1>1. /\ n % 256 \in 0..255 /\ Byte(256) \in 0..255
        /\ Byte(65536) \in 0..255 /\ Byte(16777216) \in 0..255
    OBVIOUS
  <1>2. U32Octets(n) = <<n % 256, Byte(256), Byte(65536), Byte(16777216)>>
    BY DEF U32Octets
  <1> HIDE DEF Byte
  <1>3. QED
    BY <1>1, <1>2

(* The octets, from the low end on, are the 32 bits of the integer. *)
LEMMA OctetsAdd ==
    \A n \in Int :
        /\ U32Octets(n)[1] + 256 * U32Octets(n)[2] + 65536 * U32Octets(n)[3] = n % 16777216
        /\ U32Octets(n)[4] = (n \div 16777216) % 256
  BY DEF U32Octets

(* What a builder of Configuration makes of its argument, if it does not panic, *)
(* is the address that was meant.                                               *)
LEMMA InputIsMeant ==
    ASSUME NEW x \in AddressInputs, IntoAddress(x) # Unset
    PROVE  IntoAddress(x) \in IpAddresses /\ IsMeant(x, IntoAddress(x))
  <1>1. CASE x \in [form : {"int"}, value : Int]
    <2>1. x.form = "int" /\ x.value \in Int
      BY <1>1
    <2>2. IntoAddress(x) = [v |-> 4, octets |-> U32Octets(x.value)]
      BY <2>1 DEF IntoAddress
    <2> DEFINE ip == IntoAddress(x)
    <2>3. ip.v = 4 /\ ip.octets = U32Octets(x.value)
      BY <2>2
    <2>4. ip \in IpAddresses
      <3>1. U32Octets(x.value) \in [1..4 -> 0..255]
        BY <2>1, OctetsAre
      <3>2. ip \in [v : {4}, octets : [1..4 -> 0..255]]
        BY <2>2, <3>1
      <3>3. QED
        BY <3>2 DEF IpAddresses
    <2> HIDE DEF ip
    <2>5. IsMeant(x, ip)
      BY <2>1, <2>3, OctetsAdd DEF IsMeant, ip
    <2>6. QED
      BY <2>4, <2>5 DEF ip
  <1>2. CASE x \in [form : {"str"}, value : IpAddresses \cup {Unset}]
    BY <1>2 DEF IntoAddress, IsMeant
  <1>3. CASE x \in [form : {"ip"}, value : IpAddresses]
    BY <1>3 DEF IntoAddress, IsMeant
  <1>4. QED
    BY <1>1, <1>2, <1>3 DEF AddressInputs

(* The bytes of a sockaddr that a setter fills in. *)
Sent(ip) == ipaddr_to_sockaddr(ip, 0, Zeros(16), OVERWRITE_SIZE)

(* The kernel reads from it the address that the setter was given, or another  *)
(* family.                                                                     *)
LEMMA SentIsRead ==
    ASSUME NEW ip \in IpAddresses, Family(Sent(ip)) = AF_INET
    PROVE  ip.v = 4 /\ InAddr(Sent(ip)) = ip
  <1> DEFINE sa == rs_addr_to_sockaddr(ip, 0)
  <1>1. Sent(ip) = [k \in 1..16 |-> sa[k]]
    BY DEF Sent, ipaddr_to_sockaddr, Zeros, OVERWRITE_SIZE, UnionSize
  <1>2. CASE ip \in [v : {6}, octets : [1..16 -> 0..255]]
    <2>1. sa[1] = 10 /\ sa[2] = 0
      BY <1>2 DEF rs_addr_to_sockaddr, Port, Zeros, UnionSize, AF_INET6
    <2>2. QED
      BY <1>1, <2>1 DEF Family, AF_INET
  <1>3. CASE ip \in [v : {4}, octets : [1..4 -> 0..255]]
    <2>1. \A k \in 1..4 : sa[k + 4] = ip.octets[k]
      BY <1>3 DEF rs_addr_to_sockaddr, Port, Zeros, UnionSize, AF_INET
    <2>2. SubSeq(Sent(ip), 5, 8) = ip.octets
      BY <1>1, <1>3, <2>1
    <2>3. QED
      BY <1>3, <2>2 DEF InAddr
  <1>4. QED
    BY <1>2, <1>3 DEF IpAddresses

LEMMA KernelIsAnswered ==
    ASSUME NEW ip \in IpAddresses, ip.v = 4
    PROVE  sockaddr_to_rs_addr(KernelSockaddr(ip)) = ip
  <1> DEFINE sa == KernelSockaddr(ip)
  <1>1. ip \in [v : {4}, octets : [1..4 -> 0..255]]
    BY DEF IpAddresses
  <1>2. sa[1] = 2 /\ sa[2] = 0 /\ \A k \in 1..4 : sa[k + 4] = ip.octets[k]
    BY <1>1 DEF KernelSockaddr, Zeros, AF_INET
  <1> HIDE DEF sa
  <1>3. SubSeq(sa, 5, 8) = ip.octets
    BY <1>1, <1>2
  <1>4. sockaddr_to_rs_addr(sa) = [v |-> 4, octets |-> ip.octets]
    <2>1. Family(sa) = AF_INET
      BY <1>2 DEF Family, AF_INET
    <2>2. QED
      BY <1>3, <2>1 DEF sockaddr_to_rs_addr, AF_INET, AF_INET6
  <1>5. QED
    BY <1>1, <1>4 DEF sa

-----------------------------------------------------------------------------
(* Until the first call, the device has its configuration, and the copy of the  *)
(* MTU.                                                                         *)
Given(o) == config.opts[o] # Unset
Created  == stage \in {"configure", "live"} /\ config # Unset

ConfigInv ==
    Created =>
        /\ config \in Configs /\ ~Panics(config.opts)
        /\ Given("mtu") => mtu = config.opts.mtu
        /\ todo # <<>> => config.root

(* The options that the interface keeps once they are set: a new mask may change *)
(* the broadcast address of an L2 interface.                                     *)
Lasting == Options \ (IF config.layer = "L2" /\ Given("mask") THEN {"brd"} ELSE {})

Pending(o) == \E i \in 1..Len(todo) : todo[i][1] = o

Settled(i, o) ==
    IF o \in IpOptions
    THEN i.addr # Unset /\ i[o] = IntoAddress(config.opts[o]) /\ i[o].v = 4
    ELSE i[o] = config.opts[o]

(* The setters that configure has still to call are those of options that were *)
(* given; the address, which resets others, goes before them all, and an       *)
(* option whose setter has returned is on the interface.                       *)
PlanInv ==
    platform = "linux" /\ Created /\ config.root =>
        /\ \A i \in 1..Len(todo) :
              /\ todo[i][1] \in Options /\ Given(todo[i][1])
              /\ todo[i][2] = Setting(todo[i][1], config.opts[todo[i][1]])
        /\ \A i \in 2..Len(todo) : todo[i][1] # "addr"
        /\ Pending("addr") => \A o \in Options : Given(o) => Pending(o)
        /\ ~renamed =>
              /\ ifaces[name].layer = config.layer
              /\ \A o \in Lasting : Given(o) => Pending(o) \/ Settled(ifaces[name], o)

SettingInv == ConfigInv /\ PlanInv

LEMMA GivenIs ==
    ASSUME ConfigInv, Created, NEW o \in IpOptions, Given(o)
    PROVE  config.opts[o] \in AddressInputs /\ IntoAddress(config.opts[o]) # Unset
  <1>1. config \in Configs /\ ~Panics(config.opts)
    BY DEF ConfigInv
  <1>2. config.opts \in OptionSets
    BY <1>1 DEF Configs
  <1>3. config.opts[o] \in Inputs[o] \cup {Unset}
    BY <1>2 DEF OptionSets, IpOptions
  <1>4. QED
    BY <1>1, <1>3, InputsAssumption DEF Panics, Given

(* The address that was given, once it is set, is what the getters answer. *)
LEMMA SettledIsMeant ==
    ASSUME TypeOK, KernelInv, ConfigInv, Created, name \in Names, ifaces[name] # Absent,
           NEW o \in IpOptions, Given(o), Settled(ifaces[name], o)
    PROVE  IsMeant(config.opts[o], Answer(o))
  <1> DEFINE x == config.opts[o]
             ip == ifaces[name][o]
  <1>1. x \in AddressInputs /\ IntoAddress(x) # Unset
    BY GivenIs
  <1>2. IntoAddress(x) \in IpAddresses /\ IsMeant(x, IntoAddress(x))
    BY <1>1, InputIsMeant
  <1>3. ip = IntoAddress(x) /\ ip.v = 4 /\ ifaces[name].addr # Unset
    BY DEF Settled
  <1>4. Answer(o) = sockaddr_to_rs_addr(KernelSockaddr(ip))
    BY <1>3 DEF Answer
  <1> HIDE DEF x, ip
  <1>5. Answer(o) = ip
    BY <1>2, <1>3, <1>4, KernelIsAnswered
  <1>6. QED
    BY <1>2, <1>3, <1>5 DEF x

(* An ioctl sets its option and, but for the address and for the mask of an L2 *)
(* interface, no other.                                                        *)
LEMMA ApplySets ==
    ASSUME NEW i, IsInterface(i), NEW o \in Options, NEW v, Accepts(i, o, v),
           o \in IpOptions => InAddr(v) # Unset
    PROVE  LET j == Apply(i, o, v)
           IN  /\ j.layer = i.layer
               /\ o \in IpOptions => j.addr # Unset /\ j[o] = InAddr(v)
               /\ o \notin IpOptions => j[o] = v
               /\ \A p \in Options \ {o} :
                     o # "addr" /\ (o = "mask" => i.layer = "L3" \/ p # "brd") => j[p] = i[p]
  <1> DEFINE a == InAddr(v)
             j == Apply(i, o, v)
             Sets1(k) == /\ k.layer = i.layer
                         /\ o \in IpOptions => k.addr # Unset /\ k[o] = a
                         /\ o \notin IpOptions => k[o] = v
                         /\ \A p \in Options \ {o} :
                               o # "addr" /\ (o = "mask" => i.layer = "L3" \/ p # "brd")
                                   => k[p] = i[p]
  <1> USE DEF IsInterface, Options, IpOptions
  <1>1. CASE o \in {"up", "mtu"}
    <2>1. j = [i EXCEPT ![o] = v]
      BY <1>1 DEF Apply
    <2>2. QED
      BY <1>1, <2>1
  <1>2. CASE o = "addr"
    <2>1. CASE i.addr # a
      <3> DEFINE mask == IF i.layer = "L3" THEN Host ELSE ClassMask(a)
                 h == [i EXCEPT !.addr = a, !.dst = a, !.mask = mask]
      <3>1. j = [h EXCEPT !["brd"] = Derived(h, h.mask)]
        BY <1>2, <2>1 DEF Apply
      <3> HIDE DEF mask
      <3>2. h.layer = i.layer /\ h.addr = a /\ DOMAIN h = DOMAIN i
        OBVIOUS
      <3> HIDE DEF h
      <3>3. j.layer = i.layer /\ j.addr = a
        BY <3>1, <3>2
      <3>4. QED
        BY <1>2, <3>3
    <2>2. CASE i.addr = a
      <3>1. j = [i EXCEPT !["addr"] = a]
        BY <1>2, <2>2 DEF Apply
      <3>2. QED
        BY <1>2, <3>1
    <2>3. QED
      BY <2>1, <2>2
  <1>3. CASE o = "mask"
    <2>1. i.addr # Unset
      BY <1>3 DEF Accepts
    <2>2. CASE i.layer = "L2" /\ i.brd = Derived(i, i.mask)
      <3>1. j = [i EXCEPT !.mask = a, !.brd = Derived(i, a)]
        BY <1>3, <2>2 DEF Apply
      <3>2. QED
        BY <1>3, <2>1, <2>2, <3>1
    <2>3. CASE ~(i.layer = "L2" /\ i.brd = Derived(i, i.mask))
      <3>1. j = [i EXCEPT !["mask"] = a]
        BY <1>3, <2>3 DEF Apply
      <3>2. QED
        BY <1>3, <2>1, <3>1
    <2>4. QED
      BY <2>2, <2>3
  <1>4. CASE o \in {"dst", "brd"}
    <2>1. i.addr # Unset
      BY <1>4 DEF Accepts
    <2>2. j = [i EXCEPT ![o] = a]
      BY <1>4 DEF Apply
    <2>3. QED
      BY <1>4, <2>1, <2>2
  <1>5. QED
    BY <1>1, <1>2, <1>3, <1>4

(* The setters that remain after a step of configure. *)
LEMMA TodoTail ==
    ASSUME todo \in Seq(Requests), todo # <<>>, todo' = Tail(todo)
    PROVE  /\ Len(todo) \in Nat /\ Len(todo') = Len(todo) - 1 /\ 1 \in 1..Len(todo)
           /\ todo[1] = Head(todo)
           /\ \A k \in 1..Len(todo') : k + 1 \in 2..Len(todo) /\ todo'[k] = todo[k + 1]
           /\ \A k \in 2..Len(todo) : k - 1 \in 1..Len(todo') /\ todo'[k - 1] = todo[k]
           /\ \A o : Pending(o) => Pending(o)' \/ o = Head(todo)[1]
  <1>1. /\ Len(todo) \in Nat \ {0} /\ todo[1] = Head(todo) /\ Len(todo') = Len(todo) - 1
        /\ \A k \in 1..Len(todo') : todo'[k] = todo[k + 1]
    BY HeadTailProperties
  <1>2. \A k \in 2..Len(todo) : k - 1 \in 1..Len(todo') /\ todo'[k - 1] = todo[k]
    BY <1>1
  <1>3. ASSUME NEW o, Pending(o), o # Head(todo)[1]
        PROVE  Pending(o)'
    <2>1. PICK k \in 1..Len(todo) : todo[k][1] = o
      BY <1>3 DEF Pending
    <2>2. k \in 2..Len(todo)
      BY <1>1, <1>3, <2>1
    <2>3. QED
      BY <1>2, <2>1, <2>2 DEF Pending
  <1>4. QED
    BY <1>1, <1>2, <1>3

(* A setter that configure calls puts the option on the interface, and disturbs *)
(* none that was put there before.                                              *)
LEMMA StepSettles ==
    ASSUME IInv, SettingInv, ConfigureStep
    PROVE  SettingInv'
  <1> DEFINE o == Head(todo)[1]
             v == Head(todo)[2]
             i == ifaces[name]
             j == ifaces'[name]
  <1>1. /\ TypeOK /\ KernelInv /\ NameInv /\ TodoInv /\ ConfigInv /\ PlanInv
        /\ todo \in Seq(Requests)
    BY DEF IInv, SettingInv, TypeOK
  <1>2. /\ todo # <<>> /\ todo' = Tail(todo) /\ Sets(o, v)
        /\ UNCHANGED <<platform, stage, config, name, renamed>>
    BY DEF ConfigureStep
  <1>3. o \in Options /\ (o = "mtu" => v \in Nat)
    BY <1>1, <1>2, HeadIs
  <1>4. stage = "configure" /\ platform = "linux"
    BY <1>1, <1>2 DEF TodoInv
  <1>5. /\ name \in Names /\ i # Absent /\ Accepts(i, o, Request(o, v))
        /\ j = Apply(i, o, Request(o, v)) /\ mtu' = IF o = "mtu" THEN v ELSE mtu
    BY <1>1, <1>2 DEF Sets, KernelInv
  <1>6. IsInterface(i)
    BY <1>1, <1>5 DEF KernelInv
  <1>7. Len(todo) \in Nat /\ 1 \in 1..Len(todo) /\ todo[1] = Head(todo)
    BY <1>1, <1>2, TodoTail
  <1> SUFFICES ASSUME Created PROVE SettingInv'
    BY <1>2 DEF SettingInv, ConfigInv, PlanInv, Created
  <1>8. config.root
    BY <1>1, <1>2 DEF ConfigInv
  <1>9. Given(o) /\ v = Setting(o, config.opts[o])
    BY <1>1, <1>4, <1>7, <1>8 DEF PlanInv
  <1>10. ConfigInv'
    <2>1. o = "mtu" => v = config.opts.mtu
      BY <1>9 DEF Setting, IpOptions
    <2>2. QED
      BY <1>1, <1>2, <1>5, <1>8, <2>1 DEF ConfigInv, Created, Given
  <1>11. /\ o \in IpOptions => /\ InAddr(Request(o, v)) = IntoAddress(config.opts[o])
                               /\ IntoAddress(config.opts[o]).v = 4
                               /\ IntoAddress(config.opts[o]) # Unset
         /\ o \notin IpOptions => Request(o, v) = config.opts[o]
    <2> DEFINE ip == IntoAddress(config.opts[o])
    <2>1. CASE o \in IpOptions
      <3>1. ip \in IpAddresses /\ ip # Unset
        BY <1>1, <1>9, <2>1, GivenIs, InputIsMeant
      <3>2. Request(o, v) = Sent(ip)
        BY <1>9, <2>1 DEF Request, Setting, Sent
      <3>3. Family(Request(o, v)) = AF_INET
        BY <1>5, <2>1 DEF Accepts, IpOptions
      <3> HIDE DEF ip
      <3>4. ip.v = 4 /\ InAddr(Request(o, v)) = ip
        BY <3>1, <3>2, <3>3, SentIsRead
      <3>5. QED
        BY <2>1, <3>1, <3>4 DEF ip
    <2>2. CASE o \notin IpOptions
      BY <1>9, <2>2 DEF Request, Setting
    <2>3. QED
      BY <2>1, <2>2
  <1>12. /\ j.layer = i.layer
         /\ o \in IpOptions => j.addr # Unset /\ j[o] = InAddr(Request(o, v))
         /\ o \notin IpOptions => j[o] = Request(o, v)
         /\ \A p \in Options \ {o} :
               o # "addr" /\ (o = "mask" => i.layer = "L3" \/ p # "brd") => j[p] = i[p]
    <2>1. o \in IpOptions => InAddr(Request(o, v)) # Unset
      BY <1>11
    <2>2. QED
      BY <1>3, <1>5, <1>6, <2>1, ApplySets
  <1>13. Settled(j, o)
    BY <1>11, <1>12 DEF Settled
  <1>14. /\ \A k \in 1..Len(todo') : k + 1 \in 2..Len(todo) /\ todo'[k] = todo[k + 1]
         /\ \A p : Pending(p) => Pending(p)' \/ p = o
    BY <1>1, <1>2, TodoTail
  <1>15. \A k \in 1..Len(todo') :
           /\ todo'[k][1] \in Options \ {"addr"} /\ Given(todo'[k][1])
           /\ todo'[k][2] = Setting(todo'[k][1], config.opts[todo'[k][1]])
    <2> TAKE k \in 1..Len(todo')
    <2>1. k + 1 \in 2..Len(todo) /\ k + 1 \in 1..Len(todo) /\ todo'[k] = todo[k + 1]
      BY <1>7, <1>14
    <2>2. QED
      BY <1>1, <1>4, <1>8, <2>1 DEF PlanInv
  <1>16. ASSUME ~renamed
         PROVE  /\ j.layer = config.layer
                /\ \A p \in Lasting : Given(p) => Pending(p)' \/ Settled(j, p)
    <2>1. /\ i.layer = config.layer
          /\ \A p \in Lasting : Given(p) => Pending(p) \/ Settled(i, p)
          /\ Pending("addr") => \A p \in Options : Given(p) => Pending(p)
      BY <1>1, <1>4, <1>8, <1>16 DEF PlanInv
    <2>2. ASSUME NEW p \in Lasting, Given(p), ~Pending(p)', p # o
          PROVE  Settled(j, p)
      <3>1. ~Pending(p) /\ p \in Options /\ Settled(i, p)
        BY <1>14, <2>1, <2>2 DEF Lasting
      <3>2. Pending(o)
        BY <1>7 DEF Pending
      <3>3. o # "addr"
        BY <2>1, <2>2, <3>1, <3>2
      <3>4. o = "mask" => i.layer = "L3" \/ p # "brd"
        BY <1>1, <1>9, <2>1, <2>2 DEF Lasting, ConfigInv, Configs
      <3>5. j[p] = i[p]
        BY <1>12, <2>2, <3>1, <3>3, <3>4
      <3>6. j.addr = i.addr
        BY <1>12, <3>3 DEF Options, IpOptions
      <3>7. QED
        BY <3>1, <3>5, <3>6 DEF Settled
    <2>3. QED
      BY <1>12, <1>13, <2>1, <2>2
  <1>17. PlanInv'
    <2>1. ~Pending("addr")'
      BY <1>15 DEF Pending
    <2>2. \A k \in 2..Len(todo') : todo'[k][1] # "addr"
      <3>1. \A k \in 2..Len(todo') : k \in 1..Len(todo')
        BY <1>1, <1>2, TodoTail
      <3>2. QED
        BY <1>15, <3>1
    <2>3. \A p : (Given(p)' <=> Given(p)) /\ (Settled(ifaces[name], p)' <=> Settled(j, p))
      BY <1>2 DEF Given, Settled
    <2>4. Lasting' = Lasting
      BY <1>2 DEF Lasting, Given
    <2>5. QED
      BY <1>2, <1>15, <1>16, <2>1, <2>2, <2>3, <2>4 DEF PlanInv, Given, Settled
  <1>18. QED
    BY <1>10, <1>17 DEF SettingInv

(* A device that has been opened has all its setters to call. *)
LEMMA OpenSettles ==
    ASSUME IInv, Open
    PROVE  SettingInv'
  <1>1. /\ KernelInv /\ config \in Configs /\ config.opts \in OptionSets
        /\ config' = config /\ platform' = platform /\ ~Panics(config.opts)
        /\ mtu' = MtuOf(config.opts)
        /\ todo' = IF config.root THEN Plan(config.opts) ELSE <<>>
    BY DEF IInv, OneInv, Open, Configs
  <1>2. ConfigInv'
    BY <1>1 DEF ConfigInv, Created, Given, MtuOf
  <1>3. ifaces'[name'].layer = config.layer
    <2>1. PICK n \in Names :
             /\ \/ n \in Free /\ ifaces' = [ifaces EXCEPT ![n] = Fresh("mine", config.layer)]
                \/ /\ n \notin Free /\ ifaces[n].layer = config.layer
                   /\ ifaces' = [ifaces EXCEPT ![n].owner = "mine"]
             /\ name' = n
      BY DEF Open, Free
    <2>2. CASE ifaces' = [ifaces EXCEPT ![n] = Fresh("mine", config.layer)]
      BY <1>1, <2>1, <2>2 DEF KernelInv, Fresh
    <2>3. CASE /\ n \notin Free /\ ifaces[n].layer = config.layer
               /\ ifaces' = [ifaces EXCEPT ![n].owner = "mine"]
      <3>1. IsInterface(ifaces[n])
        BY <1>1, <2>3 DEF KernelInv, Free
      <3>2. ifaces'[n] = [ifaces[n] EXCEPT !.owner = "mine"]
        BY <1>1, <2>3 DEF KernelInv
      <3>3. QED
        BY <2>1, <2>3, <3>1, <3>2 DEF IsInterface
    <2>4. QED
      BY <2>1, <2>2, <2>3
  <1>4. PlanInv'
    <2> SUFFICES ASSUME config.root PROVE PlanInv'
      BY <1>1 DEF PlanInv
    <2>1. Asks(config.opts, todo', Options)
      BY <1>1, PlanAsks
    <2>2. \A o \in Options : Given(o) => Pending(o)'
      BY <2>1 DEF Asks, Given, Pending
    <2>3. /\ \A k \in 1..Len(todo') :
                /\ todo'[k][1] \in Options /\ Given(todo'[k][1])
                /\ todo'[k][2] = Setting(todo'[k][1], config.opts[todo'[k][1]])
          /\ \A k \in 2..Len(todo') : todo'[k][1] # "addr"
      BY <2>1 DEF Asks, Given
    <2>4. Lasting' \subseteq Options
      BY DEF Lasting
    <2>5. QED
      BY <1>1, <1>3, <2>2, <2>3, <2>4 DEF PlanInv, Given
  <1>5. QED
    BY <1>2, <1>4 DEF SettingInv

LEMMA NextSetting ==
    ASSUME IInv, SettingInv, [Next]_vars
    PROVE  SettingInv'
  <1>1. /\ TypeOK /\ KernelInv /\ OneInv /\ TodoInv /\ NameInv
        /\ ConfigInv /\ PlanInv
    BY DEF IInv, SettingInv
  <1>2. ASSUME ~Created'
        PROVE  SettingInv'
    BY <1>2 DEF SettingInv, ConfigInv, PlanInv
  <1>3. ASSUME UNCHANGED <<platform, config, todo, name, mtu>>, Created' => Created,
               ~renamed' => ~renamed,
               platform = "linux" /\ Created /\ ~renamed' =>
                   /\ ifaces'[name].layer = ifaces[name].layer
                   /\ \A o \in Options : ifaces'[name][o] = ifaces[name][o]
        PROVE  SettingInv'
    <2>1. CASE ~Created'
      BY <1>2, <2>1
    <2>2. CASE Created'
      <3>1. Created
        BY <1>3, <2>2
      <3>2. ConfigInv'
        BY <1>1, <1>3, <3>1 DEF ConfigInv, Given
      <3>3. ASSUME platform = "linux", ~renamed'
            PROVE  \A o \in Options : Settled(ifaces[name], o)' <=> Settled(ifaces[name], o)
        BY <1>3, <3>1, <3>3 DEF Settled, Options, IpOptions
      <3>4. PlanInv'
        <4> SUFFICES ASSUME platform = "linux", config.root PROVE PlanInv'
          BY <1>3 DEF PlanInv
        <4>1. /\ Lasting' = Lasting /\ Lasting \subseteq Options
              /\ \A o : (Given(o)' <=> Given(o)) /\ (Pending(o)' <=> Pending(o))
          BY <1>3 DEF Lasting, Given, Pending
        <4>2. ~renamed' =>
                  /\ ifaces'[name'].layer = config'.layer
                  /\ \A o \in Lasting' : Given(o)' => Pending(o)' \/ Settled(ifaces[name], o)'
          BY <1>1, <1>3, <3>1, <3>3, <4>1 DEF PlanInv
        <4>3. QED
          BY <1>1, <1>3, <3>1, <4>1, <4>2 DEF PlanInv
      <3>5. QED
        BY <3>2, <3>4 DEF SettingInv
    <2>3. QED
      BY <2>1, <2>2
  <1>4. CASE NewFails \/ ConfigureFails \/ Drop
    BY <1>2, <1>4 DEF NewFails, ConfigureFails, Drop, Created
  <1>5. CASE Open
    BY <1>5, OpenSettles
  <1>6. CASE ConfigureStep
    BY <1>6, StepSettles
  <1>7. CASE SetQdisc
    <2>1. ASSUME platform = "linux", ~renamed
          PROVE  /\ ifaces'[name].layer = ifaces[name].layer
                 /\ \A o \in Options : ifaces'[name][o] = ifaces[name][o]
      <3>1. name \in Names /\ ifaces[name].owner = "mine"
        BY <1>1, <1>7, <2>1 DEF NameInv, SetQdisc, Mine
      <3>2. IsInterface(ifaces[name]) /\ ifaces[name] # Absent
        BY <1>1, <3>1, AbsentIs DEF KernelInv
      <3>3. \/ ifaces' = ifaces
            \/ ifaces'[name] = [ifaces[name] EXCEPT !.qdisc = "pfifo_fast"]
        BY <1>1, <1>7, <3>1, <3>2 DEF SetQdisc, KernelInv
      <3>4. QED
        BY <3>2, <3>3 DEF IsInterface, Options, IpOptions
    <2>2. UNCHANGED <<platform, config, todo, name, mtu, renamed>> /\ (Created' => Created)
      BY <1>7 DEF SetQdisc, Created
    <2>3. QED
      BY <1>3, <2>1, <2>2
  <1>8. CASE Adopt
    <2>1. ConfigInv'
      BY <1>1, <1>8 DEF Adopt, OneInv, TodoInv, ConfigInv, Created, Given, MtuOf
    <2>2. PlanInv'
      BY <1>8 DEF Adopt, PlanInv
    <2>3. QED
      BY <2>1, <2>2 DEF SettingInv
  <1>9. ASSUME NEW call \in Values, Set(call[1], call[2])
        PROVE  SettingInv'
    BY <1>2, <1>9 DEF Set, Called, Created
  <1>10. ASSUME NEW n \in Names \cup {LongName}, SetTunName(n)
         PROVE  SettingInv'
    BY <1>2, <1>10 DEF SetTunName, Called, Created
  <1>11. ASSUME NEW what, Hold(what)
         PROVE  SettingInv'
    BY <1>2, <1>11 DEF Hold, Called, Created
  <1>12. ASSUME NEW from \in Names, NEW to \in Names, OutsideRename(from, to)
         PROVE  SettingInv'
    <2>1. /\ Renames(from, to) /\ renamed' = (renamed \/ from \in Mine)
          /\ UNCHANGED <<platform, stage, config, todo, name, mtu>>
          /\ stage \in {"configure", "live"}
      BY <1>12 DEF OutsideRename
    <2>2. ASSUME platform = "linux", ~renamed'
          PROVE  ifaces'[name] = ifaces[name]
      <3>1. name \in Names /\ Mine = {name} /\ from # name
        BY <1>1, <2>1, <2>2 DEF NameInv
      <3>2. ifaces[name] # Absent
        BY <3>1, AbsentIs DEF Mine
      <3>3. QED
        BY <1>1, <2>1, <3>1, <3>2, RenamesKeeps
    <2>3. QED
      BY <1>3, <2>1, <2>2 DEF Created
  <1>13. CASE UNCHANGED vars
    BY <1>3, <1>13 DEF vars, Created
  <1>14. QED
    BY <1>4, <1>5, <1>6, <1>7, <1>8, <1>9, <1>10, <1>11, <1>12, <1>13 DEF Next

(* A device that has been created answers each option that its configuration    *)
(* gave, whatever was on the interface before, until its first call: its        *)
(* address first, so that it resets none of the others.                         *)
THEOREM NewDeviceSafety == Spec => []NewDeviceAnswersItsOptions
  <1>1. Init => SettingInv
    BY DEF Init, SettingInv, ConfigInv, PlanInv, Created
  <1>2. IInv /\ SettingInv /\ [Next]_vars => SettingInv'
    BY NextSetting
  <1>3. IInv /\ SettingInv => NewDeviceAnswersItsOptions
    <2> SUFFICES ASSUME IInv, SettingInv, stage = "live", config # Unset, config.root, ~renamed
                 PROVE  /\ Given("mtu") => mtu = config.opts.mtu
                        /\ platform = "linux" =>
                              /\ \A o \in IpOptions :
                                    /\ o # "brd" \/ config.layer = "L3" \/ ~Given("mask")
                                    /\ Given(o)
                                    => IsMeant(config.opts[o], Answer(o))
                              /\ \A o \in {"mtu", "up"} :
                                    Given(o) => ifaces[name][o] = config.opts[o]
      BY DEF NewDeviceAnswersItsOptions, Given
    <2>1. /\ TypeOK /\ KernelInv /\ TodoInv /\ NameInv /\ ConfigInv /\ PlanInv /\ Created
      BY DEF IInv, SettingInv, Created
    <2>2. Given("mtu") => mtu = config.opts.mtu
      BY <2>1 DEF ConfigInv
    <2>3. ASSUME platform = "linux"
          PROVE  /\ name \in Names /\ ifaces[name] # Absent
                 /\ \A o \in Lasting : Given(o) => Settled(ifaces[name], o)
      <3>1. name \in Names /\ ifaces[name].owner = "mine"
        BY <2>1, <2>3 DEF NameInv, Mine
      <3>2. todo = <<>>
        BY <2>1 DEF TodoInv
      <3>3. \A o : ~Pending(o)
        BY <3>2 DEF Pending
      <3>4. QED
        BY <2>1, <2>3, <3>1, <3>3, AbsentIs DEF PlanInv
    <2>4. ASSUME platform = "linux", NEW o \in IpOptions, Given(o),
                 o # "brd" \/ config.layer = "L3" \/ ~Given("mask")
          PROVE  IsMeant(config.opts[o], Answer(o))
      <3>1. o \in Lasting
        BY <2>4 DEF Lasting, Options
      <3>2. QED
        BY <2>1, <2>3, <2>4, <3>1, SettledIsMeant
    <2>5. ASSUME platform = "linux", NEW o \in {"mtu", "up"}, Given(o)
          PROVE  ifaces[name][o] = config.opts[o]
      <3>1. o \in Lasting /\ o \notin IpOptions
        BY <2>5 DEF Lasting, Options, IpOptions
      <3>2. QED
        BY <2>3, <2>5, <3>1 DEF Settled
    <2>6. QED
      BY <2>2, <2>4, <2>5
  <1>4. QED
    BY <1>1, <1>2, <1>3, Invariance, PTL DEF Spec

=============================================================================
