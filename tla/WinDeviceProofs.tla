--------------------------- MODULE WinDeviceProofs ---------------------------
(***************************************************************************)
(* Theorems about WinDevice, for all addresses, names and numbers of       *)
(* calls.                                                                  *)
(***************************************************************************)
EXTENDS WinDevice, SequenceTheorems, FiniteSetTheorems, TLAPS

(* The handles that are open at each stage of Device::new. *)
HeldInv ==
    /\ stage \in {"path", "verify", "query"} => held = {}
    /\ stage = "close" => held = {"trust"}
    /\ stage \in {"info", "cert", "load"} => held = {"store", "msg"}
    /\ stage = "name" => held = {"store", "msg", "cert"}
    /\ stage = "open" => held = {"store", "msg", "library"}
    /\ stage \in {"address", "start"} => held = {"store", "msg", "library", "adapter"}
    /\ stage \in {"configured", "configure", "live"} =>
          held = {"store", "msg", "library", "adapter", "session"}
    /\ stage = "gone" => held \subseteq {"store", "msg", "cert"} /\ (signer # Unset => "cert" \notin held)

(* The signer is known from the comparison on, and the adapter comes after. *)
Unread == {"path", "verify", "close", "query", "info", "cert", "name"}
Before == Unread \cup {"load", "open"}

SignerInv == stage \in Unread => signer = Unset

(* The device has the one adapter that it holds. *)
MineInv ==
    IF "adapter" \in held THEN \E m \in Names : Mine = {m} ELSE Mine = {}

(* One of the two files is checked, and it is the provider's from the       *)
(* comparison of the names on.                                              *)
CheckedInv ==
    /\ stage \notin {"path", "gone"} => checked \in {"library", "program"}
    /\ stage \notin Unread \cup {"gone"} => IsProvider(CheckedFile)

(* The setters that remain are of options that were given, and the adapter has *)
(* what the first configuration and the setters already called have set.       *)
Elements(s) == {s[k] : k \in DOMAIN s}
Rest == Elements(todo)

Done(o) == named[1] \/ (named[2] /\ o \notin Rest)

AddressesInv ==
    /\ stage \in Before \cup {"address"} => named = <<>> /\ todo = <<>>
    /\ stage \in {"start", "configured"} => Len(named) = 1 /\ todo = <<>>
    /\ stage \in {"configure", "live"} => Len(named) = 2
    /\ stage = "live" => todo = <<>>
    /\ \A o \in Rest : config[o] # Unset
    /\ ~config.skip_config =>
          /\ stage \in {"start", "configured"} /\ named[1] =>
                \A o \in Options : MyAdapter[o] = Tuple(config)[o]
          /\ stage = "configure" \/ (stage = "live" /\ calls = 0) =>
                \A o \in Options :
                    /\ config[o] # Unset /\ Done(o) => MyAdapter[o] = config[o]
                    /\ config[o] = Unset /\ named[1] => MyAdapter[o] = Tuple(config)[o]

IInv == TypeOK /\ HeldInv /\ SignerInv /\ MineInv /\ CheckedInv /\ AddressesInv

-----------------------------------------------------------------------------
(* The handles *)

LEMMA NextHeld == HeldInv /\ SignerInv /\ [Next]_vars => HeldInv' /\ SignerInv'
  <1> SUFFICES ASSUME HeldInv, SignerInv, [Next]_vars
               PROVE  HeldInv' /\ SignerInv'
    OBVIOUS
  <1> USE DEF HeldInv, SignerInv, Before, Unread, checks
  <1>1. CASE ResolvePath \/ VerifySignature
    BY <1>1 DEF ResolvePath, VerifySignature, Goes
  <1>2. CASE CloseState
    BY <1>2 DEF CloseState, Goes
  <1>3. CASE QueryObject \/ SignerInfo \/ FindCertificate
    BY <1>3 DEF QueryObject, SignerInfo, FindCertificate, Goes
  <1>4. CASE SignerName
    BY <1>4 DEF SignerName, FreeCertificate, Goes
  <1>5. CASE LoadLibrary
    BY <1>5 DEF LoadLibrary, Goes
  <1>6. CASE OpenAdapter
    BY <1>6 DEF OpenAdapter
  <1>7. CASE SetAddresses
    BY <1>7 DEF SetAddresses
  <1>8. CASE StartSession
    BY <1>8 DEF StartSession, Goes
  <1>9. CASE BeginConfigure \/ ConfigureStep
    BY <1>9 DEF BeginConfigure, ConfigureStep
  <1>10. CASE Created
    BY <1>10 DEF Created, Goes
  <1>11. ASSUME NEW at \in Stages \ Infallible, Fails(at)
         PROVE  HeldInv' /\ SignerInv'
    <2>1. stage' = "gone" /\ held' = held \cap Signature /\ signer' = signer /\ stage = at
      BY <1>11 DEF Fails, Gone, Unowned
    <2>2. stage \in {"path", "query", "info", "cert", "name", "load", "open", "address", "start",
                    "configure"}
      BY <2>1 DEF Stages, Infallible
    <2>3. held' \subseteq {"store", "msg", "cert"} /\ (stage # "name" => "cert" \notin held')
      BY <2>1, <2>2 DEF Signature
    <2>4. QED
      BY <2>1, <2>3
  <1>12. ASSUME NEW o \in Options, NEW v \in Ip4s \cup {Ip6}, Set(o, v)
         PROVE  HeldInv' /\ SignerInv'
    BY <1>12 DEF Set, Called
  <1>13. ASSUME NEW n \in Names, SetTunName(n)
         PROVE  HeldInv' /\ SignerInv'
    BY <1>13 DEF SetTunName, Called
  <1>14. CASE Drop
    BY <1>14 DEF Drop, Gone, Unowned, Signature
  <1>15. CASE UNCHANGED vars
    BY <1>15 DEF vars
  <1>16. QED
    BY <1>1, <1>2, <1>3, <1>4, <1>5, <1>6, <1>7, <1>8, <1>9, <1>10, <1>11, <1>12, <1>13, <1>14, <1>15
    DEF Next

LEMMA NextChecked == CheckedInv /\ HeldInv /\ [Next]_vars => CheckedInv'
  <1> SUFFICES ASSUME CheckedInv, HeldInv, [Next]_vars
               PROVE  CheckedInv'
    OBVIOUS
  <1> USE DEF CheckedInv, HeldInv, CheckedFile, Unread, input, checks
  <1>1. CASE ResolvePath
    BY <1>1 DEF ResolvePath, Goes
  <1>2. CASE VerifySignature \/ CloseState \/ QueryObject \/ SignerInfo \/ FindCertificate
    BY <1>2 DEF VerifySignature, CloseState, QueryObject, SignerInfo, FindCertificate, Goes
  <1>3. CASE SignerName
    BY <1>3 DEF SignerName, Goes, FreeCertificate
  <1>4. CASE LoadLibrary
    BY <1>4 DEF LoadLibrary, Goes
  <1>5. CASE OpenAdapter
    BY <1>5 DEF OpenAdapter
  <1>6. CASE SetAddresses
    BY <1>6 DEF SetAddresses
  <1>7. CASE StartSession
    BY <1>7 DEF StartSession, Goes
  <1>8. CASE BeginConfigure \/ ConfigureStep
    BY <1>8 DEF BeginConfigure, ConfigureStep
  <1>9. CASE Created
    BY <1>9 DEF Created, Goes
  <1>10. ASSUME NEW at \in Stages \ Infallible, Fails(at)
         PROVE  CheckedInv'
    BY <1>10 DEF Fails, Gone, Unowned, Signature
  <1>11. ASSUME NEW o \in Options, NEW v \in Ip4s \cup {Ip6}, Set(o, v)
         PROVE  CheckedInv'
    BY <1>11 DEF Set, Called
  <1>12. ASSUME NEW n \in Names, SetTunName(n)
         PROVE  CheckedInv'
    BY <1>12 DEF SetTunName, Called
  <1>13. CASE Drop
    BY <1>13 DEF Drop, Gone, Unowned, Signature
  <1>14. CASE UNCHANGED vars
    BY <1>14 DEF vars
  <1>15. QED
    BY <1>1, <1>2, <1>3, <1>4, <1>5, <1>6, <1>7, <1>8, <1>9, <1>10, <1>11, <1>12, <1>13, <1>14 DEF Next

-----------------------------------------------------------------------------
(* The adapter of the device *)

(* A device with one adapter: the adapter that it finds is that one. *)
LEMMA MineIs ==
    ASSUME NEW m \in Names, Mine = {m}
    PROVE  MyAdapter = adapters[m]
  <1>1. (CHOOSE n \in {m} : TRUE) = m
    OBVIOUS
  <1>2. QED
    BY <1>1 DEF MyAdapter

LEMMA MineIsAnAdapter ==
    ASSUME TypeOK, NEW n \in Names
    PROVE  /\ adapters[n] \in {Absent} \cup Adapters
           /\ adapters[n] # Absent => adapters[n] \in Adapters
           /\ n \in Mine => adapters[n] \in Adapters /\ adapters[n] # Absent
  BY DEF TypeOK, Mine, Absent

LEMMA CardMine == MineInv => Cardinality(Mine) = IF "adapter" \in held THEN 1 ELSE 0
  BY FS_Singleton, FS_EmptySet DEF MineInv

(* The options that an adapter can have. *)
Addressed(a) ==
    /\ a.addr \in AddressValues /\ a.dst \in AddressValues /\ a.mask \in AddressValues
    /\ a.addr = Unset => a.mask = Unset /\ a.dst = Unset

(* An adapter that takes over the options of another is an adapter still. *)
LEMMA TakesOptions ==
    ASSUME NEW a \in Adapters, NEW b, Addressed(b)
    PROVE  LET c == [a EXCEPT !.addr = b.addr, !.dst = b.dst, !.mask = b.mask]
           IN  /\ c \in Adapters /\ c.owner = a.owner
               /\ c.addr = b.addr /\ c.dst = b.dst /\ c.mask = b.mask
  BY DEF Adapters, Addressed

(* Only the adapter of the device takes the options, and it keeps its owner. *)
LEMMA WithMineKeeps ==
    ASSUME TypeOK, NEW m \in Names, Mine = {m}, NEW b, Addressed(b), adapters' = WithMine(b)
    PROVE  /\ adapters' \in [Names -> {Absent} \cup Adapters]
           /\ Mine' = {m}
           /\ MyAdapter'.addr = b.addr /\ MyAdapter'.dst = b.dst /\ MyAdapter'.mask = b.mask
  <1> DEFINE c == [adapters[m] EXCEPT !.addr = b.addr, !.dst = b.dst, !.mask = b.mask]
  <1>1. adapters' = [n \in Names |-> IF n = m THEN c ELSE adapters[n]]
    BY DEF WithMine
  <1>2. adapters[m] \in Adapters
    BY MineIsAnAdapter
  <1>3. /\ c \in Adapters /\ c.owner = adapters[m].owner
        /\ c.addr = b.addr /\ c.dst = b.dst /\ c.mask = b.mask
    BY <1>2, TakesOptions
  <1> HIDE DEF c
  <1>4. adapters' \in [Names -> {Absent} \cup Adapters]
    BY <1>1, <1>3 DEF TypeOK
  <1>5. \A n \in Names : adapters'[n].owner = adapters[n].owner
    BY <1>1, <1>3
  <1>6. Mine' = Mine
    BY <1>5 DEF Mine
  <1>7. MyAdapter' = adapters'[m]
    <2>1. (CHOOSE n \in {m} : TRUE) = m
      OBVIOUS
    <2>2. Mine' = {m}
      BY <1>6
    <2>3. QED
      BY <2>1, <2>2 DEF MyAdapter
  <1>8. adapters'[m] = c
    BY <1>1
  <1>9. QED
    BY <1>3, <1>4, <1>6, <1>7, <1>8

(* The address, the mask and the destination of a configuration. *)
LEMMA TupleType == \A c \in Configs : Addressed(Tuple(c))
  BY DefaultsAssumption, UnsetAssumption DEF Addressed, Tuple, Or, Configs, AddressValues

(* A setter sets its option, and the mask to the default when there is none. *)
LEMMA SetsKeeps ==
    ASSUME TypeOK, NEW m \in Names, Mine = {m}, NEW o \in Options, NEW v, Sets(o, v)
    PROVE  /\ adapters' \in [Names -> {Absent} \cup Adapters]
           /\ Mine' = {m}
           /\ MyAdapter'[o] = v
           /\ \A p \in Options \ {o, "mask"} : MyAdapter'[p] = MyAdapter[p]
           /\ o # "mask" => MyAdapter'["mask"] = Or(MyAdapter["mask"], DefaultMask)
  <1> DEFINE a == MyAdapter
             b == [a EXCEPT ![o] = v, !.mask = IF o = "mask" THEN v ELSE Or(@, DefaultMask)]
  <1>1. a \in Adapters
    BY MineIs, MineIsAnAdapter
  <1>2. v \in Ip4s /\ (o # "addr" => a.addr \in Ip4s) /\ adapters' = WithMine(b)
    BY DEF Sets, CanSet
  <1>3. o \in {"addr", "dst", "mask"} /\ DefaultMask \in Ip4s /\ Unset \notin Ip4s
    BY DefaultsAssumption, UnsetAssumption DEF Options
  <1> HIDE DEF a
  <1>4. /\ b.addr = IF o = "addr" THEN v ELSE a.addr
        /\ b.dst = IF o = "dst" THEN v ELSE a.dst
        /\ b.mask = IF o = "mask" THEN v ELSE Or(a.mask, DefaultMask)
    <2>1. CASE o = "addr"
      BY <1>1, <2>1 DEF Adapters
    <2>2. CASE o = "dst"
      BY <1>1, <2>2 DEF Adapters
    <2>3. CASE o = "mask"
      BY <1>1, <2>3 DEF Adapters
    <2>4. QED
      BY <1>3, <2>1, <2>2, <2>3
  <1> HIDE DEF b
  <1>5. Addressed(b)
    BY <1>1, <1>2, <1>3, <1>4 DEF Addressed, Adapters, AddressValues, Or
  <1>6. /\ adapters' \in [Names -> {Absent} \cup Adapters]
        /\ Mine' = {m}
        /\ MyAdapter'.addr = b.addr /\ MyAdapter'.dst = b.dst /\ MyAdapter'.mask = b.mask
    BY <1>2, <1>5, WithMineKeeps
  <1>7. QED
    BY <1>3, <1>4, <1>6 DEF a, Options

(* Whatever becomes of a device that is gone, no adapter is its own. *)
LEMMA GoneKeeps ==
    ASSUME TypeOK, Gone
    PROVE  /\ adapters' \in [Names -> {Absent} \cup Adapters]
           /\ Mine' = {} /\ "adapter" \notin held' /\ held' \in SUBSET Handles
           /\ stage' \in Stages /\ todo' \in Seq(Options)
  <1> DEFINE After(n) == CASE adapters[n].owner = "created" -> Absent
                           [] adapters[n].owner = "opened"  -> [adapters[n] EXCEPT !.owner = "other"]
                           [] OTHER                         -> adapters[n]
  <1>1. adapters' = [n \in Names |-> After(n)]
    BY DEF Gone
  <1>2. ASSUME NEW n \in Names
        PROVE  After(n) \in {Absent} \cup Adapters /\ After(n).owner \notin {"created", "opened"}
    <2>1. CASE adapters[n] = Absent
      BY <2>1 DEF Absent
    <2>2. CASE adapters[n] \in Adapters
      BY <2>2 DEF Adapters, Absent
    <2>3. QED
      BY <2>1, <2>2, MineIsAnAdapter
  <1> HIDE DEF After
  <1>3. adapters' \in [Names -> {Absent} \cup Adapters] /\ Mine' = {}
    BY <1>1, <1>2 DEF Mine
  <1>4. held' = held \cap Signature /\ stage' = "gone" /\ todo' = <<>>
    BY DEF Gone, Unowned
  <1>5. <<>> \in Seq(Options)
    BY EmptySeq
  <1>6. QED
    BY <1>3, <1>4, <1>5 DEF TypeOK, Signature, Handles, Stages

(* The device owns the adapter that it opens, or creates. *)
LEMMA OpenKeeps ==
    ASSUME TypeOK, Mine = {}, OpenAdapter
    PROVE  /\ adapters' \in [Names -> {Absent} \cup Adapters]
           /\ Mine' = {config.name}
  <1> DEFINE n == config.name
             Own == {"created", "opened"}
  <1>1. n \in Names /\ (Opens(n) \/ Creates(n))
    BY DEF TypeOK, Configs, OpenAdapter
  <1>2. \A k \in Names : adapters[k].owner \notin Own
    BY DEF Mine
  <1> HIDE DEF n
  <1>3. CASE Opens(n)
    <2> DEFINE a == [adapters[n] EXCEPT !.owner = "opened"]
    <2>1. adapters[n] \in Adapters /\ adapters' = [adapters EXCEPT ![n] = a]
      BY <1>1, <1>3, MineIsAnAdapter DEF Opens
    <2>2. a \in Adapters /\ a.owner \in Own
      BY <2>1 DEF Adapters
    <2> HIDE DEF a
    <2>3. adapters' \in [Names -> {Absent} \cup Adapters]
      BY <1>1, <2>1, <2>2 DEF TypeOK
    <2>4. adapters'[n] = a /\ \A k \in Names \ {n} : adapters'[k] = adapters[k]
      BY <1>1, <2>1 DEF TypeOK
    <2>5. QED
      BY <1>1, <1>2, <2>2, <2>3, <2>4 DEF Mine, n
  <1>4. CASE Creates(n)
    <2> DEFINE a == Adapter("created")
    <2>1. PICK to \in Names : adapters' = [adapters EXCEPT ![to] = adapters[n], ![n] = a]
      BY <1>4 DEF Creates
    <2>2. a \in Adapters /\ a.owner \in Own
      BY DEF Adapter, Adapters, AddressValues
    <2> HIDE DEF a
    <2>3. adapters' \in [Names -> {Absent} \cup Adapters]
      BY <1>1, <2>1, <2>2 DEF TypeOK
    <2>4. adapters'[n] = a /\ \A k \in Names \ {n} : adapters'[k] \in {adapters[k], adapters[n]}
      BY <1>1, <2>1 DEF TypeOK
    <2>5. \A k \in Names \ {n} : adapters'[k].owner \notin Own
      BY <1>1, <1>2, <2>4
    <2>6. QED
      BY <1>1, <2>2, <2>3, <2>4, <2>5 DEF Mine, n
  <1>5. QED
    BY <1>1, <1>3, <1>4

(* An adapter that is renamed stays the device's. *)
LEMMA RenameKeeps ==
    ASSUME TypeOK, NEW m \in Names, Mine = {m}, NEW n \in Names, Renames(m, n)
    PROVE  /\ adapters' \in [Names -> {Absent} \cup Adapters]
           /\ Mine' = {n}
  <1>1. /\ n = m \/ adapters[n] = Absent
        /\ adapters' = [k \in Names |-> IF k = n THEN adapters[m]
                                        ELSE IF k = m THEN Absent ELSE adapters[k]]
    BY DEF Renames
  <1>2. adapters' \in [Names -> {Absent} \cup Adapters]
    BY <1>1 DEF TypeOK
  <1>3. adapters[m].owner \in {"created", "opened"}
        /\ \A k \in Names \ {m} : adapters[k].owner \notin {"created", "opened"}
    BY DEF Mine
  <1>4. Absent.owner \notin {"created", "opened"}
    BY DEF Absent
  <1>5. \A k \in Names : adapters'[k].owner \in {"created", "opened"} <=> k = n
    BY <1>1, <1>3, <1>4
  <1>6. QED
    BY <1>2, <1>5 DEF Mine

-----------------------------------------------------------------------------
(* The setters of a configuration *)

LEMMA ConcatElements ==
    ASSUME NEW S, NEW s \in Seq(S), NEW t \in Seq(S)
    PROVE  s \o t \in Seq(S) /\ Elements(s \o t) = Elements(s) \cup Elements(t)
  <1>1. s \o t \in Seq(S) /\ Len(s \o t) = Len(s) + Len(t)
        /\ \A i \in 1..(Len(s) + Len(t)) :
              (s \o t)[i] = IF i <= Len(s) THEN s[i] ELSE t[i - Len(s)]
    BY ConcatProperties
  <1>2. Len(s) \in Nat /\ Len(t) \in Nat
        /\ DOMAIN s = 1..Len(s) /\ DOMAIN t = 1..Len(t) /\ DOMAIN (s \o t) = 1..(Len(s) + Len(t))
    BY <1>1, LenProperties
  <1> DEFINE u == s \o t
  <1>3. \A i \in DOMAIN u : u[i] \in Elements(s) \cup Elements(t)
    BY <1>1, <1>2 DEF Elements
  <1>4. \A i \in DOMAIN s : i \in DOMAIN u /\ u[i] = s[i]
    BY <1>1, <1>2
  <1>5. \A i \in DOMAIN t : i + Len(s) \in DOMAIN u /\ u[i + Len(s)] = t[i]
    BY <1>1, <1>2
  <1> HIDE DEF u
  <1>6. Elements(u) = Elements(s) \cup Elements(t)
    BY <1>3, <1>4, <1>5 DEF Elements
  <1>7. QED
    BY <1>1, <1>6 DEF u

(* configure calls the setters of exactly the options that were given. *)
LEMMA PlanIs ==
    ASSUME NEW c \in Configs
    PROVE  /\ Plan(c) \in Seq(Options)
           /\ Elements(Plan(c)) = {o \in Options : c[o] # Unset}
  <1> DEFINE Given(o) == IF c[o] = Unset THEN <<>> ELSE <<o>>
  <1>1. ASSUME NEW o \in Options
        PROVE  Given(o) \in Seq(Options) /\ Elements(Given(o)) = {p \in {o} : c[p] # Unset}
    <2>1. CASE c[o] = Unset
      BY <2>1, EmptySeq DEF Elements
    <2>2. CASE c[o] # Unset
      BY <2>2 DEF Elements
    <2>3. QED
      BY <2>1, <2>2
  <1>2. "addr" \in Options /\ "dst" \in Options /\ "mask" \in Options
    BY DEF Options
  <1>3. Plan(c) = Given("addr") \o Given("dst") \o Given("mask")
    BY DEF Plan
  <1> DEFINE both == Given("addr") \o Given("dst")
  <1> HIDE DEF Given
  <1>4. both \in Seq(Options) /\ Elements(both) = Elements(Given("addr")) \cup Elements(Given("dst"))
    BY <1>1, <1>2, ConcatElements
  <1>5. Given("mask") \in Seq(Options) /\ Plan(c) = both \o Given("mask")
    BY <1>1, <1>2, <1>3
  <1> HIDE DEF both
  <1>6. /\ Plan(c) \in Seq(Options)
        /\ Elements(Plan(c)) = Elements(both) \cup Elements(Given("mask"))
    BY <1>4, <1>5, ConcatElements
  <1>7. QED
    BY <1>1, <1>2, <1>4, <1>6 DEF Options

(* The setters that are left when the first has been called. *)
LEMMA TailElements ==
    ASSUME NEW S, NEW s \in Seq(S), s # <<>>
    PROVE  /\ Head(s) \in S /\ Tail(s) \in Seq(S)
           /\ Elements(s) = {Head(s)} \cup Elements(Tail(s))
  <1>1. /\ Head(s) \in S /\ Tail(s) \in Seq(S) /\ Head(s) = s[1]
        /\ Len(Tail(s)) = Len(s) - 1 /\ \A i \in 1..(Len(s) - 1) : Tail(s)[i] = s[i + 1]
    BY HeadTailProperties, EmptySeq, LenProperties
  <1>2. Len(s) \in Nat /\ Len(s) > 0 /\ DOMAIN s = 1..Len(s) /\ DOMAIN Tail(s) = 1..(Len(s) - 1)
    BY <1>1, EmptySeq, LenProperties
  <1> DEFINE t == Tail(s)
  <1>3. \A i \in DOMAIN s : s[i] = Head(s) \/ (i - 1 \in DOMAIN t /\ s[i] = t[i - 1])
    BY <1>1, <1>2
  <1>4. 1 \in DOMAIN s /\ s[1] = Head(s) /\ \A i \in DOMAIN t : i + 1 \in DOMAIN s /\ t[i] = s[i + 1]
    BY <1>1, <1>2
  <1> HIDE DEF t
  <1>5. Elements(s) = {Head(s)} \cup Elements(t)
    BY <1>3, <1>4 DEF Elements
  <1>6. QED
    BY <1>1, <1>5 DEF t

-----------------------------------------------------------------------------
(* The invariant *)

LEMMA InitIInv == Init => IInv
  <1> SUFFICES ASSUME Init PROVE IInv
    OBVIOUS
  <1> USE DEF Init
  <1>1. Adapter("other") \in Adapters /\ Adapter("other").owner = "other"
    BY DEF Adapter, Adapters, AddressValues
  <1>2. adapters \in [Names -> {Absent} \cup Adapters]
    BY <1>1
  <1>3. \A n \in Names : adapters[n].owner \notin {"created", "opened"}
    BY <1>1 DEF Absent
  <1>4. Mine = {} /\ MineInv
    BY <1>3 DEF Mine, MineInv
  <1>5. <<>> \in Seq(Options) /\ <<>> \in Seq(BOOLEAN) /\ Elements(<<>>) = {}
    BY EmptySeq DEF Elements
  <1>6. TypeOK
    BY <1>2, <1>4, <1>5, FS_EmptySet DEF TypeOK, Stages
  <1>7. HeldInv /\ SignerInv
    BY DEF HeldInv, SignerInv
  <1>8. CheckedInv
    BY DEF CheckedInv, Unread
  <1>9. AddressesInv
    BY <1>5 DEF AddressesInv, Rest, Before, Unread
  <1>10. QED
    BY <1>4, <1>6, <1>7, <1>8, <1>9 DEF IInv

(* The device has one adapter from OpenAdapter until it is gone. *)
LEMMA NextMine ==
    ASSUME TypeOK, HeldInv, MineInv, [Next]_vars
    PROVE  MineInv' /\ adapters' \in [Names -> {Absent} \cup Adapters]
  <1> DEFINE Good == MineInv' /\ adapters' \in [Names -> {Absent} \cup Adapters]
  <1>1. ASSUME UNCHANGED adapters, "adapter" \in held' <=> "adapter" \in held
        PROVE  Good
    BY <1>1 DEF MineInv, Mine, TypeOK
  <1>2. ASSUME "adapter" \in held
        PROVE  \E m \in Names : Mine = {m}
    BY <1>2 DEF MineInv
  <1>3. CASE ResolvePath \/ VerifySignature \/ CloseState \/ QueryObject \/ SignerInfo \/ FindCertificate
    BY <1>1, <1>3 DEF ResolvePath, VerifySignature, CloseState, QueryObject, SignerInfo,
                      FindCertificate, Goes
  <1>4. CASE SignerName \/ LoadLibrary \/ StartSession \/ Created
    BY <1>1, <1>4 DEF SignerName, LoadLibrary, StartSession, Created, Goes, FreeCertificate
  <1>5. CASE OpenAdapter
    <2>1. Mine = {}
      BY <1>5 DEF OpenAdapter, HeldInv, MineInv
    <2>2. config.name \in Names /\ "adapter" \in held'
      BY <1>5 DEF OpenAdapter, TypeOK, Configs
    <2>3. QED
      BY <1>5, <2>1, <2>2, OpenKeeps DEF MineInv
  <1>6. CASE SetAddresses
    <2>1. CASE UNCHANGED adapters
      BY <1>1, <1>6, <2>1 DEF SetAddresses
    <2>2. CASE adapters' = WithMine(Tuple(config))
      <3>1. "adapter" \in held /\ held' = held
        BY <1>6 DEF SetAddresses, HeldInv
      <3>2. PICK m \in Names : Mine = {m}
        BY <1>2, <3>1
      <3>3. Addressed(Tuple(config))
        BY TupleType DEF TypeOK
      <3>4. Mine' = {m} /\ adapters' \in [Names -> {Absent} \cup Adapters]
        BY <2>2, <3>2, <3>3, WithMineKeeps
      <3>5. QED
        BY <3>1, <3>4 DEF MineInv
    <2>3. QED
      BY <1>6, <2>1, <2>2 DEF SetAddresses
  <1>7. CASE BeginConfigure
    BY <1>1, <1>7 DEF BeginConfigure
  <1>8. ASSUME NEW o \in Options, NEW v, Sets(o, v), held' = held, stage \in {"configure", "live"}
        PROVE  Good
    <2>1. "adapter" \in held
      BY <1>8 DEF HeldInv
    <2>2. PICK m \in Names : Mine = {m}
      BY <1>2, <2>1
    <2>3. Mine' = {m} /\ adapters' \in [Names -> {Absent} \cup Adapters]
      BY <1>8, <2>2, SetsKeeps
    <2>4. QED
      BY <1>8, <2>1, <2>3 DEF MineInv
  <1>9. CASE ConfigureStep
    <2>1. Head(todo) \in Options
      BY <1>9, TailElements DEF ConfigureStep, TypeOK
    <2>2. QED
      BY <1>8, <1>9, <2>1 DEF ConfigureStep
  <1>10. ASSUME NEW at \in Stages \ Infallible, Fails(at)
         PROVE  Good
    BY <1>10, GoneKeeps DEF Fails, MineInv
  <1>11. ASSUME NEW o \in Options, NEW v \in Ip4s \cup {Ip6}, Set(o, v)
         PROVE  Good
    BY <1>1, <1>8, <1>11 DEF Set, Called
  <1>12. ASSUME NEW n \in Names, SetTunName(n)
         PROVE  Good
    <2>1. CASE UNCHANGED adapters
      BY <1>1, <1>12, <2>1 DEF SetTunName
    <2>2. ASSUME NEW from \in Mine, Renames(from, n)
          PROVE  Good
      <3>1. "adapter" \in held /\ held' = held
        BY <1>12 DEF SetTunName, Called, HeldInv
      <3>2. PICK m \in Names : Mine = {m}
        BY <1>2, <3>1
      <3>3. Mine' = {n} /\ adapters' \in [Names -> {Absent} \cup Adapters]
        BY <2>2, <3>2, RenameKeeps
      <3>4. QED
        BY <3>1, <3>3 DEF MineInv
    <2>3. QED
      BY <1>12, <2>1, <2>2 DEF SetTunName
  <1>13. CASE Drop
    BY <1>13, GoneKeeps DEF Drop, MineInv
  <1>14. CASE UNCHANGED vars
    BY <1>1, <1>14 DEF vars
  <1>15. QED
    BY <1>3, <1>4, <1>5, <1>6, <1>7, <1>9, <1>10, <1>11, <1>12, <1>13, <1>14 DEF Next

LEMMA NextTypeOK ==
    ASSUME TypeOK, HeldInv, MineInv, [Next]_vars
    PROVE  TypeOK'
  <1>1. adapters' \in [Names -> {Absent} \cup Adapters]
    BY NextMine
  <1>2. (Cardinality(Mine) = IF "adapter" \in held THEN 1 ELSE 0)'
    <2>1. MineInv'
      BY NextMine
    <2>2. CASE "adapter" \in held'
      BY <2>1, <2>2, FS_Singleton DEF MineInv
    <2>3. CASE "adapter" \notin held'
      BY <2>1, <2>3, FS_EmptySet DEF MineInv
    <2>4. QED
      BY <2>2, <2>3
  <1> DEFINE T == /\ config \in Configs /\ dll \in Files \cup {"missing"} /\ exe \in Files
                  /\ checked \in {"library", "program", Unset} /\ signer \in Signers \cup {Unset}
                  /\ stage \in Stages
                  /\ held \in SUBSET Handles
                  /\ todo \in Seq(Options)
                  /\ name \in Names \cup {Unset}
                  /\ named \in Seq(BOOLEAN) /\ calls \in Nat
  <1>3. T
    BY DEF TypeOK
  <1> SUFFICES T'
    BY <1>1, <1>2 DEF TypeOK
  <1> USE DEF Stages, Handles, Signature, input, checks
  <1>4. CASE ResolvePath \/ VerifySignature \/ CloseState \/ QueryObject \/ SignerInfo \/ FindCertificate
    BY <1>3, <1>4 DEF ResolvePath, VerifySignature, CloseState, QueryObject, SignerInfo,
                      FindCertificate, Goes
  <1>5. CASE SignerName \/ LoadLibrary \/ StartSession \/ Created
    BY <1>3, <1>5 DEF SignerName, LoadLibrary, StartSession, Created, Goes, FreeCertificate,
                      Signer, Signers
  <1>6. CASE OpenAdapter
    BY <1>3, <1>6 DEF OpenAdapter, Configs
  <1>7. CASE SetAddresses
    BY <1>3, <1>7 DEF SetAddresses
  <1>8. CASE BeginConfigure
    <2>1. Plan(config) \in Seq(Options) /\ <<>> \in Seq(Options)
      BY <1>3, PlanIs, EmptySeq
    <2>2. QED
      BY <1>3, <1>8, <2>1 DEF BeginConfigure
  <1>9. CASE ConfigureStep
    BY <1>3, <1>9, TailElements DEF ConfigureStep
  <1>10. ASSUME NEW at \in Stages \ Infallible, Fails(at)
         PROVE  T'
    BY <1>3, <1>10, GoneKeeps DEF Fails
  <1>11. ASSUME NEW o \in Options, NEW v \in Ip4s \cup {Ip6}, Set(o, v)
         PROVE  T'
    BY <1>3, <1>11 DEF Set, Called
  <1>12. ASSUME NEW n \in Names, SetTunName(n)
         PROVE  T'
    BY <1>3, <1>12 DEF SetTunName, Called
  <1>13. CASE Drop
    BY <1>3, <1>13, GoneKeeps DEF Drop
  <1>14. CASE UNCHANGED vars
    BY <1>3, <1>14 DEF vars
  <1>15. QED
    BY <1>4, <1>5, <1>6, <1>7, <1>8, <1>9, <1>10, <1>11, <1>12, <1>13, <1>14 DEF Next

(* The addresses, where they can change: by the tuple, by the setters that are *)
(* still to be called, and by the calls of a live device.                      *)
LEMMA NextAddresses ==
    ASSUME TypeOK, HeldInv, MineInv, AddressesInv, [Next]_vars
    PROVE  AddressesInv'
  <1> USE DEF input, checks
  <1>1. ASSUME "adapter" \in held
        PROVE  \E m \in Names : Mine = {m}
    BY <1>1 DEF MineInv
  <1>2. /\ config \in Configs /\ todo \in Seq(Options) /\ named \in Seq(BOOLEAN) /\ calls \in Nat
        /\ stage \in Stages
    BY DEF TypeOK
  <1>3. ASSUME UNCHANGED <<config, adapters>>
        PROVE  UNCHANGED MyAdapter
    BY <1>3 DEF MyAdapter, Mine
  <1>4. CASE ResolvePath \/ VerifySignature \/ CloseState \/ QueryObject \/ SignerInfo \/ FindCertificate
    BY <1>4, <1>2 DEF ResolvePath, VerifySignature, CloseState, QueryObject, SignerInfo,
                FindCertificate, Goes, AddressesInv, Before, Unread, Rest, Elements
  <1>5. CASE SignerName \/ LoadLibrary
    BY <1>5, <1>2 DEF SignerName, LoadLibrary, Goes, AddressesInv, Before, Unread, Rest, Elements
  <1>6. CASE OpenAdapter
    BY <1>6, <1>2 DEF OpenAdapter, AddressesInv, Before, Unread, Rest, Elements
  <1>7. CASE SetAddresses
    <2>1. named = <<>> /\ todo = <<>> /\ stage' = "start" /\ UNCHANGED <<config, todo>>
      BY <1>7 DEF SetAddresses, AddressesInv
    <2>2. Rest' = {}
      BY <2>1 DEF Rest, Elements
    <2>3. PICK ok \in BOOLEAN :
             /\ named' = Append(named, ok)
             /\ adapters' = IF ok /\ ~config.skip_config THEN WithMine(Tuple(config)) ELSE adapters
      BY <1>7 DEF SetAddresses
    <2>4. Len(named') = 1 /\ named'[1] = ok
      BY <2>1, <2>3
    <2>5. ASSUME ok, ~config.skip_config
          PROVE  \A o \in Options : MyAdapter'[o] = Tuple(config)[o]
      <3>1. PICK m \in Names : Mine = {m}
        BY <1>1, <1>7 DEF SetAddresses, HeldInv
      <3>2. Addressed(Tuple(config))
        BY <1>2, TupleType
      <3>3. /\ MyAdapter'.addr = Tuple(config).addr /\ MyAdapter'.dst = Tuple(config).dst
            /\ MyAdapter'.mask = Tuple(config).mask
        BY <2>3, <2>5, <3>1, <3>2, WithMineKeeps
      <3>4. QED
        BY <3>3 DEF Options
    <2>6. QED
      BY <2>1, <2>2, <2>4, <2>5 DEF AddressesInv, Before, Unread
  <1>8. CASE StartSession
    <2>1. UNCHANGED MyAdapter
      BY <1>3, <1>8 DEF StartSession, Goes
    <2>2. QED
      BY <1>8, <2>1 DEF StartSession, Goes, AddressesInv, Before, Unread, Rest
  <1>9. CASE BeginConfigure
    <2>1. /\ Len(named) = 1 /\ stage = "configured" /\ stage' = "configure"
          /\ UNCHANGED <<config, adapters>>
      BY <1>9 DEF BeginConfigure, AddressesInv
    <2>2. PICK ok \in BOOLEAN :
             /\ named' = Append(named, ok)
             /\ todo' = IF ok /\ ~config.skip_config THEN Plan(config) ELSE <<>>
      BY <1>9 DEF BeginConfigure
    <2>3. Len(named') = 2 /\ named'[1] = named[1] /\ named'[2] = ok
      <3>1. /\ Len(Append(named, ok)) = Len(named) + 1
            /\ \A i \in 1..Len(named) : Append(named, ok)[i] = named[i]
            /\ Append(named, ok)[Len(named) + 1] = ok
        BY <1>2, AppendProperties
      <3>2. 1 \in 1..Len(named) /\ Len(named) + 1 = 2
        BY <2>1
      <3>3. QED
        BY <2>2, <3>1, <3>2
    <2>4. Rest' = IF ok /\ ~config.skip_config THEN {o \in Options : config[o] # Unset} ELSE {}
      <3>1. Elements(<<>>) = {}
        BY DEF Elements
      <3>2. QED
        BY <1>2, <2>2, <3>1, PlanIs DEF Rest
    <2>5. UNCHANGED MyAdapter
      BY <1>3, <2>1
    <2>6. ASSUME NEW o \in Options, ~config.skip_config, config[o] # Unset, Done(o)'
          PROVE  MyAdapter'[o] = config[o]
      <3>1. named[1]
        BY <2>1, <2>3, <2>4, <2>6 DEF Done
      <3>2. MyAdapter[o] = Tuple(config)[o]
        BY <2>1, <2>6, <3>1 DEF AddressesInv
      <3>3. Tuple(config)[o] = config[o]
        BY <2>6 DEF Tuple, Or, Options
      <3>4. QED
        BY <2>5, <3>2, <3>3
    <2>7. ASSUME NEW o \in Options, ~config.skip_config, named'[1]
          PROVE  MyAdapter'[o] = Tuple(config)[o]
      BY <2>1, <2>3, <2>5, <2>7 DEF AddressesInv
    <2>8. QED
      BY <2>1, <2>3, <2>4, <2>6, <2>7 DEF AddressesInv, Before, Unread
  <1>10. CASE ConfigureStep
    <2> DEFINE o == Head(todo)
    <2>1. /\ stage = "configure" /\ stage' = "configure" /\ todo # <<>> /\ todo' = Tail(todo)
          /\ Sets(o, config[o]) /\ UNCHANGED <<config, named, calls, held>>
      BY <1>10 DEF ConfigureStep
    <2>2. o \in Options /\ Rest = {o} \cup Rest'
      BY <1>2, <2>1, TailElements DEF Rest
    <2>3. PICK m \in Names : Mine = {m}
      BY <1>1, <2>1 DEF HeldInv
    <2> HIDE DEF o
    <2>4. /\ MyAdapter'[o] = config[o]
          /\ \A p \in Options \ {o, "mask"} : MyAdapter'[p] = MyAdapter[p]
          /\ o # "mask" => MyAdapter'["mask"] = Or(MyAdapter["mask"], DefaultMask)
      BY <2>1, <2>2, <2>3, SetsKeeps
    <2>5. config[o] # Unset /\ Len(named) = 2
      BY <2>1, <2>2 DEF AddressesInv
    <2>6. ASSUME NEW p \in Options, ~config.skip_config, config[p] # Unset, Done(p)'
          PROVE  MyAdapter'[p] = config[p]
      <3>1. CASE p = o
        BY <2>4, <3>1
      <3>2. CASE p # o
        <4>1. Done(p)
          BY <2>1, <2>2, <2>6, <3>2 DEF Done
        <4>2. MyAdapter[p] = config[p]
          BY <2>1, <2>6, <4>1 DEF AddressesInv
        <4>3. CASE p # "mask"
          BY <2>4, <3>2, <4>2, <4>3
        <4>4. CASE p = "mask"
          BY <2>4, <2>6, <3>2, <4>2, <4>4 DEF Or
        <4>5. QED
          BY <4>3, <4>4
      <3>3. QED
        BY <3>1, <3>2
    <2>7. ASSUME NEW p \in Options, ~config.skip_config, config[p] = Unset, named'[1]
          PROVE  MyAdapter'[p] = Tuple(config)[p]
      <3>1. p # o /\ named[1]
        BY <2>1, <2>5, <2>7
      <3>2. MyAdapter[p] = Tuple(config)[p]
        BY <2>1, <2>7, <3>1 DEF AddressesInv
      <3>3. CASE p # "mask"
        BY <2>4, <3>1, <3>2, <3>3
      <3>4. CASE p = "mask"
        BY <2>4, <2>7, <3>1, <3>2, <3>4 DEF Or, Tuple
      <3>5. QED
        BY <3>3, <3>4
    <2>8. \A p \in Rest' : config[p] # Unset
      BY <2>2 DEF AddressesInv
    <2>9. QED
      BY <2>1, <2>5, <2>6, <2>7, <2>8 DEF AddressesInv, Before, Unread
  <1>11. CASE Created
    <2>1. /\ stage = "configure" /\ stage' = "live" /\ todo = <<>>
          /\ UNCHANGED <<config, adapters, todo, named, calls>>
      BY <1>11 DEF Created, Goes
    <2>2. UNCHANGED MyAdapter
      BY <1>3, <2>1
    <2>3. QED
      BY <2>1, <2>2 DEF AddressesInv, Before, Unread, Rest, Done
  <1>12. ASSUME stage' = "gone", todo' = <<>>
         PROVE  AddressesInv'
    BY <1>12 DEF AddressesInv, Before, Unread, Rest, Elements
  <1>13. ASSUME NEW at \in Stages \ Infallible, Fails(at)
         PROVE  AddressesInv'
    BY <1>12, <1>13 DEF Fails, Gone
  <1>14. CASE Drop
    BY <1>12, <1>14 DEF Drop, Gone
  <1>15. ASSUME stage = "live", calls' = calls + 1, UNCHANGED <<config, stage, todo, named>>
         PROVE  AddressesInv'
    <2>1. calls' # 0
      BY <1>2, <1>15
    <2>2. QED
      BY <1>15, <2>1 DEF AddressesInv, Before, Unread, Rest
  <1>16. ASSUME NEW o \in Options, NEW v \in Ip4s \cup {Ip6}, Set(o, v)
         PROVE  AddressesInv'
    BY <1>15, <1>16 DEF Set, Called
  <1>17. ASSUME NEW n \in Names, SetTunName(n)
         PROVE  AddressesInv'
    BY <1>15, <1>17 DEF SetTunName, Called
  <1>18. CASE UNCHANGED vars
    <2>1. UNCHANGED MyAdapter
      BY <1>3, <1>18 DEF vars
    <2>2. QED
      BY <1>18, <2>1 DEF vars, AddressesInv, Rest, Done
  <1>19. QED
    BY <1>4, <1>5, <1>6, <1>7, <1>8, <1>9, <1>10, <1>11, <1>13, <1>14, <1>16, <1>17, <1>18 DEF Next

THEOREM Invariance == Spec => []IInv
  <1>1. IInv /\ [Next]_vars => IInv'
    BY NextHeld, NextMine, NextChecked, NextTypeOK, NextAddresses DEF IInv
  <1>2. QED
    BY InitIInv, <1>1, PTL DEF Spec

(* Every variable keeps its type, and the device has one adapter while it      *)
(* holds a handle of one, and none otherwise.                                  *)
THEOREM TypeCorrect == Spec => []TypeOK
  <1>1. IInv => TypeOK
    BY DEF IInv
  <1>2. QED
    BY <1>1, Invariance, PTL

(* Whatever call of Windows fails, a device that is gone has left no adapter   *)
(* of its own and no handle but those of the signature that have no owner.     *)
THEOREM SignatureSafety == Spec => []OnlySignatureOutlives
  <1>1. IInv => OnlySignatureOutlives
    <2> SUFFICES ASSUME IInv PROVE OnlySignatureOutlives
      OBVIOUS
    <2>1. stage = "gone" => Mine = {}
      BY DEF IInv, HeldInv, MineInv
    <2>2. QED
      BY <2>1 DEF IInv, HeldInv, OnlySignatureOutlives, Signature
  <1>2. QED
    BY <1>1, Invariance, PTL

(* A program that the provider has not signed only ever uses a library whose   *)
(* own signature was checked and is the provider's, whichever of the two loads *)
(* of it fail.                                                                 *)
THEOREM LibrarySafety == Spec => []LibraryIsTheCheckedFile
  <1>1. IInv => LibraryIsTheCheckedFile
    <2> SUFFICES ASSUME IInv, "library" \in held, Signer(exe) # WINTUN_PROVIDER
                 PROVE  checked = "library" /\ Signer(dll) = WINTUN_PROVIDER
      BY DEF LibraryIsTheCheckedFile
    <2>1. stage \notin Unread \cup {"gone"}
      BY DEF IInv, HeldInv, Unread
    <2>2. checked \in {"library", "program"} /\ Signer(CheckedFile) = WINTUN_PROVIDER
      BY <2>1 DEF IInv, CheckedInv, Unread, IsProvider
    <2>3. checked # "program"
      BY <2>2 DEF CheckedFile
    <2>4. QED
      BY <2>2, <2>3 DEF CheckedFile
  <1>2. QED
    BY <1>1, Invariance, PTL

(* A new device has the addresses of its configuration when either of the two  *)
(* configurations was made, and the defaults when the first was.               *)
THEOREM AddressSafety == Spec => []NewDeviceHasItsAddresses
  <1>1. IInv => NewDeviceHasItsAddresses
    <2> SUFFICES ASSUME IInv, stage = "live", calls = 0, ~config.skip_config, NEW o \in Options
                 PROVE  /\ config[o] # Unset /\ TRUE \in {named[1], named[2]} => MyAdapter[o] = config[o]
                        /\ config[o] = Unset /\ named[1] => MyAdapter[o] = Tuple(config)[o]
      BY DEF NewDeviceHasItsAddresses
    <2>1. Rest = {}
      BY DEF IInv, AddressesInv, Rest, Elements
    <2>2. TRUE \in {named[1], named[2]} => Done(o)
      BY <2>1 DEF Done
    <2>3. QED
      BY <2>2 DEF IInv, AddressesInv
  <1>2. QED
    BY <1>1, Invariance, PTL

=============================================================================
