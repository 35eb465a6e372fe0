------------------------------ MODULE WinDevice ------------------------------
(***************************************************************************)
(* The creation and the setters of the Windows device                      *)
(* (src/src/platform/windows/device.rs), from the signature of the Wintun  *)
(* library (windows/verify_dll_file.rs) on: what each early return leaves  *)
(* behind, and the addresses that two configurations in a row leave.       *)
(*                                                                         *)
(* External: Windows, which may fail every call, whatever an earlier one   *)
(* answered, and the wintun crate: an adapter that it created is removed   *)
(* when it is dropped; set_address, set_gateway and set_netmask read the   *)
(* other two and set all three.                                            *)
(***************************************************************************)
EXTENDS Integers, FiniteSets, Sequences

CONSTANTS
    Ip4s, Ip6,           \* addresses; one that is not IPv4
    Names,               \* names of adapters
    DefaultAddr, DefaultMask,
    Unset,               \* an option not given, an address not set
    MaxCalls             \* bound: calls on a live device

ASSUME DefaultsAssumption == {DefaultAddr, DefaultMask} \subseteq Ip4s /\ Ip6 \notin Ip4s
ASSUME UnsetAssumption == Unset \notin Ip4s \cup {Ip6}

Options == {"addr", "dst", "mask"}
Configs == [addr : Ip4s \cup {Ip6, Unset}, dst : Ip4s \cup {Ip6, Unset},
            mask : Ip4s \cup {Unset}, name : Names, skip_config : BOOLEAN]

(* What a file can be, by its signature. *)
Files     == {"provider", "unsigned", "foreign"}
Signed(f) == f # "unsigned"
Signers   == {"WireGuard LLC", "another"}
Signer(f) == IF f = "provider" THEN "WireGuard LLC" ELSE "another"
WINTUN_PROVIDER == "WireGuard LLC"

Signature == {"trust", "store", "msg", "cert"}
Handles   == Signature \cup {"library", "adapter", "session"}

VARIABLES
    config,
    dll,       \* the file that wintun_file names, or "missing"
    exe,       \* the file of the program itself
    checked,   \* the file whose signature is checked: "library" or "program"
    signer,    \* what get_signer_name returned
    stage,     \* where Device::new stands
    held,      \* handles that are not closed
    adapters,  \* the adapters of the system, by name
    todo,      \* the setters that configure has still to call
    name,      \* Device::name
    named,     \* history: whether get_name was ok, each time Device::new asked
    calls      \* calls so far

vars == <<config, dll, exe, checked, signer, stage, held, adapters, todo, name, named, calls>>
input == <<config, dll, exe>>
checks == <<checked, signer>>

Stages == {"path", "verify", "close", "query", "info", "cert", "name", "load", "open", "address",
           "start", "configured", "configure", "live", "gone"}

(* The stages at which nothing can fail. *)
Infallible == {"verify", "close", "configured", "live", "gone"}

Absent  == [owner |-> "absent"]
Adapter(owner) == [owner |-> owner, addr |-> Unset, dst |-> Unset, mask |-> Unset]

(* An adapter without an address has neither mask nor destination. *)
AddressValues == Ip4s \cup {Ip6, Unset}
Adapters == {a \in [owner : {"created", "opened", "other"},
                    addr : AddressValues, dst : AddressValues, mask : AddressValues] :
                a.addr = Unset => a.mask = Unset /\ a.dst = Unset}

CheckedFile == IF checked = "program" THEN exe ELSE dll

Mine    == {n \in Names : adapters[n].owner \in {"created", "opened"}}

TypeOK ==
    /\ config \in Configs /\ dll \in Files \cup {"missing"} /\ exe \in Files
    /\ checked \in {"library", "program", Unset} /\ signer \in Signers \cup {Unset}
    /\ stage \in Stages
    /\ held \in SUBSET Handles
    /\ adapters \in [Names -> {Absent} \cup Adapters]
    /\ todo \in Seq(Options)
    /\ Cardinality(Mine) = IF "adapter" \in held THEN 1 ELSE 0
    /\ name \in Names \cup {Unset}
    /\ named \in Seq(BOOLEAN) /\ calls \in Nat

-----------------------------------------------------------------------------
(* The signature of the library *)

(* What is dropped when Device::new returns early or panics, and when the      *)
(* device is dropped: the session, the adapter, which is removed if it was     *)
(* created, and the library; the handles of the signature have no owner.       *)
(* Mutant: the handle of the adapter is forgotten.                             *)
ForgetAdapter(S) == S \cap (Signature \cup {"adapter"})
Unowned(S)       == S \cap Signature

Gone ==
    /\ held' = Unowned(held)
    /\ adapters' = [n \in Names |->
                      CASE adapters[n].owner = "created" -> Absent
                        [] adapters[n].owner = "opened"  -> [adapters[n] EXCEPT !.owner = "other"]
                        [] OTHER                         -> adapters[n]]
    /\ stage' = "gone"
    /\ todo' = <<>>

Fails(at) ==
    /\ stage = at
    /\ at = "address" => ~config.skip_config
    /\ at = "configure" => todo # <<>>
    /\ Gone
    /\ UNCHANGED <<input, checks, name, named, calls>>

(* The next stage, with the handles S. *)
Goes(from, to, S) ==
    /\ stage = from
    /\ stage' = to
    /\ held' = S
    /\ UNCHANGED <<input, adapters, todo, name, named, calls>>

(* get_dll_absolute_path: LoadLibraryW may fail, and GetModuleFileNameW then   *)
(* names the program.                                                          *)
ResolvePath ==
    /\ Goes("path", "verify", held)
    /\ \/ dll # "missing" /\ checked' = "library"
       \/ checked' = "program"
    /\ UNCHANGED signer

(* verify_embedded_signature: WinVerifyTrust verifies, and then closes its     *)
(* state whatever the result.                                                  *)
VerifySignature == Goes("verify", "close", held \cup {"trust"}) /\ UNCHANGED checks

CloseState ==
    /\ \/ Signed(CheckedFile) /\ Goes("close", "query", held \ {"trust"})
       \/ Goes("close", "gone", held \ {"trust"})
    /\ UNCHANGED checks

(* get_signer_name: CryptQueryObject, CryptMsgGetParam twice,                  *)
(* CertFindCertificateInStore; each failure returns.                           *)
QueryObject     == Goes("query", "info", held \cup {"store", "msg"}) /\ UNCHANGED checks
SignerInfo      == Goes("info", "cert", held) /\ UNCHANGED checks
FindCertificate == Goes("cert", "name", held \cup {"cert"}) /\ UNCHANGED checks

(* CertGetNameStringW twice and from_utf16; then the certificate is freed, and *)
(* Device::new compares the name.  Mutants: it is not compared; the            *)
(* certificate is not freed.                                                   *)
AnySigner(f)  == TRUE
IsProvider(f) == Signer(f) = WINTUN_PROVIDER

KeepCertificate(S) == S
FreeCertificate(S) == S \ {"cert"}

SignerName ==
    /\ Goes("name", IF IsProvider(CheckedFile) THEN "load" ELSE "gone", FreeCertificate(held))
    /\ signer' = Signer(CheckedFile)
    /\ UNCHANGED checked

(* Library::new loads wintun_file, not the file that was checked, and may work *)
(* although LoadLibraryW has not.                                              *)
LoadLibrary ==
    /\ dll # "missing"
    /\ Goes("load", "open", held \cup {"library"})
    /\ UNCHANGED checks

-----------------------------------------------------------------------------
(* The adapter *)

(* Adapter::open; whenever it fails, Adapter::create, for which Windows gives  *)
(* an adapter that has the name already another one.                           *)
Opens(n) ==
    /\ adapters[n] # Absent
    /\ adapters' = [adapters EXCEPT ![n].owner = "opened"]

Creates(n) ==
    \E to \in Names :
        /\ adapters[n] = Absent \/ (to # n /\ adapters[to] = Absent)
        /\ adapters' = [adapters EXCEPT ![to] = adapters[n], ![n] = Adapter("created")]

OpenAdapter ==
    /\ stage = "open"
    /\ Opens(config.name) \/ Creates(config.name)
    /\ held' = held \cup {"adapter"}
    /\ name' = config.name
    /\ stage' = "address"
    /\ UNCHANGED <<input, checks, todo, named, calls>>

(* The adapter of the device with the options a. *)
WithMine(a) ==
    [n \in Names |-> IF n \in Mine
                     THEN [adapters[n] EXCEPT !.addr = a.addr, !.dst = a.dst, !.mask = a.mask]
                     ELSE adapters[n]]
MyAdapter   == adapters[CHOOSE n \in Mine : TRUE]

Or(option, default) == IF option = Unset THEN default ELSE option

(* set_network_addresses_tuple: the address, the mask, the destination.        *)
(* Mutant: the destination is left to configure.                               *)
TupleWithoutDest(c) ==
    [addr |-> Or(c.addr, DefaultAddr), mask |-> Or(c.mask, DefaultMask), dst |-> Unset]
Tuple(c) ==
    [addr |-> Or(c.addr, DefaultAddr), mask |-> Or(c.mask, DefaultMask), dst |-> c.dst]

(* get_name is asked twice, before each configuration, and may answer          *)
(* differently.                                                                *)
SetAddresses ==
    /\ stage = "address"
    /\ \E ok \in BOOLEAN :
          /\ named' = Append(named, ok)
          /\ adapters' = IF ok /\ ~config.skip_config THEN WithMine(Tuple(config)) ELSE adapters
    /\ stage' = "start"
    /\ UNCHANGED <<input, checks, held, todo, name, calls>>

StartSession ==
    /\ Goes("start", "configured", held \cup {"session"})
    /\ UNCHANGED checks

(* configure: the setters of the options given, in order. *)
Plan(c) ==
    LET Given(o) == IF c[o] = Unset THEN <<>> ELSE <<o>>
    IN  Given("addr") \o Given("dst") \o Given("mask")

BeginConfigure ==
    /\ stage = "configured"
    /\ \E ok \in BOOLEAN :
          /\ named' = Append(named, ok)
          /\ todo' = IF ok /\ ~config.skip_config THEN Plan(config) ELSE <<>>
    /\ stage' = "configure"
    /\ UNCHANGED <<input, checks, held, adapters, name, calls>>

(* set_address, set_destination and set_netmask panic on another version than  *)
(* 4; set_broadcast, set_mtu and enabled do nothing.                           *)
CanSet(o, v) == v \in Ip4s /\ (o # "addr" => MyAdapter.addr \in Ip4s)

Sets(o, v) ==
    /\ CanSet(o, v)
    /\ adapters' = WithMine([MyAdapter EXCEPT ![o] = v,
                        !.mask = IF o = "mask" THEN v ELSE Or(@, DefaultMask)])

ConfigureStep ==
    /\ stage = "configure" /\ todo # <<>>
    /\ Sets(Head(todo), config[Head(todo)])
    /\ todo' = Tail(todo)
    /\ UNCHANGED <<input, checks, stage, held, name, named, calls>>

Created ==
    /\ todo = <<>>
    /\ Goes("configure", "live", held)
    /\ UNCHANGED checks

-----------------------------------------------------------------------------
(* The live device *)

Called ==
    /\ stage = "live"
    /\ calls < MaxCalls
    /\ calls' = calls + 1

Set(o, v) ==
    /\ Called
    /\ Sets(o, v) \/ UNCHANGED adapters
    /\ UNCHANGED <<input, checks, stage, held, todo, name, named>>

Renames(from, to) ==
    /\ adapters[from] # Absent /\ (to = from \/ adapters[to] = Absent)
    /\ adapters' = [n \in Names |-> IF n = to THEN adapters[from]
                                    ELSE IF n = from THEN Absent ELSE adapters[n]]

(* set_tun_name reaches the adapter by its handle; then the name is remembered. *)
SetTunName(n) ==
    /\ Called
    /\ \/ (\E from \in Mine : Renames(from, n)) /\ name' = n
       \/ UNCHANGED <<name, adapters>>
    /\ UNCHANGED <<input, checks, stage, held, todo, named>>

Drop == stage = "live" /\ Gone /\ UNCHANGED <<input, checks, name, named, calls>>

-----------------------------------------------------------------------------

Init ==
    /\ config \in Configs
    /\ dll \in Files \cup {"missing"}
    /\ exe \in Files
    /\ checked = Unset /\ signer = Unset
    /\ stage = "path"
    /\ held = {}
    /\ adapters \in [Names -> {Absent, Adapter("other")}]
    /\ todo = <<>>
    /\ name = Unset
    /\ named = <<>>
    /\ calls = 0

Next ==
    \/ ResolvePath \/ VerifySignature \/ CloseState \/ QueryObject \/ SignerInfo \/ FindCertificate
    \/ SignerName \/ LoadLibrary \/ OpenAdapter \/ SetAddresses \/ StartSession
    \/ BeginConfigure \/ ConfigureStep \/ Created
    \/ \E at \in Stages \ Infallible : Fails(at)
    \/ \E o \in Options, v \in Ip4s \cup {Ip6} : Set(o, v)
    \/ \E n \in Names : SetTunName(n)
    \/ Drop

Spec == Init /\ [][Next]_vars

-----------------------------------------------------------------------------

(* Whatever fails, a device that is gone leaves no handle open but those that  *)
(* have no owner: the store and the message of the signature, and its          *)
(* certificate only when the name could not be read (verify_dll_file.rs:       *)
(* 108-247, device.rs:42-102); and it leaves no adapter that it created.       *)
OnlySignatureOutlives ==
    stage \in {"live", "gone"} =>
        /\ "trust" \notin held
        /\ stage = "gone" => held \subseteq Signature /\ Mine = {}
        /\ signer # Unset => "cert" \notin held

(* A library is only loaded when it is the very file that was checked and the  *)
(* provider's, although a failed LoadLibraryW makes the program check itself   *)
(* and Library::new may work all the same: what prevents it is the signature   *)
(* of the program, and nothing does when that is the provider's too            *)
(* (verify_dll_file.rs:252-273, device.rs:45-54).                              *)
LibraryIsTheCheckedFile ==
    "library" \in held /\ Signer(exe) # WINTUN_PROVIDER =>
        checked = "library" /\ Signer(dll) = WINTUN_PROVIDER

(* A new device has every address that its configuration gave, whichever of    *)
(* the two configurations was skipped because the adapter had no name          *)
(* (device.rs:65-99), and the defaults when the first was not.                *)
NewDeviceHasItsAddresses ==
    stage = "live" /\ calls = 0 /\ ~config.skip_config =>
        \A o \in Options :
            /\ config[o] # Unset /\ TRUE \in {named[1], named[2]} => MyAdapter[o] = config[o]
            /\ config[o] = Unset /\ named[1] => MyAdapter[o] = Tuple(config)[o]
=============================================================================
