----------------------------- MODULE FdOwnership -----------------------------
(***************************************************************************)
(* Who owns the TUN descriptor on the POSIX platforms, from Device::new to  *)
(* the last drop (src/src/platform/posix/fd.rs, posix/split.rs, the        *)
(* Device::new and split of the platforms, async/unix_device.rs).          *)
(*                                                                         *)
(* A Device holds three Arc<Fd>: in its Reader, in its Writer and in its   *)
(* Tun; and, when it opened the interface itself, a control socket.  The   *)
(* descriptor table of the process is explicit, because a descriptor       *)
(* closed too early or twice is another file's by then.                    *)
(***************************************************************************)
EXTENDS Integers, FiniteSets

CONSTANTS
    MaxFd,     \* descriptors are the numbers 0..MaxFd
    Writers    \* the AsyncWriters: the one of split, and its clones

ASSUME MaxFdAssumption == MaxFd \in Nat

Fds    == 0..MaxFd
NoFd   == -1
Fields == {"reader", "writer", "tun"}   \* where an Arc<Fd> can live

(* The values a program can hold. *)
Handles == {"device", "reader", "writer", "async", "asyncReader"} \cup Writers
AsyncHalves == {"asyncReader"} \cup Writers

ASSUME WritersAssumption ==
    Writers \cap {"device", "reader", "writer", "async", "asyncReader"} = {}

VARIABLES
    table,        \* what each descriptor number refers to
    adopted,      \* Configuration::raw_fd was set (FreeBSD ignores it, and opens its own)
    closeOnDrop,  \* Fd::close_fd_on_drop
    stage,        \* progress of Device::new
    inner,        \* Fd::inner of the TUN descriptor
    ctl,          \* Fd::inner of the control socket, or NoFd
    arcs,         \* the fields that hold an Arc<Fd>
    handles       \* the values the program holds

vars == <<table, adopted, closeOnDrop, stage, inner, ctl, arcs, handles>>

Files  == {"free", "tun", "ctl", "other"}
Stages == {"new", "opened", "ready", "built", "gone"}

TypeOK ==
    /\ table \in [Fds -> Files]
    /\ adopted \in BOOLEAN
    /\ closeOnDrop \in BOOLEAN
    /\ stage \in Stages
    /\ inner \in Fds \cup {NoFd}
    /\ ctl \in Fds \cup {NoFd}
    /\ arcs \in SUBSET Fields
    /\ handles \in SUBSET Handles

(* The program lets the crate open the interface, or hands it a descriptor, *)
(* which may be invalid.                                                    *)
Init ==
    /\ stage = "new"
    /\ ctl = NoFd
    /\ arcs = {}
    /\ handles = {}
    /\ \/ /\ adopted = FALSE
          /\ closeOnDrop = TRUE
          /\ inner = NoFd
          /\ table = [n \in Fds |-> "free"]
       \/ /\ adopted = TRUE
          /\ closeOnDrop \in BOOLEAN
          /\ inner \in Fds \cup {NoFd}
          /\ table = [n \in Fds |-> IF n = inner THEN "tun" ELSE "free"]

-----------------------------------------------------------------------------
(* Dropping *)

(* Mutants: every field closes the descriptor; the flag is ignored; the control *)
(* socket is closed but still used.                                             *)
ReleaseUnshared(S, withCtl) ==
    LET closed == {n \in Fds : \/ n = inner /\ arcs \cap S # {} /\ closeOnDrop
                               \/ n = ctl /\ withCtl}
    IN  /\ table' = [n \in Fds |-> IF n \in closed THEN "free" ELSE table[n]]
        /\ arcs' = arcs \ S
        /\ ctl' = IF withCtl THEN NoFd ELSE ctl

ReleaseAlways(S, withCtl) ==
    LET closed == {n \in Fds : \/ n = inner /\ arcs # {} /\ arcs \subseteq S
                               \/ n = ctl /\ withCtl}
    IN  /\ table' = [n \in Fds |-> IF n \in closed THEN "free" ELSE table[n]]
        /\ arcs' = arcs \ S
        /\ ctl' = IF withCtl THEN NoFd ELSE ctl

ReleaseKeepsCtl(S, withCtl) ==
    LET closed == {n \in Fds :
                      \/ n = inner /\ arcs # {} /\ arcs \subseteq S /\ closeOnDrop
                      \/ n = ctl /\ withCtl}
    IN  /\ table' = [n \in Fds |-> IF n \in closed THEN "free" ELSE table[n]]
        /\ arcs' = arcs \ S
        /\ UNCHANGED ctl

(* The Arc<Fd> of the fields S are dropped.  With the last one goes the Fd,     *)
(* whose drop closes the number it holds if it may; the control socket goes too *)
(* when withCtl.                                                                *)
Release(S, withCtl) ==
    LET closed == {n \in Fds :
                      \/ n = inner /\ arcs # {} /\ arcs \subseteq S /\ closeOnDrop
                      \/ n = ctl /\ withCtl}
    IN  /\ table' = [n \in Fds |-> IF n \in closed THEN "free" ELSE table[n]]
        /\ arcs' = arcs \ S
        /\ ctl' = IF withCtl THEN NoFd ELSE ctl

-----------------------------------------------------------------------------
(* Device::new *)

(* Fd::new refuses a negative descriptor: a failed open, or the caller's. *)
OpenFails ==
    /\ stage = "new"
    /\ adopted => inner = NoFd
    /\ stage' = "gone"
    /\ UNCHANGED <<table, adopted, closeOnDrop, inner, ctl, arcs, handles>>

(* Linux takes no descriptor of the caller's: it stays the caller's to close. *)
RawFdRefused ==
    /\ stage = "new"
    /\ adopted
    /\ closeOnDrop' = FALSE
    /\ stage' = "gone"
    /\ UNCHANGED <<table, adopted, inner, ctl, arcs, handles>>

(* The platform opens the TUN file and wraps it in an Fd. *)
Open ==
    /\ stage \in {"new", "opened"}
    /\ ~adopted
    /\ inner = NoFd
    /\ \E n \in Fds :
          /\ table[n] = "free"
          /\ table' = [table EXCEPT ![n] = "tun"]
          /\ inner' = n
    /\ arcs' = {"tun"}
    /\ stage' = "opened"
    /\ UNCHANGED <<adopted, closeOnDrop, ctl, handles>>

(* The control socket: after the TUN file on Linux and macOS, before it on *)
(* FreeBSD.                                                                *)
OpenCtl ==
    /\ stage \in {"new", "opened"}
    /\ ~adopted
    /\ ctl = NoFd
    /\ \E n \in Fds :
          /\ table[n] = "free"
          /\ table' = [table EXCEPT ![n] = "ctl"]
          /\ ctl' = n
    /\ stage' = "opened"
    /\ UNCHANGED <<adopted, closeOnDrop, inner, arcs, handles>>

(* Tun::new: the Fd has three owners from now on. *)
Assemble ==
    /\ stage = "opened"
    /\ NoFd \notin {inner, ctl}
    /\ arcs' = Fields
    /\ stage' = "ready"
    /\ UNCHANGED <<table, adopted, closeOnDrop, inner, ctl, handles>>

(* A descriptor of the caller is wrapped without opening or configuring. *)
Adopt ==
    /\ stage = "new"
    /\ adopted
    /\ inner # NoFd
    /\ arcs' = Fields
    /\ stage' = "built"
    /\ handles' = {"device"}
    /\ UNCHANGED <<table, adopted, closeOnDrop, inner, ctl>>

(* configure (and set_alias) succeeded. *)
Build ==
    /\ stage = "ready"
    /\ stage' = "built"
    /\ handles' = {"device"}
    /\ UNCHANGED <<table, adopted, closeOnDrop, inner, ctl, arcs>>

(* An ioctl, the control socket, or configure failed: `?` drops what there is. *)
NewFails ==
    /\ stage \in {"opened", "ready"}
    /\ Release(arcs, TRUE)
    /\ stage' = "gone"
    /\ UNCHANGED <<adopted, closeOnDrop, inner, handles>>

-----------------------------------------------------------------------------
(* The handles *)

(* Mutants: split hands the control socket out; split forgets it. *)
SplitWithCtl ==
    /\ "device" \in handles
    /\ Release({"tun"}, FALSE)
    /\ handles' = {"reader", "writer", "ctl"}
    /\ UNCHANGED <<adopted, closeOnDrop, stage, inner>>

SplitForgetsCtl ==
    /\ "device" \in handles
    /\ Release({"tun"}, FALSE)
    /\ handles' = {"reader", "writer"}
    /\ UNCHANGED <<adopted, closeOnDrop, stage, inner>>

(* Device::split moves the Reader and the Writer out and drops the rest. *)
Split ==
    /\ "device" \in handles
    /\ Release({"tun"}, TRUE)
    /\ handles' = {"reader", "writer"}
    /\ UNCHANGED <<adopted, closeOnDrop, stage, inner>>

(* AsyncDevice::new; set_nonblock or AsyncFd::new may fail, and the Device, *)
(* which was moved into the call, is dropped with it.                       *)
MakeAsync ==
    /\ "device" \in handles
    /\ handles' = {"async"}
    /\ UNCHANGED <<table, adopted, closeOnDrop, stage, inner, ctl, arcs>>

MakeAsyncFails ==
    /\ "device" \in handles
    /\ Release(Fields, TRUE)
    /\ handles' = {}
    /\ UNCHANGED <<adopted, closeOnDrop, stage, inner>>

(* AsyncDevice::split: the halves share the whole Device, ctl included. *)
AsyncSplit ==
    /\ "async" \in handles
    /\ \E w \in Writers : handles' = {"asyncReader", w}
    /\ UNCHANGED <<table, adopted, closeOnDrop, stage, inner, ctl, arcs>>

CloneWriter ==
    /\ \E v, w \in Writers :
          /\ v \in handles
          /\ w \notin handles
          /\ handles' = handles \cup {w}
    /\ UNCHANGED <<table, adopted, closeOnDrop, stage, inner, ctl, arcs>>

DropWhole ==
    /\ \E h \in {"device", "async"} \cap handles : handles' = handles \ {h}
    /\ Release(Fields, TRUE)
    /\ UNCHANGED <<adopted, closeOnDrop, stage, inner>>

DropHalf ==
    /\ \E h \in {"reader", "writer"} \cap handles :
          /\ handles' = handles \ {h}
          /\ Release({h}, FALSE)
    /\ UNCHANGED <<adopted, closeOnDrop, stage, inner>>

(* The last asynchronous half drops the Device. *)
DropAsyncHalf ==
    /\ \E h \in AsyncHalves \cap handles :
          /\ handles' = handles \ {h}
          /\ IF handles = {h} THEN Release(Fields, TRUE) ELSE UNCHANGED <<table, ctl, arcs>>
    /\ UNCHANGED <<adopted, closeOnDrop, stage, inner>>

(* Tun::into_raw_fd: Arc::into_inner gives up the Arc of Tun, and finds that   *)
(* the Fd has other owners: unwrap panics, and unwinding drops them.           *)
OtherOwners == arcs \ {"tun"}

IntoRawFd ==
    /\ "device" \in handles
    /\ handles' = {}
    /\ IF OtherOwners = {}
       THEN /\ arcs' = {}
            /\ table' = [n \in Fds |-> IF n = ctl THEN "free" ELSE table[n]]
            /\ ctl' = NoFd
       ELSE Release(Fields, TRUE)
    /\ UNCHANGED <<adopted, closeOnDrop, stage, inner>>

-----------------------------------------------------------------------------
(* The rest of the program opens and closes files of its own, and closes the  *)
(* descriptor it kept the ownership of once the crate has done with it.       *)

OtherOpens ==
    /\ \E n \in Fds : table[n] = "free" /\ table' = [table EXCEPT ![n] = "other"]
    /\ UNCHANGED <<adopted, closeOnDrop, stage, inner, ctl, arcs, handles>>

OtherCloses ==
    /\ \E n \in Fds : table[n] = "other" /\ table' = [table EXCEPT ![n] = "free"]
    /\ UNCHANGED <<adopted, closeOnDrop, stage, inner, ctl, arcs, handles>>

Done == stage = "gone" \/ (stage = "built" /\ handles = {})

CallerCloses ==
    /\ adopted
    /\ ~closeOnDrop
    /\ Done
    /\ inner # NoFd
    /\ table[inner] = "tun"
    /\ table' = [table EXCEPT ![inner] = "free"]
    /\ UNCHANGED <<adopted, closeOnDrop, stage, inner, ctl, arcs, handles>>

-----------------------------------------------------------------------------

New  == OpenFails \/ RawFdRefused \/ Open \/ OpenCtl \/ Assemble \/ Adopt \/ Build \/ NewFails
Use  == \/ Split \/ MakeAsync \/ MakeAsyncFails \/ AsyncSplit \/ CloneWriter
        \/ DropWhole \/ DropHalf \/ DropAsyncHalf \/ IntoRawFd
Rest == OtherOpens \/ OtherCloses \/ CallerCloses

Next == New \/ Use \/ Rest

Spec == Init /\ [][Next]_vars

-----------------------------------------------------------------------------

(* As long as some value of the crate can read or write, the number it uses is *)
(* the TUN descriptor, in whatever order the halves and their clones are       *)
(* dropped and numbers are reused (split.rs:201-228, unix_device.rs:55-62).    *)
HandlesReachTun ==
    (handles # {} \/ arcs # {}) => inner # NoFd /\ table[inner] = "tun"

(* The control socket likewise, for a Device that still has one. *)
CtlReachesCtl == ctl # NoFd => table[ctl] = "ctl"

(* Once every value is gone nothing of the crate is left open, except a        *)
(* descriptor that the caller kept: no path of Device::new, no split and no    *)
(* panic leaks one (fd.rs:105-111).                                            *)
NothingLeaks ==
    Done => \A n \in Fds :
        /\ table[n] # "ctl"
        /\ table[n] = "tun" => adopted /\ ~closeOnDrop

(* The crate never closes a file that is not its own, nor a descriptor the     *)
(* caller kept (configuration.rs:169-177).                                     *)
ClosesOnlyItsOwn ==
    [][\A n \in Fds : table[n] # "free" /\ table'[n] = "free" /\ ~Rest =>
          \/ table[n] = "ctl"
          \/ table[n] = "tun" /\ closeOnDrop]_vars

(* Whenever a Device is asked for its raw descriptor, its Fd has no owner left *)
(* but Tun, so that Arc::into_inner returns it (split.rs:287-292).             *)
IntoRawFdFindsUniqueOwner == [][IntoRawFd => OtherOwners = {}]_vars

=============================================================================
