# A TLA+ model of rust-tun

Specifications, model-checking configurations and machine-checked proofs for the
TUN crate of this repository (`src/src`). They describe the parts whose
correctness depends on the order in which things happen: threads, tasks, wakers,
events, descriptors, and calls of which some succeed and others fail; and on the
conversions that packets and addresses undergo on their way to a kernel. The code is
the reference; every definition names, in `PROJECT.json` under `map`, the lines it
translates.

## 1. The system

| Part | Source | State it keeps | Operations |
|---|---|---|---|
| Windows async reader | `async/win_device.rs` | a pump thread, a bounded channel, a cancel event, the Wintun session | `AsyncReader::new`, the thread, `poll_read`, `drop`; `AsyncWriter` clones |
| POSIX async reader and writer | `async/unix_device.rs` | an `AsyncFd` shared by an `Arc` | `poll_read`, `poll_write` and their vectored forms, `split`, `clone` |
| async traits | `async/mod.rs` | none | `read`, `write`, `try_read`, `try_write`, `create_as_async` |
| descriptors | `platform/posix/fd.rs`, `posix/split.rs` | the number, whether to close it, its owners | `Fd::new`, `drop`, `split`, `into_raw_fd` |
| packet framing | `platform/posix/split.rs`, `fd.rs`, `utils.rs` | header length, MTU | `recv`, `send`, vectored forms |
| configuration | `configuration.rs`, `device.rs` | the options given | the builder, `AbstractDevice::configure` |
| macOS device | `platform/macos/device.rs` | interface name, control socket, a copy of its route | `new`, setters, `set_alias`, `set_route` |
| FreeBSD device | `platform/freebsd/device.rs` | the same | the same, over add/delete of aliases |
| Linux device | `platform/linux/device.rs` | interface name, MTU, control socket | `new`, setters, `set_qdisc`, `persist`, `user`, `group` |
| iOS, Android, OpenHarmony | `platform/{ios,android,ohos}/device.rs` | an adopted descriptor | `new`; setters do nothing |
| Windows device | `platform/windows/device.rs` | `Arc<Session>`, MTU, name | `recv`, `send`, `send_vectored`, `drop`, setters |
| library signature | `platform/windows/verify_dll_file.rs` | Win32 handles | verify, read the signer |
| addresses | `address.rs`, `posix/sockaddr.rs` | none | conversions |
| codec | `async/codec.rs` | MTU | `encode`, `decode` |

**How they interact.** `create` builds a platform `Device` from a `Configuration`:
it opens the interface, runs `configure`, and hands out one value that reads,
writes and reconfigures. `split` takes the two halves out of it and drops the
rest. `AsyncDevice` wraps a `Device`; on POSIX its halves share it through one
`Arc<AsyncFd<Device>>`, and the runtime's I/O driver wakes their tasks; on Windows
the writers own the `Device` while a thread reads from a second `Arc` of its
session into a channel.

**What is hard in it.**

* *Windows reader:* a kernel event that resets itself, a manual event for
  cancellation, a channel that can be full, a thread that is joined by the value
  whose receiver it sends to, and writers that may end the device first.
* *POSIX async:* a readiness cache that must be cleared after `WouldBlock` but not
  when an event came meanwhile; one remembered waker for each direction although
  writers are `Clone`; `try_` calls that poll with a waker that does nothing.
* *Descriptors:* three owners of one `Arc<Fd>` and a `Drop` that closes a number
  which the process may already have given to somebody else.
* *macOS route:* an ioctl, a `route delete` and a `route add`, each of which may
  fail, and a copy of the result that later calls rely on.
* *Windows session:* senders that interleave between allocating and releasing a packet,
  a length cut to 16 bits, an error reported as success, reads that only an event ends.
* *Packets:* a header in front of the program's buffers, which may be empty, too short
  or many; the same read done by the kernel here and by a loop there.
* *Linux device:* an interface reached by a remembered name, a persistent one with old
  options, an order of setters in which one resets what another has set, addresses as
  integers, texts and bytes.
* *Windows creation:* a dozen calls that may fail, handles without owners, a check of a
  file that is found by loading it, two configurations that may be skipped separately.
* *FreeBSD address:* it is deleted before its successor is known to be possible, and
  the successor is put together from a copy that is not always up to date.

**What makes them correct.** The reader delivers every packet once and in order,
and its end only after all of them; a suspended task is never missed; what a
thread uses outlives it; dropping terminates. A descriptor is open exactly as
long as a handle can use it, is closed by the crate once and only if it may be.
The device knows the route it has, and the route is that of its addresses. A packet
arrives whole and alone, and the header shows nowhere. A new device has the options it
was given, and touches nobody else's interface.
`PROJECT.json` lists under `hazards` each place where one of these could go wrong,
with the properties that watch it, or the reason why none does yet.

## 2. The modules

| Module | Models | Composes |
|---|---|---|
| `PacketStream` | what an asynchronous reader promises (abstract) | |
| `WinAsyncReader` | session, pump, channel, polling task, drop, writers | implements `PacketStream` |
| `UnixAsyncIo` | kernel queues, poller, `AsyncFd`, the poll loops of a reader and cloned writers | |
| `FdOwnership` | `Device::new` to the last drop, over the descriptor table of the process | device, POSIX halves, async halves, rest of the program |
| `WinSession` | the threads that share a synchronous session: send ring, blocking reads, drop, shutdown | |
| `PacketIo` | reads and writes on three devices at once: with packet information, without, and Wintun; the codec | framing, kernel, codec |
| `Addresses` | conversions of addresses, byte by byte (operators) | used by the next one |
| `PosixDevice` | the Linux device from `new` to its drop, and the devices that adopt a descriptor, among the interfaces of a system | configuration, addresses, Linux, iOS, Android, OpenHarmony, other programs |
| `WinDevice` | `Device::new` on Windows with every early return, from the signature of the library on; setters and names | signature, device, configuration |
| `Configuration` | the options, the order in which `configure` applies them, what an alias and a route are made of; the variables that the next two share | used by the next two |
| `MacRoute` | `configure`, the setters, `set_alias` and `set_route`, over interface and routing table | configuration and macOS device |
| `FreeBsdRoute` | the same for FreeBSD, where the alias comes first and each setter deletes the address | configuration and FreeBSD device |
| `...Proofs` | the theorems about the module of that name: `WinAsyncReader` (and `PacketStream`), `UnixAsyncIo`, `FdOwnership`, `WinSession`, `PacketIo`, `WinDevice`, `PosixDevice`; `RouteProofs` about `MacRoute` and `FreeBsdRoute` | |
| `MC...` | the instances TLC checks | |

### WinAsyncReader

`pump` is the program counter of the thread: `start` (before
`get_read_wait_event`), `wait` (in `WaitForMultipleObjects`), `recv` (about to call
`try_receive`), `send` (in `blocking_send`, with the packet in `held`), `done` and
`failed`. `reader` is that of the value: `idle`, `pending` (a read returned
`Pending`), then `join`, `close`, `unref`, `gone` for the four steps of `drop`: set
the event, join, close the handle, and — after the body of `drop` — release the
fields, the receiver among them. `ring`, `readEvent` and `eof` are the session as
seen through its API, `sessionOwners` the two `Arc<Session>`. A packet is the number
of its arrival: its bytes, and the truncation to the caller's buffer, do not
matter to what is stated here. `WaitForMultipleObjects` returns the lowest
signalled index, so `PumpWaitCancel` needs the read event not to be signalled.

The error branch of `blocking_send` has no action: the receiver is released after
the join, so it cannot be taken, and `PumpResourcesHeld` is the statement of that.

External, modelled from their use: the Wintun ring with its auto-reset read event,
tokio's channel with one stored waker, Win32 events. A terminating adapter makes
`try_receive` fail even when the ring holds packets. Left out: a read that fails
because a wait failed (`WAIT_FAILED` ends the thread as cancellation does).

### UnixAsyncIo

`poll_read`, `poll_read_vectored`, `poll_write` and `poll_write_vectored` are the
same loop, and so one set of actions with a direction: `check`
(`poll_read_ready`/`poll_write_ready`), `try` (the system call inside `try_io`),
`clear` (what `try_io` does after `WouldBlock`), and the loop. `Start` is any way a
task enters: `read`, `write`, or `try_read`/`try_write`, whose `Waker::noop()` is the
value `None` in `slot`. `AsyncFd` is external; its tick is abstracted to
`current[t]`: whether the guard of `t` is as recent as the last event. `DriverTurn`
makes every guard old, that of the other direction too, as the tick is shared. `started`
is a history variable, the tasks that have ever polled: a task is alone in its direction
(`Alone`) until another task of the direction has, and a clone that is never used does
not matter. A wake of a task that has no operation, or is inside a `try_` call, would make
it poll nothing and is left out; after a shutdown of the runtime its I/O driver turns no more.

### WinSession

The threads that share one `Tun`: a `Reader` and a `Writer` of `Device::split`, a
`Device` behind an `Arc`, the clones of `AsyncWriter` (whose reader is the pump of
`WinAsyncReader`). `Tun::send` is two steps, `Allocate` and `Fill`, because another
sender may come between `allocate_send_packet` and `send_packet`; the send ring `tx` is
emptied from its head, which must have been released. `len` is the 16-bit length that
was asked for, `size` the length of the buffer: when they differ, `copy_from_slice`
panics, the packet is dropped unsent, and the feature `panic_on_unsent_packets`
(`Cargo.toml:51`) makes that a second panic, so `FillPanics` ends the process. `reader`
is the program counter of `receive_blocking`. `accepted`, `overflowed` and `transmitted`
are history variables. Packets are counted where the driver counts bytes; a
`send_vectored` of nothing returns at once and has no action; allocations that fail
for other reasons than a full ring or a missing adapter are errors like the latter.
`shutdown` says who has signalled the shutdown event: the drop of the `Tun`, or the
program through a clone of the `Arc<Session>` that `Tun::session` gave it (`kept`).
`Tun::drop` is two things: it shuts the session down, and lets go of the `Tun`'s own
`Arc<Session>`. When no clone is left either (`~Open`), `WintunEndSession` discards what
the rings hold (`ReleaseSession`), as does a later drop of the last clone.

### PacketIo

A program makes each call on three devices, so that "the header does not show" is a
statement about the difference of two of their states. `rx[d]` are the packets that wait,
`got[d]` what a read returned, `tx[d]` what the kernel took of a write, `ok[d]` whether it
returned `Ok`, `dst` the codec's buffer. `Recv` puts the kernel's header in front of the
packet, and `Iovs`, the list of buffers that `recv_vectored` builds, under it; `Putv` is
the loop of `utils.rs`, a recursive function of the number of buffers done. The kernel is external: it scatters one
message over the buffers, drops what does not fit, takes a write as one message,
refuses more than `IovMax` buffers, and on an L3 device without header anything but IP.
Bytes matter only in the first nibble of a packet and as payload, so packets have up to
three of them. `Encode` and `Flush` are apart: a sink may encode several packets before it
writes. Reads without a packet would block and have no action. There is no type
invariant: each variable is the value of an operator that the properties compare with
another.

### PosixDevice and Addresses

`ifaces` are the interfaces of the system by name, each with its owner: `mine`, `other`,
or `none` for a persistent one without a program. The device keeps `name` and `mtu`;
its setters look `name` up in `ifaces`, as the ioctls do. `Open` is `TUNSETIFF`: it
creates an interface or attaches to a persistent one of the same kind. `Apply` is what
an ioctl changes, with the kernel's side effects: a new address resets peer, broadcast
address and mask. Every ioctl may fail. `todo` is the rest of `configure`, so that other
programs see every state between two setters. `Request` is the ifreq with the address
as bytes: `IntoAddress`, `rs_addr_to_sockaddr`, the copy of `OVERWRITE_SIZE` bytes of it,
and on the way back `sockaddr_to_rs_addr`; `Addresses` has these for a little-endian
Linux. A configuration with an address that `IntoAddress` refuses panics in the builder
(`Panics`). The devices of iOS, Android and OpenHarmony are records of what they keep
and answer, as they differ in nothing else. `renamed` is a history variable.

### WinDevice

`stage` follows `Device::new` call by call, `held` is the set of handles that are open,
and `Fails(at)` is the early return at a stage, which drops what has an owner. The four
handles of the signature have none. `dll` is the file that `wintun_file` names, `exe`
the program: `GetModuleFileNameW` answers with the latter when `LoadLibraryW` failed, so
`checked` is then the program. `LoadLibraryW` and, later, `Library::new` each fail or work
independently of the other; neither loads a file that is missing. `signer` is what
`get_signer_name` returned. Files do not change between the check and the load.
`OpenAdapter` creates an adapter after any failure of `open`, also when one of that name
exists, which then gets another name. `SetAddresses` and `BeginConfigure`
each ask `get_name`, with either answer. The wintun crate is external: `set_address`,
`set_gateway` and `set_netmask` read the two other values and set all three.

### FdOwnership

`table` is the process's descriptor table, so that a number can be reused by
`OtherOpens` as soon as it is free. `arcs` are the places that hold an `Arc<Fd>`
(`Reader`, `Writer`, `Tun`), `handles` the values the program holds. `Release` is the
drop of some of them: only the last one drops the `Fd`, whose `Drop` closes the
number if `close_fd_on_drop`. The devices differ in the order of the TUN file and the
control socket (FreeBSD opens the socket first) and in whether they adopt a
descriptor; `Open`, `OpenCtl` and `Adopt` cover them. A descriptor that the caller
passes may be invalid; Linux refuses any (`RawFdRefused`) and leaves it to the caller,
and FreeBSD ignores it, which is a device that opens its own.

### MacRoute

One call of a setter is one step, since it has `&mut self`; `configure` is the list
`todo` of the setters that remain, so every state between two of them is seen.
`SetRoute` has the outcomes of `set_route` in its order: the delete fails; the
delete works and the add fails; both work. The mask must be a prefix for either
(`ip_mask_to_prefix`), the delete needs the route to exist and the add needs it not
to. `iface` is what the ioctls have set. `clean` is a history variable: nothing has
failed since `Device::new` set the alias. Not modelled: `unimplemented!` for IPv6
addresses, and devices adopted from a descriptor, whose setters all fail.

### FreeBsdRoute

The variables are those of `MacRoute` (they are declared in `Configuration`) without
`clean`, and the names that both modules have begin with `Bsd` here, so that one module
can prove about both. The order of creation is the other one: `NewAlias` sets the alias,
then `configure` runs, so that a `Device::new` with an address sets it twice. Each of
`set_address`, `set_destination` and `set_netmask` is `SIOCDIFADDR`, a look at the copy in
`Device::route`, and `set_alias`: `BsdSetterFails` has the outcomes up to a failed
`SIOCAIFADDR`, `SetterSucceeds` the rest, where `BsdSetRoute` either adds the route and
takes the copy or does neither, which `set_alias` only logs. The kernel removes the
routes of an address with it, and both when the device is closed. Not modelled: the
scan for a free device, renaming, `unimplemented!` for IPv6.

## 3. The runs

| Run | Bounds | Shows |
|---|---|---|
| `WinAsyncReader_promises` | channel of 2, 4 packets, 2 writers | type invariant, event and waker invariants, resources of the pump, end of stream, no loss, refinement of `PacketStream`; a suspended read completes, a program that keeps reading gets every packet, drop ends unless the channel is full |
| `WinAsyncReader_drop` | 1 writer | *violated:* drop does not end on a full channel |
| `WinSession_promises` | a reader, 2 senders of 2 packets each, send ring of 2, 1 packet to read, lengths 1 and 5 modulo 4 | packets leave whole and in order, only a full ring or the last `Arc<Session>` loses them, the ring drains while anybody holds the session, reads end when they should and only then |
| `UnixAsyncIo_promises` | reader, 2 writers, queues of 1 | no readiness is forgotten, no task alone in its direction sleeps through one, and its operation completes when it would not block |
| `FdOwnership_safety` | 4 numbers, 2 writers | handles reach the TUN file, nothing leaks, nothing foreign is closed |
| `FdOwnership_into_raw_fd` | 3 numbers | *violated:* `into_raw_fd` never finds a unique owner |
| `MacRoute_safety` | 2 addresses, 2 peers, 3 masks | the device knows its route; it is right until a failure |
| `FreeBsdRoute_safety` | 2 addresses, 2 peers, 3 masks | at most the route of the present address; a lost address stays lost |
| `FreeBsdRoute_setter` | the same | *violated:* an accepted setter brings back a replaced address |
| `PacketIo_framing` | 3 packets of up to 3 bytes, 2 to read, up to 4 buffers of 0 or 2 bytes, of which the kernel takes 4 | reads give the packet on every platform, writes arrive whole under the right protocol, the header does not show |
| `PosixDevice_promises` | 2 interface names, 2 calls or renames, one to four values of each option | a new device answers its options, and devices leave other interfaces alone |
| `WinDevice_promises` | 2 adapter names, 1 call, 4 addresses | only handles of the signature are left behind, no other library is loaded than the one checked unless the program is the provider's own, a new device has its addresses |

**Why the bounds are enough.** A channel of 2 with 4 packets is full while the pump
holds one and the ring another: every combination of empty, partial and full
queue, of packet in hand and of signalled event occurs, and a packet can be lost,
repeated or overtake another. The proofs of section 5 remove these bounds. In
`WinSession` two senders fill the ring in every order, one length wraps to the other,
and one packet suffices for a read event that is older than the ring. A queue
of 1 in `UnixAsyncIo` is empty and full in turn, which is all that readiness depends on;
the proofs hold for every length. Of the two writers each is alone in its direction until
the other starts, so reads and writes are both met by the properties of such a task. In
`FdOwnership` the crate holds at most two numbers; the others let foreign files
take a number that was freed and leave one free for the next open. In `MacRoute`
and `FreeBsdRoute` two addresses share their network under one mask and not under the other, and the
third mask is not a prefix. In `PacketIo` the room of up to four buffers is
less than, equal to and more than a packet, four buffers are one too many once the
header is among them, and a packet is cut at every pair of places. In `PosixDevice` each
option is absent, given or refused; two names suffice for a rename onto another's and for
a persistent interface beside another program's. In `WinDevice` every configuration of
two addresses and the defaults is tried on every path.

**Symmetry** permutes the cloned writers of `FdOwnership_safety`, which checks safety
properties only.

**Deadlock** is checked where the system never stops (`UnixAsyncIo_promises`). The others stop legitimately: every value dropped, or all
packets of the bound used.

**Fairness.** `WinAsyncReader`: the operating system schedules the pump thread and a
thread inside `drop`; the runtime polls a task that was woken. The second part of `ReadsComplete` is about
programs that poll whenever they are not suspended (`KeepsReading`, its premise).
`UnixAsyncIo`: the I/O driver turns, a poll function that runs goes on running, a woken task is polled. `WinSession`: the
driver empties the ring, and threads inside `send` or `recv` are scheduled. All are weak
fairness on single steps. Apart from the Wintun driver, which takes what the
send ring holds, nothing makes a kernel produce or transmit, and nothing makes a task
start an operation, a program drop a value or an adapter end.

## 4. Where the code disagrees with what the repository says

1. `AsyncReader::drop` (`async/win_device.rs:120`) hangs when the channel is full:
   the pump waits in `blocking_send` for the receiver, which waits in `join` for the
   pump. The trace of `WinAsyncReader_drop`: the channel fills, the pump takes one
   more packet, the reader is dropped as `examples/read-async.rs` does on a signal.
2. `Tun::into_raw_fd` (`posix/split.rs:291`) always panics; its comment guarantees a
   unique owner, but `reader` and `writer` are dropped only on return.
3. The FreeBSD setters take the parts they do not change from the last route that was
   added. After `set_address` returned `Ok` without its route, which is only logged,
   `set_destination` returns `Ok` and puts the old address back
   (`freebsd/device.rs:364`); `device.rs:69` says that it sets the destination.

Of the same kind, but without a run of their own:

* On macOS, after a setter that changed the interface and then failed to change the
  route, the next setter installs a route of the address of before
  (`macos/device.rs:350`); `RouteFollowsUntilFailure` is therefore stated until a failure
  only. A route that was deleted and not replaced is never set up again, because the
  device goes on trying to delete it first.
* With packet information, a write to an L2 device is refused or labelled by a byte of
  the frame (`posix/split.rs:154`), and a call with as many buffers as the kernel accepts
  is refused for the header's sake, where `linux/mod.rs:52` says that the header does not
  show; `PacketInformationInvisible` excludes these calls.
* The store and the message of a signature are never closed
  (`windows/verify_dll_file.rs:139`), nor is the certificate when its name cannot be read;
  `OnlySignatureOutlives` says that nothing else is left.
* A device whose interface another program renames reaches no interface any more, or
  somebody else's (`linux/device.rs:200`); `OthersUntouched` exempts it.
* A failed `Device::new` leaves what it had set so far on a persistent interface
  (`linux/device.rs:149`).
* On Windows, `send` returns `Ok` once the packet is in the send ring. The drop of the last
  half ends the session unless the program keeps a clone of it, and packets that the
  driver has not taken by then are lost (`windows/device.rs:333`); `LossOnlyByOverflow`
  and `SendRingDrains` are stated as long as somebody holds the session.
* `windows/device.rs:45` says of the check of the library "Ensure the dll file has not
  been tampered with.". When `LoadLibraryW` fails, the file that is checked is the program,
  and `Library::new` may still load the library. With a program that is not signed by the
  provider the check then refuses; with one that is, nothing has been checked of the
  library. `LibraryIsTheCheckedFile` exempts such a program.

## 5. The proofs

Checked by TLAPS for every value of the constants, from the named assumptions of the
modules:

* the channel and the send ring have room for a packet, bounds are natural numbers,
  kernel queues are not empty, lengths of buffers are natural numbers and the width of
  their field is positive (`CapAssumption`, `BoundsAssumption`, `MaxFdAssumption`,
  `SizesAssumption`); the kernel takes at least one buffer, and a packet is a sequence of
  bytes that is not empty (`PacketsAssumption`);
* the names of threads, tasks and writers are not those of other values
  (`ThreadsAssumption`, `TasksAssumption`, `WritersAssumption`);
* an option that is left out is no address, and the defaults are IPv4 addresses with a
  prefix for a mask, as the constants of the crate are (`MasksAssumption`,
  `DefaultsAssumption`, `UnsetAssumption`);
* an MTU is a natural number, a `u16` in the code (`MtuAssumption`), a program gives a
  `Configuration` integers, IP addresses of four or sixteen octets, or texts
  (`InputsAssumption`), and what is there
  before the program starts are interfaces as the kernel keeps them, none of them the
  device's (`BeforeAssumption`).

TLC evaluates each of them on its runs. Every module has an inductive invariant, `IInv` (`BsdIInv` for FreeBSD)
(that of `PosixDevice` has a second part, `SettingInv`), which TLC checked on the constants
of the run before it was proved; `Invariance` is `Spec => []IInv`, and each property follows from a conjunct or two. Of the properties,
few are inductive as they stand; what each needs besides is the following.

* `WinAsyncReaderProofs`: `NoLostWakeup` needs nothing more, but
  `ReadEventCoversRing` must also say what holds before the pump first waits
  (`EventInv`: the event is signalled in `start` too when there is something to
  receive). `PumpResourcesHeld` needs where `drop` is and what it has done, and that the
  session's owners contain the pump exactly while it runs (`DropInv`).
  `StreamEndsWithAdapter` needs that nobody but drop signals the cancel event.
  `ImplementsStream` needs that the pump holds a packet exactly in `send` (`HeldInv`)
  and that once the end has been reported the pump has ended (`EndInv`), so that no
  packet is accepted after the end; it maps every action to an action of `PacketStream`
  or a stutter (`PumpReceive` to `Accept`, `PollPacket` to `Deliver`, `PollEnd` to `End`,
  `PumpSend` to nothing). `StreamIsLossless` is about the abstract specification alone:
  read, taken and offered packets, in this order, stay 1, 2, ..., `arrived` whatever
  steps of a `PacketStream` are taken (`PacketsKeepOrder`, from lemmas about moving the
  head of a sequence to the end of another). `Losslessness` follows from the two.
* `WinSessionProofs`: that packets leave whole and in the order of each sender's calls
  (`TransmitsWholeInOrder`) is a statement about `transmitted` only, but depends on the
  ring that feeds it. `OrderInv` orders the packets of a sender through both, and under
  the number of its calls, so that the next one comes last; `WholeInv` says that what is
  released was copied whole; `SlotInv` that a sender has an unreleased packet of its own,
  and one only, exactly while it is between allocating and releasing it, so that `Fill`
  and `FillPanics` work on that packet wherever it has moved in the ring. `OrderedMove`,
  `OrderedAppend` and their companions carry these through the sequences.
  `LossOnlyByOverflow` is preserved by each step together with `SlotInv`; it is stated
  while the session is open, so the drops need that a session which is open after a drop
  was open before it and kept its ring (`OpenBefore`, `DropIs`). `ReadSafety` is an action
  property: a step in which a read fails follows a shutdown by the program or the end of
  the adapter, because `LifeInv` says that the drop of the `Tun` has only signalled the
  event when there is no owner left, and that whoever is inside a call is an owner.
* `RouteProofs`: of macOS, `RouteIsRemembered` is inductive given the types, as
  `SetRouteKeeps` shows for each outcome of `set_route`. `RouteFollowsUntilFailure` is not:
  it compares route and interface, but a setter computes its route from the copy, so
  `CopyFollows` adds that the copy is the route of the interface. Of FreeBSD,
  `RouteFollowsAddress` needs that there is neither address nor route nor setter to call
  before the first alias; `BsdLossSafety` is an action property of the steps alone.
* `PacketIoProofs`: the state matters little here, and the lists of buffers everything.
  `IInv` is types and `WritesArriveWhole`; each of the three theorems rests on what the
  operators give for every packet and every list of buffers, by induction over the list.
  The library's induction theorems take an operator, which the provers cannot instantiate,
  so `Induction` states it for a set of naturals instead, from the library's theorem that
  every set of naturals which is not empty has a minimal member (`WFMin`). `Recursion` gives
  the function of a recursive definition and `Agree` compares two, whence `UptoIs`,
  `WithoutIs` and `FlattenIs`: the equations of `Upto`, `Without` and `FlattenSeq`. Of
  reads: `ScatterIs` says that the scattered pieces are the beginning of the data,
  `PutvIs` that the loop of `putv` leaves the same, and `RecvPi` that with the header, the
  list of buffers that have room, and the count less four, it is still the same: what
  stands before a buffer in that list is what stands before it in the program's, and four
  bytes (`RoomyIs`, `UptoBehind`, `SubSeqBehind`). Of writes: leaving out the empty buffers
  changes neither the data nor what they begin with (`NonEmptyIs`, `LeadingVersion`), so
  both devices send the same message or refuse it (`SendIs`), and every action that writes
  carries the data of whole packets (`WritesCarry`). From these `Writes`, `Reads` and
  `Invisible`.
* `WinDeviceProofs`: `HeldInv` says which handles are open at each stage of
  `Device::new`, `MineInv` that the device has exactly one adapter while it holds a
  handle of one, `SignerInv` that there is no `signer` before its name is read, and
  `CheckedInv` what `checked` is from the resolution of the path on and that it is the
  provider's from the comparison of names on. `SignatureSafety` follows, and so does
  `LibrarySafety`: the loads are independent of each other, but if the program is not the
  provider's, then what was checked and found the provider's is the library. For `AddressSafety`, `AddressesInv` follows the two
  configurations: after the first, the adapter has its tuple or not; during the second,
  an option has its value when the first was made or its setter is no longer in `todo`.
  A setter preserves this although it may set the mask too: `SetsKeeps` shows that it only
  does so where there is none.
* `PosixDeviceProofs`: `NameInv` is what makes `OthersUntouched` true: until somebody
  else renames it, a Linux device remembers the name of its one interface, through every
  setter, refused call and rename of its own. `TodoInv` says that only the `configure` of
  a Linux device has setters to call; `KernelInv` that each ioctl leaves an interface as
  the kernel keeps them (`ApplyKeeps`), which is most of `TypeCorrect`.
  `NewDeviceSafety` adds `SettingInv`: until the first call, every option that the
  configuration gave still has its setter in `todo` or is on the interface. A step of
  `configure` preserves it (`StepSettles`) because the setter of the address, the one that
  resets others, can only be the first of the plan (`PlanAsks`), because nothing but a new
  mask of an L2 interface changes an option of another name (`ApplySets`), and because
  until somebody renames the interface it is the one under the name (`NameInv`); in
  `PlanOf` with the mask first, `PlanAsks` fails. That the getters then answer what was meant
  is the round trip of an address: the octets of an integer are its 32 bits from the low
  end on (`OctetsAdd`), the kernel reads what `ipaddr_to_sockaddr` wrote into an ifreq or
  sees another family (`SentIsRead`), and `sockaddr_to_rs_addr` returns what the kernel
  keeps (`KernelIsAnswered`).
* `UnixAsyncIoProofs`: `IInv` is `TypeOK`, `NoLostReadiness`, `NoLostWakeup`,
  `ClearInv` and `StartedInv`. The first two properties are preserved by every step but `Clear`, which
  removes a bit although a packet may have arrived since the system call failed;
  `ClearInv` says that a task about to clear with a guard that is still current has,
  for an available direction, the event on its way, so that the bit comes back.
  `NoLostWakeup` follows the slot of a direction that one task has used, and needs that
  whoever is in a poll function or suspended has started, and is not suspended in a
  `try_` call (`StartedInv`). From these,
  `TypeCorrect`, `ReadinessSafety` and `WakeupSafety`.
* `FdOwnershipProofs`: `IInv` is `TypeOK`, `Owned` (which fields and handles there are
  at each stage of a device's life), `Agree` (the table and the numbers the crate
  holds agree, and the two numbers differ), `Flags` (`close_fd_on_drop` is only off
  for an adopted descriptor) and `Kept` (what is left of the crate's in the table once
  it is done). Every drop is one `Release`, so the lemmas `ReleaseType`,
  `ReleaseAgree` and their companions are shared by all of them through `DropKeeps`.
  From these `TypeCorrect`, `HandleSafety`, `CtlSafety`, `LeakFreedom`, and
  `CloseSafety`, an action property: a step that frees a number is a `Release` of it.

Only model-checked: the five liveness properties, which rest on fairness and on ENABLED,
which the prover does not handle. Every invariant and action property that a run checks and
finds true, and the refinement of `PacketStream`, is a theorem.

## 6. Not modelled

Of the parts that are modelled:

* macOS: the choice of a unit number from a name (its `+ 1` and the length of names), and
  devices adopted from a descriptor, whose setters all fail.
* FreeBSD: the scan for a free device, which neither uses nor closes descriptor 0, and
  `set_tun_name`.
* Windows: the DNS servers of the feature `wintun-dns`, the capacity of the ring, and the
  getters, which ask the adapter.
* Linux: the bytes of the netlink message of `set_qdisc`, which is one step that works or is
  logged, and the effects of `napi` and `vnet_hdr` in the kernel.

Left out for good: the system calls themselves, the generated bindings (`sys.rs`), error
types and their texts, and the examples.
