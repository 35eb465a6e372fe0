----------------------------- MODULE UnixAsyncIo -----------------------------
(***************************************************************************)
(* The asynchronous reader and writers of the POSIX platforms               *)
(* (src/src/async/unix_device.rs) over one non-blocking TUN descriptor.     *)
(* poll_read and poll_write are the same loop: wait for the readiness of    *)
(* the direction, try the system call, and on WouldBlock clear the          *)
(* readiness and start again.                                               *)
(*                                                                          *)
(* External and modelled from how the code uses it: tokio's AsyncFd, which  *)
(* caches the readiness of the descriptor, remembers ONE waker for each     *)
(* direction, and ignores a clear that is older than its last event; the    *)
(* edge-triggered poller; the kernel's queues.  The tick AsyncFd compares   *)
(* is abstracted to whether a guard is as recent as the last event.         *)
(***************************************************************************)
EXTENDS Integers, FiniteSets

CONSTANTS
    Reader,   \* the AsyncReader (it is not Clone)
    Writers,  \* the AsyncWriter and its clones
    None,     \* no waker, or one that does nothing
    MaxRx,    \* bound on the packets the kernel queues for reading
    MaxTx     \* bound on the packets the kernel queues for writing

Tasks == {Reader} \cup Writers
Dirs  == {"r", "w"}

ASSUME TasksAssumption == Reader \notin Writers /\ None \notin Tasks
ASSUME BoundsAssumption == MaxRx \in Nat \ {0} /\ MaxTx \in Nat \ {0}

VARIABLES
    \* the kernel
    rx,        \* packets waiting to be read
    tx,        \* packets written and not yet transmitted
    edge,      \* directions with an event the poller has not handed over
    \* AsyncFd
    bits,      \* cached readiness
    slot,      \* the task to wake for each direction
    shutdown,  \* the runtime is shut down: polling for readiness fails
    \* the tasks
    pc,        \* where each task is in its poll function
    noop,      \* the running poll is a try_read / try_write: its waker does nothing
    current,   \* the task holds a guard as recent as the last event
    woken,     \* the task is scheduled to poll its operation again
    started    \* history: the tasks that have ever polled

kernel  == <<rx, tx>>
asyncfd == <<bits, slot, shutdown>>
tasks   == <<pc, noop, current, woken, started>>
vars    == <<kernel, edge, asyncfd, tasks>>

TypeOK ==
    /\ rx \in 0..MaxRx
    /\ tx \in 0..MaxTx
    /\ edge \in SUBSET Dirs
    /\ bits \in SUBSET Dirs
    /\ slot \in [Dirs -> Tasks \cup {None}]
    /\ shutdown \in BOOLEAN
    /\ pc \in [Tasks -> {"idle", "check", "try", "clear", "pending"}]
    /\ noop \in [Tasks -> BOOLEAN]
    /\ current \in [Tasks -> BOOLEAN]
    /\ woken \in [Tasks -> BOOLEAN]
    /\ started \in SUBSET Tasks

Dir(t) == IF t = Reader THEN "r" ELSE "w"

(* A system call in direction d would not block. *)
Available(d) == IF d = "r" THEN rx > 0 ELSE tx < MaxTx

(* Every task whose waker is stored for a direction of D is scheduled; one that *)
(* has no operation any more, or is in a try_ call, will have nothing to poll.  *)
Wake(D) ==
    /\ woken' = [t \in Tasks |-> \/ woken[t]
                                 \/ pc[t] # "idle" /\ ~noop[t] /\ \E d \in D : slot[d] = t]
    /\ slot' = [d \in Dirs |-> IF d \in D THEN None ELSE slot[d]]

-----------------------------------------------------------------------------
(* AsyncDevice::new and split: the descriptor is non-blocking and registered, *)
(* and the poller reports that it can be written.                             *)
Init ==
    /\ rx = 0
    /\ tx = 0
    /\ edge = {"w"}
    /\ bits = {}
    /\ slot = [d \in Dirs |-> None]
    /\ shutdown = FALSE
    /\ pc = [t \in Tasks |-> "idle"]
    /\ noop = [t \in Tasks |-> FALSE]
    /\ current = [t \in Tasks |-> FALSE]
    /\ woken = [t \in Tasks |-> FALSE]
    /\ started = {}

-----------------------------------------------------------------------------
(* The kernel and the poller (external). *)

(* A direction that becomes available raises an event; one that already was   *)
(* may raise another.                                                         *)
Raise(d) ==
    \/ edge' = edge \cup {d}
    \/ Available(d) /\ UNCHANGED edge

PacketArrives ==
    /\ rx < MaxRx
    /\ rx' = rx + 1
    /\ Raise("r")
    /\ UNCHANGED <<tx, asyncfd, tasks>>

PacketTransmitted ==
    /\ tx > 0
    /\ tx' = tx - 1
    /\ Raise("w")
    /\ UNCHANGED <<rx, asyncfd, tasks>>

(* The I/O driver hands the events over: the readiness is set, every guard    *)
(* becomes old, and the remembered tasks are woken.  The driver ends with the *)
(* runtime.                                                                   *)
DriverTurn ==
    /\ ~shutdown
    /\ edge # {}
    /\ bits' = bits \cup edge
    /\ current' = [t \in Tasks |-> FALSE]
    /\ Wake(edge)
    /\ edge' = {}
    /\ UNCHANGED <<kernel, shutdown, pc, noop, started>>

RuntimeShutdown ==
    /\ ~shutdown
    /\ shutdown' = TRUE
    /\ Wake(Dirs)
    /\ UNCHANGED <<kernel, edge, bits, pc, noop, current, started>>

-----------------------------------------------------------------------------
(* The tasks. *)

(* The poll function of t returns. *)
Return(t) ==
    /\ pc' = [pc EXCEPT ![t] = "idle"]
    /\ noop' = [noop EXCEPT ![t] = FALSE]
    /\ current' = [current EXCEPT ![t] = FALSE]
    /\ woken' = [woken EXCEPT ![t] = FALSE]

(* A task starts to poll read or write, or calls try_read or try_write. *)
Start(t) ==
    /\ pc[t] = "idle"
    /\ pc' = [pc EXCEPT ![t] = "check"]
    /\ started' = started \cup {t}
    /\ \E n \in BOOLEAN : noop' = [noop EXCEPT ![t] = n]
    /\ UNCHANGED <<kernel, edge, asyncfd, current, woken>>

(* A suspended task is polled again. *)
Repoll(t) ==
    /\ pc[t] = "pending"
    /\ woken[t]
    /\ pc' = [pc EXCEPT ![t] = "check"]
    /\ woken' = [woken EXCEPT ![t] = FALSE]
    /\ UNCHANGED <<kernel, edge, asyncfd, noop, current, started>>

(* poll_read_ready / poll_write_ready returned an error. *)
CheckFails(t) ==
    /\ pc[t] = "check"
    /\ shutdown
    /\ Return(t)
    /\ UNCHANGED <<kernel, edge, asyncfd, started>>

(* It returned a guard. *)
CheckReady(t) ==
    /\ pc[t] = "check"
    /\ ~shutdown
    /\ Dir(t) \in bits
    /\ pc' = [pc EXCEPT ![t] = "try"]
    /\ current' = [current EXCEPT ![t] = TRUE]
    /\ UNCHANGED <<kernel, edge, asyncfd, noop, woken, started>>

(* It is Pending: the waker takes the slot of the direction.  A try_ call, whose *)
(* waker does nothing, returns WouldBlock.                                      *)
CheckPending(t) ==
    /\ pc[t] = "check"
    /\ ~shutdown
    /\ Dir(t) \notin bits
    /\ \/ /\ noop[t]
          /\ slot' = [slot EXCEPT ![Dir(t)] = None]
          /\ Return(t)
       \/ /\ ~noop[t]
          /\ slot' = [slot EXCEPT ![Dir(t)] = t]
          /\ pc' = [pc EXCEPT ![t] = "pending"]
          /\ UNCHANGED <<noop, current, woken>>
    /\ UNCHANGED <<kernel, edge, bits, shutdown, started>>

(* Mutant: WouldBlock counts as a transfer. *)
TryDoneBlind(t) ==
    /\ pc[t] = "try"
    /\ IF t = Reader THEN rx' = rx - 1 /\ UNCHANGED tx
                     ELSE tx' = tx + 1 /\ UNCHANGED rx
    /\ Return(t)
    /\ UNCHANGED <<edge, asyncfd, started>>

(* The system call transferred a packet. *)
TryDone(t) ==
    /\ pc[t] = "try"
    /\ Available(Dir(t))
    /\ IF t = Reader THEN rx' = rx - 1 /\ UNCHANGED tx
                     ELSE tx' = tx + 1 /\ UNCHANGED rx
    /\ Return(t)
    /\ UNCHANGED <<edge, asyncfd, started>>

(* recv or send failed, with an error other than WouldBlock. *)
TryFails(t) ==
    /\ pc[t] = "try"
    /\ Return(t)
    /\ UNCHANGED <<kernel, edge, asyncfd, started>>

(* Mutant: WouldBlock is turned into Pending, without polling the readiness again. *)
TryWouldBlockSuspends(t) ==
    /\ pc[t] = "try"
    /\ ~Available(Dir(t))
    /\ pc' = [pc EXCEPT ![t] = "pending"]
    /\ UNCHANGED <<kernel, edge, asyncfd, noop, current, woken, started>>

TryWouldBlock(t) ==
    /\ pc[t] = "try"
    /\ ~Available(Dir(t))
    /\ pc' = [pc EXCEPT ![t] = "clear"]
    /\ UNCHANGED <<kernel, edge, asyncfd, noop, current, woken, started>>

(* try_io clears the readiness, unless an event came since; the loop continues. *)
(* Mutant: it clears whatever came.                                             *)
ClearAlways(t) ==
    /\ pc[t] = "clear"
    /\ bits' = bits \ {Dir(t)}
    /\ pc' = [pc EXCEPT ![t] = "check"]
    /\ current' = [current EXCEPT ![t] = FALSE]
    /\ UNCHANGED <<kernel, edge, slot, shutdown, noop, woken, started>>

Clear(t) ==
    /\ pc[t] = "clear"
    /\ bits' = IF current[t] THEN bits \ {Dir(t)} ELSE bits
    /\ pc' = [pc EXCEPT ![t] = "check"]
    /\ current' = [current EXCEPT ![t] = FALSE]
    /\ UNCHANGED <<kernel, edge, slot, shutdown, noop, woken, started>>

(* The future of a suspended read or write is dropped; the slot keeps its waker. *)
Cancel(t) ==
    /\ pc[t] = "pending"
    /\ pc' = [pc EXCEPT ![t] = "idle"]
    /\ woken' = [woken EXCEPT ![t] = FALSE]
    /\ UNCHANGED <<kernel, edge, asyncfd, noop, current, started>>

-----------------------------------------------------------------------------

Running(t) == \/ CheckFails(t) \/ CheckReady(t) \/ CheckPending(t)
              \/ TryDone(t) \/ TryFails(t) \/ TryWouldBlock(t) \/ Clear(t)

System == PacketArrives \/ PacketTransmitted \/ DriverTurn \/ RuntimeShutdown

Next == \/ System
        \/ \E t \in Tasks : Start(t) \/ Repoll(t) \/ Running(t) \/ Cancel(t)

Spec == Init /\ [][Next]_vars

(* The driver turns, a running poll function runs on, and a woken task is     *)
(* polled.  Nothing makes a task start, nor the kernel produce or transmit.   *)
Fairness == /\ WF_vars(DriverTurn)
            /\ \A t \in Tasks : WF_vars(Running(t)) /\ WF_vars(Repoll(t))

FairSpec == Spec /\ Fairness

-----------------------------------------------------------------------------
(* Safety *)

(* An available direction is never forgotten: AsyncFd knows it, or the event   *)
(* that will tell it is on its way, however the clear of a WouldBlock, new     *)
(* events and other tasks interleave (unix_device.rs:76-82, 113-119).          *)
NoLostReadiness == \A d \in Dirs : Available(d) => d \in bits \cup edge

(* One task only has used the direction: the writer has no clones, or they are *)
(* not used.                                                                   *)
Alone(d) == \A t, u \in started : Dir(t) = d /\ Dir(u) = d => t = u

(* A suspended task that shares its direction with nobody and has not been     *)
(* woken is the one AsyncFd will wake, and it is not missing a readiness       *)
(* already known: poll functions never suspend without a waker in place, and   *)
(* try_read / try_write cannot take it away (unix_device.rs:77, 114;           *)
(* async/mod.rs:41-48).                                                        *)
NoLostWakeup ==
    \A t \in Tasks : Alone(Dir(t)) /\ pc[t] = "pending" /\ ~woken[t] =>
        /\ slot[Dir(t)] = t
        /\ Dir(t) \notin bits
        /\ ~shutdown

-----------------------------------------------------------------------------
(* Liveness *)

(* The read or write of a task that shares its direction with nobody completes *)
(* once its system call would not block (unix_device.rs:74-98, 110-134).       *)
Busy(d) == \E t \in Tasks : Dir(t) = d /\ pc[t] # "idle"

OperationCompletes ==
    \A d \in Dirs : (Alone(d) /\ Busy(d) /\ Available(d)) ~> (~Busy(d) \/ ~Alone(d))

=============================================================================
