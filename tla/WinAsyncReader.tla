--------------------------- MODULE WinAsyncReader ---------------------------
(***************************************************************************)
(* The Windows asynchronous device after AsyncDevice::split                *)
(* (src/src/async/win_device.rs): a pump thread moves packets from the     *)
(* Wintun ring into a bounded tokio channel, a task polls the channel, and *)
(* AsyncReader::drop cancels the pump and joins it while the writers,      *)
(* which own the Device, come and go.                                      *)
(*                                                                         *)
(* Packets are numbered 1, 2, ... as they arrive; their bytes, and the     *)
(* truncation to the caller's buffer, are left out.  External and modelled *)
(* from how the code uses them: the Wintun session (ring, read event,      *)
(* end of file), Win32 events and handles, the tokio channel and wakers.   *)
(***************************************************************************)
EXTENDS Integers, Sequences

CONSTANTS
    Cap,         \* capacity of the channel (1 << 10 in the code)
    MaxPackets,  \* bound on the packets the interface produces
    MaxWriters   \* bound on the AsyncWriter clones alive at once

ASSUME CapAssumption == Cap \in Nat \ {0}
ASSUME BoundsAssumption == MaxPackets \in Nat /\ MaxWriters \in Nat \ {0}

VARIABLES
    \* the Wintun session
    arrived,       \* packets produced so far
    ring,          \* packets in the ring, not yet received by the pump
    eof,           \* the adapter is terminating: receiving fails
    readEvent,     \* the read-wait event (auto-reset) is signalled
    sessionOwners, \* who holds an Arc<Session>
    \* the pump thread
    pump,          \* where the thread is
    held,          \* the packet received and not yet in the channel
    \* the channel and the cancel event
    queue,         \* packets in the channel
    waker,         \* the channel holds the waker of the reading task
    cancelEvent,   \* the cancel event (manual-reset) is signalled
    cancelOpen,    \* the handle of the cancel event is open
    \* the reading task and the writers
    reader,        \* what the reading task does with the AsyncReader
    woken,         \* the reading task is scheduled to poll again
    received,      \* packets returned by poll_read, oldest first
    ended,         \* a read has returned Ok(0) for the closed channel
    writers        \* number of AsyncWriters alive: they share the Device

session == <<arrived, ring, eof, readEvent, sessionOwners>>
channel == <<queue, waker>>
cancel  == <<cancelEvent, cancelOpen>>
task    == <<reader, woken, received, ended>>
vars    == <<session, pump, held, channel, cancel, task, writers>>

PumpStates   == {"start", "wait", "recv", "send", "done", "failed"}
ReaderStates == {"idle", "pending", "join", "close", "unref", "gone"}
SessionUsers == {"device", "pump"}

TypeOK ==
    /\ arrived \in Nat
    /\ ring \in Seq(Nat)
    /\ eof \in BOOLEAN
    /\ readEvent \in BOOLEAN
    /\ sessionOwners \in SUBSET SessionUsers
    /\ pump \in PumpStates
    /\ held \in Seq(Nat)
    /\ queue \in Seq(Nat)
    /\ waker \in BOOLEAN
    /\ cancelEvent \in BOOLEAN
    /\ cancelOpen \in BOOLEAN
    /\ reader \in ReaderStates
    /\ woken \in BOOLEAN
    /\ received \in Seq(Nat)
    /\ ended \in BOOLEAN
    /\ writers \in Nat

(* The sender half lives in the pump thread and is dropped when it returns. *)
PumpAlive == pump \notin {"done", "failed"}

(* Mutant: the AsyncReader keeps a clone of the sender. *)
TxOpenKept == TRUE

TxOpen == PumpAlive

(* poll_recv stores the waker of a pending task; using it schedules the task. *)
WakeReader == /\ waker' = FALSE
              /\ woken' = (woken \/ waker)

-----------------------------------------------------------------------------
(* AsyncReader::new and AsyncWriter::new: the event is created, the pump is  *)
(* spawned with its own Arc<Session>, and the first writer owns the Device.  *)
Init ==
    /\ arrived = 0
    /\ ring = <<>>
    /\ eof = FALSE
    /\ readEvent = FALSE
    /\ sessionOwners = SessionUsers
    /\ pump = "start"
    /\ held = <<>>
    /\ queue = <<>>
    /\ waker = FALSE
    /\ cancelEvent = FALSE
    /\ cancelOpen = TRUE
    /\ reader = "idle"
    /\ woken = FALSE
    /\ received = <<>>
    /\ ended = FALSE
    /\ writers = 1

-----------------------------------------------------------------------------
(* The Wintun driver (external). *)

PacketArrives ==
    /\ arrived < MaxPackets
    /\ ~eof
    /\ sessionOwners # {}
    /\ arrived' = arrived + 1
    /\ ring' = Append(ring, arrived + 1)
    /\ readEvent' = TRUE
    /\ UNCHANGED <<eof, sessionOwners, pump, held, channel, cancel, task, writers>>

(* The adapter goes away: what is left in the ring can no longer be received. *)
AdapterTerminates ==
    /\ ~eof
    /\ eof' = TRUE
    /\ readEvent' = TRUE
    /\ UNCHANGED <<arrived, ring, sessionOwners, pump, held, channel, cancel, task,
                   writers>>

-----------------------------------------------------------------------------
(* The pump thread. *)

(* get_read_wait_event succeeded. *)
PumpStart ==
    /\ pump = "start"
    /\ pump' = "wait"
    /\ UNCHANGED <<session, held, channel, cancel, task, writers>>

(* The closure returns: its tx is dropped, which closes the channel and wakes *)
(* the reader, and so is its Arc<Session>.                                    *)
PumpReturns ==
    /\ sessionOwners' = sessionOwners \ {"pump"}
    /\ WakeReader
    /\ UNCHANGED <<arrived, ring, eof, readEvent, held, queue, cancel, reader, received,
                   ended, writers>>

(* get_read_wait_event failed. *)
PumpStartFails ==
    /\ pump = "start"
    /\ pump' = "failed"
    /\ PumpReturns

(* WaitForMultipleObjects returns the lowest signalled index: the read event, *)
(* which resets, before the cancel event.                                     *)
PumpWaitRead ==
    /\ pump = "wait"
    /\ readEvent
    /\ readEvent' = FALSE
    /\ pump' = "recv"
    /\ UNCHANGED <<arrived, ring, eof, sessionOwners, held, channel, cancel, task,
                   writers>>

PumpWaitCancel ==
    /\ pump = "wait"
    /\ ~readEvent
    /\ cancelEvent
    /\ pump' = "done"
    /\ PumpReturns

(* try_receive returned a packet. *)
PumpReceive ==
    /\ pump = "recv"
    /\ ~eof
    /\ ring # <<>>
    /\ held' = <<Head(ring)>>
    /\ ring' = Tail(ring)
    /\ pump' = "send"
    /\ UNCHANGED <<arrived, eof, readEvent, sessionOwners, channel, cancel, task,
                   writers>>

(* try_receive returned None: back to waiting. *)
PumpDrained ==
    /\ pump = "recv"
    /\ ~eof
    /\ ring = <<>>
    /\ pump' = "wait"
    /\ UNCHANGED <<session, held, channel, cancel, task, writers>>

(* try_receive failed. *)
PumpReceiveFails ==
    /\ pump = "recv"
    /\ eof
    /\ pump' = "done"
    /\ PumpReturns

(* Mutants: one try_receive for each wait; try_send, which drops when it is full. *)
PumpSendThenWait ==
    /\ pump = "send"
    /\ Len(queue) < Cap
    /\ queue' = queue \o held
    /\ held' = <<>>
    /\ pump' = "wait"
    /\ WakeReader
    /\ UNCHANGED <<session, cancel, reader, received, ended, writers>>

PumpSendOrDrop ==
    /\ pump = "send"
    /\ queue' = IF Len(queue) < Cap THEN queue \o held ELSE queue
    /\ held' = <<>>
    /\ pump' = "recv"
    /\ WakeReader
    /\ UNCHANGED <<session, cancel, reader, received, ended, writers>>

(* blocking_send waits for a free slot.  Its error branch needs a closed       *)
(* receiver; PumpResourcesHeld says the pump never meets one.                  *)
PumpSend ==
    /\ pump = "send"
    /\ Len(queue) < Cap
    /\ queue' = queue \o held
    /\ held' = <<>>
    /\ pump' = "recv"
    /\ WakeReader
    /\ UNCHANGED <<session, cancel, reader, received, ended, writers>>

-----------------------------------------------------------------------------
(* The task that owns the AsyncReader. *)

Polling == reader \in {"idle", "pending"}

(* poll_read and poll_read_vectored: poll_recv has a packet. *)
PollPacket ==
    /\ Polling
    /\ queue # <<>>
    /\ received' = Append(received, Head(queue))
    /\ queue' = Tail(queue)
    /\ reader' = "idle"
    /\ woken' = FALSE
    /\ UNCHANGED <<session, pump, held, waker, cancel, ended, writers>>

(* Mutant: the end is reported as soon as the channel is closed. *)
PollEndEarly ==
    /\ Polling
    /\ ~TxOpen
    /\ ended' = TRUE
    /\ reader' = "idle"
    /\ woken' = FALSE
    /\ UNCHANGED <<session, pump, held, channel, cancel, received, writers>>

(* poll_recv returns None: the channel is closed and empty; the read is Ok(0). *)
PollEnd ==
    /\ Polling
    /\ queue = <<>>
    /\ ~TxOpen
    /\ ended' = TRUE
    /\ reader' = "idle"
    /\ woken' = FALSE
    /\ UNCHANGED <<session, pump, held, channel, cancel, received, writers>>

(* Mutant: Pending is returned for an empty channel without polling it. *)
PollPendingUnregistered ==
    /\ Polling
    /\ queue = <<>>
    /\ TxOpen
    /\ reader' = "pending"
    /\ woken' = FALSE
    /\ UNCHANGED <<session, pump, held, channel, cancel, received, ended, writers>>

(* poll_recv stores the waker and the task is suspended. *)
PollPending ==
    /\ Polling
    /\ queue = <<>>
    /\ TxOpen
    /\ waker' = TRUE
    /\ reader' = "pending"
    /\ woken' = FALSE
    /\ UNCHANGED <<session, pump, held, queue, cancel, received, ended, writers>>

Poll == PollPacket \/ PollEnd \/ PollPending

(* try_read on an empty channel is WouldBlock, and a waker that does nothing *)
(* takes the place of the stored one.                                        *)
TryReadEmpty ==
    /\ reader = "idle"
    /\ queue = <<>>
    /\ TxOpen
    /\ waker' = FALSE
    /\ UNCHANGED <<session, pump, held, queue, cancel, task, writers>>

(* The future of a pending read is dropped (the other branch of a select!). *)
(* The channel keeps the stored waker.                                      *)
CancelRead ==
    /\ reader = "pending"
    /\ reader' = "idle"
    /\ woken' = FALSE
    /\ UNCHANGED <<session, pump, held, channel, cancel, received, ended, writers>>

(* Mutants: the event is not set; the thread is not joined. *)
DropWithoutSetEvent ==
    /\ Polling
    /\ reader' = "join"
    /\ UNCHANGED <<session, pump, held, channel, cancel, woken, received, ended, writers>>

DropDetached ==
    /\ reader = "join"
    /\ reader' = "close"
    /\ UNCHANGED <<session, pump, held, channel, cancel, woken, received, ended, writers>>

(* AsyncReader::drop, in four steps: SetEvent; join; CloseHandle; and, after *)
(* the body of drop, the fields, so that rx goes last.                       *)
DropSetEvent ==
    /\ Polling
    /\ cancelEvent' = TRUE
    /\ reader' = "join"
    /\ UNCHANGED <<session, pump, held, channel, cancelOpen, woken, received, ended,
                   writers>>

DropJoin ==
    /\ reader = "join"
    /\ ~PumpAlive
    /\ reader' = "close"
    /\ UNCHANGED <<session, pump, held, channel, cancel, woken, received, ended, writers>>

DropCloseHandle ==
    /\ reader = "close"
    /\ cancelOpen' = FALSE
    /\ reader' = "unref"
    /\ UNCHANGED <<session, pump, held, channel, cancelEvent, woken, received, ended,
                   writers>>

DropFields ==
    /\ reader = "unref"
    /\ reader' = "gone"
    /\ UNCHANGED <<session, pump, held, channel, cancel, woken, received, ended, writers>>

-----------------------------------------------------------------------------
(* The writers. *)

CloneWriter ==
    /\ writers \in 1..(MaxWriters - 1)
    /\ writers' = writers + 1
    /\ UNCHANGED <<session, pump, held, channel, cancel, task>>

(* Mutants: a writer is dropped twice; dropping the Device ends the pump too. *)
DropWriterTwice ==
    /\ writers >= 0
    /\ writers' = writers - 1
    /\ sessionOwners' = IF writers = 1 THEN sessionOwners \ {"device"} ELSE sessionOwners
    /\ UNCHANGED <<arrived, ring, eof, readEvent, pump, held, channel, cancel, task>>

DropWriterCancels ==
    /\ writers > 0
    /\ writers' = writers - 1
    /\ sessionOwners' = IF writers = 1 THEN sessionOwners \ {"device"} ELSE sessionOwners
    /\ cancelEvent' = (cancelEvent \/ writers = 1)
    /\ UNCHANGED <<arrived, ring, eof, readEvent, pump, held, channel, cancelOpen, task>>

(* The last AsyncWriter drops the Arc<Device>: Tun::drop signals the shutdown *)
(* event of the session, which the pump does not wait for, and the Device's   *)
(* Arc<Session> is released.                                                  *)
DropWriter ==
    /\ writers > 0
    /\ writers' = writers - 1
    /\ sessionOwners' = IF writers = 1 THEN sessionOwners \ {"device"} ELSE sessionOwners
    /\ UNCHANGED <<arrived, ring, eof, readEvent, pump, held, channel, cancel, task>>

-----------------------------------------------------------------------------

Wintun     == PacketArrives \/ AdapterTerminates
PumpStep   == \/ PumpStart \/ PumpStartFails \/ PumpWaitRead \/ PumpWaitCancel
              \/ PumpReceive \/ PumpDrained \/ PumpReceiveFails \/ PumpSend
DropStep   == DropJoin \/ DropCloseHandle \/ DropFields
ReaderStep == Poll \/ TryReadEmpty \/ CancelRead \/ DropSetEvent \/ DropStep
WriterStep == CloneWriter \/ DropWriter

Next == Wintun \/ PumpStep \/ ReaderStep \/ WriterStep

Spec == Init /\ [][Next]_vars

(* The OS schedules the pump, the runtime polls a woken task, and a thread    *)
(* inside drop runs on.  Nothing makes the program read, clone or drop.       *)
Fairness == /\ WF_vars(PumpStep)
            /\ WF_vars(reader = "pending" /\ woken /\ Poll)
            /\ WF_vars(DropStep)

FairSpec == Spec /\ Fairness

(* The program keeps reading until it drops the reader. *)
KeepsReading == WF_vars(reader = "idle" /\ Poll)

-----------------------------------------------------------------------------
(* Safety *)

(* The read event resets when the pump wakes, so the pump must drain the ring  *)
(* before it waits again: whenever it waits and the ring holds a packet, or    *)
(* the adapter has ended, the event is signalled (win_device.rs:68-83).        *)
ReadEventCoversRing ==
    pump = "wait" /\ (ring # <<>> \/ eof) => readEvent

(* A suspended read that nobody has woken has nothing to return, and the        *)
(* channel still knows whom to wake (win_device.rs:96-111).                     *)
NoLostWakeup ==
    reader = "pending" /\ ~woken => waker /\ queue = <<>> /\ TxOpen

(* While the pump thread runs, drop has neither closed the event it waits on    *)
(* nor released the receiver it sends to, and nobody has ended the session it   *)
(* receives from: blocking_send cannot fail (win_device.rs:113-126).            *)
PumpResourcesHeld ==
    PumpAlive => cancelOpen /\ reader # "gone" /\ "pump" \in sessionOwners

(* While the reader is in use the pump only returns because the adapter ended   *)
(* (or never had a read event): dropping every writer, and with them the        *)
(* Device, does not end the stream, as `let (mut reader, _) = dev.split()` in   *)
(* the examples needs.                                                          *)
StreamEndsWithAdapter ==
    Polling /\ pump = "done" => eof

(* The reader is a PacketStream: the packets taken from the ring are those the  *)
(* pump holds or has put in the channel.                                        *)
Stream == INSTANCE PacketStream WITH
              offered  <- ring,
              accepted <- queue \o held

StreamSpec == Stream!Spec

(* No packet is lost, repeated or reordered between the ring and poll_read,     *)
(* even while the reader is dropped (win_device.rs:73-82, 96-111).              *)
NoPacketLost == Stream!Lossless

-----------------------------------------------------------------------------
(* Liveness *)

(* A suspended read completes once the interface has a packet or has ended, and *)
(* a program that keeps reading gets every packet, unless the adapter ends, the *)
(* pump never started, or the program drops the reader (win_device.rs:95-111).  *)
ReadsComplete ==
    /\ (reader = "pending" /\ (ring # <<>> \/ eof)) ~> (reader # "pending")
    /\ KeepsReading => \A n \in 1..MaxPackets :
          (arrived >= n) ~> (Len(received) >= n \/ eof \/ pump = "failed" \/ ~Polling)

ChannelFull == pump = "send" /\ Len(queue) = Cap

(* Dropping the reader ends, except when the pump is blocked on a full channel: *)
(* the receiver that could make room waits in join.                             *)
DropCompletesUnlessFull ==
    (reader = "join") ~> (reader = "gone" \/ ChannelFull)

(* Dropping the reader ends. *)
DropCompletes == (reader = "join") ~> (reader = "gone")

=============================================================================
