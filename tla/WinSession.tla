----------------------------- MODULE WinSession -----------------------------
(***************************************************************************)
(* The synchronous use of a Wintun session by the threads that share its   *)
(* Tun (src/src/platform/windows/device.rs): a Reader and a Writer after   *)
(* Device::split, or a Device and clones of AsyncWriter.                   *)
(*                                                                         *)
(* External: the session.  A packet to send is allocated in the send ring, *)
(* filled, and released with send_packet; the driver takes the packets in  *)
(* the order of their allocation.  receive_blocking alternates between     *)
(* try_receive and a wait for the read event or the shutdown event.  The   *)
(* crate builds wintun with panic_on_unsent_packets (src/Cargo.toml:51),   *)
(* so a panic that drops an unsent packet ends the process.  The drop of a *)
(* Session (WintunEndSession) discards what its rings hold.                *)
(***************************************************************************)
EXTENDS Integers, Sequences, FiniteSets

CONSTANTS
    Reader, Senders,   \* the threads
    Cap,               \* packets that the send ring holds
    Mod,               \* 2^16: allocate_send_packet takes a u16
    Sizes,             \* lengths of the buffers that are sent
    MaxSends,          \* bound: calls of each sender
    MaxPackets         \* bound: packets that arrive

ASSUME ThreadsAssumption == Reader \notin Senders
ASSUME SizesAssumption == Sizes \subseteq Nat /\ Mod \in Nat \ {0}
ASSUME BoundsAssumption == Cap \in Nat \ {0} /\ MaxSends \in Nat /\ MaxPackets \in Nat

Threads == {Reader} \cup Senders
NoCall  == -1

VARIABLES
    owners,       \* threads that hold an Arc of the Tun
    kept,         \* the program holds clones of the Arc<Session> (Tun::session)
    shutdown,     \* who has signalled the session's shutdown event, which stays so
    ended,        \* the adapter is gone
    aborted,      \* the process has aborted
    arrived,      \* packets that arrived so far
    ring,         \* packets in the receive ring
    readEvent,    \* auto-reset event of the receive ring
    reader,       \* the reader: "idle", "try" or "wait" in recv
    calls,        \* calls of send so far, for each sender
    sending,      \* length of the buffer a sender is about to copy, or NoCall
    tx,           \* the send ring
    accepted,     \* history: sends that returned Ok, as <<sender, call>>
    overflowed,   \* history: those that found the ring full
    transmitted   \* history: what the driver took

vars == <<owners, kept, shutdown, ended, aborted, arrived, ring, readEvent, reader,
          calls, sending, tx, accepted, overflowed, transmitted>>

receiveVars == <<arrived, ring, readEvent, reader>>
sendVars    == <<calls, sending, tx, accepted, overflowed, transmitted>>
lifeVars    == <<owners, kept, shutdown, ended, aborted>>

Packets == [from : Senders, call : 1..MaxSends, size : Sizes, len : 0..Mod-1, sent : BOOLEAN]

TypeOK ==
    /\ owners \in SUBSET Threads
    /\ kept \in BOOLEAN /\ shutdown \in SUBSET {"drop", "program"}
    /\ ended \in BOOLEAN /\ aborted \in BOOLEAN
    /\ arrived \in 0..MaxPackets
    /\ ring \in 0..arrived
    /\ readEvent \in BOOLEAN
    /\ reader \in {"idle", "try", "wait"}
    /\ calls \in [Senders -> 0..MaxSends]
    /\ sending \in [Senders -> Sizes \cup {NoCall}]
    /\ tx \in Seq(Packets) /\ Len(tx) <= Cap
    /\ accepted \in SUBSET (Senders \X (1..MaxSends))
    /\ overflowed \in SUBSET accepted
    /\ transmitted \in Seq(Packets)

(* A new Device, split or shared. *)
Init ==
    /\ owners \in {S \in SUBSET Threads : S # {}}
    /\ kept = FALSE
    /\ shutdown = {}
    /\ ended = FALSE
    /\ aborted = FALSE
    /\ arrived = 0
    /\ ring = 0
    /\ readEvent = FALSE
    /\ reader = "idle"
    /\ calls = [t \in Senders |-> 0]
    /\ sending = [t \in Senders |-> NoCall]
    /\ tx = <<>>
    /\ accepted = {}
    /\ overflowed = {}
    /\ transmitted = <<>>

Running == ~aborted

(* Somebody holds an Arc<Session>: the Tun does, as long as it has an owner. *)
Open == owners # {} \/ kept

-----------------------------------------------------------------------------
(* Tun::send and send_vectored, through with_packet *)

CanSend(t) == Running /\ t \in owners /\ sending[t] = NoCall /\ calls[t] < MaxSends

Called(t) == calls' = [calls EXCEPT ![t] = @ + 1]

Accept(t, c) == accepted' = accepted \cup {<<t, c>>}

(* The length of the packet is cut to 16 bits.  Mutant: it is not cut. *)
WholeLength(n) == n
CutLength(n)   == n % Mod

Allocate(t, n) ==
    /\ CanSend(t)
    /\ ~ended
    /\ Len(tx) < Cap
    /\ tx' = Append(tx, [from |-> t, call |-> calls[t] + 1, size |-> n, len |-> CutLength(n),
                         sent |-> FALSE])
    /\ sending' = [sending EXCEPT ![t] = n]
    /\ Called(t)
    /\ UNCHANGED <<accepted, overflowed, transmitted>>
    /\ UNCHANGED <<receiveVars, lifeVars>>

(* ERROR_BUFFER_OVERFLOW is reported as success; the packet is gone. *)
SendOverflows(t) ==
    /\ CanSend(t)
    /\ ~ended
    /\ Len(tx) = Cap
    /\ Accept(t, calls[t] + 1)
    /\ overflowed' = overflowed \cup {<<t, calls[t] + 1>>}
    /\ Called(t)
    /\ UNCHANGED <<sending, tx, transmitted>>
    /\ UNCHANGED <<receiveVars, lifeVars>>

(* ERROR_HANDLE_EOF is BrokenPipe.  Mutant: it is reported as success as well. *)
EofAccepted(t) == Accept(t, calls[t] + 1)
EofRefused(t)  == UNCHANGED accepted

SendFails(t) ==
    /\ CanSend(t)
    /\ ended
    /\ EofRefused(t)
    /\ Called(t)
    /\ UNCHANGED <<sending, tx, overflowed, transmitted>>
    /\ UNCHANGED <<receiveVars, lifeVars>>

(* The packet that t has allocated. *)
Slot(t) == CHOOSE i \in DOMAIN tx : tx[i].from = t /\ ~tx[i].sent

(* copy_from_slice wants equal lengths.  Mutant: it copies as much as fits. *)
CopiesWhatFits(t) == TRUE
Copies(t)         == sending[t] = tx[Slot(t)].len

(* send_packet.  Mutant: the packet is filled and not released. *)
Unsent(t)     == tx
SendPacket(t) == [tx EXCEPT ![Slot(t)].sent = TRUE]

Fill(t) ==
    /\ Running
    /\ sending[t] # NoCall
    /\ Copies(t)
    /\ tx' = SendPacket(t)
    /\ Accept(t, tx[Slot(t)].call)
    /\ sending' = [sending EXCEPT ![t] = NoCall]
    /\ UNCHANGED <<calls, overflowed, transmitted>>
    /\ UNCHANGED <<receiveVars, lifeVars>>

(* The lengths differ: the copy panics, and so does the drop of the packet. *)
FillPanics(t) ==
    /\ Running
    /\ sending[t] # NoCall
    /\ ~Copies(t)
    /\ aborted' = TRUE
    /\ UNCHANGED <<owners, kept, shutdown, ended>>
    /\ UNCHANGED <<receiveVars, sendVars>>

(* The driver. *)
Transmit ==
    /\ Running
    /\ ~ended
    /\ tx # <<>> /\ Head(tx).sent
    /\ tx' = Tail(tx)
    /\ transmitted' = Append(transmitted, Head(tx))
    /\ UNCHANGED <<calls, sending, accepted, overflowed>>
    /\ UNCHANGED <<receiveVars, lifeVars>>

-----------------------------------------------------------------------------
(* Tun::recv and recv_vectored *)

PacketArrives ==
    /\ Running
    /\ Open
    /\ ~ended
    /\ arrived < MaxPackets
    /\ arrived' = arrived + 1
    /\ ring' = ring + 1
    /\ readEvent' = TRUE
    /\ UNCHANGED reader
    /\ UNCHANGED <<sendVars, lifeVars>>

Recv ==
    /\ Running
    /\ Reader \in owners
    /\ reader = "idle"
    /\ reader' = "try"
    /\ UNCHANGED <<arrived, ring, readEvent>>
    /\ UNCHANGED <<sendVars, lifeVars>>

RecvReturns ==
    /\ Running
    /\ reader = "try"
    /\ ~ended
    /\ ring > 0
    /\ ring' = ring - 1
    /\ reader' = "idle"
    /\ UNCHANGED <<arrived, readEvent>>
    /\ UNCHANGED <<sendVars, lifeVars>>

RecvEmpty ==
    /\ Running
    /\ reader = "try"
    /\ ~ended
    /\ ring = 0
    /\ reader' = "wait"
    /\ UNCHANGED <<arrived, ring, readEvent>>
    /\ UNCHANGED <<sendVars, lifeVars>>

RecvWakes ==
    /\ Running
    /\ reader = "wait"
    /\ readEvent
    /\ readEvent' = FALSE
    /\ reader' = "try"
    /\ UNCHANGED <<arrived, ring>>
    /\ UNCHANGED <<sendVars, lifeVars>>

(* ConnectionAborted: the adapter is gone, or the session was shut down.        *)
(* Mutant: only the read event is waited for.                                   *)
Uninterruptible == FALSE
Interrupted     == shutdown # {}

RecvFails ==
    /\ Running
    /\ \/ reader = "try" /\ ended
       \/ reader = "wait" /\ ~readEvent /\ Interrupted
    /\ reader' = "idle"
    /\ UNCHANGED <<arrived, ring, readEvent>>
    /\ UNCHANGED <<sendVars, lifeVars>>

-----------------------------------------------------------------------------
(* The life of the session *)

(* A thread is done with its half between two calls. *)
Free(t) == t \in owners /\ (IF t = Reader THEN reader = "idle" ELSE sending[t] = NoCall)

(* With the last Arc<Session> go the packets of the rings.  Mutant: they go     *)
(* with the Tun, although the program keeps a clone.                           *)
ReleaseWithTun ==
    /\ IF owners' # {} THEN UNCHANGED <<tx, ring>> ELSE tx' = <<>> /\ ring' = 0
    /\ UNCHANGED <<arrived, readEvent, reader>>
    /\ UNCHANGED <<calls, sending, accepted, overflowed, transmitted>>

ReleaseSession ==
    /\ IF Open' THEN UNCHANGED <<tx, ring>> ELSE tx' = <<>> /\ ring' = 0
    /\ UNCHANGED <<arrived, readEvent, reader>>
    /\ UNCHANGED <<calls, sending, accepted, overflowed, transmitted>>

(* Tun::drop, by the last owner, shuts the session down.  Mutant: by any. *)
AnyHalf(S)  == TRUE
LastHalf(S) == S = {}

DropHalf(t) ==
    /\ Running
    /\ Free(t)
    /\ owners' = owners \ {t}
    /\ shutdown' = IF LastHalf(owners') THEN shutdown \cup {"drop"} ELSE shutdown
    /\ UNCHANGED <<kept, ended, aborted>>
    /\ ReleaseSession

(* Tun::session, and the drop of what it returned. *)
KeepSession ==
    /\ Running
    /\ owners # {} /\ ~kept
    /\ kept' = TRUE
    /\ UNCHANGED <<owners, shutdown, ended, aborted>>
    /\ UNCHANGED <<receiveVars, sendVars>>

DropSession ==
    /\ Running
    /\ kept
    /\ kept' = FALSE
    /\ UNCHANGED <<owners, shutdown, ended, aborted>>
    /\ ReleaseSession

(* Session::shutdown, by the program. *)
ProgramShutdown ==
    /\ Running
    /\ kept
    /\ shutdown' = shutdown \cup {"program"}
    /\ UNCHANGED <<owners, kept, ended, aborted>>
    /\ UNCHANGED <<receiveVars, sendVars>>

(* The read event of an adapter that goes away is signalled. *)
AdapterEnds ==
    /\ Running
    /\ Open
    /\ ~ended
    /\ ended' = TRUE
    /\ readEvent' = TRUE
    /\ UNCHANGED <<owners, kept, shutdown, aborted>>
    /\ UNCHANGED <<arrived, ring, reader>>
    /\ UNCHANGED sendVars

-----------------------------------------------------------------------------

SendStep(t) == SendOverflows(t) \/ SendFails(t) \/ \E n \in Sizes : Allocate(t, n)
FillStep(t) == Fill(t) \/ FillPanics(t)
RecvStep    == RecvReturns \/ RecvEmpty \/ RecvWakes \/ RecvFails

Next ==
    \/ \E t \in Senders : SendStep(t) \/ FillStep(t)
    \/ Recv \/ RecvStep
    \/ Transmit \/ PacketArrives \/ AdapterEnds
    \/ \E t \in Threads : DropHalf(t)
    \/ KeepSession \/ DropSession \/ ProgramShutdown

Spec == Init /\ [][Next]_vars

(* The driver and the threads inside a call are scheduled. *)
FairSpec ==
    /\ Spec
    /\ WF_vars(Transmit)
    /\ WF_vars(RecvStep)
    /\ \A t \in Senders : WF_vars(FillStep(t))

-----------------------------------------------------------------------------

(* What the driver takes is the whole buffer of a call, and the buffers of     *)
(* one thread in the order of its calls, however the senders interleave and    *)
(* although the allocated length wraps (device.rs:269-302).                    *)
TransmitsWholeInOrder ==
    \A i \in DOMAIN transmitted :
        /\ transmitted[i].size = transmitted[i].len
        /\ \A j \in 1..(i - 1) : transmitted[j].from = transmitted[i].from
                                    => transmitted[j].call < transmitted[i].call

(* A send that returned Ok is still in the ring or was transmitted, unless the *)
(* ring was full when it was made, or nobody holds the session any more: no    *)
(* other error is swallowed, and what a thread leaves in the ring when it      *)
(* drops its half survives as long as another half or a clone of the session   *)
(* does (device.rs:246-248, 275-283, 333-339).                                 *)
LossOnlyByOverflow ==
    Open =>
        \A a \in accepted \ overflowed :
            \/ \E i \in DOMAIN tx : tx[i].sent /\ a = <<tx[i].from, tx[i].call>>
            \/ \E i \in DOMAIN transmitted : a = <<transmitted[i].from, transmitted[i].call>>

(* As long as one half is left nobody but the program interrupts its reads:    *)
(* dropping the others does not shut the session down (device.rs:102-105,      *)
(* 333-339).                                                                   *)
ReadsAreNotInterrupted ==
    [][RecvFails => ended \/ "program" \in shutdown]_vars

(* No sender holds up the others: what was accepted leaves the ring, also when *)
(* its sender has dropped its half, unless the adapter or the process ends or  *)
(* the last Arc<Session> is dropped before (device.rs:285-318, 333-339).       *)
SendRingDrains ==
    \A t \in Senders : \A c \in 1..MaxSends :
        (<<t, c>> \in accepted \ overflowed) ~>
            \/ \E i \in DOMAIN transmitted : <<t, c>> = <<transmitted[i].from, transmitted[i].call>>
            \/ ended \/ aborted \/ ~Open

(* A blocked read ends when a packet arrives, the adapter ends or the session  *)
(* is shut down (device.rs:256-267).                                           *)
BlockedReadEnds ==
    (reader # "idle" /\ (ring > 0 \/ ended \/ shutdown # {})) ~> (reader = "idle" \/ aborted)

=============================================================================
