------------------------ MODULE WinAsyncReaderProofs ------------------------
(***************************************************************************)
(* Theorems about WinAsyncReader, for every channel capacity and without   *)
(* a bound on packets or writers: its type invariant, its safety           *)
(* invariants, that it implements PacketStream, and that a PacketStream    *)
(* loses nothing.                                                          *)
(***************************************************************************)
EXTENDS WinAsyncReader, SequenceTheorems, TLAPS

(* The invariant is stronger than the properties in four places: the event    *)
(* covers the ring before the first wait too; a handle is only closed, and    *)
(* the cancel event only set, by drop; a packet is held exactly while it is   *)
(* being sent; and nothing is left to read after the end.                     *)
EventInv == pump \in {"start", "wait"} /\ (ring # <<>> \/ eof) => readEvent

DropInv == /\ Polling => ~cancelEvent
           /\ ~cancelOpen => reader \in {"unref", "gone"}
           /\ reader \in {"close", "unref", "gone"} => ~PumpAlive
           /\ PumpAlive => "pump" \in sessionOwners

HeldInv == held # <<>> => pump = "send"

EndInv == ended => ~PumpAlive /\ queue = <<>>

IInv == /\ TypeOK
        /\ EventInv
        /\ NoLostWakeup
        /\ DropInv
        /\ StreamEndsWithAdapter
        /\ HeldInv
        /\ EndInv

-----------------------------------------------------------------------------

(* Sequence operators keep the sequences of the model sequences of numbers. *)
LEMMA HeadTailType ==
    ASSUME NEW s \in Seq(Nat), s # <<>>
    PROVE  /\ Head(s) \in Nat
           /\ Tail(s) \in Seq(Nat)
           /\ <<Head(s)>> \in Seq(Nat)
  OBVIOUS

LEMMA JoinType ==
    ASSUME NEW s \in Seq(Nat), NEW t \in Seq(Nat), NEW n \in Nat
    PROVE  /\ s \o t \in Seq(Nat)
           /\ Append(s, n) \in Seq(Nat)
  OBVIOUS

LEMMA InitIInv == Init => IInv
  <1> SUFFICES ASSUME Init PROVE IInv
    OBVIOUS
  <1>1. TypeOK
    <2>1. /\ ring \in Seq(Nat) /\ held \in Seq(Nat)
          /\ queue \in Seq(Nat) /\ received \in Seq(Nat)
      BY EmptySeq DEF Init
    <2>2. /\ pump \in PumpStates /\ reader \in ReaderStates
          /\ sessionOwners \in SUBSET SessionUsers
          /\ arrived \in Nat /\ writers \in Nat
      BY DEF Init, PumpStates, ReaderStates
    <2>3. QED
      BY <2>1, <2>2 DEF Init, TypeOK
  <1>2. EventInv /\ HeldInv
    BY DEF Init, EventInv, HeldInv
  <1>3. NoLostWakeup
    BY DEF Init, NoLostWakeup
  <1>4. DropInv /\ StreamEndsWithAdapter
    BY DEF Init, DropInv, StreamEndsWithAdapter, SessionUsers, Polling
  <1>5. EndInv
    BY DEF Init, EndInv
  <1>6. QED
    BY <1>1, <1>2, <1>3, <1>4, <1>5 DEF IInv

LEMMA NextTypeOK == TypeOK /\ HeldInv /\ [Next]_vars => TypeOK'
  <1> SUFFICES ASSUME TypeOK, HeldInv, [Next]_vars
               PROVE  TypeOK'
    OBVIOUS
  <1> USE DEF TypeOK, PumpStates, ReaderStates, SessionUsers, session, channel, cancel, task
  <1>1. CASE Wintun
    <2>1. CASE PacketArrives
      BY <2>1, JoinType DEF PacketArrives
    <2>2. CASE AdapterTerminates
      BY <2>2 DEF AdapterTerminates
    <2>3. QED
      BY <1>1, <2>1, <2>2 DEF Wintun
  <1>2. CASE PumpStep
    <2>1. CASE PumpStart
      BY <2>1 DEF PumpStart
    <2>2. CASE PumpStartFails
      BY <2>2 DEF PumpStartFails, PumpReturns, WakeReader
    <2>3. CASE PumpWaitRead
      BY <2>3 DEF PumpWaitRead
    <2>4. CASE PumpWaitCancel
      BY <2>4 DEF PumpWaitCancel, PumpReturns, WakeReader
    <2>5. CASE PumpReceive
      BY <2>5, HeadTailType DEF PumpReceive
    <2>6. CASE PumpDrained
      BY <2>6 DEF PumpDrained
    <2>7. CASE PumpReceiveFails
      BY <2>7 DEF PumpReceiveFails, PumpReturns, WakeReader
    <2>8. CASE PumpSend
      <3>1. queue' \in Seq(Nat) /\ held' \in Seq(Nat)
        BY <2>8, JoinType, EmptySeq DEF PumpSend
      <3>2. waker' \in BOOLEAN /\ woken' \in BOOLEAN
        BY <2>8 DEF PumpSend, WakeReader
      <3>3. QED
        BY <2>8, <3>1, <3>2 DEF PumpSend
    <2>9. QED
      BY <1>2, <2>1, <2>2, <2>3, <2>4, <2>5, <2>6, <2>7, <2>8 DEF PumpStep
  <1>3. CASE ReaderStep
    <2>1. CASE PollPacket
      BY <2>1, HeadTailType, JoinType DEF PollPacket
    <2>2. CASE PollEnd \/ PollPending
      BY <2>2 DEF PollEnd, PollPending
    <2>3. CASE TryReadEmpty
      BY <2>3 DEF TryReadEmpty
    <2>4. CASE CancelRead
      BY <2>4 DEF CancelRead
    <2>5. CASE DropSetEvent
      BY <2>5 DEF DropSetEvent
    <2>6. CASE DropStep
      BY <2>6 DEF DropStep, DropJoin, DropCloseHandle, DropFields
    <2>7. QED
      BY <1>3, <2>1, <2>2, <2>3, <2>4, <2>5, <2>6 DEF ReaderStep, Poll
  <1>4. CASE WriterStep
    <2>1. CASE CloneWriter
      BY <2>1 DEF CloneWriter
    <2>2. CASE DropWriter
      BY <2>2 DEF DropWriter
    <2>3. QED
      BY <1>4, <2>1, <2>2 DEF WriterStep
  <1>5. CASE UNCHANGED vars
    BY <1>5 DEF vars
  <1>6. QED
    BY <1>1, <1>2, <1>3, <1>4, <1>5 DEF Next

LEMMA NextIInv == IInv /\ [Next]_vars => IInv'
  <1> SUFFICES ASSUME IInv, [Next]_vars
               PROVE  IInv'
    OBVIOUS
  <1>t. TypeOK /\ TypeOK'
    BY NextTypeOK DEF IInv
  <1> DEFINE Inv == EventInv /\ NoLostWakeup /\ DropInv /\ StreamEndsWithAdapter /\ HeldInv /\ EndInv
  <1> SUFFICES Inv'
    BY <1>t DEF IInv
  <1>i. Inv
    BY DEF IInv
  <1> USE DEF EventInv, NoLostWakeup, DropInv, StreamEndsWithAdapter, HeldInv, EndInv,
              Polling, PumpAlive, TxOpen, session, channel, cancel, task
  <1>1. CASE PacketArrives
    BY <1>i, <1>1 DEF PacketArrives
  <1>2. CASE AdapterTerminates
    BY <1>i, <1>2 DEF AdapterTerminates
  <1>3. CASE PumpStart
    BY <1>i, <1>3 DEF PumpStart
  <1>4. CASE PumpStartFails
    BY <1>i, <1>t, <1>4 DEF PumpStartFails, PumpReturns, WakeReader, TypeOK
  <1>5. CASE PumpWaitRead
    BY <1>i, <1>5 DEF PumpWaitRead
  <1>6. CASE PumpWaitCancel
    BY <1>i, <1>t, <1>6 DEF PumpWaitCancel, PumpReturns, WakeReader, TypeOK
  <1>7. CASE PumpReceive
    BY <1>i, <1>7 DEF PumpReceive
  <1>8. CASE PumpDrained
    BY <1>i, <1>8 DEF PumpDrained
  <1>9. CASE PumpReceiveFails
    BY <1>i, <1>t, <1>9 DEF PumpReceiveFails, PumpReturns, WakeReader, TypeOK
  <1>10. CASE PumpSend
    BY <1>i, <1>t, <1>10 DEF PumpSend, WakeReader, TypeOK
  <1>11. CASE PollPacket
    BY <1>i, <1>11 DEF PollPacket
  <1>12. CASE PollEnd
    BY <1>i, <1>12 DEF PollEnd
  <1>13. CASE PollPending
    BY <1>i, <1>13 DEF PollPending
  <1>14. CASE TryReadEmpty \/ CancelRead
    BY <1>i, <1>14 DEF TryReadEmpty, CancelRead
  <1>15. CASE DropSetEvent
    BY <1>i, <1>15 DEF DropSetEvent
  <1>16. CASE DropJoin
    BY <1>i, <1>16 DEF DropJoin
  <1>17. CASE DropCloseHandle
    BY <1>i, <1>17 DEF DropCloseHandle
  <1>18. CASE DropFields
    BY <1>i, <1>18 DEF DropFields
  <1>19. CASE WriterStep
    BY <1>i, <1>19 DEF WriterStep, CloneWriter, DropWriter
  <1>20. CASE UNCHANGED vars
    BY <1>i, <1>20 DEF vars
  <1>21. QED
    BY <1>1, <1>2, <1>3, <1>4, <1>5, <1>6, <1>7, <1>8, <1>9, <1>10, <1>11, <1>12, <1>13,
       <1>14, <1>15, <1>16, <1>17, <1>18, <1>19, <1>20
    DEF Next, Wintun, PumpStep, ReaderStep, Poll, DropStep

THEOREM Invariance == Spec => []IInv
  BY InitIInv, NextIInv, PTL DEF Spec

(* Every variable keeps its type. *)
THEOREM TypeCorrect == Spec => []TypeOK
  <1>1. IInv => TypeOK
    BY DEF IInv
  <1>2. QED
    BY <1>1, Invariance, PTL

(* The pump never waits on an event that will not come for a packet it left in *)
(* the ring.                                                                    *)
THEOREM EventSafety == Spec => []ReadEventCoversRing
  <1>1. IInv => ReadEventCoversRing
    BY DEF IInv, EventInv, ReadEventCoversRing
  <1>2. QED
    BY <1>1, Invariance, PTL

(* A suspended read is never forgotten. *)
THEOREM WakeupSafety == Spec => []NoLostWakeup
  <1>1. IInv => NoLostWakeup
    BY DEF IInv
  <1>2. QED
    BY <1>1, Invariance, PTL

(* Drop releases nothing that the pump still uses. *)
THEOREM DropSafety == Spec => []PumpResourcesHeld
  <1>1. IInv => PumpResourcesHeld
    BY DEF IInv, DropInv, PumpResourcesHeld
  <1>2. QED
    BY <1>1, Invariance, PTL

(* The writers do not end the stream of the reader. *)
THEOREM EndSafety == Spec => []StreamEndsWithAdapter
  <1>1. IInv => StreamEndsWithAdapter
    BY DEF IInv
  <1>2. QED
    BY <1>1, Invariance, PTL

-----------------------------------------------------------------------------
(* WinAsyncReader implements PacketStream. *)

LEMMA InitStream == Init => Stream!Init
  <1>1. <<>> \o <<>> = <<>>
    BY EmptySeq, ConcatEmptySeq
  <1>2. QED
    BY <1>1 DEF Init, Stream!Init

LEMMA StepStream == IInv /\ [Next]_vars => [Stream!Next]_(Stream!vars)
  <1> SUFFICES ASSUME IInv, [Next]_vars
               PROVE  [Stream!Next]_(Stream!vars)
    OBVIOUS
  <1>t. /\ ring \in Seq(Nat) /\ held \in Seq(Nat) /\ queue \in Seq(Nat)
        /\ held # <<>> => pump = "send"
        /\ ended => ~PumpAlive
    BY DEF IInv, TypeOK, HeldInv, EndInv
  <1> USE DEF Stream!vars, session, channel, cancel, task
  <1>1. CASE PacketArrives
    BY <1>1 DEF PacketArrives, Stream!Next, Stream!Arrive
  <1>2. CASE PumpReceive
    <2>1. held = <<>> /\ ~ended
      BY <1>t, <1>2 DEF PumpReceive, PumpAlive
    <2>2. Head(ring) \in Nat /\ queue \o held = queue
      BY <1>t, <1>2, <2>1, HeadTailProperties, ConcatEmptySeq DEF PumpReceive
    <2>3. queue \o <<Head(ring)>> = Append(queue, Head(ring))
      BY <1>t, <2>2, AppendIsConcat
    <2>4. Stream!Accept
      BY <1>2, <2>1, <2>2, <2>3 DEF PumpReceive, Stream!Accept
    <2>5. QED
      BY <2>4 DEF Stream!Next
  <1>3. CASE PumpSend
    <2>1. (queue \o held) \o <<>> = queue \o held
      BY <1>t, ConcatProperties, ConcatEmptySeq
    <2>2. QED
      BY <1>3, <2>1 DEF PumpSend
  <1>4. CASE PollPacket
    <2>1. /\ queue \o held # <<>>
          /\ Head(queue \o held) = Head(queue)
          /\ Tail(queue \o held) = Tail(queue) \o held
      BY <1>t, <1>4 DEF PollPacket
    <2>2. Stream!Deliver
      BY <1>4, <2>1 DEF PollPacket, Stream!Deliver
    <2>3. QED
      BY <2>2 DEF Stream!Next
  <1>5. CASE PollEnd
    <2>1. held = <<>> /\ queue = <<>>
      BY <1>t, <1>5 DEF PollEnd, TxOpen, PumpAlive
    <2>2. queue \o held = <<>>
      BY <2>1, EmptySeq, ConcatEmptySeq
    <2>3. Stream!End
      BY <1>5, <2>2 DEF PollEnd, Stream!End
    <2>4. QED
      BY <2>3 DEF Stream!Next
  <1>6. CASE AdapterTerminates \/ WriterStep \/ UNCHANGED vars
    BY <1>6 DEF AdapterTerminates, WriterStep, CloneWriter, DropWriter, vars
  <1>7. CASE PumpStart \/ PumpStartFails \/ PumpWaitRead \/ PumpWaitCancel \/ PumpDrained
             \/ PumpReceiveFails
    BY <1>7 DEF PumpStart, PumpStartFails, PumpWaitRead, PumpWaitCancel, PumpDrained,
                PumpReceiveFails, PumpReturns
  <1>8. CASE PollPending \/ TryReadEmpty \/ CancelRead \/ DropSetEvent \/ DropStep
    BY <1>8 DEF PollPending, TryReadEmpty, CancelRead, DropSetEvent, DropStep, DropJoin, DropCloseHandle,
                DropFields
  <1>9. QED
    BY <1>1, <1>2, <1>3, <1>4, <1>5, <1>6, <1>7, <1>8
    DEF Next, Wintun, PumpStep, ReaderStep, Poll

(* The pump, the channel and drop together behave as one stream of packets. *)
THEOREM ImplementsStream == Spec => StreamSpec
  BY InitStream, StepStream, Invariance, PTL DEF Spec, StreamSpec, Stream!Spec

-----------------------------------------------------------------------------
(* A PacketStream loses, repeats and reorders no packet. *)

(* Appending the head of t to s and going on with the tail is s followed by t. *)
LEMMA MoveHead ==
    ASSUME NEW s \in Seq(Nat), NEW t \in Seq(Nat), t # <<>>
    PROVE  /\ Head(t) \in Nat
           /\ Tail(t) \in Seq(Nat)
           /\ Append(s, Head(t)) \in Seq(Nat)
           /\ Append(s, Head(t)) \o Tail(t) = s \o t
  <1>1. Head(t) \in Nat /\ Tail(t) \in Seq(Nat)
    BY HeadTailProperties
  <1>2. Append(s, Head(t)) \in Seq(Nat)
    BY <1>1
  <1> DEFINE a == Append(s, Head(t))
  <1>3. Len(a) = Len(s) + 1 /\ Len(Tail(t)) = Len(t) - 1 /\ Len(t) > 0 /\ Head(t) = t[1]
    BY <1>1, HeadTailProperties, EmptySeq, LenProperties
  <1>4. \A i \in 1..Len(s) + Len(t) : (a \o Tail(t))[i] = (s \o t)[i]
    BY <1>1, <1>2, <1>3, HeadTailProperties, ConcatProperties, LenProperties
  <1>5. Len(a \o Tail(t)) = Len(s) + Len(t) /\ Len(s \o t) = Len(s) + Len(t)
    BY <1>1, <1>2, <1>3, ConcatProperties, LenProperties
  <1>6. a \o Tail(t) \in Seq(Nat) /\ s \o t \in Seq(Nat)
    BY <1>1, <1>2, ConcatProperties
  <1>7. a \o Tail(t) = s \o t
    BY <1>4, <1>5, <1>6, SeqEqual
  <1>8. QED
    BY <1>1, <1>2, <1>7

(* Appending to the second of two sequences appends to their concatenation. *)
LEMMA AppendRight ==
    ASSUME NEW s \in Seq(Nat), NEW t \in Seq(Nat), NEW n \in Nat
    PROVE  /\ Append(t, n) \in Seq(Nat)
           /\ s \o t \in Seq(Nat)
           /\ s \o Append(t, n) = Append(s \o t, n)
  <1>1. Append(t, n) \in Seq(Nat) /\ s \o t \in Seq(Nat) /\ <<n>> \in Seq(Nat)
    BY ConcatProperties
  <1>2. Append(t, n) = t \o <<n>> /\ Append(s \o t, n) = (s \o t) \o <<n>>
    BY <1>1, AppendIsConcat
  <1>3. (s \o t) \o <<n>> = s \o (t \o <<n>>)
    BY <1>1, ConcatAssociative
  <1>4. QED
    BY <1>1, <1>2, <1>3

(* The packets in the order of their arrival. *)
First(n) == [i \in 1..n |-> i]

(* The next number extends the sequence of the first ones. *)
LEMMA AppendNext ==
    ASSUME NEW n \in Nat
    PROVE  Append(First(n), n + 1) = First(n + 1)
  <1> USE DEF First
  <1> DEFINE s == First(n)
  <1>1. s \in Seq(Nat) /\ Len(s) = n
    OBVIOUS
  <1>2. QED
    BY <1>1

LEMMA Associative ==
    ASSUME NEW s \in Seq(Nat), NEW t \in Seq(Nat), NEW u \in Seq(Nat)
    PROVE  (s \o t) \o u = s \o (t \o u)
  BY ConcatAssociative

(* What is read, taken and offered stays 1, 2, 3, ... when a packet arrives,    *)
(* when one is taken and when one is read.                                      *)
LEMMA PacketsKeepOrder ==
    ASSUME NEW n \in Nat, NEW off \in Seq(Nat), NEW acc \in Seq(Nat), NEW rec \in Seq(Nat),
           rec \o (acc \o off) = First(n)
    PROVE  /\ rec \o (acc \o Append(off, n + 1)) = First(n + 1)
           /\ off # <<>> => rec \o (Append(acc, Head(off)) \o Tail(off)) = First(n)
           /\ acc # <<>> => Append(rec, Head(acc)) \o (Tail(acc) \o off) = First(n)
  <1>1. rec \o (acc \o Append(off, n + 1)) = First(n + 1)
    <2>1. n + 1 \in Nat /\ acc \o off \in Seq(Nat)
      BY ConcatProperties
    <2>2. acc \o Append(off, n + 1) = Append(acc \o off, n + 1)
      BY <2>1, AppendRight
    <2>3. rec \o Append(acc \o off, n + 1) = Append(rec \o (acc \o off), n + 1)
      BY <2>1, AppendRight
    <2>4. QED
      BY <2>2, <2>3, AppendNext
  <1>2. ASSUME off # <<>>
        PROVE  rec \o (Append(acc, Head(off)) \o Tail(off)) = First(n)
    BY <1>2, MoveHead
  <1>3. ASSUME acc # <<>>
        PROVE  Append(rec, Head(acc)) \o (Tail(acc) \o off) = First(n)
    <2> DEFINE r == Append(rec, Head(acc))
               a == Tail(acc)
    <2>1. r \in Seq(Nat) /\ a \in Seq(Nat) /\ r \o a = rec \o acc
      BY <1>3, MoveHead
    <2> HIDE DEF r, a
    <2>2. (r \o a) \o off = r \o (a \o off)
      BY <2>1, Associative
    <2>3. (rec \o acc) \o off = rec \o (acc \o off)
      BY Associative
    <2>4. r \o (a \o off) = First(n)
      BY <2>1, <2>2, <2>3
    <2>5. QED
      BY <2>4 DEF r, a
  <1>4. QED
    BY <1>1, <1>2, <1>3

accepted == queue \o held

StreamType == /\ arrived \in Nat
              /\ ring \in Seq(Nat)
              /\ accepted \in Seq(Nat)
              /\ received \in Seq(Nat)

(* Whatever steps a PacketStream takes, it keeps each packet once, in order of  *)
(* arrival, among those read, taken and offered.                                *)
THEOREM StreamIsLossless == StreamSpec => []NoPacketLost
  <1> DEFINE Inv == StreamType /\ NoPacketLost
  <1>l. NoPacketLost <=> received \o (accepted \o ring) = First(arrived)
    BY DEF NoPacketLost, Stream!Lossless, accepted, First
  <1>p. NoPacketLost' <=> received' \o (accepted' \o ring') = First(arrived')
    BY DEF NoPacketLost, Stream!Lossless, accepted, First
  <1>1. Stream!Init => Inv
    <2> SUFFICES ASSUME Stream!Init PROVE Inv
      OBVIOUS
    <2>1. arrived = 0 /\ ring = <<>> /\ accepted = <<>> /\ received = <<>>
      BY DEF Stream!Init, accepted
    <2>2. <<>> \in Seq(Nat) /\ <<>> \o <<>> = <<>>
      BY ConcatEmptySeq, EmptySeq
    <2>3. First(0) = <<>>
      BY DEF First
    <2>4. QED
      BY <1>l, <2>1, <2>2, <2>3 DEF StreamType
  <1>2. Inv /\ [Stream!Next]_(Stream!vars) => Inv'
    <2> SUFFICES ASSUME Inv, [Stream!Next]_(Stream!vars) PROVE Inv'
      OBVIOUS
    <2>t. /\ arrived \in Nat /\ ring \in Seq(Nat) /\ accepted \in Seq(Nat) /\ received \in Seq(Nat)
          /\ received \o (accepted \o ring) = First(arrived)
      BY <1>l DEF StreamType
    <2>1. CASE Stream!Arrive
      <3>1. /\ arrived' = arrived + 1 /\ ring' = Append(ring, arrived + 1)
            /\ accepted' = accepted /\ received' = received
        BY <2>1 DEF Stream!Arrive, accepted
      <3>2. StreamType'
        BY <2>t, <3>1 DEF StreamType
      <3>3. received \o (accepted \o Append(ring, arrived + 1)) = First(arrived + 1)
        BY <2>t, <3>1, PacketsKeepOrder
      <3>4. QED
        BY <1>p, <3>1, <3>2, <3>3
    <2>2. CASE Stream!Accept
      <3>1. /\ ring # <<>> /\ accepted' = Append(accepted, Head(ring)) /\ ring' = Tail(ring)
            /\ arrived' = arrived /\ received' = received
        BY <2>2 DEF Stream!Accept, accepted
      <3>2. StreamType'
        BY <2>t, <3>1, MoveHead DEF StreamType
      <3>3. received \o (Append(accepted, Head(ring)) \o Tail(ring)) = First(arrived)
        BY <2>t, <3>1, PacketsKeepOrder
      <3>4. QED
        BY <1>p, <3>1, <3>2, <3>3
    <2>3. CASE Stream!Deliver
      <3>1. /\ accepted # <<>> /\ received' = Append(received, Head(accepted))
            /\ accepted' = Tail(accepted) /\ arrived' = arrived /\ ring' = ring
        BY <2>3 DEF Stream!Deliver, accepted
      <3>2. StreamType'
        BY <2>t, <3>1, MoveHead DEF StreamType
      <3>3. Append(received, Head(accepted)) \o (Tail(accepted) \o ring) = First(arrived)
        BY <2>t, <3>1, PacketsKeepOrder
      <3>4. QED
        BY <1>p, <3>1, <3>2, <3>3
    <2>4. CASE Stream!End \/ UNCHANGED Stream!vars
      <3>1. arrived' = arrived /\ ring' = ring /\ accepted' = accepted /\ received' = received
        BY <2>4 DEF Stream!End, Stream!vars, accepted
      <3>2. QED
        BY <1>p, <2>t, <3>1 DEF StreamType
    <2>5. QED
      BY <2>1, <2>2, <2>3, <2>4 DEF Stream!Next
  <1>3. QED
    BY <1>1, <1>2, PTL DEF StreamSpec, Stream!Spec

(* Hence no packet is lost, repeated or reordered on the way to the caller. *)
THEOREM Losslessness == Spec => []NoPacketLost
  BY ImplementsStream, StreamIsLossless, PTL

=============================================================================
