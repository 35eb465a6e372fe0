--------------------------- MODULE WinSessionProofs ---------------------------
(***************************************************************************)
(* Theorems about WinSession, for any number of senders, capacity of the   *)
(* ring, lengths of buffers and width of the length field.                 *)
(***************************************************************************)
EXTENDS WinSession, SequenceTheorems, TLAPS

(* p was allocated before q, if the same thread sends them. *)
Earlier(p, q) == p.from = q.from => p.call < q.call

Ordered(s)   == \A i, j \in DOMAIN s : i < j => Earlier(s[i], s[j])
Before(s, r) == \A i \in DOMAIN s, j \in DOMAIN r : Earlier(s[i], r[j])

(* A sender has a packet of its own in the ring that is not released exactly  *)
(* while it is between allocating and releasing it, and then only that one.   *)
SlotInv ==
    /\ \A t \in Senders : sending[t] # NoCall =>
          \E i \in DOMAIN tx : tx[i].from = t /\ ~tx[i].sent
    /\ \A i \in DOMAIN tx : ~tx[i].sent =>
          /\ sending[tx[i].from] = tx[i].size
          /\ \A j \in DOMAIN tx : tx[j].from = tx[i].from /\ ~tx[j].sent => i = j

(* The ring continues what was transmitted, and the next call comes last. *)
OrderInv ==
    /\ Ordered(transmitted) /\ Ordered(tx) /\ Before(transmitted, tx)
    /\ \A i \in DOMAIN tx : tx[i].call <= calls[tx[i].from]
    /\ \A i \in DOMAIN transmitted : transmitted[i].call <= calls[transmitted[i].from]

(* What is released was copied whole. *)
WholeInv ==
    /\ \A i \in DOMAIN tx : tx[i].sent => tx[i].size = tx[i].len
    /\ \A i \in DOMAIN transmitted : transmitted[i].size = transmitted[i].len

(* The drop of the Tun shuts down only when it has no owner left, while a      *)
(* thread inside recv, or with a packet to fill, still is one.                 *)
LifeInv ==
    /\ "drop" \in shutdown => owners = {}
    /\ reader # "idle" => Reader \in owners
    /\ \A t \in Senders : sending[t] # NoCall => t \in owners

IInv == TypeOK /\ SlotInv /\ OrderInv /\ WholeInv /\ LossOnlyByOverflow /\ LifeInv

-----------------------------------------------------------------------------
(* Sequences of packets *)

LEMMA PacketType ==
    ASSUME NEW s \in Seq(Packets), NEW i \in DOMAIN s
    PROVE  s[i] \in Packets /\ s[i].from \in Senders /\ s[i].call \in Nat /\ s[i].size \in Sizes
  <1>1. s[i] \in Packets
    OBVIOUS
  <1>2. QED
    BY <1>1, BoundsAssumption DEF Packets

LEMMA NoCallType == NoCall \notin Sizes
  BY SizesAssumption DEF NoCall

LEMMA OrderedAppend ==
    ASSUME NEW s \in Seq(Packets), NEW p \in Packets, Ordered(s),
           \A i \in DOMAIN s : Earlier(s[i], p)
    PROVE  Ordered(Append(s, p))
  <1> SUFFICES ASSUME NEW i \in DOMAIN Append(s, p), NEW j \in DOMAIN Append(s, p), i < j
               PROVE  Earlier(Append(s, p)[i], Append(s, p)[j])
    BY DEF Ordered
  <1>1. i \in DOMAIN s /\ Append(s, p)[i] = s[i]
    OBVIOUS
  <1>2. CASE j \in DOMAIN s
    BY <1>1, <1>2 DEF Ordered
  <1>3. CASE j \notin DOMAIN s
    BY <1>1, <1>3
  <1>4. QED
    BY <1>2, <1>3

LEMMA BeforeAppend ==
    ASSUME NEW s \in Seq(Packets), NEW r \in Seq(Packets), NEW p \in Packets, Before(s, r),
           \A i \in DOMAIN s : Earlier(s[i], p)
    PROVE  Before(s, Append(r, p))
  BY DEF Before

(* The head of what comes later moves to the end of what comes before. *)
LEMMA OrderedMove ==
    ASSUME NEW s \in Seq(Packets), NEW r \in Seq(Packets), r # <<>>,
           Ordered(s), Ordered(r), Before(s, r)
    PROVE  /\ Ordered(Append(s, Head(r)))
           /\ Ordered(Tail(r))
           /\ Before(Append(s, Head(r)), Tail(r))
  <1>1. /\ Head(r) \in Packets /\ Head(r) = r[1] /\ 1 \in DOMAIN r
        /\ Tail(r) \in Seq(Packets)
        /\ \A j \in DOMAIN Tail(r) : j + 1 \in DOMAIN r /\ 1 < j + 1 /\ Tail(r)[j] = r[j + 1]
    OBVIOUS
  <1>2. \A i \in DOMAIN s : Earlier(s[i], Head(r))
    BY <1>1 DEF Before
  <1>3. Ordered(Tail(r))
    BY <1>1 DEF Ordered
  <1>4. Before(s, Tail(r))
    BY <1>1 DEF Before
  <1>5. \A j \in DOMAIN Tail(r) : Earlier(Head(r), Tail(r)[j])
    BY <1>1 DEF Ordered
  <1>6. Before(Append(s, Head(r)), Tail(r))
    BY <1>1, <1>4, <1>5 DEF Before
  <1>7. QED
    BY <1>1, <1>2, <1>3, <1>6, OrderedAppend

(* The length that is asked for fits its field. *)
LEMMA CutType == \A n \in Sizes : CutLength(n) \in 0..Mod-1
  BY SizesAssumption DEF CutLength

(* A sender that is about to copy has exactly one packet to copy to. *)
LEMMA SlotIs ==
    ASSUME TypeOK, SlotInv, NEW t \in Senders, sending[t] # NoCall
    PROVE  /\ Slot(t) \in DOMAIN tx
           /\ tx[Slot(t)].from = t /\ ~tx[Slot(t)].sent
           /\ tx[Slot(t)].size = sending[t]
           /\ \A j \in DOMAIN tx : tx[j].from = t /\ ~tx[j].sent => j = Slot(t)
  BY DEF Slot, SlotInv

(* Releasing it changes nothing else of the ring. *)
LEMMA SendPacketIs ==
    ASSUME TypeOK, SlotInv, NEW t \in Senders, sending[t] # NoCall
    PROVE  /\ SendPacket(t) \in Seq(Packets)
           /\ Len(SendPacket(t)) = Len(tx) /\ DOMAIN SendPacket(t) = DOMAIN tx
           /\ \A i \in DOMAIN tx :
                 /\ SendPacket(t)[i].from = tx[i].from
                 /\ SendPacket(t)[i].call = tx[i].call
                 /\ SendPacket(t)[i].size = tx[i].size
                 /\ SendPacket(t)[i].len = tx[i].len
                 /\ SendPacket(t)[i].sent <=> tx[i].sent \/ i = Slot(t)
  <1> DEFINE k == Slot(t)
             p == [tx[k] EXCEPT !.sent = TRUE]
  <1>1. k \in DOMAIN tx /\ tx \in Seq(Packets) /\ tx[k] \in Packets
    BY SlotIs DEF TypeOK
  <1>2. /\ p \in Packets /\ p.sent
        /\ p.from = tx[k].from /\ p.call = tx[k].call /\ p.size = tx[k].size /\ p.len = tx[k].len
    BY <1>1 DEF Packets
  <1>3. SendPacket(t) = [tx EXCEPT ![k] = p]
    BY DEF SendPacket
  <1> HIDE DEF k, p
  <1>4. /\ SendPacket(t) \in Seq(Packets)
        /\ Len(SendPacket(t)) = Len(tx) /\ DOMAIN SendPacket(t) = DOMAIN tx
        /\ SendPacket(t)[k] = p
        /\ \A i \in DOMAIN tx : i # k => SendPacket(t)[i] = tx[i]
    BY <1>1, <1>2, <1>3
  <1>5. QED
    BY <1>1, <1>2, <1>4 DEF k

-----------------------------------------------------------------------------

LEMMA InitIInv == Init => IInv
  <1> SUFFICES ASSUME Init PROVE IInv
    OBVIOUS
  <1>1. TypeOK
    <2>1. owners \in SUBSET Threads
      BY DEF Init
    <2>2. arrived \in 0..MaxPackets /\ ring \in 0..arrived
      BY BoundsAssumption DEF Init
    <2>3. calls \in [Senders -> 0..MaxSends]
      BY BoundsAssumption DEF Init
    <2>4. sending \in [Senders -> Sizes \cup {NoCall}]
      BY DEF Init
    <2>5. tx \in Seq(Packets) /\ Len(tx) <= Cap /\ transmitted \in Seq(Packets)
      BY EmptySeq, BoundsAssumption DEF Init
    <2>6. accepted \in SUBSET (Senders \X (1..MaxSends)) /\ overflowed \in SUBSET accepted
      BY DEF Init
    <2>7. QED
      BY <2>1, <2>2, <2>3, <2>4, <2>5, <2>6 DEF Init, TypeOK
  <1>2. SlotInv /\ OrderInv /\ WholeInv
    BY DEF Init, SlotInv, OrderInv, WholeInv, Ordered, Before
  <1>3. LossOnlyByOverflow /\ LifeInv
    BY DEF Init, LossOnlyByOverflow, LifeInv
  <1>4. QED
    BY <1>1, <1>2, <1>3 DEF IInv

LEMMA NextTypeOK == TypeOK /\ SlotInv /\ [Next]_vars => TypeOK'
  <1> SUFFICES ASSUME TypeOK, SlotInv, [Next]_vars
               PROVE  TypeOK'
    OBVIOUS
  <1> USE DEF TypeOK, receiveVars, sendVars, lifeVars
  <1>1. ASSUME NEW t \in Senders, SendStep(t)
        PROVE  TypeOK'
    <2>1. calls[t] + 1 \in 1..MaxSends /\ calls' \in [Senders -> 0..MaxSends]
      <3>1. CanSend(t) /\ Called(t)
        BY <1>1 DEF SendStep, SendOverflows, SendFails, Allocate
      <3>2. calls[t] \in 0..MaxSends /\ calls[t] < MaxSends
        BY <3>1 DEF CanSend
      <3>3. calls[t] + 1 \in 1..MaxSends
        BY <3>2, BoundsAssumption
      <3>4. QED
        BY <3>1, <3>3 DEF Called
    <2>2. CASE SendOverflows(t)
      BY <2>1, <2>2 DEF SendOverflows, Accept
    <2>3. CASE SendFails(t)
      BY <2>1, <2>3 DEF SendFails, EofRefused
    <2>4. ASSUME NEW n \in Sizes, Allocate(t, n)
          PROVE  TypeOK'
      <3>1. [from |-> t, call |-> calls[t] + 1, size |-> n, len |-> CutLength(n), sent |-> FALSE]
               \in Packets
        BY <2>1, CutType DEF Packets
      <3>2. tx' \in Seq(Packets) /\ Len(tx') <= Cap
        BY <2>4, <3>1, BoundsAssumption DEF Allocate
      <3>3. QED
        BY <2>1, <2>4, <3>2 DEF Allocate
    <2>5. QED
      BY <1>1, <2>2, <2>3, <2>4 DEF SendStep
  <1>2. ASSUME NEW t \in Senders, FillStep(t)
        PROVE  TypeOK'
    <2>1. CASE Fill(t)
      <3>1. tx' \in Seq(Packets) /\ Len(tx') <= Cap
        BY <2>1, SendPacketIs DEF Fill
      <3>2. tx[Slot(t)].call \in 1..MaxSends
        <4>1. Slot(t) \in DOMAIN tx
          BY <2>1, SlotIs DEF Fill
        <4>2. tx[Slot(t)] \in Packets
          BY <4>1
        <4>3. QED
          BY <4>2 DEF Packets
      <3>3. accepted' \in SUBSET (Senders \X (1..MaxSends)) /\ overflowed' \in SUBSET accepted'
        BY <2>1, <3>2 DEF Fill, Accept
      <3>4. QED
        BY <2>1, <3>1, <3>3 DEF Fill
    <2>2. CASE FillPanics(t)
      BY <2>2 DEF FillPanics
    <2>3. QED
      BY <1>2, <2>1, <2>2 DEF FillStep
  <1>3. CASE Transmit
    <2>1. Head(tx) \in Packets /\ Tail(tx) \in Seq(Packets) /\ Len(Tail(tx)) <= Cap
      BY <1>3, BoundsAssumption DEF Transmit
    <2>2. tx' \in Seq(Packets) /\ Len(tx') <= Cap /\ transmitted' \in Seq(Packets)
      BY <1>3, <2>1 DEF Transmit
    <2>3. QED
      BY <1>3, <2>2 DEF Transmit
  <1>4. CASE PacketArrives \/ Recv
    <2>1. arrived' \in 0..MaxPackets /\ ring' \in 0..arrived'
      BY <1>4, BoundsAssumption DEF PacketArrives, Recv
    <2>2. QED
      BY <1>4, <2>1 DEF PacketArrives, Recv
  <1>5. CASE RecvStep
    <2>1. CASE RecvReturns
      <3>1. ring' \in 0..arrived'
        BY <2>1, BoundsAssumption DEF RecvReturns
      <3>2. QED
        BY <2>1, <3>1 DEF RecvReturns
    <2>2. CASE RecvEmpty
      BY <2>2 DEF RecvEmpty
    <2>3. CASE RecvWakes
      BY <2>3 DEF RecvWakes
    <2>4. CASE RecvFails
      BY <2>4 DEF RecvFails
    <2>5. QED
      BY <1>5, <2>1, <2>2, <2>3, <2>4 DEF RecvStep
  <1>6. CASE AdapterEnds \/ KeepSession \/ ProgramShutdown
    BY <1>6 DEF AdapterEnds, KeepSession, ProgramShutdown
  <1>7. ASSUME NEW t \in Threads, DropHalf(t) \/ DropSession
        PROVE  TypeOK'
    <2>1. tx' \in Seq(Packets) /\ Len(tx') <= Cap /\ ring' \in 0..arrived' /\ arrived' = arrived
      <3>1. arrived' = arrived /\ (UNCHANGED <<tx, ring>> \/ (tx' = <<>> /\ ring' = 0))
        BY <1>7 DEF DropHalf, DropSession, ReleaseSession
      <3>2. <<>> \in Seq(Packets) /\ Len(<<>>) <= Cap /\ 0 \in 0..arrived
        BY EmptySeq, BoundsAssumption
      <3>3. QED
        BY <3>1, <3>2
    <2>2. UNCHANGED <<ended, aborted, readEvent, reader, calls, sending, accepted, overflowed,
                      transmitted>>
      BY <1>7 DEF DropHalf, DropSession, ReleaseSession
    <2>3. CASE DropHalf(t)
      BY <2>1, <2>2, <2>3 DEF DropHalf, LastHalf
    <2>4. CASE DropSession
      BY <2>1, <2>2, <2>4 DEF DropSession
    <2>5. QED
      BY <1>7, <2>3, <2>4
  <1>8. CASE UNCHANGED vars
    BY <1>8 DEF vars
  <1>9. QED
    BY <1>1, <1>2, <1>3, <1>4, <1>5, <1>6, <1>7, <1>8 DEF Next, Threads

(* Once nobody holds the session, nobody does ever after. *)
LEMMA OpenBefore == [Next]_vars /\ Open' => Open
  <1> SUFFICES ASSUME [Next]_vars, Open' PROVE Open
    OBVIOUS
  <1> USE DEF Open, lifeVars
  <1>1. ASSUME NEW t \in Senders, SendStep(t) \/ FillStep(t)
        PROVE  Open
    <2>1. CASE SendOverflows(t) \/ SendFails(t)
      BY <2>1 DEF SendOverflows, SendFails
    <2>2. ASSUME NEW n \in Sizes, Allocate(t, n)
          PROVE  Open
      BY <2>2 DEF Allocate
    <2>3. CASE FillStep(t)
      BY <2>3 DEF FillStep, Fill, FillPanics
    <2>4. QED
      BY <1>1, <2>1, <2>2, <2>3 DEF SendStep
  <1>2. CASE Recv \/ RecvStep \/ Transmit \/ PacketArrives \/ AdapterEnds
    BY <1>2 DEF Recv, RecvStep, RecvReturns, RecvEmpty, RecvWakes, RecvFails, Transmit,
                PacketArrives, AdapterEnds
  <1>3. ASSUME NEW t \in Threads, DropHalf(t)
        PROVE  Open
    BY <1>3 DEF DropHalf
  <1>4. CASE KeepSession \/ DropSession \/ ProgramShutdown
    BY <1>4 DEF KeepSession, DropSession, ProgramShutdown
  <1>5. CASE UNCHANGED vars
    BY <1>5 DEF vars
  <1>6. QED
    BY <1>1, <1>2, <1>3, <1>4, <1>5 DEF Next

(* A drop empties the ring only when nobody holds the session any more, and   *)
(* then no sender has a packet to fill.                                       *)
LEMMA DropIs ==
    ASSUME LifeInv, NEW t \in Threads, DropHalf(t) \/ DropSession
    PROVE  /\ UNCHANGED <<calls, sending, accepted, overflowed, transmitted>>
           /\ \/ tx' = tx
              \/ tx' = <<>> /\ ~Open' /\ \A u \in Senders : sending[u] = NoCall
  <1>1. /\ UNCHANGED <<calls, sending, accepted, overflowed, transmitted>>
        /\ tx' = tx \/ (tx' = <<>> /\ ~Open')
    BY DEF DropHalf, DropSession, ReleaseSession
  <1>2. ASSUME ~Open', NEW u \in Senders, sending[u] # NoCall
        PROVE  FALSE
    <2>1. u \in owners /\ u # Reader
      BY <1>2, ThreadsAssumption DEF LifeInv
    <2>2. CASE DropHalf(t)
      BY <1>2, <2>1, <2>2 DEF DropHalf, Free, Open
    <2>3. CASE DropSession
      BY <1>2, <2>1, <2>3 DEF DropSession, Open
    <2>4. QED
      BY <2>2, <2>3
  <1>3. QED
    BY <1>1, <1>2

LEMMA CallsType == TypeOK => calls \in [Senders -> Nat]
  BY BoundsAssumption DEF TypeOK

LEMMA CalledIs ==
    ASSUME TypeOK, NEW t \in Senders, Called(t)
    PROVE  /\ calls' \in [Senders -> Nat] /\ calls'[t] = calls[t] + 1
           /\ \A u \in Senders : calls[u] <= calls'[u]
  BY CallsType DEF Called

(* What was called before was called before the next call too. *)
LEMMA CallsGrow ==
    ASSUME TypeOK, NEW s \in Seq(Packets), NEW d \in [Senders -> Nat],
           \A u \in Senders : calls[u] <= d[u],
           \A i \in DOMAIN s : s[i].call <= calls[s[i].from]
    PROVE  \A i \in DOMAIN s : s[i].call <= d[s[i].from]
  <1> TAKE i \in DOMAIN s
  <1>1. s[i].from \in Senders /\ s[i].call \in Nat
    BY PacketType
  <1>2. calls[s[i].from] \in Nat /\ d[s[i].from] \in Nat
    BY <1>1, CallsType
  <1>3. QED
    BY <1>1, <1>2

LEMMA NextOrder ==
    TypeOK /\ SlotInv /\ OrderInv /\ LifeInv /\ [Next]_vars => SlotInv' /\ OrderInv'
  <1> SUFFICES ASSUME TypeOK, SlotInv, OrderInv, LifeInv, [Next]_vars
               PROVE  SlotInv' /\ OrderInv'
    OBVIOUS
  <1> USE DEF sendVars
  <1>1. ASSUME UNCHANGED sendVars
        PROVE  SlotInv' /\ OrderInv'
    BY <1>1 DEF SlotInv, OrderInv, Ordered, Before, Earlier
  <1>2. ASSUME NEW t \in Senders, SendOverflows(t) \/ SendFails(t)
        PROVE  SlotInv' /\ OrderInv'
    <2>1. /\ UNCHANGED <<sending, tx, transmitted>>
          /\ calls' \in [Senders -> Nat] /\ \A u \in Senders : calls[u] <= calls'[u]
      BY <1>2, CalledIs DEF SendOverflows, SendFails
    <2>2. SlotInv'
      BY <2>1 DEF SlotInv
    <2>3. OrderInv'
      <3>1. /\ \A i \in DOMAIN tx : tx[i].call <= calls'[tx[i].from]
            /\ \A i \in DOMAIN transmitted : transmitted[i].call <= calls'[transmitted[i].from]
        BY <2>1, CallsGrow DEF OrderInv, TypeOK
      <3>2. QED
        BY <2>1, <3>1 DEF OrderInv, Ordered, Before, Earlier
    <2>4. QED
      BY <2>2, <2>3
  <1>3. ASSUME NEW t \in Senders, NEW n \in Sizes, Allocate(t, n)
        PROVE  SlotInv' /\ OrderInv'
    <2> DEFINE p == [from |-> t, call |-> calls[t] + 1, size |-> n, len |-> CutLength(n),
                     sent |-> FALSE]
    <2>1. /\ tx' = Append(tx, p) /\ transmitted' = transmitted
          /\ sending' = [sending EXCEPT ![t] = n] /\ calls' = [calls EXCEPT ![t] = @ + 1]
          /\ sending[t] = NoCall
      BY <1>3 DEF Allocate, CanSend, Called
    <2>2. p \in Packets
      BY <1>3, CutType, BoundsAssumption DEF Allocate, CanSend, TypeOK, Packets
    <2>3. p.from = t /\ p.call = calls[t] + 1 /\ p.size = n /\ ~p.sent
      OBVIOUS
    <2> HIDE DEF p
    <2>4. n # NoCall
      BY NoCallType
    <2>5. \A i \in DOMAIN tx : Earlier(tx[i], p)
      BY <2>3, PacketType, CallsType DEF OrderInv, Earlier, TypeOK
    <2>6. \A i \in DOMAIN transmitted : Earlier(transmitted[i], p)
      BY <2>3, PacketType, CallsType DEF OrderInv, Earlier, TypeOK
    <2>7. Ordered(transmitted') /\ Ordered(tx') /\ Before(transmitted', tx')
      BY <2>1, <2>2, <2>5, <2>6, OrderedAppend, BeforeAppend DEF OrderInv, TypeOK
    <2>8. calls' \in [Senders -> Nat] /\ calls'[t] = calls[t] + 1
          /\ \A u \in Senders : calls[u] <= calls'[u]
      BY <1>3, CalledIs DEF Allocate
    <2>9. OrderInv'
      <3>1. \A i \in DOMAIN transmitted : transmitted[i].call <= calls'[transmitted[i].from]
        BY <2>8, CallsGrow DEF OrderInv, TypeOK
      <3>2. \A i \in DOMAIN tx : tx[i].call <= calls'[tx[i].from]
        BY <2>8, CallsGrow DEF OrderInv, TypeOK
      <3>3. p.call <= calls'[p.from]
        BY <2>3, <2>8
      <3>4. \A i \in DOMAIN tx' : tx'[i].call <= calls'[tx'[i].from]
        BY <2>1, <2>2, <3>2, <3>3 DEF TypeOK
      <3>5. QED
        BY <2>1, <2>7, <3>1, <3>4 DEF OrderInv
    <2>10. SlotInv'
      <3>1. /\ tx' \in Seq(Packets) /\ DOMAIN tx' = 1..(Len(tx) + 1) /\ DOMAIN tx = 1..Len(tx)
            /\ \A i \in DOMAIN tx : tx'[i] = tx[i] /\ tx[i].from \in Senders
            /\ tx'[Len(tx) + 1] = p /\ Len(tx) \in Nat
        BY <2>1, <2>2, PacketType DEF TypeOK
      <3>2. \A i \in DOMAIN tx : ~tx[i].sent => tx[i].from # t
        BY <2>1, PacketType, NoCallType DEF SlotInv, TypeOK
      <3>3. \A u \in Senders : u # t => sending'[u] = sending[u]
        BY <2>1 DEF TypeOK
      <3>4. sending'[t] = n
        BY <2>1 DEF TypeOK
      <3>5. \A u \in Senders : sending'[u] # NoCall =>
               \E i \in DOMAIN tx' : tx'[i].from = u /\ ~tx'[i].sent
        BY <2>3, <3>1, <3>3 DEF SlotInv
      <3>6. ASSUME NEW i \in DOMAIN tx', ~tx'[i].sent
            PROVE  /\ sending'[tx'[i].from] = tx'[i].size
                   /\ \A j \in DOMAIN tx' : tx'[j].from = tx'[i].from /\ ~tx'[j].sent => i = j
        <4>1. CASE i = Len(tx) + 1
          BY <2>3, <3>1, <3>2, <3>4, <4>1
        <4>2. CASE i \in DOMAIN tx
          BY <2>3, <3>1, <3>2, <3>3, <3>6, <4>2 DEF SlotInv
        <4>3. QED
          BY <3>1, <4>1, <4>2
      <3>7. QED
        BY <3>5, <3>6 DEF SlotInv
    <2>11. QED
      BY <2>9, <2>10
  <1>4. ASSUME NEW t \in Senders, Fill(t)
        PROVE  SlotInv' /\ OrderInv'
    <2>1. /\ sending[t] # NoCall /\ tx' = SendPacket(t)
          /\ sending' = [sending EXCEPT ![t] = NoCall] /\ UNCHANGED <<calls, transmitted>>
      BY <1>4 DEF Fill
    <2>2. OrderInv'
      BY <2>1, SendPacketIs DEF OrderInv, Ordered, Before, Earlier
    <2>3. SlotInv'
      <3>1. \A i \in DOMAIN tx : tx[i].from \in Senders /\ (tx'[i].sent <=> tx[i].sent \/ i = Slot(t))
                                 /\ tx'[i].from = tx[i].from /\ tx'[i].size = tx[i].size
        BY <2>1, SendPacketIs, PacketType DEF TypeOK
      <3>2. \A i \in DOMAIN tx : ~tx'[i].sent => tx[i].from # t
        BY <2>1, <3>1, SlotIs
      <3>3. DOMAIN tx' = DOMAIN tx
        BY <2>1, SendPacketIs
      <3>4. \A u \in Senders : u # t => sending'[u] = sending[u]
        BY <2>1 DEF TypeOK
      <3>5. sending'[t] = NoCall
        BY <2>1 DEF TypeOK
      <3>6. QED
        BY <2>1, <3>1, <3>2, <3>3, <3>4, <3>5, SlotIs DEF SlotInv
    <2>4. QED
      BY <2>2, <2>3
  <1>5. CASE Transmit
    <2>1. /\ tx # <<>> /\ tx[1].sent /\ tx' = Tail(tx) /\ transmitted' = Append(transmitted, Head(tx))
          /\ UNCHANGED <<calls, sending>>
      BY <1>5 DEF Transmit, TypeOK
    <2>2. Ordered(transmitted') /\ Ordered(tx') /\ Before(transmitted', tx')
      BY <2>1, OrderedMove DEF OrderInv, TypeOK
    <2>3. OrderInv'
      BY <2>1, <2>2 DEF OrderInv, TypeOK
    <2>4. SlotInv'
      <3>1. /\ \A i \in DOMAIN tx' : i + 1 \in DOMAIN tx /\ tx'[i] = tx[i + 1]
            /\ \A i \in DOMAIN tx : i # 1 => i - 1 \in DOMAIN tx' /\ tx'[i - 1] = tx[i]
            /\ DOMAIN tx' \subseteq Nat /\ DOMAIN tx \subseteq Nat
        BY <2>1 DEF TypeOK
      <3>2. \A t \in Senders : sending[t] # NoCall =>
               \E i \in DOMAIN tx' : tx'[i].from = t /\ ~tx'[i].sent
        <4> SUFFICES ASSUME NEW t \in Senders, sending[t] # NoCall
                     PROVE  \E i \in DOMAIN tx' : tx'[i].from = t /\ ~tx'[i].sent
          OBVIOUS
        <4>1. PICK i \in DOMAIN tx : tx[i].from = t /\ ~tx[i].sent
          BY DEF SlotInv
        <4>2. i # 1
          BY <2>1, <4>1
        <4>3. QED
          BY <3>1, <4>1, <4>2
      <3>3. \A i \in DOMAIN tx' : ~tx'[i].sent =>
               /\ sending[tx'[i].from] = tx'[i].size
               /\ \A j \in DOMAIN tx' : tx'[j].from = tx'[i].from /\ ~tx'[j].sent => i = j
        BY <3>1 DEF SlotInv
      <3>4. QED
        BY <2>1, <3>2, <3>3 DEF SlotInv
    <2>5. QED
      BY <2>3, <2>4
  <1>6. CASE Recv \/ RecvStep \/ PacketArrives \/ AdapterEnds \/ KeepSession \/ ProgramShutdown
    BY <1>1, <1>6 DEF Recv, RecvStep, RecvReturns, RecvEmpty, RecvWakes, RecvFails, PacketArrives,
                      AdapterEnds, KeepSession, ProgramShutdown
  <1>7. ASSUME NEW t \in Senders, FillPanics(t)
        PROVE  SlotInv' /\ OrderInv'
    BY <1>1, <1>7 DEF FillPanics
  <1>8. ASSUME NEW t \in Threads, DropHalf(t) \/ DropSession
        PROVE  SlotInv' /\ OrderInv'
    <2>1. CASE tx' = tx
      BY <1>1, <1>8, <2>1, DropIs
    <2>2. CASE tx' = <<>> /\ \A u \in Senders : sending[u] = NoCall
      BY <1>8, <2>2, DropIs DEF SlotInv, OrderInv, Ordered, Before
    <2>3. QED
      BY <1>8, <2>1, <2>2, DropIs
  <1>9. QED
    BY <1>1, <1>2, <1>3, <1>4, <1>5, <1>6, <1>7, <1>8 DEF Next, SendStep, FillStep, vars, Threads

LEMMA NextLoss ==
    ASSUME TypeOK, SlotInv, WholeInv, LifeInv, LossOnlyByOverflow, [Next]_vars
    PROVE  WholeInv' /\ LossOnlyByOverflow'
  <1> USE OpenBefore DEF sendVars
  <1>1. ASSUME UNCHANGED sendVars
        PROVE  WholeInv' /\ LossOnlyByOverflow'
    BY <1>1 DEF WholeInv, LossOnlyByOverflow
  <1>2. ASSUME NEW t \in Senders, SendOverflows(t) \/ SendFails(t)
        PROVE  WholeInv' /\ LossOnlyByOverflow'
    <2>1. UNCHANGED <<tx, transmitted>> /\ accepted' \ overflowed' \subseteq accepted \ overflowed
      BY <1>2 DEF SendOverflows, SendFails, EofRefused, Accept
    <2>2. QED
      BY <2>1 DEF WholeInv, LossOnlyByOverflow
  <1>3. ASSUME NEW t \in Senders, NEW n \in Sizes, Allocate(t, n)
        PROVE  WholeInv' /\ LossOnlyByOverflow'
    <2> DEFINE p == [from |-> t, call |-> calls[t] + 1, size |-> n, len |-> CutLength(n),
                     sent |-> FALSE]
    <2>1. tx' = Append(tx, p) /\ UNCHANGED <<transmitted, accepted, overflowed>> /\ ~p.sent
      BY <1>3 DEF Allocate
    <2> HIDE DEF p
    <2>2. /\ tx \in Seq(Packets)
          /\ \A i \in DOMAIN tx : i \in DOMAIN tx' /\ tx'[i] = tx[i]
          /\ \A i \in DOMAIN tx' : i \in DOMAIN tx \/ tx'[i] = p
      BY <2>1 DEF TypeOK
    <2>3. QED
      BY <2>1, <2>2 DEF WholeInv, LossOnlyByOverflow
  <1>4. ASSUME NEW t \in Senders, Fill(t)
        PROVE  WholeInv' /\ LossOnlyByOverflow'
    <2>1. /\ tx' = SendPacket(t) /\ accepted' = accepted \cup {<<t, tx[Slot(t)].call>>}
          /\ UNCHANGED <<overflowed, transmitted>>
          /\ sending[t] # NoCall /\ sending[t] = tx[Slot(t)].len
      BY <1>4 DEF Fill, Accept, Copies
    <2>2. WholeInv'
      BY <2>1, SlotIs, SendPacketIs DEF WholeInv
    <2>3. Slot(t) \in DOMAIN tx' /\ tx'[Slot(t)].sent
          /\ <<t, tx[Slot(t)].call>> = <<tx'[Slot(t)].from, tx'[Slot(t)].call>>
      BY <2>1, SlotIs, SendPacketIs
    <2>4. \A i \in DOMAIN tx : tx[i].sent =>
             /\ i \in DOMAIN tx' /\ tx'[i].sent
             /\ tx'[i].from = tx[i].from /\ tx'[i].call = tx[i].call
      BY <2>1, SendPacketIs
    <2>5. LossOnlyByOverflow'
      BY <2>1, <2>3, <2>4 DEF LossOnlyByOverflow
    <2>6. QED
      BY <2>2, <2>5
  <1>5. CASE Transmit
    <2>1. /\ tx # <<>> /\ tx[1].sent /\ tx' = Tail(tx) /\ transmitted' = Append(transmitted, tx[1])
          /\ UNCHANGED <<accepted, overflowed>>
          /\ tx \in Seq(Packets) /\ transmitted \in Seq(Packets)
      BY <1>5 DEF Transmit, TypeOK
    <2>2. /\ 1 \in DOMAIN tx /\ tx[1] \in Packets /\ DOMAIN tx \subseteq Nat
          /\ \A i \in DOMAIN tx' : i + 1 \in DOMAIN tx /\ tx'[i] = tx[i + 1]
          /\ \A i \in DOMAIN tx : i # 1 => i - 1 \in DOMAIN tx' /\ tx'[i - 1] = tx[i]
      BY <2>1
    <2>3. /\ \A i \in DOMAIN transmitted : i \in DOMAIN transmitted' /\ transmitted'[i] = transmitted[i]
          /\ \A i \in DOMAIN transmitted' : i \in DOMAIN transmitted \/ transmitted'[i] = tx[1]
          /\ \E i \in DOMAIN transmitted' : transmitted'[i] = tx[1]
      <3>1. DOMAIN transmitted' = 1..(Len(transmitted) + 1)
            /\ transmitted'[Len(transmitted) + 1] = tx[1] /\ Len(transmitted) \in Nat
        BY <2>1, <2>2
      <3>2. QED
        BY <2>1, <2>2, <3>1
    <2>4. WholeInv'
      BY <2>1, <2>2, <2>3 DEF WholeInv
    <2>5. LossOnlyByOverflow'
      <3> SUFFICES ASSUME NEW a \in accepted \ overflowed
                   PROVE  Open' => \/ \E i \in DOMAIN tx' :
                                          tx'[i].sent /\ a = <<tx'[i].from, tx'[i].call>>
                                   \/ \E i \in DOMAIN transmitted' :
                                          a = <<transmitted'[i].from, transmitted'[i].call>>
        BY <2>1 DEF LossOnlyByOverflow
      <3>1. CASE \E i \in DOMAIN transmitted : a = <<transmitted[i].from, transmitted[i].call>>
        BY <2>3, <3>1
      <3>2. ASSUME NEW i \in DOMAIN tx, tx[i].sent, a = <<tx[i].from, tx[i].call>>
            PROVE  \/ \E j \in DOMAIN tx' : tx'[j].sent /\ a = <<tx'[j].from, tx'[j].call>>
                   \/ \E j \in DOMAIN transmitted' :
                          a = <<transmitted'[j].from, transmitted'[j].call>>
        BY <2>2, <2>3, <3>2
      <3>3. QED
        BY <3>1, <3>2 DEF LossOnlyByOverflow
    <2>6. QED
      BY <2>4, <2>5
  <1>6. CASE Recv \/ RecvStep \/ PacketArrives \/ AdapterEnds \/ KeepSession \/ ProgramShutdown
    BY <1>1, <1>6 DEF Recv, RecvStep, RecvReturns, RecvEmpty, RecvWakes, RecvFails, PacketArrives,
                      AdapterEnds, KeepSession, ProgramShutdown
  <1>7. ASSUME NEW t \in Senders, FillPanics(t)
        PROVE  WholeInv' /\ LossOnlyByOverflow'
    BY <1>1, <1>7 DEF FillPanics
  <1>8. ASSUME NEW t \in Threads, DropHalf(t) \/ DropSession
        PROVE  WholeInv' /\ LossOnlyByOverflow'
    <2>1. CASE tx' = tx
      BY <1>1, <1>8, <2>1, DropIs
    <2>2. CASE tx' = <<>> /\ ~Open'
      BY <1>8, <2>2, DropIs DEF WholeInv, LossOnlyByOverflow
    <2>3. QED
      BY <1>8, <2>1, <2>2, DropIs
  <1>9. QED
    BY <1>1, <1>2, <1>3, <1>4, <1>5, <1>6, <1>7, <1>8 DEF Next, SendStep, FillStep, vars, Threads

LEMMA NextLife == TypeOK /\ LifeInv /\ [Next]_vars => LifeInv'
  <1> SUFFICES ASSUME TypeOK, LifeInv, [Next]_vars
               PROVE  LifeInv'
    OBVIOUS
  <1>0. sending \in [Senders -> Sizes \cup {NoCall}]
    BY DEF TypeOK
  <1> USE DEF LifeInv, receiveVars, sendVars, lifeVars
  <1>1. ASSUME NEW t \in Senders, SendStep(t)
        PROVE  LifeInv'
    <2>1. CASE SendOverflows(t) \/ SendFails(t)
      BY <2>1 DEF SendOverflows, SendFails
    <2>2. ASSUME NEW n \in Sizes, Allocate(t, n)
          PROVE  LifeInv'
      BY <1>0, <2>2 DEF Allocate, CanSend
    <2>3. QED
      BY <1>1, <2>1, <2>2 DEF SendStep
  <1>2. ASSUME NEW t \in Senders, FillStep(t)
        PROVE  LifeInv'
    BY <1>0, <1>2 DEF FillStep, Fill, FillPanics
  <1>3. CASE Recv \/ RecvStep
    BY <1>3 DEF Recv, RecvStep, RecvReturns, RecvEmpty, RecvWakes, RecvFails
  <1>4. CASE Transmit \/ PacketArrives \/ AdapterEnds \/ KeepSession \/ DropSession \/ ProgramShutdown
    BY <1>4 DEF Transmit, PacketArrives, AdapterEnds, KeepSession, DropSession, ReleaseSession,
                ProgramShutdown
  <1>5. ASSUME NEW t \in Threads, DropHalf(t)
        PROVE  LifeInv'
    <2>1. owners' = owners \ {t} /\ UNCHANGED <<reader, sending>>
      BY <1>5 DEF DropHalf, ReleaseSession
    <2>2. "drop" \in shutdown' => owners' = {}
      BY <1>5, <2>1 DEF DropHalf, LastHalf
    <2>3. QED
      BY <1>5, <2>1, <2>2, ThreadsAssumption DEF DropHalf, Free
  <1>6. CASE UNCHANGED vars
    BY <1>6 DEF vars
  <1>7. QED
    BY <1>1, <1>2, <1>3, <1>4, <1>5, <1>6 DEF Next

THEOREM Invariance == Spec => []IInv
  <1>1. IInv /\ [Next]_vars => IInv'
    BY NextTypeOK, NextOrder, NextLoss, NextLife DEF IInv
  <1>2. QED
    BY InitIInv, <1>1, PTL DEF Spec

-----------------------------------------------------------------------------

(* The variables have their types. *)
THEOREM TypeCorrect == Spec => []TypeOK
  <1>1. IInv => TypeOK
    BY DEF IInv
  <1>2. QED
    BY <1>1, Invariance, PTL

(* What the driver takes are whole buffers, each sender's in the order of its  *)
(* calls, whatever the lengths and the width of the length field.              *)
THEOREM TransmitSafety == Spec => []TransmitsWholeInOrder
  <1>1. IInv => TransmitsWholeInOrder
    <2> SUFFICES ASSUME IInv, NEW i \in DOMAIN transmitted, NEW j \in 1..(i - 1)
                 PROVE  /\ transmitted[i].size = transmitted[i].len
                        /\ transmitted[j].from = transmitted[i].from
                              => transmitted[j].call < transmitted[i].call
      BY DEF TransmitsWholeInOrder, IInv, WholeInv
    <2>1. j \in DOMAIN transmitted /\ j < i
      BY DEF IInv, TypeOK
    <2>2. QED
      BY <2>1 DEF IInv, WholeInv, OrderInv, Ordered, Earlier
  <1>2. QED
    BY <1>1, Invariance, PTL

(* A send that was accepted is only lost to a full ring, or with the session. *)
THEOREM LossSafety == Spec => []LossOnlyByOverflow
  <1>1. IInv => LossOnlyByOverflow
    BY DEF IInv
  <1>2. QED
    BY <1>1, Invariance, PTL

(* A read fails only when the adapter has ended or the program has shut the    *)
(* session down: never because another half was dropped.                       *)
THEOREM ReadSafety == Spec => ReadsAreNotInterrupted
  <1>1. IInv /\ [Next]_vars => [RecvFails => ended \/ "program" \in shutdown]_vars
    BY DEF IInv, TypeOK, LifeInv, RecvFails, Interrupted
  <1>2. QED
    BY <1>1, Invariance, PTL DEF Spec, ReadsAreNotInterrupted

=============================================================================
