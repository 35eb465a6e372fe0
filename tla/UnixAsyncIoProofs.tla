-------------------------- MODULE UnixAsyncIoProofs --------------------------
(***************************************************************************)
(* Theorems about UnixAsyncIo, for any number of cloned writers and queues *)
(* of any length: its type invariant, that no readiness is forgotten, and  *)
(* that no task alone in its direction sleeps through one.                 *)
(***************************************************************************)
EXTENDS UnixAsyncIo, TLAPS

(* A task about to clear a readiness that is up to date only does so for a     *)
(* direction that has become available again if the poller is about to say so. *)
ClearInv ==
    \A t \in Tasks :
        pc[t] = "clear" /\ current[t] /\ Available(Dir(t)) => Dir(t) \in edge

(* Whoever is not idle has started, and a try_ call is never suspended. *)
StartedInv ==
    \A t \in Tasks : /\ pc[t] # "idle" => t \in started
                     /\ pc[t] = "pending" => ~noop[t]

IInv == TypeOK /\ NoLostReadiness /\ ClearInv /\ StartedInv /\ NoLostWakeup

-----------------------------------------------------------------------------

(* A task works in one of the two directions. *)
LEMMA DirType == \A t \in Tasks : Dir(t) \in Dirs
  BY DEF Dir, Dirs

LEMMA InitIInv == Init => IInv
  <1> SUFFICES ASSUME Init PROVE IInv
    OBVIOUS
  <1>1. TypeOK
    <2>1. rx \in 0..MaxRx /\ tx \in 0..MaxTx
      BY BoundsAssumption DEF Init
    <2>2. /\ edge \in SUBSET Dirs /\ bits \in SUBSET Dirs
          /\ slot \in [Dirs -> Tasks \cup {None}]
      BY DEF Init, Dirs
    <2>3. QED
      BY <2>1, <2>2 DEF Init, TypeOK
  <1>2. NoLostReadiness
    BY DEF Init, NoLostReadiness, Available, Dirs
  <1>3. ClearInv /\ StartedInv /\ NoLostWakeup
    BY DEF Init, ClearInv, StartedInv, NoLostWakeup
  <1>4. QED
    BY <1>1, <1>2, <1>3 DEF IInv

-----------------------------------------------------------------------------
(* Types *)

LEMMA NextTypeOK == TypeOK /\ [Next]_vars => TypeOK'
  <1> SUFFICES ASSUME TypeOK, [Next]_vars
               PROVE  TypeOK'
    OBVIOUS
  <1> USE DirType, BoundsAssumption
      DEF TypeOK, kernel, asyncfd, tasks
  <1>1. CASE PacketArrives
    <2>1. rx' \in 0..MaxRx
      BY <1>1 DEF PacketArrives
    <2>2. "r" \in Dirs /\ edge' \in SUBSET (edge \cup {"r"})
      BY <1>1 DEF PacketArrives, Raise, Dirs
    <2>3. QED
      BY <1>1, <2>1, <2>2 DEF PacketArrives
  <1>2. CASE PacketTransmitted
    <2>1. tx' \in 0..MaxTx
      BY <1>2 DEF PacketTransmitted
    <2>2. "w" \in Dirs /\ edge' \in SUBSET (edge \cup {"w"})
      BY <1>2 DEF PacketTransmitted, Raise, Dirs
    <2>3. QED
      BY <1>2, <2>1, <2>2 DEF PacketTransmitted
  <1>3. CASE DriverTurn
    BY <1>3 DEF DriverTurn, Wake
  <1>4. CASE RuntimeShutdown
    BY <1>4 DEF RuntimeShutdown, Wake
  <1>5. ASSUME NEW t \in Tasks, Start(t) \/ Repoll(t) \/ Cancel(t)
        PROVE  TypeOK'
    BY <1>5 DEF Start, Repoll, Cancel
  <1>6. ASSUME NEW t \in Tasks, CheckFails(t) \/ CheckReady(t) \/ CheckPending(t)
        PROVE  TypeOK'
    BY <1>6 DEF CheckFails, CheckReady, CheckPending, Return
  <1>7. ASSUME NEW t \in Tasks, TryDone(t)
        PROVE  TypeOK'
    <2>1. rx' \in 0..MaxRx /\ tx' \in 0..MaxTx
      BY <1>7 DEF TryDone, Available, Dir
    <2>2. QED
      BY <1>7, <2>1 DEF TryDone, Return
  <1>8. ASSUME NEW t \in Tasks, TryFails(t) \/ TryWouldBlock(t) \/ Clear(t)
        PROVE  TypeOK'
    BY <1>8 DEF TryFails, TryWouldBlock, Clear, Return
  <1>9. CASE UNCHANGED vars
    BY <1>9 DEF vars
  <1>10. QED
    BY <1>1, <1>2, <1>3, <1>4, <1>5, <1>6, <1>7, <1>8, <1>9 DEF Next, System, Running

-----------------------------------------------------------------------------
(* Readiness *)

(* A transfer makes nothing available. *)
LEMMA TransferAvailable ==
    ASSUME TypeOK, NEW t \in Tasks, TryDone(t), NEW d \in Dirs, Available(d)'
    PROVE  Available(d)
  BY BoundsAssumption DEF TypeOK, TryDone, Available, Dirs

LEMMA NextReadiness ==
    TypeOK /\ NoLostReadiness /\ ClearInv /\ [Next]_vars => NoLostReadiness' /\ ClearInv'
  <1> SUFFICES ASSUME TypeOK, NoLostReadiness, ClearInv, [Next]_vars
               PROVE  NoLostReadiness' /\ ClearInv'
    OBVIOUS
  <1> USE DirType DEF NoLostReadiness, ClearInv, kernel, asyncfd, tasks
  <1>1. CASE PacketArrives
    <2>1. \A d \in Dirs : Available(d)' => Available(d) \/ d \in edge'
      BY <1>1 DEF PacketArrives, Raise, Available, Dirs
    <2>2. edge \subseteq edge'
      BY <1>1 DEF PacketArrives, Raise
    <2>3. QED
      BY <1>1, <2>1, <2>2 DEF PacketArrives
  <1>2. CASE PacketTransmitted
    <2>1. \A d \in Dirs : Available(d)' => Available(d) \/ d \in edge'
      BY <1>2 DEF PacketTransmitted, Raise, Available, Dirs
    <2>2. edge \subseteq edge'
      BY <1>2 DEF PacketTransmitted, Raise
    <2>3. QED
      BY <1>2, <2>1, <2>2 DEF PacketTransmitted
  <1>3. CASE DriverTurn
    <2>1. \A d \in Dirs : Available(d)' <=> Available(d)
      BY <1>3 DEF DriverTurn, Available
    <2>2. \A t \in Tasks : ~current'[t]
      BY <1>3 DEF DriverTurn
    <2>3. bits' = bits \cup edge
      BY <1>3 DEF DriverTurn
    <2>4. QED
      BY <2>1, <2>2, <2>3
  <1>4. CASE RuntimeShutdown
    BY <1>4 DEF RuntimeShutdown, Available
  <1>5. ASSUME NEW t \in Tasks, Start(t) \/ Repoll(t) \/ Cancel(t)
        PROVE  NoLostReadiness' /\ ClearInv'
    BY <1>5 DEF Start, Repoll, Cancel, Available, TypeOK
  <1>6. ASSUME NEW t \in Tasks, CheckFails(t) \/ CheckReady(t) \/ CheckPending(t)
        PROVE  NoLostReadiness' /\ ClearInv'
    BY <1>6 DEF CheckFails, CheckReady, CheckPending, Return, Available, TypeOK
  <1>7. ASSUME NEW t \in Tasks, TryDone(t)
        PROVE  NoLostReadiness' /\ ClearInv'
    <2>1. \A d \in Dirs : Available(d)' => Available(d)
      BY <1>7, TransferAvailable
    <2>2. QED
      BY <1>7, <2>1 DEF TryDone, Return, TypeOK
  <1>8. ASSUME NEW t \in Tasks, TryFails(t) \/ TryWouldBlock(t)
        PROVE  NoLostReadiness' /\ ClearInv'
    BY <1>8 DEF TryFails, TryWouldBlock, Return, Available, TypeOK
  <1>9. ASSUME NEW t \in Tasks, Clear(t)
        PROVE  NoLostReadiness' /\ ClearInv'
    <2>1. \A d \in Dirs : Available(d)' <=> Available(d)
      BY <1>9 DEF Clear, Available
    <2>2. \A d \in Dirs : d \in bits /\ d \notin bits' => d = Dir(t) /\ current[t]
      BY <1>9 DEF Clear
    <2>3. NoLostReadiness'
      BY <1>9, <2>1, <2>2 DEF Clear
    <2>4. ClearInv'
      BY <1>9, <2>1 DEF Clear, TypeOK
    <2>5. QED
      BY <2>3, <2>4
  <1>10. CASE UNCHANGED vars
    BY <1>10 DEF vars, Available
  <1>11. QED
    BY <1>1, <1>2, <1>3, <1>4, <1>5, <1>6, <1>7, <1>8, <1>9, <1>10 DEF Next, System, Running

-----------------------------------------------------------------------------
(* Wakers *)

LEMMA NextStarted ==
    ASSUME TypeOK, StartedInv, [Next]_vars
    PROVE  StartedInv' /\ started \subseteq started'
  <1> USE DEF TypeOK, StartedInv, kernel, asyncfd, tasks
  <1>1. CASE System \/ UNCHANGED vars
    BY <1>1 DEF System, PacketArrives, PacketTransmitted, DriverTurn, RuntimeShutdown, vars
  <1>2. ASSUME NEW t \in Tasks, Start(t) \/ Repoll(t) \/ Cancel(t)
        PROVE  StartedInv' /\ started \subseteq started'
    BY <1>2 DEF Start, Repoll, Cancel
  <1>3. ASSUME NEW t \in Tasks, Running(t)
        PROVE  StartedInv' /\ started \subseteq started'
    BY <1>3 DEF Running, CheckFails, CheckReady, CheckPending, TryDone, TryFails, TryWouldBlock,
                Clear, Return
  <1>4. QED
    BY <1>1, <1>2, <1>3 DEF Next

LEMMA NextWakeup == TypeOK /\ StartedInv /\ NoLostWakeup /\ [Next]_vars => NoLostWakeup'
  <1> SUFFICES ASSUME TypeOK, StartedInv, NoLostWakeup, [Next]_vars,
                      NEW u \in Tasks, Alone(Dir(u))', pc'[u] = "pending", ~woken'[u]
               PROVE  slot'[Dir(u)] = u /\ Dir(u) \notin bits' /\ ~shutdown'
    BY DEF NoLostWakeup, Dir
  <1>0. Alone(Dir(u))
    BY NextStarted DEF Alone, Dir
  <1> USE <1>0, DirType DEF NoLostWakeup, TypeOK, kernel, asyncfd, tasks
  <1>1. CASE PacketArrives \/ PacketTransmitted
    BY <1>1 DEF PacketArrives, PacketTransmitted
  <1>2. CASE DriverTurn
    <2>1. ~woken[u] /\ pc[u] = "pending" /\ ~(\E d \in edge : slot[d] = u)
      BY <1>2 DEF DriverTurn, Wake, StartedInv
    <2>2. slot[Dir(u)] = u /\ Dir(u) \notin bits /\ Dir(u) \notin edge
      BY <2>1
    <2>3. QED
      BY <1>2, <2>1, <2>2 DEF DriverTurn, Wake
  <1>3. CASE RuntimeShutdown
    <2>1. ~woken[u] /\ pc[u] = "pending" /\ ~(\E d \in Dirs : slot[d] = u)
      BY <1>3 DEF RuntimeShutdown, Wake, StartedInv
    <2>2. slot[Dir(u)] = u
      BY <2>1
    <2>3. QED
      BY <2>1, <2>2
  <1>4. ASSUME NEW t \in Tasks, Start(t) \/ Repoll(t) \/ Cancel(t)
        PROVE  slot'[Dir(u)] = u /\ Dir(u) \notin bits' /\ ~shutdown'
    BY <1>4 DEF Start, Repoll, Cancel
  <1>5. ASSUME NEW t \in Tasks, CheckPending(t)
        PROVE  slot'[Dir(u)] = u /\ Dir(u) \notin bits' /\ ~shutdown'
    <2>1. CASE t = u
      BY <1>5, <2>1 DEF CheckPending, Return
    <2>2. CASE t # u
      <3>1. Dir(t) # Dir(u)
        BY <1>5, <2>2 DEF Alone, StartedInv, CheckPending, Return
      <3>2. QED
        BY <1>5, <2>2, <3>1 DEF CheckPending, Return
    <2>3. QED
      BY <2>1, <2>2
  <1>6. ASSUME NEW t \in Tasks,
               CheckFails(t) \/ CheckReady(t) \/ TryDone(t) \/ TryFails(t)
                   \/ TryWouldBlock(t) \/ Clear(t)
        PROVE  slot'[Dir(u)] = u /\ Dir(u) \notin bits' /\ ~shutdown'
    BY <1>6 DEF CheckFails, CheckReady, TryDone, TryFails, TryWouldBlock, Clear, Return
  <1>7. CASE UNCHANGED vars
    BY <1>7 DEF vars
  <1>8. QED
    BY <1>1, <1>2, <1>3, <1>4, <1>5, <1>6, <1>7 DEF Next, System, Running

-----------------------------------------------------------------------------

THEOREM Invariance == Spec => []IInv
  <1>1. IInv /\ [Next]_vars => IInv'
    BY NextTypeOK, NextReadiness, NextStarted, NextWakeup DEF IInv
  <1>2. QED
    BY InitIInv, <1>1, PTL DEF Spec

(* The variables have their types. *)
THEOREM TypeCorrect == Spec => []TypeOK
  <1>1. IInv => TypeOK
    BY DEF IInv
  <1>2. QED
    BY <1>1, Invariance, PTL

(* However the clear of a WouldBlock and new events interleave, an available *)
(* direction is known or about to be.                                        *)
THEOREM ReadinessSafety == Spec => []NoLostReadiness
  <1>1. IInv => NoLostReadiness
    BY DEF IInv
  <1>2. QED
    BY <1>1, Invariance, PTL

(* A suspended task, alone in its direction and not woken, is the one that *)
(* will be, and is missing nothing.                                        *)
THEOREM WakeupSafety == Spec => []NoLostWakeup
  <1>1. IInv => NoLostWakeup
    BY DEF IInv
  <1>2. QED
    BY <1>1, Invariance, PTL

=============================================================================
