-------------------------- MODULE FdOwnershipProofs --------------------------
(***************************************************************************)
(* Theorems about FdOwnership, for any number of descriptors and writers:  *)
(* its type invariant, that handles reach their files, that nothing leaks, *)
(* and that nothing foreign is closed.                                     *)
(***************************************************************************)
EXTENDS FdOwnership, TLAPS

(* Which fields hold an Arc<Fd>, by the values that the program holds. *)
Built ==
    \/ handles \in {{"device"}, {"async"}} /\ arcs = Fields
    \/ handles # {} /\ handles \subseteq AsyncHalves /\ arcs = Fields
    \/ handles \subseteq {"reader", "writer"} /\ arcs = handles /\ ctl = NoFd

Owned ==
    /\ stage # "built" => handles = {}
    /\ stage \in {"new", "gone"} => arcs = {} /\ ctl = NoFd
    /\ stage = "opened" => arcs = (IF inner = NoFd THEN {} ELSE {"tun"})
    /\ stage = "ready" => arcs = Fields
    /\ stage = "built" => Built

(* The table and the numbers that the crate holds agree. *)
Agree ==
    /\ ctl # NoFd => table[ctl] = "ctl"
    /\ \A n \in Fds : table[n] = "ctl" => n = ctl
    /\ \A n \in Fds : table[n] = "tun" => n = inner
    /\ arcs # {} => inner # NoFd /\ table[inner] = "tun"

(* What the crate opens it may close; what it is handed is open until then. *)
Flags ==
    /\ ~adopted => closeOnDrop
    /\ stage \in {"opened", "ready"} => ~adopted
    /\ stage = "new" /\ ~adopted => inner = NoFd
    /\ stage = "new" /\ adopted /\ inner # NoFd => table[inner] = "tun"

(* A TUN descriptor outlives the crate only if the caller keeps it. *)
Kept == Done /\ closeOnDrop => \A n \in Fds : table[n] # "tun"

IInv == TypeOK /\ Owned /\ Agree /\ Flags /\ Kept

-----------------------------------------------------------------------------

LEMMA FdsType == NoFd \notin Fds
  BY DEF NoFd, Fds

LEMMA InitIInv == Init => IInv
  <1> SUFFICES ASSUME Init PROVE IInv
    OBVIOUS
  <1>1. TypeOK
    BY DEF Init, TypeOK, Files, Stages
  <1>2. Owned /\ Kept
    BY DEF Init, Owned, Kept, Done
  <1>3. Agree /\ Flags
    BY FdsType DEF Init, Agree, Flags
  <1>4. QED
    BY <1>1, <1>2, <1>3 DEF IInv

-----------------------------------------------------------------------------
(* What dropping the Arc<Fd> of some fields does. *)

LEMMA ReleaseType ==
    ASSUME TypeOK, NEW S, NEW withCtl \in BOOLEAN, Release(S, withCtl)
    PROVE  /\ table' \in [Fds -> Files]
           /\ arcs' \in SUBSET Fields
           /\ ctl' \in Fds \cup {NoFd}
  BY DEF TypeOK, Release, Files

LEMMA ReleaseAgrees ==
    ASSUME TypeOK, Agree, NEW S, NEW withCtl \in BOOLEAN, Release(S, withCtl),
           UNCHANGED inner
    PROVE  Agree'
  <1> USE FdsType DEF TypeOK
  <1>1. \A n \in Fds : table'[n] = table[n] \/ table'[n] = "free"
    BY DEF Release
  <1>2. ctl' # NoFd => ctl' = ctl /\ ctl \in Fds /\ table'[ctl] = "ctl"
    BY DEF Release, Agree
  <1>3. \A n \in Fds : table'[n] = "ctl" => n = ctl'
    BY DEF Release, Agree
  <1>4. arcs' # {} => inner \in Fds /\ table'[inner] = "tun"
    <2>1. arcs' # {} => arcs # {} /\ ~(arcs \subseteq S)
      BY DEF Release
    <2>2. arcs # {} => inner \in Fds /\ table[inner] = "tun" /\ inner # ctl
      BY DEF Agree
    <2>3. QED
      BY <2>1, <2>2 DEF Release
  <1>5. QED
    BY <1>1, <1>2, <1>3, <1>4 DEF Agree

(* The last one closes a descriptor that may be closed. *)
LEMMA ReleaseCloses ==
    ASSUME TypeOK, Agree, NEW S, NEW withCtl \in BOOLEAN, Release(S, withCtl),
           arcs' = {}, arcs # {}, closeOnDrop
    PROVE  \A n \in Fds : table'[n] # "tun"
  BY DEF TypeOK, Agree, Release

(* And nothing but that and the control socket is closed. *)
LEMMA ReleaseClosesOwn ==
    ASSUME TypeOK, Agree, NEW S, NEW withCtl \in BOOLEAN, Release(S, withCtl),
           NEW n \in Fds, table[n] # "free", table'[n] = "free"
    PROVE  table[n] = "ctl" \/ (table[n] = "tun" /\ closeOnDrop)
  BY FdsType DEF TypeOK, Agree, Release

-----------------------------------------------------------------------------
(* Each step keeps the invariant. *)

LEMMA NextNew == IInv /\ New => IInv'
  <1> SUFFICES ASSUME IInv, New PROVE IInv'
    OBVIOUS
  <1> USE FdsType DEF IInv
  <1>1. CASE OpenFails
    <2>1. closeOnDrop => \A n \in Fds : table[n] # "tun"
      BY <1>1 DEF OpenFails, Agree, Flags, TypeOK
    <2>2. QED
      BY <1>1, <2>1 DEF OpenFails, TypeOK, Owned, Agree, Flags, Kept, Done, Stages
  <1>2. CASE Open
    <2>1. PICK n \in Fds : /\ table[n] = "free"
                           /\ table' = [table EXCEPT ![n] = "tun"]
                           /\ inner' = n
      BY <1>2 DEF Open
    <2>2. TypeOK'
      BY <1>2, <2>1 DEF Open, TypeOK, Files, Stages, Fields
    <2>3. Agree'
      BY <1>2, <2>1 DEF Open, TypeOK, Agree
    <2>4. Owned' /\ Flags' /\ Kept'
      BY <1>2, <2>1 DEF Open, Owned, Flags, Kept, Done
    <2>5. QED
      BY <2>2, <2>3, <2>4
  <1>3. CASE OpenCtl
    <2>1. PICK n \in Fds : /\ table[n] = "free"
                           /\ table' = [table EXCEPT ![n] = "ctl"]
                           /\ ctl' = n
      BY <1>3 DEF OpenCtl
    <2>2. TypeOK'
      BY <1>3, <2>1 DEF OpenCtl, TypeOK, Files, Stages
    <2>3. Agree'
      BY <1>3, <2>1 DEF OpenCtl, TypeOK, Agree
    <2>4. Owned' /\ Flags' /\ Kept'
      BY <1>3, <2>1 DEF OpenCtl, Owned, Flags, Kept, Done
    <2>5. QED
      BY <2>2, <2>3, <2>4
  <1>4. CASE Assemble
    BY <1>4 DEF Assemble, TypeOK, Owned, Agree, Flags, Kept, Done, Stages
  <1>5. CASE Adopt
    BY <1>5 DEF Adopt, TypeOK, Owned, Built, Agree, Flags, Kept, Done, Stages, Handles
  <1>6. CASE Build
    BY <1>6 DEF Build, TypeOK, Owned, Built, Agree, Flags, Kept, Done, Stages, Handles
  <1>7. CASE NewFails
    <2>1. Release(arcs, TRUE) /\ UNCHANGED inner
      BY <1>7 DEF NewFails
    <2>2. arcs' = {} /\ ctl' = NoFd
      BY <2>1 DEF Release
    <2>3. \A n \in Fds : table'[n] # "tun"
      <3>1. CASE arcs = {}
        BY <1>7, <2>1, <3>1 DEF NewFails, Owned, Agree, Release, TypeOK, Fields
      <3>2. CASE arcs # {}
        BY <1>7, <2>1, <2>2, <3>2, ReleaseCloses DEF NewFails, Flags
      <3>3. QED
        BY <3>1, <3>2
    <2>4. TypeOK' /\ Agree'
      BY <1>7, <2>1, ReleaseType, ReleaseAgrees DEF NewFails, TypeOK, Stages
    <2>5. QED
      BY <1>7, <2>2, <2>3, <2>4 DEF NewFails, Owned, Flags, Kept, Done
  <1>8. CASE RawFdRefused
    BY <1>8 DEF RawFdRefused, TypeOK, Owned, Agree, Flags, Kept, Done, Stages
  <1>9. QED
    BY <1>1, <1>2, <1>3, <1>4, <1>5, <1>6, <1>7, <1>8 DEF New

(* A step after which the program holds the handles H, and which drops the      *)
(* fields S, or all that is left.                                               *)
LEMMA DropKeeps ==
    ASSUME IInv, NEW S \in SUBSET Fields, NEW withCtl \in BOOLEAN,
           Release(S, withCtl), stage = "built", arcs # {},
           UNCHANGED <<adopted, closeOnDrop, stage, inner>>,
           handles' \in SUBSET Handles, Built', handles' = {} => arcs' = {}
    PROVE  IInv'
  <1>1. TypeOK'
    BY ReleaseType DEF IInv, TypeOK
  <1>2. Agree'
    BY ReleaseAgrees DEF IInv
  <1>3. Owned' /\ Flags'
    BY DEF IInv, Owned, Flags
  <1>4. Kept'
    BY ReleaseCloses DEF IInv, Kept, Done
  <1>5. QED
    BY <1>1, <1>2, <1>3, <1>4 DEF IInv

(* A handle is only held of a built device. *)
LEMMA HandleBuilt == Owned /\ handles # {} => stage = "built" /\ Built
  BY DEF Owned

LEMMA NextUse == IInv /\ Use => IInv'
  <1> SUFFICES ASSUME IInv, Use PROVE IInv'
    OBVIOUS
  <1>b. handles # {} => stage = "built" /\ Built
    BY HandleBuilt DEF IInv
  <1>1. CASE Split
    <2>1. stage = "built" /\ arcs = Fields
      BY <1>1, <1>b, WritersAssumption DEF Split, Built, AsyncHalves
    <2>2. Release({"tun"}, TRUE) /\ {"tun"} \in SUBSET Fields
      BY <1>1 DEF Split, Fields
    <2>3. arcs' = {"reader", "writer"} /\ ctl' = NoFd
      BY <2>1, <2>2 DEF Release, Fields
    <2>4. Built' /\ handles' \in SUBSET Handles /\ handles' # {}
      BY <1>1, <2>3 DEF Split, Built, Handles
    <2>5. QED
      BY <1>1, <2>1, <2>2, <2>3, <2>4, DropKeeps DEF Split, Fields
  <1>2. CASE MakeAsync
    <2>1. stage = "built" /\ arcs = Fields
      BY <1>2, <1>b, WritersAssumption DEF MakeAsync, Built, AsyncHalves
    <2>2. QED
      BY <1>2, <2>1 DEF MakeAsync, IInv, TypeOK, Owned, Built, Agree, Flags, Kept, Done, Handles
  <1>3. CASE MakeAsyncFails \/ DropWhole \/ IntoRawFd
    <2>1. stage = "built" /\ arcs = Fields /\ handles \in {{"device"}, {"async"}}
      BY <1>3, <1>b, WritersAssumption
      DEF MakeAsyncFails, DropWhole, IntoRawFd, Built, AsyncHalves
    <2>2. handles' = {} /\ UNCHANGED <<adopted, closeOnDrop, stage, inner>>
      BY <1>3, <2>1 DEF MakeAsyncFails, DropWhole, IntoRawFd
    <2>3. Release(Fields, TRUE)
      <3>1. OtherOwners # {}
        BY <2>1 DEF OtherOwners, Fields
      <3>2. QED
        BY <1>3, <3>1 DEF MakeAsyncFails, DropWhole, IntoRawFd
    <2>4. arcs' = {} /\ ctl' = NoFd
      BY <2>1, <2>3 DEF Release
    <2>5. Built'
      BY <2>2, <2>4 DEF Built
    <2>6. QED
      BY <2>1, <2>2, <2>3, <2>4, <2>5, DropKeeps DEF Fields
  <1>4. CASE AsyncSplit
    <2>1. stage = "built" /\ arcs = Fields
      BY <1>4, <1>b, WritersAssumption DEF AsyncSplit, Built, AsyncHalves
    <2>2. handles' # {} /\ handles' \subseteq AsyncHalves /\ handles' \subseteq Handles
      BY <1>4 DEF AsyncSplit, AsyncHalves, Handles
    <2>3. QED
      BY <1>4, <2>1, <2>2 DEF AsyncSplit, IInv, TypeOK, Owned, Built, Agree, Flags, Kept, Done
  <1>5. CASE CloneWriter
    <2>1. stage = "built" /\ arcs = Fields /\ handles \subseteq AsyncHalves
      BY <1>5, <1>b, WritersAssumption DEF CloneWriter, Built
    <2>2. handles' # {} /\ handles' \subseteq AsyncHalves /\ handles' \subseteq Handles
      BY <1>5, <2>1 DEF CloneWriter, AsyncHalves, Handles
    <2>3. QED
      BY <1>5, <2>1, <2>2 DEF CloneWriter, IInv, TypeOK, Owned, Built, Agree, Flags, Kept, Done
  <1>6. CASE DropHalf
    <2>1. PICK h \in {"reader", "writer"} : /\ h \in handles
                                            /\ handles' = handles \ {h}
                                            /\ Release({h}, FALSE)
      BY <1>6 DEF DropHalf
    <2>2. /\ stage = "built" /\ handles \subseteq {"reader", "writer"}
          /\ arcs = handles /\ ctl = NoFd
      BY <2>1, <1>b, WritersAssumption DEF Built, AsyncHalves
    <2>3. arcs' = handles' /\ ctl' = NoFd
      BY <2>1, <2>2 DEF Release
    <2>4. Built' /\ handles' \in SUBSET Handles /\ {h} \in SUBSET Fields
      BY <2>1, <2>2, <2>3 DEF Built, Handles, Fields
    <2>5. QED
      BY <1>6, <2>1, <2>2, <2>3, <2>4, DropKeeps DEF DropHalf
  <1>7. CASE DropAsyncHalf
    <2>1. PICK h \in AsyncHalves :
             /\ h \in handles
             /\ handles' = handles \ {h}
             /\ IF handles = {h} THEN Release(Fields, TRUE) ELSE UNCHANGED <<table, ctl, arcs>>
      BY <1>7 DEF DropAsyncHalf
    <2>2. stage = "built" /\ arcs = Fields /\ handles \subseteq AsyncHalves
      BY <2>1, <1>b, WritersAssumption DEF Built, AsyncHalves
    <2>3. CASE handles = {h}
      <3>1. handles' = {} /\ Release(Fields, TRUE)
        BY <2>1, <2>3
      <3>2. arcs' = {} /\ ctl' = NoFd
        BY <2>2, <3>1 DEF Release
      <3>3. Built'
        BY <3>1, <3>2 DEF Built
      <3>4. QED
        BY <1>7, <2>2, <3>1, <3>2, <3>3, DropKeeps DEF DropAsyncHalf, Fields
    <2>4. CASE handles # {h}
      <3>1. handles' # {} /\ handles' \subseteq AsyncHalves /\ UNCHANGED <<table, ctl, arcs>>
        BY <2>1, <2>2, <2>4
      <3>2. handles' \subseteq Handles
        BY <3>1 DEF AsyncHalves, Handles
      <3>3. QED
        BY <1>7, <2>2, <3>1, <3>2
        DEF DropAsyncHalf, IInv, TypeOK, Owned, Built, Agree, Flags, Kept, Done
    <2>5. QED
      BY <2>3, <2>4
  <1>8. QED
    BY <1>1, <1>2, <1>3, <1>4, <1>5, <1>6, <1>7 DEF Use

LEMMA NextRest == IInv /\ Rest => IInv'
  <1> SUFFICES ASSUME IInv, Rest PROVE IInv'
    OBVIOUS
  <1> USE FdsType DEF IInv, Built, Done
  <1>1. CASE OtherOpens
    <2>1. PICK n \in Fds : table[n] = "free" /\ table' = [table EXCEPT ![n] = "other"]
      BY <1>1 DEF OtherOpens
    <2>2. TypeOK'
      BY <1>1, <2>1 DEF OtherOpens, TypeOK, Files
    <2>3. Owned' /\ Agree' /\ Flags' /\ Kept'
      BY <1>1, <2>1 DEF OtherOpens, TypeOK, Owned, Agree, Flags, Kept
    <2>4. QED
      BY <2>2, <2>3
  <1>2. CASE OtherCloses
    <2>1. PICK n \in Fds : table[n] = "other" /\ table' = [table EXCEPT ![n] = "free"]
      BY <1>2 DEF OtherCloses
    <2>2. TypeOK'
      BY <1>2, <2>1 DEF OtherCloses, TypeOK, Files
    <2>3. Owned' /\ Agree' /\ Flags' /\ Kept'
      BY <1>2, <2>1 DEF OtherCloses, TypeOK, Owned, Agree, Flags, Kept
    <2>4. QED
      BY <2>2, <2>3
  <1>3. CASE CallerCloses
    <2>1. inner \in Fds /\ table[inner] = "tun" /\ table' = [table EXCEPT ![inner] = "free"]
      BY <1>3 DEF CallerCloses, TypeOK
    <2>2. arcs = {} /\ ctl = NoFd /\ stage # "new"
      BY <1>3 DEF CallerCloses, Owned, AsyncHalves
    <2>3. TypeOK'
      BY <1>3, <2>1 DEF CallerCloses, TypeOK, Files
    <2>4. Owned' /\ Agree' /\ Flags' /\ Kept'
      BY <1>3, <2>1, <2>2 DEF CallerCloses, TypeOK, Owned, Agree, Flags, Kept
    <2>5. QED
      BY <2>3, <2>4
  <1>4. QED
    BY <1>1, <1>2, <1>3 DEF Rest

THEOREM Invariance == Spec => []IInv
  <1>1. IInv /\ UNCHANGED vars => IInv'
    BY DEF vars, IInv, TypeOK, Owned, Built, Agree, Flags, Kept, Done
  <1>2. IInv /\ [Next]_vars => IInv'
    BY <1>1, NextNew, NextUse, NextRest DEF Next
  <1>3. QED
    BY InitIInv, <1>2, PTL DEF Spec

-----------------------------------------------------------------------------

(* The variables have their types. *)
THEOREM TypeCorrect == Spec => []TypeOK
  <1>1. IInv => TypeOK
    BY DEF IInv
  <1>2. QED
    BY <1>1, Invariance, PTL

(* Whoever can read or write reaches the TUN descriptor, in every order of *)
(* drops and however numbers are reused.                                   *)
THEOREM HandleSafety == Spec => []HandlesReachTun
  <1>1. IInv => HandlesReachTun
    BY DEF IInv, Owned, Built, Agree, HandlesReachTun, Fields
  <1>2. QED
    BY <1>1, Invariance, PTL

(* Whoever can reconfigure reaches the control socket. *)
THEOREM CtlSafety == Spec => []CtlReachesCtl
  <1>1. IInv => CtlReachesCtl
    BY DEF IInv, Agree, CtlReachesCtl
  <1>2. QED
    BY <1>1, Invariance, PTL

(* Nothing is left open but what the caller kept. *)
THEOREM LeakFreedom == Spec => []NothingLeaks
  <1>1. IInv => NothingLeaks
    <2>1. IInv /\ Done => ctl = NoFd
      BY DEF IInv, Done, Owned, Built
    <2>2. QED
      BY <2>1, FdsType DEF IInv, Agree, Flags, Kept, NothingLeaks, TypeOK
  <1>2. QED
    BY <1>1, Invariance, PTL

(* No step of the crate closes a file that is not its own, or that it must *)
(* leave to the caller.                                                    *)
THEOREM CloseSafety == Spec => ClosesOnlyItsOwn
  <1> DEFINE Own == \A n \in Fds : table[n] # "free" /\ table'[n] = "free" /\ ~Rest =>
                       \/ table[n] = "ctl"
                       \/ table[n] = "tun" /\ closeOnDrop
  <1>1. IInv /\ [Next]_vars => [Own]_vars
    <2> SUFFICES ASSUME IInv, Next, ~Rest,
                        NEW n \in Fds, table[n] # "free", table'[n] = "free"
                 PROVE  table[n] = "ctl" \/ (table[n] = "tun" /\ closeOnDrop)
      OBVIOUS
    <2>1. ASSUME NEW S, NEW withCtl \in BOOLEAN, Release(S, withCtl)
          PROVE  table[n] = "ctl" \/ (table[n] = "tun" /\ closeOnDrop)
      BY <2>1, ReleaseClosesOwn DEF IInv
    <2>2. CASE New
      BY <2>1, <2>2 DEF New, OpenFails, RawFdRefused, Open, OpenCtl, Assemble, Adopt, Build, NewFails,
                        IInv, TypeOK
    <2>3. CASE IntoRawFd
      <3>1. OtherOwners # {}
        BY <2>3, HandleBuilt, WritersAssumption
        DEF IntoRawFd, IInv, Built, AsyncHalves, OtherOwners, Fields
      <3>2. QED
        BY <2>1, <2>3, <3>1 DEF IntoRawFd
    <2>4. CASE Use /\ ~IntoRawFd
      BY <2>1, <2>4 DEF Use, Split, MakeAsync, MakeAsyncFails, AsyncSplit, CloneWriter,
                        DropWhole, DropHalf, DropAsyncHalf
    <2>5. QED
      BY <2>2, <2>3, <2>4 DEF Next, Use
  <1>2. QED
    BY <1>1, Invariance, PTL DEF Spec, ClosesOnlyItsOwn

=============================================================================
