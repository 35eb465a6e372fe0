----------------------------- MODULE RouteProofs -----------------------------
(***************************************************************************)
(* Theorems about MacRoute and FreeBsdRoute, for all addresses, masks and  *)
(* networks, and lemmas about the configurations and routes that both take *)
(* from Configuration.                                                     *)
(***************************************************************************)
EXTENDS MacRoute, FreeBsdRoute, SequenceTheorems, TLAPS

-----------------------------------------------------------------------------
(* Configurations and routes *)

Networks == {Net[p] : p \in Addrs \X Masks}

LEMMA KeyType == \A r \in Routes : Key(r) \in Networks \X Dests
  BY DEF Key, Routes, Networks

LEMMA RouteSet == \A r \in Routes : r # Unset
  BY MasksAssumption

(* Replacing one part of a route makes a route. *)
LEMMA FieldType ==
    ASSUME NEW r \in Routes, NEW call \in Calls, call[1] \in {"addr", "dest", "mask"}
    PROVE  [r EXCEPT ![call[1]] = call[2]] \in Routes
  <1>1. CASE call \in {"addr"} \X Addrs
    BY <1>1 DEF Routes
  <1>2. CASE call \in {"dest"} \X Dests
    BY <1>2 DEF Routes
  <1>3. CASE call \in {"mask"} \X Masks
    BY <1>3 DEF Routes
  <1>4. QED
    BY <1>1, <1>2, <1>3 DEF Calls

LEMMA AliasType == \A c \in Configs : Alias(c) \in Routes
  BY MasksAssumption DEF Alias, Configs, Routes

LEMMA NoOptionsType == NoOptions \in Configs
  BY DEF NoOptions, Configs

(* configure makes calls of setters with values of their kind. *)
LEMMA PlanType == \A c \in Configs : Plan(c) \in Seq(Calls)
  <1> SUFFICES ASSUME NEW c \in Configs PROVE Plan(c) \in Seq(Calls)
    OBVIOUS
  <1> DEFINE Option(f) == IF c[f] = Unset THEN <<>> ELSE <<<<f, c[f]>>>>
             Switch(f) == IF f \in c.other THEN <<<<f, Unset>>>> ELSE <<>>
  <1>1. c["addr"] # Unset => <<"addr", c["addr"]>> \in Calls
    BY DEF Configs, Calls
  <1>2. c["dest"] # Unset => <<"dest", c["dest"]>> \in Calls
    BY DEF Configs, Calls
  <1>3. c["mask"] # Unset => <<"mask", c["mask"]>> \in Calls
    BY DEF Configs, Calls
  <1>4. \A f \in {"broadcast", "mtu", "enabled"} : <<f, Unset>> \in Calls
    BY DEF Calls
  <1>5. Option("addr") \in Seq(Calls) /\ Option("dest") \in Seq(Calls) /\ Option("mask") \in Seq(Calls)
    BY <1>1, <1>2, <1>3, EmptySeq
  <1>6. \A f \in {"broadcast", "mtu", "enabled"} : Switch(f) \in Seq(Calls)
    BY <1>4, EmptySeq
  <1>7. Plan(c) = Option("addr") \o Option("dest") \o Switch("broadcast") \o Option("mask")
                     \o Switch("mtu") \o Switch("enabled")
    BY DEF Plan
  <1> HIDE DEF Option, Switch
  <1>8. QED
    BY <1>5, <1>6, <1>7, ConcatProperties

(* A call that has still to be made is one of them. *)
LEMMA TodoType ==
    ASSUME NEW s \in Seq(Calls), s # <<>>
    PROVE  Head(s) \in Calls /\ Tail(s) \in Seq(Calls)
  OBVIOUS

-----------------------------------------------------------------------------
(* The macOS device *)

(* Until something fails the copy is the route of the interface's addresses:   *)
(* the next setter computes its route from the copy.                           *)
CopyFollows == stage = "live" /\ clean => iface \in Routes /\ route = iface /\ table = {Key(iface)}

IInv == TypeOK /\ RouteIsRemembered /\ CopyFollows

(* Device::set_route, for a valid route: it keeps the copy and the kernel's    *)
(* table in step, and when it succeeds both have the new route.                *)
LEMMA SetRouteKeeps ==
    ASSUME TypeOK, RouteIsRemembered, NEW new \in Routes, NEW ok, SetRoute(new, ok)
    PROVE  /\ RouteIsRemembered'
           /\ route' \in Routes \cup {Unset}
           /\ table' \in SUBSET (Networks \X Dests)
           /\ ok => route' = new /\ table' = {Key(new)}
  <1> DEFINE old == IF route = Unset THEN {} ELSE {Key(route)}
  <1>1. table \ old = {}
    BY DEF RouteIsRemembered
  <1>2. table \in SUBSET (Networks \X Dests)
    BY DEF TypeOK, Networks
  <1>3. CASE UNCHANGED <<table, route>> /\ ~ok
    BY <1>2, <1>3 DEF RouteIsRemembered, TypeOK
  <1>4. CASE table' = table \ old /\ UNCHANGED route /\ ~ok
    BY <1>1, <1>4 DEF RouteIsRemembered, TypeOK
  <1>5. CASE table' = (table \ old) \cup {Key(new)} /\ route' = new /\ ok
    BY <1>1, <1>5, KeyType, RouteSet DEF RouteIsRemembered
  <1>6. QED
    BY <1>3, <1>4, <1>5 DEF SetRoute

LEMMA InitIInv == Init => IInv
  <1> SUFFICES ASSUME Init PROVE IInv
    OBVIOUS
  <1>1. TypeOK
    BY PlanType DEF Init, TypeOK
  <1>2. QED
    BY <1>1 DEF Init, IInv, RouteIsRemembered, CopyFollows

(* A setter that fails at once leaves everything; otherwise the interface has  *)
(* the new value, and the route follows if there is one.                       *)
LEMMA SetterKeeps ==
    ASSUME IInv, NEW call \in Calls, NEW ok \in BOOLEAN, Setter(call[1], call[2], ok)
    PROVE  /\ RouteIsRemembered'
           /\ iface' \in [addr : Addrs \cup {Unset}, dest : Dests \cup {Unset},
                          mask : Masks \cup {Unset}]
           /\ route' \in Routes \cup {Unset}
           /\ table' \in SUBSET (Networks \X Dests)
           /\ stage = "live" /\ clean /\ ok =>
                 iface' \in Routes /\ route' = iface' /\ table' = {Key(iface')}
  <1> DEFINE f == call[1]
             v == call[2]
             T == [addr : Addrs \cup {Unset}, dest : Dests \cup {Unset}, mask : Masks \cup {Unset}]
             P == "addr" = f \/ "dest" = f \/ "mask" = f
  <1>1. iface \in T /\ (f \in DOMAIN iface <=> P)
    BY DEF IInv, TypeOK
  <1>2. ASSUME SetInterface(f, v)
        PROVE  iface' \in T
    <2>1. CASE call \in {"addr"} \X Addrs
      BY <1>1, <1>2, <2>1 DEF SetInterface
    <2>2. CASE call \in {"dest"} \X Dests
      BY <1>1, <1>2, <2>2 DEF SetInterface
    <2>3. CASE call \in {"mask"} \X Masks
      BY <1>1, <1>2, <2>3 DEF SetInterface
    <2>4. CASE call \in {"broadcast", "mtu", "enabled"} \X {Unset}
      BY <1>1, <1>2, <2>4 DEF SetInterface
    <2>5. QED
      BY <2>1, <2>2, <2>3, <2>4 DEF Calls
  <1>3. CASE ~ok /\ SetterFails
    BY <1>3 DEF SetterFails, IInv, TypeOK, RouteIsRemembered, Networks
  <1>4. CASE SetInterface(f, v) /\ (~P \/ route = Unset) /\ ok /\ UNCHANGED <<route, table>>
    <2>1. stage = "live" /\ clean => ~P /\ iface' = iface
      BY <1>1, <1>4, RouteSet DEF IInv, CopyFollows, SetInterface
    <2>2. QED
      BY <1>2, <1>4, <2>1 DEF IInv, TypeOK, RouteIsRemembered, CopyFollows, Networks
  <1>5. CASE SetInterface(f, v) /\ P /\ route # Unset /\ SetRoute([route EXCEPT ![f] = v], ok)
    <2>1. [route EXCEPT ![f] = v] \in Routes
      BY <1>5, FieldType DEF IInv, TypeOK
    <2>2. /\ RouteIsRemembered' /\ route' \in Routes \cup {Unset}
          /\ table' \in SUBSET (Networks \X Dests)
          /\ ok => route' = [route EXCEPT ![f] = v] /\ table' = {Key([route EXCEPT ![f] = v])}
      BY <1>5, <2>1, SetRouteKeeps DEF IInv
    <2>3. iface' = [iface EXCEPT ![f] = v]
      BY <1>1, <1>5 DEF SetInterface
    <2>4. QED
      BY <1>2, <1>5, <2>1, <2>2, <2>3 DEF IInv, CopyFollows
  <1>6. QED
    BY <1>1, <1>3, <1>4, <1>5 DEF Setter

LEMMA MacNext == IInv /\ [Next]_vars => IInv'
  <1> SUFFICES ASSUME IInv, [Next]_vars
               PROVE  IInv'
    OBVIOUS
  <1>1. CASE ConfigureStep
    <2>1. Head(todo) \in Calls /\ Tail(todo) \in Seq(Calls)
      BY <1>1, TodoType DEF ConfigureStep, IInv, TypeOK
    <2>2. PICK ok \in BOOLEAN :
             /\ Setter(Head(todo)[1], Head(todo)[2], ok)
             /\ todo' = (IF ok THEN Tail(todo) ELSE <<>>)
             /\ stage' = (IF stage = "new" /\ ~ok THEN "gone" ELSE stage)
             /\ clean' = (clean /\ ok)
      BY <1>1 DEF ConfigureStep
    <2>3. TypeOK'
      <3>1. todo' \in Seq(Calls)
        BY <2>1, <2>2, EmptySeq
      <3>2. stage' \in {"new", "live", "gone"} /\ clean' \in BOOLEAN /\ config' \in Configs
        BY <1>1, <2>2 DEF ConfigureStep, IInv, TypeOK
      <3>3. QED
        BY <2>1, <2>2, <3>1, <3>2, SetterKeeps DEF TypeOK, Networks
    <2>4. RouteIsRemembered' /\ CopyFollows'
      BY <2>1, <2>2, SetterKeeps DEF CopyFollows
    <2>5. QED
      BY <2>3, <2>4 DEF IInv
  <1>2. CASE SetAlias
    <2>1. Alias(config) \in Routes
      BY AliasType DEF IInv, TypeOK
    <2>2. PICK ok \in BOOLEAN : SetRoute(Alias(config), ok) /\ clean' = ok
      BY <1>2 DEF SetAlias
    <2>3. /\ iface' = Alias(config) /\ stage' = "live" /\ config' = NoOptions /\ todo' = todo
      BY <1>2 DEF SetAlias
    <2>4. /\ RouteIsRemembered' /\ route' \in Routes \cup {Unset}
          /\ table' \in SUBSET (Networks \X Dests)
          /\ ok => route' = Alias(config) /\ table' = {Key(Alias(config))}
      BY <2>1, <2>2, SetRouteKeeps DEF IInv
    <2>5. TypeOK'
      <3>1. iface' \in [addr : Addrs \cup {Unset}, dest : Dests \cup {Unset},
                        mask : Masks \cup {Unset}]
        BY <2>1, <2>3 DEF Routes
      <3>2. QED
        BY <2>2, <2>3, <2>4, <3>1, NoOptionsType DEF IInv, TypeOK, Networks
    <2>6. CopyFollows'
      BY <2>1, <2>2, <2>3, <2>4 DEF CopyFollows
    <2>7. QED
      BY <2>4, <2>5, <2>6 DEF IInv
  <1>3. CASE SetAliasFails
    BY <1>3 DEF SetAliasFails, IInv, TypeOK, RouteIsRemembered, CopyFollows
  <1>4. CASE Configure
    <2>1. todo' \in Seq(Calls)
      BY <1>4, PlanType DEF Configure
    <2>2. QED
      BY <1>4, <2>1 DEF Configure, IInv, TypeOK, RouteIsRemembered, CopyFollows
  <1>5. CASE DropDevice
    BY <1>5 DEF DropDevice, IInv, TypeOK, RouteIsRemembered, CopyFollows
  <1>6. CASE UNCHANGED vars
    BY <1>6 DEF vars, IInv, TypeOK, RouteIsRemembered, CopyFollows
  <1>7. QED
    BY <1>1, <1>2, <1>3, <1>4, <1>5, <1>6 DEF Next

THEOREM Invariance == Spec => []IInv
  BY InitIInv, MacNext, PTL DEF Spec

(* The variables of the macOS device have their types. *)
THEOREM TypeCorrect == Spec => []TypeOK
  <1>1. IInv => TypeOK
    BY DEF IInv
  <1>2. QED
    BY <1>1, Invariance, PTL

(* Whatever fails, the kernel has no route of the device but the one that the  *)
(* device would delete.                                                        *)
THEOREM RouteSafety == Spec => []RouteIsRemembered
  <1>1. IInv => RouteIsRemembered
    BY DEF IInv
  <1>2. QED
    BY <1>1, Invariance, PTL

(* Until something fails, the route is the one of the interface's addresses.   *)
THEOREM FollowSafety == Spec => []RouteFollowsUntilFailure
  <1>1. IInv => RouteFollowsUntilFailure
    BY DEF IInv, CopyFollows, RouteFollowsUntilFailure
  <1>2. QED
    BY <1>1, Invariance, PTL

-----------------------------------------------------------------------------
(* The invariant of the FreeBSD device *)

(* Before Device::new has set an alias there is neither address nor route, and *)
(* no setter to call.                                                          *)
BsdIInv ==
    /\ BsdTypeOK
    /\ RouteFollowsAddress
    /\ stage = "new" => iface = Unset /\ todo = <<>>

(* Device::set_alias on a table without routes of the device. *)
LEMMA BsdSetAliasKeeps ==
    ASSUME BsdTypeOK, NEW new \in Routes, BsdSetAlias(new, {})
    PROVE  /\ RouteFollowsAddress'
           /\ iface' \in Routes
           /\ route' \in Routes \cup {Unset}
           /\ table' \in SUBSET (Networks \X Dests)
  <1>1. iface' = new /\ new # Unset
    BY RouteSet DEF BsdSetAlias
  <1>2. CASE table' = {} /\ UNCHANGED route
    BY <1>1, <1>2 DEF RouteFollowsAddress, BsdTypeOK
  <1>3. CASE table' = {} \cup {Key(new)} /\ route' = new
    BY <1>1, <1>3, KeyType DEF RouteFollowsAddress
  <1>4. QED
    BY <1>2, <1>3 DEF BsdSetAlias, BsdSetRoute

(* What an address or a failed setter leaves. *)
LEMMA BsdSameKeeps ==
    ASSUME BsdTypeOK, RouteFollowsAddress, UNCHANGED route,
           UNCHANGED <<iface, table>> \/ (iface' = Unset /\ table' = {})
    PROVE  /\ RouteFollowsAddress'
           /\ iface' \in Routes \cup {Unset} /\ route' \in Routes \cup {Unset}
           /\ table' \in SUBSET (Networks \X Dests)
  BY DEF BsdTypeOK, RouteFollowsAddress, Networks

LEMMA BsdInitIInv == BsdInit => BsdIInv
  <1> SUFFICES ASSUME BsdInit PROVE BsdIInv
    OBVIOUS
  <1>1. BsdTypeOK
    BY EmptySeq DEF BsdInit, BsdTypeOK
  <1>2. QED
    BY <1>1 DEF BsdInit, BsdIInv, RouteFollowsAddress

LEMMA BsdNextIInv == BsdIInv /\ [BsdNext]_bsdVars => BsdIInv'
  <1> SUFFICES ASSUME BsdIInv, [BsdNext]_bsdVars
               PROVE  BsdIInv'
    OBVIOUS
  <1> DEFINE Stages == {"new", "configure", "live", "gone"}
             Types  == /\ iface' \in Routes \cup {Unset} /\ route' \in Routes \cup {Unset}
                       /\ table' \in SUBSET (Networks \X Dests)
  <1>1. /\ BsdTypeOK /\ RouteFollowsAddress /\ (stage = "new" => iface = Unset /\ todo = <<>>)
        /\ config \in Configs /\ todo \in Seq(Calls) /\ stage \in Stages
        /\ iface \in Routes \cup {Unset} /\ route \in Routes \cup {Unset}
    BY DEF BsdIInv, BsdTypeOK
  <1>2. ASSUME RouteFollowsAddress', Types, stage' \in Stages \ {"new"},
               config' \in Configs, todo' \in Seq(Calls)
        PROVE  BsdIInv'
    BY <1>2 DEF BsdIInv, BsdTypeOK, Networks
  <1>3. ASSUME NEW s \in Stages \ {"new"}, stage' = s, UNCHANGED route, config' \in Configs,
               todo' \in Seq(Calls), UNCHANGED <<iface, table>> \/ (iface' = Unset /\ table' = {})
        PROVE  BsdIInv'
    BY <1>1, <1>2, <1>3, BsdSameKeeps
  <1>4. CASE NewAlias
    <2>1. /\ BsdSetAlias(Alias(config), table) /\ stage = "new" /\ stage' = "configure"
          /\ todo' = Plan(config) /\ config' = NoOptions
      BY <1>4 DEF NewAlias
    <2>2. table = {}
      BY <1>1, <2>1 DEF RouteFollowsAddress
    <2>3. Alias(config) \in Routes
      BY <1>1, AliasType
    <2>4. RouteFollowsAddress' /\ Types
      BY <1>1, <2>1, <2>2, <2>3, BsdSetAliasKeeps
    <2>5. todo' \in Seq(Calls) /\ config' \in Configs
      BY <1>1, <2>1, PlanType, NoOptionsType
    <2>6. QED
      BY <1>2, <2>1, <2>4, <2>5
  <1>5. CASE NewAliasFails \/ NewConfigureFails \/ BsdDropDevice
    <2>1. /\ stage' = "gone" /\ iface' = Unset /\ table' = {} /\ todo' = <<>>
          /\ UNCHANGED <<config, route>>
      BY <1>5 DEF NewAliasFails, NewConfigureFails, BsdDropDevice, Gone
    <2>2. QED
      BY <1>1, <1>3, <2>1, EmptySeq
  <1>6. CASE BsdConfigureStep
    <2>1. Head(todo) \in Calls /\ Tail(todo) \in Seq(Calls)
      BY <1>1, <1>6, TodoType DEF BsdConfigureStep
    <2>2. /\ todo' = Tail(todo) /\ UNCHANGED <<stage, config>>
      BY <1>6 DEF BsdConfigureStep
    <2>3. stage # "new"
      BY <1>1, <1>6 DEF BsdConfigureStep
    <2>4. CASE Head(todo)[1] \in {"addr", "dest", "mask"}
      <3>1. SetterSucceeds(Head(todo)[1], Head(todo)[2])
        BY <1>6, <2>4 DEF BsdConfigureStep
      <3>2. /\ route \in Routes
            /\ BsdSetAlias([route EXCEPT ![Head(todo)[1]] = Head(todo)[2]], {})
        BY <1>1, <3>1 DEF SetterSucceeds
      <3>3. [route EXCEPT ![Head(todo)[1]] = Head(todo)[2]] \in Routes
        BY <2>1, <2>4, <3>2, FieldType
      <3>4. RouteFollowsAddress' /\ Types
        BY <1>1, <3>2, <3>3, BsdSetAliasKeeps
      <3>5. QED
        BY <1>1, <1>2, <2>1, <2>2, <2>3, <3>4
    <2>5. CASE Head(todo)[1] \notin {"addr", "dest", "mask"}
      <3>1. UNCHANGED <<iface, route, table>>
        BY <1>6, <2>5 DEF BsdConfigureStep, OtherSetter
      <3>2. QED
        BY <1>1, <1>3, <2>1, <2>2, <2>3, <3>1
    <2>6. QED
      BY <2>4, <2>5
  <1>7. CASE ConfigureStepFails
    <2>1. /\ stage' = "live" /\ UNCHANGED <<config, route>> /\ todo' = <<>>
          /\ UNCHANGED <<iface, table>> \/ (iface' = Unset /\ table' = {})
      BY <1>7 DEF ConfigureStepFails, BsdSetterFails, OtherSetter
    <2>2. QED
      BY <1>1, <1>3, <2>1, EmptySeq
  <1>8. CASE NewReturns
    BY <1>1, <1>3, <1>8 DEF NewReturns
  <1>9. CASE BsdConfigure
    <2>1. todo' \in Seq(Calls)
      BY <1>9, PlanType DEF BsdConfigure
    <2>2. QED
      BY <1>1, <1>3, <1>9, <2>1 DEF BsdConfigure
  <1>10. CASE UNCHANGED bsdVars
    BY <1>10 DEF bsdVars, BsdIInv, BsdTypeOK, RouteFollowsAddress
  <1>11. QED
    BY <1>4, <1>5, <1>6, <1>7, <1>8, <1>9, <1>10 DEF BsdNext

THEOREM BsdInvariance == BsdSpec => []BsdIInv
  BY BsdInitIInv, BsdNextIInv, PTL DEF BsdSpec

(* The variables of the FreeBSD device have their types. *)
THEOREM BsdTypeCorrect == BsdSpec => []BsdTypeOK
  <1>1. BsdIInv => BsdTypeOK
    BY DEF BsdIInv
  <1>2. QED
    BY <1>1, BsdInvariance, PTL

(* Although set_route never deletes a route, the kernel has none but that of   *)
(* the address that the interface has.                                         *)
THEOREM BsdRouteSafety == BsdSpec => []RouteFollowsAddress
  <1>1. BsdIInv => RouteFollowsAddress
    BY DEF BsdIInv
  <1>2. QED
    BY <1>1, BsdInvariance, PTL

(* No setter of a live device brings back an address once it is lost. *)
THEOREM BsdLossSafety == BsdSpec => LostAddressStaysLost
  <1>1. [BsdNext]_bsdVars =>
            [stage = "live" /\ iface = Unset => iface' = Unset]_bsdVars
    <2> SUFFICES ASSUME BsdNext, stage = "live", iface = Unset
                 PROVE  iface' = Unset
      BY DEF bsdVars
    <2>1. CASE BsdConfigureStep
      BY <2>1 DEF BsdConfigureStep, SetterSucceeds, OtherSetter
    <2>2. CASE ConfigureStepFails
      BY <2>2 DEF ConfigureStepFails, BsdSetterFails, OtherSetter
    <2>3. CASE BsdConfigure \/ BsdDropDevice
      BY <2>3 DEF BsdConfigure, BsdDropDevice, Gone
    <2>4. QED
      BY <2>1, <2>2, <2>3 DEF BsdNext, NewAlias, NewAliasFails,
                              NewConfigureFails, NewReturns
  <1>2. QED
    BY <1>1, PTL DEF BsdSpec, LostAddressStaysLost

=============================================================================
