----------------------------- MODULE FreeBsdRoute -----------------------------
(***************************************************************************)
(* Address and route of a FreeBSD device                                   *)
(* (src/src/platform/freebsd/device.rs).                                   *)
(*                                                                         *)
(* Device::new sets the alias first and runs configure second.  Setting    *)
(* one of address, destination and netmask deletes the address of the      *)
(* interface and sets a new alias, whose other two parts come from         *)
(* `route`, the copy of the last route that was added; a route that cannot *)
(* be added is only logged.                                                *)
(*                                                                         *)
(* External: the ioctls and the route command, which may fail at any time; *)
(* deleting an address takes its routes along, and fails when there is     *)
(* none.  The setters act under &mut self, so one call is one step.        *)
(*                                                                         *)
(* The names that MacRoute has too begin with Bsd.                         *)
(***************************************************************************)
EXTENDS Configuration

bsdVars == <<stage, config, todo, iface, route, table>>

BsdTypeOK ==
    /\ stage \in {"new", "configure", "live", "gone"}
    /\ config \in Configs
    /\ todo \in Seq(Calls)
    /\ iface \in Routes \cup {Unset}
    /\ route \in Routes \cup {Unset}
    /\ table \in SUBSET ({Net[p] : p \in Addrs \X Masks} \X Dests)

-----------------------------------------------------------------------------

(* Mutant: the copy is taken before its gateway is known. *)
SetRouteWithoutGateway(new, base) ==
    \/ /\ table' = base
       /\ UNCHANGED route
    \/ /\ HasPrefix(new)
       /\ Key(new) \notin base
       /\ table' = base \cup {Key(new)}
       /\ route' = [new EXCEPT !.dest = Unset]

(* Device::set_route, whose error only set_alias sees: the mask has no prefix or *)
(* the route cannot be added, and nothing changes; or it is added.  base is the  *)
(* table it finds.                                                               *)
BsdSetRoute(new, base) ==
    \/ /\ table' = base
       /\ UNCHANGED route
    \/ /\ HasPrefix(new)
       /\ Key(new) \notin base
       /\ table' = base \cup {Key(new)}
       /\ route' = new

(* Device::set_alias succeeds. *)
BsdSetAlias(new, base) ==
    /\ iface' = new
    /\ BsdSetRoute(new, base)

(* set_address, set_destination and set_netmask.  The address is deleted; then *)
(* there may be no copy to take the other parts from, or the alias may fail.   *)
BsdSetterFails ==
    /\ \/ UNCHANGED <<iface, table>>
       \/ iface # Unset /\ iface' = Unset /\ table' = {}
    /\ UNCHANGED route

(* Mutants: that the address cannot be deleted is ignored; the new alias is set *)
(* without deleting the old one, whose routes stay.                             *)
SetterIgnoresDelete(f, v) ==
    /\ route # Unset
    /\ BsdSetAlias([route EXCEPT ![f] = v], {})

SetterKeepsAddress(f, v) ==
    /\ iface # Unset
    /\ route # Unset
    /\ BsdSetAlias([route EXCEPT ![f] = v], table)

SetterSucceeds(f, v) ==
    /\ iface # Unset
    /\ route # Unset
    /\ BsdSetAlias([route EXCEPT ![f] = v], {})

(* set_broadcast does nothing; set_mtu and enabled may fail. *)
OtherSetter(f, ok) ==
    /\ f = "broadcast" => ok
    /\ UNCHANGED <<iface, route, table>>

-----------------------------------------------------------------------------

BsdInit ==
    /\ stage = "new"
    /\ config \in Configs
    /\ todo = <<>>
    /\ iface = Unset
    /\ route = Unset
    /\ table = {}

(* The device is dropped, or Device::new returns an error: the interface goes *)
(* with its address and routes.                                               *)
Gone ==
    /\ stage' = "gone"
    /\ iface' = Unset
    /\ table' = {}
    /\ todo' = <<>>

(* Device::new, up to configure. *)
NewAlias ==
    /\ stage = "new"
    /\ BsdSetAlias(Alias(config), table)
    /\ stage' = "configure"
    /\ todo' = Plan(config)
    /\ config' = NoOptions

NewAliasFails ==
    /\ stage = "new"
    /\ Gone
    /\ UNCHANGED <<config, route>>

(* One setter of configure succeeds; configure ends with the last one. *)
BsdConfigureStep ==
    /\ todo # <<>>
    /\ LET f == Head(todo)[1]
           v == Head(todo)[2]
       IN  IF f \in {"addr", "dest", "mask"} THEN SetterSucceeds(f, v) ELSE OtherSetter(f, TRUE)
    /\ todo' = Tail(todo)
    /\ UNCHANGED <<stage, config>>

(* It fails, which ends configure, and Device::new as well. *)
ConfigureStepFails ==
    /\ todo # <<>>
    /\ stage = "live"
    /\ IF Head(todo)[1] \in {"addr", "dest", "mask"}
       THEN BsdSetterFails
       ELSE OtherSetter(Head(todo)[1], FALSE)
    /\ todo' = <<>>
    /\ UNCHANGED <<stage, config>>

NewConfigureFails ==
    /\ stage = "configure"
    /\ todo # <<>>
    /\ Head(todo)[1] # "broadcast"
    /\ Gone
    /\ UNCHANGED <<config, route>>

NewReturns ==
    /\ stage = "configure"
    /\ todo = <<>>
    /\ stage' = "live"
    /\ UNCHANGED <<config, todo, iface, route, table>>

(* A setter, or configure, called by the program. *)
BsdConfigure ==
    /\ stage = "live"
    /\ todo = <<>>
    /\ \E c \in Configs : c # NoOptions /\ todo' = Plan(c)
    /\ UNCHANGED <<stage, config, iface, route, table>>

BsdDropDevice ==
    /\ stage = "live"
    /\ todo = <<>>
    /\ Gone
    /\ UNCHANGED <<config, route>>

BsdNext == \/ NewAlias \/ NewAliasFails \/ NewConfigureFails \/ NewReturns
           \/ BsdConfigureStep \/ ConfigureStepFails \/ BsdConfigure \/ BsdDropDevice

BsdSpec == BsdInit /\ [][BsdNext]_bsdVars

-----------------------------------------------------------------------------

(* The kernel holds at most one route of the device, and it is that of the     *)
(* address the interface has at the time: no setter leaves the route of an     *)
(* older address behind, although set_route never deletes one                  *)
(* (freebsd/device.rs:209-243).                                                *)
RouteFollowsAddress ==
    table # {} => iface # Unset /\ table = {Key(iface)} /\ route = iface

(* An address that a setter deleted and could not replace is never set again:  *)
(* every setter deletes first, and there is nothing to delete                  *)
(* (freebsd/device.rs:334, 361, 404).                                          *)
LostAddressStaysLost ==
    [][stage = "live" /\ iface = Unset => iface' = Unset]_bsdVars

(* Setting the address, the destination or the netmask changes no other of     *)
(* the three (device.rs:63-64, 69-70, 81-82).                                  *)
SetterChangesOnlyItsField ==
    [][ \A f, g \in {"addr", "dest", "mask"} :
          stage = "live" /\ BsdConfigureStep /\ Head(todo)[1] = f /\ f # g
              => iface'[g] = iface[g] ]_bsdVars

=============================================================================
