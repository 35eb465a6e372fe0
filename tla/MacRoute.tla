------------------------------ MODULE MacRoute ------------------------------
(***************************************************************************)
(* Addresses and the route of a macOS device                               *)
(* (src/src/platform/macos/device.rs, src/src/device.rs).                  *)
(*                                                                         *)
(* A device keeps in `route` a copy of the route it added for itself.      *)
(* Every setter first changes the interface with an ioctl and then, when   *)
(* there is such a copy, replaces the route: `route delete` of the old     *)
(* one, `route add` of the new one, and the copy last.  Each of the steps  *)
(* can fail and the earlier ones are not undone.                           *)
(*                                                                         *)
(* External: the ioctls and the route command, which may fail at any time, *)
(* must fail to delete a route that is not there or to add one that is.    *)
(* The setters act under &mut self, so one call is one step.               *)
(***************************************************************************)
EXTENDS Configuration

VARIABLE clean    \* history: every ioctl and route command so far succeeded

vars == <<stage, config, todo, iface, route, table, clean>>

TypeOK ==
    /\ stage \in {"new", "live", "gone"}
    /\ config \in Configs
    /\ todo \in Seq(Calls)
    /\ iface \in [addr : Addrs \cup {Unset}, dest : Dests \cup {Unset},
                  mask : Masks \cup {Unset}]
    /\ route \in Routes \cup {Unset}
    /\ table \in SUBSET ({Net[p] : p \in Addrs \X Masks} \X Dests)
    /\ clean \in BOOLEAN

-----------------------------------------------------------------------------
(* Mutants: the copy gets the address for the gateway; a failed delete is ignored. *)
SetRouteSwapped(new, ok) ==
    /\ ok
    /\ HasPrefix(new)
    /\ table' = {Key(new)}
    /\ route' = [new EXCEPT !.dest = new.addr]

SetRouteIgnoresDelete(new, ok) ==
    LET old == IF route = Unset THEN {} ELSE {Key(route)} IN
    \/ /\ ~ok
       /\ table' \in {table, table \ old}
       /\ UNCHANGED route
    \/ /\ HasPrefix(new)
       /\ ok
       /\ table' \in {table \cup {Key(new)}, (table \ old) \cup {Key(new)}}
       /\ route' = new

(* Device::set_route.  ok tells whether it returned Ok. *)
SetRoute(new, ok) ==
    LET old == IF route = Unset THEN {} ELSE {Key(route)} IN
    \* the old route has no prefix, or cannot be deleted
    \/ /\ route # Unset
       /\ ~ok
       /\ UNCHANGED <<table, route>>
    \* it is deleted, but the new one has no prefix or cannot be added
    \/ /\ route # Unset => HasPrefix(route) /\ Key(route) \in table
       /\ ~ok
       /\ table' = table \ old
       /\ UNCHANGED route
    \/ /\ route # Unset => HasPrefix(route) /\ Key(route) \in table
       /\ HasPrefix(new)
       /\ Key(new) \notin table \ old
       /\ ok
       /\ table' = (table \ old) \cup {Key(new)}
       /\ route' = new

(* The setters: set_address, set_destination, set_netmask; set_broadcast,     *)
(* set_mtu and enabled change nothing that is modelled.                       *)
SetterFails == UNCHANGED <<iface, route, table>>

SetInterface(f, v) ==
    iface' = IF f \in DOMAIN iface THEN [iface EXCEPT ![f] = v] ELSE iface

(* Mutant: only the address moves the route. *)
SetterOfAddressOnly(f, v, ok) ==
    \/ ~ok /\ SetterFails
    \/ /\ SetInterface(f, v)
       /\ IF f = "addr" /\ route # Unset
          THEN SetRoute([route EXCEPT ![f] = v], ok)
          ELSE ok /\ UNCHANGED <<route, table>>

Setter(f, v, ok) ==
    \/ ~ok /\ SetterFails
    \/ /\ SetInterface(f, v)
       /\ IF f \in DOMAIN iface /\ route # Unset
          THEN SetRoute([route EXCEPT ![f] = v], ok)
          ELSE ok /\ UNCHANGED <<route, table>>

-----------------------------------------------------------------------------

Init ==
    /\ stage = "new"
    /\ config \in Configs
    /\ todo = Plan(config)
    /\ iface = [addr |-> Unset, dest |-> Unset, mask |-> Unset]
    /\ route = Unset
    /\ table = {}
    /\ clean = TRUE

(* One setter of a running configure; an error ends it. *)
ConfigureStep ==
    /\ todo # <<>>
    /\ \E ok \in BOOLEAN :
          /\ Setter(Head(todo)[1], Head(todo)[2], ok)
          /\ todo' = IF ok THEN Tail(todo) ELSE <<>>
          /\ stage' = IF stage = "new" /\ ~ok THEN "gone" ELSE stage
          /\ clean' = (clean /\ ok)
    /\ UNCHANGED config

(* Device::new ends with set_alias, which only logs that set_route failed. *)
SetAlias ==
    /\ stage = "new"
    /\ todo = <<>>
    /\ iface' = Alias(config)
    /\ \E ok \in BOOLEAN : SetRoute(Alias(config), ok) /\ clean' = ok
    /\ stage' = "live"
    /\ config' = NoOptions
    /\ UNCHANGED todo

SetAliasFails ==
    /\ stage = "new"
    /\ todo = <<>>
    /\ stage' = "gone"
    /\ clean' = FALSE
    /\ UNCHANGED <<config, todo, iface, route, table>>

(* A setter, or configure, called by the program. *)
Configure ==
    /\ stage = "live"
    /\ todo = <<>>
    /\ \E c \in Configs : todo' = Plan(c)
    /\ UNCHANGED <<stage, config, iface, route, table, clean>>

(* The utun interface goes with its descriptor, and its routes with it. *)
DropDevice ==
    /\ stage = "live"
    /\ todo = <<>>
    /\ stage' = "gone"
    /\ table' = {}
    /\ UNCHANGED <<config, todo, iface, route, clean>>

Next == ConfigureStep \/ SetAlias \/ SetAliasFails \/ Configure \/ DropDevice

Spec == Init /\ [][Next]_vars

-----------------------------------------------------------------------------

(* The kernel never holds two routes of the device, and the one it holds is    *)
(* the one the device would delete, whatever fails (device.rs:242-275).        *)
RouteIsRemembered == table # {} => route # Unset /\ table = {Key(route)}

(* As long as nothing has failed, the route is the one of the addresses that   *)
(* the interface has, between the setters of a configure too.                  *)
RouteFollowsUntilFailure ==
    stage = "live" /\ clean => iface \in Routes /\ table = {Key(iface)}
=============================================================================
