------------------------------- MODULE Route -------------------------------
(***************************************************************************)
(* The IPv4 routing table of src/kernel/net/route.rs: the global table is  *)
(* an ordered sequence of routes behind a RwLock, changed only by the three *)
(* add_*_route functions (push at the end) and clear_routes.  route_lookup  *)
(* holds the read lock for its whole scan, so every operation is atomic.    *)
(*                                                                         *)
(* Addresses are AddrBits-bit integers; 0 is 0.0.0.0 and Full is           *)
(* 255.255.255.255.  Flags and metric are left out: route_lookup reads     *)
(* neither.                                                                *)
(***************************************************************************)
EXTENDS Integers, Sequences, SequencesExt, Bitwise

CONSTANTS
    AddrBits,    \* width of an address
    Addrs,       \* destinations and gateways the callers pass
    Masks,       \* netmasks passed to add_interface_route
    Devs,        \* output devices (model values)
    NoDev,       \* the device of a failed lookup (model value)
    MaxRoutes    \* bound on the length of the table

AllAddrs == 0 .. 2^AddrBits - 1
Full == 2^AddrBits - 1

ASSUME Addrs \subseteq AllAddrs /\ Masks \subseteq AllAddrs /\ NoDev \notin Devs

VARIABLE table

RouteT == [dest : AllAddrs, netmask : AllAddrs, gateway : AllAddrs, dev : Devs]

(* Number of set bits: u32::count_ones. *)
RECURSIVE CountOnes(_)
CountOnes(x) == IF x = 0 THEN 0 ELSE (x % 2) + CountOnes(x \div 2)

(* Route::matches, is_gateway and prefix_len. *)
Matches(r, dest) == (dest & r.netmask) = (r.dest & r.netmask)
IsGateway(r) == r.gateway # 0
PrefixLen(r) == CountOnes(r.netmask)

Init == table = <<>>

Push(r) ==
    /\ Len(table) < MaxRoutes
    /\ table' = Append(table, r)

(* add_interface_route: a directly connected network. *)
AddInterfaceRoute(dest, netmask, dev) ==
    Push([dest |-> dest, netmask |-> netmask, gateway |-> 0, dev |-> dev])

(* add_default_route: 0.0.0.0/0 through a gateway. *)
AddDefaultRoute(gateway, dev) ==
    Push([dest |-> 0, netmask |-> 0, gateway |-> gateway, dev |-> dev])

(* add_host_route: a /32 route, through a gateway unless it is 0. *)
AddHostRoute(dest, gateway, dev) ==
    Push([dest |-> dest, netmask |-> Full, gateway |-> gateway, dev |-> dev])

(* clear_routes *)
ClearRoutes ==
    /\ table # <<>>
    /\ table' = <<>>

(* One iteration of the loop in route_lookup: acc holds best_route (an    *)
(* index, 0 for None) and best_prefix_len.                                 *)
LookupStepTies(dest, acc, i) ==
    IF Matches(table[i], dest) /\ (acc.best = 0 \/ PrefixLen(table[i]) >= acc.len)
    THEN [best |-> i, len |-> PrefixLen(table[i])]
    ELSE acc

LookupStep(dest, acc, i) ==
    IF Matches(table[i], dest) /\ (acc.best = 0 \/ PrefixLen(table[i]) > acc.len)
    THEN [best |-> i, len |-> PrefixLen(table[i])]
    ELSE acc

BestRoute(dest) ==
    FoldLeftDomain(LAMBDA acc, i : LookupStep(dest, acc, i),
                   [best |-> 0, len |-> 0], table).best

NoRoute == [ok |-> FALSE, dev |-> NoDev, nextHop |-> 0]

(* The result of route_lookup for a chosen route index. *)
LookupResult(i, dest) ==
    IF i = 0 THEN NoRoute
    ELSE [ok |-> TRUE, dev |-> table[i].dev,
          nextHop |-> IF IsGateway(table[i]) THEN table[i].gateway ELSE dest]

RouteLookup(dest) == LookupResult(BestRoute(dest), dest)

Next ==
    \/ \E d \in Addrs, m \in Masks, v \in Devs : AddInterfaceRoute(d, m, v)
    \/ \E g \in Addrs, v \in Devs : AddDefaultRoute(g, v)
    \/ \E d, g \in Addrs, v \in Devs : AddHostRoute(d, g, v)
    \/ ClearRoutes

Spec == Init /\ [][Next]_table

-----------------------------------------------------------------------------
TypeOK == table \in Seq(RouteT) /\ Len(table) <= MaxRoutes

(* Reference definition of spec 4.3: among the routes whose network       *)
(* matches, the one with the greatest prefix length, the earliest in     *)
(* insertion order on a tie.                                               *)
RefBest(dest) ==
    LET M == {i \in DOMAIN table : Matches(table[i], dest)}
    IN  IF M = {} THEN 0
        ELSE CHOOSE i \in M : \A j \in M :
                 \/ PrefixLen(table[j]) < PrefixLen(table[i])
                 \/ PrefixLen(table[j]) = PrefixLen(table[i]) /\ i <= j

(* route_lookup's single pass with a strict comparison returns, for every  *)
(* destination and every table the add/clear calls can build, the route  *)
(* the longest-prefix rule selects, with the next hop it prescribes.      *)
LookupIsLongestPrefix ==
    \A d \in AllAddrs : RouteLookup(d) = LookupResult(RefBest(d), d)

(* Spec 3's route invariant: a route through a gateway has a directly    *)
(* connected route that reaches the gateway.                               *)
GatewayReachable ==
    \A i \in DOMAIN table :
        IsGateway(table[i]) =>
            \E j \in DOMAIN table : ~IsGateway(table[j]) /\ Matches(table[j], table[i].gateway)
=============================================================================
