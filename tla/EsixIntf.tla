------------------------------ MODULE EsixIntf ------------------------------
(***************************************************************************)
(* The three tables of esix (intf.c): the addresses of the node, its       *)
(* routes, and the neighbour cache.  This module has the rows, and the     *)
(* look-ups, insertions and removals as operators on a table.  The state   *)
(* machine that uses them is EsixIp.                                       *)
(*                                                                         *)
(* An address is a pair <<net, host>>.  The host part of an address formed *)
(* by stateless autoconfiguration is the link-layer address it is built    *)
(* from.  A table is a function from slots to rows; an index the code      *)
(* returns is a set of at most one slot, empty for -1.  The mtu, ttl and   *)
(* interface of a row are left out: nothing reads the first two, and there *)
(* is one interface.                                                       *)
(***************************************************************************)
EXTENDS Integers

CONSTANTS
  ESIX_MAX_IPADDR,   \* slots of the three tables
  ESIX_MAX_RT,
  ESIX_MAX_NB,
  NoRow,             \* an empty slot
  TimeMod,           \* dates are unsigned: 2^32 in the code
  Prefixes,          \* /64 prefixes routers advertise
  Llas,              \* link-layer addresses on the link
  Me,                \* that of the node
  NullLla            \* what neighbors[0]->lla reads when neighbors[0] is NULL

(* enum type, ip6.h. *)
LINK_LOCAL == 0
GLOBAL == 1
ANYCAST == 2
MULTICAST == 3
ANY == 4
ANY_MASK == 255

Nets == {"::", "fe80", "ff02", "ff02:1:ff"} \cup Prefixes
Hosts == {"::", "1", "2"} \cup Llas
Ip6Addr == Nets \X Hosts

in6addr_any == <<"::", "::">>
AllNodes == <<"ff02", "1">>
OwnLinkLocal == <<"fe80", Me>>
Solicited(a) == <<"ff02:1:ff", a[2]>>
Multicast(a) == a[1] \in {"ff02", "ff02:1:ff"}
LinkLocal(a) == a[1] = "fe80"

(* Destinations of routes: fe80::/64, ff00::/8, ::/0 and the prefixes.     *)
DefaultDest == "::/0"
Dests == {"fe80", "ff00", DefaultDest} \cup Prefixes
Matches(dest, a) ==
  \/ dest = DefaultDest
  \/ dest = "ff00" /\ Multicast(a)
  \/ dest = a[1]

ASSUME TablesAssumption ==
  /\ ESIX_MAX_IPADDR \in Nat /\ ESIX_MAX_IPADDR >= 3
  /\ ESIX_MAX_RT \in Nat /\ ESIX_MAX_RT >= 2
  /\ ESIX_MAX_NB \in Nat /\ ESIX_MAX_NB >= 1
  /\ TimeMod \in Nat \ {0}

(* Routers may advertise the link-local prefix as well.  A multicast prefix *)
(* and ::/64 are left out: an address in them is not a unicast address of  *)
(* any host.                                                               *)
ASSUME AddressesAssumption ==
  /\ {Me, NullLla} \subseteq Llas
  /\ {"::", "1", "2"} \cap Llas = {}
  /\ {"::", "ff02", "ff02:1:ff", "ff00", "::/0"} \cap Prefixes = {}

Dates == 0 .. (TimeMod - 1)
AddrRow == [addr : Ip6Addr, type : LINK_LOCAL .. MULTICAST, mask : 0 .. 128,
            exp : Dates]
RouteRow == [addr : Dests, next_hop : Ip6Addr, exp : Dates]
Status == {"REACHABLE", "STALE"}  \* DELAY and UNREACHABLE are never set
NeighborRow == [addr : Ip6Addr, lla : Llas, exp : Dates,
                sollicited : BOOLEAN, status : Status]

(* An empty slot is not a row: the code's NULL.                            *)
ASSUME NoRowAssumption == NoRow \notin AddrRow \cup RouteRow \cup NeighborRow

AddrSlots == 0 .. (ESIX_MAX_IPADDR - 1)
RouteSlots == 0 .. (ESIX_MAX_RT - 1)
NeighborSlots == 0 .. (ESIX_MAX_NB - 1)

-----------------------------------------------------------------------------
(* Slots. *)

Lowest(S) == {i \in S : \A j \in S : i <= j}

FreeSlot(t) == Lowest({i \in DOMAIN t : t[i] = NoRow})
Store(t, slots, row) == [i \in DOMAIN t |-> IF i \in slots THEN row ELSE t[i]]
Clear(t, slots) == Store(t, slots, NoRow)

-----------------------------------------------------------------------------
(* The address table. *)

AddressIndex(t, a, type, masklen) ==
  Lowest({i \in DOMAIN t : /\ t[i] # NoRow /\ t[i].addr = a
                           /\ t[i].type = type \/ type = ANY
                           /\ t[i].mask = masklen \/ masklen = ANY_MASK})

TypeAddress(t, type) ==
  Lowest({i \in DOMAIN t : t[i] # NoRow /\ (t[i].type = type \/ type = ANY)})

(* A row is refreshed, unless it never expires, or stored if there is room *)
(* and memory.                                                             *)
Refreshed(row, date) == IF row.exp # 0 THEN [row EXCEPT !.exp = date] ELSE row
AddrStored(t, a, masklen, date, type, mem) ==
  LET known == AddressIndex(t, a, type, masklen) IN
  IF known # {}
    THEN [i \in DOMAIN t |-> IF i \in known THEN Refreshed(t[i], date) ELSE t[i]]
    ELSE Store(t, IF mem THEN FreeSlot(t) ELSE {},
               [addr |-> a, type |-> type, mask |-> masklen, exp |-> date])

RemoveAddress(t, a, type, masklen) == Clear(t, AddressIndex(t, a, type, masklen))

NeighborIndex(t, a) == Lowest({i \in DOMAIN t : t[i] # NoRow /\ t[i].addr = a})

(* esix_intf_add_address, of a unicast address: one that is also in the    *)
(* neighbour cache nbs is a duplicate.  The result of storing the group is *)
(* not looked at.  (A failure makes the code remove a group given by an    *)
(* uninitialised variable, with type and length swapped: no row matches.)  *)
AddAddress(t, nbs, a, masklen, date, type, mem) ==
  LET stored == AddrStored(t, a, masklen, date, type, "address" \in mem) IN
  CASE AddressIndex(t, a, type, masklen) # {} -> stored
    [] AddressIndex(t, a, type, masklen) = {} /\ NeighborIndex(nbs, a) # {} -> t
    [] OTHER -> IF stored = t THEN t
                ELSE AddrStored(stored, Solicited(a), 128, date, MULTICAST, "group" \in mem)

-----------------------------------------------------------------------------
(* The routing table. *)

RouteIndex(t, dest, next_hop) ==
  Lowest({i \in DOMAIN t : /\ t[i] # NoRow
                           /\ t[i].addr = dest /\ t[i].next_hop = next_hop})

(* Mutant of AddRoute: a route that is there is stored once more.          *)
AddRoute_Again(t, dest, next_hop, date, mem) ==
  Store(t, IF mem THEN FreeSlot(t) ELSE {},
        [addr |-> dest, next_hop |-> next_hop, exp |-> date])
(* Mutant of AddRoute: a refresh leaves the date.                          *)
AddRoute_KeepDate(t, dest, next_hop, date, mem) ==
  IF RouteIndex(t, dest, next_hop) # {} THEN t
    ELSE AddRoute_Again(t, dest, next_hop, date, mem)
AddRoute(t, dest, next_hop, date, mem) ==
  LET known == RouteIndex(t, dest, next_hop) IN
  IF known # {}
    THEN [i \in DOMAIN t |-> IF i \in known THEN Refreshed(t[i], date) ELSE t[i]]
    ELSE Store(t, IF mem THEN FreeSlot(t) ELSE {},
               [addr |-> dest, next_hop |-> next_hop, exp |-> date])

(* Mutant of RemoveRoute: looks the route up without its next hop.         *)
RemoveRoute_AnyHop(t, dest, next_hop) ==
  Clear(t, Lowest({i \in DOMAIN t : t[i] # NoRow /\ t[i].addr = dest}))
(* Mutant of RemoveRoute: looks the route up without its destination.      *)
RemoveRoute_AnyDest(t, dest, next_hop) ==
  Clear(t, Lowest({i \in DOMAIN t : t[i] # NoRow /\ t[i].next_hop = next_hop}))
RemoveRoute(t, dest, next_hop) == Clear(t, RouteIndex(t, dest, next_hop))

-----------------------------------------------------------------------------
(* The neighbour cache. *)

(* Both callers look the address up first, so the update of a known row in *)
(* esix_intf_add_neighbor is only reached with a row that is not there,    *)
(* and both then set the flags, which the code leaves uninitialised.       *)
AddNeighbor(t, a, lla, date, status, mem) ==
  Store(t, IF mem THEN FreeSlot(t) ELSE {},
        [addr |-> a, lla |-> lla, exp |-> date,
         sollicited |-> FALSE, status |-> status])

MarkSollicited(t, a) ==
  [i \in DOMAIN t |->
     IF i \in NeighborIndex(t, a)
       THEN [t[i] EXCEPT !.sollicited = TRUE, !.status = "STALE"]
       ELSE t[i]]

-----------------------------------------------------------------------------
(* The tables when esix_init returns.  The flags of the node's own row are *)
(* never written; at boot the row is memory the allocator hands out for    *)
(* the first time, so they are 0: not sollicited, REACHABLE.               *)

(* esix_intf_add_default_routes. *)
DefaultRoutes ==
  AddRoute(AddRoute([i \in RouteSlots |-> NoRow], "fe80", in6addr_any, 0, TRUE),
           "ff00", in6addr_any, 0, TRUE)

(* esix_intf_init_interface. *)
InitAddrs ==
  LET linklocal == AddrStored([i \in AddrSlots |-> NoRow],
                              OwnLinkLocal, 128, 0, LINK_LOCAL, TRUE)
      group == AddrStored(linklocal, Solicited(OwnLinkLocal), 128, 0, MULTICAST, TRUE)
  IN AddrStored(group, AllNodes, 128, 0, MULTICAST, TRUE)
InitNeighbors ==
  AddNeighbor([i \in NeighborSlots |-> NoRow], OwnLinkLocal, Me, 0, "REACHABLE", TRUE)

=============================================================================
