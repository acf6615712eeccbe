------------------------------- MODULE EsixIp -------------------------------
(***************************************************************************)
(* IPv6 input and output of esix (ip6.c), neighbour discovery, router      *)
(* advertisements, echo and multicast listener queries (icmp6.c), and the  *)
(* aging of the tables (esix.c).                                           *)
(*                                                                         *)
(* A step is the handling of one frame, one tick of the clock, or one      *)
(* packet an upper layer sends.  The network may deliver any frame of the  *)
(* input sets at any time, lose and repeat them.  "wire" is what the step  *)
(* handed to esix_w_send_packet.  "mem" is the set of allocations that     *)
(* succeed in the step; those in MayFail may be refused.  esix_init runs   *)
(* before the scheduler is started, so it is one initial state.            *)
(*                                                                         *)
(* Duplicate address detection sends its probe and looks the address up    *)
(* after a busy wait.  The only caller that runs later than esix_init is   *)
(* the handler of router advertisements, in the one task that handles      *)
(* frames: no frame is handled during that wait, which is why it is not a  *)
(* step of its own.                                                        *)
(***************************************************************************)
EXTENDS EsixIntf, Sequences

CONSTANTS
  RT_SCANNED,           \* slots of the routing table esix_ip_send looks at
  NEW_NEIGHBOR_TIMEOUT,
  NEIGHBOR_TIMEOUT,
  STALE_DURATION,
  Remotes,              \* unicast addresses of other nodes
  Routers,              \* those that send router advertisements
  PrefixInfos,          \* sequences of prefix options they carry
  RouterLifetimes,      \* router lifetimes they carry
  HopLimits,            \* hop limits of incoming packets
  MayFail,              \* allocations that may be refused
  MaxTime               \* bound: ticks of the clock

ASSUME DatesAssumption ==
  /\ NEW_NEIGHBOR_TIMEOUT \in Nat \ {0}
  /\ NEIGHBOR_TIMEOUT \in Nat \ {0}
  /\ STALE_DURATION \in Nat
  /\ STALE_DURATION <= NEW_NEIGHBOR_TIMEOUT /\ STALE_DURATION <= NEIGHBOR_TIMEOUT
  /\ MaxTime \in Nat \ {0} /\ RT_SCANNED \in Nat /\ RT_SCANNED >= 2
  /\ MaxTime + NEW_NEIGHBOR_TIMEOUT < TimeMod /\ MaxTime + NEIGHBOR_TIMEOUT < TimeMod

(* Allocations of the handlers, and outcomes of those a handler makes.     *)
NeighborAllocs == {"neighbor", "packet"}
RouterAllocs == {"address", "group", "onlink", "default", "packet"}
Mems(allocs) == {allocs \ refused : refused \in SUBSET (MayFail \cap allocs)}

(* Hosts the node's own addresses are formed from: its own, until it loses *)
(* the first row of the cache, which takes a link-local prefix.            *)
OwnHosts == IF "fe80" \in Prefixes THEN Llas ELSE {Me}
OwnUnicast == {OwnLinkLocal} \cup (Prefixes \X OwnHosts)

(* A prefix option: its length is 64 or another one.                       *)
PrefixInfo == [prefix : Prefixes, len64 : BOOLEAN, valid : Nat]

ASSUME InputsAssumption ==
  /\ Remotes \subseteq {<<n, h>> : n \in {"fe80"} \cup Prefixes, h \in Llas \ {Me}}
  /\ Routers \subseteq Remotes
  /\ RouterLifetimes \subseteq Nat /\ HopLimits \subseteq Nat
  /\ PrefixInfos \subseteq Seq(PrefixInfo)

VARIABLES
  addrs,         \* the three tables
  routes,
  neighbors,
  current_time,  \* ticks since boot; 0 is never used
  wire           \* what the last step sent

vars == <<addrs, routes, neighbors, current_time, wire>>

Tables(as, rts, nbs) == [addrs |-> as, routes |-> rts, neighbors |-> nbs]

(* What arrives.  Of the groups and addresses of the node that a kind of   *)
(* message may be sent to, one stands for all: it is only looked up.       *)
NsIn == [src : Remotes \cup {in6addr_any}, dst : {Solicited(OwnLinkLocal)},
         hlimit : HopLimits, target : OwnUnicast, lla : Llas \ {Me}]
NaIn == [dst : {OwnLinkLocal}, hlimit : HopLimits,
         target : Remotes \cup OwnUnicast, lla : Llas \ {Me}]
RaIn == [src : Routers, dst : {AllNodes}, hlimit : HopLimits,
         infos : PrefixInfos, lifetime : RouterLifetimes]
PacketIn == [src : Remotes, dst : OwnUnicast \cup {AllNodes}, hlimit : HopLimits]
MldIn == [dst : {AllNodes}, hlimit : HopLimits,
          group : {in6addr_any, AllNodes, Solicited(OwnLinkLocal)}]

-----------------------------------------------------------------------------
(* Output. *)

GroupLla == "33:33"
Pkt(kind, src, dst, target) ==
  [kind |-> kind, src |-> src, dst |-> dst, target |-> target, to |-> GroupLla]

RouterSol == Pkt("RS", OwnLinkLocal, <<"ff02", "2">>, in6addr_any)
NeighborAdv(saddr, daddr) == Pkt("NA", saddr, daddr, saddr)
(* The group is also the destination of the report. *)
MldReport(src, group) == Pkt("MLD_RPT", src, group, group)

(* The first row that matches, not the most specific one. *)
Route(rts, a) ==
  Lowest({i \in DOMAIN rts : /\ i < RT_SCANNED /\ rts[i] # NoRow
                             /\ Matches(rts[i].addr, a)})
NextHop(row, a) == IF row.next_hop = in6addr_any THEN a ELSE row.next_hop
Hops(rts, a) == {NextHop(rts[i], a) : i \in Route(rts, a)}

(* The packet leaves when its next hop is a group, whose link-layer        *)
(* address is computed, or a neighbour.  The code also drops packets to    *)
(* neighbours in DELAY or UNREACHABLE, statuses it never sets.             *)
Emitted(tb, pkt) ==
  {[pkt EXCEPT !.to = GroupLla] :
     h \in {h \in Hops(tb.routes, pkt.dst) : h = pkt.dst /\ Multicast(h)}}
  \cup
  {[pkt EXCEPT !.to = tb.neighbors[j].lla] :
     j \in UNION {NeighborIndex(tb.neighbors, h) :
                    h \in {h \in Hops(tb.routes, pkt.dst) : ~Multicast(h)}}}
Unresolved(tb, a) ==
  {h \in Hops(tb.routes, a) : ~Multicast(h) /\ NeighborIndex(tb.neighbors, h) = {}}

(* A packet whose next hop is not in the cache is dropped and a            *)
(* solicitation sent instead.  That one goes to a group, and ff00::/8 is   *)
(* on-link and in a slot that is scanned, so the recursion ends there.     *)
(* Only a default route in the slot of a lost link-local route is found    *)
(* before it: then the solicitation goes to that router, and for a router  *)
(* that is not in the cache the code recurses until it has no memory left  *)
(* for another packet, and nothing is sent.                                *)
esix_ip_send(tb, pkt) ==
  Emitted(tb, pkt) \cup
  UNION {Emitted(tb, Pkt("NS", tb.addrs[i].addr, Solicited(h), h)) :
           i \in TypeAddress(tb.addrs, LINK_LOCAL), h \in Unresolved(tb, pkt.dst)}

(* esix_intf_check_source_addr: none if there is no replacement. *)
SourceAddr(as, src, dst) ==
  LET linklocal == IF LinkLocal(dst) THEN TypeAddress(as, LINK_LOCAL) ELSE {}
      chosen == IF linklocal # {} THEN linklocal ELSE TypeAddress(as, GLOBAL)
  IN IF Multicast(src) THEN {as[i].addr : i \in chosen} ELSE {src}

esix_icmp_send(tb, pkt) ==
  UNION {esix_ip_send(tb, [pkt EXCEPT !.src = s]) : s \in SourceAddr(tb.addrs, pkt.src, pkt.dst)}

(* A known neighbour is solicited by unicast, an unknown one through its   *)
(* group; tb are the tables after MarkSollicited.                          *)
esix_icmp_send_neighbor_sol(tb, src, target) ==
  esix_icmp_send(tb, Pkt("NS", src,
    IF NeighborIndex(tb.neighbors, target) # {} THEN target ELSE Solicited(target), target))

-----------------------------------------------------------------------------
(* Initial state: default routes, the link-local address, its group, the   *)
(* node's own row in the cache and the all-nodes group.  Sent: the probe   *)
(* for the link-local address, a listener report, a router solicitation.   *)
Init ==
  /\ addrs = InitAddrs
  /\ routes = DefaultRoutes
  /\ neighbors = InitNeighbors
  /\ current_time = 1
  /\ wire = {Pkt("NS", in6addr_any, Solicited(OwnLinkLocal), OwnLinkLocal),
             MldReport(OwnLinkLocal, Solicited(OwnLinkLocal)),
             RouterSol}

-----------------------------------------------------------------------------
(* Input.  esix_ip_process: a packet to an address of the node.            *)

ForUs(a) == \E i \in AddrSlots : addrs[i] # NoRow /\ addrs[i].addr = a
Received(f) == ForUs(f.dst) /\ f.hlimit # 0

(* Mutant of Date: dates do not wrap.                                      *)
Date_NoWrap(lifetime) == current_time + lifetime
Date(lifetime) == (current_time + lifetime) % TimeMod

(* Mutant of process_neighbor_sol: the answer is sent before the neighbour *)
(* is stored.                                                              *)
process_neighbor_sol_AnswerFirst(f, mem) ==
  /\ Received(f) /\ f.hlimit = 255
  /\ AddressIndex(addrs, f.target, ANY, ANY_MASK) # {}
  /\ neighbors' = IF NeighborIndex(neighbors, f.src) # {} THEN neighbors
                  ELSE AddNeighbor(neighbors, f.src, f.lla, Date(NEW_NEIGHBOR_TIMEOUT),
                                   "STALE", "neighbor" \in mem)
  /\ wire' = IF "packet" \in mem
               THEN esix_icmp_send(Tables(addrs, routes, neighbors), NeighborAdv(f.target, f.src))
               ELSE {}
  /\ UNCHANGED <<addrs, routes, current_time>>
process_neighbor_sol(f, mem) ==
  /\ Received(f) /\ f.hlimit = 255 /\ ~Multicast(f.target)
  /\ AddressIndex(addrs, f.target, ANY, ANY_MASK) # {}
  /\ neighbors' = IF NeighborIndex(neighbors, f.src) # {} THEN neighbors
                  ELSE AddNeighbor(neighbors, f.src, f.lla, Date(NEW_NEIGHBOR_TIMEOUT),
                                   "STALE", "neighbor" \in mem)
  /\ wire' = IF "packet" \in mem
               THEN esix_icmp_send(Tables(addrs, routes, neighbors'), NeighborAdv(f.target, f.src))
               ELSE {}
  /\ UNCHANGED <<addrs, routes, current_time>>

(* The target of an advertisement that is not in the cache is stored; one  *)
(* that is has to be sollicited, and keeps its old link-layer address.     *)
process_neighbor_adv(f, mem) ==
  LET known == NeighborIndex(neighbors, f.target) IN
  /\ Received(f) /\ f.hlimit = 255 /\ ~Multicast(f.target)
  /\ \A i \in known : neighbors[i].sollicited
  /\ neighbors' =
       IF known = {}
         THEN AddNeighbor(neighbors, f.target, f.lla, Date(NEIGHBOR_TIMEOUT),
                          "REACHABLE", "neighbor" \in mem)
         ELSE [i \in NeighborSlots |->
                 IF i \in known
                   THEN [neighbors[i] EXCEPT !.sollicited = FALSE, !.status = "REACHABLE",
                                             !.exp = Date(NEIGHBOR_TIMEOUT)]
                   ELSE neighbors[i]]
  /\ wire' = {}
  /\ UNCHANGED <<addrs, routes, current_time>>

(* A prefix option is used if any of them is a /64: the last one is.       *)
HasPrefix(infos) == \E i \in DOMAIN infos : infos[i].len64
UsedInfo(infos) == infos[Len(infos)]

(* Autoconfiguration: the address of the node in the prefix.  "First row   *)
(* of the neighbors table is us": the code does not look whether it still  *)
(* is, or whether there is a row.                                          *)
OwnIn(o) == <<o.prefix, IF neighbors[0] = NoRow THEN NullLla ELSE neighbors[0].lla>>

(* The call that should remove the address has type and length swapped.    *)
PrefixAddrs(o, mem) ==
  IF o.valid = 0
    THEN RemoveAddress(addrs, OwnIn(o), 64, GLOBAL)
    ELSE AddAddress(addrs, neighbors, OwnIn(o), 64, Date(o.valid), GLOBAL, mem)

(* An address that is new is probed for; that marks a neighbour known by   *)
(* the same address.                                                       *)
Probes(o, mem) == /\ o.valid # 0 /\ {"address", "packet"} \subseteq mem
                  /\ AddressIndex(addrs, OwnIn(o), GLOBAL, 64) = {}

PrefixRoutes(o, mem) ==
  IF o.valid = 0
    THEN RemoveRoute(routes, o.prefix, in6addr_any)
    ELSE AddRoute(routes, o.prefix, in6addr_any, Date(o.valid), "onlink" \in mem)
DefaultRoute(rts, f, mem) ==
  IF f.lifetime = 0
    THEN RemoveRoute(rts, DefaultDest, f.src)
    ELSE AddRoute(rts, DefaultDest, f.src, Date(f.lifetime), "default" \in mem)

RouterAdvWithPrefix(f, o, mem) ==
  /\ routes' = DefaultRoute(PrefixRoutes(o, mem), f, mem)
  /\ addrs' = PrefixAddrs(o, mem)
  /\ neighbors' = IF Probes(o, mem) THEN MarkSollicited(neighbors, OwnIn(o)) ELSE neighbors
  /\ wire' = IF Probes(o, mem)
               THEN esix_icmp_send_neighbor_sol(Tables(addrs, routes, neighbors'),
                                                in6addr_any, OwnIn(o))
               ELSE {}

RouterAdvWithoutPrefix(f, mem) ==
  /\ routes' = DefaultRoute(routes, f, mem)
  /\ wire' = {}
  /\ UNCHANGED <<addrs, neighbors>>

process_router_adv(f, mem) ==
  /\ Received(f) /\ f.hlimit = 255 /\ LinkLocal(f.src)
  /\ IF HasPrefix(f.infos) THEN RouterAdvWithPrefix(f, UsedInfo(f.infos), mem)
                           ELSE RouterAdvWithoutPrefix(f, mem)
  /\ UNCHANGED current_time

(* Answers that change no table: to an echo request, to a datagram for a   *)
(* port nobody listens on, and to a packet with hop limit 0.               *)
Answer(kind, f) ==
  /\ wire' = esix_icmp_send(Tables(addrs, routes, neighbors), Pkt(kind, f.dst, f.src, in6addr_any))
  /\ UNCHANGED <<addrs, routes, neighbors, current_time>>
process_echo_req(f) == Received(f) /\ Answer("ECHO_RP", f)
send_unreachable(f) == Received(f) /\ Answer("DST_UNR", f)
send_ttl_expired(f) == ForUs(f.dst) /\ f.hlimit = 0 /\ Answer("TTL_EXP", f)

(* A listener query, general or for one group: the report goes to the      *)
(* node's own link-local address, which is passed in place of the group.   *)
process_mld_query(f) ==
  /\ Received(f)
  /\ f.group # in6addr_any => AddressIndex(addrs, f.group, MULTICAST, ANY_MASK) \notin {{}, {0}}
  /\ \E a \in TypeAddress(addrs, LINK_LOCAL) :
       wire' = esix_icmp_send(Tables(addrs, routes, neighbors),
                              MldReport(addrs[a].addr, addrs[a].addr))
  /\ UNCHANGED <<addrs, routes, neighbors, current_time>>

(* A TCP segment or UDP datagram of a socket. *)
UpperSend(src, dst) ==
  /\ ForUs(src)
  /\ wire' = esix_ip_send(Tables(addrs, routes, neighbors), Pkt("UPPER", src, dst, in6addr_any))
  /\ UNCHANGED <<addrs, routes, neighbors, current_time>>

-----------------------------------------------------------------------------
(* The clock. *)

Lapsed(row, t) == row # NoRow /\ row.exp # 0 /\ row.exp < t

(* The last STALE_DURATION seconds of a neighbour, unsigned.               *)
(* Mutant of Due: solicited only once it has lapsed.                       *)
Due_Late(row, t) == Lapsed(row, t)
Due(row, t) == /\ row # NoRow /\ row.exp # 0
               /\ (row.exp + TimeMod - STALE_DURATION) % TimeMod < t

Kept(tbl, t) == [i \in DOMAIN tbl |-> IF Lapsed(tbl[i], t) THEN NoRow ELSE tbl[i]]

(* Rows in "due" are solicited, each before it may be removed.             *)
Marked(row) == [row EXCEPT !.sollicited = TRUE, !.status = "STALE"]
Solicits(due) == [i \in NeighborSlots |-> IF i \in due THEN Marked(neighbors[i]) ELSE neighbors[i]]
CacheAt(i, due, t) ==
  [j \in NeighborSlots |-> CASE j < i -> Kept(Solicits(due), t)[j]
                             [] j = i -> Solicits(due)[j]
                             [] j > i -> neighbors[j]]

(* Routes, then addresses, then neighbours.  Rows are removed by their     *)
(* keys, which are distinct; groups do not lapse, so no listener report is *)
(* withdrawn.                                                              *)
esix_ip_housekeep(t, granted) ==
  LET due == {i \in NeighborSlots : Due(neighbors[i], t)} \cap granted
      linklocal == TypeAddress(addrs', LINK_LOCAL)
  IN
  /\ routes' = Kept(routes, t)
  /\ addrs' = Kept(addrs, t)
  /\ neighbors' = IF linklocal = {} THEN Kept(neighbors, t) ELSE Kept(Solicits(due), t)
  /\ wire' = UNION {esix_icmp_send_neighbor_sol(Tables(addrs', routes', CacheAt(i, due, t)),
                                                addrs'[a].addr, neighbors[i].addr) :
                      i \in due, a \in linklocal}

(* Mutant of HousekeepTick: every fourth second.                           *)
HousekeepTick_Rare(t) == t % 4 = 1
HousekeepTick(t) == t % 2 = 1

(* Called every second; esix_socket_housekeep is in EsixSocket.            *)
esix_periodic_callback(granted) ==
  /\ current_time < MaxTime
  /\ current_time' = current_time + 1
  /\ IF HousekeepTick(current_time')
       THEN esix_ip_housekeep(current_time', granted)
       ELSE UNCHANGED <<addrs, routes, neighbors>> /\ wire' = {}

Grants == {NeighborSlots} \cup (IF "packet" \in MayFail THEN SUBSET NeighborSlots ELSE {})

-----------------------------------------------------------------------------
Next ==
  \/ \E f \in NsIn, mem \in Mems(NeighborAllocs) : process_neighbor_sol(f, mem)
  \/ \E f \in NaIn, mem \in Mems({"neighbor"}) : process_neighbor_adv(f, mem)
  \/ \E f \in RaIn, mem \in Mems(RouterAllocs) : process_router_adv(f, mem)
  \/ \E f \in PacketIn : \/ process_echo_req(f)
                         \/ send_unreachable(f)
                         \/ send_ttl_expired(f)
  \/ \E f \in MldIn : process_mld_query(f)
  \/ \E src \in OwnUnicast, dst \in Remotes : UpperSend(src, dst)
  \/ \E granted \in Grants : esix_periodic_callback(granted)

Spec == Init /\ [][Next]_vars

-----------------------------------------------------------------------------
Kinds == {"NS", "NA", "RS", "MLD_RPT", "ECHO_RP", "DST_UNR", "TTL_EXP", "UPPER"}
Packet == [kind : Kinds, src : Ip6Addr, dst : Ip6Addr, target : Ip6Addr,
           to : Llas \cup {GroupLla}]

(* Type invariant: rows of the three tables, the clock and what is sent.   *)
TypeOK ==
  /\ addrs \in [AddrSlots -> AddrRow \cup {NoRow}]
  /\ routes \in [RouteSlots -> RouteRow \cup {NoRow}]
  /\ neighbors \in [NeighborSlots -> NeighborRow \cup {NoRow}]
  /\ current_time \in 1 .. MaxTime
  /\ wire \subseteq Packet

(* No table has two rows for one key, whatever frames are repeated and     *)
(* rows expire: look-ups by key, and the removals in esix_ip_housekeep,    *)
(* which look the row up again, find the row that is meant.                *)
KeysDistinct ==
  /\ \A i, j \in AddrSlots :
       /\ addrs[i] # NoRow /\ addrs[j] # NoRow
       /\ addrs[i].addr = addrs[j].addr /\ addrs[i].type = addrs[j].type
       /\ addrs[i].mask = addrs[j].mask
       => i = j
  /\ \A i, j \in RouteSlots :
       /\ routes[i] # NoRow /\ routes[j] # NoRow
       /\ routes[i].addr = routes[j].addr /\ routes[i].next_hop = routes[j].next_hop
       => i = j
  /\ \A i, j \in NeighborSlots :
       /\ neighbors[i] # NoRow /\ neighbors[j] # NoRow
       /\ neighbors[i].addr = neighbors[j].addr
       => i = j

(* What is left of the rows esix_init stores, whatever routers advertise   *)
(* and withdraw: the link-local address, its group and all nodes, without  *)
(* which the node neither receives nor solicits, and the multicast route.  *)
(* The comments in esix_intf_add_default_routes and                        *)
(* esix_intf_init_interface say of the link-local route and of the node's  *)
(* own row in the cache, too, that they never expire.  They do not as long *)
(* as no router advertises the link-local prefix.  One that does withdraws *)
(* the route like any other, and makes the node ask for its own address,   *)
(* which marks the row in the cache as solicited: the advertisement of a   *)
(* duplicate then gives it a date.                                         *)
PermanentRows ==
  /\ \A i \in {0, 1, 2} : addrs[i] = InitAddrs[i]
  /\ routes[1] = DefaultRoutes[1]
  /\ "fe80" \notin Prefixes => /\ routes[0] = DefaultRoutes[0]
                              /\ neighbors[0] = InitNeighbors[0]

(* Nothing that expires is used for more than 2 seconds past its date,     *)
(* although esix_ip_housekeep runs on odd ticks only.                      *)
LapsedGone ==
  /\ \A i \in AddrSlots : addrs[i] # NoRow /\ addrs[i].exp # 0 => current_time <= addrs[i].exp + 2
  /\ \A i \in RouteSlots : routes[i] # NoRow /\ routes[i].exp # 0 => current_time <= routes[i].exp + 2
  /\ \A i \in NeighborSlots : neighbors[i] # NoRow /\ neighbors[i].exp # 0
                              => current_time <= neighbors[i].exp + 2

(* An address autoconfigured in a prefix and the on-link route of that     *)
(* prefix have the same date whenever both are there and can expire: one   *)
(* is not refreshed without the other, also after the route was withdrawn  *)
(* and advertised again or one of them was refused.  So it is not a        *)
(* lifetime that leaves an address without a route; a withdrawal does      *)
(* (PrefixWithdrawn).  When the node loses its own row in the cache, which *)
(* takes a link-local prefix, it gets addresses that are not refreshed.    *)
PrefixAgesTogether ==
  "fe80" \notin Prefixes =>
    \A i \in AddrSlots, j \in RouteSlots :
      /\ addrs[i] # NoRow /\ addrs[i].type = GLOBAL /\ addrs[i].exp # 0
      /\ routes[j] # NoRow /\ routes[j].addr = addrs[i].addr[1] /\ routes[j].exp # 0
      => addrs[i].exp = routes[j].exp

(* What esix_icmp_process_router_adv says of a prefix with lifetime 0:     *)
(* "remove the prefix-associated address and route".  It is violated: the  *)
(* route is removed, and the address stays, since the call that should     *)
(* remove it has two arguments swapped.                                    *)
Withdrawn(f) == /\ HasPrefix(f.infos) /\ UsedInfo(f.infos).valid = 0
                /\ \E mem \in Mems(RouterAllocs) : process_router_adv(f, mem)
PrefixWithdrawn ==
  [][\A f \in RaIn : Withdrawn(f) =>
       LET prefix == UsedInfo(f.infos).prefix IN
       /\ \A i \in AddrSlots : addrs'[i] # NoRow /\ addrs'[i].type = GLOBAL
                                => addrs'[i].addr[1] # prefix
       /\ \A i \in RouteSlots : routes'[i] # NoRow => routes'[i].addr # prefix]_vars

(* No step sends a packet with a multicast source, also when it answers    *)
(* one sent to all nodes (esix_intf_check_source_addr).  No run checks it; *)
(* it is the theorem OnlyUnicastSources.                                   *)
SourcesUnicast == [][\A p \in wire' : ~Multicast(p.src)]_vars

(* "don't delete the entry immediately": a neighbour is only removed after *)
(* an earlier housekeeping has solicited it and it did not answer since.   *)
(* This rests on STALE_DURATION, NEW_NEIGHBOR_TIMEOUT and the 2 second     *)
(* period together, and on memory for the solicitation.                    *)
SolicitedBeforeRemoval ==
  [][\A i \in NeighborSlots :
       neighbors[i] # NoRow /\ neighbors'[i] = NoRow => neighbors[i].sollicited]_vars

(* A neighbour that solicits an address of the node gets the advertisement *)
(* when it is on-link and it is in the cache or there is room for it, even *)
(* if the cache did not know it before.                                    *)
SolicitationAnswered ==
  [][\A f \in NsIn :
       /\ process_neighbor_sol(f, NeighborAllocs)
       /\ f.src \in Hops(routes, f.src)
       /\ NeighborIndex(neighbors, f.src) \cup FreeSlot(neighbors) # {}
       => \E p \in wire' : p.kind = "NA" /\ p.dst = f.src /\ p.target = f.target]_vars

(* A router's advertisement touches no route through another router, and   *)
(* one with lifetime 0 leaves no route through the router itself.          *)
RoutersIsolated ==
  [][routes' # routes /\ current_time' = current_time =>
       \A f \in RaIn, mem \in Mems(RouterAllocs) :
         process_router_adv(f, mem) =>
           \A i \in RouteSlots :
             /\ routes[i] # NoRow /\ routes[i].next_hop \in Routers \ {f.src}
                => routes'[i] = routes[i]
             /\ f.lifetime = 0 /\ routes'[i] # NoRow => routes'[i].next_hop # f.src]_vars

=============================================================================
