---------------------------- MODULE EsixIpProofs ----------------------------
(***************************************************************************)
(* Proofs about EsixIp, for any table sizes, prefixes, neighbours,         *)
(* advertised lifetimes and refused allocations.                           *)
(*                                                                         *)
(* Each table has an invariant of its own: its rows are typed, their keys  *)
(* distinct, those of esix_init in place, and the others of the shapes the *)
(* handlers store.  The operators of EsixIntf preserve them, whatever they *)
(* are called with.                                                        *)
(***************************************************************************)
EXTENDS EsixIp, TLAPS, WellFoundedInduction

-----------------------------------------------------------------------------
(* Slots.                                                                  *)

(* A set of slots has a lowest one.                                        *)
LEMMA LeastSlot ==
  ASSUME NEW S \in SUBSET Nat, S # {}
  PROVE  \E n \in S : \A m \in S : n <= m
<1> DEFINE R == {ss \in Nat \X Nat : ss[1] < ss[2]}
<1>1. IsWellFoundedOn(R, Nat)
  BY NatLessThanWellFounded DEF OpToRel
<1>2. PICK x \in S : \A y \in S : <<y, x>> \notin R
  <2> HIDE DEF R
  <2> QED BY <1>1, WFMin
<1>3. \A y \in S : y \in Nat /\ (x <= y \/ y < x)
  BY <1>2
<1>4. \A y \in S : y < x => <<y, x>> \in R
  BY <1>2, <1>3
<1> QED BY <1>2, <1>3, <1>4

(* Lowest chooses one of the slots, if there is any.                       *)
LEMMA LowestOne ==
  ASSUME NEW S \in SUBSET Nat
  PROVE  /\ Lowest(S) \subseteq S
         /\ S # {} => Lowest(S) # {}
         /\ \A i, j \in Lowest(S) : i = j
<1>1. S # {} => \E n \in S : \A m \in S : n <= m
  BY LeastSlot
<1>2. \A i, j \in Lowest(S) : i \in Nat /\ j \in Nat /\ i <= j /\ j <= i
  BY DEF Lowest
<1> QED BY <1>1, <1>2 DEF Lowest

(* The slots of the tables, and those esix_init fills.                     *)
LEMMA SlotsAreNat ==
  /\ AddrSlots \subseteq Nat /\ RouteSlots \subseteq Nat /\ NeighborSlots \subseteq Nat
  /\ {0, 1, 2} \subseteq AddrSlots /\ {0, 1} \subseteq RouteSlots /\ 0 \in NeighborSlots
BY TablesAssumption DEF AddrSlots, RouteSlots, NeighborSlots

(* A table filled up to slot k stores its next row there.                  *)
LEMMA FreeSlotIs ==
  ASSUME NEW n \in Nat, NEW R, NEW t \in [0 .. (n - 1) -> R],
         NEW k \in 0 .. (n - 1), t[k] = NoRow,
         \A i \in 0 .. (n - 1) : i < k => t[i] # NoRow
  PROVE  FreeSlot(t) = {k}
<1> DEFINE F == {i \in DOMAIN t : t[i] = NoRow}
<1>1. k \in F /\ \A i \in F : k <= i
  OBVIOUS
<1> QED BY <1>1 DEF FreeSlot, Lowest

(* A free slot is empty, and at most one is chosen.                        *)
LEMMA FreeSlotEmpty ==
  ASSUME NEW D \in SUBSET Nat, NEW t, DOMAIN t = D
  PROVE  /\ \A i \in FreeSlot(t) : i \in D /\ t[i] = NoRow
         /\ \A i, j \in FreeSlot(t) : i = j
<1> DEFINE F == {i \in DOMAIN t : t[i] = NoRow}
<1>1. F \in SUBSET Nat
  OBVIOUS
<1> QED BY <1>1, LowestOne DEF FreeSlot

-----------------------------------------------------------------------------
(* Addresses and dates.                                                    *)

(* Addresses formed by autoconfiguration.                                  *)
FormedIn(a) == \E p \in Prefixes, h \in OwnHosts : a = <<p, h>>

(* The addresses of the node are its link-local one and those formed.      *)
LEMMA OwnAddresses == \A a \in OwnUnicast : a = OwnLinkLocal \/ FormedIn(a)
BY DEF OwnUnicast, FormedIn

(* The addresses the code names are addresses.                             *)
LEMMA AddressTypes ==
  /\ in6addr_any \in Ip6Addr /\ AllNodes \in Ip6Addr
  /\ OwnLinkLocal \in Ip6Addr /\ <<"ff02", "2">> \in Ip6Addr
  /\ \A a \in Ip6Addr : Solicited(a) \in Ip6Addr
  /\ \A a : FormedIn(a) => a \in Ip6Addr
BY AddressesAssumption
   DEF in6addr_any, AllNodes, OwnLinkLocal, Solicited, Ip6Addr, Nets, Hosts, OwnHosts,
       FormedIn

(* Other nodes, routers and the node itself have addresses; none is ::.    *)
LEMMA RemoteTypes ==
  /\ Remotes \subseteq Ip6Addr /\ Routers \subseteq Ip6Addr
  /\ OwnUnicast \subseteq Ip6Addr
  /\ in6addr_any \notin Routers
<1>1. \A a \in Remotes : \E n \in {"fe80"} \cup Prefixes, h \in Llas \ {Me} : a = <<n, h>>
  BY InputsAssumption
<1>2. \A n \in {"fe80"} \cup Prefixes, h \in Llas : <<n, h>> \in Ip6Addr /\ <<n, h>> # in6addr_any
  BY AddressesAssumption DEF Ip6Addr, Nets, Hosts, in6addr_any
<1>3. OwnUnicast \subseteq Ip6Addr
  BY AddressTypes, OwnAddresses
<1> QED BY <1>1, <1>2, <1>3, InputsAssumption

(* A date the handlers compute is a date, whatever the lifetime.           *)
LEMMA DateType ==
  ASSUME current_time \in Nat, NEW l \in Nat
  PROVE  Date(l) \in Dates
BY TablesAssumption DEF Date, Dates

(* The date of a row that never expires.                                   *)
LEMMA ZeroDate == 0 \in Dates
BY TablesAssumption DEF Dates

-----------------------------------------------------------------------------
(* The address table.                                                      *)

AddrTable == [AddrSlots -> AddrRow \cup {NoRow}]
Lengths == 0 .. 128
Types == LINK_LOCAL .. MULTICAST
HasKey(row, a, type, masklen) == row.addr = a /\ row.type = type /\ row.mask = masklen

AddrInv(t) ==
  /\ t \in AddrTable
  /\ \A i \in {0, 1, 2} : t[i] = InitAddrs[i]
  /\ \A i, j \in AddrSlots :
       t[i] # NoRow /\ t[j] # NoRow /\ HasKey(t[i], t[j].addr, t[j].type, t[j].mask) => i = j
  /\ \A i \in AddrSlots :
       t[i] # NoRow /\ t[i].type = GLOBAL
         => t[i].mask = 64 /\ FormedIn(t[i].addr)

(* What a look-up with a definite type and length returns.                 *)
LEMMA AddressIndexIs ==
  ASSUME NEW t \in AddrTable, NEW a, NEW type \in Nat \ {ANY}, NEW masklen \in Nat \ {ANY_MASK}
  PROVE  LET found == AddressIndex(t, a, type, masklen) IN
         /\ \A i \in found : i \in AddrSlots /\ t[i] # NoRow /\ HasKey(t[i], a, type, masklen)
         /\ \A i, j \in found : i = j
         /\ found = {} => \A i \in AddrSlots : t[i] # NoRow => ~HasKey(t[i], a, type, masklen)
<1> DEFINE F == {i \in DOMAIN t : /\ t[i] # NoRow /\ t[i].addr = a
                                  /\ t[i].type = type \/ type = ANY
                                  /\ t[i].mask = masklen \/ masklen = ANY_MASK}
<1>1. F \in SUBSET Nat /\ DOMAIN t = AddrSlots
  BY SlotsAreNat DEF AddrTable
<1>2. AddressIndex(t, a, type, masklen) = Lowest(F)
  BY DEF AddressIndex
<1>3. \A i \in AddrSlots : i \in F <=> t[i] # NoRow /\ HasKey(t[i], a, type, masklen)
  BY <1>1 DEF HasKey
<1> HIDE DEF F
<1>4. /\ Lowest(F) \subseteq F /\ F \subseteq AddrSlots
      /\ Lowest(F) = {} => F = {}
      /\ \A i, j \in Lowest(F) : i = j
  <2>1. F \subseteq AddrSlots
    BY <1>1 DEF F
  <2> QED BY <1>1, <2>1, LowestOne
<1> QED BY <1>2, <1>3, <1>4

(* A key that is not found is that of no row.                              *)
LEMMA AddressUnknown ==
  ASSUME NEW t \in AddrTable, NEW a, NEW type \in Nat \ {ANY}, NEW masklen \in Nat \ {ANY_MASK},
         AddressIndex(t, a, type, masklen) = {}, NEW i \in AddrSlots, t[i] # NoRow
  PROVE  ~HasKey(t[i], a, type, masklen)
BY AddressIndexIs

(* Refreshing a row changes its date only.                                 *)
LEMMA RefreshedType ==
  ASSUME NEW date \in Dates
  PROVE  /\ \A row \in AddrRow : /\ Refreshed(row, date) \in AddrRow
                                 /\ \A a, type, masklen :
                                      HasKey(Refreshed(row, date), a, type, masklen)
                                        <=> HasKey(row, a, type, masklen)
         /\ \A row \in RouteRow : /\ Refreshed(row, date) \in RouteRow
                                  /\ Refreshed(row, date).addr = row.addr
                                  /\ Refreshed(row, date).next_hop = row.next_hop
BY DEF Refreshed, AddrRow, RouteRow, HasKey

(* Storing an address: rows that are there keep their keys and their slots,*)
(* and one that is new takes an empty slot, if there was none like it.     *)
LEMMA AddrStoredIs ==
  ASSUME NEW t \in AddrTable, NEW a \in Ip6Addr, NEW masklen \in Lengths,
         NEW date \in Dates, NEW type \in Types, NEW mem,
         NEW u, u = AddrStored(t, a, masklen, date, type, mem),
         NEW known, known = AddressIndex(t, a, type, masklen)
  PROVE  /\ u \in AddrTable
         /\ \A i \in AddrSlots : t[i] # NoRow =>
              IF i \in known THEN u[i] = Refreshed(t[i], date) ELSE u[i] = t[i]
         /\ \A i \in AddrSlots : t[i] = NoRow /\ u[i] # NoRow =>
              /\ HasKey(u[i], a, type, masklen) /\ u[i].exp = date
              /\ known = {}
              /\ \A j \in AddrSlots : t[j] = NoRow /\ u[j] # NoRow => i = j
<1> DEFINE slots == IF mem THEN FreeSlot(t) ELSE {}
           new == [addr |-> a, type |-> type, mask |-> masklen, exp |-> date]
<1>1. type \in Nat \ {ANY} /\ masklen \in Nat \ {ANY_MASK}
  BY DEF Types, Lengths, ANY, ANY_MASK, LINK_LOCAL, MULTICAST
<1>2. /\ \A i \in known : i \in AddrSlots /\ t[i] # NoRow
      /\ \A i, j \in known : i = j
  BY <1>1, AddressIndexIs
<1>3. new \in AddrRow /\ HasKey(new, a, type, masklen) /\ new.exp = date
  BY DEF AddrRow, HasKey, Types, Lengths
<1>4. DOMAIN t = AddrSlots /\ AddrSlots \in SUBSET Nat
      /\ \A i \in AddrSlots : t[i] # NoRow => t[i] \in AddrRow
  BY SlotsAreNat DEF AddrTable
<1>5. CASE known # {}
  <2>1. u = [i \in AddrSlots |-> IF i \in known THEN Refreshed(t[i], date) ELSE t[i]]
    BY <1>4, <1>5 DEF AddrStored
  <2>2. u \in AddrTable
    BY <1>2, <1>4, <2>1, RefreshedType DEF AddrTable
  <2>3. \A i \in AddrSlots : t[i] = NoRow => u[i] = NoRow
    BY <1>2, <2>1
  <2>5. \A i \in AddrSlots : IF i \in known THEN u[i] = Refreshed(t[i], date) ELSE u[i] = t[i]
    BY <2>1
  <2> QED BY <2>2, <2>3, <2>5
<1>6. CASE known = {}
  <2>1. u = [i \in AddrSlots |-> IF i \in slots THEN new ELSE t[i]]
    BY <1>4, <1>6 DEF AddrStored, Store
  <2>2. /\ \A i \in slots : i \in AddrSlots /\ t[i] = NoRow
        /\ \A i, j \in slots : i = j
    BY <1>4, FreeSlotEmpty
  <2> HIDE DEF slots, new
  <2>3. u \in AddrTable
    BY <1>3, <1>4, <2>1 DEF AddrTable
  <2>4. \A i \in AddrSlots : t[i] # NoRow => u[i] = t[i]
    BY <2>1, <2>2
  <2>5. \A i \in AddrSlots : t[i] = NoRow /\ u[i] # NoRow => i \in slots /\ u[i] = new
    BY <2>1
  <2> QED BY <1>3, <1>6, <2>2, <2>3, <2>4, <2>5
<1> QED BY <1>5, <1>6

(* The rows esix_init stores first.                                        *)
LinkLocalRow == [addr |-> OwnLinkLocal, type |-> LINK_LOCAL, mask |-> 128, exp |-> 0]
GroupRow(a) == [addr |-> a, type |-> MULTICAST, mask |-> 128, exp |-> 0]

(* The address table of esix_intf_init_interface, slot by slot.            *)
LEMMA InitAddrsIs ==
  /\ InitAddrs \in AddrTable
  /\ InitAddrs[0] = LinkLocalRow
  /\ InitAddrs[1] = GroupRow(Solicited(OwnLinkLocal))
  /\ InitAddrs[2] = GroupRow(AllNodes)
  /\ \A i \in AddrSlots \ {0, 1, 2} : InitAddrs[i] = NoRow
<1> DEFINE t0 == [i \in AddrSlots |-> NoRow]
           t1 == [t0 EXCEPT ![0] = LinkLocalRow]
           t2 == [t1 EXCEPT ![1] = GroupRow(Solicited(OwnLinkLocal))]
           t3 == [t2 EXCEPT ![2] = GroupRow(AllNodes)]
<1>1. /\ LinkLocalRow \in AddrRow
      /\ GroupRow(Solicited(OwnLinkLocal)) \in AddrRow
      /\ GroupRow(AllNodes) \in AddrRow
  BY AddressTypes, ZeroDate DEF LinkLocalRow, GroupRow, AddrRow, LINK_LOCAL, MULTICAST
<1>2. {0, 1, 2} \subseteq AddrSlots /\ AddrSlots \subseteq Nat
  BY SlotsAreNat
<1>3. t0 \in AddrTable /\ t1 \in AddrTable /\ t2 \in AddrTable /\ t3 \in AddrTable
  BY <1>1, <1>2 DEF AddrTable
<1>4. /\ LinkLocalRow # NoRow /\ GroupRow(Solicited(OwnLinkLocal)) # NoRow
      /\ GroupRow(AllNodes) # NoRow
  BY <1>1, NoRowAssumption
<1>5. /\ ~HasKey(LinkLocalRow, Solicited(OwnLinkLocal), MULTICAST, 128)
      /\ ~HasKey(LinkLocalRow, AllNodes, MULTICAST, 128)
      /\ ~HasKey(GroupRow(Solicited(OwnLinkLocal)), AllNodes, MULTICAST, 128)
  BY DEF HasKey, LinkLocalRow, GroupRow, Solicited, AllNodes, LINK_LOCAL, MULTICAST
<1>6. /\ t1[0] = LinkLocalRow /\ \A i \in AddrSlots \ {0} : t1[i] = NoRow
      /\ t2[0] = LinkLocalRow /\ t2[1] = GroupRow(Solicited(OwnLinkLocal))
      /\ \A i \in AddrSlots \ {0, 1} : t2[i] = NoRow
      /\ t3[0] = LinkLocalRow /\ t3[1] = GroupRow(Solicited(OwnLinkLocal))
      /\ t3[2] = GroupRow(AllNodes)
      /\ \A i \in AddrSlots \ {0, 1, 2} : t3[i] = NoRow
  BY <1>2, <1>3 DEF AddrTable
<1>7. /\ LinkLocalRow = [addr |-> OwnLinkLocal, type |-> LINK_LOCAL, mask |-> 128, exp |-> 0]
      /\ \A a : GroupRow(a) = [addr |-> a, type |-> MULTICAST, mask |-> 128, exp |-> 0]
  BY DEF LinkLocalRow, GroupRow
<1>8. {LINK_LOCAL, MULTICAST} \subseteq Nat \ {ANY} /\ 128 \in Nat \ {ANY_MASK}
  BY DEF ANY, ANY_MASK, LINK_LOCAL, MULTICAST
<1>9. \A i \in AddrSlots : t0[i] = NoRow
  OBVIOUS
<1> HIDE DEF t0, t1, t2, t3
<1>10. ASSUME NEW t \in AddrTable, NEW k \in AddrSlots, t[k] = NoRow,
              \A i \in AddrSlots : i < k => t[i] # NoRow
       PROVE  FreeSlot(t) = {k}
  BY <1>10, FreeSlotIs, TablesAssumption, ZenonT(40) DEF AddrTable, AddrSlots
<1>11. AddrStored(t0, OwnLinkLocal, 128, 0, LINK_LOCAL, TRUE) = t1
  <2>1. \A i \in AddrSlots : i < 0 => t0[i] # NoRow
    BY <1>2, <1>4, <1>6 DEF AddrSlots
  <2>2. 0 \in AddrSlots /\ t0[0] = NoRow
    BY <1>2, <1>6, <1>9
  <2>3. FreeSlot(t0) = {0}
    BY <1>3, <1>10, <2>1, <2>2
  <2>4. \A i \in AddrSlots : t0[i] # NoRow => ~HasKey(t0[i], OwnLinkLocal, LINK_LOCAL, 128)
    BY <1>5, <1>6, <1>9
  <2>5. AddressIndex(t0, OwnLinkLocal, LINK_LOCAL, 128) = {}
    BY <1>3, <2>4, <1>8, AddressIndexIs
  <2>6. AddrStored(t0, OwnLinkLocal, 128, 0, LINK_LOCAL, TRUE) = [t0 EXCEPT ![0] = LinkLocalRow]
    BY <1>3, <1>7, <2>3, <2>5 DEF AddrStored, Store, AddrTable
  <2> QED BY <2>6 DEF t1
<1>12. AddrStored(t1, Solicited(OwnLinkLocal), 128, 0, MULTICAST, TRUE) = t2
  <2>1. \A i \in AddrSlots : i < 1 => t1[i] # NoRow
    BY <1>2, <1>4, <1>6 DEF AddrSlots
  <2>2. 1 \in AddrSlots /\ t1[1] = NoRow
    BY <1>2, <1>6, <1>9
  <2>3. FreeSlot(t1) = {1}
    BY <1>3, <1>10, <2>1, <2>2
  <2>4. \A i \in AddrSlots : t1[i] # NoRow => ~HasKey(t1[i], Solicited(OwnLinkLocal), MULTICAST, 128)
    BY <1>5, <1>6, <1>9
  <2>5. AddressIndex(t1, Solicited(OwnLinkLocal), MULTICAST, 128) = {}
    BY <1>3, <2>4, <1>8, AddressIndexIs
  <2>6. AddrStored(t1, Solicited(OwnLinkLocal), 128, 0, MULTICAST, TRUE) = [t1 EXCEPT ![1] = GroupRow(Solicited(OwnLinkLocal))]
    BY <1>3, <1>7, <2>3, <2>5 DEF AddrStored, Store, AddrTable
  <2> QED BY <2>6 DEF t2
<1>13. AddrStored(t2, AllNodes, 128, 0, MULTICAST, TRUE) = t3
  <2>1. \A i \in AddrSlots : i < 2 => t2[i] # NoRow
    BY <1>2, <1>4, <1>6 DEF AddrSlots
  <2>2. 2 \in AddrSlots /\ t2[2] = NoRow
    BY <1>2, <1>6, <1>9
  <2>3. FreeSlot(t2) = {2}
    BY <1>3, <1>10, <2>1, <2>2
  <2>4. \A i \in AddrSlots : t2[i] # NoRow => ~HasKey(t2[i], AllNodes, MULTICAST, 128)
    BY <1>5, <1>6, <1>9
  <2>5. AddressIndex(t2, AllNodes, MULTICAST, 128) = {}
    BY <1>3, <2>4, <1>8, AddressIndexIs
  <2>6. AddrStored(t2, AllNodes, 128, 0, MULTICAST, TRUE) = [t2 EXCEPT ![2] = GroupRow(AllNodes)]
    BY <1>3, <1>7, <2>3, <2>5 DEF AddrStored, Store, AddrTable
  <2> QED BY <2>6 DEF t3
<1>14. InitAddrs = t3
  BY <1>11, <1>12, <1>13 DEF InitAddrs, t0
<1> QED BY <1>3, <1>6, <1>14

(* It satisfies the invariant of the table.                                *)
LEMMA InitAddrsInv == AddrInv(InitAddrs)
<1>1. \A i \in AddrSlots : InitAddrs[i] # NoRow => i \in {0, 1, 2}
  BY InitAddrsIs
<1>2. \A i, j \in {0, 1, 2} :
        HasKey(InitAddrs[i], InitAddrs[j].addr, InitAddrs[j].type, InitAddrs[j].mask) => i = j
  BY InitAddrsIs
     DEF HasKey, LinkLocalRow, GroupRow, Solicited, AllNodes, OwnLinkLocal, LINK_LOCAL, MULTICAST
<1>3. \A i \in {0, 1, 2} : InitAddrs[i].type # GLOBAL
  BY InitAddrsIs DEF LinkLocalRow, GroupRow, LINK_LOCAL, MULTICAST, GLOBAL
<1> QED BY <1>1, <1>2, <1>3, InitAddrsIs DEF AddrInv

(* An address the handlers store: an autoconfigured one is that of the     *)
(* node in a prefix, with a length of 64.                                  *)
LEMMA AddrStoredInv ==
  ASSUME NEW t, AddrInv(t), NEW a \in Ip6Addr, NEW masklen \in Lengths,
         NEW date \in Dates, NEW type \in Types, NEW mem,
         type = GLOBAL => masklen = 64 /\ FormedIn(a)
  PROVE  AddrInv(AddrStored(t, a, masklen, date, type, mem))
<1> DEFINE u == AddrStored(t, a, masklen, date, type, mem)
           known == AddressIndex(t, a, type, masklen)
<1>0. /\ u = AddrStored(t, a, masklen, date, type, mem)
      /\ known = AddressIndex(t, a, type, masklen)
  OBVIOUS
<1> HIDE DEF u, known
<1>1. t \in AddrTable
  BY DEF AddrInv
<1>2. /\ u \in AddrTable
      /\ \A i \in AddrSlots : t[i] # NoRow =>
           IF i \in known THEN u[i] = Refreshed(t[i], date) ELSE u[i] = t[i]
      /\ \A i \in AddrSlots : t[i] = NoRow /\ u[i] # NoRow =>
           /\ HasKey(u[i], a, type, masklen) /\ u[i].exp = date
           /\ known = {}
           /\ \A j \in AddrSlots : t[j] = NoRow /\ u[j] # NoRow => i = j
  BY <1>0, <1>1, AddrStoredIs
<1>3. known = {} => \A i \in AddrSlots : t[i] # NoRow => ~HasKey(t[i], a, type, masklen)
  <2>1. type \in Nat \ {ANY} /\ masklen \in Nat \ {ANY_MASK}
    BY DEF Types, Lengths, ANY, ANY_MASK, LINK_LOCAL, MULTICAST
  <2>2. AddressIndex(t, a, type, masklen) = {} =>
          \A i \in AddrSlots : t[i] # NoRow => ~HasKey(t[i], a, type, masklen)
    BY <1>1, <2>1, AddressUnknown
  <2> QED BY <1>0, <2>2, Zenon
<1>4. \A i \in AddrSlots : t[i] # NoRow => t[i] \in AddrRow
  BY <1>1 DEF AddrTable
<1>5. \A i \in AddrSlots : t[i] # NoRow =>
        /\ u[i] # NoRow
        /\ u[i].addr = t[i].addr /\ u[i].type = t[i].type /\ u[i].mask = t[i].mask
        /\ t[i].exp = 0 => u[i] = t[i]
  <2>1. \A row \in AddrRow :
          /\ Refreshed(row, date) \in AddrRow
          /\ Refreshed(row, date).addr = row.addr
          /\ Refreshed(row, date).type = row.type
          /\ Refreshed(row, date).mask = row.mask
          /\ row.exp = 0 => Refreshed(row, date) = row
    BY DEF Refreshed, AddrRow
  <2> QED BY <1>2, <1>4, <2>1, NoRowAssumption
<1>6. \A i \in AddrSlots : t[i] = NoRow /\ u[i] # NoRow =>
        u[i].addr = a /\ u[i].type = type /\ u[i].mask = masklen
  BY <1>2 DEF HasKey
<1>7. \A i \in {0, 1, 2} : u[i] = InitAddrs[i]
  <2>1. \A i \in {0, 1, 2} : InitAddrs[i] # NoRow /\ InitAddrs[i].exp = 0 /\ i \in AddrSlots
    <3>1. \A i \in {0, 1, 2} : InitAddrs[i].exp = 0 /\ i \in AddrSlots
      BY InitAddrsIs, SlotsAreNat DEF LinkLocalRow, GroupRow
    <3>2. \A i \in {0, 1, 2} : InitAddrs[i] \in AddrRow
      BY InitAddrsIs, AddressTypes, ZeroDate DEF LinkLocalRow, GroupRow, AddrRow, LINK_LOCAL, MULTICAST
    <3> QED BY <3>1, <3>2, NoRowAssumption
  <2> QED BY <1>5, <2>1 DEF AddrInv
<1>8. ASSUME NEW i \in AddrSlots, NEW j \in AddrSlots, u[i] # NoRow, u[j] # NoRow,
             HasKey(u[i], u[j].addr, u[j].type, u[j].mask)
      PROVE  i = j
  <2>1. CASE t[i] # NoRow /\ t[j] # NoRow
    BY <1>5, <1>8, <2>1 DEF AddrInv, HasKey
  <2>2. CASE t[i] = NoRow /\ t[j] = NoRow
    BY <1>2, <1>8, <2>2
  <2>3. CASE t[i] = NoRow /\ t[j] # NoRow
    BY <1>2, <1>3, <1>5, <1>6, <1>8, <2>3 DEF HasKey
  <2>4. CASE t[i] # NoRow /\ t[j] = NoRow
    BY <1>2, <1>3, <1>5, <1>6, <1>8, <2>4 DEF HasKey
  <2> QED BY <2>1, <2>2, <2>3, <2>4
<1>9. ASSUME NEW i \in AddrSlots, u[i] # NoRow, u[i].type = GLOBAL
      PROVE  u[i].mask = 64 /\ FormedIn(u[i].addr)
  BY <1>5, <1>6, <1>9 DEF AddrInv
<1> QED BY <1>2, <1>7, <1>8, <1>9 DEF AddrInv, u

(* esix_intf_add_address and its group.                                    *)
LEMMA AddAddressInv ==
  ASSUME NEW t, AddrInv(t), NEW nbs, NEW a, FormedIn(a), NEW date \in Dates, NEW mem
  PROVE  AddrInv(AddAddress(t, nbs, a, 64, date, GLOBAL, mem))
<1> DEFINE stored == AddrStored(t, a, 64, date, GLOBAL, "address" \in mem)
<1>1. a \in Ip6Addr /\ Solicited(a) \in Ip6Addr
  BY AddressTypes
<1>2. /\ GLOBAL \in Types /\ MULTICAST \in Types /\ MULTICAST # GLOBAL
      /\ 64 \in Lengths /\ 128 \in Lengths
  BY DEF Types, Lengths, LINK_LOCAL, GLOBAL, MULTICAST
<1>3. AddrInv(stored)
  BY <1>1, <1>2, AddrStoredInv
<1>4. AddrInv(AddrStored(stored, Solicited(a), 128, date, MULTICAST, "group" \in mem))
  <2> HIDE DEF stored
  <2> QED BY <1>1, <1>2, <1>3, AddrStoredInv
<1> QED BY <1>3, <1>4 DEF AddAddress

(* The call with type and length swapped removes nothing.                  *)
LEMMA RemoveAddressSwapped ==
  ASSUME NEW t, AddrInv(t), NEW a
  PROVE  RemoveAddress(t, a, 64, GLOBAL) = t
<1>1. \A i \in AddrSlots : t[i] # NoRow => t[i].type # 64
  BY DEF AddrInv, AddrTable, AddrRow, LINK_LOCAL, MULTICAST
<1>2. AddressIndex(t, a, 64, GLOBAL) = {}
  BY <1>1 DEF AddressIndex, Lowest, ANY, AddrInv, AddrTable
<1> QED BY <1>2 DEF RemoveAddress, Clear, Store, AddrInv, AddrTable

(* Housekeeping removes rows, and not those that never expire.             *)
LEMMA KeptAddrsInv ==
  ASSUME NEW t, AddrInv(t), NEW now
  PROVE  AddrInv(Kept(t, now))
<1>1. \A i \in {0, 1, 2} : InitAddrs[i].exp = 0 /\ i \in AddrSlots
  BY InitAddrsIs, SlotsAreNat DEF LinkLocalRow, GroupRow
<1>2. /\ DOMAIN t = AddrSlots /\ Kept(t, now) \in AddrTable
      /\ \A i \in AddrSlots : Kept(t, now)[i] = NoRow \/ Kept(t, now)[i] = t[i]
  BY DEF AddrInv, AddrTable, Kept
<1>3. \A i \in {0, 1, 2} : Kept(t, now)[i] = InitAddrs[i]
  BY <1>1, <1>2 DEF Kept, Lapsed, AddrInv
<1> QED BY <1>2, <1>3 DEF AddrInv

-----------------------------------------------------------------------------
(* The routing table.                                                      *)

RouteTable == [RouteSlots -> RouteRow \cup {NoRow}]
IsRoute(row, dest, next_hop) == row.addr = dest /\ row.next_hop = next_hop

(* Routes to the default destination go through routers, others do not.    *)
WellRouted(dest, next_hop) ==
  /\ dest \in Dests
  /\ IF dest = DefaultDest THEN next_hop \in Routers ELSE next_hop = in6addr_any

(* The routes of esix_init that no router can withdraw or let expire.      *)
PermanentRoutes == IF "fe80" \in Prefixes THEN {1} ELSE {0, 1}

RouteInv(t) ==
  /\ t \in RouteTable
  /\ \A i \in PermanentRoutes : t[i] = DefaultRoutes[i]
  /\ \A i, j \in RouteSlots :
       t[i] # NoRow /\ t[j] # NoRow /\ IsRoute(t[i], t[j].addr, t[j].next_hop) => i = j
  /\ \A i \in RouteSlots : t[i] # NoRow => WellRouted(t[i].addr, t[i].next_hop)

(* What a look-up of a route returns.                                      *)
LEMMA RouteIndexIs ==
  ASSUME NEW t \in RouteTable, NEW dest, NEW next_hop,
         NEW known, known = RouteIndex(t, dest, next_hop)
  PROVE  /\ \A i \in known : i \in RouteSlots /\ t[i] # NoRow /\ IsRoute(t[i], dest, next_hop)
         /\ known = {} => \A i \in RouteSlots : t[i] # NoRow => ~IsRoute(t[i], dest, next_hop)
<1> DEFINE F == {i \in DOMAIN t : /\ t[i] # NoRow
                                  /\ t[i].addr = dest /\ t[i].next_hop = next_hop}
<1>1. F \in SUBSET Nat /\ F \subseteq RouteSlots /\ known = Lowest(F)
  BY SlotsAreNat DEF RouteTable, RouteIndex
<1>2. \A i \in RouteSlots : i \in F <=> t[i] # NoRow /\ IsRoute(t[i], dest, next_hop)
  BY DEF RouteTable, IsRoute
<1> HIDE DEF F
<1>3. /\ Lowest(F) \subseteq F
      /\ Lowest(F) = {} => F = {}
  BY <1>1, LowestOne
<1> QED BY <1>1, <1>2, <1>3

(* Storing a route: rows that are there keep their keys and their slots,   *)
(* and one that is new takes an empty slot, if there was none like it.     *)
LEMMA AddRouteIs ==
  ASSUME NEW t \in RouteTable, NEW dest \in Dests, NEW next_hop \in Ip6Addr,
         NEW date \in Dates, NEW mem,
         NEW u, u = AddRoute(t, dest, next_hop, date, mem),
         NEW known, known = RouteIndex(t, dest, next_hop)
  PROVE  /\ u \in RouteTable
         /\ \A i \in RouteSlots : t[i] # NoRow =>
              IF i \in known THEN u[i] = Refreshed(t[i], date) ELSE u[i] = t[i]
         /\ \A i \in RouteSlots : t[i] = NoRow /\ u[i] # NoRow =>
              /\ IsRoute(u[i], dest, next_hop) /\ u[i].exp = date
              /\ known = {}
              /\ \A j \in RouteSlots : t[j] = NoRow /\ u[j] # NoRow => i = j
<1> DEFINE slots == IF mem THEN FreeSlot(t) ELSE {}
           new == [addr |-> dest, next_hop |-> next_hop, exp |-> date]
<1>1. \A i \in known : i \in RouteSlots /\ t[i] # NoRow
  BY RouteIndexIs
<1>2. new \in RouteRow /\ IsRoute(new, dest, next_hop) /\ new.exp = date
  BY DEF RouteRow, IsRoute
<1>3. DOMAIN t = RouteSlots /\ RouteSlots \in SUBSET Nat
      /\ \A i \in RouteSlots : t[i] # NoRow => t[i] \in RouteRow
  BY SlotsAreNat DEF RouteTable
<1>4. CASE known # {}
  <2>1. u = [i \in RouteSlots |-> IF i \in known THEN Refreshed(t[i], date) ELSE t[i]]
    BY <1>3, <1>4 DEF AddRoute
  <2>2. u \in RouteTable
    BY <1>1, <1>3, <2>1, RefreshedType DEF RouteTable
  <2>3. \A i \in RouteSlots : t[i] = NoRow => u[i] = NoRow
    BY <1>1, <2>1
  <2>4. \A i \in RouteSlots : IF i \in known THEN u[i] = Refreshed(t[i], date) ELSE u[i] = t[i]
    BY <2>1
  <2> QED BY <2>2, <2>3, <2>4
<1>5. CASE known = {}
  <2>1. u = [i \in RouteSlots |-> IF i \in slots THEN new ELSE t[i]]
    BY <1>3, <1>5 DEF AddRoute, Store
  <2>2. /\ \A i \in slots : i \in RouteSlots /\ t[i] = NoRow
        /\ \A i, j \in slots : i = j
    BY <1>3, FreeSlotEmpty
  <2> HIDE DEF slots, new
  <2>3. u \in RouteTable
    BY <1>2, <1>3, <2>1 DEF RouteTable
  <2>4. \A i \in RouteSlots : t[i] # NoRow => u[i] = t[i]
    BY <2>1, <2>2
  <2>5. \A i \in RouteSlots : t[i] = NoRow /\ u[i] # NoRow => i \in slots /\ u[i] = new
    BY <2>1
  <2> QED BY <1>2, <1>5, <2>2, <2>3, <2>4, <2>5
<1> QED BY <1>4, <1>5

(* The routes esix_init stores.                                            *)
OnLinkRow(dest) == [addr |-> dest, next_hop |-> in6addr_any, exp |-> 0]

(* The routing table of esix_intf_add_default_routes, slot by slot.        *)
LEMMA DefaultRoutesIs ==
  /\ DefaultRoutes \in RouteTable
  /\ DefaultRoutes[0] = OnLinkRow("fe80")
  /\ DefaultRoutes[1] = OnLinkRow("ff00")
  /\ \A i \in RouteSlots \ {0, 1} : DefaultRoutes[i] = NoRow
<1> DEFINE t0 == [i \in RouteSlots |-> NoRow]
           t1 == [t0 EXCEPT ![0] = OnLinkRow("fe80")]
           t2 == [t1 EXCEPT ![1] = OnLinkRow("ff00")]
<1>1. OnLinkRow("fe80") \in RouteRow /\ OnLinkRow("ff00") \in RouteRow
  BY AddressTypes, ZeroDate DEF OnLinkRow, RouteRow, Dests
<1>2. OnLinkRow("fe80") # NoRow /\ OnLinkRow("ff00") # NoRow
  BY <1>1, NoRowAssumption
<1>3. {0, 1} \subseteq RouteSlots /\ RouteSlots \subseteq Nat
  BY SlotsAreNat
<1>4. t0 \in RouteTable /\ t1 \in RouteTable /\ t2 \in RouteTable
  BY <1>1, <1>3 DEF RouteTable
<1>5. /\ \A i \in RouteSlots : t0[i] = NoRow
      /\ t1[0] = OnLinkRow("fe80") /\ \A i \in RouteSlots \ {0} : t1[i] = NoRow
      /\ t2[0] = OnLinkRow("fe80") /\ t2[1] = OnLinkRow("ff00")
      /\ \A i \in RouteSlots \ {0, 1} : t2[i] = NoRow
  BY <1>3, <1>4 DEF RouteTable
<1>6. \A dest : OnLinkRow(dest) = [addr |-> dest, next_hop |-> in6addr_any, exp |-> 0]
  BY DEF OnLinkRow
<1> HIDE DEF t0, t1, t2
<1>7. ASSUME NEW t \in RouteTable, NEW k \in RouteSlots, t[k] = NoRow,
             \A i \in RouteSlots : i < k => t[i] # NoRow
      PROVE  FreeSlot(t) = {k}
  BY <1>7, FreeSlotIs, TablesAssumption, ZenonT(40) DEF RouteTable, RouteSlots
<1>8. AddRoute(t0, "fe80", in6addr_any, 0, TRUE) = t1
  <2>1. FreeSlot(t0) = {0}
    <3>1. \A i \in RouteSlots : i < 0 => t0[i] # NoRow
      BY <1>3
    <3> QED BY <1>3, <1>4, <1>5, <1>7, <3>1
  <2>2. RouteIndex(t0, "fe80", in6addr_any) = {}
    BY <1>4, <1>5, RouteIndexIs
  <2>3. AddRoute(t0, "fe80", in6addr_any, 0, TRUE) = [t0 EXCEPT ![0] = OnLinkRow("fe80")]
    BY <1>4, <1>6, <2>1, <2>2 DEF AddRoute, Store, RouteTable
  <2> QED BY <2>3 DEF t1
<1>9. AddRoute(t1, "ff00", in6addr_any, 0, TRUE) = t2
  <2>1. FreeSlot(t1) = {1}
    <3>1. \A i \in RouteSlots : i < 1 => t1[i] # NoRow
      BY <1>2, <1>3, <1>5 DEF RouteSlots
    <3>2. 1 \in RouteSlots /\ t1[1] = NoRow
      BY <1>3, <1>5
    <3> QED BY <1>4, <1>7, <3>1, <3>2
  <2>2. RouteIndex(t1, "ff00", in6addr_any) = {}
    <3>1. \A i \in RouteSlots : t1[i] # NoRow => ~IsRoute(t1[i], "ff00", in6addr_any)
      BY <1>5, <1>6 DEF IsRoute
    <3> QED BY <1>4, <3>1, RouteIndexIs
  <2>3. AddRoute(t1, "ff00", in6addr_any, 0, TRUE) = [t1 EXCEPT ![1] = OnLinkRow("ff00")]
    BY <1>4, <1>6, <2>1, <2>2 DEF AddRoute, Store, RouteTable
  <2> QED BY <2>3 DEF t2
<1>10. DefaultRoutes = t2
  BY <1>8, <1>9 DEF DefaultRoutes, t0
<1> QED BY <1>4, <1>5, <1>10

(* It satisfies the invariant of the table.                                *)
LEMMA DefaultRoutesInv == RouteInv(DefaultRoutes)
<1>1. \A i \in RouteSlots : DefaultRoutes[i] # NoRow => i \in {0, 1}
  BY DefaultRoutesIs
<1>2. \A i, j \in {0, 1} :
        IsRoute(DefaultRoutes[i], DefaultRoutes[j].addr, DefaultRoutes[j].next_hop) => i = j
  BY DefaultRoutesIs DEF IsRoute, OnLinkRow
<1>3. \A i \in {0, 1} : WellRouted(DefaultRoutes[i].addr, DefaultRoutes[i].next_hop)
  BY DefaultRoutesIs DEF WellRouted, OnLinkRow, Dests, DefaultDest
<1> QED BY <1>1, <1>2, <1>3, DefaultRoutesIs DEF RouteInv

(* A destination a router advertises, or the default one, is not that of a *)
(* permanent route.                                                        *)
Advertised(dest) == dest \in Prefixes \cup {DefaultDest}
LEMMA AdvertisedOther ==
  ASSUME NEW dest, Advertised(dest), NEW i \in PermanentRoutes
  PROVE  DefaultRoutes[i].addr # dest
BY DefaultRoutesIs, AddressesAssumption DEF Advertised, PermanentRoutes, OnLinkRow, DefaultDest

(* The rows esix_init stores never expire.                                 *)
LEMMA DefaultRoutesStay ==
  \A i \in {0, 1} : /\ i \in RouteSlots
                    /\ DefaultRoutes[i] \in RouteRow /\ DefaultRoutes[i] # NoRow
                    /\ DefaultRoutes[i].exp = 0
                    /\ DefaultRoutes[i].addr \in {"fe80", "ff00"}
<1>1. \A i \in {0, 1} : /\ i \in RouteSlots /\ DefaultRoutes[i].exp = 0
                        /\ DefaultRoutes[i].addr \in {"fe80", "ff00"}
  BY DefaultRoutesIs, SlotsAreNat DEF OnLinkRow
<1>2. \A i \in {0, 1} : DefaultRoutes[i] \in RouteRow
  BY DefaultRoutesIs, AddressTypes, ZeroDate DEF OnLinkRow, RouteRow, Dests
<1> QED BY <1>1, <1>2, NoRowAssumption

(* Adding or refreshing a well-formed route preserves the invariant.       *)
LEMMA AddRouteInv ==
  ASSUME NEW t, RouteInv(t), NEW dest, NEW next_hop, WellRouted(dest, next_hop),
         NEW date \in Dates, NEW mem,
         NEW u, u = AddRoute(t, dest, next_hop, date, mem)
  PROVE  RouteInv(u)
<1> DEFINE known == RouteIndex(t, dest, next_hop)
<1>0. known = RouteIndex(t, dest, next_hop)
  OBVIOUS
<1> HIDE DEF known
<1>1. t \in RouteTable /\ dest \in Dests /\ next_hop \in Ip6Addr
  BY AddressTypes, RemoteTypes DEF RouteInv, WellRouted
<1>2. /\ u \in RouteTable
      /\ \A i \in RouteSlots : t[i] # NoRow =>
           IF i \in known THEN u[i] = Refreshed(t[i], date) ELSE u[i] = t[i]
      /\ \A i \in RouteSlots : t[i] = NoRow /\ u[i] # NoRow =>
           /\ IsRoute(u[i], dest, next_hop) /\ u[i].exp = date
           /\ known = {}
           /\ \A j \in RouteSlots : t[j] = NoRow /\ u[j] # NoRow => i = j
  BY <1>0, <1>1, AddRouteIs
<1>3. known = {} => \A i \in RouteSlots : t[i] # NoRow => ~IsRoute(t[i], dest, next_hop)
  BY <1>0, <1>1, RouteIndexIs
<1>4. \A i \in RouteSlots : t[i] # NoRow => t[i] \in RouteRow
  BY <1>1 DEF RouteTable
<1>5. \A i \in RouteSlots : t[i] # NoRow =>
        /\ u[i] # NoRow
        /\ u[i].addr = t[i].addr /\ u[i].next_hop = t[i].next_hop
        /\ t[i].exp = 0 => u[i] = t[i]
  <2>1. \A row \in RouteRow :
          /\ Refreshed(row, date) \in RouteRow
          /\ Refreshed(row, date).addr = row.addr
          /\ Refreshed(row, date).next_hop = row.next_hop
          /\ row.exp = 0 => Refreshed(row, date) = row
    BY DEF Refreshed, RouteRow
  <2> QED BY <1>2, <1>4, <2>1, NoRowAssumption
<1>6. \A i \in PermanentRoutes : u[i] = DefaultRoutes[i]
  BY <1>5, DefaultRoutesStay DEF RouteInv, PermanentRoutes
<1>7. ASSUME NEW i \in RouteSlots, NEW j \in RouteSlots, u[i] # NoRow, u[j] # NoRow,
             IsRoute(u[i], u[j].addr, u[j].next_hop)
      PROVE  i = j
  <2>1. CASE t[i] # NoRow /\ t[j] # NoRow
    BY <1>5, <1>7, <2>1 DEF RouteInv, IsRoute
  <2>2. CASE t[i] = NoRow /\ t[j] = NoRow
    BY <1>2, <1>7, <2>2
  <2>3. CASE t[i] = NoRow /\ t[j] # NoRow
    BY <1>2, <1>3, <1>5, <1>7, <2>3 DEF IsRoute
  <2>4. CASE t[i] # NoRow /\ t[j] = NoRow
    BY <1>2, <1>3, <1>5, <1>7, <2>4 DEF IsRoute
  <2> QED BY <2>1, <2>2, <2>3, <2>4
<1>8. ASSUME NEW i \in RouteSlots, u[i] # NoRow
      PROVE  WellRouted(u[i].addr, u[i].next_hop)
  BY <1>2, <1>5, <1>8 DEF RouteInv, IsRoute
<1> QED BY <1>2, <1>6, <1>7, <1>8 DEF RouteInv

(* Removing routes by a key other than those of the permanent rows.        *)
LEMMA RemoveRouteInv ==
  ASSUME NEW t, RouteInv(t), NEW dest, NEW next_hop, Advertised(dest),
         NEW u, u = RemoveRoute(t, dest, next_hop)
  PROVE  /\ RouteInv(u)
         /\ \A i \in RouteSlots :
              u[i] = IF t[i] # NoRow /\ IsRoute(t[i], dest, next_hop) THEN NoRow ELSE t[i]
<1> DEFINE known == RouteIndex(t, dest, next_hop)
<1>0. known = RouteIndex(t, dest, next_hop)
  OBVIOUS
<1>1. t \in RouteTable /\ DOMAIN t = RouteSlots
  BY DEF RouteInv, RouteTable
<1>2. u = [i \in RouteSlots |-> IF i \in known THEN NoRow ELSE t[i]]
  BY <1>1 DEF RemoveRoute, Clear, Store
<1> HIDE DEF known
<1>3. /\ \A i \in known : i \in RouteSlots /\ t[i] # NoRow /\ IsRoute(t[i], dest, next_hop)
      /\ known = {} => \A i \in RouteSlots : t[i] # NoRow => ~IsRoute(t[i], dest, next_hop)
  BY <1>0, <1>1, RouteIndexIs
<1>4. \A i \in RouteSlots : i \in known <=> t[i] # NoRow /\ IsRoute(t[i], dest, next_hop)
  <2>1. \A i, j \in RouteSlots : /\ t[i] # NoRow /\ t[j] # NoRow
                                 /\ IsRoute(t[i], dest, next_hop) /\ IsRoute(t[j], dest, next_hop)
                                 => i = j
    BY DEF RouteInv, IsRoute
  <2> QED BY <1>3, <2>1
<1>5. \A i \in RouteSlots :
        u[i] = IF t[i] # NoRow /\ IsRoute(t[i], dest, next_hop) THEN NoRow ELSE t[i]
  BY <1>2, <1>4
<1>6. u \in RouteTable /\ \A i \in RouteSlots : u[i] = NoRow \/ u[i] = t[i]
  BY <1>1, <1>2 DEF RouteTable
<1>7. \A i \in PermanentRoutes : u[i] = DefaultRoutes[i]
  BY <1>5, DefaultRoutesStay, AdvertisedOther DEF RouteInv, IsRoute, PermanentRoutes
<1> QED BY <1>5, <1>6, <1>7 DEF RouteInv

(* So does housekeeping, which spares rows that do not expire.             *)
LEMMA KeptRoutesInv ==
  ASSUME NEW t, RouteInv(t), NEW now
  PROVE  RouteInv(Kept(t, now))
<1>1. /\ DOMAIN t = RouteSlots /\ Kept(t, now) \in RouteTable
      /\ \A i \in RouteSlots : Kept(t, now)[i] = NoRow \/ Kept(t, now)[i] = t[i]
  BY DEF RouteInv, RouteTable, Kept
<1>2. \A i \in PermanentRoutes : Kept(t, now)[i] = DefaultRoutes[i]
  BY <1>1, DefaultRoutesStay DEF Kept, Lapsed, RouteInv, PermanentRoutes
<1> QED BY <1>1, <1>2 DEF RouteInv

-----------------------------------------------------------------------------
(* The neighbour cache.                                                    *)

CacheTable == [NeighborSlots -> NeighborRow \cup {NoRow}]

CacheInv(t) ==
  /\ t \in CacheTable
  /\ "fe80" \notin Prefixes => t[0] = InitNeighbors[0]
  /\ \A i, j \in NeighborSlots :
       t[i] # NoRow /\ t[j] # NoRow /\ t[i].addr = t[j].addr => i = j

(* What a look-up of a neighbour returns.                                  *)
LEMMA NeighborIndexIs ==
  ASSUME NEW t \in CacheTable, NEW a, NEW known, known = NeighborIndex(t, a)
  PROVE  /\ \A i \in known : i \in NeighborSlots /\ t[i] # NoRow /\ t[i].addr = a
         /\ known = {} => \A i \in NeighborSlots : t[i] # NoRow => t[i].addr # a
<1> DEFINE F == {i \in DOMAIN t : t[i] # NoRow /\ t[i].addr = a}
<1>1. F \in SUBSET Nat /\ F \subseteq NeighborSlots /\ known = Lowest(F)
  BY SlotsAreNat DEF CacheTable, NeighborIndex
<1>2. \A i \in NeighborSlots : i \in F <=> t[i] # NoRow /\ t[i].addr = a
  BY DEF CacheTable
<1> HIDE DEF F
<1>3. /\ Lowest(F) \subseteq F
      /\ Lowest(F) = {} => F = {}
  BY <1>1, LowestOne
<1> QED BY <1>1, <1>2, <1>3

(* The node's own row, which is never sollicited and never expires.        *)
OwnRow == [addr |-> OwnLinkLocal, lla |-> Me, exp |-> 0,
           sollicited |-> FALSE, status |-> "REACHABLE"]

(* The node's own row is a row that never expires.                         *)
LEMMA OwnRowType ==
  /\ OwnRow \in NeighborRow /\ OwnRow # NoRow
  /\ OwnRow.addr = OwnLinkLocal /\ OwnRow.lla = Me
  /\ OwnRow.exp = 0 /\ OwnRow.sollicited = FALSE
<1>1. OwnRow \in NeighborRow
  BY AddressTypes, AddressesAssumption, ZeroDate DEF OwnRow, NeighborRow, Status
<1> QED BY <1>1, NoRowAssumption DEF OwnRow

(* The cache after esix_init has the node's own row in slot 0.             *)
LEMMA InitNeighborsInv ==
  /\ CacheInv(InitNeighbors)
  /\ InitNeighbors[0] = OwnRow
  /\ \A i \in NeighborSlots \ {0} : InitNeighbors[i] = NoRow
<1> DEFINE t0 == [i \in NeighborSlots |-> NoRow]
<1>1. FreeSlot(t0) = {0}
  <2>1. \A i \in NeighborSlots : i < 0 => t0[i] # NoRow
    BY SlotsAreNat
  <2>2. t0 \in [0 .. (ESIX_MAX_NB - 1) -> {NoRow}] /\ 0 \in 0 .. (ESIX_MAX_NB - 1)
    BY SlotsAreNat DEF NeighborSlots
  <2>3. t0[0] = NoRow /\ ESIX_MAX_NB \in Nat
    BY SlotsAreNat, TablesAssumption
  <2> HIDE DEF t0
  <2> QED BY <2>1, <2>2, <2>3, FreeSlotIs DEF NeighborSlots
<1>2. InitNeighbors = [i \in NeighborSlots |-> IF i \in {0} THEN OwnRow ELSE NoRow]
  BY <1>1 DEF InitNeighbors, AddNeighbor, Store, OwnRow
<1>3. InitNeighbors \in CacheTable
  BY <1>2, OwnRowType DEF CacheTable
<1> QED BY <1>2, <1>3, SlotsAreNat DEF CacheInv

(* Steps that keep the addresses of rows, and the node's own row unless a  *)
(* router advertises the link-local prefix.                                *)
LEMMA CacheStepInv ==
  ASSUME NEW t, CacheInv(t), NEW u \in CacheTable, "fe80" \notin Prefixes => u[0] = t[0],
         \A i \in NeighborSlots : u[i] = NoRow \/ (t[i] # NoRow /\ u[i].addr = t[i].addr)
  PROVE  CacheInv(u)
BY DEF CacheInv

(* What the handlers use of the cache: its slots, and the own row.         *)
LEMMA CacheFacts ==
  ASSUME NEW t, CacheInv(t)
  PROVE  /\ t \in CacheTable /\ DOMAIN t = NeighborSlots
         /\ 0 \in NeighborSlots /\ ("fe80" \notin Prefixes => t[0] = OwnRow)
         /\ \A i \in NeighborSlots : t[i] # NoRow => t[i] \in NeighborRow
BY InitNeighborsInv, SlotsAreNat DEF CacheInv, CacheTable

(* A neighbour that is not in the cache is stored once, if at all.         *)
LEMMA AddNeighborInv ==
  ASSUME NEW t, CacheInv(t), NEW a \in Ip6Addr, NEW lla \in Llas, NEW date \in Dates,
         NEW status \in Status, NEW mem,
         NEW known, known = NeighborIndex(t, a), known = {},
         NEW u, u = AddNeighbor(t, a, lla, date, status, mem)
  PROVE  CacheInv(u)
<1> DEFINE slots == IF mem THEN FreeSlot(t) ELSE {}
           new == [addr |-> a, lla |-> lla, exp |-> date,
                   sollicited |-> FALSE, status |-> status]
<1>1. t \in CacheTable /\ DOMAIN t = NeighborSlots /\ 0 \in NeighborSlots
      /\ ("fe80" \notin Prefixes => t[0] = OwnRow) /\ OwnRow # NoRow
      /\ \A i \in NeighborSlots : t[i] # NoRow => t[i] \in NeighborRow
  BY CacheFacts, OwnRowType
<1>2. new \in NeighborRow /\ new.addr = a
  BY DEF NeighborRow
<1>3. u = [i \in NeighborSlots |-> IF i \in slots THEN new ELSE t[i]]
  BY <1>1 DEF AddNeighbor, Store
<1>4. /\ \A i \in slots : i \in NeighborSlots /\ t[i] = NoRow
      /\ \A i, j \in slots : i = j
  BY <1>1, SlotsAreNat, FreeSlotEmpty
<1> HIDE DEF slots, new
<1>5. u \in CacheTable
  BY <1>1, <1>2, <1>3 DEF CacheTable
<1>6. \A i \in NeighborSlots : t[i] # NoRow => t[i].addr # a
  BY <1>1, NeighborIndexIs
<1>7. "fe80" \notin Prefixes => u[0] = t[0]
  BY <1>1, <1>3, <1>4
<1>8. ASSUME NEW i \in NeighborSlots, NEW j \in NeighborSlots,
             u[i] # NoRow, u[j] # NoRow, u[i].addr = u[j].addr
      PROVE  i = j
  <2>1. CASE i \in slots /\ j \in slots
    BY <1>4, <2>1
  <2>2. CASE i \notin slots /\ j \notin slots
    BY <1>3, <1>8, <2>2 DEF CacheInv
  <2>3. CASE i \in slots /\ j \notin slots
    BY <1>2, <1>3, <1>6, <1>8, <2>3
  <2>4. CASE i \notin slots /\ j \in slots
    BY <1>2, <1>3, <1>6, <1>8, <2>4
  <2> QED BY <2>1, <2>2, <2>3, <2>4
<1> QED BY <1>5, <1>7, <1>8 DEF CacheInv

(* Marking a neighbour other than the node as sollicited.                  *)
LEMMA MarkedType ==
  ASSUME NEW row \in NeighborRow
  PROVE  /\ [row EXCEPT !.sollicited = TRUE, !.status = "STALE"] \in NeighborRow
         /\ [row EXCEPT !.sollicited = TRUE, !.status = "STALE"].addr = row.addr
         /\ \A date \in Dates :
              LET confirmed == [row EXCEPT !.sollicited = FALSE, !.status = "REACHABLE",
                                           !.exp = date]
              IN confirmed \in NeighborRow /\ confirmed.addr = row.addr
BY DEF NeighborRow, Status

(* Soliciting an address in no link-local prefix keeps the own row.        *)
LEMMA MarkSollicitedInv ==
  ASSUME NEW t, CacheInv(t), NEW a, "fe80" \notin Prefixes => a # OwnLinkLocal
  PROVE  CacheInv(MarkSollicited(t, a))
<1> DEFINE u == MarkSollicited(t, a)
           known == NeighborIndex(t, a)
<1>1. /\ t \in CacheTable /\ DOMAIN t = NeighborSlots /\ 0 \in NeighborSlots
      /\ "fe80" \notin Prefixes => t[0] = OwnRow
      /\ \A i \in NeighborSlots : t[i] # NoRow => t[i] \in NeighborRow
  BY CacheFacts
<1>2. u = [i \in NeighborSlots |-> IF i \in known
             THEN [t[i] EXCEPT !.sollicited = TRUE, !.status = "STALE"] ELSE t[i]]
  BY <1>1 DEF MarkSollicited
<1>3. \A i \in known : i \in NeighborSlots /\ t[i] # NoRow /\ t[i].addr = a
  BY <1>1, NeighborIndexIs
<1> HIDE DEF known, u
<1>4. u \in CacheTable
  BY <1>1, <1>2, <1>3, MarkedType DEF CacheTable
<1>5. \A i \in NeighborSlots : u[i] = NoRow \/ (t[i] # NoRow /\ u[i].addr = t[i].addr)
  BY <1>1, <1>2, <1>3, MarkedType
<1>6. "fe80" \notin Prefixes => u[0] = t[0]
  BY <1>1, <1>2, <1>3, OwnRowType
<1> QED BY <1>4, <1>5, <1>6, CacheStepInv DEF u

-----------------------------------------------------------------------------
(* Part 2: the tables in the steps of the program.                         *)

ClockOK == current_time \in 1 .. MaxTime
IInv == /\ ClockOK
        /\ AddrInv(addrs)
        /\ RouteInv(routes)
        /\ CacheInv(neighbors)

(* The tables of esix_init satisfy the invariants.                         *)
LEMMA InitInv ==
  ASSUME Init
  PROVE  IInv
BY InitAddrsInv, DefaultRoutesInv, InitNeighborsInv, DatesAssumption DEF Init, IInv, ClockOK

(* Dates the handlers store.                                               *)
LEMMA HandlerDates ==
  ASSUME IInv
  PROVE  /\ Date(NEW_NEIGHBOR_TIMEOUT) \in Dates /\ Date(NEIGHBOR_TIMEOUT) \in Dates
         /\ \A l \in Nat : Date(l) \in Dates
BY DateType, DatesAssumption DEF IInv, ClockOK

(* A neighbour that solicits is stored once.                               *)
LEMMA SolicitationInv ==
  ASSUME IInv, NEW f \in NsIn, NEW mem, process_neighbor_sol(f, mem)
  PROVE  IInv'
<1>1. f.src \in Ip6Addr /\ f.lla \in Llas
  BY RemoteTypes, AddressTypes DEF NsIn
<1>2. CacheInv(neighbors) /\ Date(NEW_NEIGHBOR_TIMEOUT) \in Dates /\ "STALE" \in Status
  BY HandlerDates DEF IInv, Status
<1>3. CASE NeighborIndex(neighbors, f.src) # {}
  BY <1>3 DEF process_neighbor_sol, IInv, ClockOK
<1>4. CASE NeighborIndex(neighbors, f.src) = {}
  <2> DEFINE granted == "neighbor" \in mem
  <2>1. neighbors' = AddNeighbor(neighbors, f.src, f.lla, Date(NEW_NEIGHBOR_TIMEOUT),
                                 "STALE", granted)
    BY <1>4 DEF process_neighbor_sol
  <2> HIDE DEF granted
  <2>2. CacheInv(neighbors')
    BY <1>1, <1>2, <1>4, <2>1, AddNeighborInv
  <2> QED BY <2>2 DEF process_neighbor_sol, IInv, ClockOK
<1> QED BY <1>3, <1>4

(* A neighbour that advertises is stored once, or made REACHABLE in place. *)
LEMMA AdvertisementInv ==
  ASSUME IInv, NEW f \in NaIn, NEW mem, process_neighbor_adv(f, mem)
  PROVE  IInv'
<1>1. f.target \in Ip6Addr /\ f.lla \in Llas
  BY RemoteTypes DEF NaIn
<1>2. CacheInv(neighbors) /\ Date(NEIGHBOR_TIMEOUT) \in Dates /\ "REACHABLE" \in Status
  BY HandlerDates DEF IInv, Status
<1> DEFINE known == NeighborIndex(neighbors, f.target)
<1>3. CASE known = {}
  <2> DEFINE granted == "neighbor" \in mem
  <2>1. neighbors' = AddNeighbor(neighbors, f.target, f.lla, Date(NEIGHBOR_TIMEOUT),
                                 "REACHABLE", granted)
    BY <1>3 DEF process_neighbor_adv
  <2> HIDE DEF granted
  <2>2. CacheInv(neighbors')
    BY <1>1, <1>2, <1>3, <2>1, AddNeighborInv
  <2> QED BY <2>2 DEF process_neighbor_adv, IInv, ClockOK
<1>4. CASE known # {}
  <2> DEFINE date == Date(NEIGHBOR_TIMEOUT)
  <2>1. /\ \A i \in known : neighbors[i].sollicited
        /\ neighbors' = [i \in NeighborSlots |->
                           IF i \in known
                             THEN [neighbors[i] EXCEPT !.sollicited = FALSE,
                                                       !.status = "REACHABLE", !.exp = date]
                             ELSE neighbors[i]]
        /\ UNCHANGED <<addrs, routes, current_time>>
    BY <1>4 DEF process_neighbor_adv
  <2>2. /\ neighbors \in CacheTable /\ 0 \in NeighborSlots
        /\ "fe80" \notin Prefixes => neighbors[0] = OwnRow
        /\ \A i \in NeighborSlots : neighbors[i] # NoRow => neighbors[i] \in NeighborRow
    BY <1>2, CacheFacts
  <2>3. \A i \in known : i \in NeighborSlots /\ neighbors[i] # NoRow
    BY <2>2, NeighborIndexIs
  <2>4. date \in Dates
    BY <1>2
  <2> HIDE DEF known, date
  <2>5. neighbors' \in CacheTable
    BY <2>1, <2>2, <2>3, <2>4, MarkedType DEF CacheTable
  <2>6. \A i \in NeighborSlots :
          neighbors'[i] = NoRow
            \/ (neighbors[i] # NoRow /\ neighbors'[i].addr = neighbors[i].addr)
    BY <2>1, <2>3, <2>2, <2>4, MarkedType
  <2>7. "fe80" \notin Prefixes => neighbors'[0] = neighbors[0]
    BY <2>1, <2>2, OwnRowType
  <2>8. CacheInv(neighbors')
    BY <1>2, <2>5, <2>6, <2>7, CacheStepInv
  <2> QED BY <2>1, <2>8 DEF IInv, ClockOK
<1> QED BY <1>3, <1>4

(* The prefix option that is used.                                         *)
LEMMA UsedInfoType ==
  ASSUME NEW infos \in PrefixInfos, HasPrefix(infos)
  PROVE  UsedInfo(infos).prefix \in Prefixes /\ UsedInfo(infos).valid \in Nat
<1>1. infos \in Seq(PrefixInfo)
  BY InputsAssumption
<1>2. DOMAIN infos = 1 .. Len(infos) /\ Len(infos) \in Nat
  BY <1>1
<1>3. Len(infos) \in 1 .. Len(infos)
  BY <1>2 DEF HasPrefix
<1>4. infos[Len(infos)] \in PrefixInfo
  BY <1>1, <1>3
<1> QED BY <1>4 DEF UsedInfo, PrefixInfo

(* The on-link route of a prefix option.                                   *)
LEMMA PrefixRoutesInv ==
  ASSUME IInv, NEW o, o.prefix \in Prefixes, o.valid \in Nat, NEW mem
  PROVE  RouteInv(PrefixRoutes(o, mem))
<1>1. Advertised(o.prefix) /\ WellRouted(o.prefix, in6addr_any)
  BY AddressesAssumption DEF WellRouted, Dests, DefaultDest, Advertised
<1>2. RouteInv(routes) /\ Date(o.valid) \in Dates
  BY HandlerDates DEF IInv
<1>3. RouteInv(RemoveRoute(routes, o.prefix, in6addr_any))
  BY <1>1, <1>2, RemoveRouteInv
<1> DEFINE granted == "onlink" \in mem
<1> HIDE DEF granted
<1>4. RouteInv(AddRoute(routes, o.prefix, in6addr_any, Date(o.valid), granted))
  BY <1>1, <1>2, AddRouteInv
<1> QED BY <1>3, <1>4 DEF PrefixRoutes, granted

(* The default route of an advertisement.                                  *)
LEMMA DefaultRouteInv ==
  ASSUME IInv, NEW rts, RouteInv(rts), NEW f \in RaIn, NEW mem
  PROVE  RouteInv(DefaultRoute(rts, f, mem))
<1>1. Advertised(DefaultDest) /\ WellRouted(DefaultDest, f.src)
  BY DEF WellRouted, Dests, DefaultDest, RaIn, Advertised
<1>2. Date(f.lifetime) \in Dates
  <2>1. RouterLifetimes \subseteq Nat
    BY InputsAssumption
  <2>2. f.lifetime \in RouterLifetimes
    BY DEF RaIn
  <2> QED BY <2>1, <2>2, HandlerDates
<1>3. RouteInv(RemoveRoute(rts, DefaultDest, f.src))
  BY <1>1, RemoveRouteInv
<1> DEFINE granted == "default" \in mem
<1> HIDE DEF granted
<1>4. RouteInv(AddRoute(rts, DefaultDest, f.src, Date(f.lifetime), granted))
  BY <1>1, <1>2, AddRouteInv
<1> QED BY <1>3, <1>4 DEF DefaultRoute, granted

(* The address formed in a prefix.  It is the node's own, and not its      *)
(* link-local one, as long as no router advertises the link-local prefix.  *)
LEMMA OwnInIs ==
  ASSUME IInv, NEW o, o.prefix \in Prefixes
  PROVE  /\ FormedIn(OwnIn(o))
         /\ "fe80" \notin Prefixes => OwnIn(o) = <<o.prefix, Me>> /\ OwnIn(o) # OwnLinkLocal
<1> DEFINE h == IF neighbors[0] = NoRow THEN NullLla ELSE neighbors[0].lla
<1>1. OwnIn(o) = <<o.prefix, h>>
  BY DEF OwnIn
<1>2. h \in Llas
  BY CacheFacts, AddressesAssumption DEF IInv, NeighborRow
<1>3. "fe80" \notin Prefixes => h = Me
  BY CacheFacts, OwnRowType DEF IInv
<1> HIDE DEF h
<1>4. h \in OwnHosts
  BY <1>2, <1>3 DEF OwnHosts
<1>5. "fe80" \notin Prefixes => OwnIn(o) # OwnLinkLocal
  BY <1>1 DEF OwnLinkLocal
<1> QED BY <1>1, <1>3, <1>4, <1>5 DEF FormedIn

(* A router advertisement, with and without a usable prefix option.        *)
LEMMA RouterInv ==
  ASSUME IInv, NEW f \in RaIn, NEW mem, process_router_adv(f, mem)
  PROVE  IInv'
<1>1. CASE ~HasPrefix(f.infos)
  BY <1>1, DefaultRouteInv DEF process_router_adv, RouterAdvWithoutPrefix, IInv, ClockOK
<1>2. CASE HasPrefix(f.infos)
  <2> DEFINE o == UsedInfo(f.infos)
             own == OwnIn(o)
  <2>1. o.prefix \in Prefixes /\ o.valid \in Nat
    BY <1>2, UsedInfoType DEF RaIn
  <2>2. FormedIn(own) /\ ("fe80" \notin Prefixes => own # OwnLinkLocal)
    BY <2>1, OwnInIs
  <2>3. /\ routes' = DefaultRoute(PrefixRoutes(o, mem), f, mem)
        /\ addrs' = PrefixAddrs(o, mem)
        /\ neighbors' = IF Probes(o, mem) THEN MarkSollicited(neighbors, own) ELSE neighbors
        /\ UNCHANGED current_time
    BY <1>2 DEF process_router_adv, RouterAdvWithPrefix
  <2>4. RouteInv(routes')
    BY <2>1, <2>3, PrefixRoutesInv, DefaultRouteInv
  <2>5. AddrInv(addrs')
    <3>1. CASE o.valid = 0
      BY <2>3, <3>1, RemoveAddressSwapped DEF PrefixAddrs, IInv
    <3>2. CASE o.valid # 0
      <4> DEFINE date == Date(o.valid)
      <4>1. addrs' = AddAddress(addrs, neighbors, own, 64, date, GLOBAL, mem)
        BY <2>3, <3>2 DEF PrefixAddrs
      <4>2. date \in Dates /\ AddrInv(addrs)
        BY <2>1, HandlerDates DEF IInv
      <4> HIDE DEF own, date
      <4> QED BY <2>2, <4>1, <4>2, AddAddressInv
    <3> QED BY <3>1, <3>2
  <2>6. CacheInv(neighbors')
    <3>1. CacheInv(neighbors)
      BY DEF IInv
    <3>2. CacheInv(MarkSollicited(neighbors, own))
      BY <2>2, <3>1, MarkSollicitedInv
    <3> QED BY <2>3, <3>1, <3>2
  <2> QED BY <2>3, <2>4, <2>5, <2>6 DEF IInv, ClockOK
<1> QED BY <1>1, <1>2

(* Housekeeping solicits neighbours and removes rows; the node's own row   *)
(* is neither due nor lapsed, unless it was given a date.                  *)
LEMMA HousekeepInv ==
  ASSUME IInv, NEW t, NEW granted, esix_ip_housekeep(t, granted)
  PROVE  AddrInv(addrs') /\ RouteInv(routes') /\ CacheInv(neighbors')
<1> DEFINE due == {i \in NeighborSlots : Due(neighbors[i], t)} \cap granted
<1>1. AddrInv(addrs') /\ RouteInv(routes')
  BY KeptAddrsInv, KeptRoutesInv DEF esix_ip_housekeep, IInv
<1>2. /\ neighbors \in CacheTable /\ DOMAIN neighbors = NeighborSlots
      /\ 0 \in NeighborSlots /\ ("fe80" \notin Prefixes => neighbors[0] = OwnRow)
      /\ \A i \in NeighborSlots : neighbors[i] # NoRow => neighbors[i] \in NeighborRow
  BY CacheFacts DEF IInv
<1>3. /\ "fe80" \notin Prefixes => 0 \notin due
      /\ \A i \in due : i \in NeighborSlots /\ neighbors[i] # NoRow
  BY <1>2, OwnRowType DEF Due
<1>4. \A row \in NeighborRow : Marked(row) \in NeighborRow /\ Marked(row).addr = row.addr
  BY MarkedType DEF Marked
<1> HIDE DEF due
<1>5. ASSUME NEW u \in CacheTable, CacheInv(u)
      PROVE  CacheInv(Kept(u, t))
  <2>1. /\ DOMAIN u = NeighborSlots /\ 0 \in NeighborSlots
        /\ "fe80" \notin Prefixes => u[0] = OwnRow
        /\ Kept(u, t) \in CacheTable
        /\ \A i \in NeighborSlots : Kept(u, t)[i] = NoRow \/ Kept(u, t)[i] = u[i]
    BY <1>5, CacheFacts DEF Kept, CacheTable
  <2>2. "fe80" \notin Prefixes => Kept(u, t)[0] = u[0]
    BY <2>1, OwnRowType DEF Kept, Lapsed
  <2>3. \A i \in NeighborSlots :
          Kept(u, t)[i] = NoRow \/ (u[i] # NoRow /\ Kept(u, t)[i].addr = u[i].addr)
    BY <2>1
  <2> QED BY <1>5, <2>1, <2>2, <2>3, CacheStepInv
<1>6. CacheInv(Solicits(due)) /\ Solicits(due) \in CacheTable
  <2>1. Solicits(due) = [i \in NeighborSlots |->
                           IF i \in due THEN Marked(neighbors[i]) ELSE neighbors[i]]
    BY DEF Solicits
  <2>2. Solicits(due) \in CacheTable
    BY <1>2, <1>3, <1>4, <2>1 DEF CacheTable
  <2>3. "fe80" \notin Prefixes => Solicits(due)[0] = neighbors[0]
    BY <1>2, <1>3, <2>1
  <2>4. \A i \in NeighborSlots :
          Solicits(due)[i] = NoRow
            \/ (neighbors[i] # NoRow /\ Solicits(due)[i].addr = neighbors[i].addr)
    BY <1>2, <1>3, <1>4, <2>1
  <2> QED BY <2>2, <2>3, <2>4, CacheStepInv DEF IInv
<1>7. neighbors' = Kept(neighbors, t) \/ neighbors' = Kept(Solicits(due), t)
  BY DEF esix_ip_housekeep, due
<1>8. CacheInv(neighbors')
  BY <1>2, <1>5, <1>6, <1>7 DEF IInv
<1> QED BY <1>1, <1>8

(* A tick, with or without housekeeping.                                   *)
LEMMA TickInv ==
  ASSUME IInv, NEW granted, esix_periodic_callback(granted)
  PROVE  IInv'
<1>1. ClockOK'
  BY DatesAssumption DEF IInv, ClockOK, esix_periodic_callback
<1>2. AddrInv(addrs') /\ RouteInv(routes') /\ CacheInv(neighbors')
  BY HousekeepInv DEF IInv, esix_periodic_callback
<1> QED BY <1>1, <1>2 DEF IInv

(* Steps that only send.                                                   *)
LEMMA SendingInv ==
  ASSUME IInv, UNCHANGED <<addrs, routes, neighbors, current_time>>
  PROVE  IInv'
BY DEF IInv, ClockOK

(* Every step preserves the three invariants.                              *)
LEMMA StepInv ==
  ASSUME IInv, [Next]_vars
  PROVE  IInv'
<1>1. CASE UNCHANGED vars
  BY <1>1, SendingInv DEF vars
<1>2. ASSUME NEW f \in NsIn, NEW mem \in Mems(NeighborAllocs), process_neighbor_sol(f, mem)
      PROVE  IInv'
  BY <1>2, SolicitationInv
<1>3. ASSUME NEW f \in NaIn, NEW mem \in Mems({"neighbor"}), process_neighbor_adv(f, mem)
      PROVE  IInv'
  BY <1>3, AdvertisementInv
<1>4. ASSUME NEW f \in RaIn, NEW mem \in Mems(RouterAllocs), process_router_adv(f, mem)
      PROVE  IInv'
  BY <1>4, RouterInv
<1>5. ASSUME NEW f \in PacketIn,
             process_echo_req(f) \/ send_unreachable(f) \/ send_ttl_expired(f)
      PROVE  IInv'
  BY <1>5, SendingInv DEF process_echo_req, send_unreachable, send_ttl_expired, Answer
<1>6. ASSUME NEW f \in MldIn, process_mld_query(f)
      PROVE  IInv'
  BY <1>6, SendingInv DEF process_mld_query
<1>7. ASSUME NEW src \in OwnUnicast, NEW dst \in Remotes, UpperSend(src, dst)
      PROVE  IInv'
  BY <1>7, SendingInv DEF UpperSend
<1>8. ASSUME NEW granted \in Grants, esix_periodic_callback(granted)
      PROVE  IInv'
  BY <1>8, TickInv
<1> QED BY <1>1, <1>2, <1>3, <1>4, <1>5, <1>6, <1>7, <1>8 DEF Next

(* The invariants hold whatever arrives, in any order.                     *)
LEMMA Invariance == Spec => []IInv
<1>1. Init => IInv
  BY InitInv
<1>2. IInv /\ [Next]_vars => IInv'
  BY StepInv
<1> QED BY <1>1, <1>2, PTL DEF Spec

-----------------------------------------------------------------------------
(* What is sent is well formed.                                            *)

(* A packet has a kind and three addresses.                                *)
LEMMA PktType ==
  ASSUME NEW kind \in Kinds, NEW src \in Ip6Addr, NEW dst \in Ip6Addr, NEW target \in Ip6Addr
  PROVE  Pkt(kind, src, dst, target) \in Packet
BY DEF Pkt, Packet

(* A next hop is an address.                                               *)
LEMMA HopsType ==
  ASSUME NEW rts \in RouteTable, NEW a \in Ip6Addr
  PROVE  Hops(rts, a) \subseteq Ip6Addr
<1>1. \A i \in Route(rts, a) : i \in RouteSlots /\ rts[i] # NoRow
  BY DEF Route, Lowest, RouteTable
<1>2. \A i \in RouteSlots : rts[i] # NoRow => rts[i].next_hop \in Ip6Addr
  BY DEF RouteTable, RouteRow
<1> QED BY <1>1, <1>2 DEF Hops, NextHop

(* A packet that leaves has a link-layer destination.                      *)
LEMMA EmittedType ==
  ASSUME NEW as, NEW rts \in RouteTable, NEW nbs \in CacheTable, NEW pkt \in Packet,
         NEW tb, tb = Tables(as, rts, nbs)
  PROVE  Emitted(tb, pkt) \subseteq Packet
<1>1. tb.routes = rts /\ tb.neighbors = nbs
  BY DEF Tables
<1>2. \A to \in Llas \cup {GroupLla} : [pkt EXCEPT !.to = to] \in Packet
  BY DEF Packet
<1>3. \A a : \A j \in NeighborIndex(nbs, a) : nbs[j].lla \in Llas
  <2>1. \A j \in NeighborSlots : nbs[j] # NoRow => nbs[j].lla \in Llas
    BY DEF CacheTable, NeighborRow
  <2> QED BY <2>1 DEF NeighborIndex, Lowest, CacheTable
<1> QED BY <1>1, <1>2, <1>3 DEF Emitted

(* A packet, or the solicitation sent in its place.                        *)
LEMMA IpSendIs ==
  ASSUME NEW tb, NEW pkt, NEW p, p \in esix_ip_send(tb, pkt)
  PROVE  \/ p \in Emitted(tb, pkt)
         \/ \E i \in TypeAddress(tb.addrs, LINK_LOCAL), h \in Unresolved(tb, pkt.dst) :
              p \in Emitted(tb, Pkt("NS", tb.addrs[i].addr, Solicited(h), h))
BY SMT DEF esix_ip_send

(* esix_ip_send hands over packets only.                                   *)
LEMMA IpSendType ==
  ASSUME NEW as \in AddrTable, NEW rts \in RouteTable, NEW nbs \in CacheTable,
         NEW pkt \in Packet, NEW tb, tb = Tables(as, rts, nbs)
  PROVE  esix_ip_send(tb, pkt) \subseteq Packet
<1>1. tb.routes = rts /\ tb.addrs = as
  BY DEF Tables
<1>2. Emitted(tb, pkt) \subseteq Packet
  BY EmittedType
<1>3. \A h \in Unresolved(tb, pkt.dst) : h \in Ip6Addr
  BY <1>1, HopsType DEF Unresolved, Packet
<1>4. \A i \in TypeAddress(as, LINK_LOCAL) : as[i].addr \in Ip6Addr
  BY DEF TypeAddress, Lowest, AddrTable, AddrRow
<1>5. ASSUME NEW i \in TypeAddress(as, LINK_LOCAL), NEW h \in Unresolved(tb, pkt.dst)
      PROVE  Emitted(tb, Pkt("NS", as[i].addr, Solicited(h), h)) \subseteq Packet
  <2>1. Pkt("NS", as[i].addr, Solicited(h), h) \in Packet
    BY <1>3, <1>4, PktType, AddressTypes DEF Kinds
  <2> QED BY <2>1, EmittedType
<1>6. ASSUME NEW p \in esix_ip_send(tb, pkt)
      PROVE  p \in Packet
  <2>1. \/ p \in Emitted(tb, pkt)
        \/ \E i \in TypeAddress(tb.addrs, LINK_LOCAL), h \in Unresolved(tb, pkt.dst) :
             p \in Emitted(tb, Pkt("NS", tb.addrs[i].addr, Solicited(h), h))
    BY <1>6, IpSendIs
  <2> QED BY <1>1, <1>2, <1>5, <2>1
<1> QED BY <1>6

(* esix_icmp_send chooses a source among the node's addresses.             *)
LEMMA IcmpSendType ==
  ASSUME NEW as \in AddrTable, NEW rts \in RouteTable, NEW nbs \in CacheTable,
         NEW pkt \in Packet, NEW tb, tb = Tables(as, rts, nbs)
  PROVE  esix_icmp_send(tb, pkt) \subseteq Packet
<1>1. \A type : \A i \in TypeAddress(as, type) : as[i].addr \in Ip6Addr
  BY DEF TypeAddress, Lowest, AddrTable, AddrRow
<1>2. SourceAddr(as, pkt.src, pkt.dst) \subseteq Ip6Addr
  BY <1>1 DEF SourceAddr, Packet
<1>3. ASSUME NEW s \in SourceAddr(as, pkt.src, pkt.dst)
      PROVE  esix_ip_send(tb, [pkt EXCEPT !.src = s]) \subseteq Packet
  <2>1. [pkt EXCEPT !.src = s] \in Packet
    BY <1>2 DEF Packet
  <2> QED BY <2>1, IpSendType
<1>4. tb.addrs = as
  BY DEF Tables
<1> QED BY <1>3, <1>4 DEF esix_icmp_send

(* A solicitation, to the neighbour or to its group.                       *)
LEMMA NeighborSolType ==
  ASSUME NEW as \in AddrTable, NEW rts \in RouteTable, NEW nbs \in CacheTable,
         NEW src \in Ip6Addr, NEW target \in Ip6Addr, NEW tb, tb = Tables(as, rts, nbs)
  PROVE  esix_icmp_send_neighbor_sol(tb, src, target) \subseteq Packet
<1> DEFINE dst == IF NeighborIndex(tb.neighbors, target) # {} THEN target ELSE Solicited(target)
<1>1. dst \in Ip6Addr
  BY AddressTypes
<1>2. Pkt("NS", src, dst, target) \in Packet
  BY <1>1, PktType DEF Kinds
<1>3. esix_icmp_send_neighbor_sol(tb, src, target) = esix_icmp_send(tb, Pkt("NS", src, dst, target))
  BY DEF esix_icmp_send_neighbor_sol
<1> HIDE DEF dst
<1> QED BY <1>2, <1>3, IcmpSendType

(* The tables of a step are tables.                                        *)
LEMMA TablesTyped ==
  /\ IInv => addrs \in AddrTable /\ routes \in RouteTable /\ neighbors \in CacheTable
  /\ IInv' => addrs' \in AddrTable /\ routes' \in RouteTable /\ neighbors' \in CacheTable
BY DEF IInv, AddrInv, RouteInv, CacheInv

(* The cache at each point of the loop of esix_ip_housekeep is a cache.    *)
LEMMA CacheAtType ==
  ASSUME IInv, NEW i \in NeighborSlots, NEW due, NEW t, due \subseteq {j \in NeighborSlots : neighbors[j] # NoRow}
  PROVE  CacheAt(i, due, t) \in CacheTable
<1>1. neighbors \in CacheTable
  BY TablesTyped
<1>2. \A row \in NeighborRow : Marked(row) \in NeighborRow
  BY MarkedType DEF Marked
<1>3. Solicits(due) \in CacheTable
  BY <1>1, <1>2 DEF Solicits, CacheTable
<1>4. Kept(Solicits(due), t) \in CacheTable
  BY <1>3 DEF Kept, CacheTable
<1>5. ASSUME NEW j \in NeighborSlots
      PROVE  CacheAt(i, due, t)[j] \in NeighborRow \cup {NoRow}
  <2>1. Kept(Solicits(due), t)[j] \in NeighborRow \cup {NoRow}
        /\ Solicits(due)[j] \in NeighborRow \cup {NoRow}
        /\ neighbors[j] \in NeighborRow \cup {NoRow}
    BY <1>1, <1>3, <1>4 DEF CacheTable
  <2>2. j < i \/ j = i \/ j > i
    BY SlotsAreNat
  <2>3. CacheAt(i, due, t)[j] \in {Kept(Solicits(due), t)[j], Solicits(due)[j], neighbors[j]}
    BY <2>2 DEF CacheAt
  <2> QED BY <2>1, <2>3
<1> QED BY <1>5 DEF CacheAt, CacheTable

(* Housekeeping sends solicitations only, one per due row.                 *)
LEMMA HousekeepWire ==
  ASSUME IInv, IInv', NEW t, NEW granted, esix_ip_housekeep(t, granted)
  PROVE  wire' \subseteq Packet
<1> DEFINE due == {i \in NeighborSlots : Due(neighbors[i], t)} \cap granted
<1>1. due \subseteq {j \in NeighborSlots : neighbors[j] # NoRow}
  BY DEF Due
<1>2. ASSUME NEW p \in wire'
      PROVE  \E i \in due, a \in TypeAddress(addrs', LINK_LOCAL) :
               p \in esix_icmp_send_neighbor_sol(Tables(addrs', routes', CacheAt(i, due, t)),
                                                 addrs'[a].addr, neighbors[i].addr)
  BY SMT, <1>2 DEF esix_ip_housekeep
<1> HIDE DEF due
<1>3. ASSUME NEW i \in due, NEW a \in TypeAddress(addrs', LINK_LOCAL)
      PROVE  esix_icmp_send_neighbor_sol(Tables(addrs', routes', CacheAt(i, due, t)),
                                         addrs'[a].addr, neighbors[i].addr) \subseteq Packet
  <2>1. addrs'[a].addr \in Ip6Addr
    BY TablesTyped DEF TypeAddress, Lowest, AddrTable, AddrRow
  <2>2. neighbors[i].addr \in Ip6Addr /\ i \in NeighborSlots
    BY <1>1, TablesTyped DEF CacheTable, NeighborRow
  <2>3. CacheAt(i, due, t) \in CacheTable
    BY <1>1, <2>2, CacheAtType
  <2>4. addrs' \in AddrTable /\ routes' \in RouteTable
    BY TablesTyped
  <2> QED BY <2>1, <2>2, <2>3, <2>4, NeighborSolType
<1> QED BY <1>2, <1>3

(* What each handler sends.                                                *)
LEMMA WireStep ==
  ASSUME IInv, IInv', wire \subseteq Packet, [Next]_vars
  PROVE  wire' \subseteq Packet
<1>1. CASE UNCHANGED vars
  BY <1>1 DEF vars
<1>2. ASSUME NEW f \in NsIn, NEW mem \in Mems(NeighborAllocs), process_neighbor_sol(f, mem)
      PROVE  wire' \subseteq Packet
  <2>1. addrs \in AddrTable /\ routes \in RouteTable /\ neighbors' \in CacheTable
    BY TablesTyped
  <2>2. f.target \in Ip6Addr /\ f.src \in Ip6Addr
    BY RemoteTypes, AddressTypes DEF NsIn
  <2>3. NeighborAdv(f.target, f.src) \in Packet
    BY <2>2, PktType DEF NeighborAdv, Kinds
  <2>4. \/ wire' = {}
        \/ wire' = esix_icmp_send(Tables(addrs, routes, neighbors'), NeighborAdv(f.target, f.src))
    BY <1>2 DEF process_neighbor_sol
  <2> QED BY <2>1, <2>3, <2>4, IcmpSendType
<1>3. ASSUME NEW f \in NaIn, NEW mem \in Mems({"neighbor"}), process_neighbor_adv(f, mem)
      PROVE  wire' \subseteq Packet
  BY <1>3 DEF process_neighbor_adv
<1>4. ASSUME NEW f \in RaIn, NEW mem \in Mems(RouterAllocs), process_router_adv(f, mem)
      PROVE  wire' \subseteq Packet
  <2> DEFINE own == OwnIn(UsedInfo(f.infos))
  <2>1. CASE ~HasPrefix(f.infos)
    BY <1>4, <2>1 DEF process_router_adv, RouterAdvWithoutPrefix
  <2>2. CASE HasPrefix(f.infos)
    <3>1. own \in Ip6Addr
      <4>1. UsedInfo(f.infos).prefix \in Prefixes
        BY <2>2, UsedInfoType DEF RaIn
      <4> QED BY <4>1, OwnInIs, AddressTypes
    <3>2. \/ wire' = {}
          \/ wire' = esix_icmp_send_neighbor_sol(Tables(addrs, routes, neighbors'), in6addr_any, own)
      BY <1>4, <2>2 DEF process_router_adv, RouterAdvWithPrefix
    <3>3. addrs \in AddrTable /\ routes \in RouteTable /\ neighbors' \in CacheTable
      BY TablesTyped
    <3> HIDE DEF own
    <3> QED BY <3>1, <3>2, <3>3, NeighborSolType, AddressTypes
  <2> QED BY <2>1, <2>2
<1>5. ASSUME NEW f \in PacketIn, NEW kind \in Kinds, Answer(kind, f)
      PROVE  wire' \subseteq Packet
  <2>1. f.dst \in Ip6Addr /\ f.src \in Ip6Addr
    BY RemoteTypes, AddressTypes DEF PacketIn
  <2>2. Pkt(kind, f.dst, f.src, in6addr_any) \in Packet
    BY <2>1, PktType, AddressTypes
  <2> QED BY <1>5, <2>2, TablesTyped, IcmpSendType DEF Answer
<1>6. ASSUME NEW f \in PacketIn,
             process_echo_req(f) \/ send_unreachable(f) \/ send_ttl_expired(f)
      PROVE  wire' \subseteq Packet
  <2>1. Answer("ECHO_RP", f) \/ Answer("DST_UNR", f) \/ Answer("TTL_EXP", f)
    BY <1>6 DEF process_echo_req, send_unreachable, send_ttl_expired
  <2> QED BY <1>5, <2>1 DEF Kinds
<1>7. ASSUME NEW f \in MldIn, process_mld_query(f)
      PROVE  wire' \subseteq Packet
  <2>1. PICK a \in TypeAddress(addrs, LINK_LOCAL) :
          wire' = esix_icmp_send(Tables(addrs, routes, neighbors),
                                 MldReport(addrs[a].addr, addrs[a].addr))
    BY <1>7 DEF process_mld_query
  <2>2. addrs[a].addr \in Ip6Addr
    BY <2>1, TablesTyped DEF TypeAddress, Lowest, AddrTable, AddrRow
  <2>3. MldReport(addrs[a].addr, addrs[a].addr) \in Packet
    BY <2>2, PktType DEF MldReport, Kinds
  <2> QED BY <2>1, <2>3, TablesTyped, IcmpSendType
<1>8. ASSUME NEW src \in OwnUnicast, NEW dst \in Remotes, UpperSend(src, dst)
      PROVE  wire' \subseteq Packet
  <2>1. Pkt("UPPER", src, dst, in6addr_any) \in Packet
    BY RemoteTypes, AddressTypes, PktType DEF Kinds
  <2> QED BY <1>8, <2>1, TablesTyped, IpSendType DEF UpperSend
<1>9. ASSUME NEW granted \in Grants, esix_periodic_callback(granted)
      PROVE  wire' \subseteq Packet
  BY <1>9, HousekeepWire DEF esix_periodic_callback
<1> QED BY <1>1, <1>2, <1>3, <1>4, <1>6, <1>7, <1>8, <1>9 DEF Next

(* What esix_init sends.                                                   *)
LEMMA InitWire ==
  ASSUME Init
  PROVE  wire \subseteq Packet
<1>1. /\ Pkt("NS", in6addr_any, Solicited(OwnLinkLocal), OwnLinkLocal) \in Packet
      /\ MldReport(OwnLinkLocal, Solicited(OwnLinkLocal)) \in Packet
      /\ RouterSol \in Packet
  BY AddressTypes, PktType DEF MldReport, RouterSol, Kinds
<1> QED BY <1>1 DEF Init

-----------------------------------------------------------------------------
(* The theorems.                                                           *)

(* Type correctness: the rows of the tables, the clock, and every packet   *)
(* handed to the driver.                                                   *)
THEOREM TypeCorrect == Spec => []TypeOK
<1>1. Init => IInv /\ wire \subseteq Packet
  BY InitInv, InitWire
<1>2. IInv /\ wire \subseteq Packet /\ [Next]_vars => (IInv /\ wire \subseteq Packet)'
  BY StepInv, WireStep
<1>3. IInv /\ wire \subseteq Packet => TypeOK
  BY DEF IInv, AddrInv, RouteInv, CacheInv, ClockOK, AddrTable, RouteTable, CacheTable, TypeOK
<1> QED BY <1>1, <1>2, <1>3, PTL DEF Spec

(* No sequence of frames and ticks makes a table hold two rows for one     *)
(* key, although addresses, routes and neighbours are added by handlers    *)
(* that each look up differently and slots are reused.                     *)
THEOREM KeysStayDistinct == Spec => []KeysDistinct
<1>1. IInv => KeysDistinct
  BY DEF IInv, AddrInv, RouteInv, CacheInv, HasKey, IsRoute, KeysDistinct
<1> QED BY <1>1, Invariance, PTL

(* No router advertisement, the ones for the link-local prefix included,   *)
(* no neighbour and no tick removes or changes the node's link-local       *)
(* address, its groups or its multicast route.  The link-local route and   *)
(* the node's own row in the cache stay too as long as no router           *)
(* advertises that prefix, and not otherwise.                              *)
THEOREM InitialRowsStay == Spec => []PermanentRows
<1>1. IInv => PermanentRows
  BY DEF IInv, AddrInv, RouteInv, CacheInv, PermanentRows, PermanentRoutes
<1> QED BY <1>1, Invariance, PTL

(* A prefix option changes no route through a router: its routes have no   *)
(* next hop.                                                               *)
LEMMA PrefixRoutesElsewhere ==
  ASSUME IInv, NEW o, o.prefix \in Prefixes, o.valid \in Nat, NEW mem, NEW i \in RouteSlots,
         routes[i] # NoRow, routes[i].next_hop \in Routers
  PROVE  PrefixRoutes(o, mem)[i] = routes[i]
<1>1. RouteInv(routes) /\ routes \in RouteTable /\ Date(o.valid) \in Dates
  BY HandlerDates DEF IInv, RouteInv
<1>2. ~IsRoute(routes[i], o.prefix, in6addr_any)
  BY RemoteTypes DEF IsRoute
<1>3. Advertised(o.prefix) /\ o.prefix \in Dests /\ in6addr_any \in Ip6Addr
  BY AddressTypes DEF Dests, Advertised
<1>4. RemoveRoute(routes, o.prefix, in6addr_any)[i] = routes[i]
  BY <1>1, <1>2, <1>3, RemoveRouteInv
<1> DEFINE granted == "onlink" \in mem
           known == RouteIndex(routes, o.prefix, in6addr_any)
           u == AddRoute(routes, o.prefix, in6addr_any, Date(o.valid), granted)
<1>5. known = RouteIndex(routes, o.prefix, in6addr_any)
      /\ u = AddRoute(routes, o.prefix, in6addr_any, Date(o.valid), granted)
      /\ PrefixRoutes(o, mem) = IF o.valid = 0 THEN RemoveRoute(routes, o.prefix, in6addr_any) ELSE u
  BY DEF PrefixRoutes
<1> HIDE DEF granted, known, u
<1>6. i \notin known
  BY <1>1, <1>2, <1>5, RouteIndexIs
<1>7. u[i] = routes[i]
  BY <1>1, <1>3, <1>5, <1>6, AddRouteIs
<1> QED BY <1>4, <1>5, <1>7

(* The default route of a router changes no route through another one.     *)
LEMMA DefaultRouteElsewhere ==
  ASSUME IInv, NEW rts, RouteInv(rts), NEW f \in RaIn, NEW mem, NEW i \in RouteSlots,
         rts[i] # NoRow, rts[i].next_hop # f.src
  PROVE  DefaultRoute(rts, f, mem)[i] = rts[i]
<1>1. rts \in RouteTable /\ f.src \in Routers /\ f.src \in Ip6Addr /\ DefaultDest \in Dests
  BY RemoteTypes DEF RouteInv, RaIn, Dests
<1>2. ~IsRoute(rts[i], DefaultDest, f.src)
  BY DEF IsRoute
<1>3. Advertised(DefaultDest) /\ Date(f.lifetime) \in Dates
  <2>1. RouterLifetimes \subseteq Nat
    BY InputsAssumption
  <2>2. f.lifetime \in RouterLifetimes
    BY DEF RaIn
  <2> QED BY <2>1, <2>2, HandlerDates DEF Advertised
<1>4. RemoveRoute(rts, DefaultDest, f.src)[i] = rts[i]
  BY <1>2, <1>3, RemoveRouteInv
<1> DEFINE granted == "default" \in mem
           known == RouteIndex(rts, DefaultDest, f.src)
           u == AddRoute(rts, DefaultDest, f.src, Date(f.lifetime), granted)
<1>5. known = RouteIndex(rts, DefaultDest, f.src)
      /\ u = AddRoute(rts, DefaultDest, f.src, Date(f.lifetime), granted)
      /\ DefaultRoute(rts, f, mem) = IF f.lifetime = 0 THEN RemoveRoute(rts, DefaultDest, f.src) ELSE u
  BY DEF DefaultRoute
<1> HIDE DEF granted, known, u
<1>6. i \notin known
  BY <1>1, <1>2, <1>5, RouteIndexIs
<1>7. u[i] = rts[i]
  BY <1>1, <1>3, <1>5, <1>6, AddRouteIs
<1> QED BY <1>4, <1>5, <1>7

(* A router that withdraws as a default router has no route left: the only *)
(* routes through routers are default routes.                              *)
LEMMA DefaultRouteGone ==
  ASSUME NEW rts, RouteInv(rts), NEW f \in RaIn, f.lifetime = 0, NEW mem, NEW i \in RouteSlots,
         DefaultRoute(rts, f, mem)[i] # NoRow
  PROVE  DefaultRoute(rts, f, mem)[i].next_hop # f.src
<1>1. f.src \in Routers /\ in6addr_any \notin Routers
  BY RemoteTypes DEF RaIn
<1> DEFINE u == RemoveRoute(rts, DefaultDest, f.src)
<1>2. u = RemoveRoute(rts, DefaultDest, f.src) /\ DefaultRoute(rts, f, mem) = u
  BY DEF DefaultRoute
<1> HIDE DEF u
<1>3. u[i] = IF rts[i] # NoRow /\ IsRoute(rts[i], DefaultDest, f.src) THEN NoRow ELSE rts[i]
  BY <1>2, RemoveRouteInv DEF Advertised
<1>4. rts[i] # NoRow => WellRouted(rts[i].addr, rts[i].next_hop)
  BY DEF RouteInv
<1> QED BY <1>1, <1>2, <1>3, <1>4 DEF WellRouted, IsRoute

(* An advertisement touches no route through another router, and one with  *)
(* lifetime 0 leaves no route through its sender.                          *)
LEMMA AdvertisementIsolated ==
  ASSUME IInv, NEW f \in RaIn, NEW mem \in Mems(RouterAllocs), process_router_adv(f, mem),
         NEW i \in RouteSlots
  PROVE  /\ routes[i] # NoRow /\ routes[i].next_hop \in Routers \ {f.src} => routes'[i] = routes[i]
         /\ f.lifetime = 0 /\ routes'[i] # NoRow => routes'[i].next_hop # f.src
<1>1. f.src \in Routers /\ in6addr_any \notin Routers /\ f.lifetime \in RouterLifetimes
  BY RemoteTypes DEF RaIn
<1>2. PICK rts : /\ routes' = DefaultRoute(rts, f, mem)
                 /\ RouteInv(rts)
                 /\ routes[i] # NoRow /\ routes[i].next_hop \in Routers => rts[i] = routes[i]
  <2>1. CASE ~HasPrefix(f.infos)
    BY <2>1 DEF process_router_adv, RouterAdvWithoutPrefix, IInv
  <2>2. CASE HasPrefix(f.infos)
    <3> DEFINE o == UsedInfo(f.infos)
    <3>1. o.prefix \in Prefixes /\ o.valid \in Nat
      BY <2>2, UsedInfoType DEF RaIn
    <3>2. routes' = DefaultRoute(PrefixRoutes(o, mem), f, mem)
      BY <2>2 DEF process_router_adv, RouterAdvWithPrefix
    <3> HIDE DEF o
    <3>3. RouteInv(PrefixRoutes(o, mem))
      BY <3>1, PrefixRoutesInv
    <3>4. routes[i] # NoRow /\ routes[i].next_hop \in Routers => PrefixRoutes(o, mem)[i] = routes[i]
      BY <3>1, <1>1, PrefixRoutesElsewhere
    <3> QED BY <3>2, <3>3, <3>4
  <2> QED BY <2>1, <2>2
<1>3. routes[i] # NoRow /\ routes[i].next_hop \in Routers \ {f.src} => routes'[i] = routes[i]
  BY <1>2, DefaultRouteElsewhere
<1>4. f.lifetime = 0 /\ routes'[i] # NoRow => routes'[i].next_hop # f.src
  BY <1>1, <1>2, DefaultRouteGone
<1> QED BY <1>3, <1>4

(* No advertisement changes a route through another router, and one with   *)
(* lifetime 0 leaves no route through its sender (process_router_adv).     *)
THEOREM RoutersDoNotInterfere == Spec => RoutersIsolated
<1>1. IInv /\ [Next]_vars
      => [routes' # routes /\ current_time' = current_time =>
            \A f \in RaIn, mem \in Mems(RouterAllocs) :
              process_router_adv(f, mem) =>
                \A i \in RouteSlots :
                  /\ routes[i] # NoRow /\ routes[i].next_hop \in Routers \ {f.src}
                     => routes'[i] = routes[i]
                  /\ f.lifetime = 0 /\ routes'[i] # NoRow => routes'[i].next_hop # f.src]_vars
  BY AdvertisementIsolated
<1> QED BY <1>1, Invariance, PTL DEF Spec, RoutersIsolated

-----------------------------------------------------------------------------
(* Addresses and on-link routes of a prefix.                               *)

(* A row that can expire has the new date or keeps its own; one that       *)
(* cannot stays.                                                           *)
LEMMA RefreshedDate ==
  ASSUME NEW date \in Dates
  PROVE  \A row \in AddrRow \cup RouteRow : Refreshed(row, date).exp \in {0, date}
BY DEF Refreshed, AddrRow, RouteRow

(* Storing an address of one key changes no row of another.                *)
LEMMA AddrStoredDates ==
  ASSUME NEW t, AddrInv(t), NEW a \in Ip6Addr, NEW masklen \in Lengths,
         NEW date \in Dates, NEW type \in Types, NEW mem,
         NEW u, u = AddrStored(t, a, masklen, date, type, mem),
         NEW i \in AddrSlots, u[i] # NoRow
  PROVE  IF HasKey(u[i], a, type, masklen) THEN u[i].exp \in {0, date} ELSE u[i] = t[i]
<1> DEFINE known == AddressIndex(t, a, type, masklen)
<1>1. known = AddressIndex(t, a, type, masklen) /\ t \in AddrTable
  BY DEF AddrInv
<1> HIDE DEF known
<1>2. /\ t[i] # NoRow => IF i \in known THEN u[i] = Refreshed(t[i], date) ELSE u[i] = t[i]
      /\ t[i] = NoRow => HasKey(u[i], a, type, masklen) /\ u[i].exp = date
  BY <1>1, AddrStoredIs
<1>3. /\ \A j \in known : j \in AddrSlots /\ t[j] # NoRow /\ HasKey(t[j], a, type, masklen)
      /\ known = {} => \A j \in AddrSlots : t[j] # NoRow => ~HasKey(t[j], a, type, masklen)
  <2>1. type \in Nat \ {ANY} /\ masklen \in Nat \ {ANY_MASK}
    BY DEF Types, Lengths, ANY, ANY_MASK, LINK_LOCAL, MULTICAST
  <2> QED BY <1>1, <2>1, AddressIndexIs
<1>4. CASE t[i] = NoRow
  BY <1>2, <1>4
<1>5. CASE t[i] # NoRow /\ i \in known
  <2>1. t[i] \in AddrRow
    BY <1>1, <1>5 DEF AddrTable
  <2>2. HasKey(u[i], a, type, masklen)
    BY <1>2, <1>3, <1>5, <2>1, RefreshedType
  <2>3. u[i].exp \in {0, date}
    BY <1>2, <1>5, <2>1, RefreshedDate
  <2> QED BY <2>2, <2>3
<1>6. CASE t[i] # NoRow /\ i \notin known
  <2>1. u[i] = t[i]
    BY <1>2, <1>6
  <2>2. ~HasKey(t[i], a, type, masklen)
    <3>1. ASSUME HasKey(t[i], a, type, masklen) PROVE FALSE
      <4>1. PICK j \in known : TRUE
        BY <1>3, <1>6, <3>1
      <4>2. j \in AddrSlots /\ t[j] # NoRow /\ HasKey(t[i], t[j].addr, t[j].type, t[j].mask)
        BY <1>3, <3>1, <4>1 DEF HasKey
      <4>3. i = j
        BY <1>6, <4>2 DEF AddrInv
      <4> QED BY <1>6, <4>1, <4>3
    <3> QED BY <3>1
  <2> QED BY <2>1, <2>2
<1> QED BY <1>4, <1>5, <1>6

(* So autoconfiguration dates the address of its prefix and no other.      *)
LEMMA AddAddressDates ==
  ASSUME NEW t, AddrInv(t), NEW nbs, NEW a, FormedIn(a), NEW date \in Dates, NEW mem,
         NEW u, u = AddAddress(t, nbs, a, 64, date, GLOBAL, mem),
         NEW i \in AddrSlots, u[i] # NoRow, u[i].type = GLOBAL
  PROVE  IF u[i].addr = a THEN u[i].exp \in {0, date} ELSE u[i] = t[i]
<1> DEFINE granted == "address" \in mem
           s == AddrStored(t, a, 64, date, GLOBAL, granted)
           grouped == "group" \in mem
           g == AddrStored(s, Solicited(a), 128, date, MULTICAST, grouped)
<1>1. a \in Ip6Addr /\ Solicited(a) \in Ip6Addr
  BY AddressTypes
<1>2. /\ GLOBAL \in Types /\ MULTICAST \in Types /\ MULTICAST # GLOBAL
      /\ 64 \in Lengths /\ 128 \in Lengths
  BY DEF Types, Lengths, LINK_LOCAL, GLOBAL, MULTICAST
<1>3. AddrInv(s)
  BY <1>1, <1>2, AddrStoredInv
<1>4. AddrInv(u)
  BY AddAddressInv
<1>5. u[i].mask = 64
  BY <1>4 DEF AddrInv
<1>6. u = s \/ u = g \/ (u = t /\ AddressIndex(t, a, GLOBAL, 64) = {})
  BY DEF AddAddress
<1>7. s = AddrStored(t, a, 64, date, GLOBAL, granted)
      /\ g = AddrStored(s, Solicited(a), 128, date, MULTICAST, grouped)
  OBVIOUS
<1> HIDE DEF s, g, granted, grouped
<1>8. ASSUME s[i] # NoRow, s[i] = u[i]
      PROVE  IF u[i].addr = a THEN u[i].exp \in {0, date} ELSE u[i] = t[i]
  <2>1. IF HasKey(s[i], a, GLOBAL, 64) THEN s[i].exp \in {0, date} ELSE s[i] = t[i]
    BY <1>1, <1>2, <1>7, <1>8, AddrStoredDates
  <2> QED BY <1>5, <1>8, <2>1 DEF HasKey
<1>9. CASE u = s
  BY <1>8, <1>9
<1>10. CASE u = g
  <2>1. ~HasKey(g[i], Solicited(a), MULTICAST, 128)
    BY <1>2, <1>10 DEF HasKey
  <2>2. g[i] = s[i]
    BY <1>1, <1>2, <1>3, <1>7, <1>10, <2>1, AddrStoredDates
  <2> QED BY <1>8, <1>10, <2>2
<1>11. CASE u = t /\ AddressIndex(t, a, GLOBAL, 64) = {}
  <2>1. ~HasKey(t[i], a, GLOBAL, 64)
    <3>1. GLOBAL \in Nat \ {ANY} /\ 64 \in Nat \ {ANY_MASK} /\ t \in AddrTable
      BY DEF GLOBAL, ANY, ANY_MASK, AddrInv
    <3> QED BY <1>11, <3>1, AddressUnknown
  <2> QED BY <1>5, <1>11, <2>1 DEF HasKey
<1> QED BY <1>6, <1>9, <1>10, <1>11

(* The same of routes.                                                     *)
LEMMA AddRouteDates ==
  ASSUME NEW t, RouteInv(t), NEW dest, NEW next_hop, WellRouted(dest, next_hop),
         NEW date \in Dates, NEW mem,
         NEW u, u = AddRoute(t, dest, next_hop, date, mem),
         NEW i \in RouteSlots, u[i] # NoRow
  PROVE  IF IsRoute(u[i], dest, next_hop) THEN u[i].exp \in {0, date} ELSE u[i] = t[i]
<1> DEFINE known == RouteIndex(t, dest, next_hop)
<1>1. known = RouteIndex(t, dest, next_hop) /\ t \in RouteTable
  BY DEF RouteInv
<1> HIDE DEF known
<1>2. dest \in Dests /\ next_hop \in Ip6Addr
  BY AddressTypes, RemoteTypes DEF WellRouted
<1>3. /\ t[i] # NoRow => IF i \in known THEN u[i] = Refreshed(t[i], date) ELSE u[i] = t[i]
      /\ t[i] = NoRow => IsRoute(u[i], dest, next_hop) /\ u[i].exp = date
  BY <1>1, <1>2, AddRouteIs
<1>4. /\ \A j \in known : j \in RouteSlots /\ t[j] # NoRow /\ IsRoute(t[j], dest, next_hop)
      /\ known = {} => \A j \in RouteSlots : t[j] # NoRow => ~IsRoute(t[j], dest, next_hop)
  BY <1>1, RouteIndexIs
<1>5. CASE t[i] = NoRow
  BY <1>3, <1>5
<1>6. CASE t[i] # NoRow /\ i \in known
  <2>1. t[i] \in RouteRow
    BY <1>1, <1>6 DEF RouteTable
  <2>2. IsRoute(u[i], dest, next_hop)
    BY <1>3, <1>4, <1>6, <2>1, RefreshedType DEF IsRoute
  <2>3. u[i].exp \in {0, date}
    BY <1>3, <1>6, <2>1, RefreshedDate
  <2> QED BY <2>2, <2>3
<1>7. CASE t[i] # NoRow /\ i \notin known
  <2>1. u[i] = t[i]
    BY <1>3, <1>7
  <2>2. ASSUME IsRoute(t[i], dest, next_hop) PROVE FALSE
    <3>1. PICK j \in known : TRUE
      BY <1>4, <1>7, <2>2
    <3>2. j \in RouteSlots /\ t[j] # NoRow /\ IsRoute(t[i], t[j].addr, t[j].next_hop)
      BY <1>4, <2>2, <3>1 DEF IsRoute
    <3>3. i = j
      BY <1>7, <3>2 DEF RouteInv
    <3> QED BY <1>7, <3>1, <3>3
  <2> QED BY <2>1, <2>2
<1> QED BY <1>5, <1>6, <1>7

(* The default route of a router leaves the other destinations alone.      *)
LEMMA DefaultRouteDest ==
  ASSUME IInv, NEW rts, RouteInv(rts), NEW f \in RaIn, NEW mem, NEW i \in RouteSlots,
         NEW u, u = DefaultRoute(rts, f, mem),
         u[i] # NoRow, u[i].addr # DefaultDest
  PROVE  u[i] = rts[i]
<1>1. Advertised(DefaultDest) /\ WellRouted(DefaultDest, f.src)
  BY DEF WellRouted, Dests, DefaultDest, RaIn, Advertised
<1>2. Date(f.lifetime) \in Dates
  <2>1. RouterLifetimes \subseteq Nat
    BY InputsAssumption
  <2>2. f.lifetime \in RouterLifetimes
    BY DEF RaIn
  <2> QED BY <2>1, <2>2, HandlerDates
<1>3. CASE f.lifetime = 0
  <2>1. u = RemoveRoute(rts, DefaultDest, f.src)
    BY <1>3 DEF DefaultRoute
  <2> QED BY <1>1, <2>1, RemoveRouteInv
<1>4. CASE f.lifetime # 0
  <2> DEFINE granted == "default" \in mem
  <2>1. u = AddRoute(rts, DefaultDest, f.src, Date(f.lifetime), granted)
    BY <1>4 DEF DefaultRoute
  <2> HIDE DEF granted
  <2>2. ~IsRoute(u[i], DefaultDest, f.src)
    BY DEF IsRoute
  <2> QED BY <1>1, <1>2, <2>1, <2>2, AddRouteDates
<1> QED BY <1>3, <1>4

(* Only an advertisement dates a prefix, and it dates both rows alike.     *)
LEMMA AdvertisementAges ==
  ASSUME IInv, IInv', PrefixAgesTogether, NEW f \in RaIn, NEW mem, process_router_adv(f, mem)
  PROVE  PrefixAgesTogether'
<1> SUFFICES ASSUME "fe80" \notin Prefixes, NEW i \in AddrSlots, NEW j \in RouteSlots,
                    addrs'[i] # NoRow, addrs'[i].type = GLOBAL, addrs'[i].exp # 0,
                    routes'[j] # NoRow, routes'[j].addr = addrs'[i].addr[1], routes'[j].exp # 0
             PROVE  addrs'[i].exp = routes'[j].exp
  BY DEF PrefixAgesTogether
<1>1. PICK p \in Prefixes : addrs'[i].addr = <<p, Me>>
  BY DEF IInv, AddrInv, FormedIn, OwnHosts
<1>2. routes'[j].addr = p /\ p # DefaultDest
  BY <1>1, AddressesAssumption DEF DefaultDest
<1>3. ASSUME addrs'[i] = addrs[i], routes'[j] = routes[j]
      PROVE  addrs'[i].exp = routes'[j].exp
  BY <1>3 DEF PrefixAgesTogether
<1>4. CASE ~HasPrefix(f.infos)
  <2>1. addrs' = addrs /\ routes' = DefaultRoute(routes, f, mem)
    BY <1>4 DEF process_router_adv, RouterAdvWithoutPrefix
  <2>2. routes'[j] = routes[j]
    BY <1>2, <2>1, DefaultRouteDest DEF IInv
  <2> QED BY <1>3, <2>1, <2>2
<1>5. CASE HasPrefix(f.infos)
  <2> DEFINE o == UsedInfo(f.infos)
             rts == PrefixRoutes(o, mem)
             own == <<o.prefix, Me>>
  <2>1. o.prefix \in Prefixes /\ o.valid \in Nat
    BY <1>5, UsedInfoType DEF RaIn
  <2>2. OwnIn(o) = own /\ FormedIn(own)
    BY <2>1, OwnInIs
  <2>3. routes' = DefaultRoute(rts, f, mem) /\ addrs' = PrefixAddrs(o, mem)
    BY <1>5 DEF process_router_adv, RouterAdvWithPrefix
  <2>4. RouteInv(rts)
    BY <2>1, PrefixRoutesInv
  <2>5. rts = PrefixRoutes(o, mem)
    OBVIOUS
  <2> HIDE DEF rts, o
  <2>6. routes'[j] = rts[j]
    BY <1>2, <2>3, <2>4, DefaultRouteDest
  <2>7. CASE o.valid = 0
    <3>1. addrs' = addrs
      BY <2>3, <2>7, RemoveAddressSwapped DEF PrefixAddrs, IInv
    <3>2. rts = RemoveRoute(routes, o.prefix, in6addr_any)
      BY <2>5, <2>7 DEF PrefixRoutes
    <3>3. Advertised(o.prefix) /\ RouteInv(routes)
      BY <2>1 DEF IInv, Advertised
    <3>4. rts[j] = routes[j]
      BY <2>6, <3>2, <3>3, RemoveRouteInv
    <3> QED BY <1>3, <2>6, <3>1, <3>4
  <2>8. CASE o.valid # 0
    <3> DEFINE date == Date(o.valid)
               granted == "onlink" \in mem
    <3>1. date \in Dates /\ RouteInv(routes) /\ AddrInv(addrs)
      BY <2>1, HandlerDates DEF IInv
    <3>2. addrs' = AddAddress(addrs, neighbors, own, 64, date, GLOBAL, mem)
      BY <2>2, <2>3, <2>8 DEF PrefixAddrs
    <3>3. rts = AddRoute(routes, o.prefix, in6addr_any, date, granted)
      BY <2>5, <2>8 DEF PrefixRoutes
    <3>4. WellRouted(o.prefix, in6addr_any)
      BY <2>1, AddressesAssumption DEF WellRouted, Dests, DefaultDest
    <3> HIDE DEF date, granted
    <3>5. IF addrs'[i].addr = own THEN addrs'[i].exp \in {0, date} ELSE addrs'[i] = addrs[i]
      <4> HIDE DEF own
      <4> QED BY <2>1, <2>2, <3>1, <3>2, AddAddressDates
    <3>6. IF IsRoute(rts[j], o.prefix, in6addr_any)
            THEN rts[j].exp \in {0, date} ELSE rts[j] = routes[j]
      BY <2>6, <3>1, <3>3, <3>4, AddRouteDates
    <3>7. rts[j].next_hop = in6addr_any
      BY <1>2, <2>4, <2>6 DEF RouteInv, WellRouted
    <3>8. CASE p = o.prefix
      <4>1. addrs'[i].exp = date
        BY <1>1, <3>5, <3>8
      <4>2. routes'[j].exp = date
        BY <1>2, <2>6, <3>6, <3>7, <3>8 DEF IsRoute
      <4> QED BY <4>1, <4>2
    <3>9. CASE p # o.prefix
      <4>1. addrs'[i] = addrs[i]
        BY <1>1, <3>5, <3>9
      <4>2. routes'[j] = routes[j]
        BY <1>2, <2>6, <3>6, <3>9 DEF IsRoute
      <4> QED BY <1>3, <4>1, <4>2
    <3> QED BY <3>8, <3>9
  <2> QED BY <2>7, <2>8
<1> QED BY <1>4, <1>5

(* Whatever is advertised, withdrawn, repeated or refused by the           *)
(* allocator, an autoconfigured address and the on-link route of its       *)
(* prefix carry the same date when both are there and can expire, as long  *)
(* as the link-local prefix is not advertised.                             *)
THEOREM AddressAgesWithRoute == Spec => []PrefixAgesTogether
<1>1. Init => PrefixAgesTogether
  BY InitInv, InitAddrsIs
     DEF Init, IInv, AddrInv, PrefixAgesTogether, LinkLocalRow, GroupRow
<1>2. ASSUME IInv, IInv', PrefixAgesTogether, [Next]_vars
      PROVE  PrefixAgesTogether'
  <2>1. ASSUME UNCHANGED <<addrs, routes>>
        PROVE  PrefixAgesTogether'
    BY <1>2, <2>1 DEF PrefixAgesTogether
  <2>2. ASSUME NEW f \in RaIn, NEW mem \in Mems(RouterAllocs), process_router_adv(f, mem)
        PROVE  PrefixAgesTogether'
    BY <1>2, <2>2, AdvertisementAges
  <2>3. ASSUME NEW granted \in Grants, esix_periodic_callback(granted)
        PROVE  PrefixAgesTogether'
    <3>1. CASE HousekeepTick(current_time')
      <4>1. /\ routes' = Kept(routes, current_time')
            /\ addrs' = Kept(addrs, current_time')
        BY <2>3, <3>1 DEF esix_periodic_callback, esix_ip_housekeep
      <4>2. DOMAIN routes = RouteSlots /\ DOMAIN addrs = AddrSlots
        BY <1>2 DEF IInv, AddrInv, RouteInv, AddrTable, RouteTable
      <4>3. /\ \A i \in AddrSlots : addrs'[i] # NoRow => addrs'[i] = addrs[i]
            /\ \A j \in RouteSlots : routes'[j] # NoRow => routes'[j] = routes[j]
        BY <4>1, <4>2 DEF Kept
      <4> QED BY <1>2, <4>3 DEF PrefixAgesTogether
    <3>2. CASE ~HousekeepTick(current_time')
      BY <2>1, <2>3, <3>2 DEF esix_periodic_callback
    <3> QED BY <3>1, <3>2
  <2> QED BY <1>2, <2>1, <2>2, <2>3
     DEF Next, vars, process_neighbor_sol, process_neighbor_adv, process_echo_req,
         send_unreachable, send_ttl_expired, Answer, process_mld_query, UpperSend
<1>3. Init => IInv
  BY InitInv
<1>4. IInv /\ [Next]_vars => IInv'
  BY StepInv
<1>5. IInv /\ PrefixAgesTogether /\ [Next]_vars => (IInv /\ PrefixAgesTogether)'
  BY <1>2, <1>4
<1> QED BY <1>1, <1>3, <1>5, PTL DEF Spec

-----------------------------------------------------------------------------
(* Sources of packets.                                                     *)

(* The node's link-local address is in slot 0, so it is the one found.     *)
LEMMA LinkLocalIs ==
  ASSUME NEW t, AddrInv(t)
  PROVE  TypeAddress(t, LINK_LOCAL) = {0} /\ t[0].addr = OwnLinkLocal
<1> DEFINE F == {i \in DOMAIN t : t[i] # NoRow /\ (t[i].type = LINK_LOCAL \/ LINK_LOCAL = ANY)}
<1>1. DOMAIN t = AddrSlots /\ 0 \in AddrSlots /\ AddrSlots \subseteq Nat
  BY SlotsAreNat DEF AddrInv, AddrTable
<1>2. t[0] = LinkLocalRow
  BY InitAddrsIs DEF AddrInv
<1>3. LinkLocalRow # NoRow /\ LinkLocalRow.type = LINK_LOCAL /\ LinkLocalRow.addr = OwnLinkLocal
  <2>1. LinkLocalRow \in AddrRow
    BY AddressTypes, ZeroDate DEF LinkLocalRow, AddrRow, LINK_LOCAL, MULTICAST
  <2> QED BY <2>1, NoRowAssumption DEF LinkLocalRow
<1>4. 0 \in F /\ F \subseteq Nat
  BY <1>1, <1>2, <1>3
<1> HIDE DEF F
<1>5. Lowest(F) = {0}
  <2>1. Lowest(F) # {} /\ Lowest(F) \subseteq F
    BY <1>4, LowestOne
  <2>2. ASSUME NEW i \in Lowest(F)
        PROVE  i = 0
    <3>1. i <= 0 /\ i \in Nat
      BY <1>4, <2>1 DEF Lowest
    <3> QED BY <3>1
  <2> QED BY <2>1, <2>2
<1> QED BY <1>2, <1>3, <1>5 DEF TypeAddress, F

(* Packets with unicast sources (:: counts as one).                        *)
Unicast(packets) == \A p \in packets : ~Multicast(p.src)

(* The addresses of the node and of its neighbours are not groups.         *)
LEMMA NotGroups ==
  /\ ~Multicast(in6addr_any)
  /\ \A a \in OwnUnicast \cup Remotes : ~Multicast(a)
  /\ \A a : FormedIn(a) => ~Multicast(a)
<1>1. \A n \in {"fe80"} \cup Prefixes : \A h : ~Multicast(<<n, h>>)
  BY AddressesAssumption DEF Multicast
<1>2. \A a \in Remotes : \E n \in {"fe80"} \cup Prefixes, h \in Llas \ {Me} : a = <<n, h>>
  BY InputsAssumption
<1>3. ~Multicast(in6addr_any)
  BY DEF Multicast, in6addr_any
<1>4. \A a : FormedIn(a) => ~Multicast(a)
  BY <1>1 DEF FormedIn
<1>5. \A a \in OwnUnicast : ~Multicast(a)
  <2>1. ~Multicast(OwnLinkLocal)
    BY <1>1 DEF OwnLinkLocal
  <2> QED BY <1>4, <2>1, OwnAddresses
<1>6. ASSUME NEW a \in Remotes
      PROVE  ~Multicast(a)
  <2>1. PICK n \in {"fe80"} \cup Prefixes, h \in Llas \ {Me} : a = <<n, h>>
    BY <1>2
  <2> QED BY <1>1, <2>1
<1> QED BY <1>3, <1>4, <1>5, <1>6

(* A packet leaves with the source it was given.                           *)
LEMMA EmittedFrom ==
  ASSUME NEW tb, NEW pkt \in Packet
  PROVE  \A p \in Emitted(tb, pkt) : /\ p.src = pkt.src /\ p.kind = pkt.kind
                                     /\ p.dst = pkt.dst /\ p.target = pkt.target
<1>1. \A to : LET p == [pkt EXCEPT !.to = to]
              IN p.src = pkt.src /\ p.kind = pkt.kind /\ p.dst = pkt.dst /\ p.target = pkt.target
  BY DEF Packet
<1> QED BY <1>1 DEF Emitted

(* A solicitation sent in place of a packet comes from the link-local      *)
(* address.                                                                *)
LEMMA IpSendUnicast ==
  ASSUME NEW as, AddrInv(as), NEW rts \in RouteTable, NEW nbs, NEW pkt \in Packet,
         ~Multicast(pkt.src), NEW tb, tb = Tables(as, rts, nbs)
  PROVE  Unicast(esix_ip_send(tb, pkt))
<1>1. tb.addrs = as /\ tb.routes = rts
  BY DEF Tables
<1> SUFFICES ASSUME NEW p \in esix_ip_send(tb, pkt)
             PROVE  ~Multicast(p.src)
  BY DEF Unicast
<1>2. CASE p \in Emitted(tb, pkt)
  BY <1>2, EmittedFrom
<1>3. ASSUME NEW i \in TypeAddress(tb.addrs, LINK_LOCAL), NEW h \in Unresolved(tb, pkt.dst),
             p \in Emitted(tb, Pkt("NS", tb.addrs[i].addr, Solicited(h), h))
      PROVE  ~Multicast(p.src)
  <2>1. tb.addrs[i].addr = OwnLinkLocal
    BY <1>1, LinkLocalIs
  <2>2. h \in Ip6Addr
    BY <1>1, HopsType DEF Unresolved, Packet
  <2>3. Pkt("NS", OwnLinkLocal, Solicited(h), h) \in Packet
    BY <2>2, PktType, AddressTypes DEF Kinds
  <2>4. p.src = Pkt("NS", OwnLinkLocal, Solicited(h), h).src
    BY <1>3, <2>1, <2>3, EmittedFrom
  <2>5. p.src = OwnLinkLocal
    BY <2>4 DEF Pkt
  <2> QED BY <2>5, NotGroups DEF OwnUnicast
<1> QED BY <1>2, <1>3, IpSendIs

(* A multicast source is replaced by an address of the node, if there is   *)
(* one for the destination, and the packet is not sent otherwise.          *)
LEMMA IcmpSendUnicast ==
  ASSUME NEW as, AddrInv(as), NEW rts \in RouteTable, NEW nbs, NEW pkt \in Packet,
         NEW tb, tb = Tables(as, rts, nbs)
  PROVE  Unicast(esix_icmp_send(tb, pkt))
<1>1. tb.addrs = as
  BY DEF Tables
<1>2. \A i \in TypeAddress(as, GLOBAL) : ~Multicast(as[i].addr)
  <2>1. \A i \in TypeAddress(as, GLOBAL) : i \in AddrSlots /\ as[i] # NoRow /\ as[i].type = GLOBAL
    <3>1. DOMAIN as = AddrSlots /\ GLOBAL # ANY
      BY DEF AddrInv, AddrTable, GLOBAL, ANY
    <3> QED BY <3>1, Zenon DEF TypeAddress, Lowest
  <2>2. \A i \in TypeAddress(as, GLOBAL) : FormedIn(as[i].addr)
    <3>1. \A i \in AddrSlots : as[i] # NoRow /\ as[i].type = GLOBAL => FormedIn(as[i].addr)
      BY DEF AddrInv
    <3> QED BY <2>1, <3>1
  <2> QED BY <2>2, NotGroups
<1>3. \A i \in TypeAddress(as, LINK_LOCAL) : ~Multicast(as[i].addr)
  BY LinkLocalIs, NotGroups DEF OwnUnicast
<1>4. \A s \in SourceAddr(as, pkt.src, pkt.dst) : ~Multicast(s)
  BY <1>2, <1>3 DEF SourceAddr
<1>5. SourceAddr(as, pkt.src, pkt.dst) \subseteq Ip6Addr
  <2>1. \A type : \A i \in TypeAddress(as, type) : as[i].addr \in Ip6Addr
    <3>1. as \in AddrTable
      BY DEF AddrInv
    <3> QED BY <3>1 DEF TypeAddress, Lowest, AddrTable, AddrRow
  <2> QED BY <2>1 DEF SourceAddr, Packet
<1>6. ASSUME NEW s \in SourceAddr(as, pkt.src, pkt.dst)
      PROVE  Unicast(esix_ip_send(tb, [pkt EXCEPT !.src = s]))
  <2>1. [pkt EXCEPT !.src = s] \in Packet /\ [pkt EXCEPT !.src = s].src = s
    BY <1>5 DEF Packet
  <2> QED BY <1>4, <2>1, IpSendUnicast
<1> QED BY <1>1, <1>6 DEF esix_icmp_send, Unicast

(* Solicitations.                                                          *)
LEMMA NeighborSolUnicast ==
  ASSUME NEW as, AddrInv(as), NEW rts \in RouteTable, NEW nbs,
         NEW src \in Ip6Addr, NEW target \in Ip6Addr, NEW tb, tb = Tables(as, rts, nbs)
  PROVE  Unicast(esix_icmp_send_neighbor_sol(tb, src, target))
<1> DEFINE dst == IF NeighborIndex(tb.neighbors, target) # {} THEN target ELSE Solicited(target)
<1>1. dst \in Ip6Addr
  BY AddressTypes
<1>2. Pkt("NS", src, dst, target) \in Packet
  BY <1>1, PktType DEF Kinds
<1>3. esix_icmp_send_neighbor_sol(tb, src, target) = esix_icmp_send(tb, Pkt("NS", src, dst, target))
  BY DEF esix_icmp_send_neighbor_sol
<1> HIDE DEF dst
<1> QED BY <1>2, <1>3, IcmpSendUnicast

(* The solicitations of housekeeping.                                      *)
LEMMA HousekeepUnicast ==
  ASSUME IInv, IInv', NEW t, NEW granted, esix_ip_housekeep(t, granted)
  PROVE  Unicast(wire')
<1> DEFINE due == {i \in NeighborSlots : Due(neighbors[i], t)} \cap granted
<1>1. due \subseteq {j \in NeighborSlots : neighbors[j] # NoRow}
  BY DEF Due
<1> SUFFICES ASSUME NEW p \in wire'
             PROVE  ~Multicast(p.src)
  BY DEF Unicast
<1>2. PICK i \in due, a \in TypeAddress(addrs', LINK_LOCAL) :
        p \in esix_icmp_send_neighbor_sol(Tables(addrs', routes', CacheAt(i, due, t)),
                                          addrs'[a].addr, neighbors[i].addr)
  BY SMT DEF esix_ip_housekeep
<1> HIDE DEF due
<1>3. AddrInv(addrs') /\ routes' \in RouteTable
  BY TablesTyped DEF IInv
<1>4. addrs'[a].addr \in Ip6Addr
  BY TablesTyped DEF TypeAddress, Lowest, AddrTable, AddrRow
<1>5. neighbors[i].addr \in Ip6Addr
  BY <1>1, TablesTyped DEF CacheTable, NeighborRow
<1>6. Unicast(esix_icmp_send_neighbor_sol(Tables(addrs', routes', CacheAt(i, due, t)),
                                          addrs'[a].addr, neighbors[i].addr))
  BY <1>3, <1>4, <1>5, NeighborSolUnicast
<1> QED BY <1>2, <1>6 DEF Unicast

(* No step sends a packet from a multicast address, also when it answers   *)
(* one sent to a group, sends a solicitation in place of a packet, or      *)
(* solicits neighbours that are about to expire.                           *)
THEOREM OnlyUnicastSources == Spec => SourcesUnicast
<1>1. ASSUME IInv, IInv', Next
      PROVE  Unicast(wire')
  <2>1. ASSUME NEW f \in NsIn, NEW mem \in Mems(NeighborAllocs), process_neighbor_sol(f, mem)
        PROVE  Unicast(wire')
    <3>1. f.target \in OwnUnicast /\ f.target \in Ip6Addr /\ f.src \in Ip6Addr
      BY RemoteTypes, AddressTypes DEF NsIn
    <3>2. NeighborAdv(f.target, f.src) \in Packet
      BY <3>1, PktType DEF NeighborAdv, Kinds
    <3>3. AddrInv(addrs) /\ routes \in RouteTable
      BY <1>1, TablesTyped DEF IInv
    <3>4. \/ wire' = {}
          \/ wire' = esix_icmp_send(Tables(addrs, routes, neighbors'), NeighborAdv(f.target, f.src))
      BY <2>1 DEF process_neighbor_sol
    <3>5. Unicast({})
      BY DEF Unicast
    <3> QED BY <3>2, <3>3, <3>4, <3>5, IcmpSendUnicast
  <2>2. ASSUME NEW f \in NaIn, NEW mem \in Mems({"neighbor"}), process_neighbor_adv(f, mem)
        PROVE  Unicast(wire')
    BY <2>2 DEF process_neighbor_adv, Unicast
  <2>3. ASSUME NEW f \in RaIn, NEW mem \in Mems(RouterAllocs), process_router_adv(f, mem)
        PROVE  Unicast(wire')
    <3> DEFINE own == OwnIn(UsedInfo(f.infos))
    <3>1. CASE ~HasPrefix(f.infos)
      BY <2>3, <3>1 DEF process_router_adv, RouterAdvWithoutPrefix, Unicast
    <3>2. CASE HasPrefix(f.infos)
      <4>1. own \in Ip6Addr
        <5>1. UsedInfo(f.infos).prefix \in Prefixes
          BY <3>2, UsedInfoType DEF RaIn
        <5> QED BY <1>1, <5>1, OwnInIs, AddressTypes
      <4>2. \/ wire' = {}
            \/ wire' = esix_icmp_send_neighbor_sol(Tables(addrs, routes, neighbors'), in6addr_any, own)
        BY <2>3, <3>2 DEF process_router_adv, RouterAdvWithPrefix
      <4>3. AddrInv(addrs) /\ routes \in RouteTable
        BY <1>1, TablesTyped DEF IInv
      <4>4. Unicast({})
        BY DEF Unicast
      <4> HIDE DEF own
      <4> QED BY <4>1, <4>2, <4>3, <4>4, NeighborSolUnicast, AddressTypes
    <3> QED BY <3>1, <3>2
  <2>4. ASSUME NEW f \in PacketIn, NEW kind \in Kinds, Answer(kind, f)
        PROVE  Unicast(wire')
    <3>1. f.dst \in Ip6Addr /\ f.src \in Ip6Addr
      BY RemoteTypes, AddressTypes DEF PacketIn
    <3>2. Pkt(kind, f.dst, f.src, in6addr_any) \in Packet
      BY <3>1, PktType, AddressTypes
    <3>3. AddrInv(addrs) /\ routes \in RouteTable
      BY <1>1, TablesTyped DEF IInv
    <3> QED BY <2>4, <3>2, <3>3, IcmpSendUnicast DEF Answer
  <2>5. ASSUME NEW f \in PacketIn,
               process_echo_req(f) \/ send_unreachable(f) \/ send_ttl_expired(f)
        PROVE  Unicast(wire')
    <3>1. Answer("ECHO_RP", f) \/ Answer("DST_UNR", f) \/ Answer("TTL_EXP", f)
      BY <2>5 DEF process_echo_req, send_unreachable, send_ttl_expired
    <3> QED BY <2>4, <3>1 DEF Kinds
  <2>6. ASSUME NEW f \in MldIn, process_mld_query(f)
        PROVE  Unicast(wire')
    <3>1. PICK a \in TypeAddress(addrs, LINK_LOCAL) :
            wire' = esix_icmp_send(Tables(addrs, routes, neighbors),
                                   MldReport(addrs[a].addr, addrs[a].addr))
      BY <2>6 DEF process_mld_query
    <3>2. addrs[a].addr \in Ip6Addr
      BY <1>1, <3>1, TablesTyped DEF TypeAddress, Lowest, AddrTable, AddrRow
    <3>3. MldReport(addrs[a].addr, addrs[a].addr) \in Packet
      BY <3>2, PktType DEF MldReport, Kinds
    <3>4. AddrInv(addrs) /\ routes \in RouteTable
      BY <1>1, TablesTyped DEF IInv
    <3> QED BY <3>1, <3>3, <3>4, IcmpSendUnicast
  <2>7. ASSUME NEW src \in OwnUnicast, NEW dst \in Remotes, UpperSend(src, dst)
        PROVE  Unicast(wire')
    <3>1. Pkt("UPPER", src, dst, in6addr_any) \in Packet
      BY RemoteTypes, AddressTypes, PktType DEF Kinds
    <3>2. ~Multicast(Pkt("UPPER", src, dst, in6addr_any).src)
      BY NotGroups DEF Pkt
    <3>3. AddrInv(addrs) /\ routes \in RouteTable
      BY <1>1, TablesTyped DEF IInv
    <3> QED BY <2>7, <3>1, <3>2, <3>3, IpSendUnicast DEF UpperSend
  <2>8. ASSUME NEW granted \in Grants, esix_periodic_callback(granted)
        PROVE  Unicast(wire')
    BY <1>1, <2>8, HousekeepUnicast DEF esix_periodic_callback, Unicast
  <2> QED BY <1>1, <2>1, <2>2, <2>3, <2>5, <2>6, <2>7, <2>8 DEF Next
<1>2. IInv /\ IInv' /\ [Next]_vars => [\A p \in wire' : ~Multicast(p.src)]_vars
  BY <1>1 DEF Unicast
<1> QED BY <1>2, Invariance, PTL DEF Spec, SourcesUnicast

-----------------------------------------------------------------------------
(* Answers to solicitations.                                               *)

(* A neighbour that was found, or stored because there was room, is found. *)
LEMMA SolicitorKnown ==
  ASSUME IInv, NEW f \in NsIn, process_neighbor_sol(f, NeighborAllocs),
         NeighborIndex(neighbors, f.src) \cup FreeSlot(neighbors) # {}
  PROVE  NeighborIndex(neighbors', f.src) # {}
<1>1. CASE NeighborIndex(neighbors, f.src) # {}
  BY <1>1 DEF process_neighbor_sol
<1>2. CASE NeighborIndex(neighbors, f.src) = {}
  <2> DEFINE new == [addr |-> f.src, lla |-> f.lla, exp |-> Date(NEW_NEIGHBOR_TIMEOUT),
                     sollicited |-> FALSE, status |-> "STALE"]
             F == {i \in DOMAIN neighbors' : neighbors'[i] # NoRow /\ neighbors'[i].addr = f.src}
  <2>1. "neighbor" \in NeighborAllocs
    BY DEF NeighborAllocs
  <2>2. neighbors' = [i \in DOMAIN neighbors |-> IF i \in FreeSlot(neighbors) THEN new ELSE neighbors[i]]
    BY <1>2, <2>1 DEF process_neighbor_sol, AddNeighbor, Store
  <2>3. f.src \in Ip6Addr /\ f.lla \in Llas
    BY RemoteTypes, AddressTypes DEF NsIn
  <2>4. new \in NeighborRow /\ new.addr = f.src
    BY <2>3, HandlerDates DEF NeighborRow, Status
  <2>5. PICK k \in FreeSlot(neighbors) : TRUE
    BY <1>2
  <2>6. DOMAIN neighbors = NeighborSlots /\ k \in DOMAIN neighbors
    BY CacheFacts DEF IInv, FreeSlot, Lowest
  <2> HIDE DEF new
  <2>7. neighbors'[k] = new /\ DOMAIN neighbors' = NeighborSlots
    BY <2>2, <2>5, <2>6
  <2>8. k \in F /\ F \in SUBSET Nat
    BY <2>4, <2>6, <2>7, NoRowAssumption, SlotsAreNat
  <2> HIDE DEF F
  <2>9. Lowest(F) # {}
    BY <2>8, LowestOne
  <2> QED BY <2>9 DEF NeighborIndex, F
<1> QED BY <1>1, <1>2

(* A neighbour that asks for an address of the node is answered in the     *)
(* same step, whatever the caches hold, if it can be in the cache at all:  *)
(* it is stored before the answer looks it up.                             *)
THEOREM SolicitorsAnswered == Spec => SolicitationAnswered
<1>1. ASSUME IInv, NEW f \in NsIn, process_neighbor_sol(f, NeighborAllocs),
             f.src \in Hops(routes, f.src),
             NeighborIndex(neighbors, f.src) \cup FreeSlot(neighbors) # {}
      PROVE  \E p \in wire' : p.kind = "NA" /\ p.dst = f.src /\ p.target = f.target
  <2> DEFINE tb == Tables(addrs, routes, neighbors')
             pkt == NeighborAdv(f.target, f.src)
  <2>1. f.target \in OwnUnicast /\ f.target \in Ip6Addr /\ f.src \in Ip6Addr
    BY RemoteTypes, AddressTypes DEF NsIn
  <2>2. ~Multicast(f.target) /\ ~Multicast(f.src)
    BY <2>1, NotGroups DEF NsIn
  <2>3. /\ pkt \in Packet /\ pkt.src = f.target /\ pkt.dst = f.src
        /\ pkt.kind = "NA" /\ pkt.target = f.target
    BY <2>1, PktType DEF NeighborAdv, Kinds, Pkt
  <2>4. wire' = esix_icmp_send(tb, pkt)
    BY <1>1 DEF process_neighbor_sol, NeighborAllocs
  <2>5. tb.addrs = addrs /\ tb.routes = routes /\ tb.neighbors = neighbors'
    BY DEF Tables
  <2> HIDE DEF pkt, tb
  <2>6. SourceAddr(tb.addrs, pkt.src, pkt.dst) = {f.target}
    BY <2>2, <2>3 DEF SourceAddr
  <2>7. [pkt EXCEPT !.src = f.target] = pkt
    BY <2>3 DEF Packet
  <2>8. wire' = esix_ip_send(tb, pkt)
    BY <2>4, <2>6, <2>7 DEF esix_icmp_send
  <2>9. PICK j \in NeighborIndex(neighbors', f.src) : TRUE
    BY <1>1, SolicitorKnown
  <2>10. [pkt EXCEPT !.to = neighbors'[j].lla] \in Emitted(tb, pkt)
    <3>1. f.src \in {h \in Hops(tb.routes, pkt.dst) : ~Multicast(h)}
      BY <1>1, <2>2, <2>3, <2>5
    <3>2. j \in NeighborIndex(tb.neighbors, f.src)
      BY <2>5, <2>9
    <3> QED BY <2>5, <3>1, <3>2, Zenon DEF Emitted
  <2>11. [pkt EXCEPT !.to = neighbors'[j].lla] \in wire'
    BY <2>8, <2>10 DEF esix_ip_send
  <2>12. LET p == [pkt EXCEPT !.to = neighbors'[j].lla]
         IN p.kind = "NA" /\ p.dst = f.src /\ p.target = f.target
    BY <2>3 DEF Packet
  <2> QED BY <2>11, <2>12
<1>2. IInv => \A f \in NsIn :
        /\ process_neighbor_sol(f, NeighborAllocs)
        /\ f.src \in Hops(routes, f.src)
        /\ NeighborIndex(neighbors, f.src) \cup FreeSlot(neighbors) # {}
        => \E p \in wire' : p.kind = "NA" /\ p.dst = f.src /\ p.target = f.target
  BY <1>1
<1> QED BY <1>2, Invariance, PTL DEF SolicitationAnswered

-----------------------------------------------------------------------------
(* Expiry.  Dates wrap at TimeMod; an infinite lifetime, TimeMod - 1, then *)
(* becomes the second before the present.                                  *)

(* Lifetimes whose dates do not wrap in the time considered, and the       *)
(* infinite one.                                                           *)
FitsClock(lifetime) == lifetime + MaxTime < TimeMod \/ lifetime = TimeMod - 1
LifetimesFit ==
  /\ \A l \in RouterLifetimes : FitsClock(l)
  /\ \A infos \in PrefixInfos : \A i \in DOMAIN infos : FitsClock(infos[i].valid)

(* A row is past its date by two ticks at most, and by one when            *)
(* housekeeping has just run.                                              *)
Fresh(row, now) ==
  row # NoRow /\ row.exp # 0 =>
    /\ now <= row.exp + 2
    /\ HousekeepTick(now) => now <= row.exp + 1
AllFresh(tbl, now) == \A i \in DOMAIN tbl : Fresh(tbl[i], now)
FreshInv ==
  AllFresh(addrs, current_time) /\ AllFresh(routes, current_time)
    /\ AllFresh(neighbors, current_time)

(* A date a handler computes is fresh.                                     *)
LEMMA DateFresh ==
  ASSUME ClockOK, NEW l \in Nat, FitsClock(l)
  PROVE  Date(l) = 0 \/ current_time <= Date(l) + 1
<1>1. current_time \in Nat /\ 1 <= current_time /\ current_time <= MaxTime /\ MaxTime \in Nat
      /\ MaxTime < TimeMod /\ TimeMod \in Nat
  BY DatesAssumption, TablesAssumption DEF ClockOK
<1>2. CASE l + MaxTime < TimeMod
  <2>1. (current_time + l) % TimeMod = current_time + l
    BY <1>1, <1>2
  <2> QED BY <1>1, <2>1 DEF Date
<1>3. CASE l = TimeMod - 1
  <2>1. current_time + l = TimeMod + (current_time - 1) /\ current_time - 1 \in 0 .. (TimeMod - 1)
    BY <1>1, <1>3
  <2>2. (current_time + l) % TimeMod = current_time - 1
    BY <1>1, <2>1
  <2> QED BY <1>1, <2>2 DEF Date
<1> QED BY <1>2, <1>3 DEF FitsClock

(* The timeouts of neighbours do not wrap: their rows end after the        *)
(* present.                                                                *)
LEMMA NeighborDates ==
  ASSUME ClockOK
  PROVE  /\ Date(NEW_NEIGHBOR_TIMEOUT) = current_time + NEW_NEIGHBOR_TIMEOUT
         /\ Date(NEIGHBOR_TIMEOUT) = current_time + NEIGHBOR_TIMEOUT
<1>1. current_time \in Nat /\ 1 <= current_time /\ current_time <= MaxTime /\ MaxTime \in Nat
      /\ TimeMod \in Nat /\ NEW_NEIGHBOR_TIMEOUT \in Nat /\ NEIGHBOR_TIMEOUT \in Nat
  BY DatesAssumption, TablesAssumption DEF ClockOK
<1>2. current_time + NEW_NEIGHBOR_TIMEOUT < TimeMod /\ current_time + NEIGHBOR_TIMEOUT < TimeMod
  BY <1>1, DatesAssumption
<1> QED BY <1>1, <1>2 DEF Date

(* A table whose rows are old ones, or have a fresh date.                  *)
LEMMA FreshStep ==
  ASSUME NEW t, NEW u, NEW now \in Nat, AllFresh(t, now), DOMAIN u = DOMAIN t,
         \A i \in DOMAIN t :
           \/ u[i] = NoRow \/ u[i] = t[i]
           \/ t[i] # NoRow /\ u[i].exp = t[i].exp
           \/ u[i].exp \in Nat /\ (u[i].exp = 0 \/ now <= u[i].exp + 1)
  PROVE  AllFresh(u, now)
<1> SUFFICES ASSUME NEW i \in DOMAIN t
             PROVE  Fresh(u[i], now)
  BY DEF AllFresh
<1>1. Fresh(t[i], now)
  BY DEF AllFresh
<1>2. CASE u[i] = NoRow \/ u[i] = t[i]
  BY <1>1, <1>2 DEF Fresh
<1>3. CASE t[i] # NoRow /\ u[i].exp = t[i].exp
  BY <1>1, <1>3 DEF Fresh
<1>4. CASE u[i].exp \in Nat /\ (u[i].exp = 0 \/ now <= u[i].exp + 1)
  BY <1>4 DEF Fresh
<1> QED BY <1>2, <1>3, <1>4

(* Time passes; on an odd tick what has lapsed is removed.                 *)
LEMMA FreshTick ==
  ASSUME NEW t, NEW u, NEW now \in Nat, AllFresh(t, now), DOMAIN u = DOMAIN t,
         \A i \in DOMAIN t : t[i] # NoRow => t[i].exp \in Nat,
         IF HousekeepTick(now + 1)
           THEN \A i \in DOMAIN t :
                  u[i] = NoRow \/ (t[i] # NoRow /\ u[i].exp = t[i].exp /\ ~Lapsed(u[i], now + 1))
           ELSE u = t
  PROVE  AllFresh(u, now + 1)
<1> SUFFICES ASSUME NEW i \in DOMAIN t, u[i] # NoRow, u[i].exp # 0
             PROVE  /\ now + 1 <= u[i].exp + 2
                    /\ HousekeepTick(now + 1) => now + 1 <= u[i].exp + 1
  BY DEF AllFresh, Fresh
<1>1. CASE HousekeepTick(now + 1)
  <2>1. u[i].exp \in Nat /\ ~(u[i].exp < now + 1)
    BY <1>1 DEF Lapsed
  <2> QED BY <2>1
<1>2. CASE ~HousekeepTick(now + 1)
  <2>1. u[i] = t[i] /\ t[i].exp \in Nat /\ Fresh(t[i], now)
    BY <1>2 DEF AllFresh
  <2>2. HousekeepTick(now)
    BY <1>2 DEF HousekeepTick
  <2> QED BY <1>2, <2>1, <2>2 DEF Fresh
<1> QED BY <1>1, <1>2

(* Rows of the three tables, and their dates.                              *)
LEMMA RowDates ==
  ASSUME IInv
  PROVE  /\ DOMAIN addrs = AddrSlots /\ DOMAIN routes = RouteSlots
         /\ DOMAIN neighbors = NeighborSlots
         /\ \A i \in AddrSlots : addrs[i] # NoRow => addrs[i].exp \in Nat
         /\ \A i \in RouteSlots : routes[i] # NoRow => routes[i].exp \in Nat
         /\ \A i \in NeighborSlots : neighbors[i] # NoRow => neighbors[i].exp \in Nat
<1>1. addrs \in AddrTable /\ routes \in RouteTable /\ neighbors \in CacheTable
  BY TablesTyped
<1>2. Dates \subseteq Nat
  BY TablesAssumption DEF Dates
<1> QED BY <1>1, <1>2 DEF AddrTable, RouteTable, CacheTable, AddrRow, RouteRow, NeighborRow

(* Autoconfiguration dates the address, and its group if that can expire.  *)
LEMMA AddAddressRows ==
  ASSUME NEW t, AddrInv(t), NEW nbs, NEW a, FormedIn(a), NEW date \in Dates, NEW mem,
         NEW u, u = AddAddress(t, nbs, a, 64, date, GLOBAL, mem),
         NEW i \in AddrSlots, u[i] # NoRow
  PROVE  u[i] = t[i] \/ u[i].exp \in {0, date}
<1> DEFINE granted == "address" \in mem
           s == AddrStored(t, a, 64, date, GLOBAL, granted)
           grouped == "group" \in mem
           g == AddrStored(s, Solicited(a), 128, date, MULTICAST, grouped)
<1>1. a \in Ip6Addr /\ Solicited(a) \in Ip6Addr
  BY AddressTypes
<1>2. GLOBAL \in Types /\ MULTICAST \in Types /\ MULTICAST # GLOBAL /\ 64 \in Lengths /\ 128 \in Lengths
  BY DEF Types, Lengths, LINK_LOCAL, GLOBAL, MULTICAST
<1>3. AddrInv(s)
  BY <1>1, <1>2, AddrStoredInv
<1>4. u = s \/ u = g \/ u = t
  BY DEF AddAddress
<1>5. s = AddrStored(t, a, 64, date, GLOBAL, granted)
      /\ g = AddrStored(s, Solicited(a), 128, date, MULTICAST, grouped)
  OBVIOUS
<1> HIDE DEF s, g, granted, grouped
<1>6. s[i] # NoRow => s[i] = t[i] \/ s[i].exp \in {0, date}
  BY <1>1, <1>2, <1>5, AddrStoredDates
<1>7. g[i] # NoRow => g[i] = s[i] \/ g[i].exp \in {0, date}
  BY <1>1, <1>2, <1>3, <1>5, AddrStoredDates
<1> QED BY <1>4, <1>6, <1>7

(* Advertised addresses and routes.                                        *)
LEMMA RouterFresh ==
  ASSUME LifetimesFit, IInv, IInv', FreshInv, NEW f \in RaIn, NEW mem, process_router_adv(f, mem)
  PROVE  FreshInv'
<1>1. current_time \in Nat /\ current_time' = current_time /\ ClockOK
  BY DEF process_router_adv, IInv, ClockOK
<1>2. /\ DOMAIN addrs = AddrSlots /\ DOMAIN routes = RouteSlots /\ DOMAIN neighbors = NeighborSlots
      /\ DOMAIN addrs' = AddrSlots /\ DOMAIN routes' = RouteSlots /\ DOMAIN neighbors' = NeighborSlots
  BY RowDates DEF IInv, AddrInv, RouteInv, CacheInv, AddrTable, RouteTable, CacheTable
<1>3. AddrInv(addrs) /\ RouteInv(routes) /\ CacheInv(neighbors) /\ Dates \subseteq Nat
  BY TablesAssumption DEF IInv, Dates
<1>4. \A date \in Dates : {0, date} \subseteq Nat
  BY <1>3
<1>5. f.lifetime \in Nat /\ FitsClock(f.lifetime)
  <2>1. RouterLifetimes \subseteq Nat
    BY InputsAssumption
  <2>2. f.lifetime \in RouterLifetimes
    BY DEF RaIn
  <2> QED BY <2>1, <2>2 DEF LifetimesFit
<1>6. ASSUME NEW rts, RouteInv(rts), AllFresh(rts, current_time)
      PROVE  AllFresh(DefaultRoute(rts, f, mem), current_time)
  <2> DEFINE u == DefaultRoute(rts, f, mem)
             date == Date(f.lifetime)
             granted == "default" \in mem
  <2>1. Advertised(DefaultDest) /\ WellRouted(DefaultDest, f.src)
    BY DEF WellRouted, Dests, DefaultDest, RaIn, Advertised
  <2>2. date \in Dates /\ (date = 0 \/ current_time <= date + 1)
    BY <1>1, <1>5, HandlerDates, DateFresh
  <2>3. RouteInv(u)
    BY <1>6, DefaultRouteInv
  <2>4. f.lifetime = 0 => u = RemoveRoute(rts, DefaultDest, f.src)
    BY DEF DefaultRoute
  <2>5. f.lifetime # 0 => u = AddRoute(rts, DefaultDest, f.src, date, granted)
    BY DEF DefaultRoute
  <2> HIDE DEF u, date, granted
  <2>6. ASSUME NEW i \in RouteSlots, u[i] # NoRow
        PROVE  u[i] = rts[i] \/ u[i].exp \in {0, date}
    <3>1. CASE f.lifetime = 0
      BY <1>6, <2>1, <2>4, <2>6, <3>1, RemoveRouteInv
    <3>2. CASE f.lifetime # 0
      BY <1>6, <2>1, <2>2, <2>5, <2>6, <3>2, AddRouteDates
    <3> QED BY <3>1, <3>2
  <2>7. DOMAIN rts = RouteSlots /\ DOMAIN u = RouteSlots
    BY <1>6, <2>3 DEF RouteInv, RouteTable
  <2> QED BY <1>1, <1>4, <1>6, <2>2, <2>6, <2>7, FreshStep DEF u
<1>7. CASE ~HasPrefix(f.infos)
  BY <1>1, <1>3, <1>6, <1>7 DEF process_router_adv, RouterAdvWithoutPrefix, FreshInv
<1>8. CASE HasPrefix(f.infos)
  <2> DEFINE o == UsedInfo(f.infos)
             rts == PrefixRoutes(o, mem)
             own == OwnIn(o)
             date == Date(o.valid)
             granted == "onlink" \in mem
  <2>1. o.prefix \in Prefixes /\ o.valid \in Nat /\ FitsClock(o.valid)
    <3>1. o.prefix \in Prefixes /\ o.valid \in Nat
      BY <1>8, UsedInfoType DEF RaIn
    <3>2. f.infos \in PrefixInfos /\ f.infos \in Seq(PrefixInfo)
      BY InputsAssumption DEF RaIn
    <3>3. Len(f.infos) \in DOMAIN f.infos
      BY <1>8, <3>2 DEF HasPrefix
    <3> QED BY <3>1, <3>2, <3>3 DEF LifetimesFit, UsedInfo
  <2>2. FormedIn(own)
    BY <2>1, OwnInIs
  <2>3. /\ routes' = DefaultRoute(rts, f, mem)
        /\ addrs' = PrefixAddrs(o, mem)
        /\ neighbors' = IF Probes(o, mem) THEN MarkSollicited(neighbors, own) ELSE neighbors
    BY <1>8 DEF process_router_adv, RouterAdvWithPrefix
  <2>4. date \in Dates /\ (date = 0 \/ current_time <= date + 1)
    BY <1>1, <2>1, HandlerDates, DateFresh
  <2>5. RouteInv(rts) /\ WellRouted(o.prefix, in6addr_any) /\ Advertised(o.prefix)
    BY <2>1, PrefixRoutesInv, AddressesAssumption DEF WellRouted, Dests, DefaultDest, Advertised
  <2>6. o.valid = 0 => /\ rts = RemoveRoute(routes, o.prefix, in6addr_any)
                       /\ addrs' = addrs
    BY <1>3, <2>3, RemoveAddressSwapped DEF PrefixRoutes, PrefixAddrs
  <2>7. o.valid # 0 => /\ rts = AddRoute(routes, o.prefix, in6addr_any, date, granted)
                       /\ addrs' = AddAddress(addrs, neighbors, own, 64, date, GLOBAL, mem)
    BY <2>3 DEF PrefixRoutes, PrefixAddrs
  <2> HIDE DEF rts, date, granted, o, own
  <2>8. AllFresh(routes', current_time)
    <3>1. ASSUME NEW i \in RouteSlots, rts[i] # NoRow
          PROVE  rts[i] = routes[i] \/ rts[i].exp \in {0, date}
      <4>1. CASE o.valid = 0
        BY <1>3, <2>5, <2>6, <3>1, <4>1, RemoveRouteInv
      <4>2. CASE o.valid # 0
        <5>1. rts = AddRoute(routes, o.prefix, in6addr_any, date, granted)
          BY <2>7, <4>2
        <5>2. RouteInv(routes) /\ WellRouted(o.prefix, in6addr_any) /\ date \in Dates
          BY <1>3, <2>4, <2>5
        <5> QED BY <3>1, <5>1, <5>2, AddRouteDates
      <4> QED BY <4>1, <4>2
    <3>2. DOMAIN rts = RouteSlots
      BY <2>5 DEF RouteInv, RouteTable
    <3>3. AllFresh(rts, current_time)
      BY <1>1, <1>2, <1>4, <2>4, <3>1, <3>2, FreshStep DEF FreshInv
    <3> QED BY <1>6, <2>3, <2>5, <3>3
  <2>9. AllFresh(addrs', current_time)
    <3>1. CASE o.valid = 0
      BY <2>6, <3>1 DEF FreshInv
    <3>2. CASE o.valid # 0
      <4>1. \A i \in AddrSlots : addrs'[i] # NoRow =>
              addrs'[i] = addrs[i] \/ addrs'[i].exp \in {0, date}
        BY <1>3, <2>1, <2>2, <2>4, <2>7, <3>2, AddAddressRows
      <4> QED BY <1>1, <1>2, <1>4, <2>4, <4>1, FreshStep DEF FreshInv
    <3> QED BY <3>1, <3>2
  <2>10. AllFresh(neighbors', current_time)
    <3>1. \A i \in NeighborSlots :
            neighbors'[i] = neighbors[i]
              \/ (neighbors[i] # NoRow /\ neighbors'[i].exp = neighbors[i].exp)
      <4>1. \A i \in NeighborIndex(neighbors, own) : i \in NeighborSlots /\ neighbors[i] # NoRow
        BY <1>3, CacheFacts, NeighborIndexIs
      <4>2. \A row \in NeighborRow : [row EXCEPT !.sollicited = TRUE, !.status = "STALE"].exp = row.exp
        BY DEF NeighborRow
      <4> QED BY <1>2, <1>3, <2>3, <4>1, <4>2, CacheFacts DEF MarkSollicited
    <3> QED BY <1>1, <1>2, <3>1, FreshStep DEF FreshInv
  <2> QED BY <1>1, <2>8, <2>9, <2>10 DEF FreshInv
<1> QED BY <1>7, <1>8

(* New and confirmed neighbours.                                           *)
LEMMA NeighborFresh ==
  ASSUME IInv, IInv', FreshInv, UNCHANGED <<addrs, routes, current_time>>,
         NEW date \in Nat, current_time <= date,
         \A i \in NeighborSlots : \/ neighbors'[i] = neighbors[i]
                                  \/ neighbors'[i].exp = date
  PROVE  FreshInv'
<1>1. current_time \in Nat /\ DOMAIN neighbors = NeighborSlots /\ DOMAIN neighbors' = NeighborSlots
  BY RowDates DEF IInv, ClockOK, CacheInv, CacheTable
<1>2. AllFresh(neighbors', current_time)
  BY <1>1, FreshStep DEF FreshInv
<1> QED BY <1>2 DEF FreshInv

(* A tick.                                                                 *)
LEMMA TickFresh ==
  ASSUME IInv, IInv', FreshInv, NEW granted, esix_periodic_callback(granted)
  PROVE  FreshInv'
<1>1. current_time \in Nat /\ current_time' = current_time + 1
  BY DEF IInv, ClockOK, esix_periodic_callback
<1>2. /\ DOMAIN addrs = AddrSlots /\ DOMAIN routes = RouteSlots /\ DOMAIN neighbors = NeighborSlots
      /\ DOMAIN addrs' = AddrSlots /\ DOMAIN routes' = RouteSlots /\ DOMAIN neighbors' = NeighborSlots
  BY RowDates DEF IInv, AddrInv, RouteInv, CacheInv, AddrTable, RouteTable, CacheTable
<1>3. CASE ~HousekeepTick(current_time + 1)
  <2>1. UNCHANGED <<addrs, routes, neighbors>>
    BY <1>1, <1>3 DEF esix_periodic_callback
  <2> QED BY <1>1, <1>2, <1>3, <2>1, RowDates, FreshTick DEF FreshInv
<1>4. CASE HousekeepTick(current_time + 1)
  <2> DEFINE t == current_time + 1
             due == {i \in NeighborSlots : Due(neighbors[i], t)} \cap granted
             s == Solicits(due)
  <2>1. /\ routes' = Kept(routes, t) /\ addrs' = Kept(addrs, t)
        /\ neighbors' = Kept(neighbors, t) \/ neighbors' = Kept(s, t)
    BY <1>1, <1>4 DEF esix_periodic_callback, esix_ip_housekeep
  <2>2. \A i \in NeighborSlots : s[i] = neighbors[i]
                                 \/ (neighbors[i] # NoRow /\ s[i].exp = neighbors[i].exp)
    <3>1. \A i \in due : neighbors[i] # NoRow
      BY DEF Due
    <3>2. \A row \in NeighborRow : Marked(row).exp = row.exp
      BY DEF NeighborRow, Marked
    <3> HIDE DEF due
    <3> QED BY <3>1, <3>2, CacheFacts DEF IInv, Solicits
  <2>3. DOMAIN s = NeighborSlots
    BY DEF Solicits
  <2> HIDE DEF s, t
  <2>4. \A i \in AddrSlots : addrs'[i] = NoRow
          \/ (addrs[i] # NoRow /\ addrs'[i] = addrs[i] /\ ~Lapsed(addrs'[i], t))
    BY <1>2, <2>1 DEF Kept
  <2>5. \A i \in RouteSlots : routes'[i] = NoRow
          \/ (routes[i] # NoRow /\ routes'[i] = routes[i] /\ ~Lapsed(routes'[i], t))
    BY <1>2, <2>1 DEF Kept
  <2>6. \A i \in NeighborSlots : neighbors'[i] = NoRow
          \/ (neighbors[i] # NoRow /\ neighbors'[i].exp = neighbors[i].exp /\ ~Lapsed(neighbors'[i], t))
    <3>1. CASE neighbors' = Kept(neighbors, t)
      BY <1>2, <3>1 DEF Kept
    <3>2. CASE neighbors' = Kept(s, t)
      BY <2>2, <2>3, <3>2 DEF Kept
    <3> QED BY <2>1, <3>1, <3>2
  <2>7. AllFresh(addrs', t)
    BY <1>1, <1>2, <1>4, <2>4, RowDates, FreshTick DEF FreshInv, t
  <2>8. AllFresh(routes', t)
    BY <1>1, <1>2, <1>4, <2>5, RowDates, FreshTick DEF FreshInv, t
  <2>9. AllFresh(neighbors', t)
    BY <1>1, <1>2, <1>4, <2>6, RowDates, FreshTick DEF FreshInv, t
  <2> QED BY <1>1, <2>7, <2>8, <2>9 DEF FreshInv, t
<1> QED BY <1>3, <1>4

(* Nothing that expires is used for more than 2 seconds past its date, in  *)
(* any order of frames and ticks, although housekeeping runs on odd ticks  *)
(* only - provided no advertised lifetime but the infinite one is so long  *)
(* that its date wraps: the code does not guard against one that is.       *)
THEOREM NothingOutlivesItsDate ==
  ASSUME LifetimesFit
  PROVE  Spec => []LapsedGone
<1>1. ASSUME Init
      PROVE  FreshInv
  <2>1. IInv /\ addrs = InitAddrs /\ routes = DefaultRoutes /\ neighbors = InitNeighbors
    BY <1>1, InitInv DEF Init
  <2>2. \A i \in AddrSlots : addrs[i] # NoRow => addrs[i].exp = 0
    BY <2>1, InitAddrsIs DEF LinkLocalRow, GroupRow
  <2>3. \A i \in RouteSlots : routes[i] # NoRow => routes[i].exp = 0
    BY <2>1, DefaultRoutesStay, DefaultRoutesIs
  <2>4. \A i \in NeighborSlots : neighbors[i] # NoRow => neighbors[i].exp = 0
    BY <2>1, InitNeighborsInv, OwnRowType
  <2> QED BY <2>1, <2>2, <2>3, <2>4, RowDates DEF FreshInv, AllFresh, Fresh
<1>2. ASSUME IInv, IInv', FreshInv, [Next]_vars
      PROVE  FreshInv'
  <2>1. ASSUME UNCHANGED <<addrs, routes, neighbors, current_time>>
        PROVE  FreshInv'
    BY <1>2, <2>1 DEF FreshInv
  <2>2. ASSUME NEW f \in NsIn, NEW mem \in Mems(NeighborAllocs), process_neighbor_sol(f, mem)
        PROVE  FreshInv'
    <3> DEFINE date == Date(NEW_NEIGHBOR_TIMEOUT)
    <3>1. date \in Nat /\ current_time <= date
      BY <1>2, NeighborDates, DatesAssumption DEF IInv, ClockOK
    <3>2. UNCHANGED <<addrs, routes, current_time>> /\ DOMAIN neighbors = NeighborSlots
      BY <1>2, <2>2, RowDates DEF process_neighbor_sol
    <3>3. \A i \in NeighborSlots : neighbors'[i] = neighbors[i] \/ neighbors'[i].exp = date
      BY <2>2, <3>2 DEF process_neighbor_sol, AddNeighbor, Store
    <3> HIDE DEF date
    <3> QED BY <1>2, <3>1, <3>2, <3>3, NeighborFresh
  <2>3. ASSUME NEW f \in NaIn, NEW mem \in Mems({"neighbor"}), process_neighbor_adv(f, mem)
        PROVE  FreshInv'
    <3> DEFINE date == Date(NEIGHBOR_TIMEOUT)
    <3>1. date \in Nat /\ current_time <= date
      BY <1>2, NeighborDates, DatesAssumption DEF IInv, ClockOK
    <3>2. UNCHANGED <<addrs, routes, current_time>> /\ DOMAIN neighbors = NeighborSlots
      BY <1>2, <2>3, RowDates DEF process_neighbor_adv
    <3>3. \A i \in NeighborSlots : neighbors'[i] = neighbors[i] \/ neighbors'[i].exp = date
      <4>1. \A i \in NeighborIndex(neighbors, f.target) : neighbors[i] \in NeighborRow
        BY <1>2, CacheFacts, NeighborIndexIs DEF IInv
      <4>2. \A row \in NeighborRow :
              [row EXCEPT !.sollicited = FALSE, !.status = "REACHABLE", !.exp = date].exp = date
        BY DEF NeighborRow
      <4> HIDE DEF date
      <4> QED BY <2>3, <3>2, <4>1, <4>2 DEF process_neighbor_adv, AddNeighbor, Store, date
    <3> HIDE DEF date
    <3> QED BY <1>2, <3>1, <3>2, <3>3, NeighborFresh
  <2>4. ASSUME NEW f \in RaIn, NEW mem \in Mems(RouterAllocs), process_router_adv(f, mem)
        PROVE  FreshInv'
    BY <1>2, <2>4, RouterFresh
  <2>5. ASSUME NEW granted \in Grants, esix_periodic_callback(granted)
        PROVE  FreshInv'
    BY <1>2, <2>5, TickFresh
  <2> QED BY <1>2, <2>1, <2>2, <2>3, <2>4, <2>5
     DEF Next, vars, process_echo_req, send_unreachable, send_ttl_expired, Answer,
         process_mld_query, UpperSend
<1>3. IInv /\ FreshInv => LapsedGone
  BY RowDates DEF FreshInv, AllFresh, Fresh, LapsedGone
<1>4. IInv /\ [Next]_vars => IInv'
  BY StepInv
<1>5. IInv /\ FreshInv /\ [Next]_vars => (IInv /\ FreshInv)'
  BY <1>2, <1>4
<1>6. Init => IInv /\ FreshInv
  BY <1>1, InitInv
<1> QED BY <1>3, <1>5, <1>6, PTL DEF Spec

-----------------------------------------------------------------------------
(* Removal of neighbours.                                                  *)

(* The last tick that housekeeping ran on.                                 *)
LastHousekeep == IF HousekeepTick(current_time) THEN current_time ELSE current_time - 1

(* A neighbour that has not been solicited does not lapse before the next  *)
(* housekeeping is over, and "due" does not wrap.                          *)
Unhurried(row) ==
  row # NoRow /\ row.exp # 0 =>
    /\ row.exp >= STALE_DURATION
    /\ ~row.sollicited => row.exp >= LastHousekeep + 2
UnhurriedInv == \A i \in NeighborSlots : Unhurried(neighbors[i])

(* Rows that are old, solicited, or dated by a timeout.                    *)
LEMMA UnhurriedStep ==
  ASSUME IInv, IInv', UnhurriedInv, STALE_DURATION >= 2, current_time' = current_time,
         NEW date \in Nat, date >= current_time + STALE_DURATION,
         \A i \in NeighborSlots :
           \/ neighbors'[i] = neighbors[i]
           \/ neighbors'[i].exp = date
           \/ neighbors[i] # NoRow /\ neighbors'[i].exp = neighbors[i].exp /\ neighbors'[i].sollicited
  PROVE  UnhurriedInv'
<1> SUFFICES ASSUME NEW i \in NeighborSlots
             PROVE  Unhurried(neighbors[i])'
  BY DEF UnhurriedInv
<1>1. current_time \in Nat /\ STALE_DURATION \in Nat /\ LastHousekeep' = LastHousekeep
      /\ LastHousekeep \in Int /\ LastHousekeep <= current_time
  BY DatesAssumption DEF IInv, ClockOK, LastHousekeep
<1>2. Unhurried(neighbors[i])
  BY DEF UnhurriedInv
<1>3. CASE neighbors'[i] = neighbors[i]
  BY <1>1, <1>2, <1>3 DEF Unhurried
<1>4. CASE neighbors'[i].exp = date
  BY <1>1, <1>4 DEF Unhurried
<1>5. CASE neighbors[i] # NoRow /\ neighbors'[i].exp = neighbors[i].exp /\ neighbors'[i].sollicited
  BY <1>2, <1>5 DEF Unhurried
<1> QED BY <1>3, <1>4, <1>5

(* With memory for the solicitations, a tick solicits what lapses before   *)
(* the next but one, and removes only what has been solicited before.      *)
LEMMA TickUnhurried ==
  ASSUME IInv, IInv', UnhurriedInv, STALE_DURATION >= 2, "packet" \notin MayFail,
         NEW granted \in Grants, esix_periodic_callback(granted)
  PROVE  /\ UnhurriedInv'
         /\ \A i \in NeighborSlots :
              neighbors[i] # NoRow /\ neighbors'[i] = NoRow => neighbors[i].sollicited
<1>1. /\ current_time \in Nat /\ current_time' = current_time + 1 /\ current_time + 1 < TimeMod
      /\ STALE_DURATION \in Nat /\ TimeMod \in Nat \ {0}
  <2>1. current_time \in Nat /\ current_time' = current_time + 1 /\ current_time < MaxTime
    BY DEF IInv, ClockOK, esix_periodic_callback
  <2> QED BY <2>1, DatesAssumption, TablesAssumption
<1>2. CASE ~HousekeepTick(current_time + 1)
  <2>1. UNCHANGED <<addrs, routes, neighbors>>
    BY <1>1, <1>2 DEF esix_periodic_callback
  <2>2. LastHousekeep' = LastHousekeep
    BY <1>1, <1>2 DEF LastHousekeep, HousekeepTick
  <2> QED BY <2>1, <2>2 DEF UnhurriedInv, Unhurried
<1>3. CASE HousekeepTick(current_time + 1)
  <2> DEFINE t == current_time + 1
             due == {i \in NeighborSlots : Due(neighbors[i], t)} \cap granted
  <2>1. LastHousekeep' = t /\ LastHousekeep = t - 2
    BY <1>1, <1>3 DEF LastHousekeep, HousekeepTick
  <2>2. due = {i \in NeighborSlots : Due(neighbors[i], t)}
    BY DEF Grants
  <2>3. neighbors' = Kept(Solicits(due), t)
    <3>1. TypeAddress(addrs', LINK_LOCAL) # {}
      BY LinkLocalIs DEF IInv
    <3> QED BY <1>1, <1>3, <3>1 DEF esix_periodic_callback, esix_ip_housekeep
  <2> HIDE DEF due
  <2>4. ASSUME NEW i \in NeighborSlots, neighbors[i] # NoRow
        PROVE  /\ Unhurried(neighbors[i])'
               /\ neighbors'[i] = NoRow => neighbors[i].sollicited
    <3> DEFINE row == neighbors[i]
               marked == Solicits(due)[i]
    <3>1. row \in NeighborRow /\ Unhurried(row) /\ row.exp \in Nat /\ row.exp < TimeMod
      BY <1>1, <2>4, CacheFacts DEF IInv, UnhurriedInv, NeighborRow, Dates
    <3>2. neighbors'[i] = IF Lapsed(marked, t) THEN NoRow ELSE marked
      BY <2>3 DEF Kept, Solicits
    <3>3. /\ marked # NoRow /\ marked.exp = row.exp
          /\ i \in due => marked.sollicited
          /\ i \notin due => marked = row
      <4>1. Marked(row) \in NeighborRow /\ Marked(row).exp = row.exp /\ Marked(row).sollicited
        BY <3>1 DEF Marked, NeighborRow, Status
      <4>2. marked = IF i \in due THEN Marked(row) ELSE row
        BY DEF Solicits
      <4> HIDE DEF row, marked
      <4> QED BY <2>4, <4>1, <4>2, NoRowAssumption DEF row
    <3>4. row.exp # 0 => (i \in due <=> row.exp - STALE_DURATION < t)
      <4>1. ASSUME row.exp # 0
            PROVE  (row.exp + TimeMod - STALE_DURATION) % TimeMod = row.exp - STALE_DURATION
        <5>1. row.exp - STALE_DURATION \in 0 .. (TimeMod - 1)
          BY <1>1, <2>4, <3>1, <4>1 DEF Unhurried
        <5>2. row.exp + TimeMod - STALE_DURATION = TimeMod + (row.exp - STALE_DURATION)
          BY <1>1, <3>1
        <5> HIDE DEF row
        <5> QED BY <1>1, <5>1, <5>2
      <4> QED BY <2>2, <2>4, <4>1 DEF Due
    <3> HIDE DEF row, marked
    <3>5. ASSUME neighbors'[i] = NoRow
          PROVE  row.sollicited
      <4>1. row.exp # 0 /\ row.exp < t
        BY <3>2, <3>3, <3>5 DEF Lapsed
      <4> QED BY <1>1, <2>1, <2>4, <3>1, <4>1 DEF Unhurried, row
    <3>6. ASSUME neighbors'[i] # NoRow, neighbors'[i].exp # 0
          PROVE  /\ neighbors'[i].exp >= STALE_DURATION
                 /\ ~neighbors'[i].sollicited => neighbors'[i].exp >= t + 2
      <4>1. neighbors'[i] = marked /\ row.exp # 0
        BY <3>2, <3>3, <3>6
      <4>2. row.exp >= STALE_DURATION
        BY <2>4, <3>1, <4>1 DEF Unhurried, row
      <4>3. ASSUME ~marked.sollicited
            PROVE  row.exp >= t + 2
        <5>1. ~(row.exp - STALE_DURATION < t)
          BY <3>3, <3>4, <4>1, <4>3
        <5> QED BY <1>1, <3>1, <5>1
      <4> QED BY <3>3, <4>1, <4>2, <4>3
    <3> QED BY <2>1, <3>5, <3>6 DEF Unhurried, row
  <2>5. ASSUME NEW i \in NeighborSlots, neighbors[i] = NoRow
        PROVE  neighbors'[i] = NoRow
    <3>1. i \notin due
      BY <2>2, <2>5 DEF Due
    <3> QED BY <2>3, <2>5, <3>1 DEF Kept, Solicits
  <2> QED BY <2>4, <2>5 DEF UnhurriedInv, Unhurried
<1> QED BY <1>2, <1>3

(* "don't delete the entry immediately": when there is memory for the      *)
(* solicitations, no neighbour is removed that an earlier housekeeping has *)
(* not solicited.  STALE_DURATION is 3 in the code; 1, which is less than  *)
(* the period of housekeeping, would not do.                               *)
THEOREM SolicitedFirst ==
  ASSUME STALE_DURATION >= 2, "packet" \notin MayFail
  PROVE  Spec => SolicitedBeforeRemoval
<1>1. ASSUME Init
      PROVE  UnhurriedInv
  <2>1. \A i \in NeighborSlots : neighbors[i] # NoRow => neighbors[i].exp = 0
    BY <1>1, InitNeighborsInv, OwnRowType DEF Init
  <2> QED BY <2>1 DEF UnhurriedInv, Unhurried
<1>2. ASSUME IInv, IInv', UnhurriedInv, [Next]_vars
      PROVE  /\ UnhurriedInv'
             /\ \A i \in NeighborSlots :
                  neighbors[i] # NoRow /\ neighbors'[i] = NoRow => neighbors[i].sollicited
  <2> DEFINE Goal == /\ UnhurriedInv'
                     /\ \A i \in NeighborSlots :
                          neighbors[i] # NoRow /\ neighbors'[i] = NoRow => neighbors[i].sollicited
             First == Date(NEW_NEIGHBOR_TIMEOUT)
             Next1 == Date(NEIGHBOR_TIMEOUT)
  <2>1. ASSUME UNCHANGED <<neighbors, current_time>>
        PROVE  Goal
    BY <1>2, <2>1 DEF UnhurriedInv, Unhurried, LastHousekeep
  <2>2. /\ First \in Nat /\ First >= current_time + STALE_DURATION
        /\ Next1 \in Nat /\ Next1 >= current_time + STALE_DURATION
        /\ DOMAIN neighbors = NeighborSlots
        /\ \A i \in NeighborSlots : neighbors[i] # NoRow => neighbors[i] \in NeighborRow
    BY <1>2, NeighborDates, DatesAssumption, CacheFacts DEF IInv, ClockOK
  <2>3. ASSUME NEW f \in NsIn, NEW mem \in Mems(NeighborAllocs), process_neighbor_sol(f, mem)
        PROVE  Goal
    <3> DEFINE new == [addr |-> f.src, lla |-> f.lla, exp |-> First,
                       sollicited |-> FALSE, status |-> "STALE"]
    <3>1. /\ \A i \in NeighborSlots : neighbors'[i] = neighbors[i] \/ neighbors'[i] = new
          /\ current_time' = current_time
      BY <2>2, <2>3 DEF process_neighbor_sol, AddNeighbor, Store
    <3>2. new \in NeighborRow /\ new # NoRow /\ new.exp = First
      <4>1. f.src \in Ip6Addr /\ f.lla \in Llas
        BY RemoteTypes, AddressTypes DEF NsIn
      <4>2. new \in NeighborRow
        BY <1>2, <4>1, HandlerDates DEF NeighborRow, Status
      <4> QED BY <4>2, NoRowAssumption
    <3> HIDE DEF new, First
    <3>3. \A i \in NeighborSlots : neighbors'[i] = neighbors[i]
                                   \/ (neighbors'[i] = new /\ neighbors'[i].exp = First)
      BY <3>1, <3>2
    <3>4. UnhurriedInv'
      BY <1>2, <2>2, <3>1, <3>3, UnhurriedStep
    <3> QED BY <3>2, <3>3, <3>4
  <2>4. ASSUME NEW f \in NaIn, NEW mem \in Mems({"neighbor"}), process_neighbor_adv(f, mem)
        PROVE  Goal
    <3> DEFINE known == NeighborIndex(neighbors, f.target)
               new == [addr |-> f.target, lla |-> f.lla, exp |-> Next1,
                       sollicited |-> FALSE, status |-> "REACHABLE"]
               confirmed(i) == [neighbors[i] EXCEPT !.sollicited = FALSE, !.status = "REACHABLE",
                                                    !.exp = Next1]
    <3>1. /\ \A i \in NeighborSlots :
               \/ neighbors'[i] = neighbors[i] \/ neighbors'[i] = new
               \/ i \in known /\ neighbors'[i] = confirmed(i)
          /\ current_time' = current_time
      BY <2>2, <2>4 DEF process_neighbor_adv, AddNeighbor, Store
    <3>2. new \in NeighborRow /\ new # NoRow /\ new.exp = Next1
      <4>1. f.target \in Ip6Addr /\ f.lla \in Llas
        BY RemoteTypes DEF NaIn
      <4>2. new \in NeighborRow
        BY <1>2, <4>1, HandlerDates DEF NeighborRow, Status
      <4> QED BY <4>2, NoRowAssumption
    <3>3. \A i \in known : confirmed(i) # NoRow /\ confirmed(i).exp = Next1
      <4>1. \A i \in known : neighbors[i] \in NeighborRow
        BY <1>2, <2>2, CacheFacts, NeighborIndexIs DEF IInv
      <4>2. Next1 \in Dates
        BY <1>2, HandlerDates
      <4> HIDE DEF known, Next1
      <4>3. \A i \in known : confirmed(i) \in NeighborRow
        BY <4>1, <4>2, MarkedType
      <4>4. \A i \in known : confirmed(i).exp = Next1
        BY <4>1 DEF NeighborRow
      <4> QED BY <4>3, <4>4, NoRowAssumption
    <3> HIDE DEF new, confirmed, known, Next1
    <3>4. \A i \in NeighborSlots : neighbors'[i] = neighbors[i]
                                   \/ (neighbors'[i] # NoRow /\ neighbors'[i].exp = Next1)
      BY <3>1, <3>2, <3>3
    <3>5. UnhurriedInv'
      BY <1>2, <2>2, <3>1, <3>4, UnhurriedStep
    <3> QED BY <3>4, <3>5
  <2>5. ASSUME NEW f \in RaIn, NEW mem \in Mems(RouterAllocs), process_router_adv(f, mem)
        PROVE  Goal
    <3>1. neighbors' = neighbors \/ \E a : neighbors' = MarkSollicited(neighbors, a)
      BY <2>5 DEF process_router_adv, RouterAdvWithPrefix, RouterAdvWithoutPrefix
    <3>2. current_time' = current_time
      BY <2>5 DEF process_router_adv
    <3>3. CASE neighbors' = neighbors
      BY <2>1, <3>2, <3>3
    <3>4. ASSUME NEW a, neighbors' = MarkSollicited(neighbors, a)
          PROVE  Goal
      <4>1. \A row \in NeighborRow :
              LET marked == [row EXCEPT !.sollicited = TRUE, !.status = "STALE"]
              IN marked \in NeighborRow /\ marked.exp = row.exp /\ marked.sollicited
        BY DEF NeighborRow, Status
      <4>2. \A i \in NeighborIndex(neighbors, a) : i \in NeighborSlots /\ neighbors[i] # NoRow
        BY <1>2, CacheFacts, NeighborIndexIs DEF IInv
      <4>3. ASSUME NEW i \in NeighborSlots
            PROVE  \/ neighbors'[i] = neighbors[i]
                   \/ /\ neighbors[i] # NoRow /\ neighbors'[i] # NoRow
                      /\ neighbors'[i].exp = neighbors[i].exp /\ neighbors'[i].sollicited
        <5>1. neighbors'[i] = IF i \in NeighborIndex(neighbors, a)
                                THEN [neighbors[i] EXCEPT !.sollicited = TRUE, !.status = "STALE"]
                                ELSE neighbors[i]
          BY <2>2, <3>4 DEF MarkSollicited
        <5>2. CASE i \in NeighborIndex(neighbors, a)
          BY <2>2, <4>1, <4>2, <5>1, <5>2, NoRowAssumption
        <5> QED BY <5>1, <5>2
      <4>4. UnhurriedInv'
        BY <1>2, <2>2, <3>2, <4>3, UnhurriedStep
      <4> QED BY <4>3, <4>4
    <3> QED BY <3>1, <3>3, <3>4
  <2>6. ASSUME NEW granted \in Grants, esix_periodic_callback(granted)
        PROVE  Goal
    BY <1>2, <2>6, TickUnhurried
  <2> QED BY <1>2, <2>1, <2>3, <2>4, <2>5, <2>6
     DEF Next, vars, process_echo_req, send_unreachable, send_ttl_expired, Answer,
         process_mld_query, UpperSend
<1>3. Init => IInv /\ UnhurriedInv
  BY <1>1, InitInv
<1>4. IInv /\ UnhurriedInv /\ [Next]_vars => (IInv /\ UnhurriedInv)'
  BY <1>2, StepInv
<1>5. IInv /\ IInv' /\ UnhurriedInv /\ [Next]_vars
      => [\A i \in NeighborSlots :
            neighbors[i] # NoRow /\ neighbors'[i] = NoRow => neighbors[i].sollicited]_vars
  BY <1>2
<1> QED BY <1>3, <1>4, <1>5, PTL DEF Spec, SolicitedBeforeRemoval

=============================================================================
