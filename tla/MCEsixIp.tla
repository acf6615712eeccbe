------------------------------ MODULE MCEsixIp ------------------------------
(***************************************************************************)
(* Small instances of EsixIp for TLC.                                      *)
(***************************************************************************)
EXTENDS EsixIp

MCLlas == {"me", "h1", "h2"}
PeerLinkLocal(h) == <<"fe80", h>>
TwoHosts == {PeerLinkLocal("h1"), PeerLinkLocal("h2")}
OneRouter == {PeerLinkLocal("h1")}

OnePrefix == {"p"}
LinkLocalOnly == {"fe80"}

Option(p, len64, valid) == [prefix |-> p, len64 |-> len64, valid |-> valid]
Infinite == TimeMod - 1

(* Two hosts in the cache, one of them a router with a prefix: withdrawn,  *)
(* advertised, for ever, and with an option of another length behind it.   *)
NdInfos == {<<Option("p", TRUE, 0)>>, <<Option("p", TRUE, 2)>>,
            <<Option("p", TRUE, Infinite)>>,
            <<Option("p", TRUE, 2), Option("p", FALSE, 3)>>}

(* Routers that advertise and withdraw prefixes and default routes.        *)
RdInfos ==
  {<<>>} \cup {<<Option(p, TRUE, v)>> : p \in Prefixes, v \in {0, 1}}

(* Fingerprints leave out wire, which no step reads, and count dates from  *)
(* the present; "never" stays apart, and so does the first second, when an *)
(* infinite lifetime wraps to it.                                          *)
FromNow(tbl) ==
  [i \in DOMAIN tbl |->
     IF tbl[i] = NoRow THEN tbl[i]
     ELSE [tbl[i] EXCEPT !.exp = IF @ = 0 THEN <<>> ELSE <<@ - current_time>>]]
RelativeTables ==
  <<FromNow(addrs), FromNow(routes), FromNow(neighbors), current_time % 2, current_time = 1>>

=============================================================================
