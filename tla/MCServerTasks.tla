--------------------------- MODULE MCServerTasks ----------------------------
(***************************************************************************)
(* Small instances of ServerTasks for TLC: at most two servers at once.    *)
(***************************************************************************)
EXTENDS ServerTasks

CONSTANTS a1, p1

MCOwnAddrs == {a1}
MCPeers == {p1}
MCPeerPorts == {1, 2}
MCPayloads == {<<"exit">>, <<"text">>}
MCExit == <<"exit">>
MCText == <<"text">>
MCInFlags == {"SYN", "ACK", "FIN|ACK", "RST"}
MCPorts == {Port[s] : s \in Servers}
MCFds == {Soc(s) : s \in Servers} \cup {Conn(s) : s \in TcpServers}
MCDemos ==
  {[http |-> {1}, chargen |-> {1}], [http |-> {1}, mdns |-> {1}],
   [tcp |-> {1, 2}], [udp |-> {1}, echo |-> {2}]}

(* Fingerprints leave out wire, which no step and no state property reads, *)
(* and count dates from the present.                                       *)
FromNow(k) ==
  [k EXCEPT
     !.rexmit_date = IF @ = 0 THEN <<>> ELSE <<@ - current_time>>,
     !.sent = [i \in DOMAIN @ |-> [@[i] EXCEPT !.t_sent = current_time - @]]]
Relative ==
  <<[s \in Socks |-> FromNow(esix_sockets[s])], esix_last_port, fd, up, serverVars>>
=============================================================================
