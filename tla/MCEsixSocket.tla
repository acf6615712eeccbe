---------------------------- MODULE MCEsixSocket ----------------------------
(***************************************************************************)
(* Small instances of EsixSocket for TLC.                                  *)
(***************************************************************************)
EXTENDS EsixSocket, TLC

CONSTANTS a1, p1, g1, x, f1, f2

MCOwnAddr == {a1}
MCPeers == {p1}
MCPeerPorts == {7}
MCBindPorts == {80}
MCInPorts == {80, 32}
OneByte == {<<x>>}

AllFlags == {"SYN", "SYN|ACK", "ACK", "FIN|ACK", "RST"}
DataFlags == {"SYN|ACK", "ACK", "FIN|ACK", "RST"}

MCOneFd == {f1}
MCFds == {f1, f2}
FdSymmetry == Permutations(MCFds)

AllNums == Seqn

(* Fingerprints leave out what no later step reads: wire; of a CLOSED slot *)
(* everything but what connect() and sendto() still use, and all but the   *)
(* queue when no descriptor variable and no accept queue names it.  Dates  *)
(* count from the present, since the code only compares them with it:      *)
(* every relative state is explored, and MaxTime is never reached.         *)
Named(s) == Queued(s) \/ \E f \in Fds : fd[f] = s
Relevant(s) ==
  LET k == esix_sockets[s] IN
  CASE k.state # "CLOSED" -> k
    [] k.state = "CLOSED" /\ Named(s) ->
         [k EXCEPT !.raddr = in6addr_any, !.rport = 0, !.ackn = 0]
    [] OTHER -> [Blank EXCEPT !.child = k.child, !.sent = k.sent, !.recv = k.recv]
FromNow(k) ==
  [k EXCEPT
     !.rexmit_date = IF @ = 0 THEN <<>> ELSE <<@ - current_time>>,
     !.sent = [i \in DOMAIN @ |-> [@[i] EXCEPT !.t_sent = current_time - @]]]
Table == <<[s \in Socks |-> FromNow(Relevant(s))], esix_last_port, fd>>

=============================================================================
