----------------------------- MODULE EsixSocket -----------------------------
(***************************************************************************)
(* The socket layer of esix: the table esix_sockets, the calls of the      *)
(* socket API (socket.c), the TCP and UDP receive handlers (tcp6.c,        *)
(* udp6.c) and the clock with the retransmission housekeeping (esix.c,     *)
(* socket.c).                                                              *)
(*                                                                         *)
(* Every call and every handler is one step.  The environment is open: the *)
(* applications make any call on a descriptor they hold, the network       *)
(* delivers any segment, in any order and any number of times.  Whatever   *)
(* is handed to esix_tcp_send, esix_udp_send or the ICMP error path by a   *)
(* step is recorded in "wire".  A call that is refused and changes nothing *)
(* is not a step.  A failed allocation is a choice of the environment.     *)
(*                                                                         *)
(* The one list of queue elements of a socket is kept as three sequences,  *)
(* one per qe_type: the code only ever appends at the end, looks up the    *)
(* first element of a type and counts all elements.                        *)
(***************************************************************************)
EXTENDS Integers, Sequences, FiniteSets

CONSTANTS
  ESIX_MAX_SOCK,     \* slots of the socket table
  ESIX_QUEUE_DEPHT,  \* per socket limit that esix_queue_data enforces
  FIRST_PORT,        \* range in which socket() chooses ports
  LAST_PORT,
  MAX_RETX_TIME,     \* age after which an unacknowledged segment is given up
  SeqMod,            \* sequence numbers are unsigned: 2^32 in the code
  in6addr_any,       \* the unspecified address
  OwnAddrs,          \* the addresses of the node
  FirstAddr,         \* the one in addrs[0]
  Peers,             \* addresses of remote hosts
  Groups,            \* multicast addresses applications send to or have joined
  PeerPorts,         \* ports remote hosts use
  BindPorts,         \* ports applications bind to
  InPorts,           \* ports of the node that remote hosts send to
  InFlags,           \* TCP flag combinations the network delivers
  SegNums,           \* sequence and acknowledgement numbers it delivers
  Payloads,          \* non-empty payloads
  Fds,               \* descriptor variables of the applications
  NoSock,            \* what a descriptor variable holds when unused
  MaxChild,          \* bound: child elements in one queue
  MaxTime            \* bound: ticks of the clock

SOCK_STREAM == "SOCK_STREAM"
SOCK_DGRAM == "SOCK_DGRAM"

Socks == 0 .. (ESIX_MAX_SOCK - 1)
Seqn == 0 .. (SeqMod - 1)
(* Mutant of Plus: sequence numbers do not wrap.                           *)
Plus_NoWrap(a, n) == a + n

Plus(a, n) == (a + n) % SeqMod

(* The flag combinations esix_tcp_process tells apart; it drops the others. *)
AckFlags == {"ACK", "PSH|ACK", "CWR|PSH|ACK"}
FinFlags == {"FIN", "FIN|ACK"}
RstFlags == {"RST", "RST|ACK"}
TcpFlags == {"SYN", "SYN|ACK"} \cup AckFlags \cup FinFlags \cup RstFlags

ASSUME SizesAssumption ==
  /\ ESIX_MAX_SOCK \in Nat \ {0}
  /\ ESIX_QUEUE_DEPHT \in Nat
  /\ MAX_RETX_TIME \in Nat
  /\ SeqMod \in Nat \ {0}
  /\ MaxChild \in Nat /\ MaxTime \in Nat

(* config.h: "make sure that ESIX_MAX_SOCK < LAST_PORT - FIRST_PORT": a    *)
(* port is always free, so the search in socket() ends.                    *)
ASSUME PortsAssumption ==
  /\ FIRST_PORT \in Nat \ {0}
  /\ LAST_PORT \in Nat
  /\ ESIX_MAX_SOCK < LAST_PORT - FIRST_PORT
  /\ BindPorts \cup PeerPorts \cup InPorts \subseteq Nat

ASSUME EnvAssumption ==
  /\ FirstAddr \in OwnAddrs
  /\ in6addr_any \notin OwnAddrs \cup Peers \cup Groups
  /\ NoSock \notin Socks
  /\ InFlags \subseteq TcpFlags
  /\ SegNums \subseteq Seqn
  /\ \A data \in Payloads : Len(data) \in Nat \ {0}

VARIABLES
  esix_sockets,    \* the socket table
  esix_last_port,  \* last port socket() chose
  current_time,    \* ticks since boot; 0 is never used
  fd,              \* the descriptor each application variable holds
  wire             \* what the last step handed to the layers below

vars == <<esix_sockets, esix_last_port, current_time, fd, wire>>

Addrs == {in6addr_any} \cup OwnAddrs \cup Peers \cup Groups
SockStates == {"CLOSED", "LISTEN", "SYN_SENT", "SYN_RECEIVED",
               "ESTABLISHED", "FIN_WAIT_2", "RESERVED"}
SentElement == [seqn : Seqn, data : Payloads, t_sent : Nat]
RecvElement == [from : Addrs, fport : Nat, data : Payloads]
EsixSock ==
  [proto : {"none", SOCK_STREAM, SOCK_DGRAM}, state : SockStates,
   laddr : Addrs, raddr : Addrs, lport : Nat, rport : Nat,
   seqn : Seqn, ackn : Seqn, rexmit_date : Nat,
   child : Seq(Socks), sent : Seq(SentElement), recv : Seq(RecvElement)]
Packet ==
  [src : Addrs, dst : Addrs, sport : Nat, dport : Nat,
   flags : TcpFlags \cup {"UDP", "PORT_UNREACHABLE"},
   seqn : Seqn, ackn : Seqn, data : Payloads \cup {<<>>}]

-----------------------------------------------------------------------------
(* Records of the table.                                                   *)

(* Static storage plus esix_socket_init.                                   *)
Blank == [proto |-> "none", state |-> "CLOSED",
          laddr |-> in6addr_any, raddr |-> in6addr_any,
          lport |-> 0, rport |-> 0, seqn |-> 0, ackn |-> 0, rexmit_date |-> 0,
          child |-> <<>>, sent |-> <<>>, recv |-> <<>>]

(* What socket() stores in the slot it takes.                              *)
Reserved(type, port) ==
  [Blank EXCEPT !.proto = type, !.state = "RESERVED", !.lport = port]

(* close(), the RST handler and housekeeping: free the queue, then CLOSED. *)
esix_socket_free_queue(k) ==
  [k EXCEPT !.child = <<>>, !.sent = <<>>, !.recv = <<>>]
(* Mutant of Closed: the queue is not freed.                               *)
Closed_NoFree(k) == [k EXCEPT !.state = "CLOSED"]
Closed(k) == [esix_socket_free_queue(k) EXCEPT !.state = "CLOSED"]

(* esix_queue_data counts from 0 and refuses when it meets an element with *)
(* index ESIX_QUEUE_DEPHT.                                                 *)
QueueLen(k) == Len(k.child) + Len(k.sent) + Len(k.recv)
QueueFull(k) == QueueLen(k) > ESIX_QUEUE_DEPHT

(* esix_socket_expire_e: the longest prefix of the sent elements whose end *)
(* is, as plain unsigned numbers, at most ackn.                            *)
Expired(e, ackn) == Plus(e.seqn, Len(e.data)) <= ackn
ExpiredPrefix(q, ackn) ==
  {n \in 0 .. Len(q) : /\ \A i \in 1 .. n : Expired(q[i], ackn)
                       /\ n < Len(q) => ~Expired(q[n + 1], ackn)}
(* Mutant of DropSent: frees the youngest segments, not the oldest.        *)
DropSent_Youngest(k, n) == [k EXCEPT !.sent = SubSeq(k.sent, 1, Len(k.sent) - n)]
DropSent(k, n) == [k EXCEPT !.sent = SubSeq(k.sent, n + 1, Len(k.sent))]

(* a ^ 2 in C: exclusive or with binary 10.                                *)
XorTwo(a) == IF (a \div 2) % 2 = 1 THEN a - 2 ELSE a + 2

-----------------------------------------------------------------------------
(* Lookups in the table.  A lookup yields the set that holds the slot it   *)
(* finds, or the empty set where the code returns -1.                      *)

Lowest(S) == {s \in S : \A u \in S : s <= u}

(* Mutant of PortAvailable: a port is free until its socket listens.       *)
PortAvailable_Reserved(p) ==
  \A s \in Socks : \/ esix_sockets[s].state \in {"CLOSED", "RESERVED"}
                   \/ esix_sockets[s].lport # p
PortAvailable(p) ==
  \A s \in Socks : esix_sockets[s].state = "CLOSED" \/ esix_sockets[s].lport # p

(* The while(1) of socket(): count up from the last port, wrapping.        *)
SearchRank(p) == IF p > esix_last_port THEN p ELSE p + LAST_PORT
NextPort ==
  LET free == {p \in FIRST_PORT .. LAST_PORT : PortAvailable(p)}
  IN  {p \in free : \A q \in free : SearchRank(p) <= SearchRank(q)}

FreeSlot == Lowest({s \in Socks : esix_sockets[s].state = "CLOSED"})

AddressedTo(k, proto, daddr, dport) ==
  k.proto = proto /\ k.lport = dport /\ k.laddr \in {daddr, in6addr_any}

FindListen(proto, t) ==
  Lowest({s \in Socks : /\ AddressedTo(esix_sockets[s], proto, t.dst, t.dport)
                        /\ esix_sockets[s].state = "LISTEN"})

FindConnected(t) ==
  Lowest({s \in Socks :
            /\ AddressedTo(esix_sockets[s], SOCK_STREAM, t.dst, t.dport)
            /\ esix_sockets[s].state \notin {"CLOSED", "RESERVED"}
            /\ esix_sockets[s].raddr = t.src
            /\ esix_sockets[s].rport = t.sport})

-----------------------------------------------------------------------------
(* Packets.                                                                *)

TcpIn == [src : Peers, dst : OwnAddrs, sport : PeerPorts, dport : InPorts,
          flags : InFlags, seqn : SegNums, ackn : SegNums,
          data : Payloads \cup {<<>>}]
UdpIn == [src : Peers, dst : OwnAddrs \cup Groups, sport : PeerPorts, dport : InPorts,
          data : Payloads]

(* esix_tcp_send with the addresses of the segment being answered.         *)
Answer(t, seqn, ackn, flags) ==
  [src |-> t.dst, dst |-> t.src, sport |-> t.dport, dport |-> t.sport,
   flags |-> flags, seqn |-> seqn, ackn |-> ackn, data |-> <<>>]

(* esix_tcp_send with the addresses stored in the socket.                  *)
Segment(k, seqn, flags, data) ==
  [src |-> k.laddr, dst |-> k.raddr, sport |-> k.lport, dport |-> k.rport,
   flags |-> flags, seqn |-> seqn, ackn |-> k.ackn, data |-> data]

Datagram(src, k, dst, dport, data) ==
  [src |-> src, dst |-> dst, sport |-> k.lport, dport |-> dport,
   flags |-> "UDP", seqn |-> 0, ackn |-> 0, data |-> data]

Unreachable(d) ==
  [src |-> d.dst, dst |-> d.src, sport |-> d.dport, dport |-> d.sport,
   flags |-> "PORT_UNREACHABLE", seqn |-> 0, ackn |-> 0, data |-> <<>>]

-----------------------------------------------------------------------------
Init ==
  /\ esix_sockets = [s \in Socks |-> Blank]
  /\ esix_last_port = 0
  /\ current_time = 1
  /\ fd = [f \in Fds |-> NoSock]
  /\ wire = {}

Set(s, k) == esix_sockets' = [esix_sockets EXCEPT ![s] = k]
Send(packets) == wire' = packets

-----------------------------------------------------------------------------
(* The socket API.  sock is a descriptor some application holds; f is the  *)
(* variable in which it keeps the one it gets or gives back.               *)

socket(f, type) ==
  /\ fd[f] = NoSock
  /\ \E p \in NextPort :
       /\ esix_last_port' = p
       /\ \/ \E s \in FreeSlot :
               /\ Set(s, Reserved(type, p))
               /\ fd' = [fd EXCEPT ![f] = s]
          \/ /\ FreeSlot = {}
             /\ UNCHANGED <<esix_sockets, fd>>
  /\ Send({})
  /\ UNCHANGED current_time

(* An address that is not in addrs[0] makes bind() loop for ever, so only  *)
(* in6addr_any and FirstAddr are bound here.  For FirstAddr laddr stays as *)
(* it is: the copy goes from the argument into the address table.          *)
bind(sock, addr, port) ==
  /\ PortAvailable(port)
  /\ addr \in {in6addr_any, FirstAddr}
  /\ Set(sock, [esix_sockets[sock] EXCEPT !.lport = port,
                  !.laddr = IF addr = in6addr_any THEN in6addr_any ELSE @])
  /\ Send({})
  /\ UNCHANGED <<esix_last_port, current_time, fd>>

listen(sock) ==
  /\ esix_sockets[sock].state = "RESERVED"
  /\ Set(sock, [esix_sockets[sock] EXCEPT !.state = "LISTEN"])
  /\ Send({})
  /\ UNCHANGED <<esix_last_port, current_time, fd>>

connect_STREAM(sock, addr, port) ==
  /\ esix_sockets[sock].proto = SOCK_STREAM
  /\ esix_sockets[sock].state \in {"RESERVED", "CLOSED"}
  /\ LET k == [esix_sockets[sock] EXCEPT !.ackn = 0, !.rport = port,
                                         !.raddr = addr, !.state = "SYN_SENT"]
     IN  Set(sock, k) /\ Send({Segment(k, Plus(k.seqn, 1), "SYN", <<>>)})
  /\ UNCHANGED <<esix_last_port, current_time, fd>>

connect_DGRAM(sock, addr, port) ==
  /\ esix_sockets[sock].proto = SOCK_DGRAM
  /\ esix_sockets[sock].state \in {"LISTEN", "ESTABLISHED"}
  /\ Set(sock, [esix_sockets[sock] EXCEPT !.rport = port, !.raddr = addr,
                                          !.state = "ESTABLISHED"])
  /\ Send({})
  /\ UNCHANGED <<esix_last_port, current_time, fd>>

accept(sock, f) ==
  /\ fd[f] = NoSock
  /\ esix_sockets[sock].child # <<>>
  /\ fd' = [fd EXCEPT ![f] = Head(esix_sockets[sock].child)]
  /\ Set(sock, [esix_sockets[sock] EXCEPT !.child = Tail(@)])
  /\ Send({})
  /\ UNCHANGED <<esix_last_port, current_time>>

(* esix_queue_data may also fail for want of memory: the segment is then   *)
(* neither queued nor sent, as when the queue is full.                     *)
send_STREAM(sock, data) ==
  /\ esix_sockets[sock].proto = SOCK_STREAM
  /\ esix_sockets[sock].state = "ESTABLISHED"
  /\ ~QueueFull(esix_sockets[sock])
  /\ LET k == esix_sockets[sock]
     IN  /\ Set(sock, [k EXCEPT
              !.sent = Append(@, [seqn |-> k.seqn, data |-> data,
                                  t_sent |-> current_time]),
              !.seqn = Plus(@, Len(data)),
              !.rexmit_date = current_time + 2])
         /\ Send({Segment(k, k.seqn, "PSH|ACK", data)})
  /\ UNCHANGED <<esix_last_port, current_time, fd>>

send_DGRAM(sock, data) ==
  /\ esix_sockets[sock].proto = SOCK_DGRAM
  /\ esix_sockets[sock].state = "ESTABLISHED"
  /\ LET k == esix_sockets[sock]
     IN  Send({Datagram(k.laddr, k, k.raddr, k.rport, data)})
  /\ UNCHANGED <<esix_sockets, esix_last_port, current_time, fd>>

(* The source address is chosen by type when the socket has none.          *)
sendto(sock, addr, port, data) ==
  /\ esix_sockets[sock].proto = SOCK_DGRAM
  /\ \E src \in OwnAddrs :
       /\ esix_sockets[sock].laddr \in {src, in6addr_any}
       /\ Send({Datagram(src, esix_sockets[sock], addr, port, data)})
  /\ UNCHANGED <<esix_sockets, esix_last_port, current_time, fd>>

recvfrom(sock) ==
  /\ esix_sockets[sock].proto = SOCK_STREAM
       => esix_sockets[sock].state = "ESTABLISHED"
  /\ esix_sockets[sock].recv # <<>>
  /\ Set(sock, [esix_sockets[sock] EXCEPT !.recv = Tail(@)])
  /\ Send({})
  /\ UNCHANGED <<esix_last_port, current_time, fd>>

(* Whatever close() returns, its caller does not use the descriptor again. *)
close(f) ==
  /\ fd[f] # NoSock
  /\ LET k == esix_sockets[fd[f]] IN
     \/ /\ k.state # "CLOSED"
        /\ Set(fd[f], Closed(k))
        /\ IF /\ k.proto = SOCK_STREAM
              /\ k.state \in {"SYN_SENT", "SYN_RECEIVED", "ESTABLISHED"}
             THEN Send({Segment(k, k.seqn, "RST|ACK", <<>>)})
             ELSE Send({})
     \/ /\ k.state = "CLOSED"
        /\ Send({})
        /\ UNCHANGED esix_sockets
  /\ fd' = [fd EXCEPT ![f] = NoSock]
  /\ UNCHANGED <<esix_last_port, current_time>>

-----------------------------------------------------------------------------
(* esix_tcp_process, one action per group of flags.                        *)

Refuse(t, seqn, ackn) ==
  /\ Send({Answer(t, seqn, ackn, "RST|ACK")})
  /\ UNCHANGED esix_sockets

NoListener(t) ==
  /\ FindListen(SOCK_STREAM, t) = {}
  /\ Refuse(t, Plus(t.ackn, 1), Plus(t.seqn, 1))
  /\ UNCHANGED esix_last_port

TableFull(t) ==
  /\ FindListen(SOCK_STREAM, t) # {}
  /\ FreeSlot = {}
  /\ \E p \in NextPort : esix_last_port' = p
  /\ Refuse(t, Plus(t.ackn, 1), Plus(t.seqn, 1))

(* Mutant of ChildNoMemory: the slot is not given back.                    *)
ChildNoMemory_Leak(t) ==
  /\ FindListen(SOCK_STREAM, t) # {}
  /\ \E p \in NextPort, c \in FreeSlot :
       /\ esix_last_port' = p
       /\ Set(c, Reserved(SOCK_STREAM, p))
  /\ Send({Answer(t, Plus(t.ackn, 1), Plus(t.seqn, 1), "RST|ACK")})

(* socket() has taken the slot when the queue element cannot be allocated. *)
ChildNoMemory(t) ==
  /\ FindListen(SOCK_STREAM, t) # {}
  /\ \E p \in NextPort, c \in FreeSlot :
       /\ esix_last_port' = p
       /\ Set(c, [Reserved(SOCK_STREAM, p) EXCEPT !.state = "CLOSED"])
  /\ Send({Answer(t, Plus(t.ackn, 1), Plus(t.seqn, 1), "RST|ACK")})

(* The session socket: created by socket(), then filled in by              *)
(* esix_socket_create_child and by the SYN case itself.                    *)
Session(t, port) ==
  [Reserved(SOCK_STREAM, port) EXCEPT
     !.state = "SYN_RECEIVED", !.laddr = t.dst, !.lport = t.dport,
     !.raddr = t.src, !.rport = t.sport,
     !.ackn = Plus(t.seqn, 1), !.seqn = Plus(0, 1)]

(* The code appends the child without counting: MaxChild is a bound of the *)
(* model, not of the stack.                                                *)
ChildCreated(t) ==
  \E l \in FindListen(SOCK_STREAM, t), p \in NextPort, c \in FreeSlot :
    /\ Len(esix_sockets[l].child) < MaxChild
    /\ esix_last_port' = p
    /\ esix_sockets' = [esix_sockets EXCEPT ![l].child = Append(@, c),
                                            ![c] = Session(t, p)]
    /\ Send({Answer(t, 0, Plus(t.seqn, 1), "SYN|ACK")})

tcp_process_SYN(t) ==
  /\ t.flags = "SYN"
  /\ NoListener(t) \/ TableFull(t) \/ ChildNoMemory(t) \/ ChildCreated(t)
  /\ UNCHANGED <<current_time, fd>>

tcp_process_SYN_ACK(t) ==
  /\ t.flags = "SYN|ACK"
  /\ \/ /\ FindConnected(t) = {}
        /\ Refuse(t, Plus(t.ackn, 1), Plus(t.seqn, 1))
     \/ \E s \in FindConnected(t) :
          LET k == esix_sockets[s] IN
          /\ t.ackn = k.seqn
          /\ Set(s, [k EXCEPT
               !.state = IF @ = "SYN_SENT" THEN "ESTABLISHED" ELSE @,
               !.ackn = Plus(t.ackn, 1)])
          /\ Send({Answer(t, k.seqn, Plus(t.ackn, 1), "ACK")})
  /\ UNCHANGED <<esix_last_port, current_time, fd>>

(* k is the socket after esix_socket_expire_e.                             *)
AckLate(t, s, k) ==
  /\ t.seqn # k.ackn
  /\ Set(s, k)
  /\ Send({Answer(t, k.seqn, k.ackn, "ACK")})

AckEstablishes(t, s, k) ==
  /\ t.seqn = k.ackn
  /\ k.state = "SYN_RECEIVED"
  /\ Set(s, [k EXCEPT !.state = "ESTABLISHED"])
  /\ Send({})

AckCloses(t, s, k) ==
  /\ t.seqn = k.ackn
  /\ k.state = "FIN_WAIT_2"
  /\ Set(s, Closed(k))
  /\ Send({})

AckData(t, s, k) ==
  /\ t.seqn = k.ackn
  /\ k.state = "ESTABLISHED"
  /\ t.data # <<>>
  /\ ~QueueFull(k)
  /\ LET ackn == Plus(k.ackn, Len(t.data)) IN
     /\ Set(s, [k EXCEPT !.ackn = ackn,
          !.recv = Append(@, [from |-> k.raddr, fport |-> k.rport,
                              data |-> t.data])])
     /\ Send({Answer(t, k.seqn, ackn, "ACK")})

(* No payload, or one that cannot be queued (queue full, no memory); or    *)
(* any other state.  Only what was acknowledged leaves the queue.          *)
AckOnly(t, s, k) ==
  /\ t.seqn = k.ackn
  /\ k.state \notin {"SYN_RECEIVED", "FIN_WAIT_2"}
  /\ k # esix_sockets[s]
  /\ Set(s, k)
  /\ Send({})

tcp_process_ACK(t) ==
  /\ t.flags \in AckFlags
  /\ \/ FindConnected(t) = {} /\ Refuse(t, t.ackn, t.seqn)
     \/ \E s \in FindConnected(t) :
        \E n \in ExpiredPrefix(esix_sockets[s].sent, t.ackn) :
          LET k == DropSent(esix_sockets[s], n) IN
          \/ AckLate(t, s, k)
          \/ AckEstablishes(t, s, k)
          \/ AckCloses(t, s, k)
          \/ AckData(t, s, k)
          \/ AckOnly(t, s, k)
  /\ UNCHANGED <<esix_last_port, current_time, fd>>

(* The test of the code compares the acknowledgement, not the sequence     *)
(* number, with the state of the socket.  FIN_WAIT_1 is never entered.     *)
FinAnswered(t, s, k) ==
  /\ t.ackn = k.seqn
  /\ k.state \in {"SYN_RECEIVED", "ESTABLISHED"}
  /\ Set(s, [k EXCEPT !.ackn = Plus(@, 1), !.seqn = Plus(@, 1),
                      !.state = "FIN_WAIT_2"])
  /\ Send({Answer(t, k.seqn, Plus(k.ackn, 1), "FIN|ACK")})

FinCounted(t, s, k) ==
  /\ t.ackn = k.seqn
  /\ k.state \notin {"SYN_RECEIVED", "ESTABLISHED"}
  /\ Set(s, [k EXCEPT !.ackn = Plus(@, 1)])
  /\ Send({})

FinIgnored(t, s, k) ==
  /\ t.ackn # k.seqn
  /\ k # esix_sockets[s]
  /\ Set(s, k)
  /\ Send({})

tcp_process_FIN(t) ==
  /\ t.flags \in FinFlags
  /\ \/ /\ FindConnected(t) = {}
        /\ Refuse(t, Plus(t.ackn, 1), Plus(t.seqn, 1))
     \/ \E s \in FindConnected(t) :
        \E n \in ExpiredPrefix(esix_sockets[s].sent, t.ackn) :
          LET k == DropSent(esix_sockets[s], n) IN
          FinAnswered(t, s, k) \/ FinCounted(t, s, k) \/ FinIgnored(t, s, k)
  /\ UNCHANGED <<esix_last_port, current_time, fd>>

tcp_process_RST(t) ==
  /\ t.flags \in RstFlags
  /\ \E s \in FindConnected(t) : Set(s, Closed(esix_sockets[s]))
  /\ Send({})
  /\ UNCHANGED <<esix_last_port, current_time, fd>>

-----------------------------------------------------------------------------
(* esix_udp_process.  A datagram that cannot be queued is dropped; one to  *)
(* a group that nobody wants is not answered.                              *)

udp_process_queue(d) ==
  /\ \E s \in FindListen(SOCK_DGRAM, d) :
       /\ ~QueueFull(esix_sockets[s])
       /\ Set(s, [esix_sockets[s] EXCEPT !.recv =
            Append(@, [from |-> d.src, fport |-> d.sport, data |-> d.data])])
  /\ Send({})
  /\ UNCHANGED <<esix_last_port, current_time, fd>>

udp_process_unreachable(d) ==
  /\ FindListen(SOCK_DGRAM, d) = {} /\ d.dst \notin Groups
  /\ Send({Unreachable(d)})
  /\ UNCHANGED <<esix_sockets, esix_last_port, current_time, fd>>

-----------------------------------------------------------------------------
(* esix_periodic_callback: the clock, then esix_socket_housekeep, which    *)
(* treats every slot by itself.                                            *)

Due(k, now) == k.rexmit_date # 0 /\ k.rexmit_date <= now
Age(k, now) == now - Head(k.sent).t_sent
(* Mutant of GivesUp: retransmits for ever.                                *)
GivesUp_Never(k, now) == FALSE
GivesUp(k, now) == Due(k, now) /\ k.sent # <<>> /\ Age(k, now) > MAX_RETX_TIME
Resends(k, now) == Due(k, now) /\ k.sent # <<>> /\ ~GivesUp(k, now)

(* Mutant of Housekept: one retransmission only.                           *)
Housekept_Once(k, now) ==
  CASE GivesUp(k, now) -> Closed(k)
    [] Due(k, now) /\ ~GivesUp(k, now) -> [k EXCEPT !.rexmit_date = 0]
    [] ~Due(k, now) -> k

Housekept(k, now) ==
  CASE GivesUp(k, now) -> Closed(k)
    [] Resends(k, now) ->
         [k EXCEPT !.rexmit_date = now + XorTwo(Age(k, now))]
    [] Due(k, now) /\ k.sent = <<>> -> [k EXCEPT !.rexmit_date = 0]
    [] ~Due(k, now) -> k

HousekeepSends(k, now) ==
  CASE GivesUp(k, now) -> {Segment(k, k.seqn, "RST|ACK", <<>>)}
    [] Resends(k, now) ->
         {Segment(k, Head(k.sent).seqn, "PSH|ACK", Head(k.sent).data)}
    [] OTHER -> {}

esix_periodic_callback ==
  /\ current_time < MaxTime
  /\ LET now == current_time + 1 IN
     /\ current_time' = now
     /\ esix_sockets' = [s \in Socks |-> Housekept(esix_sockets[s], now)]
     /\ Send(UNION {HousekeepSends(esix_sockets[s], now) : s \in Socks})
  /\ UNCHANGED <<esix_last_port, fd>>

-----------------------------------------------------------------------------
AppCall(sock) ==
  \/ listen(sock)
  \/ recvfrom(sock)
  \/ \E f \in Fds : accept(sock, f)
  \/ \E addr \in {in6addr_any} \cup OwnAddrs, port \in BindPorts :
       bind(sock, addr, port)
  \/ \E addr \in Peers, port \in PeerPorts :
       \/ connect_STREAM(sock, addr, port)
       \/ connect_DGRAM(sock, addr, port)
       \/ \E data \in Payloads : sendto(sock, addr, port, data)
  \/ \E addr \in Groups, port \in BindPorts, data \in Payloads :
       sendto(sock, addr, port, data)
  \/ \E data \in Payloads : send_STREAM(sock, data) \/ send_DGRAM(sock, data)

TcpProcess ==
  \E t \in TcpIn :
    \/ tcp_process_SYN(t)
    \/ tcp_process_SYN_ACK(t)
    \/ tcp_process_ACK(t)
    \/ tcp_process_FIN(t)
    \/ tcp_process_RST(t)

UdpProcess ==
  \E d \in UdpIn : udp_process_queue(d) \/ udp_process_unreachable(d)

Next ==
  \/ \E f \in Fds, type \in {SOCK_STREAM, SOCK_DGRAM} : socket(f, type)
  \/ \E f \in Fds : close(f)
  \/ \E sock \in Socks \cap {fd[f] : f \in Fds} : AppCall(sock)
  \/ TcpProcess
  \/ UdpProcess
  \/ esix_periodic_callback

Spec == Init /\ [][Next]_vars

-----------------------------------------------------------------------------
(* Every variable has its type: in particular sequence numbers wrap, and   *)
(* whatever is sent is built from addresses and ports of the model.        *)
TypeOK ==
  /\ esix_sockets \in [Socks -> EsixSock]
  /\ esix_last_port \in {0} \cup (FIRST_PORT .. LAST_PORT)
  /\ current_time \in Nat \ {0}
  /\ fd \in [Fds -> Socks \cup {NoSock}]
  /\ wire \subseteq Packet

(* A CLOSED slot owns no queue elements: socket() overwrites the queue     *)
(* pointer of the slot it takes, so an element left there would be lost    *)
(* memory.  Every way a socket dies (close, RST, last ACK, time-out, a     *)
(* failed child) has to free first.                                        *)
Empty(k) == k.child = <<>> /\ k.sent = <<>> /\ k.recv = <<>>
ClosedIsEmpty ==
  \A s \in Socks : esix_sockets[s].state = "CLOSED" => Empty(esix_sockets[s])

(* Queue elements only sit where the code still serves them: sent data in  *)
(* an established or closing TCP connection, session sockets at a          *)
(* listening TCP socket, received data where recvfrom or the close of the  *)
(* connection finds them.  connect() and bind() do not look at the queue,  *)
(* so this rests on the states they are allowed in.                        *)
Served(k) ==
  /\ k.sent # <<>> =>
       k.proto = SOCK_STREAM /\ k.state \in {"ESTABLISHED", "FIN_WAIT_2"}
  /\ k.child # <<>> => k.proto = SOCK_STREAM /\ k.state = "LISTEN"
  /\ k.recv # <<>> =>
       \/ k.proto = SOCK_STREAM /\ k.state \in {"ESTABLISHED", "FIN_WAIT_2"}
       \/ k.proto = SOCK_DGRAM /\ k.state \in {"LISTEN", "ESTABLISHED"}
ElementsServed == \A s \in Socks : Served(esix_sockets[s])

(* The queue of a socket, whatever state it is in and however it dies:     *)
(* data, datagrams and children.                                           *)
QueuesSound == ClosedIsEmpty /\ ElementsServed

(* What holds of the packets a socket queues, received and sent together:  *)
(* one more than ESIX_QUEUE_DEPHT, the limit of socket.c:26 and            *)
(* config.h:38, because esix_queue_data tests the position of each element *)
(* that is there, and not that of the one it adds.  Children of a listener *)
(* are not counted, here as in those comments: nothing in the code limits  *)
(* them but the table, and not even that, since a session that dies before *)
(* accept() leaves its element behind.                                     *)
Bounded(k) == Len(k.sent) + Len(k.recv) <= ESIX_QUEUE_DEPHT + 1
QueueBound == \A s \in Socks : Bounded(esix_sockets[s])

(* Retransmission is never switched off (rexmit_date 0) while a segment is *)
(* unacknowledged: housekeeping would skip the socket for ever.            *)
Armed(k) == k.sent # <<>> => k.rexmit_date # 0
RexmitArmed == \A s \in Socks : Armed(esix_sockets[s])

(* The unacknowledged segments are exactly the last bytes of the stream:   *)
(* each starts where the one before it ends, and the last ends at seqn     *)
(* (one earlier once the FIN has been sent).  Otherwise a retransmission   *)
(* would leave a hole or repeat bytes under other numbers.                 *)
SegmentEnd(e) == Plus(e.seqn, Len(e.data))
FinSent(k) == IF k.state = "FIN_WAIT_2" THEN 1 ELSE 0
Contiguous(k) ==
  \A i \in 1 .. Len(k.sent) :
    IF i < Len(k.sent) THEN SegmentEnd(k.sent[i]) = k.sent[i + 1].seqn
                       ELSE Plus(SegmentEnd(k.sent[i]), FinSent(k)) = k.seqn
TxContiguous == \A s \in Socks : Contiguous(esix_sockets[s])

(* However segments are queued behind one another and the retransmission   *)
(* date is pushed back by send(), an unacknowledged segment is given up    *)
(* (or acknowledged) within a fixed time: the last retransmission that is  *)
(* still allowed waits at most MAX_RETX_TIME + 2 more, and each later      *)
(* send() at most 2.                                                       *)
GiveUpAfter == 2 * MAX_RETX_TIME + 2 + 2 * ESIX_QUEUE_DEPHT
NotOverdue(k, now) ==
  \A i \in 1 .. Len(k.sent) : now <= k.sent[i].t_sent + GiveUpAfter
GiveUpBound == \A s \in Socks : NotOverdue(esix_sockets[s], current_time)

(* Sockets that segments to a new connection or datagrams are matched with *)
(* by port alone never share a port, so which of them is found does not    *)
(* depend on the order of the table.  A TCP socket that was closed by the  *)
(* peer may be connect()ed again with a port that is in use meanwhile, and *)
(* sessions share the port of their listener; none of these listens.       *)
OwnsPort(k) ==
  \/ k.state \in {"RESERVED", "LISTEN"}
  \/ k.proto = SOCK_DGRAM /\ k.state # "CLOSED"
PortsDistinct ==
  \A s, u \in Socks :
    /\ s # u
    /\ OwnsPort(esix_sockets[s])
    /\ OwnsPort(esix_sockets[u])
    => esix_sockets[s].lport # esix_sockets[u].lport

(* A socket that is in use can always be reached by somebody who will      *)
(* close it: an application holds its descriptor or a listener has it      *)
(* queued for accept().  The only step that abandons one is the closing of *)
(* the listener that queued it: its session sockets are not closed.        *)
Queued(s) == \E l \in Socks : \E i \in DOMAIN esix_sockets[l].child :
               esix_sockets[l].child[i] = s
Abandoned(s) ==
  /\ esix_sockets[s].state # "CLOSED"
  /\ ~Queued(s)
  /\ \A f \in Fds : fd[f] # s
ListenerClosed == \E l \in Socks : /\ esix_sockets[l].state = "LISTEN"
                                   /\ esix_sockets'[l].state = "CLOSED"
AbandonedOnlyWithListener ==
  [][\A s \in Socks : ~Abandoned(s) /\ Abandoned(s)' => ListenerClosed]_vars

=============================================================================
