-------------------------- MODULE EsixSocketProofs --------------------------
(***************************************************************************)
(* Proofs about EsixSocket, for any table size, queue limit, retry time,   *)
(* sequence number width and number of applications and peers.             *)
(*                                                                         *)
(* Part 1 proves type correctness.  Part 2 proves RecordInv, the invariant *)
(* of a single slot, which implies ClosedIsEmpty, ElementsServed,          *)
(* QueueBound, RexmitArmed, TxContiguous and GiveUpBound.  A step replaces *)
(* one or two records, or treats them all alike, so the work is in lemmas  *)
(* about the records a handler stores.                                     *)
(*                                                                         *)
(* The last part is about the demo's servers (ServerTasks): whatever they  *)
(* and their clients do is a behaviour of the socket layer as EsixSocket   *)
(* specifies it, and unless a server sets up too late each keeps its       *)
(* listening socket to itself and no session is forgotten.                 *)
(***************************************************************************)
EXTENDS ServerTasks, TLAPS, SequenceTheorems

-----------------------------------------------------------------------------
(* Arithmetic.                                                             *)

(* Sequence numbers stay in range.                                         *)
LEMMA PlusType ==
  ASSUME NEW a \in Nat, NEW n \in Nat
  PROVE  Plus(a, n) \in Seqn
BY SizesAssumption DEF Plus, Seqn

(* Zero is a sequence number.                                              *)
LEMMA ZeroSeqn == 0 \in Seqn
BY SizesAssumption DEF Seqn

(* Adding zero to a sequence number changes nothing.                       *)
LEMMA PlusZero ==
  ASSUME NEW a \in Seqn
  PROVE  Plus(a, 0) = a
BY SizesAssumption DEF Plus, Seqn

(* The wait computed by housekeeping is at most the age plus two.          *)
LEMMA XorTwoBounds ==
  ASSUME NEW a \in Nat
  PROVE  XorTwo(a) \in Nat /\ XorTwo(a) <= a + 2
BY DEF XorTwo

(* Inequalities between dates, with D for MAX_RETX_TIME.                   *)
LEMMA DatesOnSend ==
  ASSUME NEW now \in Nat, NEW t \in Nat, NEW D \in Nat, NEW date \in Nat,
         NEW m \in Nat, NEW i \in 1 .. m,
         now <= date, date <= t + 2 * D + 2 + 2 * (m - i)
  PROVE  now + 2 <= t + 2 * D + 2 + 2 * ((m + 1) - i)
OBVIOUS

(* A resend is dated at most twice the age of its element ahead.           *)
LEMMA DatesOnResend ==
  ASSUME NEW now \in Nat, NEW h \in Nat, NEW D \in Nat, NEW wait \in Nat,
         h <= now, now - h <= D, wait <= now - h + 2
  PROVE  /\ now + wait \in Nat /\ now <= now + wait
         /\ now + wait <= h + 2 * D + 2
OBVIOUS

(* The bound of a date only grows with the distance to the tail.           *)
LEMMA DatesBehind ==
  ASSUME NEW h \in Nat, NEW t \in Nat, NEW D \in Nat, NEW date \in Nat,
         NEW m \in Nat, NEW i \in 1 .. m,
         h <= t, date <= h + 2 * D + 2
  PROVE  date <= t + 2 * D + 2 + 2 * (m - i)
OBVIOUS

(* Taking one element out of a bounded pair of queues.                     *)
LEMMA OneLess ==
  ASSUME NEW a \in Nat, NEW b \in Nat, NEW n \in Nat, a + b <= n + 1
  PROVE  a + (b - 1) <= n + 1
OBVIOUS

(* Payloads are not empty.                                                 *)
LEMMA PayloadLen ==
  ASSUME NEW data \in Payloads
  PROVE  Len(data) \in Nat \ {0} /\ data # <<>>
<1>1. Len(data) \in Nat \ {0}  BY EnvAssumption
<1> QED BY <1>1

-----------------------------------------------------------------------------
(* Types of the records handlers store.                                    *)

(* The empty queue is a queue of every type.                               *)
LEMMA NoElements ==
  /\ <<>> \in Seq(Socks)
  /\ <<>> \in Seq(SentElement)
  /\ <<>> \in Seq(RecvElement)
OBVIOUS

(* A record just zeroed, reserved, closed or accepted has its type.        *)
LEMMA BlankType == Blank \in EsixSock
BY NoElements, ZeroSeqn DEF Blank, EsixSock, SockStates, Addrs

(* The record socket() fills in.                                           *)
LEMMA ReservedType ==
  ASSUME NEW type \in {SOCK_STREAM, SOCK_DGRAM}, NEW p \in Nat
  PROVE  Reserved(type, p) \in EsixSock
BY BlankType DEF Reserved, EsixSock, SockStates

(* A record esix_socket_close has emptied.                                 *)
LEMMA ClosedType ==
  ASSUME NEW k \in EsixSock
  PROVE  /\ Closed(k) \in EsixSock
         /\ Closed(k).state = "CLOSED"
         /\ Empty(Closed(k))
<1>1. esix_socket_free_queue(k) \in EsixSock
  BY NoElements DEF esix_socket_free_queue, EsixSock
<1>2. Empty(esix_socket_free_queue(k))
  BY NoElements DEF esix_socket_free_queue, EsixSock, Empty
<1> QED BY <1>1, <1>2 DEF Closed, EsixSock, SockStates, Empty

(* What the network delivers is made of addresses, ports and numbers.      *)
LEMMA TcpInType ==
  ASSUME NEW t \in TcpIn
  PROVE  /\ t.src \in Addrs /\ t.src \in Peers
         /\ t.dst \in Addrs /\ t.dst \in OwnAddrs
         /\ t.sport \in Nat /\ t.dport \in Nat
         /\ t.seqn \in Seqn /\ t.seqn \in Nat
         /\ t.ackn \in Seqn /\ t.ackn \in Nat
         /\ t.data \in Payloads \cup {<<>>}
<1>1. PeerPorts \subseteq Nat /\ InPorts \subseteq Nat
  BY PortsAssumption
<1>2. SegNums \subseteq Seqn /\ Seqn \subseteq Nat
  BY EnvAssumption, SizesAssumption DEF Seqn
<1>3. /\ t.src \in Peers /\ t.dst \in OwnAddrs
      /\ t.sport \in PeerPorts /\ t.dport \in InPorts
      /\ t.seqn \in SegNums /\ t.ackn \in SegNums
      /\ t.data \in Payloads \cup {<<>>}
  BY DEF TcpIn
<1> QED BY <1>1, <1>2, <1>3 DEF Addrs

(* The record a SYN creates beside the listener's.                         *)
LEMMA SessionType ==
  ASSUME NEW t \in TcpIn, NEW p \in Nat
  PROVE  /\ Session(t, p) \in EsixSock
         /\ Session(t, p).state = "SYN_RECEIVED"
         /\ Session(t, p).proto = SOCK_STREAM
         /\ Empty(Session(t, p))
<1>1. /\ t.dst \in Addrs /\ t.src \in Addrs
      /\ t.sport \in Nat /\ t.dport \in Nat /\ t.seqn \in Nat
  BY TcpInType
<1>2. Plus(t.seqn, 1) \in Seqn /\ Plus(0, 1) \in Seqn
  BY <1>1, PlusType
<1>3. Reserved(SOCK_STREAM, p) \in EsixSock
  BY ReservedType
<1>4. Empty(Reserved(SOCK_STREAM, p)) /\ Reserved(SOCK_STREAM, p).proto = SOCK_STREAM
  BY NoElements DEF Reserved, Blank, Empty
<1> QED BY <1>1, <1>2, <1>3, <1>4 DEF Session, EsixSock, SockStates, Empty

(* Dropping acknowledged elements keeps the others, in order.              *)
LEMMA DropType ==
  ASSUME NEW k \in EsixSock, NEW n \in 0 .. Len(k.sent)
  PROVE  /\ DropSent(k, n) \in EsixSock
         /\ Len(DropSent(k, n).sent) = Len(k.sent) - n
         /\ \A i \in 1 .. Len(k.sent) - n : DropSent(k, n).sent[i] = k.sent[n + i]
<1> DEFINE q == SubSeq(k.sent, n + 1, Len(k.sent))
<1>1. k.sent \in Seq(SentElement) /\ Len(k.sent) \in Nat
  BY DEF EsixSock
<1>2. /\ q \in Seq(SentElement)
      /\ Len(q) = Len(k.sent) - n
      /\ \A i \in 1 .. Len(k.sent) - n : q[i] = k.sent[n + i]
  BY <1>1, SubSeqProperties
<1> HIDE DEF q
<1>3. DropSent(k, n) = [k EXCEPT !.sent = q]
  BY DEF DropSent, q
<1> QED BY <1>2, <1>3 DEF EsixSock

-----------------------------------------------------------------------------
(* Types of lookups and packets.                                           *)

(* A look-up returns slots, and the port allocator ports.                  *)
LEMMA LookupType ==
  /\ FreeSlot \subseteq Socks
  /\ \A t, proto : FindListen(proto, t) \subseteq Socks
  /\ \A t : FindConnected(t) \subseteq Socks
  /\ NextPort \subseteq Nat
  /\ NextPort \subseteq {0} \cup (FIRST_PORT .. LAST_PORT)
<1>1. \A S : Lowest(S) \subseteq S
  BY DEF Lowest
<1>2. FreeSlot \subseteq Socks
  BY <1>1 DEF FreeSlot
<1>3. \A t, proto : FindListen(proto, t) \subseteq Socks
  BY <1>1 DEF FindListen
<1>4. \A t : FindConnected(t) \subseteq Socks
  BY <1>1 DEF FindConnected
<1>5. NextPort \subseteq FIRST_PORT .. LAST_PORT
  BY DEF NextPort
<1>6. FIRST_PORT .. LAST_PORT \subseteq Nat
  BY PortsAssumption
<1> QED BY <1>2, <1>3, <1>4, <1>5, <1>6

(* Segments and datagrams the code builds are packets.                     *)
LEMMA AnswerType ==
  ASSUME NEW t \in TcpIn, NEW seqn \in Seqn, NEW ackn \in Seqn,
         NEW flags \in TcpFlags
  PROVE  Answer(t, seqn, ackn, flags) \in Packet
BY TcpInType DEF Answer, Packet

(* A segment of a socket.                                                  *)
LEMMA SegmentType ==
  ASSUME NEW k \in EsixSock, NEW seqn \in Seqn, NEW flags \in TcpFlags,
         NEW data \in Payloads \cup {<<>>}
  PROVE  Segment(k, seqn, flags, data) \in Packet
BY DEF Segment, Packet, EsixSock

(* A datagram of a socket.                                                 *)
LEMMA DatagramType ==
  ASSUME NEW src \in Addrs, NEW k \in EsixSock, NEW dst \in Addrs,
         NEW port \in Nat, NEW data \in Payloads
  PROVE  Datagram(src, k, dst, port, data) \in Packet
BY ZeroSeqn DEF Datagram, Packet, EsixSock

(* The answer to a datagram for a port nobody has.                         *)
LEMMA UnreachableType ==
  ASSUME NEW d \in UdpIn
  PROVE  Unreachable(d) \in Packet
<1>1. PeerPorts \subseteq Nat /\ InPorts \subseteq Nat
  BY PortsAssumption
<1> QED BY <1>1, ZeroSeqn DEF Unreachable, Packet, UdpIn, Addrs

-----------------------------------------------------------------------------
(* Type correctness, one lemma per group of actions.                       *)

Tables == [Socks -> EsixSock]

(* Storing a record keeps the table typed.                                 *)
LEMMA SetType ==
  ASSUME esix_sockets \in Tables, NEW s \in Socks, NEW k \in EsixSock, Set(s, k)
  PROVE  esix_sockets' \in Tables
BY DEF Tables, Set

(* Sending one packet.                                                     *)
LEMMA SendType ==
  ASSUME NEW p \in Packet, Send({p})
  PROVE  wire' \subseteq Packet
BY DEF Send

(* Sending nothing.                                                        *)
LEMMA SilentType ==
  ASSUME Send({})
  PROVE  wire' \subseteq Packet
BY DEF Send

(* The calls of the application.                                           *)
LEMMA SocketCallType ==
  ASSUME TypeOK, NEW f \in Fds, NEW type \in {SOCK_STREAM, SOCK_DGRAM},
         socket(f, type)
  PROVE  TypeOK'
<1>1. PICK p \in NextPort : socket(f, type)!2!(p)
  BY DEF socket
<1>2. p \in Nat /\ esix_last_port' \in {0} \cup (FIRST_PORT .. LAST_PORT)
  BY <1>1, LookupType
<1>3. Reserved(type, p) \in EsixSock
  BY <1>2, ReservedType
<1>4. /\ esix_sockets' \in [Socks -> EsixSock]
      /\ fd' \in [Fds -> Socks \cup {NoSock}]
  <2>1. CASE FreeSlot = {} /\ UNCHANGED <<esix_sockets, fd>>
    BY <2>1 DEF TypeOK
  <2>2. CASE \E s \in FreeSlot : /\ Set(s, Reserved(type, p))
                                 /\ fd' = [fd EXCEPT ![f] = s]
    BY <2>2, <1>3, LookupType DEF TypeOK, Set
  <2> QED BY <1>1, <2>1, <2>2
<1>5. wire' \subseteq Packet /\ current_time' = current_time
  BY SilentType DEF socket
<1> QED BY <1>2, <1>4, <1>5 DEF TypeOK

(* close.                                                                  *)
LEMMA CloseCallType ==
  ASSUME TypeOK, NEW f \in Fds, close(f)
  PROVE  TypeOK'
<1> DEFINE k == esix_sockets[fd[f]]
<1>1. fd[f] \in Socks /\ k \in EsixSock
  BY DEF close, TypeOK
<1>2. Closed(k) \in EsixSock
  BY <1>1, ClosedType
<1>3. Segment(k, k.seqn, "RST|ACK", <<>>) \in Packet
  BY <1>1, SegmentType DEF EsixSock, TcpFlags, RstFlags
<1>4. esix_sockets' \in [Socks -> EsixSock]
  BY <1>1, <1>2 DEF close, TypeOK, Set
<1>5. wire' \subseteq Packet
  BY <1>3 DEF close, Send
<1>6. fd' \in [Fds -> Socks \cup {NoSock}]
  BY DEF close, TypeOK
<1> QED BY <1>4, <1>5, <1>6 DEF TypeOK, close

(* A step that stores one record k in the table and sends at most the      *)
(* packets in P.                                                           *)
LEMMA StoreType ==
  ASSUME TypeOK, NEW s \in Socks, NEW k \in EsixSock, Set(s, k),
         wire' \subseteq Packet,
         UNCHANGED <<esix_last_port, current_time, fd>>
  PROVE  TypeOK'
BY DEF TypeOK, Set

(* listen.                                                                 *)
LEMMA ListenCallType ==
  ASSUME TypeOK, NEW s \in Socks, listen(s)
  PROVE  TypeOK'
<1> DEFINE k == esix_sockets[s]
<1>1. k \in EsixSock
  BY DEF TypeOK
<1>2. [k EXCEPT !.state = "LISTEN"] \in EsixSock
  <2> HIDE DEF k
  <2> QED BY <1>1 DEF EsixSock, SockStates
<1> QED BY <1>2, StoreType, SilentType DEF listen

(* recv.                                                                   *)
LEMMA RecvCallType ==
  ASSUME TypeOK, NEW s \in Socks, recvfrom(s)
  PROVE  TypeOK'
<1> DEFINE k == esix_sockets[s]
<1>1. k.recv \in Seq(RecvElement) /\ k.recv # <<>> /\ k \in EsixSock
  BY DEF recvfrom, TypeOK, EsixSock
<1>2. Tail(k.recv) \in Seq(RecvElement)
  BY <1>1, HeadTailProperties
<1>3. [k EXCEPT !.recv = Tail(@)] \in EsixSock
  BY <1>1, <1>2 DEF EsixSock
<1> QED BY <1>3, StoreType, SilentType DEF recvfrom

(* accept.                                                                 *)
LEMMA AcceptCallType ==
  ASSUME TypeOK, NEW s \in Socks, NEW f \in Fds, accept(s, f)
  PROVE  TypeOK'
<1> DEFINE k == esix_sockets[s]
<1>1. k.child \in Seq(Socks) /\ k.child # <<>> /\ k \in EsixSock
  BY DEF accept, TypeOK, EsixSock
<1>2. Tail(k.child) \in Seq(Socks) /\ Head(k.child) \in Socks
  BY <1>1, HeadTailProperties
<1>3. [k EXCEPT !.child = Tail(@)] \in EsixSock
  BY <1>1, <1>2 DEF EsixSock
<1>4. esix_sockets' \in Tables
  BY <1>3, SetType DEF accept, TypeOK, Tables
<1>5. fd' \in [Fds -> Socks \cup {NoSock}]
  BY <1>2 DEF accept, TypeOK
<1> QED BY <1>4, <1>5, SilentType DEF accept, TypeOK, Tables

(* bind.                                                                   *)
LEMMA BindCallType ==
  ASSUME TypeOK, NEW s \in Socks, NEW addr \in {in6addr_any} \cup OwnAddrs,
         NEW port \in BindPorts, bind(s, addr, port)
  PROVE  TypeOK'
<1> DEFINE k == esix_sockets[s]
           laddr == IF addr = in6addr_any THEN in6addr_any ELSE k.laddr
<1>1. k \in EsixSock /\ k.laddr \in Addrs
  BY DEF TypeOK, EsixSock
<1>2. port \in Nat /\ laddr \in Addrs
  BY <1>1, PortsAssumption DEF Addrs
<1>3. [k EXCEPT !.lport = port, !.laddr = laddr] \in EsixSock
  BY <1>1, <1>2 DEF EsixSock
<1> QED BY <1>3, StoreType, SilentType DEF bind

(* connect.                                                                *)
LEMMA ConnectCallType ==
  ASSUME TypeOK, NEW s \in Socks, NEW addr \in Peers, NEW port \in PeerPorts,
         connect_STREAM(s, addr, port) \/ connect_DGRAM(s, addr, port)
  PROVE  TypeOK'
<1> DEFINE k == esix_sockets[s]
           j == [k EXCEPT !.ackn = 0, !.rport = port,
                          !.raddr = addr, !.state = "SYN_SENT"]
<1>1. k \in EsixSock /\ k.seqn \in Nat
  BY SizesAssumption DEF TypeOK, EsixSock, Seqn
<1>2. port \in Nat /\ addr \in Addrs
  BY PortsAssumption DEF Addrs
<1>3. j \in EsixSock /\ j.seqn \in Nat
  BY <1>1, <1>2, ZeroSeqn DEF EsixSock, SockStates
<1>4. Segment(j, Plus(j.seqn, 1), "SYN", <<>>) \in Packet
  BY <1>3, PlusType, SegmentType DEF TcpFlags
<1>5. CASE connect_STREAM(s, addr, port)
  BY <1>3, <1>4, <1>5, StoreType, SendType DEF connect_STREAM
<1>6. CASE connect_DGRAM(s, addr, port)
  <2>1. [k EXCEPT !.rport = port, !.raddr = addr, !.state = "ESTABLISHED"]
          \in EsixSock
    BY <1>1, <1>2 DEF EsixSock, SockStates
  <2> QED BY <1>6, <2>1, StoreType, SilentType DEF connect_DGRAM
<1> QED BY <1>5, <1>6

(* send.                                                                   *)
LEMMA SendCallType ==
  ASSUME TypeOK, NEW s \in Socks, NEW data \in Payloads, send_STREAM(s, data)
  PROVE  TypeOK'
<1> DEFINE k == esix_sockets[s]
           e == [seqn |-> k.seqn, data |-> data, t_sent |-> current_time]
           q == Append(k.sent, e)
           next == Plus(k.seqn, Len(data))
           date == current_time + 2
           j == [k EXCEPT !.sent = q, !.seqn = next, !.rexmit_date = date]
<1>1. /\ k \in EsixSock /\ k.seqn \in Seqn /\ k.seqn \in Nat
      /\ k.sent \in Seq(SentElement) /\ current_time \in Nat
  BY SizesAssumption DEF TypeOK, EsixSock, Seqn
<1>2. e \in SentElement
  BY <1>1 DEF SentElement
<1>3. q \in Seq(SentElement)
  BY <1>1, <1>2, AppendProperties
<1>4. next \in Seqn /\ date \in Nat
  BY <1>1, PayloadLen, PlusType
<1>5. j \in EsixSock
  <2> HIDE DEF k, q, next, date
  <2> QED BY <1>1, <1>3, <1>4 DEF EsixSock
<1>6. Segment(k, k.seqn, "PSH|ACK", data) \in Packet
  BY <1>1, SegmentType DEF TcpFlags, AckFlags
<1> QED BY <1>5, <1>6, StoreType, SendType DEF send_STREAM

(* Where datagrams are sent: to hosts and to groups.                       *)
Destination(addr, port) ==
  \/ addr \in Peers /\ port \in PeerPorts
  \/ addr \in Groups /\ port \in BindPorts

(* send and sendto of a datagram socket.                                   *)
LEMMA DatagramCallType ==
  ASSUME TypeOK, NEW s \in Socks, NEW data \in Payloads,
         \/ send_DGRAM(s, data)
         \/ \E addr, port : Destination(addr, port) /\ sendto(s, addr, port, data)
  PROVE  TypeOK'
<1> DEFINE k == esix_sockets[s]
<1>1. k \in EsixSock /\ k.laddr \in Addrs /\ k.raddr \in Addrs /\ k.rport \in Nat
  BY DEF TypeOK, EsixSock
<1>2. PeerPorts \subseteq Nat /\ BindPorts \subseteq Nat
  BY PortsAssumption
<1>3. CASE send_DGRAM(s, data)
  <2>1. Datagram(k.laddr, k, k.raddr, k.rport, data) \in Packet
    BY <1>1, DatagramType
  <2> QED BY <1>3, <2>1, SendType DEF send_DGRAM, TypeOK
<1>4. ASSUME NEW addr, NEW port, Destination(addr, port),
             sendto(s, addr, port, data)
      PROVE  TypeOK'
  <2>1. PICK src \in OwnAddrs : Send({Datagram(src, k, addr, port, data)})
    BY <1>4 DEF sendto
  <2>2. src \in Addrs /\ addr \in Addrs /\ port \in Nat
    BY <1>2, <1>4 DEF Addrs, Destination
  <2>3. Datagram(src, k, addr, port, data) \in Packet
    BY <1>1, <2>2, DatagramType
  <2> QED BY <1>4, <2>1, <2>3, SendType DEF sendto, TypeOK
<1> QED BY <1>3, <1>4

(* The receive handlers.                                                   *)
LEMMA RefuseType ==
  ASSUME NEW t \in TcpIn, NEW a \in Seqn, NEW b \in Seqn, Refuse(t, a, b)
  PROVE  wire' \subseteq Packet /\ UNCHANGED esix_sockets
BY AnswerType, SendType DEF Refuse, TcpFlags, RstFlags

(* A SYN creates a session, restarts one or is answered with RST.          *)
LEMMA SynType ==
  ASSUME TypeOK, NEW t \in TcpIn, tcp_process_SYN(t)
  PROVE  TypeOK'
<1>1. /\ Plus(t.ackn, 1) \in Seqn /\ Plus(t.seqn, 1) \in Seqn
      /\ current_time' = current_time /\ fd' = fd
  BY TcpInType, PlusType DEF tcp_process_SYN
<1>2. NextPort \subseteq Nat /\ NextPort \subseteq {0} \cup (FIRST_PORT .. LAST_PORT)
  BY LookupType
<1>3. CASE NoListener(t)
  BY <1>1, <1>3, RefuseType DEF NoListener, TypeOK
<1>4. CASE TableFull(t)
  BY <1>1, <1>2, <1>4, RefuseType DEF TableFull, TypeOK
<1>5. CASE ChildNoMemory(t)
  <2>1. PICK p \in NextPort, c \in FreeSlot :
          /\ esix_last_port' = p
          /\ Set(c, [Reserved(SOCK_STREAM, p) EXCEPT !.state = "CLOSED"])
    BY <1>5 DEF ChildNoMemory
  <2>2. Reserved(SOCK_STREAM, p) \in EsixSock
    BY <1>2, ReservedType
  <2>3. [Reserved(SOCK_STREAM, p) EXCEPT !.state = "CLOSED"] \in EsixSock
    BY <2>2 DEF EsixSock, SockStates
  <2>4. esix_sockets' \in Tables
    BY <2>1, <2>3, LookupType, SetType DEF TypeOK, Tables
  <2>5. wire' \subseteq Packet
    BY <1>1, <1>5, AnswerType, SendType DEF ChildNoMemory, TcpFlags, RstFlags
  <2> QED BY <1>1, <1>2, <2>1, <2>4, <2>5 DEF TypeOK, Tables
<1>6. CASE ChildCreated(t)
  <2>1. PICK l \in FindListen(SOCK_STREAM, t), p \in NextPort, c \in FreeSlot :
          /\ esix_last_port' = p
          /\ esix_sockets' = [esix_sockets EXCEPT ![l].child = Append(@, c),
                                                  ![c] = Session(t, p)]
    BY <1>6 DEF ChildCreated
  <2>2. l \in Socks /\ c \in Socks
    BY LookupType
  <2>3. Session(t, p) \in EsixSock
    BY <1>2, SessionType
  <2> DEFINE k == esix_sockets[l]
             q == Append(k.child, c)
  <2>3_1. k \in EsixSock
    BY <2>2 DEF TypeOK
  <2>4. q \in Seq(Socks)
    BY <2>2, <2>3_1, AppendProperties DEF EsixSock
  <2>5. [k EXCEPT !.child = Append(@, c)] \in EsixSock
    <3>1. [k EXCEPT !.child = q] \in EsixSock
      <4> HIDE DEF k, q
      <4> QED BY <2>3_1, <2>4 DEF EsixSock
    <3> QED BY <3>1
  <2>6. esix_sockets' \in [Socks -> EsixSock]
    BY <2>1, <2>2, <2>3, <2>5 DEF TypeOK
  <2>7. wire' \subseteq Packet
    BY <1>1, <1>6, ZeroSeqn, AnswerType, SendType DEF ChildCreated, TcpFlags
  <2> QED BY <1>1, <1>2, <2>1, <2>6, <2>7 DEF TypeOK
<1> QED BY <1>3, <1>4, <1>5, <1>6 DEF tcp_process_SYN

(* A SYN|ACK, for a socket that connects and for any other.                *)
LEMMA SynAckType ==
  ASSUME TypeOK, NEW t \in TcpIn, tcp_process_SYN_ACK(t)
  PROVE  TypeOK'
<1>1. Plus(t.ackn, 1) \in Seqn /\ Plus(t.seqn, 1) \in Seqn
  BY TcpInType, PlusType
<1>2. CASE FindConnected(t) = {} /\ Refuse(t, Plus(t.ackn, 1), Plus(t.seqn, 1))
  BY <1>1, <1>2, RefuseType DEF tcp_process_SYN_ACK, TypeOK
<1>3. ASSUME NEW s \in FindConnected(t),
             tcp_process_SYN_ACK(t)!2!2!(s)
      PROVE  TypeOK'
  <2> DEFINE k == esix_sockets[s]
             state == IF k.state = "SYN_SENT" THEN "ESTABLISHED" ELSE k.state
  <2>1. s \in Socks /\ k \in EsixSock /\ k.seqn \in Seqn
    BY LookupType DEF TypeOK, EsixSock
  <2>2. state \in SockStates
    BY <2>1 DEF EsixSock, SockStates
  <2>3. [k EXCEPT !.state = state, !.ackn = Plus(t.ackn, 1)] \in EsixSock
    BY <1>1, <2>1, <2>2 DEF EsixSock
  <2>4. Answer(t, k.seqn, Plus(t.ackn, 1), "ACK") \in Packet
    BY <1>1, <2>1, AnswerType DEF TcpFlags, AckFlags
  <2> QED BY <1>3, <2>1, <2>3, <2>4, StoreType, SendType DEF tcp_process_SYN_ACK
<1> QED BY <1>2, <1>3 DEF tcp_process_SYN_ACK

(* What the two handlers start from: the socket found, less the segments   *)
(* that are acknowledged.                                                  *)
LEMMA ExpireType ==
  ASSUME TypeOK, NEW t \in TcpIn, NEW s \in FindConnected(t),
         NEW n \in ExpiredPrefix(esix_sockets[s].sent, t.ackn)
  PROVE  /\ s \in Socks
         /\ esix_sockets[s] \in EsixSock
         /\ n \in 0 .. Len(esix_sockets[s].sent)
         /\ DropSent(esix_sockets[s], n) \in EsixSock
<1>1. s \in Socks /\ esix_sockets[s] \in EsixSock
  BY LookupType DEF TypeOK
<1>2. n \in 0 .. Len(esix_sockets[s].sent)
  BY DEF ExpiredPrefix
<1> QED BY <1>1, <1>2, DropType

(* An ACK drops elements, delivers data or closes.                         *)
LEMMA AckType ==
  ASSUME TypeOK, NEW t \in TcpIn, tcp_process_ACK(t)
  PROVE  TypeOK'
<1>1. CASE FindConnected(t) = {} /\ Refuse(t, t.ackn, t.seqn)
  BY <1>1, TcpInType, RefuseType DEF tcp_process_ACK, TypeOK
<1>2. ASSUME NEW s \in FindConnected(t),
             NEW n \in ExpiredPrefix(esix_sockets[s].sent, t.ackn),
             NEW k, k = DropSent(esix_sockets[s], n),
             \/ AckLate(t, s, k) \/ AckEstablishes(t, s, k) \/ AckCloses(t, s, k)
             \/ AckData(t, s, k) \/ AckOnly(t, s, k)
      PROVE  TypeOK'
  <2>0. s \in Socks /\ k \in EsixSock
    BY <1>2, ExpireType
  <2>1. /\ s \in Socks /\ k \in EsixSock
        /\ k.seqn \in Seqn /\ k.ackn \in Seqn /\ k.ackn \in Nat
        /\ UNCHANGED <<esix_last_port, current_time, fd>>
    BY <2>0, SizesAssumption DEF EsixSock, Seqn, tcp_process_ACK
  <2>2. CASE AckLate(t, s, k)
    <3>1. Answer(t, k.seqn, k.ackn, "ACK") \in Packet
      BY <2>1, AnswerType DEF TcpFlags, AckFlags
    <3> QED BY <2>1, <2>2, <3>1, StoreType, SendType DEF AckLate
  <2>3. CASE AckEstablishes(t, s, k)
    <3>1. [k EXCEPT !.state = "ESTABLISHED"] \in EsixSock
      BY <2>1 DEF EsixSock, SockStates
    <3> QED BY <2>1, <2>3, <3>1, StoreType, SilentType DEF AckEstablishes
  <2>4. CASE AckCloses(t, s, k)
    BY <2>1, <2>4, ClosedType, StoreType, SilentType DEF AckCloses
  <2>5. CASE AckData(t, s, k)
    <3> DEFINE ackn == Plus(k.ackn, Len(t.data))
               e == [from |-> k.raddr, fport |-> k.rport, data |-> t.data]
               q == Append(k.recv, e)
    <3>1. t.data \in Payloads
      BY <2>5, TcpInType DEF AckData
    <3>2. ackn \in Seqn
      BY <2>1, <3>1, PayloadLen, PlusType
    <3>3. e \in RecvElement
      BY <2>1, <3>1 DEF RecvElement, EsixSock
    <3>4. q \in Seq(RecvElement)
      BY <2>1, <3>3, AppendProperties DEF EsixSock
    <3>5. [k EXCEPT !.ackn = ackn, !.recv = q] \in EsixSock
      <4> HIDE DEF ackn, q
      <4> QED BY <2>1, <3>2, <3>4 DEF EsixSock
    <3>6. Answer(t, k.seqn, ackn, "ACK") \in Packet
      BY <2>1, <3>2, AnswerType DEF TcpFlags, AckFlags
    <3> QED BY <2>1, <2>5, <3>5, <3>6, StoreType, SendType DEF AckData
  <2>6. CASE AckOnly(t, s, k)
    BY <2>1, <2>6, StoreType, SilentType DEF AckOnly
  <2> QED BY <1>2, <2>2, <2>3, <2>4, <2>5, <2>6
<1> QED BY <1>1, <1>2 DEF tcp_process_ACK

(* A FIN, with and without data.                                           *)
LEMMA FinType ==
  ASSUME TypeOK, NEW t \in TcpIn, tcp_process_FIN(t)
  PROVE  TypeOK'
<1>1. CASE FindConnected(t) = {} /\ Refuse(t, Plus(t.ackn, 1), Plus(t.seqn, 1))
  <2>1. Plus(t.ackn, 1) \in Seqn /\ Plus(t.seqn, 1) \in Seqn
    BY TcpInType, PlusType
  <2> QED BY <1>1, <2>1, RefuseType DEF tcp_process_FIN, TypeOK
<1>2. ASSUME NEW s \in FindConnected(t),
             NEW n \in ExpiredPrefix(esix_sockets[s].sent, t.ackn),
             NEW k, k = DropSent(esix_sockets[s], n),
             FinAnswered(t, s, k) \/ FinCounted(t, s, k) \/ FinIgnored(t, s, k)
      PROVE  TypeOK'
  <2> DEFINE ackn == Plus(k.ackn, 1)
             seqn == Plus(k.seqn, 1)
  <2>0. s \in Socks /\ k \in EsixSock
    BY <1>2, ExpireType
  <2>1. /\ s \in Socks /\ k \in EsixSock
        /\ k.seqn \in Seqn /\ k.seqn \in Nat /\ k.ackn \in Nat
        /\ UNCHANGED <<esix_last_port, current_time, fd>>
    BY <2>0, SizesAssumption DEF EsixSock, Seqn, tcp_process_FIN
  <2>2. ackn \in Seqn /\ seqn \in Seqn
    BY <2>1, PlusType
  <2>3. CASE FinAnswered(t, s, k)
    <3>1. [k EXCEPT !.ackn = ackn, !.seqn = seqn, !.state = "FIN_WAIT_2"] \in EsixSock
      <4> HIDE DEF ackn, seqn
      <4> QED BY <2>1, <2>2 DEF EsixSock, SockStates
    <3>2. Answer(t, k.seqn, ackn, "FIN|ACK") \in Packet
      BY <2>1, <2>2, AnswerType DEF TcpFlags, FinFlags
    <3> QED BY <2>1, <2>3, <3>1, <3>2, StoreType, SendType DEF FinAnswered
  <2>4. CASE FinCounted(t, s, k)
    <3>1. [k EXCEPT !.ackn = ackn] \in EsixSock
      <4> HIDE DEF ackn
      <4> QED BY <2>1, <2>2 DEF EsixSock
    <3> QED BY <2>1, <2>4, <3>1, StoreType, SilentType DEF FinCounted
  <2>5. CASE FinIgnored(t, s, k)
    BY <2>1, <2>5, StoreType, SilentType DEF FinIgnored
  <2> QED BY <1>2, <2>3, <2>4, <2>5
<1> QED BY <1>1, <1>2 DEF tcp_process_FIN

(* A RST closes.                                                           *)
LEMMA RstType ==
  ASSUME TypeOK, NEW t \in TcpIn, tcp_process_RST(t)
  PROVE  TypeOK'
<1>1. PICK s \in FindConnected(t) : Set(s, Closed(esix_sockets[s]))
  BY DEF tcp_process_RST
<1>2. s \in Socks /\ esix_sockets[s] \in EsixSock
  BY LookupType DEF TypeOK
<1> QED BY <1>1, <1>2, ClosedType, StoreType, SilentType DEF tcp_process_RST

(* A datagram is queued or answered.                                       *)
LEMMA UdpType ==
  ASSUME TypeOK, NEW d \in UdpIn,
         udp_process_queue(d) \/ udp_process_unreachable(d)
  PROVE  TypeOK'
<1>1. CASE udp_process_unreachable(d)
  BY <1>1, UnreachableType, SendType DEF udp_process_unreachable, TypeOK
<1>2. CASE udp_process_queue(d)
  <2> DEFINE e == [from |-> d.src, fport |-> d.sport, data |-> d.data]
  <2>1. PICK s \in FindListen(SOCK_DGRAM, d) :
          Set(s, [esix_sockets[s] EXCEPT !.recv = Append(@, e)])
    BY <1>2 DEF udp_process_queue
  <2>2. s \in Socks /\ esix_sockets[s] \in EsixSock
    BY LookupType DEF TypeOK
  <2>3. e \in RecvElement
    BY PortsAssumption DEF UdpIn, RecvElement, Addrs
  <2>4. Append(esix_sockets[s].recv, e) \in Seq(RecvElement)
    BY <2>2, <2>3, AppendProperties DEF EsixSock
  <2>5. [esix_sockets[s] EXCEPT !.recv = Append(@, e)] \in EsixSock
    <3> DEFINE q == Append(esix_sockets[s].recv, e)
    <3>1. [esix_sockets[s] EXCEPT !.recv = q] \in EsixSock
      <4> HIDE DEF q
      <4> QED BY <2>2, <2>4 DEF EsixSock, q
    <3> QED BY <3>1
  <2> QED BY <1>2, <2>1, <2>2, <2>5, StoreType, SilentType DEF udp_process_queue
<1> QED BY <1>1, <1>2

(* Housekeeping.                                                           *)
LEMMA HousekeptType ==
  ASSUME NEW k \in EsixSock, NEW now \in Nat,
         \A i \in 1 .. Len(k.sent) : k.sent[i].t_sent <= now
  PROVE  /\ Housekept(k, now) \in EsixSock
         /\ HousekeepSends(k, now) \subseteq Packet
<1>1. CASE GivesUp(k, now)
  <2>1. Segment(k, k.seqn, "RST|ACK", <<>>) \in Packet
    BY SegmentType DEF EsixSock, TcpFlags, RstFlags
  <2>2. Housekept(k, now) = Closed(k)
    BY <1>1 DEF Housekept, GivesUp, Resends
  <2>3. HousekeepSends(k, now) = {Segment(k, k.seqn, "RST|ACK", <<>>)}
    BY <1>1 DEF HousekeepSends, Resends
  <2> QED BY <2>1, <2>2, <2>3, ClosedType
<1>2. CASE Resends(k, now)
  <2>1. k.sent \in Seq(SentElement) /\ k.sent # <<>>
    BY <1>2 DEF Resends, EsixSock
  <2>2. Head(k.sent) \in SentElement /\ Head(k.sent) = k.sent[1] /\ 1 \in 1 .. Len(k.sent)
    BY <2>1, HeadTailProperties, EmptySeq
  <2>3. Age(k, now) \in Nat
    BY <2>2 DEF Age, SentElement
  <2>4. now + XorTwo(Age(k, now)) \in Nat
    <3>1. XorTwo(Age(k, now)) \in Nat
      BY <2>3, XorTwoBounds
    <3> QED BY <3>1
  <2>5. Housekept(k, now) = [k EXCEPT !.rexmit_date = now + XorTwo(Age(k, now))]
    BY <1>2 DEF Housekept, Resends
  <2>6. Housekept(k, now) \in EsixSock
    BY <2>4, <2>5 DEF EsixSock
  <2>7. Segment(k, Head(k.sent).seqn, "PSH|ACK", Head(k.sent).data) \in Packet
    BY <2>2, SegmentType DEF SentElement, TcpFlags, AckFlags
  <2>8. HousekeepSends(k, now) = {Segment(k, Head(k.sent).seqn, "PSH|ACK", Head(k.sent).data)}
    BY <1>2 DEF HousekeepSends, Resends
  <2> QED BY <2>6, <2>7, <2>8
<1>3. CASE ~GivesUp(k, now) /\ ~Resends(k, now)
  <2>1. [k EXCEPT !.rexmit_date = 0] \in EsixSock
    BY DEF EsixSock
  <2>2. Due(k, now) => k.sent = <<>>
    BY <1>3 DEF Resends
  <2>3. Housekept(k, now) = k \/ Housekept(k, now) = [k EXCEPT !.rexmit_date = 0]
    <3>1. CASE Due(k, now)
      BY <1>3, <2>2, <3>1 DEF Housekept
    <3>2. CASE ~Due(k, now)
      BY <1>3, <3>2 DEF Housekept
    <3> QED BY <3>1, <3>2
  <2>4. HousekeepSends(k, now) = {}
    BY <1>3 DEF HousekeepSends
  <2> QED BY <2>1, <2>3, <2>4
<1> QED BY <1>1, <1>2, <1>3 DEF Resends

-----------------------------------------------------------------------------
(* The invariant of one slot.                                              *)

(* The deadline behind GiveUpBound.  Housekeeping runs in every tick and   *)
(* moves a date that is due, so the date is never in the past; when the    *)
(* head of the queue is retransmitted its age is at most MAX_RETX_TIME;    *)
(* and every send() that pushes the date back adds a segment behind.       *)
Timely(k, now) ==
  /\ \A i \in 1 .. Len(k.sent) : k.sent[i].t_sent <= now /\ now <= k.rexmit_date
  /\ \A i, j \in 1 .. Len(k.sent) :
       i <= j => k.sent[i].t_sent <= k.sent[j].t_sent
  /\ \A i \in 1 .. Len(k.sent) :
       k.rexmit_date <= k.sent[i].t_sent + 2 * MAX_RETX_TIME + 2
                          + 2 * (Len(k.sent) - i)

RecordInv(k, now) ==
  /\ k.state = "CLOSED" => Empty(k)
  /\ Served(k)
  /\ Bounded(k)
  /\ Contiguous(k)
  /\ Timely(k, now)

(* What makes the invariant hold after a step that neither queues nor      *)
(* drops a sent segment and leaves the retransmission date alone.          *)
LEMMA FrameInv ==
  ASSUME NEW now \in Nat, NEW k \in EsixSock, RecordInv(k, now),
         NEW j \in EsixSock,
         j.sent = k.sent, j.rexmit_date = k.rexmit_date,
         j.sent # <<>> => j.seqn = k.seqn /\ j.state = k.state,
         j.state = "CLOSED" => Empty(j), Served(j), Bounded(j)
  PROVE  RecordInv(j, now)
<1>1. Timely(j, now)
  BY DEF RecordInv, Timely
<1>2. Contiguous(j)
  <2>1. CASE j.sent = <<>>
    BY <2>1 DEF Contiguous
  <2>2. CASE j.sent # <<>>
    BY <2>2 DEF RecordInv, Contiguous, FinSent
  <2> QED BY <2>1, <2>2
<1> QED BY <1>1, <1>2 DEF RecordInv

(* Without a sent queue only the first three parts of RecordInv matter.    *)
LEMMA NothingSentInv ==
  ASSUME NEW now \in Nat, NEW j \in EsixSock, j.sent = <<>>,
         j.state = "CLOSED" => Empty(j), Served(j), Bounded(j)
  PROVE  RecordInv(j, now)
BY DEF RecordInv, Contiguous, Timely

(* A slot without elements satisfies everything.                           *)
LEMMA EmptyInv ==
  ASSUME NEW now \in Nat, NEW j \in EsixSock, Empty(j)
  PROVE  RecordInv(j, now)
<1>1. Served(j) /\ Bounded(j)
  BY SizesAssumption DEF Empty, Served, Bounded
<1> QED BY <1>1, NothingSentInv DEF Empty

(* esix_socket_expire_e removes from the front.                            *)
LEMMA DropInv ==
  ASSUME NEW now \in Nat, NEW k \in EsixSock, RecordInv(k, now),
         NEW n \in 0 .. Len(k.sent)
  PROVE  RecordInv(DropSent(k, n), now)
<1> DEFINE j == DropSent(k, n)
           m == Len(k.sent)
<1>1. /\ j \in EsixSock /\ Len(j.sent) = m - n
      /\ \A i \in 1 .. m - n : j.sent[i] = k.sent[n + i]
  BY DropType
<1>2. /\ j.state = k.state /\ j.proto = k.proto /\ j.seqn = k.seqn
      /\ j.rexmit_date = k.rexmit_date /\ j.child = k.child /\ j.recv = k.recv
  BY DEF DropSent, EsixSock
<1>3. m \in Nat /\ n \in Nat /\ n <= m
  BY DEF EsixSock
<1>4. k.sent = <<>> => j.sent = <<>>
  BY <1>1, <1>3, EmptySeq DEF EsixSock
<1> HIDE DEF j
<1>5. (j.state = "CLOSED" => Empty(j)) /\ Served(j)
  BY <1>2, <1>4 DEF RecordInv, Empty, Served
<1>6. Bounded(j)
  <2> DEFINE r == Len(k.recv)
  <2>1. r \in Nat /\ m + r <= ESIX_QUEUE_DEPHT + 1
    BY DEF RecordInv, Bounded, EsixSock
  <2>2. (m - n) + r <= ESIX_QUEUE_DEPHT + 1
    <3> HIDE DEF m, r
    <3> QED BY <1>3, <2>1, SizesAssumption
  <2> QED BY <1>1, <1>2, <2>2 DEF Bounded
<1>7. Contiguous(j)
  <2> SUFFICES ASSUME NEW i \in 1 .. Len(j.sent)
               PROVE  IF i < Len(j.sent)
                      THEN SegmentEnd(j.sent[i]) = j.sent[i + 1].seqn
                      ELSE Plus(SegmentEnd(j.sent[i]), FinSent(j)) = j.seqn
    BY DEF Contiguous
  <2>1. n + i \in 1 .. m /\ j.sent[i] = k.sent[n + i]
    BY <1>1, <1>3
  <2>2. FinSent(j) = FinSent(k)
    BY <1>2 DEF FinSent
  <2>3. CASE i < Len(j.sent)
    <3>1. j.sent[i + 1] = k.sent[n + i + 1] /\ n + i < m
      BY <1>1, <1>3, <2>3
    <3> QED BY <2>1, <2>3, <3>1 DEF RecordInv, Contiguous
  <2>4. CASE ~(i < Len(j.sent))
    <3>1. ~(n + i < m)
      BY <1>1, <1>3, <2>4
    <3> QED BY <1>2, <2>1, <2>2, <2>4, <3>1 DEF RecordInv, Contiguous
  <2> QED BY <2>3, <2>4
<1>8. Timely(j, now)
  <2>1. \A i \in 1 .. m - n : n + i \in 1 .. m /\ m - (n + i) = (m - n) - i
    BY <1>3
  <2>2. Timely(k, now)
    BY DEF RecordInv
  <2>3. \A i \in 1 .. Len(j.sent) :
          j.sent[i].t_sent <= now /\ now <= j.rexmit_date
    BY <1>1, <1>2, <2>1, <2>2 DEF Timely
  <2>4. ASSUME NEW i \in 1 .. Len(j.sent), NEW i2 \in 1 .. Len(j.sent), i <= i2
        PROVE  j.sent[i].t_sent <= j.sent[i2].t_sent
    <3>1. i \in 1 .. m - n /\ i2 \in 1 .. m - n
      BY <1>1
    <3>2. n + i \in 1 .. m /\ n + i2 \in 1 .. m /\ n + i <= n + i2
      BY <1>3, <2>4, <3>1
    <3>3. j.sent[i] = k.sent[n + i] /\ j.sent[i2] = k.sent[n + i2]
      BY <1>1, <3>1
    <3> HIDE DEF m
    <3> QED BY <2>2, <3>2, <3>3 DEF Timely, m
  <2>5. ASSUME NEW i \in 1 .. Len(j.sent)
        PROVE  j.rexmit_date <= j.sent[i].t_sent + 2 * MAX_RETX_TIME + 2
                                  + 2 * (Len(j.sent) - i)
    <3>1. k.rexmit_date <= k.sent[n + i].t_sent + 2 * MAX_RETX_TIME + 2
                             + 2 * (m - (n + i))
      BY <1>1, <2>1, <2>2 DEF Timely
    <3> QED BY <1>1, <1>2, <2>1, <3>1
  <2> QED BY <2>3, <2>4, <2>5 DEF Timely
<1> QED BY <1>5, <1>6, <1>7, <1>8 DEF RecordInv, j

(* A queue that is not full has room for one payload under QueueBound.     *)
LEMMA RoomLeft ==
  ASSUME NEW k \in EsixSock, ~QueueFull(k)
  PROVE  /\ Len(k.sent) + 1 + Len(k.recv) <= ESIX_QUEUE_DEPHT + 1
         /\ Len(k.sent) + (Len(k.recv) + 1) <= ESIX_QUEUE_DEPHT + 1
<1> DEFINE a == Len(k.child)
           b == Len(k.sent)
           c == Len(k.recv)
<1>1. a \in Nat /\ b \in Nat /\ c \in Nat
  BY DEF EsixSock
<1>2. ESIX_QUEUE_DEPHT \in Nat
  BY SizesAssumption
<1>3. ~(a + b + c > ESIX_QUEUE_DEPHT)
  BY DEF QueueFull, QueueLen
<1> HIDE DEF a, b, c
<1>4. b + 1 + c <= ESIX_QUEUE_DEPHT + 1 /\ b + (c + 1) <= ESIX_QUEUE_DEPHT + 1
  BY <1>1, <1>2, <1>3
<1> QED BY <1>4 DEF b, c

(* send() appends a segment that starts at seqn and arms the timer.        *)
LEMMA SendInv ==
  ASSUME NEW now \in Nat, NEW k \in EsixSock, RecordInv(k, now),
         k.proto = SOCK_STREAM, k.state = "ESTABLISHED", ~QueueFull(k),
         NEW data \in Payloads, NEW j \in EsixSock,
         j = [k EXCEPT
                !.sent = Append(k.sent, [seqn |-> k.seqn, data |-> data,
                                         t_sent |-> now]),
                !.seqn = Plus(k.seqn, Len(data)),
                !.rexmit_date = now + 2]
  PROVE  RecordInv(j, now)
<1> DEFINE e == [seqn |-> k.seqn, data |-> data, t_sent |-> now]
           m == Len(k.sent)
<1>1. /\ k.sent \in Seq(SentElement) /\ k.recv \in Seq(RecvElement)
      /\ k.child \in Seq(Socks) /\ k.seqn \in Seqn /\ k.seqn \in Nat
  BY SizesAssumption DEF EsixSock, Seqn
<1>2. e \in SentElement
  BY <1>1 DEF SentElement
<1>3. /\ j.sent = Append(k.sent, e) /\ j.seqn = Plus(k.seqn, Len(data))
      /\ j.rexmit_date = now + 2 /\ j.state = k.state /\ j.proto = k.proto
      /\ j.recv = k.recv /\ j.child = k.child
  BY DEF EsixSock
<1>4. /\ m \in Nat /\ Len(j.sent) = m + 1 /\ j.sent[m + 1] = e
      /\ \A i \in 1 .. m : j.sent[i] = k.sent[i]
  BY <1>1, <1>2, <1>3, AppendProperties
<1>5. Len(k.recv) \in Nat /\ Len(k.child) \in Nat
  BY <1>1
<1>6. Bounded(j)
  <2>1. Len(j.sent) + Len(j.recv) = Len(k.sent) + 1 + Len(k.recv)
    BY <1>3, <1>4
  <2> QED BY <2>1, RoomLeft DEF Bounded
<1>7. Served(j)
  BY <1>3 DEF RecordInv, Served
<1>8. Contiguous(j)
  <2> SUFFICES ASSUME NEW i \in 1 .. Len(j.sent)
               PROVE  IF i < Len(j.sent)
                      THEN SegmentEnd(j.sent[i]) = j.sent[i + 1].seqn
                      ELSE Plus(SegmentEnd(j.sent[i]), FinSent(j)) = j.seqn
    BY DEF Contiguous
  <2>1. FinSent(k) = 0 /\ FinSent(j) = 0
    BY <1>3 DEF FinSent
  <2>2. CASE i < m
    <3>1. j.sent[i] = k.sent[i] /\ j.sent[i + 1] = k.sent[i + 1] /\ i \in 1 .. m
      BY <1>4, <2>2
    <3> QED BY <1>4, <2>2, <3>1 DEF RecordInv, Contiguous
  <2>3. CASE i = m
    <3>1. j.sent[i] = k.sent[i] /\ j.sent[i + 1] = e /\ i \in 1 .. m
      BY <1>4, <2>3
    <3>2. Plus(SegmentEnd(k.sent[i]), 0) = k.seqn
      BY <2>1, <2>3, <3>1 DEF RecordInv, Contiguous
    <3>3. SegmentEnd(k.sent[i]) \in Seqn
      <4>1. k.sent[i] \in SentElement
        BY <1>1, <3>1, ElementOfSeq
      <4>2. k.sent[i].seqn \in Nat /\ k.sent[i].data \in Payloads
        BY <4>1, SizesAssumption, SMTT(30) DEF SentElement, Seqn
      <4> QED BY <4>2, PayloadLen, PlusType DEF SegmentEnd
    <3>4. SegmentEnd(k.sent[i]) = k.seqn
      BY <3>2, <3>3, PlusZero
    <3> QED BY <1>4, <2>3, <3>1, <3>4
  <2>4. CASE i = m + 1
    <3>1. SegmentEnd(e) = Plus(k.seqn, Len(data))
      BY DEF SegmentEnd
    <3>2. Plus(k.seqn, Len(data)) \in Seqn
      BY <1>1, PayloadLen, PlusType
    <3>3. Plus(Plus(k.seqn, Len(data)), 0) = Plus(k.seqn, Len(data))
      BY <3>2, PlusZero
    <3> QED BY <1>3, <1>4, <2>1, <2>4, <3>1, <3>3
  <2> QED BY <1>4, <2>2, <2>3, <2>4
<1>9. Timely(j, now)
  <2>0. Timely(k, now)
    BY DEF RecordInv
  <2>1. \A i \in 1 .. m : k.sent[i].t_sent \in Nat
    <3> SUFFICES ASSUME NEW i \in 1 .. m PROVE k.sent[i].t_sent \in Nat
      OBVIOUS
    <3>1. k.sent[i] \in SentElement
      BY <1>1, ElementOfSeq
    <3> QED BY <3>1 DEF SentElement
  <2>2. e.t_sent = now
    OBVIOUS
  <2>3. \A i \in 1 .. Len(j.sent) : i \in 1 .. m \/ i = m + 1
    BY <1>4
  <2> HIDE DEF e, m
  <2>4. \A i \in 1 .. Len(j.sent) :
          j.sent[i].t_sent <= now /\ now <= j.rexmit_date
    BY <1>3, <1>4, <2>0, <2>2, <2>3 DEF Timely, m
  <2>5. ASSUME NEW i \in 1 .. Len(j.sent), NEW i2 \in 1 .. Len(j.sent), i <= i2
        PROVE  j.sent[i].t_sent <= j.sent[i2].t_sent
    <3>1. CASE i2 = m + 1
      BY <1>4, <2>2, <2>4, <3>1
    <3>2. CASE i2 \in 1 .. m
      <4>1. i \in 1 .. m
        BY <1>4, <2>5, <3>2
      <4> QED BY <1>4, <2>0, <2>5, <3>2, <4>1 DEF Timely, m
    <3> QED BY <2>3, <3>1, <3>2
  <2>6. ASSUME NEW i \in 1 .. Len(j.sent)
        PROVE  j.rexmit_date <= j.sent[i].t_sent + 2 * MAX_RETX_TIME + 2
                                  + 2 * (Len(j.sent) - i)
    <3>1. CASE i = m + 1
      <4>1. j.sent[i].t_sent = now /\ Len(j.sent) - i = 0
        BY <1>4, <2>2, <3>1
      <4>2. now + 2 <= now + 2 * MAX_RETX_TIME + 2 + 2 * 0
        BY SizesAssumption
      <4> QED BY <1>3, <4>1, <4>2
    <3>2. CASE i \in 1 .. m
      <4>1. /\ k.rexmit_date <= k.sent[i].t_sent + 2 * MAX_RETX_TIME + 2
                                  + 2 * (m - i)
            /\ now <= k.rexmit_date
        BY <2>0, <3>2 DEF Timely, m
      <4>2. k.rexmit_date \in Nat
        BY DEF EsixSock
      <4>3. now + 2 <= k.sent[i].t_sent + 2 * MAX_RETX_TIME + 2
                         + 2 * ((m + 1) - i)
        BY <1>4, <2>1, <3>2, <4>1, <4>2, SizesAssumption, DatesOnSend
      <4>4. j.sent[i] = k.sent[i]
        BY <1>4, <3>2
      <4> QED BY <1>3, <1>4, <4>3, <4>4
    <3> QED BY <2>3, <3>1, <3>2
  <2> QED BY <2>4, <2>5, <2>6 DEF Timely
<1> QED BY <1>3, <1>6, <1>7, <1>8, <1>9 DEF RecordInv

(* The FIN takes the number after the last byte.                           *)
LEMMA FinInv ==
  ASSUME NEW now \in Nat, NEW k \in EsixSock, RecordInv(k, now),
         k.state \in {"SYN_RECEIVED", "ESTABLISHED"}, k.proto = SOCK_STREAM,
         NEW a \in Seqn, NEW j \in EsixSock,
         j = [k EXCEPT !.ackn = a, !.seqn = Plus(k.seqn, 1), !.state = "FIN_WAIT_2"]
  PROVE  RecordInv(j, now)
<1>1. /\ j.sent = k.sent /\ j.recv = k.recv /\ j.child = k.child
      /\ j.seqn = Plus(k.seqn, 1) /\ j.rexmit_date = k.rexmit_date
      /\ j.proto = k.proto /\ j.state = "FIN_WAIT_2"
  BY DEF EsixSock
<1>2. Timely(j, now) /\ Bounded(j)
  BY <1>1 DEF RecordInv, Timely, Bounded
<1>3. Served(j)
  BY <1>1 DEF RecordInv, Served
<1>4. Contiguous(j)
  <2> SUFFICES ASSUME NEW i \in 1 .. Len(j.sent)
               PROVE  IF i < Len(j.sent)
                      THEN SegmentEnd(j.sent[i]) = j.sent[i + 1].seqn
                      ELSE Plus(SegmentEnd(j.sent[i]), FinSent(j)) = j.seqn
    BY DEF Contiguous
  <2>1. k.sent[i] \in SentElement
    BY <1>1, ElementOfSeq DEF EsixSock
  <2>2. SegmentEnd(k.sent[i]) \in Seqn
    <3>1. k.sent[i].seqn \in Nat /\ k.sent[i].data \in Payloads
      BY <2>1, SizesAssumption, SMTT(30) DEF SentElement, Seqn
    <3> QED BY <3>1, PayloadLen, PlusType DEF SegmentEnd
  <2>3. FinSent(k) = 0 /\ FinSent(j) = 1
    BY <1>1 DEF FinSent
  <2>4. Plus(SegmentEnd(k.sent[i]), 0) = SegmentEnd(k.sent[i])
    BY <2>2, PlusZero
  <2> QED BY <1>1, <2>3, <2>4 DEF RecordInv, Contiguous
<1> QED BY <1>1, <1>2, <1>3, <1>4 DEF RecordInv

(* A tick: a slot that is not due has its date in the future; one that is  *)
(* retransmitted has a head no older than MAX_RETX_TIME.                   *)
LEMMA HousekeptInv ==
  ASSUME NEW now \in Nat \ {0}, NEW k \in EsixSock, RecordInv(k, now),
         Housekept(k, now + 1) \in EsixSock
  PROVE  RecordInv(Housekept(k, now + 1), now + 1)
<1> DEFINE j == Housekept(k, now + 1)
           m == Len(k.sent)
<1>0. Timely(k, now) /\ m \in Nat /\ k.rexmit_date \in Nat
  BY DEF RecordInv, EsixSock
<1>1. \A i \in 1 .. m : k.sent[i].t_sent \in Nat /\ k.sent[i].t_sent <= now
  <2> SUFFICES ASSUME NEW i \in 1 .. m
               PROVE  k.sent[i].t_sent \in Nat /\ k.sent[i].t_sent <= now
    OBVIOUS
  <2>1. k.sent[i] \in SentElement
    BY ElementOfSeq DEF EsixSock
  <2> QED BY <1>0, <2>1 DEF SentElement, Timely
<1>2. CASE GivesUp(k, now + 1)
  <2>1. j = Closed(k)
    BY <1>2 DEF Housekept, GivesUp, Resends
  <2> QED BY <2>1, ClosedType, EmptyInv
<1>3. CASE Resends(k, now + 1)
  <2> DEFINE date == now + 1 + XorTwo(Age(k, now + 1))
  <2>1. j = [k EXCEPT !.rexmit_date = date]
    BY <1>3 DEF Housekept, Resends
  <2>2. 1 \in 1 .. m /\ Head(k.sent) = k.sent[1]
    BY <1>3, HeadTailProperties, EmptySeq DEF Resends, EsixSock
  <2> DEFINE h == k.sent[1].t_sent
             wait == XorTwo(Age(k, now + 1))
  <2>3. Age(k, now + 1) = (now + 1) - h
    BY <2>2 DEF Age
  <2>3_1. h \in Nat /\ h <= now
    BY <1>1, <2>2
  <2>3_2. (now + 1) - h \in Nat
    <3> HIDE DEF h
    <3> QED BY <2>3_1
  <2>3_3. ~((now + 1) - h > MAX_RETX_TIME)
    BY <1>3, <2>3 DEF Resends, GivesUp
  <2>3_4. wait \in Nat /\ wait <= (now + 1) - h + 2
    BY <2>3, <2>3_2, XorTwoBounds
  <2>4. /\ date \in Nat /\ now + 1 <= date
        /\ date <= h + 2 * MAX_RETX_TIME + 2
    <3> HIDE DEF h, wait
    <3>1. MAX_RETX_TIME \in Nat /\ now + 1 \in Nat /\ h <= now + 1
      BY <2>3_1, SizesAssumption
    <3>2. (now + 1) - h <= MAX_RETX_TIME
      BY <2>3_2, <2>3_3, <3>1
    <3>3. date = (now + 1) + wait
      BY DEF wait
    <3> HIDE DEF date
    <3> QED BY <2>3_1, <2>3_4, <3>1, <3>2, <3>3, DatesOnResend
  <2> HIDE DEF date
  <2>5. /\ j.sent = k.sent /\ j.recv = k.recv /\ j.child = k.child
        /\ j.seqn = k.seqn /\ j.rexmit_date = date
        /\ j.proto = k.proto /\ j.state = k.state
    BY <2>1 DEF EsixSock
  <2> HIDE DEF j
  <2>6. Timely(j, now + 1)
    <3>1. ASSUME NEW i \in 1 .. m
          PROVE  date <= k.sent[i].t_sent + 2 * MAX_RETX_TIME + 2 + 2 * (m - i)
      <4>1. h <= k.sent[i].t_sent
        BY <1>0, <2>2 DEF Timely
      <4>2. k.sent[i].t_sent \in Nat
        BY <1>1
      <4> HIDE DEF h
      <4> QED BY <1>0, <2>3_1, <2>4, <4>1, <4>2, SizesAssumption, DatesBehind
    <3>2. \A i \in 1 .. Len(j.sent) :
            j.sent[i].t_sent <= now + 1 /\ now + 1 <= j.rexmit_date
      BY <1>1, <2>4, <2>5
    <3> QED BY <1>0, <2>5, <3>1, <3>2 DEF Timely
  <2>7. Served(j) /\ Bounded(j) /\ Contiguous(j) /\ (j.state = "CLOSED" => Empty(j))
    BY <2>5 DEF RecordInv, Served, Bounded, Contiguous, FinSent, Empty
  <2> QED BY <2>6, <2>7 DEF RecordInv, j
<1>4. CASE ~GivesUp(k, now + 1) /\ ~Resends(k, now + 1)
  <2>1. CASE k.sent = <<>>
    <3>1. j = k \/ j = [k EXCEPT !.rexmit_date = 0]
      <4>1. CASE Due(k, now + 1)
        BY <1>4, <2>1, <4>1 DEF Housekept
      <4>2. CASE ~Due(k, now + 1)
        BY <1>4, <4>2 DEF Housekept
      <4> QED BY <4>1, <4>2
    <3>2. /\ j.sent = <<>> /\ j.recv = k.recv /\ j.child = k.child
          /\ j.proto = k.proto /\ j.state = k.state
      BY <2>1, <3>1 DEF EsixSock
    <3>3. Served(j) /\ Bounded(j) /\ (j.state = "CLOSED" => Empty(j))
      BY <2>1, <3>2 DEF RecordInv, Served, Bounded, Empty
    <3> QED BY <3>2, <3>3, NothingSentInv
  <2>2. CASE k.sent # <<>>
    <3>1. ~Due(k, now + 1)
      BY <1>4, <2>2 DEF Resends
    <3>2. j = k
      BY <1>4, <2>2, <3>1 DEF Housekept
    <3>3. 1 \in 1 .. m
      BY <1>0, <2>2, EmptySeq DEF EsixSock
    <3>4. now <= k.rexmit_date
      BY <1>0, <3>3 DEF Timely
    <3>5. now + 1 <= k.rexmit_date
      BY <1>0, <3>1, <3>4 DEF Due
    <3>6. Timely(k, now + 1)
      <4>1. \A i \in 1 .. Len(k.sent) :
              k.sent[i].t_sent <= now + 1 /\ now + 1 <= k.rexmit_date
        BY <1>1, <3>5
      <4> QED BY <1>0, <4>1 DEF Timely
    <3> QED BY <3>2, <3>6 DEF RecordInv
  <2> QED BY <2>1, <2>2
<1> QED BY <1>2, <1>3, <1>4

-----------------------------------------------------------------------------
(* The invariant of the table, and its preservation by every action.       *)

RecordsOK == \A s \in Socks : RecordInv(esix_sockets[s], current_time)
IInv == TypeOK /\ RecordsOK

(* The clock is a positive number.                                         *)
LEMMA NowType ==
  ASSUME TypeOK
  PROVE  current_time \in Nat /\ current_time \in Nat \ {0}
BY DEF TypeOK

(* Storing one record that satisfies the invariant.                        *)
LEMMA StoreInv ==
  ASSUME IInv, TypeOK', UNCHANGED current_time, NEW s \in Socks, NEW j, Set(s, j),
         j \in EsixSock => RecordInv(j, current_time)
  PROVE  RecordsOK'
<1>1. esix_sockets'[s] = j /\ \A u \in Socks \ {s} : esix_sockets'[u] = esix_sockets[u]
  BY DEF Set, IInv, TypeOK
<1>2. j \in EsixSock
  BY <1>1 DEF TypeOK
<1> QED BY <1>1, <1>2 DEF RecordsOK, IInv

(* What the invariant says of one slot.                                    *)
LEMMA SlotFacts ==
  ASSUME IInv, NEW s \in Socks
  PROVE  /\ esix_sockets[s] \in EsixSock
         /\ RecordInv(esix_sockets[s], current_time)
         /\ current_time \in Nat
BY DEF IInv, TypeOK, RecordsOK

(* socket reserves an empty record.                                        *)
LEMMA SocketCallInv ==
  ASSUME IInv, TypeOK', NEW f \in Fds, NEW type \in {SOCK_STREAM, SOCK_DGRAM},
         socket(f, type)
  PROVE  RecordsOK'
<1>1. PICK p \in NextPort : socket(f, type)!2!(p)
  BY DEF socket
<1>2. Reserved(type, p) \in EsixSock => RecordInv(Reserved(type, p), current_time)
  <2>1. Empty(Reserved(type, p))
    BY NoElements DEF Reserved, Blank, Empty
  <2> QED BY <2>1, EmptyInv, NowType DEF IInv
<1>3. UNCHANGED current_time
  BY DEF socket
<1>4. CASE FreeSlot = {} /\ UNCHANGED <<esix_sockets, fd>>
  BY <1>3, <1>4 DEF IInv, RecordsOK
<1>5. CASE \E s \in FreeSlot : /\ Set(s, Reserved(type, p))
                               /\ fd' = [fd EXCEPT ![f] = s]
  <2>1. PICK s \in Socks : Set(s, Reserved(type, p))
    BY <1>5, LookupType
  <2> QED BY <1>2, <1>3, <2>1, StoreInv
<1> QED BY <1>1, <1>4, <1>5

(* close empties the record, or asks for a FIN and leaves it to the peer.  *)
LEMMA CloseCallInv ==
  ASSUME IInv, TypeOK', NEW f \in Fds, close(f)
  PROVE  RecordsOK'
<1>1. UNCHANGED current_time
  BY DEF close
<1>2. CASE UNCHANGED esix_sockets
  BY <1>1, <1>2 DEF IInv, RecordsOK
<1>3. CASE Set(fd[f], Closed(esix_sockets[fd[f]]))
  <2>1. fd[f] \in Socks
    BY DEF close, IInv, TypeOK
  <2>2. Empty(Closed(esix_sockets[fd[f]]))
    BY <2>1, SlotFacts, ClosedType
  <2>3. Closed(esix_sockets[fd[f]]) \in EsixSock
          => RecordInv(Closed(esix_sockets[fd[f]]), current_time)
    BY <2>1, <2>2, SlotFacts, EmptyInv
  <2> QED BY <1>1, <1>3, <2>1, <2>3, StoreInv
<1> QED BY <1>2, <1>3 DEF close

(* Calls that change neither sent segments nor retransmission date.        *)
LEMMA PlainCallInv ==
  ASSUME IInv, TypeOK', NEW s \in Socks,
         \/ listen(s)
         \/ recvfrom(s)
         \/ \E f \in Fds : accept(s, f)
         \/ \E addr \in {in6addr_any} \cup OwnAddrs, port \in BindPorts :
              bind(s, addr, port)
         \/ \E addr \in Peers, port \in PeerPorts :
              connect_STREAM(s, addr, port) \/ connect_DGRAM(s, addr, port)
  PROVE  RecordsOK'
<1> DEFINE k == esix_sockets[s]
<1>0. k \in EsixSock /\ RecordInv(k, current_time) /\ current_time \in Nat
  BY SlotFacts
<1>1. CASE listen(s)
  <2> DEFINE j == [k EXCEPT !.state = "LISTEN"]
  <2>1. ASSUME j \in EsixSock PROVE RecordInv(j, current_time)
    <3>1. /\ j.sent = k.sent /\ j.recv = k.recv /\ j.child = k.child
          /\ j.proto = k.proto /\ j.state = "LISTEN"
      BY <1>0 DEF EsixSock
    <3>2. k.sent = <<>> /\ k.recv = <<>> /\ k.child = <<>>
      BY <1>0, <1>1 DEF listen, RecordInv, Served
    <3> QED BY <1>0, <2>1, <3>1, <3>2, EmptyInv DEF Empty
  <2> QED BY <1>1, <2>1, StoreInv DEF listen
<1>2. CASE recvfrom(s)
  <2> DEFINE j == [k EXCEPT !.recv = Tail(@)]
  <2>1. ASSUME j \in EsixSock PROVE RecordInv(j, current_time)
    <3>1. /\ j.sent = k.sent /\ j.recv = Tail(k.recv) /\ j.child = k.child
          /\ j.proto = k.proto /\ j.state = k.state /\ j.seqn = k.seqn
          /\ j.rexmit_date = k.rexmit_date
      BY <1>0 DEF EsixSock
    <3>2. k.recv # <<>> /\ k.recv \in Seq(RecvElement) /\ k.sent \in Seq(SentElement)
      BY <1>0, <1>2 DEF recvfrom, EsixSock
    <3>3. Len(Tail(k.recv)) = Len(k.recv) - 1 /\ Len(k.recv) \in Nat /\ Len(k.sent) \in Nat
      BY <3>2, HeadTailProperties
    <3>4. Bounded(j)
      <4> DEFINE a == Len(k.sent)
                 b == Len(k.recv)
      <4>1. a \in Nat /\ b \in Nat /\ a + b <= ESIX_QUEUE_DEPHT + 1
        BY <1>0, <3>3 DEF RecordInv, Bounded
      <4>2. a + (b - 1) <= ESIX_QUEUE_DEPHT + 1
        <5> HIDE DEF a, b
        <5> QED BY <4>1, SizesAssumption, OneLess
      <4> QED BY <3>1, <3>3, <4>2 DEF Bounded
    <3>5. Served(j) /\ j.state # "CLOSED"
      BY <1>0, <3>1, <3>2 DEF RecordInv, Served, Empty
    <3> QED BY <1>0, <2>1, <3>1, <3>4, <3>5, FrameInv
  <2> QED BY <1>2, <2>1, StoreInv DEF recvfrom
<1>3. CASE \E f \in Fds : accept(s, f)
  <2> DEFINE j == [k EXCEPT !.child = Tail(@)]
  <2>1. ASSUME j \in EsixSock PROVE RecordInv(j, current_time)
    <3>1. /\ j.sent = k.sent /\ j.recv = k.recv
          /\ j.proto = k.proto /\ j.state = k.state
      BY <1>0 DEF EsixSock
    <3>2. k.child # <<>>
      BY <1>3 DEF accept
    <3>3. k.sent = <<>> /\ k.recv = <<>> /\ k.proto = SOCK_STREAM /\ k.state = "LISTEN"
      BY <1>0, <3>2 DEF RecordInv, Served, SOCK_STREAM, SOCK_DGRAM
    <3>4. Served(j) /\ Bounded(j) /\ j.state # "CLOSED"
      BY <1>0, <3>1, <3>3 DEF RecordInv, Served, Bounded
    <3> QED BY <1>0, <2>1, <3>1, <3>3, <3>4, NothingSentInv
  <2> QED BY <1>3, <2>1, StoreInv DEF accept
<1>4. ASSUME NEW addr \in {in6addr_any} \cup OwnAddrs, NEW port \in BindPorts,
             bind(s, addr, port)
      PROVE  RecordsOK'
  <2> DEFINE laddr == IF addr = in6addr_any THEN in6addr_any ELSE k.laddr
             j == [k EXCEPT !.lport = port, !.laddr = laddr]
  <2>1. ASSUME j \in EsixSock PROVE RecordInv(j, current_time)
    <3>1. /\ j.sent = k.sent /\ j.recv = k.recv /\ j.child = k.child
          /\ j.proto = k.proto /\ j.state = k.state /\ j.seqn = k.seqn
          /\ j.rexmit_date = k.rexmit_date
      BY <1>0 DEF EsixSock
    <3>2. Served(j) /\ Bounded(j) /\ (j.state = "CLOSED" => Empty(j))
      BY <1>0, <3>1 DEF RecordInv, Served, Bounded, Empty
    <3> QED BY <1>0, <2>1, <3>1, <3>2, FrameInv
  <2> QED BY <1>4, <2>1, StoreInv DEF bind
<1>5. ASSUME NEW addr \in Peers, NEW port \in PeerPorts,
             connect_STREAM(s, addr, port)
      PROVE  RecordsOK'
  <2> DEFINE j == [k EXCEPT !.ackn = 0, !.rport = port,
                            !.raddr = addr, !.state = "SYN_SENT"]
  <2>1. ASSUME j \in EsixSock PROVE RecordInv(j, current_time)
    <3>1. Empty(k)
      BY <1>0, <1>5 DEF connect_STREAM, RecordInv, Served, Empty, SOCK_STREAM, SOCK_DGRAM
    <3>2. Empty(j)
      BY <1>0, <3>1 DEF EsixSock, Empty
    <3> QED BY <1>0, <2>1, <3>2, EmptyInv
  <2> QED BY <1>5, <2>1, StoreInv DEF connect_STREAM
<1>6. ASSUME NEW addr \in Peers, NEW port \in PeerPorts,
             connect_DGRAM(s, addr, port)
      PROVE  RecordsOK'
  <2> DEFINE j == [k EXCEPT !.rport = port, !.raddr = addr, !.state = "ESTABLISHED"]
  <2>1. ASSUME j \in EsixSock PROVE RecordInv(j, current_time)
    <3>1. k.proto = SOCK_DGRAM /\ k.sent = <<>> /\ k.child = <<>>
      BY <1>0, <1>6 DEF connect_DGRAM, RecordInv, Served, SOCK_STREAM, SOCK_DGRAM
    <3>2. /\ j.sent = <<>> /\ j.recv = k.recv /\ j.child = <<>>
          /\ j.proto = SOCK_DGRAM /\ j.state = "ESTABLISHED"
      BY <1>0, <3>1 DEF EsixSock
    <3>3. Served(j) /\ Bounded(j)
      BY <1>0, <3>1, <3>2 DEF RecordInv, Served, Bounded
    <3> QED BY <1>0, <2>1, <3>2, <3>3, NothingSentInv
  <2> QED BY <1>6, <2>1, StoreInv DEF connect_DGRAM
<1> QED BY <1>1, <1>2, <1>3, <1>4, <1>5, <1>6

(* send appends within the bound, dated now.                               *)
LEMMA SendCallInv ==
  ASSUME IInv, TypeOK', NEW s \in Socks, NEW data \in Payloads,
         send_STREAM(s, data)
  PROVE  RecordsOK'
<1> DEFINE k == esix_sockets[s]
           j == [k EXCEPT
                   !.sent = Append(@, [seqn |-> k.seqn, data |-> data,
                                       t_sent |-> current_time]),
                   !.seqn = Plus(@, Len(data)),
                   !.rexmit_date = current_time + 2]
<1>1. k \in EsixSock /\ RecordInv(k, current_time) /\ current_time \in Nat
  BY SlotFacts
<1>2. k.proto = SOCK_STREAM /\ k.state = "ESTABLISHED" /\ ~QueueFull(k)
  BY DEF send_STREAM
<1>3. j \in EsixSock => RecordInv(j, current_time)
  BY <1>1, <1>2, SendInv
<1>4. Set(s, j) /\ UNCHANGED current_time
  BY DEF send_STREAM
<1> QED BY <1>3, <1>4, StoreInv

(* Datagram calls store nothing.                                           *)
LEMMA DatagramCallInv ==
  ASSUME IInv, NEW s \in Socks, NEW data \in Payloads,
         \/ send_DGRAM(s, data)
         \/ \E addr, port : Destination(addr, port) /\ sendto(s, addr, port, data)
  PROVE  RecordsOK'
<1>1. UNCHANGED <<esix_sockets, current_time>>
  BY DEF send_DGRAM, sendto
<1> QED BY <1>1 DEF IInv, RecordsOK

(* A SYN: the session socket has no elements, and the listener only gains  *)
(* a child.                                                                *)
LEMMA SynInv ==
  ASSUME IInv, TypeOK', NEW t \in TcpIn, tcp_process_SYN(t)
  PROVE  RecordsOK'
<1>1. UNCHANGED current_time /\ NextPort \subseteq Nat
  BY LookupType DEF tcp_process_SYN
<1>2. CASE NoListener(t) \/ TableFull(t)
  <2>1. UNCHANGED esix_sockets
    BY <1>2 DEF NoListener, TableFull, Refuse
  <2> QED BY <1>1, <2>1 DEF IInv, RecordsOK
<1>3. CASE ChildNoMemory(t)
  <2>1. PICK p \in NextPort, c \in FreeSlot :
          Set(c, [Reserved(SOCK_STREAM, p) EXCEPT !.state = "CLOSED"])
    BY <1>3 DEF ChildNoMemory
  <2> DEFINE j == [Reserved(SOCK_STREAM, p) EXCEPT !.state = "CLOSED"]
  <2>2. Empty(j)
    BY NoElements DEF Reserved, Blank, Empty
  <2>3. c \in Socks /\ (j \in EsixSock => RecordInv(j, current_time))
    BY <2>2, LookupType, EmptyInv, NowType DEF IInv
  <2> QED BY <1>1, <2>1, <2>3, StoreInv
<1>4. CASE ChildCreated(t)
  <2>1. PICK l \in FindListen(SOCK_STREAM, t), p \in NextPort, c \in FreeSlot :
          esix_sockets' = [esix_sockets EXCEPT ![l].child = Append(@, c),
                                               ![c] = Session(t, p)]
    BY <1>4 DEF ChildCreated
  <2> DEFINE k == esix_sockets[l]
  <2>2. /\ l \in Socks /\ k.proto = SOCK_STREAM /\ k.state = "LISTEN"
        /\ c \in Socks /\ esix_sockets[c].state = "CLOSED"
    BY <2>1 DEF FindListen, FreeSlot, Lowest, AddressedTo
  <2>3. l # c
    BY <2>2
  <2>4. k \in EsixSock /\ RecordInv(k, current_time) /\ current_time \in Nat
    BY <2>2, SlotFacts
  <2>5. esix_sockets \in [Socks -> EsixSock] /\ esix_sockets' \in [Socks -> EsixSock]
    BY DEF IInv, TypeOK
  <2>6. /\ esix_sockets'[c] = Session(t, p)
        /\ esix_sockets'[l] = [k EXCEPT !.child = Append(@, c)]
        /\ \A u \in Socks \ {l, c} : esix_sockets'[u] = esix_sockets[u]
    BY <2>1, <2>2, <2>3, <2>5
  <2>7. RecordInv(esix_sockets'[c], current_time)
    <3>1. Session(t, p) \in EsixSock /\ Empty(Session(t, p))
      BY <1>1, SessionType
    <3> QED BY <2>4, <2>6, <3>1, EmptyInv
  <2>8. RecordInv(esix_sockets'[l], current_time)
    <3> DEFINE j == [k EXCEPT !.child = Append(@, c)]
    <3>1. /\ j.sent = k.sent /\ j.recv = k.recv
          /\ j.proto = SOCK_STREAM /\ j.state = "LISTEN"
      BY <2>2, <2>4 DEF EsixSock
    <3>2. k.sent = <<>> /\ k.recv = <<>>
      BY <2>2, <2>4 DEF RecordInv, Served, SOCK_STREAM, SOCK_DGRAM
    <3>3. j \in EsixSock
      <4>1. esix_sockets'[l] \in EsixSock
        BY <2>2, <2>5
      <4>2. esix_sockets'[l] = j
        BY <2>6
      <4> HIDE DEF j
      <4> QED BY <4>1, <4>2
    <3>4. Served(j) /\ Bounded(j)
      BY <2>4, <3>1, <3>2 DEF RecordInv, Served, Bounded
    <3> HIDE DEF j
    <3>5. RecordInv(j, current_time)
      BY <2>4, <3>1, <3>2, <3>3, <3>4, NothingSentInv
    <3> QED BY <2>6, <3>5 DEF j
  <2>9. \A u \in Socks \ {l, c} : RecordInv(esix_sockets'[u], current_time)
    BY <2>6 DEF IInv, RecordsOK
  <2> QED BY <1>1, <2>7, <2>8, <2>9 DEF RecordsOK
<1> QED BY <1>2, <1>3, <1>4 DEF tcp_process_SYN

(* A SYN|ACK moves a socket that has sent nothing to ESTABLISHED, and only *)
(* changes ackn of any other.                                              *)
LEMMA SynAckInv ==
  ASSUME IInv, TypeOK', NEW t \in TcpIn, tcp_process_SYN_ACK(t)
  PROVE  RecordsOK'
<1>1. UNCHANGED current_time
  BY DEF tcp_process_SYN_ACK
<1>2. CASE Refuse(t, Plus(t.ackn, 1), Plus(t.seqn, 1))
  BY <1>1, <1>2 DEF Refuse, IInv, RecordsOK
<1>3. ASSUME NEW s \in FindConnected(t), tcp_process_SYN_ACK(t)!2!2!(s)
      PROVE  RecordsOK'
  <2> DEFINE k == esix_sockets[s]
             state == IF k.state = "SYN_SENT" THEN "ESTABLISHED" ELSE k.state
             a == Plus(t.ackn, 1)
             j == [k EXCEPT !.state = state, !.ackn = a]
  <2>1. s \in Socks /\ k.state # "CLOSED"
    BY DEF FindConnected, Lowest
  <2>2. k \in EsixSock /\ RecordInv(k, current_time) /\ current_time \in Nat
    BY <2>1, SlotFacts
  <2>3. ASSUME j \in EsixSock PROVE RecordInv(j, current_time)
    <3>1. /\ j.sent = k.sent /\ j.recv = k.recv /\ j.child = k.child
          /\ j.proto = k.proto /\ j.state = state /\ j.seqn = k.seqn
          /\ j.rexmit_date = k.rexmit_date
      BY <2>2 DEF EsixSock
    <3>2. CASE k.state = "SYN_SENT"
      <4>1. Empty(k)
        BY <2>2, <3>2 DEF RecordInv, Served, Empty, SOCK_STREAM, SOCK_DGRAM
      <4>2. Empty(j)
        BY <3>1, <4>1 DEF Empty
      <4> QED BY <2>2, <2>3, <4>2, EmptyInv
    <3>3. CASE k.state # "SYN_SENT"
      <4>1. j.state = k.state
        BY <3>1, <3>3
      <4>2. Served(j) /\ Bounded(j) /\ j.state # "CLOSED"
        BY <2>1, <2>2, <3>1, <4>1 DEF RecordInv, Served, Bounded
      <4> QED BY <2>2, <2>3, <3>1, <4>1, <4>2, FrameInv
    <3> QED BY <3>2, <3>3
  <2>4. Set(s, j)
    BY <1>3
  <2> QED BY <1>1, <2>1, <2>3, <2>4, StoreInv
<1> QED BY <1>2, <1>3 DEF tcp_process_SYN_ACK

(* The socket the ACK and FIN handlers work on satisfies the invariant.    *)
LEMMA ExpireInv ==
  ASSUME IInv, NEW t \in TcpIn, NEW s \in FindConnected(t),
         NEW n \in ExpiredPrefix(esix_sockets[s].sent, t.ackn),
         NEW k, k = DropSent(esix_sockets[s], n)
  PROVE  /\ s \in Socks /\ k \in EsixSock /\ current_time \in Nat
         /\ RecordInv(k, current_time)
         /\ k.state \notin {"CLOSED", "RESERVED"} /\ k.proto = SOCK_STREAM
<1>1. /\ s \in Socks /\ esix_sockets[s] \in EsixSock /\ k \in EsixSock
      /\ n \in 0 .. Len(esix_sockets[s].sent)
  BY ExpireType DEF IInv
<1>2. RecordInv(esix_sockets[s], current_time) /\ current_time \in Nat
  BY <1>1, SlotFacts
<1>3. RecordInv(k, current_time)
  BY <1>1, <1>2, DropInv
<1>4. k.state = esix_sockets[s].state /\ k.proto = esix_sockets[s].proto
  BY <1>1 DEF DropSent, EsixSock
<1>5. /\ esix_sockets[s].state \notin {"CLOSED", "RESERVED"}
      /\ esix_sockets[s].proto = SOCK_STREAM
  BY DEF FindConnected, Lowest, AddressedTo
<1> QED BY <1>1, <1>2, <1>3, <1>4, <1>5

(* An ACK: the socket is changed by esix_socket_expire_e and by one of the *)
(* cases that follow it.                                                   *)
LEMMA AckInv ==
  ASSUME IInv, TypeOK', NEW t \in TcpIn, tcp_process_ACK(t)
  PROVE  RecordsOK'
<1>1. UNCHANGED current_time
  BY DEF tcp_process_ACK
<1>2. CASE Refuse(t, t.ackn, t.seqn)
  BY <1>1, <1>2 DEF Refuse, IInv, RecordsOK
<1>3. ASSUME NEW s \in FindConnected(t),
             NEW n \in ExpiredPrefix(esix_sockets[s].sent, t.ackn),
             NEW k, k = DropSent(esix_sockets[s], n),
             \/ AckLate(t, s, k) \/ AckEstablishes(t, s, k) \/ AckCloses(t, s, k)
             \/ AckData(t, s, k) \/ AckOnly(t, s, k)
      PROVE  RecordsOK'
  <2>1. /\ s \in Socks /\ k \in EsixSock /\ current_time \in Nat
        /\ RecordInv(k, current_time)
        /\ k.state \notin {"CLOSED", "RESERVED"} /\ k.proto = SOCK_STREAM
    BY <1>3, ExpireInv
  <2>2. CASE AckLate(t, s, k) \/ AckOnly(t, s, k)
    <3>1. Set(s, k)
      BY <2>2 DEF AckLate, AckOnly
    <3> QED BY <1>1, <2>1, <3>1, StoreInv
  <2>3. CASE AckEstablishes(t, s, k)
    <3> DEFINE j == [k EXCEPT !.state = "ESTABLISHED"]
    <3>1. Set(s, j) /\ k.state = "SYN_RECEIVED"
      BY <2>3 DEF AckEstablishes
    <3>2. Empty(k)
      BY <2>1, <3>1 DEF RecordInv, Served, Empty, SOCK_STREAM, SOCK_DGRAM
    <3>3. Empty(j)
      BY <2>1, <3>2 DEF EsixSock, Empty
    <3>4. j \in EsixSock => RecordInv(j, current_time)
      BY <2>1, <3>3, EmptyInv
    <3> QED BY <1>1, <2>1, <3>1, <3>4, StoreInv
  <2>4. CASE AckCloses(t, s, k)
    <3>1. Set(s, Closed(k))
      BY <2>4 DEF AckCloses
    <3>2. Closed(k) \in EsixSock => RecordInv(Closed(k), current_time)
      BY <2>1, ClosedType, EmptyInv
    <3> QED BY <1>1, <2>1, <3>1, <3>2, StoreInv
  <2>5. CASE AckData(t, s, k)
    <3> DEFINE e == [from |-> k.raddr, fport |-> k.rport, data |-> t.data]
               a == Plus(k.ackn, Len(t.data))
               j == [k EXCEPT !.ackn = a, !.recv = Append(k.recv, e)]
    <3>1. k.state = "ESTABLISHED" /\ ~QueueFull(k) /\ Set(s, j)
      BY <2>5 DEF AckData
    <3>2. ASSUME j \in EsixSock PROVE RecordInv(j, current_time)
      <4>1. /\ j.sent = k.sent /\ j.recv = Append(k.recv, e) /\ j.child = k.child
            /\ j.proto = SOCK_STREAM /\ j.state = "ESTABLISHED"
            /\ j.seqn = k.seqn /\ j.rexmit_date = k.rexmit_date
        BY <2>1, <3>1 DEF EsixSock
      <4>2. Len(j.recv) = Len(k.recv) + 1
        BY <2>1, <4>1 DEF EsixSock
      <4>3. Served(j) /\ Bounded(j)
        BY <2>1, <3>1, <4>1, <4>2, RoomLeft DEF RecordInv, Served, Bounded
      <4> HIDE DEF j
      <4> QED BY <2>1, <3>1, <3>2, <4>1, <4>3, FrameInv
    <3> QED BY <1>1, <2>1, <3>1, <3>2, StoreInv
  <2> QED BY <1>3, <2>2, <2>3, <2>4, <2>5
<1> QED BY <1>2, <1>3 DEF tcp_process_ACK

(* A FIN.                                                                  *)
LEMMA FinCallInv ==
  ASSUME IInv, TypeOK', NEW t \in TcpIn, tcp_process_FIN(t)
  PROVE  RecordsOK'
<1>1. UNCHANGED current_time
  BY DEF tcp_process_FIN
<1>2. CASE Refuse(t, Plus(t.ackn, 1), Plus(t.seqn, 1))
  BY <1>1, <1>2 DEF Refuse, IInv, RecordsOK
<1>3. ASSUME NEW s \in FindConnected(t),
             NEW n \in ExpiredPrefix(esix_sockets[s].sent, t.ackn),
             NEW k, k = DropSent(esix_sockets[s], n),
             FinAnswered(t, s, k) \/ FinCounted(t, s, k) \/ FinIgnored(t, s, k)
      PROVE  RecordsOK'
  <2>1. /\ s \in Socks /\ k \in EsixSock /\ current_time \in Nat
        /\ RecordInv(k, current_time)
        /\ k.state \notin {"CLOSED", "RESERVED"} /\ k.proto = SOCK_STREAM
    BY <1>3, ExpireInv
  <2> DEFINE a == Plus(k.ackn, 1)
  <2>2. a \in Seqn
    <3>1. k.ackn \in Nat
      BY <2>1, SizesAssumption DEF EsixSock, Seqn
    <3> QED BY <3>1, PlusType
  <2>3. CASE FinAnswered(t, s, k)
    <3> DEFINE j == [k EXCEPT !.ackn = a, !.seqn = Plus(k.seqn, 1),
                              !.state = "FIN_WAIT_2"]
    <3>1. Set(s, j) /\ k.state \in {"SYN_RECEIVED", "ESTABLISHED"}
      BY <2>3 DEF FinAnswered
    <3>2. j \in EsixSock => RecordInv(j, current_time)
      <4> HIDE DEF a
      <4> QED BY <2>1, <2>2, <3>1, FinInv
    <3> QED BY <1>1, <2>1, <3>1, <3>2, StoreInv
  <2>4. CASE FinCounted(t, s, k)
    <3> DEFINE j == [k EXCEPT !.ackn = a]
    <3>1. Set(s, j)
      BY <2>4 DEF FinCounted
    <3>2. ASSUME j \in EsixSock PROVE RecordInv(j, current_time)
      <4>1. /\ j.sent = k.sent /\ j.recv = k.recv /\ j.child = k.child
            /\ j.proto = k.proto /\ j.state = k.state /\ j.seqn = k.seqn
            /\ j.rexmit_date = k.rexmit_date
        BY <2>1 DEF EsixSock
      <4>2. Served(j) /\ Bounded(j) /\ j.state # "CLOSED"
        BY <2>1, <4>1 DEF RecordInv, Served, Bounded
      <4> QED BY <2>1, <3>2, <4>1, <4>2, FrameInv
    <3> QED BY <1>1, <2>1, <3>1, <3>2, StoreInv
  <2>5. CASE FinIgnored(t, s, k)
    <3>1. Set(s, k)
      BY <2>5 DEF FinIgnored
    <3> QED BY <1>1, <2>1, <3>1, StoreInv
  <2> QED BY <1>3, <2>3, <2>4, <2>5
<1> QED BY <1>2, <1>3 DEF tcp_process_FIN

(* A RST empties the record.                                               *)
LEMMA RstInv ==
  ASSUME IInv, TypeOK', NEW t \in TcpIn, tcp_process_RST(t)
  PROVE  RecordsOK'
<1>1. PICK s \in FindConnected(t) : Set(s, Closed(esix_sockets[s]))
  BY DEF tcp_process_RST
<1>2. s \in Socks /\ UNCHANGED current_time
  BY LookupType DEF tcp_process_RST
<1>3. Closed(esix_sockets[s]) \in EsixSock
        => RecordInv(Closed(esix_sockets[s]), current_time)
  BY <1>2, SlotFacts, ClosedType, EmptyInv
<1> QED BY <1>1, <1>2, <1>3, StoreInv

(* A datagram is queued within the bound.                                  *)
LEMMA UdpInv ==
  ASSUME IInv, TypeOK', NEW d \in UdpIn,
         udp_process_queue(d) \/ udp_process_unreachable(d)
  PROVE  RecordsOK'
<1>1. CASE udp_process_unreachable(d)
  BY <1>1 DEF udp_process_unreachable, IInv, RecordsOK
<1>2. CASE udp_process_queue(d)
  <2> DEFINE e == [from |-> d.src, fport |-> d.sport, data |-> d.data]
  <2>1. PICK s \in FindListen(SOCK_DGRAM, d) :
          /\ ~QueueFull(esix_sockets[s])
          /\ Set(s, [esix_sockets[s] EXCEPT !.recv = Append(@, e)])
    BY <1>2 DEF udp_process_queue
  <2> DEFINE k == esix_sockets[s]
             j == [k EXCEPT !.recv = Append(k.recv, e)]
  <2>2. s \in Socks /\ k.proto = SOCK_DGRAM /\ k.state = "LISTEN"
    BY DEF FindListen, Lowest, AddressedTo
  <2>3. k \in EsixSock /\ RecordInv(k, current_time) /\ current_time \in Nat
    BY <2>2, SlotFacts
  <2>4. ASSUME j \in EsixSock PROVE RecordInv(j, current_time)
    <3>1. /\ j.sent = k.sent /\ j.recv = Append(k.recv, e) /\ j.child = k.child
          /\ j.proto = SOCK_DGRAM /\ j.state = "LISTEN"
      BY <2>2, <2>3 DEF EsixSock
    <3>2. Len(j.recv) = Len(k.recv) + 1
      BY <2>3, <3>1 DEF EsixSock
    <3>3. k.sent = <<>> /\ k.child = <<>>
      BY <2>2, <2>3 DEF RecordInv, Served, SOCK_STREAM, SOCK_DGRAM
    <3>4. Served(j)
      BY <3>1, <3>3 DEF Served
    <3>5. Bounded(j)
      BY <2>1, <2>3, <3>1, <3>2, RoomLeft DEF Bounded
    <3>6. j.sent = <<>> /\ j.state # "CLOSED"
      BY <3>1, <3>3
    <3> HIDE DEF j
    <3> QED BY <2>3, <2>4, <3>4, <3>5, <3>6, NothingSentInv
  <2>5. UNCHANGED current_time
    BY <1>2 DEF udp_process_queue
  <2> QED BY <2>1, <2>2, <2>4, <2>5, StoreInv
<1> QED BY <1>1, <1>2

(* A tick treats every slot; its type needs the ages of the invariant.     *)
LEMMA TickInv ==
  ASSUME IInv, esix_periodic_callback
  PROVE  IInv'
<1> DEFINE now == current_time
<1>1. now \in Nat \ {0} /\ now + 1 \in Nat \ {0} /\ current_time' = now + 1
  BY DEF IInv, TypeOK, esix_periodic_callback
<1>2. ASSUME NEW s \in Socks
      PROVE  /\ Housekept(esix_sockets[s], now + 1) \in EsixSock
             /\ HousekeepSends(esix_sockets[s], now + 1) \subseteq Packet
             /\ RecordInv(Housekept(esix_sockets[s], now + 1), now + 1)
  <2> DEFINE k == esix_sockets[s]
  <2>1. k \in EsixSock /\ RecordInv(k, now)
    BY SlotFacts
  <2>2. \A i \in 1 .. Len(k.sent) : k.sent[i].t_sent <= now + 1
    <3> SUFFICES ASSUME NEW i \in 1 .. Len(k.sent)
                 PROVE  k.sent[i].t_sent <= now + 1
      OBVIOUS
    <3>1. k.sent[i] \in SentElement
      BY <2>1, ElementOfSeq DEF EsixSock
    <3>2. k.sent[i].t_sent \in Nat /\ k.sent[i].t_sent <= now
      BY <2>1, <3>1 DEF RecordInv, Timely, SentElement
    <3> QED BY <1>1, <3>2
  <2> HIDE DEF now
  <2>3. /\ Housekept(k, now + 1) \in EsixSock
        /\ HousekeepSends(k, now + 1) \subseteq Packet
    BY <1>1, <2>1, <2>2, HousekeptType
  <2> QED BY <1>1, <2>1, <2>3, HousekeptInv
<1>3. esix_sockets' = [s \in Socks |-> Housekept(esix_sockets[s], now + 1)]
  BY DEF esix_periodic_callback
<1>4. wire' \subseteq Packet
  <2>1. wire' = UNION {HousekeepSends(esix_sockets[s], now + 1) : s \in Socks}
    BY DEF esix_periodic_callback, Send
  <2> QED BY <1>2, <2>1
<1>5. TypeOK'
  BY <1>1, <1>2, <1>3, <1>4 DEF IInv, TypeOK, esix_periodic_callback
<1>6. RecordsOK'
  <2> HIDE DEF now
  <2> QED BY <1>1, <1>2, <1>3 DEF RecordsOK
<1> QED BY <1>5, <1>6 DEF IInv

-----------------------------------------------------------------------------
(* The theorems about a single slot.                                       *)

(* At boot every slot is blank.                                            *)
LEMMA InitInv == Init => IInv
<1> SUFFICES ASSUME Init PROVE IInv
  OBVIOUS
<1>1. TypeOK
  BY BlankType DEF Init, TypeOK
<1>2. Empty(Blank)
  BY NoElements DEF Blank, Empty
<1>3. RecordsOK
  BY <1>1, <1>2, BlankType, EmptyInv, NowType DEF Init, RecordsOK
<1> QED BY <1>1, <1>3 DEF IInv

(* Every step of the socket layer preserves the invariant.                 *)
LEMMA StepInv ==
  ASSUME IInv, [Next]_vars
  PROVE  IInv'
<1>0. TypeOK
  BY DEF IInv
<1>1. CASE UNCHANGED vars
  BY <1>1 DEF IInv, TypeOK, RecordsOK, vars
<1>2. ASSUME NEW f \in Fds, NEW type \in {SOCK_STREAM, SOCK_DGRAM}, socket(f, type)
      PROVE  IInv'
  BY <1>0, <1>2, SocketCallType, SocketCallInv DEF IInv
<1>3. ASSUME NEW f \in Fds, close(f)
      PROVE  IInv'
  BY <1>0, <1>3, CloseCallType, CloseCallInv DEF IInv
<1>4. ASSUME NEW s \in Socks, AppCall(s)
      PROVE  IInv'
  <2>1. CASE listen(s)
    BY <1>0, <2>1, ListenCallType, PlainCallInv DEF IInv
  <2>2. CASE recvfrom(s)
    BY <1>0, <2>2, RecvCallType, PlainCallInv DEF IInv
  <2>3. CASE \E f \in Fds : accept(s, f)
    BY <1>0, <2>3, AcceptCallType, PlainCallInv DEF IInv
  <2>4. CASE \E addr \in {in6addr_any} \cup OwnAddrs, port \in BindPorts :
               bind(s, addr, port)
    BY <1>0, <2>4, BindCallType, PlainCallInv DEF IInv
  <2>5. CASE \E addr \in Peers, port \in PeerPorts :
               connect_STREAM(s, addr, port) \/ connect_DGRAM(s, addr, port)
    BY <1>0, <2>5, ConnectCallType, PlainCallInv DEF IInv
  <2>6. ASSUME NEW data \in Payloads, send_STREAM(s, data)
        PROVE  IInv'
    BY <1>0, <2>6, SendCallType, SendCallInv DEF IInv
  <2>7. ASSUME NEW data \in Payloads,
               \/ send_DGRAM(s, data)
               \/ \E addr, port : Destination(addr, port) /\ sendto(s, addr, port, data)
        PROVE  IInv'
    BY <1>0, <2>7, DatagramCallType, DatagramCallInv DEF IInv
  <2> QED BY <1>4, <2>1, <2>2, <2>3, <2>4, <2>5, <2>6, <2>7 DEF AppCall, Destination
<1>5. CASE TcpProcess
  <2>1. PICK t \in TcpIn :
          \/ tcp_process_SYN(t) \/ tcp_process_SYN_ACK(t)
          \/ tcp_process_ACK(t) \/ tcp_process_FIN(t) \/ tcp_process_RST(t)
    BY <1>5 DEF TcpProcess
  <2>2. CASE tcp_process_SYN(t)
    BY <1>0, <2>2, SynType, SynInv DEF IInv
  <2>3. CASE tcp_process_SYN_ACK(t)
    BY <1>0, <2>3, SynAckType, SynAckInv DEF IInv
  <2>4. CASE tcp_process_ACK(t)
    BY <1>0, <2>4, AckType, AckInv DEF IInv
  <2>5. CASE tcp_process_FIN(t)
    BY <1>0, <2>5, FinType, FinCallInv DEF IInv
  <2>6. CASE tcp_process_RST(t)
    BY <1>0, <2>6, RstType, RstInv DEF IInv
  <2> QED BY <2>1, <2>2, <2>3, <2>4, <2>5, <2>6
<1>6. CASE UdpProcess
  BY <1>0, <1>6, UdpType, UdpInv DEF UdpProcess, IInv
<1>7. CASE esix_periodic_callback
  BY <1>7, TickInv
<1> QED BY <1>1, <1>2, <1>3, <1>4, <1>5, <1>6, <1>7 DEF Next

(* The inductive invariant holds in every reachable state.                 *)
LEMMA Invariance == Spec => []IInv
BY InitInv, StepInv, PTL DEF Spec

(* Sequence numbers wrap, ports and addresses are those of the model, and  *)
(* every queue holds elements of its own kind, whatever arrives.           *)
THEOREM TypeCorrect == Spec => []TypeOK
<1>1. IInv => TypeOK
  BY DEF IInv
<1> QED BY <1>1, Invariance, PTL

(* A CLOSED slot of the table owns no queue elements, so socket() never    *)
(* loses memory by overwriting its queue pointer.                          *)
THEOREM ClosedSlotsOwnNothing == Spec => []ClosedIsEmpty
<1>1. IInv => ClosedIsEmpty
  BY DEF IInv, RecordsOK, RecordInv, ClosedIsEmpty
<1> QED BY <1>1, Invariance, PTL

(* Queue elements only sit in sockets whose state serves them.             *)
THEOREM ElementsAreServed == Spec => []ElementsServed
<1>1. IInv => ElementsServed
  BY DEF IInv, RecordsOK, RecordInv, ElementsServed
<1> QED BY <1>1, Invariance, PTL

(* A socket never holds more than ESIX_QUEUE_DEPHT + 1 payloads, which is  *)
(* one more than socket.c:26 says.  The children of a listener are not     *)
(* among them.                                                             *)
THEOREM QueuesAreBounded == Spec => []QueueBound
<1>1. IInv => QueueBound
  BY DEF IInv, RecordsOK, RecordInv, QueueBound
<1> QED BY <1>1, Invariance, PTL

(* Together: no socket loses its queue when it dies, or keeps one that the *)
(* code no longer serves.                                                  *)
THEOREM QueuesStaySound == Spec => []QueuesSound
<1> QED  BY ClosedSlotsOwnNothing, ElementsAreServed, PTL DEF QueuesSound

(* Retransmission stays armed while a segment is unacknowledged: the date  *)
(* is never behind the clock, and the clock starts at 1.                   *)
THEOREM RetransmissionArmed == Spec => []RexmitArmed
<1>1. IInv => RexmitArmed
  <2> SUFFICES ASSUME IInv, NEW s \in Socks, esix_sockets[s].sent # <<>>
               PROVE  esix_sockets[s].rexmit_date # 0
    BY DEF RexmitArmed, Armed
  <2> DEFINE k == esix_sockets[s]
  <2>1. k \in EsixSock /\ Timely(k, current_time)
    BY SlotFacts DEF RecordInv
  <2>2. 1 \in 1 .. Len(k.sent)
    BY <2>1, EmptySeq DEF EsixSock
  <2>3. current_time <= k.rexmit_date /\ current_time \in Nat \ {0}
    BY <2>1, <2>2, NowType DEF Timely, IInv
  <2> QED BY <2>1, <2>3 DEF EsixSock
<1> QED BY <1>1, Invariance, PTL

(* The unacknowledged segments are the last bytes of the stream, without   *)
(* gap or overlap, so retransmissions repeat what was sent.                *)
THEOREM TransmitQueueContiguous == Spec => []TxContiguous
<1>1. IInv => TxContiguous
  BY DEF IInv, RecordsOK, RecordInv, TxContiguous
<1> QED BY <1>1, Invariance, PTL

(* Inequalities between dates: a queue of at most D + 1 segments.          *)
LEMMA DatesOverdue ==
  ASSUME NEW now \in Nat, NEW t \in Nat, NEW R \in Nat, NEW D \in Nat,
         NEW date \in Nat, NEW m \in Nat, NEW i \in 1 .. m, m <= D + 1,
         now <= date, date <= t + 2 * R + 2 + 2 * (m - i)
  PROVE  now <= t + (2 * R + 2 + 2 * D)
OBVIOUS

(* An unacknowledged segment is given up after at most                     *)
(* 2 * MAX_RETX_TIME + 2 + 2 * ESIX_QUEUE_DEPHT ticks.                     *)
THEOREM GiveUpWithinBound == Spec => []GiveUpBound
<1>1. IInv => GiveUpBound
  <2> SUFFICES ASSUME IInv, NEW s \in Socks,
                      NEW i \in 1 .. Len(esix_sockets[s].sent)
               PROVE  current_time <= esix_sockets[s].sent[i].t_sent + GiveUpAfter
    BY DEF GiveUpBound, NotOverdue
  <2> DEFINE k == esix_sockets[s]
             m == Len(k.sent)
             t == k.sent[i].t_sent
             date == k.rexmit_date
  <2>1. /\ k \in EsixSock /\ Timely(k, current_time) /\ Bounded(k)
        /\ current_time \in Nat
    BY SlotFacts DEF RecordInv
  <2>2. k.sent[i] \in SentElement
    BY <2>1, ElementOfSeq DEF EsixSock
  <2>3. t \in Nat /\ m \in Nat /\ Len(k.recv) \in Nat /\ date \in Nat
    <3>1. /\ k.sent \in Seq(SentElement) /\ k.recv \in Seq(RecvElement)
          /\ date \in Nat
      BY <2>1 DEF EsixSock
    <3>2. m \in Nat /\ Len(k.recv) \in Nat
      BY <3>1
    <3>3. t \in Nat
      BY <2>2 DEF SentElement
    <3> QED BY <3>1, <3>2, <3>3
  <2>4. /\ current_time <= date
        /\ date <= t + 2 * MAX_RETX_TIME + 2 + 2 * (m - i)
    BY <2>1 DEF Timely
  <2>5. m <= ESIX_QUEUE_DEPHT + 1
    <3>1. m + Len(k.recv) <= ESIX_QUEUE_DEPHT + 1
      BY <2>1 DEF Bounded
    <3> DEFINE r == Len(k.recv)
    <3> HIDE DEF m, r
    <3> QED BY <2>3, <3>1, SizesAssumption DEF r
  <2>6. i \in 1 .. m
    OBVIOUS
  <2> HIDE DEF m, t, date
  <2>7. current_time <= t + (2 * MAX_RETX_TIME + 2 + 2 * ESIX_QUEUE_DEPHT)
    BY <2>1, <2>3, <2>4, <2>5, <2>6, SizesAssumption, DatesOverdue
  <2> QED BY <2>7 DEF GiveUpAfter, t
<1> QED BY <1>1, Invariance, PTL

-----------------------------------------------------------------------------
(* The theorems about several slots: who owns a port, and who can still    *)
(* reach a socket.                                                         *)

OnlyWithListener ==
  \A s \in Socks : ~Abandoned(s) /\ Abandoned(s)' => ListenerClosed

(* What most steps do to a slot: it does not come to own a port, does not  *)
(* come into use, and loses its children only when a listener is closed.   *)
Keeps(k, j) ==
  /\ OwnsPort(j) => OwnsPort(k) /\ j.lport = k.lport
  /\ j.state # "CLOSED" => k.state # "CLOSED"
  /\ j.child # k.child => k.state = "LISTEN" /\ j.state = "CLOSED"

(* Such a step does no harm.                                               *)
LEMMA KeepStep ==
  ASSUME PortsDistinct, UNCHANGED fd,
         \A s \in Socks : Keeps(esix_sockets[s], esix_sockets'[s])
  PROVE  PortsDistinct' /\ OnlyWithListener
<1>1. PortsDistinct'
  BY DEF Keeps, PortsDistinct
<1>2. ASSUME NEW s \in Socks, ~Abandoned(s), Abandoned(s)'
      PROVE  ListenerClosed
  <2> SUFFICES ASSUME ~ListenerClosed PROVE FALSE
    OBVIOUS
  <2>1. \A l \in Socks : esix_sockets'[l].child = esix_sockets[l].child
    BY DEF Keeps, ListenerClosed
  <2>2. Queued(s) => Queued(s)'
    BY <2>1 DEF Queued
  <2> QED BY <1>2, <2>2 DEF Abandoned, Keeps
<1> QED BY <1>1, <1>2 DEF OnlyWithListener

(* A record that keeps its port or gives it up may be stored (see Keeps).  *)
LEMMA KeepStore ==
  ASSUME IInv, PortsDistinct, UNCHANGED fd, NEW s \in Socks, NEW j, Set(s, j),
         Keeps(esix_sockets[s], j)
  PROVE  PortsDistinct' /\ OnlyWithListener
<1>1. esix_sockets'[s] = j /\ \A u \in Socks \ {s} : esix_sockets'[u] = esix_sockets[u]
  BY DEF Set, IInv, TypeOK
<1>2. \A u \in Socks : Keeps(esix_sockets[u], esix_sockets'[u])
  BY <1>1 DEF Keeps
<1> QED BY <1>2, KeepStep

(* A slot that takes a port nobody has.                                    *)
LEMMA PortClaim ==
  ASSUME PortsDistinct, NEW s \in Socks, NEW p, PortAvailable(p),
         OwnsPort(esix_sockets'[s]) => esix_sockets'[s].lport = p,
         \A u \in Socks \ {s} : esix_sockets'[u] = esix_sockets[u]
  PROVE  PortsDistinct'
<1>1. \A u \in Socks : OwnsPort(esix_sockets[u]) => esix_sockets[u].lport # p
  BY DEF OwnsPort, PortAvailable
<1> QED BY <1>1 DEF PortsDistinct

(* Closing a record, and expiring sent segments.                           *)
LEMMA ClosedKeeps ==
  ASSUME NEW k \in EsixSock, Served(k)
  PROVE  Keeps(k, Closed(k))
<1>1. Closed(k).state = "CLOSED" /\ Empty(Closed(k)) /\ Closed(k).proto = k.proto
  BY ClosedType DEF Closed, esix_socket_free_queue, EsixSock
<1>2. /\ Closed(k).lport = k.lport
      /\ OwnsPort(k) \/ ~OwnsPort(Closed(k))
  BY <1>1 DEF Closed, esix_socket_free_queue, EsixSock, OwnsPort
<1>3. k.child # <<>> => k.state = "LISTEN"
  BY DEF Served
<1> QED BY <1>1, <1>2, <1>3 DEF Keeps, Empty

(* Dropping acknowledged elements changes none of those.                   *)
LEMMA DropKeeps ==
  ASSUME NEW k \in EsixSock, NEW n \in 0 .. Len(k.sent), NEW j,
         Keeps(DropSent(k, n), j)
  PROVE  Keeps(k, j)
<1> DEFINE d == DropSent(k, n)
<1>1. /\ d.state = k.state /\ d.proto = k.proto
      /\ d.lport = k.lport /\ d.child = k.child
  BY DEF DropSent, EsixSock
<1> HIDE DEF d
<1>2. OwnsPort(d) <=> OwnsPort(k)
  BY <1>1 DEF OwnsPort
<1> QED BY <1>1, <1>2 DEF Keeps, d

(* socket() takes a free port and a CLOSED slot, which queues no children. *)
LEMMA SocketCallKeeps ==
  ASSUME IInv, PortsDistinct,
         NEW f \in Fds, NEW type \in {SOCK_STREAM, SOCK_DGRAM}, socket(f, type)
  PROVE  PortsDistinct' /\ OnlyWithListener
<1>1. PICK p \in NextPort : socket(f, type)!2!(p)
  BY DEF socket
<1>2. PortAvailable(p)
  BY DEF NextPort
<1>3. CASE FreeSlot = {} /\ UNCHANGED <<esix_sockets, fd>>
  <2>1. \A s \in Socks : Keeps(esix_sockets[s], esix_sockets'[s])
    BY <1>3 DEF Keeps
  <2> QED BY <1>3, <2>1, KeepStep
<1>4. ASSUME NEW s \in FreeSlot, Set(s, Reserved(type, p)), fd' = [fd EXCEPT ![f] = s]
      PROVE  PortsDistinct' /\ OnlyWithListener
  <2>1. s \in Socks /\ esix_sockets[s].state = "CLOSED"
    BY DEF FreeSlot, Lowest
  <2>2. /\ esix_sockets'[s] = Reserved(type, p)
        /\ \A u \in Socks \ {s} : esix_sockets'[u] = esix_sockets[u]
    BY <1>4, <2>1 DEF Set, IInv, TypeOK
  <2>3. Reserved(type, p).lport = p /\ Reserved(type, p).child = <<>>
    BY NoElements DEF Reserved, Blank
  <2>4. esix_sockets[s].child = <<>>
    BY <2>1 DEF IInv, RecordsOK, RecordInv, Empty
  <2>5. \A u \in Socks : esix_sockets'[u].child = esix_sockets[u].child
    BY <2>2, <2>3, <2>4
  <2>6. \A u \in Socks : Queued(u) => Queued(u)'
    BY <2>5 DEF Queued
  <2>7. fd'[f] = s /\ \A g \in Fds : g # f => fd'[g] = fd[g]
    BY <1>4 DEF IInv, TypeOK
  <2>8. \A u \in Socks : ~Abandoned(u) => ~Abandoned(u)'
    <3> SUFFICES ASSUME NEW u \in Socks, ~Abandoned(u) PROVE ~Abandoned(u)'
      OBVIOUS
    <3>1. CASE u = s
      BY <2>7, <3>1 DEF Abandoned
    <3>2. CASE u # s
      <4>1. \A g \in Fds : fd[g] = u => fd'[g] = u
        BY <2>7, EnvAssumption DEF socket
      <4> QED BY <2>2, <2>6, <3>2, <4>1 DEF Abandoned
    <3> QED BY <3>1, <3>2
  <2> QED BY <1>2, <2>1, <2>2, <2>3, <2>8, PortClaim DEF OnlyWithListener
<1> QED BY <1>1, <1>3, <1>4

(* close() gives up one descriptor of a socket that is CLOSED afterwards.  *)
LEMMA CloseCallKeeps ==
  ASSUME IInv, PortsDistinct, NEW f \in Fds, close(f)
  PROVE  PortsDistinct' /\ OnlyWithListener
<1> DEFINE s == fd[f]
<1>1. s \in Socks
  BY DEF close, IInv, TypeOK
<1>2. esix_sockets[s] \in EsixSock /\ Served(esix_sockets[s])
  BY <1>1, SlotFacts DEF RecordInv
<1>3. /\ \A u \in Socks : Keeps(esix_sockets[u], esix_sockets'[u])
      /\ esix_sockets'[s].state = "CLOSED"
  <2>1. CASE Set(s, Closed(esix_sockets[s]))
    <3>1. /\ esix_sockets'[s] = Closed(esix_sockets[s])
          /\ \A u \in Socks \ {s} : esix_sockets'[u] = esix_sockets[u]
      BY <1>1, <2>1 DEF Set, IInv, TypeOK
    <3>2. Keeps(esix_sockets[s], esix_sockets'[s])
      BY <1>2, <3>1, ClosedKeeps
    <3>3. \A u \in Socks : Keeps(esix_sockets[u], esix_sockets'[u])
      BY <3>1, <3>2 DEF Keeps
    <3> QED BY <1>2, <3>1, <3>3, ClosedType
  <2>2. CASE esix_sockets[s].state = "CLOSED" /\ UNCHANGED esix_sockets
    BY <2>2 DEF Keeps
  <2> QED BY <2>1, <2>2 DEF close
<1>4. PortsDistinct'
  BY <1>3 DEF Keeps, PortsDistinct
<1>5. \A g \in Fds : g # f => fd'[g] = fd[g]
  BY DEF close, IInv, TypeOK
<1>6. ASSUME NEW u \in Socks, ~Abandoned(u), Abandoned(u)'
      PROVE  ListenerClosed
  <2> SUFFICES ASSUME ~ListenerClosed PROVE FALSE
    OBVIOUS
  <2>1. \A l \in Socks : esix_sockets'[l].child = esix_sockets[l].child
    BY <1>3 DEF Keeps, ListenerClosed
  <2>2. Queued(u) => Queued(u)'
    BY <2>1 DEF Queued
  <2>3. u # s
    BY <1>3, <1>6 DEF Abandoned
  <2>4. \A g \in Fds : fd[g] = u => fd'[g] = u
    BY <1>5, <2>3
  <2> QED BY <1>3, <1>6, <2>2, <2>4 DEF Abandoned, Keeps
<1> QED BY <1>4, <1>6 DEF OnlyWithListener

(* accept() hands the first child to the application that calls it.        *)
LEMMA AcceptCallKeeps ==
  ASSUME IInv, PortsDistinct, NEW s \in Socks, NEW f \in Fds, accept(s, f)
  PROVE  PortsDistinct' /\ OnlyWithListener
<1> DEFINE k == esix_sockets[s]
           j == [k EXCEPT !.child = Tail(k.child)]
<1>1. k \in EsixSock /\ k.child \in Seq(Socks) /\ k.child # <<>>
  BY SlotFacts DEF accept, EsixSock
<1>2. /\ esix_sockets'[s] = j
      /\ \A u \in Socks \ {s} : esix_sockets'[u] = esix_sockets[u]
  BY DEF accept, Set, IInv, TypeOK
<1>3. /\ j.state = k.state /\ j.proto = k.proto /\ j.lport = k.lport
      /\ j.child = Tail(k.child)
  BY <1>1 DEF EsixSock
<1>4. fd'[f] = Head(k.child) /\ \A g \in Fds \ {f} : fd'[g] = fd[g]
  BY DEF accept, IInv, TypeOK
<1>5. \A u \in Socks, g \in Fds : fd[g] = u => fd'[g] = u
  BY <1>4, EnvAssumption DEF accept
<1>6. /\ Len(Tail(k.child)) = Len(k.child) - 1 /\ Len(k.child) \in Nat
      /\ \A i \in 1 .. Len(Tail(k.child)) : Tail(k.child)[i] = k.child[i + 1]
      /\ Head(k.child) = k.child[1]
      /\ DOMAIN k.child = 1 .. Len(k.child)
      /\ DOMAIN Tail(k.child) = 1 .. Len(Tail(k.child))
  BY <1>1, HeadTailProperties
<1> HIDE DEF j
<1>7. ASSUME NEW u \in Socks, Queued(u)
      PROVE  Queued(u)' \/ u = Head(k.child)
  <2>0. PICK l \in Socks : \E i \in DOMAIN esix_sockets[l].child :
                             esix_sockets[l].child[i] = u
    BY <1>7 DEF Queued
  <2>1. PICK i \in DOMAIN esix_sockets[l].child : esix_sockets[l].child[i] = u
    BY <2>0
  <2>2. CASE l # s
    BY <1>2, <2>1, <2>2 DEF Queued
  <2>3. CASE l = s /\ i = 1
    BY <1>6, <2>1, <2>3
  <2>4. CASE l = s /\ i # 1
    <3>1. i \in 1 .. Len(k.child)
      BY <1>6, <2>1, <2>4
    <3>2. i - 1 \in 1 .. Len(Tail(k.child)) /\ (i - 1) + 1 = i
      BY <1>6, <2>4, <3>1
    <3>3. i - 1 \in DOMAIN Tail(k.child) /\ Tail(k.child)[i - 1] = u
      BY <1>6, <2>1, <2>4, <3>2
    <3> QED BY <1>2, <1>3, <3>3 DEF Queued
  <2> QED BY <2>2, <2>3, <2>4
<1>8. ASSUME NEW u \in Socks, ~Abandoned(u)
      PROVE  ~Abandoned(u)'
  <2>1. CASE u = Head(k.child)
    BY <1>4, <2>1 DEF Abandoned
  <2>2. CASE u # Head(k.child)
    BY <1>2, <1>3, <1>5, <1>7, <1>8, <2>2 DEF Abandoned
  <2> QED BY <2>1, <2>2
<1>9. PortsDistinct'
  <2>1. \A u \in Socks : OwnsPort(esix_sockets'[u]) =>
          OwnsPort(esix_sockets[u]) /\ esix_sockets'[u].lport = esix_sockets[u].lport
    BY <1>2, <1>3 DEF OwnsPort
  <2> QED BY <2>1 DEF PortsDistinct
<1> QED BY <1>8, <1>9 DEF OnlyWithListener

(* bind() takes a port nobody has; connect() a socket somebody holds.      *)
LEMMA BindCallKeeps ==
  ASSUME IInv, PortsDistinct, NEW s \in Socks, NEW addr, NEW port,
         bind(s, addr, port)
  PROVE  PortsDistinct' /\ OnlyWithListener
<1> DEFINE k == esix_sockets[s]
           a == IF addr = in6addr_any THEN in6addr_any ELSE k.laddr
           j == [k EXCEPT !.lport = port, !.laddr = a]
<1>1. /\ esix_sockets'[s] = j
      /\ \A u \in Socks \ {s} : esix_sockets'[u] = esix_sockets[u]
  BY DEF bind, Set, IInv, TypeOK
<1>2. k \in EsixSock
  BY SlotFacts
<1>3. /\ j.lport = port /\ j.state = k.state /\ j.child = k.child
      /\ j.proto = k.proto
  BY <1>2 DEF EsixSock
<1> HIDE DEF j
<1>4. PortsDistinct'
  BY <1>1, <1>3, PortClaim DEF bind
<1>5. \A u \in Socks : /\ esix_sockets'[u].child = esix_sockets[u].child
                       /\ esix_sockets'[u].state = esix_sockets[u].state
  BY <1>1, <1>3
<1>6. \A u \in Socks : Queued(u) => Queued(u)'
  BY <1>5 DEF Queued
<1>7. OnlyWithListener
  BY <1>5, <1>6 DEF OnlyWithListener, Abandoned, bind
<1> QED BY <1>4, <1>7

(* connect uses the port socket() has reserved.                            *)
LEMMA ConnectCallKeeps ==
  ASSUME IInv, PortsDistinct, NEW s \in Socks \cap {fd[f] : f \in Fds},
         NEW addr, NEW port, connect_STREAM(s, addr, port)
  PROVE  PortsDistinct' /\ OnlyWithListener
<1> DEFINE k == esix_sockets[s]
           j == [k EXCEPT !.ackn = 0, !.rport = port,
                          !.raddr = addr, !.state = "SYN_SENT"]
<1>1. /\ esix_sockets'[s] = j
      /\ \A u \in Socks \ {s} : esix_sockets'[u] = esix_sockets[u]
  BY DEF connect_STREAM, Set, IInv, TypeOK
<1>2. k \in EsixSock /\ k.proto = SOCK_STREAM
  BY SlotFacts DEF connect_STREAM
<1>3. /\ j.lport = k.lport /\ j.state = "SYN_SENT" /\ j.child = k.child
      /\ j.proto = SOCK_STREAM
  BY <1>2 DEF EsixSock
<1> HIDE DEF j
<1>4. PortsDistinct'
  <2>1. ~OwnsPort(j)
    BY <1>3 DEF OwnsPort, SOCK_STREAM, SOCK_DGRAM
  <2>2. \A u \in Socks : OwnsPort(esix_sockets'[u]) =>
          OwnsPort(esix_sockets[u]) /\ esix_sockets'[u].lport = esix_sockets[u].lport
    BY <1>1, <2>1
  <2> QED BY <2>2 DEF PortsDistinct
<1>5. \A u \in Socks : esix_sockets'[u].child = esix_sockets[u].child
  BY <1>1, <1>3
<1>6. \A u \in Socks : Queued(u) => Queued(u)'
  BY <1>5 DEF Queued
<1>7. ~Abandoned(s)'
  BY DEF connect_STREAM, Abandoned
<1>8. OnlyWithListener
  BY <1>1, <1>6, <1>7 DEF OnlyWithListener, Abandoned, connect_STREAM
<1> QED BY <1>4, <1>8

(* The other calls.                                                        *)
LEMMA OtherCallKeeps ==
  ASSUME IInv, PortsDistinct, NEW s \in Socks,
         \/ listen(s) \/ recvfrom(s)
         \/ \E addr \in Peers, port \in PeerPorts : connect_DGRAM(s, addr, port)
         \/ \E data \in Payloads : send_STREAM(s, data)
         \/ \E data \in Payloads : send_DGRAM(s, data)
         \/ \E addr, port, data : sendto(s, addr, port, data)
  PROVE  PortsDistinct' /\ OnlyWithListener
<1> DEFINE k == esix_sockets[s]
<1>0. k \in EsixSock /\ UNCHANGED fd
  BY SlotFacts DEF listen, recvfrom, connect_DGRAM, send_STREAM, send_DGRAM, sendto
<1>1. CASE listen(s)
  <2> DEFINE j == [k EXCEPT !.state = "LISTEN"]
  <2>1. /\ j.lport = k.lport /\ j.child = k.child /\ k.state = "RESERVED"
        /\ Set(s, j)
    BY <1>0, <1>1 DEF EsixSock, listen
  <2>2. Keeps(k, j)
    BY <2>1 DEF Keeps, OwnsPort
  <2> QED BY <1>0, <2>1, <2>2, KeepStore
<1>2. CASE recvfrom(s)
  <2> DEFINE j == [k EXCEPT !.recv = Tail(@)]
  <2>1. /\ j.lport = k.lport /\ j.child = k.child /\ j.state = k.state
        /\ j.proto = k.proto /\ Set(s, j)
    BY <1>0, <1>2 DEF EsixSock, recvfrom
  <2>2. Keeps(k, j)
    BY <2>1 DEF Keeps, OwnsPort
  <2> QED BY <1>0, <2>1, <2>2, KeepStore
<1>3. ASSUME NEW addr \in Peers, NEW port \in PeerPorts, connect_DGRAM(s, addr, port)
      PROVE  PortsDistinct' /\ OnlyWithListener
  <2> DEFINE j == [k EXCEPT !.rport = port, !.raddr = addr, !.state = "ESTABLISHED"]
  <2>1. /\ j.lport = k.lport /\ j.child = k.child /\ Set(s, j)
        /\ k.proto = SOCK_DGRAM /\ k.state # "CLOSED"
    BY <1>0, <1>3 DEF EsixSock, connect_DGRAM
  <2>2. Keeps(k, j)
    BY <2>1 DEF Keeps, OwnsPort
  <2> QED BY <1>0, <2>1, <2>2, KeepStore
<1>4. ASSUME NEW data \in Payloads, send_STREAM(s, data)
      PROVE  PortsDistinct' /\ OnlyWithListener
  <2> DEFINE e == [seqn |-> k.seqn, data |-> data, t_sent |-> current_time]
             j == [k EXCEPT !.sent = Append(@, e), !.seqn = Plus(@, Len(data)),
                            !.rexmit_date = current_time + 2]
  <2>1. /\ j.lport = k.lport /\ j.child = k.child /\ j.state = k.state
        /\ j.proto = k.proto /\ Set(s, j)
    BY <1>0, <1>4 DEF EsixSock, send_STREAM
  <2>2. Keeps(k, j)
    BY <2>1 DEF Keeps, OwnsPort
  <2> QED BY <1>0, <2>1, <2>2, KeepStore
<1>5. CASE UNCHANGED esix_sockets
  <2>1. \A u \in Socks : Keeps(esix_sockets[u], esix_sockets'[u])
    BY <1>5 DEF Keeps
  <2> QED BY <1>0, <2>1, KeepStep
<1> QED BY <1>1, <1>2, <1>3, <1>4, <1>5 DEF send_DGRAM, sendto

(* A SYN: the session is queued at its listener, and listens to nothing.   *)
LEMMA SynKeeps ==
  ASSUME IInv, PortsDistinct, NEW t \in TcpIn, tcp_process_SYN(t)
  PROVE  PortsDistinct' /\ OnlyWithListener
<1>0. UNCHANGED fd /\ NextPort \subseteq Nat
  BY LookupType DEF tcp_process_SYN
<1>1. CASE UNCHANGED esix_sockets
  <2>1. \A u \in Socks : Keeps(esix_sockets[u], esix_sockets'[u])
    BY <1>1 DEF Keeps
  <2> QED BY <1>0, <2>1, KeepStep
<1>2. CASE ChildNoMemory(t)
  <2>1. PICK p \in NextPort, c \in FreeSlot :
          Set(c, [Reserved(SOCK_STREAM, p) EXCEPT !.state = "CLOSED"])
    BY <1>2 DEF ChildNoMemory
  <2> DEFINE j == [Reserved(SOCK_STREAM, p) EXCEPT !.state = "CLOSED"]
  <2>2. c \in Socks /\ esix_sockets[c].state = "CLOSED"
    BY DEF FreeSlot, Lowest
  <2>3. esix_sockets[c].child = <<>>
    BY <2>2 DEF IInv, RecordsOK, RecordInv, Empty
  <2>4. j.state = "CLOSED" /\ j.child = <<>> /\ j.proto = SOCK_STREAM
    BY NoElements DEF Reserved, Blank
  <2>5. Keeps(esix_sockets[c], j)
    BY <2>3, <2>4 DEF Keeps, OwnsPort
  <2> QED BY <1>0, <2>1, <2>2, <2>5, KeepStore
<1>3. CASE ChildCreated(t)
  <2>1. PICK l \in FindListen(SOCK_STREAM, t), p \in NextPort, c \in FreeSlot :
          esix_sockets' = [esix_sockets EXCEPT ![l].child = Append(@, c),
                                               ![c] = Session(t, p)]
    BY <1>3 DEF ChildCreated
  <2> DEFINE k == esix_sockets[l]
             q == Append(k.child, c)
             j == [k EXCEPT !.child = q]
  <2>2. /\ l \in Socks /\ k.state = "LISTEN"
        /\ c \in Socks /\ esix_sockets[c].state = "CLOSED" /\ l # c
    BY <2>1 DEF FindListen, FreeSlot, Lowest
  <2>3. k \in EsixSock /\ k.child \in Seq(Socks) /\ esix_sockets[c].child = <<>>
    BY <2>2, SlotFacts DEF EsixSock, RecordInv, Empty
  <2>4. /\ esix_sockets'[c] = Session(t, p)
        /\ esix_sockets'[l] = j
        /\ \A u \in Socks \ {l, c} : esix_sockets'[u] = esix_sockets[u]
    BY <2>1, <2>2 DEF IInv, TypeOK
  <2>5. /\ Session(t, p).state = "SYN_RECEIVED"
        /\ Session(t, p).proto = SOCK_STREAM
    BY <1>0, SessionType
  <2>6. /\ j.state = k.state /\ j.proto = k.proto /\ j.lport = k.lport
        /\ j.child = q
    BY <2>3 DEF EsixSock
  <2>7. /\ Len(q) = Len(k.child) + 1 /\ Len(k.child) \in Nat
        /\ q[Len(k.child) + 1] = c
        /\ \A i \in 1 .. Len(k.child) : q[i] = k.child[i]
        /\ DOMAIN k.child = 1 .. Len(k.child)
        /\ DOMAIN q = 1 .. (Len(k.child) + 1)
    BY <2>2, <2>3, AppendProperties
  <2> HIDE DEF j, q
  <2>8. PortsDistinct'
    <3>1. ~OwnsPort(Session(t, p))
      BY <2>5 DEF OwnsPort, SOCK_STREAM, SOCK_DGRAM
    <3>2. \A u \in Socks : OwnsPort(esix_sockets'[u]) =>
            OwnsPort(esix_sockets[u]) /\ esix_sockets'[u].lport = esix_sockets[u].lport
      BY <2>4, <2>6, <3>1 DEF OwnsPort
    <3> QED BY <3>2 DEF PortsDistinct
  <2>9. Queued(c)'
    <3>1. Len(k.child) + 1 \in DOMAIN esix_sockets'[l].child
      BY <2>4, <2>6, <2>7
    <3> QED BY <2>2, <2>4, <2>6, <2>7, <3>1 DEF Queued
  <2>10. ASSUME NEW u \in Socks, Queued(u)
         PROVE  Queued(u)'
    <3>0. PICK m \in Socks : \E i \in DOMAIN esix_sockets[m].child :
                               esix_sockets[m].child[i] = u
      BY <2>10 DEF Queued
    <3>1. PICK i \in DOMAIN esix_sockets[m].child : esix_sockets[m].child[i] = u
      BY <3>0
    <3>2. CASE m = l
      <4>1. i \in DOMAIN q /\ q[i] = u
        BY <2>7, <3>1, <3>2
      <4> QED BY <2>2, <2>4, <2>6, <4>1 DEF Queued
    <3>3. CASE m = c
      BY <2>3, <3>1, <3>3
    <3>4. CASE m \in Socks \ {l, c}
      BY <2>4, <3>1, <3>4 DEF Queued
    <3> QED BY <3>2, <3>3, <3>4
  <2>11. OnlyWithListener
    <3> SUFFICES ASSUME NEW u \in Socks, ~Abandoned(u) PROVE ~Abandoned(u)'
      BY DEF OnlyWithListener
    <3>1. CASE u = c
      BY <2>9, <3>1 DEF Abandoned
    <3>2. CASE u # c
      BY <1>0, <2>4, <2>6, <2>10, <3>2 DEF Abandoned
    <3> QED BY <3>1, <3>2
  <2> QED BY <2>8, <2>11
<1> QED BY <1>1, <1>2, <1>3 DEF tcp_process_SYN, NoListener, TableFull, Refuse

(* The other segments.                                                     *)
LEMMA SynAckKeeps ==
  ASSUME IInv, PortsDistinct, NEW t \in TcpIn, tcp_process_SYN_ACK(t)
  PROVE  PortsDistinct' /\ OnlyWithListener
<1>0. UNCHANGED fd
  BY DEF tcp_process_SYN_ACK
<1>1. CASE UNCHANGED esix_sockets
  <2>1. \A u \in Socks : Keeps(esix_sockets[u], esix_sockets'[u])
    BY <1>1 DEF Keeps
  <2> QED BY <1>0, <2>1, KeepStep
<1>2. ASSUME NEW s \in FindConnected(t), tcp_process_SYN_ACK(t)!2!2!(s)
      PROVE  PortsDistinct' /\ OnlyWithListener
  <2> DEFINE k == esix_sockets[s]
             state == IF k.state = "SYN_SENT" THEN "ESTABLISHED" ELSE k.state
             j == [k EXCEPT !.state = state, !.ackn = Plus(t.ackn, 1)]
  <2>1. s \in Socks /\ k.state # "CLOSED" /\ k.proto = SOCK_STREAM
    BY DEF FindConnected, Lowest, AddressedTo
  <2>2. /\ j.lport = k.lport /\ j.child = k.child /\ j.proto = k.proto
        /\ j.state = k.state \/ j.state = "ESTABLISHED"
    BY <2>1, SlotFacts DEF EsixSock
  <2>3. Keeps(k, j)
    BY <2>1, <2>2 DEF Keeps, OwnsPort, SOCK_STREAM, SOCK_DGRAM
  <2>4. Set(s, j)
    BY <1>2
  <2> QED BY <1>0, <2>1, <2>3, <2>4, KeepStore
<1> QED BY <1>1, <1>2 DEF tcp_process_SYN_ACK, Refuse

(* ACK and FIN may only give a port up.                                    *)
LEMMA AckFinKeeps ==
  ASSUME IInv, PortsDistinct, NEW t \in TcpIn,
         tcp_process_ACK(t) \/ tcp_process_FIN(t)
  PROVE  PortsDistinct' /\ OnlyWithListener
<1>0. UNCHANGED fd
  BY DEF tcp_process_ACK, tcp_process_FIN
<1>1. CASE UNCHANGED esix_sockets
  <2>1. \A u \in Socks : Keeps(esix_sockets[u], esix_sockets'[u])
    BY <1>1 DEF Keeps
  <2> QED BY <1>0, <2>1, KeepStep
<1>2. ASSUME NEW s \in FindConnected(t),
             NEW n \in ExpiredPrefix(esix_sockets[s].sent, t.ackn),
             NEW k, k = DropSent(esix_sockets[s], n),
             \/ AckLate(t, s, k) \/ AckEstablishes(t, s, k) \/ AckCloses(t, s, k)
             \/ AckData(t, s, k) \/ AckOnly(t, s, k)
             \/ FinAnswered(t, s, k) \/ FinCounted(t, s, k) \/ FinIgnored(t, s, k)
      PROVE  PortsDistinct' /\ OnlyWithListener
  <2>1. /\ s \in Socks /\ k \in EsixSock /\ RecordInv(k, current_time)
        /\ k.state \notin {"CLOSED", "RESERVED"} /\ k.proto = SOCK_STREAM
    BY <1>2, ExpireInv
  <2>2. /\ esix_sockets[s] \in EsixSock
        /\ n \in 0 .. Len(esix_sockets[s].sent)
    BY ExpireType DEF IInv
  <2>3. ASSUME NEW j, Set(s, j), Keeps(k, j)
        PROVE  PortsDistinct' /\ OnlyWithListener
    <3>1. Keeps(esix_sockets[s], j)
      BY <1>2, <2>2, <2>3, DropKeeps
    <3> QED BY <1>0, <2>1, <2>3, <3>1, KeepStore
  <2>4. CASE Set(s, k)
    BY <2>3, <2>4 DEF Keeps
  <2>5. CASE AckEstablishes(t, s, k)
    <3> DEFINE j == [k EXCEPT !.state = "ESTABLISHED"]
    <3>1. /\ j.lport = k.lport /\ j.child = k.child /\ j.proto = k.proto
          /\ j.state = "ESTABLISHED" /\ Set(s, j)
      BY <2>1, <2>5 DEF EsixSock, AckEstablishes
    <3>2. Keeps(k, j)
      BY <2>1, <3>1 DEF Keeps, OwnsPort, SOCK_STREAM, SOCK_DGRAM
    <3> QED BY <2>3, <3>1, <3>2
  <2>6. CASE AckCloses(t, s, k)
    <3>1. Keeps(k, Closed(k))
      BY <2>1, ClosedKeeps DEF RecordInv
    <3> QED BY <2>3, <2>6, <3>1 DEF AckCloses
  <2>7. CASE AckData(t, s, k)
    <3> DEFINE e == [from |-> k.raddr, fport |-> k.rport, data |-> t.data]
               j == [k EXCEPT !.ackn = Plus(k.ackn, Len(t.data)),
                              !.recv = Append(@, e)]
    <3>1. /\ j.lport = k.lport /\ j.child = k.child /\ j.proto = k.proto
          /\ j.state = k.state /\ Set(s, j)
      BY <2>1, <2>7 DEF EsixSock, AckData
    <3>2. Keeps(k, j)
      BY <3>1 DEF Keeps, OwnsPort
    <3> QED BY <2>3, <3>1, <3>2
  <2>8. CASE FinAnswered(t, s, k)
    <3> DEFINE j == [k EXCEPT !.ackn = Plus(@, 1), !.seqn = Plus(@, 1),
                              !.state = "FIN_WAIT_2"]
    <3>1. /\ j.lport = k.lport /\ j.child = k.child /\ j.proto = k.proto
          /\ j.state = "FIN_WAIT_2" /\ Set(s, j)
      BY <2>1, <2>8 DEF EsixSock, FinAnswered
    <3>2. Keeps(k, j)
      BY <2>1, <3>1 DEF Keeps, OwnsPort, SOCK_STREAM, SOCK_DGRAM
    <3> QED BY <2>3, <3>1, <3>2
  <2>9. CASE FinCounted(t, s, k)
    <3> DEFINE j == [k EXCEPT !.ackn = Plus(@, 1)]
    <3>1. /\ j.lport = k.lport /\ j.child = k.child /\ j.proto = k.proto
          /\ j.state = k.state /\ Set(s, j)
      BY <2>1, <2>9 DEF EsixSock, FinCounted
    <3>2. Keeps(k, j)
      BY <3>1 DEF Keeps, OwnsPort
    <3> QED BY <2>3, <3>1, <3>2
  <2> QED BY <1>2, <2>4, <2>5, <2>6, <2>7, <2>8, <2>9
        DEF AckLate, AckOnly, FinIgnored
<1> QED BY <1>1, <1>2 DEF tcp_process_ACK, tcp_process_FIN, Refuse

(* So may RST; datagrams touch neither port nor state.                     *)
LEMMA RstUdpKeeps ==
  ASSUME IInv, PortsDistinct,
         \/ \E t \in TcpIn : tcp_process_RST(t)
         \/ UdpProcess
  PROVE  PortsDistinct' /\ OnlyWithListener
<1>0. UNCHANGED fd
  BY DEF tcp_process_RST, UdpProcess, udp_process_queue, udp_process_unreachable
<1>1. ASSUME NEW t \in TcpIn, NEW s \in FindConnected(t),
             Set(s, Closed(esix_sockets[s]))
      PROVE  PortsDistinct' /\ OnlyWithListener
  <2>1. s \in Socks /\ esix_sockets[s] \in EsixSock /\ Served(esix_sockets[s])
    BY LookupType, SlotFacts DEF RecordInv
  <2> QED BY <1>0, <1>1, <2>1, ClosedKeeps, KeepStore
<1>2. ASSUME NEW d \in UdpIn, udp_process_queue(d)
      PROVE  PortsDistinct' /\ OnlyWithListener
  <2> DEFINE e == [from |-> d.src, fport |-> d.sport, data |-> d.data]
  <2>1. PICK s \in FindListen(SOCK_DGRAM, d) :
          Set(s, [esix_sockets[s] EXCEPT !.recv = Append(@, e)])
    BY <1>2 DEF udp_process_queue
  <2> DEFINE k == esix_sockets[s]
             j == [k EXCEPT !.recv = Append(@, e)]
  <2>2. s \in Socks
    BY LookupType
  <2>3. j.lport = k.lport /\ j.child = k.child /\ j.proto = k.proto /\ j.state = k.state
    BY <2>2, SlotFacts DEF EsixSock
  <2>4. Keeps(k, j)
    BY <2>3 DEF Keeps, OwnsPort
  <2> QED BY <1>0, <2>1, <2>2, <2>4, KeepStore
<1>3. CASE UNCHANGED esix_sockets
  <2>1. \A u \in Socks : Keeps(esix_sockets[u], esix_sockets'[u])
    BY <1>3 DEF Keeps
  <2> QED BY <1>0, <2>1, KeepStep
<1> QED BY <1>1, <1>2, <1>3 DEF tcp_process_RST, UdpProcess, udp_process_unreachable

(* A tick closes sockets or moves their date.                              *)
LEMMA TickKeeps ==
  ASSUME IInv, PortsDistinct, esix_periodic_callback
  PROVE  PortsDistinct' /\ OnlyWithListener
<1>1. /\ UNCHANGED fd
      /\ \A s \in Socks :
           esix_sockets'[s] = Housekept(esix_sockets[s], current_time + 1)
  BY DEF esix_periodic_callback
<1>2. ASSUME NEW k \in EsixSock, Served(k), NEW now
      PROVE  Keeps(k, Housekept(k, now))
  <2> DEFINE date == now + XorTwo(Age(k, now))
  <2>1. \/ Housekept(k, now) = Closed(k)
        \/ Housekept(k, now) = [k EXCEPT !.rexmit_date = date]
        \/ Housekept(k, now) = [k EXCEPT !.rexmit_date = 0]
        \/ Housekept(k, now) = k
    <3>1. CASE GivesUp(k, now)
      BY <3>1 DEF Housekept, GivesUp, Resends
    <3>2. CASE Resends(k, now)
      BY <3>2 DEF Housekept, Resends
    <3>3. CASE ~GivesUp(k, now) /\ ~Resends(k, now) /\ Due(k, now)
      BY <3>3 DEF Housekept, Resends
    <3>4. CASE ~Due(k, now)
      BY <3>4 DEF Housekept, Resends, GivesUp
    <3> QED BY <3>1, <3>2, <3>3, <3>4 DEF GivesUp, Resends
  <2>2. ASSUME NEW d PROVE Keeps(k, [k EXCEPT !.rexmit_date = d])
    <3> DEFINE j == [k EXCEPT !.rexmit_date = d]
    <3>1. j.lport = k.lport /\ j.child = k.child /\ j.proto = k.proto /\ j.state = k.state
      BY DEF EsixSock
    <3> QED BY <3>1 DEF Keeps, OwnsPort
  <2>3. Keeps(k, k)
    BY DEF Keeps
  <2>4. /\ Keeps(k, [k EXCEPT !.rexmit_date = date])
        /\ Keeps(k, [k EXCEPT !.rexmit_date = 0])
    BY <2>2
  <2>5. Keeps(k, Closed(k))
    BY <1>2, ClosedKeeps
  <2> QED BY <2>1, <2>3, <2>4, <2>5
<1>3. \A s \in Socks : Keeps(esix_sockets[s], esix_sockets'[s])
  BY <1>1, <1>2, SlotFacts DEF RecordInv
<1> QED BY <1>1, <1>3, KeepStep

(* Every step keeps ports distinct and abandons a session only with its listener. *)
LEMMA StepKeeps ==
  ASSUME IInv, PortsDistinct, [Next]_vars
  PROVE  PortsDistinct' /\ OnlyWithListener
<1>1. CASE UNCHANGED vars
  <2>1. \A u \in Socks : Keeps(esix_sockets[u], esix_sockets'[u])
    BY <1>1 DEF Keeps, vars
  <2> QED BY <1>1, <2>1, KeepStep DEF vars
<1>2. CASE \E f \in Fds, type \in {SOCK_STREAM, SOCK_DGRAM} : socket(f, type)
  BY <1>2, SocketCallKeeps
<1>3. CASE \E f \in Fds : close(f)
  BY <1>3, CloseCallKeeps
<1>4. ASSUME NEW s \in Socks \cap {fd[f] : f \in Fds}, AppCall(s)
      PROVE  PortsDistinct' /\ OnlyWithListener
  BY <1>4, OtherCallKeeps, AcceptCallKeeps, BindCallKeeps, ConnectCallKeeps DEF AppCall
<1>5. CASE TcpProcess
  BY <1>5, SynKeeps, SynAckKeeps, AckFinKeeps, RstUdpKeeps DEF TcpProcess
<1>6. CASE UdpProcess
  BY <1>6, RstUdpKeeps
<1>7. CASE esix_periodic_callback
  BY <1>7, TickKeeps
<1> QED BY <1>1, <1>2, <1>3, <1>4, <1>5, <1>6, <1>7 DEF Next

(* No two sockets that are looked up by port alone have the same port.     *)
THEOREM PortsStayDistinct == Spec => []PortsDistinct
<1>1. Init => PortsDistinct
  BY DEF Init, PortsDistinct, OwnsPort, Blank, SOCK_DGRAM
<1>2. IInv /\ PortsDistinct /\ [Next]_vars => PortsDistinct'
  BY StepKeeps
<1> QED BY <1>1, <1>2, Invariance, PTL DEF Spec

(* Only the closing of a listener abandons a socket in use.                *)
THEOREM SocketsStayReachable == Spec => AbandonedOnlyWithListener
<1>1. IInv /\ PortsDistinct /\ [Next]_vars => [OnlyWithListener]_vars
  BY StepKeeps
<1>2. Spec => [][OnlyWithListener]_vars
  BY <1>1, Invariance, PortsStayDistinct, PTL DEF Spec
<1> QED BY <1>2 DEF AbandonedOnlyWithListener, OnlyWithListener

-----------------------------------------------------------------------------
(* The demo's servers.  The stack comes first: the steps servers and       *)
(* clients cause once all is set up leave a socket alone that waits for    *)
(* anybody.                                                                *)

(* What receivers are told of the sender is the address of a peer.         *)
PeerElement == [from : Peers, fport : PeerPorts, data : Payloads]
FromPeers == \A u \in Socks : esix_sockets[u].recv \in Seq(PeerElement)

Waiting(k) == k.state \in {"RESERVED", "LISTEN"}
Open(k) == Waiting(k) /\ k.raddr = in6addr_any

(* A socket that is open stays as it is, none comes to wait, and what      *)
(* arrives is from peers.                                                  *)
Settled(k, j) ==
  /\ Open(k) => /\ j.proto = k.proto /\ j.state = k.state
                /\ j.raddr = k.raddr /\ j.lport = k.lport
  /\ Waiting(j) => Waiting(k)
  /\ k.recv \in Seq(PeerElement) => j.recv \in Seq(PeerElement)

Quiet ==
  /\ \A u \in Socks : Settled(esix_sockets[u], esix_sockets'[u])
  /\ \A u \in Socks : Queued(u)' => Queued(u) \/ esix_sockets[u].state = "CLOSED"

(* A step that queues no child is quiet if it is so slot by slot.          *)
LEMMA QuietSlots ==
  ASSUME \A u \in Socks :
           /\ Settled(esix_sockets[u], esix_sockets'[u])
           /\ esix_sockets'[u].child \in {esix_sockets[u].child, <<>>}
  PROVE  Quiet
<1>1. ASSUME NEW u \in Socks, Queued(u)'
      PROVE  Queued(u)
  <2>1. PICK l \in Socks : \E i \in DOMAIN esix_sockets'[l].child :
                             esix_sockets'[l].child[i] = u
    BY <1>1 DEF Queued
  <2>2. esix_sockets'[l].child = esix_sockets[l].child \/ esix_sockets'[l].child = <<>>
    OBVIOUS
  <2>3. CASE esix_sockets'[l].child = <<>>
    <3>1. DOMAIN esix_sockets'[l].child = {}
      BY <2>3
    <3> QED BY <2>1, <3>1
  <2> QED BY <2>1, <2>2, <2>3 DEF Queued
<1> QED BY <1>1 DEF Quiet

(* The same for a step that stores one record.                             *)
LEMMA QuietStore ==
  ASSUME IInv, NEW s \in Socks, NEW j, Set(s, j),
         Settled(esix_sockets[s], j), j.child \in {esix_sockets[s].child, <<>>}
  PROVE  Quiet
<1>1. esix_sockets'[s] = j /\ \A u \in Socks \ {s} : esix_sockets'[u] = esix_sockets[u]
  BY DEF Set, IInv, TypeOK
<1>2. \A u \in Socks \ {s} : Settled(esix_sockets[u], esix_sockets'[u])
  BY <1>1 DEF Settled
<1>3. \A u \in Socks :
        /\ Settled(esix_sockets[u], esix_sockets'[u])
        /\ esix_sockets'[u].child \in {esix_sockets[u].child, <<>>}
  BY <1>1, <1>2
<1> QED BY <1>3, QuietSlots

(* And for one that stores nothing.                                        *)
LEMMA QuietIdle ==
  ASSUME UNCHANGED esix_sockets
  PROVE  Quiet
<1>1. \A u \in Socks :
        /\ Settled(esix_sockets[u], esix_sockets'[u])
        /\ esix_sockets'[u].child \in {esix_sockets[u].child, <<>>}
  BY DEF Settled
<1> QED BY <1>1, QuietSlots

(* Elements of peers on a queue.                                           *)
LEMMA PeerQueue ==
  /\ <<>> \in Seq(PeerElement)
  /\ \A q \in Seq(PeerElement), e \in PeerElement : Append(q, e) \in Seq(PeerElement)
  /\ \A q \in Seq(PeerElement) : q # <<>> =>
       Head(q) \in PeerElement /\ Tail(q) \in Seq(PeerElement)
OBVIOUS

(* A sender leaves everything but its queue and its numbers.               *)
LEMMA SendQuiet ==
  ASSUME IInv, NEW s \in Socks, NEW data \in Payloads, send_STREAM(s, data)
  PROVE  Quiet
<1> DEFINE k == esix_sockets[s]
           e == [seqn |-> k.seqn, data |-> data, t_sent |-> current_time]
           j == [k EXCEPT !.sent = Append(@, e), !.seqn = Plus(@, Len(data)),
                          !.rexmit_date = current_time + 2]
<1>1. /\ j.lport = k.lport /\ j.child = k.child /\ j.state = k.state
      /\ j.proto = k.proto /\ j.raddr = k.raddr /\ j.recv = k.recv /\ Set(s, j)
  BY SlotFacts DEF EsixSock, send_STREAM
<1> HIDE DEF j
<1>2. Settled(k, j)
  BY <1>1 DEF Settled, Open, Waiting
<1> QED BY <1>1, <1>2, QuietStore

(* So does a receiver.                                                     *)
LEMMA RecvQuiet ==
  ASSUME IInv, NEW s \in Socks, recvfrom(s)
  PROVE  Quiet
<1> DEFINE k == esix_sockets[s]
           j == [k EXCEPT !.recv = Tail(@)]
<1>1. /\ j.lport = k.lport /\ j.child = k.child /\ j.state = k.state
      /\ j.proto = k.proto /\ j.raddr = k.raddr /\ j.recv = Tail(k.recv)
      /\ k.recv # <<>> /\ Set(s, j)
  BY SlotFacts DEF EsixSock, recvfrom
<1> HIDE DEF j
<1>2. Settled(k, j)
  BY <1>1, PeerQueue DEF Settled, Open, Waiting
<1> QED BY <1>1, <1>2, QuietStore

(* accept() takes the first child off the queue, and names a queued one.   *)
LEMMA AcceptQuiet ==
  ASSUME IInv, NEW s \in Socks, NEW f \in Fds, accept(s, f)
  PROVE  /\ Quiet /\ Queued(Head(esix_sockets[s].child))
         /\ Head(esix_sockets[s].child) \in Socks
<1> DEFINE k == esix_sockets[s]
           j == [k EXCEPT !.child = Tail(k.child)]
<1>1. k \in EsixSock /\ k.child \in Seq(Socks) /\ k.child # <<>>
  BY SlotFacts DEF accept, EsixSock
<1>2. /\ esix_sockets'[s] = j
      /\ \A u \in Socks \ {s} : esix_sockets'[u] = esix_sockets[u]
  BY DEF accept, Set, IInv, TypeOK
<1>3. /\ j.lport = k.lport /\ j.child = Tail(k.child) /\ j.state = k.state
      /\ j.proto = k.proto /\ j.raddr = k.raddr /\ j.recv = k.recv
  BY <1>1 DEF EsixSock
<1>4. /\ \A i \in DOMAIN Tail(k.child) : i + 1 \in DOMAIN k.child /\ Tail(k.child)[i] = k.child[i + 1]
      /\ Head(k.child) = k.child[1] /\ 1 \in DOMAIN k.child
      /\ Head(k.child) \in Socks
  <2>1. /\ Len(Tail(k.child)) = Len(k.child) - 1 /\ Len(k.child) \in Nat
        /\ \A i \in 1 .. Len(Tail(k.child)) : Tail(k.child)[i] = k.child[i + 1]
        /\ Head(k.child) = k.child[1] /\ Head(k.child) \in Socks
        /\ DOMAIN k.child = 1 .. Len(k.child)
        /\ DOMAIN Tail(k.child) = 1 .. Len(Tail(k.child))
    BY <1>1, HeadTailProperties
  <2>2. Len(k.child) # 0
    BY <1>1, EmptySeq
  <2> QED BY <2>1, <2>2
<1> HIDE DEF j
<1>5. Queued(Head(k.child))
  BY <1>4 DEF Queued
<1>6. \A u \in Socks : Settled(esix_sockets[u], esix_sockets'[u])
  BY <1>2, <1>3 DEF Settled, Open, Waiting
<1>7. ASSUME NEW u \in Socks, Queued(u)'
      PROVE  Queued(u)
  <2>1. PICK l \in Socks : \E i \in DOMAIN esix_sockets'[l].child :
                             esix_sockets'[l].child[i] = u
    BY <1>7 DEF Queued
  <2>2. CASE l = s
    <3>1. PICK i \in DOMAIN Tail(k.child) : Tail(k.child)[i] = u
      BY <1>2, <1>3, <2>1, <2>2
    <3>2. i + 1 \in DOMAIN k.child /\ k.child[i + 1] = u
      BY <1>4, <3>1
    <3> QED BY <3>2 DEF Queued
  <2>3. CASE l # s
    BY <1>2, <2>1, <2>3 DEF Queued
  <2> QED BY <2>2, <2>3
<1> QED BY <1>4, <1>5, <1>6, <1>7 DEF Quiet

(* Freeing a slot is quiet unless somebody waits there.                    *)
LEMMA ClosedSettled ==
  ASSUME NEW k \in EsixSock, ~Open(k)
  PROVE  Settled(k, Closed(k)) /\ Closed(k).child = <<>>
<1>1. Closed(k).state = "CLOSED" /\ Closed(k).child = <<>> /\ Closed(k).recv = <<>>
  BY DEF Closed, esix_socket_free_queue, EsixSock
<1> QED BY <1>1, PeerQueue DEF Settled, Waiting

(* So is closing a session.                                                *)
LEMMA CloseQuiet ==
  ASSUME IInv, NEW f \in Fds, close(f), ~Open(esix_sockets[fd[f]])
  PROVE  Quiet
<1> DEFINE s == fd[f]
<1>1. s \in Socks /\ esix_sockets[s] \in EsixSock
  BY SlotFacts DEF close, IInv, TypeOK
<1>2. CASE Set(s, Closed(esix_sockets[s]))
  BY <1>1, <1>2, ClosedSettled, QuietStore
<1>3. CASE UNCHANGED esix_sockets
  BY <1>3, QuietIdle
<1> QED BY <1>2, <1>3 DEF close

(* A SYN queues a slot nobody used.                                        *)
LEMMA SynQuiet ==
  ASSUME IInv, NEW t \in TcpIn, tcp_process_SYN(t)
  PROVE  Quiet
<1>0. NextPort \subseteq Nat
  BY LookupType
<1>1. CASE UNCHANGED esix_sockets
  BY <1>1, QuietIdle
<1>2. CASE ChildNoMemory(t)
  <2>1. PICK p \in NextPort, c \in FreeSlot :
          Set(c, [Reserved(SOCK_STREAM, p) EXCEPT !.state = "CLOSED"])
    BY <1>2 DEF ChildNoMemory
  <2> DEFINE j == [Reserved(SOCK_STREAM, p) EXCEPT !.state = "CLOSED"]
  <2>2. c \in Socks /\ esix_sockets[c].state = "CLOSED"
    BY DEF FreeSlot, Lowest
  <2>3. j.state = "CLOSED" /\ j.child = <<>> /\ j.recv = <<>>
    BY NoElements DEF Reserved, Blank
  <2> HIDE DEF j
  <2>4. Settled(esix_sockets[c], j)
    BY <2>2, <2>3, PeerQueue DEF Settled, Open, Waiting
  <2> QED BY <2>1, <2>2, <2>3, <2>4, QuietStore DEF j
<1>3. CASE ChildCreated(t)
  <2>1. PICK l \in FindListen(SOCK_STREAM, t), p \in NextPort, c \in FreeSlot :
          esix_sockets' = [esix_sockets EXCEPT ![l].child = Append(@, c),
                                               ![c] = Session(t, p)]
    BY <1>3 DEF ChildCreated
  <2> DEFINE k == esix_sockets[l]
             q == Append(k.child, c)
             j == [k EXCEPT !.child = q]
  <2>2. /\ l \in Socks /\ k.state = "LISTEN"
        /\ c \in Socks /\ esix_sockets[c].state = "CLOSED" /\ l # c
    BY <2>1 DEF FindListen, FreeSlot, Lowest
  <2>3. k \in EsixSock /\ k.child \in Seq(Socks)
    BY <2>2, SlotFacts DEF EsixSock
  <2>4. /\ esix_sockets'[c] = Session(t, p)
        /\ esix_sockets'[l] = j
        /\ \A u \in Socks \ {l, c} : esix_sockets'[u] = esix_sockets[u]
    BY <2>1, <2>2 DEF IInv, TypeOK
  <2>5. /\ Session(t, p).state = "SYN_RECEIVED"
        /\ Session(t, p).recv = <<>> /\ Session(t, p).child = <<>>
    BY <1>0 DEF Session, Reserved, Blank
  <2>6. /\ j.state = k.state /\ j.proto = k.proto /\ j.lport = k.lport
        /\ j.child = q /\ j.raddr = k.raddr /\ j.recv = k.recv
    BY <2>3 DEF EsixSock
  <2>7. \A i \in DOMAIN q : q[i] = c \/ (i \in DOMAIN k.child /\ q[i] = k.child[i])
    <3>1. /\ Len(q) = Len(k.child) + 1 /\ Len(k.child) \in Nat
          /\ q[Len(k.child) + 1] = c
          /\ \A i \in 1 .. Len(k.child) : q[i] = k.child[i]
          /\ DOMAIN k.child = 1 .. Len(k.child)
          /\ DOMAIN q = 1 .. (Len(k.child) + 1)
      BY <2>2, <2>3, AppendProperties
    <3> QED BY <3>1
  <2> HIDE DEF j, q
  <2>8. Settled(k, j) /\ Settled(esix_sockets[c], Session(t, p))
    BY <2>2, <2>5, <2>6, PeerQueue DEF Settled, Open, Waiting
  <2>9. \A u \in Socks : Settled(esix_sockets[u], esix_sockets'[u])
    BY <2>4, <2>8 DEF Settled
  <2>10. ASSUME NEW u \in Socks, Queued(u)'
         PROVE  Queued(u) \/ u = c
    <3>1. PICK m \in Socks : \E i \in DOMAIN esix_sockets'[m].child :
                               esix_sockets'[m].child[i] = u
      BY <2>10 DEF Queued
    <3>2. CASE m = l
      <4>1. PICK i \in DOMAIN q : q[i] = u
        BY <2>4, <2>6, <3>1, <3>2
      <4>2. u = c \/ (i \in DOMAIN k.child /\ k.child[i] = u)
        BY <2>7, <4>1
      <4> QED BY <2>2, <4>2 DEF Queued
    <3>3. CASE m = c
      <4>1. DOMAIN esix_sockets'[m].child = {}
        BY <2>4, <2>5, <3>3
      <4> QED BY <3>1, <4>1
    <3>4. CASE m \in Socks \ {l, c}
      BY <2>4, <3>1, <3>4 DEF Queued
    <3> QED BY <3>2, <3>3, <3>4
  <2> QED BY <2>2, <2>9, <2>10 DEF Quiet
<1> QED BY <1>1, <1>2, <1>3 DEF tcp_process_SYN, NoListener, TableFull, Refuse

(* The other segments are for connections, which have a peer.              *)
LEMMA AckFinQuiet ==
  ASSUME IInv, NEW t \in TcpIn, tcp_process_ACK(t) \/ tcp_process_FIN(t)
  PROVE  Quiet
<1>1. CASE UNCHANGED esix_sockets
  BY <1>1, QuietIdle
<1>2. ASSUME NEW s \in FindConnected(t),
             NEW n \in ExpiredPrefix(esix_sockets[s].sent, t.ackn),
             NEW k, k = DropSent(esix_sockets[s], n),
             \/ AckLate(t, s, k) \/ AckEstablishes(t, s, k) \/ AckCloses(t, s, k)
             \/ AckData(t, s, k) \/ AckOnly(t, s, k)
             \/ FinAnswered(t, s, k) \/ FinCounted(t, s, k) \/ FinIgnored(t, s, k)
      PROVE  Quiet
  <2> DEFINE h == esix_sockets[s]
  <2>1. s \in Socks /\ k \in EsixSock
    BY <1>2, ExpireInv
  <2>2. /\ h \in EsixSock /\ h.raddr = t.src /\ h.rport = t.sport
        /\ h.state \notin {"CLOSED", "RESERVED"}
    BY ExpireType DEF IInv, FindConnected, Lowest
  <2>3. /\ t.src \in Peers /\ t.sport \in PeerPorts /\ t.src # in6addr_any
        /\ t.data \in Payloads \cup {<<>>}
    BY EnvAssumption DEF TcpIn
  <2>4. /\ k.raddr = h.raddr /\ k.rport = h.rport /\ k.recv = h.recv
        /\ k.child = h.child /\ k.state = h.state
    BY <1>2, <2>2 DEF DropSent, EsixSock
  <2> HIDE DEF h
  <2>5. ASSUME NEW j, Set(s, j), Waiting(j) => Waiting(h), j.child \in {h.child, <<>>},
               h.recv \in Seq(PeerElement) => j.recv \in Seq(PeerElement)
        PROVE  Quiet
    <3>1. Settled(h, j)
      BY <2>2, <2>3, <2>5 DEF Settled, Open
    <3> QED BY <2>1, <2>5, <3>1, QuietStore DEF h
  <2>6. CASE Set(s, k)
    BY <2>4, <2>5, <2>6 DEF Waiting
  <2>7. CASE AckEstablishes(t, s, k)
    <3> DEFINE j == [k EXCEPT !.state = "ESTABLISHED"]
    <3>1. /\ j.child = k.child /\ j.recv = k.recv
          /\ j.state = "ESTABLISHED" /\ Set(s, j)
      BY <2>1, <2>7 DEF EsixSock, AckEstablishes
    <3> HIDE DEF j
    <3> QED BY <2>4, <2>5, <3>1 DEF Waiting
  <2>8. CASE AckCloses(t, s, k)
    <3>1. ~Open(k)
      BY <2>2, <2>3, <2>4 DEF Open
    <3>2. Closed(k).state = "CLOSED" /\ Closed(k).child = <<>> /\ Closed(k).recv = <<>>
      BY <2>1 DEF Closed, esix_socket_free_queue, EsixSock
    <3> QED BY <2>4, <2>5, <2>8, <3>2, PeerQueue DEF Waiting, AckCloses
  <2>9. CASE AckData(t, s, k)
    <3> DEFINE e == [from |-> k.raddr, fport |-> k.rport, data |-> t.data]
               j == [k EXCEPT !.ackn = Plus(k.ackn, Len(t.data)),
                              !.recv = Append(@, e)]
    <3>1. /\ j.child = k.child /\ j.state = k.state /\ j.recv = Append(k.recv, e)
          /\ Set(s, j) /\ t.data # <<>>
      BY <2>1, <2>9 DEF EsixSock, AckData
    <3>2. e \in PeerElement
      BY <2>2, <2>3, <2>4, <3>1 DEF PeerElement
    <3> HIDE DEF j, e
    <3> QED BY <2>4, <2>5, <3>1, <3>2, PeerQueue DEF Waiting
  <2>10. CASE FinAnswered(t, s, k)
    <3> DEFINE j == [k EXCEPT !.ackn = Plus(@, 1), !.seqn = Plus(@, 1),
                              !.state = "FIN_WAIT_2"]
    <3>1. /\ j.child = k.child /\ j.recv = k.recv
          /\ j.state = "FIN_WAIT_2" /\ Set(s, j)
      BY <2>1, <2>10 DEF EsixSock, FinAnswered
    <3> HIDE DEF j
    <3> QED BY <2>4, <2>5, <3>1 DEF Waiting
  <2>11. CASE FinCounted(t, s, k)
    <3> DEFINE j == [k EXCEPT !.ackn = Plus(@, 1)]
    <3>1. /\ j.child = k.child /\ j.recv = k.recv
          /\ j.state = k.state /\ Set(s, j)
      BY <2>1, <2>11 DEF EsixSock, FinCounted
    <3> HIDE DEF j
    <3> QED BY <2>4, <2>5, <3>1 DEF Waiting
  <2> QED BY <1>2, <2>6, <2>7, <2>8, <2>9, <2>10, <2>11 DEF AckLate, AckOnly, FinIgnored
<1> QED BY <1>1, <1>2 DEF tcp_process_ACK, tcp_process_FIN, Refuse

(* A reset, too.                                                           *)
LEMMA RstQuiet ==
  ASSUME IInv, NEW t \in TcpIn, tcp_process_RST(t)
  PROVE  Quiet
<1>1. PICK s \in FindConnected(t) : Set(s, Closed(esix_sockets[s]))
  BY DEF tcp_process_RST
<1>2. s \in Socks /\ esix_sockets[s] \in EsixSock /\ esix_sockets[s].raddr = t.src
  BY LookupType, SlotFacts DEF FindConnected, Lowest
<1>3. ~Open(esix_sockets[s])
  BY <1>2, EnvAssumption DEF Open, TcpIn
<1> QED BY <1>1, <1>2, <1>3, ClosedSettled, QuietStore

(* A datagram is queued, or answered.                                      *)
LEMMA UdpQuiet ==
  ASSUME IInv, NEW d \in UdpIn, udp_process_queue(d) \/ udp_process_unreachable(d)
  PROVE  Quiet
<1>1. CASE udp_process_unreachable(d)
  BY <1>1, QuietIdle DEF udp_process_unreachable
<1>2. CASE udp_process_queue(d)
  <2> DEFINE e == [from |-> d.src, fport |-> d.sport, data |-> d.data]
  <2>1. PICK s \in FindListen(SOCK_DGRAM, d) :
          Set(s, [esix_sockets[s] EXCEPT !.recv = Append(@, e)])
    BY <1>2 DEF udp_process_queue
  <2> DEFINE k == esix_sockets[s]
             j == [k EXCEPT !.recv = Append(@, e)]
  <2>2. s \in Socks
    BY LookupType
  <2>3. /\ j.lport = k.lport /\ j.child = k.child /\ j.proto = k.proto
        /\ j.state = k.state /\ j.raddr = k.raddr /\ j.recv = Append(k.recv, e)
    BY <2>2, SlotFacts DEF EsixSock
  <2>4. e \in PeerElement
    BY DEF PeerElement, UdpIn
  <2> HIDE DEF j, e
  <2>5. Settled(k, j)
    BY <2>3, <2>4, PeerQueue DEF Settled, Open, Waiting
  <2> QED BY <2>1, <2>2, <2>3, <2>5, QuietStore DEF j
<1> QED BY <1>1, <1>2

(* A tick closes only sockets with unacknowledged data.                    *)
LEMMA TickQuiet ==
  ASSUME IInv, esix_periodic_callback
  PROVE  Quiet
<1>1. \A s \in Socks : esix_sockets'[s] = Housekept(esix_sockets[s], current_time + 1)
  BY DEF esix_periodic_callback
<1>2. ASSUME NEW k \in EsixSock, Served(k), NEW now
      PROVE  /\ Settled(k, Housekept(k, now))
             /\ Housekept(k, now).child \in {k.child, <<>>}
  <2> DEFINE date == now + XorTwo(Age(k, now))
  <2>1. \/ Housekept(k, now) = Closed(k) /\ k.sent # <<>>
        \/ Housekept(k, now) = [k EXCEPT !.rexmit_date = date]
        \/ Housekept(k, now) = [k EXCEPT !.rexmit_date = 0]
        \/ Housekept(k, now) = k
    <3>1. CASE GivesUp(k, now)
      BY <3>1 DEF Housekept, GivesUp, Resends
    <3>2. CASE Resends(k, now)
      BY <3>2 DEF Housekept, Resends
    <3>3. CASE ~GivesUp(k, now) /\ ~Resends(k, now) /\ Due(k, now)
      BY <3>3 DEF Housekept, Resends
    <3>4. CASE ~Due(k, now)
      BY <3>4 DEF Housekept, Resends, GivesUp
    <3> QED BY <3>1, <3>2, <3>3, <3>4 DEF GivesUp, Resends
  <2>2. ASSUME NEW d
        PROVE  /\ Settled(k, [k EXCEPT !.rexmit_date = d])
               /\ [k EXCEPT !.rexmit_date = d].child = k.child
    <3> DEFINE j == [k EXCEPT !.rexmit_date = d]
    <3>1. /\ j.lport = k.lport /\ j.child = k.child /\ j.proto = k.proto
          /\ j.state = k.state /\ j.raddr = k.raddr /\ j.recv = k.recv
      BY DEF EsixSock
    <3> HIDE DEF j
    <3>2. Settled(k, j)
      BY <3>1 DEF Settled, Open, Waiting
    <3> QED BY <3>1, <3>2 DEF j
  <2>3. Settled(k, k)
    BY DEF Settled
  <2>4. k.sent # <<>> => Settled(k, Closed(k)) /\ Closed(k).child = <<>>
    BY <1>2, ClosedSettled DEF Served, Open, Waiting
  <2>5. CASE Housekept(k, now) = Closed(k) /\ k.sent # <<>>
    BY <2>4, <2>5
  <2>6. ASSUME NEW d, Housekept(k, now) = [k EXCEPT !.rexmit_date = d]
        PROVE  /\ Settled(k, Housekept(k, now))
               /\ Housekept(k, now).child \in {k.child, <<>>}
    BY <2>2, <2>6
  <2>7. CASE Housekept(k, now) = k
    BY <2>3, <2>7
  <2> QED BY <2>1, <2>5, <2>6, <2>7
<1>3. \A u \in Socks :
        /\ Settled(esix_sockets[u], esix_sockets'[u])
        /\ esix_sockets'[u].child \in {esix_sockets[u].child, <<>>}
  BY <1>1, <1>2, SlotFacts DEF RecordInv
<1> QED BY <1>3, QuietSlots

-----------------------------------------------------------------------------
(* The tasks.  First the invariant: where each stands and what it has      *)
(* received, then what its listening socket looks like.                    *)

Labels == Setup \cup {"accept", "greet", "prompt", "recv", "echo", "status", "page",
                      "generate", "close", "recvfrom", "reply"}

TasksTypeOK ==
  /\ up \in Demos
  /\ at \in [Servers -> Labels]
  /\ buff \in [Servers -> {Nothing} \cup Payloads \cup PeerElement]
  /\ usurped \in BOOLEAN
  /\ \A s \in Servers :
       /\ fd[Soc(s)] = NoSock <=> at[s] = "socket"
       /\ at[s] = "echo" => buff[s] \in Payloads
       /\ at[s] = "reply" => buff[s] \in PeerElement

(* The socket that s has set up so far; no other variable and no queue     *)
(* names it.                                                               *)
SetUp(s) ==
  LET k == esix_sockets[fd[Soc(s)]] IN
  /\ k.proto = Type(s) /\ k.raddr = in6addr_any
  /\ k.state = IF at[s] \in {"bind", "listen"} THEN "RESERVED" ELSE "LISTEN"
  /\ at[s] # "bind" => k.lport = Port[s]
  /\ ~Queued(fd[Soc(s)])
  /\ \A f \in Fds : fd[f] = fd[Soc(s)] => f = Soc(s)

Listeners ==
  /\ \A s \in Servers : at[s] # "socket" => SetUp(s)
  /\ \A u \in Socks : Waiting(esix_sockets[u]) => \E s \in Servers : fd[Soc(s)] = u

NoneAbandoned == \A u \in Socks : ~Abandoned(u)

StackInv == IInv /\ PortsDistinct /\ FromPeers
ServersInv ==
  /\ StackInv /\ TasksTypeOK /\ ServersTypeOK
  /\ ~usurped => Listeners /\ NoneAbandoned

(* Descriptor variables are what they are named for.                       *)
LEMMA FdFacts ==
  /\ \A s \in Servers : Soc(s) \in Fds
  /\ \A s \in TcpServers : Conn(s) \in Fds
  /\ \A s, u \in Servers : Soc(s) # Conn(u)
  /\ \A s, u \in Servers : Soc(s) = Soc(u) => s = u
  /\ \A s, u \in Servers : Conn(s) = Conn(u) => s = u
  /\ \A f \in Fds : (\E s \in Servers : f = Soc(s)) \/ (\E s \in TcpServers : f = Conn(s))
BY ServersAssumption DEF Soc, Conn, Servers

(* Nothing received is no payload and no element.                          *)
LEMMA NothingFacts == Nothing \notin Payloads /\ Nothing \notin PeerElement
<1>1. Nothing \notin Payloads
  <2>1. Len(Nothing) = 0
    BY DEF Nothing
  <2> QED BY <2>1, EnvAssumption
<1>2. ASSUME Nothing \in PeerElement PROVE FALSE
  <2>1. DOMAIN Nothing = {"from", "fport", "data"}
    BY <1>2 DEF PeerElement
  <2>2. DOMAIN Nothing = {}
    BY DEF Nothing
  <2> QED BY <2>1, <2>2
<1> QED BY <1>1, <1>2

(* A server that has a socket holds it, and so may call the stack with it. *)
LEMMA SocFacts ==
  ASSUME ServersInv, NEW s \in Servers, at[s] # "socket"
  PROVE  /\ fd[Soc(s)] \in Socks \cap {fd[f] : f \in Fds}
         /\ fd[Soc(s)] # NoSock
BY FdFacts DEF ServersInv, StackInv, IInv, TypeOK, TasksTypeOK

(* A server in a session holds that.                                       *)
LEMMA ConnFacts ==
  ASSUME ServersInv, NEW s \in TcpServers, at[s] \notin Setup, at[s] # "accept"
  PROVE  /\ fd[Conn(s)] \in Socks \cap {fd[f] : f \in Fds}
         /\ fd[Conn(s)] # NoSock
BY FdFacts DEF ServersInv, StackInv, IInv, TypeOK, ServersTypeOK

(* What a step of the stack shows; a quiet one keeps what queues hold.     *)
StackStep == [Next]_vars /\ FromPeers'

(* In a quiet step queues only get what peers sent.                        *)
LEMMA QuietStep ==
  ASSUME FromPeers, Quiet
  PROVE  FromPeers'
BY DEF FromPeers, Quiet, Settled

(* No call is a stutter of the stack.                                      *)
LEMMA IdleStep ==
  ASSUME FromPeers, NoCall
  PROVE  StackStep /\ Quiet
BY QuietIdle, QuietStep DEF NoCall, vars, StackStep

(* A server that is set up goes on to label, having received b: it may     *)
(* have got or given up a session.                                         *)
Continues(s, label, b) ==
  /\ at[s] \notin Setup /\ label \in Labels \ Setup
  /\ at' = [at EXCEPT ![s] = label]
  /\ buff' = [buff EXCEPT ![s] = b]
  /\ UNCHANGED <<up, usurped>>
  /\ label = "echo" => b \in Payloads
  /\ label = "reply" => b \in PeerElement
  /\ label \notin {"echo", "reply"} => b = Nothing
  /\ \A f \in Fds : f # Conn(s) => fd'[f] = fd[f]
  /\ s \in TcpServers => (fd'[Conn(s)] = NoSock <=> label = "accept")

(* The other servers are where they were, and all that are set up remain so. *)
Aside ==
  /\ Quiet
  /\ \A s \in Servers :
       fd'[Soc(s)] = fd[Soc(s)] /\ (at'[s] = at[s] \/ (at[s] \notin Setup /\ at'[s] \notin Setup))
  /\ \A f \in Fds : fd'[f] \in {fd[f], NoSock} \/ (fd'[f] \in Socks /\ Queued(fd'[f]))

Steady ==
  /\ StackStep /\ TasksTypeOK' /\ ServersTypeOK' /\ UNCHANGED usurped
  /\ Listeners => Aside

(* Going on keeps the types and touches no listening socket.               *)
LEMMA ContinuesType ==
  ASSUME ServersInv, NEW s \in Servers, s \in DOMAIN up, NEW label, NEW b,
         Continues(s, label, b)
  PROVE  /\ TasksTypeOK' /\ ServersTypeOK' /\ UNCHANGED usurped
         /\ \A u \in Servers : /\ fd'[Soc(u)] = fd[Soc(u)]
                               /\ at'[u] = at[u] \/ (at[u] \notin Setup /\ at'[u] \notin Setup)
<1>1. /\ at \in [Servers -> Labels]
      /\ buff \in [Servers -> {Nothing} \cup Payloads \cup PeerElement]
      /\ up \in Demos /\ usurped \in BOOLEAN
  BY DEF ServersInv, TasksTypeOK
<1>2. /\ at'[s] = label /\ \A u \in Servers : u # s => at'[u] = at[u]
      /\ buff'[s] = b /\ \A u \in Servers : u # s => buff'[u] = buff[u]
      /\ at' \in [Servers -> Labels]
      /\ buff' \in [Servers -> {Nothing} \cup Payloads \cup PeerElement]
  BY <1>1 DEF Continues
<1>3. \A u \in Servers : fd'[Soc(u)] = fd[Soc(u)]
  BY FdFacts DEF Continues
<1>4. \A u \in TcpServers : u # s => fd'[Conn(u)] = fd[Conn(u)]
  BY FdFacts DEF Continues, Servers
<1>5. TasksTypeOK'
  <2>1. \A u \in Servers : fd[Soc(u)] = NoSock <=> at[u] = "socket"
    BY DEF ServersInv, TasksTypeOK
  <2>2. \A u \in Servers : fd'[Soc(u)] = NoSock <=> at'[u] = "socket"
    BY <1>2, <1>3, <2>1 DEF Continues, Setup
  <2>3. \A u \in Servers : /\ at'[u] = "echo" => buff'[u] \in Payloads
                           /\ at'[u] = "reply" => buff'[u] \in PeerElement
    BY <1>2 DEF Continues, ServersInv, TasksTypeOK
  <2> QED BY <1>1, <1>2, <2>2, <2>3 DEF TasksTypeOK, Continues
<1>6. ServersTypeOK'
  <2>1. \A u \in Servers \ DOMAIN up : at'[u] = "socket" /\ fd'[Soc(u)] = NoSock
    BY <1>2, <1>3 DEF ServersInv, ServersTypeOK
  <2>2. ASSUME NEW u \in TcpServers
        PROVE  fd'[Conn(u)] = NoSock <=> at'[u] \in Setup \cup {"accept"}
    <3>1. CASE u = s
      BY <1>2, <3>1 DEF Continues
    <3>2. CASE u # s
      <4>1. fd[Conn(u)] = NoSock <=> at[u] \in Setup \cup {"accept"}
        BY DEF ServersInv, ServersTypeOK
      <4> QED BY <1>2, <1>4, <3>2, <4>1 DEF Servers
    <3> QED BY <3>1, <3>2
  <2>3. ASSUME NEW u \in Servers
        PROVE  buff'[u] = Nothing <=> at'[u] \notin {"echo", "reply"}
    <3>1. CASE u = s
      BY <1>2, <3>1, NothingFacts DEF Continues
    <3>2. CASE u # s
      <4>1. buff[u] = Nothing <=> at[u] \notin {"echo", "reply"}
        BY DEF ServersInv, ServersTypeOK
      <4> QED BY <1>2, <3>2, <4>1
    <3> QED BY <3>1, <3>2
  <2> QED BY <2>1, <2>2, <2>3 DEF ServersTypeOK, Continues
<1> QED BY <1>2, <1>3, <1>5, <1>6 DEF Continues

(* With a quiet call that gives it a queued session, or takes one away.    *)
LEMMA ContinuesSteady ==
  ASSUME ServersInv, NEW s \in Servers, s \in DOMAIN up, NEW label, NEW b,
         Continues(s, label, b), StackStep, Listeners => Quiet,
         \A f \in Fds : fd'[f] \in {fd[f], NoSock} \/ (fd'[f] \in Socks /\ Queued(fd'[f]))
  PROVE  Steady
BY ContinuesType DEF Steady, Aside

(* What a quiet step of the stack itself does to the servers: nothing.     *)
LEMMA NetworkSteady ==
  ASSUME ServersInv, Next, Quiet, UNCHANGED <<up, at, buff, usurped, fd>>
  PROVE  Steady
<1>1. StackStep
  BY QuietStep DEF StackStep, ServersInv, StackInv
<1>2. TasksTypeOK' /\ ServersTypeOK'
  BY DEF ServersInv, TasksTypeOK, ServersTypeOK
<1> QED BY <1>1, <1>2 DEF Steady, Aside

(* A call on a held socket is a step of the stack.                         *)
LEMMA CallStep ==
  ASSUME NEW k \in Socks \cap {fd[f] : f \in Fds}, AppCall(k)
  PROVE  Next
BY DEF Next

(* accept() gives the server the first session of its queue.               *)
LEMMA AcceptSteady ==
  ASSUME ServersInv, NEW s \in TcpServers, s \in DOMAIN up,
         NEW next \in {"recv", "greet"}, Accept(s, next), UNCHANGED up
  PROVE  Steady
<1> DEFINE k == fd[Soc(s)]
           c == Head(esix_sockets[k].child)
<1>1. s \in Servers /\ at[s] = "accept" /\ Conn(s) \in Fds
  BY FdFacts DEF Servers, Accept
<1>2. k \in Socks \cap {fd[f] : f \in Fds} /\ IInv
  BY <1>1, SocFacts DEF ServersInv, StackInv
<1>3. accept(k, Conn(s)) /\ fd' = [fd EXCEPT ![Conn(s)] = c]
  BY DEF Accept, accept
<1>4. Quiet /\ Queued(c) /\ c \in Socks
  BY <1>1, <1>2, <1>3, AcceptQuiet
<1>5. Next
  BY <1>1, <1>2, <1>3, CallStep DEF AppCall
<1>6. \A f \in Fds : fd'[f] = IF f = Conn(s) THEN c ELSE fd[f]
  BY <1>3 DEF ServersInv, StackInv, IInv, TypeOK
<1>7. buff[s] = Nothing /\ buff' = [buff EXCEPT ![s] = Nothing]
  BY <1>1 DEF ServersInv, ServersTypeOK, TasksTypeOK, Accept
<1>8. Continues(s, next, Nothing)
  BY <1>1, <1>4, <1>6, <1>7, EnvAssumption DEF Continues, Labels, Setup, Accept, Goto
<1>9. StackStep
  BY <1>4, <1>5, QuietStep DEF StackStep, ServersInv, StackInv
<1> QED BY <1>1, <1>4, <1>6, <1>8, <1>9, ContinuesSteady

(* send() says something, or is refused.                                   *)
LEMMA SaySteady ==
  ASSUME ServersInv, NEW s \in TcpServers, at[s] \notin Setup, at[s] # "accept",
         NEW data \in Payloads, Say(s, data)
  PROVE  StackStep /\ Quiet /\ UNCHANGED fd
<1> DEFINE k == fd[Conn(s)]
<1>1. k \in Socks \cap {fd[f] : f \in Fds} /\ IInv /\ FromPeers
  BY ConnFacts DEF ServersInv, StackInv
<1>2. CASE send_STREAM(k, data)
  <2>1. Quiet /\ Next
    BY <1>1, <1>2, SendQuiet, CallStep DEF AppCall
  <2> QED BY <1>1, <1>2, <2>1, QuietStep DEF StackStep, send_STREAM
<1>3. CASE NoCall
  BY <1>1, <1>3, IdleStep DEF NoCall, vars
<1> QED BY <1>2, <1>3 DEF Say

(* What servers say of themselves is a payload.                            *)
LEMMA TextType == text \in Payloads /\ exit \in Payloads
BY ServersAssumption

(* After it the server goes on.                                            *)
LEMMA SaysSteady ==
  ASSUME ServersInv, NEW s \in TcpServers, s \in DOMAIN up,
         NEW label \in {"greet", "prompt", "status", "page"},
         NEW next \in {"prompt", "recv", "generate", "close"},
         Says(s, label, next), UNCHANGED up
  PROVE  Steady
<1>1. s \in Servers /\ at[s] = label /\ at[s] \notin Setup /\ at[s] # "accept"
  BY DEF Servers, Says, Setup
<1>2. StackStep /\ Quiet /\ UNCHANGED fd
  BY <1>1, SaySteady, TextType DEF Says
<1>3. buff[s] = Nothing /\ buff' = [buff EXCEPT ![s] = Nothing]
  BY <1>1 DEF ServersInv, ServersTypeOK, TasksTypeOK, Says
<1>4. fd[Conn(s)] # NoSock
  BY <1>1, ConnFacts
<1>5. Continues(s, next, Nothing)
  BY <1>1, <1>2, <1>3, <1>4 DEF Continues, Labels, Setup, Says, Goto
<1> QED BY <1>1, <1>2, <1>5, ContinuesSteady

(* recv() fails, and the server is going to close.                         *)
LEMMA RecvFailsSteady ==
  ASSUME ServersInv, NEW s \in TcpServers, s \in DOMAIN up, RecvFails(s), UNCHANGED up
  PROVE  Steady
<1>1. s \in Servers /\ at[s] = "recv" /\ at[s] \notin Setup /\ at[s] # "accept"
  BY DEF Servers, RecvFails, Setup
<1>2. StackStep /\ Quiet /\ UNCHANGED fd
  BY IdleStep DEF RecvFails, NoCall, vars, ServersInv, StackInv
<1>3. buff[s] = Nothing /\ buff' = [buff EXCEPT ![s] = Nothing]
  BY <1>1 DEF ServersInv, ServersTypeOK, TasksTypeOK, RecvFails
<1>4. fd[Conn(s)] # NoSock
  BY <1>1, ConnFacts
<1>5. Continues(s, "close", Nothing)
  BY <1>1, <1>2, <1>3, <1>4 DEF Continues, Labels, Setup, RecvFails, Goto
<1> QED BY <1>1, <1>2, <1>5, ContinuesSteady

(* recv() takes one element off the queue of the session.                  *)
LEMMA RecvSteady ==
  ASSUME ServersInv, NEW s \in TcpServers, s \in DOMAIN up, Recv(s), UNCHANGED up
  PROVE  Steady
<1> DEFINE k == fd[Conn(s)]
           data == Head(esix_sockets[k].recv).data
           b == IF s = "tcp" THEN data ELSE Nothing
<1>1. s \in Servers /\ at[s] = "recv" /\ at[s] \notin Setup /\ at[s] # "accept"
  BY DEF Servers, Recv, Setup
<1>2. /\ k \in Socks \cap {fd[f] : f \in Fds} /\ k # NoSock
      /\ IInv /\ FromPeers /\ recvfrom(k)
  BY <1>1, ConnFacts DEF ServersInv, StackInv, Recv
<1>3. Quiet /\ Next /\ UNCHANGED fd
  BY <1>2, RecvQuiet, CallStep DEF AppCall, recvfrom
<1>4. data \in Payloads
  <2>1. esix_sockets[k].recv \in Seq(PeerElement) /\ esix_sockets[k].recv # <<>>
    BY <1>2 DEF FromPeers, recvfrom
  <2>2. Head(esix_sockets[k].recv) \in PeerElement
    BY <2>1, PeerQueue
  <2> QED BY <2>2 DEF PeerElement
<1>5. at' = [at EXCEPT ![s] = AfterRecv(s, data)] /\ buff' = [buff EXCEPT ![s] = b]
  BY DEF Recv, Goto, Buff, Connection
<1>6. /\ AfterRecv(s, data) \in {"echo", "close", "page"}
      /\ AfterRecv(s, data) = "echo" <=> s = "tcp"
  BY DEF AfterRecv, AfterRequest
<1> HIDE DEF data
<1>7. Continues(s, AfterRecv(s, data), b)
  BY <1>1, <1>2, <1>3, <1>4, <1>5, <1>6 DEF Continues, Labels, Setup, Recv
<1>8. StackStep
  BY <1>2, <1>3, QuietStep DEF StackStep
<1> QED BY <1>1, <1>3, <1>7, <1>8, ContinuesSteady

(* Whatever close() frees, the queues still hold what peers sent.          *)
LEMMA CloseFromPeers ==
  ASSUME IInv, FromPeers, NEW f \in Fds, close(f)
  PROVE  FromPeers'
<1> DEFINE s == fd[f]
<1>1. s \in Socks /\ esix_sockets[s] \in EsixSock
  BY SlotFacts DEF close, IInv, TypeOK
<1>2. CASE Set(s, Closed(esix_sockets[s]))
  <2>1. Closed(esix_sockets[s]).recv = <<>>
    BY <1>1 DEF Closed, esix_socket_free_queue, EsixSock
  <2>2. \A u \in Socks : esix_sockets'[u].recv \in {esix_sockets[u].recv, <<>>}
    BY <1>1, <1>2, <2>1 DEF Set, IInv, TypeOK
  <2> QED BY <2>2, PeerQueue DEF FromPeers
<1>3. CASE UNCHANGED esix_sockets
  BY <1>3 DEF FromPeers
<1> QED BY <1>2, <1>3 DEF close

(* close() ends the session; while each server has its socket to itself,   *)
(* nobody waits in the slot.                                               *)
LEMMA CloseSteady ==
  ASSUME ServersInv, NEW s \in TcpServers, s \in DOMAIN up, Close(s), UNCHANGED up
  PROVE  Steady
<1> DEFINE k == fd[Conn(s)]
<1>1. s \in Servers /\ at[s] = "close" /\ at[s] \notin Setup /\ at[s] # "accept"
  BY DEF Servers, Close, Setup
<1>2. k \in Socks /\ Conn(s) \in Fds /\ IInv /\ FromPeers
  BY <1>1, ConnFacts, FdFacts DEF ServersInv, StackInv
<1>3. close(Conn(s)) /\ fd' = [fd EXCEPT ![Conn(s)] = NoSock]
  BY DEF Close, close
<1>4. StackStep
  BY <1>2, <1>3, CloseFromPeers DEF StackStep, Next
<1>5. ASSUME Listeners PROVE Quiet
  <2>1. ASSUME Waiting(esix_sockets[k]) PROVE FALSE
    <3>1. PICK u \in Servers : fd[Soc(u)] = k
      BY <1>2, <1>5, <2>1 DEF Listeners
    <3>2. at[u] # "socket"
      BY <1>2, <3>1, EnvAssumption DEF ServersInv, TasksTypeOK
    <3>3. Conn(s) = Soc(u)
      BY <1>2, <1>5, <3>1, <3>2 DEF Listeners, SetUp
    <3> QED BY <1>1, <3>3, FdFacts
  <2> QED BY <1>2, <1>3, <2>1, CloseQuiet DEF Open
<1>6. \A f \in Fds : fd'[f] = IF f = Conn(s) THEN NoSock ELSE fd[f]
  BY <1>2, <1>3 DEF IInv, TypeOK
<1>7. buff[s] = Nothing /\ buff' = [buff EXCEPT ![s] = Nothing]
  BY <1>1 DEF ServersInv, ServersTypeOK, TasksTypeOK, Close
<1>8. Continues(s, "accept", Nothing)
  BY <1>1, <1>2, <1>6, <1>7 DEF Continues, Labels, Setup, Close, Goto
<1> QED BY <1>1, <1>4, <1>5, <1>6, <1>8, ContinuesSteady

(* The echo of the tcp server, and what its commands lead to.              *)
LEMMA EchoSteady ==
  ASSUME ServersInv, "tcp" \in DOMAIN up, Echo, UNCHANGED up
  PROVE  Steady
<1> DEFINE s == "tcp"
<1>1. s \in TcpServers /\ s \in Servers /\ at[s] = "echo" /\ at[s] \notin Setup /\ at[s] # "accept"
  BY DEF TcpServers, Servers, Echo, Setup
<1>2. buff[s] \in Payloads
  BY <1>1 DEF ServersInv, TasksTypeOK
<1>3. StackStep /\ Quiet /\ UNCHANGED fd
  BY <1>1, <1>2, SaySteady DEF Echo
<1>4. PICK next \in {"close", "status", "prompt"} : at' = [at EXCEPT ![s] = next]
  BY DEF Echo, Goto
<1>5. buff' = [buff EXCEPT ![s] = Nothing]
  BY DEF Echo, Buff
<1>6. fd[Conn(s)] # NoSock
  BY <1>1, ConnFacts
<1>7. Continues(s, next, Nothing)
  BY <1>1, <1>3, <1>4, <1>5, <1>6 DEF Continues, Labels, Setup, Echo
<1> QED BY <1>1, <1>3, <1>7, ContinuesSteady

(* chargen sends until there is no connection.                             *)
LEMMA GenerateSteady ==
  ASSUME ServersInv, "chargen" \in DOMAIN up, Generate, UNCHANGED up
  PROVE  Steady
<1> DEFINE s == "chargen"
<1>1. s \in TcpServers /\ s \in Servers /\ at[s] = "generate" /\ at[s] \notin Setup /\ at[s] # "accept"
  BY DEF TcpServers, Servers, Generate, Setup
<1>2. StackStep /\ Quiet /\ UNCHANGED fd
  BY <1>1, SaySteady, TextType DEF Generate, Say
<1>3. PICK next \in {"generate", "close"} : at' = [at EXCEPT ![s] = next]
  <2>1. at = [at EXCEPT ![s] = at[s]]
    BY DEF ServersInv, TasksTypeOK
  <2> QED BY <1>1, <2>1 DEF Generate, Goto
<1>4. buff' = [buff EXCEPT ![s] = Nothing]
  BY <1>1 DEF ServersInv, ServersTypeOK, TasksTypeOK, Generate
<1>5. fd[Conn(s)] # NoSock
  BY <1>1, ConnFacts
<1>6. Continues(s, next, Nothing)
  BY <1>1, <1>2, <1>3, <1>4, <1>5 DEF Continues, Labels, Setup, Generate
<1> QED BY <1>1, <1>2, <1>6, ContinuesSteady

(* A UDP server takes a datagram and keeps it if it is of interest.        *)
LEMMA ReceiveSteady ==
  ASSUME ServersInv, NEW s \in UdpServers, s \in DOMAIN up, Receive(s), UNCHANGED up
  PROVE  Steady
<1> DEFINE k == fd[Soc(s)]
           e == Head(esix_sockets[k].recv)
<1>1. s \in Servers /\ s \notin TcpServers /\ at[s] = "recvfrom"
  BY DEF Servers, TcpServers, UdpServers, Receive
<1>2. k \in Socks \cap {fd[f] : f \in Fds} /\ IInv /\ FromPeers /\ recvfrom(k)
  BY <1>1, SocFacts DEF ServersInv, StackInv, Receive
<1>3. Quiet /\ Next /\ UNCHANGED fd
  BY <1>2, RecvQuiet, CallStep DEF AppCall, recvfrom
<1>4. e \in PeerElement
  <2>1. esix_sockets[k].recv \in Seq(PeerElement) /\ esix_sockets[k].recv # <<>>
    BY <1>2 DEF FromPeers, recvfrom
  <2> QED BY <2>1, PeerQueue
<1>5. StackStep
  BY <1>2, <1>3, QuietStep DEF StackStep
<1> HIDE DEF e
<1>6. CASE Goto(s, "reply") /\ Buff(s, e)
  <2>1. Continues(s, "reply", e)
    BY <1>1, <1>3, <1>4, <1>6 DEF Continues, Labels, Setup, Receive, Goto, Buff
  <2> QED BY <1>1, <1>3, <1>5, <2>1, ContinuesSteady
<1>7. CASE UNCHANGED <<at, buff>>
  <2>1. Next /\ UNCHANGED <<up, at, buff, usurped, fd>>
    BY <1>3, <1>7 DEF Receive
  <2> QED BY <1>3, <2>1, NetworkSteady
<1> QED BY <1>6, <1>7 DEF Receive, e

(* It answers the peer, or the group.                                      *)
LEMMA AnswersSteady ==
  ASSUME ServersInv, NEW s \in UdpServers, s \in DOMAIN up,
         NEW addr, NEW port, NEW data \in Payloads, Destination(addr, port),
         Answers(s, addr, port, data), UNCHANGED up
  PROVE  Steady
<1> DEFINE k == fd[Soc(s)]
<1>1. s \in Servers /\ s \notin TcpServers /\ at[s] = "reply"
  BY DEF Servers, TcpServers, UdpServers, Answers
<1>2. k \in Socks \cap {fd[f] : f \in Fds} /\ FromPeers
  BY <1>1, SocFacts DEF ServersInv, StackInv
<1>3. StackStep /\ Quiet /\ UNCHANGED fd
  <2>1. CASE sendto(k, addr, port, data)
    <3>1. Next
      BY <1>2, <2>1, CallStep DEF AppCall, Destination
    <3>2. Quiet /\ UNCHANGED fd
      BY <2>1, QuietIdle DEF sendto
    <3> QED BY <1>2, <3>1, <3>2, QuietStep DEF StackStep
  <2>2. CASE NoCall
    BY <1>2, <2>2, IdleStep DEF NoCall, vars
  <2> QED BY <2>1, <2>2 DEF Answers
<1>4. Continues(s, "recvfrom", Nothing)
  BY <1>1, <1>3 DEF Continues, Labels, Setup, Answers, Goto, Buff
<1> QED BY <1>1, <1>3, <1>4, ContinuesSteady

(* Who the answers go to: the sender of what is answered, or the group.    *)
LEMMA AnswerTo ==
  ASSUME ServersInv
  PROVE  /\ \A s \in UdpServers : at[s] = "reply" =>
              /\ Destination(buff[s].from, buff[s].fport)
              /\ buff[s].data \in Payloads
         /\ Destination(MdnsGroup, Port["mdns"])
<1>1. Destination(MdnsGroup, Port["mdns"])
  BY ServersAssumption DEF Destination, Servers, UdpServers
<1>2. ASSUME NEW s \in UdpServers, at[s] = "reply"
      PROVE  buff[s] \in PeerElement
  BY <1>2 DEF ServersInv, TasksTypeOK, Servers
<1> QED BY <1>1, <1>2 DEF PeerElement, Destination

-----------------------------------------------------------------------------
(* What every step of the servers has to do.                               *)
Advances ==
  /\ StackStep /\ TasksTypeOK' /\ ServersTypeOK'
  /\ ~usurped' => ~usurped /\ Listeners' /\ ~ListenerClosed

(* A waiting socket is open, and some server's.                            *)
LEMMA ListenerOpen ==
  ASSUME ServersInv, Listeners, NEW u \in Socks, Waiting(esix_sockets[u])
  PROVE  Open(esix_sockets[u]) /\ \E s \in Servers : at[s] # "socket" /\ fd[Soc(s)] = u
<1>1. PICK s \in Servers : fd[Soc(s)] = u
  BY DEF Listeners
<1>2. at[s] # "socket"
  BY <1>1, EnvAssumption DEF ServersInv, TasksTypeOK
<1> QED BY <1>1, <1>2 DEF Listeners, SetUp, Open

(* A quiet step aside leaves every listening socket to its server.         *)
LEMMA SteadyAdvances ==
  ASSUME ServersInv, Steady
  PROVE  Advances
<1>0. StackStep /\ TasksTypeOK' /\ ServersTypeOK' /\ (~usurped' => ~usurped)
  BY DEF Steady
<1> SUFFICES ASSUME Listeners, Aside PROVE Listeners' /\ ~ListenerClosed
  BY <1>0 DEF Advances, Steady, ServersInv
<1>1. ASSUME NEW s \in Servers, at'[s] # "socket"
      PROVE  /\ at[s] # "socket" /\ fd'[Soc(s)] = fd[Soc(s)] /\ fd[Soc(s)] \in Socks
             /\ SetUp(s)
             /\ \/ at'[s] = at[s]
                \/ at[s] \notin Setup /\ at'[s] \notin Setup
  <2>1. at[s] # "socket" /\ fd'[Soc(s)] = fd[Soc(s)]
    BY <1>1 DEF Aside, Setup
  <2> QED BY <2>1, SocFacts DEF Aside, Listeners
<1>2. ASSUME NEW s \in Servers, at'[s] # "socket"
      PROVE  SetUp(s)'
  <2> DEFINE c == fd[Soc(s)]
             k == esix_sockets[c]
             j == esix_sockets'[c]
  <2>1. /\ c \in Socks /\ fd'[Soc(s)] = c
        /\ k.proto = Type(s) /\ k.raddr = in6addr_any
        /\ k.state = IF at[s] \in {"bind", "listen"} THEN "RESERVED" ELSE "LISTEN"
        /\ at[s] # "bind" => k.lport = Port[s]
        /\ ~Queued(c)
        /\ \A f \in Fds : fd[f] = c => f = Soc(s)
    BY <1>1, <1>2 DEF SetUp
  <2>2. /\ j.proto = k.proto /\ j.state = k.state
        /\ j.raddr = k.raddr /\ j.lport = k.lport
    BY <2>1 DEF Aside, Quiet, Settled, Open, Waiting
  <2>3. ~Queued(c)'
    BY <2>1 DEF Aside, Quiet
  <2>4. \A f \in Fds : fd'[f] = c => f = Soc(s)
    BY <2>1, EnvAssumption DEF Aside
  <2>5. /\ j.state = IF at'[s] \in {"bind", "listen"} THEN "RESERVED" ELSE "LISTEN"
        /\ at'[s] # "bind" => j.lport = Port[s]
    BY <1>1, <1>2, <2>1, <2>2 DEF Setup
  <2> HIDE DEF c, k, j
  <2>6. SetUp(s)' <=>
          /\ esix_sockets'[fd'[Soc(s)]].proto = Type(s)
          /\ esix_sockets'[fd'[Soc(s)]].raddr = in6addr_any
          /\ esix_sockets'[fd'[Soc(s)]].state
               = IF at'[s] \in {"bind", "listen"} THEN "RESERVED" ELSE "LISTEN"
          /\ at'[s] # "bind" => esix_sockets'[fd'[Soc(s)]].lport = Port[s]
          /\ ~Queued(fd[Soc(s)])'
          /\ \A f \in Fds : fd'[f] = fd'[Soc(s)] => f = Soc(s)
    BY DEF SetUp
  <2> QED BY <2>1, <2>2, <2>3, <2>4, <2>5, <2>6 DEF c, k, j
<1>3. ASSUME NEW u \in Socks, Waiting(esix_sockets'[u])
      PROVE  \E s \in Servers : fd'[Soc(s)] = u
  <2>1. Waiting(esix_sockets[u])
    BY <1>3 DEF Aside, Quiet, Settled
  <2> QED BY <2>1, ListenerOpen DEF Aside
<1>4. ~ListenerClosed
  <2> SUFFICES ASSUME NEW u \in Socks, esix_sockets[u].state = "LISTEN"
               PROVE  esix_sockets'[u].state = "LISTEN"
    BY DEF ListenerClosed
  <2>1. Open(esix_sockets[u])
    BY ListenerOpen DEF Waiting
  <2> QED BY <2>1 DEF Aside, Quiet, Settled
<1> QED BY <1>2, <1>3, <1>4 DEF Listeners

(* Setting up keeps the types: the server has its socket, and no session.  *)
LEMMA SetsUpType ==
  ASSUME ServersInv, NEW s \in Servers, s \in DOMAIN up, at[s] \in Setup,
         NEW label \in {"bind", "listen", "accept", "recvfrom"},
         s \in TcpServers => label # "recvfrom",
         at' = [at EXCEPT ![s] = label], UNCHANGED <<up, buff>>, usurped' \in BOOLEAN,
         \A f \in Fds : f # Soc(s) => fd'[f] = fd[f], fd'[Soc(s)] # NoSock
  PROVE  TasksTypeOK' /\ ServersTypeOK'
<1>1. /\ at \in [Servers -> Labels] /\ up \in Demos
      /\ buff \in [Servers -> {Nothing} \cup Payloads \cup PeerElement]
  BY DEF ServersInv, TasksTypeOK
<1>2. /\ at'[s] = label /\ \A u \in Servers : u # s => at'[u] = at[u]
      /\ at' \in [Servers -> Labels]
  BY <1>1 DEF Labels, Setup
<1>3. \A u \in Servers : u # s => fd'[Soc(u)] = fd[Soc(u)]
  BY FdFacts
<1>4. \A u \in TcpServers : fd'[Conn(u)] = fd[Conn(u)]
  BY FdFacts DEF Servers
<1>5. TasksTypeOK'
  <2>1. \A u \in Servers : fd'[Soc(u)] = NoSock <=> at'[u] = "socket"
    BY <1>2, <1>3 DEF ServersInv, TasksTypeOK
  <2>2. \A u \in Servers : /\ at'[u] = "echo" => buff'[u] \in Payloads
                           /\ at'[u] = "reply" => buff'[u] \in PeerElement
    BY <1>2 DEF ServersInv, TasksTypeOK
  <2> QED BY <1>1, <1>2, <2>1, <2>2 DEF TasksTypeOK
<1>6. ServersTypeOK'
  <2>1. \A u \in Servers \ DOMAIN up : at'[u] = "socket" /\ fd'[Soc(u)] = NoSock
    BY <1>2, <1>3 DEF ServersInv, ServersTypeOK
  <2>2. ASSUME NEW u \in TcpServers
        PROVE  fd'[Conn(u)] = NoSock <=> at'[u] \in Setup \cup {"accept"}
    <3>1. fd[Conn(u)] = NoSock <=> at[u] \in Setup \cup {"accept"}
      BY DEF ServersInv, ServersTypeOK
    <3>2. CASE u = s
      BY <1>2, <1>4, <3>1, <3>2 DEF Setup
    <3>3. CASE u # s
      BY <1>2, <1>4, <3>1, <3>3 DEF Servers
    <3> QED BY <3>2, <3>3
  <2>3. ASSUME NEW u \in Servers
        PROVE  buff'[u] = Nothing <=> at'[u] \notin {"echo", "reply"}
    <3>1. buff[u] = Nothing <=> at[u] \notin {"echo", "reply"}
      BY DEF ServersInv, ServersTypeOK
    <3> QED BY <1>2, <3>1 DEF Setup
  <2> QED BY <2>1, <2>2, <2>3 DEF ServersTypeOK
<1> QED BY <1>5, <1>6

(* Setting up changes one record, of a server's own socket.                *)
LEMMA SetsUpListeners ==
  ASSUME ServersInv, Listeners, NEW s \in Servers, NEW k \in Socks, fd'[Soc(s)] = k,
         fd[Soc(s)] \in {k, NoSock},
         \A f \in Fds : f # Soc(s) => fd'[f] = fd[f] /\ fd[f] # k,
         \A u \in Servers : u # s => at'[u] = at[u],
         \A u \in Socks : u # k => esix_sockets'[u] = esix_sockets[u],
         \A u \in Socks : Queued(u)' => Queued(u),
         ~Queued(k),
         LET j == esix_sockets'[k] IN
         /\ j.proto = Type(s) /\ j.raddr = in6addr_any
         /\ j.state = IF at'[s] \in {"bind", "listen"} THEN "RESERVED" ELSE "LISTEN"
         /\ at'[s] # "bind" => j.lport = Port[s]
         /\ esix_sockets[k].state = "LISTEN" => j.state # "CLOSED"
  PROVE  Listeners' /\ ~ListenerClosed
<1>1. SetUp(s)'
  BY DEF SetUp
<1>2. ASSUME NEW u \in Servers, u # s, at'[u] # "socket"
      PROVE  SetUp(u)'
  <2>1. /\ SetUp(u) /\ fd[Soc(u)] \in Socks
        /\ fd'[Soc(u)] = fd[Soc(u)] /\ fd[Soc(u)] # k
        /\ Soc(u) # Soc(s)
    BY <1>2, SocFacts, FdFacts DEF Listeners
  <2>2. esix_sockets'[fd[Soc(u)]] = esix_sockets[fd[Soc(u)]] /\ ~Queued(fd[Soc(u)])'
    BY <2>1 DEF SetUp
  <2>3. \A f \in Fds : fd'[f] = fd[Soc(u)] => f = Soc(u)
    BY <2>1 DEF SetUp
  <2> QED BY <1>2, <2>1, <2>2, <2>3 DEF SetUp
<1>3. ASSUME NEW u \in Socks, Waiting(esix_sockets'[u])
      PROVE  \E v \in Servers : fd'[Soc(v)] = u
  <2>1. CASE u = k
    BY <2>1
  <2>2. CASE u # k
    <3>1. PICK v \in Servers : fd[Soc(v)] = u /\ at[v] # "socket"
      BY <1>3, <2>2, ListenerOpen
    <3>2. CASE v = s
      BY <2>2, <3>1, <3>2, EnvAssumption
    <3>3. CASE v # s
      BY <3>1, <3>3, FdFacts
    <3> QED BY <3>2, <3>3
  <2> QED BY <2>1, <2>2
<1> QED BY <1>1, <1>2, <1>3 DEF Listeners, ListenerClosed

(* socket() takes a slot; while no server is usurped, one nobody names.    *)
LEMMA SocketAdvances ==
  ASSUME ServersInv, NEW s \in Servers, s \in DOMAIN up, Socket(s), UNCHANGED up
  PROVE  Advances
<1>1. /\ at[s] = "socket" /\ fd[Soc(s)] = NoSock /\ Soc(s) \in Fds
      /\ IInv /\ FromPeers /\ Type(s) \in {SOCK_STREAM, SOCK_DGRAM}
      /\ at \in [Servers -> Labels] /\ usurped \in BOOLEAN
  BY FdFacts DEF Socket, ServersInv, StackInv, TasksTypeOK, Type
<1>2. PICK p \in NextPort, k \in FreeSlot :
        Set(k, Reserved(Type(s), p)) /\ fd' = [fd EXCEPT ![Soc(s)] = k]
  BY DEF Socket, socket
<1>3. k \in Socks /\ esix_sockets[k].state = "CLOSED"
  BY DEF FreeSlot, Lowest
<1> DEFINE j == Reserved(Type(s), p)
<1>4. /\ j.proto = Type(s) /\ j.raddr = in6addr_any /\ j.state = "RESERVED"
      /\ j.child = <<>> /\ j.recv = <<>>
  BY NoElements DEF Reserved, Blank
<1>5. esix_sockets'[k] = j /\ \A u \in Socks : u # k => esix_sockets'[u] = esix_sockets[u]
  BY <1>1, <1>2, <1>3 DEF Set, IInv, TypeOK
<1>6. fd'[Soc(s)] = k /\ \A f \in Fds : f # Soc(s) => fd'[f] = fd[f]
  BY <1>1, <1>2 DEF IInv, TypeOK
<1> HIDE DEF j
<1>7. FromPeers'
  <2>1. \A u \in Socks : esix_sockets'[u].recv \in {esix_sockets[u].recv, <<>>}
    BY <1>3, <1>4, <1>5
  <2> QED BY <1>1, <2>1, PeerQueue DEF FromPeers
<1>8. Next
  BY <1>1 DEF Next, Socket
<1>9. usurped' = (usurped \/ \E c \in FreeSlot : Queued(c) \/ \E f \in Fds : fd[f] = c)
  BY DEF Socket
<1>10. usurped' \in BOOLEAN /\ at' = [at EXCEPT ![s] = "bind"] /\ buff' = buff
  BY <1>1, <1>9 DEF Socket, Goto
<1>11. TasksTypeOK' /\ ServersTypeOK'
  BY <1>1, <1>3, <1>6, <1>10, SetsUpType, EnvAssumption DEF Setup
<1>12. ASSUME ~usurped'
       PROVE  ~usurped /\ Listeners' /\ ~ListenerClosed
  <2>1. ~usurped /\ Listeners
    BY <1>9, <1>12 DEF ServersInv
  <2>2. ~Queued(k) /\ \A f \in Fds : fd[f] # k
    BY <1>2, <1>9, <1>12
  <2>3. at'[s] = "bind" /\ \A u \in Servers : u # s => at'[u] = at[u]
    BY <1>1, <1>10
  <2>4. ASSUME NEW u \in Socks, Queued(u)' PROVE Queued(u)
    <3>1. PICK l \in Socks : \E i \in DOMAIN esix_sockets'[l].child :
                               esix_sockets'[l].child[i] = u
      BY <2>4 DEF Queued
    <3>2. CASE l = k
      <4>1. DOMAIN esix_sockets'[l].child = {}
        BY <1>4, <1>5, <3>2
      <4> QED BY <3>1, <4>1
    <3>3. CASE l # k
      BY <1>5, <3>1, <3>3 DEF Queued
    <3> QED BY <3>2, <3>3
  <2>5. Listeners' /\ ~ListenerClosed
    BY <1>1, <1>3, <1>4, <1>5, <1>6, <2>1, <2>2, <2>3, <2>4, SetsUpListeners
  <2> QED BY <2>1, <2>5
<1> QED BY <1>7, <1>8, <1>11, <1>12 DEF Advances, StackStep

(* bind() and listen() on the socket of a server: its record gets the port *)
(* or the state, and nothing else.                                         *)
LEMMA OwnRecord ==
  ASSUME ServersInv, Listeners, NEW s \in Servers, s \in DOMAIN up, at[s] \in {"bind", "listen"},
         NEW j, j.child = esix_sockets[fd[Soc(s)]].child, j.proto = esix_sockets[fd[Soc(s)]].proto,
         j.raddr = esix_sockets[fd[Soc(s)]].raddr,
         esix_sockets' = [esix_sockets EXCEPT ![fd[Soc(s)]] = j], UNCHANGED fd,
         NEW label \in Labels, at' = [at EXCEPT ![s] = label],
         label # "bind" /\ j.lport = Port[s],
         j.state = IF label = "listen" THEN "RESERVED" ELSE "LISTEN"
  PROVE  Listeners' /\ ~ListenerClosed
<1> DEFINE k == fd[Soc(s)]
<1>1. /\ k \in Socks /\ at[s] # "socket" /\ SetUp(s)
      /\ at \in [Servers -> Labels] /\ esix_sockets \in [Socks -> EsixSock]
  BY SocFacts DEF Listeners, ServersInv, StackInv, IInv, TypeOK, TasksTypeOK
<1>2. esix_sockets'[k] = j /\ \A u \in Socks : u # k => esix_sockets'[u] = esix_sockets[u]
  BY <1>1
<1>3. at'[s] = label /\ \A u \in Servers : u # s => at'[u] = at[u]
  BY <1>1
<1>4. \A f \in Fds : f # Soc(s) => fd'[f] = fd[f] /\ fd[f] # k
  BY <1>1 DEF SetUp
<1>5. \A u \in Socks : esix_sockets'[u].child = esix_sockets[u].child
  BY <1>2
<1>6. \A u \in Socks : Queued(u)' => Queued(u)
  BY <1>5 DEF Queued
<1>7. /\ ~Queued(k) /\ j.proto = Type(s) /\ j.raddr = in6addr_any
      /\ esix_sockets[k].state = "RESERVED"
  BY <1>1 DEF SetUp
<1> QED BY <1>1, <1>2, <1>3, <1>4, <1>6, <1>7, SetsUpListeners

(* bind() gives the socket its port, or is refused.                        *)
LEMMA BindAdvances ==
  ASSUME ServersInv, NEW s \in Servers, s \in DOMAIN up, Bind(s), UNCHANGED up
  PROVE  Advances
<1> DEFINE k == fd[Soc(s)]
           h == esix_sockets[k]
<1>1. /\ at[s] = "bind" /\ at[s] # "socket" /\ at' = [at EXCEPT ![s] = "listen"]
      /\ UNCHANGED buff /\ usurped \in BOOLEAN /\ IInv /\ FromPeers
  BY DEF Bind, Goto, ServersInv, TasksTypeOK, StackInv
<1>2. k \in Socks \cap {fd[f] : f \in Fds} /\ k # NoSock /\ h \in EsixSock
  BY <1>1, SocFacts, SlotFacts
<1>3. CASE bind(k, in6addr_any, Port[s]) /\ UNCHANGED usurped
  <2> DEFINE j == [h EXCEPT !.lport = Port[s], !.laddr = in6addr_any]
  <2>1. Set(k, j) /\ UNCHANGED fd
    BY <1>3 DEF bind
  <2>2. /\ j.lport = Port[s] /\ j.child = h.child /\ j.proto = h.proto
        /\ j.raddr = h.raddr /\ j.state = h.state /\ j.recv = h.recv
    BY <1>2 DEF EsixSock
  <2> HIDE DEF j
  <2>3. Next
    <3>1. Port[s] \in BindPorts
      BY ServersAssumption
    <3>2. AppCall(k)
      BY <1>3, <3>1 DEF AppCall
    <3> QED BY <1>2, <3>2, CallStep
  <2>4. FromPeers'
    <3>1. \A u \in Socks : esix_sockets'[u].recv = esix_sockets[u].recv
      BY <1>1, <1>2, <2>1, <2>2 DEF Set, IInv, TypeOK
    <3> QED BY <1>1, <3>1 DEF FromPeers
  <2>5. TasksTypeOK' /\ ServersTypeOK'
    BY <1>1, <1>2, <1>3, <2>1, SetsUpType DEF Setup
  <2>6. ASSUME ~usurped' PROVE ~usurped /\ Listeners' /\ ~ListenerClosed
    <3>1. ~usurped /\ Listeners
      BY <1>3, <2>6 DEF ServersInv
    <3>2. h.state = "RESERVED"
      BY <1>1, <3>1 DEF Listeners, SetUp
    <3>3. "listen" \in Labels
      BY DEF Labels, Setup
    <3>4. Listeners' /\ ~ListenerClosed
      BY <1>1, <2>1, <2>2, <3>1, <3>2, <3>3, OwnRecord DEF Set
    <3> QED BY <3>1, <3>4
  <2> QED BY <2>3, <2>4, <2>5, <2>6 DEF Advances, StackStep
<1>4. CASE NoCall /\ usurped' = (usurped \/ h.lport # Port[s])
  <2>1. StackStep /\ UNCHANGED <<fd, esix_sockets>>
    BY <1>1, <1>4, IdleStep DEF NoCall, vars
  <2>2. usurped' \in BOOLEAN
    BY <1>1, <1>4
  <2>3. TasksTypeOK' /\ ServersTypeOK'
    BY <1>1, <1>2, <2>1, <2>2, SetsUpType DEF Setup
  <2>4. ASSUME ~usurped' PROVE ~usurped /\ Listeners' /\ ~ListenerClosed
    <3>1. ~usurped /\ Listeners /\ h.lport = Port[s]
      BY <1>4, <2>4 DEF ServersInv
    <3>2. h.state = "RESERVED"
      BY <1>1, <3>1 DEF Listeners, SetUp
    <3>3. "listen" \in Labels
      BY DEF Labels, Setup
    <3>4. esix_sockets' = [esix_sockets EXCEPT ![k] = h]
      BY <2>1, <1>1 DEF IInv, TypeOK
    <3>5. Listeners' /\ ~ListenerClosed
      BY <1>1, <2>1, <3>1, <3>2, <3>3, <3>4, OwnRecord
    <3> QED BY <3>1, <3>5
  <2> QED BY <2>1, <2>3, <2>4 DEF Advances
<1> QED BY <1>3, <1>4 DEF Bind

(* listen() makes it listen.                                               *)
LEMMA ListenAdvances ==
  ASSUME ServersInv, NEW s \in Servers, s \in DOMAIN up, Listen(s), UNCHANGED up
  PROVE  Advances
<1> DEFINE k == fd[Soc(s)]
           h == esix_sockets[k]
           label == IF s \in TcpServers THEN "accept" ELSE "recvfrom"
<1>1. /\ at[s] = "listen" /\ at[s] # "socket" /\ at' = [at EXCEPT ![s] = label]
      /\ UNCHANGED <<buff, usurped>> /\ usurped \in BOOLEAN /\ IInv /\ FromPeers
  BY DEF Listen, Goto, ServersInv, TasksTypeOK, StackInv
<1>2. k \in Socks \cap {fd[f] : f \in Fds} /\ k # NoSock /\ h \in EsixSock
  BY <1>1, SocFacts, SlotFacts
<1>3. /\ label \in Labels /\ label \notin {"bind", "listen"}
      /\ label \in {"bind", "listen", "accept", "recvfrom"}
      /\ s \in TcpServers => label # "recvfrom"
  BY DEF Labels, Setup
<1>4. UNCHANGED fd
  BY DEF Listen, listen, NoCall, vars
<1> HIDE DEF label
<1>5. TasksTypeOK' /\ ServersTypeOK'
  BY <1>1, <1>2, <1>3, <1>4, SetsUpType DEF Setup
<1>6. CASE listen(k)
  <2> DEFINE j == [h EXCEPT !.state = "LISTEN"]
  <2>1. Set(k, j)
    BY <1>6 DEF listen
  <2>2. /\ j.lport = h.lport /\ j.child = h.child /\ j.proto = h.proto
        /\ j.raddr = h.raddr /\ j.state = "LISTEN" /\ j.recv = h.recv
    BY <1>2 DEF EsixSock
  <2> HIDE DEF j
  <2>3. Next
    BY <1>2, <1>6, CallStep DEF AppCall
  <2>4. FromPeers'
    <3>1. \A u \in Socks : esix_sockets'[u].recv = esix_sockets[u].recv
      BY <1>1, <1>2, <2>1, <2>2 DEF Set, IInv, TypeOK
    <3> QED BY <1>1, <3>1 DEF FromPeers
  <2>5. ASSUME ~usurped' PROVE ~usurped /\ Listeners' /\ ~ListenerClosed
    <3>1. ~usurped /\ Listeners
      BY <1>1, <2>5 DEF ServersInv
    <3>2. h.lport = Port[s]
      BY <1>1, <3>1 DEF Listeners, SetUp
    <3>3. Listeners' /\ ~ListenerClosed
      BY <1>1, <1>3, <1>4, <2>1, <2>2, <3>1, <3>2, OwnRecord DEF Set
    <3> QED BY <3>1, <3>3
  <2> QED BY <1>5, <2>3, <2>4, <2>5 DEF Advances, StackStep
<1>7. CASE h.state # "RESERVED" /\ NoCall
  <2>1. ~Listeners
    BY <1>1, <1>7 DEF Listeners, SetUp
  <2>2. usurped'
    BY <1>1, <2>1 DEF ServersInv
  <2>3. StackStep
    BY <1>1, <1>7, IdleStep
  <2> QED BY <1>5, <2>2, <2>3 DEF Advances
<1> QED BY <1>6, <1>7 DEF Listen

-----------------------------------------------------------------------------
(* A step of a task.                                                       *)
LEMMA TaskAdvances ==
  ASSUME ServersInv, NEW s \in Servers, Task(s)
  PROVE  Advances
<1>1. s \in DOMAIN up /\ UNCHANGED up
  BY DEF Task
<1>2. CASE SetsUp(s)
  BY <1>1, <1>2, SocketAdvances, BindAdvances, ListenAdvances DEF SetsUp
<1>3. "http" \in TcpServers /\ "tcp" \in TcpServers /\ "chargen" \in TcpServers
  BY DEF TcpServers
<1>4. CASE s = "http" /\ http_server_task
  BY <1>1, <1>3, <1>4, SteadyAdvances, AcceptSteady, RecvFailsSteady, RecvSteady,
     SaysSteady, CloseSteady DEF http_server_task
<1>5. CASE s = "tcp" /\ tcp_server_task
  BY <1>1, <1>3, <1>5, SteadyAdvances, AcceptSteady, RecvFailsSteady, RecvSteady,
     SaysSteady, EchoSteady, CloseSteady DEF tcp_server_task
<1>6. CASE s = "chargen" /\ tcp_chargen_task
  BY <1>1, <1>3, <1>6, SteadyAdvances, AcceptSteady, GenerateSteady,
     SaysSteady, CloseSteady DEF tcp_chargen_task
<1>7. "udp" \in UdpServers /\ "echo" \in UdpServers /\ "mdns" \in UdpServers
  BY DEF UdpServers
<1>8. ASSUME NEW u \in UdpServers, s = u, Receive(u)
      PROVE  Advances
  BY <1>1, <1>8, SteadyAdvances, ReceiveSteady
<1>9. CASE s = "udp" /\ Answers("udp", buff["udp"].from, buff["udp"].fport, text)
  <2>1. Destination(buff["udp"].from, buff["udp"].fport)
    BY <1>7, <1>9, AnswerTo DEF Answers
  <2> QED BY <1>1, <1>7, <1>9, <2>1, TextType, SteadyAdvances, AnswersSteady
<1>10. CASE s = "echo" /\ Answers("echo", buff["echo"].from, buff["echo"].fport, buff["echo"].data)
  <2>1. Destination(buff["echo"].from, buff["echo"].fport) /\ buff["echo"].data \in Payloads
    BY <1>7, <1>10, AnswerTo DEF Answers
  <2> QED BY <1>1, <1>7, <1>10, <2>1, SteadyAdvances, AnswersSteady
<1>11. CASE s = "mdns" /\ Answers("mdns", MdnsGroup, Port["mdns"], text)
  BY <1>1, <1>7, <1>11, AnswerTo, TextType, SteadyAdvances, AnswersSteady
<1> QED BY <1>2, <1>4, <1>5, <1>6, <1>7, <1>8, <1>9, <1>10, <1>11
        DEF Task, udp_server_task, udp_echo_task, mdns_server_task

(* The clock and the clients.                                              *)
LEMMA NetworkAdvances ==
  ASSUME ServersInv, main_task \/ Connects \/ Talks \/ Leaves
  PROVE  Advances
<1>0. IInv
  BY DEF ServersInv, StackInv
<1>1. CASE main_task
  <2>1. Quiet /\ Next /\ UNCHANGED <<up, at, buff, usurped, fd>>
    BY <1>0, <1>1, TickQuiet DEF main_task, Next, serverVars, esix_periodic_callback
  <2> QED BY <2>1, NetworkSteady, SteadyAdvances
<1>2. CASE Connects
  <2>1. PICK t \in TcpIn : tcp_process_SYN(t)
    BY <1>2 DEF Connects, ToServer
  <2>2. Quiet /\ Next /\ UNCHANGED <<up, at, buff, usurped, fd>>
    BY <1>0, <1>2, <2>1, SynQuiet DEF Connects, Next, TcpProcess, tcp_process_SYN
  <2> QED BY <2>2, NetworkSteady, SteadyAdvances
<1>3. ASSUME NEW t \in TcpIn, tcp_process_ACK(t) \/ tcp_process_FIN(t) \/ tcp_process_RST(t),
             UNCHANGED <<up, serverVars>>
      PROVE  Advances
  <2>1. Quiet /\ Next /\ UNCHANGED <<up, at, buff, usurped, fd>>
    BY <1>0, <1>3, AckFinQuiet, RstQuiet
       DEF Next, TcpProcess, tcp_process_ACK, tcp_process_FIN, tcp_process_RST, serverVars
  <2> QED BY <2>1, NetworkSteady, SteadyAdvances
<1>4. ASSUME NEW d \in UdpIn, udp_process_queue(d) \/ udp_process_unreachable(d),
             UNCHANGED <<up, serverVars>>
      PROVE  Advances
  <2>1. Quiet /\ Next /\ UNCHANGED <<up, at, buff, usurped, fd>>
    BY <1>0, <1>4, UdpQuiet
       DEF Next, UdpProcess, udp_process_queue, udp_process_unreachable, serverVars
  <2> QED BY <2>1, NetworkSteady, SteadyAdvances
<1> QED BY <1>1, <1>2, <1>3, <1>4 DEF Talks, Leaves, ToServer

(* Every step keeps the invariant.                                         *)
LEMMA ServersStep ==
  ASSUME ServersInv, [ServersNext]_allVars
  PROVE  ServersInv' /\ [Next]_vars
<1>1. CASE UNCHANGED allVars
  <2>1. UNCHANGED <<vars, up, at, buff, usurped>>
    BY <1>1 DEF allVars, serverVars
  <2> QED BY <2>1 DEF vars, ServersInv, StackInv, IInv, TypeOK, RecordsOK, PortsDistinct,
          FromPeers, TasksTypeOK, ServersTypeOK, Listeners, SetUp, Queued, NoneAbandoned, Abandoned
<1>2. CASE ServersNext
  <2>1. Advances
    BY <1>2, TaskAdvances, NetworkAdvances DEF ServersNext
  <2>2. IInv' /\ PortsDistinct' /\ OnlyWithListener
    BY <2>1, StepInv, StepKeeps DEF Advances, StackStep, ServersInv, StackInv
  <2>3. ASSUME ~usurped' PROVE Listeners' /\ NoneAbandoned'
    BY <2>1, <2>2, <2>3 DEF Advances, ServersInv, NoneAbandoned, OnlyWithListener
  <2> QED BY <2>1, <2>2, <2>3 DEF Advances, StackStep, ServersInv, StackInv
<1> QED BY <1>1, <1>2

(* It holds at first: nobody has a socket.                                 *)
LEMMA ServersStart == ServersInit => ServersInv
<1> SUFFICES ASSUME ServersInit PROVE ServersInv
  OBVIOUS
<1>1. IInv
  BY InitInv DEF ServersInit
<1>2. PortsDistinct
  BY DEF ServersInit, Init, PortsDistinct, OwnsPort, Blank, SOCK_DGRAM
<1>3. /\ \A u \in Socks : esix_sockets[u] = Blank
      /\ \A f \in Fds : fd[f] = NoSock
      /\ Blank.recv = <<>> /\ Blank.state = "CLOSED"
  BY DEF ServersInit, Init, Blank
<1>4. FromPeers
  BY <1>3, PeerQueue DEF FromPeers
<1>5. \A s \in Servers : at[s] = "socket" /\ buff[s] = Nothing /\ fd[Soc(s)] = NoSock
  BY <1>3, FdFacts DEF ServersInit
<1>6. TasksTypeOK
  BY <1>5 DEF TasksTypeOK, ServersInit, Labels, Setup
<1>7. ServersTypeOK
  BY <1>3, <1>5, FdFacts DEF ServersTypeOK, Setup, Servers
<1>8. Listeners /\ NoneAbandoned
  BY <1>3, <1>5 DEF Listeners, Waiting, NoneAbandoned, Abandoned
<1> QED BY <1>1, <1>2, <1>4, <1>6, <1>7, <1>8 DEF ServersInv, StackInv

(* The inductive invariant holds throughout.                               *)
LEMMA ServersInvariance == ServersSpec => []ServersInv
BY ServersStart, ServersStep, PTL DEF ServersSpec

-----------------------------------------------------------------------------
(* The theorems.                                                           *)

(* Whatever the tasks of the demo and their clients do is a behaviour of   *)
(* the socket layer: the calls are made with sockets the tasks hold, and   *)
(* answers go to addresses and ports that EsixSocket allows, so all that   *)
(* is proved of it holds in the demo.                                      *)
THEOREM ServersUseTheStack == ServersSpec => Spec
<1>1. ServersInit => Init
  BY DEF ServersInit
<1>2. ServersInv /\ [ServersNext]_allVars => [Next]_vars
  BY ServersStep
<1> QED BY <1>1, <1>2, ServersInvariance, PTL DEF ServersSpec, Spec

(* A server that has set up keeps its listening socket, on its own port,   *)
(* whatever clients do and however sessions end, unless it or another was  *)
(* given a slot that is still named, or was refused its port.              *)
THEOREM ServersKeepListening == ServersSpec => []ServersListen
<1>1. ASSUME ServersInv PROVE ServersListen
  <2>1. ASSUME ~usurped, NEW s \in DOMAIN up, at[s] \notin Setup
        PROVE  LET k == esix_sockets[fd[Soc(s)]] IN
               k.proto = Type(s) /\ k.state = "LISTEN" /\ k.lport = Port[s]
    <3>1. s \in Servers
      BY <1>1, ServersAssumption DEF ServersInv, TasksTypeOK
    <3> QED BY <1>1, <2>1, <3>1 DEF ServersInv, Listeners, SetUp, Setup
  <2> QED BY <1>1, <2>1 DEF ServersListen, ServersInv
<1> QED BY <1>1, ServersInvariance, PTL

(* No session is ever out of reach: a task has it or will accept it.       *)
THEOREM NoSessionForgotten == ServersSpec => []SessionsHeld
<1>1. ServersInv => SessionsHeld
  BY DEF ServersInv, SessionsHeld, NoneAbandoned
<1> QED BY <1>1, ServersInvariance, PTL

=============================================================================
