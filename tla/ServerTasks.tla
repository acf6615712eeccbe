---------------------------- MODULE ServerTasks -----------------------------
(***************************************************************************)
(* The server tasks of the demo (main.c, mdns.c) as applications of        *)
(* EsixSocket, with main_task, which drives the clock of the stack: the    *)
(* calls of the socket API are those the tasks make, in their order.       *)
(*                                                                         *)
(* A step is one call of a task, one packet from the network or one tick.  *)
(* The tasks have one priority and are preempted, so their steps come in   *)
(* any order; vTaskDelay is a point where a task may rest as long as it    *)
(* likes.  A call that finds nothing and is tried again is not a step, and *)
(* the LED is left out: no call depends on it.                             *)
(***************************************************************************)
EXTENDS EsixSocket

CONSTANTS
  Demos,        \* the servers that may be up together, with their clients
  exit,         \* payloads: one that the server ends the session for,
  text,         \*   any other, and all that servers say of themselves
  MdnsGroup,    \* ff02::fb, to which mDNS answers go
  MaxSyns       \* bound: how many times clients connect

TcpServers == {"http", "tcp", "chargen"}
UdpServers == {"udp", "echo", "mdns"}
Servers == TcpServers \cup UdpServers
Type(s) == IF s \in TcpServers THEN SOCK_STREAM ELSE SOCK_DGRAM
Port == [http |-> 80, tcp |-> 2010, chargen |-> 19, udp |-> 2009, echo |-> 7, mdns |-> 5353]

Soc(s) == <<s, "soc">>
Conn(s) == <<s, "conn">>

ASSUME ServersAssumption ==
  /\ \A demo \in Demos :
       DOMAIN demo \subseteq Servers /\ \A s \in DOMAIN demo : demo[s] \subseteq PeerPorts
  /\ Fds = {Soc(s) : s \in Servers} \cup {Conn(s) : s \in TcpServers}
  /\ {exit, text} = Payloads /\ exit # text
  /\ MdnsGroup \in Groups
  /\ {Port[s] : s \in Servers} \subseteq BindPorts
  /\ MaxSyns \in Nat

VARIABLES
  up,       \* the servers that run, and the ports of the clients of each
  at,       \* what each does next
  buff,     \* what it has received and not yet answered
  syns,     \* how many connections have been asked for
  usurped   \* ghost: a server got a slot that another still names, or
            \*   did not get its port

serverVars == <<at, buff, syns, usurped>>
allVars == <<vars, up, serverVars>>

Nothing == <<>>
Setup == {"socket", "bind", "listen"}

ServersInit ==
  /\ Init
  /\ up \in Demos
  /\ at = [s \in Servers |-> "socket"]
  /\ buff = [s \in Servers |-> Nothing]
  /\ syns = 0 /\ usurped = FALSE

Goto(s, label) == at' = [at EXCEPT ![s] = label]
Buff(s, data) == buff' = [buff EXCEPT ![s] = data]
NoCall == UNCHANGED vars

-----------------------------------------------------------------------------
(* Setting up.  Results are only looked at to print a message.  A server   *)
(* that gets no socket goes on with -1, outside the table and the model.   *)

Socket(s) ==
  /\ at[s] = "socket" /\ FreeSlot # {}
  /\ socket(Soc(s), Type(s))
  /\ usurped' = (usurped \/ \E k \in FreeSlot : Queued(k) \/ \E f \in Fds : fd[f] = k)
  /\ Goto(s, "bind")
  /\ UNCHANGED <<buff, syns>>

Bind(s) ==
  /\ at[s] = "bind"
  /\ \/ bind(fd[Soc(s)], in6addr_any, Port[s]) /\ UNCHANGED usurped
     \/ /\ ~PortAvailable(Port[s]) /\ NoCall
        /\ usurped' = (usurped \/ esix_sockets[fd[Soc(s)]].lport # Port[s])
  /\ Goto(s, "listen")
  /\ UNCHANGED <<buff, syns>>

Listen(s) ==
  /\ at[s] = "listen"
  /\ \/ listen(fd[Soc(s)])
     \/ esix_sockets[fd[Soc(s)]].state # "RESERVED" /\ NoCall
  /\ Goto(s, IF s \in TcpServers THEN "accept" ELSE "recvfrom")
  /\ UNCHANGED <<buff, syns, usurped>>

SetsUp(s) == Socket(s) \/ Bind(s) \/ Listen(s)

-----------------------------------------------------------------------------
(* The TCP servers.                                                        *)

Connection(s) == esix_sockets[fd[Conn(s)]]
Connected(s) == Connection(s).state = "ESTABLISHED"

Accept(s, next) ==
  /\ at[s] = "accept"
  /\ accept(fd[Soc(s)], Conn(s))
  /\ Goto(s, next)
  /\ UNCHANGED <<buff, syns, usurped>>

(* A refused send is not noticed: no connection, no room, or no memory.    *)
Say(s, data) == send_STREAM(fd[Conn(s)], data) \/ NoCall

Says(s, label, next) ==
  /\ at[s] = label
  /\ Say(s, text)
  /\ Goto(s, next)
  /\ UNCHANGED <<buff, syns, usurped>>

(* Mutant of RecvFails: that there is no connection is taken for no data.  *)
RecvFails_Ignored(s) ==
  at[s] = "recv" /\ ~Connected(s) /\ UNCHANGED allVars

RecvFails(s) ==
  /\ at[s] = "recv"
  /\ Connection(s).proto = SOCK_STREAM /\ ~Connected(s)
  /\ Goto(s, "close")
  /\ NoCall /\ UNCHANGED <<buff, syns, usurped>>

AfterRequest(data) == IF data = exit THEN "close" ELSE "page"
AfterRecv(s, data) == IF s = "tcp" THEN "echo" ELSE AfterRequest(data)

Recv(s) ==
  /\ at[s] = "recv"
  /\ recvfrom(fd[Conn(s)])
  /\ LET data == Head(Connection(s).recv).data IN
     Goto(s, AfterRecv(s, data)) /\ Buff(s, IF s = "tcp" THEN data ELSE Nothing)
  /\ UNCHANGED <<syns, usurped>>

(* Mutant of Close: it is given the listening socket.                      *)
Close_Listener(s) ==
  /\ at[s] = "close"
  /\ Set(fd[Soc(s)], Closed(esix_sockets[fd[Soc(s)]]))
  /\ fd' = [fd EXCEPT ![Conn(s)] = NoSock]
  /\ Goto(s, "accept")
  /\ UNCHANGED <<esix_last_port, current_time, wire, buff, syns, usurped>>

(* Mutant of Close: the session is left as it is.                          *)
Close_Forgotten(s) ==
  /\ at[s] = "close"
  /\ fd' = [fd EXCEPT ![Conn(s)] = NoSock]
  /\ Goto(s, "accept")
  /\ UNCHANGED <<esix_sockets, esix_last_port, current_time, wire, buff, syns, usurped>>

Close(s) ==
  /\ at[s] = "close"
  /\ close(Conn(s))
  /\ Goto(s, "accept")
  /\ UNCHANGED <<buff, syns, usurped>>

(* It answers one GET, or nothing to another request, and closes.          *)
http_server_task ==
  \/ Accept("http", "recv") \/ RecvFails("http") \/ Recv("http")
  \/ Says("http", "page", "close")
  \/ Close("http")

(* It echoes what it received, and obeys it: there is one more line to say *)
(* of toggle_led and of help.                                              *)
Echo ==
  /\ at["tcp"] = "echo"
  /\ Say("tcp", buff["tcp"])
  /\ \E next \in IF buff["tcp"] = exit THEN {"close"} ELSE {"status", "prompt"} : Goto("tcp", next)
  /\ Buff("tcp", Nothing)
  /\ UNCHANGED <<syns, usurped>>

tcp_server_task ==
  \/ Accept("tcp", "greet") \/ Says("tcp", "greet", "prompt") \/ Says("tcp", "prompt", "recv")
  \/ RecvFails("tcp") \/ Recv("tcp")
  \/ Echo \/ Says("tcp", "status", "prompt")
  \/ Close("tcp")

(* It sends until there is no connection; a segment that is refused for    *)
(* room or memory is skipped.                                              *)
Generate ==
  /\ at["chargen"] = "generate"
  /\ \/ Connected("chargen") /\ send_STREAM(fd[Conn("chargen")], text) /\ UNCHANGED at
     \/ ~Connected("chargen") /\ NoCall /\ Goto("chargen", "close")
  /\ UNCHANGED <<buff, syns, usurped>>

tcp_chargen_task ==
  \/ Accept("chargen", "greet") \/ Says("chargen", "greet", "generate") \/ Generate
  \/ Close("chargen")

-----------------------------------------------------------------------------
(* The UDP servers.                                                        *)

(* mdns is only interested in queries for the name of the node.            *)
Interests(s, data) == s = "mdns" => data = text

Receive(s) ==
  /\ at[s] = "recvfrom"
  /\ recvfrom(fd[Soc(s)])
  /\ LET e == Head(esix_sockets[fd[Soc(s)]].recv) IN
     IF Interests(s, e.data) THEN Goto(s, "reply") /\ Buff(s, e) ELSE UNCHANGED <<at, buff>>
  /\ UNCHANGED <<syns, usurped>>

Answers(s, addr, port, data) ==
  /\ at[s] = "reply"
  /\ \/ sendto(fd[Soc(s)], addr, port, data)
     \/ esix_sockets[fd[Soc(s)]].proto # SOCK_DGRAM /\ NoCall
  /\ Goto(s, "recvfrom")
  /\ Buff(s, Nothing)
  /\ UNCHANGED <<syns, usurped>>

udp_server_task == Receive("udp") \/ Answers("udp", buff["udp"].from, buff["udp"].fport, text)

udp_echo_task ==
  Receive("echo") \/ Answers("echo", buff["echo"].from, buff["echo"].fport, buff["echo"].data)

mdns_server_task == Receive("mdns") \/ Answers("mdns", MdnsGroup, Port["mdns"], text)

-----------------------------------------------------------------------------
Task(s) ==
  /\ s \in DOMAIN up
  /\ \/ SetsUp(s)
     \/ s = "http" /\ http_server_task
     \/ s = "tcp" /\ tcp_server_task
     \/ s = "chargen" /\ tcp_chargen_task
     \/ s = "udp" /\ udp_server_task
     \/ s = "echo" /\ udp_echo_task
     \/ s = "mdns" /\ mdns_server_task
  /\ UNCHANGED up

main_task == esix_periodic_callback /\ UNCHANGED <<up, serverVars>>

ToServer(packets) ==
  {t \in packets : \E s \in DOMAIN up : t.dport = Port[s] /\ t.sport \in up[s]}

Connects ==
  /\ syns < MaxSyns /\ syns' = syns + 1
  /\ \E t \in ToServer(TcpIn) : tcp_process_SYN(t)
  /\ UNCHANGED <<up, at, buff, usurped>>

Talks ==
  /\ \/ \E t \in ToServer(TcpIn) : tcp_process_ACK(t) \/ tcp_process_FIN(t)
     \/ \E d \in ToServer(UdpIn) : udp_process_queue(d) \/ udp_process_unreachable(d)
  /\ UNCHANGED <<up, serverVars>>

Leaves ==
  /\ \E t \in ToServer(TcpIn) : FindConnected(t) # {} /\ tcp_process_RST(t)
  /\ UNCHANGED <<up, serverVars>>

ServersNext == (\E s \in Servers : Task(s)) \/ main_task \/ Connects \/ Talks \/ Leaves

(* The tasks share the processor, and clients do not stay for ever: that   *)
(* one may is a weakness of the servers, not of this specification.        *)
ServersFairness == (\A s \in Servers : WF_allVars(Task(s))) /\ WF_allVars(Leaves)

ServersSpec == ServersInit /\ [][ServersNext]_allVars /\ ServersFairness

-----------------------------------------------------------------------------
(* The shape of the state.                                                 *)
ServersTypeOK ==
  /\ \A s \in Servers \ DOMAIN up : at[s] = "socket" /\ fd[Soc(s)] = NoSock
  /\ \A s \in TcpServers :
       (fd[Conn(s)] = NoSock) = (at[s] \in Setup \cup {"accept"})
  /\ \A s \in Servers : (buff[s] = Nothing) = (at[s] \notin {"echo", "reply"})

(* The servers keep listening on their ports, and where a server stands    *)
(* says what it has open.  The exceptions are a server that sets up after  *)
(* a client has come and gone and is given a slot that another task is     *)
(* still going to close (mdns does so 600 ticks after the others), and one *)
(* that is refused its port because socket() has just chosen that number   *)
(* for another.                                                            *)
ServersListen ==
  /\ ServersTypeOK
  /\ ~usurped => \A s \in DOMAIN up :
       at[s] \notin Setup =>
         LET k == esix_sockets[fd[Soc(s)]] IN
         k.proto = Type(s) /\ k.state = "LISTEN" /\ k.lport = Port[s]

(* No session is forgotten, although slots die and are taken again while   *)
(* children name them: each is one that a server has, or that it will      *)
(* accept.                                                                 *)
SessionsHeld == ~usurped => \A k \in Socks : ~Abandoned(k)

(* When no more clients connect and those there are leave, all comes to    *)
(* rest: the servers wait for new ones, no session and no child is left,   *)
(* not even those that never got beyond SYN_RECEIVED.                      *)
AtRest ==
  \A s \in DOMAIN up \cap TcpServers :
    /\ at[s] = "accept" /\ esix_sockets[fd[Soc(s)]].child = <<>>
    /\ \A k \in Socks : esix_sockets[k].lport = Port[s] => esix_sockets[k].state \in {"LISTEN", "CLOSED"}
ComesToRest == <>[](usurped \/ AtRest)

=============================================================================
