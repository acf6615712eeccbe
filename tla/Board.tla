------------------------------- MODULE Board --------------------------------
(***************************************************************************)
(* The demo's main: it sets up the serial port, the Ethernet driver and    *)
(* the stack while interrupts are still masked, and starts the scheduler;  *)
(* then the drivers' tasks, their interrupts and the applications run.     *)
(***************************************************************************)
EXTENDS Ethernet, Uart

CONSTANT Loads  \* bound: what comes, in frames, packets and characters

VARIABLES
  boot,  \* what main does next, and the packets esix_init has sent
  load   \* what is still to come

vars == <<boot, load, etherVars, uartVars>>

Started == boot.at = "started"

(* Adding the link-local address sends a solicitation to detect a          *)
(* duplicate and a report for its solicited-node group; then routers are   *)
(* solicited.                                                              *)
InitPackets == 3

Init ==
  /\ boot = [at |-> "uart_init", sent |-> 0]
  /\ load \in Loads
  /\ EtherInit /\ UartInit

Main(at, next) == boot.at = at /\ boot' = [boot EXCEPT !.at = next] /\ UNCHANGED load

MainUart == Main("uart_init", "ether_init") /\ uart_init /\ UNCHANGED etherVars
MainEther == Main("ether_init", "ether_enable") /\ ether_init /\ UNCHANGED uartVars
MainEnable == Main("ether_enable", "esix_init") /\ ether_enable /\ UNCHANGED uartVars

(* The kernel cannot block main: a send to a full queue would not return.  *)
(* A packet for which there is no memory is left out.                      *)
MainSend ==
  /\ boot.at = "esix_init" /\ boot.sent < InitPackets
  /\ \/ /\ HasRoom /\ Packets # heap
        /\ ether_send_queue' = Append(ether_send_queue, NewPacket)
        /\ heap' = heap \cup {NewPacket}
     \/ UNCHANGED <<ether_send_queue, heap>>
  /\ boot' = [boot EXCEPT !.sent = @ + 1]
  /\ UNCHANGED <<load, rxVars, app, tx, MACTR, uartVars>>

MainStart ==
  /\ boot.at = "esix_init" /\ boot.sent = InitPackets
  /\ boot' = [boot EXCEPT !.at = "started"]
  /\ UNCHANGED <<load, etherVars, uartVars>>

MainSteps == MainUart \/ MainEther \/ MainEnable \/ MainSend \/ MainStart

ReceiveTask ==
  \/ ReceiveTake \/ ReadHeader \/ ReadPayload \/ ReadDiscarded \/ Discarded
  \/ Process \/ ReceiveReply \/ ReadChecksum \/ TestEmpty \/ ReceiveGive \/ ReceiveUnmask
SendTask == SendReceive \/ SendCopy \/ SendStart \/ SendWait
UartTask == UartReceive \/ UartWrite \/ UartTake

Ether(A) == A /\ UNCHANGED <<boot, load, uartVars>>
Serial(A) == A /\ UNCHANGED <<boot, load, etherVars>>

Comes(what) == load[what] > 0 /\ load' = [load EXCEPT ![what] = @ - 1] /\ UNCHANGED boot
Frame == Comes("frames") /\ FrameArrives /\ UNCHANGED uartVars
Packet == Comes("packets") /\ AppMalloc /\ UNCHANGED uartVars
Char == Comes("chars") /\ uart_putc /\ UNCHANGED etherVars

Next ==
  \/ MainSteps
  \/ boot.at \notin {"uart_init", "ether_init", "ether_enable"} /\ Frame
  \/ boot.at # "uart_init" /\ Char
  \/ Started /\ \/ Ether(ether_handler \/ ReceiveTask \/ SendTask)
                \/ Packet \/ Ether(AppSend \/ AppFree)
                \/ Serial(uart_handler \/ UartTask)
  \/ Ether(Transmitted)
  \/ Serial(CharSent)

(* Interrupts are taken, the devices finish, and the driver tasks run:     *)
(* their priorities are above those of the applications, and they wait for *)
(* nothing else than their semaphores and queues.                          *)
Fairness ==
  /\ WF_vars(MainSteps)
  /\ WF_vars(Started /\ Ether(ether_handler))
  /\ WF_vars(Started /\ Ether(ReceiveTask))
  /\ WF_vars(Started /\ Ether(SendTask))
  /\ WF_vars(Ether(Transmitted))
  /\ WF_vars(Started /\ Serial(uart_handler))
  /\ WF_vars(Started /\ Serial(UartTask))
  /\ WF_vars(Serial(CharSent))

Spec == Init /\ [][Next]_vars /\ Fairness

-----------------------------------------------------------------------------
(* Safety.                                                                 *)

(* The shape of the state.                                                 *)
TypeOK ==
  /\ boot.sent \in 0 .. InitPackets
  /\ MACIM \in BOOLEAN /\ ether_receive_sem \in BOOLEAN /\ MACTR \in BOOLEAN
  /\ rx.at \in {"take", "header", "payload", "discard", "send", "checksum", "test", "give", "unmask"}
  /\ heap \subseteq Packets
  /\ Len(ether_send_queue) <= SendLength
  /\ uart.at \in {"receive", "write", "take"} /\ uart.c \in 0 .. accepted
  /\ Len(uart_send_queue) <= UartLength

(* What is read of a frame fits in the buffer, whatever its header says.   *)
BufferBounded ==
  rx.at = "payload" => 4 * (Len(rx.got) + rx.left) <= MAX_FRAME_SIZE

(* A frame in the FIFO is going to be read: the task is at it, it has been *)
(* told, or the interrupt is about to tell it.  In particular when the     *)
(* frame comes between the test for an empty FIFO and the unmasking.       *)
FramesNoticed ==
  Started /\ RXINT => rx.at # "take" \/ ether_receive_sem \/ MACIM

(* The task is not told of frames that it has read already: it does not    *)
(* read a header from an empty FIFO.                                       *)
NothingPhantom == rx.at = "header" /\ rx.got = <<>> => RXINT

(* The task is told of the frames there are: of each, and of no other.     *)
ToldOfFrames == FramesNoticed /\ NothingPhantom

(* As long as no discarded frame has taken words of the next with it, what *)
(* the stack is given is one whole frame of the wire that is for it, and   *)
(* the first since the last that it was given.                             *)
ForStack(n) == arrived[n].v6 /\ ~TooBig(arrived[n].len)
Given == rx.at = "payload" /\ rx.left = 0
GivenFrame(n) == ForStack(n) /\ rx.got = WordsOf(n, 1, FrameWords(arrived[n].len) - 1)

FramesWhole ==
  Given /\ inStep =>
    \E n \in DOMAIN arrived :
      n > passed /\ GivenFrame(n) /\ \A m \in (passed + 1) .. (n - 1) : ~ForStack(m)

(* A packet has one owner: an application, a reply, the send queue or the  *)
(* send task.  None is freed while it has, and none is lost.               *)
Holders ==
  [app |-> {app}, reply |-> {rx.reply}, queue |-> ToSet(ether_send_queue),
   tx |-> IF tx.at = "copy" THEN {tx.packet} ELSE {}]

PacketsOwned ==
  /\ heap = (UNION {Holders[h] : h \in DOMAIN Holders}) \ {Nothing}
  /\ \A g, h \in DOMAIN Holders : g # h => Holders[g] \cap Holders[h] \subseteq {Nothing}
  /\ Cardinality(ToSet(ether_send_queue)) = Len(ether_send_queue)

(* A character is not written while the port is still sending another.     *)
PortNotOverrun == uart.at = "write" => DR = 0

(* No buffer, queue or register is given more than it has room for.        *)
NothingOverrun == TypeOK /\ BufferBounded /\ PortNotOverrun

-----------------------------------------------------------------------------
(* Liveness.                                                               *)
MaxOf(what) == Max({l[what] : l \in Loads})

(* main gets as far as starting the scheduler: the send queue has room for *)
(* all that the stack sends before there is a task to empty it.            *)
StartsUp == <>Started

(* As long as it stays in step, the driver gives the stack every frame     *)
(* that is for it, even when the answers find the send queue full.         *)
FramesGiven ==
  []inStep => \A n \in 1 .. MaxOf("frames") :
                n \in DOMAIN arrived /\ ForStack(n) ~> passed >= n

(* A packet in the send queue is sent, and its memory given back.          *)
PacketsLeave == \A p \in Packets : p \in ToSet(ether_send_queue) ~> p = tx.packet /\ p \notin heap

(* A character that was accepted is sent.                                  *)
CharsSent == \A c \in 1 .. MaxOf("chars") : c \in ToSet(uart_send_queue) ~> DR = c

(* Nobody waits for ever for a semaphore, for room in a queue or for a     *)
(* device: what is to be delivered is.                                     *)
Delivered == StartsUp /\ FramesGiven /\ PacketsLeave /\ CharsSent

=============================================================================
