------------------------------ MODULE Ethernet ------------------------------
(***************************************************************************)
(* The Ethernet driver of the demo (ethernet.c, esix_glue.c): an interrupt *)
(* handler and a receive task around the controller's receive FIFO, and a  *)
(* send task behind a queue of packets.                                    *)
(*                                                                         *)
(* A step is one access to the controller or one kernel call; tasks and    *)
(* interrupts come in between in any order.  The semaphore and the queue   *)
(* are what BoundedFifo says of them.  The FIFO is a sequence of words:    *)
(* word i of the n-th frame of the wire is <<n, i>>, and its checksum is   *)
(* the last of them.                                                       *)
(***************************************************************************)
EXTENDS Integers, Sequences, FiniteSets, SequencesExt

CONSTANTS
  MAX_FRAME_SIZE,  \* bytes of the buffer a frame is received in
  SendLength,      \* packets that ether_send_queue holds
  Packets,         \* addresses pvPortMalloc may give to packets
  Nothing,         \* no packet, no word
  WireLengths,     \* payload bytes of the frames on the wire
  FifoWords        \* bound: words the controller can hold

ASSUME EthernetAssumption ==
  /\ MAX_FRAME_SIZE \in Nat /\ MAX_FRAME_SIZE % 4 = 0 /\ MAX_FRAME_SIZE > 20
  /\ SendLength \in Nat /\ Nothing \notin Packets \cup Nat
  /\ WireLengths \subseteq Nat \ {0}

VARIABLES
  arrived,            \* ghost: the frames, as the wire had them
  fifo,               \* words of the receive FIFO
  MACIM,              \* the receive interrupt is not masked
  ether_receive_sem,  \* the semaphore can be taken
  rx,                 \* where ether_receive_task is, and its variables
  inStep,             \* ghost: it starts at the first word of a frame
  passed,             \* ghost: the last frame given to the stack, or lost
  heap,               \* packets that are allocated
  ether_send_queue,
  app,                \* the packet an application is about to send
  tx,                 \* where ether_send_task is, and its packet
  MACTR               \* a transmission is under way

rxVars == <<arrived, fifo, MACIM, ether_receive_sem, rx, inStep, passed>>
txVars == <<heap, ether_send_queue, app, tx, MACTR>>
etherVars == <<rxVars, txVars>>

(* Packets are alike, so that it does not matter which address is free.    *)
NewPacket == CHOOSE p \in Packets : p \notin heap

RXINT == fifo # <<>>

(* The header is four words.                                               *)
PayloadWords(len) == IF len <= 0 THEN 0 ELSE (len + 3) \div 4
FrameWords(len) == 4 + PayloadWords(len) + 1
WordsOf(n, first, last) == [i \in 1 .. (last - first + 1) |-> <<n, first + i - 1>>]

(* What a header says that is not one.                                     *)
MisreadLengths == WireLengths \cup {-20, 0}

Idle == [at |-> "take", got |-> <<>>, len |-> 0, left |-> 0, reply |-> Nothing]

EtherInit ==
  /\ arrived = <<>> /\ fifo = <<>> /\ passed = 0 /\ inStep = TRUE
  /\ MACIM = FALSE /\ ether_receive_sem = FALSE /\ rx = Idle
  /\ heap = {} /\ ether_send_queue = <<>> /\ app = Nothing
  /\ tx = [at |-> "receive", packet |-> Nothing] /\ MACTR = FALSE

(* vSemaphoreCreateBinary gives the semaphore that it creates; the take    *)
(* after it leaves it empty.                                               *)
NewSemaphore == FALSE

ether_init ==
  /\ ether_receive_sem' = NewSemaphore /\ MACIM' = FALSE
  /\ UNCHANGED <<arrived, fifo, rx, inStep, passed, txVars>>

ether_enable ==
  /\ MACIM' = TRUE
  /\ UNCHANGED <<arrived, fifo, ether_receive_sem, rx, inStep, passed, txVars>>

-----------------------------------------------------------------------------
(* Receiving.                                                              *)

(* A frame comes in; one that does not fit is lost.                        *)
FrameArrives ==
  /\ \E len \in WireLengths, v6 \in BOOLEAN :
       /\ arrived' = Append(arrived, [len |-> len, v6 |-> v6])
       /\ Len(fifo) + FrameWords(len) <= FifoWords
       /\ fifo' = fifo \o WordsOf(Len(arrived) + 1, 1, FrameWords(len))
  /\ UNCHANGED <<MACIM, ether_receive_sem, rx, inStep, passed, txVars>>

(* The other causes are masked, and their handlers are empty.              *)
ether_handler ==
  /\ MACIM /\ RXINT
  /\ ether_receive_sem' = TRUE
  /\ MACIM' = FALSE
  /\ UNCHANGED <<arrived, fifo, rx, inStep, passed, txVars>>

ReceiveTake ==
  /\ rx.at = "take" /\ ether_receive_sem
  /\ ether_receive_sem' = FALSE
  /\ rx' = [Idle EXCEPT !.at = "header"]
  /\ UNCHANGED <<arrived, fifo, MACIM, inStep, passed, txVars>>

(* MACDATA: an empty FIFO gives anything.                                  *)
Word == IF fifo = <<>> THEN <<Nothing, 0>> ELSE Head(fifo)
ReadWord == fifo' = IF fifo = <<>> THEN fifo ELSE Tail(fifo)

(* Mutant: the sizes of the header and the checksum are not left out.      *)
TooBig_Buffer(len) == len > MAX_FRAME_SIZE

TooBig(len) == len > MAX_FRAME_SIZE - 20

HeadersRead(got) ==
  LET n == got[1][1] IN
  IF n \in DOMAIN arrived /\ got = WordsOf(n, 1, 4) THEN {arrived[n]}
  ELSE [len : MisreadLengths, v6 : BOOLEAN]

(* A frame that is discarded is read as many words as it has bytes.        *)
AfterHeader(h) ==
  IF TooBig(h.len) \/ ~h.v6 THEN [at |-> "discard", left |-> IF h.len > 0 THEN h.len ELSE 0]
  ELSE [at |-> "payload", left |-> PayloadWords(h.len)]

ReadHeader ==
  /\ rx.at = "header"
  /\ ReadWord
  /\ LET got == Append(rx.got, Word) IN
     IF Len(got) < 4 THEN rx' = [rx EXCEPT !.got = got]
     ELSE \E h \in HeadersRead(got) :
            rx' = [rx EXCEPT !.got = got, !.len = h.len, !.at = AfterHeader(h).at,
                             !.left = AfterHeader(h).left]
  /\ UNCHANGED <<arrived, MACIM, ether_receive_sem, inStep, passed, txVars>>

ReadPayload ==
  /\ rx.at = "payload" /\ rx.left > 0
  /\ ReadWord
  /\ rx' = [rx EXCEPT !.got = Append(@, Word), !.left = @ - 1]
  /\ UNCHANGED <<arrived, MACIM, ether_receive_sem, inStep, passed, txVars>>

ReadDiscarded ==
  /\ rx.at = "discard" /\ rx.left > 0
  /\ ReadWord
  /\ rx' = [rx EXCEPT !.left = @ - 1]
  /\ inStep' = (inStep /\ Word[1] \in {rx.got[1][1], Nothing})
  /\ UNCHANGED <<arrived, MACIM, ether_receive_sem, passed, txVars>>

Discarded ==
  /\ rx.at = "discard" /\ rx.left = 0
  /\ rx' = [rx EXCEPT !.at = "checksum"]
  /\ UNCHANGED <<arrived, fifo, MACIM, ether_receive_sem, inStep, passed, txVars>>

(* esix_ip_process may answer, if there is memory for it.                  *)
Process ==
  /\ rx.at = "payload" /\ rx.left = 0
  /\ passed' = IF inStep THEN rx.got[1][1] ELSE passed
  /\ \/ rx' = [rx EXCEPT !.at = "checksum"] /\ UNCHANGED heap
     \/ /\ Packets # heap
        /\ rx' = [rx EXCEPT !.at = "send", !.reply = NewPacket]
        /\ heap' = heap \cup {NewPacket}
  /\ UNCHANGED <<arrived, fifo, MACIM, ether_receive_sem, inStep, ether_send_queue, app, tx, MACTR>>

(* Mutant: the checksum is left in the FIFO.                               *)
ReadChecksum_Left ==
  /\ rx.at = "checksum"
  /\ rx' = [Idle EXCEPT !.at = "test"]
  /\ UNCHANGED <<arrived, fifo, MACIM, ether_receive_sem, inStep, passed, txVars>>

ReadChecksum ==
  /\ rx.at = "checksum"
  /\ ReadWord
  /\ rx' = [Idle EXCEPT !.at = "test"]
  /\ inStep' = (inStep /\ Word[1] \in {rx.got[1][1], Nothing})
  /\ UNCHANGED <<arrived, MACIM, ether_receive_sem, passed, txVars>>

(* Mutant: a frame that has come meanwhile is left to the interrupt.       *)
TestEmpty_Waits ==
  /\ rx.at = "test"
  /\ rx' = [Idle EXCEPT !.at = IF RXINT THEN "take" ELSE "unmask"]
  /\ UNCHANGED <<arrived, fifo, MACIM, ether_receive_sem, inStep, passed, txVars>>

TestEmpty ==
  /\ rx.at = "test"
  /\ rx' = [Idle EXCEPT !.at = IF RXINT THEN "give" ELSE "unmask"]
  /\ inStep' = (inStep \/ ~RXINT)
  /\ passed' = IF ~inStep /\ ~RXINT THEN Len(arrived) ELSE passed
  /\ UNCHANGED <<arrived, fifo, MACIM, ether_receive_sem, txVars>>

ReceiveGive ==
  /\ rx.at = "give"
  /\ ether_receive_sem' = TRUE
  /\ rx' = Idle
  /\ UNCHANGED <<arrived, fifo, MACIM, inStep, passed, txVars>>

(* Mutant: the interrupt stays masked.                                     *)
ReceiveUnmask_Never ==
  /\ rx.at = "unmask"
  /\ rx' = Idle
  /\ UNCHANGED <<arrived, fifo, MACIM, ether_receive_sem, inStep, passed, txVars>>

ReceiveUnmask ==
  /\ rx.at = "unmask"
  /\ MACIM' = TRUE
  /\ rx' = Idle
  /\ UNCHANGED <<arrived, fifo, ether_receive_sem, inStep, passed, txVars>>

-----------------------------------------------------------------------------
(* Sending.                                                                *)

HasRoom == Len(ether_send_queue) < SendLength

(* xQueueSend in esix_w_send_packet: the packet is the send task's now.    *)
(* Mutant: the stack frees it as well.                                     *)
esix_w_send_packet_Frees(p) ==
  HasRoom /\ ether_send_queue' = Append(ether_send_queue, p) /\ heap' = heap \ {p}

esix_w_send_packet(p) ==
  HasRoom /\ ether_send_queue' = Append(ether_send_queue, p) /\ UNCHANGED heap

ReceiveReply ==
  /\ rx.at = "send"
  /\ esix_w_send_packet(rx.reply)
  /\ rx' = [rx EXCEPT !.at = "checksum", !.reply = Nothing]
  /\ UNCHANGED <<arrived, fifo, MACIM, ether_receive_sem, inStep, passed, app, tx, MACTR>>

(* An application, or main_task, has the stack make a packet and send it,  *)
(* or give up and free it.                                                 *)
AppMalloc ==
  /\ app = Nothing /\ Packets # heap
  /\ app' = NewPacket /\ heap' = heap \cup {NewPacket}
  /\ UNCHANGED <<rxVars, ether_send_queue, tx, MACTR>>

AppSend ==
  /\ app # Nothing
  /\ esix_w_send_packet(app)
  /\ app' = Nothing
  /\ UNCHANGED <<rxVars, tx, MACTR>>

AppFree ==
  /\ app # Nothing
  /\ heap' = heap \ {app}
  /\ app' = Nothing
  /\ UNCHANGED <<rxVars, ether_send_queue, tx, MACTR>>

SendReceive ==
  /\ tx.at = "receive" /\ ether_send_queue # <<>>
  /\ tx' = [at |-> "copy", packet |-> Head(ether_send_queue)]
  /\ ether_send_queue' = Tail(ether_send_queue)
  /\ UNCHANGED <<rxVars, heap, app, MACTR>>

(* The words of the packet are written to MACDATA, then it is freed.       *)
SendCopy ==
  /\ tx.at = "copy"
  /\ heap' = heap \ {tx.packet}
  /\ tx' = [tx EXCEPT !.at = "start"]
  /\ UNCHANGED <<rxVars, ether_send_queue, app, MACTR>>

SendStart ==
  /\ tx.at = "start"
  /\ MACTR' = TRUE
  /\ tx' = [tx EXCEPT !.at = "wait"]
  /\ UNCHANGED <<rxVars, heap, ether_send_queue, app>>

Transmitted ==
  /\ MACTR /\ MACTR' = FALSE
  /\ UNCHANGED <<rxVars, heap, ether_send_queue, app, tx>>

SendWait ==
  /\ tx.at = "wait" /\ ~MACTR
  /\ tx' = [at |-> "receive", packet |-> Nothing]
  /\ UNCHANGED <<rxVars, heap, ether_send_queue, app, MACTR>>

=============================================================================
