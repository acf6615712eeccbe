---------------------------- MODULE BoardProofs -----------------------------
(***************************************************************************)
(* Proofs about Board, for any buffer size, queue lengths, packets and     *)
(* frames: the receive task is told of the frames there are and of no      *)
(* other, no buffer or queue overruns, and a packet has one owner.         *)
(***************************************************************************)
EXTENDS Board, FiniteSetTheorems, TLAPS

-----------------------------------------------------------------------------
(* The inductive invariant, in parts.                                      *)

Words == (Nat \cup {Nothing}) \X Int
Headers == [len : WireLengths, v6 : BOOLEAN]
RxStages ==
  {"take", "header", "payload", "discard", "send", "checksum", "test", "give", "unmask"}
RxRecords ==
  [at : RxStages, got : Seq(Words), len : Int, left : Nat, reply : Packets \cup {Nothing}]

(* Before the interrupt is enabled, no frame is received.                  *)
Setting == {"uart_init", "ether_init", "ether_enable"}
BootRecords == [at : Setting \cup {"esix_init", "started"}, sent : 0 .. InitPackets]

(* The receive task is told exactly once of what is in the FIFO: while it  *)
(* waits, either the interrupt is unmasked or the semaphore is given, and  *)
(* neither is while it is at work.                                         *)
ReceiveInv ==
  /\ rx \in RxRecords /\ fifo \in Seq(Words) /\ arrived \in Seq(Headers)
  /\ MACIM \in BOOLEAN /\ ether_receive_sem \in BOOLEAN
  /\ boot \in BootRecords
  /\ boot.at \in Setting => fifo = <<>> /\ ~MACIM /\ ~ether_receive_sem /\ rx = Idle
  /\ boot.at \notin Setting /\ rx.at = "take" => ether_receive_sem \/ MACIM
  /\ MACIM => rx.at = "take" /\ ~ether_receive_sem
  /\ ether_receive_sem => rx.at = "take" /\ RXINT
  /\ rx.at = "give" => RXINT
  /\ rx.at = "header" => Len(rx.got) < 4
  /\ NothingPhantom
  /\ BufferBounded

(* A packet is allocated exactly when it has a holder, and it has one: the *)
(* queue, an application, a reply, or the send task that copies it.        *)
InQueue(q, p) == \E i \in 1 .. Len(q) : q[i] = p
Distinct(q) == \A i, j \in 1 .. Len(q) : q[i] = q[j] => i = j
Owned(allocated, q, a, r, c) ==
  /\ allocated \subseteq Packets /\ q \in Seq(Packets) /\ Distinct(q)
  /\ a \in Packets \cup {Nothing} /\ r \in Packets \cup {Nothing} /\ c \in Packets \cup {Nothing}
  /\ \A p \in Packets : p \in allocated <=> p = a \/ p = r \/ p = c \/ InQueue(q, p)
  /\ ~InQueue(q, a) /\ ~InQueue(q, r) /\ ~InQueue(q, c)
  /\ a # Nothing => a # r /\ a # c
  /\ r # Nothing => r # c

InCopy == IF tx.at = "copy" THEN tx.packet ELSE Nothing
TxRecords == [at : {"receive", "copy", "start", "wait"}, packet : Packets \cup {Nothing}]

PacketInv ==
  /\ Owned(heap, ether_send_queue, app, rx.reply, InCopy)
  /\ Len(ether_send_queue) <= SendLength
  /\ tx \in TxRecords /\ MACTR \in BOOLEAN
  /\ rx.at = "send" <=> rx.reply # Nothing

(* Of a character that is being sent there is one trace: it is in the      *)
(* register, its interrupt is pending, or the semaphore is given.          *)
UartRecords == [at : {"receive", "write", "take"}, c : Nat]
UartToken ==
  /\ uart \in UartRecords
  /\ MIS \in BOOLEAN /\ uart_send_sem \in BOOLEAN /\ DR \in Nat
  /\ uart.at # "take" => DR = 0 /\ ~MIS /\ ~uart_send_sem
  /\ DR # 0 => ~MIS /\ ~uart_send_sem
  /\ MIS => ~uart_send_sem

UartQueue ==
  /\ uart \in UartRecords /\ accepted \in Nat /\ uart.c <= accepted
  /\ uart_send_queue \in Seq(Nat) /\ Len(uart_send_queue) <= UartLength
  /\ \A i \in 1 .. Len(uart_send_queue) : uart_send_queue[i] <= accepted

-----------------------------------------------------------------------------
(* What a step does to the serial port.                                    *)
LEMMA SerialSteps ==
  ASSUME [Next]_vars
  PROVE  \/ uart_init \/ uart_putc \/ UartTask \/ CharSent \/ uart_handler
         \/ UNCHANGED uartVars
<1>1. ASSUME MainSteps PROVE uart_init \/ UNCHANGED uartVars
  BY <1>1 DEF MainSteps, MainUart, MainEther, MainEnable, MainSend, MainStart
<1>2. ASSUME Frame \/ Packet PROVE UNCHANGED uartVars
  BY <1>2 DEF Frame, Packet
<1>3. ASSUME Char PROVE uart_putc
  BY <1>3 DEF Char
<1> QED  BY <1>1, <1>2, <1>3 DEF Next, Ether, Serial, vars

(* A character has one trace at first: none.                               *)
LEMMA UartTokenInit == ASSUME Init PROVE UartToken
  BY DEF Init, UartInit, UartToken, UartRecords

(* The queue of characters is empty at first.                              *)
LEMMA UartQueueInit == ASSUME Init PROVE UartQueue
<1>1. uart \in UartRecords /\ accepted \in Nat /\ uart.c <= accepted
  BY DEF Init, UartInit, UartRecords
<1>2. uart_send_queue = <<>>
  BY DEF Init, UartInit
<1> QED  BY <1>1, <1>2, UartAssumption DEF UartQueue

(* No step leaves two traces of a character that is being sent.            *)
LEMMA UartTokenStep == ASSUME UartToken, UartQueue, [Next]_vars PROVE UartToken'
<1>1. CASE uart_init
  BY <1>1 DEF uart_init, UartToken
<1>2. CASE uart_putc \/ UNCHANGED uartVars
  BY <1>2 DEF uart_putc, uartVars, UartToken
<1>3. CASE UartReceive
  <2>1. uart' = [at |-> "write", c |-> Head(uart_send_queue)]
    BY <1>3 DEF UartReceive
  <2>2. Head(uart_send_queue) \in Nat
    BY <1>3 DEF UartReceive, UartQueue
  <2> QED  BY <1>3, <2>1, <2>2 DEF UartReceive, UartToken, UartRecords
<1>4. CASE UartWrite
  BY <1>4 DEF UartWrite, UartToken, UartRecords
<1>5. CASE UartTake
  BY <1>5 DEF UartTake, UartToken, UartRecords
<1>6. CASE CharSent
  BY <1>6 DEF CharSent, UartToken
<1>7. CASE uart_handler
  BY <1>7 DEF uart_handler, UartToken
<1> QED  BY SerialSteps, <1>1, <1>2, <1>3, <1>4, <1>5, <1>6, <1>7 DEF UartTask

(* No step overfills the queue, and only accepted characters are in it.    *)
LEMMA UartQueueStep == ASSUME UartQueue, [Next]_vars PROVE UartQueue'
<1>1. CASE uart_init \/ CharSent \/ uart_handler \/ UNCHANGED uartVars
  BY <1>1 DEF uart_init, CharSent, uart_handler, uartVars, UartQueue
<1>2. CASE uart_putc /\ Len(uart_send_queue) < UartLength
  <2> DEFINE q == uart_send_queue
  <2>1. uart' = uart /\ accepted' = accepted + 1 /\ q' = Append(q, accepted + 1)
    BY <1>2 DEF uart_putc
  <2>2. accepted + 1 \in Nat /\ q \in Seq(Nat)
    BY DEF UartQueue
  <2>3. q' \in Seq(Nat) /\ Len(q') = Len(q) + 1
    BY <2>1, <2>2
  <2>4. ASSUME NEW i \in 1 .. Len(q') PROVE q'[i] <= accepted'
    BY <2>1, <2>2, <2>4 DEF UartQueue
  <2>5. uart' \in UartRecords /\ accepted' \in Nat /\ uart'.c <= accepted'
    BY <2>1, <2>2 DEF UartQueue, UartRecords
  <2>6. Len(q') <= UartLength
    BY <1>2, <2>2, <2>3, UartAssumption
  <2> QED  BY <2>3, <2>4, <2>5, <2>6 DEF UartQueue
<1>3. CASE uart_putc /\ ~(Len(uart_send_queue) < UartLength)
  BY <1>3 DEF uart_putc, uartVars, UartQueue
<1>4. CASE UartReceive
  <2>1. /\ uart_send_queue # <<>> /\ uart_send_queue' = Tail(uart_send_queue)
        /\ uart' = [at |-> "write", c |-> Head(uart_send_queue)] /\ accepted' = accepted
    BY <1>4 DEF UartReceive
  <2>2. Head(uart_send_queue) \in Nat /\ Head(uart_send_queue) <= accepted
    BY <2>1 DEF UartQueue
  <2> QED  BY <2>1, <2>2, UartAssumption DEF UartQueue, UartRecords
<1>5. CASE UartWrite
  BY <1>5 DEF UartWrite, UartQueue, UartRecords
<1>6. CASE UartTake
  BY <1>6 DEF UartTake, UartQueue, UartRecords
<1> QED  BY SerialSteps, <1>1, <1>2, <1>3, <1>4, <1>5, <1>6 DEF UartTask

-----------------------------------------------------------------------------
(* The packet pvPortMalloc gives is none that is in use.                   *)
LEMMA NewPacketIsFree ==
  ASSUME heap \subseteq Packets, Packets # heap
  PROVE  NewPacket \in Packets /\ NewPacket \notin heap /\ NewPacket # Nothing
<1>1. \E p \in Packets : p \notin heap
  OBVIOUS
<1> QED  BY <1>1, EthernetAssumption DEF NewPacket

-----------------------------------------------------------------------------
(* Receiving.                                                              *)

(* What a step does to the receiver and to main.                           *)
LEMMA ReceiverSteps ==
  ASSUME [Next]_vars
  PROVE  \/ MainSteps
         \/ boot.at \notin Setting /\ FrameArrives /\ boot' = boot
         \/ Started /\ (ether_handler \/ ReceiveTask) /\ boot' = boot
         \/ UNCHANGED <<boot, rxVars>>
<1>1. ASSUME boot.at \notin Setting, Frame PROVE FrameArrives /\ boot' = boot
  BY <1>1 DEF Frame, Comes
<1>2. ASSUME Char PROVE UNCHANGED <<boot, rxVars>>
  BY <1>2 DEF Char, Comes, etherVars
<1>3. ASSUME Packet PROVE UNCHANGED <<boot, rxVars>>
  BY <1>3 DEF Packet, Comes, AppMalloc
<1>4. ASSUME SendTask \/ Transmitted PROVE UNCHANGED rxVars
  BY <1>4 DEF SendTask, SendReceive, SendCopy, SendStart, SendWait, Transmitted
<1>5. ASSUME AppSend \/ AppFree PROVE UNCHANGED rxVars
  BY <1>5 DEF AppSend, AppFree
<1> QED  BY <1>1, <1>2, <1>3, <1>4, <1>5 DEF Next, Ether, Serial, vars, etherVars, Setting

(* The words of a frame.                                                   *)
LEMMA WordsOfFrame ==
  ASSUME NEW n \in Nat, NEW last \in Nat
  PROVE  WordsOf(n, 1, last) \in Seq(Words) /\ Len(WordsOf(n, 1, last)) = last
  BY DEF WordsOf, Words

(* A frame has a header, a payload and a checksum.                         *)
LEMMA FrameHasWords ==
  ASSUME NEW len \in WireLengths
  PROVE  FrameWords(len) \in Nat /\ FrameWords(len) >= 6 /\ PayloadWords(len) \in Nat
  BY EthernetAssumption DEF FrameWords, PayloadWords

(* At first the interrupt is masked and the FIFO empty.                    *)
LEMMA ReceiveInit == ASSUME Init PROVE ReceiveInv
<1>1. rx \in RxRecords
  BY DEF Init, EtherInit, Idle, RxRecords, RxStages
<1>2. boot \in BootRecords
  BY DEF Init, BootRecords, InitPackets, Setting
<1>3. /\ arrived = <<>> /\ fifo = <<>> /\ ~MACIM /\ ~ether_receive_sem
      /\ rx = Idle /\ MACIM \in BOOLEAN /\ ether_receive_sem \in BOOLEAN
      /\ boot.at \in Setting
  BY DEF Init, EtherInit, Setting
<1>4. rx.at = "take"
  BY <1>3 DEF Idle
<1>5. arrived \in Seq(Headers) /\ fifo \in Seq(Words)
  BY <1>3
<1> QED  BY <1>1, <1>2, <1>3, <1>4, <1>5 DEF ReceiveInv, NothingPhantom, BufferBounded

(* main enables the interrupt while the task waits.                        *)
LEMMA ReceiveMain == ASSUME ReceiveInv, MainSteps PROVE ReceiveInv'
<1> USE DEF ReceiveInv, NothingPhantom, BufferBounded, RXINT
<1>1. CASE MainUart
  BY <1>1 DEF MainUart, Main, Setting, BootRecords, etherVars, rxVars
<1>2. CASE MainEther
  BY <1>2 DEF MainEther, Main, Setting, BootRecords, ether_init, NewSemaphore
<1>3. CASE MainEnable
  BY <1>3 DEF MainEnable, Main, Setting, BootRecords, ether_enable, Idle
<1>4. CASE MainSend
  BY <1>4 DEF MainSend, Setting, BootRecords, InitPackets, rxVars
<1>5. CASE MainStart
  BY <1>5 DEF MainStart, Setting, BootRecords, etherVars, rxVars
<1> QED  BY <1>1, <1>2, <1>3, <1>4, <1>5 DEF MainSteps

(* A frame that comes takes nothing from the task or the semaphore.        *)
LEMMA ReceiveFrame ==
  ASSUME ReceiveInv, boot.at \notin Setting, FrameArrives, boot' = boot PROVE ReceiveInv'
<1>1. PICK len \in WireLengths, v6 \in BOOLEAN :
        /\ arrived' = Append(arrived, [len |-> len, v6 |-> v6])
        /\ fifo' = fifo \o WordsOf(Len(arrived) + 1, 1, FrameWords(len))
  BY DEF FrameArrives
<1>2. Len(arrived) + 1 \in Nat /\ arrived' \in Seq(Headers)
  BY <1>1 DEF ReceiveInv, Headers
<1> DEFINE w == WordsOf(Len(arrived) + 1, 1, FrameWords(len))
<1>3. w \in Seq(Words) /\ Len(w) > 0
  BY <1>2, FrameHasWords, WordsOfFrame
<1> HIDE DEF w
<1>4. fifo' \in Seq(Words) /\ fifo' # <<>>
  BY <1>1, <1>3 DEF ReceiveInv, w
<1> QED  BY <1>2, <1>4 DEF ReceiveInv, FrameArrives, NothingPhantom, BufferBounded, RXINT

(* The word that is read, and what is left.                                *)
LEMMA WordRead ==
  ASSUME ReceiveInv, ReadWord
  PROVE  Word \in Words /\ fifo' \in Seq(Words)
<1>1. CASE fifo = <<>>
  BY <1>1 DEF ReceiveInv, ReadWord, Word, Words
<1>2. CASE fifo # <<>>
  BY <1>2 DEF ReceiveInv, ReadWord, Word
<1> QED  BY <1>1, <1>2

(* A frame that is not too big fits in the buffer behind its header.       *)
LEMMA PayloadFits ==
  ASSUME NEW len \in Int, ~TooBig(len)
  PROVE  PayloadWords(len) \in Nat /\ 4 * (4 + PayloadWords(len)) <= MAX_FRAME_SIZE
  BY EthernetAssumption DEF TooBig, PayloadWords

(* What follows a header, whatever it says, fits in the buffer.            *)
LEMMA HeaderRead ==
  ASSUME ReceiveInv, NEW got, NEW h \in HeadersRead(got)
  PROVE  h.len \in Int /\ AfterHeader(h).left \in Nat /\ AfterHeader(h).at \in {"payload", "discard"}
         /\ (AfterHeader(h).at = "payload" => 4 * (4 + AfterHeader(h).left) <= MAX_FRAME_SIZE)
<1>1. h.len \in Int
  <2> DEFINE n == got[1][1]
  <2>0. WireLengths \subseteq Int /\ MisreadLengths \subseteq Int
    BY EthernetAssumption DEF MisreadLengths
  <2>1. ASSUME n \in DOMAIN arrived PROVE arrived[n].len \in Int
    <3>1. arrived[n] \in Headers
      BY <2>1 DEF ReceiveInv
    <3> QED  BY <2>0, <3>1 DEF Headers
  <2>2. ASSUME NEW g \in [len : MisreadLengths, v6 : BOOLEAN] PROVE g.len \in Int
    BY <2>0
  <2> QED  BY <2>1, <2>2 DEF HeadersRead
<1>2. CASE TooBig(h.len) \/ ~h.v6
  BY <1>1, <1>2 DEF AfterHeader
<1>3. CASE ~(TooBig(h.len) \/ ~h.v6)
  BY <1>1, <1>3, PayloadFits DEF AfterHeader
<1> QED  BY <1>1, <1>2, <1>3

(* The task's variables when it begins a frame or is done with one.        *)
LEMMA IdleAt ==
  ASSUME NEW a \in RxStages
  PROVE  /\ [Idle EXCEPT !.at = a] \in RxRecords /\ [Idle EXCEPT !.at = a].at = a
         /\ [Idle EXCEPT !.at = a].got = <<>> /\ [Idle EXCEPT !.at = a].reply = Nothing
<1>1. Idle \in RxRecords /\ Idle.got = <<>> /\ Idle.reply = Nothing
  BY DEF Idle, RxRecords, RxStages
<1> QED  BY <1>1 DEF RxRecords

(* A step of the task that leaves the interrupt, the semaphore and main    *)
(* alone, and does not stop or begin to read, keeps the receiver in order. *)
LEMMA ReceiveWorks ==
  ASSUME ReceiveInv, Started, boot' = boot,
         rx.at # "take", MACIM' = MACIM, ether_receive_sem' = ether_receive_sem,
         rx' \in RxRecords, fifo' \in Seq(Words), arrived' = arrived,
         rx'.at # "take", rx'.at = "give" => fifo' # <<>>,
         rx'.at = "header" => rx'.got # <<>> /\ Len(rx'.got) < 4,
         rx'.at = "payload" => 4 * (Len(rx'.got) + rx'.left) <= MAX_FRAME_SIZE
  PROVE  ReceiveInv'
  BY DEF ReceiveInv, NothingPhantom, BufferBounded, RXINT, Started, Setting

(* The handler and the receive task keep the receiver in order.            *)
LEMMA ReceiveStep ==
  ASSUME ReceiveInv, heap \subseteq Packets, Started, ether_handler \/ ReceiveTask, boot' = boot
  PROVE  ReceiveInv'
<1>1. /\ rx \in RxRecords /\ fifo \in Seq(Words) /\ rx.got \in Seq(Words) /\ rx.left \in Nat
  BY DEF ReceiveInv, RxRecords
<1>2. CASE ether_handler
  BY <1>2 DEF ether_handler, ReceiveInv, NothingPhantom, BufferBounded, RXINT, Started, Setting
<1>3. CASE ReceiveTake
  <2>1. rx' \in RxRecords /\ rx'.at = "header" /\ rx'.got = <<>>
    BY <1>3, IdleAt DEF ReceiveTake, RxStages
  <2>2. Len(rx'.got) < 4 /\ RXINT /\ ~MACIM
    BY <1>3, <2>1 DEF ReceiveTake, ReceiveInv
  <2> QED  BY <1>3, <2>1, <2>2 DEF ReceiveTake, ReceiveInv, NothingPhantom, BufferBounded, RXINT, Started, Setting
<1>4. CASE ReadHeader
  <2> DEFINE got == Append(rx.got, Word)
  <2>1. Word \in Words /\ fifo' \in Seq(Words)
    BY <1>4, WordRead DEF ReadHeader
  <2>2. got \in Seq(Words) /\ Len(got) = Len(rx.got) + 1 /\ got # <<>>
    BY <1>1, <2>1
  <2>0. Len(rx.got) < 4
    BY <1>4 DEF ReadHeader, ReceiveInv
  <2>3. CASE Len(got) < 4
    <3>1. rx' = [rx EXCEPT !.got = got] /\ rx.at = "header"
      BY <1>4, <2>3 DEF ReadHeader
    <3> HIDE DEF got
    <3>2. rx' \in RxRecords /\ rx'.at = "header" /\ rx'.got = got
      BY <1>1, <2>2, <3>1 DEF RxRecords
    <3> QED  BY <1>4, <2>1, <2>2, <2>3, <3>1, <3>2, ReceiveWorks DEF ReadHeader, got
  <2>4. CASE ~(Len(got) < 4)
    <3>1. PICK h \in HeadersRead(got) :
            rx' = [rx EXCEPT !.got = got, !.len = h.len, !.at = AfterHeader(h).at,
                             !.left = AfterHeader(h).left]
      BY <1>4, <2>4 DEF ReadHeader
    <3>2. h.len \in Int /\ AfterHeader(h).left \in Nat /\ AfterHeader(h).at \in {"payload", "discard"}
          /\ (AfterHeader(h).at = "payload" => 4 * (4 + AfterHeader(h).left) <= MAX_FRAME_SIZE)
      BY HeaderRead
    <3> HIDE DEF got
    <3>3. /\ rx' \in RxRecords /\ rx'.at = AfterHeader(h).at
          /\ rx'.got = got /\ rx'.left = AfterHeader(h).left
      BY <1>1, <2>2, <3>1, <3>2 DEF RxRecords, RxStages
    <3>4. Len(rx'.got) = 4
      BY <2>0, <2>2, <2>4, <3>3 DEF got
    <3> QED  BY <1>4, <2>1, <3>2, <3>3, <3>4, ReceiveWorks DEF ReadHeader
  <2> QED  BY <2>3, <2>4
<1>5. CASE ReadPayload
  <2> DEFINE got == Append(rx.got, Word)
  <2>1. Word \in Words /\ fifo' \in Seq(Words)
    BY <1>5, WordRead DEF ReadPayload
  <2>2. got \in Seq(Words) /\ Len(got) = Len(rx.got) + 1
    BY <1>1, <2>1
  <2> DEFINE left == rx.left - 1
  <2>3. rx' = [rx EXCEPT !.got = got, !.left = left] /\ rx.at = "payload" /\ left \in Nat
    BY <1>1, <1>5 DEF ReadPayload
  <2>4. Len(got) + left = Len(rx.got) + rx.left
    BY <1>1, <2>2
  <2> HIDE DEF got, left
  <2>6. rx' \in RxRecords /\ rx'.at = "payload" /\ rx'.got = got /\ rx'.left = left
    BY <1>1, <2>2, <2>3 DEF RxRecords
  <2>5. 4 * (Len(rx'.got) + rx'.left) <= MAX_FRAME_SIZE
    BY <2>3, <2>4, <2>6 DEF ReceiveInv, BufferBounded
  <2> QED  BY <1>5, <2>1, <2>3, <2>5, <2>6, ReceiveWorks DEF ReadPayload
<1>6. CASE ReadDiscarded
  <2> DEFINE left == rx.left - 1
  <2>1. fifo' \in Seq(Words) /\ rx' = [rx EXCEPT !.left = left] /\ left \in Nat
    BY <1>1, <1>6, WordRead DEF ReadDiscarded
  <2> HIDE DEF left
  <2>2. rx' \in RxRecords /\ rx'.at = rx.at
    BY <1>1, <2>1 DEF RxRecords
  <2> QED  BY <1>6, <2>1, <2>2, ReceiveWorks DEF ReadDiscarded
<1>7. CASE Discarded
  <2>1. rx' \in RxRecords /\ rx'.at = "checksum"
    BY <1>1, <1>7 DEF Discarded, RxRecords, RxStages
  <2> QED  BY <1>1, <1>7, <2>1, ReceiveWorks DEF Discarded
<1>8. CASE Process
  <2>1. CASE rx' = [rx EXCEPT !.at = "checksum"]
    <3>1. rx' \in RxRecords /\ rx'.at = "checksum"
      BY <1>1, <2>1 DEF RxRecords, RxStages
    <3> QED  BY <1>1, <1>8, <3>1, ReceiveWorks DEF Process
  <2>2. CASE Packets # heap /\ rx' = [rx EXCEPT !.at = "send", !.reply = NewPacket]
    <3>1. rx' \in RxRecords /\ rx'.at = "send"
      BY <1>1, <2>2, NewPacketIsFree DEF RxRecords, RxStages
    <3> QED  BY <1>1, <1>8, <3>1, ReceiveWorks DEF Process
  <2> QED  BY <1>8, <2>1, <2>2 DEF Process
<1>9. CASE ReceiveReply
  <2>1. rx' \in RxRecords /\ rx'.at = "checksum"
    BY <1>1, <1>9 DEF ReceiveReply, RxRecords, RxStages
  <2> QED  BY <1>1, <1>9, <2>1, ReceiveWorks DEF ReceiveReply
<1>10. CASE ReadChecksum
  <2>1. fifo' \in Seq(Words) /\ rx' \in RxRecords /\ rx'.at = "test"
    BY <1>10, WordRead, IdleAt DEF ReadChecksum, RxStages
  <2> QED  BY <1>10, <2>1, ReceiveWorks DEF ReadChecksum
<1>11. CASE TestEmpty
  <2>1. /\ rx' \in RxRecords /\ rx'.at \in {"give", "unmask"}
        /\ rx'.at = "give" => RXINT
    BY <1>11, IdleAt DEF TestEmpty, RxStages
  <2> QED  BY <1>1, <1>11, <2>1, ReceiveWorks DEF TestEmpty, RXINT
<1>12. CASE ReceiveGive
  <2>1. rx' \in RxRecords /\ rx'.at = "take"
    BY <1>12 DEF ReceiveGive, Idle, RxRecords, RxStages
  <2> QED  BY <1>12, <2>1 DEF ReceiveGive, ReceiveInv, NothingPhantom, BufferBounded, RXINT, Started, Setting
<1>13. CASE ReceiveUnmask
  <2>1. rx' \in RxRecords /\ rx'.at = "take"
    BY <1>13 DEF ReceiveUnmask, Idle, RxRecords, RxStages
  <2> QED  BY <1>13, <2>1 DEF ReceiveUnmask, ReceiveInv, NothingPhantom, BufferBounded, RXINT, Started, Setting
<1> QED  BY <1>2, <1>3, <1>4, <1>5, <1>6, <1>7, <1>8, <1>9, <1>10, <1>11, <1>12, <1>13 DEF ReceiveTask

-----------------------------------------------------------------------------
(* Packets.                                                                *)

(* What is in a queue when a packet has been appended.                     *)
LEMMA InAppend ==
  ASSUME NEW q \in Seq(Packets), NEW p \in Packets
  PROVE  \A x : InQueue(Append(q, p), x) <=> InQueue(q, x) \/ x = p
<1> SUFFICES ASSUME NEW x PROVE InQueue(Append(q, p), x) <=> InQueue(q, x) \/ x = p
  OBVIOUS
<1>1. Len(Append(q, p)) = Len(q) + 1 /\ Len(q) \in Nat
  OBVIOUS
<1>2. Append(q, p)[Len(q) + 1] = p
  OBVIOUS
<1>3. \A i \in 1 .. Len(q) : Append(q, p)[i] = q[i]
  OBVIOUS
<1> HIDE DEF InQueue
<1>4. ASSUME InQueue(Append(q, p), x), x # p PROVE InQueue(q, x)
  BY <1>1, <1>2, <1>3, <1>4 DEF InQueue
<1>5. ASSUME InQueue(q, x) PROVE InQueue(Append(q, p), x)
  BY <1>1, <1>3, <1>5 DEF InQueue
<1>6. InQueue(Append(q, p), p)
  BY <1>1, <1>2 DEF InQueue
<1> QED  BY <1>4, <1>5, <1>6

(* A packet that is allocated, for an application, a reply or the queue.   *)
LEMMA OwnNew ==
  ASSUME NEW h, NEW q, NEW a, NEW r, NEW c, Owned(h, q, a, r, c), NEW p \in Packets \ h
  PROVE  /\ a = Nothing => Owned(h \cup {p}, q, p, r, c)
         /\ r = Nothing => Owned(h \cup {p}, q, a, p, c)
         /\ Owned(h \cup {p}, Append(q, p), a, r, c)
<1>1. p # Nothing /\ p # a /\ p # r /\ p # c /\ ~InQueue(q, p)
  BY EthernetAssumption DEF Owned
<1>2. Nothing \notin Packets /\ h \cup {p} \subseteq Packets
  BY EthernetAssumption DEF Owned
<1> DEFINE Held(x) == x \in h \cup {p}
<1>3. \A x \in Packets : Held(x) <=> x = p \/ x = a \/ x = r \/ x = c \/ InQueue(q, x)
  BY DEF Owned
<1>4. ASSUME a = Nothing PROVE Owned(h \cup {p}, q, p, r, c)
  <2>1. \A x \in Packets : Held(x) <=> x = p \/ x = r \/ x = c \/ InQueue(q, x)
    BY <1>2, <1>4, <1>3
  <2> QED  BY <1>2, <1>1, <2>1 DEF Owned
<1>5. ASSUME r = Nothing PROVE Owned(h \cup {p}, q, a, p, c)
  <2>1. \A x \in Packets : Held(x) <=> x = a \/ x = p \/ x = c \/ InQueue(q, x)
    BY <1>2, <1>5, <1>3
  <2> QED  BY <1>2, <1>1, <2>1 DEF Owned
<1>6. q \in Seq(Packets) /\ Distinct(q)
  BY DEF Owned
<1>7. Append(q, p) \in Seq(Packets) /\ Distinct(Append(q, p))
  BY <1>1, <1>6 DEF Distinct, InQueue
<1>8. \A x : InQueue(Append(q, p), x) <=> InQueue(q, x) \/ x = p
  BY <1>6, InAppend
<1>9. Owned(h \cup {p}, Append(q, p), a, r, c)
  BY <1>1, <1>7, <1>8 DEF Owned
<1> QED  BY <1>4, <1>5, <1>9

(* A packet that goes from its sender to the queue.                        *)
LEMMA OwnSend ==
  ASSUME NEW h, NEW q, NEW a, NEW r, NEW c, Owned(h, q, a, r, c)
  PROVE  /\ a # Nothing => Owned(h, Append(q, a), Nothing, r, c)
         /\ r # Nothing => Owned(h, Append(q, r), a, Nothing, c)
<1>1. q \in Seq(Packets) /\ Distinct(q) /\ Nothing \notin Packets
  BY EthernetAssumption DEF Owned
<1>2. ASSUME NEW p \in Packets, ~InQueue(q, p)
      PROVE  /\ Append(q, p) \in Seq(Packets) /\ Distinct(Append(q, p))
             /\ \A x : InQueue(Append(q, p), x) <=> InQueue(q, x) \/ x = p
  BY <1>1, <1>2 DEF Distinct, InQueue
<1>3. ~InQueue(q, Nothing)
  BY <1>1 DEF InQueue
<1>4. ASSUME a # Nothing PROVE Owned(h, Append(q, a), Nothing, r, c)
  BY <1>1, <1>2, <1>3, <1>4 DEF Owned
<1>5. ASSUME r # Nothing PROVE Owned(h, Append(q, r), a, Nothing, c)
  BY <1>1, <1>2, <1>3, <1>5 DEF Owned
<1> QED  BY <1>4, <1>5

(* A packet that goes from the queue to the send task.                     *)
LEMMA OwnReceive ==
  ASSUME NEW h, NEW q, NEW a, NEW r, Owned(h, q, a, r, Nothing), q # <<>>
  PROVE  Owned(h, Tail(q), a, r, Head(q))
<1>1. q \in Seq(Packets) /\ Distinct(q) /\ Nothing \notin Packets
  BY EthernetAssumption DEF Owned
<1>2. Tail(q) \in Seq(Packets) /\ Head(q) \in Packets /\ Distinct(Tail(q))
  BY <1>1 DEF Distinct
<1>3. ~InQueue(Tail(q), Head(q))
  BY <1>1 DEF Distinct, InQueue
<1>4. ASSUME NEW x PROVE InQueue(q, x) <=> InQueue(Tail(q), x) \/ x = Head(q)
  <2>1. ASSUME NEW i \in 1 .. Len(q), q[i] = x PROVE InQueue(Tail(q), x) \/ x = Head(q)
    <3>1. CASE i = 1
      BY <1>1, <2>1, <3>1
    <3>2. CASE i # 1
      <4>1. i - 1 \in 1 .. Len(Tail(q)) /\ Tail(q)[i - 1] = x
        BY <1>1, <2>1, <3>2
      <4> QED  BY <4>1 DEF InQueue
    <3> QED  BY <3>1, <3>2
  <2>2. ASSUME NEW i \in 1 .. Len(Tail(q)), Tail(q)[i] = x PROVE InQueue(q, x)
    <3>1. i + 1 \in 1 .. Len(q) /\ q[i + 1] = x
      BY <1>1, <2>2
    <3> QED  BY <3>1 DEF InQueue
  <2>3. ASSUME x = Head(q) PROVE InQueue(q, x)
    <3>1. 1 \in 1 .. Len(q) /\ q[1] = x
      BY <1>1, <2>3
    <3> QED  BY <3>1 DEF InQueue
  <2> QED  BY <2>1, <2>2, <2>3 DEF InQueue
<1> QED  BY <1>1, <1>2, <1>3, <1>4 DEF Owned

(* A packet that an application or the send task frees.                    *)
LEMMA OwnFree ==
  ASSUME NEW h, NEW q, NEW a, NEW r, NEW c, Owned(h, q, a, r, c)
  PROVE  Owned(h \ {a}, q, Nothing, r, c) /\ Owned(h \ {c}, q, a, r, Nothing)
<1>1. q \in Seq(Packets) /\ Nothing \notin Packets
  BY EthernetAssumption DEF Owned
<1>2. ~InQueue(q, Nothing)
  BY <1>1 DEF InQueue
<1> QED  BY <1>1, <1>2 DEF Owned

(* No packet is allocated at first.                                        *)
LEMMA PacketInit == ASSUME Init PROVE PacketInv
<1>1. /\ heap = {} /\ ether_send_queue = <<>> /\ app = Nothing /\ MACTR \in BOOLEAN
      /\ tx = [at |-> "receive", packet |-> Nothing] /\ rx.reply = Nothing /\ rx.at = "take"
  BY DEF Init, EtherInit, Idle
<1>2. InCopy = Nothing /\ tx \in TxRecords
  BY <1>1 DEF InCopy, TxRecords
<1>3. \A x : ~InQueue(<<>>, x)
  BY DEF InQueue
<1>4. Owned({}, <<>>, Nothing, Nothing, Nothing)
  BY <1>3, EthernetAssumption DEF Owned, Distinct
<1> QED  BY <1>1, <1>2, <1>4, EthernetAssumption DEF PacketInv

(* The receive task has a packet only between the stack's answer and the   *)
(* send queue.                                                             *)
LEMMA NoReply ==
  ASSUME rx \in RxRecords, PacketInv,
         \/ ether_handler \/ ReceiveTake \/ ReadHeader \/ ReadPayload \/ ReadDiscarded
         \/ Discarded \/ ReadChecksum \/ TestEmpty \/ ReceiveGive \/ ReceiveUnmask
  PROVE  UNCHANGED txVars /\ rx'.reply = rx.reply /\ (rx'.at = "send" <=> rx.at = "send")
<1>1. CASE ether_handler
  BY <1>1 DEF ether_handler
<1>2. CASE ReceiveTake
  BY <1>2, IdleAt DEF ReceiveTake, RxStages, PacketInv
<1>3. CASE ReadHeader
  <2> DEFINE got == Append(rx.got, Word)
  <2>1. CASE Len(got) < 4
    BY <1>3, <2>1 DEF ReadHeader, RxRecords
  <2>2. CASE ~(Len(got) < 4)
    <3>1. PICK h \in HeadersRead(got) :
            rx' = [rx EXCEPT !.got = got, !.len = h.len, !.at = AfterHeader(h).at,
                             !.left = AfterHeader(h).left]
      BY <1>3, <2>2 DEF ReadHeader
    <3>2. AfterHeader(h).at # "send"
      BY DEF AfterHeader
    <3> QED  BY <1>3, <3>1, <3>2 DEF ReadHeader, RxRecords
  <2> QED  BY <2>1, <2>2
<1>4. CASE ReadPayload
  BY <1>4 DEF ReadPayload, RxRecords
<1>5. CASE ReadDiscarded
  BY <1>5 DEF ReadDiscarded, RxRecords, txVars
<1>6. CASE Discarded
  BY <1>6 DEF Discarded, RxRecords
<1>7. CASE ReadChecksum
  BY <1>7, IdleAt DEF ReadChecksum, RxStages, PacketInv
<1>8. CASE TestEmpty
  BY <1>8, IdleAt DEF TestEmpty, RxStages, PacketInv
<1>9. CASE ReceiveGive
  BY <1>9 DEF ReceiveGive, PacketInv, Idle
<1>10. CASE ReceiveUnmask
  BY <1>10 DEF ReceiveUnmask, PacketInv, Idle
<1> QED  BY <1>1, <1>2, <1>3, <1>4, <1>5, <1>6, <1>7, <1>8, <1>9, <1>10

(* What a step does to packets.                                            *)
LEMMA PacketSteps ==
  ASSUME [Next]_vars, rx \in RxRecords, PacketInv
  PROVE  \/ MainSend
         \/ Process \/ ReceiveReply
         \/ AppMalloc \/ AppSend \/ AppFree
         \/ SendTask \/ Transmitted
         \/ UNCHANGED txVars /\ rx'.reply = rx.reply /\ (rx'.at = "send" <=> rx.at = "send")
<1>1. ASSUME MainUart \/ MainEther \/ MainEnable \/ MainStart PROVE UNCHANGED <<rx, txVars>>
  BY <1>1 DEF MainUart, MainEther, MainEnable, MainStart, ether_init, ether_enable, etherVars, rxVars
<1>2. ASSUME Frame PROVE UNCHANGED <<rx, txVars>>
  BY <1>2 DEF Frame, FrameArrives
<1>3. ASSUME Char PROVE UNCHANGED <<rx, txVars>>
  BY <1>3 DEF Char, etherVars, rxVars
<1>4. ASSUME ether_handler \/ ReceiveTask
      PROVE  \/ Process \/ ReceiveReply
             \/ UNCHANGED txVars /\ rx'.reply = rx.reply /\ (rx'.at = "send" <=> rx.at = "send")
  BY <1>4, NoReply DEF ReceiveTask
<1>5. ASSUME Packet PROVE AppMalloc
  BY <1>5 DEF Packet
<1>6. ASSUME UNCHANGED vars \/ UNCHANGED etherVars PROVE UNCHANGED <<rx, txVars>>
  BY <1>6 DEF vars, etherVars, rxVars
<1> QED  BY <1>1, <1>2, <1>3, <1>4, <1>5, <1>6 DEF Next, MainSteps, Ether, Serial

(* No step frees a packet under its owner, or loses it.                    *)
LEMMA PacketStep ==
  ASSUME PacketInv, rx \in RxRecords, [Next]_vars PROVE PacketInv'
<1> DEFINE q == ether_send_queue
<1>1. /\ Owned(heap, q, app, rx.reply, InCopy) /\ heap \subseteq Packets
      /\ q \in Seq(Packets) /\ Len(q) \in Nat /\ Len(q) <= SendLength
      /\ tx \in TxRecords /\ (rx.at = "send" <=> rx.reply # Nothing)
      /\ SendLength \in Nat /\ Nothing \notin Packets
  BY EthernetAssumption DEF PacketInv, Owned
<1>2. CASE MainSend
  <2>1. UNCHANGED <<rx, app, tx, MACTR>>
    BY <1>2 DEF MainSend, rxVars
  <2>2. CASE HasRoom /\ Packets # heap /\ q' = Append(q, NewPacket) /\ heap' = heap \cup {NewPacket}
    <3>1. NewPacket \in Packets \ heap
      BY <1>1, <2>2, NewPacketIsFree
    <3>2. Owned(heap', q', app, rx.reply, InCopy)
      BY <1>1, <2>2, <3>1, OwnNew
    <3>3. Len(q') <= SendLength /\ InCopy' = InCopy
      BY <1>1, <2>1, <2>2, <3>1 DEF HasRoom, InCopy
    <3> QED  BY <2>1, <3>2, <3>3 DEF PacketInv
  <2>3. CASE UNCHANGED <<q, heap>>
    BY <2>1, <2>3 DEF PacketInv, InCopy
  <2> QED  BY <1>2, <2>2, <2>3 DEF MainSend
<1>3. CASE Process
  <2>1. CASE rx' = [rx EXCEPT !.at = "checksum"] /\ UNCHANGED heap
    <3>1. rx'.at # "send" /\ rx.at # "send" /\ rx'.reply = rx.reply
      BY <1>3, <2>1 DEF Process, RxRecords
    <3> QED  BY <1>3, <2>1, <3>1 DEF Process, PacketInv, InCopy
  <2>2. CASE /\ Packets # heap /\ rx' = [rx EXCEPT !.at = "send", !.reply = NewPacket]
             /\ heap' = heap \cup {NewPacket}
    <3>1. NewPacket \in Packets \ heap /\ NewPacket # Nothing
      BY <1>1, <2>2, NewPacketIsFree
    <3>2. rx'.at = "send" /\ rx'.reply = NewPacket /\ rx.reply = Nothing
      BY <1>1, <1>3, <2>2 DEF Process, RxRecords
    <3>3. Owned(heap', q, app, rx'.reply, InCopy)
      BY <1>1, <2>2, <3>1, <3>2, OwnNew
    <3> QED  BY <1>3, <3>1, <3>2, <3>3 DEF Process, PacketInv, InCopy
  <2> QED  BY <1>3, <2>1, <2>2 DEF Process
<1>4. CASE ReceiveReply
  <2>1. /\ HasRoom /\ q' = Append(q, rx.reply) /\ rx.at = "send"
        /\ UNCHANGED <<heap, app, tx, MACTR>>
    BY <1>4 DEF ReceiveReply, esix_w_send_packet
  <2>2. rx'.at = "checksum" /\ rx'.reply = Nothing
    BY <1>4 DEF ReceiveReply, RxRecords
  <2>3. Owned(heap, q', app, Nothing, InCopy)
    BY <1>1, <2>1, OwnSend
  <2>4. Len(q') <= SendLength /\ InCopy' = InCopy
    BY <1>1, <2>1 DEF HasRoom, InCopy
  <2> QED  BY <2>1, <2>2, <2>3, <2>4 DEF PacketInv
<1>5. CASE AppMalloc
  <2>1. /\ app = Nothing /\ Packets # heap /\ app' = NewPacket /\ heap' = heap \cup {NewPacket}
        /\ UNCHANGED <<rx, ether_send_queue, tx, MACTR>>
    BY <1>5 DEF AppMalloc, rxVars
  <2>2. Owned(heap', q, app', rx.reply, InCopy)
    BY <1>1, <2>1, NewPacketIsFree, OwnNew
  <2> QED  BY <2>1, <2>2 DEF PacketInv, InCopy
<1>6. CASE AppSend
  <2>1. /\ app # Nothing /\ HasRoom /\ q' = Append(q, app) /\ app' = Nothing
        /\ UNCHANGED <<heap, rx, tx, MACTR>>
    BY <1>6 DEF AppSend, esix_w_send_packet, rxVars
  <2>2. Owned(heap, q', Nothing, rx.reply, InCopy)
    BY <1>1, <2>1, OwnSend
  <2>3. app \in Packets
    BY <1>1, <2>1 DEF Owned
  <2>4. Len(q') <= SendLength /\ InCopy' = InCopy
    BY <1>1, <2>1, <2>3 DEF HasRoom, InCopy
  <2> QED  BY <2>1, <2>2, <2>4 DEF PacketInv
<1>7. CASE AppFree
  <2>1. heap' = heap \ {app} /\ app' = Nothing /\ UNCHANGED <<rx, ether_send_queue, tx, MACTR>>
    BY <1>7 DEF AppFree, rxVars
  <2>2. Owned(heap', q, Nothing, rx.reply, InCopy)
    BY <1>1, <2>1, OwnFree
  <2> QED  BY <2>1, <2>2 DEF PacketInv, InCopy
<1>8. CASE SendReceive
  <2>1. /\ tx.at = "receive" /\ q # <<>> /\ tx' = [at |-> "copy", packet |-> Head(q)]
        /\ q' = Tail(q) /\ UNCHANGED <<rx, heap, app, MACTR>>
    BY <1>8 DEF SendReceive, rxVars
  <2>2. InCopy = Nothing /\ InCopy' = Head(q)
    BY <2>1 DEF InCopy
  <2>3. Owned(heap, q', app, rx.reply, InCopy')
    BY <1>1, <2>1, <2>2, OwnReceive
  <2>4. Len(q') <= SendLength /\ tx' \in TxRecords
    BY <1>1, <2>1 DEF TxRecords
  <2> QED  BY <2>1, <2>3, <2>4 DEF PacketInv
<1>9. CASE SendCopy
  <2>1. /\ tx.at = "copy" /\ heap' = heap \ {tx.packet} /\ tx' = [tx EXCEPT !.at = "start"]
        /\ UNCHANGED <<rx, ether_send_queue, app, MACTR>>
    BY <1>9 DEF SendCopy, rxVars
  <2>2. tx' \in TxRecords /\ InCopy = tx.packet /\ InCopy' = Nothing
    BY <1>1, <2>1 DEF TxRecords, InCopy
  <2>3. Owned(heap', q, app, rx.reply, Nothing)
    BY <1>1, <2>1, <2>2, OwnFree
  <2> QED  BY <2>1, <2>2, <2>3 DEF PacketInv
<1>10. CASE SendStart \/ SendWait \/ Transmitted
  <2>1. UNCHANGED <<rx, heap, ether_send_queue, app>>
    BY <1>10 DEF SendStart, SendWait, Transmitted, rxVars
  <2>2. MACTR' \in BOOLEAN
    BY <1>10 DEF SendStart, SendWait, Transmitted, PacketInv
  <2>3. tx' \in TxRecords /\ (tx' = tx \/ (tx.at # "copy" /\ tx'.at # "copy"))
    BY <1>1, <1>10 DEF SendStart, SendWait, Transmitted, TxRecords
  <2>4. InCopy' = InCopy
    BY <2>3 DEF InCopy
  <2> QED  BY <2>1, <2>2, <2>3, <2>4 DEF PacketInv
<1>11. CASE UNCHANGED txVars /\ rx'.reply = rx.reply /\ (rx'.at = "send" <=> rx.at = "send")
  BY <1>11 DEF PacketInv, txVars, InCopy
<1> QED  BY PacketSteps, <1>2, <1>3, <1>4, <1>5, <1>6, <1>7, <1>8, <1>9, <1>10, <1>11 DEF SendTask

-----------------------------------------------------------------------------
(* The whole.                                                              *)
BoardInv == ReceiveInv /\ PacketInv /\ UartToken /\ UartQueue

(* The receiver, whatever the step.                                        *)
LEMMA ReceiveNext ==
  ASSUME ReceiveInv, heap \subseteq Packets, [Next]_vars PROVE ReceiveInv'
<1>1. CASE UNCHANGED <<boot, rxVars>>
  BY <1>1 DEF ReceiveInv, NothingPhantom, BufferBounded, RXINT, rxVars
<1> QED  BY <1>1, ReceiverSteps, ReceiveMain, ReceiveFrame, ReceiveStep

(* The invariant holds in every reachable state.                           *)
LEMMA Invariant == Spec => []BoardInv
<1>1. Init => BoardInv
  BY ReceiveInit, PacketInit, UartTokenInit, UartQueueInit DEF BoardInv
<1>2. BoardInv /\ [Next]_vars => BoardInv'
  <2> SUFFICES ASSUME BoardInv, [Next]_vars PROVE BoardInv'
    OBVIOUS
  <2>1. ReceiveInv /\ PacketInv /\ UartToken /\ UartQueue
    BY DEF BoardInv
  <2>2. heap \subseteq Packets /\ rx \in RxRecords
    BY <2>1 DEF PacketInv, Owned, ReceiveInv
  <2> QED  BY <2>1, <2>2, ReceiveNext, PacketStep, UartTokenStep, UartQueueStep DEF BoardInv
<1> QED  BY <1>1, <1>2, PTL DEF Spec

(* The receive task is told of every frame in the FIFO, and never of one   *)
(* that it has read already: the interrupt that is masked while it works,  *)
(* the test for an empty FIFO and the semaphore lose and add nothing.      *)
THEOREM ToldInTime == Spec => []ToldOfFrames
<1>1. ASSUME ReceiveInv PROVE FramesNoticed /\ NothingPhantom
  BY <1>1 DEF ReceiveInv, FramesNoticed, Started, Setting
<1> QED  BY <1>1, Invariant, PTL DEF BoardInv, ToldOfFrames

(* The frame that is read never leaves the buffer, whatever its header     *)
(* says; the queues hold no more than they have room for, and a character  *)
(* is never written over the one that is being sent.                       *)
THEOREM NothingIsOverrun == Spec => []NothingOverrun
<1>1. ASSUME BoardInv PROVE NothingOverrun
  <2>1. ReceiveInv /\ PacketInv /\ UartToken /\ UartQueue
    BY <1>1 DEF BoardInv
  <2>2. /\ boot.sent \in 0 .. InitPackets /\ MACIM \in BOOLEAN /\ ether_receive_sem \in BOOLEAN
        /\ rx.at \in RxStages /\ BufferBounded
    BY <2>1 DEF ReceiveInv, BootRecords, RxRecords
  <2>3. MACTR \in BOOLEAN /\ heap \subseteq Packets /\ Len(ether_send_queue) <= SendLength
    BY <2>1 DEF PacketInv, Owned
  <2>4. /\ uart.at \in {"receive", "write", "take"} /\ uart.c \in 0 .. accepted
        /\ Len(uart_send_queue) <= UartLength
    BY <2>1 DEF UartQueue, UartRecords
  <2>5. PortNotOverrun
    BY <2>1 DEF UartToken, PortNotOverrun
  <2> QED  BY <2>2, <2>3, <2>4, <2>5 DEF NothingOverrun, TypeOK, RxStages
<1> QED  BY <1>1, Invariant, PTL

(* A sequence without repetition has as many elements as its length.       *)
LEMMA DistinctCounted ==
  ASSUME NEW q \in Seq(Packets), Distinct(q) PROVE Cardinality(ToSet(q)) = Len(q)
<1> DEFINE I == 1 .. Len(q)
<1>1. IsFiniteSet(I) /\ Cardinality(I) = Len(q)
  <2>1. \A n \in Int : IsFiniteSet(1 .. n) /\ Cardinality(1 .. n) = IF 1 > n THEN 0 ELSE n - 1 + 1
    BY FS_Interval
  <2>2. Len(q) \in Nat
    OBVIOUS
  <2> QED  BY <2>1, <2>2
<1>2. q \in [I -> ToSet(q)]
  BY DEF ToSet
<1>3. q \in Bijection(I, ToSet(q))
  BY <1>2 DEF Bijection, Injection, IsInjective, Surjection, Distinct, ToSet
<1> QED  BY <1>1, <1>3, FS_Bijection DEF ExistsBijection

(* A packet is allocated as long as exactly one of the applications, the   *)
(* receive task, the send queue and the send task holds it: it is neither  *)
(* freed under anyone nor lost.                                            *)
THEOREM PacketsStayOwned == Spec => []PacketsOwned
<1>1. ASSUME PacketInv PROVE PacketsOwned
  <2> DEFINE q == ether_send_queue
  <2>1. Owned(heap, q, app, rx.reply, InCopy) /\ tx \in TxRecords /\ Nothing \notin Packets
    BY <1>1, EthernetAssumption DEF PacketInv
  <2>2. q \in Seq(Packets) /\ \A x : x \in ToSet(q) <=> InQueue(q, x)
    BY <2>1 DEF Owned, ToSet, InQueue
  <2>3. /\ DOMAIN Holders = {"app", "reply", "queue", "tx"}
        /\ Holders["app"] = {app} /\ Holders["reply"] = {rx.reply}
        /\ Holders["queue"] = ToSet(q)
        /\ Holders["tx"] = IF tx.at = "copy" THEN {tx.packet} ELSE {}
    BY DEF Holders
  <2>4. UNION {Holders[h] : h \in DOMAIN Holders}
          = Holders["app"] \cup Holders["reply"] \cup Holders["queue"] \cup Holders["tx"]
    BY <2>3
  <2>5. Holders["tx"] \ {Nothing} = {InCopy} \ {Nothing}
    BY <2>3 DEF InCopy
  <2>6. heap = (UNION {Holders[h] : h \in DOMAIN Holders}) \ {Nothing}
    <3>1. \A x \in heap : x \in {app} \cup {rx.reply} \cup ToSet(q) \cup {InCopy} /\ x # Nothing
      BY <2>1, <2>2 DEF Owned
    <3>2. \A x \in ({app} \cup {rx.reply} \cup ToSet(q) \cup {InCopy}) \ {Nothing} : x \in heap
      <4>1. \A x \in ToSet(q) : x \in Packets
        BY <2>2 DEF ToSet
      <4> QED  BY <2>1, <2>2, <4>1 DEF Owned
    <3>3. heap = ({app} \cup {rx.reply} \cup ToSet(q) \cup {InCopy}) \ {Nothing}
      BY <3>1, <3>2
    <3> HIDE DEF Holders
    <3> QED  BY <2>3, <2>4, <2>5, <3>3
  <2>7. \A g, h \in DOMAIN Holders : g # h => Holders[g] \cap Holders[h] \subseteq {Nothing}
    BY <2>1, <2>2, <2>3, <2>5 DEF Owned
  <2>8. Cardinality(ToSet(q)) = Len(q)
    BY <2>1, <2>2, DistinctCounted DEF Owned
  <2> QED  BY <2>6, <2>7, <2>8 DEF PacketsOwned
<1> QED  BY <1>1, Invariant, PTL DEF BoardInv

-----------------------------------------------------------------------------
(* Whole frames.  The words of the FIFO are those of consecutive frames,   *)
(* up to the end of the last that has come; as long as the task is in      *)
(* step, where it is in its frame says which word is next.                 *)

WordsIn(a, n) == FrameWords(a[n].len)
IsWord(a, w) == w[1] \in 1 .. Len(a) /\ w[2] \in 1 .. WordsIn(a, w[1])
WordAfter(a, w) == IF w[2] < WordsIn(a, w[1]) THEN <<w[1], w[2] + 1>> ELSE <<w[1] + 1, 1>>

Whole(f, a) ==
  /\ f \in Seq(Words) /\ a \in Seq(Headers)
  /\ \A i \in 1 .. Len(f) : IsWord(a, f[i])
  /\ \A i \in 1 .. Len(f) : i < Len(f) => f[i + 1] = WordAfter(a, f[i])
  /\ f # <<>> => f[Len(f)] = <<Len(a), WordsIn(a, Len(a))>>

(* Frame n is the next, and before it there is none the stack should have  *)
(* been given after frame p.                                               *)
Boundary(f, a, n) == IF f = <<>> THEN n = Len(a) + 1 ELSE f[1] = <<n, 1>>
Skipped(a, p, n) ==
  /\ p \in Nat /\ p < n
  /\ \A m \in Nat : p < m /\ m < n => ~(a[m].v6 /\ ~TooBig(a[m].len))
Between(f, a, p) == \E n \in Nat : Boundary(f, a, n) /\ Skipped(a, p, n)

(* What has been read of frame n is got, and there is more of it.          *)
Reads(f, a, n, got) ==
  /\ n \in 1 .. Len(a) /\ f # <<>> /\ f[1] = <<n, Len(got) + 1>>
  /\ got = WordsOf(n, 1, Len(got)) /\ got # <<>>
Begun(f, a, p, got) == \E n \in Nat : Reads(f, a, n, got) /\ Skipped(a, p, n)
Goes(f, a, p, got, left) ==
  \E n \in Nat :
    /\ Reads(f, a, n, got) /\ Skipped(a, p, n)
    /\ a[n].v6 /\ ~TooBig(a[n].len) /\ Len(got) + left = WordsIn(a, n) - 1

(* Of frame n, the stack has what it should have; the words that are still *)
(* to be read of it are no more than those to be discarded and one.        *)
ReadTo(f, a, n, k) ==
  IF k < WordsIn(a, n) THEN f # <<>> /\ f[1] = <<n, k + 1>> ELSE Boundary(f, a, n + 1)
Leaves(f, a, p, n, left) ==
  /\ n \in 1 .. Len(a) /\ Skipped(a, p, n + 1)
  /\ \E k \in 1 .. WordsIn(a, n) : ReadTo(f, a, n, k) /\ WordsIn(a, n) - k <= left + 1

Aligned(f, a, p, r) ==
  /\ r.at \in {"take", "test", "give", "unmask"} => Between(f, a, p)
  /\ r.at = "header" => IF r.got = <<>> THEN Between(f, a, p) ELSE Begun(f, a, p, r.got)
  /\ r.at = "payload" => Goes(f, a, p, r.got, r.left)
  /\ r.at = "discard" => Leaves(f, a, p, r.got[1][1], r.left)
  /\ r.at \in {"send", "checksum"} => Leaves(f, a, p, r.got[1][1], 0)

FrameInv ==
  /\ Whole(fifo, arrived) /\ passed \in Nat /\ inStep \in BOOLEAN
  /\ inStep => Aligned(fifo, arrived, passed, rx)

(* The words of a frame, one by one.                                       *)
LEMMA WordAt ==
  ASSUME NEW n \in Nat, NEW m \in Nat
  PROVE  /\ Len(WordsOf(n, 1, m)) = m
         /\ \A i \in 1 .. m : WordsOf(n, 1, m)[i] = <<n, i>>
         /\ Append(WordsOf(n, 1, m), <<n, m + 1>>) = WordsOf(n, 1, m + 1)
         /\ WordsOf(n, 1, m) \in Seq(Words)
<1>1. \A l \in Nat : WordsOf(n, 1, l) = [i \in 1 .. l |-> <<n, i>>]
  BY DEF WordsOf
<1> DEFINE w(l) == [i \in 1 .. l |-> <<n, i>>]
<1>2. \A l \in Nat : w(l) \in Seq(Words) /\ Len(w(l)) = l
  BY DEF Words
<1>3. \A i \in 1 .. m + 1 : Append(w(m), <<n, m + 1>>)[i] = w(m + 1)[i]
  BY <1>2
<1>4. Append(w(m), <<n, m + 1>>) = w(m + 1)
  BY <1>2, <1>3
<1>5. \A i \in 1 .. m : w(m)[i] = <<n, i>>
  OBVIOUS
<1>6. m + 1 \in Nat /\ \A l \in Nat : w(l) = WordsOf(n, 1, l)
  BY <1>1
<1> HIDE DEF w
<1> QED  BY <1>2, <1>4, <1>5, <1>6

(* How many words a frame has.                                             *)
LEMMA FrameSize ==
  ASSUME NEW a \in Seq(Headers), NEW n \in 1 .. Len(a)
  PROVE  /\ a[n].len \in WireLengths /\ a[n].len \in Nat /\ a[n].len > 0 /\ a[n].v6 \in BOOLEAN
         /\ WordsIn(a, n) = PayloadWords(a[n].len) + 5 /\ PayloadWords(a[n].len) \in Nat
         /\ WordsIn(a, n) \in Nat /\ WordsIn(a, n) >= 6
         /\ PayloadWords(a[n].len) <= a[n].len
<1>1. a[n] \in Headers
  OBVIOUS
<1>2. a[n].len \in WireLengths /\ a[n].v6 \in BOOLEAN
  BY <1>1 DEF Headers
<1>3. a[n].len \in Nat /\ a[n].len > 0
  <2>1. \A x \in WireLengths : x \in Nat \ {0}
    BY EthernetAssumption
  <2>2. a[n].len \in Nat \ {0}
    BY <1>2, <2>1
  <2> QED  BY <2>2
<1> DEFINE l == a[n].len
<1>4. \A x \in Nat : x > 0 => /\ (x + 3) \div 4 \in Nat /\ (x + 3) \div 4 >= 1
                              /\ (x + 3) \div 4 <= x
  OBVIOUS
<1>5. PayloadWords(l) = (l + 3) \div 4
  BY <1>3 DEF PayloadWords
<1> QED  BY <1>2, <1>3, <1>4, <1>5 DEF WordsIn, FrameWords

(* A word that is read takes the task to the next.                         *)
LEMMA Advance ==
  ASSUME NEW f, NEW a, Whole(f, a), f # <<>>
  PROVE  /\ Whole(Tail(f), a) /\ IsWord(a, f[1])
         /\ ReadTo(Tail(f), a, f[1][1], f[1][2])
<1>1. /\ f \in Seq(Words) /\ a \in Seq(Headers) /\ Len(f) \in Nat /\ Len(f) >= 1
      /\ 1 \in 1 .. Len(f)
  BY DEF Whole
<1>2. /\ Tail(f) \in Seq(Words) /\ Len(Tail(f)) = Len(f) - 1
      /\ \A i \in 1 .. Len(Tail(f)) : Tail(f)[i] = f[i + 1] /\ i + 1 \in 1 .. Len(f)
  BY <1>1
<1>3. IsWord(a, f[1])
  BY <1>1 DEF Whole
<1>4. Whole(Tail(f), a)
  <2>1. \A i \in 1 .. Len(Tail(f)) : IsWord(a, Tail(f)[i])
    BY <1>2 DEF Whole
  <2>2. ASSUME NEW i \in 1 .. Len(Tail(f)), i < Len(Tail(f))
        PROVE  Tail(f)[i + 1] = WordAfter(a, Tail(f)[i])
    <3>1. i + 1 \in 1 .. Len(Tail(f)) /\ i + 1 < Len(f) /\ i + 1 \in 1 .. Len(f)
      BY <1>1, <1>2, <2>2
    <3>2. Tail(f)[i + 1] = f[(i + 1) + 1] /\ Tail(f)[i] = f[i + 1]
      BY <1>2, <3>1
    <3>3. f[(i + 1) + 1] = WordAfter(a, f[i + 1])
      BY <3>1 DEF Whole
    <3> QED  BY <3>2, <3>3
  <2>3. Tail(f) # <<>> => Tail(f)[Len(Tail(f))] = f[Len(f)]
    BY <1>1, <1>2
  <2> QED  BY <1>1, <1>2, <2>1, <2>2, <2>3 DEF Whole
<1>5. ReadTo(Tail(f), a, f[1][1], f[1][2])
  <2> DEFINE n == f[1][1]
             k == f[1][2]
  <2>1. n \in Nat /\ k \in Nat /\ n <= Len(a) /\ k <= WordsIn(a, n) /\ WordsIn(a, n) \in Nat
        /\ f[1] = <<n, k>> /\ Len(a) \in Nat
    <3>1. n \in 1 .. Len(a) /\ k \in 1 .. WordsIn(a, n)
      BY <1>3 DEF IsWord
    <3>2. f[1] \in Words
      BY <1>1
    <3> QED  BY <1>1, <3>1, <3>2, FrameSize DEF Words
  <2>2. CASE Len(f) = 1
    <3>1. Tail(f) = <<>> /\ <<n, k>> = <<Len(a), WordsIn(a, Len(a))>>
      BY <1>1, <1>2, <2>1, <2>2 DEF Whole
    <3>2. n = Len(a) /\ k = WordsIn(a, n)
      BY <3>1
    <3> QED  BY <2>1, <3>1, <3>2 DEF ReadTo, Boundary
  <2>3. CASE Len(f) # 1
    <3>0. f \in Seq(Words) /\ f # <<>> /\ Tail(f) \in Seq(Words) /\ Len(Tail(f)) = Len(f) - 1
      BY <1>1, <1>2
    <3>1. 1 < Len(f) /\ 1 \in 1 .. Len(f)
      BY <2>3, <3>0
    <3>2. f[2] = WordAfter(a, f[1])
      BY <3>1 DEF Whole
    <3>3. Tail(f)[1] = f[2] /\ Tail(f) # <<>>
      <4> DEFINE t == Tail(f)
      <4>0. t \in Seq(Words) /\ Len(t) = Len(f) - 1 /\ Len(f) \in Nat /\ 1 < Len(f)
        BY <3>0, <3>1
      <4> HIDE DEF t
      <4>1. 1 \in 1 .. Len(t) /\ t # <<>>
        BY <4>0
      <4> QED  BY <1>2, <4>1 DEF t
    <3> QED  BY <2>1, <3>2, <3>3 DEF ReadTo, Boundary, WordAfter
  <2> QED  BY <2>2, <2>3
<1> QED  BY <1>3, <1>4, <1>5

(* What is the same when a frame has come.                                 *)
LEMMA ArrivedBefore ==
  ASSUME NEW a \in Seq(Headers), NEW h \in Headers
  PROVE  /\ Append(a, h) \in Seq(Headers) /\ Len(Append(a, h)) = Len(a) + 1
         /\ \A n \in 1 .. Len(a) : /\ Append(a, h)[n] = a[n]
                                   /\ WordsIn(Append(a, h), n) = WordsIn(a, n)
         /\ WordsIn(Append(a, h), Len(a) + 1) = FrameWords(h.len)
         /\ FrameWords(h.len) \in Nat /\ FrameWords(h.len) >= 6
<1>1. h.len \in WireLengths
  BY DEF Headers
<1>2. FrameWords(h.len) \in Nat /\ FrameWords(h.len) >= 6
  BY <1>1, FrameHasWords
<1>3. \A n \in 1 .. Len(a) : Append(a, h)[n] = a[n]
  OBVIOUS
<1>4. Append(a, h)[Len(a) + 1] = h
  OBVIOUS
<1>5. Append(a, h) \in Seq(Headers) /\ Len(Append(a, h)) = Len(a) + 1
  OBVIOUS
<1> QED  BY <1>2, <1>3, <1>4, <1>5 DEF WordsIn

(* The words that a frame adds, after those that are there.                *)
LEMMA WordsAdded ==
  ASSUME NEW f \in Seq(Words), NEW n \in Nat, NEW m \in Nat
  PROVE  LET g == f \o WordsOf(n, 1, m) IN
         /\ g \in Seq(Words) /\ Len(g) = Len(f) + m
         /\ \A i \in 1 .. Len(f) : g[i] = f[i]
         /\ \A i \in 1 .. m : g[Len(f) + i] = <<n, i>>
<1> DEFINE w == WordsOf(n, 1, m)
<1>1. w \in Seq(Words) /\ Len(w) = m /\ \A i \in 1 .. m : w[i] = <<n, i>>
  BY WordAt
<1> HIDE DEF w
<1>2. f \o w \in Seq(Words) /\ Len(f \o w) = Len(f) + m
  <2>1. w \in Seq(Words) /\ Len(w) = m
    BY <1>1
  <2> QED  BY <2>1
<1>3. \A i \in 1 .. Len(f) : (f \o w)[i] = f[i]
  BY <1>1
<1>4. \A i \in 1 .. m : (f \o w)[Len(f) + i] = <<n, i>>
  <2> SUFFICES ASSUME NEW i \in 1 .. m PROVE (f \o w)[Len(f) + i] = <<n, i>>
    OBVIOUS
  <2>1. (f \o w)[Len(f) + i] = w[i]
    BY <1>1
  <2> QED  BY <1>1, <2>1
<1> QED  BY <1>2, <1>3, <1>4 DEF w

(* A frame that comes keeps the FIFO whole.                                *)
LEMMA ArrivalWhole ==
  ASSUME NEW f, NEW a, Whole(f, a), NEW h \in Headers
  PROVE  Whole(f \o WordsOf(Len(a) + 1, 1, FrameWords(h.len)), Append(a, h))
<1>1. f \in Seq(Words) /\ a \in Seq(Headers) /\ Len(f) \in Nat /\ Len(a) \in Nat
  BY DEF Whole
<1> DEFINE b == Append(a, h)
           l == Len(a) + 1
           m == FrameWords(h.len)
           g == f \o WordsOf(l, 1, m)
<1>2. /\ b \in Seq(Headers) /\ Len(b) = l /\ WordsIn(b, l) = m /\ m \in Nat /\ m >= 6
      /\ \A n \in 1 .. Len(a) : WordsIn(b, n) = WordsIn(a, n)
  BY <1>1, ArrivedBefore
<1>3. l \in Nat /\ l = Len(a) + 1
  BY <1>1
<1> HIDE DEF b, l, m
<1>4. /\ g \in Seq(Words) /\ Len(g) = Len(f) + m
      /\ \A i \in 1 .. Len(f) : g[i] = f[i]
      /\ \A i \in 1 .. m : g[Len(f) + i] = <<l, i>>
  BY <1>1, <1>2, <1>3, WordsAdded, ZenonT(40)
<1> HIDE DEF g
<1>5. ASSUME NEW i \in 1 .. Len(g)
      PROVE  IsWord(b, g[i]) /\ (i < Len(g) => g[i + 1] = WordAfter(b, g[i]))
  <2>1. CASE i <= Len(f)
    <3>1. i \in 1 .. Len(f)
      BY <1>1, <2>1
    <3>2. g[i] = f[i] /\ IsWord(a, f[i])
      BY <1>4, <3>1 DEF Whole
    <3>3. f[i][1] \in 1 .. Len(a) /\ WordsIn(b, f[i][1]) = WordsIn(a, f[i][1])
      BY <1>2, <3>2 DEF IsWord
    <3>4. IsWord(b, g[i])
      BY <1>1, <1>2, <1>3, <3>2, <3>3 DEF IsWord
    <3>5. WordAfter(b, g[i]) = WordAfter(a, f[i])
      BY <3>2, <3>3 DEF WordAfter
    <3>6. CASE i < Len(f)
      <4>1. i + 1 \in 1 .. Len(f)
        BY <1>1, <3>1, <3>6
      <4> QED  BY <1>4, <3>1, <3>4, <3>5, <3>6, <4>1 DEF Whole
    <3>7. CASE i = Len(f)
      <4>1. f[i] = <<Len(a), WordsIn(a, Len(a))>>
        BY <1>1, <3>1, <3>7 DEF Whole
      <4>2. WordAfter(a, f[i]) = <<l, 1>>
        <5>1. f[i][1] = Len(a) /\ f[i][2] = WordsIn(a, Len(a)) /\ WordsIn(a, Len(a)) \in Nat
          <6>1. Len(a) \in 1 .. Len(a)
            BY <3>3, <4>1
          <6> QED  BY <1>1, <4>1, <6>1, FrameSize
        <5> QED  BY <1>3, <5>1 DEF WordAfter
      <4>3. 1 \in 1 .. m
        BY <1>2
      <4>4. g[i + 1] = <<l, 1>>
        BY <1>4, <3>7, <4>3
      <4> QED  BY <3>4, <3>5, <4>2, <4>4
    <3> QED  BY <1>1, <2>1, <3>6, <3>7
  <2>2. CASE i > Len(f)
    <3> DEFINE j == i - Len(f)
    <3>1. j \in Nat /\ j >= 1 /\ j <= m /\ i = Len(f) + j
      BY <1>1, <1>2, <1>4, <2>2
    <3> HIDE DEF j
    <3>2. g[i] = <<l, j>>
      BY <1>2, <1>4, <3>1
    <3>3. IsWord(b, g[i])
      BY <1>1, <1>2, <1>3, <3>1, <3>2 DEF IsWord
    <3>4. ASSUME i < Len(g) PROVE g[i + 1] = WordAfter(b, g[i])
      <4>1. j < m /\ j + 1 \in 1 .. m /\ i + 1 = Len(f) + (j + 1)
        BY <1>1, <1>2, <1>4, <3>1, <3>4
      <4>2. g[i + 1] = <<l, j + 1>>
        BY <1>4, <4>1
      <4> QED  BY <1>2, <3>2, <4>1, <4>2 DEF WordAfter
    <3> QED  BY <3>3, <3>4
  <2> QED  BY <1>1, <2>1, <2>2
<1>6. g[Len(g)] = <<Len(b), WordsIn(b, Len(b))>>
  <2>1. m \in 1 .. m
    BY <1>2
  <2> QED  BY <1>2, <1>4, <2>1
<1>7. Whole(g, b)
  BY <1>2, <1>4, <1>5, <1>6 DEF Whole
<1> QED  BY <1>7 DEF g, b, l, m

(* A frame that comes leaves the task aligned.                             *)
LEMMA ArrivalAligned ==
  ASSUME NEW f, NEW a, Whole(f, a), NEW h \in Headers, NEW p, NEW r, Aligned(f, a, p, r)
  PROVE  Aligned(f \o WordsOf(Len(a) + 1, 1, FrameWords(h.len)), Append(a, h), p, r)
<1>1. f \in Seq(Words) /\ a \in Seq(Headers) /\ Len(f) \in Nat /\ Len(a) \in Nat
  BY DEF Whole
<1> DEFINE b == Append(a, h)
           l == Len(a) + 1
           m == FrameWords(h.len)
           g == f \o WordsOf(l, 1, m)
<1>2. /\ Len(b) = l /\ m \in Nat /\ m >= 6
      /\ \A n \in 1 .. Len(a) : b[n] = a[n] /\ WordsIn(b, n) = WordsIn(a, n)
  BY <1>1, ArrivedBefore
<1>3. l \in Nat /\ l = Len(a) + 1
  BY <1>1
<1> HIDE DEF b, l, m
<1>4. /\ g \in Seq(Words) /\ Len(g) = Len(f) + m
      /\ \A i \in 1 .. Len(f) : g[i] = f[i]
      /\ \A i \in 1 .. m : g[Len(f) + i] = <<l, i>>
  BY <1>1, <1>2, <1>3, WordsAdded
<1> HIDE DEF g
<1>5. g # <<>> /\ (f # <<>> => g[1] = f[1]) /\ (f = <<>> => g[1] = <<l, 1>>)
  <2>1. g # <<>>
    BY <1>1, <1>2, <1>4
  <2>2. ASSUME f # <<>> PROVE g[1] = f[1]
    <3>1. 1 \in 1 .. Len(f)
      BY <1>1, <2>2
    <3> QED  BY <1>4, <3>1
  <2>3. ASSUME f = <<>> PROVE g[1] = <<l, 1>>
    <3>1. 1 \in 1 .. m /\ Len(f) + 1 = 1
      BY <1>2, <2>3
    <3> QED  BY <1>4, <3>1
  <2> QED  BY <2>1, <2>2, <2>3
<1>6. \A n \in Nat : Boundary(f, a, n) => Boundary(g, b, n) /\ n <= l
  <2> SUFFICES ASSUME NEW n \in Nat, Boundary(f, a, n) PROVE Boundary(g, b, n) /\ n <= l
    OBVIOUS
  <2>1. CASE f = <<>>
    BY <1>3, <1>5, <2>1 DEF Boundary
  <2>2. CASE f # <<>>
    <3>1. f[1] = <<n, 1>> /\ IsWord(a, f[1])
      BY <2>2, Advance DEF Boundary
    <3> QED  BY <1>1, <1>3, <1>5, <2>2, <3>1 DEF Boundary, IsWord
  <2> QED  BY <2>1, <2>2
<1>7. \A n \in Nat : n <= l /\ Skipped(a, p, n) => Skipped(b, p, n)
  BY <1>1, <1>2, <1>3 DEF Skipped
<1>8. \A n \in Nat : \A got : Reads(f, a, n, got) =>
        Reads(g, b, n, got) /\ n <= l /\ b[n] = a[n] /\ WordsIn(b, n) = WordsIn(a, n)
  BY <1>1, <1>2, <1>3, <1>5 DEF Reads
<1>9. ASSUME Between(f, a, p) PROVE Between(g, b, p)
  BY <1>6, <1>7, <1>9 DEF Between
<1>10. \A got : Begun(f, a, p, got) => Begun(g, b, p, got)
  BY <1>7, <1>8 DEF Begun
<1>11. \A got, left : Goes(f, a, p, got, left) => Goes(g, b, p, got, left)
  BY <1>7, <1>8 DEF Goes
<1>12. \A n, left : Leaves(f, a, p, n, left) => Leaves(g, b, p, n, left)
  <2> SUFFICES ASSUME NEW n, NEW left, Leaves(f, a, p, n, left) PROVE Leaves(g, b, p, n, left)
    OBVIOUS
  <2>1. n \in 1 .. Len(a) /\ Skipped(a, p, n + 1) /\ n \in Nat /\ n + 1 \in Nat
    BY <1>1 DEF Leaves
  <2>2. n + 1 <= l /\ n \in 1 .. Len(b) /\ WordsIn(b, n) = WordsIn(a, n)
    BY <1>1, <1>2, <1>3, <2>1
  <2>3. PICK k \in 1 .. WordsIn(a, n) : ReadTo(f, a, n, k) /\ WordsIn(a, n) - k <= left + 1
    BY DEF Leaves
  <2>4. ReadTo(g, b, n, k)
    BY <1>5, <1>6, <2>1, <2>2, <2>3 DEF ReadTo
  <2>5. Skipped(b, p, n + 1)
    BY <1>7, <2>1, <2>2
  <2> QED  BY <2>2, <2>3, <2>4, <2>5 DEF Leaves
<1>13. Aligned(g, b, p, r)
  BY <1>9, <1>10, <1>11, <1>12 DEF Aligned
<1> QED  BY <1>13 DEF g, b, l, m

(* A word that is read in step is the next of its frame.                   *)
LEMMA ReadsOn ==
  ASSUME NEW f, NEW a, Whole(f, a), f # <<>>, NEW n \in Nat, NEW got \in Seq(Words),
         (got = <<>> /\ f[1] = <<n, 1>>) \/ Reads(f, a, n, got)
  PROVE  LET new == Append(got, f[1]) IN
         /\ Len(new) = Len(got) + 1 /\ new # <<>> /\ new[1][1] = n
         /\ n \in 1 .. Len(a) /\ new = WordsOf(n, 1, Len(new))
         /\ Len(new) < WordsIn(a, n) => Reads(Tail(f), a, n, new)
         /\ f[1] = <<n, Len(new)>> /\ ReadTo(Tail(f), a, n, Len(new))
<1> DEFINE l == Len(got)
           new == Append(got, f[1])
<1>1. l \in Nat /\ l + 1 \in Nat
  OBVIOUS
<1>2. got = WordsOf(n, 1, l) /\ f[1] = <<n, l + 1>>
  <2>1. ASSUME got = <<>> PROVE got = WordsOf(n, 1, 0)
    BY <2>1, WordAt
  <2>2. CASE got = <<>> /\ f[1] = <<n, 1>>
    BY <2>1, <2>2
  <2> QED  BY <2>2 DEF Reads
<1>3. f[1] \in Words
  BY DEF Whole
<1>4. new \in Seq(Words) /\ Len(new) = l + 1 /\ new # <<>>
  BY <1>3
<1>5. new = WordsOf(n, 1, l + 1)
  <2> HIDE DEF l, new
  <2>1. Append(WordsOf(n, 1, l), <<n, l + 1>>) = WordsOf(n, 1, l + 1)
    BY <1>1, WordAt
  <2>2. new = Append(WordsOf(n, 1, l), <<n, l + 1>>)
    BY <1>2 DEF new
  <2> QED  BY <2>1, <2>2
<1>6. new[1] = <<n, 1>>
  <2> HIDE DEF l, new
  <2>1. 1 \in 1 .. l + 1
    BY <1>1
  <2> QED  BY <1>1, <1>5, <2>1, WordAt
<1>7. n \in 1 .. Len(a) /\ ReadTo(Tail(f), a, n, l + 1)
  <2>1. IsWord(a, f[1]) /\ ReadTo(Tail(f), a, f[1][1], f[1][2])
    BY Advance
  <2>2. f[1][1] = n /\ f[1][2] = l + 1
    BY <1>2
  <2> HIDE DEF l
  <2> QED  BY <2>1, <2>2 DEF IsWord
<1>8. ASSUME Len(new) < WordsIn(a, n) PROVE Reads(Tail(f), a, n, new)
  <2> HIDE DEF l, new
  <2> QED  BY <1>4, <1>5, <1>7, <1>8 DEF Reads, ReadTo
<1> HIDE DEF l, new
<1> QED  BY <1>2, <1>4, <1>5, <1>6, <1>7, <1>8 DEF l, new

(* What the accesses to the FIFO do to it.                                 *)
LEMMA Access ==
  ASSUME FrameInv, ReadWord
  PROVE  /\ Whole(fifo', arrived)
         /\ IF fifo = <<>> THEN fifo' = fifo /\ Word = <<Nothing, 0>>
            ELSE fifo' = Tail(fifo) /\ Word = fifo[1]
<1>1. Whole(fifo, arrived)
  BY DEF FrameInv
<1>2. fifo # <<>> => Whole(Tail(fifo), arrived)
  BY <1>1, Advance
<1>3. fifo # <<>> => Head(fifo) = fifo[1]
  BY <1>1 DEF Whole
<1> QED  BY <1>1, <1>2, <1>3 DEF ReadWord, Word

(* A word of what is discarded, or a checksum.                             *)
LEMMA LeavesOn ==
  ASSUME FrameInv, ReadWord, NEW n, NEW left \in Nat,
         Leaves(fifo, arrived, passed, n, left), Word[1] \in {n, Nothing}
  PROVE  /\ left > 0 => Leaves(fifo', arrived, passed, n, left - 1)
         /\ left = 0 => Between(fifo', arrived, passed)
<1>1. /\ Whole(fifo, arrived) /\ fifo \in Seq(Words) /\ arrived \in Seq(Headers)
      /\ Len(arrived) \in Nat
  BY DEF FrameInv, Whole
<1>2. n \in 1 .. Len(arrived) /\ Skipped(arrived, passed, n + 1)
  BY DEF Leaves
<1> DEFINE w == WordsIn(arrived, n)
<1>3. w \in Nat /\ n \in Nat /\ n + 1 \in Nat
  BY <1>1, <1>2, FrameSize
<1>4. PICK k \in 1 .. w : ReadTo(fifo, arrived, n, k) /\ w - k <= left + 1
  BY DEF Leaves
<1> HIDE DEF w
<1>5. k \in Nat /\ k <= w /\ k >= 1
  BY <1>3, <1>4
<1>6. PICK j \in 1 .. w : ReadTo(fifo', arrived, n, j) /\ w - j <= left
  <2>1. CASE fifo = <<>>
    <3>1. fifo' = fifo
      BY <2>1, Access
    <3>2. k = w
      BY <1>4, <1>5, <1>3, <2>1 DEF ReadTo, w
    <3> QED  BY <1>3, <1>4, <1>5, <3>1, <3>2
  <2>2. CASE fifo # <<>>
    <3>1. fifo' = Tail(fifo) /\ Word = fifo[1]
      BY <2>2, Access
    <3>2. IsWord(arrived, fifo[1]) /\ ReadTo(Tail(fifo), arrived, fifo[1][1], fifo[1][2])
      BY <1>1, <2>2, Advance
    <3>3. fifo[1][1] # Nothing
      BY <1>1, <3>2, EthernetAssumption DEF IsWord
    <3>4. fifo[1][1] = n
      BY <3>1, <3>3
    <3>5. CASE k < w
      <4>1. fifo[1] = <<n, k + 1>>
        BY <1>4, <3>5 DEF ReadTo, w
      <4>2. k + 1 \in 1 .. w /\ w - (k + 1) <= left
        BY <1>3, <1>4, <1>5, <3>5
      <4> QED  BY <3>1, <3>2, <4>1, <4>2
    <3>6. CASE ~(k < w)
      <4>1. fifo[1] = <<n + 1, 1>>
        BY <1>4, <2>2, <3>6 DEF ReadTo, Boundary, w
      <4> QED  BY <1>3, <3>4, <4>1
    <3> QED  BY <3>5, <3>6
  <2> QED  BY <2>1, <2>2
<1>7. j \in Nat /\ j <= w /\ j >= 1
  BY <1>3, <1>6
<1>8. ASSUME left > 0 PROVE Leaves(fifo', arrived, passed, n, left - 1)
  <2>1. w - j <= (left - 1) + 1
    BY <1>6
  <2> QED  BY <1>2, <1>6, <2>1 DEF Leaves, w
<1>9. ASSUME left = 0 PROVE Between(fifo', arrived, passed)
  <2>1. ~(j < w)
    BY <1>3, <1>6, <1>7, <1>9
  <2>2. Boundary(fifo', arrived, n + 1)
    BY <1>6, <2>1 DEF ReadTo, w
  <2> QED  BY <1>2, <1>3, <2>2 DEF Between
<1> QED  BY <1>8, <1>9

(* At first there is nothing.                                              *)
LEMMA FrameInit == ASSUME Init PROVE FrameInv
<1>1. fifo = <<>> /\ arrived = <<>> /\ passed = 0 /\ inStep = TRUE /\ rx = Idle
  BY DEF Init, EtherInit
<1>2. Whole(<<>>, <<>>)
  BY DEF Whole
<1>3. rx.at = "take"
  BY <1>1 DEF Idle
<1>4. Between(<<>>, <<>>, 0)
  <2>1. Boundary(<<>>, <<>>, 1) /\ Skipped(<<>>, 0, 1)
    BY DEF Boundary, Skipped
  <2> QED  BY <2>1 DEF Between
<1> QED  BY <1>1, <1>2, <1>3, <1>4 DEF FrameInv, Aligned

(* The words of a header, and what they say of the frame.                  *)
LEMMA FrameHeader ==
  ASSUME FrameInv, ReceiveInv, ReadHeader PROVE FrameInv'
<1> DEFINE got == Append(rx.got, Word)
<1>1. /\ rx \in RxRecords /\ rx.got \in Seq(Words) /\ Len(rx.got) < 4 /\ rx.at = "header"
      /\ Whole(fifo, arrived) /\ arrived \in Seq(Headers)
  BY DEF ReceiveInv, RxRecords, ReadHeader, FrameInv, Whole
<1>2. Whole(fifo', arrived) /\ UNCHANGED <<arrived, inStep, passed>>
  BY Access DEF ReadHeader
<1>3. ASSUME inStep PROVE Aligned(fifo', arrived, passed, rx')
  <2>1. Aligned(fifo, arrived, passed, rx)
    BY <1>3 DEF FrameInv
  <2>2. PICK n \in Nat : /\ fifo # <<>> /\ Skipped(arrived, passed, n)
                         /\ \/ rx.got = <<>> /\ fifo[1] = <<n, 1>>
                            \/ Reads(fifo, arrived, n, rx.got)
    <3>1. CASE rx.got = <<>>
      <4>1. fifo # <<>>
        BY <1>1, <3>1 DEF ReceiveInv, NothingPhantom, RXINT
      <4>2. Between(fifo, arrived, passed)
        BY <1>1, <2>1, <3>1 DEF Aligned
      <4> QED  BY <3>1, <4>1, <4>2 DEF Between, Boundary
    <3>2. CASE rx.got # <<>>
      <4>1. Begun(fifo, arrived, passed, rx.got)
        BY <1>1, <2>1, <3>2 DEF Aligned
      <4> QED  BY <4>1 DEF Begun, Reads
    <3> QED  BY <3>1, <3>2
  <2>3. Word = fifo[1] /\ fifo' = Tail(fifo)
    BY <2>2, Access DEF ReadHeader
  <2>4. /\ Len(got) = Len(rx.got) + 1 /\ got # <<>> /\ got[1][1] = n
        /\ n \in 1 .. Len(arrived) /\ got = WordsOf(n, 1, Len(got))
        /\ Len(got) < WordsIn(arrived, n) => Reads(fifo', arrived, n, got)
        /\ ReadTo(fifo', arrived, n, Len(got))
    BY <1>1, <2>2, <2>3, ReadsOn, SMTT(30)
  <2>5. /\ arrived[n].len \in Nat /\ arrived[n].len > 0 /\ arrived[n].v6 \in BOOLEAN
        /\ WordsIn(arrived, n) = PayloadWords(arrived[n].len) + 5
        /\ PayloadWords(arrived[n].len) \in Nat /\ WordsIn(arrived, n) >= 6
        /\ PayloadWords(arrived[n].len) <= arrived[n].len
    BY <1>1, <2>4, FrameSize
  <2>6. got \in Seq(Words) /\ Len(got) \in Nat /\ Len(got) <= 4
    <3>1. Word \in Words
      BY WordRead DEF ReadHeader
    <3> QED  BY <1>1, <2>4, <3>1
  <2>7. Reads(fifo', arrived, n, got)
    BY <2>4, <2>5, <2>6
  <2> HIDE DEF got
  <2>8. CASE Len(got) < 4
    <3>1. rx' = [rx EXCEPT !.got = got]
      BY <2>8 DEF ReadHeader, got
    <3>2. rx'.at = "header" /\ rx'.got = got
      BY <1>1, <3>1 DEF RxRecords
    <3>3. Begun(fifo', arrived, passed, got)
      BY <2>2, <2>7 DEF Begun
    <3> QED  BY <2>4, <3>2, <3>3 DEF Aligned
  <2>9. CASE ~(Len(got) < 4)
    <3>1. Len(got) = 4
      <4>1. \A x \in Nat : x <= 4 /\ ~(x < 4) => x = 4
        OBVIOUS
      <4> QED  BY <2>6, <2>9, <4>1
    <3>2. HeadersRead(got) = {arrived[n]}
      <4>1. n \in DOMAIN arrived
        BY <1>1, <2>4
      <4>2. got = WordsOf(n, 1, 4) /\ got[1][1] = n
        BY <2>4, <3>1
      <4> QED  BY <4>1, <4>2, Zenon DEF HeadersRead
    <3> DEFINE h == arrived[n]
    <3>3. rx' = [rx EXCEPT !.got = got, !.len = h.len, !.at = AfterHeader(h).at,
                           !.left = AfterHeader(h).left]
      BY <2>9, <3>2 DEF ReadHeader, got
    <3> HIDE DEF h
    <3>4. rx'.at = AfterHeader(h).at /\ rx'.got = got /\ rx'.left = AfterHeader(h).left
      BY <1>1, <3>3 DEF RxRecords
    <3>5. CASE TooBig(h.len) \/ ~h.v6
      <4>1. rx'.at = "discard" /\ rx'.left = h.len
        BY <2>5, <3>4, <3>5 DEF AfterHeader, h
      <4>2. 4 \in 1 .. WordsIn(arrived, n) /\ WordsIn(arrived, n) - 4 <= h.len + 1
        BY <2>5 DEF h
      <4>3. Skipped(arrived, passed, n + 1)
        BY <2>2, <3>5 DEF Skipped, h
      <4>4. Leaves(fifo', arrived, passed, n, h.len)
        BY <2>4, <3>1, <4>2, <4>3 DEF Leaves
      <4> QED  BY <2>4, <3>4, <4>1, <4>4 DEF Aligned
    <3>6. CASE ~(TooBig(h.len) \/ ~h.v6)
      <4>1. rx'.at = "payload" /\ rx'.left = PayloadWords(h.len)
        BY <3>4, <3>6 DEF AfterHeader
      <4>2. 4 + PayloadWords(h.len) = WordsIn(arrived, n) - 1
        BY <2>5 DEF h
      <4>3. Goes(fifo', arrived, passed, got, PayloadWords(h.len))
        BY <2>2, <2>7, <3>1, <3>6, <4>2 DEF Goes, h
      <4> QED  BY <3>4, <4>1, <4>3 DEF Aligned
    <3> QED  BY <3>5, <3>6
  <2> QED  BY <2>8, <2>9
<1> QED  BY <1>2, <1>3 DEF FrameInv

(* The words of a payload.                                                 *)
LEMMA FramePayload ==
  ASSUME FrameInv, ReceiveInv, ReadPayload PROVE FrameInv'
<1> DEFINE got == Append(rx.got, Word)
           left == rx.left - 1
<1>1. /\ rx \in RxRecords /\ rx.got \in Seq(Words) /\ rx.left \in Nat /\ rx.left > 0
      /\ rx.at = "payload" /\ Whole(fifo, arrived) /\ arrived \in Seq(Headers)
  BY DEF ReceiveInv, RxRecords, ReadPayload, FrameInv, Whole
<1>2. Whole(fifo', arrived) /\ UNCHANGED <<arrived, inStep, passed>>
  BY Access DEF ReadPayload
<1>3. rx' = [rx EXCEPT !.got = got, !.left = left]
  BY DEF ReadPayload
<1>4. ASSUME inStep PROVE Aligned(fifo', arrived, passed, rx')
  <2>1. Goes(fifo, arrived, passed, rx.got, rx.left)
    BY <1>1, <1>4 DEF FrameInv, Aligned
  <2>2. PICK n \in Nat : /\ Reads(fifo, arrived, n, rx.got) /\ Skipped(arrived, passed, n)
                         /\ arrived[n].v6 /\ ~TooBig(arrived[n].len)
                         /\ Len(rx.got) + rx.left = WordsIn(arrived, n) - 1
    BY <2>1 DEF Goes
  <2>3. fifo # <<>> /\ Word = fifo[1] /\ fifo' = Tail(fifo)
    BY <2>2, Access DEF Reads, ReadPayload
  <2>4. /\ Len(got) = Len(rx.got) + 1 /\ n \in 1 .. Len(arrived)
        /\ Len(got) < WordsIn(arrived, n) => Reads(fifo', arrived, n, got)
    BY <1>1, <2>2, <2>3, ReadsOn
  <2>5. WordsIn(arrived, n) \in Nat /\ Len(rx.got) \in Nat
    BY <1>1, <2>4, FrameSize
  <2> HIDE DEF got
  <2>6. Len(got) + left = WordsIn(arrived, n) - 1 /\ left \in Nat
    <3>1. Len(got) = Len(rx.got) + 1 /\ Len(rx.got) + rx.left = WordsIn(arrived, n) - 1
      BY <2>2, <2>4
    <3>2. rx.left \in Nat /\ rx.left > 0
      BY <1>1
    <3> QED  BY <2>5, <3>1, <3>2
  <2> HIDE DEF left
  <2>7. Reads(fifo', arrived, n, got)
    BY <2>4, <2>5, <2>6
  <2>8. Goes(fifo', arrived, passed, got, left)
    BY <2>2, <2>6, <2>7 DEF Goes
  <2>9. rx'.at = "payload" /\ rx'.got = got /\ rx'.left = left
    BY <1>1, <1>3 DEF RxRecords
  <2> QED  BY <2>8, <2>9 DEF Aligned
<1> QED  BY <1>2, <1>4 DEF FrameInv

(* A frame is discarded, word by word, or its checksum is read.            *)
LEMMA FrameLeft ==
  ASSUME FrameInv, ReceiveInv, ReadDiscarded \/ ReadChecksum PROVE FrameInv'
<1> DEFINE n == rx.got[1][1]
<1>1. rx \in RxRecords /\ rx.left \in Nat
  BY DEF ReceiveInv, RxRecords
<1>2. ReadWord /\ Whole(fifo', arrived) /\ UNCHANGED <<arrived, passed>>
  BY Access DEF ReadDiscarded, ReadChecksum
<1>3. inStep' = (inStep /\ Word[1] \in {n, Nothing})
  BY DEF ReadDiscarded, ReadChecksum
<1>4. CASE ReadDiscarded
  <2> DEFINE left == rx.left - 1
  <2>1. rx.at = "discard" /\ rx.left > 0 /\ rx' = [rx EXCEPT !.left = left]
    BY <1>4 DEF ReadDiscarded
  <2> HIDE DEF left
  <2>2. rx'.at = "discard" /\ rx'.got[1][1] = n /\ rx'.left = left
    BY <1>1, <2>1 DEF RxRecords
  <2> HIDE DEF n
  <2>3. ASSUME inStep' PROVE Aligned(fifo', arrived, passed, rx')
    <3>1. Leaves(fifo, arrived, passed, n, rx.left)
      BY <1>3, <2>1, <2>3 DEF FrameInv, Aligned, n
    <3>2. Leaves(fifo', arrived, passed, n, left)
      BY <1>1, <1>2, <1>3, <2>1, <2>3, <3>1, LeavesOn DEF left
    <3> QED  BY <2>2, <3>2 DEF Aligned
  <2> QED  BY <1>2, <1>3, <2>3 DEF FrameInv
<1>5. CASE ReadChecksum
  <2>1. rx.at = "checksum" /\ rx' = [Idle EXCEPT !.at = "test"]
    BY <1>5 DEF ReadChecksum
  <2>2. rx'.at = "test"
    BY <2>1, IdleAt DEF RxStages
  <2> HIDE DEF n
  <2>3. ASSUME inStep' PROVE Aligned(fifo', arrived, passed, rx')
    <3>1. Leaves(fifo, arrived, passed, n, 0)
      BY <1>3, <2>1, <2>3 DEF FrameInv, Aligned, n
    <3>2. Between(fifo', arrived, passed)
      BY <1>2, <1>3, <2>3, <3>1, LeavesOn
    <3> QED  BY <2>2, <3>2 DEF Aligned
  <2> QED  BY <1>2, <1>3, <2>3 DEF FrameInv
<1> QED  BY <1>4, <1>5

(* The task begins, is done with a frame, or goes from one to the next.    *)
LEMMA FrameRests ==
  ASSUME FrameInv, ReceiveInv,
         ether_handler \/ ReceiveTake \/ TestEmpty \/ ReceiveGive \/ ReceiveUnmask
  PROVE  FrameInv'
<1>1. fifo' = fifo /\ arrived' = arrived
  BY DEF ether_handler, ReceiveTake, TestEmpty, ReceiveGive, ReceiveUnmask
<1>2. CASE ether_handler
  BY <1>2 DEF ether_handler, FrameInv
<1>3. CASE ReceiveTake
  <2>1. rx'.at = "header" /\ rx'.got = <<>>
    BY <1>3, IdleAt DEF ReceiveTake, RxStages
  <2> QED  BY <1>1, <1>3, <2>1 DEF ReceiveTake, FrameInv, Aligned
<1>4. CASE ReceiveGive \/ ReceiveUnmask
  <2>1. rx'.at = "take"
    BY <1>4 DEF ReceiveGive, ReceiveUnmask, Idle
  <2> QED  BY <1>1, <1>4, <2>1 DEF ReceiveGive, ReceiveUnmask, FrameInv, Aligned
<1>5. CASE TestEmpty
  <2>1. rx'.at \in {"give", "unmask"} /\ rx.at = "test"
    BY <1>5, IdleAt DEF TestEmpty, RxStages
  <2>2. CASE inStep
    <3>1. Between(fifo, arrived, passed) /\ inStep' = TRUE /\ passed' = passed
      BY <1>5, <2>1, <2>2 DEF TestEmpty, FrameInv, Aligned
    <3> QED  BY <1>1, <2>1, <3>1 DEF FrameInv, Aligned
  <2>3. CASE ~inStep /\ fifo # <<>>
    <3>1. inStep' = FALSE /\ passed' = passed
      BY <1>5, <2>3 DEF TestEmpty, RXINT
    <3> QED  BY <1>1, <3>1 DEF FrameInv
  <2>4. CASE ~inStep /\ fifo = <<>>
    <3>1. inStep' = TRUE /\ passed' = Len(arrived)
      BY <1>5, <2>4 DEF TestEmpty, RXINT
    <3>2. Len(arrived) \in Nat
      BY DEF FrameInv, Whole
    <3>3. Skipped(arrived, Len(arrived), Len(arrived) + 1)
      BY <3>2 DEF Skipped
    <3>4. Boundary(fifo, arrived, Len(arrived) + 1)
      BY <2>4 DEF Boundary
    <3>5. Between(fifo, arrived, Len(arrived))
      BY <3>2, <3>3, <3>4 DEF Between
    <3> QED  BY <1>1, <2>1, <3>1, <3>2, <3>5 DEF FrameInv, Aligned
  <2> QED  BY <2>2, <2>3, <2>4 DEF FrameInv
<1> QED  BY <1>2, <1>3, <1>4, <1>5

(* The stack is given a frame, and may answer; or one has been discarded.  *)
LEMMA FrameGiven ==
  ASSUME FrameInv, ReceiveInv, Process \/ ReceiveReply \/ Discarded PROVE FrameInv'
<1> DEFINE n == rx.got[1][1]
<1>1. rx \in RxRecords /\ Whole(fifo, arrived) /\ arrived \in Seq(Headers) /\ inStep \in BOOLEAN
  BY DEF ReceiveInv, FrameInv, Whole
<1>2. fifo' = fifo /\ arrived' = arrived /\ inStep' = inStep
  BY DEF Process, ReceiveReply, Discarded
<1>3. rx'.at \in {"send", "checksum"} /\ rx'.got = rx.got
  <2>1. CASE Process
    BY <1>1, <2>1 DEF Process, RxRecords
  <2>2. CASE ReceiveReply \/ Discarded
    BY <1>1, <2>2 DEF ReceiveReply, Discarded, RxRecords
  <2> QED  BY <2>1, <2>2
<1>4. CASE ReceiveReply \/ Discarded
  <2>1. passed' = passed /\ (rx.at = "send" \/ (rx.at = "discard" /\ rx.left = 0))
    BY <1>4 DEF ReceiveReply, Discarded
  <2> QED  BY <1>2, <1>3, <2>1 DEF FrameInv, Aligned
<1>5. CASE Process
  <2>1. rx.at = "payload" /\ rx.left = 0 /\ passed' = IF inStep THEN n ELSE passed
    BY <1>5 DEF Process
  <2>2. ASSUME inStep PROVE n \in Nat /\ Aligned(fifo, arrived, n, rx')
    <3>1. Goes(fifo, arrived, passed, rx.got, 0)
      BY <2>1, <2>2 DEF FrameInv, Aligned
    <3>2. PICK m \in Nat : /\ Reads(fifo, arrived, m, rx.got)
                           /\ Len(rx.got) + 0 = WordsIn(arrived, m) - 1
      BY <3>1 DEF Goes
    <3>3. m \in 1 .. Len(arrived) /\ rx.got = WordsOf(m, 1, Len(rx.got))
      BY <3>2 DEF Reads
    <3>4. WordsIn(arrived, m) \in Nat /\ WordsIn(arrived, m) >= 6
      BY <1>1, <3>3, FrameSize
    <3> DEFINE k == Len(rx.got)
    <3>5. rx.got \in Seq(Words)
      BY <1>1 DEF RxRecords
    <3>6. k \in Nat /\ k = WordsIn(arrived, m) - 1
      BY <3>2, <3>5
    <3>7. fifo # <<>> /\ fifo[1] = <<m, k + 1>>
      BY <3>2 DEF Reads
    <3> HIDE DEF k
    <3>8. 1 \in 1 .. k /\ k \in 1 .. WordsIn(arrived, m) /\ k < WordsIn(arrived, m)
      BY <3>4, <3>6
    <3>9. n = m
      <4>1. WordsOf(m, 1, k)[1] = <<m, 1>>
        BY <3>6, <3>8, WordAt
      <4> QED  BY <3>3, <4>1 DEF k
    <3> HIDE DEF n
    <3>10. ReadTo(fifo, arrived, m, k) /\ WordsIn(arrived, m) - k <= 0 + 1
      BY <3>4, <3>6, <3>7, <3>8 DEF ReadTo
    <3>11. Skipped(arrived, m, m + 1)
      BY DEF Skipped
    <3>12. Leaves(fifo, arrived, m, m, 0)
      BY <3>3, <3>8, <3>10, <3>11 DEF Leaves
    <3> QED  BY <1>3, <3>9, <3>12 DEF Aligned, n
  <2> QED  BY <1>2, <2>1, <2>2 DEF FrameInv
<1> QED  BY <1>4, <1>5

(* Whole frames, whatever the step.                                        *)
LEMMA FrameNext ==
  ASSUME FrameInv, ReceiveInv, [Next]_vars PROVE FrameInv'
<1>1. ASSUME MainSteps PROVE FrameInv'
  <2>1. UNCHANGED <<arrived, fifo, rx, inStep, passed>>
    BY <1>1 DEF MainSteps, MainUart, MainEther, MainEnable, MainSend, MainStart,
                ether_init, ether_enable, etherVars, rxVars
  <2> QED  BY <2>1 DEF FrameInv
<1>2. ASSUME FrameArrives PROVE FrameInv'
  <2>1. UNCHANGED <<rx, inStep, passed>>
    BY <1>2 DEF FrameArrives
  <2>2. PICK len \in WireLengths, v6 \in BOOLEAN :
          /\ arrived' = Append(arrived, [len |-> len, v6 |-> v6])
          /\ fifo' = fifo \o WordsOf(Len(arrived) + 1, 1, FrameWords(len))
    BY <1>2 DEF FrameArrives
  <2> DEFINE h == [len |-> len, v6 |-> v6]
  <2>3. h \in Headers /\ h.len = len
    BY DEF Headers
  <2> HIDE DEF h
  <2>4. /\ arrived' = Append(arrived, h)
        /\ fifo' = fifo \o WordsOf(Len(arrived) + 1, 1, FrameWords(h.len))
    BY <2>2, <2>3 DEF h
  <2>5. Whole(fifo', arrived')
    BY <2>3, <2>4, ArrivalWhole DEF FrameInv
  <2>6. ASSUME inStep PROVE Aligned(fifo', arrived', passed, rx)
    BY <2>3, <2>4, <2>6, ArrivalAligned DEF FrameInv
  <2> QED  BY <2>1, <2>5, <2>6 DEF FrameInv
<1>3. ASSUME ether_handler \/ ReceiveTask PROVE FrameInv'
  BY <1>3, FrameHeader, FramePayload, FrameLeft, FrameRests, FrameGiven DEF ReceiveTask
<1>4. ASSUME UNCHANGED <<boot, rxVars>> PROVE FrameInv'
  BY <1>4 DEF rxVars, FrameInv
<1> QED  BY ReceiverSteps, <1>1, <1>2, <1>3, <1>4

(* What the stack is given is one whole frame of the wire that is for it,  *)
(* the first since the last that it was given, as long as no discarded     *)
(* frame has taken words of the next with it.                              *)
THEOREM FramesStayWhole == Spec => []FramesWhole
<1>1. Spec => [](BoardInv /\ FrameInv)
  <2>1. BoardInv => ReceiveInv
    BY DEF BoardInv
  <2> QED  BY <2>1, FrameInit, FrameNext, Invariant, PTL DEF Spec
<1>2. ASSUME ReceiveInv, FrameInv PROVE FramesWhole
  <2> SUFFICES ASSUME Given, inStep
               PROVE  \E n \in DOMAIN arrived :
                        n > passed /\ GivenFrame(n) /\ \A m \in (passed + 1) .. (n - 1) : ~ForStack(m)
    BY DEF FramesWhole
  <2>1. Goes(fifo, arrived, passed, rx.got, 0)
    BY <1>2 DEF FrameInv, Aligned, Given
  <2>2. PICK n \in Nat :
          /\ Reads(fifo, arrived, n, rx.got) /\ Skipped(arrived, passed, n)
          /\ arrived[n].v6 /\ ~TooBig(arrived[n].len)
          /\ Len(rx.got) + 0 = WordsIn(arrived, n) - 1
    BY <2>1 DEF Goes
  <2>3. arrived \in Seq(Headers) /\ n \in 1 .. Len(arrived) /\ rx.got = WordsOf(n, 1, Len(rx.got))
    BY <1>2, <2>2 DEF Reads, FrameInv, Whole
  <2>4. rx.got \in Seq(Words)
    BY <1>2 DEF ReceiveInv, RxRecords
  <2>5. Len(rx.got) = FrameWords(arrived[n].len) - 1
    BY <2>2, <2>4 DEF WordsIn
  <2>6. GivenFrame(n)
    BY <2>2, <2>3, <2>5 DEF GivenFrame, ForStack
  <2>7. \A m \in (passed + 1) .. (n - 1) : ~ForStack(m)
    BY <2>2 DEF Skipped, ForStack
  <2> QED  BY <2>2, <2>3, <2>6, <2>7 DEF Skipped
<1> QED  BY <1>1, <1>2, PTL DEF BoardInv

=============================================================================
