-------------------------------- MODULE Uart --------------------------------
(***************************************************************************)
(* The serial port of the demo (uart.c): characters are queued by          *)
(* uart_putc, written one at a time by a task, and the transmit interrupt  *)
(* tells the task that the port can take the next one.  Characters are     *)
(* numbered as they are accepted.                                          *)
(***************************************************************************)
EXTENDS Integers, Sequences

CONSTANTS
  UartLength  \* characters that uart_send_queue holds

ASSUME UartAssumption == UartLength \in Nat

VARIABLES
  uart_send_queue,
  uart_send_sem,    \* the semaphore can be taken
  uart,             \* where uart_send_task is, and its character
  DR,               \* the character that is being sent, 0 if none
  MIS,              \* the transmit interrupt is pending
  accepted          \* ghost: how many uart_putc has queued

uartVars == <<uart_send_queue, uart_send_sem, uart, DR, MIS, accepted>>

UartInit ==
  /\ uart_send_queue = <<>> /\ uart_send_sem = FALSE /\ accepted = 0
  /\ uart = [at |-> "receive", c |-> 0] /\ DR = 0 /\ MIS = FALSE

uart_init ==
  /\ uart_send_sem' = FALSE
  /\ UNCHANGED <<uart_send_queue, uart, DR, MIS, accepted>>

(* A character that finds the queue full is dropped.                       *)
uart_putc ==
  IF Len(uart_send_queue) < UartLength
  THEN /\ accepted' = accepted + 1
       /\ uart_send_queue' = Append(uart_send_queue, accepted + 1)
       /\ UNCHANGED <<uart_send_sem, uart, DR, MIS>>
  ELSE UNCHANGED uartVars

UartReceive ==
  /\ uart.at = "receive" /\ uart_send_queue # <<>>
  /\ uart' = [at |-> "write", c |-> Head(uart_send_queue)]
  /\ uart_send_queue' = Tail(uart_send_queue)
  /\ UNCHANGED <<uart_send_sem, DR, MIS, accepted>>

UartWrite ==
  /\ uart.at = "write"
  /\ DR' = uart.c
  /\ uart' = [uart EXCEPT !.at = "take"]
  /\ UNCHANGED <<uart_send_queue, uart_send_sem, MIS, accepted>>

UartTake ==
  /\ uart.at = "take" /\ uart_send_sem
  /\ uart_send_sem' = FALSE
  /\ uart' = [at |-> "receive", c |-> 0]
  /\ UNCHANGED <<uart_send_queue, DR, MIS, accepted>>

(* The port has sent the character.                                        *)
CharSent ==
  /\ DR # 0
  /\ DR' = 0 /\ MIS' = TRUE
  /\ UNCHANGED <<uart_send_queue, uart_send_sem, uart, accepted>>

uart_handler ==
  /\ MIS /\ MIS' = FALSE
  /\ uart_send_sem' = TRUE
  /\ UNCHANGED <<uart_send_queue, uart, DR, accepted>>

=============================================================================
