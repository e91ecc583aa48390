--------------------------------- MODULE Uart ---------------------------------
(***************************************************************************)
(* drivers/src/uart.c without queues, and the interrupt handler of         *)
(* platform/stm32l476rg/drivers/uart_hal.h: two ring buffers between tasks *)
(* and the peripheral.  A ring of n bytes holds at most n - 1.             *)
(*                                                                         *)
(* rxHeld and txHeld are history variables: the bytes accepted and not yet *)
(* delivered, in order.                                                    *)
(***************************************************************************)
EXTENDS Integers, Sequences

CONSTANTS
    RxSize, TxSize,     \* rx_buf_size, tx_buf_size
    Bytes,
    MaxWrite,           \* bound: bytes given to one call of uart_write_buffer
    MaxCount            \* bound: the error counters are followed up to here

ASSUME UartAssumption ==
  /\ {RxSize, TxSize} \subseteq Nat \ {0, 1}
  /\ Bytes \subseteq Nat \ {0}
  /\ {MaxWrite, MaxCount} \subseteq Nat

VARIABLES
    uart,       \* the context: buffers, indices and counters
    usart,      \* the registers: RDR and TDR (a sequence of at most one byte),
                \* the RXNE interrupt enable, TXEIE and the error flags
    rxHeld, txHeld

uartVars == <<uart, usart, rxHeld, txHeld>>

\* What a slot holds that was not written, or was read: a slot is forgotten
\* once its byte is taken, so that a second read would show.
Junk == 0

\* uart_init and uart_hal_init, then uart_enable_rx_interrupt.
UartInit ==
  /\ uart = [rxBuf |-> [i \in 0..RxSize - 1 |-> Junk], rxHead |-> 0, rxTail |-> 0,
             txBuf |-> [i \in 0..TxSize - 1 |-> Junk], txHead |-> 0, txTail |-> 0,
             overflow |-> 0, errors |-> 0]
  /\ usart = [rdr |-> << >>, tdr |-> << >>, txeie |-> FALSE, error |-> FALSE]
  /\ rxHeld = << >>
  /\ txHeld = << >>

\* An index of a ring moves on.
Step(i, size) == IF i + 1 >= size THEN 0 ELSE i + 1

\* uart_available
UartAvailable ==
  IF uart.rxHead >= uart.rxTail THEN uart.rxHead - uart.rxTail
  ELSE RxSize + uart.rxHead - uart.rxTail

\* Index i after n <= size moves, and the indices passed on the way.
At(i, n, size) == IF i + n >= size THEN i + n - size ELSE i + n
Passed(i, n, size) == {At(i, k, size) : k \in 0..n - 1}

\* The bytes the loop of uart_read_buffer copies: it stops at the head.
Copied(u, len) ==
  LET Stop(n) == At(u.rxTail, n, RxSize) = u.rxHead
  IN  CHOOSE n \in 0..len : (n = len \/ Stop(n)) /\ \A m \in 0..n - 1 : ~Stop(m)

\* uart_read_buffer: rxHeld loses what is copied.
UartReadBuffer(len) ==
  LET n == Copied(uart, len)
  IN  /\ n > 0
      /\ uart' = [uart EXCEPT
                    !.rxTail = At(@, n, RxSize),
                    !.rxBuf = [i \in DOMAIN @ |->
                                 IF i \in Passed(uart.rxTail, n, RxSize) THEN Junk ELSE @[i]]]
      /\ rxHeld' = SubSeq(rxHeld, n + 1, Len(rxHeld))
      /\ UNCHANGED <<usart, txHeld>>

\* Variant: the ring is filled to the last byte.
SentFull(u, len) ==
  LET Stop(n) == Len(txHeld) + n >= TxSize
  IN  CHOOSE n \in 0..len : (n = len \/ Stop(n)) /\ \A m \in 0..n - 1 : ~Stop(m)

\* The bytes the loop of uart_write_buffer takes: it stops when the ring is full.
Sent(u, len) ==
  LET Stop(n) == Step(At(u.txHead, n, TxSize), TxSize) = u.txTail
  IN  CHOOSE n \in 0..len : (n = len \/ Stop(n)) /\ \A m \in 0..n - 1 : ~Stop(m)

\* uart_write_buffer, with the transmit interrupt enabled at its end.
UartWriteBuffer(s) ==
  LET n == Sent(uart, Len(s))
  IN  /\ uart' = [uart EXCEPT
                    !.txHead = At(@, n, TxSize),
                    !.txBuf = [i \in DOMAIN @ |->
                                 IF i \in Passed(uart.txHead, n, TxSize)
                                 THEN s[1 + (IF i >= uart.txHead THEN i - uart.txHead
                                             ELSE i + TxSize - uart.txHead)]
                                 ELSE @[i]]]
      /\ usart' = [usart EXCEPT !.txeie = TRUE]
      /\ txHeld' = txHeld \o SubSeq(s, 1, n)
      /\ UNCHANGED rxHeld

Capped(n) == IF n < MaxCount THEN n + 1 ELSE n

\* uart_core_rx_error_callback
RxError(u) == IF usart.error THEN [u EXCEPT !.errors = Capped(@)] ELSE u

\* uart_core_rx_callback: a byte that finds the ring full is counted and lost.
RxFull(u) == Step(u.rxHead, RxSize) = u.rxTail
RxCallback(u, b) ==
  IF RxFull(u) THEN [u EXCEPT !.overflow = Capped(@)]
  ELSE [u EXCEPT !.rxBuf[u.rxHead] = b, !.rxHead = Step(@, RxSize)]

\* uart_core_tx_callback
TxEmpty(u) == u.txHead = u.txTail
TxCallback(u) == [u EXCEPT !.txBuf[u.txTail] = Junk, !.txTail = Step(@, TxSize)]

\* uart_hal_irq_handler: errors, then a received byte, then the next byte to
\* send, or the end of transmit interrupts.
UartIrqHandler ==
  LET rx == usart.rdr # << >>
      tx == usart.tdr = << >> /\ usart.txeie
      u1 == RxError(uart)
      u2 == IF rx THEN RxCallback(u1, Head(usart.rdr)) ELSE u1
      sends == tx /\ ~TxEmpty(u2)
  IN  /\ usart.error \/ rx \/ tx
      /\ uart' = IF sends THEN TxCallback(u2) ELSE u2
      /\ usart' = [rdr |-> << >>,
                   tdr |-> IF sends THEN <<u2.txBuf[u2.txTail]>> ELSE usart.tdr,
                   txeie |-> usart.txeie /\ ~(tx /\ TxEmpty(u2)),
                   error |-> FALSE]
      /\ rxHeld' = IF rx /\ ~RxFull(u1) THEN Append(rxHeld, Head(usart.rdr)) ELSE rxHeld
      /\ txHeld' = IF sends THEN Tail(txHeld) ELSE txHeld

\* The wire: a byte arrives, and overruns one that was not read; the byte in
\* TDR has been sent; a frame is damaged.
WireReceives(b) ==
  /\ usart' = [usart EXCEPT !.rdr = IF @ = << >> THEN <<b>> ELSE @,
                            !.error = @ \/ usart.rdr # << >>]
  /\ UNCHANGED <<uart, rxHeld, txHeld>>

WireSends ==
  /\ usart.tdr # << >>
  /\ usart' = [usart EXCEPT !.tdr = << >>]
  /\ UNCHANGED <<uart, rxHeld, txHeld>>

WireErrs ==
  /\ usart' = [usart EXCEPT !.error = TRUE]
  /\ UNCHANGED <<uart, rxHeld, txHeld>>

UartNext ==
  \/ \E len \in 1..RxSize : UartReadBuffer(len)
  \/ \E n \in 1..MaxWrite : \E s \in [1..n -> Bytes] : UartWriteBuffer(s)
  \/ UartIrqHandler
  \/ \E b \in Bytes : WireReceives(b)
  \/ WireSends
  \/ WireErrs

UartSpec == UartInit /\ [][UartNext]_uartVars

------------------------------------------------------------------------------
\* Between the tail i and the head j of a ring are the bytes held, in order.
Holds(buf, i, j, size, held) ==
  /\ Len(held) < size
  /\ At(i, Len(held), size) = j
  /\ \A k \in 1..Len(held) : buf[At(i, k - 1, size)] = held[k]

(* The rings lose, double and reorder nothing: between the tail and the    *)
(* head are exactly the bytes accepted and not yet delivered, in order,    *)
(* uart_available counts them, and as long as there is one to send the     *)
(* transmit interrupt stays enabled.                                       *)
RingsExact ==
  /\ Holds(uart.rxBuf, uart.rxTail, uart.rxHead, RxSize, rxHeld)
  /\ Holds(uart.txBuf, uart.txTail, uart.txHead, TxSize, txHeld)
  /\ UartAvailable = Len(rxHeld)
  /\ txHeld # << >> => usart.txeie
==============================================================================
