---------------------------------- MODULE Spi ----------------------------------
(***************************************************************************)
(* drivers/src/spi.c over the FIFOs of the SPI peripheral: a full-duplex   *)
(* transfer by interrupts.  Each byte shifted out brings one byte in, so   *)
(* the interrupt handler must not send faster than it reads.               *)
(*                                                                         *)
(* Bytes are numbered: the device answers byte i of a transfer with i.     *)
(* The port has one user at a time (busy is tested and set without a lock).*)
(***************************************************************************)
EXTENDS Integers, Sequences

CONSTANTS
    SpiLens,        \* lengths of transfers
    TxDepth,        \* bytes taken while TXE is set: the FIFO up to its mark, and
                    \* the shift register
    RxDepth         \* bytes the receive FIFO holds

\* The receive FIFO is at least as deep as what the transmit side takes.
ASSUME SpiAssumption ==
  /\ SpiLens \subseteq Nat \ {0}
  /\ TxDepth \in Nat /\ RxDepth \in Nat
  /\ TxDepth <= RxDepth

VARIABLES
    spi,            \* the context; rxBuf is what rx_buf has got
    spiHw           \* FIFOs, interrupt enables and the overrun flag

spiVars == <<spi, spiHw>>

\* spi_init and spi_hal_init
SpiInit ==
  /\ spi = [busy |-> FALSE, len |-> 0, txCount |-> 0, rxCount |-> 0, rxBuf |-> << >>]
  /\ spiHw = [tx |-> << >>, rx |-> << >>, txeie |-> FALSE, rxneie |-> FALSE, ovr |-> FALSE]

\* spi_transfer_async, from its tests of busy on.
Started(len) ==
  [busy |-> TRUE, len |-> len, txCount |-> 0, rxCount |-> 0, rxBuf |-> << >>]

SpiTransferAsync(len) ==
  /\ ~spi.busy
  /\ spi' = Started(len)
  /\ spiHw' = [spiHw EXCEPT !.rxneie = TRUE, !.txeie = TRUE]

\* spi_hal_transfer_byte, len times: it waits for TXE, sends, waits for RXNE and
\* reads, and its bounded waits are long enough for a byte.  It reads what the
\* receive FIFO held before, if it was not empty.
Exchanged(rx, len) == rx \o [i \in 1..len |-> i]

\* spi_transfer
SpiTransfer(len) ==
  LET got == Exchanged(spiHw.rx, len)
  IN  /\ ~spi.busy
      /\ spiHw.tx = << >>
      /\ spi' = [spi EXCEPT !.len = len, !.txCount = len, !.rxCount = len,
                            !.rxBuf = SubSeq(got, 1, len)]
      /\ spiHw' = [spiHw EXCEPT !.rx = SubSeq(got, len + 1, Len(got))]

TxReady == Len(spiHw.tx) < TxDepth

\* The second half of spi_core_irq_handler: the next byte, or no more.
SendNext(s, h) ==
  IF ~TxReady THEN /\ spi' = s /\ spiHw' = h
  ELSE IF s.txCount < s.len
       THEN /\ spi' = [s EXCEPT !.txCount = @ + 1]
            /\ spiHw' = [h EXCEPT !.tx = Append(@, s.txCount + 1)]
       ELSE /\ spi' = s
            /\ spiHw' = [h EXCEPT !.txeie = FALSE]

\* Variant: the handler fills the transmit FIFO, whatever is still to be read.
SpiIrqHandlerEager ==
  LET room == TxDepth - Len(spiHw.tx)
      n == IF room < spi.len - spi.txCount THEN room ELSE spi.len - spi.txCount
      rx == spiHw.rx # << >>
  IN  /\ spi.busy
      /\ n > 0 \/ rx
      /\ spi' = [spi EXCEPT !.txCount = @ + n,
                   !.rxCount = IF rx THEN @ + 1 ELSE @,
                   !.busy = ~(rx /\ spi.rxCount + 1 >= spi.len),
                   !.rxBuf = IF rx THEN Append(@, Head(spiHw.rx)) ELSE @]
      /\ spiHw' = [spiHw EXCEPT !.rx = IF rx THEN Tail(@) ELSE @,
                     !.tx = @ \o [i \in 1..n |-> spi.txCount + i],
                     !.txeie = spi'.busy, !.rxneie = spi'.busy]

\* spi_core_irq_handler: a received byte first; the last one ends the transfer,
\* and the callback may start the next.
SpiIrqHandler ==
  LET rx == spiHw.rx # << >>
      s == [spi EXCEPT !.rxCount = @ + 1,
              !.rxBuf = IF spi.rxCount < spi.len THEN Append(@, Head(spiHw.rx)) ELSE @]
      h == [spiHw EXCEPT !.rx = Tail(@)]
  IN  /\ (spiHw.rxneie /\ rx) \/ (spiHw.txeie /\ TxReady)
      /\ IF ~rx THEN SendNext(spi, spiHw)
         ELSE IF s.rxCount < s.len THEN SendNext(s, h)
         ELSE \/ /\ spi' = [s EXCEPT !.busy = FALSE]
                 /\ spiHw' = [h EXCEPT !.txeie = FALSE, !.rxneie = FALSE]
              \/ /\ spi' \in {Started(len) : len \in SpiLens}
                 /\ spiHw' = [h EXCEPT !.txeie = TRUE, !.rxneie = TRUE]

\* The peripheral shifts a byte out and its answer in; an answer that finds the
\* receive FIFO full is lost.
SpiShift ==
  /\ spiHw.tx # << >>
  /\ spiHw' = [spiHw EXCEPT !.tx = Tail(@),
                 !.rx = IF Len(@) < RxDepth THEN Append(@, Head(spiHw.tx)) ELSE @,
                 !.ovr = @ \/ Len(spiHw.rx) >= RxDepth]
  /\ UNCHANGED spi

SpiNext ==
  \/ \E len \in SpiLens : SpiTransferAsync(len)
  \/ \E len \in SpiLens : SpiTransfer(len)
  \/ SpiIrqHandler
  \/ SpiShift

SpiSpec == SpiInit /\ [][SpiNext]_spiVars

------------------------------------------------------------------------------
(* A transfer is complete and in order: however late the interrupts come,  *)
(* no received byte is overrun, rx_buf holds the answers in order, a port  *)
(* that is not busy has nothing in flight, and a busy one is never stuck   *)
(* without an interrupt to come.                                           *)
TransferExact ==
  /\ ~spiHw.ovr
  /\ spi.rxBuf = [i \in 1..spi.rxCount |-> i]
  /\ spi.txCount - spi.rxCount = Len(spiHw.tx) + Len(spiHw.rx)
  /\ ~spi.busy => spi.rxCount = spi.len /\ ~spiHw.txeie /\ ~spiHw.rxneie
  /\ spi.busy => spiHw.rxneie /\ (spiHw.txeie \/ spi.txCount > spi.rxCount)
==============================================================================
