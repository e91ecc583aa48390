---------------------------------- MODULE I2c ----------------------------------
(***************************************************************************)
(* drivers/src/i2c.c and platform/stm32l476rg/drivers/i2c_hal.h: master    *)
(* transfers, by interrupts or by polling, over the I2C peripheral with    *)
(* automatic STOP.  The port has one user at a time; a callback may start  *)
(* the next transfer.                                                      *)
(*                                                                         *)
(* refused is a history variable: some transfer was not acknowledged or    *)
(* failed.  The drivers then leave STOPF, or the error flag, behind.       *)
(***************************************************************************)
EXTENDS Integers, Sequences

CONSTANTS
    I2cLens,        \* lengths of transfers
    MaxNbytes,      \* the most the NBYTES field can say (255)
    Clocks          \* frequencies of the peripheral's clock, in MHz: the
                    \* system clock, which is at most 80

ASSUME I2cAssumption == I2cLens \subseteq Nat \ {0} /\ MaxNbytes \in Nat /\ Clocks \subseteq 1..80

VARIABLES
    i2c,            \* the context, and the point of a polling call
    i2cHw,          \* phase of the bus, data register, flags, interrupt enables
    i2cTiming,      \* TIMINGR, and what it was computed for
    i2cLast,        \* what was reported of the last transfer
    refused

i2cVars == <<i2c, i2cHw, i2cTiming, i2cLast, refused>>

------------------------------------------------------------------------------
(* i2c_hal_compute_timing: cycles of the prescaled clock for the low and    *)
(* the high part of SCL, for the first prescaler they fit with.             *)

CeilDiv(a, b) == (a + b - 1) \div b

\* Minimal times in ns.
LowNs(fast) == IF fast THEN 1300 ELSE 4700
HighMinNs(fast) == IF fast THEN 600 ELSE 4000
HighNs(fast) ==
  LET rest == (IF fast THEN 2500 ELSE 10000) - LowNs(fast)
  IN  IF rest < HighMinNs(fast) THEN HighMinNs(fast) ELSE rest
SetupNs(fast) == IF fast THEN 100 ELSE 250

\* Variant: the cycles are rounded down.
CyclesDown(ns, mhz) == (ns * mhz) \div 1000

Cycles(ns, mhz) == CeilDiv(ns * mhz, 1000)

Fits(p, fast, mhz) ==
  /\ CeilDiv(Cycles(LowNs(fast), mhz), p + 1) \in 1..256
  /\ CeilDiv(Cycles(HighNs(fast), mhz), p + 1) \in 1..256
  /\ CeilDiv(Cycles(SetupNs(fast), mhz), p + 1) <= 16

Timing(fast, mhz) ==
  LET p == CHOOSE q \in 0..15 : Fits(q, fast, mhz) /\ \A r \in 0..q - 1 : ~Fits(r, fast, mhz)
  IN  [presc |-> p,
       scldel |-> CeilDiv(Cycles(SetupNs(fast), mhz), p + 1) - 1,
       sclh |-> CeilDiv(Cycles(HighNs(fast), mhz), p + 1) - 1,
       scll |-> CeilDiv(Cycles(LowNs(fast), mhz), p + 1) - 1]

I2cInit ==
  /\ i2c = [state |-> "NONE", idx |-> 0, len |-> 0, poll |-> "none"]
  /\ i2cHw = [phase |-> "idle", read |-> FALSE, left |-> 0, full |-> FALSE,
              nackf |-> FALSE, stopf |-> FALSE, err |-> FALSE,
              evie |-> FALSE, errie |-> FALSE]
  /\ i2cTiming = <<>>
  /\ i2cLast = [status |-> "NONE", whole |-> FALSE]
  /\ refused = FALSE

\* i2c_create, i2c_init and i2c_hal_init
I2cCreate(fast, mhz) ==
  /\ i2c.state = "NONE"
  /\ i2c' = [i2c EXCEPT !.state = "IDLE"]
  /\ i2cTiming' = [reg |-> Timing(fast, mhz), fast |-> fast, mhz |-> mhz]
  /\ UNCHANGED <<i2cHw, i2cLast, refused>>

------------------------------------------------------------------------------
(* Asynchronous transfers *)

\* i2c_hal_start_master_transfer takes the transfer.
CanStart(h, len) == len <= MaxNbytes /\ h.phase = "idle"
Begun(h, len, read) == [h EXCEPT !.phase = "addr", !.read = read, !.left = len]

\* i2c_master_transmit_async and i2c_master_receive_async.  When the peripheral
\* does not take the transfer the port stays IDLE and only dead fields change.
TransferAsync(c, h, len, read) ==
  /\ i2c' = [c EXCEPT !.state = IF read THEN "RX" ELSE "TX", !.idx = 0, !.len = len]
  /\ i2cHw' = [Begun(h, len, read) EXCEPT !.evie = TRUE, !.errie = TRUE]

I2cTransferAsync(len, read) ==
  /\ i2c.state = "IDLE"
  /\ i2c.poll = "none"
  /\ CanStart(i2cHw, len)
  /\ TransferAsync(i2c, i2cHw, len, read)
  /\ UNCHANGED <<i2cTiming, i2cLast, refused>>

\* All bytes were moved over the bus and, when reading, stored.
Whole(c, h) == h.left = 0 /\ (h.read => c.idx = c.len)

\* i2c_complete: interrupts off, IDLE, and then the callback, which may start
\* the next transfer.
Complete(c, h, status) ==
  LET d == [c EXCEPT !.state = "IDLE"]
      g == [h EXCEPT !.evie = FALSE, !.errie = FALSE]
  IN  /\ i2cLast' = [status |-> status, whole |-> Whole(c, h)]
      /\ \/ i2c' = d /\ i2cHw' = g
         \/ \E len \in I2cLens, read \in BOOLEAN :
              CanStart(g, len) /\ TransferAsync(d, g, len, read)

EventPending ==
  \/ i2cHw.nackf
  \/ i2cHw.stopf
  \/ i2cHw.read /\ i2cHw.full
  \/ ~i2cHw.read /\ ~i2cHw.full /\ i2cHw.phase = "data"

\* The byte a transmit or receive event moves.
Moves(c, h) == h.full = h.read /\ c.idx < c.len
AfterByte(c, h) == IF Moves(c, h) THEN [c EXCEPT !.idx = @ + 1] ELSE c
HwAfterByte(c, h) ==
  IF h.read THEN [h EXCEPT !.full = FALSE]
  ELSE IF Moves(c, h) THEN [h EXCEPT !.full = TRUE] ELSE h

\* Variant: a stop is looked at before the last byte is read.
I2cEvIrqHandlerStopFirst ==
  /\ i2cHw.evie
  /\ EventPending
  /\ i2c.state # "IDLE"
  /\ UNCHANGED <<i2cTiming, refused>>
  /\ IF i2cHw.nackf THEN Complete(i2c, [i2cHw EXCEPT !.nackf = FALSE], "NACK")
     ELSE IF i2cHw.stopf THEN Complete(i2c, [i2cHw EXCEPT !.stopf = FALSE], "OK")
     ELSE /\ i2c' = AfterByte(i2c, i2cHw)
          /\ i2cHw' = HwAfterByte(i2c, i2cHw)
          /\ UNCHANGED i2cLast

\* i2c_core_ev_irq_handler: a refusal ends the transfer; otherwise a byte is
\* moved, and a stop ends the transfer.
I2cEvIrqHandler ==
  LET c == AfterByte(i2c, i2cHw)
      h == HwAfterByte(i2c, i2cHw)
  IN  /\ i2cHw.evie
      /\ EventPending
      /\ i2c.state # "IDLE"
      /\ UNCHANGED <<i2cTiming, refused>>
      /\ IF i2cHw.nackf THEN Complete(i2c, [i2cHw EXCEPT !.nackf = FALSE], "NACK")
         ELSE IF i2cHw.stopf THEN Complete(c, [h EXCEPT !.stopf = FALSE], "OK")
         ELSE i2c' = c /\ i2cHw' = h /\ UNCHANGED i2cLast

\* i2c_core_er_irq_handler: the error flag is not cleared.
I2cErIrqHandler ==
  /\ i2cHw.errie
  /\ i2cHw.err
  /\ i2c.state # "IDLE"
  /\ IF i2cHw.nackf THEN Complete(i2c, [i2cHw EXCEPT !.nackf = FALSE], "NACK")
     ELSE Complete(i2c, i2cHw, "ERR")
  /\ UNCHANGED <<i2cTiming, refused>>

------------------------------------------------------------------------------
(* Polling transfers: i2c_hal_master_transmit and i2c_hal_master_receive *)

\* They wait while the bus is busy and start the transfer.
I2cPollStart(len, read) ==
  /\ i2c.state = "IDLE"
  /\ i2c.poll = "none"
  /\ CanStart(i2cHw, len)
  /\ i2c' = [i2c EXCEPT !.poll = "bytes", !.idx = 0, !.len = len]
  /\ i2cHw' = Begun(i2cHw, len, read)
  /\ UNCHANGED <<i2cTiming, i2cLast, refused>>

\* One byte of the loop.
I2cPollByte ==
  /\ i2c.poll = "bytes"
  /\ Moves(i2c, i2cHw)
  /\ i2c' = [AfterByte(i2c, i2cHw) EXCEPT !.poll = IF i2c.idx + 1 = i2c.len THEN "stop" ELSE @]
  /\ i2cHw' = HwAfterByte(i2c, i2cHw)
  /\ UNCHANGED <<i2cTiming, i2cLast, refused>>

\* Transmission gives up when it is refused, which it looks for while it waits
\* for TXE or for the stop; reception does not look.
I2cPollNack ==
  /\ i2c.poll \in {"bytes", "stop"}
  /\ i2c.poll = "bytes" => i2cHw.full
  /\ ~i2cHw.read
  /\ i2cHw.nackf
  /\ i2c' = [i2c EXCEPT !.poll = "none"]
  /\ i2cHw' = [i2cHw EXCEPT !.nackf = FALSE]
  /\ i2cLast' = [status |-> "NACK", whole |-> Whole(i2c, i2cHw)]
  /\ UNCHANGED <<i2cTiming, refused>>

I2cPollStop ==
  /\ i2c.poll = "stop"
  /\ i2cHw.stopf
  /\ i2c' = [i2c EXCEPT !.poll = "none"]
  /\ i2cHw' = [i2cHw EXCEPT !.stopf = FALSE]
  /\ i2cLast' = [status |-> "OK", whole |-> Whole(i2c, i2cHw)]
  /\ UNCHANGED <<i2cTiming, refused>>

------------------------------------------------------------------------------
(* The peripheral and the device *)

\* The address, or a byte sent, is acknowledged or not; after a refusal the
\* peripheral sends STOP.
BusAddress ==
  /\ i2cHw.phase = "addr"
  /\ \/ i2cHw' = [i2cHw EXCEPT !.phase = "data"] /\ UNCHANGED refused
     \/ i2cHw' = [i2cHw EXCEPT !.phase = "stop", !.nackf = TRUE] /\ refused' = TRUE
  /\ UNCHANGED <<i2c, i2cTiming, i2cLast>>

\* One byte goes over the bus; STOP follows the last.
BusByte ==
  /\ i2cHw.phase = "data"
  /\ i2cHw.full # i2cHw.read
  /\ i2cHw' = [i2cHw EXCEPT !.full = i2cHw.read, !.left = @ - 1,
                            !.phase = IF i2cHw.left = 1 THEN "stop" ELSE @]
  /\ UNCHANGED <<i2c, i2cTiming, i2cLast, refused>>

BusNack ==
  /\ i2cHw.phase = "data"
  /\ ~i2cHw.read /\ i2cHw.full
  /\ i2cHw' = [i2cHw EXCEPT !.full = FALSE, !.phase = "stop", !.nackf = TRUE]
  /\ refused' = TRUE
  /\ UNCHANGED <<i2c, i2cTiming, i2cLast>>

BusStop ==
  /\ i2cHw.phase = "stop"
  /\ i2cHw' = [i2cHw EXCEPT !.phase = "idle", !.stopf = TRUE]
  /\ UNCHANGED <<i2c, i2cTiming, i2cLast, refused>>

BusError ==
  /\ i2cHw.phase # "idle"
  /\ i2cHw' = [i2cHw EXCEPT !.phase = "idle", !.err = TRUE]
  /\ refused' = TRUE
  /\ UNCHANGED <<i2c, i2cTiming, i2cLast>>

I2cNext ==
  \/ \E fast \in BOOLEAN, mhz \in Clocks : I2cCreate(fast, mhz)
  \/ \E len \in I2cLens, read \in BOOLEAN : I2cTransferAsync(len, read)
  \/ \E len \in I2cLens, read \in BOOLEAN : I2cPollStart(len, read)
  \/ I2cEvIrqHandler
  \/ I2cErIrqHandler
  \/ I2cPollByte
  \/ I2cPollNack
  \/ I2cPollStop
  \/ BusAddress
  \/ BusByte
  \/ BusNack
  \/ BusStop
  \/ BusError

I2cSpec == I2cInit /\ [][I2cNext]_i2cVars

------------------------------------------------------------------------------
(* As long as no transfer has been refused: one that is reported as        *)
(* complete has moved and stored every byte, and it leaves no event behind *)
(* that would end the next one early.                                      *)
CompleteMeansWhole ==
  ~refused =>
    /\ i2cLast.status = "OK" => i2cLast.whole
    /\ i2c.state = "IDLE" /\ i2c.poll = "none" => ~i2cHw.stopf /\ ~(i2cHw.read /\ i2cHw.full)

\* SCL is low and high at least as long as the bus specification asks, in
\* register fields that can hold it.
MeetsSpec(r, fast, mhz) ==
  LET Ns(c) == c * (r.presc + 1) * 1000
  IN  /\ r.presc \in 0..15 /\ r.scldel \in 0..15 /\ r.sclh \in 0..255 /\ r.scll \in 0..255
      /\ Ns(r.scll + 1) >= LowNs(fast) * mhz
      /\ Ns(r.sclh + 1) >= HighMinNs(fast) * mhz
      /\ Ns(r.scll + r.sclh + 2) >= (IF fast THEN 2500 ELSE 10000) * mhz

(* The timing computed for the clock meets the bus specification, and it   *)
(* stays as long as the port is used.                                      *)
TimingMeetsSpec ==
  i2c.state # "NONE" => MeetsSpec(i2cTiming.reg, i2cTiming.fast, i2cTiming.mhz)
==============================================================================
