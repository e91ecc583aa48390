------------------------------ MODULE SystemClock ------------------------------
(***************************************************************************)
(* platform/stm32l476rg/system_clock.c: changing the system clock.  The    *)
(* code writes a register, waits a bounded number of iterations for the    *)
(* hardware, and gives up with SYSTEM_CLOCK_ERR_TIMEOUT; the hardware may  *)
(* still finish later, and the call may be repeated with any target.       *)
(* config.pc names the wait the call is in.  Frequencies are in MHz.       *)
(***************************************************************************)
EXTENDS Integers

CONSTANT Targets        \* frequencies asked for, supported or not

ASSUME ClockAssumption == Targets \subseteq Nat \ {0}

VARIABLES
    config,             \* call in progress, last result, system_clock_val_hz
    rcc                 \* the clock, power and flash registers

clockVars == <<config, rcc>>

Sources == {"MSI", "HSI16", "PLL"}
PllTargets == {24, 32, 48, 64, 80}

\* PLL configuration: multiplier and divider; the source is HSI16 / 2.
PllN(mhz) == CASE mhz = 24 -> 12 [] mhz = 32 -> 8 [] mhz = 48 -> 12 [] mhz = 64 -> 16 [] mhz = 80 -> 20
PllR(mhz) == IF mhz = 24 THEN 4 ELSE 2

\* power_set_vos and flash_set_latency
VosFor(mhz) == IF mhz <= 26 THEN 2 ELSE 1
LatencyFor(mhz, vos) ==
  IF vos = 1
  THEN IF mhz <= 16 THEN 0 ELSE IF mhz <= 32 THEN 1 ELSE IF mhz <= 48 THEN 2 ELSE IF mhz <= 64 THEN 3 ELSE 4
  ELSE IF mhz <= 6 THEN 0 ELSE IF mhz <= 12 THEN 1 ELSE IF mhz <= 18 THEN 2 ELSE 3

\* Frequency a source delivers.
SourceMhz(r, src) == CASE src = "MSI" -> 4 [] src = "HSI16" -> 16 [] src = "PLL" -> (8 * r.n) \div r.r
Sysclk == SourceMhz(rcc, rcc.sws)

\* Reset state: MSI runs the system in range 1 without wait states.
ClockInit ==
  /\ config = [pc |-> "idle", target |-> 4, ok |-> FALSE, val |-> 4]
  /\ rcc = [on |-> {"MSI"}, ready |-> {"MSI"}, sw |-> "MSI", sws |-> "MSI",
            vos |-> 1, latency |-> 0, n |-> 8, r |-> 2]

------------------------------------------------------------------------------
(* system_clock_config_hz *)

Goto(pc) == [config EXCEPT !.pc = pc]
Finish(val) == [config EXCEPT !.pc = "idle", !.ok = TRUE, !.val = val]

\* The call begins with system_clock_set_default: MSI on.
ClockConfigHz(mhz) ==
  /\ config.pc = "idle"
  /\ config' = [config EXCEPT !.pc = "msi_ready", !.target = mhz, !.ok = FALSE]
  /\ rcc' = [rcc EXCEPT !.on = @ \cup {"MSI"}]

\* MSI is ready: switch to it.
MsiReady ==
  /\ config.pc = "msi_ready" /\ "MSI" \in rcc.ready
  /\ config' = Goto("msi_used")
  /\ rcc' = [rcc EXCEPT !.sw = "MSI"]

\* Variant: the PLL is switched off without waiting for the switch to MSI.
MsiUsedUnseen ==
  /\ config.pc = "msi_used"
  /\ config' = [Goto("pll_off") EXCEPT !.val = 4]
  /\ rcc' = [rcc EXCEPT !.on = @ \ {"PLL"}]

\* MSI is in use: the PLL off.
MsiUsed ==
  /\ config.pc = "msi_used" /\ rcc.sws = "MSI"
  /\ config' = [Goto("pll_off") EXCEPT !.val = 4]
  /\ rcc' = [rcc EXCEPT !.on = @ \ {"PLL"}]

\* The PLL is off: HSI16 off.
PllOff ==
  /\ config.pc = "pll_off" /\ "PLL" \notin rcc.ready
  /\ config' = Goto("hsi_off")
  /\ rcc' = [rcc EXCEPT !.on = @ \ {"HSI16"}]

\* HSI16 is off.  power_set_vos (whose wait reads back what it wrote) and
\* flash_set_latency; then HSI16 on, unless 4 MHz was asked for or the target
\* is not supported.
HsiOff ==
  LET t == config.target
      hsi == t \in PllTargets \cup {16}
  IN  /\ config.pc = "hsi_off" /\ "HSI16" \notin rcc.ready
      /\ config' = IF t = 4 THEN Finish(4) ELSE IF hsi THEN Goto("hsi_ready") ELSE Goto("idle")
      /\ rcc' = [rcc EXCEPT !.vos = VosFor(t), !.latency = LatencyFor(t, VosFor(t)),
                            !.on = IF hsi THEN @ \cup {"HSI16"} ELSE @]

\* system_clock_set_hsi16: HSI16 is ready, switch to it.
HsiReady ==
  /\ config.pc = "hsi_ready" /\ "HSI16" \in rcc.ready
  /\ config' = Goto("hsi_used")
  /\ rcc' = [rcc EXCEPT !.sw = "HSI16"]

\* HSI16 is in use: done, or the PLL off to configure it.
HsiUsed ==
  /\ config.pc = "hsi_used" /\ rcc.sws = "HSI16"
  /\ IF config.target = 16
     THEN config' = Finish(16) /\ UNCHANGED rcc
     ELSE config' = Goto("pll_config") /\ rcc' = [rcc EXCEPT !.on = @ \ {"PLL"}]

\* The PLL is off: configure it and switch it on.
PllConfig ==
  /\ config.pc = "pll_config" /\ "PLL" \notin rcc.ready
  /\ config' = Goto("pll_ready")
  /\ rcc' = [rcc EXCEPT !.n = PllN(config.target), !.r = PllR(config.target), !.on = @ \cup {"PLL"}]

PllReady ==
  /\ config.pc = "pll_ready" /\ "PLL" \in rcc.ready
  /\ config' = Goto("pll_used")
  /\ rcc' = [rcc EXCEPT !.sw = "PLL"]

PllUsed ==
  /\ config.pc = "pll_used" /\ rcc.sws = "PLL"
  /\ config' = Finish(config.target)
  /\ UNCHANGED rcc

\* A wait runs out of iterations: SYSTEM_CLOCK_ERR_TIMEOUT.
ClockTimeout ==
  /\ config.pc # "idle"
  /\ config' = Goto("idle")
  /\ UNCHANGED rcc

------------------------------------------------------------------------------
(* The hardware: oscillators start and stop, the selected source takes over. *)

OscillatorStarts ==
  /\ \E s \in rcc.on \ rcc.ready : rcc' = [rcc EXCEPT !.ready = @ \cup {s}]
  /\ UNCHANGED config

OscillatorStops ==
  /\ \E s \in rcc.ready \ rcc.on : rcc' = [rcc EXCEPT !.ready = @ \ {s}]
  /\ UNCHANGED config

SourceSwitches ==
  /\ rcc.sws # rcc.sw
  /\ rcc.sw \in rcc.ready
  /\ rcc' = [rcc EXCEPT !.sws = rcc.sw]
  /\ UNCHANGED config

ClockNext ==
  \/ \E mhz \in Targets : ClockConfigHz(mhz)
  \/ MsiReady
  \/ MsiUsed
  \/ PllOff
  \/ HsiOff
  \/ HsiReady
  \/ HsiUsed
  \/ PllConfig
  \/ PllReady
  \/ PllUsed
  \/ ClockTimeout
  \/ OscillatorStarts
  \/ OscillatorStops
  \/ SourceSwitches

ClockSpec == ClockInit /\ [][ClockNext]_clockVars

------------------------------------------------------------------------------
(* At every moment, after any number of timed-out calls and whenever the   *)
(* hardware follows: the core is clocked by a source that is on and stable,*)
(* no faster than the voltage range permits and with the wait states the   *)
(* flash needs at that voltage and frequency; and when                     *)
(* system_clock_config_hz has returned SYSTEM_CLOCK_OK, the core runs at   *)
(* the frequency asked for and get_system_clock_hz says so.                *)
ClockSafe ==
  /\ rcc.sws \in rcc.on \cap rcc.ready
  /\ Sysclk <= (IF rcc.vos = 1 THEN 80 ELSE 26)
  /\ rcc.latency >= LatencyFor(Sysclk, rcc.vos)
  /\ config.pc = "idle" /\ config.ok => Sysclk = config.target /\ config.val = config.target
==============================================================================
