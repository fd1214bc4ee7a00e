----------------------------- MODULE NucleoL476rg ----------------------------
(***************************************************************************)
(* The low level of the NUCLEO-L476RG board: the clock tree and the        *)
(* peripherals it brings up, the SysTick counter, the data register of     *)
(* USART2 and LD2.  The hardware is external: what a register asks for     *)
(* takes effect some time later, and a character that arrives while the    *)
(* data register is full is lost.                                          *)
(***************************************************************************)
EXTENDS Integers, Sequences

CONSTANTS
  TickModulus,     \* 2^32, the range of system_tick_ms
  WriteTicks,      \* timeout of a write, in ticks
  Characters,      \* what the user types, without Enter
  Enter            \* '\r' or '\n'

NoCharacter == "none"

ASSUME BoardAssumption ==
  /\ TickModulus \in Nat \ {0} /\ WriteTicks \in Nat
  /\ Enter \notin Characters /\ NoCharacter \notin Characters \cup {Enter}

VARIABLES
  phase,        \* the step of initialize(), from 1; one more than the last when it is done
  configured,   \* what the registers ask of the hardware
  ready,        \* what has taken effect
  tick,         \* system_tick_ms
  rdr,          \* the receive data register, NoCharacter when RXNE is clear
  ld2           \* LD2 is lit

boardVars == <<phase, configured, ready, tick, rdr, ld2>>

\* initialize(): what each step asks for, and waits for before the next.
Steps == <<"scale1", "latency4", "hsi", "pll", "sysclk", "uart">>
Initialized == phase > Len(Steps)

BoardInit ==
  /\ phase = 1 /\ configured = {} /\ ready = {}
  /\ tick = 0 /\ rdr = NoCharacter /\ ld2 = FALSE

\* configure_clock() and configure_gpio_and_uart() write a register; the last
\* resets LD2 too.
Configure ==
  /\ ~Initialized /\ Steps[phase] \notin configured
  /\ configured' = configured \cup {Steps[phase]}
  /\ ld2' = IF Steps[phase] = "uart" THEN FALSE ELSE ld2
  /\ UNCHANGED <<phase, ready, tick, rdr>>

\* Mutant: the loop that waits for the hardware is left out.
AwaitNothing ==
  /\ ~Initialized /\ Steps[phase] \in configured
  /\ phase' = phase + 1
  /\ UNCHANGED <<configured, ready, tick, rdr, ld2>>

\* The loop after it ends.
Await ==
  /\ ~Initialized /\ Steps[phase] \in ready
  /\ phase' = phase + 1
  /\ UNCHANGED <<configured, ready, tick, rdr, ld2>>

\* What was configured takes effect, in any order.
TakesEffect ==
  \E x \in configured \ ready :
    /\ ready' = ready \cup {x}
    /\ UNCHANGED <<phase, configured, tick, rdr, ld2>>

\* systick_interrupt_handler(), n times.
Ticks(n) == tick' = (tick + n) % TickModulus

\* A character arrives on the wire.
Arrive(c) == rdr' = IF rdr = NoCharacter THEN c ELSE rdr

\* uart2_try_read() through StLinkVirtualCom::read() with timeout 0.
Read == rdr' = NoCharacter

\* uart2_write() of n texts through StLinkVirtualCom::write(): each blocks until
\* the UART took it or its timeout is over, which cuts it short.
Writing(n) == 0 .. n * WriteTicks

\* ld2_set() through Ld2::set().
SetLd2(high) == ld2' = high

-----------------------------------------------------------------------------
\* The core is not switched to the PLL before the regulator and the flash can
\* stand 80 MHz and the PLL is locked on a ready oscillator, and the loop of
\* the product does not start before its UART answers.  Each is asked of
\* hardware that answers later, in an order of its own.
ClockSafe ==
  /\ "pll" \in configured => "hsi" \in ready
  /\ "sysclk" \in configured => {"scale1", "latency4", "pll"} \subseteq ready
  /\ Initialized => {"sysclk", "uart"} \subseteq ready
==============================================================================
