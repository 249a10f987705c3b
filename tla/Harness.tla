------------------------------- MODULE Harness -------------------------------
(* The loop of sim_main.cc, which runs a program without a host: it toggles  *)
(* the clock of the core and does at once what the core has on its data bus. *)
EXTENDS Integers, Sequences

CONSTANTS
  PORTS,         \* addresses that programs store to
  CONSOLE_ADDR,  \* 0xFFFFFFF8
  HALT_ADDR,     \* 0xFFFFFFFC
  RESET_TIME,    \* 4
  TIME_LIMIT     \* 1000

ASSUME HarnessAssumption ==
  /\ {CONSOLE_ADDR, HALT_ADDR} \subseteq PORTS /\ CONSOLE_ADDR # HALT_ADDR /\ PORTS \subseteq Nat
  /\ RESET_TIME \in Nat /\ TIME_LIMIT \in Nat

VARIABLES
  clock, time,
  bus,       \* the store that the core has on its bus, or Idle
  screen,    \* the characters that were printed
  kept,      \* what memory has at the addresses PORTS
  finish_flag
harnessVars == <<clock, time, bus, screen, kept, finish_flag>>

SW(a, d) == [addr |-> a, data |-> d]
Idle == SW(-1, 0)

HarnessInit ==
  /\ clock = 0 /\ time = 0 /\ bus = Idle
  /\ screen = <<>> /\ kept = [a \in PORTS |-> 0] /\ finish_flag = FALSE

\* The core changes its bus when the clock rises, and not in reset.
CoreMoves == clock = 0 /\ time + 1 >= RESET_TIME

\* A store is on the bus in two turns, and is written in both of them, but a
\* character is printed in the one in which the clock is up.
Prints == bus.addr = CONSOLE_ADDR /\ clock' = 1
LoopTurn(out) ==
  LET acts == time' >= RESET_TIME /\ bus # Idle
      halts == acts /\ bus.addr = HALT_ADDR
  IN /\ ~finish_flag
     /\ time' = time + 1 /\ clock' = 1 - clock
     /\ screen' = IF acts /\ Prints THEN Append(screen, bus.data) ELSE screen
     /\ kept' = IF acts /\ ~halts /\ ~Prints THEN [kept EXCEPT ![bus.addr] = bus.data] ELSE kept
     /\ finish_flag' = ((halts /\ bus.data # 0) \/ time' > TIME_LIMIT)
     /\ bus' = IF CoreMoves THEN out ELSE bus
=============================================================================
