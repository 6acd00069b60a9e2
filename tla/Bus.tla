-------------------------------- MODULE Bus ---------------------------------
(***************************************************************************)
(* The computer's clocks and the processor's bus cycles as its I/O devices *)
(* see them: src/src/clockster.v, and the processor clock, wait states,    *)
(* status word and registered address of src/src/vector06cc.v, with all    *)
(* switches down (SW[9:8] = 00).                                           *)
(*                                                                         *)
(* The master clock is clk24.  The processor steps every eighth clock      *)
(* (ce3), the timer every sixteenth (tce).  Nothing ties a bus cycle to    *)
(* the timer's clock but the wait states: a memory cycle waits for its     *)
(* place in a frame of 32 clocks, and the I/O cycle of an IN or an OUT,    *)
(* which does not wait, comes right after two of those.                    *)
(*                                                                         *)
(* The processor (T80, vendored) is modelled by its machine cycles: an IN  *)
(* or OUT is an opcode fetch of four T-states, an operand read and an I/O  *)
(* cycle of three; any other instruction is a fetch.  Left out: interrupt  *)
(* and halt cycles, bus hold, the warp, slow and single-step clocks.       *)
(***************************************************************************)
EXTENDS Naturals, Sequences

CONSTANTS
  Routines,      \* what programs do: nonempty sequences of Ops
  MaxRoutines,   \* how many of them are run,
  MaxResets      \* and how many times the reset key is pressed on the way

VARIABLES
  clock,    \* clockster's registers, the frame counter and READY
  cpu,      \* machine cycle m, T-state t (0 in reset), WR_n, the instruction
  bus,      \* status_word's INP and OUT bits, and address_bus_r
  todo,     \* the rest of the routine being run
  calls,    \* routines begun,
  resets    \* and resets made

busVars == <<clock, cpu, bus, todo, calls, resets>>

In(p)     == [kind |-> "in", port |-> p]
Out(p, d) == [kind |-> "out", port |-> p, data |-> d]
Other     == [kind |-> "other"]

\* Addresses of the program's and the video's memory cycles: no port's.
Memory == 256
Video  == 257

\* Registers power up as 0; READY has no reset and is set within a frame.
\* RESET_n is released at any moment.
BusInit ==
  /\ clock = [initctr |-> 0, ctr |-> 0, ce3 |-> FALSE, tce |-> FALSE,
              slice |-> FALSE, ws |-> 0, READY |-> FALSE]
  /\ cpu = [m |-> 1, t |-> 0, WR_n |-> TRUE, op |-> Other]
  /\ bus = [read |-> FALSE, write |-> FALSE, addr |-> Memory]
  /\ todo = <<>> /\ calls = 0 /\ resets = 0

-----------------------------------------------------------------------------
(* Clocks.  Enables are registered: they are seen a clock after the count  *)
(* they are made from.  ctr's bits above the fourth drive only the video.  *)

cpu_ce        == clock.ce3
vi53_timer_ce == clock.tce

LocksIn(c) == c.initctr # 3

\* ctr[2] & ctr[1] & !ctr[0], and with !ctr[3] for the timer.
ClocksterEdge(c) ==
  IF LocksIn(c) THEN [c EXCEPT !.initctr = @ + 1]
  ELSE [c EXCEPT !.ce3 = (c.ctr % 8 = 6), !.tce = (c.ctr = 6),
                 !.slice = (c.ctr % 8 < 4), !.ctr = (@ + 1) % 16]

SYNC == cpu.t = 1
IORQ == cpu.m = 3

\* A slot of four clocks in the frame of 32 is the processor's.
ws_cpu_time == clock.ws \div 4 = 5

\* The status byte asks for memory: MEMR, or a write, and neither OUT nor INP.
ws_req_never == FALSE
ws_req == ~IORQ

WaitEdge(c) ==
  [c EXCEPT !.ws = (@ + 1) % 32,
            !.READY = ws_cpu_time \/ (@ /\ ~(cpu_ce /\ SYNC /\ ws_req))]

-----------------------------------------------------------------------------
(* The processor, in or out of reset, and the bus registers it drives.     *)

A           == IF IORQ THEN cpu.op.port ELSE Memory
address_bus == IF clock.slice THEN Video ELSE A

LastT == cpu.t = IF cpu.m = 1 THEN 4 ELSE 3
LastM == cpu.m = IF cpu.op = Other THEN 1 ELSE 3

\* The processor takes DI at the end of the T2 that found READY.
Samples == cpu_ce /\ cpu.t = 2 /\ clock.READY

WR_n_next == ~(cpu.t = 2 /\ IORQ /\ cpu.op.kind = "out")

\* Clocks between two enables.
CpuHolds == ~cpu_ce /\ UNCHANGED <<cpu, todo, calls, resets>>

Waits == cpu.t = 2 /\ ~clock.READY

CpuSteps ==
  /\ cpu_ce /\ cpu.t # 0 /\ ~(LastT /\ LastM)
  /\ cpu' = [cpu EXCEPT !.WR_n = WR_n_next,
                        !.t = IF Waits THEN @ ELSE IF LastT THEN 1 ELSE @ + 1,
                        !.m = IF LastT THEN @ + 1 ELSE @]
  /\ UNCHANGED <<todo, calls, resets>>

Runs(op) == cpu' = [m |-> 1, t |-> 1, WR_n |-> WR_n_next, op |-> op]

CpuFetches ==
  /\ cpu_ce /\ (cpu.t = 0 \/ (LastT /\ LastM))
  /\ \/ todo # <<>> /\ Runs(Head(todo)) /\ todo' = Tail(todo) /\ UNCHANGED calls
     \/ /\ todo = <<>> /\ calls < MaxRoutines
        /\ \E r \in Routines : Runs(Head(r)) /\ todo' = Tail(r)
        /\ calls' = calls + 1
     \/ todo = <<>> /\ Runs(Other) /\ UNCHANGED <<todo, calls>>
  /\ UNCHANGED resets

\* RESET_n low acts at once and drops the program; status_word stays.
CpuReset ==
  /\ cpu.t = 0 \/ resets < MaxResets
  /\ cpu' = [m |-> 1, t |-> 0, WR_n |-> TRUE, op |-> Other]
  /\ todo' = <<>> /\ UNCHANGED calls
  /\ resets' = IF cpu.t = 0 THEN resets ELSE resets + 1

BusEdge ==
  /\ clock' = WaitEdge(ClocksterEdge(clock))
  /\ bus' = IF cpu_ce
            THEN [read  |-> IF SYNC THEN IORQ /\ cpu.op.kind = "in" ELSE bus.read,
                  write |-> IF SYNC THEN IORQ /\ cpu.op.kind = "out" ELSE bus.write,
                  addr  |-> address_bus]
            ELSE bus
=============================================================================
