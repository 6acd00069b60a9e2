------------------------------- MODULE Timer --------------------------------
(***************************************************************************)
(* The interval timer src/src/i8253/8253.v at ports 08 to 0B, on the bus   *)
(* of module Bus: three counter units, each with its control word, its     *)
(* two-byte load, its down counter and its read latch.                     *)
(*                                                                         *)
(* Control words and counter bytes are taken on the processor's clock, the *)
(* counter and the read side of the latch move on the timer's, which ticks *)
(* half as often: whether a strobe of one processor clock is seen at all,  *)
(* and a read of three is seen once, is up to the bus.                     *)
(*                                                                         *)
(* A step is one edge of clk24.  The always block assigns a register in    *)
(* several places and the last one wins: each place is an operator of what *)
(* the registers hold (c) and of what they are about to (n).  Registers    *)
(* power up as 0.  The gate inputs, BCD (stored, never read) and the test  *)
(* pins are left out.                                                      *)
(***************************************************************************)
EXTENDS Bus

CONSTANT UINT8     \* the values of a byte: 256 in the source

VARIABLES
  unit,     \* the registers of the three counter units
  latch,    \* latch[u]: the count a latch command caught and the bytes read
  plan      \* plan[u]: what a program asked of unit u, and ticks since

timerVars == <<busVars, unit, latch, plan>>

Units  == 0..2
Counts == UINT8 * UINT8

Lo(n) == n % UINT8
Hi(n) == n \div UINT8

\* A control word: the unit, the bytes to load or read (rl; 0 latches), the mode.
Control(u, r, m) == [unit |-> u, rl |-> r, mode |-> m]

Power == [rl |-> 0, mode |-> 0, outreg |-> 0, load |-> 0, wren |-> FALSE,
          starting |-> FALSE, loaded |-> FALSE, loading |-> FALSE,
          loading_msb |-> FALSE, counter |-> 0,
          read_state |-> 0, read_msb |-> FALSE, latched_q |-> 0]

-----------------------------------------------------------------------------
(* The ports: the address lines reach the timer inverted.                  *)

Port(u)   == 11 - u
WordPort  == 8
vi53_sel  == bus.addr \in 8..11
vi53_wren == ~cpu.WR_n /\ bus.write /\ vi53_sel
vi53_rden == bus.read /\ vi53_sel

wren(u)  == vi53_wren /\ bus.addr = Port(u)
rden(u)  == vi53_rden /\ bus.addr = Port(u)
cwset(u) == vi53_wren /\ bus.addr = WordPort /\ cpu.op.data.unit = u
Word     == cpu.op.data

Latches(u)  == cwset(u) /\ Word.rl = 0
Programs(u) == cwset(u) /\ Word.rl # 0

\* Programs write bytes, and control words to their port.
WellFormed(op) ==
  op.kind = "out" =>
    IF op.port = WordPort
    THEN op.data \in [unit : 0..3, rl : 0..3, mode : 0..7]
    ELSE op.data \in 0..(UINT8 - 1)

ASSUME ProgramAssumption ==
  /\ UINT8 \in Nat \ {0} /\ UINT8 % 2 = 0
  /\ \A r \in Routines : /\ Len(r) \in Nat \ {0} /\ r = [i \in 1..Len(r) |-> r[i]]
                         /\ \A i \in DOMAIN r : WellFormed(r[i])

-----------------------------------------------------------------------------
(* The down counter.                                                       *)

halfmode(c)     == c.mode % 4 = 3
autoreload(c)   == c.mode % 4 \in {2, 3}
counter_wren(c) == c.wren /\ c.mode \notin {1, 5}
stopper(c)      == c.mode \in {0, 4} /\ c.loading
counts(c)       == vi53_timer_ce /\ c.loaded /\ ~stopper(c)

Decrement_even(c) == IF halfmode(c) THEN 2 ELSE 1

\* A square wave counts by two; an odd count gives the extra clock to the high half.
Decrement(c) ==
  IF ~halfmode(c) THEN 1
  ELSE IF c.counter % 2 = 0 THEN 2 ELSE IF c.outreg = 1 THEN 1 ELSE 3

next(c) == (c.counter + Counts - Decrement(c)) % Counts

CounterEdge(c) ==
  IF counter_wren(c) THEN c.load
  ELSE IF ~counts(c) THEN c.counter
  ELSE IF autoreload(c) /\ next(c) = 0 THEN c.load ELSE next(c)

-----------------------------------------------------------------------------
(* The counter unit's always block, in its order.                          *)

SetsMode(u, n) ==
  IF ~Programs(u) THEN n
  ELSE [n EXCEPT !.loading_msb = FALSE, !.loaded = FALSE, !.loading = FALSE,
                 !.rl = Word.rl, !.mode = Word.mode,
                 !.outreg = IF Word.mode = 0 THEN 0 ELSE 1]

LoadsMsb(c, n, d) ==
  [n EXCEPT !.load = Lo(c.load) + UINT8 * d, !.starting = TRUE,
            !.loading = FALSE, !.wren = ~c.loaded, !.loading_msb = FALSE]

\* The rate generator and the square wave run on while they are reloaded.
LoadsLsb(c, n, d) ==
  [n EXCEPT !.load = d + UINT8 * Hi(c.load), !.loading = TRUE, !.loading_msb = TRUE,
            !.loaded = c.loaded /\ (c.mode \in {1, 5} \/ c.mode % 4 \in {2, 3})]

LoadsOne(n, load) == [n EXCEPT !.load = load, !.starting = TRUE, !.wren = TRUE]

Loads(u, c, n) ==
  LET d == cpu.op.data
  IN  IF ~(wren(u) /\ cpu_ce) THEN n
      ELSE CASE c.rl = 0 -> n
             [] c.rl = 1 -> LoadsOne(n, d + UINT8 * Hi(c.load))
             [] c.rl = 2 -> LoadsOne(n, Lo(c.load) + UINT8 * d)
             [] OTHER -> IF c.loading_msb THEN LoadsMsb(c, n, d) ELSE LoadsLsb(c, n, d)

Starts(c, n) ==
  IF ~vi53_timer_ce THEN n
  ELSE [n EXCEPT !.wren = IF counter_wren(c) THEN FALSE ELSE @,
                 !.loaded = c.starting \/ @,
                 !.starting = ~c.starting /\ @]

\* The output looks at the count a tick early, so as to be right on the tick.
Drives(c, n) ==
  IF ~vi53_timer_ce THEN n
  ELSE [n EXCEPT !.outreg =
    CASE c.mode = 0        -> IF c.counter = 1 THEN 1 ELSE @
      [] c.mode \in {2, 6} -> IF c.counter = 2 THEN 0 ELSE 1
      [] c.mode \in {3, 7} -> IF c.counter = 2 THEN 1 - c.outreg ELSE @
      [] c.mode = 4        -> IF c.counter = 0 THEN 0 ELSE 1
      [] OTHER             -> @]

-----------------------------------------------------------------------------
(* The read side: the latch is written on clk24, its state on the timer's  *)
(* clock.                                                                  *)

readhelper(ce, u, c, n) ==
  [n EXCEPT
    !.latched_q = IF Latches(u) THEN c.counter ELSE @,
    !.read_msb = IF ~ce THEN @ ELSE IF cwset(u) THEN FALSE
                 ELSE IF rden(u) THEN ~c.read_msb ELSE @,
    !.read_state = IF ~ce THEN @ ELSE IF cwset(u) THEN IF Word.rl = 0 THEN 2 ELSE 0
                   ELSE IF rden(u) /\ c.read_state > 0 THEN c.read_state - 1 ELSE @]

ReadEdge_cpu(u, c, n) == readhelper(cpu_ce, u, c, n)
ReadEdge(u, c, n) == readhelper(vi53_timer_ce, u, c, n)

r_lsb(c) == IF c.rl = 2 THEN Hi(c.counter) ELSE Lo(c.counter)
r_msb(c) == IF c.rl = 1 THEN Lo(c.counter) ELSE Hi(c.counter)

q(c) == IF c.read_msb
        THEN IF c.read_state = 0 THEN r_msb(c) ELSE Hi(c.latched_q)
        ELSE IF c.read_state = 0 THEN r_lsb(c) ELSE Lo(c.latched_q)

UnitEdge(u, c) ==
  [ReadEdge(u, c, Drives(c, Starts(c, Loads(u, c, SetsMode(u, c)))))
     EXCEPT !.counter = CounterEdge(c)]

-----------------------------------------------------------------------------
(* What a program may expect, kept beside the chip.                        *)

NoLatch == [count |-> 0, left |-> 0]
NoPlan  == [mode |-> 0, bytes |-> <<>>, ticks |-> 0, asked |-> FALSE]

\* A latch command on a counter of two bytes promises the count it found, to
\* two reads; a control word takes the promise back, and a reset all of them.
LatchEdge(u) ==
  CASE Latches(u) /\ cpu_ce /\ unit[u].rl = 3 -> [count |-> unit[u].counter, left |-> 2]
    [] Programs(u) -> NoLatch
    [] rden(u) /\ Samples /\ latch[u].left > 0 -> [latch[u] EXCEPT !.left = @ - 1]
    [] OTHER -> latch[u]

Whole(p) == Len(p.bytes) = 2
Asked(p) == LET n == p.bytes[1] + UINT8 * p.bytes[2] IN IF n = 0 THEN Counts ELSE n

\* Ticks go round with the wave once they are past its first turn; mode 0's
\* output stays.
Last(p) == CASE p.mode = 0 -> Asked(p) + 1 [] p.mode = 4 -> Counts + 1 [] OTHER -> Asked(p)

Again(p) == CASE p.mode = 0 -> Last(p) [] p.mode = 4 -> 2 [] OTHER -> 1

Ticked(p) == IF p.ticks < Last(p) THEN p.ticks + 1 ELSE Again(p)

\* A stopped counter that rests on the count its new mode acts on moves the
\* output before it is loaded.
Restless(m, n) == (m = 0 /\ n = 1) \/ (m \in {3, 7} /\ n = 2)

\* A control word asks for a mode, the two bytes after it for a count; a byte
\* after that changes a wave that is running, and nothing is promised of it.
PlanEdge(u) ==
  LET p == plan[u] IN
  CASE Programs(u) ->
         IF Word.rl = 3 /\ Word.mode \notin {1, 5} /\ ~Restless(Word.mode, unit[u].counter)
         THEN [NoPlan EXCEPT !.mode = IF Word.mode > 5 THEN Word.mode - 4 ELSE Word.mode,
                             !.asked = TRUE]
         ELSE NoPlan
    [] wren(u) /\ cpu_ce /\ p.asked ->
         IF Whole(p) THEN NoPlan ELSE [p EXCEPT !.bytes = Append(@, cpu.op.data)]
    [] vi53_timer_ce /\ ~wren(u) /\ ~Programs(u) /\ p.asked /\ Whole(p) -> [p EXCEPT !.ticks = Ticked(p)]
    [] OTHER -> p

-----------------------------------------------------------------------------
TimerInit ==
  /\ BusInit
  /\ unit = [u \in Units |-> Power]
  /\ latch = [u \in Units |-> NoLatch]
  /\ plan = [u \in Units |-> NoPlan]

\* The chip has no reset.
UnitsEdge == unit' = [u \in Units |-> UnitEdge(u, unit[u])]

\* One edge of clk24: between two processor clocks, on one, and in reset.
Expect ==
  /\ latch' = [u \in Units |-> LatchEdge(u)]
  /\ plan' = [u \in Units |-> PlanEdge(u)]
ExpectNothing ==
  /\ latch' = [u \in Units |-> NoLatch]
  /\ plan' = [u \in Units |-> NoPlan]

Between    == CpuHolds /\ BusEdge /\ UnitsEdge /\ Expect
OnCpuClock == (CpuSteps \/ CpuFetches) /\ BusEdge /\ UnitsEdge /\ Expect
InReset    == CpuReset /\ BusEdge /\ UnitsEdge /\ ExpectNothing

TimerNext == Between \/ OnCpuClock \/ InReset

TimerSpec == TimerInit /\ [][TimerNext]_timerVars

-----------------------------------------------------------------------------
(* A write strobe ends on a tick of the timer, and of the three processor  *)
(* clocks a read lasts the timer ticks on the second alone, after the byte *)
(* is taken, unless a reset cuts it short.  Without the wait states a      *)
(* control word could pass between two ticks and a read turn the byte      *)
(* selector twice.                                                         *)
AccessMeetsTick ==
  /\ vi53_wren /\ cpu_ce => vi53_timer_ce
  /\ vi53_rden /\ cpu_ce /\ cpu.t # 0 => (vi53_timer_ce <=> cpu.t = 3)

(* The two reads after a latch command on a two-byte counter return the    *)
(* low and the high byte of one count, the one the counter held when the   *)
(* command was written, whatever the counter and the other units do        *)
(* between.                                                                *)
LatchReads ==
  \A u \in Units : rden(u) /\ Samples /\ latch[u].left > 0 =>
    q(unit[u]) = IF latch[u].left = 2 THEN Lo(latch[u].count) ELSE Hi(latch[u].count)

(* The output of a unit so many ticks after its count was written: mode 0  *)
(* rises one tick after the count has run out and stays, mode 2 is low one *)
(* tick in n, mode 3 is high for half of n, rounded up, and low for the    *)
(* rest, mode 4 strobes once.  The smallest counts, and 0 in mode 4, are   *)
(* left out: the output acts on them while they are being loaded.          *)
Level(m, n, k) ==
  LET up == CASE m = 0 -> k > n
              [] m = 2 -> k # n
              [] m = 3 -> k <= (n + 1) \div 2
              [] m = 4 -> k # n + 2
  IN  IF up THEN 1 ELSE 0

Hasty(m, n) ==
  CASE m = 0 -> n = 1 [] m = 2 -> n < 3 [] m = 3 -> n < 4 [] m = 4 -> n = Counts

OutOnTime ==
  \A u \in Units : LET p == plan[u] IN
    p.asked /\ Whole(p) /\ p.ticks > 0 /\ ~Hasty(p.mode, Asked(p)) =>
      unit[u].outreg = Level(p.mode, Asked(p), p.ticks)
=============================================================================
