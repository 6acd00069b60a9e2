---------------------------- MODULE Timer_proofs ----------------------------
(***************************************************************************)
(* Whatever programs do, and whenever the computer is reset, the bus keeps *)
(* its step with the timer's clock (InStep), and so a latched count stays  *)
(* whole until its two bytes are read (LatchesKept), and a count that is   *)
(* written comes out as a wave on time (PlansKept).                        *)
(***************************************************************************)
EXTENDS Timer, Integers, TLAPS

(* The frame counter tells the state of every other clock register.        *)
Starting(w) == [initctr |-> w, ctr |-> 0, ce3 |-> FALSE, tce |-> FALSE,
                slice |-> FALSE, ws |-> w, READY |-> FALSE]
Running(w, r) == [initctr |-> 3, ctr |-> (w + 13) % 16, ce3 |-> (w % 8 = 2),
                  tce |-> (w % 16 = 10), slice |-> (w % 8 > 3), ws |-> w, READY |-> r]

ClockInStep ==
  \/ cpu.t = 0 /\ \E w \in 0..2 : clock = Starting(w)
  \/ \E w \in 0..31, r \in BOOLEAN : clock = Running(w, r)

(* The frame by the processor clocks that end its quarters.                *)
First  == clock.ws \in 0..2 \cup 27..31
Second == clock.ws \in 3..10
Third  == clock.ws \in 11..18
Fourth == clock.ws \in 19..26

(* Memory cycles leave T2 at the end of the frame's fourth quarter.        *)
CyclesInStep ==
  /\ cpu = [m |-> cpu.m, t |-> cpu.t, WR_n |-> cpu.WR_n, op |-> cpu.op]
  /\ cpu.m \in 1..3 /\ cpu.t \in 0..4
  /\ cpu.t = 0 => cpu.m = 1
  /\ cpu.m > 1 => cpu.op # Other
  /\ cpu.t = 4 => cpu.m = 1 /\ Second
  /\ cpu.m < 3 /\ cpu.t = 3 => First
  /\ cpu.m < 3 /\ cpu.t = 2 /\ clock.READY => clock.ws \in 21..26
  /\ cpu.m = 2 /\ cpu.t = 1 => Third
  /\ cpu.m = 3 => \/ cpu.t = 1 /\ Second
                  \/ cpu.t = 2 /\ Third
                  \/ cpu.t = 3 /\ Fourth
  /\ cpu.m = 3 \/ cpu.t > 2 => clock.READY

StrobesInStep ==
  /\ cpu.WR_n \in BOOLEAN /\ bus.read \in BOOLEAN
  /\ cpu.WR_n \/ (cpu.m = 3 /\ cpu.t = 3)
  /\ bus.read => cpu.t = 0 \/ (cpu.m = 3 /\ cpu.t > 1) \/ (cpu.m = 1 /\ cpu.t = 1)
  /\ bus.read /\ cpu.m = 1 /\ cpu.t = 1 => First \/ bus.addr = Memory

InStep == ClockInStep /\ CyclesInStep /\ StrobesInStep

(* READY at the next clock.                                                *)
ReadyNext(w, r) == (w \div 4 = 5) \/ (r /\ ~(w % 8 = 2 /\ SYNC /\ ws_req))

LEMMA SetsFrame ==
  ASSUME NEW i, NEW n, NEW a, NEW b, NEW c, NEW w, NEW r, NEW v, NEW x, NEW f,
         f = [initctr |-> i, ctr |-> n, ce3 |-> a, tce |-> b, slice |-> c, ws |-> w, READY |-> r]
  PROVE  [f EXCEPT !.ws = v, !.READY = x]
         = [initctr |-> i, ctr |-> n, ce3 |-> a, tce |-> b, slice |-> c, ws |-> v, READY |-> x]
<1> DEFINE g == [f EXCEPT !.ws = v]
<1>1. g = [initctr |-> i, ctr |-> n, ce3 |-> a, tce |-> b, slice |-> c, ws |-> v, READY |-> r]
  OBVIOUS
<1> HIDE DEF g
<1>2. [g EXCEPT !.READY = x] = [initctr |-> i, ctr |-> n, ce3 |-> a, tce |-> b,
                                slice |-> c, ws |-> v, READY |-> x]
  BY <1>1
<1> QED
  BY <1>2, Zenon DEF g

LEMMA SetsInitctr ==
  ASSUME NEW i, NEW n, NEW a, NEW b, NEW c, NEW w, NEW r, NEW v, NEW f,
         f = [initctr |-> i, ctr |-> n, ce3 |-> a, tce |-> b, slice |-> c, ws |-> w, READY |-> r]
  PROVE  [f EXCEPT !.initctr = v]
         = [initctr |-> v, ctr |-> n, ce3 |-> a, tce |-> b, slice |-> c, ws |-> w, READY |-> r]
  OBVIOUS

LEMMA ClockRuns ==
  ASSUME NEW w \in 0..31, NEW r \in BOOLEAN, clock = Running(w, r), BusEdge
  PROVE  clock' = Running((w + 1) % 32, ReadyNext(w, r))
<1> DEFINE e == [initctr |-> 3, ctr |-> (w + 14) % 16, ce3 |-> ((w+1) % 8 = 2),
                  tce |-> ((w+1) % 16 = 10), slice |-> ((w+1) % 8 > 3), ws |-> w, READY |-> r]
<1>1. /\ clock.ctr = (w + 13) % 16 /\ clock.initctr = 3 /\ clock.ws = w /\ clock.READY = r
      /\ clock.ce3 = (w % 8 = 2)
  BY DEF Running
<1>2. /\ (clock.ctr % 8 = 6) = ((w + 1) % 8 = 2)
      /\ (clock.ctr = 6) = ((w + 1) % 16 = 10)
      /\ (clock.ctr % 8 < 4) = ((w + 1) % 8 > 3)
      /\ (clock.ctr + 1) % 16 = (w + 14) % 16
  BY <1>1
<1>3. ClocksterEdge(clock) = e
  BY <1>1, <1>2, Zenon DEF ClocksterEdge, LocksIn, Running
<1>4. clock' = [e EXCEPT !.ws = (e.ws + 1) % 32, !.READY = ReadyNext(w, r)]
  <2>1. clock' = WaitEdge(e)
    BY <1>3, Zenon DEF BusEdge
  <2>2. ws_cpu_time = (w \div 4 = 5) /\ cpu_ce = (w % 8 = 2)
    BY <1>1, Zenon DEF ws_cpu_time, cpu_ce
  <2>3. (ws_cpu_time \/ (e.READY /\ ~(cpu_ce /\ SYNC /\ ws_req))) = ReadyNext(w, r)
    BY <2>2, Zenon DEF ReadyNext
  <2> QED
    BY <2>1, <2>3, Zenon DEF WaitEdge
<1>5. /\ ((w + 1) % 8 = 2) = (((w + 1) % 32) % 8 = 2)
      /\ ((w + 1) % 16 = 10) = (((w + 1) % 32) % 16 = 10)
      /\ ((w + 1) % 8 > 3) = (((w + 1) % 32) % 8 > 3)
      /\ (w + 14) % 16 = (((w + 1) % 32) + 13) % 16
  OBVIOUS
<1>6. e.ws = w
  BY Zenon
<1> DEFINE f == e
<1>7. clock' = [f EXCEPT !.ws = (w + 1) % 32, !.READY = ReadyNext(w, r)]
  BY <1>4, <1>6, Zenon
<1>8. f = e
  OBVIOUS
<1> HIDE DEF f
<1> QED
  BY <1>5, <1>7, <1>8, SetsFrame, Zenon DEF Running

LEMMA ClockStarts ==
  ASSUME NEW w \in 0..2, clock = Starting(w), BusEdge
  PROVE  IF w = 2 THEN clock' = Running(3, FALSE) ELSE clock' = Starting(w + 1)
<1> DEFINE c1 == [clock EXCEPT !.initctr = clock.initctr + 1]
<1>1. /\ clock.initctr = w /\ clock.ws = w /\ clock.READY = FALSE /\ clock.ce3 = FALSE
  BY DEF Starting
<1>2. c1 = [initctr |-> w + 1, ctr |-> 0, ce3 |-> FALSE, tce |-> FALSE,
            slice |-> FALSE, ws |-> w, READY |-> FALSE]
  <2>1. c1 = [clock EXCEPT !.initctr = w + 1]
    BY <1>1, Zenon
  <2>2. clock = [initctr |-> w, ctr |-> 0, ce3 |-> FALSE, tce |-> FALSE,
                 slice |-> FALSE, ws |-> w, READY |-> FALSE]
    BY Zenon DEF Starting
  <2>3. [clock EXCEPT !.initctr = w + 1] =
          [initctr |-> w + 1, ctr |-> 0, ce3 |-> FALSE, tce |-> FALSE,
           slice |-> FALSE, ws |-> w, READY |-> FALSE]
    <3> DEFINE no == FALSE  z == 0  v == w + 1
    <3>1. clock = [initctr |-> w, ctr |-> z, ce3 |-> no, tce |-> no, slice |-> no, ws |-> w, READY |-> no]
      BY <2>2, Zenon
    <3> HIDE DEF no, z, v
    <3>2. [clock EXCEPT !.initctr = v] = [initctr |-> v, ctr |-> z, ce3 |-> no, tce |-> no,
                                          slice |-> no, ws |-> w, READY |-> no]
      BY <3>1, SetsInitctr
    <3> QED
      BY <3>2, Zenon DEF no, z, v
  <2> QED
    BY <2>1, <2>3, Zenon
<1>3. ClocksterEdge(clock) = c1
  BY <1>1 DEF ClocksterEdge, LocksIn
<1>4. ~ws_cpu_time
  BY <1>1 DEF ws_cpu_time
<1> HIDE DEF c1
<1>5. clock' = WaitEdge(c1)
  BY <1>3, Zenon DEF BusEdge
<1>6. c1.ws = w /\ c1.READY = FALSE
  BY <1>2
<1>7. clock' = [c1 EXCEPT !.ws = (w + 1) % 32, !.READY = FALSE]
  BY <1>4, <1>5, <1>6, Zenon DEF WaitEdge
<1>8. clock' = [initctr |-> w + 1, ctr |-> 0, ce3 |-> FALSE, tce |-> FALSE,
                slice |-> FALSE, ws |-> (w + 1) % 32, READY |-> FALSE]
  BY <1>2, <1>7, SetsFrame, Zenon
<1>9. (w + 1) % 32 = w + 1
  OBVIOUS
<1>10. CASE w = 2
  <2>1. /\ (3 + 13) % 16 = 0 /\ (3 % 8 = 2) = FALSE /\ (3 % 16 = 10) = FALSE
        /\ (3 % 8 > 3) = FALSE /\ w + 1 = 3
    BY <1>10
  <2> QED
    BY <1>8, <1>9, <1>10, <2>1, Zenon DEF Running
<1> QED
  BY <1>8, <1>9, <1>10, Zenon DEF Starting

LEMMA StartingFields ==
  ASSUME NEW w, clock = Starting(w)
  PROVE  clock.ws = w /\ clock.READY = FALSE /\ ~cpu_ce
  BY Zenon DEF Starting, cpu_ce

LEMMA RunningFields ==
  ASSUME NEW w, NEW r, clock = Running(w, r)
  PROVE  /\ clock.ws = w /\ clock.READY = r /\ clock.slice = (w % 8 > 3)
         /\ cpu_ce = (w % 8 = 2) /\ vi53_timer_ce = (w % 16 = 10)
  BY Zenon DEF Running, cpu_ce, vi53_timer_ce

(* The clock enables, from the frame counter.                              *)
LEMMA ClockTells ==
  ASSUME ClockInStep
  PROVE  /\ clock.ws \in 0..31 /\ clock.READY \in BOOLEAN
         /\ cpu_ce => clock.ws \in {2, 10, 18, 26} /\ clock.slice = FALSE
         /\ cpu_ce \/ cpu.t # 0 => (vi53_timer_ce <=> clock.ws \in {10, 26})
         /\ cpu.t # 0 /\ clock.ws \in {2, 10, 18, 26} => cpu_ce
<1>1. CASE cpu.t = 0 /\ \E w \in 0..2 : clock = Starting(w)
  <2>1. PICK w \in 0..2 : clock = Starting(w)
    BY <1>1
  <2>2. clock.ws = w /\ clock.READY = FALSE /\ ~cpu_ce
    BY <2>1, StartingFields, Zenon
  <2>3. w \in 0..31 /\ FALSE \in BOOLEAN
    OBVIOUS
  <2> QED
    BY <1>1, <2>2, <2>3, Zenon
<1>2. CASE \E w \in 0..31, r \in BOOLEAN : clock = Running(w, r)
  <2>1. PICK w \in 0..31, r \in BOOLEAN : clock = Running(w, r)
    BY <1>2
  <2>2. /\ clock.ws = w /\ clock.READY = r /\ clock.slice = (w % 8 > 3)
        /\ cpu_ce = (w % 8 = 2) /\ vi53_timer_ce = (w % 16 = 10)
    BY <2>1, RunningFields
  <2>3. /\ (w % 8 = 2) <=> w \in {2, 10, 18, 26}
        /\ (w % 16 = 10) <=> w \in {10, 26}
        /\ w \in {2, 10, 18, 26} => (w % 8 > 3) = FALSE
    OBVIOUS
  <2> QED
    BY <2>2, <2>3, Zenon
<1> QED
  BY <1>1, <1>2, Zenon DEF ClockInStep

LEMMA ClockKeepsStep ==
  ASSUME ClockInStep, BusEdge, cpu.t = 0 /\ ~cpu_ce => cpu'.t = 0
  PROVE  /\ ClockInStep'
         /\ clock.ws' = (clock.ws + 1) % 32
         /\ cpu.t # 0 => clock.READY' = ReadyNext(clock.ws, clock.READY)
<1>1. CASE cpu.t = 0 /\ \E w \in 0..2 : clock = Starting(w)
  <2>1. PICK w \in 0..2 : clock = Starting(w)
    BY <1>1
  <2>2. clock.ws = w /\ ~cpu_ce
    BY <2>1, StartingFields, Zenon
  <2>3. cpu'.t = 0
    BY <1>1, <2>2, Zenon
  <2>4. IF w = 2 THEN clock' = Running(3, FALSE) ELSE clock' = Starting(w + 1)
    BY <2>1, ClockStarts, Zenon
  <2>5. CASE w = 2
    <3>1. clock.ws' = 3
      <4>1. clock' = Running(3, FALSE)
        BY <2>4, <2>5, Zenon
      <4> QED
        BY <4>1 DEF Running
    <3>2. 3 \in 0..31 /\ FALSE \in BOOLEAN
      OBVIOUS
    <3>3. ClockInStep'
      BY <2>4, <2>5, <3>2, Zenon DEF ClockInStep, Running
    <3> QED
      BY <1>1, <2>2, <2>5, <3>1, <3>3
  <2>6. CASE w # 2
    <3>1. clock.ws' = w + 1
      <4>1. clock' = Starting(w + 1)
        BY <2>4, <2>6, Zenon
      <4> QED
        BY <4>1 DEF Starting
    <3>2. w + 1 \in 0..2 /\ (w + 1) % 32 = w + 1
      BY <2>6
    <3>3. ClockInStep'
      BY <2>3, <2>4, <2>6, <3>2, Zenon DEF ClockInStep, Starting
    <3> QED
      BY <1>1, <2>2, <2>6, <3>1, <3>2, <3>3
  <2> QED
    BY <2>5, <2>6
<1>2. CASE \E w \in 0..31, r \in BOOLEAN : clock = Running(w, r)
  <2>1. PICK w \in 0..31, r \in BOOLEAN : clock = Running(w, r)
    BY <1>2
  <2>2. clock.ws = w /\ clock.READY = r
    BY <2>1, RunningFields, Zenon
  <2>3. clock' = Running((w + 1) % 32, ReadyNext(w, r))
    BY <2>1, ClockRuns, Zenon
  <2>4. clock.ws' = (w + 1) % 32 /\ clock.READY' = ReadyNext(w, r)
    BY <2>3, Zenon DEF Running
  <2>5. (w + 1) % 32 \in 0..31 /\ ReadyNext(w, r) \in BOOLEAN
    BY DEF ReadyNext
  <2>6. ClockInStep'
    BY <2>3, <2>5, Zenon DEF ClockInStep, Running
  <2> QED
    BY <2>2, <2>4, <2>6, Zenon
<1> QED
  BY <1>1, <1>2, Zenon DEF ClockInStep

(* The bus registers move on the processor's clock.                        *)
LEMMA BusTakes ==
  ASSUME ClockInStep, BusEdge
  PROVE  /\ ~cpu_ce => bus' = bus
         /\ cpu_ce => /\ bus'.read = (IF SYNC THEN IORQ /\ cpu.op.kind = "in" ELSE bus.read)
                      /\ bus'.addr = IF IORQ THEN cpu.op.port ELSE Memory
<1>1. cpu_ce => clock.slice = FALSE
  BY ClockTells
<1>2. ~cpu_ce => bus' = bus
  BY Zenon DEF BusEdge
<1> DEFINE read == IF SYNC THEN IORQ /\ cpu.op.kind = "in" ELSE bus.read
           write == IF SYNC THEN IORQ /\ cpu.op.kind = "out" ELSE bus.write
<1>3. cpu_ce => bus' = [read |-> read, write |-> write, addr |-> address_bus]
  BY Zenon DEF BusEdge
<1> HIDE DEF read, write
<1>4. cpu_ce => bus'.read = read /\ bus'.addr = address_bus
  BY <1>3
<1>5. read = IF SYNC THEN IORQ /\ cpu.op.kind = "in" ELSE bus.read
  BY Zenon DEF read
<1> QED
  BY <1>1, <1>2, <1>4, <1>5, Zenon DEF address_bus, A

(* Between two processor clocks nothing leaves its quarter of the frame.   *)
LEMMA HoldsInStep ==
  ASSUME InStep, BusEdge, CpuHolds
  PROVE  InStep'
<1> DEFINE w == clock.ws
<1>1. cpu' = cpu /\ bus' = bus /\ ~cpu_ce
  BY BusTakes, Zenon DEF CpuHolds, InStep
<1>2. /\ ClockInStep'
      /\ clock.ws' = (w + 1) % 32
      /\ cpu.t # 0 => clock.READY' = ReadyNext(w, clock.READY)
  BY <1>1, ClockKeepsStep, Zenon DEF InStep
<1>3. /\ w \in 0..31 /\ clock.READY \in BOOLEAN
      /\ cpu.t # 0 => w \notin {2, 10, 18, 26}
  BY <1>1, ClockTells, Zenon DEF InStep
<1>4. cpu.t # 0 => /\ First <=> First'
                   /\ Second <=> Second'
                   /\ Third <=> Third'
                   /\ Fourth <=> Fourth'
  BY <1>2, <1>3 DEF First, Second, Third, Fourth
<1>5. cpu.t # 0 => /\ clock.READY => clock.READY'
                   /\ clock.READY' => clock.READY \/ clock.ws' \in 21..24
                   /\ w \in 21..26 => clock.ws' \in 21..26
  BY <1>2, <1>3 DEF ReadyNext
<1>6. CyclesInStep'
  BY <1>1, <1>4, <1>5 DEF InStep, CyclesInStep
<1>7. StrobesInStep'
  BY <1>1, <1>4 DEF InStep, StrobesInStep
<1> QED
  BY <1>2, <1>6, <1>7 DEF InStep

(* Reset drops the cycle, whatever it was.                                 *)
LEMMA ResetInStep ==
  ASSUME InStep, BusEdge, CpuReset
  PROVE  InStep'
<1>1. /\ cpu' = [m |-> 1, t |-> 0, WR_n |-> TRUE, op |-> Other]
      /\ cpu'.m = 1 /\ cpu'.t = 0 /\ cpu'.WR_n = TRUE /\ cpu'.op = Other
  BY Zenon DEF CpuReset
<1>2. ClockInStep'
  BY <1>1, ClockKeepsStep, Zenon DEF InStep
<1>3. bus'.read \in BOOLEAN
  BY BusTakes DEF InStep, StrobesInStep
<1>4. CyclesInStep'
  BY <1>1 DEF CyclesInStep
<1>5. StrobesInStep'
  BY <1>1, <1>3 DEF StrobesInStep
<1> QED
  BY <1>2, <1>4, <1>5 DEF InStep

(* READY after a processor clock: the slot is never one.                   *)
LEMMA ReadyTakes ==
  ASSUME ClockInStep, BusEdge, cpu_ce, cpu.t # 0
  PROVE  clock.READY' <=> clock.READY /\ (cpu.t # 1 \/ cpu.m = 3)
<1>1. clock.READY' = ReadyNext(clock.ws, clock.READY)
  BY ClockKeepsStep, Zenon
<1>2. clock.ws \in {2, 10, 18, 26} /\ clock.READY \in BOOLEAN
  BY ClockTells, Zenon
<1>3. ~(clock.ws \div 4 = 5) /\ clock.ws % 8 = 2
  BY <1>2
<1> QED
  BY <1>1, <1>2, <1>3, Zenon DEF ReadyNext, ws_req, SYNC, IORQ

LEMMA StepsCpu ==
  ASSUME NEW m, NEW t, NEW x, NEW y, NEW f,
         NEW a, NEW b, NEW c, f = [m |-> a, t |-> b, WR_n |-> c, op |-> y]
  PROVE  [f EXCEPT !.WR_n = x, !.t = t, !.m = m] = [m |-> m, t |-> t, WR_n |-> x, op |-> y]
<1> DEFINE g == [f EXCEPT !.WR_n = x]
<1>1. g = [m |-> a, t |-> b, WR_n |-> x, op |-> y]
  OBVIOUS
<1> HIDE DEF g
<1> DEFINE h == [g EXCEPT !.t = t]
<1>2. h = [m |-> a, t |-> t, WR_n |-> x, op |-> y]
  BY <1>1
<1> HIDE DEF h
<1>3. [h EXCEPT !.m = m] = [m |-> m, t |-> t, WR_n |-> x, op |-> y]
  BY <1>2
<1> QED
  BY <1>3, Zenon DEF g, h

LEMMA CpuMoves ==
  ASSUME InStep, CpuSteps
  PROVE  /\ cpu'.m = IF LastT THEN cpu.m + 1 ELSE cpu.m
         /\ cpu'.t = IF Waits THEN cpu.t ELSE IF LastT THEN 1 ELSE cpu.t + 1
         /\ cpu'.op = cpu.op
         /\ cpu'.WR_n \in BOOLEAN
         /\ (cpu.t = 2 /\ cpu.m = 3) \/ cpu'.WR_n
         /\ cpu' = [m |-> cpu'.m, t |-> cpu'.t, WR_n |-> cpu'.WR_n, op |-> cpu'.op]
         /\ cpu'.WR_n = WR_n_next
<1> DEFINE m == IF LastT THEN cpu.m + 1 ELSE cpu.m
           t == IF Waits THEN cpu.t ELSE IF LastT THEN 1 ELSE cpu.t + 1
<1>1. cpu' = [cpu EXCEPT !.WR_n = WR_n_next, !.t = t, !.m = m]
  BY Zenon DEF CpuSteps
<1>2. cpu = [m |-> cpu.m, t |-> cpu.t, WR_n |-> cpu.WR_n, op |-> cpu.op]
  BY Zenon DEF InStep, CyclesInStep
<1> HIDE DEF m, t
<1>3. cpu' = [m |-> m, t |-> t, WR_n |-> WR_n_next, op |-> cpu.op]
  BY <1>1, <1>2, StepsCpu, Zenon
<1>4. cpu'.m = m /\ cpu'.t = t /\ cpu'.WR_n = WR_n_next /\ cpu'.op = cpu.op
  BY <1>3
<1>5. cpu'.WR_n \in BOOLEAN /\ ((cpu.t = 2 /\ cpu.m = 3) \/ cpu'.WR_n)
  <2>1. WR_n_next \in BOOLEAN /\ ((cpu.t = 2 /\ cpu.m = 3) \/ WR_n_next)
    BY DEF WR_n_next, IORQ
  <2> QED
    BY <1>4, <2>1, Zenon
<1> QED
  BY <1>3, <1>4, <1>5, Zenon DEF m, t

(* A processor clock moves a cycle to its next T-state, and the frame from *)
(* one quarter to the next.                                                *)
LEMMA StepsInStep ==
  ASSUME InStep, BusEdge, CpuSteps
  PROVE  InStep'
<1> DEFINE w == clock.ws
<1>1. cpu_ce /\ cpu.t # 0 /\ ~(LastT /\ LastM)
  BY DEF CpuSteps
<1>2. /\ ClockInStep'
      /\ clock.ws' = (w + 1) % 32
      /\ w \in {2, 10, 18, 26}
      /\ clock.READY \in BOOLEAN /\ clock.READY' \in BOOLEAN
      /\ clock.READY' <=> clock.READY /\ (cpu.t # 1 \/ cpu.m = 3)
  <2>1. ClockInStep' /\ clock.ws' = (w + 1) % 32
    BY <1>1, ClockKeepsStep, Zenon DEF InStep
  <2>2. clock.READY' \in BOOLEAN
    BY <1>1, ClockKeepsStep DEF InStep, ReadyNext
  <2> QED
    BY <1>1, <2>1, <2>2, ClockTells, ReadyTakes, Zenon DEF InStep
<1>3. /\ cpu'.m = IF LastT THEN cpu.m + 1 ELSE cpu.m
      /\ cpu'.t = IF Waits THEN cpu.t ELSE IF LastT THEN 1 ELSE cpu.t + 1
      /\ cpu'.op = cpu.op
      /\ cpu'.WR_n \in BOOLEAN
      /\ (cpu.t = 2 /\ cpu.m = 3) \/ cpu'.WR_n
      /\ cpu' = [m |-> cpu'.m, t |-> cpu'.t, WR_n |-> cpu'.WR_n, op |-> cpu'.op]
  BY CpuMoves
<1>4. CASE cpu.t = 1
  <2>1. cpu'.t = 2 /\ cpu'.m = cpu.m
    BY <1>3, <1>4 DEF LastT, Waits
  <2>2. cpu.m = 3 => w = 10
    BY <1>2, <1>4 DEF InStep, CyclesInStep, Second, Third, Fourth
  <2>3. CyclesInStep'
    BY <1>2, <1>3, <1>4, <2>1, <2>2 DEF InStep, CyclesInStep, Third
  <2>4. bus'.read <=> IORQ /\ cpu.op.kind = "in"
    BY <1>1, <1>4, BusTakes, Zenon DEF InStep, SYNC
  <2>5. bus'.read \in BOOLEAN
    BY <1>1, <1>4, BusTakes DEF InStep, SYNC
  <2>6. StrobesInStep'
    BY <1>3, <1>4, <2>1, <2>4, <2>5 DEF StrobesInStep, IORQ
  <2> QED
    BY <1>2, <2>3, <2>6 DEF InStep
<1>5. bus'.read = bus.read \/ cpu.t = 1
  BY <1>1, BusTakes, Zenon DEF InStep, SYNC
<1>6. CASE cpu.t = 2 /\ ~clock.READY
  <2>1. cpu'.t = 2 /\ cpu'.m = cpu.m /\ cpu.m # 3
    BY <1>3, <1>6 DEF LastT, Waits, InStep, CyclesInStep
  <2>2. CyclesInStep'
    BY <1>2, <1>3, <1>6, <2>1 DEF InStep, CyclesInStep
  <2>3. StrobesInStep'
    BY <1>3, <1>5, <1>6, <2>1 DEF InStep, StrobesInStep
  <2> QED
    BY <1>2, <2>2, <2>3 DEF InStep
<1>7. CASE cpu.t = 2 /\ clock.READY
  <2>1. cpu'.t = 3 /\ cpu'.m = cpu.m
    BY <1>3, <1>7 DEF LastT, Waits
  <2>2. w = IF cpu.m = 3 THEN 18 ELSE 26
    BY <1>2, <1>7 DEF InStep, CyclesInStep, Third
  <2>3. CyclesInStep'
    BY <1>2, <1>3, <1>7, <2>1, <2>2 DEF InStep, CyclesInStep, First, Fourth
  <2>4. StrobesInStep'
    BY <1>3, <1>5, <1>7, <2>1 DEF InStep, StrobesInStep, CyclesInStep
  <2> QED
    BY <1>2, <2>3, <2>4 DEF InStep
<1>8. CASE cpu.t = 3
  <2>1. cpu'.WR_n
    BY <1>3, <1>8
  <2>2. cpu.m # 3 /\ w = 2
    BY <1>1, <1>2, <1>8 DEF InStep, CyclesInStep, LastT, LastM, Second, Third, First
  <2>3. /\ cpu.m = 1 => cpu'.t = 4 /\ cpu'.m = 1
        /\ cpu.m = 2 => cpu'.t = 1 /\ cpu'.m = 3
    BY <1>3, <1>8 DEF LastT, Waits
  <2>4. CyclesInStep'
    BY <1>2, <1>3, <1>8, <2>2, <2>3 DEF InStep, CyclesInStep, Second
  <2>5. StrobesInStep'
    BY <1>3, <1>5, <1>8, <2>1, <2>2 DEF InStep, StrobesInStep, CyclesInStep
  <2> QED
    BY <1>2, <2>4, <2>5 DEF InStep
<1>9. CASE cpu.t = 4
  <2>1. cpu'.WR_n
    BY <1>3, <1>9
  <2>2. cpu.m = 1 /\ w = 10 /\ cpu.op # Other
    BY <1>1, <1>2, <1>9 DEF InStep, CyclesInStep, LastT, LastM, Second
  <2>3. cpu'.t = 1 /\ cpu'.m = 2
    BY <1>3, <1>9, <2>2 DEF LastT, Waits
  <2>4. CyclesInStep'
    BY <1>2, <1>3, <2>2, <2>3 DEF InStep, CyclesInStep, Third
  <2>5. StrobesInStep'
    BY <1>3, <1>5, <1>9, <2>1, <2>2 DEF InStep, StrobesInStep, CyclesInStep
  <2> QED
    BY <1>2, <2>4, <2>5 DEF InStep
<1>10. cpu.t \in 0..4 /\ clock.READY \in BOOLEAN
  BY <1>2 DEF InStep, CyclesInStep
<1> QED
  BY <1>1, <1>4, <1>6, <1>7, <1>8, <1>9, <1>10

(* A fetch begins in reset, or after a cycle's last T-state.               *)
LEMMA FetchesInStep ==
  ASSUME InStep, BusEdge, CpuFetches
  PROVE  InStep'
<1> DEFINE w == clock.ws
<1>1. cpu_ce /\ (cpu.t = 0 \/ (LastT /\ LastM))
  BY Zenon DEF CpuFetches
<1>2. PICK op : Runs(op)
  BY DEF CpuFetches
<1>3. /\ cpu'.m = 1 /\ cpu'.t = 1 /\ cpu'.WR_n = WR_n_next
      /\ cpu' = [m |-> cpu'.m, t |-> cpu'.t, WR_n |-> cpu'.WR_n, op |-> cpu'.op]
  <2> DEFINE x == WR_n_next
  <2>1. cpu' = [m |-> 1, t |-> 1, WR_n |-> x, op |-> op]
    BY <1>2, Zenon DEF Runs
  <2> HIDE DEF x
  <2> QED
    BY <2>1 DEF x
<1>4. ClockInStep' /\ clock.ws' = (w + 1) % 32
  BY <1>1, ClockKeepsStep, Zenon DEF InStep
<1>5. w \in {2, 10, 18, 26}
  BY <1>1, ClockTells, Zenon DEF InStep
<1>6. cpu'.WR_n = TRUE
  <2>1. cpu.t # 2 \/ cpu.m # 3
    BY <1>1 DEF LastT
  <2> QED
    BY <1>3, <2>1, Zenon DEF WR_n_next, IORQ
<1>7. CyclesInStep'
  BY <1>3 DEF CyclesInStep
<1>8. cpu.t # 1
  BY <1>1 DEF LastT
<1>9. bus'.read = bus.read
  BY <1>1, <1>8, BusTakes, Zenon DEF InStep, SYNC
<1>10. bus'.read /\ ~First' => bus'.addr = Memory
  <2>1. CASE cpu.m = 3
    <3>1. w = 26
      BY <1>1, <1>5, <2>1 DEF InStep, CyclesInStep, LastT, Second, Third, Fourth
    <3> QED
      BY <1>4, <3>1 DEF First
  <2>2. CASE cpu.m # 3
    BY <1>1, <2>2, BusTakes, Zenon DEF InStep, IORQ
  <2> QED
    BY <2>1, <2>2
<1>11. StrobesInStep'
  BY <1>3, <1>6, <1>9, <1>10 DEF InStep, StrobesInStep
<1> QED
  BY <1>4, <1>7, <1>11 DEF InStep

LEMMA InitInStep == TimerInit => InStep
<1> SUFFICES ASSUME TimerInit PROVE InStep
  OBVIOUS
<1>1. clock = Starting(0) /\ 0 \in 0..2
  BY DEF TimerInit, BusInit, Starting
<1>2. cpu = [m |-> 1, t |-> 0, WR_n |-> TRUE, op |-> Other]
  BY DEF TimerInit, BusInit
<1>3. bus.read = FALSE
  BY DEF TimerInit, BusInit
<1>4. ClockInStep
  BY <1>1, <1>2, Zenon DEF ClockInStep
<1>5. CyclesInStep
  BY <1>2 DEF CyclesInStep
<1>6. StrobesInStep
  BY <1>2, <1>3 DEF StrobesInStep
<1> QED
  BY <1>4, <1>5, <1>6 DEF InStep

LEMMA InStepSuffices == InStep => AccessMeetsTick
<1> SUFFICES ASSUME InStep PROVE AccessMeetsTick
  OBVIOUS
<1> DEFINE w == clock.ws
<1>1. /\ cpu_ce => w \in {2, 10, 18, 26}
      /\ cpu_ce => (vi53_timer_ce <=> w \in {10, 26})
  BY ClockTells, Zenon DEF InStep
<1>2. ASSUME vi53_wren, cpu_ce PROVE vi53_timer_ce
  <2>1. cpu.m = 3 /\ cpu.t = 3
    BY <1>2, Zenon DEF vi53_wren, InStep, StrobesInStep
  <2>2. w = 26
    BY <1>1, <1>2, <2>1 DEF InStep, CyclesInStep, Fourth
  <2> QED
    BY <1>1, <1>2, <2>2
<1>3. ASSUME vi53_rden, cpu_ce, cpu.t # 0 PROVE vi53_timer_ce <=> cpu.t = 3
  <2>1. bus.read /\ bus.addr # Memory
    BY <1>3 DEF vi53_rden, vi53_sel, Memory
  <2>2. (cpu.m = 3 /\ cpu.t > 1) \/ (cpu.m = 1 /\ cpu.t = 1 /\ First)
    BY <1>3, <2>1 DEF InStep, StrobesInStep
  <2>3. (cpu.t = 3 /\ w = 26) \/ (cpu.t = 2 /\ w = 18) \/ (cpu.t = 1 /\ w = 2)
    BY <1>1, <1>3, <2>2 DEF InStep, CyclesInStep, First, Third, Fourth
  <2> QED
    BY <1>1, <1>3, <2>3
<1> QED
  BY <1>2, <1>3 DEF AccessMeetsTick

LEMMA NextInStep == InStep /\ [TimerNext]_timerVars => InStep'
<1> SUFFICES ASSUME InStep, [TimerNext]_timerVars PROVE InStep'
  OBVIOUS
<1>1. CASE Between
  BY <1>1, HoldsInStep, Zenon DEF Between
<1>2. CASE OnCpuClock
  BY <1>2, StepsInStep, FetchesInStep, Zenon DEF OnCpuClock
<1>3. CASE InReset
  BY <1>3, ResetInStep, Zenon DEF InReset
<1>4. CASE UNCHANGED timerVars
  BY <1>4 DEF timerVars, busVars, InStep, ClockInStep, CyclesInStep, StrobesInStep,
              First, Second, Third, Fourth
<1> QED
  BY <1>1, <1>2, <1>3, <1>4, Zenon DEF TimerNext

(* Whatever programs run and however often the computer is reset, a write  *)
(* strobe ends on a tick of the timer and a read meets one, after its byte *)
(* is taken.                                                               *)
THEOREM AccessIsAligned == TimerSpec => []AccessMeetsTick
<1> QED
  BY NextInStep, InitInStep, InStepSuffices, PTL DEF TimerSpec

-----------------------------------------------------------------------------
(* The read side of a unit, whatever the rest of its registers do.         *)
Registers == DOMAIN Power

(* A unit's edge up to n leaves what the read side has.                    *)
Passes(c, n) ==
  /\ DOMAIN n = Registers
  /\ n.latched_q = c.latched_q
  /\ n.read_msb = c.read_msb
  /\ n.read_state = c.read_state

LEMMA RegisterNames ==
  Registers = {"rl", "mode", "outreg", "load", "wren", "starting", "loaded", "loading",
               "loading_msb", "counter", "read_state", "read_msb", "latched_q"}
  BY DEF Registers, Power

LEMMA SetsModePasses ==
  ASSUME NEW u, NEW c, DOMAIN c = Registers
  PROVE  /\ Passes(c, SetsMode(u, c))
         /\ ~Programs(u) => SetsMode(u, c).rl = c.rl
  BY RegisterNames DEF SetsMode, Passes

LEMMA LoadsPasses ==
  ASSUME NEW u, NEW c, NEW n, DOMAIN n = Registers
  PROVE  /\ Passes(n, Loads(u, c, n))
         /\ Loads(u, c, n).rl = n.rl
<1> USE RegisterNames
<1>1. \A d : Passes(n, LoadsMsb(c, n, d)) /\ LoadsMsb(c, n, d).rl = n.rl
  BY DEF LoadsMsb, Passes
<1>2. \A d : Passes(n, LoadsLsb(c, n, d)) /\ LoadsLsb(c, n, d).rl = n.rl
  BY DEF LoadsLsb, Passes
<1>3. \A d : Passes(n, LoadsOne(n, d)) /\ LoadsOne(n, d).rl = n.rl
  BY DEF LoadsOne, Passes
<1>4. Passes(n, n)
  BY DEF Passes
<1> QED
  BY <1>1, <1>2, <1>3, <1>4 DEF Loads

LEMMA StartsPasses ==
  ASSUME NEW c, NEW n, DOMAIN n = Registers
  PROVE  Passes(n, Starts(c, n)) /\ Starts(c, n).rl = n.rl
  BY RegisterNames DEF Starts, Passes

LEMMA DrivesPasses ==
  ASSUME NEW c, NEW n, DOMAIN n = Registers
  PROVE  Passes(n, Drives(c, n)) /\ Drives(c, n).rl = n.rl
  BY RegisterNames DEF Drives, Passes

LEMMA UnitEdgeReads ==
  ASSUME NEW u, NEW c, DOMAIN c = Registers
  PROVE  LET d == UnitEdge(u, c) IN
         /\ DOMAIN d = Registers
         /\ ~Programs(u) => d.rl = c.rl
         /\ d.latched_q = IF Latches(u) THEN c.counter ELSE c.latched_q
         /\ ~vi53_timer_ce \/ (~cwset(u) /\ ~rden(u)) =>
              d.read_msb = c.read_msb /\ d.read_state = c.read_state
         /\ vi53_timer_ce /\ Latches(u) => d.read_msb = FALSE /\ d.read_state = 2
         /\ vi53_timer_ce /\ ~cwset(u) /\ rden(u) =>
              /\ d.read_msb = ~c.read_msb
              /\ d.read_state = IF c.read_state > 0 THEN c.read_state - 1 ELSE c.read_state
<1> DEFINE n1 == SetsMode(u, c)
<1>1. Passes(c, n1) /\ (~Programs(u) => n1.rl = c.rl)
  BY SetsModePasses
<1> HIDE DEF n1
<1> DEFINE n2 == Loads(u, c, n1)
<1>2. Passes(n1, n2) /\ n2.rl = n1.rl
  BY <1>1, LoadsPasses DEF Passes
<1> HIDE DEF n2
<1> DEFINE n3 == Starts(c, n2)
<1>3. Passes(n2, n3) /\ n3.rl = n2.rl
  BY <1>2, StartsPasses DEF Passes
<1> HIDE DEF n3
<1> DEFINE n == Drives(c, n3)
<1>4. Passes(n3, n) /\ n.rl = n3.rl
  BY <1>3, DrivesPasses DEF Passes
<1> HIDE DEF n
<1> DEFINE e == ReadEdge(u, c, n)
<1>5. Passes(c, n) /\ (~Programs(u) => n.rl = c.rl)
  BY <1>1, <1>2, <1>3, <1>4, Zenon DEF Passes
<1>6. /\ DOMAIN e = Registers
      /\ e.rl = n.rl
      /\ e.latched_q = IF Latches(u) THEN c.counter ELSE n.latched_q
      /\ ~vi53_timer_ce \/ (~cwset(u) /\ ~rden(u)) =>
           e.read_msb = n.read_msb /\ e.read_state = n.read_state
      /\ vi53_timer_ce /\ Latches(u) => e.read_msb = FALSE /\ e.read_state = 2
      /\ vi53_timer_ce /\ ~cwset(u) /\ rden(u) =>
           /\ e.read_msb = ~c.read_msb
           /\ e.read_state = IF c.read_state > 0 THEN c.read_state - 1 ELSE n.read_state
  <2> DEFINE lq == IF Latches(u) THEN c.counter ELSE n.latched_q
             rm == IF ~vi53_timer_ce THEN n.read_msb ELSE IF cwset(u) THEN FALSE
                   ELSE IF rden(u) THEN ~c.read_msb ELSE n.read_msb
             rs == IF ~vi53_timer_ce THEN n.read_state
                   ELSE IF cwset(u) THEN IF Word.rl = 0 THEN 2 ELSE 0
                   ELSE IF rden(u) /\ c.read_state > 0 THEN c.read_state - 1 ELSE n.read_state
  <2>1. e = [n EXCEPT !.latched_q = lq, !.read_msb = rm, !.read_state = rs]
    BY Zenon DEF ReadEdge, readhelper
  <2> HIDE DEF lq, rm, rs, e
  <2>2. /\ DOMAIN e = Registers /\ e.rl = n.rl
        /\ e.latched_q = lq /\ e.read_msb = rm /\ e.read_state = rs
    BY <2>1, <1>5, RegisterNames DEF Passes
  <2>3. Latches(u) => cwset(u) /\ Word.rl = 0
    BY DEF Latches
  <2>4. ~vi53_timer_ce \/ (~cwset(u) /\ ~rden(u)) => rm = n.read_msb /\ rs = n.read_state
    BY Zenon DEF rm, rs
  <2>5. vi53_timer_ce /\ Latches(u) => rm = FALSE /\ rs = 2
    BY <2>3, Zenon DEF rm, rs
  <2>6. vi53_timer_ce /\ ~cwset(u) /\ rden(u) =>
          /\ rm = ~c.read_msb
          /\ rs = IF c.read_state > 0 THEN c.read_state - 1 ELSE n.read_state
    BY Zenon DEF rm, rs
  <2> QED
    BY <2>2, <2>4, <2>5, <2>6, Zenon DEF lq
<1> DEFINE d == UnitEdge(u, c)
<1>7. d = [e EXCEPT !.counter = CounterEdge(c)]
  BY Zenon DEF UnitEdge, n, n1, n2, n3
<1> HIDE DEF d, e
<1>8. /\ DOMAIN d = Registers /\ d.rl = e.rl
      /\ d.latched_q = e.latched_q /\ d.read_msb = e.read_msb /\ d.read_state = e.read_state
  BY <1>6, <1>7, RegisterNames
<1>9. /\ n.latched_q = c.latched_q /\ n.read_msb = c.read_msb /\ n.read_state = c.read_state
  BY <1>5, Zenon DEF Passes
<1> QED
  BY <1>5, <1>6, <1>8, <1>9, Zenon DEF d

(* In the clocks that read or write, the registered address is the port's. *)
AddressInStep == cpu.m = 3 /\ cpu.t \in {2, 3} => bus.addr = cpu.op.port

(* A read is under way once its byte is taken, until the tick that counts  *)
(* it.                                                                     *)
Reading(u) == cpu.m = 3 /\ cpu.t = 3 /\ rden(u)

FirstByte(c)  == c.read_state = 2 /\ c.read_msb = FALSE
SecondByte(c) == c.read_state = 1 /\ c.read_msb = TRUE

(* While a program may rely on a latch, the read side is at the byte it    *)
(* expects; a latch command that is still being written may have changed   *)
(* the count already.                                                      *)
LatchKept(u) ==
  /\ DOMAIN unit[u] = Registers
  /\ DOMAIN latch[u] = {"count", "left"}
  /\ latch[u].left \in 0..2
  /\ cpu.t = 0 => latch[u].left = 0
  /\ latch[u].left > 0 => unit[u].rl = 3
  /\ latch[u].left > 0 /\ ~Latches(u) =>
       /\ unit[u].latched_q = latch[u].count
       /\ latch[u].left = 2 => FirstByte(unit[u]) /\ ~Reading(u)
       /\ latch[u].left = 1 /\ Reading(u) => FirstByte(unit[u])
       /\ latch[u].left = 1 /\ ~Reading(u) => SecondByte(unit[u])

LatchesKept == AddressInStep /\ \A u \in Units : LatchKept(u)

(* Where accesses fall.                                                    *)
LEMMA AccessFacts ==
  ASSUME InStep, NEW u
  PROVE  /\ Latches(u) \/ Programs(u) => cpu.m = 3 /\ cpu.t = 3
         /\ cwset(u) <=> Latches(u) \/ Programs(u)
         /\ Latches(u) => ~Programs(u)
         /\ Latches(u) /\ cpu_ce => vi53_timer_ce
         /\ rden(u) /\ vi53_timer_ce /\ cpu.t # 0 => Reading(u) /\ cpu_ce
         /\ Reading(u) /\ cpu_ce => vi53_timer_ce
         /\ rden(u) /\ Samples => cpu.m = 3 /\ cpu.t = 2 /\ ~vi53_timer_ce
<1> DEFINE w == clock.ws
<1>1. /\ cpu_ce \/ cpu.t # 0 => (vi53_timer_ce <=> w \in {10, 26})
      /\ cpu_ce => w \in {2, 10, 18, 26}
      /\ cpu.t # 0 /\ w \in {2, 10, 18, 26} => cpu_ce
  BY ClockTells, Zenon DEF InStep
<1>2. vi53_wren => cpu.m = 3 /\ cpu.t = 3
  BY Zenon DEF vi53_wren, InStep, StrobesInStep
<1>3. cwset(u) => vi53_wren
  BY DEF cwset
<1>4. rden(u) => bus.read /\ bus.addr # Memory
  BY DEF rden, vi53_rden, vi53_sel, Memory
<1>5. rden(u) /\ cpu.t # 0 =>
        (cpu.m = 3 /\ cpu.t > 1) \/ (cpu.m = 1 /\ cpu.t = 1 /\ First)
  BY <1>4 DEF InStep, StrobesInStep
<1>6. rden(u) /\ cpu.t # 0 =>
        \/ cpu.m = 3 /\ cpu.t = 3 /\ w \in 19..26
        \/ cpu.m = 3 /\ cpu.t = 2 /\ w \in 11..18
        \/ cpu.m = 1 /\ cpu.t = 1 /\ w \in 0..2 \cup 27..31
  BY <1>5 DEF InStep, CyclesInStep, First, Third, Fourth
<1>7. cpu.m = 3 /\ cpu.t = 3 => w \in 19..26
  BY DEF InStep, CyclesInStep, Fourth
<1>8. cwset(u) /\ cpu_ce => vi53_timer_ce
  BY <1>1, <1>2, <1>3, <1>7
<1>9. rden(u) /\ vi53_timer_ce /\ cpu.t # 0 => Reading(u) /\ cpu_ce
  BY <1>1, <1>6 DEF Reading
<1>10. Reading(u) /\ cpu_ce => vi53_timer_ce
  BY <1>1, <1>7 DEF Reading
<1>11. rden(u) /\ Samples => cpu.m = 3 /\ cpu.t = 2 /\ ~vi53_timer_ce
  BY <1>1, <1>6 DEF Samples
<1>12. /\ cwset(u) <=> Latches(u) \/ Programs(u)
       /\ Latches(u) => ~Programs(u)
  BY Zenon DEF Latches, Programs
<1> QED
  BY <1>2, <1>3, <1>8, <1>9, <1>10, <1>11, <1>12, Zenon

(* A processor clock on which a read takes its byte leaves it under way,   *)
(* and no other does.                                                      *)
LEMMA ReadGoesOn ==
  ASSUME InStep, AddressInStep, BusEdge, CpuSteps \/ CpuFetches, NEW u
  PROVE  /\ Reading(u)' <=> rden(u) /\ Samples
         /\ cpu'.t # 0 /\ cpu_ce
         /\ AddressInStep'
<1>1. cpu_ce
  BY DEF CpuSteps, CpuFetches
<1>2. /\ bus'.read = IF SYNC THEN IORQ /\ cpu.op.kind = "in" ELSE bus.read
      /\ bus'.addr = IF IORQ THEN cpu.op.port ELSE Memory
  BY <1>1, BusTakes, Zenon DEF InStep
<1>3. rden(u) /\ Samples => cpu.m = 3 /\ cpu.t = 2
  BY AccessFacts, Zenon
<1>4. CASE CpuFetches
  <2>1. cpu'.m = 1 /\ cpu'.t = 1
    BY <1>4 DEF CpuFetches, Runs
  <2>2. ~(cpu.m = 3 /\ cpu.t = 2)
    BY <1>4 DEF CpuFetches, LastT
  <2> QED
    BY <1>1, <1>3, <2>1, <2>2 DEF Reading, AddressInStep
<1>5. CASE CpuSteps
  <2>1. /\ cpu'.m = IF LastT THEN cpu.m + 1 ELSE cpu.m
        /\ cpu'.t = IF Waits THEN cpu.t ELSE IF LastT THEN 1 ELSE cpu.t + 1
        /\ cpu'.op = cpu.op
    BY <1>5, CpuMoves, Zenon
  <2>2. cpu.t \in 1..4 /\ cpu.m \in 1..3 /\ (cpu.m = 3 => clock.READY)
    BY <1>5 DEF CpuSteps, InStep, CyclesInStep
  <2>3. cpu'.m = 3 /\ cpu'.t = 3 <=> cpu.m = 3 /\ cpu.t = 2
    BY <2>1, <2>2 DEF LastT, Waits
  <2>4. cpu'.m = 3 /\ cpu'.t \in {2, 3} => cpu.m = 3
    BY <2>1, <2>2 DEF LastT, Waits
  <2>5. AddressInStep'
    <3>1. cpu.m = 3 => bus'.addr = cpu'.op.port
      BY <1>2, <2>1 DEF IORQ
    <3> QED
      BY <2>4, <3>1 DEF AddressInStep
  <2>6. ASSUME cpu.m = 3, cpu.t = 2
        PROVE  bus'.read = bus.read /\ bus'.addr = bus.addr /\ Samples
    <3>1. bus.addr = cpu.op.port
      BY <2>6 DEF AddressInStep
    <3>2. ~SYNC /\ IORQ
      BY <2>6 DEF SYNC, IORQ
    <3> QED
      BY <1>1, <1>2, <2>2, <2>6, <3>1, <3>2, Zenon DEF Samples
  <2>7. cpu.m = 3 /\ cpu.t = 2 => (rden(u)' <=> rden(u))
    BY <2>6, Zenon DEF rden, vi53_rden, vi53_sel
  <2>8. cpu'.t # 0
    BY <2>1, <2>2
  <2>9. Reading(u)' <=> cpu'.m = 3 /\ cpu'.t = 3 /\ rden(u)'
    BY Zenon DEF Reading
  <2> QED
    BY <1>1, <1>3, <2>3, <2>5, <2>6, <2>7, <2>8, <2>9, Zenon
<1> QED
  BY <1>4, <1>5

LEMMA UnitKeepsLatch ==
  ASSUME InStep, AddressInStep, BusEdge, CpuHolds \/ CpuSteps \/ CpuFetches,
         NEW u \in Units, LatchKept(u),
         unit'[u] = UnitEdge(u, unit[u]), latch'[u] = LatchEdge(u)
  PROVE  LatchKept(u)'
<1> DEFINE c == unit[u]
           d == unit'[u]
           l == latch[u]
           k == latch'[u]
<1>1. /\ DOMAIN d = Registers
      /\ ~Programs(u) => d.rl = c.rl
      /\ d.latched_q = IF Latches(u) THEN c.counter ELSE c.latched_q
      /\ ~vi53_timer_ce \/ (~cwset(u) /\ ~rden(u)) =>
           d.read_msb = c.read_msb /\ d.read_state = c.read_state
      /\ vi53_timer_ce /\ Latches(u) => d.read_msb = FALSE /\ d.read_state = 2
      /\ vi53_timer_ce /\ ~cwset(u) /\ rden(u) =>
           /\ d.read_msb = ~c.read_msb
           /\ d.read_state = IF c.read_state > 0 THEN c.read_state - 1 ELSE c.read_state
  <2>1. DOMAIN c = Registers /\ d = UnitEdge(u, c)
    BY Zenon DEF LatchKept
  <2> HIDE DEF c, d
  <2> QED
    BY <2>1, UnitEdgeReads
<1>2. /\ Latches(u) \/ Programs(u) => cpu.m = 3 /\ cpu.t = 3
      /\ cwset(u) <=> Latches(u) \/ Programs(u)
      /\ Latches(u) => ~Programs(u)
      /\ Latches(u) /\ cpu_ce => vi53_timer_ce
      /\ rden(u) /\ vi53_timer_ce /\ cpu.t # 0 => Reading(u) /\ cpu_ce
      /\ Reading(u) /\ cpu_ce => vi53_timer_ce
      /\ rden(u) /\ Samples => cpu.m = 3 /\ cpu.t = 2 /\ ~vi53_timer_ce
  BY AccessFacts, Zenon
<1>3. ~cpu_ce => /\ Latches(u)' <=> Latches(u)
                 /\ Reading(u)' <=> Reading(u)
                 /\ cpu'.t = cpu.t
  <2>1. ~cpu_ce => cpu' = cpu /\ bus' = bus
    BY BusTakes, Zenon DEF CpuHolds, CpuSteps, CpuFetches, InStep
  <2> QED
    BY <2>1, Zenon DEF Latches, Reading, cwset, rden, vi53_wren, vi53_rden, vi53_sel, Word
<1>4. cpu_ce => (Reading(u)' <=> rden(u) /\ Samples) /\ cpu'.t # 0
  BY ReadGoesOn, Zenon DEF CpuHolds
<1>5. Reading(u) => rden(u) /\ cpu.t = 3
  BY Zenon DEF Reading
<1>6. Samples => cpu_ce /\ cpu.t = 2
  BY Zenon DEF Samples
<1>7. k = CASE Latches(u) /\ cpu_ce /\ c.rl = 3 -> [count |-> c.counter, left |-> 2]
            [] Programs(u) -> NoLatch
            [] rden(u) /\ Samples /\ l.left > 0 -> [l EXCEPT !.left = @ - 1]
            [] OTHER -> l
  BY Zenon DEF LatchEdge
<1>8. /\ DOMAIN c = Registers
      /\ DOMAIN l = {"count", "left"}
      /\ l.left \in 0..2
      /\ cpu.t = 0 => l.left = 0
      /\ l.left > 0 => c.rl = 3
      /\ l.left > 0 /\ ~Latches(u) =>
           /\ c.latched_q = l.count
           /\ l.left = 2 => FirstByte(c) /\ ~Reading(u)
           /\ l.left = 1 /\ Reading(u) => FirstByte(c)
           /\ l.left = 1 /\ ~Reading(u) => SecondByte(c)
  BY Zenon DEF LatchKept
<1> SUFFICES /\ DOMAIN k = {"count", "left"}
             /\ k.left \in 0..2
             /\ cpu'.t = 0 => k.left = 0
             /\ k.left > 0 => d.rl = 3
             /\ k.left > 0 /\ ~Latches(u)' =>
                  /\ d.latched_q = k.count
                  /\ k.left = 2 => FirstByte(d) /\ ~Reading(u)'
                  /\ k.left = 1 /\ Reading(u)' => FirstByte(d)
                  /\ k.left = 1 /\ ~Reading(u)' => SecondByte(d)
  BY <1>1, Zenon DEF LatchKept, FirstByte, SecondByte
<1> HIDE DEF c, d, l, k
<1>9. CASE Latches(u) /\ cpu_ce /\ c.rl = 3
  <2>1. ~Programs(u) /\ ~(rden(u) /\ Samples)
    BY <1>2, <1>6, <1>9
  <2>2. k = [count |-> c.counter, left |-> 2]
    BY <1>7, <1>9, <2>1
  <2>3. DOMAIN k = {"count", "left"} /\ k.left = 2 /\ k.count = c.counter
    BY <2>2
  <2>4. FirstByte(d) /\ d.latched_q = c.counter /\ d.rl = 3
    BY <1>1, <1>2, <1>9, Zenon DEF FirstByte
  <2>5. ~Reading(u)' /\ cpu'.t # 0
    BY <1>2, <1>4, <1>6, <1>9
  <2> QED
    BY <2>3, <2>4, <2>5
<1>10. CASE Programs(u)
  <2>1. ~Latches(u) /\ ~(rden(u) /\ Samples)
    BY <1>2, <1>6, <1>10
  <2>2. k = NoLatch
    BY <1>7, <1>10, <2>1
  <2> QED
    BY <2>2 DEF NoLatch
<1>11. CASE rden(u) /\ Samples /\ l.left > 0 /\ ~Programs(u)
  <2>1. ~Latches(u) /\ ~cwset(u) /\ cpu_ce /\ ~vi53_timer_ce /\ ~Reading(u)
    BY <1>2, <1>5, <1>6, <1>11
  <2>2. k = [l EXCEPT !.left = l.left - 1]
    BY <1>7, <1>11, <2>1, Zenon
  <2>3. DOMAIN k = {"count", "left"} /\ k.left = l.left - 1 /\ k.count = l.count
    BY <1>8, <2>2
  <2>4. /\ d.rl = c.rl /\ d.latched_q = c.latched_q
        /\ d.read_msb = c.read_msb /\ d.read_state = c.read_state
    BY <1>1, <1>11, <2>1, Zenon
  <2>5. Reading(u)' /\ cpu'.t # 0
    BY <1>4, <1>11, <2>1, Zenon
  <2>6. FirstByte(d) <=> FirstByte(c)
    BY <2>4, Zenon DEF FirstByte
  <2> QED
    BY <1>8, <1>11, <2>1, <2>3, <2>4, <2>5, <2>6
<1>12. CASE /\ ~Programs(u)
            /\ ~(rden(u) /\ Samples /\ l.left > 0)
            /\ ~(Latches(u) /\ cpu_ce /\ c.rl = 3)
  <2>1. k = l
    BY <1>7, <1>12, Zenon
  <2>2. d.rl = c.rl /\ (cpu'.t = 0 => cpu.t = 0)
    BY <1>1, <1>3, <1>4, <1>12, Zenon
  <2>3. CASE l.left = 0
    BY <1>8, <2>1, <2>2, <2>3
  <2>4. CASE l.left > 0 /\ Latches(u)
    <3>1. ~cpu_ce
      BY <1>8, <1>12, <2>4, Zenon
    <3> QED
      BY <1>3, <1>8, <2>1, <2>2, <2>4, <3>1, Zenon
  <2>5. CASE l.left > 0 /\ ~Latches(u)
    <3>1. ~cwset(u) /\ d.latched_q = c.latched_q /\ cpu.t # 0
      BY <1>1, <1>2, <1>8, <1>12, <2>5
    <3>2. CASE rden(u) /\ vi53_timer_ce
      <4>1. Reading(u) /\ cpu_ce /\ ~Reading(u)'
        BY <1>2, <1>4, <1>5, <1>6, <3>1, <3>2
      <4>2. l.left = 1 /\ FirstByte(c)
        BY <1>8, <2>5, <4>1
      <4>3. SecondByte(d)
        <5>1. d.read_msb = ~c.read_msb /\ c.read_msb = FALSE
          BY <1>1, <3>1, <3>2, <4>2, Zenon DEF FirstByte
        <5>2. d.read_state = 1
          BY <1>1, <3>1, <3>2, <4>2 DEF FirstByte
        <5> QED
          BY <5>1, <5>2, Zenon DEF SecondByte
      <4> QED
        BY <1>8, <2>1, <2>2, <2>5, <3>1, <4>1, <4>2, <4>3
    <3>3. CASE ~(rden(u) /\ vi53_timer_ce)
      <4>1. d.read_msb = c.read_msb /\ d.read_state = c.read_state
        BY <1>1, <3>1, <3>3, Zenon
      <4>2. (FirstByte(d) <=> FirstByte(c)) /\ (SecondByte(d) <=> SecondByte(c))
        BY <4>1, Zenon DEF FirstByte, SecondByte
      <4>3. Reading(u)' <=> Reading(u)
        BY <1>2, <1>3, <1>4, <1>5, <1>12, <2>5, <3>3, Zenon
      <4> QED
        BY <1>8, <2>1, <2>2, <2>5, <3>1, <4>2, <4>3
    <3> QED
      BY <3>2, <3>3
  <2> QED
    BY <1>8, <2>3, <2>4, <2>5
<1> QED
  BY <1>9, <1>10, <1>11, <1>12

(* A read finds the byte it expects.                                       *)
LEMMA LatchesKeptSuffices == InStep /\ LatchesKept => LatchReads
<1> SUFFICES ASSUME InStep, LatchesKept, NEW u \in Units,
                    rden(u), Samples, latch[u].left > 0
             PROVE  q(unit[u]) = IF latch[u].left = 2
                                 THEN Lo(latch[u].count) ELSE Hi(latch[u].count)
  BY DEF LatchReads
<1> DEFINE c == unit[u]
           l == latch[u]
<1>1. cpu.t = 2
  BY DEF Samples
<1>2. ~Latches(u) /\ ~Reading(u)
  BY <1>1, AccessFacts DEF Reading
<1>3. /\ l.left \in 0..2 /\ c.latched_q = l.count
      /\ l.left = 2 => FirstByte(c)
      /\ l.left = 1 => SecondByte(c)
  BY <1>2 DEF LatchesKept, LatchKept
<1>4. CASE l.left = 2
  <2>1. c.read_msb = FALSE /\ c.read_state # 0
    BY <1>3, <1>4 DEF FirstByte
  <2> QED
    BY <1>3, <1>4, <2>1, Zenon DEF q
<1>5. CASE l.left = 1
  <2>1. c.read_msb = TRUE /\ c.read_state # 0 /\ l.left # 2
    BY <1>3, <1>5 DEF SecondByte
  <2> QED
    BY <1>3, <2>1, Zenon DEF q
<1> QED
  BY <1>3, <1>4, <1>5

LEMMA InitLatchesKept == TimerInit => LatchesKept
<1> SUFFICES ASSUME TimerInit PROVE LatchesKept
  OBVIOUS
<1>1. cpu.m = 1
  BY DEF TimerInit, BusInit
<1>2. \A u \in Units : unit[u] = Power /\ latch[u] = NoLatch
  BY DEF TimerInit
<1>3. /\ NoLatch.left = 0
      /\ DOMAIN NoLatch = {"count", "left"}
  BY DEF NoLatch
<1>4. \A u \in Units : LatchKept(u)
  BY <1>2, <1>3 DEF LatchKept, Registers
<1> QED
  BY <1>1, <1>4 DEF LatchesKept, AddressInStep

LEMMA NextLatchesKept ==
  InStep /\ LatchesKept /\ [TimerNext]_timerVars => LatchesKept'
<1> SUFFICES ASSUME InStep, LatchesKept, [TimerNext]_timerVars PROVE LatchesKept'
  OBVIOUS
<1>1. CASE Between \/ OnCpuClock
  <2>1. /\ BusEdge /\ (CpuHolds \/ CpuSteps \/ CpuFetches)
        /\ UnitsEdge /\ Expect
    BY <1>1, Zenon DEF Between, OnCpuClock
  <2>2. AddressInStep'
    <3>1. CASE CpuHolds
      <4>1. cpu' = cpu /\ bus' = bus
        BY <2>1, <3>1, BusTakes, Zenon DEF CpuHolds, InStep
      <4> QED
        BY <4>1 DEF LatchesKept, AddressInStep
    <3>2. CASE CpuSteps \/ CpuFetches
      BY <2>1, <3>2, ReadGoesOn, Zenon DEF LatchesKept
    <3> QED
      BY <2>1, <3>1, <3>2
  <2>3. ASSUME NEW u \in Units PROVE LatchKept(u)'
    <3>1. unit'[u] = UnitEdge(u, unit[u]) /\ latch'[u] = LatchEdge(u)
      BY <2>1, <2>3 DEF UnitsEdge, Expect
    <3> QED
      BY <2>1, <2>3, <3>1, UnitKeepsLatch, Zenon DEF LatchesKept
  <2> QED
    BY <2>2, <2>3, Zenon DEF LatchesKept, Units
<1>2. CASE InReset
  <2>1. cpu'.m = 1
    BY <1>2 DEF InReset, CpuReset
  <2>2. ASSUME NEW u \in Units PROVE LatchKept(u)'
    <3>1. unit'[u] = UnitEdge(u, unit[u]) /\ latch'[u] = NoLatch
      BY <1>2, <2>2 DEF InReset, UnitsEdge, ExpectNothing
    <3>2. DOMAIN unit[u] = Registers
      BY <2>2 DEF LatchesKept, LatchKept
    <3>3. DOMAIN unit'[u] = Registers
      <4>1. DOMAIN UnitEdge(u, unit[u]) = Registers
        BY <3>2, UnitEdgeReads, Zenon
      <4> QED
        BY <3>1, <4>1, Zenon
    <3>4. latch'[u].left = 0 /\ DOMAIN latch'[u] = {"count", "left"}
      BY <3>1 DEF NoLatch
    <3> QED
      BY <3>3, <3>4 DEF LatchKept
  <2>3. AddressInStep'
    BY <2>1 DEF AddressInStep
  <2> QED
    BY <2>2, <2>3, Zenon DEF LatchesKept, Units
<1>3. CASE UNCHANGED timerVars
  <2>1. cpu' = cpu /\ bus' = bus /\ unit' = unit /\ latch' = latch
    BY <1>3 DEF timerVars, busVars
  <2>2. \A u : (Latches(u)' <=> Latches(u)) /\ (Reading(u)' <=> Reading(u))
    BY <2>1, Zenon DEF Latches, Reading, cwset, rden, vi53_wren, vi53_rden, vi53_sel, Word
  <2>3. ASSUME NEW u \in Units PROVE LatchKept(u)'
    <3>1. LatchKept(u)
      BY <2>3 DEF LatchesKept
    <3> QED
      BY <2>1, <2>2, <3>1, Zenon DEF LatchKept, FirstByte, SecondByte
  <2>4. AddressInStep'
    BY <2>1 DEF LatchesKept, AddressInStep
  <2> QED
    BY <2>3, <2>4, Zenon DEF LatchesKept, Units
<1> QED
  BY <1>1, <1>2, <1>3, Zenon DEF TimerNext

(* A latched count is read whole: for any width of a byte, whatever        *)
(* programs run, whatever the counter and the other units do between the   *)
(* two reads, and however often the computer is reset.                     *)
THEOREM LatchedIsRead == TimerSpec => []LatchReads
<1> QED
  BY InitInStep, NextInStep, InitLatchesKept, NextLatchesKept, LatchesKeptSuffices, PTL
  DEF TimerSpec

-----------------------------------------------------------------------------
(* The outputs.  First what programs write.                                *)
Octet == 0..(UINT8 - 1)

(* The instructions of the routines.                                       *)
Ops == {Other} \cup UNION {{r[i] : i \in DOMAIN r} : r \in Routines}

ProgramInStep == /\ cpu.op \in Ops /\ todo \in Seq(Ops)
                 /\ cpu.WR_n \/ cpu.op.kind = "out"

LEMMA OpsAreWellFormed == \A op \in Ops : WellFormed(op)
<1>1. WellFormed(Other)
  BY DEF WellFormed, Other
<1>2. ASSUME NEW r \in Routines, NEW i \in DOMAIN r PROVE WellFormed(r[i])
  BY <1>2, ProgramAssumption
<1> QED
  BY <1>1, <1>2, Zenon DEF Ops

LEMMA RoutinesOfOps ==
  ASSUME NEW r \in Routines
  PROVE  r # <<>> /\ Head(r) \in Ops /\ Tail(r) \in Seq(Ops)
<1>1. Len(r) \in Nat \ {0} /\ r = [i \in 1..Len(r) |-> r[i]]
  BY ProgramAssumption
<1>2. ASSUME NEW i \in DOMAIN r PROVE r[i] \in Ops
  BY DEF Ops
<1>3. r \in Seq(Ops)
  <2>1. DOMAIN r = 1..Len(r)
    BY <1>1
  <2> QED
    BY <1>1, <1>2, <2>1
<1>4. Len(r) > 0 /\ 1 \in DOMAIN r
  BY <1>1, <1>3
<1> QED
  BY <1>1, <1>2, <1>3, <1>4

LEMMA ProgramInit == TimerInit => ProgramInStep
  BY DEF TimerInit, BusInit, ProgramInStep, Ops

LEMMA ProgramNext ==
  ASSUME InStep, ProgramInStep, [TimerNext]_timerVars PROVE ProgramInStep'
<1>1. CASE CpuHolds
  BY <1>1 DEF CpuHolds, ProgramInStep
<1>2. CASE CpuSteps
  <2>1. /\ cpu'.op = cpu.op /\ todo' = todo
        /\ (cpu.t = 2 /\ cpu.m = 3) \/ cpu'.WR_n
    BY <1>2, CpuMoves DEF CpuSteps
  <2>2. cpu'.WR_n \/ cpu.op.kind = "out"
    <3>1. cpu'.WR_n = WR_n_next
      BY <1>2, CpuMoves, Zenon
    <3> QED
      BY <3>1, Zenon DEF WR_n_next
  <2> QED
    BY <2>1, <2>2 DEF ProgramInStep
<1>3. CASE CpuFetches
  <2>1. PICK op : Runs(op) /\ op \in Ops /\ todo' \in Seq(Ops)
    <3>1. CASE todo # <<>> /\ Runs(Head(todo)) /\ todo' = Tail(todo)
      <4>1. Head(todo) \in Ops /\ Tail(todo) \in Seq(Ops)
        BY <3>1 DEF ProgramInStep
      <4> QED
        BY <3>1, <4>1, Zenon
    <3>2. ASSUME NEW r \in Routines, Runs(Head(r)), todo' = Tail(r)
          PROVE  \E op : Runs(op) /\ op \in Ops /\ todo' \in Seq(Ops)
      BY <3>2, RoutinesOfOps, Zenon
    <3>3. CASE Runs(Other) /\ UNCHANGED todo
      <4>1. Other \in Ops
        BY DEF Ops
      <4> QED
        BY <3>3, <4>1, Zenon DEF ProgramInStep
    <3> QED
      BY <1>3, <3>1, <3>2, <3>3, Zenon DEF CpuFetches
  <2>2. ~(cpu.t = 2 /\ cpu.m = 3)
    BY <1>3 DEF CpuFetches, LastT
  <2>3. WR_n_next
    BY <2>2, Zenon DEF WR_n_next, IORQ
  <2>4. cpu'.op = op /\ cpu'.WR_n = WR_n_next
    <3> DEFINE x == WR_n_next
    <3>1. cpu' = [m |-> 1, t |-> 1, WR_n |-> x, op |-> op]
      BY <2>1, Zenon DEF Runs
    <3> HIDE DEF x
    <3> QED
      BY <3>1 DEF x
  <2> QED
    BY <2>1, <2>3, <2>4, Zenon DEF ProgramInStep
<1>4. CASE InReset
  <2>1. cpu'.WR_n = TRUE /\ cpu'.op = Other /\ todo' = <<>>
    BY <1>4 DEF InReset, CpuReset
  <2> QED
    BY <2>1 DEF ProgramInStep, Ops
<1>5. CASE UNCHANGED timerVars
  BY <1>5 DEF timerVars, busVars, ProgramInStep
<1> QED
  BY <1>1, <1>2, <1>3, <1>4, <1>5, Zenon DEF TimerNext, Between, OnCpuClock

(* A unit's edge, register by register.  n1 and n2 are what a control word *)
(* and a count leave behind.                                               *)
Driven(c, o) ==
  CASE c.mode = 0        -> IF c.counter = 1 THEN 1 ELSE o
    [] c.mode \in {2, 6} -> IF c.counter = 2 THEN 0 ELSE 1
    [] c.mode \in {3, 7} -> IF c.counter = 2 THEN 1 - c.outreg ELSE o
    [] c.mode = 4        -> IF c.counter = 0 THEN 0 ELSE 1
    [] OTHER             -> o

Started(c, n, s) ==
  /\ DOMAIN s = Registers
  /\ s.rl = n.rl /\ s.mode = n.mode /\ s.load = n.load /\ s.outreg = n.outreg
  /\ s.loading = n.loading /\ s.loading_msb = n.loading_msb
  /\ s.wren = IF vi53_timer_ce /\ counter_wren(c) THEN FALSE ELSE n.wren
  /\ s.loaded = IF vi53_timer_ce THEN c.starting \/ n.loaded ELSE n.loaded
  /\ s.starting = IF vi53_timer_ce THEN ~c.starting /\ n.starting ELSE n.starting

Drove(c, n, s) ==
  /\ DOMAIN s = Registers
  /\ s.rl = n.rl /\ s.mode = n.mode /\ s.load = n.load
  /\ s.loading = n.loading /\ s.loading_msb = n.loading_msb
  /\ s.wren = n.wren /\ s.loaded = n.loaded /\ s.starting = n.starting
  /\ s.outreg = IF vi53_timer_ce THEN Driven(c, n.outreg) ELSE n.outreg

Passed(n, x, d) ==
  /\ DOMAIN d = Registers
  /\ d.rl = n.rl /\ d.mode = n.mode /\ d.load = n.load /\ d.outreg = n.outreg
  /\ d.loading = n.loading /\ d.loading_msb = n.loading_msb
  /\ d.wren = n.wren /\ d.loaded = n.loaded /\ d.starting = n.starting
  /\ d.counter = x

(* A clock of the timer, after control word and count.                     *)
Turned(c, n1, n2, d) ==
  /\ DOMAIN d = Registers
  /\ d.rl = n2.rl /\ d.mode = n2.mode /\ d.load = n2.load
  /\ d.loading = n2.loading /\ d.loading_msb = n2.loading_msb
  /\ d.wren = IF vi53_timer_ce /\ counter_wren(c) THEN FALSE ELSE n2.wren
  /\ d.loaded = IF vi53_timer_ce THEN c.starting \/ n2.loaded ELSE n2.loaded
  /\ d.starting = IF vi53_timer_ce THEN ~c.starting /\ n2.starting ELSE n2.starting
  /\ d.outreg = IF vi53_timer_ce THEN Driven(c, n1.outreg) ELSE n1.outreg
  /\ d.counter = CounterEdge(c)

LEMMA StartsCounts ==
  ASSUME NEW c, NEW n, DOMAIN n = Registers, NEW s, s = Starts(c, n)
  PROVE  Started(c, n, s)
<1>1. CASE ~vi53_timer_ce
  BY <1>1 DEF Starts, Started
<1>2. CASE vi53_timer_ce
  <2> DEFINE w == IF counter_wren(c) THEN FALSE ELSE n.wren
             l == c.starting \/ n.loaded
             t == ~c.starting /\ n.starting
  <2>1. s = [n EXCEPT !.wren = w, !.loaded = l, !.starting = t]
    BY <1>2, Zenon DEF Starts
  <2> HIDE DEF w, l, t
  <2>2. /\ DOMAIN s = Registers
        /\ s.rl = n.rl /\ s.mode = n.mode /\ s.load = n.load /\ s.outreg = n.outreg
        /\ s.loading = n.loading /\ s.loading_msb = n.loading_msb
        /\ s.wren = w /\ s.loaded = l /\ s.starting = t
    BY <2>1, RegisterNames
  <2> QED
    BY <1>2, <2>2, Zenon DEF w, l, t, Started
<1> QED
  BY <1>1, <1>2

LEMMA DrivesCounts ==
  ASSUME NEW c, NEW n, DOMAIN n = Registers, NEW s, s = Drives(c, n)
  PROVE  Drove(c, n, s)
<1>1. CASE ~vi53_timer_ce
  BY <1>1 DEF Drives, Drove
<1>2. CASE vi53_timer_ce
  <2> DEFINE o == Driven(c, n.outreg)
  <2>1. s = [n EXCEPT !.outreg = o]
    BY <1>2, Zenon DEF Drives, Driven
  <2> HIDE DEF o
  <2>2. /\ DOMAIN s = Registers
        /\ s.rl = n.rl /\ s.mode = n.mode /\ s.load = n.load
        /\ s.loading = n.loading /\ s.loading_msb = n.loading_msb
        /\ s.wren = n.wren /\ s.loaded = n.loaded /\ s.starting = n.starting
        /\ s.outreg = o
    BY <2>1, RegisterNames
  <2> QED
    BY <1>2, <2>2, Zenon DEF o, Drove
<1> QED
  BY <1>1, <1>2

LEMMA ReadsCounts ==
  ASSUME NEW u, NEW c, NEW n, DOMAIN n = Registers, NEW e, e = ReadEdge(u, c, n),
         NEW x, NEW d, d = [e EXCEPT !.counter = x]
  PROVE  Passed(n, x, d)
<1>1. PICK p, g, r : e = [n EXCEPT !.latched_q = p, !.read_msb = g, !.read_state = r]
  BY Zenon DEF ReadEdge, readhelper
<1>2. /\ DOMAIN e = Registers
      /\ e.rl = n.rl /\ e.mode = n.mode /\ e.load = n.load /\ e.outreg = n.outreg
      /\ e.loading = n.loading /\ e.loading_msb = n.loading_msb
      /\ e.wren = n.wren /\ e.loaded = n.loaded /\ e.starting = n.starting
  BY <1>1, RegisterNames
<1> QED
  BY <1>2, RegisterNames DEF Passed

LEMMA UnitEdgeCounts ==
  ASSUME NEW u, NEW c, NEW n1, n1 = SetsMode(u, c), NEW n2, n2 = Loads(u, c, n1),
         DOMAIN n2 = Registers, n2.outreg = n1.outreg, NEW d, d = UnitEdge(u, c)
  PROVE  Turned(c, n1, n2, d)
<1>1. PICK n3 : n3 = Starts(c, n2)
  OBVIOUS
<1>2. PICK n4 : n4 = Drives(c, n3)
  OBVIOUS
<1>3. PICK e : e = ReadEdge(u, c, n4)
  OBVIOUS
<1>4. d = [e EXCEPT !.counter = CounterEdge(c)]
  BY <1>1, <1>2, <1>3, Zenon DEF UnitEdge
<1>5. Started(c, n2, n3)
  BY <1>1, StartsCounts, Zenon
<1>6. Drove(c, n3, n4)
  BY <1>2, <1>5, DrivesCounts, Zenon DEF Started
<1>7. Passed(n4, CounterEdge(c), d)
  BY <1>3, <1>4, <1>6, ReadsCounts, Zenon DEF Drove
<1> QED
  BY <1>5, <1>6, <1>7, Zenon DEF Started, Drove, Passed, Turned

(* Bytes and counts.                                                       *)
Values == 0..(Counts - 1)

LEMMA DivMod ==
  ASSUME NEW p \in Nat, NEW b \in Nat \ {0}
  PROVE  p = b * (p \div b) + (p % b) /\ 0 <= p % b /\ p % b < b
  OBVIOUS

LEMMA Product ==
  ASSUME NEW b \in Nat, NEW h \in Nat, NEW k \in Nat
  PROVE  b * (h + 1 + k) = b * h + b + b * k /\ b * h \in Nat /\ b * k \in Nat
  OBVIOUS

LEMMA Divides ==
  ASSUME NEW b \in Nat \ {0}, NEW s \in Nat, NEW r \in Nat, r < b
  PROVE  (r + b * s) % b = r /\ (r + b * s) \div b = s
<1>1. PICK p \in Nat : p = r + b * s
  OBVIOUS
<1>2. PICK g \in Int : g = p \div b
  OBVIOUS
<1>3. PICK m \in Int : m = p % b
  OBVIOUS
<1>4. p = b * g + m /\ 0 <= m /\ m < b
  BY <1>2, <1>3, DivMod
<1>5. g = s
  <2>1. CASE g < s
    <3>1. PICK k \in Nat : s = g + 1 + k
      <4>1. s - g - 1 \in Nat /\ s = g + 1 + (s - g - 1)
        BY <2>1
      <4> QED
        BY <4>1
    <3>2. b * s = b * g + b + b * k /\ b * k >= 0
      BY <3>1
    <3> QED
      BY <1>1, <1>4, <3>2
  <2>2. CASE g > s
    <3>1. PICK k \in Nat : g = s + 1 + k
      <4>1. g - s - 1 \in Nat /\ g = s + 1 + (g - s - 1)
        BY <2>2
      <4> QED
        BY <4>1
    <3>2. b * g = b * s + b + b * k /\ b * k >= 0
      BY <3>1
    <3> QED
      BY <1>1, <1>4, <3>2
  <2> QED
    BY <2>1, <2>2
<1>6. m = r
  BY <1>1, <1>4, <1>5
<1> QED
  BY <1>1, <1>2, <1>3, <1>5, <1>6

LEMMA CountsNumber == Counts \in Nat /\ Counts >= 4 /\ \E h \in Nat : Counts = 2 * h
<1>1. PICK b \in Nat : b = UINT8 /\ b # 0 /\ b % 2 = 0
  BY ProgramAssumption
<1>2. PICK a \in Nat : b = 2 * a /\ a >= 1
  <2>1. b \div 2 \in Nat /\ b = 2 * (b \div 2)
    BY <1>1
  <2> QED
    BY <1>1, <2>1
<1>3. PICK k \in Nat : a = 1 + k
  <2>1. a - 1 \in Nat /\ a = 1 + (a - 1)
    BY <1>2
  <2> QED
    BY <2>1
<1>4. a * a = 1 + 2 * k + k * k /\ k * k \in Nat
  BY <1>3
<1>5. b * b = 4 * (a * a)
  BY <1>2
<1>6. PICK h \in Nat : h = 2 * (a * a) /\ h >= 2
  BY <1>4
<1>7. PICK n \in Nat : n = b * b /\ n = 2 * h
  BY <1>5, <1>6
<1>8. Counts = n
  BY <1>1, <1>7 DEF Counts
<1> QED
  BY <1>6, <1>7, <1>8

LEMMA BytesOfCount ==
  ASSUME NEW x \in Values
  PROVE  Lo(x) \in Octet /\ Hi(x) \in Octet
<1>1. PICK b \in Nat \ {0} : b = UINT8
  BY ProgramAssumption
<1>2. x \in Nat /\ x < b * b
  BY <1>1, CountsNumber DEF Values, Counts
<1>3. PICK g \in Int : g = x \div b
  BY <1>1, <1>2
<1>4. PICK m \in Int : m = x % b
  BY <1>1, <1>2
<1>5. x = b * g + m /\ 0 <= m /\ m < b
  BY <1>2, <1>3, <1>4, DivMod
<1>6. g >= 0
  <2> SUFFICES ASSUME g < 0 PROVE FALSE
    BY <1>3
  <2>1. PICK k \in Nat : g + 1 + k = 0
    <3>1. 0 - g - 1 \in Nat /\ g + 1 + (0 - g - 1) = 0
      BY <1>3
    <3> QED
      BY <3>1
  <2>2. b * g + b + b * k = 0 /\ b * k >= 0
    BY <2>1
  <2> QED
    BY <1>2, <1>5, <2>2
<1>7. g < b
  <2> SUFFICES ASSUME g >= b PROVE FALSE
    BY <1>3
  <2>1. PICK k \in Nat : g = b + k
    <3>1. g - b \in Nat /\ g = b + (g - b)
      BY <1>3
    <3> QED
      BY <3>1
  <2>2. b * g = b * b + b * k /\ b * k >= 0
    BY <2>1
  <2> QED
    BY <1>2, <1>5, <2>2
<1> QED
  BY <1>1, <1>3, <1>4, <1>5, <1>6, <1>7 DEF Lo, Hi, Octet

LEMMA CountOfBytes ==
  ASSUME NEW d \in Octet, NEW h \in Octet
  PROVE  d + UINT8 * h \in Values /\ Lo(d + UINT8 * h) = d
<1>1. PICK b \in Nat \ {0} : b = UINT8
  BY ProgramAssumption
<1>2. d \in Nat /\ d < b /\ h \in Nat /\ h < b
  BY <1>1 DEF Octet
<1>3. (d + b * h) % b = d
  BY <1>2, Divides
<1>4. PICK k \in Nat : b = h + 1 + k
  <2>1. b - h - 1 \in Nat /\ b = h + 1 + (b - h - 1)
    BY <1>2
  <2> QED
    BY <2>1
<1>5. b * b = b * h + b + b * k /\ b * k >= 0 /\ b * h \in Nat /\ b * b \in Nat
  BY <1>2, <1>4, Product
<1>6. d + b * h \in Nat /\ d + b * h < b * b
  BY <1>2, <1>5
<1>7. d + b * h \in 0..(b * b - 1)
  BY <1>5, <1>6
<1> QED
  BY <1>1, <1>3, <1>7 DEF Lo, Values, Counts

(* Decrement round a count of n.                                           *)
LEMMA Rounds ==
  ASSUME NEW n \in Nat \ {0}, NEW x \in 0..(n - 1), NEW d \in 0..n
  PROVE  (x + n - d) % n = IF x >= d THEN x - d ELSE x + n - d
<1>1. CASE x >= d
  <2>1. PICK y \in Nat : y = x - d /\ y < n
    BY <1>1
  <2>2. (y + n * 1) % n = y
    BY <2>1, Divides
  <2>3. y + n * 1 = x + n - d
    BY <2>1
  <2> QED
    BY <1>1, <2>1, <2>2, <2>3
<1>2. CASE x < d
  <2>1. PICK y \in Nat : y = x + n - d /\ y < n
    BY <1>2
  <2>2. (y + n * 0) % n = y
    BY <2>1, Divides
  <2>3. y + n * 0 = x + n - d
    BY <2>1
  <2> QED
    BY <1>2, <2>1, <2>2, <2>3
<1> QED
  BY <1>1, <1>2

(* What a control word and a count leave in the registers.                 *)
Reprogrammed(u, c, n) ==
  /\ DOMAIN n = Registers
  /\ n.load = c.load /\ n.wren = c.wren /\ n.starting = c.starting
  /\ ~Programs(u) => /\ n.rl = c.rl /\ n.mode = c.mode /\ n.outreg = c.outreg
                     /\ n.loaded = c.loaded /\ n.loading = c.loading
                     /\ n.loading_msb = c.loading_msb
  /\ Programs(u) => /\ n.rl = Word.rl /\ n.mode = Word.mode
                    /\ n.outreg = IF Word.mode = 0 THEN 0 ELSE 1
                    /\ n.loaded = FALSE /\ n.loading = FALSE /\ n.loading_msb = FALSE

Loading_msb(c, n, m, d) ==
  /\ m.load = Lo(c.load) + UINT8 * d
  /\ m.starting = TRUE /\ m.loading = FALSE /\ m.loading_msb = FALSE
  /\ m.wren = ~c.loaded /\ m.loaded = n.loaded

Loading_lsb(c, n, m, d) ==
  /\ m.load = d + UINT8 * Hi(c.load)
  /\ m.loading = TRUE /\ m.loading_msb = TRUE
  /\ m.starting = n.starting /\ m.wren = n.wren
  /\ m.loaded = (c.loaded /\ (c.mode \in {1, 5} \/ c.mode % 4 \in {2, 3}))

Loading_one(c, n, m, d) ==
  /\ m.load \in {d + UINT8 * Hi(c.load), Lo(c.load) + UINT8 * d}
  /\ m.starting = TRUE /\ m.wren = TRUE
  /\ m.loading = n.loading /\ m.loading_msb = n.loading_msb /\ m.loaded = n.loaded

Unloaded(n, m) ==
  /\ m.load = n.load /\ m.starting = n.starting /\ m.wren = n.wren
  /\ m.loading = n.loading /\ m.loading_msb = n.loading_msb /\ m.loaded = n.loaded

Reloaded(u, c, n, m) ==
  /\ DOMAIN m = Registers
  /\ m.rl = n.rl /\ m.mode = n.mode /\ m.outreg = n.outreg
  /\ IF ~(wren(u) /\ cpu_ce) \/ c.rl = 0 THEN Unloaded(n, m)
     ELSE IF c.rl \in {1, 2} THEN Loading_one(c, n, m, cpu.op.data)
     ELSE IF c.loading_msb THEN Loading_msb(c, n, m, cpu.op.data)
     ELSE Loading_lsb(c, n, m, cpu.op.data)

LEMMA SetsModeCounts ==
  ASSUME NEW u, NEW c, DOMAIN c = Registers, NEW n, n = SetsMode(u, c)
  PROVE  Reprogrammed(u, c, n)
<1>1. CASE ~Programs(u)
  BY <1>1 DEF SetsMode, Reprogrammed
<1>2. CASE Programs(u)
  <2>1. PICK o : o = IF Word.mode = 0 THEN 0 ELSE 1
    OBVIOUS
  <2>2. PICK r : r = Word.rl
    OBVIOUS
  <2>3. PICK m : m = Word.mode
    OBVIOUS
  <2>4. PICK f : f = FALSE
    OBVIOUS
  <2>5. n = [c EXCEPT !.loading_msb = f, !.loaded = f, !.loading = f,
                      !.rl = r, !.mode = m, !.outreg = o]
    BY <1>2, <2>1, <2>2, <2>3, <2>4, Zenon DEF SetsMode
  <2>6. /\ DOMAIN n = Registers
        /\ n.load = c.load /\ n.wren = c.wren /\ n.starting = c.starting
        /\ n.loading_msb = f /\ n.loaded = f /\ n.loading = f
        /\ n.rl = r /\ n.mode = m /\ n.outreg = o
    BY <2>5, RegisterNames
  <2>7. n.outreg = IF Word.mode = 0 THEN 0 ELSE 1
    BY <2>1, <2>6, Zenon
  <2>8. /\ n.rl = Word.rl /\ n.mode = Word.mode
        /\ n.loaded = FALSE /\ n.loading = FALSE /\ n.loading_msb = FALSE
    BY <2>2, <2>3, <2>4, <2>6
  <2> QED
    BY <1>2, <2>6, <2>7, <2>8, Zenon DEF Reprogrammed
<1> QED
  BY <1>1, <1>2

LEMMA LoadsCounts ==
  ASSUME NEW u, NEW c, c.rl \in 0..3, NEW n, DOMAIN n = Registers, NEW m, m = Loads(u, c, n)
  PROVE  Reloaded(u, c, n, m)
<1>1. PICK d : d = cpu.op.data
  OBVIOUS
<1>2. CASE ~(wren(u) /\ cpu_ce) \/ c.rl = 0
  <2>1. m = n
    BY <1>2 DEF Loads
  <2>2. Unloaded(n, m)
    BY <2>1, Zenon DEF Unloaded
  <2> QED
    BY <1>2, <2>1, <2>2, Zenon DEF Reloaded
<1>3. ASSUME NEW x, m = LoadsOne(n, x)
      PROVE  /\ DOMAIN m = Registers
             /\ m.rl = n.rl /\ m.mode = n.mode /\ m.outreg = n.outreg
             /\ m.load = x /\ m.starting = TRUE /\ m.wren = TRUE
             /\ m.loading = n.loading /\ m.loading_msb = n.loading_msb /\ m.loaded = n.loaded
  BY <1>3, RegisterNames DEF LoadsOne
<1>4. CASE wren(u) /\ cpu_ce /\ c.rl = 1
  <2>1. m = LoadsOne(n, d + UINT8 * Hi(c.load))
    BY <1>1, <1>4 DEF Loads
  <2>2. Loading_one(c, n, m, d)
    <3>1. PICK x : x = d + UINT8 * Hi(c.load)
      OBVIOUS
    <3> QED
      BY <1>3, <2>1, <3>1, Zenon DEF Loading_one
  <2>3. DOMAIN m = Registers /\ m.rl = n.rl /\ m.mode = n.mode /\ m.outreg = n.outreg
    BY <1>3, <2>1, Zenon
  <2> QED
    BY <1>1, <1>4, <2>2, <2>3 DEF Reloaded
<1>5. CASE wren(u) /\ cpu_ce /\ c.rl = 2
  <2>1. m = LoadsOne(n, Lo(c.load) + UINT8 * d)
    BY <1>1, <1>5 DEF Loads
  <2>2. Loading_one(c, n, m, d)
    <3>1. PICK x : x = Lo(c.load) + UINT8 * d
      OBVIOUS
    <3> QED
      BY <1>3, <2>1, <3>1, Zenon DEF Loading_one
  <2>3. DOMAIN m = Registers /\ m.rl = n.rl /\ m.mode = n.mode /\ m.outreg = n.outreg
    BY <1>3, <2>1, Zenon
  <2> QED
    BY <1>1, <1>5, <2>2, <2>3 DEF Reloaded
<1>6. CASE wren(u) /\ cpu_ce /\ c.rl = 3
  <2>1. m = IF c.loading_msb THEN LoadsMsb(c, n, d) ELSE LoadsLsb(c, n, d)
    BY <1>1, <1>6 DEF Loads
  <2>2. CASE c.loading_msb
    <3>1. PICK x : x = Lo(c.load) + UINT8 * d
      OBVIOUS
    <3>2. PICK y : y = ~c.loaded
      OBVIOUS
    <3>3. PICK t : t = TRUE
      OBVIOUS
    <3>4. PICK f : f = FALSE
      OBVIOUS
    <3>5. m = [n EXCEPT !.load = x, !.starting = t, !.loading = f, !.wren = y, !.loading_msb = f]
      BY <2>1, <2>2, <3>1, <3>2, <3>3, <3>4, Zenon DEF LoadsMsb
    <3>6. /\ DOMAIN m = Registers
          /\ m.rl = n.rl /\ m.mode = n.mode /\ m.outreg = n.outreg
          /\ m.load = x /\ m.starting = t /\ m.loading = f /\ m.wren = y /\ m.loading_msb = f
          /\ m.loaded = n.loaded
      BY <3>5, RegisterNames
    <3>7. Loading_msb(c, n, m, d)
      BY <3>1, <3>2, <3>3, <3>4, <3>6, Zenon DEF Loading_msb
    <3> QED
      BY <1>1, <1>6, <2>2, <3>6, <3>7 DEF Reloaded
  <2>3. CASE ~c.loading_msb
    <3>1. PICK x : x = d + UINT8 * Hi(c.load)
      OBVIOUS
    <3>2. PICK y : y = (c.loaded /\ (c.mode \in {1, 5} \/ c.mode % 4 \in {2, 3}))
      OBVIOUS
    <3>3. PICK t : t = TRUE
      OBVIOUS
    <3>5. m = [n EXCEPT !.load = x, !.loading = t, !.loading_msb = t, !.loaded = y]
      BY <2>1, <2>3, <3>1, <3>2, <3>3, Zenon DEF LoadsLsb
    <3>6. /\ DOMAIN m = Registers
          /\ m.rl = n.rl /\ m.mode = n.mode /\ m.outreg = n.outreg
          /\ m.load = x /\ m.loading = t /\ m.loading_msb = t /\ m.loaded = y
          /\ m.starting = n.starting /\ m.wren = n.wren
      BY <3>5, RegisterNames
    <3>7. Loading_lsb(c, n, m, d)
      BY <3>1, <3>2, <3>3, <3>6, Zenon DEF Loading_lsb
    <3> QED
      BY <1>1, <1>6, <2>3, <3>6, <3>7 DEF Reloaded
  <2> QED
    BY <2>2, <2>3
<1> QED
  BY <1>2, <1>4, <1>5, <1>6

(* An edge in three steps: n1 after a control word, n2 after a count.      *)
LEMMA EdgeSteps ==
  ASSUME NEW u, NEW c, DOMAIN c = Registers, c.rl \in 0..3, Programs(u) => Word.rl \in 0..3,
         NEW d, d = UnitEdge(u, c)
  PROVE  \E n1, n2 : Reprogrammed(u, c, n1) /\ Reloaded(u, c, n1, n2) /\ Turned(c, n1, n2, d)
<1>1. PICK n1 : n1 = SetsMode(u, c)
  OBVIOUS
<1>2. Reprogrammed(u, c, n1)
  BY <1>1, SetsModeCounts, Zenon
<1>3. DOMAIN n1 = Registers
  BY <1>2, Zenon DEF Reprogrammed
<1>4. PICK n2 : n2 = Loads(u, c, n1)
  OBVIOUS
<1>5. Reloaded(u, c, n1, n2)
  BY <1>3, <1>4, LoadsCounts, Zenon
<1>6. DOMAIN n2 = Registers /\ n2.outreg = n1.outreg
  BY <1>5, Zenon DEF Reloaded
<1>7. Turned(c, n1, n2, d)
  BY <1>1, <1>4, <1>6, UnitEdgeCounts, Zenon
<1> QED
  BY <1>2, <1>5, <1>7, Zenon

-----------------------------------------------------------------------------
(* The invariant of the outputs.                                           *)
(* The kind of wave: modes 6 and 7 are 2 and 3.                            *)
Wave(mode) == IF mode > 5 THEN mode - 4 ELSE mode

UnitTyped(c) ==
  /\ DOMAIN c = Registers
  /\ c.rl \in 0..3 /\ c.mode \in 0..7 /\ c.outreg \in 0..1
  /\ c.load \in Values /\ c.counter \in Values
  /\ c.wren \in BOOLEAN /\ c.starting \in BOOLEAN /\ c.loaded \in BOOLEAN
  /\ c.loading \in BOOLEAN /\ c.loading_msb \in BOOLEAN

PlanTyped(p) ==
  /\ p = [mode |-> p.mode, bytes |-> p.bytes, ticks |-> p.ticks, asked |-> p.asked]
  /\ p.bytes \in Seq(Octet) /\ Len(p.bytes) \in 0..2 /\ p.ticks \in Nat /\ p.asked \in BOOLEAN
  /\ p.asked => p.mode \in {0, 2, 3, 4}
  /\ ~Whole(p) => p.ticks = 0

(* The count that goes with tick k of a wave of n.                         *)
Down(n, k) == IF k <= n THEN n + 1 - k ELSE n + 1 - k + Counts
Turns(n, k) ==
  LET high == (n + 1) \div 2
  IN  IF k \in {1, high + 1} THEN n ELSE IF k <= high THEN 2 * (high - k) + 2 ELSE 2 * (n - k) + 2
Holds(v, n) == v = n \/ (n = Counts /\ v = 0)

(* The output o and the count v at tick k of the wave.                     *)
InWave(o, v, mode, n, k) ==
  /\ k >= 1 /\ o = Level(mode, n, k)
  /\ mode = 0 => k <= n + 1 /\ (k <= n => Holds(v, Down(n, k)))
  /\ mode = 2 => k <= n /\ Holds(v, Down(n, k))
  /\ mode = 3 => k <= n /\ Holds(v, Turns(n, k))
  /\ mode = 4 => k <= Counts + 1 /\ Holds(v, IF k = n + 1 THEN Counts ELSE Down(n, k))

(* A unit that waits for its count does not move its output.               *)
Rests(c, mode) ==
  /\ mode = 0 => c.counter # 1 /\ c.outreg = 0
  /\ mode = 3 => c.counter # 2 /\ c.outreg = 1

(* What the registers hold while no control word is being written: after   *)
(* the control word and after the first byte, and after the second.  w is  *)
(* the frame counter.                                                      *)
Loading(c, p) ==
  /\ ~c.loaded /\ ~c.starting /\ ~c.wren /\ Rests(c, p.mode)
  /\ p.bytes = <<>> => ~c.loading /\ ~c.loading_msb
  /\ p.bytes # <<>> => c.loading /\ c.loading_msb /\ Lo(c.load) = p.bytes[1]

Loaded(w, c, p) ==
  /\ ~c.loading /\ ~c.loading_msb
  /\ c.load = p.bytes[1] + UINT8 * p.bytes[2]
  /\ p.ticks = 0 => /\ c.starting /\ c.wren /\ ~c.loaded
                    /\ w # 27 => c.counter = c.load
                    /\ p.mode = 0 => c.outreg = 0
                    /\ p.mode = 3 => c.outreg = 1
  /\ p.ticks > 0 => /\ ~c.starting /\ ~c.wren /\ c.loaded
                    /\ ~Hasty(p.mode, Asked(p)) =>
                         InWave(c.outreg, c.counter, p.mode, Asked(p), p.ticks)

Promised(w, c, p) ==
  /\ c.rl = 3 /\ Wave(c.mode) = p.mode /\ c.mode \notin {1, 5}
  /\ Whole(p) => Loaded(w, c, p)
  /\ ~Whole(p) => Loading(c, p)

(* A control word sets the unit back on the first of its clocks; a count   *)
(* that was being taken over is in place a clock later.                    *)
Writing(u) == Programs(u) /\ clock.ws # 19

SetBack(w, word, c) ==
  /\ c.mode = word.mode /\ ~c.loaded
  /\ w # 20 /\ counter_wren(c) => c.counter = c.load

(* A count is taken over by the tick after its last byte.                  *)
Between_ticks(w) == w \in 27..31 \cup 0..10

PlanKept(u) ==
  /\ UnitTyped(unit[u]) /\ PlanTyped(plan[u])
  /\ unit[u].starting => Between_ticks(clock.ws)
  /\ Writing(u) => plan[u].bytes = <<>> /\ SetBack(clock.ws, Word, unit[u])
  /\ plan[u].asked /\ ~Writing(u) => Promised(clock.ws, unit[u], plan[u])

PlansKept == \A u \in Units : PlanKept(u)

(* The wave, tick by tick.  x is the next count, y the next output.        *)
Steps(v, x, d) == x = IF v >= d THEN v - d ELSE v + Counts - d

LEMMA WaveOfMode0 ==
  ASSUME NEW n \in 1..Counts, NEW k \in Nat, NEW v \in Values, NEW o,
         InWave(o, v, 0, n, k), ~Hasty(0, n),
         NEW x, Steps(v, x, 1),
         NEW y, y = IF v = 1 THEN 1 ELSE o,
         NEW j, j = IF k < n + 1 THEN k + 1 ELSE n + 1
  PROVE  InWave(y, x, 0, n, j)
  BY CountsNumber DEF InWave, Down, Holds, Level, Hasty, Values, Steps

LEMMA WaveOfMode2 ==
  ASSUME NEW n \in 1..Counts, NEW k \in Nat, NEW v \in Values, NEW o,
         InWave(o, v, 2, n, k), ~Hasty(2, n),
         NEW load \in Values, Holds(load, n),
         NEW z, Steps(v, z, 1), NEW x, x = IF z = 0 THEN load ELSE z,
         NEW y, y = IF v = 2 THEN 0 ELSE 1,
         NEW j, j = IF k < n THEN k + 1 ELSE 1
  PROVE  InWave(y, x, 2, n, j)
  BY CountsNumber DEF InWave, Down, Holds, Level, Hasty, Values, Steps

LEMMA WaveOfMode3 ==
  ASSUME NEW n \in 1..Counts, NEW k \in Nat, NEW v \in Values, NEW o,
         InWave(o, v, 3, n, k), ~Hasty(3, n),
         NEW load \in Values, Holds(load, n),
         NEW z, Steps(v, z, IF v % 2 = 0 THEN 2 ELSE IF o = 1 THEN 1 ELSE 3),
         NEW x, x = IF z = 0 THEN load ELSE z,
         NEW y, y = IF v = 2 THEN 1 - o ELSE o,
         NEW j, j = IF k < n THEN k + 1 ELSE 1
  PROVE  InWave(y, x, 3, n, j)
<1>1. PICK h \in Nat : h = (n + 1) \div 2 /\ (n = 2 * h \/ n = 2 * h - 1)
  BY CountsNumber
<1>2. PICK g \in Nat : Counts = 2 * g /\ g >= 2
  BY CountsNumber
<1>3. n >= 4 /\ n <= Counts /\ h >= 2 /\ h + 2 <= n
  BY <1>1, <1>2 DEF Hasty
<1>4. /\ k >= 1 /\ k <= n
      /\ o = IF k <= h THEN 1 ELSE 0
      /\ k \in {1, h + 1} => v = n \/ (n = Counts /\ v = 0)
      /\ k > 1 /\ k <= h => v = 2 * (h - k) + 2
      /\ k > h + 1 => v = 2 * (n - k) + 2
  BY <1>1, <1>2, <1>3 DEF InWave, Turns, Holds, Level
<1>5. v \in Nat /\ v < Counts
  BY <1>2 DEF Values
<1> j \in Nat
  BY <1>3
<1>6. SUFFICES /\ j >= 1 /\ j <= n
               /\ y = IF j <= h THEN 1 ELSE 0
               /\ j \in {1, h + 1} => x = n \/ (n = Counts /\ x = 0)
               /\ j > 1 /\ j <= h => x = 2 * (h - j) + 2
               /\ j > h + 1 => x = 2 * (n - j) + 2
  BY <1>1, <1>2, <1>3 DEF InWave, Turns, Holds, Level
<1>7. CASE k \in {1, h + 1}
  <2>1. CASE v = 0
    <3>1. z = n - 2
      BY <1>2, <1>4, <1>5, <1>7, <2>1, <1>3 DEF Steps
    <3> QED
      BY <1>1, <1>2, <1>3, <1>4, <1>7, <2>1, <3>1
  <2>2. CASE v = n /\ n = 2 * h
    <3>1. z = n - 2
      <4>1. v % 2 = 0
        BY <2>2
      <4> QED
        BY <1>2, <1>3, <2>2, <4>1 DEF Steps
    <3> QED
      BY <1>3, <1>4, <1>7, <2>2, <3>1
  <2>3. CASE v = n /\ n = 2 * h - 1
    <3>1. z = IF o = 1 THEN n - 1 ELSE n - 3
      <4>1. v % 2 = 1
        BY <2>3
      <4> QED
        BY <1>2, <1>3, <2>3, <4>1 DEF Steps
    <3> QED
      BY <1>3, <1>4, <1>7, <2>3, <3>1
  <2> QED
    BY <1>1, <1>3, <1>4, <1>7, <2>1, <2>2, <2>3
<1>8. CASE k \notin {1, h + 1}
  <2>1. z = v - 2 /\ v >= 2
    <3>1. v % 2 = 0 /\ v >= 2
      BY <1>3, <1>4, <1>8
    <3> QED
      BY <1>2, <1>5, <3>1 DEF Steps
  <2>2. load = n \/ (n = Counts /\ load = 0)
    BY DEF Holds
  <2> QED
    BY <1>3, <1>4, <1>8, <2>1, <2>2
<1> QED
  BY <1>7, <1>8

LEMMA WaveOfMode4 ==
  ASSUME NEW n \in 1..Counts, NEW k \in Nat, NEW v \in Values, NEW o,
         InWave(o, v, 4, n, k), ~Hasty(4, n),
         NEW x, Steps(v, x, 1),
         NEW y, y = IF v = 0 THEN 0 ELSE 1,
         NEW j, j = IF k < Counts + 1 THEN k + 1 ELSE 2
  PROVE  InWave(y, x, 4, n, j)
  BY CountsNumber DEF InWave, Down, Holds, Level, Hasty, Values, Steps

LEMMA AskedCounts ==
  ASSUME NEW p, PlanTyped(p), Whole(p), NEW load, load = p.bytes[1] + UINT8 * p.bytes[2]
  PROVE  load \in Values /\ Asked(p) \in 1..Counts /\ Holds(load, Asked(p))
<1>1. p.bytes[1] \in Octet /\ p.bytes[2] \in Octet
  BY DEF PlanTyped, Whole
<1>2. load \in Values
  BY <1>1, CountOfBytes
<1>3. Asked(p) = IF load = 0 THEN Counts ELSE load
  BY Zenon DEF Asked
<1> QED
  BY <1>2, <1>3, CountsNumber DEF Values, Holds

LEMMA NextSteps ==
  ASSUME NEW c, c.counter \in Values
  PROVE  Steps(c.counter, next(c), Decrement(c))
<1>1. PICK d : d = Decrement(c)
  OBVIOUS
<1>2. d \in 0..Counts
  BY <1>1, CountsNumber DEF Decrement
<1>3. PICK v : v = c.counter
  OBVIOUS
<1>4. v \in 0..(Counts - 1) /\ Counts \in Nat \ {0}
  BY <1>3, CountsNumber DEF Values
<1>5. (v + Counts - d) % Counts = IF v >= d THEN v - d ELSE v + Counts - d
  BY <1>2, <1>4, Rounds
<1> QED
  BY <1>1, <1>3, <1>5, Zenon DEF next, Steps

LEMMA WaveAdvances ==
  ASSUME NEW c, UnitTyped(c), NEW p, PlanTyped(p), p.asked, Whole(p), p.ticks > 0,
         Wave(c.mode) = p.mode, c.mode \notin {1, 5},
         c.load = p.bytes[1] + UINT8 * p.bytes[2],
         ~Hasty(p.mode, Asked(p)),
         InWave(c.outreg, c.counter, p.mode, Asked(p), p.ticks),
         NEW x, x = IF autoreload(c) /\ next(c) = 0 THEN c.load ELSE next(c),
         NEW y, y = Driven(c, c.outreg)
  PROVE  InWave(y, x, p.mode, Asked(p), Ticked(p))
<1>1. PICK n, k, v, o, load, z, m :
        n = Asked(p) /\ k = p.ticks /\ v = c.counter /\ o = c.outreg /\ load = c.load /\ z = next(c)
        /\ m = c.mode
  OBVIOUS
<1>2. /\ n \in 1..Counts /\ k \in Nat /\ v \in Values /\ load \in Values /\ Holds(load, n)
      /\ m \in 0..7 /\ m \notin {1, 5} /\ p.mode = Wave(m) /\ p.mode \in {0, 2, 3, 4}
  BY <1>1, AskedCounts DEF PlanTyped, UnitTyped
<1>3. Steps(v, z, Decrement(c))
  BY <1>1, <1>2, NextSteps, Zenon
<1>4. x = IF m % 4 \in {2, 3} /\ z = 0 THEN load ELSE z
  BY <1>1, Zenon DEF autoreload
<1>5. Decrement(c) = IF m % 4 # 3 THEN 1 ELSE IF v % 2 = 0 THEN 2 ELSE IF o = 1 THEN 1 ELSE 3
  BY <1>1, Zenon DEF Decrement, halfmode
<1>6. InWave(o, v, p.mode, n, k) /\ ~Hasty(p.mode, n)
  BY <1>1, Zenon
<1>7. CASE m = 0
  <2>1. p.mode = 0 /\ x = z /\ Decrement(c) = 1
    BY <1>2, <1>4, <1>5, <1>7 DEF Wave
  <2>2. y = IF v = 1 THEN 1 ELSE o
    BY <1>1, <1>7 DEF Driven
  <2>3. Ticked(p) = IF k < n + 1 THEN k + 1 ELSE n + 1
    BY <1>1, <2>1 DEF Ticked, Last, Again
  <2>4. InWave(o, v, 0, n, k) /\ ~Hasty(0, n)
    BY <1>6, <2>1, Zenon
  <2>5. Steps(v, z, 1)
    BY <1>3, <2>1, Zenon
  <2>6. PICK j : j = Ticked(p)
    OBVIOUS
  <2>7. InWave(y, x, 0, n, j)
    BY <1>2, <2>1, <2>2, <2>3, <2>4, <2>5, <2>6, WaveOfMode0
  <2> QED
    BY <1>1, <2>1, <2>6, <2>7, Zenon
<1>8. CASE m \in {2, 6}
  <2>1. p.mode = 2 /\ (x = IF z = 0 THEN load ELSE z) /\ Decrement(c) = 1
    BY <1>2, <1>4, <1>5, <1>8 DEF Wave
  <2>2. y = IF v = 2 THEN 0 ELSE 1
    BY <1>1, <1>8 DEF Driven
  <2>3. Ticked(p) = IF k < n THEN k + 1 ELSE 1
    BY <1>1, <2>1 DEF Ticked, Last, Again
  <2>4. InWave(o, v, 2, n, k) /\ ~Hasty(2, n)
    BY <1>6, <2>1, Zenon
  <2>5. Steps(v, z, 1)
    BY <1>3, <2>1, Zenon
  <2>6. PICK j : j = Ticked(p)
    OBVIOUS
  <2>7. InWave(y, x, 2, n, j)
    BY <1>2, <2>1, <2>2, <2>3, <2>4, <2>5, <2>6, WaveOfMode2, Zenon
  <2> QED
    BY <1>1, <2>1, <2>6, <2>7, Zenon
<1>9. CASE m \in {3, 7}
  <2>1. /\ p.mode = 3 /\ (x = IF z = 0 THEN load ELSE z)
        /\ Decrement(c) = IF v % 2 = 0 THEN 2 ELSE IF o = 1 THEN 1 ELSE 3
    BY <1>2, <1>4, <1>5, <1>9 DEF Wave
  <2>2. y = IF v = 2 THEN 1 - o ELSE o
    BY <1>1, <1>9 DEF Driven
  <2>3. Ticked(p) = IF k < n THEN k + 1 ELSE 1
    BY <1>1, <2>1 DEF Ticked, Last, Again
  <2>4. InWave(o, v, 3, n, k) /\ ~Hasty(3, n)
    BY <1>6, <2>1, Zenon
  <2>5. Steps(v, z, IF v % 2 = 0 THEN 2 ELSE IF o = 1 THEN 1 ELSE 3)
    BY <1>3, <2>1, Zenon
  <2>6. PICK j : j = Ticked(p)
    OBVIOUS
  <2>7. InWave(y, x, 3, n, j)
    BY <1>2, <2>1, <2>2, <2>3, <2>4, <2>5, <2>6, WaveOfMode3, Zenon
  <2> QED
    BY <1>1, <2>1, <2>6, <2>7, Zenon
<1>10. CASE m = 4
  <2>1. p.mode = 4 /\ x = z /\ Decrement(c) = 1
    BY <1>2, <1>4, <1>5, <1>10 DEF Wave
  <2>2. y = IF v = 0 THEN 0 ELSE 1
    BY <1>1, <1>10 DEF Driven
  <2>3. Ticked(p) = IF k < Counts + 1 THEN k + 1 ELSE 2
    BY <1>1, <2>1 DEF Ticked, Last, Again
  <2> QED
    BY <1>1, <1>2, <1>3, <1>6, <2>1, <2>2, <2>3, WaveOfMode4, Zenon
<1>11. m \in {0, 2, 3, 4, 6, 7}
  BY <1>2
<1> QED
  BY <1>7, <1>8, <1>9, <1>10, <1>11

(* The first tick of a wave, on which the count is taken over.             *)
LEMMA WaveBegins ==
  ASSUME NEW c, UnitTyped(c), NEW p, PlanTyped(p), p.asked, Whole(p), p.ticks = 0,
         Wave(c.mode) = p.mode, c.mode \notin {1, 5},
         c.load = p.bytes[1] + UINT8 * p.bytes[2], c.counter = c.load,
         p.mode = 0 => c.outreg = 0, p.mode = 3 => c.outreg = 1,
         ~Hasty(p.mode, Asked(p)),
         NEW y, y = Driven(c, c.outreg)
  PROVE  InWave(y, c.load, p.mode, Asked(p), 1)
<1>1. PICK n, load, m : n = Asked(p) /\ load = c.load /\ m = c.mode
  OBVIOUS
<1>2. /\ n \in 1..Counts /\ load \in Values /\ (load = n \/ (n = Counts /\ load = 0))
      /\ m \in 0..7 /\ m \notin {1, 5} /\ p.mode = Wave(m)
  BY <1>1, AskedCounts DEF UnitTyped, Holds
<1>3. Counts >= 4 /\ Counts \in Nat
  BY CountsNumber
<1>4. CASE m = 0
  BY <1>1, <1>2, <1>3, <1>4 DEF Driven, Wave, Hasty, InWave, Level, Down, Holds
<1>5. CASE m \in {2, 6}
  <2>1. p.mode = 2 /\ (y = IF load = 2 THEN 0 ELSE 1)
    BY <1>1, <1>2, <1>5 DEF Driven, Wave
  <2>2. n >= 3
    BY <1>1, <1>2, <2>1 DEF Hasty
  <2>3. y = 1
    BY <1>2, <1>3, <2>1, <2>2
  <2> QED
    BY <1>1, <1>2, <2>1, <2>2, <2>3 DEF InWave, Level, Down, Holds
<1>6. CASE m \in {3, 7}
  <2>1. p.mode = 3 /\ (y = IF load = 2 THEN 1 - c.outreg ELSE c.outreg) /\ c.outreg = 1
    BY <1>1, <1>2, <1>6 DEF Driven, Wave
  <2>2. n >= 4
    BY <1>1, <1>2, <2>1 DEF Hasty
  <2>3. y = 1
    BY <1>2, <1>3, <2>1, <2>2
  <2>4. 1 <= (n + 1) \div 2 /\ 1 <= n
    BY <1>2, <2>2
  <2> QED
    BY <1>1, <1>2, <2>1, <2>3, <2>4 DEF InWave, Level, Turns, Holds
<1>7. CASE m = 4
  BY <1>1, <1>2, <1>3, <1>7 DEF Driven, Wave, Hasty, InWave, Level, Down, Holds
<1>8. m \in {0, 2, 3, 4, 6, 7}
  BY <1>2
<1> QED
  BY <1>4, <1>5, <1>6, <1>7, <1>8

(* Writes, on the frame: their last clock ends the frame's last quarter.   *)
LEMMA TickTells ==
  ASSUME ClockInStep
  PROVE  vi53_timer_ce <=> clock.ws \in {10, 26}
<1>1. CASE \E w \in 0..2 : clock = Starting(w)
  <2>1. PICK w \in 0..2 : clock = Starting(w)
    BY <1>1
  <2>2. clock.ws = w /\ clock.tce = FALSE
    BY <2>1 DEF Starting
  <2>3. w \notin {10, 26}
    OBVIOUS
  <2> QED
    BY <2>2, <2>3, Zenon DEF vi53_timer_ce
<1>2. CASE \E w \in 0..31, r \in BOOLEAN : clock = Running(w, r)
  <2>1. PICK w \in 0..31, r \in BOOLEAN : clock = Running(w, r)
    BY <1>2
  <2>2. clock.ws = w /\ vi53_timer_ce = (w % 16 = 10)
    BY <2>1, RunningFields, Zenon
  <2>3. (w % 16 = 10) <=> w \in {10, 26}
    OBVIOUS
  <2> QED
    BY <2>2, <2>3, Zenon
<1> QED
  BY <1>1, <1>2, Zenon DEF ClockInStep

LEMMA WriteTimes ==
  ASSUME InStep, NEW u \in Units
  PROVE  /\ clock.ws \in 0..31
         /\ vi53_timer_ce <=> clock.ws \in {10, 26}
         /\ Programs(u) \/ wren(u) => clock.ws \in 19..26 /\ (cpu_ce <=> clock.ws = 26)
         /\ Programs(u) => ~wren(u)
<1>1. clock.ws \in 0..31 /\ (vi53_timer_ce <=> clock.ws \in {10, 26})
  BY ClockTells, TickTells, Zenon DEF InStep
<1>2. ASSUME Programs(u) \/ wren(u) PROVE clock.ws \in 19..26 /\ (cpu_ce <=> clock.ws = 26)
  <2>1. vi53_wren
    BY <1>2, Zenon DEF Programs, cwset, wren
  <2>2. cpu.m = 3 /\ cpu.t = 3
    BY <2>1, Zenon DEF vi53_wren, InStep, StrobesInStep
  <2>3. clock.ws \in 19..26
    BY <2>2 DEF InStep, CyclesInStep, Fourth
  <2>4. /\ cpu_ce => clock.ws \in {2, 10, 18, 26}
        /\ cpu.t # 0 /\ clock.ws \in {2, 10, 18, 26} => cpu_ce
    BY ClockTells, Zenon DEF InStep
  <2> QED
    BY <2>2, <2>3, <2>4
<1>3. Programs(u) => ~wren(u)
  <2>1. Port(u) # WordPort
    BY DEF Port, WordPort, Units
  <2> QED
    BY <2>1, Zenon DEF Programs, cwset, wren
<1> QED
  BY <1>1, <1>2, <1>3, Zenon

LEMMA WriteData ==
  ASSUME InStep, AddressInStep, ProgramInStep, NEW u \in Units
  PROVE  /\ Programs(u) => Word.rl \in 0..3 /\ Word.mode \in 0..7
         /\ wren(u) => cpu.op.data \in Octet
<1>1. ASSUME vi53_wren
      PROVE  cpu.op.kind = "out" /\ cpu.op.port = bus.addr /\ WellFormed(cpu.op)
  <2>1. ~cpu.WR_n
    BY <1>1 DEF vi53_wren
  <2>2. cpu.m = 3 /\ cpu.t = 3
    BY <2>1 DEF InStep, StrobesInStep
  <2> QED
    BY <2>1, <2>2, OpsAreWellFormed DEF AddressInStep, ProgramInStep
<1>2. ASSUME Programs(u) PROVE Word.rl \in 0..3 /\ Word.mode \in 0..7
  <2>1. vi53_wren /\ bus.addr = WordPort
    BY <1>2 DEF Programs, cwset
  <2>2. cpu.op.data \in [unit : 0..3, rl : 0..3, mode : 0..7]
    BY <1>1, <2>1, Zenon DEF WellFormed
  <2> QED
    BY <2>2 DEF Word
<1>3. ASSUME wren(u) PROVE cpu.op.data \in Octet
  <2>1. vi53_wren /\ bus.addr = Port(u) /\ Port(u) # WordPort
    BY <1>3 DEF wren, Port, WordPort, Units
  <2> QED
    BY <1>1, <2>1, Zenon DEF WellFormed, Octet
<1> QED
  BY <1>2, <1>3

LEMMA WritingNext ==
  ASSUME InStep, BusEdge, CpuHolds \/ CpuSteps \/ CpuFetches, NEW u \in Units
  PROVE  /\ clock.ws' = (clock.ws + 1) % 32
         /\ Writing(u)' <=> Programs(u) /\ ~cpu_ce
         /\ ~cpu_ce => Word' = Word
<1> DEFINE w == clock.ws
<1>1. clock.ws' = (w + 1) % 32
  <2>1. CpuHolds \/ cpu_ce
    BY DEF CpuSteps, CpuFetches
  <2>2. cpu.t = 0 /\ ~cpu_ce => cpu'.t = 0
    BY <2>1 DEF CpuHolds
  <2> QED
    BY <2>2, ClockKeepsStep, Zenon DEF InStep
<1>2. CASE ~cpu_ce
  <2>1. cpu' = cpu /\ bus' = bus
    BY <1>2, BusTakes, Zenon DEF CpuHolds, CpuSteps, CpuFetches, InStep
  <2>2. (Programs(u)' <=> Programs(u)) /\ Word' = Word
    BY <2>1, Zenon DEF Programs, cwset, vi53_wren, vi53_sel, Word
  <2>3. Programs(u) => clock.ws' # 19
    <3>1. Programs(u) => w \in 19..25
      BY <1>2, WriteTimes
    <3> QED
      BY <1>1, <3>1
  <2>4. Writing(u)' <=> Programs(u)' /\ clock.ws' # 19
    BY Zenon DEF Writing
  <2> QED
    BY <1>1, <1>2, <2>2, <2>3, <2>4, Zenon
<1>3. CASE cpu_ce
  <2>1. w \in {2, 10, 18, 26}
    BY <1>3, ClockTells, Zenon DEF InStep
  <2>2. cpu'.WR_n \/ w = 18
    <3>1. CASE CpuSteps
      <4>1. (cpu.t = 2 /\ cpu.m = 3) \/ cpu'.WR_n
        BY <3>1, CpuMoves, Zenon
      <4>2. cpu.t = 2 /\ cpu.m = 3 => w = 18
        BY <2>1 DEF InStep, CyclesInStep, Third
      <4> QED
        BY <4>1, <4>2, Zenon
    <3>2. CASE CpuFetches
      <4>1. WR_n_next
        <5>1. ~(cpu.t = 2 /\ cpu.m = 3)
          BY <3>2 DEF CpuFetches, LastT
        <5> QED
          BY <5>1, Zenon DEF WR_n_next, IORQ
      <4>2. PICK op : Runs(op)
        BY <3>2 DEF CpuFetches
      <4>3. cpu'.WR_n = WR_n_next
        <5> DEFINE x == WR_n_next
        <5>1. cpu' = [m |-> 1, t |-> 1, WR_n |-> x, op |-> op]
          BY <4>2, Zenon DEF Runs
        <5> HIDE DEF x
        <5> QED
          BY <5>1 DEF x
      <4> QED
        BY <4>1, <4>3, Zenon
    <3> QED
      BY <1>3, <3>1, <3>2 DEF CpuHolds
  <2>3. Programs(u)' => ~cpu'.WR_n
    BY Zenon DEF Programs, cwset, vi53_wren
  <2>4. w = 18 => clock.ws' = 19
    BY <1>1
  <2> QED
    BY <1>1, <1>3, <2>2, <2>3, <2>4, Zenon DEF Writing
<1> QED
  BY <1>2, <1>3

(* Edges, whatever the unit is doing.                                      *)
LEMMA CounterTyped ==
  ASSUME NEW c, UnitTyped(c), NEW o \in 0..1
  PROVE  CounterEdge(c) \in Values /\ Driven(c, o) \in 0..1
<1>1. c.load \in Values /\ c.counter \in Values /\ c.outreg \in 0..1
  BY DEF UnitTyped
<1>2. PICK d : d = Decrement(c)
  OBVIOUS
<1>3. d \in 0..3
  BY <1>2 DEF Decrement
<1>4. c.counter + Counts - d \in Nat
  BY <1>1, <1>3, CountsNumber DEF Values
<1>5. next(c) \in Values
  BY <1>2, <1>4, CountsNumber DEF next, Values
<1>6. CounterEdge(c) \in Values
  BY <1>1, <1>5, Zenon DEF CounterEdge
<1>7. 1 - c.outreg \in 0..1 /\ 0 \in 0..1 /\ 1 \in 0..1
  BY <1>1
<1>8. Driven(c, o) \in 0..1
  BY <1>7 DEF Driven
<1> QED
  BY <1>6, <1>8

LEMMA ReloadTyped ==
  ASSUME NEW u, NEW c, UnitTyped(c), Programs(u) => Word.rl \in 0..3 /\ Word.mode \in 0..7,
         wren(u) => cpu.op.data \in Octet,
         NEW n1, NEW n2, Reprogrammed(u, c, n1), Reloaded(u, c, n1, n2)
  PROVE  /\ n2.rl \in 0..3 /\ n2.mode \in 0..7 /\ n1.outreg \in 0..1 /\ n2.load \in Values
         /\ n2.wren \in BOOLEAN /\ n2.starting \in BOOLEAN /\ n2.loaded \in BOOLEAN
         /\ n2.loading \in BOOLEAN /\ n2.loading_msb \in BOOLEAN
<1>1. /\ c.rl \in 0..3 /\ c.mode \in 0..7 /\ c.outreg \in 0..1 /\ c.load \in Values
      /\ c.wren \in BOOLEAN /\ c.starting \in BOOLEAN /\ c.loaded \in BOOLEAN
      /\ c.loading \in BOOLEAN /\ c.loading_msb \in BOOLEAN
  BY Zenon DEF UnitTyped
<1>2. /\ n1.rl \in 0..3 /\ n1.mode \in 0..7 /\ n1.outreg \in 0..1 /\ n1.load \in Values
      /\ n1.wren \in BOOLEAN /\ n1.starting \in BOOLEAN /\ n1.loaded \in BOOLEAN
      /\ n1.loading \in BOOLEAN /\ n1.loading_msb \in BOOLEAN
  <2>1. CASE Programs(u)
    <3>1. (IF Word.mode = 0 THEN 0 ELSE 1) \in 0..1
      OBVIOUS
    <3> QED
      BY <1>1, <2>1, <3>1, Zenon DEF Reprogrammed
  <2>2. CASE ~Programs(u)
    BY <1>1, <2>2, Zenon DEF Reprogrammed
  <2> QED
    BY <2>1, <2>2
<1>3. n2.rl = n1.rl /\ n2.mode = n1.mode /\ n2.outreg = n1.outreg
  BY Zenon DEF Reloaded
<1>4. ASSUME wren(u)
      PROVE  /\ cpu.op.data + UINT8 * Hi(c.load) \in Values
             /\ Lo(c.load) + UINT8 * cpu.op.data \in Values
  BY <1>1, <1>4, BytesOfCount, CountOfBytes
<1>5. CASE ~(wren(u) /\ cpu_ce) \/ c.rl = 0
  <2>1. Unloaded(n1, n2)
    BY <1>5, Zenon DEF Reloaded
  <2> QED
    BY <1>2, <1>3, <2>1, Zenon DEF Unloaded
<1>6. CASE wren(u) /\ cpu_ce /\ c.rl \in {1, 2}
  <2>1. Loading_one(c, n1, n2, cpu.op.data)
    BY <1>6 DEF Reloaded
  <2>2. n2.load \in Values
    BY <1>4, <1>6, <2>1, Zenon DEF Loading_one
  <2> QED
    BY <1>2, <1>3, <2>1, <2>2, Zenon DEF Loading_one
<1>7. CASE wren(u) /\ cpu_ce /\ c.rl = 3 /\ c.loading_msb
  <2>1. Loading_msb(c, n1, n2, cpu.op.data)
    BY <1>7 DEF Reloaded
  <2>2. n2.load \in Values
    BY <1>4, <1>7, <2>1, Zenon DEF Loading_msb
  <2> QED
    BY <1>1, <1>2, <1>3, <2>1, <2>2, Zenon DEF Loading_msb
<1>8. CASE wren(u) /\ cpu_ce /\ c.rl = 3 /\ ~c.loading_msb
  <2>1. Loading_lsb(c, n1, n2, cpu.op.data)
    BY <1>8 DEF Reloaded
  <2>2. n2.load \in Values
    BY <1>4, <1>8, <2>1, Zenon DEF Loading_lsb
  <2> QED
    BY <1>1, <1>2, <1>3, <2>1, <2>2, Zenon DEF Loading_lsb
<1>9. c.rl \in {0, 1, 2, 3}
  BY <1>1
<1> QED
  BY <1>5, <1>6, <1>7, <1>8, <1>9

LEMMA EdgeTyped ==
  ASSUME NEW u, NEW c, UnitTyped(c), Programs(u) => Word.rl \in 0..3 /\ Word.mode \in 0..7,
         wren(u) => cpu.op.data \in Octet, NEW d, d = UnitEdge(u, c)
  PROVE  UnitTyped(d)
<1>1. DOMAIN c = Registers /\ c.rl \in 0..3
  BY Zenon DEF UnitTyped
<1>2. PICK n1, n2 : Reprogrammed(u, c, n1) /\ Reloaded(u, c, n1, n2) /\ Turned(c, n1, n2, d)
  BY <1>1, EdgeSteps, Zenon
<1>3. /\ n2.rl \in 0..3 /\ n2.mode \in 0..7 /\ n1.outreg \in 0..1 /\ n2.load \in Values
      /\ n2.wren \in BOOLEAN /\ n2.starting \in BOOLEAN /\ n2.loaded \in BOOLEAN
      /\ n2.loading \in BOOLEAN /\ n2.loading_msb \in BOOLEAN
  BY <1>2, ReloadTyped, Zenon
<1>4. CounterEdge(c) \in Values /\ Driven(c, n1.outreg) \in 0..1
  BY <1>3, CounterTyped, Zenon
<1>5. /\ (IF vi53_timer_ce /\ counter_wren(c) THEN FALSE ELSE n2.wren) \in BOOLEAN
      /\ (IF vi53_timer_ce THEN c.starting \/ n2.loaded ELSE n2.loaded) \in BOOLEAN
      /\ (IF vi53_timer_ce THEN ~c.starting /\ n2.starting ELSE n2.starting) \in BOOLEAN
  BY <1>3, Zenon
<1>6. d.wren \in BOOLEAN /\ d.loaded \in BOOLEAN /\ d.starting \in BOOLEAN
  BY <1>2, <1>5, Zenon DEF Turned
<1>7. d.outreg \in 0..1 /\ d.counter \in Values /\ DOMAIN d = Registers
  BY <1>2, <1>3, <1>4, Zenon DEF Turned
<1>8. /\ d.rl \in 0..3 /\ d.mode \in 0..7 /\ d.load \in Values
      /\ d.loading \in BOOLEAN /\ d.loading_msb \in BOOLEAN
  BY <1>2, <1>3, Zenon DEF Turned
<1> QED
  BY <1>6, <1>7, <1>8, Zenon DEF UnitTyped

LEMMA EdgeStarts ==
  ASSUME NEW u, NEW c, UnitTyped(c), Programs(u) => Word.rl \in 0..3, NEW d, d = UnitEdge(u, c),
         NEW w \in 0..31, vi53_timer_ce <=> w \in {10, 26},
         wren(u) /\ cpu_ce => w = 26, c.starting => Between_ticks(w)
  PROVE  d.starting => Between_ticks((w + 1) % 32)
<1>1. DOMAIN c = Registers /\ c.rl \in 0..3
  BY Zenon DEF UnitTyped
<1>2. PICK n1, n2 : Reprogrammed(u, c, n1) /\ Reloaded(u, c, n1, n2) /\ Turned(c, n1, n2, d)
  BY <1>1, EdgeSteps, Zenon
<1>3. d.starting = IF vi53_timer_ce THEN ~c.starting /\ n2.starting ELSE n2.starting
  BY <1>2, Zenon DEF Turned
<1>4. ~(wren(u) /\ cpu_ce) => n2.starting = c.starting
  BY <1>2, Zenon DEF Reprogrammed, Reloaded, Unloaded
<1> SUFFICES ASSUME d.starting, ~Between_ticks((w + 1) % 32) PROVE FALSE
  OBVIOUS
<1>5. w # 26
  BY DEF Between_ticks
<1>6. c.starting /\ ~vi53_timer_ce
  BY <1>3, <1>4, <1>5, Zenon
<1>7. w \in 27..31 \cup 0..9
  BY <1>6 DEF Between_ticks
<1> QED
  BY <1>7 DEF Between_ticks

(* A control word, clock by clock: the plan it makes and what it leaves.   *)
LEMMA ProgramsPlan ==
  ASSUME NEW u, Programs(u), ~wren(u), Word.mode \in 0..7, NEW g, g = PlanEdge(u)
  PROVE  /\ PlanTyped(g) /\ g.bytes = <<>>
         /\ g.asked => /\ Word.rl = 3 /\ Word.mode \notin {1, 5}
                       /\ ~Restless(Word.mode, unit[u].counter)
                       /\ g.mode = Wave(Word.mode)
<1>1. PICK m : m = Wave(Word.mode)
  OBVIOUS
<1>2. PICK yes : yes = TRUE
  OBVIOUS
<1>3. CASE Word.rl = 3 /\ Word.mode \notin {1, 5} /\ ~Restless(Word.mode, unit[u].counter)
  <2>1. g = [NoPlan EXCEPT !.mode = m, !.asked = yes]
    BY <1>1, <1>2, <1>3, Zenon DEF PlanEdge, Wave
  <2>2. g = [mode |-> m, bytes |-> <<>>, ticks |-> 0, asked |-> yes]
    BY <2>1 DEF NoPlan
  <2>3. m \in {0, 2, 3, 4}
    BY <1>1, <1>3 DEF Wave
  <2>4. g.mode = m /\ g.bytes = <<>> /\ g.ticks = 0 /\ g.asked = yes
    BY <2>2
  <2>5. PlanTyped(g)
    <3>1. g.bytes \in Seq(Octet) /\ Len(g.bytes) = 0
      BY <2>4
    <3>2. g = [mode |-> g.mode, bytes |-> g.bytes, ticks |-> g.ticks, asked |-> g.asked]
      BY <2>2
    <3>3. Len(g.bytes) \in 0..2 /\ g.ticks \in Nat
      BY <2>4, <3>1
    <3> QED
      BY <1>2, <2>3, <2>4, <3>1, <3>2, <3>3, Zenon DEF PlanTyped
  <2> QED
    BY <1>1, <1>3, <2>4, <2>5, Zenon
<1>4. CASE ~(Word.rl = 3 /\ Word.mode \notin {1, 5} /\ ~Restless(Word.mode, unit[u].counter))
  <2>1. g = NoPlan
    BY <1>4, Zenon DEF PlanEdge
  <2> QED
    BY <2>1 DEF NoPlan, PlanTyped
<1> QED
  BY <1>3, <1>4

Programmed(c, d, o) ==
  /\ d.rl = Word.rl /\ d.mode = Word.mode /\ d.load = c.load
  /\ d.loading = FALSE /\ d.loading_msb = FALSE
  /\ d.wren = IF vi53_timer_ce /\ counter_wren(c) THEN FALSE ELSE c.wren
  /\ d.loaded = IF vi53_timer_ce THEN c.starting \/ FALSE ELSE FALSE
  /\ d.starting = IF vi53_timer_ce THEN ~c.starting /\ c.starting ELSE c.starting
  /\ d.outreg = IF vi53_timer_ce THEN Driven(c, o) ELSE o
  /\ d.counter = CounterEdge(c)

LEMMA EdgeProgrammed ==
  ASSUME NEW u, Programs(u), ~wren(u), Word.rl \in 0..3, NEW c, UnitTyped(c),
         NEW d, d = UnitEdge(u, c), NEW o, o = IF Word.mode = 0 THEN 0 ELSE 1
  PROVE  Programmed(c, d, o)
<1>1. DOMAIN c = Registers /\ c.rl \in 0..3
  BY Zenon DEF UnitTyped
<1>2. PICK n1, n2 : Reprogrammed(u, c, n1) /\ Reloaded(u, c, n1, n2) /\ Turned(c, n1, n2, d)
  BY <1>1, EdgeSteps, Zenon
<1>3. /\ n1.load = c.load /\ n1.wren = c.wren /\ n1.starting = c.starting
      /\ n1.rl = Word.rl /\ n1.mode = Word.mode /\ n1.outreg = o
      /\ n1.loaded = FALSE /\ n1.loading = FALSE /\ n1.loading_msb = FALSE
  BY <1>2, Zenon DEF Reprogrammed
<1>4. n2.rl = n1.rl /\ n2.mode = n1.mode /\ Unloaded(n1, n2)
  BY <1>2, Zenon DEF Reloaded
<1> QED
  BY <1>2, <1>3, <1>4, Zenon DEF Unloaded, Turned, Programmed

Idled(c, d) ==
  /\ d.rl = c.rl /\ d.mode = c.mode /\ d.load = c.load
  /\ d.loading = c.loading /\ d.loading_msb = c.loading_msb
  /\ d.wren = IF vi53_timer_ce /\ counter_wren(c) THEN FALSE ELSE c.wren
  /\ d.loaded = IF vi53_timer_ce THEN c.starting \/ c.loaded ELSE c.loaded
  /\ d.starting = IF vi53_timer_ce THEN ~c.starting /\ c.starting ELSE c.starting
  /\ d.outreg = IF vi53_timer_ce THEN Driven(c, c.outreg) ELSE c.outreg
  /\ d.counter = CounterEdge(c)

LEMMA EdgeIdles ==
  ASSUME NEW u, ~Programs(u), ~(wren(u) /\ cpu_ce), NEW c, UnitTyped(c),
         NEW d, d = UnitEdge(u, c)
  PROVE  Idled(c, d)
<1>1. DOMAIN c = Registers /\ c.rl \in 0..3
  BY Zenon DEF UnitTyped
<1>2. PICK n1, n2 : Reprogrammed(u, c, n1) /\ Reloaded(u, c, n1, n2) /\ Turned(c, n1, n2, d)
  BY <1>1, EdgeSteps, Zenon
<1>3. /\ n1.load = c.load /\ n1.wren = c.wren /\ n1.starting = c.starting
      /\ n1.rl = c.rl /\ n1.mode = c.mode /\ n1.outreg = c.outreg
      /\ n1.loaded = c.loaded /\ n1.loading = c.loading /\ n1.loading_msb = c.loading_msb
  BY <1>2, Zenon DEF Reprogrammed
<1>4. n2.rl = n1.rl /\ n2.mode = n1.mode /\ Unloaded(n1, n2)
  BY <1>2, Zenon DEF Reloaded
<1> QED
  BY <1>2, <1>3, <1>4, Zenon DEF Unloaded, Turned, Idled

LEMMA EdgeLoads ==
  ASSUME NEW u, ~Programs(u), wren(u), cpu_ce, vi53_timer_ce, NEW c, UnitTyped(c), c.rl = 3,
         ~c.starting, ~c.wren, ~c.loaded, NEW d, d = UnitEdge(u, c), NEW b, b = cpu.op.data
  PROVE  /\ d.rl = c.rl /\ d.mode = c.mode /\ ~d.loaded
         /\ d.outreg = Driven(c, c.outreg) /\ d.counter = CounterEdge(c)
         /\ ~c.loading_msb => /\ ~d.starting /\ ~d.wren
                              /\ d.loading /\ d.loading_msb /\ d.load = b + UINT8 * Hi(c.load)
         /\ c.loading_msb => /\ d.starting /\ d.wren
                             /\ ~d.loading /\ ~d.loading_msb /\ d.load = Lo(c.load) + UINT8 * b
<1>1. DOMAIN c = Registers /\ c.rl \in 0..3
  BY Zenon DEF UnitTyped
<1>2. PICK n1, n2 : Reprogrammed(u, c, n1) /\ Reloaded(u, c, n1, n2) /\ Turned(c, n1, n2, d)
  BY <1>1, EdgeSteps, Zenon
<1>3. /\ n1.load = c.load /\ n1.wren = c.wren /\ n1.starting = c.starting
      /\ n1.rl = c.rl /\ n1.mode = c.mode /\ n1.outreg = c.outreg
      /\ n1.loaded = c.loaded /\ n1.loading = c.loading /\ n1.loading_msb = c.loading_msb
  BY <1>2, Zenon DEF Reprogrammed
<1>4. /\ n2.rl = n1.rl /\ n2.mode = n1.mode
      /\ IF c.loading_msb THEN Loading_msb(c, n1, n2, b) ELSE Loading_lsb(c, n1, n2, b)
  BY <1>2 DEF Reloaded
<1>5. ~counter_wren(c)
  BY DEF counter_wren
<1>6. /\ d.rl = n2.rl /\ d.mode = n2.mode /\ d.load = n2.load
      /\ d.loading = n2.loading /\ d.loading_msb = n2.loading_msb
      /\ d.wren = n2.wren /\ (d.loaded <=> n2.loaded) /\ (d.starting <=> n2.starting)
      /\ d.outreg = Driven(c, n1.outreg) /\ d.counter = CounterEdge(c)
  <2>1. /\ d.loaded = (c.starting \/ n2.loaded) /\ d.starting = (~c.starting /\ n2.starting)
        /\ d.wren = n2.wren /\ d.outreg = Driven(c, n1.outreg)
    BY <1>2, <1>5, Zenon DEF Turned
  <2> QED
    BY <1>2, <2>1, Zenon DEF Turned
<1>7. CASE c.loading_msb
  BY <1>3, <1>4, <1>6, <1>7, Zenon DEF Loading_msb
<1>8. CASE ~c.loading_msb
  BY <1>3, <1>4, <1>6, <1>8, Zenon DEF Loading_lsb
<1> QED
  BY <1>7, <1>8

LEMMA ProgramsKept ==
  ASSUME NEW u, Programs(u), ~wren(u), Word.rl \in 0..3, Word.mode \in 0..7,
         NEW w \in 19..26, vi53_timer_ce <=> w = 26,
         NEW c, c = unit[u], UnitTyped(c), c.starting => Between_ticks(w),
         w # 19 => SetBack(w, Word, c),
         NEW d, d = UnitEdge(u, c), NEW g, g = PlanEdge(u)
  PROVE  /\ PlanTyped(g)
         /\ w # 26 => SetBack(w + 1, Word, d)
         /\ w = 26 /\ g.asked => Promised(27, d, g)
<1>1. PICK o : o = IF Word.mode = 0 THEN 0 ELSE 1
  OBVIOUS
<1>2. /\ d.rl = Word.rl /\ d.mode = Word.mode /\ d.load = c.load
      /\ d.loading = FALSE /\ d.loading_msb = FALSE
      /\ d.wren = IF vi53_timer_ce /\ counter_wren(c) THEN FALSE ELSE c.wren
      /\ d.loaded = IF vi53_timer_ce THEN c.starting \/ FALSE ELSE FALSE
      /\ d.starting = IF vi53_timer_ce THEN ~c.starting /\ c.starting ELSE c.starting
      /\ d.outreg = IF vi53_timer_ce THEN Driven(c, o) ELSE o
      /\ d.counter = CounterEdge(c)
  <2>1. Programmed(c, d, o)
    BY <1>1, EdgeProgrammed, Zenon
  <2> QED
    BY <2>1, Zenon DEF Programmed
<1>3. ~c.starting
  BY DEF Between_ticks
<1>4. /\ PlanTyped(g) /\ g.bytes = <<>>
      /\ g.asked => /\ Word.rl = 3 /\ Word.mode \notin {1, 5}
                    /\ ~Restless(Word.mode, c.counter)
                    /\ g.mode = Wave(Word.mode)
  BY ProgramsPlan, Zenon
<1>5. ASSUME w # 26 PROVE SetBack(w + 1, Word, d)
  <2>1. ~vi53_timer_ce
    BY <1>5
  <2>2. d.wren = c.wren /\ d.loaded = FALSE
    BY <1>2, <2>1, Zenon
  <2>3. ASSUME w # 19, counter_wren(d) PROVE d.counter = d.load
    <3>1. c.mode = Word.mode
      BY <2>3, Zenon DEF SetBack
    <3>2. counter_wren(c)
      BY <1>2, <2>2, <2>3, <3>1, Zenon DEF counter_wren
    <3> QED
      BY <1>2, <3>2, Zenon DEF CounterEdge
  <2>4. w + 1 # 20 => w # 19
    OBVIOUS
  <2> QED
    BY <1>2, <2>2, <2>3, <2>4, Zenon DEF SetBack
<1>6. ASSUME w = 26, g.asked PROVE Promised(27, d, g)
  <2>1. vi53_timer_ce /\ SetBack(w, Word, c) /\ w # 20
    BY <1>6
  <2>2. c.mode = Word.mode /\ ~c.loaded /\ (counter_wren(c) => c.counter = c.load)
    BY <2>1, Zenon DEF SetBack
  <2>3. d.counter = c.counter
    BY <1>2, <2>2, Zenon DEF CounterEdge, counts
  <2>4. ~d.wren
    BY <1>2, <1>4, <1>6, <2>1, <2>2, Zenon DEF counter_wren
  <2>5. ~d.loaded /\ ~d.starting /\ d.outreg = Driven(c, o)
    BY <1>2, <1>3, <2>1, Zenon
  <2>6. Rests(d, g.mode)
    <3>1. PICK m, n : m = Word.mode /\ n = c.counter
      OBVIOUS
    <3>2. /\ m \in 0..7 /\ m \notin {1, 5} /\ g.mode = Wave(m)
          /\ ~(m = 0 /\ n = 1) /\ ~(m \in {3, 7} /\ n = 2)
      BY <1>4, <1>6, <3>1, Zenon DEF Restless
    <3>3. d.outreg = Driven(c, o) /\ d.counter = n /\ c.counter = n /\ c.mode = m
      BY <2>2, <2>3, <2>5, <3>1, Zenon
    <3>4. CASE m = 0
      BY <1>1, <3>1, <3>2, <3>3, <3>4 DEF Driven, Wave, Rests
    <3>5. CASE m \in {3, 7}
      <4>1. n # 2 /\ o = 1
        BY <1>1, <3>1, <3>2, <3>5
      <4>2. d.outreg = 1
        BY <3>3, <3>5, <4>1 DEF Driven
      <4>3. g.mode = 3
        BY <3>2, <3>5 DEF Wave
      <4> QED
        BY <3>3, <4>1, <4>2, <4>3 DEF Rests
    <3>6. CASE m \in {2, 4, 6}
      BY <3>2, <3>6 DEF Wave, Rests
    <3>7. m \in {0, 2, 3, 4, 6, 7}
      BY <3>2
    <3> QED
      BY <3>4, <3>5, <3>6, <3>7
  <2>7. Loading(d, g)
    BY <1>2, <1>4, <2>4, <2>5, <2>6, Zenon DEF Loading
  <2>8. ~Whole(g)
    BY <1>4 DEF Whole
  <2>9. d.rl = 3 /\ Wave(d.mode) = g.mode /\ d.mode \notin {1, 5}
    BY <1>2, <1>4, <1>6, Zenon
  <2> QED
    BY <2>7, <2>8, <2>9, Zenon DEF Promised
<1> QED
  BY <1>4, <1>5, <1>6

(* A count's byte.                                                         *)
LEMMA RestsOn ==
  ASSUME NEW c, UnitTyped(c), c.mode \notin {1, 5}, NEW m, m = Wave(c.mode), Rests(c, m),
         ~c.wren, ~c.loaded, NEW d, d.counter = CounterEdge(c),
         d.outreg = c.outreg \/ d.outreg = Driven(c, c.outreg)
  PROVE  Rests(d, m)
<1>1. d.counter = c.counter
  BY Zenon DEF CounterEdge, counter_wren, counts
<1>2. c.mode \in 0..7 /\ c.mode \notin {1, 5}
  BY DEF UnitTyped
<1>3. CASE c.mode = 0
  BY <1>1, <1>3 DEF Driven, Wave, Rests
<1>4. CASE c.mode \in {3, 7}
  BY <1>1, <1>4 DEF Driven, Wave, Rests
<1>5. CASE c.mode \in {2, 4, 6}
  BY <1>5 DEF Wave, Rests
<1> QED
  BY <1>2, <1>3, <1>4, <1>5

Appended(g, p, b) ==
  /\ p.asked /\ ~Whole(p) /\ g.mode = p.mode /\ g.ticks = 0
  /\ g.bytes = Append(p.bytes, b)

LEMMA LoadsPlan ==
  ASSUME NEW u, ~Programs(u), wren(u), cpu_ce, NEW p, p = plan[u], PlanTyped(p),
         NEW b \in Octet, b = cpu.op.data, NEW g, g = PlanEdge(u)
  PROVE  /\ PlanTyped(g)
         /\ g.asked => Appended(g, p, b)
<1>1. CASE ~p.asked
  <2>1. g = p
    BY <1>1, Zenon DEF PlanEdge
  <2> QED
    BY <1>1, <2>1, Zenon
<1>2. CASE p.asked /\ Whole(p)
  <2>1. g = NoPlan
    BY <1>2, Zenon DEF PlanEdge
  <2> QED
    BY <2>1 DEF NoPlan, PlanTyped
<1>3. CASE p.asked /\ ~Whole(p)
  <2>1. PICK s : s = Append(p.bytes, b)
    OBVIOUS
  <2>2. g = [p EXCEPT !.bytes = s]
    BY <1>3, <2>1, Zenon DEF PlanEdge
  <2>3. p = [mode |-> p.mode, bytes |-> p.bytes, ticks |-> p.ticks, asked |-> p.asked]
    BY Zenon DEF PlanTyped
  <2>4. g = [mode |-> p.mode, bytes |-> s, ticks |-> p.ticks, asked |-> p.asked]
    BY <2>2, <2>3
  <2>5. g.mode = p.mode /\ g.bytes = s /\ g.ticks = p.ticks /\ g.asked = p.asked
    BY <2>4
  <2>6. p.bytes \in Seq(Octet) /\ Len(p.bytes) \in 0..1 /\ p.ticks = 0
    BY <1>3 DEF PlanTyped, Whole
  <2>7. s \in Seq(Octet) /\ Len(s) \in 0..2
    <3>1. PICK r : r = p.bytes
      OBVIOUS
    <3>2. r \in Seq(Octet) /\ Len(r) \in 0..1 /\ s = Append(r, b)
      BY <2>1, <2>6, <3>1
    <3>3. Len(s) = Len(r) + 1 /\ s \in Seq(Octet)
      BY <3>2
    <3> QED
      BY <3>2, <3>3
  <2>8. p.ticks \in Nat /\ p.asked \in BOOLEAN /\ (p.asked => p.mode \in {0, 2, 3, 4})
    BY Zenon DEF PlanTyped
  <2>9. g = [mode |-> g.mode, bytes |-> g.bytes, ticks |-> g.ticks, asked |-> g.asked]
    BY <2>4, <2>5, Zenon
  <2>10. PlanTyped(g)
    BY <2>5, <2>6, <2>7, <2>8, <2>9, Zenon DEF PlanTyped
  <2> QED
    BY <1>3, <2>1, <2>5, <2>6, <2>10, Zenon DEF Appended
<1> QED
  BY <1>1, <1>2, <1>3

LEMMA LoadsKept ==
  ASSUME NEW u, ~Programs(u), wren(u), cpu_ce, vi53_timer_ce, cpu.op.data \in Octet,
         NEW c, UnitTyped(c), c.starting => Between_ticks(26),
         NEW p, p = plan[u], PlanTyped(p), p.asked => Promised(26, c, p),
         NEW d, d = UnitEdge(u, c), NEW g, g = PlanEdge(u)
  PROVE  PlanTyped(g) /\ (g.asked => Promised(27, d, g))
<1>1. PICK b : b = cpu.op.data /\ b \in Octet
  OBVIOUS
<1>2. PlanTyped(g) /\ (g.asked => Appended(g, p, b))
  BY <1>1, LoadsPlan, Zenon
<1> SUFFICES ASSUME g.asked PROVE Promised(27, d, g)
  BY <1>2
<1>3. /\ p.asked /\ ~Whole(p) /\ g.mode = p.mode /\ g.ticks = 0
      /\ g.bytes = Append(p.bytes, b)
  BY <1>2, Zenon DEF Appended
<1>4. c.rl = 3 /\ Wave(c.mode) = p.mode /\ c.mode \notin {1, 5} /\ Loading(c, p)
  BY <1>3, Zenon DEF Promised
<1>5. /\ ~c.loaded /\ ~c.starting /\ ~c.wren /\ Rests(c, p.mode)
      /\ p.bytes = <<>> => ~c.loading /\ ~c.loading_msb
      /\ p.bytes # <<>> => c.loading /\ c.loading_msb /\ Lo(c.load) = p.bytes[1]
  BY <1>4, Zenon DEF Loading
<1>6. /\ d.rl = c.rl /\ d.mode = c.mode /\ ~d.loaded
      /\ d.outreg = Driven(c, c.outreg) /\ d.counter = CounterEdge(c)
      /\ ~c.loading_msb => /\ ~d.starting /\ ~d.wren
                           /\ d.loading /\ d.loading_msb /\ d.load = b + UINT8 * Hi(c.load)
      /\ c.loading_msb => /\ d.starting /\ d.wren
                          /\ ~d.loading /\ ~d.loading_msb /\ d.load = Lo(c.load) + UINT8 * b
  BY <1>1, <1>4, <1>5, EdgeLoads
<1>7. Rests(d, g.mode)
  BY <1>3, <1>4, <1>5, <1>6, RestsOn, Zenon
<1>8. p.bytes \in Seq(Octet) /\ Len(p.bytes) \in 0..1
  BY <1>3 DEF PlanTyped, Whole
<1>9. CASE p.bytes = <<>>
  <2>1. g.bytes # <<>> /\ g.bytes[1] = b /\ Len(g.bytes) = 1
    BY <1>3, <1>9
  <2>2. Lo(d.load) = b
    <3>1. Hi(c.load) \in Octet
      BY BytesOfCount DEF UnitTyped
    <3>2. Lo(b + UINT8 * Hi(c.load)) = b
      BY <1>1, <3>1, CountOfBytes
    <3> QED
      BY <1>5, <1>6, <1>9, <3>2, Zenon
  <2>3. Loading(d, g)
    BY <1>5, <1>6, <1>7, <1>9, <2>1, <2>2, Zenon DEF Loading
  <2>4. ~Whole(g)
    BY <2>1 DEF Whole
  <2> QED
    BY <1>3, <1>4, <1>6, <2>3, <2>4, Zenon DEF Promised
<1>10. CASE p.bytes # <<>>
  <2>1. Len(p.bytes) = 1
    BY <1>8, <1>10
  <2>2. g.bytes[1] = p.bytes[1] /\ g.bytes[2] = b /\ Len(g.bytes) = 2
    BY <1>3, <1>8, <2>1
  <2>3. d.load = g.bytes[1] + UINT8 * g.bytes[2]
    BY <1>5, <1>6, <1>10, <2>2, Zenon
  <2>4. /\ g.mode = 0 => d.outreg = 0
        /\ g.mode = 3 => d.outreg = 1
    BY <1>7, Zenon DEF Rests
  <2>5. ~(g.ticks > 0)
    BY <1>3
  <2>6. d.starting /\ d.wren /\ ~d.loading /\ ~d.loading_msb /\ ~d.loaded
    BY <1>5, <1>6, <1>10, Zenon
  <2>7. Loaded(27, d, g)
    BY <2>3, <2>4, <2>5, <2>6, Zenon DEF Loaded
  <2>8. Whole(g)
    BY <2>2 DEF Whole
  <2> QED
    BY <1>3, <1>4, <1>6, <2>7, <2>8, Zenon DEF Promised
<1> QED
  BY <1>9, <1>10

(* Any other clock: a tick, or none.                                       *)
LEMMA TicksCount ==
  ASSUME NEW p, PlanTyped(p), Whole(p)
  PROVE  Ticked(p) \in Nat /\ Ticked(p) > 0 /\ (p.ticks = 0 => Ticked(p) = 1)
<1>1. PICK n : n = Asked(p)
  OBVIOUS
<1>2. n \in 1..Counts /\ Counts \in Nat
  BY <1>1, AskedCounts, CountsNumber
<1>3. Last(p) \in Nat /\ Last(p) > 0
  BY <1>1, <1>2 DEF Last
<1>4. Again(p) \in Nat /\ Again(p) > 0
  BY <1>3 DEF Again
<1>5. p.ticks \in Nat
  BY DEF PlanTyped
<1> QED
  BY <1>3, <1>4, <1>5 DEF Ticked

Waited(g, p) ==
  /\ g.asked = p.asked /\ g.mode = p.mode /\ g.bytes = p.bytes
  /\ g.ticks = IF vi53_timer_ce /\ p.asked /\ Whole(p) THEN Ticked(p) ELSE p.ticks

LEMMA IdlesPlan ==
  ASSUME NEW u, ~Programs(u), ~(wren(u) /\ cpu_ce), vi53_timer_ce => ~wren(u),
         NEW p, p = plan[u], PlanTyped(p), NEW g, g = PlanEdge(u)
  PROVE  PlanTyped(g) /\ Waited(g, p)
<1>1. CASE vi53_timer_ce /\ p.asked /\ Whole(p)
  <2>1. PICK k : k = Ticked(p)
    OBVIOUS
  <2>2. g = [p EXCEPT !.ticks = k]
    BY <1>1, <2>1, Zenon DEF PlanEdge
  <2>3. p = [mode |-> p.mode, bytes |-> p.bytes, ticks |-> p.ticks, asked |-> p.asked]
    BY Zenon DEF PlanTyped
  <2>4. g = [mode |-> p.mode, bytes |-> p.bytes, ticks |-> k, asked |-> p.asked]
    BY <2>2, <2>3
  <2>5. g.mode = p.mode /\ g.bytes = p.bytes /\ g.ticks = k /\ g.asked = p.asked
    BY <2>4
  <2>6. k \in Nat
    BY <1>1, <2>1, TicksCount
  <2>7. g = [mode |-> g.mode, bytes |-> g.bytes, ticks |-> g.ticks, asked |-> g.asked]
    BY <2>4, <2>5, Zenon
  <2>8. Whole(g) <=> Whole(p)
    BY <2>5, Zenon DEF Whole
  <2>9. PlanTyped(g)
    BY <1>1, <2>5, <2>6, <2>7, <2>8, Zenon DEF PlanTyped
  <2> QED
    BY <1>1, <2>1, <2>5, <2>9, Zenon DEF Waited
<1>2. CASE ~(vi53_timer_ce /\ p.asked /\ Whole(p))
  <2>1. g = p
    BY <1>2, Zenon DEF PlanEdge
  <2> QED
    BY <1>2, <2>1, Zenon DEF Waited
<1> QED
  BY <1>1, <1>2

LEMMA IdlesKept ==
  ASSUME NEW u, ~Programs(u), ~(wren(u) /\ cpu_ce), vi53_timer_ce => ~wren(u),
         NEW w \in 0..31, vi53_timer_ce <=> w \in {10, 26},
         NEW c, UnitTyped(c), c.starting => Between_ticks(w),
         NEW p, p = plan[u], PlanTyped(p), p.asked => Promised(w, c, p),
         NEW d, d = UnitEdge(u, c), NEW g, g = PlanEdge(u)
  PROVE  PlanTyped(g) /\ (g.asked => Promised((w + 1) % 32, d, g))
<1>1. /\ PlanTyped(g) /\ g.asked = p.asked /\ g.mode = p.mode /\ g.bytes = p.bytes
      /\ g.ticks = IF vi53_timer_ce /\ p.asked /\ Whole(p) THEN Ticked(p) ELSE p.ticks
  <2>1. PlanTyped(g) /\ Waited(g, p)
    BY IdlesPlan, Zenon
  <2> QED
    BY <2>1, Zenon DEF Waited
<1> SUFFICES ASSUME g.asked PROVE Promised((w + 1) % 32, d, g)
  BY <1>1
<1>2. p.asked /\ Promised(w, c, p)
  BY <1>1, Zenon
<1>3. c.rl = 3 /\ Wave(c.mode) = p.mode /\ c.mode \notin {1, 5}
  BY <1>2, Zenon DEF Promised
<1>4. Idled(c, d)
  BY EdgeIdles, Zenon
<1>5. /\ d.rl = c.rl /\ d.mode = c.mode /\ d.load = c.load
      /\ d.loading = c.loading /\ d.loading_msb = c.loading_msb
      /\ d.counter = CounterEdge(c)
      /\ d.outreg = IF vi53_timer_ce THEN Driven(c, c.outreg) ELSE c.outreg
  BY <1>4, Zenon DEF Idled
<1>6. (Whole(g) <=> Whole(p)) /\ Asked(g) = Asked(p)
  BY <1>1, Zenon DEF Whole, Asked
<1>7. CASE ~Whole(p)
  <2>1. Loading(c, p)
    BY <1>2, <1>7, Zenon DEF Promised
  <2>2. ~c.loaded /\ ~c.starting /\ ~c.wren /\ Rests(c, p.mode)
    BY <2>1, Zenon DEF Loading
  <2>3. ~d.loaded /\ ~d.starting /\ ~d.wren
    BY <1>4, <2>2, Zenon DEF Idled
  <2>4. d.outreg = c.outreg \/ d.outreg = Driven(c, c.outreg)
    BY <1>5, Zenon
  <2>5. Rests(d, g.mode)
    BY <1>1, <1>3, <1>5, <2>2, <2>4, RestsOn, Zenon
  <2>6. Loading(d, g)
    BY <1>1, <1>5, <2>1, <2>3, <2>5, Zenon DEF Loading
  <2> QED
    BY <1>1, <1>3, <1>5, <1>6, <1>7, <2>6, Zenon DEF Promised
<1>8. CASE Whole(p)
  <2>1. Loaded(w, c, p)
    BY <1>2, <1>8, Zenon DEF Promised
  <2>2. /\ ~c.loading /\ ~c.loading_msb
        /\ c.load = p.bytes[1] + UINT8 * p.bytes[2]
    BY <2>1, Zenon DEF Loaded
  <2> SUFFICES Loaded((w + 1) % 32, d, g)
    BY <1>1, <1>3, <1>5, <1>6, <1>8, Zenon DEF Promised
  <2>3. ~d.loading /\ ~d.loading_msb /\ d.load = g.bytes[1] + UINT8 * g.bytes[2]
    BY <1>1, <1>5, <2>2, Zenon
  <2>4. CASE p.ticks = 0
    <3>1. /\ c.starting /\ c.wren /\ ~c.loaded
          /\ w # 27 => c.counter = c.load
          /\ p.mode = 0 => c.outreg = 0
          /\ p.mode = 3 => c.outreg = 1
      BY <2>1, <2>4, Zenon DEF Loaded
    <3>2. counter_wren(c) /\ d.counter = c.load
      BY <1>3, <1>5, <3>1, Zenon DEF counter_wren, CounterEdge
    <3>3. CASE vi53_timer_ce
      <4>1. w # 27
        BY <3>3
      <4>2. g.ticks = 1 /\ g.ticks > 0 /\ g.ticks # 0
        BY <1>1, <1>2, <1>8, <2>4, <3>3, TicksCount
      <4>3. ~d.starting /\ ~d.wren /\ d.loaded
        BY <1>4, <3>1, <3>2, <3>3, Zenon DEF Idled
      <4>4. ASSUME ~Hasty(g.mode, Asked(g))
            PROVE  InWave(d.outreg, d.counter, g.mode, Asked(g), g.ticks)
        <5>1. d.outreg = Driven(c, c.outreg)
          BY <1>5, <3>3, Zenon
        <5>2. ~Hasty(p.mode, Asked(p))
          BY <1>1, <1>6, <4>4, Zenon
        <5>3. InWave(d.outreg, c.load, p.mode, Asked(p), 1)
          BY <1>2, <1>3, <1>8, <2>2, <2>4, <3>1, <4>1, <5>1, <5>2, WaveBegins, Zenon
        <5> QED
          BY <1>1, <1>6, <3>2, <4>2, <5>3, Zenon
      <4> QED
        BY <2>3, <4>2, <4>3, <4>4, Zenon DEF Loaded
    <3>4. CASE ~vi53_timer_ce
      <4>1. g.ticks = 0 /\ ~(g.ticks > 0)
        BY <1>1, <2>4, <3>4
      <4>2. d.starting /\ d.wren /\ ~d.loaded /\ d.outreg = c.outreg
        BY <1>4, <3>1, <3>4, Zenon DEF Idled
      <4>3. d.counter = d.load
        BY <1>5, <3>2, Zenon
      <4> QED
        BY <1>1, <2>3, <3>1, <4>1, <4>2, <4>3, Zenon DEF Loaded
    <3> QED
      BY <3>3, <3>4
  <2>5. CASE p.ticks # 0
    <3>1. p.ticks > 0
      BY <2>5 DEF PlanTyped
    <3>2. /\ ~c.starting /\ ~c.wren /\ c.loaded
          /\ ~Hasty(p.mode, Asked(p)) =>
               InWave(c.outreg, c.counter, p.mode, Asked(p), p.ticks)
      BY <2>1, <3>1, Zenon DEF Loaded
    <3>3. ~d.starting /\ ~d.wren /\ d.loaded
      BY <1>4, <3>2, Zenon DEF Idled
    <3>4. ~counter_wren(c) /\ ~stopper(c)
      BY <2>2, <3>2, Zenon DEF counter_wren, stopper
    <3>5. CASE vi53_timer_ce
      <4>1. g.ticks = Ticked(p) /\ g.ticks > 0 /\ g.ticks # 0
        BY <1>1, <1>2, <1>8, <3>5, TicksCount
      <4>2. d.counter = IF autoreload(c) /\ next(c) = 0 THEN c.load ELSE next(c)
        <5>1. counts(c)
          BY <3>2, <3>4, <3>5, Zenon DEF counts
        <5> QED
          BY <1>5, <3>4, <5>1, Zenon DEF CounterEdge
      <4>3. d.outreg = Driven(c, c.outreg)
        BY <1>5, <3>5, Zenon
      <4>4. ASSUME ~Hasty(g.mode, Asked(g))
            PROVE  InWave(d.outreg, d.counter, g.mode, Asked(g), g.ticks)
        <5>1. ~Hasty(p.mode, Asked(p))
          BY <1>1, <1>6, <4>4, Zenon
        <5>2. InWave(d.outreg, d.counter, p.mode, Asked(p), Ticked(p))
          BY <1>2, <1>3, <1>8, <2>2, <3>1, <3>2, <4>2, <4>3, <5>1, WaveAdvances, Zenon
        <5> QED
          BY <1>1, <1>6, <4>1, <5>2, Zenon
      <4> QED
        BY <2>3, <3>3, <4>1, <4>4, Zenon DEF Loaded
    <3>6. CASE ~vi53_timer_ce
      <4>1. g.ticks = p.ticks /\ d.outreg = c.outreg
        BY <1>1, <1>5, <3>6, Zenon
      <4>2. d.counter = c.counter
        BY <1>5, <3>4, <3>6, Zenon DEF CounterEdge, counts
      <4> QED
        BY <1>1, <1>6, <2>3, <2>5, <3>2, <3>3, <4>1, <4>2, Zenon DEF Loaded
    <3> QED
      BY <3>5, <3>6
  <2> QED
    BY <2>4, <2>5
<1> QED
  BY <1>7, <1>8

(* One edge out of reset.                                                  *)
LEMMA UnitKeepsPlan ==
  ASSUME InStep, AddressInStep, ProgramInStep, BusEdge, CpuHolds \/ CpuSteps \/ CpuFetches,
         NEW u \in Units, PlanKept(u),
         unit'[u] = UnitEdge(u, unit[u]), plan'[u] = PlanEdge(u)
  PROVE  PlanKept(u)'
<1>1. PICK c, p, d, g, w :
        c = unit[u] /\ p = plan[u] /\ d = unit'[u] /\ g = plan'[u] /\ w = clock.ws
  OBVIOUS
<1>2. /\ w \in 0..31
      /\ vi53_timer_ce <=> w \in {10, 26}
      /\ Programs(u) \/ wren(u) => w \in 19..26 /\ (cpu_ce <=> w = 26)
      /\ Programs(u) => ~wren(u)
  BY <1>1, WriteTimes, Zenon
<1>3. /\ Programs(u) => Word.rl \in 0..3 /\ Word.mode \in 0..7
      /\ wren(u) => cpu.op.data \in Octet
  BY WriteData, Zenon
<1>4. /\ clock.ws' = (w + 1) % 32
      /\ Writing(u)' <=> Programs(u) /\ ~cpu_ce
      /\ ~cpu_ce => Word' = Word
  BY <1>1, WritingNext, Zenon
<1>5. /\ UnitTyped(c) /\ PlanTyped(p)
      /\ c.starting => Between_ticks(w)
      /\ Programs(u) /\ w # 19 => SetBack(w, Word, c)
      /\ p.asked /\ ~(Programs(u) /\ w # 19) => Promised(w, c, p)
  BY <1>1, Zenon DEF PlanKept, Writing
<1>6. d = UnitEdge(u, c) /\ g = PlanEdge(u)
  BY <1>1, Zenon
<1>7. UnitTyped(d)
  BY <1>3, <1>5, <1>6, EdgeTyped, Zenon
<1>8. d.starting => Between_ticks((w + 1) % 32)
  BY <1>2, <1>3, <1>5, <1>6, EdgeStarts, Zenon
<1>9. /\ PlanTyped(g)
      /\ Programs(u) /\ ~cpu_ce => g.bytes = <<>> /\ SetBack((w + 1) % 32, Word, d)
      /\ g.asked /\ ~(Programs(u) /\ ~cpu_ce) => Promised((w + 1) % 32, d, g)
  <2>1. CASE Programs(u)
    <3>1. w \in 19..26 /\ (cpu_ce <=> w = 26) /\ ~wren(u)
      BY <1>2, <2>1, Zenon
    <3>2. vi53_timer_ce <=> w = 26
      BY <1>2, <3>1
    <3>3. (w + 1) % 32 = w + 1 /\ (w = 26 => w + 1 = 27)
      BY <3>1
    <3>4. w # 19 => SetBack(w, Word, c)
      BY <1>5, <2>1, Zenon
    <3>5. g.bytes = <<>>
      BY <1>3, <1>6, <2>1, <3>1, ProgramsPlan, Zenon
    <3>6. /\ PlanTyped(g)
          /\ w # 26 => SetBack(w + 1, Word, d)
          /\ w = 26 /\ g.asked => Promised(27, d, g)
      BY <1>1, <1>3, <1>5, <1>6, <2>1, <3>1, <3>2, <3>4, ProgramsKept, Zenon
    <3> QED
      BY <2>1, <3>1, <3>3, <3>5, <3>6, Zenon
  <2>2. CASE ~Programs(u) /\ wren(u) /\ cpu_ce
    <3>1. w = 26 /\ (26 + 1) % 32 = 27 /\ 26 \in {10, 26}
      BY <1>2, <2>2
    <3>2. c.starting => Between_ticks(26)
      BY <1>5, <3>1, Zenon
    <3>3. p.asked => Promised(26, c, p)
      BY <1>5, <2>2, <3>1, Zenon
    <3>4. vi53_timer_ce
      BY <1>2, <3>1, Zenon
    <3>5. PlanTyped(g) /\ (g.asked => Promised(27, d, g))
      BY <1>1, <1>3, <1>5, <1>6, <2>2, <3>2, <3>3, <3>4, LoadsKept, Zenon
    <3> QED
      BY <2>2, <3>1, <3>5, Zenon
  <2>3. CASE ~Programs(u) /\ ~(wren(u) /\ cpu_ce)
    <3>1. vi53_timer_ce => ~wren(u)
      BY <1>2, <2>3
    <3>2. p.asked => Promised(w, c, p)
      BY <1>5, <2>3, Zenon
    <3>3. PlanTyped(g) /\ (g.asked => Promised((w + 1) % 32, d, g))
      BY <1>1, <1>2, <1>5, <1>6, <2>3, <3>1, <3>2, IdlesKept, Zenon
    <3> QED
      BY <2>3, <3>3, Zenon
  <2> QED
    BY <2>1, <2>2, <2>3
<1>10. /\ UnitTyped(d) /\ PlanTyped(g)
       /\ d.starting => Between_ticks(clock.ws')
       /\ Writing(u)' => g.bytes = <<>> /\ SetBack(clock.ws', Word', d)
       /\ g.asked /\ ~(Writing(u)') => Promised(clock.ws', d, g)
  BY <1>4, <1>7, <1>8, <1>9, Zenon
<1> QED
  BY <1>1, <1>10, Zenon DEF PlanKept

LEMMA InitPlansKept == TimerInit => PlansKept
<1> SUFFICES ASSUME TimerInit, NEW u \in Units PROVE PlanKept(u)
  BY DEF PlansKept
<1>1. unit[u] = Power /\ plan[u] = NoPlan
  BY DEF TimerInit
<1>2. UnitTyped(Power)
  BY CountsNumber DEF UnitTyped, Power, Registers, Values
<1>3. PlanTyped(NoPlan) /\ ~NoPlan.asked
  BY DEF PlanTyped, NoPlan, Whole
<1>4. ~Power.starting
  BY DEF Power
<1>5. ~Writing(u)
  <2>1. cpu.WR_n
    BY DEF TimerInit, BusInit
  <2> QED
    BY <2>1, Zenon DEF Writing, Programs, cwset, vi53_wren
<1> QED
  BY <1>1, <1>2, <1>3, <1>4, <1>5, Zenon DEF PlanKept

LEMMA ResetKeepsPlan ==
  ASSUME InStep, AddressInStep, ProgramInStep, BusEdge, CpuReset,
         NEW u \in Units, PlanKept(u),
         unit'[u] = UnitEdge(u, unit[u]), plan'[u] = NoPlan
  PROVE  PlanKept(u)'
<1>1. PICK c, d, w : c = unit[u] /\ d = unit'[u] /\ w = clock.ws
  OBVIOUS
<1>2. /\ w \in 0..31
      /\ vi53_timer_ce <=> w \in {10, 26}
      /\ Programs(u) \/ wren(u) => w \in 19..26 /\ (cpu_ce <=> w = 26)
  BY <1>1, WriteTimes, Zenon
<1>3. /\ Programs(u) => Word.rl \in 0..3 /\ Word.mode \in 0..7
      /\ wren(u) => cpu.op.data \in Octet
  BY WriteData, Zenon
<1>4. cpu'.WR_n /\ clock.ws' = (w + 1) % 32
  <2>1. cpu'.WR_n = TRUE /\ cpu'.t = 0
    BY DEF CpuReset
  <2> QED
    BY <1>1, <2>1, ClockKeepsStep, Zenon DEF InStep
<1>5. UnitTyped(c) /\ (c.starting => Between_ticks(w)) /\ d = UnitEdge(u, c)
  BY <1>1, Zenon DEF PlanKept
<1>6. UnitTyped(d)
  BY <1>3, <1>5, EdgeTyped, Zenon
<1>7. d.starting => Between_ticks((w + 1) % 32)
  BY <1>2, <1>3, <1>5, EdgeStarts, Zenon
<1>8. PlanTyped(NoPlan) /\ ~NoPlan.asked
  BY DEF PlanTyped, NoPlan, Whole
<1>9. ~(Writing(u)')
  BY <1>4, Zenon DEF Writing, Programs, cwset, vi53_wren
<1> QED
  BY <1>1, <1>4, <1>6, <1>7, <1>8, <1>9, Zenon DEF PlanKept

LEMMA NextPlansKept ==
  ASSUME InStep, LatchesKept, ProgramInStep, PlansKept, [TimerNext]_timerVars
  PROVE  PlansKept'
<1>1. AddressInStep
  BY DEF LatchesKept
<1>2. CASE Between \/ OnCpuClock
  <2>1. /\ BusEdge /\ (CpuHolds \/ CpuSteps \/ CpuFetches)
        /\ UnitsEdge /\ Expect
    BY <1>2, Zenon DEF Between, OnCpuClock
  <2>2. ASSUME NEW u \in Units PROVE PlanKept(u)'
    <3>1. unit'[u] = UnitEdge(u, unit[u]) /\ plan'[u] = PlanEdge(u)
      BY <2>1, <2>2 DEF UnitsEdge, Expect
    <3> QED
      BY <1>1, <2>1, <2>2, <3>1, UnitKeepsPlan, Zenon DEF PlansKept
  <2> QED
    BY <2>2, Zenon DEF PlansKept, Units
<1>3. CASE InReset
  <2>1. ASSUME NEW u \in Units PROVE PlanKept(u)'
    <3>1. unit'[u] = UnitEdge(u, unit[u]) /\ plan'[u] = NoPlan
      BY <1>3, <2>1 DEF InReset, UnitsEdge, ExpectNothing
    <3> QED
      BY <1>1, <1>3, <2>1, <3>1, ResetKeepsPlan, Zenon DEF PlansKept, InReset
  <2> QED
    BY <2>1, Zenon DEF PlansKept, Units
<1>4. CASE UNCHANGED timerVars
  <2>1. cpu' = cpu /\ bus' = bus /\ clock' = clock /\ unit' = unit /\ plan' = plan
    BY <1>4 DEF timerVars, busVars
  <2>2. ASSUME NEW u \in Units PROVE PlanKept(u)'
    <3>1. PlanKept(u)
      BY <2>2 DEF PlansKept
    <3>2. (Writing(u)' <=> Writing(u)) /\ Word' = Word
      BY <2>1, Zenon DEF Writing, Programs, cwset, vi53_wren, vi53_sel, Word
    <3> QED
      BY <2>1, <3>1, <3>2, Zenon DEF PlanKept
  <2> QED
    BY <2>2, Zenon DEF PlansKept, Units
<1> QED
  BY <1>2, <1>3, <1>4, Zenon DEF TimerNext

(* A unit's output is on time: while no control word is being written the  *)
(* wave is where the ticks say, and the first clock of a control word      *)
(* takes the plan away or makes a new one.                                 *)
LEMMA PlansKeptSuffices == PlansKept => OutOnTime
<1> SUFFICES ASSUME PlansKept, NEW u \in Units,
                    plan[u].asked, Whole(plan[u]), plan[u].ticks > 0,
                    ~Hasty(plan[u].mode, Asked(plan[u]))
             PROVE  unit[u].outreg = Level(plan[u].mode, Asked(plan[u]), plan[u].ticks)
  BY DEF OutOnTime
<1>1. PICK c, p : c = unit[u] /\ p = plan[u]
  OBVIOUS
<1>2. ~Writing(u)
  <2>1. Writing(u) => plan[u].bytes = <<>>
    BY Zenon DEF PlansKept, PlanKept
  <2>2. plan[u].bytes = <<>> => ~Whole(plan[u])
    BY DEF Whole
  <2> QED
    BY <2>1, <2>2
<1>3. Promised(clock.ws, c, p)
  BY <1>1, <1>2, Zenon DEF PlansKept, PlanKept
<1>4. Loaded(clock.ws, c, p)
  BY <1>1, <1>3, Zenon DEF Promised
<1>5. InWave(c.outreg, c.counter, p.mode, Asked(p), p.ticks)
  BY <1>1, <1>4, Zenon DEF Loaded
<1> QED
  BY <1>1, <1>5, Zenon DEF InWave

(* A count that was asked for comes out as a wave on time: whatever the    *)
(* width of a byte (an even one), whatever the programs write to this and  *)
(* to the other units, and however often the computer is reset.            *)
THEOREM OutputsAreOnTime == TimerSpec => []OutOnTime
<1>1. ProgramInStep /\ InStep /\ [TimerNext]_timerVars => ProgramInStep'
  BY ProgramNext
<1>2. PlansKept /\ ProgramInStep /\ InStep /\ LatchesKept /\ [TimerNext]_timerVars => PlansKept'
  BY NextPlansKept
<1> QED
  BY <1>1, <1>2, InitInStep, NextInStep, InitLatchesKept, NextLatchesKept, ProgramInit,
     InitPlansKept, PlansKeptSuffices, PTL
  DEF TimerSpec
=============================================================================
