-------------------------------- MODULE Card --------------------------------
(***************************************************************************)
(* The SD/MMC driver, src/firmware/floppysrc/mmc.c, over the SPI port, and *)
(* the card at the other end.  The driver is one thread that sends         *)
(* command frames and polls for what comes back, byte by byte, against two *)
(* counters the hardware counts down; the card answers in its own time,    *)
(* goes on sending or programming what it was told to, may stop answering, *)
(* and may be pulled or exchanged between any two bytes.                   *)
(*                                                                         *)
(* A byte on the line is <<value, origin>>: the origin, the command the    *)
(* byte answers or "data", is what the driver cannot see.                  *)
(***************************************************************************)
EXTENDS Integers, Sequences, SequencesExt, FiniteSetsExt

CONSTANTS
  Cards, Kind,       \* per card: "MMC", "SD1", "SD2" or "SDHC"
  Contents,          \* per card: its blocks, sequences of BLOCK bytes
  BLOCK,             \* 512
  Sectors, Counts, Payloads,
  TOKEN_TICKS,       \* 10, rcvr_datablock
  READY_TICKS,       \* 50, wait_ready
  INIT_TICKS,        \* 100, disk_initialize
  TRIES,             \* 10, send_cmd
  CRC,               \* what the checksum bytes look like
  FRAME,             \* 6, a command
  MaxCalls, MaxMishaps

ASSUME CardAssumption ==
  /\ BLOCK \in Nat \ {0} /\ {TOKEN_TICKS, READY_TICKS, INIT_TICKS, TRIES, FRAME} \subseteq Nat \ {0}
  /\ \A c \in Cards : Kind[c] \in {"MMC", "SD1", "SD2", "SDHC"}

Byte == 0..255
Block == [1..BLOCK -> Byte]

\* The blocks of a card are numbered, and what is asked for is at least a block.
ASSUME DataAssumption ==
  /\ "none" \notin Cards /\ CRC \in Byte
  /\ Contents = [c \in Cards |-> Contents[c]]
  /\ \A c \in Cards : DOMAIN Contents[c] \subseteq Nat /\ Contents[c] \in [DOMAIN Contents[c] -> Block]
  /\ Sectors \subseteq Nat /\ Counts \subseteq Nat \ {0}
  /\ \A d \in Payloads : d \in Seq(Block) /\ \A n \in Counts : n <= Len(d)

VARIABLES
  slot, mem,
  card,              \* the controller inside the card, CardOff when powered up
  Stat,              \* STA_NOINIT
  CardType, Timer1, Timer2,
  call, pc,
  sub,               \* send_cmd's arguments, and where it returns to
  ty,
  dma, buff,         \* the block coming in, the blocks that have come in
  done,              \* blocks moved
  result,
  taken,             \* history: the origin of the response send_cmd took last
  calls, mishaps

driverVars == <<Stat, CardType, Timer1, call, pc, sub, ty, dma, buff, done, result,
                taken, calls>>
cardVars   == <<slot, mem, card, Stat, CardType, Timer1, Timer2, call, pc, sub, ty, dma,
                buff, done, result, taken, calls, mishaps>>

NoCall == [op |-> "none"]
NoSub  == [cmd |-> "none", arg |-> 0, app |-> FALSE, then |-> "idle", n |-> TRIES, res |-> 255]
Nowhere == -1

\* rx: the block the next data frame goes to; from: the block sent next; more:
\* another follows each.  prog is the block being programmed, and what it was.
CardOff == [mode |-> "off", app |-> FALSE, out |-> <<>>, from |-> Nowhere, rx |-> Nowhere,
            more |-> FALSE, busy |-> FALSE, prog |-> <<>>, dead |-> "no"]

FF == <<255, "none">>

CardInit ==
  /\ slot \in Cards \cup {"none"} /\ mem = Contents /\ card = CardOff
  /\ Stat = TRUE /\ CardType = 0 /\ Timer1 = 0 /\ Timer2 = 0
  /\ call = NoCall /\ pc = "idle" /\ sub = NoSub /\ ty = 0 /\ dma = <<>> /\ buff = <<>> /\ done = 0
  /\ result = "OK" /\ taken = "none" /\ calls = 0 /\ mishaps = 0

-----------------------------------------------------------------------------
(* The line: one byte, as the driver reads it, and the card after it.      *)

Present == slot # "none"
Shifts == Present /\ card.dead = "no" /\ card.out # <<>>
\* rcvr_spi: an open line reads as $FF, a busy card holds it down.
rcvr_spi == IF Shifts THEN Head(card.out)
            ELSE IF Present /\ card.dead = "stuck" THEN <<0, "stuck">>
            ELSE IF Present /\ card.dead = "no" /\ card.busy THEN <<0, "busy">> ELSE FF
Shifted(n) == IF Shifts THEN [card EXCEPT !.out = SubSeq(@, n + 1, Len(@))] ELSE card

Tell(c, cmd, v, rest) == [c EXCEPT !.out = <<<<v, cmd>>>> \o [i \in DOMAIN rest |-> <<rest[i], cmd>>],
                                   !.app = (cmd = "CMD55")]
IsSending(c) == c.from # Nowhere \/ \E i \in DOMAIN c.out : c.out[i][2] = "data"
SD == Kind[slot] # "MMC"
CCS == Kind[slot] = "SDHC"
\* The block an argument stands for, on this card.
Addressed(arg) == IF CCS THEN arg ELSE IF arg % BLOCK = 0 THEN arg \div BLOCK ELSE Nowhere

\* What a card may make of a command.  While it is sending a block it hears
\* nothing but CMD0 and CMD12.
Reactions(c, cmd, arg) ==
  LET R1 == IF c.mode = "idle" THEN 1 ELSE 0
      Says(v) == {Tell(c, cmd, v, <<>>)}
      Illegal == Says(R1 + 4)
      Starting == Says(R1) \cup {Tell([c EXCEPT !.mode = "ready"], cmd, 0, <<>>)}
      at == Addressed(arg)
      ok == [Tell(c, cmd, 0, <<>>) EXCEPT !.more = cmd \in {"CMD18", "CMD25"}]
  IN IF ~Present \/ c.dead # "no" \/ (c.mode = "off" /\ cmd # "CMD0")
        \/ (IsSending(c) /\ cmd \notin {"CMD0", "CMD12"}) THEN {c}
     ELSE CASE cmd = "CMD0"  -> {Tell([CardOff EXCEPT !.mode = "idle"], cmd, 1, <<>>)}
            [] cmd = "CMD8"  -> IF Kind[slot] \in {"SD2", "SDHC"}
                                THEN {Tell(c, cmd, R1, <<0, 0, 1, 170>>)} ELSE Illegal
            [] cmd = "CMD55" -> IF SD THEN Says(R1) ELSE Illegal
            [] cmd = "CMD41" -> IF ~SD \/ ~c.app THEN Illegal
                                ELSE IF CCS /\ arg = 0 THEN Says(R1) ELSE Starting
            [] cmd = "CMD1"  -> IF SD THEN Illegal ELSE Starting
            [] cmd = "CMD58" -> {Tell(c, cmd, R1, <<IF CCS THEN 192 ELSE 128, 255, 128, 0>>)}
            [] cmd = "CMD12" -> {[Tell(c, cmd, R1, <<>>) EXCEPT
                                    !.out = <<<<127, "data">>>> \o @, !.from = Nowhere]}
            [] cmd \in {"CMD16", "CMD23"} -> Says(R1)
            [] OTHER -> IF c.mode # "ready" THEN Illegal
                        ELSE IF at \notin DOMAIN mem[slot] THEN Says(64)
                        ELSE IF cmd \in {"CMD17", "CMD18"} THEN {[ok EXCEPT !.from = at]}
                        ELSE {[ok EXCEPT !.rx = at]}

\* The next block of a read becomes available, or the end of the card is met.
Deliver ==
  /\ Present /\ card.dead = "no" /\ card.from # Nowhere
  /\ \A i \in DOMAIN card.out : card.out[i][2] # "data"
  /\ LET there == card.from \in DOMAIN mem[slot]
         bytes == IF there THEN <<254>> \o mem[slot][card.from] \o <<CRC, CRC>> ELSE <<8>>
     IN card' = [card EXCEPT !.out = @ \o [i \in DOMAIN bytes |-> <<bytes[i], "data">>],
                             !.from = IF there /\ card.more THEN @ + 1 ELSE Nowhere]
  /\ UNCHANGED <<slot, mem, driverVars, Timer2, mishaps>>

\* The card is done programming.
Programmed ==
  /\ Present /\ card.busy /\ card.dead = "no"
  /\ card' = [card EXCEPT !.busy = FALSE, !.prog = <<>>]
  /\ UNCHANGED <<slot, mem, driverVars, Timer2, mishaps>>

\* It stops answering, or holds the line down, until it is pulled.
Die ==
  /\ Present /\ card.dead = "no" /\ mishaps < MaxMishaps /\ call # NoCall
  /\ \E how \in {"mute", "stuck"} : card' = [card EXCEPT !.dead = how]
  /\ call' = [call EXCEPT !.well = FALSE] /\ mishaps' = mishaps + 1
  /\ UNCHANGED <<slot, mem, Stat, CardType, Timer1, Timer2, pc, sub, ty, dma, buff, done, result,
                 taken, calls>>

\* The user pulls the card, losing a block it has not programmed yet, or puts
\* one in.
Swap ==
  /\ mishaps < MaxMishaps
  /\ slot' \in IF Present THEN {"none"} ELSE Cards
  /\ mem' \in {mem} \cup (IF card.prog = <<>> THEN {}
                          ELSE {[mem EXCEPT ![slot][card.prog[1]] = card.prog[2]]})
  /\ card' = CardOff /\ mishaps' = mishaps + 1
  /\ call' = IF call = NoCall THEN call ELSE [call EXCEPT !.well = FALSE]
  /\ UNCHANGED <<Stat, CardType, Timer1, Timer2, pc, sub, ty, dma, buff, done, result,
                 taken, calls>>

\* 10 ms pass.  A card that works is done with what it is doing before the
\* driver's patience is at an end.
Punctual == Present /\ card.dead = "no" => card.from = Nowhere /\ ~card.busy
Tick ==
  /\ Timer1 > 0 \/ Timer2 > 0
  /\ 1 \in {Timer1, Timer2} => Punctual
  /\ Timer1' = Max({Timer1 - 1, 0}) /\ Timer2' = Max({Timer2 - 1, 0})
  /\ UNCHANGED <<slot, mem, card, Stat, CardType, call, pc, sub, ty, dma, buff, done, result,
                 taken, calls, mishaps>>

-----------------------------------------------------------------------------
(* send_cmd and the loops under it.  The driver's own steps leave the socket *)
(* alone.                                                                    *)

Socket == <<slot, mishaps>>
CallVars == <<Stat, CardType, call, ty, dma, buff, done, result, calls>>

\* Call send_cmd; a command with the application bit is announced by CMD55.
SendThen(cmd, arg, app, then) ==
  /\ sub' = [cmd |-> cmd, arg |-> arg, app |-> app, then |-> then, n |-> TRIES, res |-> 255]
  /\ pc' = "select"
Command == IF sub.app THEN "CMD55" ELSE sub.cmd

\* wait_ready up to its loop.
StartWaiting(at) ==
  /\ pc' = at /\ Timer2' = READY_TICKS /\ card' = Shifted(1)
Select ==
  /\ pc = "select" /\ StartWaiting("ready")
  /\ UNCHANGED <<mem, Timer1, sub, taken, CallVars, Socket>>

\* wait_ready's loop goes round.
Waiting_forever == pc \in {"ready", "off", "xready", "stop"} /\ rcvr_spi[1] # 255
Waiting == pc \in {"ready", "off", "xready", "stop"} /\ rcvr_spi[1] # 255 /\ Timer2 > 0
WaitReady ==
  /\ Waiting
  /\ card' = Shifted(1)
  /\ UNCHANGED <<mem, Timer1, Timer2, pc, sub, taken, CallVars, Socket>>
IsReady == rcvr_spi[1] = 255
TimedOut == rcvr_spi[1] # 255 /\ Timer2 = 0

\* send_cmd has a response, or none: go on with the command after CMD55, or
\* return.
Respond(res) ==
  IF sub.app /\ res <= 1
  THEN sub' = [sub EXCEPT !.app = FALSE, !.n = TRIES] /\ pc' = "select"
  ELSE sub' = [NoSub EXCEPT !.res = res] /\ pc' = sub.then

Skip(c, cmd) == IF cmd = "CMD12" /\ Present /\ c.dead = "no" /\ c.out # <<>>
                THEN [c EXCEPT !.out = Tail(@)] ELSE c
\* The frame of six bytes, while the card goes on sending what it was sending.
SendFrame ==
  /\ pc = "ready" /\ ~Waiting
  /\ IF IsReady
     THEN /\ \E c \in Reactions(Shifted(1 + FRAME), Command, sub.arg) : card' = Skip(c, Command)
          /\ pc' = "response" /\ UNCHANGED sub
     ELSE Respond(255) /\ card' = Shifted(1)
  /\ UNCHANGED <<mem, Timer1, Timer2, taken, CallVars, Socket>>

Response_oneMore ==
  /\ pc = "response"
  /\ card' = Shifted(1)
  /\ IF rcvr_spi[1] < 128
     THEN Respond(rcvr_spi[1]) /\ taken' = <<Command, rcvr_spi[2]>>
     ELSE /\ IF sub.n = 0 THEN Respond(255) ELSE sub' = [sub EXCEPT !.n = @ - 1] /\ UNCHANGED pc
          /\ UNCHANGED taken
  /\ UNCHANGED <<mem, Timer1, Timer2, CallVars, Socket>>
Response ==
  /\ pc = "response"
  /\ card' = Shifted(1)
  /\ IF rcvr_spi[1] < 128
     THEN Respond(rcvr_spi[1]) /\ taken' = <<Command, rcvr_spi[2]>>
     ELSE /\ IF sub.n = 1 THEN Respond(255) ELSE sub' = [sub EXCEPT !.n = @ - 1] /\ UNCHANGED pc
          /\ UNCHANGED taken
  /\ UNCHANGED <<mem, Timer1, Timer2, CallVars, Socket>>

\* rcvr_datablock: wait for the token, take the block, drop the checksum.
WaitToken_oldTimer(then) == pc' = then /\ UNCHANGED Timer1
WaitToken(then) == pc' = then /\ Timer1' = TOKEN_TICKS
Token ==
  /\ pc = "token"
  /\ card' = Shifted(1)
  /\ pc' = IF rcvr_spi[1] = 254 THEN "dma"
            ELSE IF rcvr_spi[1] = 255 /\ Timer1 > 0 THEN "token" ELSE "broken"
  /\ UNCHANGED <<mem, Timer1, Timer2, sub, taken, CallVars, Socket>>
Dma ==
  /\ pc = "dma" /\ Len(dma) < BLOCK
  /\ dma' = Append(dma, rcvr_spi[1]) /\ card' = Shifted(1)
  /\ UNCHANGED <<mem, Timer1, Timer2, pc, sub, taken, Stat, CardType, call, ty, buff, done, result,
                 calls, Socket>>
DiscardCRC ==
  /\ pc = "dma" /\ Len(dma) = BLOCK
  /\ card' = Shifted(2) /\ dma' = <<>> /\ buff' = Append(buff, dma) /\ done' = done + 1
  /\ IF done' < call.count THEN WaitToken("token") ELSE pc' = "broken" /\ UNCHANGED Timer1
  /\ UNCHANGED <<mem, Timer2, sub, taken, Stat, CardType, call, ty, result, calls, Socket>>

-----------------------------------------------------------------------------
(* The public functions.                                                   *)

Ask ==
  /\ call = NoCall /\ calls < MaxCalls
  /\ \E op \in {"initialize", "poll", "read", "write"}, s \in Sectors, n \in Counts, d \in Payloads :
       /\ op \in {"initialize", "poll"} => s = Min(Sectors) /\ n = Min(Counts)
       /\ call' = [op |-> op, sector |-> s, count |-> n, data |-> d, card |-> slot, well |-> TRUE]
  /\ pc' = "start" /\ calls' = calls + 1
  /\ UNCHANGED <<mem, card, Stat, CardType, Timer1, Timer2, sub, ty, dma, buff, done, result, taken,
                 Socket>>

Reply(res) ==
  /\ call' = NoCall /\ result' = res /\ pc' = "idle" /\ sub' = NoSub
  /\ ty' = 0 /\ dma' = <<>> /\ buff' = <<>> /\ done' = 0
\* The rest of the call's state, while it goes on.
Goes == UNCHANGED <<call, result, dma, buff, done>>

\* "Convert to byte address if needed"
Address == IF CardType >= 8 THEN call.sector ELSE call.sector * BLOCK

Start ==
  /\ pc = "start"
  /\ IF call.op \in {"read", "write"} /\ Stat THEN Reply("NOTRDY")
     ELSE /\ CASE call.op = "initialize" -> SendThen("CMD0", 0, FALSE, "got0")
               [] call.op = "poll" -> SendThen("CMD58", 0, FALSE, "gotpoll")
               [] call.op = "read" ->
                    SendThen(IF call.count = 1 THEN "CMD17" ELSE "CMD18", Address, FALSE, "gotread")
               [] call.op = "write" ->
                    IF call.count = 1 THEN SendThen("CMD24", Address, FALSE, "gotwrite")
                    ELSE IF CardType > 1 THEN SendThen("CMD23", call.count, TRUE, "got23")
                    ELSE SendThen("CMD25", Address, FALSE, "gotwrite")
          /\ UNCHANGED ty /\ Goes
  /\ UNCHANGED <<mem, card, Stat, CardType, Timer1, Timer2, taken, calls, Socket>>

\* The four bytes after a response.
Four == [i \in 1..4 |-> IF Shifts /\ i <= Len(card.out) THEN card.out[i][1] ELSE 255]

Polled ==
  /\ pc = "gotpoll"
  /\ card' = IF sub.res = 0 THEN Shifted(4) ELSE card
  /\ Reply(IF sub.res = 0 THEN "OK" ELSE "NOTRDY")
  /\ UNCHANGED <<mem, Stat, CardType, Timer1, Timer2, taken, calls, Socket>>

DataRead ==
  /\ \/ /\ pc = "gotread"
        /\ IF sub.res = 0 THEN WaitToken("token") /\ Goes /\ UNCHANGED <<sub, ty>>
           ELSE Reply("ERROR") /\ UNCHANGED Timer1
     \/ /\ pc = "broken"
        /\ IF call.count = 1 THEN Reply(IF done = 1 THEN "OK" ELSE "ERROR")
           ELSE SendThen("CMD12", 0, FALSE, "stopped") /\ Goes /\ UNCHANGED ty
        /\ UNCHANGED Timer1
     \/ /\ pc = "stopped" /\ Reply(IF done = call.count THEN "OK" ELSE "ERROR")
        /\ UNCHANGED Timer1
  /\ UNCHANGED <<mem, card, Stat, CardType, Timer2, taken, calls, Socket>>

\* The OCR's bit 6, and its mutant, the power-up bit.
HighCapacity_bit7 == Four[1] >= 128
HighCapacity == Four[1] >= 192

\* disk_initialize, from one send_cmd to the next.
Initialize ==
  /\ \/ /\ pc = "got0"
        /\ IF sub.res = 1
           THEN Timer1' = INIT_TICKS /\ SendThen("CMD8", 426, FALSE, "got8")
           ELSE pc' = "initend" /\ UNCHANGED <<Timer1, sub>>
        /\ UNCHANGED <<card, ty>>
     \/ /\ pc = "got8"
        /\ IF sub.res = 1
           THEN /\ pc' = IF Four[3] = 1 /\ Four[4] = 170 THEN "loop2" ELSE "initend"
                /\ card' = Shifted(4) /\ UNCHANGED sub
           ELSE SendThen("CMD41", 0, TRUE, "gotsd") /\ UNCHANGED card
        /\ UNCHANGED <<Timer1, ty>>
     \/ /\ pc = "loop2"
        /\ IF Timer1 > 0 THEN SendThen("CMD41", 1, TRUE, "got41")
           ELSE pc' = "initend" /\ UNCHANGED sub
        /\ UNCHANGED <<Timer1, card, ty>>
     \/ /\ pc = "got41"
        /\ IF sub.res # 0 THEN pc' = "loop2" /\ UNCHANGED sub
           ELSE IF Timer1 > 0 THEN SendThen("CMD58", 0, FALSE, "got58")
           ELSE pc' = "initend" /\ UNCHANGED sub
        /\ UNCHANGED <<Timer1, card, ty>>
     \/ /\ pc = "got58"
        /\ IF sub.res = 0
           THEN ty' = (IF HighCapacity THEN 12 ELSE 4) /\ card' = Shifted(4)
           ELSE UNCHANGED <<ty, card>>
        /\ pc' = "initend" /\ UNCHANGED <<Timer1, sub>>
     \/ /\ pc = "gotsd"
        /\ ty' = IF sub.res <= 1 THEN 2 ELSE 1
        /\ pc' = "loop1" /\ UNCHANGED <<Timer1, card, sub>>
     \/ /\ pc = "loop1"
        /\ IF Timer1 > 0
           THEN SendThen(IF ty = 2 THEN "CMD41" ELSE "CMD1", 0, ty = 2, "got1") /\ UNCHANGED ty
           ELSE ty' = 0 /\ pc' = "initend" /\ UNCHANGED sub
        /\ UNCHANGED <<Timer1, card>>
     \/ /\ pc = "got1"
        /\ IF sub.res # 0 THEN pc' = "loop1" /\ UNCHANGED <<sub, ty>>
           ELSE IF Timer1 > 0 THEN SendThen("CMD16", BLOCK, FALSE, "got16") /\ UNCHANGED ty
           ELSE ty' = 0 /\ pc' = "initend" /\ UNCHANGED sub
        /\ UNCHANGED <<Timer1, card>>
     \/ /\ pc = "got16"
        /\ ty' = IF sub.res = 0 THEN ty ELSE 0
        /\ pc' = "initend" /\ UNCHANGED <<Timer1, card, sub>>
  /\ Goes
  /\ UNCHANGED <<mem, Stat, CardType, Timer2, taken, calls, Socket>>

\* "Initialization succeded", or power_off.
InitEnd ==
  /\ pc = "initend"
  /\ CardType' = ty
  /\ IF ty # 0 THEN Stat' = FALSE /\ Reply("OK") /\ UNCHANGED <<card, Timer2>>
     ELSE StartWaiting("off") /\ Goes /\ UNCHANGED <<Stat, ty, sub>>
  /\ UNCHANGED <<mem, Timer1, taken, calls, Socket>>
PowerOff ==
  /\ pc = "off" /\ ~Waiting
  /\ Stat' = TRUE /\ Reply("NOTRDY") /\ card' = Shifted(1)
  /\ UNCHANGED <<mem, CardType, Timer1, Timer2, taken, calls, Socket>>

\* xmit_datablock with a data token: the card stores the block and says so, or
\* says that it cannot.
Stores(c, block) ==
  IF ~Present \/ c.dead # "no" \/ c.rx = Nowhere THEN card' = c /\ UNCHANGED mem
  ELSE \/ /\ c.rx \in DOMAIN mem[slot]
          /\ card' = [c EXCEPT !.out = <<<<5, "data">>>>, !.busy = TRUE,
                               !.prog = <<c.rx, mem[slot][c.rx]>>,
                               !.rx = IF c.more THEN @ + 1 ELSE Nowhere]
          /\ mem' = [mem EXCEPT ![slot][c.rx] = block]
       \/ /\ card' = [c EXCEPT !.out = <<<<13, "data">>>>, !.rx = IF c.more THEN @ ELSE Nowhere]
          /\ UNCHANGED mem

StartWrite ==
  /\ \/ pc = "gotwrite" /\ sub.res = 0 /\ StartWaiting("xready") /\ UNCHANGED <<sub, ty>> /\ Goes
     \/ pc = "gotwrite" /\ sub.res # 0 /\ Reply("ERROR") /\ UNCHANGED <<card, Timer2>>
     \/ /\ pc = "got23" /\ SendThen("CMD25", Address, FALSE, "gotwrite")
        /\ Goes /\ UNCHANGED <<card, ty, Timer2>>
  /\ UNCHANGED <<mem, Stat, CardType, Timer1, taken, calls, Socket>>
\* The block did not go over, or it was the last: stop, or be done.
AfterBlock ==
  IF call.count = 1 THEN pc' = "written" /\ UNCHANGED <<card, Timer2>>
  ELSE StartWaiting("stop")
SendBlock ==
  /\ pc = "xready" /\ ~Waiting
  /\ \/ IsReady /\ Stores(Shifted(1), call.data[done + 1]) /\ pc' = "xresp" /\ UNCHANGED Timer2
     \/ TimedOut /\ AfterBlock /\ UNCHANGED mem
  /\ UNCHANGED <<Timer1, sub, taken, CallVars, Socket>>
Accepted_anything == rcvr_spi[1] # 255
Accepted == rcvr_spi[1] % 32 = 5
BlockSent ==
  /\ pc = "xresp"
  /\ LET taken5 == Accepted
     IN /\ done' = IF taken5 THEN done + 1 ELSE done
        /\ IF taken5 /\ done' < call.count THEN StartWaiting("xready")
           ELSE IF call.count = 1 THEN pc' = "written" /\ card' = Shifted(1) /\ UNCHANGED Timer2
           ELSE StartWaiting("stop")
  /\ UNCHANGED <<mem, Timer1, sub, taken, Stat, CardType, call, ty, dma, buff, result, calls, Socket>>
\* The stop token ends a write of several blocks, whatever became of them.
StopTran ==
  /\ pc = "stop" /\ ~Waiting
  /\ card' = IF Present /\ card.dead = "no" THEN [Shifted(1) EXCEPT !.rx = Nowhere] ELSE card
  /\ done' = IF IsReady THEN done ELSE 0
  /\ pc' = "written"
  /\ UNCHANGED <<mem, Timer1, Timer2, sub, taken, Stat, CardType, call, ty, dma, buff, result, calls,
                 Socket>>
Written ==
  /\ pc = "written" /\ Reply(IF done = call.count THEN "OK" ELSE "ERROR")
  /\ UNCHANGED <<mem, card, Stat, CardType, Timer1, Timer2, taken, calls, Socket>>

Driver == \/ Select \/ WaitReady \/ SendFrame \/ Response \/ Token \/ Dma \/ DiscardCRC
          \/ Start \/ Polled \/ DataRead \/ Initialize \/ InitEnd \/ PowerOff
          \/ StartWrite \/ SendBlock \/ BlockSent \/ StopTran \/ Written

CardNext == Driver \/ Ask \/ Deliver \/ Programmed \/ Die \/ Swap \/ Tick
CardSpec == CardInit /\ [][CardNext]_cardVars

\* The driver runs, time passes, and a card that works does what it was told.
CardFairSpec == CardSpec /\ WF_cardVars(Driver) /\ WF_cardVars(Tick)
                         /\ WF_cardVars(Deliver \/ Programmed)

-----------------------------------------------------------------------------
(* Properties.                                                             *)

\* The block being programmed, on the card in the socket.
Fresh == IF card.prog = <<>> THEN <<>> ELSE <<slot>> \o card.prog
Store == INSTANCE BlockStore WITH fresh <- Fresh

CardTypeOK ==
  /\ slot \in Cards \cup {"none"} /\ Stat \in BOOLEAN /\ CardType \in {0, 1, 2, 4, 12}
  /\ Timer1 \in 0..Max({TOKEN_TICKS, INIT_TICKS}) /\ Timer2 \in 0..READY_TICKS
  /\ \A c \in Cards : \A b \in DOMAIN mem[c] : Len(mem[c][b]) = BLOCK
  /\ sub.n \in 1..TRIES /\ sub.res \in 0..255 /\ done \in Nat /\ Len(dma) <= BLOCK

\* A read or write says it worked only if it did, for a card that worked and
\* stayed; no block changes but those a write names, on the card it was asked of.
StoreSpec == Store!StoreSpec

\* A response taken is a response to the command that was sent: never one that
\* is late, a byte of a block, or a busy line, unless the card died holding it.
OwnAnswer == taken = "none" \/ taken[2] \in {taken[1], "stuck"}

\* Every variable has its type; and a card the driver takes for initialised is
\* addressed the way it counts.
TypeMatchesCard ==
  CardTypeOK /\ (~Stat /\ Present /\ card.dead = "no" /\ card.mode = "ready" /\ pc = "idle" => (CardType >= 8 <=> CCS))

\* Every call returns, whatever becomes of the card.
CallReturns == call # NoCall ~> call = NoCall
=============================================================================
