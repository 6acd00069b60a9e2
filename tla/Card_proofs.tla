---------------------------- MODULE Card_proofs ----------------------------
(***************************************************************************)
(* The driver and the card, for every card, every block size, every        *)
(* patience, and as many calls and mishaps as one likes: a response taken  *)
(* is the command's own, a card is addressed the way it counts, and what   *)
(* the driver says of a read or a write is what the block store of         *)
(* BlockStore says.                                                        *)
(*                                                                         *)
(* What makes it inductive is what may be on the line at each place of the *)
(* driver: nothing of a block, but where the driver waits for one, and     *)
(* there that block and what is left of it.                                *)
(***************************************************************************)
EXTENDS Card, SequenceTheorems, TLAPS

Alive == Present /\ card.dead = "no"
Awake == Alive /\ card.mode # "off"

\* The driver is in send_cmd; the place it is in, or goes back to.
Sending == pc \in {"select", "ready", "response"}
Stage == IF Sending THEN sub.then ELSE pc

InitPcs == {"got0", "got8", "loop2", "got41", "got58", "gotsd", "loop1", "got1", "got16", "initend",
            "off"}
ReadPcs == {"gotread", "token", "dma", "broken", "stopped"}
WritePcs == {"gotwrite", "got23", "xready", "xresp", "stop", "written"}
Pcs == {"idle", "start", "select", "ready", "response", "gotpoll"} \cup InitPcs \cup ReadPcs \cup WritePcs
Returns == {"got0", "got8", "got41", "got58", "gotsd", "got1", "got16", "gotpoll", "gotread", "stopped",
            "gotwrite", "got23"}
Commands == {"CMD0", "CMD1", "CMD8", "CMD12", "CMD16", "CMD17", "CMD18", "CMD23", "CMD24", "CMD25",
             "CMD41", "CMD55", "CMD58"}
Codes == {0, 1, 2, 4, 12}
Bytes == Byte \X (Commands \cup {"data"})

CardStates ==
  [mode : {"off", "idle", "ready"}, app : BOOLEAN, out : Seq(Bytes), from : Nat \cup {Nowhere},
   rx : Nat \cup {Nowhere}, more : BOOLEAN, busy : BOOLEAN,
   prog : {<<>>} \cup (Nat \X Block), dead : {"no", "mute", "stuck"}]
CallStates ==
  [op : {"initialize", "poll", "read", "write"}, sector : Sectors, count : Counts,
   data : Payloads, card : Cards \cup {"none"}, well : BOOLEAN]
SubStates ==
  [cmd : Commands \cup {"none"}, arg : Nat, app : BOOLEAN, then : Returns \cup {"idle"},
   n : 1..TRIES, res : Byte]

CardTyped == slot \in Cards \cup {"none"} /\ card \in CardStates
MemTyped ==
  /\ mem = [c \in Cards |-> mem[c]]
  /\ \A c \in Cards : mem[c] \in [DOMAIN Contents[c] -> Block]
DriverTyped ==
  /\ Stat \in BOOLEAN /\ CardType \in Codes /\ ty \in Codes
  /\ Timer1 \in 0..Max({TOKEN_TICKS, INIT_TICKS}) /\ Timer2 \in 0..READY_TICKS
  /\ call \in CallStates \cup {NoCall} /\ sub \in SubStates /\ pc \in Pcs
  /\ done \in Nat /\ dma \in Seq(Byte) /\ Len(dma) <= BLOCK /\ buff \in Seq(Seq(Byte))

\* send_cmd is called for the command its caller waits for.
Asked ==
  Sending =>
  /\ sub.then \in Returns
  /\ sub.then = "got0" => sub.cmd = "CMD0"
  /\ sub.then = "got8" => sub.cmd = "CMD8"
  /\ sub.then \in {"got41", "gotsd"} => sub.cmd = "CMD41"
  /\ sub.then \in {"got58", "gotpoll"} => sub.cmd = "CMD58"
  /\ sub.then = "got1" => sub.cmd \in {"CMD41", "CMD1"}
  /\ sub.then = "got16" => sub.cmd = "CMD16"
  /\ sub.then = "gotread" => sub.cmd = IF call.count = 1 THEN "CMD17" ELSE "CMD18"
  /\ sub.then = "gotwrite" => sub.cmd = IF call.count = 1 THEN "CMD24" ELSE "CMD25"
  /\ sub.then = "stopped" => sub.cmd = "CMD12"
  /\ sub.then = "got23" => sub.cmd = "CMD23"
  /\ sub.app => sub.then \in {"got41", "gotsd", "got1", "got23"} /\ sub.cmd \in {"CMD41", "CMD23"}
  /\ sub.then \in {"gotread", "gotwrite"} => sub.arg = Address

\* Each place belongs to one of the public functions, and has the variables of
\* that function's call in use.
Placed ==
  /\ pc = "idle" <=> call = NoCall
  /\ Stage \in InitPcs => call.op = "initialize"
  /\ Stage = "gotpoll" => call.op = "poll"
  /\ Stage \in ReadPcs => call.op = "read" /\ ~Stat
  /\ Stage \in WritePcs => call.op = "write" /\ ~Stat
  /\ Stage \in {"stopped", "got23"} => call.count # 1
  /\ Stage \in {"loop1", "got1", "got16"} => ty \in {1, 2}
  /\ Stage \notin {"loop1", "got1", "got16", "initend"} => ty = 0
  /\ pc # "dma" => dma = <<>>
  /\ Stage \notin {"token", "dma", "broken", "stopped"} => buff = <<>>
  /\ Stage \notin {"token", "dma", "broken", "stopped", "xready", "xresp", "stop", "written"} => done = 0
  /\ Stage \in {"token", "dma", "xready", "xresp"} => done < call.count
  /\ Stage \in {"broken", "stopped", "stop", "written"} => done <= call.count

\* A card that is not initialised says and does nothing; one that is busy says
\* nothing, but what it thinks of the block.
Asleep == card.mode = "off" => /\ card.out = <<>> /\ card.from = Nowhere /\ card.rx = Nowhere
                               /\ ~card.busy /\ card.prog = <<>>
Busy == card.busy => card.from = Nowhere /\ (card.out = <<>> \/ pc = "xresp" \/ ~Alive)

\* When the driver's patience ends, the card is done.
Patient ==
  Alive =>
  /\ Timer1 = 0 /\ pc = "token" => card.from = Nowhere
  /\ Timer2 = 0 /\ pc \in {"ready", "off", "xready", "stop"} => card.from = Nowhere /\ ~card.busy

-----------------------------------------------------------------------------
(* What is on the line.                                                    *)

NoData(s) == \A i \in DOMAIN s : s[i][2] # "data"
AllData(s) == \A i \in DOMAIN s : s[i][2] = "data"
\* Nothing of a block is, or will be.
Quiet == card.from = Nowhere /\ NoData(card.out)

\* The block the driver waits for, the one the card turns to after block b, and
\* how many bytes of a response go before it.
Due == call.sector + done
Follows(b) == IF card.more THEN b + 1 ELSE Nowhere
Lead == IF pc = "response" THEN 1 ELSE 0

\* What comes is the frame of block b, after k bytes of a response or, k being
\* negative, without its first bytes.
IsFrame(k, b) ==
  /\ b \in DOMAIN mem[slot] /\ card.from = Follows(b)
  /\ Len(card.out) = BLOCK + 3 + k
  /\ \A i \in DOMAIN card.out :
       /\ i > k => card.out[i][2] = "data"
       /\ i - k = 1 => card.out[i][1] = 254
       /\ i - k \in 2..(BLOCK + 1) => card.out[i][1] = mem[slot][b][i - k - 1]
\* Or it is not there yet, or there is no block b.
Coming(k, b) ==
  \/ Len(card.out) = k /\ card.from = b
  \/ Len(card.out) = k + 1 /\ card.from = Nowhere /\ card.out[k + 1] = <<8, "data">>
  \/ IsFrame(k, b)
\* A read of several blocks goes on until it is stopped.
Drains == card.more /\ AllData(card.out) /\ (card.from = Nowhere => Len(card.out) <= 1)

Expecting == \/ pc = "token"
             \/ pc = "gotread" /\ sub.res = 0
             \/ pc = "response" /\ sub.then = "gotread" /\ card.out[1][1] = 0
Stopping == (pc = "broken" /\ call.count # 1) \/ (pc \in {"select", "ready"} /\ sub.then = "stopped")

Answered == Awake /\ pc = "response" =>
  ~card.busy /\ card.out # <<>> /\ card.out[1][2] = Command /\ card.out[1][1] < 128
Still    == Awake /\ ~Expecting /\ ~Stopping /\ pc \notin {"dma", "xresp"} => Quiet
Sends    == Awake /\ Expecting => Coming(Lead, Due)
SendsOn  == Awake /\ pc = "dma" => IsFrame(-1 - Len(dma), Due)
GoesOn   == Awake /\ (Expecting \/ pc = "dma") => (card.more <=> call.count # 1)
Stops    == Awake /\ Stopping => Drains
Judged   == Awake /\ pc = "xresp" =>
  card.from = Nowhere /\ card.out \in {<<<<5, "data">>>>, <<<<13, "data">>>>}
Line == Answered /\ Still /\ Sends /\ SendsOn /\ GoesOn /\ Stops /\ Judged

-----------------------------------------------------------------------------
(* What the driver has made out about the card.                            *)

\* The first byte of the OCR, and the response to CMD8, of a card of this kind.
Ocr == IF CCS THEN 192 ELSE 128
Says(s, i, v) == i \in DOMAIN s /\ s[i][1] = v
TellsV2(k) == \A i \in 1..4 : Says(card.out, i + k, <<0, 0, 1, 170>>[i])

Probed ==
  Awake =>
  /\ Stage = "got8" => card.mode = "idle"
  /\ Stage = "got8" /\ pc \in {"select", "ready"} => card.out = <<>> /\ ~card.busy
  /\ Stage = "got8" /\ pc = "response" /\ CCS => card.out[1][1] = 1 /\ TellsV2(1)
  /\ pc = "got8" /\ CCS => sub.res = 1 /\ TellsV2(0)
  /\ Stage = "got0" /\ pc = "response" => card.mode = "idle" /\ Len(card.out) = 1 /\ ~card.busy
  /\ pc = "got0" /\ sub.res = 1 => card.mode = "idle" /\ card.out = <<>> /\ ~card.busy
Classed ==
  Awake =>
  /\ Stage \in {"gotsd", "loop1", "got1", "got16"} => ~CCS
  /\ Stage = "got58" /\ pc = "response" => Says(card.out, 2, Ocr)
  /\ pc = "got58" /\ sub.res = 0 => Says(card.out, 1, Ocr)
  /\ pc = "initend" /\ ty # 0 => (ty >= 8 <=> CCS)
  /\ Stage \notin InitPcs \ {"got0"} /\ card.mode = "ready" /\ ~Stat => (CardType >= 8 <=> CCS)
Known == Probed /\ Classed

-----------------------------------------------------------------------------
(* What the call in hand has moved.                                        *)

\* No card answers this call: it has got no further than its first command.
Unheard ==
  /\ done = 0 /\ ty = 0
  /\ pc \in {"start", "select", "ready", "response", "initend", "off", "got0", "gotpoll", "gotread",
             "got23", "gotwrite"}
  /\ pc = "response" => ~(Present /\ card.dead = "stuck")
  /\ pc \in {"got0", "gotpoll", "gotread", "gotwrite"} => sub.res = 255
  /\ Sending => sub.then \in {"got0", "gotpoll", "gotread", "got23", "gotwrite"}
SameCard ==
  call # NoCall =>
  /\ call.well => slot = call.card /\ (~Awake => Unheard)
  /\ Awake /\ call.op # "initialize" => slot = call.card /\ call.well

HasRead ==
  call # NoCall /\ call.op = "read" /\ call.well =>
  /\ buff = [i \in 1..done |-> mem[slot][call.sector + i - 1]]
  /\ pc = "dma" => \A i \in DOMAIN dma : dma[i] = mem[slot][Due][i]

\* The card has the blocks it has taken, and the next goes where it should.
Holds(b, block) == b \in DOMAIN mem[slot] /\ mem[slot][b] = block
HasWritten ==
  call # NoCall /\ call.op = "write" /\ Awake =>
  \A i \in 1..done : Holds(call.sector + i - 1, call.data[i])
Directed ==
  call # NoCall /\ call.op = "write" /\ Awake =>
  /\ \/ pc = "response" /\ sub.then = "gotwrite" /\ card.out[1][1] = 0
     \/ pc = "gotwrite" /\ sub.res = 0
     \/ pc = "xready"
     => card.rx = Due /\ (card.more <=> call.count # 1)
  /\ pc = "xresp" => (card.more <=> call.count # 1)
  /\ pc = "xresp" /\ card.out[1][1] = 5 =>
       card.rx = Follows(Due) /\ Holds(Due, call.data[done + 1])
Moved == HasRead /\ HasWritten /\ Directed

Typed == CardTyped /\ MemTyped /\ DriverTyped
Settled == Asked /\ Placed /\ Asleep /\ Busy /\ Patient
CardInv == Typed /\ Settled /\ Line /\ Known /\ SameCard /\ Moved
-----------------------------------------------------------------------------
(* The line moves on.                                                      *)

LEMMA CardFields ==
  ASSUME card \in CardStates
  PROVE /\ card.mode \in {"off", "idle", "ready"} /\ card.app \in BOOLEAN /\ card.out \in Seq(Bytes)
        /\ card.from \in Nat \cup {Nowhere} /\ card.rx \in Nat \cup {Nowhere}
        /\ card.more \in BOOLEAN /\ card.busy \in BOOLEAN
        /\ card.prog \in {<<>>} \cup (Nat \X Block) /\ card.dead \in {"no", "mute", "stuck"}
        /\ Len(card.out) \in Nat /\ DOMAIN card.out = 1..Len(card.out)
        /\ card.out # <<>> <=> Len(card.out) > 0
        /\ \A i \in DOMAIN card.out : card.out[i] \in Bytes
  BY EmptySeq, LenProperties, ElementOfSeq DEF CardStates

LEMMA Replaced ==
  ASSUME NEW c \in CardStates, NEW s \in Seq(Bytes), NEW d, d = [c EXCEPT !.out = s]
  PROVE /\ d \in CardStates /\ d.out = s
        /\ d.mode = c.mode /\ d.app = c.app /\ d.from = c.from /\ d.rx = c.rx
        /\ d.more = c.more /\ d.busy = c.busy /\ d.prog = c.prog /\ d.dead = c.dead
  BY DEF CardStates

LEMMA ShiftedLine ==
  ASSUME card \in CardStates, NEW n \in Nat, NEW d, d = Shifted(n)
  PROVE /\ d \in CardStates
        /\ d.mode = card.mode /\ d.app = card.app /\ d.from = card.from /\ d.rx = card.rx
        /\ d.more = card.more /\ d.busy = card.busy /\ d.prog = card.prog /\ d.dead = card.dead
        /\ Len(d.out) \in Nat /\ DOMAIN d.out = 1..Len(d.out)
        /\ d.out # <<>> <=> Len(d.out) > 0
        /\ ~Alive => d = card
        /\ Alive => Len(d.out) = IF n <= Len(card.out) THEN Len(card.out) - n ELSE 0
        /\ Alive => \A i \in DOMAIN d.out : i + n \in DOMAIN card.out /\ d.out[i] = card.out[i + n]
<1> DEFINE s == SubSeq(card.out, n + 1, Len(card.out))
<1>1. CASE ~Shifts
  BY <1>1, CardFields DEF Shifted, Shifts, Alive
<1>2. CASE Shifts
  <2>1. /\ s \in Seq(Bytes)
        /\ Len(s) = IF n + 1 <= Len(card.out) THEN Len(card.out) - (n + 1) + 1 ELSE 0
        /\ \A i \in 1..(Len(card.out) - (n + 1) + 1) : s[i] = card.out[n + 1 + i - 1]
    <3>1. \A i \in (n + 1)..Len(card.out) : card.out[i] \in Bytes
      BY CardFields
    <3> QED
      BY <3>1, SubSeqProperties, CardFields
  <2>2. d = [card EXCEPT !.out = s]
    BY <1>2 DEF Shifted
  <2> HIDE DEF s
  <2>3. /\ d \in CardStates /\ d.out = s
        /\ d.mode = card.mode /\ d.app = card.app /\ d.from = card.from /\ d.rx = card.rx
        /\ d.more = card.more /\ d.busy = card.busy /\ d.prog = card.prog /\ d.dead = card.dead
    BY <2>1, <2>2, Replaced
  <2>4. Alive
    BY <1>2 DEF Shifts, Alive
  <2>5. Len(s) \in Nat /\ DOMAIN s = 1..Len(s) /\ (s # <<>> <=> Len(s) > 0)
    BY <2>1, LenProperties, EmptySeq
  <2>6. Len(card.out) \in Nat /\ DOMAIN card.out = 1..Len(card.out)
    BY CardFields
  <2>7. Len(s) = IF n <= Len(card.out) THEN Len(card.out) - n ELSE 0
    BY <2>1, <2>6
  <2>8. \A i \in DOMAIN s : i + n \in DOMAIN card.out /\ s[i] = card.out[i + n]
    <3> SUFFICES ASSUME NEW i \in 1..Len(s) PROVE i + n \in DOMAIN card.out /\ s[i] = card.out[i + n]
      BY <2>5
    <3>1. i \in 1..(Len(card.out) - (n + 1) + 1) /\ n + 1 + i - 1 = i + n
      BY <2>6, <2>7
    <3> QED
      BY <2>1, <2>6, <3>1
  <2> QED
    BY <2>3, <2>4, <2>5, <2>7, <2>8
<1> QED
  BY <1>1, <1>2

\* What the driver reads: the card's byte, or what the socket makes of none.
LEMMA ReadByte ==
  ASSUME card \in CardStates, Asleep
  PROVE /\ rcvr_spi[1] \in Byte
        /\ Awake /\ card.out # <<>> => rcvr_spi = card.out[1]
        /\ Awake /\ card.out = <<>> => rcvr_spi = IF card.busy THEN <<0, "busy">> ELSE FF
        /\ ~Awake => rcvr_spi = IF Present /\ card.dead = "stuck" THEN <<0, "stuck">> ELSE FF
<1>1. CASE Shifts
  <2>1. rcvr_spi = card.out[1]
    BY <1>1 DEF rcvr_spi
  <2>2. card.out[1] \in Bytes
    BY <1>1, CardFields DEF Shifts
  <2>3. Awake
    BY <1>1 DEF Shifts, Awake, Alive, Asleep
  <2> QED
    <3>1. card.out[1][1] \in Byte
      BY <2>2 DEF Bytes
    <3> QED
      BY <1>1, <2>1, <2>3, <3>1 DEF Shifts
<1>2. CASE ~Shifts
  BY <1>2, CardFields DEF rcvr_spi, Shifts, Awake, Alive, Asleep, FF, Byte
<1> QED
  BY <1>1, <1>2

LEMMA MaxPair ==
  ASSUME NEW a \in Int, NEW b \in Int
  PROVE Max({a, b}) = IF a >= b THEN a ELSE b
  BY DEF Max
-----------------------------------------------------------------------------
(* What a card makes of a command.                                         *)

LEMMA TellFacts ==
  ASSUME NEW c \in CardStates, NEW cmd \in Commands, NEW v \in Byte, NEW rest \in Seq(Byte),
         NEW d, d = Tell(c, cmd, v, rest)
  PROVE /\ d \in CardStates
        /\ d.mode = c.mode /\ d.from = c.from /\ d.rx = c.rx /\ d.more = c.more
        /\ d.busy = c.busy /\ d.prog = c.prog /\ d.dead = c.dead
        /\ Len(d.out) = 1 + Len(rest) /\ d.out[1] = <<v, cmd>>
        /\ \A i \in DOMAIN rest : d.out[i + 1] = <<rest[i], cmd>>
        /\ \A i \in DOMAIN d.out : d.out[i][2] = cmd
<1> DEFINE s == <<<<v, cmd>>>>
           t == [i \in DOMAIN rest |-> <<rest[i], cmd>>]
<1>1. DOMAIN rest = 1..Len(rest) /\ Len(rest) \in Nat /\ \A i \in DOMAIN rest : rest[i] \in Byte
  BY LenProperties, ElementOfSeq
<1>2. t \in [1..Len(rest) -> Bytes]
  BY <1>1 DEF Bytes
<1>3. t \in Seq(Bytes) /\ Len(t) = Len(rest)
  BY <1>1, <1>2, SeqDef
<1>4. s \in Seq(Bytes) /\ Len(s) = 1 /\ s[1] = <<v, cmd>>
  BY DEF Bytes
<1>5. \A i \in DOMAIN rest : t[i] = <<rest[i], cmd>>
  OBVIOUS
<1>6. d = [c EXCEPT !.out = s \o t, !.app = (cmd = "CMD55")]
  BY DEF Tell
<1> HIDE DEF s, t
<1>7. /\ s \o t \in Seq(Bytes)
      /\ Len(s \o t) = Len(s) + Len(t)
      /\ \A i \in 1..(Len(s) + Len(t)) : (s \o t)[i] = IF i <= Len(s) THEN s[i] ELSE t[i - Len(s)]
  BY <1>3, <1>4, ConcatProperties
<1>8. /\ d \in CardStates /\ d.out = s \o t
      /\ d.mode = c.mode /\ d.from = c.from /\ d.rx = c.rx /\ d.more = c.more
      /\ d.busy = c.busy /\ d.prog = c.prog /\ d.dead = c.dead
  BY <1>6, <1>7 DEF CardStates
<1>9. Len(d.out) = 1 + Len(rest) /\ d.out[1] = <<v, cmd>> /\ DOMAIN d.out = 1..(1 + Len(rest))
  BY <1>1, <1>3, <1>4, <1>7, <1>8, LenProperties
<1>10. \A i \in DOMAIN rest : d.out[i + 1] = <<rest[i], cmd>>
  <2> SUFFICES ASSUME NEW i \in 1..Len(rest) PROVE d.out[i + 1] = <<rest[i], cmd>>
    BY <1>1
  <2>1. d.out[i + 1] = t[i]
    BY <1>1, <1>3, <1>4, <1>7, <1>8
  <2> QED
    BY <2>1, <1>1, <1>5
<1>11. \A i \in DOMAIN d.out : d.out[i][2] = cmd
  <2> SUFFICES ASSUME NEW i \in 1..(1 + Len(rest)) PROVE d.out[i][2] = cmd
    BY <1>9
  <2>1. CASE i = 1
    BY <2>1, <1>9
  <2>2. CASE i # 1
    <3>1. i - 1 \in DOMAIN rest /\ i - 1 + 1 = i
      BY <2>2, <1>1
    <3> QED
      BY <3>1, <1>10
  <2> QED
    BY <2>1, <2>2
<1> QED
  BY <1>8, <1>9, <1>10, <1>11

LEMMA TellOne ==
  ASSUME NEW c \in CardStates, NEW cmd \in Commands, NEW v \in Byte, NEW d, d = Tell(c, cmd, v, <<>>)
  PROVE /\ d \in CardStates
        /\ d.mode = c.mode /\ d.from = c.from /\ d.rx = c.rx /\ d.more = c.more
        /\ d.busy = c.busy /\ d.prog = c.prog /\ d.dead = c.dead
        /\ Len(d.out) = 1 /\ d.out[1] = <<v, cmd>>
        /\ \A i \in DOMAIN d.out : d.out[i][2] = cmd
<1>1. PICK none \in Seq(Byte) : none = <<>> /\ Len(none) = 0
  BY EmptySeq
<1>2. d = Tell(c, cmd, v, none)
  BY <1>1
<1>3. /\ d \in CardStates
      /\ d.mode = c.mode /\ d.from = c.from /\ d.rx = c.rx /\ d.more = c.more
      /\ d.busy = c.busy /\ d.prog = c.prog /\ d.dead = c.dead
      /\ Len(d.out) = 1 + Len(none) /\ d.out[1] = <<v, cmd>>
      /\ \A i \in DOMAIN none : d.out[i + 1] = <<none[i], cmd>>
      /\ \A i \in DOMAIN d.out : d.out[i][2] = cmd
  BY <1>2, TellFacts
<1> QED
  BY <1>1, <1>3

\* A card that hears nothing stays as it is.
LEMMA NotHeard ==
  ASSUME NEW c, c.dead = card.dead, c.mode = card.mode, NEW cmd, NEW arg,
         ~Awake, ~Alive \/ cmd # "CMD0", NEW d \in Reactions(c, cmd, arg)
  PROVE d = c /\ (Alive \/ Skip(d, cmd) = c)
  BY Zenon DEF Reactions, Awake, Alive, Skip

R1(c) == IF c.mode = "idle" THEN 1 ELSE 0
Ended(c, s) == [c EXCEPT !.out = s, !.from = Nowhere]
Reads(c, more, at) == [c EXCEPT !.more = more, !.from = at]
Writes(c, more, at) == [c EXCEPT !.more = more, !.rx = at]
Plain(c, cmd) == {Tell(c, cmd, v, <<>>) : v \in {0, 1, 4, 5, 64}}
Refusals(c, cmd) == {Tell(c, cmd, v, <<>>) : v \in {4, 5, 64}}

LEMMA Reaction0 ==
  ASSUME NEW c, NEW arg, Present, c.dead = "no", ~IsSending(c), NEW d \in Reactions(c, "CMD0", arg)
  PROVE d = Tell([CardOff EXCEPT !.mode = "idle"], "CMD0", 1, <<>>)
  BY Zenon DEF Reactions
LEMMA Reaction8 ==
  ASSUME NEW c, NEW arg, Present, c.dead = "no", c.mode # "off", ~IsSending(c),
         NEW d \in Reactions(c, "CMD8", arg)
  PROVE d = Tell(c, "CMD8", R1(c), <<0, 0, 1, 170>>) \/ (~CCS /\ d = Tell(c, "CMD8", R1(c) + 4, <<>>))
  BY Zenon DEF Reactions, R1, CCS
LEMMA Reaction12 ==
  ASSUME NEW c, NEW arg, Present, c.dead = "no", c.mode # "off", NEW d \in Reactions(c, "CMD12", arg)
  PROVE d = Ended(Tell(c, "CMD12", R1(c), <<>>), <<<<127, "data">>>> \o Tell(c, "CMD12", R1(c), <<>>).out)
  BY Zenon DEF Reactions, R1, Ended
LEMMA Reaction58 ==
  ASSUME NEW c, NEW arg, Present, c.dead = "no", c.mode # "off", ~IsSending(c),
         NEW d \in Reactions(c, "CMD58", arg)
  PROVE d = Tell(c, "CMD58", R1(c), <<IF CCS THEN 192 ELSE 128, 255, 128, 0>>)
  BY Zenon DEF Reactions, R1
LEMMA ReactionPlain ==
  ASSUME NEW c, NEW cmd \in {"CMD16", "CMD23", "CMD55"}, NEW arg, Present, c.dead = "no", c.mode # "off",
         ~IsSending(c), NEW d \in Reactions(c, cmd, arg)
  PROVE d \in Plain(c, cmd)
<1>1. R1(c) \in {0, 1} /\ R1(c) + 4 \in {4, 5}
  BY DEF R1
<1>2. d = Tell(c, cmd, R1(c), <<>>) \/ d = Tell(c, cmd, R1(c) + 4, <<>>)
  <2>1. CASE cmd = "CMD55"
    BY <2>1, Zenon DEF Reactions, R1
  <2>2. CASE cmd = "CMD16"
    BY <2>2, Zenon DEF Reactions, R1
  <2>3. CASE cmd = "CMD23"
    BY <2>3, Zenon DEF Reactions, R1
  <2> QED
    BY <2>1, <2>2, <2>3
<1> QED
  BY <1>1, <1>2 DEF Plain
LEMMA ReactionStart ==
  ASSUME NEW c, NEW cmd \in {"CMD1", "CMD41"}, NEW arg, Present, c.dead = "no", c.mode # "off",
         ~IsSending(c), NEW d \in Reactions(c, cmd, arg)
  PROVE d \in Plain(c, cmd) \/ d = Tell([c EXCEPT !.mode = "ready"], cmd, 0, <<>>)
<1>1. R1(c) \in {0, 1} /\ R1(c) + 4 \in {4, 5}
  BY DEF R1
<1>2. \/ d = Tell(c, cmd, R1(c), <<>>) \/ d = Tell(c, cmd, R1(c) + 4, <<>>)
      \/ d = Tell([c EXCEPT !.mode = "ready"], cmd, 0, <<>>)
  <2>1. CASE cmd = "CMD1"
    BY <2>1, Zenon DEF Reactions, R1
  <2>2. CASE cmd = "CMD41"
    BY <2>2, Zenon DEF Reactions, R1
  <2> QED
    BY <2>1, <2>2
<1> QED
  BY <1>1, <1>2 DEF Plain
LEMMA ReactionBlock ==
  ASSUME NEW c, NEW cmd \in {"CMD17", "CMD18", "CMD24", "CMD25"}, NEW arg, Present, c.dead = "no",
         c.mode # "off", ~IsSending(c), NEW d \in Reactions(c, cmd, arg)
  PROVE \/ d \in Refusals(c, cmd)
        \/ /\ c.mode = "ready" /\ Addressed(arg) \in DOMAIN mem[slot]
           /\ d = IF cmd \in {"CMD17", "CMD18"}
                  THEN Reads(Tell(c, cmd, 0, <<>>), cmd \in {"CMD18", "CMD25"}, Addressed(arg))
                  ELSE Writes(Tell(c, cmd, 0, <<>>), cmd \in {"CMD18", "CMD25"}, Addressed(arg))
<1>1. R1(c) \in {0, 1} /\ R1(c) + 4 \in {4, 5}
  BY DEF R1
<1> DEFINE ok == Tell(c, cmd, 0, <<>>)
           more == cmd \in {"CMD18", "CMD25"}
<1>2. d \in IF c.mode # "ready" THEN {Tell(c, cmd, R1(c) + 4, <<>>)}
            ELSE IF Addressed(arg) \notin DOMAIN mem[slot] THEN {Tell(c, cmd, 64, <<>>)}
            ELSE IF cmd \in {"CMD17", "CMD18"} THEN {Reads(ok, more, Addressed(arg))}
            ELSE {Writes(ok, more, Addressed(arg))}
  BY Zenon DEF Reactions, R1, Reads, Writes
<1> QED
  BY <1>1, <1>2 DEF Refusals

\* The response to a command, and the card after it.
Answer(c, cmd, e) ==
  /\ e \in CardStates /\ e.dead = "no" /\ e.mode # "off"
  /\ Len(e.out) >= 1 /\ e.out[1][1] < 128 /\ \A i \in DOMAIN e.out : e.out[i][2] = cmd
  /\ e.prog = IF cmd = "CMD0" THEN <<>> ELSE c.prog
  /\ e.busy <=> (cmd # "CMD0" /\ c.busy)
  /\ e.mode = (IF cmd = "CMD0" THEN "idle" ELSE c.mode) \/ cmd \in {"CMD1", "CMD41"}
  /\ e.from = (IF cmd \in {"CMD0", "CMD12"} THEN Nowhere ELSE c.from)
     \/ (cmd \in {"CMD17", "CMD18"} /\ e.out[1][1] = 0)
Answers(c, cmd, arg, e) ==
  /\ Answer(c, cmd, e)
  /\ cmd = "CMD0" => Len(e.out) = 1
  /\ cmd \in {"CMD17", "CMD18"} /\ e.out[1][1] = 0 =>
       /\ Addressed(arg) \in DOMAIN mem[slot] /\ e.from = Addressed(arg)
       /\ c.mode = "ready" /\ Len(e.out) = 1 /\ (e.more <=> cmd = "CMD18")
  /\ cmd \in {"CMD24", "CMD25"} /\ e.out[1][1] = 0 =>
       /\ Addressed(arg) \in DOMAIN mem[slot] /\ e.rx = Addressed(arg)
       /\ c.mode = "ready" /\ (e.more <=> cmd = "CMD25")
  /\ cmd = "CMD8" /\ CCS =>
       e.out[1][1] = R1(c) /\ \A i \in 1..4 : Says(e.out, i + 1, <<0, 0, 1, 170>>[i])
  /\ cmd = "CMD58" => Says(e.out, 2, Ocr)

Low == 0..127
\* These bytes follow the response.
Follow(s, rest) == \A i \in DOMAIN rest : Says(s, i + 1, rest[i])

LEMMA Told ==
  ASSUME NEW c \in CardStates, c.dead = "no", NEW cmd \in Commands, cmd \notin {"CMD0", "CMD12"},
         c.mode # "off", NEW v \in Low, NEW rest \in Seq(Byte), NEW d, d = Tell(c, cmd, v, rest)
  PROVE Answer(c, cmd, d) /\ d.out[1][1] = v /\ Follow(d.out, rest)
<1>1. v \in Byte /\ v < 128
  BY DEF Byte, Low
<1>2. /\ d \in CardStates
      /\ d.mode = c.mode /\ d.from = c.from /\ d.rx = c.rx /\ d.more = c.more
      /\ d.busy = c.busy /\ d.prog = c.prog /\ d.dead = c.dead
      /\ Len(d.out) = 1 + Len(rest) /\ d.out[1] = <<v, cmd>>
      /\ \A i \in DOMAIN rest : d.out[i + 1] = <<rest[i], cmd>>
      /\ \A i \in DOMAIN d.out : d.out[i][2] = cmd
  BY <1>1, TellFacts
<1>3. Len(rest) \in Nat /\ DOMAIN rest = 1..Len(rest)
  BY LenProperties
<1>4. d.out \in Seq(Bytes)
  BY <1>2 DEF CardStates
<1>5. DOMAIN d.out = 1..Len(d.out)
  BY <1>4, LenProperties
<1>6. Follow(d.out, rest)
  BY <1>2, <1>3, <1>5 DEF Says, Follow
<1> QED
  BY <1>1, <1>2, <1>3, <1>6 DEF Answer

LEMMA AnswerPlain ==
  ASSUME NEW c \in CardStates, c.dead = "no", NEW cmd \in Commands, cmd \notin {"CMD0", "CMD12"},
         c.mode # "off", NEW d \in Plain(c, cmd)
  PROVE Answer(c, cmd, d)
<1>1. PICK v \in {0, 1, 4, 5, 64} : d = Tell(c, cmd, v, <<>>)
  BY DEF Plain
<1>2. v \in Byte /\ v < 128
  BY DEF Byte
<1>3. /\ d \in CardStates
      /\ d.mode = c.mode /\ d.from = c.from /\ d.rx = c.rx /\ d.more = c.more
      /\ d.busy = c.busy /\ d.prog = c.prog /\ d.dead = c.dead
      /\ Len(d.out) = 1 /\ d.out[1] = <<v, cmd>>
      /\ \A i \in DOMAIN d.out : d.out[i][2] = cmd
  BY <1>1, <1>2, TellOne
<1> QED
  BY <1>2, <1>3 DEF Answer

LEMMA Answer0 ==
  ASSUME NEW c \in CardStates, NEW d, d = Tell([CardOff EXCEPT !.mode = "idle"], "CMD0", 1, <<>>)
  PROVE Answer(c, "CMD0", d) /\ Len(d.out) = 1
<1> DEFINE z == [CardOff EXCEPT !.mode = "idle"]
<1>1. z \in CardStates /\ z.dead = "no" /\ z.mode = "idle" /\ z.prog = <<>> /\ ~z.busy /\ z.from = Nowhere
  BY EmptySeq DEF CardStates, CardOff
<1>2. 1 \in Byte /\ "CMD0" \in Commands
  BY DEF Byte, Commands
<1> HIDE DEF z
<1>3. d = Tell(z, "CMD0", 1, <<>>)
  BY DEF z
<1>4. /\ d \in CardStates
      /\ d.mode = z.mode /\ d.from = z.from /\ d.rx = z.rx /\ d.more = z.more
      /\ d.busy = z.busy /\ d.prog = z.prog /\ d.dead = z.dead
      /\ Len(d.out) = 1 /\ d.out[1] = <<1, "CMD0">>
      /\ \A i \in DOMAIN d.out : d.out[i][2] = "CMD0"
  BY <1>2, <1>3, <1>1, TellOne
<1> QED
  BY <1>1, <1>4 DEF Answer

LEMMA EndedFields ==
  ASSUME NEW t \in CardStates, NEW s \in Seq(Bytes), NEW d, d = Ended(t, s)
  PROVE /\ d \in CardStates /\ d.out = s /\ d.from = Nowhere
        /\ d.mode = t.mode /\ d.busy = t.busy /\ d.prog = t.prog /\ d.dead = t.dead
  BY DEF CardStates, Ended

LEMMA Answer12 ==
  ASSUME NEW c \in CardStates, c.dead = "no", c.mode # "off", Present,
         NEW t, t = Tell(c, "CMD12", R1(c), <<>>), NEW d, d = Ended(t, <<<<127, "data">>>> \o t.out),
         NEW e, e = Skip(d, "CMD12")
  PROVE Answer(c, "CMD12", e)
<1> DEFINE h == <<<<127, "data">>>>
           s == h \o t.out
<1>1. R1(c) \in Byte /\ R1(c) < 128 /\ "CMD12" \in Commands
  BY DEF Byte, Commands, R1
<1>2. /\ t \in CardStates
      /\ t.mode = c.mode /\ t.busy = c.busy /\ t.prog = c.prog /\ t.dead = c.dead
      /\ Len(t.out) = 1 /\ t.out[1] = <<R1(c), "CMD12">>
  BY <1>1, TellOne
<1>3. h \in Seq(Bytes) /\ Len(h) = 1
  BY DEF Bytes, Byte
<1>4. d = Ended(t, s)
  OBVIOUS
<1> HIDE DEF h
<1>5. t.out \in Seq(Bytes)
  BY <1>2 DEF CardStates
<1>6. /\ s \in Seq(Bytes) /\ Len(s) = Len(h) + Len(t.out)
      /\ \A i \in 1..(Len(h) + Len(t.out)) : s[i] = IF i <= Len(h) THEN h[i] ELSE t.out[i - Len(h)]
  BY <1>3, <1>5, ConcatProperties
<1>7. s[2] = t.out[1] /\ Len(s) = 2
  BY <1>1, <1>2, <1>3, <1>6
<1> HIDE DEF s
<1>8. /\ d \in CardStates /\ d.out = s /\ d.from = Nowhere
      /\ d.mode = t.mode /\ d.busy = t.busy /\ d.prog = t.prog /\ d.dead = t.dead
  BY <1>2, <1>4, <1>6, EndedFields
<1>9. s # <<>>
  BY <1>7
<1> DEFINE r == Tail(d.out)
<1>10. r \in Seq(Bytes) /\ Len(r) = Len(s) - 1 /\ \A i \in 1..Len(r) : r[i] = s[i + 1]
  BY <1>6, <1>8, <1>9, HeadTailProperties
<1>11. e = [d EXCEPT !.out = r]
  BY <1>2, <1>8, <1>9, ZenonT(30) DEF Skip
<1> HIDE DEF r
<1>12. Len(r) = 1 /\ r[1] = t.out[1] /\ DOMAIN r = 1..1
  BY <1>7, <1>10, LenProperties
<1>13. /\ e \in CardStates /\ e.out = r /\ e.from = d.from
       /\ e.mode = d.mode /\ e.busy = d.busy /\ e.prog = d.prog /\ e.dead = d.dead
  BY <1>8, <1>10, <1>11, Replaced
<1> QED
  BY <1>1, <1>2, <1>8, <1>12, <1>13 DEF Answer

\* The number of a block on the line stays out of the way of the sets below.
LEMMA AnswerStart ==
  ASSUME NEW c \in CardStates, c.dead = "no", c.mode # "off", NEW cmd \in {"CMD1", "CMD41"},
         NEW d, d = Tell([c EXCEPT !.mode = "ready"], cmd, 0, <<>>)
  PROVE Answer(c, cmd, d)
<1> DEFINE r == [c EXCEPT !.mode = "ready"]
<1>1. /\ r \in CardStates /\ r.mode = "ready" /\ r.from = c.from /\ r.busy = c.busy
      /\ r.prog = c.prog /\ r.dead = c.dead
  BY DEF CardStates
<1>2. d = Tell(r, cmd, 0, <<>>) /\ 0 \in Byte /\ cmd \in Commands
  BY DEF Byte, Commands
<1> HIDE DEF r
<1>3. /\ d \in CardStates
      /\ d.mode = r.mode /\ d.from = r.from /\ d.rx = r.rx /\ d.more = r.more
      /\ d.busy = r.busy /\ d.prog = r.prog /\ d.dead = r.dead
      /\ Len(d.out) = 1 /\ d.out[1] = <<0, cmd>>
      /\ \A i \in DOMAIN d.out : d.out[i][2] = cmd
  BY <1>1, <1>2, TellOne
<1> QED
  BY <1>1, <1>3 DEF Answer

LEMMA ReadsFields ==
  ASSUME NEW t \in CardStates, NEW more \in BOOLEAN, NEW at \in Nat, NEW d, d = Reads(t, more, at)
  PROVE /\ d \in CardStates /\ d.mode = t.mode /\ d.out = t.out /\ d.more = more
        /\ d.busy = t.busy /\ d.prog = t.prog /\ d.dead = t.dead /\ d.from = at
  BY DEF CardStates, Reads
LEMMA WritesFields ==
  ASSUME NEW t \in CardStates, NEW more \in BOOLEAN, NEW at \in Nat, NEW d, d = Writes(t, more, at)
  PROVE /\ d \in CardStates /\ d.mode = t.mode /\ d.out = t.out /\ d.more = more
        /\ d.busy = t.busy /\ d.prog = t.prog /\ d.dead = t.dead /\ d.rx = at /\ d.from = t.from
  BY DEF CardStates, Writes

LEMMA AnswerBlock ==
  ASSUME Typed, Present, NEW c \in CardStates, c.dead = "no", c.mode # "off", ~IsSending(c),
         NEW cmd \in {"CMD17", "CMD18", "CMD24", "CMD25"}, NEW arg, NEW d \in Reactions(c, cmd, arg)
  PROVE Answers(c, cmd, arg, d)
<1>1. cmd \in Commands /\ cmd \notin {"CMD0", "CMD12"} /\ 0 \in Byte
  BY DEF Commands, Byte
<1>2. CASE d \in Refusals(c, cmd)
  <2>1. PICK v \in {4, 5, 64} : d = Tell(c, cmd, v, <<>>)
    BY <1>2 DEF Refusals
  <2>2. v \in Byte /\ d \in Plain(c, cmd)
    BY <2>1 DEF Byte, Plain
  <2>3. Answer(c, cmd, d)
    BY <1>1, <2>2, AnswerPlain
  <2>4. d.out[1] = <<v, cmd>>
    BY <1>1, <2>1, <2>2, TellOne
  <2>5. d.out[1][1] # 0
    BY <2>1, <2>4
  <2> QED
    BY <2>3, <2>5 DEF Answers
<1>3. CASE /\ c.mode = "ready" /\ Addressed(arg) \in DOMAIN mem[slot]
           /\ d = IF cmd \in {"CMD17", "CMD18"}
                  THEN Reads(Tell(c, cmd, 0, <<>>), cmd \in {"CMD18", "CMD25"}, Addressed(arg))
                  ELSE Writes(Tell(c, cmd, 0, <<>>), cmd \in {"CMD18", "CMD25"}, Addressed(arg))
  <2> DEFINE t == Tell(c, cmd, 0, <<>>)
             at == Addressed(arg)
             more == cmd \in {"CMD18", "CMD25"}
  <2>1. /\ t \in CardStates
        /\ t.mode = c.mode /\ t.from = c.from /\ t.rx = c.rx /\ t.more = c.more
        /\ t.busy = c.busy /\ t.prog = c.prog /\ t.dead = c.dead
        /\ Len(t.out) = 1 /\ t.out[1] = <<0, cmd>>
        /\ \A i \in DOMAIN t.out : t.out[i][2] = cmd
    BY <1>1, TellOne
  <2>2. at \in Nat /\ at \in DOMAIN mem[slot]
    BY <1>3, DataAssumption DEF Typed, CardTyped, MemTyped, Present
  <2>3. t.out[1][1] = 0
    BY <2>1
  <2>9. more \in BOOLEAN /\ (more <=> cmd \in {"CMD18", "CMD25"})
    OBVIOUS
  <2> HIDE DEF t, at, more
  <2>4. CASE cmd \in {"CMD17", "CMD18"}
    <3>1. d = Reads(t, more, at)
      BY <1>3, <2>4 DEF t, at, more
    <3>2. /\ d \in CardStates /\ d.mode = t.mode /\ d.out = t.out /\ d.more = more
          /\ d.busy = t.busy /\ d.prog = t.prog /\ d.dead = t.dead /\ d.from = at
      BY <2>1, <2>2, <2>9, <3>1, ReadsFields
    <3>3. Answer(c, cmd, d)
      BY <1>1, <2>1, <2>3, <2>4, <3>2 DEF Answer
    <3> QED
      BY <1>3, <2>1, <2>2, <2>4, <2>9, <3>2, <3>3 DEF Answers, at
  <2>5. CASE cmd \in {"CMD24", "CMD25"}
    <3>1. d = Writes(t, more, at)
      BY <1>3, <2>5 DEF t, at, more
    <3>2. /\ d \in CardStates /\ d.mode = t.mode /\ d.out = t.out /\ d.more = more
          /\ d.busy = t.busy /\ d.prog = t.prog /\ d.dead = t.dead /\ d.rx = at /\ d.from = t.from
      BY <2>1, <2>2, <2>9, <3>1, WritesFields
    <3>3. Answer(c, cmd, d)
      BY <1>1, <2>1, <2>3, <2>5, <3>2 DEF Answer
    <3> QED
      BY <1>3, <2>1, <2>2, <2>5, <2>9, <3>2, <3>3 DEF Answers, at
  <2> QED
    BY <2>4, <2>5
<1> QED
  BY <1>2, <1>3, ReactionBlock

LEMMA Answering ==
  ASSUME Typed, Present, NEW c \in CardStates, c.dead = "no", NEW cmd \in Commands,
         c.mode # "off" \/ cmd = "CMD0", ~IsSending(c) \/ cmd = "CMD12",
         NEW arg, NEW d \in Reactions(c, cmd, arg)
  PROVE Answers(c, cmd, arg, Skip(d, cmd))
<1>1. cmd # "CMD12" => Skip(d, cmd) = d
  BY DEF Skip
<1>2. CASE cmd = "CMD0"
  <2>1. Answer(c, cmd, d) /\ Len(d.out) = 1
    BY <1>2, Reaction0, Answer0
  <2> QED
    BY <1>1, <1>2, <2>1 DEF Answers
<1>3. CASE cmd = "CMD8"
  <2>1. R1(c) \in Low /\ R1(c) + 4 \in {4, 5} /\ cmd \notin {"CMD0", "CMD12"} /\ c.mode # "off"
    BY <1>3 DEF R1, Low
  <2>2. CASE d = Tell(c, cmd, R1(c), <<0, 0, 1, 170>>)
    <3>1. PICK rest : rest = <<0, 0, 1, 170>>
      OBVIOUS
    <3>2. rest \in Seq(Byte) /\ DOMAIN rest = 1..4 /\ d = Tell(c, cmd, R1(c), rest)
      BY <2>2, <3>1 DEF Byte
    <3>3. Answer(c, cmd, d) /\ d.out[1][1] = R1(c) /\ Follow(d.out, rest)
      BY <2>1, <3>2, Told
    <3> QED
      BY <1>1, <1>3, <3>1, <3>2, <3>3 DEF Answers, Follow
  <2>3. CASE ~CCS /\ d = Tell(c, cmd, R1(c) + 4, <<>>)
    <3>1. d \in Plain(c, cmd)
      BY <2>1, <2>3 DEF Plain
    <3>2. Answer(c, cmd, d)
      BY <1>3, <3>1, AnswerPlain
    <3> QED
      BY <1>1, <1>3, <2>3, <3>2 DEF Answers
  <2> QED
    BY <1>3, <2>1, <2>2, <2>3, Reaction8
<1>4. CASE cmd = "CMD12"
  <2>1. Answer(c, cmd, Skip(d, cmd))
    BY <1>4, Reaction12, Answer12
  <2> QED
    BY <1>4, <2>1 DEF Answers
<1>5. CASE cmd = "CMD58"
  <2>1. PICK rest : rest = <<IF CCS THEN 192 ELSE 128, 255, 128, 0>>
    OBVIOUS
  <2>2. /\ rest \in Seq(Byte) /\ DOMAIN rest = 1..4 /\ rest[1] = Ocr
        /\ R1(c) \in Low /\ cmd \notin {"CMD0", "CMD12"} /\ c.mode # "off"
    BY <1>5, <2>1 DEF Byte, Ocr, R1, Low
  <2>3. d = Tell(c, cmd, R1(c), rest)
    BY <1>5, <2>1, <2>2, Reaction58
  <2>4. Answer(c, cmd, d) /\ d.out[1][1] = R1(c) /\ Follow(d.out, rest)
    BY <2>2, <2>3, Told
  <2>5. Says(d.out, 2, Ocr)
    BY <2>2, <2>4 DEF Follow
  <2> QED
    BY <1>1, <1>5, <2>4, <2>5 DEF Answers
<1>6. CASE cmd \in {"CMD16", "CMD23", "CMD55"}
  <2>1. Answer(c, cmd, d)
    BY <1>6, ReactionPlain, AnswerPlain
  <2> QED
    BY <1>1, <1>6, <2>1 DEF Answers
<1>7. CASE cmd \in {"CMD1", "CMD41"}
  <2>1. Answer(c, cmd, d)
    BY <1>7, ReactionStart, AnswerPlain, AnswerStart
  <2> QED
    BY <1>1, <1>7, <2>1 DEF Answers
<1>8. CASE cmd \in {"CMD17", "CMD18", "CMD24", "CMD25"}
  BY <1>1, <1>8, AnswerBlock
<1> QED
  BY <1>2, <1>3, <1>4, <1>5, <1>6, <1>7, <1>8 DEF Commands
-----------------------------------------------------------------------------
(* The driver's place.                                                     *)

LEMMA CallFields ==
  ASSUME DriverTyped, call # NoCall
  PROVE /\ call \in CallStates
        /\ call.op \in {"initialize", "poll", "read", "write"} /\ call.sector \in Nat
        /\ call.count \in Nat /\ call.count > 0 /\ call.card \in Cards \cup {"none"}
        /\ call.well \in BOOLEAN
        /\ call.data \in Seq(Block) /\ call.count <= Len(call.data)
        /\ \A i \in 1..call.count : call.data[i] \in Block
<1>1. call \in CallStates
  BY DEF DriverTyped
<1>2. /\ call.op \in {"initialize", "poll", "read", "write"} /\ call.sector \in Sectors
      /\ call.count \in Counts /\ call.card \in Cards \cup {"none"}
      /\ call.well \in BOOLEAN /\ call.data \in Payloads
  BY <1>1 DEF CallStates
<1>3. call.sector \in Nat /\ call.count \in Nat /\ call.count > 0
  BY <1>2, DataAssumption
<1>4. call.data \in Seq(Block) /\ call.count <= Len(call.data) /\ Len(call.data) \in Nat
  BY <1>2, DataAssumption, LenProperties
<1>5. \A i \in 1..call.count : call.data[i] \in Block
  <2> SUFFICES ASSUME NEW i \in 1..call.count PROVE call.data[i] \in Block
    OBVIOUS
  <2>1. i \in 1..Len(call.data)
    BY <1>3, <1>4
  <2> QED
    BY <1>4, <2>1, ElementOfSeq
<1> QED
  BY <1>1, <1>2, <1>3, <1>4, <1>5

LEMMA SubFields ==
  ASSUME DriverTyped
  PROVE /\ sub.cmd \in Commands \cup {"none"} /\ sub.arg \in Nat /\ sub.app \in BOOLEAN
        /\ sub.then \in Returns \cup {"idle"} /\ sub.n \in 1..TRIES /\ sub.res \in Byte
  BY DEF DriverTyped, SubStates

LEMMA NoCallIsNone ==
  ASSUME call \in CallStates PROVE call # NoCall
  BY DEF CallStates, NoCall

LEMMA NoSubTyped == NoSub \in SubStates
<1>1. TRIES \in 1..TRIES
  BY CardAssumption
<1> QED
  BY <1>1 DEF NoSub, SubStates, Byte

\* send_cmd is called ...
LEMMA Sent ==
  ASSUME NEW cmd \in Commands, NEW arg \in Nat, NEW app \in BOOLEAN, NEW then \in Returns,
         SendThen(cmd, arg, app, then)
  PROVE /\ sub' \in SubStates /\ pc' = "select" /\ pc' \in Pcs /\ Sending' /\ Stage' = then
        /\ sub'.cmd = cmd /\ sub'.arg = arg /\ sub'.app = app /\ sub'.then = then
<1>1. TRIES \in 1..TRIES /\ 255 \in Byte
  BY CardAssumption DEF Byte
<1>2. /\ sub' \in SubStates
      /\ sub'.cmd = cmd /\ sub'.arg = arg /\ sub'.app = app /\ sub'.then = then
  BY <1>1 DEF SendThen, SubStates
<1> QED
  BY <1>2 DEF SendThen, Sending, Stage, Pcs

\* ... goes on after CMD55, or returns.
LEMMA Responds ==
  ASSUME DriverTyped, Asked, pc \in {"ready", "response"}, NEW res \in Byte, Respond(res)
  PROVE /\ sub' \in SubStates /\ pc' \in Pcs /\ Stage' = Stage
        /\ \/ sub.app /\ res <= 1 /\ pc' = "select" /\ sub'.then = sub.then
           \/ ~(sub.app /\ res <= 1) /\ pc' = sub.then /\ ~Sending' /\ sub'.res = res
<1>1. sub \in SubStates /\ sub.then \in Returns /\ Stage = sub.then
  BY DEF DriverTyped, Asked, Sending, Stage
<1>2. sub.then \in Pcs /\ sub.then \notin {"select", "ready", "response"}
  BY <1>1 DEF Returns, Pcs, InitPcs, ReadPcs, WritePcs
<1>3. CASE sub.app /\ res <= 1
  <2>1. sub' = [[sub EXCEPT !.app = FALSE] EXCEPT !.n = TRIES] /\ pc' = "select"
    BY <1>3 DEF Respond
  <2>2. TRIES \in 1..TRIES
    BY CardAssumption
  <2>3. sub' \in SubStates /\ sub'.then = sub.then
    BY <1>1, <2>1, <2>2 DEF SubStates
  <2> QED
    BY <1>1, <1>3, <2>1, <2>3 DEF Sending, Stage, Pcs
<1>4. CASE ~(sub.app /\ res <= 1)
  <2>1. sub' = [NoSub EXCEPT !.res = res] /\ pc' = sub.then
    BY <1>4 DEF Respond
  <2>2. sub' \in SubStates /\ sub'.res = res
    BY <2>1, NoSubTyped DEF SubStates
  <2> QED
    BY <1>1, <1>2, <1>4, <2>1, <2>2 DEF Sending, Stage
<1> QED
  BY <1>3, <1>4

LEMMA RespondsAsked ==
  ASSUME Asked, pc \in {"ready", "response"}, NEW res, Respond(res), DriverTyped, UNCHANGED <<call, CardType>>
  PROVE Asked'
<1>1. sub \in SubStates /\ Sending /\ sub.then \notin {"select", "ready", "response"}
  BY DEF DriverTyped, Asked, Sending, Returns
<1>2. CASE sub.app /\ res <= 1
  <2>1. sub' = [[sub EXCEPT !.app = FALSE] EXCEPT !.n = TRIES] /\ pc' = "select"
    BY <1>2 DEF Respond
  <2>2. sub'.then = sub.then /\ sub'.cmd = sub.cmd /\ sub'.arg = sub.arg /\ sub'.app = FALSE
    BY <1>1, <2>1 DEF SubStates
  <2>3. Address' = Address
    BY DEF Address
  <2> QED
    BY <1>1, <2>2, <2>3 DEF Asked
<1>3. CASE ~(sub.app /\ res <= 1)
  BY <1>1, <1>3 DEF Respond, Asked, Sending
<1> QED
  BY <1>2, <1>3

\* Within send_cmd nothing else of the call moves.
LEMMA StaysPlaced ==
  ASSUME Placed, Stage' = Stage, UNCHANGED <<Stat, call, ty, dma, buff, done>>,
         pc # "idle", pc' # "idle", pc # "dma"
  PROVE Placed'
  BY DEF Placed

LEMMA Replies ==
  ASSUME NEW res, Reply(res)
  PROVE /\ Asked' /\ Placed' /\ Stage' = "idle" /\ ~Sending' /\ sub' \in SubStates /\ pc' = "idle"
        /\ call' = NoCall /\ ty' = 0 /\ dma' = <<>> /\ buff' = <<>> /\ done' = 0
<1>1. /\ pc' = "idle" /\ ~Sending' /\ Stage' = "idle" /\ call' = NoCall
      /\ ty' = 0 /\ dma' = <<>> /\ buff' = <<>> /\ done' = 0
  BY DEF Reply, Sending, Stage
<1>2. Asked'
  BY <1>1 DEF Asked
<1>3. Placed'
  BY <1>1 DEF Placed, InitPcs, ReadPcs, WritePcs
<1> QED
  BY <1>1, <1>2, <1>3, NoSubTyped DEF Reply

\* What a step of the driver keeps of its own state.
DriverInv == DriverTyped /\ Asked /\ Placed

LEMMA TimersTyped ==
  /\ TOKEN_TICKS \in 0..Max({TOKEN_TICKS, INIT_TICKS}) /\ INIT_TICKS \in 0..Max({TOKEN_TICKS, INIT_TICKS})
  /\ READY_TICKS \in 0..READY_TICKS /\ 0 \in 0..Max({TOKEN_TICKS, INIT_TICKS}) /\ 0 \in 0..READY_TICKS
<1>1. TOKEN_TICKS \in Nat \ {0} /\ INIT_TICKS \in Nat \ {0} /\ READY_TICKS \in Nat \ {0}
  BY CardAssumption
<1>2. Max({TOKEN_TICKS, INIT_TICKS}) = IF TOKEN_TICKS >= INIT_TICKS THEN TOKEN_TICKS ELSE INIT_TICKS
  BY <1>1, MaxPair
<1> QED
  BY <1>1, <1>2

LEMMA AddressTyped ==
  ASSUME DriverTyped, call # NoCall PROVE Address \in Nat
<1>1. call.sector \in Nat /\ BLOCK \in Nat
  BY CallFields, CardAssumption
<1>2. call.sector * BLOCK \in Nat
  BY <1>1
<1> QED
  BY <1>1, <1>2 DEF Address

LEMMA SelectKeeps ==
  ASSUME DriverInv, Select PROVE DriverInv' /\ Stage' = Stage
<1>1. pc = "select" /\ pc' = "ready" /\ Timer2' = READY_TICKS
      /\ UNCHANGED <<Timer1, sub, Stat, CardType, call, ty, dma, buff, done>>
  BY DEF Select, StartWaiting, CallVars
<1>2. Stage' = Stage
  BY <1>1 DEF Stage, Sending
<1>3. Placed'
  BY <1>1, <1>2, StaysPlaced DEF DriverInv
<1>4. Asked'
  BY <1>1 DEF DriverInv, Asked, Sending, Address
<1>5. DriverTyped'
  BY <1>1, TimersTyped DEF DriverInv, DriverTyped, Pcs
<1> QED
  BY <1>2, <1>3, <1>4, <1>5 DEF DriverInv

\* The driver's state is as it was, up to the card, the clocks and the store.
LEMMA SamePlace ==
  ASSUME DriverInv, UNCHANGED <<pc, sub, Stat, CardType, call, ty, dma, buff, done>>,
         Timer1' \in 0..Max({TOKEN_TICKS, INIT_TICKS}), Timer2' \in 0..READY_TICKS
  PROVE DriverInv' /\ Stage' = Stage
  BY DEF DriverInv, DriverTyped, Asked, Placed, Sending, Stage, Address

LEMMA WaitReadyKeeps ==
  ASSUME DriverInv, WaitReady PROVE DriverInv' /\ Stage' = Stage
  BY SamePlace DEF WaitReady, CallVars, DriverInv, DriverTyped

LEMMA RespondKeeps ==
  ASSUME DriverInv, pc \in {"ready", "response"}, NEW res \in Byte, Respond(res),
         UNCHANGED <<Timer1, Timer2, CallVars>>
  PROVE DriverInv' /\ Stage' = Stage
<1>1. /\ sub' \in SubStates /\ pc' \in Pcs /\ Stage' = Stage
      /\ pc' = "select" \/ pc' = sub.then
  BY Responds DEF DriverInv
<1>2. sub.then \in Returns /\ pc' # "idle"
  BY <1>1 DEF DriverInv, Asked, Sending, Returns
<1>3. Placed'
  BY <1>1, <1>2, StaysPlaced DEF DriverInv, CallVars
<1>4. Asked'
  BY RespondsAsked DEF DriverInv, CallVars
<1>5. DriverTyped'
  BY <1>1 DEF DriverInv, DriverTyped, CallVars
<1> QED
  BY <1>1, <1>3, <1>4, <1>5 DEF DriverInv

LEMMA SendFrameKeeps ==
  ASSUME DriverInv, SendFrame PROVE DriverInv' /\ Stage' = Stage
<1>1. CASE IsReady
  <2>1. pc = "ready" /\ pc' = "response" /\ UNCHANGED <<sub, Timer1, Timer2, CallVars>>
    BY <1>1 DEF SendFrame
  <2>2. Stage' = Stage
    BY <2>1 DEF Stage, Sending
  <2>3. Placed'
    BY <2>1, <2>2, StaysPlaced DEF DriverInv, CallVars
  <2>4. Asked'
    BY <2>1 DEF DriverInv, Asked, Sending, Address, CallVars
  <2>5. DriverTyped'
    BY <2>1 DEF DriverInv, DriverTyped, Pcs, CallVars
  <2> QED
    BY <2>2, <2>3, <2>4, <2>5 DEF DriverInv
<1>2. CASE ~IsReady
  <2>1. pc = "ready" /\ Respond(255) /\ UNCHANGED <<Timer1, Timer2, CallVars>> /\ 255 \in Byte
    BY <1>2 DEF SendFrame, Byte
  <2> QED
    BY <2>1, RespondKeeps
<1> QED
  BY <1>1, <1>2

LEMMA ResponseKeeps ==
  ASSUME DriverInv, rcvr_spi[1] \in Byte, Response PROVE DriverInv' /\ Stage' = Stage
<1>1. pc = "response" /\ UNCHANGED <<Timer1, Timer2, CallVars>> /\ 255 \in Byte
  BY DEF Response, Byte
<1>2. CASE rcvr_spi[1] < 128
  BY <1>1, <1>2, RespondKeeps DEF Response
<1>3. CASE ~(rcvr_spi[1] < 128) /\ sub.n = 1
  BY <1>1, <1>3, RespondKeeps DEF Response
<1>4. CASE ~(rcvr_spi[1] < 128) /\ sub.n # 1
  <2>1. sub' = [sub EXCEPT !.n = @ - 1] /\ UNCHANGED pc
    BY <1>4 DEF Response
  <2>2. sub \in SubStates /\ sub.n - 1 \in 1..TRIES
    BY <1>4, SubFields, CardAssumption DEF DriverInv, DriverTyped
  <2>3. /\ sub' \in SubStates /\ sub'.then = sub.then /\ sub'.cmd = sub.cmd /\ sub'.arg = sub.arg
        /\ sub'.app = sub.app
    BY <2>1, <2>2, SMTT(30) DEF SubStates
  <2>4. Stage' = Stage
    BY <2>1, <2>3 DEF Stage, Sending
  <2>5. Placed'
    BY <1>1, <2>1, <2>4, StaysPlaced DEF DriverInv, CallVars
  <2>6. Asked'
    BY <1>1, <2>1, <2>3 DEF DriverInv, Asked, Sending, Address, CallVars
  <2>7. DriverTyped'
    BY <1>1, <2>1, <2>3 DEF DriverInv, DriverTyped, CallVars
  <2> QED
    BY <2>4, <2>5, <2>6, <2>7 DEF DriverInv
<1> QED
  BY <1>2, <1>3, <1>4

LEMMA TokenKeeps ==
  ASSUME DriverInv, Token PROVE DriverInv'
<1>1. /\ pc = "token" /\ pc' \in {"token", "dma", "broken"}
      /\ UNCHANGED <<Timer1, Timer2, sub, CallVars>>
  BY DEF Token
<1>2. Asked'
  BY <1>1 DEF Asked, Sending
<1>5. call # NoCall /\ done \in Nat /\ done < call.count
  BY <1>1 DEF DriverInv, DriverTyped, Placed, Stage, Sending
<1>6. call.count \in Nat
  BY <1>5, CallFields DEF DriverInv
<1>3. Placed'
  BY <1>1, <1>5, <1>6 DEF DriverInv, Placed, Stage, Sending, CallVars, InitPcs, ReadPcs, WritePcs
<1>4. DriverTyped'
  BY <1>1 DEF DriverInv, DriverTyped, CallVars, Pcs, ReadPcs
<1> QED
  BY <1>2, <1>3, <1>4 DEF DriverInv

LEMMA DmaKeeps ==
  ASSUME DriverInv, rcvr_spi[1] \in Byte, Dma PROVE DriverInv'
<1>1. /\ pc = "dma" /\ Len(dma) < BLOCK /\ dma' = Append(dma, rcvr_spi[1])
      /\ UNCHANGED <<Timer1, Timer2, pc, sub, Stat, CardType, call, ty, buff, done>>
  BY DEF Dma
<1>2. Asked'
  BY <1>1 DEF Asked, Sending
<1>3. Placed'
  BY <1>1 DEF DriverInv, Placed, Stage, Sending
<1>4. dma \in Seq(Byte)
  BY DEF DriverInv, DriverTyped
<1>5. dma' \in Seq(Byte) /\ Len(dma') = Len(dma) + 1
  BY <1>1, <1>4
<1>6. Len(dma') <= BLOCK
  BY <1>1, <1>4, <1>5, CardAssumption, LenProperties
<1>7. DriverTyped'
  BY <1>1, <1>5, <1>6 DEF DriverInv, DriverTyped
<1> QED
  BY <1>2, <1>3, <1>7 DEF DriverInv

LEMMA DiscardCRCKeeps ==
  ASSUME DriverInv, DiscardCRC PROVE DriverInv'
<1>1. /\ pc = "dma" /\ dma' = <<>> /\ buff' = Append(buff, dma) /\ done' = done + 1
      /\ pc' = IF done + 1 < call.count THEN "token" ELSE "broken"
      /\ Timer1' = IF done + 1 < call.count THEN TOKEN_TICKS ELSE Timer1
      /\ UNCHANGED <<Timer2, sub, Stat, CardType, call, ty>>
  BY DEF DiscardCRC, WaitToken
<1>2. call # NoCall /\ done < call.count /\ done \in Nat /\ dma \in Seq(Byte) /\ buff \in Seq(Seq(Byte))
  BY <1>1 DEF DriverInv, DriverTyped, Placed, Stage, Sending
<1>3. call.count \in Nat
  BY <1>2, CallFields DEF DriverInv
<1>4. Asked'
  BY <1>1 DEF Asked, Sending
<1>5. Placed'
  BY <1>1, <1>2, <1>3 DEF DriverInv, Placed, Stage, Sending, InitPcs, ReadPcs, WritePcs
<1>6. buff' \in Seq(Seq(Byte)) /\ <<>> \in Seq(Byte) /\ Len(<<>>) <= BLOCK
  BY <1>1, <1>2, EmptySeq, CardAssumption
<1>7. DriverTyped'
  BY <1>1, <1>2, <1>6, TimersTyped DEF DriverInv, DriverTyped, Pcs, ReadPcs
<1> QED
  BY <1>4, <1>5, <1>7 DEF DriverInv

\* A call ends.
LEMMA ReplyKeeps ==
  ASSUME DriverInv, NEW res, Reply(res), Stat' \in BOOLEAN, CardType' \in Codes,
         UNCHANGED <<Timer1, Timer2>>
  PROVE DriverInv'
<1>1. /\ Asked' /\ Placed' /\ sub' \in SubStates /\ pc' = "idle"
      /\ call' = NoCall /\ ty' = 0 /\ dma' = <<>> /\ buff' = <<>> /\ done' = 0
  BY Replies
<1>2. <<>> \in Seq(Byte) /\ <<>> \in Seq(Seq(Byte)) /\ Len(<<>>) <= BLOCK
  BY EmptySeq, CardAssumption
<1>3. DriverTyped'
  BY <1>1, <1>2 DEF DriverInv, DriverTyped, Pcs, Codes
<1> QED
  BY <1>1, <1>3 DEF DriverInv

\* The call goes on with another command.
LEMMA SendKeeps ==
  ASSUME DriverInv, NEW cmd \in Commands, NEW arg \in Nat, NEW app \in BOOLEAN, NEW then \in Returns,
         SendThen(cmd, arg, app, then), UNCHANGED <<Stat, CardType, Timer2>>, Goes,
         Timer1' \in 0..Max({TOKEN_TICKS, INIT_TICKS}), ty' \in Codes
  PROVE /\ DriverTyped' /\ pc' = "select" /\ Sending' /\ Stage' = then
        /\ sub'.cmd = cmd /\ sub'.arg = arg /\ sub'.app = app /\ sub'.then = then
<1>1. /\ sub' \in SubStates /\ pc' = "select" /\ pc' \in Pcs /\ Sending' /\ Stage' = then
      /\ sub'.cmd = cmd /\ sub'.arg = arg /\ sub'.app = app /\ sub'.then = then
  BY Sent
<1>2. DriverTyped'
  BY <1>1 DEF DriverInv, DriverTyped, Goes
<1> QED
  BY <1>1, <1>2

\* A call starts with a command of its own.
LEMMA StartKeeps ==
  ASSUME DriverInv, Start PROVE DriverInv'
<1>1. pc = "start" /\ UNCHANGED <<Stat, CardType, Timer1, Timer2>>
  BY DEF Start
<1>2. call # NoCall /\ ty = 0 /\ Stage = "start"
  BY <1>1 DEF DriverInv, Placed, Stage, Sending
<1>3. CASE call.op \in {"read", "write"} /\ Stat
  <2>1. Reply("NOTRDY")
    BY <1>3 DEF Start
  <2> QED
    BY <1>1, <2>1, ReplyKeeps DEF DriverInv, DriverTyped
<1>4. CASE ~(call.op \in {"read", "write"} /\ Stat)
  <2>1. UNCHANGED ty /\ Goes
    BY <1>4 DEF Start
  <2>2. /\ call.op \in {"initialize", "poll", "read", "write"} /\ call.count \in Nat /\ Address \in Nat
        /\ ty' \in Codes /\ Timer1' \in 0..Max({TOKEN_TICKS, INIT_TICKS}) /\ TRUE \in BOOLEAN /\ FALSE \in BOOLEAN
    BY <1>1, <1>2, <2>1, CallFields, AddressTyped DEF DriverInv, DriverTyped
  <2>3. \E cmd \in Commands, arg \in Nat, app \in BOOLEAN, then \in Returns :
          /\ SendThen(cmd, arg, app, then)
          /\ \/ call.op = "initialize" /\ cmd = "CMD0" /\ then = "got0" /\ ~app
             \/ call.op = "poll" /\ cmd = "CMD58" /\ then = "gotpoll" /\ ~app
             \/ /\ call.op = "read" /\ cmd = IF call.count = 1 THEN "CMD17" ELSE "CMD18"
                /\ then = "gotread" /\ ~app /\ arg = Address
             \/ /\ call.op = "write" /\ then = "gotwrite" /\ ~app /\ arg = Address
                /\ cmd = IF call.count = 1 THEN "CMD24" ELSE "CMD25"
             \/ call.op = "write" /\ call.count # 1 /\ cmd = "CMD23" /\ then = "got23" /\ app
    <3>1. CASE call.op = "initialize"
      <4>1. SendThen("CMD0", 0, FALSE, "got0")
        BY <1>4, <3>1, Zenon DEF Start
      <4> QED
        BY <3>1, <4>1 DEF Commands, Returns
    <3>2. CASE call.op = "poll"
      <4>1. SendThen("CMD58", 0, FALSE, "gotpoll")
        BY <1>4, <3>2, Zenon DEF Start
      <4> QED
        BY <3>2, <4>1 DEF Commands, Returns
    <3>3. CASE call.op = "read"
      <4>1. SendThen(IF call.count = 1 THEN "CMD17" ELSE "CMD18", Address, FALSE, "gotread")
        BY <1>4, <3>3, Zenon DEF Start
      <4>2. (IF call.count = 1 THEN "CMD17" ELSE "CMD18") \in Commands /\ "gotread" \in Returns
        BY DEF Commands, Returns
      <4> QED
        BY <2>2, <3>3, <4>1, <4>2
    <3>4. CASE call.op = "write"
      <4>1. IF call.count = 1 THEN SendThen("CMD24", Address, FALSE, "gotwrite")
            ELSE IF CardType > 1 THEN SendThen("CMD23", call.count, TRUE, "got23")
            ELSE SendThen("CMD25", Address, FALSE, "gotwrite")
        BY <1>4, <3>4, Zenon DEF Start
      <4>2. {"CMD23", "CMD24", "CMD25"} \subseteq Commands /\ {"gotwrite", "got23"} \subseteq Returns
        BY DEF Commands, Returns
      <4>3. CASE call.count = 1
        BY <2>2, <3>4, <4>1, <4>2, <4>3
      <4>4. CASE call.count # 1 /\ CardType > 1
        BY <2>2, <3>4, <4>1, <4>2, <4>4
      <4>5. CASE call.count # 1 /\ ~(CardType > 1)
        BY <2>2, <3>4, <4>1, <4>2, <4>5
      <4> QED
        BY <4>3, <4>4, <4>5
    <3> QED
      BY <2>2, <3>1, <3>2, <3>3, <3>4
  <2>4. PICK cmd \in Commands, arg \in Nat, app \in BOOLEAN, then \in Returns :
          /\ SendThen(cmd, arg, app, then)
          /\ \/ call.op = "initialize" /\ cmd = "CMD0" /\ then = "got0" /\ ~app
             \/ call.op = "poll" /\ cmd = "CMD58" /\ then = "gotpoll" /\ ~app
             \/ /\ call.op = "read" /\ cmd = IF call.count = 1 THEN "CMD17" ELSE "CMD18"
                /\ then = "gotread" /\ ~app /\ arg = Address
             \/ /\ call.op = "write" /\ then = "gotwrite" /\ ~app /\ arg = Address
                /\ cmd = IF call.count = 1 THEN "CMD24" ELSE "CMD25"
             \/ call.op = "write" /\ call.count # 1 /\ cmd = "CMD23" /\ then = "got23" /\ app
    BY <2>3
  <2>5. /\ DriverTyped' /\ pc' = "select" /\ Sending' /\ Stage' = then
        /\ sub'.cmd = cmd /\ sub'.arg = arg /\ sub'.app = app /\ sub'.then = then
    BY <1>1, <2>1, <2>2, <2>4, SendKeeps
  <2>6. Asked'
    BY <1>1, <2>1, <2>4, <2>5 DEF Asked, Address, Goes
  <2>7. UNCHANGED <<call, Stat, ty, dma, buff, done>>
    BY <1>1, <2>1 DEF Goes
  <2>8. dma = <<>> /\ buff = <<>> /\ done = 0 /\ pc # "idle"
    BY <1>1, <1>2 DEF DriverInv, Placed
  <2>9. Placed'
    BY <1>2, <1>4, <2>2, <2>4, <2>5, <2>7, <2>8 DEF Placed, InitPcs, ReadPcs, WritePcs, DriverInv, DriverTyped
  <2> QED
    BY <2>5, <2>6, <2>9 DEF DriverInv
<1> QED
  BY <1>3, <1>4

LEMMA PolledKeeps ==
  ASSUME DriverInv, Polled PROVE DriverInv'
  BY ReplyKeeps DEF Polled, DriverInv, DriverTyped

\* A place of a call that goes on without a command.
LEMMA StepKeeps ==
  ASSUME DriverInv, pc' \in Pcs, ~Sending', Goes, ty' \in Codes, UNCHANGED <<Stat, CardType, sub>>,
         Timer1' \in 0..Max({TOKEN_TICKS, INIT_TICKS}), Timer2' \in 0..READY_TICKS
  PROVE DriverTyped' /\ Asked' /\ Stage' = pc'
  BY DEF DriverInv, DriverTyped, Asked, Stage, Goes

LEMMA DataReadKeeps ==
  ASSUME DriverInv, DataRead PROVE DriverInv'
<1>1. UNCHANGED <<Stat, CardType, Timer2>> /\ "CMD12" \in Commands /\ "stopped" \in Returns /\ 0 \in Nat
      /\ FALSE \in BOOLEAN
  BY DEF DataRead, Commands, Returns
<1>2. CASE pc = "gotread" /\ sub.res = 0
  <2>1. WaitToken("token") /\ Goes /\ UNCHANGED <<sub, ty>>
    BY <1>2 DEF DataRead
  <2>2. pc' = "token" /\ Timer1' = TOKEN_TICKS /\ ~Sending' /\ pc' \in Pcs
    BY <2>1 DEF WaitToken, Sending, Pcs, ReadPcs
  <2>3. DriverTyped' /\ Asked' /\ Stage' = pc'
    BY <1>1, <2>1, <2>2, StepKeeps, TimersTyped DEF DriverInv, DriverTyped
  <2>4. call # NoCall /\ done = 0 /\ call.op = "read" /\ ty = 0 /\ dma = <<>> /\ ~Stat
    BY <1>2 DEF DriverInv, Placed, Stage, Sending, ReadPcs
  <2>5. call.count > 0
    BY <2>4, CallFields DEF DriverInv
  <2>6. Placed'
    BY <1>1, <2>1, <2>2, <2>3, <2>4, <2>5 DEF Placed, Goes, InitPcs, ReadPcs, WritePcs
  <2> QED
    BY <2>3, <2>6 DEF DriverInv
<1>3. CASE /\ \E res : Reply(res)
           /\ UNCHANGED Timer1
  BY <1>1, <1>3, ReplyKeeps DEF DriverInv, DriverTyped
<1>4. CASE pc = "broken" /\ call.count # 1
  <2>1. SendThen("CMD12", 0, FALSE, "stopped") /\ Goes /\ UNCHANGED <<ty, Timer1>>
    BY <1>4 DEF DataRead
  <2>2. ty' \in Codes /\ Timer1' \in 0..Max({TOKEN_TICKS, INIT_TICKS})
    BY <2>1 DEF DriverInv, DriverTyped
  <2>3. /\ DriverTyped' /\ pc' = "select" /\ Sending' /\ Stage' = "stopped"
        /\ sub'.cmd = "CMD12" /\ sub'.arg = 0 /\ sub'.app = FALSE /\ sub'.then = "stopped"
    BY <1>1, <2>1, <2>2, SendKeeps
  <2>4. Asked'
    BY <2>3 DEF Asked, Returns
  <2>5. Placed'
    BY <1>1, <1>4, <2>1, <2>3 DEF DriverInv, Placed, Stage, Sending, Goes, InitPcs, ReadPcs, WritePcs
  <2> QED
    BY <2>3, <2>4, <2>5 DEF DriverInv
<1>5. \/ pc = "gotread" /\ sub.res = 0
      \/ (\E res : Reply(res)) /\ UNCHANGED Timer1
      \/ pc = "broken" /\ call.count # 1
  BY DEF DataRead
<1> QED
  BY <1>2, <1>3, <1>4, <1>5

LEMMA InitPlaced ==
  ASSUME DriverInv, Stage \in InitPcs, Stage' \in InitPcs, Goes, UNCHANGED Stat,
         pc # "idle", pc' \notin {"idle", "dma"},
         Stage' \in {"loop1", "got1", "got16"} => ty' \in {1, 2},
         Stage' \notin {"loop1", "got1", "got16", "initend"} => ty' = 0
  PROVE Placed'
<1>1. pc # "dma" /\ call # NoCall
  BY DEF Stage, Sending, InitPcs, DriverInv, Placed
<1>2. call.op = "initialize" /\ dma = <<>> /\ buff = <<>> /\ done = 0
  BY <1>1 DEF DriverInv, Placed, InitPcs
<1> QED
  BY <1>1, <1>2 DEF Placed, Goes, InitPcs, ReadPcs, WritePcs

Early(t) == t \in {1, 2}
LEMMA InitSend ==
  ASSUME DriverInv, Stage \in InitPcs, pc # "idle", Goes, UNCHANGED <<Stat, CardType, Timer2, ty>>,
         NEW cmd \in {"CMD8", "CMD41", "CMD1", "CMD58", "CMD16"}, NEW arg \in Nat, NEW app \in BOOLEAN,
         NEW then \in {"got8", "gotsd", "got41", "got58", "got1", "got16"},
         then = "got8" => cmd = "CMD8", then \in {"got41", "gotsd"} => cmd = "CMD41",
         then = "got58" => cmd = "CMD58", then = "got1" => cmd \in {"CMD41", "CMD1"},
         then = "got16" => cmd = "CMD16", app => cmd = "CMD41",
         then \in {"got1", "got16"} => Early(ty), then \notin {"got1", "got16"} => ty = 0,
         SendThen(cmd, arg, app, then), Timer1' \in 0..Max({TOKEN_TICKS, INIT_TICKS})
  PROVE DriverInv'
<1>1. cmd \in Commands /\ then \in Returns /\ then \in InitPcs /\ ty' \in Codes
  BY DEF Commands, Returns, InitPcs, DriverInv, DriverTyped
<1>2. /\ DriverTyped' /\ pc' = "select" /\ Sending' /\ Stage' = then
      /\ sub'.cmd = cmd /\ sub'.arg = arg /\ sub'.app = app /\ sub'.then = then
  BY <1>1, SendKeeps
<1>3. Asked'
  BY <1>1, <1>2 DEF Asked
<1>5. Placed'
  BY <1>1, <1>2, InitPlaced DEF Early
<1> QED
  BY <1>2, <1>3, <1>5 DEF DriverInv

\* disk_initialize goes on without a command.
LEMMA InitStep ==
  ASSUME DriverInv, pc \in InitPcs, pc' \in InitPcs, Goes, UNCHANGED <<Stat, CardType, sub>>,
         Timer1' \in 0..Max({TOKEN_TICKS, INIT_TICKS}), Timer2' \in 0..READY_TICKS, ty' \in Codes,
         pc' \in {"loop1", "got1", "got16"} => ty' \in {1, 2},
         pc' \notin {"loop1", "got1", "got16", "initend"} => ty' = 0
  PROVE DriverInv'
<1>1. /\ pc' \in Pcs /\ ~Sending' /\ Stage = pc /\ pc # "idle" /\ pc' \notin {"idle", "dma"}
  BY DEF Pcs, InitPcs, Sending, Stage
<1>2. DriverTyped' /\ Asked' /\ Stage' = pc'
  BY <1>1, StepKeeps
<1>3. Placed'
  BY <1>1, <1>2, InitPlaced
<1> QED
  BY <1>2, <1>3 DEF DriverInv

LEMMA InitializeKeeps ==
  ASSUME DriverInv, Initialize PROVE DriverInv'
<1>1. Goes /\ UNCHANGED <<Stat, CardType, Timer2>>
  BY DEF Initialize
<1>2. /\ Timer1 \in 0..Max({TOKEN_TICKS, INIT_TICKS}) /\ Timer2 \in 0..READY_TICKS /\ ty \in Codes
      /\ INIT_TICKS \in 0..Max({TOKEN_TICKS, INIT_TICKS})
      /\ {0, 1, 2, 4, 12} = Codes /\ BLOCK \in Nat /\ 0 \in Nat /\ 1 \in Nat /\ 426 \in Nat
      /\ TRUE \in BOOLEAN /\ FALSE \in BOOLEAN
  BY TimersTyped, CardAssumption DEF DriverInv, DriverTyped, Codes
<1>3. pc \in InitPcs => Stage = pc /\ pc # "idle"
  BY DEF Stage, Sending, InitPcs
<1>4. /\ pc \in {"got0", "got8", "loop2", "got41", "got58", "gotsd"} => ty = 0
      /\ pc \in {"loop1", "got1", "got16"} => ty \in {1, 2}
  BY DEF Stage, Sending, DriverInv, Placed
<1>5. CASE pc = "got0"
  <2>1. CASE sub.res = 1
    <3>1. SendThen("CMD8", 426, FALSE, "got8") /\ Timer1' = INIT_TICKS /\ UNCHANGED ty
      BY <1>5, <2>1 DEF Initialize
    <3>2. Stage \in InitPcs /\ pc # "idle" /\ ty = 0
      BY <1>3, <1>4, <1>5 DEF InitPcs
    <3> QED
      BY <1>1, <1>2, <3>1, <3>2, InitSend
  <2>2. CASE sub.res # 1
    BY <1>1, <1>2, <1>4, <1>5, <2>2, InitStep DEF Initialize, InitPcs
  <2> QED
    BY <2>1, <2>2
<1>6. CASE pc = "got8"
  <2>1. CASE sub.res = 1
    BY <1>1, <1>2, <1>4, <1>6, <2>1, InitStep DEF Initialize, InitPcs
  <2>2. CASE sub.res # 1
    BY <1>1, <1>2, <1>3, <1>4, <1>6, <2>2, InitSend DEF Initialize, InitPcs
  <2> QED
    BY <2>1, <2>2
<1>7. CASE pc = "loop2"
  <2>1. CASE Timer1 > 0
    BY <1>1, <1>2, <1>3, <1>4, <1>7, <2>1, InitSend DEF Initialize, InitPcs
  <2>2. CASE ~(Timer1 > 0)
    BY <1>1, <1>2, <1>4, <1>7, <2>2, InitStep DEF Initialize, InitPcs
  <2> QED
    BY <2>1, <2>2
<1>8. CASE pc = "got41"
  <2>1. CASE sub.res # 0
    BY <1>1, <1>2, <1>4, <1>8, <2>1, InitStep DEF Initialize, InitPcs
  <2>2. CASE sub.res = 0 /\ Timer1 > 0
    BY <1>1, <1>2, <1>3, <1>4, <1>8, <2>2, InitSend DEF Initialize, InitPcs
  <2>3. CASE sub.res = 0 /\ ~(Timer1 > 0)
    BY <1>1, <1>2, <1>4, <1>8, <2>3, InitStep DEF Initialize, InitPcs
  <2> QED
    BY <2>1, <2>2, <2>3
<1>9. CASE pc = "got58"
  <2>1. ty' \in Codes /\ pc' = "initend" /\ UNCHANGED <<Timer1, sub>>
    BY <1>2, <1>9 DEF Initialize, Codes
  <2> QED
    BY <1>1, <1>2, <1>9, <2>1, InitStep DEF InitPcs
<1>10. CASE pc = "gotsd"
  <2>1. ty' \in {1, 2} /\ ty' \in Codes /\ pc' = "loop1" /\ UNCHANGED <<Timer1, sub>>
    BY <1>2, <1>10 DEF Initialize, Codes
  <2> QED
    BY <1>1, <1>2, <1>10, <2>1, InitStep DEF InitPcs
<1>11. CASE pc = "loop1"
  <2>1. CASE Timer1 > 0
    <3>1. /\ SendThen(IF ty = 2 THEN "CMD41" ELSE "CMD1", 0, ty = 2, "got1")
          /\ UNCHANGED <<Timer1, ty>>
      BY <1>11, <2>1 DEF Initialize
    <3>2. PICK cmd \in {"CMD41", "CMD1"}, app \in BOOLEAN :
            SendThen(cmd, 0, app, "got1") /\ (app => cmd = "CMD41")
      <4>1. CASE ty = 2
        <5>1. SendThen("CMD41", 0, TRUE, "got1")
          BY <3>1, <4>1
        <5> QED
          BY <5>1
      <4>2. CASE ty # 2
        <5>1. SendThen("CMD1", 0, FALSE, "got1")
          BY <3>1, <4>2
        <5> QED
          BY <5>1
      <4> QED
        BY <4>1, <4>2
    <3>3. Stage \in InitPcs /\ pc # "idle" /\ ty \in {1, 2}
      BY <1>3, <1>4, <1>11 DEF InitPcs
    <3>4. Early(ty)
      BY <3>3 DEF Early
    <3> QED
      BY <1>1, <1>2, <3>1, <3>2, <3>3, <3>4, InitSend
  <2>2. CASE ~(Timer1 > 0)
    <3>1. ty' = 0 /\ pc' = "initend" /\ UNCHANGED <<Timer1, sub>>
      BY <1>11, <2>2 DEF Initialize
    <3> QED
      BY <1>1, <1>2, <1>11, <3>1, InitStep DEF InitPcs
  <2> QED
    BY <2>1, <2>2
<1>12. CASE pc = "got1"
  <2>1. CASE sub.res # 0
    BY <1>1, <1>2, <1>4, <1>12, <2>1, InitStep DEF Initialize, InitPcs
  <2>2. CASE sub.res = 0 /\ Timer1 > 0
    <3>1. SendThen("CMD16", BLOCK, FALSE, "got16") /\ UNCHANGED <<Timer1, ty>>
      BY <1>12, <2>2 DEF Initialize
    <3>2. Stage \in InitPcs /\ pc # "idle" /\ ty \in {1, 2}
      BY <1>3, <1>4, <1>12 DEF InitPcs
    <3>3. Early(ty)
      BY <3>2 DEF Early
    <3> QED
      BY <1>1, <1>2, <3>1, <3>2, <3>3, InitSend
  <2>3. CASE sub.res = 0 /\ ~(Timer1 > 0)
    <3>1. ty' = 0 /\ pc' = "initend" /\ UNCHANGED <<Timer1, sub>>
      BY <1>12, <2>3 DEF Initialize
    <3> QED
      BY <1>1, <1>2, <1>12, <3>1, InitStep DEF InitPcs
  <2> QED
    BY <2>1, <2>2, <2>3
<1>13. CASE pc = "got16"
  <2>1. ty' \in Codes /\ pc' = "initend" /\ UNCHANGED <<Timer1, sub>>
    BY <1>2, <1>13 DEF Initialize
  <2> QED
    BY <1>1, <1>2, <1>13, <2>1, InitStep DEF InitPcs
<1> QED
  BY <1>5, <1>6, <1>7, <1>8, <1>9, <1>10, <1>11, <1>12, <1>13 DEF Initialize

LEMMA InitEndKeeps ==
  ASSUME DriverInv, InitEnd PROVE DriverInv'
<1>1. CASE ty # 0
  BY <1>1, ReplyKeeps DEF InitEnd, DriverInv, DriverTyped
<1>2. CASE ty = 0
  <2>1. /\ pc = "initend" /\ pc' = "off" /\ Timer2' = READY_TICKS /\ Goes /\ CardType' = 0
        /\ UNCHANGED <<Stat, ty, sub, Timer1>>
    BY <1>2 DEF InitEnd, StartWaiting
  <2>2. ~Sending' /\ Stage' = "off" /\ Stage = "initend"
    BY <2>1 DEF Sending, Stage
  <2>3. DriverTyped'
    BY <2>1, TimersTyped DEF DriverInv, DriverTyped, Goes, Codes, Pcs, InitPcs
  <2>4. Placed'
    BY <1>2, <2>1, <2>2, InitPlaced DEF InitPcs
  <2> QED
    BY <2>2, <2>3, <2>4 DEF DriverInv, Asked
<1> QED
  BY <1>1, <1>2

LEMMA PowerOffKeeps ==
  ASSUME DriverInv, PowerOff PROVE DriverInv'
<1>1. Reply("NOTRDY") /\ Stat' = TRUE /\ UNCHANGED <<CardType, Timer1, Timer2>>
  BY DEF PowerOff
<1> QED
  BY <1>1, ReplyKeeps DEF DriverInv, DriverTyped

LEMMA StartWriteKeeps ==
  ASSUME DriverInv, StartWrite PROVE DriverInv'
<1>1. UNCHANGED <<Stat, CardType, Timer1>>
  BY DEF StartWrite
<1>2. CASE pc = "gotwrite" /\ sub.res = 0
  <2>1. StartWaiting("xready") /\ UNCHANGED <<sub, ty>> /\ Goes
    BY <1>2 DEF StartWrite
  <2>2. pc' = "xready" /\ Timer2' = READY_TICKS /\ pc' \in Pcs /\ ~Sending'
    BY <2>1 DEF StartWaiting, Pcs, WritePcs, Sending
  <2>3. DriverTyped' /\ Asked' /\ Stage' = pc'
    BY <1>1, <2>1, <2>2, StepKeeps, TimersTyped DEF DriverInv, DriverTyped
  <2>4. call # NoCall /\ done = 0 /\ call.op = "write" /\ ty = 0 /\ dma = <<>> /\ buff = <<>> /\ ~Stat
    BY <1>2 DEF DriverInv, Placed, Stage, Sending, WritePcs
  <2>5. call.count > 0
    BY <2>4, CallFields DEF DriverInv
  <2>6. Placed'
    BY <1>1, <2>1, <2>2, <2>3, <2>4, <2>5 DEF Placed, Goes, InitPcs, ReadPcs, WritePcs
  <2> QED
    BY <2>3, <2>6 DEF DriverInv
<1>3. CASE pc = "gotwrite" /\ sub.res # 0
  <2>1. Reply("ERROR") /\ UNCHANGED Timer2
    BY <1>3 DEF StartWrite
  <2> QED
    BY <1>1, <2>1, ReplyKeeps DEF DriverInv, DriverTyped
<1>4. CASE pc = "got23"
  <2>1. SendThen("CMD25", Address, FALSE, "gotwrite") /\ Goes /\ UNCHANGED <<ty, Timer2>>
    BY <1>4, Zenon DEF StartWrite
  <2>2. call # NoCall /\ done = 0 /\ call.op = "write" /\ ty = 0 /\ dma = <<>> /\ buff = <<>> /\ ~Stat
    BY <1>4 DEF DriverInv, Placed, Stage, Sending, WritePcs
  <2>3. call.count # 1
    BY <1>4 DEF DriverInv, Placed, Stage, Sending
  <2>4. Address \in Nat /\ "CMD25" \in Commands /\ "gotwrite" \in Returns /\ FALSE \in BOOLEAN
    BY <2>2, AddressTyped DEF DriverInv, Commands, Returns
  <2>5. ty' \in Codes /\ Timer1' \in 0..Max({TOKEN_TICKS, INIT_TICKS})
    BY <1>1, <2>1 DEF DriverInv, DriverTyped
  <2>6. /\ DriverTyped' /\ pc' = "select" /\ Sending' /\ Stage' = "gotwrite"
        /\ sub'.cmd = "CMD25" /\ sub'.arg = Address /\ sub'.app = FALSE /\ sub'.then = "gotwrite"
    BY <1>1, <2>1, <2>4, <2>5, SendKeeps
  <2>7. Asked'
    BY <1>1, <2>1, <2>3, <2>4, <2>6 DEF Asked, Address, Goes
  <2>8. Placed'
    BY <1>1, <2>1, <2>2, <2>3, <2>6 DEF Placed, Goes, InitPcs, ReadPcs, WritePcs
  <2> QED
    BY <2>6, <2>7, <2>8 DEF DriverInv
<1> QED
  BY <1>2, <1>3, <1>4 DEF StartWrite

\* A write goes on without a command.
LEMMA WriteStep ==
  ASSUME DriverInv, pc \in {"xready", "xresp", "stop"}, pc' \in {"xready", "xresp", "stop", "written"},
         UNCHANGED <<Stat, CardType, Timer1, sub, call, ty, dma, buff>>, Timer2' \in 0..READY_TICKS,
         done' \in Nat, pc' \in {"xready", "xresp"} => done' < call.count, done' <= call.count
  PROVE DriverInv'
<1>1. ~Sending' /\ Stage' = pc' /\ Stage = pc /\ pc' \in Pcs
  BY DEF Sending, Stage, Pcs, WritePcs
<1>2. call # NoCall /\ call.op = "write" /\ ty = 0 /\ dma = <<>> /\ buff = <<>> /\ ~Stat
  BY <1>1 DEF DriverInv, Placed, WritePcs
<1>3. Placed'
  BY <1>1, <1>2 DEF Placed, InitPcs, ReadPcs, WritePcs
<1>4. DriverTyped'
  BY <1>1 DEF DriverInv, DriverTyped
<1> QED
  BY <1>1, <1>3, <1>4 DEF DriverInv, Asked

LEMMA SendBlockKeeps ==
  ASSUME DriverInv, SendBlock PROVE DriverInv'
<1>1. pc = "xready" /\ UNCHANGED <<Timer1, sub, CallVars>>
  BY DEF SendBlock
<1>2. call # NoCall /\ done \in Nat /\ done < call.count
  BY <1>1 DEF DriverInv, DriverTyped, Placed, Stage, Sending
<1>3. call.count \in Nat
  BY <1>2, CallFields DEF DriverInv
<1>4. pc' \in {"xresp", "stop", "written"} /\ Timer2' \in 0..READY_TICKS
  BY <1>1, TimersTyped DEF SendBlock, AfterBlock, StartWaiting, DriverInv, DriverTyped
<1> QED
  BY <1>1, <1>2, <1>3, <1>4, WriteStep DEF CallVars

LEMMA BlockSentKeeps ==
  ASSUME DriverInv, BlockSent PROVE DriverInv'
<1>1. pc = "xresp" /\ UNCHANGED <<Timer1, sub, Stat, CardType, call, ty, dma, buff>>
  BY DEF BlockSent
<1>2. call # NoCall /\ done \in Nat /\ done < call.count
  BY <1>1 DEF DriverInv, DriverTyped, Placed, Stage, Sending
<1>3. call.count \in Nat
  BY <1>2, CallFields DEF DriverInv
<1>4. done' = (IF Accepted THEN done + 1 ELSE done)
  BY DEF BlockSent
<1>5. /\ pc' \in {"xready", "stop", "written"} /\ Timer2' \in 0..READY_TICKS
      /\ pc' = "xready" => done' < call.count
  BY TimersTyped DEF BlockSent, StartWaiting, DriverInv, DriverTyped
<1> QED
  BY <1>1, <1>2, <1>3, <1>4, <1>5, WriteStep

LEMMA StopTranKeeps ==
  ASSUME DriverInv, StopTran PROVE DriverInv'
<1>1. /\ pc = "stop" /\ pc' = "written" /\ done' = IF IsReady THEN done ELSE 0
      /\ UNCHANGED <<Timer1, Timer2, sub, Stat, CardType, call, ty, dma, buff>>
  BY DEF StopTran
<1>2. call # NoCall /\ done \in Nat /\ done <= call.count
  BY <1>1 DEF DriverInv, DriverTyped, Placed, Stage, Sending
<1>3. call.count \in Nat
  BY <1>2, CallFields DEF DriverInv
<1> QED
  BY <1>1, <1>2, <1>3, WriteStep DEF DriverInv, DriverTyped

LEMMA WrittenKeeps ==
  ASSUME DriverInv, Written PROVE DriverInv'
  BY ReplyKeeps DEF Written, DriverInv, DriverTyped

LEMMA DriverKeeps ==
  ASSUME DriverInv, rcvr_spi[1] \in Byte, Driver PROVE DriverInv'
  BY SelectKeeps, WaitReadyKeeps, SendFrameKeeps, ResponseKeeps, TokenKeeps, DmaKeeps, DiscardCRCKeeps,
     StartKeeps, PolledKeeps, DataReadKeeps, InitializeKeeps, InitEndKeeps, PowerOffKeeps,
     StartWriteKeeps, SendBlockKeeps, BlockSentKeeps, StopTranKeeps, WrittenKeeps
  DEF Driver

\* The rest of the world does not move the driver.
LEMMA OthersKeep ==
  ASSUME DriverInv, slot \in Cards \cup {"none"}, Ask \/ Deliver \/ Programmed \/ Die \/ Swap \/ Tick
  PROVE DriverInv'
<1>1. CASE Ask
  <2>1. /\ call = NoCall /\ pc' = "start" /\ call' \in CallStates
        /\ UNCHANGED <<Stat, CardType, Timer1, Timer2, sub, ty, dma, buff, done>>
    BY <1>1 DEF Ask, CallStates
  <2>2. pc = "idle" /\ ~Sending' /\ Stage' = "start" /\ Stage = "idle" /\ call' # NoCall /\ "start" \in Pcs
    BY <2>1 DEF DriverInv, Placed, Sending, Stage, CallStates, NoCall, Pcs
  <2>3. Placed'
    BY <2>1, <2>2 DEF DriverInv, Placed, InitPcs, ReadPcs, WritePcs
  <2>4. DriverTyped'
    BY <2>1, <2>2 DEF DriverInv, DriverTyped
  <2> QED
    BY <2>2, <2>3, <2>4 DEF DriverInv, Asked
<1>2. CASE Deliver \/ Programmed
  BY <1>2, SamePlace DEF Deliver, Programmed, driverVars, DriverInv, DriverTyped
<1>3. CASE Die \/ Swap
  <2>1. /\ UNCHANGED <<pc, sub, Stat, CardType, ty, dma, buff, done, Timer1, Timer2>>
        /\ call' = (IF call = NoCall THEN call ELSE [call EXCEPT !.well = FALSE])
    BY <1>3 DEF Die, Swap
  <2>2. CASE call = NoCall
    BY <2>1, <2>2, SamePlace DEF DriverInv, DriverTyped
  <2>3. CASE call # NoCall
    <3>1. call \in CallStates
      BY <2>3 DEF DriverInv, DriverTyped
    <3>2. call' = [call EXCEPT !.well = FALSE]
      BY <2>1, <2>3
    <3>3. /\ call' \in CallStates /\ call'.op = call.op /\ call'.count = call.count
          /\ call'.sector = call.sector
      BY <3>1, <3>2 DEF CallStates
    <3>4. call' # NoCall
      BY <3>3 DEF CallStates, NoCall
    <3>5. Sending' = Sending /\ Stage' = Stage /\ Address' = Address
      BY <2>1, <3>3 DEF Sending, Stage, Address
    <3>6. Placed'
      BY <2>1, <2>3, <3>3, <3>4, <3>5 DEF DriverInv, Placed
    <3>7. Asked'
      BY <2>1, <3>3, <3>5 DEF DriverInv, Asked
    <3>8. DriverTyped'
      BY <2>1, <3>3 DEF DriverInv, DriverTyped
    <3> QED
      BY <3>6, <3>7, <3>8 DEF DriverInv
  <2> QED
    BY <2>2, <2>3
<1>4. CASE Tick
  <2>1. /\ Timer1' = Max({Timer1 - 1, 0}) /\ Timer2' = Max({Timer2 - 1, 0})
        /\ UNCHANGED <<pc, sub, Stat, CardType, call, ty, dma, buff, done>>
    BY <1>4 DEF Tick
  <2>2. Timer1 \in 0..Max({TOKEN_TICKS, INIT_TICKS}) /\ Timer2 \in 0..READY_TICKS
    BY DEF DriverInv, DriverTyped
  <2>3. Timer1 \in Nat /\ Timer2 \in Nat
    BY <2>2
  <2>4. /\ Timer1' = IF Timer1 - 1 >= 0 THEN Timer1 - 1 ELSE 0
        /\ Timer2' = IF Timer2 - 1 >= 0 THEN Timer2 - 1 ELSE 0
    BY <2>1, <2>3, MaxPair
  <2>5. Max({TOKEN_TICKS, INIT_TICKS}) \in Nat /\ READY_TICKS \in Nat
    BY MaxPair, CardAssumption
  <2>6. Timer1' \in 0..Max({TOKEN_TICKS, INIT_TICKS}) /\ Timer2' \in 0..READY_TICKS
    BY <2>2, <2>3, <2>4, <2>5
  <2> QED
    BY <2>1, <2>6, SamePlace
<1> QED
  BY <1>1, <1>2, <1>3, <1>4
-----------------------------------------------------------------------------
(* The card's side.                                                        *)

Moves == card' = card \/ \E n \in 1..4 : card' = Shifted(n)
Hears == /\ SendFrame /\ IsReady
         /\ \E d \in Reactions(Shifted(1 + FRAME), Command, sub.arg) : card' = Skip(d, Command)
Sets  == SendBlock /\ IsReady /\ Stores(Shifted(1), call.data[done + 1])

LEMMA DriverLine ==
  ASSUME Driver
  PROVE /\ UNCHANGED <<slot, mishaps>>
        /\ \/ Moves /\ UNCHANGED mem
           \/ Hears /\ UNCHANGED mem
           \/ Sets
           \/ StopTran /\ UNCHANGED mem
<1>1. UNCHANGED <<slot, mishaps>>
  BY DEF Driver, Select, WaitReady, SendFrame, Response, Token, Dma, DiscardCRC, Start, Polled, DataRead,
     Initialize, InitEnd, PowerOff, StartWrite, SendBlock, BlockSent, StopTran, Written, Socket
<1>2. CASE Select \/ WaitReady \/ Response \/ Token \/ Dma \/ DiscardCRC
  BY <1>1, <1>2 DEF Moves, Select, WaitReady, Response, Token, Dma, DiscardCRC, StartWaiting
<1>9. CASE Start
  <2>1. UNCHANGED <<card, mem>>
    BY <1>9, Zenon DEF Start
  <2> QED
    BY <1>1, <2>1 DEF Moves
<1>3. CASE Polled \/ DataRead \/ InitEnd \/ PowerOff \/ Written
  <2>1. (card' = card \/ card' = Shifted(1) \/ card' = Shifted(4)) /\ UNCHANGED mem
    <3>1. CASE Polled
      BY <3>1, Zenon DEF Polled
    <3>2. CASE DataRead
      BY <3>2, Zenon DEF DataRead
    <3>3. CASE InitEnd
      BY <3>3, Zenon DEF InitEnd, StartWaiting
    <3>4. CASE PowerOff
      BY <3>4, Zenon DEF PowerOff
    <3>5. CASE Written
      BY <3>5, Zenon DEF Written
    <3> QED
      BY <1>3, <3>1, <3>2, <3>3, <3>4, <3>5
  <2> QED
    BY <1>1, <2>1 DEF Moves
<1>4. CASE Initialize
  <2>1. card' = card \/ card' = Shifted(4)
    BY <1>4, Zenon DEF Initialize
  <2>2. UNCHANGED mem
    BY <1>4, Zenon DEF Initialize
  <2> QED
    BY <1>1, <2>1, <2>2 DEF Moves
<1>5. CASE StartWrite
  <2>1. (card' = card \/ card' = Shifted(1)) /\ UNCHANGED mem
    BY <1>5, Zenon DEF StartWrite, StartWaiting
  <2> QED
    BY <1>1, <2>1 DEF Moves
<1>6. CASE BlockSent
  BY <1>1, <1>6 DEF Moves, BlockSent, StartWaiting
<1>7. CASE SendFrame
  BY <1>1, <1>7 DEF Moves, SendFrame, Hears
<1>8. CASE SendBlock
  BY <1>1, <1>8 DEF Moves, SendBlock, AfterBlock, StartWaiting, Sets
<1> QED
  BY <1>1, <1>2, <1>3, <1>4, <1>5, <1>6, <1>7, <1>8, <1>9 DEF Driver, StopTran

\* The line moves on: all but what is left of it is as it was.
LEMMA LineMoved ==
  ASSUME card \in CardStates, Moves, UNCHANGED slot
  PROVE /\ card' \in CardStates
        /\ card'.mode = card.mode /\ card'.app = card.app /\ card'.from = card.from /\ card'.rx = card.rx
        /\ card'.more = card.more /\ card'.busy = card.busy /\ card'.prog = card.prog
        /\ card'.dead = card.dead
        /\ Alive' = Alive /\ Awake' = Awake
        /\ card.out = <<>> => card'.out = <<>>
        /\ NoData(card.out) => NoData(card'.out)
        /\ AllData(card.out) => AllData(card'.out)
        /\ Len(card'.out) <= Len(card.out)
        /\ ~Alive => card' = card
<1>1. CASE card' = card
  BY <1>1, CardFields DEF Alive, Awake, Present
<1>2. CASE \E n \in 1..4 : card' = Shifted(n)
  <2>1. PICK n \in 1..4 : card' = Shifted(n)
    BY <1>2
  <2>2. n \in Nat
    OBVIOUS
  <2>3. PICK d : d = card'
    OBVIOUS
  <2>4. /\ d \in CardStates
        /\ d.mode = card.mode /\ d.app = card.app /\ d.from = card.from /\ d.rx = card.rx
        /\ d.more = card.more /\ d.busy = card.busy /\ d.prog = card.prog /\ d.dead = card.dead
        /\ Len(d.out) \in Nat /\ DOMAIN d.out = 1..Len(d.out)
        /\ d.out # <<>> <=> Len(d.out) > 0
        /\ ~Alive => d = card
        /\ Alive => Len(d.out) = IF n <= Len(card.out) THEN Len(card.out) - n ELSE 0
        /\ Alive => \A i \in DOMAIN d.out : i + n \in DOMAIN card.out /\ d.out[i] = card.out[i + n]
    BY <2>1, <2>2, <2>3, ShiftedLine
  <2>5. Len(card.out) \in Nat /\ (card.out # <<>> <=> Len(card.out) > 0)
    BY CardFields
  <2>6. Len(d.out) <= Len(card.out) /\ (card.out = <<>> => d.out = <<>>)
    BY <2>4, <2>5
  <2>7. NoData(card.out) => NoData(d.out)
    BY <2>4 DEF NoData
  <2>8. AllData(card.out) => AllData(d.out)
    BY <2>4 DEF AllData
  <2> QED
    BY <2>3, <2>4, <2>6, <2>7, <2>8 DEF Alive, Awake, Present
<1> QED
  BY <1>1, <1>2 DEF Moves

\* The shifted card, as a card of its own.
LEMMA ShiftedCard ==
  ASSUME card \in CardStates, NEW n \in Nat
  PROVE /\ Shifted(n) \in CardStates
        /\ Shifted(n).mode = card.mode /\ Shifted(n).from = card.from /\ Shifted(n).rx = card.rx
        /\ Shifted(n).more = card.more /\ Shifted(n).busy = card.busy /\ Shifted(n).prog = card.prog
        /\ Shifted(n).dead = card.dead
        /\ NoData(card.out) => NoData(Shifted(n).out)
        /\ ~Alive => Shifted(n) = card
        /\ card.out = <<>> => Shifted(n) = card
<1>1. PICK d : d = Shifted(n)
  OBVIOUS
<1>2. /\ d \in CardStates
      /\ d.mode = card.mode /\ d.app = card.app /\ d.from = card.from /\ d.rx = card.rx
      /\ d.more = card.more /\ d.busy = card.busy /\ d.prog = card.prog /\ d.dead = card.dead
      /\ Len(d.out) \in Nat /\ DOMAIN d.out = 1..Len(d.out)
      /\ d.out # <<>> <=> Len(d.out) > 0
      /\ ~Alive => d = card
      /\ Alive => Len(d.out) = IF n <= Len(card.out) THEN Len(card.out) - n ELSE 0
      /\ Alive => \A i \in DOMAIN d.out : i + n \in DOMAIN card.out /\ d.out[i] = card.out[i + n]
  BY <1>1, ShiftedLine
<1>3. NoData(card.out) => NoData(d.out)
  BY <1>2 DEF NoData
<1>4. card.out = <<>> => d = card
  BY <1>1 DEF Shifted, Shifts
<1> QED
  BY <1>1, <1>2, <1>3, <1>4

\* No card hears the frame.
Deaf == ~Awake /\ ~(Alive /\ Command = "CMD0")

LEMMA FrameSent ==
  ASSUME Hears
  PROVE /\ pc = "ready" /\ pc' = "response" /\ IsReady
        /\ UNCHANGED <<mem, Timer1, Timer2, sub, taken, Stat, CardType, call, ty, dma, buff, done, result,
                       calls, slot, mishaps>>
  BY DEF Hears, SendFrame, CallVars, Socket

LEMMA CommandSent ==
  ASSUME DriverInv, Sending
  PROVE Command \in Commands /\ (sub.then = "stopped" => Command = "CMD12")
  BY DEF DriverInv, Asked, Command, Commands, Returns

LEMMA HeardBy ==
  ASSUME CardTyped, MemTyped, DriverInv, Asleep, Still, Hears
  PROVE \/ Deaf /\ card' = Shifted(1 + FRAME)
        \/ ~Deaf /\ Answers(Shifted(1 + FRAME), Command, sub.arg, card')
<1> DEFINE c == Shifted(1 + FRAME)
<1>1. PICK d \in Reactions(c, Command, sub.arg) : card' = Skip(d, Command)
  BY DEF Hears
<1>2. 1 + FRAME \in Nat /\ card \in CardStates
  BY CardAssumption DEF CardTyped
<1>3. /\ c \in CardStates /\ c.mode = card.mode /\ c.from = card.from /\ c.dead = card.dead
      /\ NoData(card.out) => NoData(c.out)
      /\ ~Alive => c = card
      /\ card.out = <<>> => c = card
  BY <1>2, ShiftedCard
<1> HIDE DEF c
<1>4. pc = "ready" /\ Sending /\ Stage = sub.then
  BY FrameSent DEF Sending, Stage
<1>5. Command \in Commands /\ (sub.then = "stopped" => Command = "CMD12")
  BY <1>4, CommandSent
<1>6. CASE Deaf
  <2>1. d = c /\ (Alive \/ Skip(d, Command) = c)
    BY <1>3, <1>6, NotHeard DEF Deaf
  <2>2. d = c /\ Skip(c, Command) = c
    <3>1. d = c
      BY <2>1
    <3>2. CASE ~Alive
      BY <3>1, <2>1, <3>2
    <3>3. CASE Alive
      <4>1. c.out = <<>>
        BY <1>3, <1>6, <3>3 DEF Deaf, Awake, Asleep
      <4> QED
        BY <3>1, <4>1, Zenon DEF Skip
    <3> QED
      BY <3>2, <3>3
  <2> QED
    BY <1>1, <1>6, <2>2 DEF c
<1>7. CASE ~Deaf
  <2>1. Present /\ c.dead = "no" /\ (c.mode # "off" \/ Command = "CMD0")
    BY <1>3, <1>7 DEF Deaf, Awake, Alive
  <2>2. ~IsSending(c) \/ Command = "CMD12"
    <3>1. CASE Awake /\ sub.then = "stopped"
      BY <1>5, <3>1
    <3>2. CASE Awake /\ sub.then # "stopped"
      <4>1. Quiet
        BY <1>4, <3>2 DEF Still, Expecting, Stopping
      <4> QED
        BY <1>3, <4>1 DEF Quiet, IsSending, NoData
    <3>3. CASE ~Awake
      <4>1. card.out = <<>> /\ card.from = Nowhere
        BY <1>7, <3>3 DEF Deaf, Awake, Asleep
      <4>2. c = card /\ DOMAIN c.out = {}
        BY <1>3, <4>1
      <4> QED
        BY <4>1, <4>2 DEF IsSending
    <3> QED
      BY <3>1, <3>2, <3>3
  <2>3. Typed
    BY DEF Typed, DriverInv
  <2>4. Answers(c, Command, sub.arg, card')
    BY <1>1, <1>3, <1>5, <2>1, <2>2, <2>3, Answering
  <2> QED
    BY <1>7, <2>4 DEF c
<1> QED
  BY <1>6, <1>7

\* What becomes of a block that is sent.
Ignored == (~Alive \/ card.rx = Nowhere) /\ card' = Shifted(1) /\ UNCHANGED mem
Kept ==
  /\ card' \in CardStates /\ card'.mode = card.mode /\ card'.from = card.from
  /\ card'.more = card.more /\ card'.dead = card.dead
Takes ==
  /\ Alive /\ card.rx # Nowhere /\ card.rx \in DOMAIN mem[slot] /\ Kept
  /\ card'.out = <<<<5, "data">>>> /\ card'.busy
  /\ card'.prog = <<card.rx, mem[slot][card.rx]>>
  /\ card'.rx = IF card.more THEN card.rx + 1 ELSE Nowhere
  /\ mem' = [mem EXCEPT ![slot][card.rx] = call.data[done + 1]]
Refuses ==
  /\ Alive /\ card.rx # Nowhere /\ Kept
  /\ card'.out = <<<<13, "data">>>> /\ card'.busy = card.busy /\ card'.prog = card.prog
  /\ UNCHANGED mem

LEMMA BlockSet ==
  ASSUME Sets
  PROVE /\ pc = "xready" /\ pc' = "xresp" /\ IsReady
        /\ UNCHANGED <<Timer1, Timer2, sub, taken, Stat, CardType, call, ty, dma, buff, done, result,
                       calls, slot, mishaps>>
  BY DEF Sets, SendBlock, CallVars, Socket, TimedOut, IsReady

LEMMA OneByte ==
  /\ \E s \in Seq(Bytes) : s = <<<<5, "data">>>>
  /\ \E s \in Seq(Bytes) : s = <<<<13, "data">>>>
<1>1. <<5, "data">> \in Bytes /\ <<13, "data">> \in Bytes
  BY DEF Bytes, Byte
<1> HIDE DEF Bytes
<1>2. <<<<5, "data">>>> \in Seq(Bytes) /\ <<<<13, "data">>>> \in Seq(Bytes)
  BY <1>1
<1> QED
  BY <1>2, Zenon

LEMMA Onward ==
  ASSUME NEW more \in BOOLEAN, NEW at \in Nat
  PROVE \E r \in Nat \cup {Nowhere} : r = IF more THEN at + 1 ELSE Nowhere
<1>1. CASE more
  BY <1>1
<1>2. CASE ~more
  BY <1>2
<1> QED
  BY <1>1, <1>2

LEMMA SetBy ==
  ASSUME CardTyped, MemTyped, DriverInv, Sets
  PROVE Ignored \/ Takes \/ Refuses
<1> DEFINE c == Shifted(1)
           b == call.data[done + 1]
<1>1. Stores(c, b)
  BY DEF Sets
<1>2. card \in CardStates /\ 1 \in Nat
  BY DEF CardTyped
<1>3. /\ c \in CardStates /\ c.mode = card.mode /\ c.from = card.from /\ c.dead = card.dead
      /\ c.rx = card.rx /\ c.more = card.more /\ c.busy = card.busy /\ c.prog = card.prog
  BY <1>2, ShiftedCard
<1> HIDE DEF c, b
<1>4. CASE ~Present \/ c.dead # "no" \/ c.rx = Nowhere
  <2>1. card' = c /\ UNCHANGED mem
    BY <1>1, <1>4 DEF Stores
  <2> QED
    BY <1>3, <1>4, <2>1 DEF Ignored, Alive, c
<1>5. CASE Present /\ c.dead = "no" /\ c.rx # Nowhere
  <2>1. Alive /\ card.rx # Nowhere /\ card.rx \in Nat /\ card.more \in BOOLEAN
    BY <1>2, <1>3, <1>5, CardFields DEF Alive
  <2>2. CASE /\ c.rx \in DOMAIN mem[slot]
             /\ card' = [c EXCEPT !.out = <<<<5, "data">>>>, !.busy = TRUE,
                               !.prog = <<c.rx, mem[slot][c.rx]>>,
                               !.rx = IF c.more THEN @ + 1 ELSE Nowhere]
             /\ mem' = [mem EXCEPT ![slot][c.rx] = b]
    <3>1. mem[slot][c.rx] \in Block
      BY <1>5, <2>2 DEF MemTyped, CardTyped, Present
    <3>2. PICK p \in Nat \X Block : p = <<c.rx, mem[slot][c.rx]>>
      BY <1>3, <2>1, <3>1
    <3>3. PICK s \in Seq(Bytes) : s = <<<<5, "data">>>>
      BY OneByte
    <3>4. PICK r \in Nat \cup {Nowhere} : r = IF c.more THEN c.rx + 1 ELSE Nowhere
      BY <1>3, <2>1, Onward
    <3>5. card' = [c EXCEPT !.out = s, !.busy = TRUE, !.prog = p, !.rx = r]
      BY <2>2, <3>2, <3>3, <3>4
    <3>6. /\ card' \in CardStates /\ card'.mode = c.mode /\ card'.from = c.from /\ card'.more = c.more
          /\ card'.dead = c.dead /\ card'.out = s /\ card'.busy /\ card'.prog = p /\ card'.rx = r
      BY <1>3, <3>5 DEF CardStates
    <3> QED
      BY <1>3, <2>1, <2>2, <3>2, <3>3, <3>4, <3>6 DEF Takes, Kept, b
  <2>3. CASE /\ card' = [c EXCEPT !.out = <<<<13, "data">>>>, !.rx = IF c.more THEN @ ELSE Nowhere]
             /\ UNCHANGED mem
    <3>1. PICK s \in Seq(Bytes) : s = <<<<13, "data">>>>
      BY OneByte
    <3>2. PICK r \in Nat \cup {Nowhere} : r = IF c.more THEN c.rx ELSE Nowhere
      BY <1>3, <2>1
    <3>3. card' = [c EXCEPT !.out = s, !.rx = r]
      BY <2>3, <3>1, <3>2
    <3>4. /\ card' \in CardStates /\ card'.mode = c.mode /\ card'.from = c.from /\ card'.more = c.more
          /\ card'.dead = c.dead /\ card'.out = s /\ card'.busy = c.busy /\ card'.prog = c.prog
      BY <1>3, <3>3 DEF CardStates
    <3> QED
      BY <1>3, <2>1, <2>3, <3>1, <3>4 DEF Refuses, Kept
  <2> QED
    BY <1>1, <1>5, <2>2, <2>3, Zenon DEF Stores
<1> QED
  BY <1>4, <1>5

\* The block goes where it went before: the store keeps its type.
LEMMA MemSet ==
  ASSUME MemTyped, slot \in Cards, NEW at, NEW b \in Block, mem' = [mem EXCEPT ![slot][at] = b]
  PROVE MemTyped' /\ \A c \in Cards : DOMAIN mem'[c] = DOMAIN mem[c]
<1>1. \A c \in Cards : mem'[c] = IF c = slot THEN [mem[slot] EXCEPT ![at] = b] ELSE mem[c]
  BY DEF MemTyped
<1>2. mem' = [c \in Cards |-> mem'[c]]
  BY DEF MemTyped
<1>3. \A c \in Cards : mem'[c] \in [DOMAIN Contents[c] -> Block]
  BY <1>1 DEF MemTyped
<1> QED
  BY <1>2, <1>3 DEF MemTyped

LEMMA StopTranLine ==
  ASSUME CardTyped, StopTran
  PROVE /\ card' \in CardStates /\ card'.mode = card.mode /\ card'.from = card.from
        /\ card'.dead = card.dead /\ card'.busy = card.busy /\ card'.prog = card.prog
        /\ NoData(card.out) => NoData(card'.out)
        /\ card.out = <<>> => card'.out = <<>>
        /\ card'.rx \in {card.rx, Nowhere} /\ UNCHANGED slot
<1>1. card \in CardStates /\ 1 \in Nat /\ UNCHANGED slot
  BY DEF CardTyped, StopTran, Socket
<1>2. PICK c : c = Shifted(1)
  OBVIOUS
<1>3. /\ c \in CardStates /\ c.mode = card.mode /\ c.from = card.from /\ c.dead = card.dead
      /\ c.rx = card.rx /\ c.more = card.more /\ c.busy = card.busy /\ c.prog = card.prog
      /\ NoData(card.out) => NoData(c.out)
      /\ card.out = <<>> => c = card
  BY <1>1, <1>2, ShiftedCard
<1>4. card' = card \/ card' = [c EXCEPT !.rx = Nowhere]
  BY <1>2 DEF StopTran
<1>5. CASE card' = [c EXCEPT !.rx = Nowhere]
  <2>1. /\ card' \in CardStates /\ card'.mode = c.mode /\ card'.from = c.from /\ card'.dead = c.dead
        /\ card'.busy = c.busy /\ card'.prog = c.prog /\ card'.out = c.out /\ card'.rx = Nowhere
    BY <1>3, <1>5 DEF CardStates
  <2> QED
    BY <1>1, <1>3, <2>1
<1> QED
  BY <1>1, <1>4, <1>5

\* A frame that is heard is answered, by a card that is not busy; one that is
\* not goes to a card that stays as silent as it was.
Silent == /\ ~Awake /\ ~Awake' /\ card' \in CardStates /\ card'.mode = card.mode /\ card'.dead = card.dead
          /\ (card.mode = "off" => card' = card) /\ (~Alive => card' = card)
Response1 ==
  /\ Awake' /\ card' \in CardStates /\ Command \in Commands
  /\ Answers(Shifted(1 + FRAME), Command, sub.arg, card')
  /\ card'.out # <<>> /\ card'.out[1][2] = Command /\ card'.out[1][1] < 128 /\ NoData(card'.out)
  /\ ~card.busy /\ ~card'.busy
  /\ card'.from = Nowhere \/ (Command \in {"CMD17", "CMD18"} /\ card'.out[1][1] = 0)
  /\ card'.mode = (IF Command = "CMD0" THEN "idle" ELSE card.mode) \/ Command \in {"CMD1", "CMD41"}
  /\ Awake \/ Command = "CMD0"

LEMMA Heard ==
  ASSUME CardInv, Hears
  PROVE Silent \/ Response1
<1>1. CardTyped /\ MemTyped /\ DriverInv /\ Asleep /\ Still /\ Busy
  BY DEF CardInv, Typed, Settled, Line, DriverInv
<1>2. /\ pc = "ready" /\ IsReady /\ UNCHANGED slot
  BY FrameSent
<1>3. card \in CardStates /\ 1 + FRAME \in Nat
  BY <1>1, CardAssumption DEF CardTyped
<1>4. PICK c : c = Shifted(1 + FRAME)
  OBVIOUS
<1>5. /\ c \in CardStates /\ c.mode = card.mode /\ c.from = card.from
      /\ c.busy = card.busy /\ c.dead = card.dead
      /\ ~Alive => c = card
      /\ card.out = <<>> => c = card
  BY <1>3, <1>4, ShiftedCard
<1>6. CASE Deaf /\ card' = c
  <2>1. ~Awake
    BY <1>6 DEF Deaf
  <2>2. card.mode = "off" => card' = card
    BY <1>1, <1>5, <1>6 DEF Asleep
  <2> QED
    BY <1>2, <1>5, <1>6, <2>1, <2>2 DEF Silent, Awake, Alive, Present
<1>7. CASE ~Deaf /\ Answers(c, Command, sub.arg, card')
  <2>1. Sending /\ Stage = sub.then
    BY <1>2 DEF Sending, Stage
  <2>2. Command \in Commands /\ (sub.then = "stopped" => Command = "CMD12")
    BY <1>1, <2>1, CommandSent
  <2>3. /\ card' \in CardStates /\ card'.dead = "no" /\ card'.mode # "off"
        /\ Len(card'.out) >= 1 /\ card'.out[1][1] < 128
        /\ \A i \in DOMAIN card'.out : card'.out[i][2] = Command
        /\ card'.busy <=> (Command # "CMD0" /\ c.busy)
        /\ card'.mode = (IF Command = "CMD0" THEN "idle" ELSE c.mode) \/ Command \in {"CMD1", "CMD41"}
        /\ \/ card'.from = (IF Command \in {"CMD0", "CMD12"} THEN Nowhere ELSE c.from)
           \/ Command \in {"CMD17", "CMD18"} /\ card'.out[1][1] = 0
    BY <1>7 DEF Answers, Answer
  <2>4. card'.out \in Seq(Bytes)
    BY <2>3 DEF CardStates
  <2>5. card'.out # <<>> /\ DOMAIN card'.out = 1..Len(card'.out) /\ Len(card'.out) \in Nat
    BY <2>3, <2>4, LenProperties, EmptySeq
  <2>6. card'.out[1][2] = Command
    BY <2>3, <2>5
  <2>7. NoData(card'.out)
    <3>1. Command # "data"
      BY <2>2 DEF Commands
    <3> QED
      BY <2>3, <3>1 DEF NoData
  <2>8. Present /\ Awake'
    BY <1>2, <1>7, <2>3 DEF Deaf, Awake, Alive, Present
  <2>9. Awake \/ (Alive /\ card.mode = "off" /\ Command = "CMD0")
    BY <1>7 DEF Deaf, Awake
  <2>10. ~card.busy
    <3>1. CASE ~Awake
      BY <1>1, <2>9, <3>1 DEF Asleep, Awake
    <3>2. CASE Awake /\ card.busy
      <4>1. card.out = <<>>
        BY <1>1, <1>2, <3>2 DEF Busy, Awake
      <4>2. rcvr_spi = <<0, "busy">>
        BY <1>1, <1>3, <3>2, <4>1, ReadByte
      <4> QED
        BY <1>2, <4>2 DEF IsReady
    <3> QED
      BY <3>1, <3>2
  <2>11. card.from = Nowhere \/ Command = "CMD12"
    <3>1. CASE Awake /\ sub.then # "stopped"
      BY <1>1, <1>2, <3>1 DEF Still, Expecting, Stopping, Quiet
    <3>2. CASE ~Awake
      BY <1>1, <2>9, <3>2 DEF Asleep, Awake
    <3> QED
      BY <2>2, <3>1, <3>2
  <2>12. \/ card'.from = Nowhere
         \/ Command \in {"CMD17", "CMD18"} /\ card'.out[1][1] = 0
    BY <1>5, <2>3, <2>11
  <2>13. Answers(Shifted(1 + FRAME), Command, sub.arg, card')
    BY <1>4, <1>7
  <2> QED
    BY <1>5, <2>2, <2>3, <2>5, <2>6, <2>7, <2>8, <2>9, <2>10, <2>12, <2>13 DEF Response1
<1> QED
  BY <1>1, <1>4, <1>6, <1>7, HeardBy

\* The four ways a step of the driver moves the card.
LineStep ==
  /\ UNCHANGED <<slot, mishaps>>
  /\ \/ Moves /\ UNCHANGED mem
     \/ Hears /\ UNCHANGED mem /\ (Silent \/ Response1)
     \/ Sets /\ (Ignored \/ Takes \/ Refuses)
     \/ StopTran /\ UNCHANGED mem
LEMMA LineSteps ==
  ASSUME CardInv, Driver PROVE LineStep
<1>1. CardTyped /\ MemTyped /\ DriverInv
  BY DEF CardInv, Typed, Settled, DriverInv
<1> QED
  BY <1>1, DriverLine, Heard, SetBy DEF LineStep

\* The card's type, its sleep, and whether it is awake.
LEMMA IgnoredLine ==
  ASSUME card \in CardStates, Ignored, UNCHANGED slot
  PROVE Moves
  BY DEF Ignored, Moves

LEMMA DriverCard ==
  ASSUME CardInv, Driver
  PROVE /\ CardTyped' /\ MemTyped' /\ Asleep'
        /\ Awake => Awake'
        /\ Awake' => Awake \/ (Hears /\ Response1 /\ Command = "CMD0")
<1>1. CardTyped /\ MemTyped /\ Asleep /\ LineStep /\ DriverInv /\ card \in CardStates
  BY LineSteps DEF CardInv, Typed, Settled, CardTyped, DriverInv
<1>2. CASE Moves /\ UNCHANGED mem
  <2>1. /\ card' \in CardStates
        /\ card'.mode = card.mode /\ card'.from = card.from /\ card'.rx = card.rx
        /\ card'.busy = card.busy /\ card'.prog = card.prog
        /\ Awake' = Awake /\ (card.out = <<>> => card'.out = <<>>)
    BY <1>1, <1>2, LineMoved DEF LineStep
  <2> QED
    BY <1>1, <1>2, <2>1 DEF CardTyped, MemTyped, Asleep, LineStep
<1>3. CASE Hears /\ UNCHANGED mem /\ (Silent \/ Response1)
  <2>1. card' \in CardStates
    BY <1>3 DEF Silent, Response1
  <2>2. Asleep'
    <3>1. CASE Silent
      BY <1>1, <3>1 DEF Silent, Asleep
    <3>2. CASE Response1
      BY <3>2 DEF Response1, Asleep, Awake
    <3> QED
      BY <1>3, <3>1, <3>2
  <2> QED
    BY <1>1, <1>3, <2>1, <2>2 DEF CardTyped, MemTyped, LineStep, Silent, Response1
<1>4. CASE Sets /\ Ignored
  <2>1. /\ card' \in CardStates
        /\ card'.mode = card.mode /\ card'.from = card.from /\ card'.rx = card.rx
        /\ card'.busy = card.busy /\ card'.prog = card.prog
        /\ Awake' = Awake /\ (card.out = <<>> => card'.out = <<>>)
    BY <1>1, <1>4, LineMoved, IgnoredLine DEF LineStep
  <2> QED
    BY <1>1, <1>4, <2>1 DEF CardTyped, MemTyped, Asleep, LineStep, Ignored
<1>5. CASE Sets /\ (Takes \/ Refuses)
  <2>1. card' \in CardStates /\ card'.mode = card.mode /\ card'.dead = card.dead /\ Alive /\ card.rx # Nowhere
    BY <1>5 DEF Takes, Refuses, Kept
  <2>2. Awake /\ Awake'
    BY <1>1, <2>1 DEF Asleep, Awake, Alive, Present, LineStep
  <2>3. MemTyped'
    <3>1. CASE UNCHANGED mem
      BY <1>1, <3>1 DEF MemTyped
    <3>2. CASE Takes
      <4>1. slot \in Cards
        BY <1>1, <2>1 DEF CardTyped, Alive, Present
      <4>2. pc = "xready" /\ call # NoCall /\ done < call.count
        BY <1>1, <1>5, BlockSet DEF DriverInv, Placed, Stage, Sending
      <4>3. call.data[done + 1] \in Block
        <5>1. done \in Nat /\ call.count \in Nat /\ \A i \in 1..call.count : call.data[i] \in Block
          BY <1>1, <4>2, CallFields DEF DriverInv, DriverTyped
        <5>2. done + 1 \in 1..call.count
          BY <4>2, <5>1
        <5> QED
          BY <5>1, <5>2
      <4>4. mem' = [mem EXCEPT ![slot][card.rx] = call.data[done + 1]]
        BY <3>2 DEF Takes
      <4> QED
        BY <1>1, <4>1, <4>3, <4>4, MemSet
    <3> QED
      BY <1>5, <3>1, <3>2 DEF Refuses
  <2> QED
    BY <1>1, <2>1, <2>2, <2>3 DEF CardTyped, Asleep, Awake, LineStep
<1>6. CASE StopTran /\ UNCHANGED mem
  <2>1. /\ card' \in CardStates /\ card'.mode = card.mode /\ card'.from = card.from
        /\ card'.dead = card.dead /\ card'.busy = card.busy /\ card'.prog = card.prog
        /\ card.out = <<>> => card'.out = <<>>
        /\ card'.rx \in {card.rx, Nowhere}
    BY <1>1, <1>6, StopTranLine
  <2>2. Awake' = Awake
    BY <1>1, <2>1 DEF Awake, Alive, Present, LineStep
  <2> QED
    BY <1>1, <1>6, <2>1, <2>2 DEF CardTyped, MemTyped, Asleep, LineStep
<1> QED
  BY <1>1, <1>2, <1>3, <1>4, <1>5, <1>6 DEF LineStep
-----------------------------------------------------------------------------
(* Where each step is taken, and where it leads.                           *)

Waits == {"ready", "off", "xready", "stop"}
Between == {"got0", "got8", "loop2", "got41", "got58", "gotsd", "loop1", "got1", "got16"}

LEMMA Places ==
  ASSUME Driver
  PROVE /\ Select => pc = "select"
        /\ WaitReady => pc \in Waits
        /\ SendFrame => pc = "ready"
        /\ Response => pc = "response"
        /\ Token => pc = "token"
        /\ Dma \/ DiscardCRC => pc = "dma"
        /\ Start => pc = "start"
        /\ Polled => pc = "gotpoll"
        /\ DataRead => pc \in {"gotread", "broken", "stopped"}
        /\ Initialize => pc \in Between
        /\ InitEnd => pc = "initend"
        /\ PowerOff => pc = "off"
        /\ StartWrite => pc \in {"gotwrite", "got23"}
        /\ SendBlock => pc = "xready"
        /\ BlockSent => pc = "xresp"
        /\ StopTran => pc = "stop"
        /\ Written => pc = "written"
<1>1. Start => pc = "start"
  BY Zenon DEF Start
<1>2. DataRead => pc \in {"gotread", "broken", "stopped"}
  BY Zenon DEF DataRead
<1>3. Initialize => pc \in Between
  BY Zenon DEF Initialize, Between
<1>4. StartWrite => pc \in {"gotwrite", "got23"}
  BY Zenon DEF StartWrite
<1>5. (InitEnd => pc = "initend") /\ (PowerOff => pc = "off") /\ (Polled => pc = "gotpoll")
  BY Zenon DEF InitEnd, PowerOff, Polled
<1>6. /\ Select => pc = "select"
      /\ WaitReady => pc \in Waits
      /\ SendFrame => pc = "ready"
      /\ Response => pc = "response"
      /\ Token => pc = "token"
      /\ Dma \/ DiscardCRC => pc = "dma"
  BY Zenon DEF Select, WaitReady, Waiting, SendFrame, Response, Token, Dma, DiscardCRC, Waits
<1>7. /\ SendBlock => pc = "xready"
      /\ BlockSent => pc = "xresp"
      /\ StopTran => pc = "stop"
      /\ Written => pc = "written"
  BY Zenon DEF SendBlock, BlockSent, StopTran, Written
<1> QED
  BY <1>1, <1>2, <1>3, <1>4, <1>5, <1>6, <1>7

\* And so the place tells the step.
LEMMA StepAt ==
  ASSUME Driver
  PROVE /\ pc = "select" => Select
        /\ pc = "ready" => WaitReady \/ SendFrame
        /\ pc = "response" => Response
        /\ pc = "token" => Token
        /\ pc = "dma" => Dma \/ DiscardCRC
        /\ pc \in {"gotread", "broken", "stopped"} => DataRead
        /\ pc \in Between => Initialize
        /\ pc = "xready" => WaitReady \/ SendBlock
        /\ pc = "xresp" => BlockSent
        /\ pc = "stop" => WaitReady \/ StopTran
        /\ pc \in {"gotwrite", "got23"} => StartWrite
        /\ pc = "off" => WaitReady \/ PowerOff
  BY Places DEF Driver, Waits, Between

LEMMA StartLeads ==
  ASSUME DriverInv, Start
  PROVE /\ pc' \in {"idle", "select"}
        /\ pc' = "select" => UNCHANGED <<call, done, ty>> /\ sub'.res = 255
             /\ sub'.then \in {"got0", "gotpoll", "gotread", "gotwrite", "got23"}
<1>1. call.op \in {"initialize", "poll", "read", "write"}
  <2>1. pc = "start"
    BY Places DEF Driver
  <2>2. call # NoCall
    BY <2>1 DEF DriverInv, Placed
  <2> QED
    BY <2>2, CallFields DEF DriverInv
<1>2. CASE Reply("NOTRDY")
  BY <1>2 DEF Reply
<1>3. CASE SendThen("CMD0", 0, FALSE, "got0") /\ UNCHANGED ty /\ Goes
  BY <1>3 DEF SendThen, Goes
<1>4. CASE SendThen("CMD58", 0, FALSE, "gotpoll") /\ UNCHANGED ty /\ Goes
  BY <1>4 DEF SendThen, Goes
<1>5. CASE SendThen(IF call.count = 1 THEN "CMD17" ELSE "CMD18", Address, FALSE, "gotread") /\ UNCHANGED ty /\ Goes
  BY <1>5 DEF SendThen, Goes
<1>6. CASE SendThen("CMD24", Address, FALSE, "gotwrite") /\ UNCHANGED ty /\ Goes
  BY <1>6 DEF SendThen, Goes
<1>7. CASE SendThen("CMD23", call.count, TRUE, "got23") /\ UNCHANGED ty /\ Goes
  BY <1>7 DEF SendThen, Goes
<1>8. CASE SendThen("CMD25", Address, FALSE, "gotwrite") /\ UNCHANGED ty /\ Goes
  BY <1>8 DEF SendThen, Goes
<1>9. CASE call.op = "initialize"
  BY <1>9, <1>2, <1>3, Zenon DEF Start
<1>10. CASE call.op = "poll"
  BY <1>10, <1>2, <1>4, Zenon DEF Start
<1>11. CASE call.op = "read"
  BY <1>11, <1>2, <1>5, Zenon DEF Start
<1>12. CASE call.op = "write"
  BY <1>12, <1>2, <1>6, <1>7, <1>8, Zenon DEF Start
<1> QED
  BY <1>1, <1>9, <1>10, <1>11, <1>12

\* What the driver waits for, it waits for anew, or goes on waiting for.
LEMMA Patience1 ==
  ASSUME DriverInv, Driver, pc' \in Waits
  PROVE Timer2' = READY_TICKS \/ (WaitReady /\ pc' = pc /\ UNCHANGED Timer2 /\ Moves)
<1>1. CASE WaitReady
  BY <1>1 DEF WaitReady, Moves
<1>2. CASE Select
  BY <1>2 DEF Select, StartWaiting
<1>3. CASE SendFrame \/ Response
  <2>1. pc' \in {"response", "select"} \/ pc' = sub.then
    BY <1>3, Zenon DEF SendFrame, Response, Respond
  <2>2. pc' \notin Returns
    BY DEF Waits, Returns
  <2>3. sub.then \in Returns
    BY <1>3, Places DEF DriverInv, Asked, Sending
  <2> QED
    BY <2>1, <2>2, <2>3 DEF Waits
<1>4. CASE Token \/ Dma \/ DiscardCRC \/ StopTran
  BY <1>4, Places DEF Token, Dma, DiscardCRC, StopTran, Waits, WaitToken
<1>5. CASE Start
  <2>1. pc' \in {"idle", "select"}
    BY <1>5, StartLeads
  <2> QED
    BY <2>1 DEF Waits
<1>6. CASE Polled \/ DataRead \/ PowerOff \/ Written
  <2>1. pc' \in {"idle", "select", "token"}
    BY <1>6, Zenon DEF Polled, DataRead, PowerOff, Written, Reply, SendThen, WaitToken
  <2> QED
    BY <2>1 DEF Waits
<1>7. CASE Initialize
  <2>1. pc' \in {"select", "loop1", "loop2", "initend"}
    BY <1>7, Zenon DEF Initialize, SendThen
  <2> QED
    BY <2>1 DEF Waits
<1>8. CASE InitEnd
  BY <1>8 DEF InitEnd, Reply, StartWaiting, Waits
<1>9. CASE StartWrite
  BY <1>9 DEF StartWrite, SendThen, Reply, StartWaiting, Waits
<1>10. CASE SendBlock \/ BlockSent
  BY <1>10 DEF SendBlock, AfterBlock, BlockSent, StartWaiting, Waits
<1> QED
  BY <1>1, <1>2, <1>3, <1>4, <1>5, <1>6, <1>7, <1>8, <1>9, <1>10 DEF Driver

LEMMA Patience2 ==
  ASSUME DriverInv, Driver, pc' = "token"
  PROVE \/ Timer1' = TOKEN_TICKS /\ (DataRead \/ DiscardCRC)
        \/ Token /\ pc' = pc /\ UNCHANGED Timer1 /\ Moves
<1>1. CASE Token
  BY <1>1, Places DEF Token, Moves
<1>2. CASE DataRead
  <2>1. Timer1' = TOKEN_TICKS \/ pc' \in {"idle", "select"}
    BY <1>2, Zenon DEF DataRead, Reply, SendThen, WaitToken
  <2> QED
    BY <1>2, <2>1
<1>3. CASE DiscardCRC
  BY <1>3 DEF DiscardCRC, WaitToken
<1>4. CASE SendFrame \/ Response
  <2>1. pc' \in {"response", "select"} \/ pc' = sub.then \/ pc' = pc
    BY <1>4, Zenon DEF SendFrame, Response, Respond
  <2>2. sub.then \in Returns
    BY <1>4, Places DEF DriverInv, Asked, Sending
  <2> QED
    BY <1>4, <2>1, <2>2, Places DEF Returns
<1>5. CASE Start
  <2>1. pc' \in {"idle", "select"}
    BY <1>5, StartLeads
  <2> QED
    BY <2>1
<1>6. CASE Polled \/ PowerOff \/ Written
  BY <1>6 DEF Polled, PowerOff, Written, Reply
<1>7. CASE Initialize
  <2>1. pc' \in {"select", "loop1", "loop2", "initend"}
    BY <1>7, Zenon DEF Initialize, SendThen
  <2> QED
    BY <2>1
<1>8. CASE InitEnd \/ StartWrite \/ SendBlock \/ BlockSent
  BY <1>8 DEF InitEnd, Reply, StartWaiting, StartWrite, SendThen, SendBlock, AfterBlock, BlockSent
<1>9. CASE Select \/ WaitReady \/ Dma \/ StopTran
  BY <1>9, Places DEF Select, WaitReady, Dma, StopTran, StartWaiting, Waits
<1> QED
  BY <1>1, <1>2, <1>3, <1>4, <1>5, <1>6, <1>7, <1>8, <1>9 DEF Driver

LEMMA DriverPatient ==
  ASSUME CardInv, Driver
  PROVE Patient'
<1>1. CardTyped /\ Patient /\ DriverInv /\ card \in CardStates /\ UNCHANGED slot
  BY LineSteps DEF CardInv, Typed, Settled, CardTyped, DriverInv, LineStep
<1>2. READY_TICKS # 0 /\ TOKEN_TICKS # 0
  BY CardAssumption
<1>3. Moves => card'.from = card.from /\ card'.busy = card.busy /\ Alive' = Alive
  BY <1>1, LineMoved
<1>4. Alive' /\ Timer1' = 0 /\ pc' = "token" => card'.from = Nowhere
  BY <1>1, <1>2, <1>3, Patience2 DEF Patient
<1>5. Alive' /\ Timer2' = 0 /\ pc' \in Waits => card'.from = Nowhere /\ ~card'.busy
  BY <1>1, <1>2, <1>3, Patience1 DEF Patient, Waits
<1> QED
  BY <1>4, <1>5 DEF Patient, Waits

\* disk_initialize, place by place.
To(then) == pc' = "select" /\ sub'.then = then
InitLeads ==
  \/ /\ pc = "got0" /\ card' = card /\ ty' = ty
     /\ (sub.res = 1 /\ To("got8")) \/ pc' = "initend"
  \/ /\ pc = "got8" /\ ty' = ty
     /\ \/ sub.res = 1 /\ card' = Shifted(4) /\ pc' \in {"loop2", "initend"}
        \/ sub.res # 1 /\ card' = card /\ To("gotsd")
  \/ pc = "loop2" /\ card' = card /\ ty' = ty /\ (To("got41") \/ pc' = "initend")
  \/ pc = "got41" /\ card' = card /\ ty' = ty /\ (To("got58") \/ pc' \in {"loop2", "initend"})
  \/ /\ pc = "got58" /\ pc' = "initend"
     /\ \/ sub.res = 0 /\ ty' = (IF HighCapacity THEN 12 ELSE 4) /\ card' = Shifted(4)
        \/ ty' = ty /\ card' = card
  \/ pc = "gotsd" /\ card' = card /\ pc' = "loop1"
  \/ pc = "loop1" /\ card' = card /\ ((To("got1") /\ ty' = ty) \/ (pc' = "initend" /\ ty' = 0))
  \/ /\ pc = "got1" /\ card' = card
     /\ (To("got16") /\ ty' = ty) \/ (pc' = "loop1" /\ ty' = ty) \/ (pc' = "initend" /\ ty' = 0)
  \/ pc = "got16" /\ card' = card /\ pc' = "initend" /\ ty' \in {ty, 0}

LEMMA SendsTo ==
  ASSUME NEW cmd, NEW arg, NEW app, NEW then, SendThen(cmd, arg, app, then) PROVE To(then)
  BY DEF SendThen, To

LEMMA InitializeLeads ==
  ASSUME Initialize
  PROVE InitLeads /\ UNCHANGED <<mem, slot, Stat, CardType, call, buff, dma, done>>
<1>1. UNCHANGED <<mem, slot, Stat, CardType, call, buff, dma, done>>
  BY Zenon DEF Initialize, Goes, Socket
<1>2. CASE pc = "got0"
  <2>1. card' = card /\ ty' = ty
    BY <1>2 DEF Initialize
  <2>2. (sub.res = 1 /\ To("got8")) \/ pc' = "initend"
    BY <1>2, SendsTo DEF Initialize
  <2> QED
    BY <1>2, <2>1, <2>2, <1>1, ZenonT(30) DEF InitLeads
<1>3. CASE pc = "got8"
  <2>1. ty' = ty
    BY <1>3 DEF Initialize
  <2>2. \/ sub.res = 1 /\ card' = Shifted(4) /\ pc' \in {"loop2", "initend"}
        \/ sub.res # 1 /\ card' = card /\ To("gotsd")
    BY <1>3, SendsTo DEF Initialize
  <2> QED
    BY <1>3, <2>1, <2>2, <1>1, Zenon DEF InitLeads
<1>4. CASE pc = "loop2"
  <2>1. card' = card /\ ty' = ty
    BY <1>4 DEF Initialize
  <2>2. To("got41") \/ pc' = "initend"
    BY <1>4, SendsTo DEF Initialize
  <2> QED
    BY <1>4, <2>1, <2>2, <1>1, Zenon DEF InitLeads
<1>5. CASE pc = "got41"
  <2>1. card' = card /\ ty' = ty
    BY <1>5 DEF Initialize
  <2>2. To("got58") \/ pc' \in {"loop2", "initend"}
    BY <1>5, SendsTo DEF Initialize
  <2> QED
    BY <1>5, <2>1, <2>2, <1>1, Zenon DEF InitLeads
<1>6. CASE pc = "got58"
  <2>1. pc' = "initend" /\ IF sub.res = 0
           THEN ty' = (IF HighCapacity THEN 12 ELSE 4) /\ card' = Shifted(4)
           ELSE UNCHANGED <<ty, card>>
    BY <1>6 DEF Initialize
  <2>2. (ty' = ty /\ card' = card) \/ sub.res = 0
    BY <2>1
  <2> QED
    BY <1>6, <2>1, <2>2, <1>1, Zenon DEF InitLeads
<1>7. CASE pc = "gotsd"
  <2>1. card' = card /\ pc' = "loop1"
    BY <1>7 DEF Initialize
  <2> QED
    BY <1>7, <2>1, <1>1, Zenon DEF InitLeads
<1>8. CASE pc = "loop1"
  <2>1. card' = card /\ ((To("got1") /\ ty' = ty) \/ (pc' = "initend" /\ ty' = 0))
    BY <1>8, SendsTo DEF Initialize
  <2> QED
    BY <1>8, <2>1, <1>1, Zenon DEF InitLeads
<1>9. CASE pc = "got1"
  <2>1. card' = card
    BY <1>9 DEF Initialize
  <2>2. \/ To("got16") /\ ty' = ty
        \/ pc' = "loop1" /\ ty' = ty
        \/ pc' = "initend" /\ ty' = 0
    BY <1>9, SendsTo DEF Initialize
  <2> QED
    BY <1>9, <2>1, <2>2, <1>1, Zenon DEF InitLeads
<1>10. CASE pc = "got16"
  <2>1. card' = card /\ pc' = "initend" /\ ty' \in {ty, 0}
    BY <1>10 DEF Initialize
  <2> QED
    BY <1>10, <2>1, <1>1, Zenon DEF InitLeads
<1>11. pc \in Between
  BY Places DEF Driver
<1> QED
  BY <1>1, <1>2, <1>3, <1>4, <1>5, <1>6, <1>7, <1>8, <1>9, <1>10, <1>11 DEF Between
-----------------------------------------------------------------------------
(* What is on the line, step by step.                                      *)

\* A card that is off, or dead, or not there, has nothing on it that counts.
LEMMA LineAsleep ==
  ASSUME ~Awake' PROVE Line'
  BY DEF Line, Answered, Still, Sends, SendsOn, GoesOn, Stops, Judged

Special == Expecting \/ Stopping \/ pc \in {"dma", "xresp"}
LEMMA LineQuiet ==
  ASSUME card \in CardStates, Moves, UNCHANGED slot, Awake => Quiet, ~Special',
         pc' = "response" => ~Awake
  PROVE Line'
<1>1. Awake' = Awake /\ card'.from = card.from /\ (NoData(card.out) => NoData(card'.out))
  BY LineMoved
<1> QED
  BY <1>1 DEF Line, Answered, Still, Sends, SendsOn, GoesOn, Stops, Judged, Special, Quiet

\* The card sends on what is not to be read.
LEMMA LineStopping ==
  ASSUME card \in CardStates, Moves, UNCHANGED slot, Awake => Drains, Stopping', ~Expecting',
         pc' \notin {"dma", "xresp", "response"}
  PROVE Line'
<1>1. /\ Awake' = Awake /\ card'.from = card.from /\ (AllData(card.out) => AllData(card'.out))
      /\ Len(card'.out) <= Len(card.out) /\ card'.more = card.more /\ card' \in CardStates
  BY LineMoved
<1>2. Len(card.out) \in Nat /\ Len(card'.out) \in Nat
  BY <1>1, CardFields DEF CardStates
<1>3. Awake' => Drains'
  BY <1>1, <1>2 DEF Drains
<1> QED
  BY <1>3 DEF Line, Answered, Still, Sends, SendsOn, GoesOn, Stops, Judged

LEMMA QuietThere ==
  ASSUME Line, ~Special, Awake PROVE Quiet
  BY DEF Line, Still, Special

LEMMA SelectLine ==
  ASSUME CardInv, Select \/ WaitReady PROVE Line'
<1>1. /\ card \in CardStates /\ Moves /\ UNCHANGED <<slot, sub, call>> /\ Line
      /\ pc \in {"select", "ready", "off", "xready", "stop"} /\ pc' \in {"ready", "off", "xready", "stop"}
      /\ pc = "select" => pc' = "ready"
      /\ pc # "select" => pc' = pc
  BY DEF Select, WaitReady, Waiting, StartWaiting, Moves, Socket, CallVars, CardInv, Typed, CardTyped
<1>2. CASE Stopping
  <2>1. Awake => Drains
    BY <1>1, <1>2 DEF Line, Stops
  <2>2. Stopping' /\ ~Expecting'
    BY <1>1, <1>2 DEF Stopping, Expecting
  <2> QED
    BY <1>1, <2>1, <2>2, LineStopping
<1>3. CASE ~Stopping
  <2>1. ~Special /\ ~Special'
    BY <1>1, <1>3 DEF Special, Stopping, Expecting
  <2> QED
    BY <1>1, <2>1, QuietThere, LineQuiet
<1> QED
  BY <1>2, <1>3

\* A card told the address it counts in is told the block.
LEMMA Multiples ==
  ASSUME NEW s \in Nat, NEW b \in Nat \ {0}
  PROVE (s * b) % b = 0 /\ (s * b) \div b = s
<1>1. PICK p \in Nat : p = s * b
  OBVIOUS
<1>2. PICK q \in Int : q = p \div b
  OBVIOUS
<1>3. PICK r \in Int : r = p % b
  OBVIOUS
<1>4. p = b * q + r /\ 0 <= r /\ r < b
  BY <1>2, <1>3
<1>5. q = s
  <2>1. CASE q < s
    <3>1. b * q + b <= b * s
      <4>1. PICK k \in Nat : s = q + 1 + k
        <5>1. s - q - 1 \in Nat /\ s = q + 1 + (s - q - 1)
          BY <2>1
        <5> QED
          BY <5>1
      <4>2. b * s = b * q + b + b * k /\ b * k >= 0
        BY <4>1
      <4> QED
        BY <4>2
    <3> QED
      BY <1>1, <1>4, <3>1
  <2>2. CASE q > s
    <3>1. b * q >= b * s + b
      <4>1. PICK k \in Nat : q = s + 1 + k
        <5>1. q - s - 1 \in Nat /\ q = s + 1 + (q - s - 1)
          BY <2>2
        <5> QED
          BY <5>1
      <4>2. b * q = b * s + b + b * k /\ b * k >= 0
        BY <4>1
      <4> QED
        BY <4>2
    <3> QED
      BY <1>1, <1>4, <3>1
  <2> QED
    BY <2>1, <2>2
<1>6. r = 0
  BY <1>1, <1>4, <1>5
<1> QED
  BY <1>1, <1>2, <1>3, <1>5, <1>6

LEMMA AddressMeans ==
  ASSUME DriverTyped, call # NoCall, CardType >= 8 <=> CCS
  PROVE Addressed(Address) = call.sector
<1>1. call.sector \in Nat /\ BLOCK \in Nat \ {0}
  BY CallFields, CardAssumption
<1>2. (call.sector * BLOCK) % BLOCK = 0 /\ (call.sector * BLOCK) \div BLOCK = call.sector
  BY <1>1, Multiples
<1>3. CASE CCS
  BY <1>3 DEF Addressed, Address
<1>4. CASE ~CCS
  BY <1>2, <1>4 DEF Addressed, Address
<1> QED
  BY <1>3, <1>4

LEMMA DueTyped ==
  ASSUME DriverTyped, call # NoCall PROVE Due \in Nat /\ Due # Nowhere
<1>1. call.sector \in Nat /\ done \in Nat
  BY CallFields DEF DriverTyped
<1> QED
  BY <1>1 DEF Due, Nowhere

\* A call is in hand in every place but the one between calls.
LEMMA CallThere ==
  ASSUME CardInv, pc # "idle"
  PROVE /\ call # NoCall /\ DriverTyped /\ call.count \in Nat /\ call.count > 0 /\ call.sector \in Nat
        /\ done \in Nat /\ Due \in Nat /\ Due # Nowhere
<1>1. call # NoCall /\ DriverTyped
  BY DEF CardInv, Settled, Placed, Typed
<1>2. done \in Nat
  BY <1>1 DEF DriverTyped
<1> QED
  BY <1>1, <1>2, CallFields, DueTyped

\* The addressed block: the card and the driver mean the same one.
LEMMA BlockMeant ==
  ASSUME CardInv, Awake, Sending, sub.then \in {"gotread", "gotwrite"}, card.mode = "ready"
  PROVE Addressed(sub.arg) = Due /\ ~sub.app /\ Command = sub.cmd
<1>1. pc # "idle" /\ Stage = sub.then
  BY DEF Sending, Stage
<1>2. call # NoCall /\ DriverTyped /\ call.sector \in Nat
  BY <1>1, CallThere
<1>3. sub.arg = Address /\ ~sub.app
  BY DEF CardInv, Settled, Asked
<1>4. done = 0 /\ ~Stat
  BY <1>1 DEF CardInv, Settled, Placed, ReadPcs, WritePcs
<1>5. CardType >= 8 <=> CCS
  BY <1>1, <1>4 DEF CardInv, Known, Classed, InitPcs
<1>6. Addressed(Address) = call.sector
  BY <1>2, <1>5, AddressMeans
<1> QED
  BY <1>2, <1>3, <1>4, <1>6 DEF Due, Command

LEMMA SendFrameLine ==
  ASSUME CardInv, SendFrame PROVE Line'
<1>1. /\ card \in CardStates /\ UNCHANGED <<slot, call, mem, done>> /\ pc = "ready" /\ Line /\ Sending /\ pc # "idle"
      /\ DriverTyped /\ Patient /\ Asked /\ Timer2 \in 0..READY_TICKS
  BY DEF SendFrame, Socket, CallVars, CardInv, Typed, CardTyped, Sending, Settled, DriverTyped
<1>2. CASE ~IsReady
  <2>1. Respond(255) /\ card' = Shifted(1)
    BY <1>2 DEF SendFrame
  <2>2. pc' = sub.then /\ sub'.res = 255
    BY <2>1 DEF Respond, NoSub
  <2>3. Moves
    BY <2>1 DEF Moves
  <2>4. sub.then \in Returns
    BY <1>1 DEF Asked
  <2>5. ~Special'
    BY <2>2, <2>4 DEF Special, Expecting, Stopping, Returns
  <2>6. CASE sub.then # "stopped"
    <3>1. ~Special
      BY <1>1, <2>6 DEF Special, Expecting, Stopping
    <3> QED
      BY <1>1, <2>2, <2>3, <2>4, <2>5, <3>1, QuietThere, LineQuiet DEF Returns
  <2>7. CASE sub.then = "stopped" /\ Awake
    <3>1. Timer2 = 0
      BY <1>1, <1>2 DEF SendFrame, Waiting, IsReady
    <3>2. card.from = Nowhere
      BY <1>1, <2>7, <3>1 DEF Patient, Awake
    <3>3. Drains
      BY <1>1, <2>7 DEF Line, Stops, Stopping
    <3>4. Len(card.out) <= 1
      BY <3>2, <3>3 DEF Drains
    <3>5. PICK d : d = Shifted(1)
      OBVIOUS
    <3>6. /\ Len(d.out) \in Nat /\ DOMAIN d.out = 1..Len(d.out)
          /\ Alive => Len(d.out) = IF 1 <= Len(card.out) THEN Len(card.out) - 1 ELSE 0
      BY <1>1, <3>5, ShiftedLine
    <3>7. Len(d.out) = 0
      BY <1>1, <2>7, <3>4, <3>6, CardFields DEF Awake
    <3>8. NoData(d.out)
      BY <3>6, <3>7 DEF NoData
    <3>9. card'.from = Nowhere
      BY <1>1, <2>3, <3>2, LineMoved
    <3>10. Quiet'
      BY <2>1, <3>5, <3>8, <3>9 DEF Quiet
    <3> QED
      BY <2>2, <2>5, <2>7, <3>10 DEF Line, Answered, Still, Sends, SendsOn, GoesOn, Stops, Judged, Special
  <2>8. CASE ~Awake
    <3>1. ~Awake'
      BY <1>1, <2>3, <2>8, LineMoved
    <3> QED
      BY <3>1, LineAsleep
  <2> QED
    BY <2>6, <2>7, <2>8
<1>3. CASE IsReady
  <2>1. Hears
    BY <1>3 DEF SendFrame, Hears
  <2>2. pc' = "response" /\ UNCHANGED <<sub, call, slot, done, mem>>
    BY <2>1, FrameSent
  <2>3. CASE Silent
    BY <2>3, LineAsleep DEF Silent
  <2>4. CASE Response1
    <3>1. ~Stopping' /\ (Expecting' <=> sub.then = "gotread" /\ card'.out[1][1] = 0) /\ Command' = Command
      BY <2>2 DEF Stopping, Expecting, Command
    <3>2. sub.then = "gotread" => Command = IF call.count = 1 THEN "CMD17" ELSE "CMD18"
      BY <1>1 DEF Asked, Command
    <3>3. Command \in {"CMD17", "CMD18"} => sub.then = "gotread"
      BY <1>1 DEF Asked, Command, Returns
    <3>4. card'.from = Nowhere \/ Expecting'
      BY <2>4, <3>1, <3>3 DEF Response1
    <3>5. Answered' /\ Still'
      BY <2>4, <3>1, <3>4 DEF Response1, Answered, Still, Quiet
    <3>6. Sends' /\ GoesOn'
      <4>1. CASE ~Expecting'
        BY <2>2, <4>1 DEF Sends, GoesOn
      <4>2. CASE Expecting'
        <5>1. sub.then = "gotread" /\ card'.out[1][1] = 0
          BY <3>1, <4>2
        <5>2. Command \in {"CMD17", "CMD18"} /\ (Command = "CMD18" <=> call.count # 1)
          BY <3>2, <5>1
        <5>3. /\ card'.from = Addressed(sub.arg) /\ Shifted(1 + FRAME).mode = "ready"
              /\ Len(card'.out) = 1 /\ (card'.more <=> Command = "CMD18")
          BY <2>4, <5>1, <5>2 DEF Response1, Answers
        <5>4. card.mode = "ready" /\ Awake
          BY <1>1, <2>4, <5>2, <5>3, ShiftedCard, CardAssumption DEF Response1
        <5>5. Addressed(sub.arg) = Due
          BY <1>1, <5>1, <5>4, BlockMeant
        <5>6. Due' = Due /\ Lead' = 1
          BY <2>2 DEF Due, Lead
        <5>7. Coming(Lead, Due)'
          BY <5>3, <5>5, <5>6 DEF Coming
        <5> QED
          BY <2>2, <5>2, <5>3, <5>7 DEF Sends, GoesOn
      <4> QED
        BY <4>1, <4>2
    <3> QED
      BY <2>2, <3>1, <3>5, <3>6 DEF Line, SendsOn, Stops, Judged
  <2> QED
    BY <2>1, <2>3, <2>4, Heard
<1> QED
  BY <1>2, <1>3

\* The line after one byte of it, as equations.
LEMMA OneOff ==
  ASSUME card \in CardStates, Alive, card' = Shifted(1), UNCHANGED slot
  PROVE /\ card' \in CardStates /\ card'.from = card.from /\ card'.more = card.more /\ card'.rx = card.rx
        /\ card'.mode = card.mode /\ card'.busy = card.busy
        /\ Alive' /\ Awake' = Awake
        /\ Len(card.out) \in Nat /\ Len(card'.out) \in Nat
        /\ DOMAIN card.out = 1..Len(card.out) /\ DOMAIN card'.out = 1..Len(card'.out)
        /\ card.out # <<>> => Len(card'.out) = Len(card.out) - 1 /\ Len(card.out) > 0
        /\ card.out = <<>> => card' = card
        /\ \A i \in DOMAIN card'.out : i + 1 \in DOMAIN card.out /\ card'.out[i] = card.out[i + 1]
<1>1. PICK d : d = Shifted(1)
  OBVIOUS
<1>2. /\ d \in CardStates
      /\ d.mode = card.mode /\ d.app = card.app /\ d.from = card.from /\ d.rx = card.rx
      /\ d.more = card.more /\ d.busy = card.busy /\ d.prog = card.prog /\ d.dead = card.dead
      /\ Len(d.out) \in Nat /\ DOMAIN d.out = 1..Len(d.out)
      /\ d.out # <<>> <=> Len(d.out) > 0
      /\ ~Alive => d = card
      /\ Alive => Len(d.out) = IF 1 <= Len(card.out) THEN Len(card.out) - 1 ELSE 0
      /\ Alive => \A i \in DOMAIN d.out : i + 1 \in DOMAIN card.out /\ d.out[i] = card.out[i + 1]
  BY <1>1, ShiftedLine
<1>3. card.out = <<>> => d = card
  BY <1>1 DEF Shifted, Shifts
<1>4. /\ Len(card.out) \in Nat /\ DOMAIN card.out = 1..Len(card.out)
      /\ card.out # <<>> <=> Len(card.out) > 0
  BY CardFields
<1>5. Alive' /\ Awake' = Awake
  BY <1>1, <1>2 DEF Alive, Awake, Present
<1>6. card.out # <<>> => Len(d.out) = Len(card.out) - 1 /\ Len(card.out) > 0
  BY <1>2, <1>4
<1> QED
  BY <1>1, <1>2, <1>3, <1>4, <1>5, <1>6

LEMMA FrameMoves ==
  ASSUME card \in CardStates, Alive, card' = Shifted(1), UNCHANGED <<slot, mem>>,
         NEW b, NEW k \in Int, BLOCK + 3 + k >= 1, IsFrame(k, b)
  PROVE IsFrame(k - 1, b)'
<1>1. /\ card'.from = card.from /\ card'.more = card.more
      /\ Len(card.out) \in Nat /\ Len(card'.out) \in Nat
      /\ card.out # <<>> => Len(card'.out) = Len(card.out) - 1 /\ Len(card.out) > 0
      /\ \A i \in DOMAIN card'.out : i + 1 \in DOMAIN card.out /\ card'.out[i] = card.out[i + 1]
      /\ DOMAIN card.out = 1..Len(card.out) /\ DOMAIN card'.out = 1..Len(card'.out)
  BY OneOff
<1>2. Len(card.out) = BLOCK + 3 + k /\ BLOCK \in Nat
  BY CardAssumption DEF IsFrame
<1>3. card.out # <<>>
  BY <1>2, CardFields
<1>4. Len(card'.out) = BLOCK + 3 + (k - 1)
  BY <1>1, <1>2, <1>3
<1>5. ASSUME NEW i \in DOMAIN card'.out
      PROVE /\ i > k - 1 => card'.out[i][2] = "data"
            /\ i - (k - 1) = 1 => card'.out[i][1] = 254
            /\ i - (k - 1) \in 2..(BLOCK + 1) => card'.out[i][1] = mem[slot][b][i - (k - 1) - 1]
  <2>1. PICK j \in DOMAIN card.out : j = i + 1 /\ card'.out[i] = card.out[j]
    BY <1>1
  <2>2. i \in Int /\ j \in Int
    BY <1>1, <2>1
  <2>3. (i > k - 1 => j > k) /\ i - (k - 1) = j - k
    BY <2>1, <2>2
  <2>4. /\ j > k => card.out[j][2] = "data"
        /\ j - k = 1 => card.out[j][1] = 254
        /\ j - k \in 2..(BLOCK + 1) => card.out[j][1] = mem[slot][b][j - k - 1]
    BY DEF IsFrame
  <2> QED
    BY <2>1, <2>3, <2>4
<1>6. b \in DOMAIN mem'[slot'] /\ card'.from = Follows(b)'
  BY <1>1 DEF IsFrame, Follows
<1> QED
  BY <1>4, <1>5, <1>6 DEF IsFrame

\* The response gone, the block is next.
LEMMA ComingMoves ==
  ASSUME card \in CardStates, Alive, card' = Shifted(1), UNCHANGED <<slot, mem>>, NEW b, Coming(1, b)
  PROVE Coming(0, b)'
<1>1. /\ card'.from = card.from
      /\ Len(card.out) \in Nat /\ Len(card'.out) \in Nat
      /\ card.out # <<>> => Len(card'.out) = Len(card.out) - 1 /\ Len(card.out) > 0
      /\ \A i \in DOMAIN card'.out : i + 1 \in DOMAIN card.out /\ card'.out[i] = card.out[i + 1]
      /\ DOMAIN card'.out = 1..Len(card'.out)
  BY OneOff
<1>2. CASE Len(card.out) = 1 /\ card.from = b
  <2>1. card.out # <<>>
    BY <1>2, CardFields
  <2> QED
    BY <1>1, <1>2, <2>1 DEF Coming
<1>3. CASE Len(card.out) = 2 /\ card.from = Nowhere /\ card.out[2] = <<8, "data">>
  <2>1. card.out # <<>>
    BY <1>3, CardFields
  <2>2. Len(card'.out) = 1 /\ card'.out[1] = card.out[2]
    BY <1>1, <1>3, <2>1
  <2> QED
    BY <1>1, <1>3, <2>2 DEF Coming
<1>4. CASE IsFrame(1, b)
  <2>1. BLOCK + 3 + 1 >= 1 /\ 1 \in Int
    BY CardAssumption
  <2>2. IsFrame(1 - 1, b)'
    BY <1>4, <2>1, FrameMoves
  <2>3. IsFrame(0, b)'
    BY <2>2
  <2> QED
    BY <2>3 DEF Coming
<1> QED
  BY <1>2, <1>3, <1>4 DEF Coming

\* A response that is there is read.
LEMMA ResponseRead ==
  ASSUME CardInv, Awake, Response
  PROVE /\ rcvr_spi = card.out[1] /\ rcvr_spi[1] \in Byte /\ rcvr_spi[1] < 128 /\ card.out # <<>>
        /\ rcvr_spi[2] = Command
        /\ Respond(rcvr_spi[1]) /\ taken' = <<Command, rcvr_spi[2]>> /\ card' = Shifted(1)
<1>1. pc = "response" /\ Answered /\ Asleep /\ card \in CardStates
  BY DEF Response, CardInv, Line, Settled, Typed, CardTyped
<1>2. card.out # <<>> /\ card.out[1][2] = Command /\ card.out[1][1] < 128
  BY <1>1 DEF Answered
<1>3. rcvr_spi = card.out[1] /\ rcvr_spi[1] \in Byte
  BY <1>1, <1>2, ReadByte
<1>4. rcvr_spi[1] < 128 /\ rcvr_spi[2] = Command
  BY <1>2, <1>3
<1> QED
  BY <1>2, <1>3, <1>4 DEF Response

LEMMA ResponseLine ==
  ASSUME CardInv, Response PROVE Line'
<1>1. /\ card \in CardStates /\ UNCHANGED <<slot, call, mem, done>> /\ pc = "response" /\ Line /\ Sending
      /\ pc # "idle" /\ Asked /\ DriverInv /\ card' = Shifted(1) /\ Moves
  BY DEF Response, Socket, CallVars, CardInv, Typed, CardTyped, Sending, Settled, DriverInv, Moves
<1>2. CASE ~Awake
  <2>1. ~Awake'
    BY <1>1, <1>2, LineMoved
  <2> QED
    BY <2>1, LineAsleep
<1>3. CASE Awake
  <2>1. Respond(rcvr_spi[1]) /\ rcvr_spi = card.out[1] /\ rcvr_spi[1] \in Byte
    BY <1>3, ResponseRead
  <2>2. \/ sub.app /\ pc' = "select" /\ sub'.then = sub.then
        \/ pc' = sub.then /\ ~Sending' /\ sub'.res = rcvr_spi[1]
    BY <1>1, <2>1, Responds DEF DriverInv
  <2>3. sub.then \in Returns /\ (sub.app => sub.then \notin {"gotread", "stopped"})
    BY <1>1 DEF Asked
  <2>4. CASE sub.then = "gotread" /\ card.out[1][1] = 0
    <3>1. Expecting /\ Lead = 1
      BY <1>1, <2>4 DEF Expecting, Lead
    <3>2. Coming(1, Due) /\ (card.more <=> call.count # 1)
      BY <1>1, <1>3, <3>1 DEF Line, Sends, GoesOn
    <3>3. PICK b : b = Due
      OBVIOUS
    <3>4. Due' = b
      BY <1>1, <3>3 DEF Due
    <3>5. Coming(0, b)'
      BY <1>1, <1>3, <3>2, <3>3, ComingMoves DEF Awake
    <3>6. pc' = "gotread" /\ sub'.res = 0
      BY <2>1, <2>2, <2>3, <2>4
    <3>7. Expecting' /\ ~Stopping' /\ Lead' = 0
      BY <3>6 DEF Expecting, Stopping, Lead
    <3>8. Coming(Lead, Due)'
      BY <3>4, <3>5, <3>7
    <3>9. card'.more = card.more
      BY <1>1, LineMoved
    <3> QED
      BY <1>1, <3>2, <3>6, <3>7, <3>8, <3>9 DEF Line, Answered, Still, Sends, SendsOn, GoesOn, Stops, Judged
  <2>5. CASE ~(sub.then = "gotread" /\ card.out[1][1] = 0)
    <3>1. ~Special
      BY <1>1, <2>5 DEF Special, Expecting, Stopping
    <3>2. ~Special' /\ pc' # "response"
      BY <2>1, <2>2, <2>3, <2>5 DEF Special, Expecting, Stopping, Returns
    <3> QED
      BY <1>1, <3>1, <3>2, QuietThere, LineQuiet
  <2> QED
    BY <2>4, <2>5
<1> QED
  BY <1>2, <1>3

LEMMA TokenLine ==
  ASSUME CardInv, Token PROVE Line'
<1>1. /\ card \in CardStates /\ UNCHANGED <<slot, call, mem, done, dma, sub>> /\ pc = "token" /\ Line
      /\ Asleep /\ Busy /\ Patient /\ card' = Shifted(1) /\ Moves /\ dma = <<>>
      /\ pc' = IF rcvr_spi[1] = 254 THEN "dma"
               ELSE IF rcvr_spi[1] = 255 /\ Timer1 > 0 THEN "token" ELSE "broken"
      /\ Timer1 \in 0..Max({TOKEN_TICKS, INIT_TICKS})
  BY DEF Token, Socket, CallVars, CardInv, Typed, CardTyped, Settled, DriverTyped, Moves, Placed
<1>2. CASE ~Awake
  <2>1. ~Awake'
    BY <1>1, <1>2, LineMoved
  <2> QED
    BY <2>1, LineAsleep
<1>3. CASE Awake
  <2>1. Expecting /\ Lead = 0
    BY <1>1 DEF Expecting, Lead
  <2>2. Coming(0, Due) /\ (card.more <=> call.count # 1)
    BY <1>1, <1>3, <2>1 DEF Line, Sends, GoesOn
  <2>3. PICK b : b = Due
    OBVIOUS
  <2>4. Due' = b /\ b # Nowhere
    BY <1>1, <2>3, CallThere DEF Due
  <2>5. /\ card'.from = card.from /\ card'.more = card.more /\ Awake'
        /\ Len(card.out) \in Nat /\ Len(card'.out) \in Nat
        /\ card.out # <<>> => Len(card'.out) = Len(card.out) - 1 /\ Len(card.out) > 0
        /\ card.out = <<>> => card' = card
        /\ DOMAIN card'.out = 1..Len(card'.out)
    BY <1>1, <1>3, OneOff DEF Awake
  <2>6. CASE Len(card.out) = 0 /\ card.from = b
    <3>1. card.out = <<>>
      BY <1>1, <2>6, CardFields
    <3>2. ~card.busy
      BY <1>1, <2>4, <2>6 DEF Busy
    <3>3. rcvr_spi = FF
      BY <1>1, <1>3, <3>1, <3>2, ReadByte
    <3>4. Timer1 > 0
      BY <1>1, <1>3, <2>4, <2>6 DEF Patient, Awake
    <3>5. pc' = "token"
      BY <1>1, <3>3, <3>4 DEF FF
    <3>6. Coming(0, Due)'
      BY <2>4, <2>5, <2>6, <3>1 DEF Coming
    <3>7. Expecting' /\ ~Stopping' /\ Lead' = 0
      BY <3>5 DEF Expecting, Stopping, Lead
    <3> QED
      BY <1>1, <2>2, <2>5, <3>5, <3>6, <3>7 DEF Line, Answered, Still, Sends, SendsOn, GoesOn, Stops, Judged
  <2>7. CASE Len(card.out) = 1 /\ card.from = Nowhere /\ card.out[1] = <<8, "data">>
    <3>1. card.out # <<>>
      BY <2>7, CardFields, <1>1
    <3>2. rcvr_spi[1] = 8
      BY <1>1, <1>3, <2>7, <3>1, ReadByte
    <3>3. pc' = "broken"
      BY <1>1, <3>2
    <3>4. Len(card'.out) = 0 /\ DOMAIN card'.out = {}
      BY <2>5, <2>7, <3>1
    <3>5. Quiet' /\ (call.count # 1 => Drains')
      BY <2>2, <2>5, <2>7, <3>4 DEF Quiet, Drains, NoData, AllData
    <3>6. ~Expecting' /\ (Stopping' <=> call.count # 1)
      BY <1>1, <3>3 DEF Expecting, Stopping
    <3> QED
      BY <1>1, <2>5, <3>3, <3>5, <3>6 DEF Line, Answered, Still, Sends, SendsOn, GoesOn, Stops, Judged
  <2>8. CASE IsFrame(0, b)
    <3>0. BLOCK \in Nat
      BY CardAssumption
    <3>1. Len(card.out) = BLOCK + 3 + 0 /\ DOMAIN card.out = 1..Len(card.out)
      BY <1>1, <2>8, CardFields DEF IsFrame
    <3>2. 1 \in DOMAIN card.out /\ card.out # <<>>
      BY <1>1, <3>0, <3>1, CardFields
    <3>3. card.out[1][1] = 254
      BY <2>8, <3>2 DEF IsFrame
    <3>4. rcvr_spi[1] = 254
      BY <1>1, <1>3, <3>2, <3>3, ReadByte
    <3>5. pc' = "dma"
      BY <1>1, <3>4
    <3>6. IsFrame(0 - 1, b)'
      BY <1>1, <1>3, <2>8, <3>0, FrameMoves DEF Awake
    <3>7. Len(dma') = 0
      BY <1>1, EmptySeq
    <3>8. IsFrame(-1 - Len(dma), Due)'
      BY <2>4, <3>6, <3>7
    <3>9. ~Expecting' /\ ~Stopping'
      BY <3>5 DEF Expecting, Stopping
    <3> QED
      BY <1>1, <2>2, <2>5, <3>5, <3>8, <3>9 DEF Line, Answered, Still, Sends, SendsOn, GoesOn, Stops, Judged
  <2>9. \/ Len(card.out) = 0 /\ card.from = b
        \/ Len(card.out) = 1 /\ card.from = Nowhere /\ card.out[1] = <<8, "data">>
        \/ IsFrame(0, b)
    BY <2>2, <2>3 DEF Coming
  <2> QED
    BY <2>6, <2>7, <2>8, <2>9
<1> QED
  BY <1>2, <1>3

\* A byte of the block, and the line after it.
LEMMA DmaByte ==
  ASSUME CardInv, Awake, Dma
  PROVE /\ Due \in DOMAIN mem[slot] /\ rcvr_spi[1] = mem[slot][Due][Len(dma) + 1]
        /\ rcvr_spi[1] \in Byte
        /\ Line'
<1>1. /\ card \in CardStates /\ UNCHANGED <<slot, call, mem, done, sub, pc>> /\ pc = "dma" /\ Line
      /\ Asleep /\ card' = Shifted(1) /\ Moves /\ Len(dma) < BLOCK
      /\ dma' = Append(dma, rcvr_spi[1]) /\ dma \in Seq(Byte)
  BY DEF Dma, Socket, CardInv, Typed, CardTyped, Settled, DriverTyped, Moves
<1>2. BLOCK \in Nat /\ Len(dma) \in Nat
  BY <1>1, CardAssumption, LenProperties
<1>3. PICK k \in Int : k = -1 - Len(dma)
  BY <1>2
<1>4. PICK b : b = Due
  OBVIOUS
<1>5. IsFrame(k, b) /\ Due' = b
  BY <1>1, <1>3, <1>4 DEF Line, SendsOn, Due
<1>6. Len(card.out) = BLOCK + 3 + k /\ DOMAIN card.out = 1..Len(card.out) /\ Len(card.out) \in Nat
  BY <1>1, <1>5, CardFields DEF IsFrame
<1>7. 1 \in DOMAIN card.out /\ card.out # <<>> /\ BLOCK + 3 + k >= 1
  BY <1>1, <1>2, <1>3, <1>6, CardFields
<1>8. 1 - k \in 2..(BLOCK + 1) /\ 1 - k - 1 = Len(dma) + 1
  BY <1>1, <1>2, <1>3
<1>9. card.out[1][1] = mem[slot][b][Len(dma) + 1]
  BY <1>5, <1>7, <1>8 DEF IsFrame
<1>10. rcvr_spi[1] = card.out[1][1] /\ rcvr_spi[1] \in Byte
  BY <1>1, <1>7, ReadByte
<1>11. Len(dma') = Len(dma) + 1
  BY <1>1, <1>10
<1>12. IsFrame(k - 1, b)'
  BY <1>1, <1>5, <1>7, FrameMoves DEF Awake
<1>13. k - 1 = -1 - Len(dma')
  BY <1>2, <1>3, <1>11
<1>14. IsFrame(-1 - Len(dma), Due)'
  BY <1>5, <1>12, <1>13
<1>15. card'.more = card.more /\ ~Expecting' /\ ~Stopping' /\ (card.more <=> call.count # 1)
  BY <1>1, LineMoved DEF Expecting, Stopping, Line, GoesOn
<1>16. Line'
  BY <1>1, <1>14, <1>15 DEF Line, Answered, Still, Sends, SendsOn, GoesOn, Stops, Judged
<1> QED
  BY <1>4, <1>5, <1>9, <1>10, <1>16 DEF IsFrame

\* The block is in, its checksum goes, and another follows it or none does.
LEMMA DiscardCRCLine ==
  ASSUME CardInv, DiscardCRC PROVE Line'
<1>1. /\ card \in CardStates /\ UNCHANGED <<slot, call, mem, sub>> /\ pc = "dma" /\ Line
      /\ card' = Shifted(2) /\ Moves /\ Len(dma) = BLOCK /\ pc # "idle"
      /\ done' = done + 1 /\ pc' = IF done' < call.count THEN "token" ELSE "broken"
  BY DEF DiscardCRC, Socket, CardInv, Typed, CardTyped, Settled, DriverTyped, Moves, WaitToken
<1>2. CASE ~Awake
  <2>1. ~Awake'
    BY <1>1, <1>2, LineMoved
  <2> QED
    BY <2>1, LineAsleep
<1>3. CASE Awake
  <2>1. BLOCK \in Nat /\ done \in Nat /\ call.count \in Nat /\ Due \in Nat /\ call.sector \in Nat
    BY <1>1, CardAssumption, CallThere
  <2>2. IsFrame(-1 - Len(dma), Due) /\ (card.more <=> call.count # 1)
    BY <1>1, <1>3 DEF Line, SendsOn, GoesOn
  <2>3. Len(card.out) = BLOCK + 3 + (-1 - BLOCK) /\ card.from = Follows(Due)
    BY <1>1, <2>2 DEF IsFrame
  <2>4. Len(card.out) = 2
    BY <2>1, <2>3
  <2>5. PICK d : d = Shifted(2)
    OBVIOUS
  <2>6. /\ DOMAIN d.out = 1..Len(d.out)
        /\ Alive => Len(d.out) = IF 2 <= Len(card.out) THEN Len(card.out) - 2 ELSE 0
    BY <1>1, <2>5, ShiftedLine
  <2>7. Len(d.out) = 0 /\ DOMAIN d.out = {}
    BY <1>3, <2>4, <2>6 DEF Awake
  <2>8. /\ Len(card'.out) = 0 /\ DOMAIN card'.out = {}
        /\ card'.from = card.from /\ card'.more = card.more /\ Awake'
    BY <1>1, <1>3, <2>5, <2>7, LineMoved
  <2>9. CASE done' < call.count
    <3>1. call.count # 1
      BY <1>1, <2>1, <2>9
    <3>2. card.from = Due + 1 /\ Due' = Due + 1
      BY <1>1, <2>1, <2>2, <2>3, <3>1 DEF Follows, Due
    <3>3. pc' = "token"
      BY <1>1, <2>9
    <3>4. Expecting' /\ ~Stopping' /\ Lead' = 0
      BY <3>3 DEF Expecting, Stopping, Lead
    <3>5. Coming(Lead, Due)'
      <4>1. Len(card'.out) = Lead' /\ card'.from = Due'
        BY <2>8, <3>2, <3>4
      <4> QED
        BY <4>1 DEF Coming
    <3> QED
      BY <1>1, <2>2, <2>8, <3>3, <3>4, <3>5 DEF Line, Answered, Still, Sends, SendsOn, GoesOn, Stops, Judged
  <2>10. CASE ~(done' < call.count)
    <3>1. pc' = "broken"
      BY <1>1, <2>10
    <3>2. ~Expecting' /\ (Stopping' <=> call.count # 1)
      BY <1>1, <3>1 DEF Expecting, Stopping
    <3>3. call.count # 1 => Drains'
      BY <2>2, <2>8 DEF Drains, AllData
    <3>4. call.count = 1 => Quiet'
      BY <2>2, <2>3, <2>8 DEF Quiet, NoData, Follows
    <3> QED
      BY <1>1, <2>8, <3>1, <3>2, <3>3, <3>4 DEF Line, Answered, Still, Sends, SendsOn, GoesOn, Stops, Judged
  <2> QED
    BY <2>9, <2>10
<1> QED
  BY <1>2, <1>3

LEMMA DataReadLine ==
  ASSUME CardInv, DataRead PROVE Line'
<1>1. /\ card \in CardStates /\ UNCHANGED <<slot, mem, card>> /\ Line /\ Moves
      /\ pc \in {"gotread", "broken", "stopped"} /\ Awake' = Awake
  <2>1. UNCHANGED <<slot, mem, card>>
    BY Zenon DEF DataRead, Socket
  <2> QED
    BY <2>1, Places DEF Driver, CardInv, Typed, CardTyped, Moves, Awake, Alive, Present
<1>2. CASE pc = "gotread" /\ sub.res = 0
  <2>1. pc' = "token" /\ UNCHANGED <<call, done>>
    BY <1>2 DEF DataRead, WaitToken, Goes
  <2>2. Expecting /\ Expecting' /\ ~Stopping' /\ Lead = 0 /\ Lead' = 0 /\ Due' = Due
    BY <1>2, <2>1 DEF Expecting, Stopping, Lead, Due
  <2>3. PICK b : b = Due
    OBVIOUS
  <2>4. Awake => Coming(0, b) /\ (card.more <=> call.count # 1)
    BY <1>1, <2>2, <2>3 DEF Line, Sends, GoesOn
  <2>5. Awake => Coming(0, b)'
    BY <1>1, <2>4 DEF Coming, IsFrame, Follows
  <2>6. Awake => Coming(Lead, Due)'
    BY <2>2, <2>3, <2>5
  <2> QED
    BY <1>1, <2>1, <2>2, <2>4, <2>6 DEF Line, Answered, Still, Sends, SendsOn, GoesOn, Stops, Judged
<1>3. CASE pc = "broken" /\ call.count # 1
  <2>1. pc' = "select" /\ sub'.then = "stopped"
    BY <1>3 DEF DataRead, SendThen
  <2>2. Stopping /\ Stopping' /\ ~Expecting'
    BY <1>3, <2>1 DEF Stopping, Expecting
  <2>3. Awake => Drains
    BY <1>1, <2>2 DEF Line, Stops
  <2> QED
    BY <1>1, <2>1, <2>2, <2>3, LineStopping
<1>4. CASE ~(pc = "gotread" /\ sub.res = 0) /\ ~(pc = "broken" /\ call.count # 1)
  <2>1. pc' = "idle"
    BY <1>1, <1>4 DEF DataRead, Reply
  <2>2. ~Special' /\ ~Special
    BY <1>1, <1>4, <2>1 DEF Special, Expecting, Stopping
  <2> QED
    BY <1>1, <2>1, <2>2, QuietThere, LineQuiet
<1> QED
  BY <1>2, <1>3, <1>4

LEMMA BlockSentLine ==
  ASSUME CardInv, BlockSent PROVE Line'
<1>1. /\ card \in CardStates /\ UNCHANGED <<slot, mem, sub, call>> /\ Line /\ Moves /\ pc = "xresp"
      /\ card' = Shifted(1) /\ pc' \in {"xready", "written", "stop"}
  BY DEF BlockSent, Socket, CardInv, Typed, CardTyped, Moves, StartWaiting
<1>2. CASE ~Awake
  <2>1. ~Awake'
    BY <1>1, <1>2, LineMoved
  <2> QED
    BY <2>1, LineAsleep
<1>3. CASE Awake
  <2>1. card.from = Nowhere /\ card.out \in {<<<<5, "data">>>>, <<<<13, "data">>>>}
    BY <1>1, <1>3 DEF Line, Judged
  <2>2. Len(card.out) = 1 /\ card.out # <<>>
    BY <2>1
  <2>3. /\ card'.from = card.from /\ DOMAIN card'.out = 1..Len(card'.out)
        /\ card.out # <<>> => Len(card'.out) = Len(card.out) - 1
    BY <1>1, <1>3, OneOff DEF Awake
  <2>4. Quiet'
    BY <2>1, <2>2, <2>3 DEF Quiet, NoData
  <2>5. ~Special' /\ pc' # "response"
    BY <1>1 DEF Special, Expecting, Stopping
  <2> QED
    BY <2>4, <2>5 DEF Line, Answered, Still, Sends, SendsOn, GoesOn, Stops, Judged, Special
<1> QED
  BY <1>2, <1>3

LEMMA SendBlockLine ==
  ASSUME CardInv, SendBlock PROVE Line'
<1>1. /\ card \in CardStates /\ UNCHANGED <<slot, sub, call>> /\ Line /\ pc = "xready" /\ pc # "idle"
      /\ CardTyped /\ MemTyped /\ DriverInv /\ Asleep
  BY DEF SendBlock, Socket, CallVars, CardInv, Typed, CardTyped, DriverInv, Settled
<1>2. CASE Sets
  <2>1. pc' = "xresp"
    BY <1>2, BlockSet
  <2>2. ~Expecting' /\ ~Stopping'
    BY <2>1 DEF Expecting, Stopping
  <2>3. CASE Ignored
    <3>1. ~Awake
      <4>1. call.op = "write" /\ call # NoCall /\ Due # Nowhere
        BY <1>1, CallThere DEF DriverInv, Placed, Stage, Sending, WritePcs
      <4>2. Awake => card.rx = Due
        BY <1>1, <4>1 DEF CardInv, Moved, Directed
      <4> QED
        BY <2>3, <4>1, <4>2 DEF Ignored, Awake
    <3>2. ~Awake'
      BY <1>1, <2>3, <3>1, IgnoredLine, LineMoved
    <3> QED
      BY <3>2, LineAsleep
  <2>4. CASE Takes \/ Refuses
    <3>1. card'.from = card.from /\ card'.out \in {<<<<5, "data">>>>, <<<<13, "data">>>>} /\ Alive
      BY <2>4 DEF Takes, Refuses, Kept
    <3>2. ~Special
      BY <1>1 DEF Special, Expecting, Stopping
    <3>3. card.from = Nowhere
      BY <1>1, <3>1, <3>2, QuietThere DEF Quiet, Awake, Asleep
    <3> QED
      BY <2>1, <2>2, <3>1, <3>3 DEF Line, Answered, Still, Sends, SendsOn, GoesOn, Stops, Judged
  <2> QED
    BY <1>1, <1>2, <2>3, <2>4, SetBy
<1>3. CASE ~Sets
  <2>1. TimedOut /\ AfterBlock /\ UNCHANGED mem
    BY <1>3 DEF SendBlock, Sets
  <2>2. pc' \in {"written", "stop"} /\ Moves
    BY <2>1 DEF AfterBlock, StartWaiting, Moves
  <2>3. ~Special /\ ~Special'
    BY <1>1, <2>2 DEF Special, Expecting, Stopping
  <2> QED
    BY <1>1, <2>2, <2>3, QuietThere, LineQuiet
<1> QED
  BY <1>2, <1>3

LEMMA StopTranQuiet ==
  ASSUME CardInv, StopTran PROVE Line'
<1>1. /\ CardTyped /\ Line /\ pc = "stop" /\ pc' = "written" /\ UNCHANGED slot
  BY DEF StopTran, Socket, CardInv, Typed
<1>2. /\ card'.mode = card.mode /\ card'.from = card.from /\ card'.dead = card.dead
      /\ NoData(card.out) => NoData(card'.out)
  BY <1>1, StopTranLine
<1>3. Awake' = Awake
  BY <1>1, <1>2 DEF Awake, Alive, Present
<1>4. ~Special /\ ~Special'
  BY <1>1 DEF Special, Expecting, Stopping
<1>5. Awake' => Quiet'
  BY <1>1, <1>2, <1>3, <1>4, QuietThere DEF Quiet
<1> QED
  BY <1>1, <1>4, <1>5 DEF Line, Answered, Still, Sends, SendsOn, GoesOn, Stops, Judged, Special

\* The rest of the driver finds the line silent, and leaves it so.
LEMMA RestLine ==
  ASSUME CardInv, Start \/ Polled \/ Initialize \/ InitEnd \/ PowerOff \/ StartWrite \/ Written
  PROVE Line'
<1>1. card \in CardStates /\ Line /\ LineStep /\ DriverInv
  BY LineSteps DEF Driver, CardInv, Typed, CardTyped, Settled, DriverInv
<1>2. pc \in {"start", "gotpoll", "initend", "off", "gotwrite", "got23", "written"} \cup Between
  BY Places DEF Driver
<1>3. ~Special
  BY <1>2 DEF Special, Expecting, Stopping, Between
<1>4. Moves
  <2>1. pc \notin {"ready", "xready", "stop"}
    BY <1>2 DEF Between
  <2>2. ~Hears /\ ~Sets /\ ~StopTran
    BY <2>1, FrameSent, BlockSet DEF StopTran
  <2> QED
    BY <1>1, <2>2, Zenon DEF LineStep
<1>5. /\ pc' \in {"idle", "loop1", "loop2", "initend", "off", "xready", "select"}
      /\ pc' = "select" => sub'.then # "stopped"
  <2>1. CASE Start
    BY <1>1, <2>1, StartLeads
  <2>2. CASE Initialize
    BY <2>2, InitializeLeads DEF InitLeads, To
  <2>3. CASE Polled \/ PowerOff \/ Written
    BY <2>3 DEF Polled, PowerOff, Written, Reply
  <2>4. CASE InitEnd \/ StartWrite
    BY <2>4 DEF InitEnd, StartWrite, Reply, SendThen, StartWaiting
  <2> QED
    BY <2>1, <2>2, <2>3, <2>4
<1>6. ~Special' /\ pc' # "response"
  BY <1>5 DEF Special, Expecting, Stopping
<1> QED
  BY <1>1, <1>3, <1>4, <1>6, QuietThere, LineQuiet DEF LineStep

LEMMA DriverOnLine ==
  ASSUME CardInv, Driver PROVE Line'
<1>1. CASE Dma /\ ~Awake
  <2>1. Moves /\ UNCHANGED slot /\ card \in CardStates
    BY <1>1 DEF Dma, Moves, Socket, CardInv, Typed, CardTyped
  <2>2. ~Awake'
    BY <1>1, <2>1, LineMoved
  <2> QED
    BY <2>2, LineAsleep
<1> QED
  BY <1>1, SelectLine, SendFrameLine, ResponseLine, TokenLine, DmaByte, DiscardCRCLine, DataReadLine,
     BlockSentLine, SendBlockLine, StopTranQuiet, RestLine DEF Driver

LEMMA DriverBusy ==
  ASSUME CardInv, Driver PROVE Busy'
<1>1. /\ card \in CardStates /\ Line /\ LineStep /\ Busy /\ Asleep /\ CardTyped
  BY LineSteps DEF CardInv, Typed, CardTyped, Settled
<1>2. CASE Moves
  <2>1. /\ card'.busy = card.busy /\ card'.from = card.from /\ Alive' = Alive
        /\ card.out = <<>> => card'.out = <<>>
    BY <1>1, <1>2, LineMoved DEF LineStep
  <2>2. CASE pc = "xresp" /\ Awake
    <3>1. BlockSent
      BY <2>2, StepAt
    <3>2. card' = Shifted(1)
      BY <3>1 DEF BlockSent, StartWaiting
    <3>3. card.out \in {<<<<5, "data">>>>, <<<<13, "data">>>>}
      BY <1>1, <2>2 DEF Line, Judged
    <3>4. Len(card.out) = 1 /\ card.out # <<>>
      BY <3>3
    <3>5. Len(card'.out) = 0 /\ card' \in CardStates
      BY <1>1, <2>2, <3>2, <3>4, OneOff DEF Awake, LineStep
    <3>6. card'.out = <<>>
      BY <3>5, EmptySeq DEF CardStates
    <3> QED
      BY <1>1, <2>1, <3>6 DEF Busy
  <2>3. CASE ~(pc = "xresp" /\ Awake)
    BY <1>1, <2>1, <2>3 DEF Busy, Awake, Asleep
  <2> QED
    BY <2>2, <2>3
<1>3. CASE Silent \/ Response1
  <2>1. CASE Response1
    BY <2>1 DEF Response1, Busy
  <2>2. CASE Silent
    <3>1. card' = card
      BY <2>2 DEF Silent, Awake
    <3>2. ~card.busy \/ ~Alive
      BY <1>1, <2>2 DEF Silent, Awake, Asleep
    <3> QED
      BY <1>1, <3>1, <3>2 DEF Busy, LineStep, Alive, Present
  <2> QED
    BY <1>3, <2>1, <2>2
<1>4. CASE Sets /\ (Takes \/ Refuses)
  <2>1. pc = "xready" /\ pc' = "xresp"
    BY <1>4, BlockSet
  <2>2. card'.from = card.from /\ Alive
    BY <1>4 DEF Takes, Refuses, Kept
  <2>3. card.from = Nowhere
    BY <1>1, <2>1, <2>2, QuietThere DEF Special, Expecting, Stopping, Quiet, Awake, Asleep
  <2> QED
    BY <2>1, <2>2, <2>3 DEF Busy
<1>5. CASE StopTran
  <2>1. pc = "stop"
    BY <1>5 DEF StopTran
  <2>2. /\ card'.from = card.from /\ card'.dead = card.dead /\ card'.busy = card.busy
        /\ card.out = <<>> => card'.out = <<>>
    BY <1>1, <1>5, StopTranLine
  <2> QED
    BY <1>1, <2>1, <2>2 DEF Busy, Alive, Present, LineStep
<1> QED
  BY <1>1, <1>2, <1>3, <1>4, <1>5, IgnoredLine DEF LineStep
-----------------------------------------------------------------------------
(* The rest of the world: the card goes on, time passes, mishaps happen.   *)

\* The socket and the line are the same, and so is the driver.
LEMMA SameLine ==
  ASSUME CardInv, UNCHANGED <<slot, mem, call, pc, sub, ty, dma, buff, done, Stat, CardType>>,
         card'.mode = card.mode, card'.out = card.out, card'.from = card.from, card'.rx = card.rx,
         card'.more = card.more, card'.dead = card.dead, card'.busy => card.busy
  PROVE Line' /\ Known' /\ SameCard' /\ Moved'
<1>1. /\ Awake' = Awake /\ Quiet' = Quiet /\ Expecting' = Expecting /\ Stopping' = Stopping
      /\ Due' = Due /\ Lead' = Lead /\ Stage' = Stage /\ Sending' = Sending /\ Command' = Command
      /\ (CCS <=> CCS') /\ Ocr' = Ocr
  BY DEF Awake, Alive, Present, Quiet, NoData, Expecting, Stopping, Due, Lead, Stage, Sending, Command,
     CCS, Ocr
<1>2. Line'
  <2>1. Answered' /\ Still' /\ Stops' /\ Judged' /\ GoesOn'
    BY <1>1 DEF CardInv, Line, Answered, Still, Stops, Judged, GoesOn, Drains, AllData
  <2>2. ASSUME NEW k, NEW b, IsFrame(k, b) PROVE IsFrame(k, b)'
    BY <2>2 DEF IsFrame, Follows
  <2>3. ASSUME NEW k, NEW b, Coming(k, b) PROVE Coming(k, b)'
    BY <2>2, <2>3 DEF Coming
  <2>4. PICK k, b : k = Lead /\ b = Due
    OBVIOUS
  <2>5. Sends'
    BY <1>1, <2>3, <2>4 DEF CardInv, Line, Sends
  <2>6. PICK j : j = -1 - Len(dma)
    OBVIOUS
  <2>7. SendsOn'
    BY <1>1, <2>2, <2>4, <2>6 DEF CardInv, Line, SendsOn
  <2> QED
    BY <2>1, <2>5, <2>7 DEF Line
<1>3. Known'
  BY <1>1 DEF CardInv, Known, Probed, Classed, Says, TellsV2
<1>4. SameCard'
  BY <1>1 DEF CardInv, SameCard, Unheard, Present
<1>5. Moved'
  BY <1>1 DEF CardInv, Moved, HasRead, HasWritten, Directed, Follows, Holds
<1> QED
  BY <1>2, <1>3, <1>4, <1>5

LEMMA ProgrammedKeeps ==
  ASSUME CardInv, Programmed PROVE CardInv'
<1>1. /\ card \in CardStates /\ card' = [card EXCEPT !.busy = FALSE, !.prog = <<>>]
      /\ UNCHANGED <<slot, mem, call, pc, sub, ty, dma, buff, done, Stat, CardType, Timer1, Timer2>>
  BY DEF Programmed, driverVars, CardInv, Typed, CardTyped
<1>2. /\ card' \in CardStates /\ card'.mode = card.mode /\ card'.out = card.out /\ card'.from = card.from
      /\ card'.rx = card.rx /\ card'.more = card.more /\ card'.dead = card.dead /\ ~card'.busy
      /\ card'.prog = <<>>
  BY <1>1 DEF CardStates
<1>3. DriverInv'
  BY OthersKeep DEF CardInv, Typed, Settled, DriverInv, CardTyped
<1>4. Line' /\ Known' /\ SameCard' /\ Moved'
  BY <1>1, <1>2, SameLine
<1>5. CardTyped' /\ MemTyped' /\ Asleep' /\ Busy' /\ Patient'
  BY <1>1, <1>2 DEF CardInv, Typed, Settled, CardTyped, MemTyped, Asleep, Busy, Patient, Alive, Present
<1> QED
  BY <1>3, <1>4, <1>5 DEF CardInv, Typed, Settled, DriverInv

LEMMA TickKeeps ==
  ASSUME CardInv, Tick PROVE CardInv'
<1>1. UNCHANGED <<slot, mem, card, call, pc, sub, ty, dma, buff, done, Stat, CardType>>
  BY DEF Tick
<1>2. DriverInv'
  BY OthersKeep DEF CardInv, Typed, Settled, DriverInv, CardTyped
<1>3. Line' /\ Known' /\ SameCard' /\ Moved'
  BY <1>1, SameLine
<1>4. CardTyped' /\ MemTyped' /\ Asleep' /\ Busy'
  BY <1>1 DEF CardInv, Typed, Settled, CardTyped, MemTyped, Asleep, Busy, Alive, Present
<1>5. Patient'
  <2>1. /\ Timer1 \in 0..Max({TOKEN_TICKS, INIT_TICKS}) /\ Timer2 \in 0..READY_TICKS
        /\ Timer1' = Max({Timer1 - 1, 0}) /\ Timer2' = Max({Timer2 - 1, 0})
        /\ 1 \in {Timer1, Timer2} => Punctual
    BY DEF CardInv, Typed, DriverTyped, Tick
  <2>2. Timer1 \in Nat /\ Timer2 \in Nat
    BY <2>1
  <2>3. /\ Timer1' = IF Timer1 - 1 >= 0 THEN Timer1 - 1 ELSE 0
        /\ Timer2' = IF Timer2 - 1 >= 0 THEN Timer2 - 1 ELSE 0
    BY <2>1, <2>2, MaxPair
  <2>4. /\ Timer1' = 0 => Timer1 = 0 \/ Timer1 = 1
        /\ Timer2' = 0 => Timer2 = 0 \/ Timer2 = 1
    BY <2>2, <2>3
  <2>5. Alive /\ 1 \in {Timer1, Timer2} => card.from = Nowhere /\ ~card.busy
    BY <2>1 DEF Punctual, Alive
  <2> QED
    BY <1>1, <2>4, <2>5 DEF CardInv, Settled, Patient, Alive, Present
<1> QED
  BY <1>2, <1>3, <1>4, <1>5 DEF CardInv, Typed, Settled, DriverInv

\* With no card to speak of, and the call known to be spoilt, nothing is said.
LEMMA Spoilt ==
  ASSUME ~Awake', call' # NoCall => ~call'.well
  PROVE Line' /\ Known' /\ SameCard' /\ Moved'
<1>1. Line'
  BY LineAsleep
<1>2. Known'
  BY DEF Known, Probed, Classed
<1>3. SameCard'
  BY DEF SameCard
<1>4. Moved'
  BY DEF Moved, HasRead, HasWritten, Directed
<1> QED
  BY <1>1, <1>2, <1>3, <1>4

LEMMA WellOff ==
  ASSUME DriverTyped, call # NoCall PROVE ~[call EXCEPT !.well = FALSE].well
  BY CallFields DEF CallStates

LEMMA DieKeeps ==
  ASSUME CardInv, Die PROVE CardInv'
<1>1. PICK how \in {"mute", "stuck"} : card' = [card EXCEPT !.dead = how]
  BY DEF Die
<1>2. /\ card \in CardStates /\ UNCHANGED <<slot, mem>> /\ call # NoCall
      /\ call' = [call EXCEPT !.well = FALSE] /\ DriverTyped
  BY DEF Die, CardInv, Typed, CardTyped
<1>3. /\ card' \in CardStates /\ card'.mode = card.mode /\ card'.out = card.out /\ card'.from = card.from
      /\ card'.rx = card.rx /\ card'.dead # "no" /\ card'.busy = card.busy /\ card'.prog = card.prog
  BY <1>1, <1>2 DEF CardStates
<1>4. DriverInv'
  BY OthersKeep DEF CardInv, Typed, Settled, DriverInv, CardTyped
<1>5. ~Alive' /\ ~Awake'
  BY <1>3 DEF Alive, Awake
<1>6. Line' /\ Known' /\ SameCard' /\ Moved'
  BY <1>2, <1>5, Spoilt, WellOff
<1>7. CardTyped' /\ MemTyped' /\ Asleep' /\ Busy' /\ Patient'
  BY <1>2, <1>3, <1>5 DEF CardInv, Typed, Settled, CardTyped, MemTyped, Asleep, Busy, Patient
<1> QED
  BY <1>4, <1>6, <1>7 DEF CardInv, Typed, Settled, DriverInv

LEMMA SwapKeeps ==
  ASSUME CardInv, Swap PROVE CardInv'
<1>1. /\ card \in CardStates /\ slot \in Cards \cup {"none"} /\ DriverTyped /\ MemTyped
      /\ card' = CardOff /\ slot' \in IF Present THEN {"none"} ELSE Cards
      /\ mem' \in {mem} \cup (IF card.prog = <<>> THEN {}
                          ELSE {[mem EXCEPT ![slot][card.prog[1]] = card.prog[2]]})
      /\ call' = IF call = NoCall THEN call ELSE [call EXCEPT !.well = FALSE]
  BY DEF Swap, CardInv, Typed, CardTyped
<1>2. card' \in CardStates
  BY <1>1, EmptySeq DEF CardStates, CardOff
<1>3. CardTyped'
  BY <1>1, <1>2 DEF CardTyped
<1>4. MemTyped'
  <2>1. CASE mem' = mem
    BY <1>1, <2>1 DEF MemTyped
  <2>2. CASE card.prog # <<>> /\ mem' = [mem EXCEPT ![slot][card.prog[1]] = card.prog[2]]
    <3>1. card.prog \in Nat \X Block
      BY <1>1, <2>2, CardFields
    <3>2. PICK at \in Nat, b \in Block : at = card.prog[1] /\ b = card.prog[2]
      BY <3>1
    <3>3. mem' = [mem EXCEPT ![slot][at] = b]
      BY <2>2, <3>2
    <3>4. CASE slot \in Cards
      BY <1>1, <3>3, <3>4, MemSet
    <3>5. CASE slot \notin Cards
      <4>1. mem' = mem
        BY <1>1, <3>3, <3>5 DEF MemTyped
      <4> QED
        BY <1>1, <4>1 DEF MemTyped
    <3> QED
      BY <3>4, <3>5
  <2> QED
    BY <1>1, <2>1, <2>2
<1>5. ~Awake' /\ (call' # NoCall => ~call'.well)
  BY <1>1, WellOff DEF Awake, CardOff
<1>6. Line' /\ Known' /\ SameCard' /\ Moved'
  BY <1>5, Spoilt
<1>7. Asleep' /\ Busy' /\ Patient'
  BY <1>1 DEF Asleep, Busy, Patient, CardOff
<1>8. DriverInv'
  BY OthersKeep DEF CardInv, Typed, Settled, DriverInv, CardTyped
<1> QED
  BY <1>3, <1>4, <1>6, <1>7, <1>8 DEF CardInv, Typed, Settled, DriverInv

LEMMA AskKeeps ==
  ASSUME CardInv, Ask PROVE CardInv'
<1>1. PICK op \in {"initialize", "poll", "read", "write"}, s \in Sectors, n \in Counts, d \in Payloads :
        call' = [op |-> op, sector |-> s, count |-> n, data |-> d, card |-> slot, well |-> TRUE]
  BY DEF Ask
<1>2. /\ call = NoCall /\ pc' = "start"
      /\ UNCHANGED <<slot, mem, card, sub, ty, dma, buff, done, Stat, CardType, Timer1, Timer2>>
  BY DEF Ask, Socket
<1>3. call'.well /\ call'.card = slot
  BY <1>1
<1>4. pc = "idle" /\ Stage = "idle" /\ Stage' = "start" /\ done = 0 /\ ty = 0 /\ buff = <<>> /\ ~Sending'
  BY <1>2 DEF CardInv, Settled, Placed, Stage, Sending
<1>5. /\ Awake' = Awake /\ Alive' = Alive /\ Quiet' = Quiet /\ (CCS' <=> CCS)
  BY <1>2 DEF Awake, Alive, Present, Quiet, NoData, CCS
<1>6. ~Special /\ ~Special'
  BY <1>2, <1>4 DEF Special, Expecting, Stopping
<1>7. Line'
  BY <1>2, <1>4, <1>5, <1>6, QuietThere
  DEF CardInv, Line, Answered, Still, Sends, SendsOn, GoesOn, Stops, Judged, Special
<1>8. Known'
  BY <1>2, <1>4, <1>5 DEF CardInv, Known, Probed, Classed, InitPcs
<1>9. SameCard'
  BY <1>2, <1>3, <1>4 DEF SameCard, Unheard
<1>10. HasRead'
  <2>1. done' = 0 /\ buff' = <<>> /\ pc' # "dma"
    BY <1>2, <1>4
  <2>3. buff' = [i \in 1..done' |-> mem'[slot'][call'.sector + i - 1]]
    BY <2>1
  <2> QED
    BY <2>1, <2>3 DEF HasRead
<1>11. HasWritten' /\ Directed'
  BY <1>2, <1>4 DEF HasWritten, Directed
<1>12. CardTyped' /\ MemTyped' /\ Asleep' /\ Busy' /\ Patient'
  BY <1>2, <1>4, <1>5 DEF CardInv, Typed, Settled, CardTyped, MemTyped, Asleep, Busy, Patient
<1>13. DriverInv'
  BY OthersKeep DEF CardInv, Typed, Settled, DriverInv, CardTyped
<1> QED
  BY <1>7, <1>8, <1>9, <1>10, <1>11, <1>12, <1>13 DEF CardInv, Typed, Settled, DriverInv, Moved

\* Two sequences, one after the other.
Join(S, u, v, s) ==
  /\ s \in Seq(S) /\ Len(s) = Len(u) + Len(v) /\ Len(u) \in Nat /\ Len(v) \in Nat
  /\ DOMAIN s = 1..Len(s)
  /\ \A i \in 1..Len(u) : s[i] = u[i]
  /\ \A i \in 1..Len(v) : s[Len(u) + i] = v[i]
LEMMA Joined ==
  ASSUME NEW S, NEW u \in Seq(S), NEW v \in Seq(S), NEW s, s = u \o v
  PROVE Join(S, u, v, s)
<1>1. Len(u) \in Nat /\ Len(v) \in Nat
  BY LenProperties
<1>2. /\ u \o v \in Seq(S)
      /\ Len(u \o v) = Len(u) + Len(v)
      /\ \A i \in 1..(Len(u) + Len(v)) : (u \o v)[i] = IF i <= Len(u) THEN u[i] ELSE v[i - Len(u)]
  BY ConcatProperties
<1>3. DOMAIN s = 1..Len(s)
  BY <1>2, LenProperties
<1>4. ASSUME NEW i \in 1..Len(u) PROVE s[i] = u[i]
  <2>1. i \in 1..(Len(u) + Len(v)) /\ i <= Len(u)
    BY <1>1
  <2> QED
    BY <1>2, <2>1
<1>5. ASSUME NEW i \in 1..Len(v) PROVE s[Len(u) + i] = v[i]
  <2>1. /\ Len(u) + i \in 1..(Len(u) + Len(v)) /\ ~(Len(u) + i <= Len(u))
        /\ Len(u) + i - Len(u) = i
    BY <1>1
  <2>2. (u \o v)[Len(u) + i] = IF Len(u) + i <= Len(u) THEN u[Len(u) + i] ELSE v[Len(u) + i - Len(u)]
    BY <1>2, <2>1
  <2> QED
    BY <2>1, <2>2
<1> QED
  BY <1>1, <1>2, <1>3, <1>4, <1>5 DEF Join

\* The bytes of a block, framed.
Frame(s, m) == /\ s \in Seq(Byte) /\ Len(s) = BLOCK + 3 /\ s[1] = 254
               /\ \A j \in 2..(BLOCK + 1) : s[j] = m[j - 1]
LEMMA FramedBy ==
  ASSUME NEW a \in Seq(Byte), Len(a) = 1, a[1] = 254, NEW z \in Seq(Byte), Len(z) = 2,
         NEW m \in Block, NEW am, am = a \o m, NEW s, s = am \o z
  PROVE Frame(s, m)
<1>1. BLOCK \in Nat
  BY CardAssumption
<1>2. m \in Seq(Byte) /\ Len(m) = BLOCK
  BY <1>1 DEF Block
<1>3. Join(Byte, a, m, am)
  BY <1>2, Joined, Zenon
<1>4. Join(Byte, am, z, s)
  <2>1. am \in Seq(Byte)
    BY <1>3 DEF Join
  <2> QED
    BY <2>1, Joined, Zenon
<1>5. Len(am) = 1 + BLOCK /\ Len(s) = BLOCK + 3
  <2>1. Len(am) = Len(a) + Len(m) /\ Len(s) = Len(am) + Len(z)
    BY <1>3, <1>4, Zenon DEF Join
  <2> QED
    BY <1>1, <1>2, <2>1
<1>6. s[1] = 254
  <2>1. (\A i \in 1..Len(a) : am[i] = a[i]) /\ (\A i \in 1..Len(am) : s[i] = am[i])
    BY <1>3, <1>4, Zenon DEF Join
  <2>2. 1 \in 1..Len(a) /\ 1 \in 1..Len(am)
    BY <1>1, <1>5
  <2>3. am[1] = a[1]
    BY <2>1, <2>2, Zenon
  <2>4. s[1] = am[1]
    BY <2>1, <2>2, Zenon
  <2> QED
    BY <2>3, <2>4
<1>7. ASSUME NEW j \in 2..(BLOCK + 1) PROVE s[j] = m[j - 1]
  <2>1. j \in 1..Len(am) /\ j - 1 \in 1..Len(m) /\ Len(a) + (j - 1) = j
    BY <1>1, <1>2, <1>5
  <2>2. am[Len(a) + (j - 1)] = m[j - 1]
    BY <1>3, <2>1 DEF Join
  <2> QED
    BY <1>4, <2>1, <2>2 DEF Join
<1> QED
  BY <1>4, <1>5, <1>6, <1>7 DEF Join, Frame

LEMMA Framed ==
  ASSUME NEW m \in Block, NEW s, s = << 254 >> \o m \o <<CRC, CRC>>
  PROVE Frame(s, m)
<1>1. CRC \in Byte /\ 254 \in Byte
  BY DataAssumption DEF Byte
<1>2. PICK a : a = <<254>>
  OBVIOUS
<1>3. PICK z : z = <<CRC, CRC>>
  OBVIOUS
<1>4. a \in Seq(Byte) /\ Len(a) = 1 /\ a[1] = 254
  BY <1>1, <1>2
<1>5. z \in Seq(Byte) /\ Len(z) = 2
  BY <1>1, <1>3
<1>6. PICK am : am = a \o m
  OBVIOUS
<1>7. s = am \o z
  BY <1>2, <1>3, <1>6
<1> QED
  BY <1>4, <1>5, <1>6, <1>7, FramedBy, Zenon

\* Bytes of a block come after what is on the line.
Comes(bytes, from) ==
  card' = [card EXCEPT !.out = @ \o [i \in DOMAIN bytes |-> <<bytes[i], "data">>], !.from = from]
LEMMA Arrives ==
  ASSUME card \in CardStates, NEW bytes \in Seq(Byte), NEW from \in Nat \cup {Nowhere},
         Comes(bytes, from)
  PROVE /\ card' \in CardStates /\ card'.from = from
        /\ card'.mode = card.mode /\ card'.rx = card.rx /\ card'.more = card.more
        /\ card'.dead = card.dead /\ card'.busy = card.busy /\ card'.prog = card.prog
        /\ Len(card'.out) = Len(card.out) + Len(bytes) /\ Len(bytes) \in Nat
        /\ DOMAIN card'.out = 1..Len(card'.out)
        /\ \A i \in 1..Len(card.out) : card'.out[i] = card.out[i]
        /\ \A i \in 1..Len(bytes) : card'.out[Len(card.out) + i] = <<bytes[i], "data">>
<1> DEFINE t == [i \in DOMAIN bytes |-> <<bytes[i], "data">>]
<1>1. DOMAIN bytes = 1..Len(bytes) /\ Len(bytes) \in Nat /\ \A i \in DOMAIN bytes : bytes[i] \in Byte
  BY LenProperties, ElementOfSeq
<1>2. t \in [1..Len(bytes) -> Bytes]
  BY <1>1 DEF Bytes
<1>3. t \in Seq(Bytes) /\ Len(t) = Len(bytes)
  BY <1>1, <1>2, SeqDef
<1>4. \A i \in 1..Len(bytes) : t[i] = <<bytes[i], "data">>
  BY <1>1
<1>5. card' = [card EXCEPT !.out = card.out \o t, !.from = from]
  BY DEF Comes
<1> HIDE DEF t
<1>6. card.out \in Seq(Bytes)
  BY CardFields
<1>7. PICK u \in Seq(Bytes), v \in Seq(Bytes) : u = card.out /\ v = t
  BY <1>3, <1>6
<1>8. PICK s : s = u \o v
  OBVIOUS
<1>9. /\ s \in Seq(Bytes) /\ Len(s) = Len(u) + Len(v)
      /\ DOMAIN s = 1..Len(s)
      /\ \A i \in 1..Len(u) : s[i] = u[i]
      /\ \A i \in 1..Len(v) : s[Len(u) + i] = v[i]
  BY <1>8, Joined DEF Join
<1>10. card' = [card EXCEPT !.out = s, !.from = from]
  BY <1>5, <1>7, <1>8
<1>11. /\ card' \in CardStates /\ card'.out = s /\ card'.from = from
       /\ card'.mode = card.mode /\ card'.rx = card.rx /\ card'.more = card.more
       /\ card'.dead = card.dead /\ card'.busy = card.busy /\ card'.prog = card.prog
  BY <1>9, <1>10 DEF CardStates
<1>12. /\ \A i \in 1..Len(card.out) : card'.out[i] = card.out[i]
       /\ \A i \in 1..Len(bytes) : card'.out[Len(card.out) + i] = <<bytes[i], "data">>
  BY <1>3, <1>4, <1>7, <1>9, <1>11
<1> QED
  BY <1>1, <1>3, <1>7, <1>9, <1>11, <1>12

FrameIn ==
  /\ card.from \in DOMAIN mem[slot] /\ card'.from = Follows(card.from)
  /\ Len(card'.out) = Len(card.out) + (BLOCK + 3)
  /\ \A i \in 1..(BLOCK + 3) : card'.out[Len(card.out) + i][2] = "data"
  /\ card'.out[Len(card.out) + 1][1] = 254
  /\ \A j \in 2..(BLOCK + 1) : card'.out[Len(card.out) + j][1] = mem[slot][card.from][j - 1]
EndIn ==
  /\ card'.from = Nowhere /\ Len(card'.out) = Len(card.out) + 1
  /\ card'.out[Len(card.out) + 1] = <<8, "data">>
LEMMA Delivered ==
  ASSUME CardInv, Deliver
  PROVE /\ Awake /\ NoData(card.out) /\ card.from \in Nat
        /\ UNCHANGED <<slot, mem, call, pc, sub, ty, dma, buff, done, Stat, CardType, Timer1, Timer2>>
        /\ card' \in CardStates /\ card'.mode = card.mode /\ card'.rx = card.rx /\ card'.more = card.more
        /\ card'.dead = card.dead /\ card'.busy = card.busy /\ card'.prog = card.prog
        /\ DOMAIN card'.out = 1..Len(card'.out) /\ Len(card'.out) \in Nat
        /\ \A i \in 1..Len(card.out) : card'.out[i] = card.out[i]
        /\ FrameIn \/ EndIn
<1>1. /\ card \in CardStates /\ Alive /\ card.from # Nowhere /\ MemTyped /\ slot \in Cards
      /\ UNCHANGED <<slot, mem, call, pc, sub, ty, dma, buff, done, Stat, CardType, Timer1, Timer2>>
      /\ NoData(card.out) /\ Asleep
  BY DEF Deliver, driverVars, CardInv, Typed, CardTyped, Settled, Alive, Present, NoData
<1>2. Awake /\ card.from \in Nat /\ card.more \in BOOLEAN /\ Len(card.out) \in Nat
  BY <1>1, CardFields DEF Awake, Asleep
<1>3. BLOCK \in Nat
  BY CardAssumption
<1> DEFINE there == card.from \in DOMAIN mem[slot]
           bytes == IF there THEN <<254>> \o mem[slot][card.from] \o <<CRC, CRC>> ELSE <<8>>
<1>4. card' = [card EXCEPT !.out = @ \o [i \in DOMAIN bytes |-> <<bytes[i], "data">>],
                           !.from = IF there /\ card.more THEN @ + 1 ELSE Nowhere]
  BY DEF Deliver
<1>5. PICK f : f = IF there /\ card.more THEN card.from + 1 ELSE Nowhere
  OBVIOUS
<1>6. f \in Nat \cup {Nowhere}
  BY <1>2, <1>5
<1>7. CASE there
  <2>1. PICK m \in Block : m = mem[slot][card.from]
    BY <1>1, <1>7 DEF MemTyped
  <2>2. PICK s : s = <<254>> \o m \o <<CRC, CRC>>
    OBVIOUS
  <2>3. Frame(s, m)
    BY <2>2, Framed
  <2>4. s = bytes
    BY <1>7, <2>1, <2>2
  <2> HIDE DEF bytes
  <2>5. Comes(s, f)
    BY <1>4, <1>5, <2>4 DEF Comes
  <2>6. s \in Seq(Byte)
    BY <2>3 DEF Frame
  <2>7. /\ card' \in CardStates /\ card'.from = f
        /\ card'.mode = card.mode /\ card'.rx = card.rx /\ card'.more = card.more
        /\ card'.dead = card.dead /\ card'.busy = card.busy /\ card'.prog = card.prog
        /\ Len(card'.out) = Len(card.out) + Len(s) /\ Len(s) \in Nat
        /\ DOMAIN card'.out = 1..Len(card'.out)
        /\ \A i \in 1..Len(card.out) : card'.out[i] = card.out[i]
        /\ \A i \in 1..Len(s) : card'.out[Len(card.out) + i] = <<s[i], "data">>
    BY <1>1, <1>6, <2>5, <2>6, Arrives
  <2>8. Len(s) = BLOCK + 3
    BY <2>3 DEF Frame
  <2>9. card'.out[Len(card.out) + 1][1] = 254
    BY <1>3, <2>3, <2>7, <2>8 DEF Frame
  <2>10. ASSUME NEW j \in 2..(BLOCK + 1)
         PROVE card'.out[Len(card.out) + j][1] = mem[slot][card.from][j - 1]
    <3>1. j \in 1..Len(s)
      BY <1>3, <2>8
    <3>2. card'.out[Len(card.out) + j] = <<s[j], "data">>
      BY <2>7, <3>1
    <3>3. s[j] = m[j - 1]
      BY <2>3 DEF Frame
    <3> QED
      BY <2>1, <3>2, <3>3
  <2>11. ASSUME NEW i \in 1..(BLOCK + 3) PROVE card'.out[Len(card.out) + i][2] = "data"
    BY <2>7, <2>8
  <2>12. f = Follows(card.from)
    BY <1>5, <1>7 DEF Follows
  <2>13. FrameIn
    BY <1>7, <2>7, <2>8, <2>9, <2>10, <2>11, <2>12 DEF FrameIn
  <2>14. Len(card'.out) \in Nat
    BY <1>2, <2>7
  <2> QED
    BY <1>1, <1>2, <2>7, <2>13, <2>14
<1>8. CASE ~there
  <2>1. PICK s : s = <<8>>
    OBVIOUS
  <2>2. s \in Seq(Byte) /\ Len(s) = 1 /\ s[1] = 8
    BY <2>1 DEF Byte
  <2>3. s = bytes
    BY <1>8, <2>1
  <2> HIDE DEF bytes
  <2>4. Comes(s, f)
    BY <1>4, <1>5, <2>3 DEF Comes
  <2>5. /\ card' \in CardStates /\ card'.from = f
        /\ card'.mode = card.mode /\ card'.rx = card.rx /\ card'.more = card.more
        /\ card'.dead = card.dead /\ card'.busy = card.busy /\ card'.prog = card.prog
        /\ Len(card'.out) = Len(card.out) + Len(s) /\ Len(s) \in Nat
        /\ DOMAIN card'.out = 1..Len(card'.out)
        /\ \A i \in 1..Len(card.out) : card'.out[i] = card.out[i]
        /\ \A i \in 1..Len(s) : card'.out[Len(card.out) + i] = <<s[i], "data">>
    BY <1>1, <1>6, <2>2, <2>4, Arrives
  <2>6. f = Nowhere
    BY <1>5, <1>8
  <2>7. EndIn
    BY <2>2, <2>5, <2>6 DEF EndIn
  <2>8. Len(card'.out) \in Nat
    BY <1>2, <2>5
  <2> QED
    BY <1>1, <1>2, <2>5, <2>7, <2>8
<1> QED
  BY <1>7, <1>8

\* A block comes only where one is waited for, or where they go on coming.
LEMMA ComesWhereExpected ==
  ASSUME CardInv, Deliver
  PROVE /\ Expecting \/ Stopping
        /\ Expecting => Lead \in Nat /\ Len(card.out) = Lead /\ card.from = Due
        /\ Stopping /\ ~Expecting => card.more /\ card.out = <<>>
        /\ call # NoCall /\ call.op = "read" /\ Stage \in ReadPcs
<1>1. /\ Awake /\ NoData(card.out) /\ card.from \in Nat /\ card.from # Nowhere /\ card \in CardStates
      /\ DriverTyped /\ Placed /\ Line
  BY Delivered DEF CardInv, Typed, CardTyped, Settled, Nowhere
<1>2. Len(card.out) \in Nat /\ DOMAIN card.out = 1..Len(card.out) /\ (card.out = <<>> <=> Len(card.out) = 0)
  BY <1>1, CardFields
<1>3. BLOCK \in Nat /\ Len(dma) \in Nat /\ Len(dma) <= BLOCK
  BY <1>1, CardAssumption, LenProperties DEF DriverTyped
<1>4. pc # "dma"
  <2>1. SUFFICES ASSUME pc = "dma" PROVE FALSE
    OBVIOUS
  <2>2. PICK k \in Int : k = -1 - Len(dma)
    <3>1. -1 - Len(dma) \in Int
      BY <1>3
    <3> QED
      BY <3>1, Zenon
  <2>3. PICK b : b = Due
    OBVIOUS
  <2>4. IsFrame(k, b)
    BY <1>1, <2>1, <2>2, <2>3 DEF Line, SendsOn
  <2>5. 1 \in DOMAIN card.out /\ 1 > k
    BY <1>2, <1>3, <2>2, <2>4 DEF IsFrame
  <2>6. card.out[1][2] = "data"
    BY <2>4, <2>5 DEF IsFrame
  <2> QED
    BY <1>1, <2>5, <2>6 DEF NoData
<1>5. pc # "xresp"
  BY <1>1 DEF Line, Judged
<1>6. Expecting \/ Stopping
  BY <1>1, <1>4, <1>5 DEF Line, Still, Quiet
<1>7. ASSUME Expecting PROVE Lead \in Nat /\ Len(card.out) = Lead /\ card.from = Due
  <2>1. PICK k \in Nat : k = Lead
    BY DEF Lead
  <2>2. PICK b : b = Due
    OBVIOUS
  <2>3. Coming(k, b)
    BY <1>1, <1>7, <2>1, <2>2 DEF Line, Sends
  <2>4. ~IsFrame(k, b)
    <3>1. SUFFICES ASSUME IsFrame(k, b) PROVE FALSE
      OBVIOUS
    <3>2. PICK i \in DOMAIN card.out : i > k
      <4>1. BLOCK + 3 + k \in DOMAIN card.out /\ BLOCK + 3 + k > k
        BY <1>2, <1>3, <3>1 DEF IsFrame
      <4> QED
        BY <4>1
    <3>3. card.out[i][2] = "data"
      BY <3>1, <3>2 DEF IsFrame
    <3> QED
      BY <1>1, <3>3 DEF NoData
  <2> QED
    BY <1>1, <2>1, <2>2, <2>3, <2>4 DEF Coming
<1>8. ASSUME Stopping PROVE card.more /\ card.out = <<>>
  <2>1. Drains
    BY <1>1, <1>8 DEF Line, Stops
  <2>2. ~(1 \in DOMAIN card.out)
    BY <1>1, <2>1 DEF Drains, AllData, NoData
  <2> QED
    BY <1>2, <2>1, <2>2 DEF Drains
<1>9. Stage \in ReadPcs /\ pc # "idle"
  BY <1>6 DEF Expecting, Stopping, Stage, Sending, ReadPcs
<1>10. call # NoCall /\ call.op = "read"
  BY <1>1, <1>9 DEF Placed
<1> QED
  BY <1>6, <1>7, <1>8, <1>9, <1>10

LEMMA DeliverLine ==
  ASSUME CardInv, Deliver PROVE Line'
<1>1. /\ Awake /\ NoData(card.out) /\ card.from \in Nat
      /\ UNCHANGED <<slot, mem, call, pc, sub, ty, dma, buff, done, Stat, CardType, Timer1, Timer2>>
      /\ card' \in CardStates /\ card'.mode = card.mode /\ card'.rx = card.rx /\ card'.more = card.more
      /\ card'.dead = card.dead /\ card'.busy = card.busy /\ card'.prog = card.prog
      /\ DOMAIN card'.out = 1..Len(card'.out) /\ Len(card'.out) \in Nat
      /\ \A i \in 1..Len(card.out) : card'.out[i] = card.out[i]
      /\ FrameIn \/ EndIn
  BY Delivered
<1>2. Line /\ card \in CardStates
  BY DEF CardInv, Typed, CardTyped
<1>3. Len(card.out) \in Nat /\ DOMAIN card.out = 1..Len(card.out) /\ (card.out = <<>> <=> Len(card.out) = 0)
  BY <1>2, CardFields
<1>4. pc = "response" => card.out # <<>> /\ card'.out # <<>> /\ card'.out[1] = card.out[1]
  <2>1. pc = "response" => card.out # <<>>
    BY <1>1, <1>2 DEF Line, Answered
  <2>2. card.out # <<>> => 1 \in 1..Len(card.out) /\ Len(card.out) > 0
    BY <1>3
  <2>3. Len(card'.out) >= Len(card.out)
    <3>1. Len(card'.out) = Len(card.out) + (BLOCK + 3) \/ Len(card'.out) = Len(card.out) + 1
      BY <1>1, Zenon DEF FrameIn, EndIn
    <3>2. BLOCK \in Nat
      BY CardAssumption
    <3>3. PICK n \in Nat : n = Len(card'.out)
      BY <1>1, Zenon
    <3>4. PICK l \in Nat : l = Len(card.out)
      BY <1>3, Zenon
    <3>5. n = l + (BLOCK + 3) \/ n = l + 1
      BY <3>1, <3>3, <3>4, Zenon
    <3>6. n >= l
      BY <3>2, <3>5
    <3> QED
      BY <3>3, <3>4, <3>6, Zenon
  <2>4. card'.out = <<>> => Len(card'.out) = 0
    BY <1>1, EmptySeq
  <2> QED
    BY <1>1, <1>3, <2>1, <2>2, <2>3, <2>4
<1>5. Awake' = Awake /\ Stopping' = Stopping /\ Expecting' = Expecting /\ Lead' = Lead /\ Due' = Due
  BY <1>1, <1>4 DEF Awake, Alive, Present, Stopping, Expecting, Lead, Due
<1>6. Answered'
  BY <1>1, <1>2, <1>4, <1>5 DEF Line, Answered, Command
<1>7. /\ Expecting \/ Stopping
      /\ Expecting => Lead \in Nat /\ Len(card.out) = Lead /\ card.from = Due
      /\ Stopping /\ ~Expecting => card.more /\ card.out = <<>>
  BY ComesWhereExpected
<1>8. Still' /\ GoesOn'
  BY <1>1, <1>2, <1>5, <1>7 DEF Line, Still, GoesOn
<1>9. Sends'
  <2>1. SUFFICES ASSUME Expecting PROVE Coming(Lead, Due)'
    BY <1>5 DEF Sends
  <2>2. PICK k \in Nat : k = Lead /\ k = Len(card.out)
    BY <1>7, <2>1
  <2>3. PICK b : b = Due /\ b = card.from
    BY <1>7, <2>1
  <2>4. CASE EndIn
    <3>1. Coming(k, b)'
      BY <2>2, <2>4 DEF EndIn, Coming
    <3> QED
      BY <1>5, <2>2, <2>3, <3>1
  <2>5. CASE FrameIn
    <3>0. BLOCK \in Nat
      BY CardAssumption
    <3>1. b \in DOMAIN mem'[slot'] /\ card'.from = Follows(b)'
      BY <1>1, <2>3, <2>5 DEF FrameIn, Follows
    <3>2. Len(card'.out) = BLOCK + 3 + k
      <4>1. Len(card'.out) = Len(card.out) + (BLOCK + 3)
        BY <2>5, Zenon DEF FrameIn
      <4>2. k + (BLOCK + 3) = BLOCK + 3 + k
        BY <3>0
      <4> QED
        BY <2>2, <4>1, <4>2, Zenon
    <3>3. ASSUME NEW i \in DOMAIN card'.out
          PROVE /\ i > k => card'.out[i][2] = "data"
                /\ i - k = 1 => card'.out[i][1] = 254
                /\ i - k \in 2..(BLOCK + 1) => card'.out[i][1] = mem[slot][b][i - k - 1]
      <4>0. i \in Int /\ k \in Int
        BY <1>1
      <4>1. PICK j \in Int : j = i - k /\ i = k + j
        BY <4>0
      <4>2. i > k => j \in 1..(BLOCK + 3)
        BY <1>1, <3>0, <3>2, <4>0, <4>1
      <4>3. i > k => card'.out[i][2] = "data"
        <5>1. j \in 1..(BLOCK + 3) => card'.out[Len(card.out) + j][2] = "data"
          BY <2>5, Zenon DEF FrameIn
        <5> QED
          BY <2>2, <4>1, <4>2, <5>1
      <4>4. j = 1 => card'.out[k + j][1] = 254
        <5>1. card'.out[Len(card.out) + 1][1] = 254
          BY <2>5, Zenon DEF FrameIn
        <5>2. PICK q : q = k + 1 /\ q = Len(card.out) + 1
          BY <2>2
        <5>3. card'.out[q][1] = 254
          BY <5>1, <5>2, Zenon
        <5>4. j = 1 => k + j = q
          BY <5>2, Zenon
        <5> QED
          BY <5>3, <5>4, Zenon
      <4>5. j \in 2..(BLOCK + 1) => card'.out[k + j][1] = mem[slot][card.from][j - 1]
        <5>1. j \in 2..(BLOCK + 1) => card'.out[Len(card.out) + j][1] = mem[slot][card.from][j - 1]
          BY <2>5, Zenon DEF FrameIn
        <5>2. Len(card.out) + j = k + j
          BY <2>2, Zenon
        <5> QED
          BY <5>1, <5>2, Zenon
      <4>6. i - k = 1 => card'.out[i][1] = 254
        BY <4>1, <4>4, Zenon
      <4>7. i - k \in 2..(BLOCK + 1) => card'.out[i][1] = mem[slot][b][i - k - 1]
        <5>1. mem[slot][b][j - 1] = mem[slot][b][i - k - 1]
          BY <4>1, Zenon
        <5>2. j \in 2..(BLOCK + 1) => card'.out[k + j][1] = mem[slot][b][j - 1]
          BY <2>3, <4>5, Zenon
        <5> QED
          BY <4>1, <5>1, <5>2, Zenon
      <4> QED
        BY <4>3, <4>6, <4>7, Zenon
    <3>4. IsFrame(k, b)'
      BY <1>1, <3>1, <3>2, <3>3 DEF IsFrame
    <3>5. Coming(k, b)'
      BY <3>4 DEF Coming
    <3> QED
      BY <1>5, <2>2, <2>3, <3>5
  <2> QED
    BY <1>1, <2>4, <2>5
<1>10. Stops'
  <2>1. SUFFICES ASSUME Stopping PROVE Drains'
    BY <1>5 DEF Stops
  <2>2. ~Expecting
    BY <2>1 DEF Stopping, Expecting
  <2>3. card.more /\ Len(card.out) = 0
    BY <1>3, <1>7, <2>1, <2>2
  <2>4. CASE EndIn
    <3>1. Len(card'.out) = 1 /\ card'.out[1] = <<8, "data">>
      BY <2>3, <2>4 DEF EndIn
    <3>2. AllData(card'.out)
      BY <1>1, <3>1 DEF AllData
    <3> QED
      BY <1>1, <2>3, <3>1, <3>2 DEF Drains
  <2>5. CASE FrameIn
    <3>1. card'.from # Nowhere
      BY <1>1, <2>3, <2>5 DEF FrameIn, Follows, Nowhere
    <3>2. AllData(card'.out)
      <4>1. SUFFICES ASSUME NEW i \in 1..Len(card'.out) PROVE card'.out[i][2] = "data"
        BY <1>1 DEF AllData
      <4>2. i \in 1..(BLOCK + 3) /\ Len(card.out) + i = i
        BY <2>3, <2>5, CardAssumption DEF FrameIn
      <4> QED
        BY <2>5, <4>2 DEF FrameIn
    <3> QED
      BY <1>1, <2>3, <3>1, <3>2 DEF Drains
  <2> QED
    BY <1>1, <2>4, <2>5
<1>11. pc \notin {"dma", "xresp"}
  BY <1>7 DEF Expecting, Stopping
<1> QED
  BY <1>1, <1>6, <1>8, <1>9, <1>10, <1>11 DEF Line, SendsOn, Judged

LEMMA DeliverKeeps ==
  ASSUME CardInv, Deliver PROVE CardInv'
<1>1. /\ Awake /\ card.from \in Nat
      /\ UNCHANGED <<slot, mem, call, pc, sub, ty, dma, buff, done, Stat, CardType, Timer1, Timer2>>
      /\ card' \in CardStates /\ card'.mode = card.mode /\ card'.rx = card.rx /\ card'.more = card.more
      /\ card'.dead = card.dead /\ card'.busy = card.busy /\ card'.prog = card.prog
  BY Delivered
<1>2. call # NoCall /\ call.op = "read" /\ Stage \in ReadPcs
  BY ComesWhereExpected
<1>3. CardTyped /\ DriverInv /\ MemTyped /\ Known /\ SameCard /\ HasRead /\ Busy /\ Patient
  BY DEF CardInv, Typed, Settled, DriverInv, Moved
<1>4. card.mode # "off" /\ card.from # Nowhere /\ card.dead = "no" /\ Alive
  BY <1>1 DEF Awake, Alive, Nowhere
<1>5. CardTyped' /\ MemTyped'
  BY <1>1, <1>3 DEF CardTyped, MemTyped
<1>6. DriverInv'
  BY <1>1, <1>3, OthersKeep DEF CardTyped
<1>7. Asleep' /\ Busy' /\ Patient'
  BY <1>1, <1>3, <1>4 DEF Asleep, Busy, Patient, Alive, Present
<1>8. Line'
  BY DeliverLine
<1>9. Awake' /\ Stage' = Stage /\ pc' \in Pcs
  BY <1>1, <1>3 DEF Awake, Alive, Present, Stage, Sending, DriverInv, DriverTyped
<1>10. Stage \notin InitPcs /\ Stage # "got0" /\ pc \notin {"got0", "got8", "got58", "initend"}
  BY <1>2 DEF ReadPcs, InitPcs, Stage, Sending
<1>11. Known'
  <2>1. Stage \notin {"got8", "gotsd", "loop1", "got1", "got16", "got58"}
    BY <1>10 DEF InitPcs
  <2>2. Probed'
    BY <1>1, <1>9, <1>10, <2>1 DEF Probed
  <2>3. Classed'
    BY <1>1, <1>3, <1>9, <1>10, <2>1 DEF Known, Classed, Awake, CCS
  <2> QED
    BY <2>2, <2>3 DEF Known
<1>12. SameCard'
  BY <1>1, <1>3, <1>9 DEF SameCard
<1>13. Moved'
  BY <1>1, <1>2, <1>3 DEF Moved, HasRead, HasWritten, Directed, Due, Holds
<1> QED
  BY <1>5, <1>6, <1>7, <1>8, <1>11, <1>12, <1>13 DEF CardInv, Typed, Settled, DriverInv
-----------------------------------------------------------------------------
(* What the driver makes out about the card, step by step.                 *)

\* Beside disk_initialize and send_cmd, a step leads ...
Beside == {"start", "gotpoll"} \cup ReadPcs \cup WritePcs
LEMMA Leads ==
  ASSUME DriverInv, Driver, pc \in Beside
  PROVE /\ UNCHANGED <<Stat, CardType>>
        /\ pc' \in {"idle", "select", "token", "dma", "broken", "xready", "xresp", "stop", "written"}
        /\ pc' = "select" => sub'.then \in {"got0", "gotpoll", "gotread", "gotwrite", "got23", "stopped"}
<1>1. CASE Start
  BY <1>1, StartLeads, Zenon DEF Start
<1>2. CASE Token \/ Dma \/ DiscardCRC
  <2>1. pc' \in {"token", "dma", "broken"}
    BY <1>2 DEF Token, Dma, DiscardCRC, WaitToken
  <2> QED
    BY <1>2, <2>1 DEF Token, Dma, DiscardCRC, CallVars
<1>3. CASE Polled \/ Written
  BY <1>3 DEF Polled, Written, Reply
<1>4. CASE DataRead
  <2>1. UNCHANGED <<Stat, CardType>>
    BY <1>4, Zenon DEF DataRead
  <2>2. pc' \in {"token", "idle"} \/ (pc' = "select" /\ sub'.then = "stopped")
    BY <1>4 DEF DataRead, WaitToken, Reply, SendThen
  <2> QED
    BY <2>1, <2>2
<1>5. CASE StartWrite
  BY <1>5 DEF StartWrite, Reply, SendThen, StartWaiting
<1>6. CASE SendBlock \/ BlockSent \/ StopTran
  <2>1. pc' \in {"xresp", "written", "stop", "xready"}
    BY <1>6 DEF SendBlock, BlockSent, StopTran, AfterBlock, StartWaiting
  <2> QED
    BY <1>6, <2>1 DEF SendBlock, BlockSent, StopTran, CallVars
<1>7. CASE WaitReady
  <2>1. pc' = pc /\ pc \in Waits
    BY <1>7, Places DEF WaitReady
  <2>2. pc \in {"xready", "stop"}
    BY <2>1 DEF Waits, Beside, ReadPcs, WritePcs
  <2> QED
    BY <1>7, <2>1, <2>2 DEF WaitReady, CallVars
<1>8. ~(Select \/ SendFrame \/ Response \/ Initialize \/ InitEnd \/ PowerOff)
  BY Places DEF Beside, ReadPcs, WritePcs, Between
<1> QED
  BY <1>1, <1>2, <1>3, <1>4, <1>5, <1>6, <1>7, <1>8 DEF Driver

\* ... and the card's mode stays but where a frame is sent.
LEMMA ModeKept ==
  ASSUME CardInv, Driver, pc # "ready"
  PROVE /\ card'.mode = card.mode /\ UNCHANGED slot /\ (Awake' <=> Awake)
        /\ card'.more = card.more
<1>1. CardTyped /\ LineStep /\ card \in CardStates /\ ~Hears
  BY LineSteps, FrameSent DEF CardInv, Typed, CardTyped
<1>2. Awake' <=> Awake
  BY <1>1, DriverCard
<1>3. CASE Moves
  BY <1>1, <1>2, <1>3, LineMoved DEF LineStep
<1>4. CASE Takes \/ Refuses
  BY <1>1, <1>2, <1>4 DEF LineStep, Takes, Refuses, Kept
<1>5. CASE StopTran
  <2>1. card'.more = card.more
    <3>1. CASE Alive
      <4>1. card' = [Shifted(1) EXCEPT !.rx = Nowhere]
        BY <1>5, <3>1 DEF StopTran, Alive
      <4>2. PICK d \in CardStates : d = Shifted(1) /\ d.more = card.more
        BY <1>1, ShiftedCard
      <4> QED
        BY <4>1, <4>2 DEF CardStates
    <3>2. CASE ~Alive
      BY <1>5, <3>2 DEF StopTran, Alive
    <3> QED
      BY <3>1, <3>2
  <2> QED
    BY <1>1, <1>2, <1>5, <2>1, StopTranLine
<1> QED
  BY <1>1, <1>3, <1>4, <1>5, IgnoredLine DEF LineStep

LEMMA BesideKnown ==
  ASSUME CardInv, Driver, pc \in Beside PROVE Known'
<1>1. /\ UNCHANGED <<Stat, CardType>>
      /\ pc' \in {"idle", "select", "token", "dma", "broken", "xready", "xresp", "stop", "written"}
      /\ pc' = "select" => sub'.then \in {"got0", "gotpoll", "gotread", "gotwrite", "got23", "stopped"}
  BY Leads DEF CardInv, Typed, Settled, DriverInv
<1>2. card'.mode = card.mode /\ UNCHANGED slot /\ (Awake' <=> Awake) /\ Classed
  BY ModeKept DEF Beside, ReadPcs, WritePcs, CardInv, Known
<1>3. Stage \notin InitPcs
  BY DEF Beside, ReadPcs, WritePcs, InitPcs, Stage, Sending
<1>4. Stage' \notin InitPcs \ {"got0"} /\ pc' \notin {"response", "got0", "got8", "got58", "initend"}
  BY <1>1 DEF Stage, Sending, InitPcs
<1>5. Stage' \notin {"got8", "gotsd", "loop1", "got1", "got16", "got58"}
  BY <1>4 DEF InitPcs
<1>6. Probed'
  BY <1>4, <1>5 DEF Probed
<1>7. Classed'
  BY <1>1, <1>2, <1>3, <1>4, <1>5 DEF Classed, CCS
<1> QED
  BY <1>6, <1>7 DEF Known

LEMMA SelectKnown ==
  ASSUME CardInv, Select \/ WaitReady PROVE Known'
<1>1. /\ card \in CardStates /\ Known /\ UNCHANGED <<slot, sub, Stat, CardType, ty>> /\ Moves
      /\ pc' # "response" /\ DriverInv
      /\ pc' = pc \/ (pc = "select" /\ pc' = "ready")
  BY DEF Select, WaitReady, Waiting, StartWaiting, Moves, Socket, CallVars, CardInv, Typed, CardTyped,
         Settled, DriverInv
<1>2. /\ card'.mode = card.mode /\ card'.busy = card.busy /\ (Awake' <=> Awake)
      /\ card.out = <<>> => card'.out = <<>>
  BY <1>1, LineMoved
<1>3. Stage' = Stage
  BY <1>1, SelectKeeps, WaitReadyKeeps
<1>4. pc' \notin {"got0", "got8", "got58", "initend", "response"} /\ (pc' \in {"select", "ready"} => pc \in {"select", "ready"})
  BY <1>1, Places DEF Driver, Waits
<1>5. Probed'
  BY <1>1, <1>2, <1>3, <1>4 DEF Known, Probed
<1>6. Classed'
  BY <1>1, <1>2, <1>3, <1>4 DEF Known, Classed, CCS
<1> QED
  BY <1>5, <1>6 DEF Known

\* The command a place sends.
LEMMA CommandAt ==
  ASSUME Asked, Sending
  PROVE /\ Stage = sub.then
        /\ sub.then = "got8" => Command = "CMD8"
        /\ sub.then = "got0" => Command = "CMD0"
        /\ sub.then \in {"got58", "gotpoll"} => Command = "CMD58"
        /\ Command = "CMD0" => sub.then = "got0"
        /\ Command \in {"CMD1", "CMD41"} => sub.then \in {"got41", "gotsd", "got1"}
        /\ Command \in {"CMD24", "CMD25"} =>
             sub.then = "gotwrite" /\ ~sub.app /\ (Command = "CMD24" <=> call.count = 1)
        /\ Command \in {"CMD17", "CMD18"} => sub.then = "gotread"
        /\ sub.app => sub.then \in {"got41", "gotsd", "got1", "got23"}
        /\ sub.then \in Returns
  BY DEF Asked, Sending, Stage, Command, Returns

LEMMA SendFrameKnown ==
  ASSUME CardInv, SendFrame PROVE Known'
<1>1. /\ card \in CardStates /\ Known /\ UNCHANGED <<slot, Stat, CardType, ty>> /\ pc = "ready" /\ Sending
      /\ DriverInv /\ Asleep /\ Asked /\ DriverTyped
  BY DEF SendFrame, Socket, CallVars, CardInv, Typed, CardTyped, Settled, DriverInv, Sending
<1>2. Stage' = Stage /\ Stage = sub.then
  BY <1>1, SendFrameKeeps, CommandAt
<1>3. CASE ~IsReady
  <2>1. Respond(255) /\ card' = Shifted(1)
    BY <1>3 DEF SendFrame
  <2>2. pc' = sub.then /\ sub'.res = 255 /\ pc' \in Returns
    BY <1>1, <2>1, CommandAt DEF Respond, NoSub
  <2>3. card'.mode = card.mode /\ (Awake' <=> Awake)
    BY <1>1, <2>1, LineMoved DEF Moves
  <2>4. pc' = "got8" => ~Awake
    <3>1. pc' = "got8" /\ Awake => card.out = <<>> /\ ~card.busy
      BY <1>1, <1>2, <2>2 DEF Known, Probed
    <3>2. Awake /\ card.out = <<>> /\ ~card.busy => IsReady
      BY <1>1, ReadByte DEF IsReady, FF
    <3> QED
      BY <1>3, <3>1, <3>2
  <2>5. pc' \notin {"select", "ready", "response", "initend"}
    BY <2>2 DEF Returns
  <2>6. Probed'
    BY <1>1, <1>2, <2>2, <2>3, <2>4, <2>5 DEF Known, Probed
  <2>7. Classed'
    BY <1>1, <1>2, <2>2, <2>3, <2>5 DEF Known, Classed, CCS
  <2> QED
    BY <2>6, <2>7 DEF Known
<1>4. CASE IsReady
  <2>1. Hears
    BY <1>4 DEF SendFrame, Hears
  <2>2. pc' = "response"
    BY <2>1, FrameSent
  <2>3. CASE Silent
    BY <2>3 DEF Silent, Known, Probed, Classed
  <2>4. CASE Response1
    <3>1. /\ Answers(Shifted(1 + FRAME), Command, sub.arg, card')
          /\ card'.mode = (IF Command = "CMD0" THEN "idle" ELSE card.mode) \/ Command \in {"CMD1", "CMD41"}
          /\ Awake \/ Command = "CMD0"
          /\ ~card'.busy
      BY <2>4 DEF Response1
    <3>2. Shifted(1 + FRAME).mode = card.mode
      BY <1>1, ShiftedCard, CardAssumption
    <3>3. Stage = "got8" => /\ Command = "CMD8" /\ Awake /\ card.mode = "idle" /\ card'.mode = "idle"
      BY <1>1, <1>2, <3>1, CommandAt DEF Known, Probed
    <3>4. Stage = "got8" /\ CCS => card'.out[1][1] = 1 /\ TellsV2(1)'
      BY <3>1, <3>2, <3>3 DEF Answers, R1, TellsV2
    <3>5. Stage = "got0" => card'.mode = "idle" /\ Len(card'.out) = 1
      BY <1>1, <1>2, <3>1, CommandAt DEF Answers
    <3>6. CCS' = CCS
      BY <1>1 DEF CCS
    <3>7. Probed'
      BY <1>2, <2>2, <3>1, <3>3, <3>4, <3>5, <3>6 DEF Probed
    <3>8. Stage = "got58" => Says(card'.out, 2, Ocr)
      BY <1>1, <1>2, <3>1, CommandAt DEF Answers
    <3>9. Stage \in {"gotsd", "loop1", "got1", "got16"} => ~CCS
      <4>1. Stage \in {"gotsd", "loop1", "got1", "got16"} => Awake
        BY <1>1, <1>2, <3>1, CommandAt
      <4> QED
        BY <1>1, <4>1 DEF Known, Classed
    <3>10. Stage \notin InitPcs \ {"got0"} /\ card'.mode = "ready" => card.mode = "ready" /\ Awake
      BY <1>1, <1>2, <3>1, CommandAt DEF InitPcs
    <3>11. Ocr' = Ocr
      BY <1>1 DEF Ocr, CCS
    <3>12. Classed'
      BY <1>1, <1>2, <2>2, <3>6, <3>8, <3>9, <3>10, <3>11 DEF Known, Classed
    <3> QED
      BY <3>7, <3>12 DEF Known
  <2> QED
    BY <2>1, <2>3, <2>4, Heard
<1> QED
  BY <1>3, <1>4

\* What follows the byte that is read is next.
LEMMA SaysNext ==
  ASSUME card \in CardStates, Alive, card' = Shifted(1), UNCHANGED slot, NEW i \in Nat \ {0}, NEW v,
         Says(card.out, i + 1, v)
  PROVE Says(card'.out, i, v)
<1>1. /\ Len(card.out) \in Nat /\ Len(card'.out) \in Nat
      /\ DOMAIN card.out = 1..Len(card.out) /\ DOMAIN card'.out = 1..Len(card'.out)
      /\ card.out # <<>> => Len(card'.out) = Len(card.out) - 1 /\ Len(card.out) > 0
      /\ \A j \in DOMAIN card'.out : j + 1 \in DOMAIN card.out /\ card'.out[j] = card.out[j + 1]
  BY OneOff
<1>2. i + 1 \in DOMAIN card.out /\ card.out[i + 1][1] = v /\ card.out # <<>>
  BY CardFields DEF Says
<1>3. i \in DOMAIN card'.out
  BY <1>1, <1>2
<1> QED
  BY <1>1, <1>2, <1>3 DEF Says

LEMMA ResponseKnown ==
  ASSUME CardInv, Response PROVE Known'
<1>1. /\ card \in CardStates /\ Known /\ UNCHANGED <<slot, Stat, CardType, ty>> /\ pc = "response" /\ Sending
      /\ DriverInv /\ Asleep /\ Asked /\ DriverTyped /\ card' = Shifted(1)
  BY DEF Response, Socket, CallVars, CardInv, Typed, CardTyped, Settled, DriverInv, Sending
<1>2. card'.mode = card.mode /\ (Awake' <=> Awake) /\ card'.busy = card.busy
  BY <1>1, LineMoved DEF Moves
<1>3. CASE ~Awake
  BY <1>2, <1>3 DEF Known, Probed, Classed
<1>4. CASE Awake
  <2>1. PICK v \in Byte : v = card.out[1][1] /\ Respond(v) /\ card.out # <<>>
    BY <1>4, ResponseRead
  <2>2. /\ Stage' = Stage
        /\ \/ sub.app /\ pc' = "select" /\ sub'.then = sub.then
           \/ pc' = sub.then /\ ~Sending' /\ sub'.res = v
    BY <1>1, <2>1, Responds
  <2>3. Stage = sub.then /\ (sub.app => sub.then \in {"got41", "gotsd", "got1", "got23"}) /\ sub.then \in Returns
    BY <1>1, CommandAt
  <2>4. pc' # "response" /\ pc' # "ready" /\ pc' # "initend" /\ (pc' = "select" => Stage \notin {"got8", "got0", "got58"})
    BY <2>2, <2>3 DEF Returns
  <2>5. Alive
    BY <1>4 DEF Awake
  <2>6. pc' = "got8" /\ CCS => sub'.res = 1 /\ TellsV2(0)'
    <3>1. SUFFICES ASSUME pc' = "got8", CCS PROVE sub'.res = 1 /\ TellsV2(0)'
      OBVIOUS
    <3>2. sub.then = "got8" /\ Stage = "got8" /\ sub'.res = v
      BY <2>2, <2>3, <3>1
    <3>3. v = 1 /\ TellsV2(1)
      BY <1>1, <1>4, <2>1, <3>1, <3>2 DEF Known, Probed
    <3>4. ASSUME NEW i \in 1..4 PROVE Says(card'.out, i + 0, <<0, 0, 1, 170>>[i])
      <4>1. PICK w : w = <<0, 0, 1, 170>>[i]
        OBVIOUS
      <4>2. Says(card.out, i + 1, w)
        BY <3>3, <4>1 DEF TellsV2
      <4>3. Says(card'.out, i, w)
        BY <1>1, <2>5, <4>2, SaysNext
      <4>4. i + 0 = i
        OBVIOUS
      <4> QED
        BY <4>1, <4>3, <4>4
    <3> QED
      BY <3>2, <3>3, <3>4 DEF TellsV2
  <2>7. pc' = "got0" /\ sub'.res = 1 => card'.mode = "idle" /\ card'.out = <<>> /\ ~card'.busy
    <3>1. SUFFICES ASSUME pc' = "got0" PROVE card'.mode = "idle" /\ card'.out = <<>> /\ ~card'.busy
      OBVIOUS
    <3>2. Stage = "got0"
      BY <2>2, <2>3, <3>1
    <3>3. card.mode = "idle" /\ Len(card.out) = 1 /\ ~card.busy
      BY <1>1, <1>4, <3>2 DEF Known, Probed
    <3>4. card' \in CardStates /\ Len(card'.out) = 0
      BY <1>1, <2>1, <2>5, <3>3, OneOff
    <3>5. card'.out = <<>>
      BY <3>4, EmptySeq DEF CardStates
    <3> QED
      BY <1>2, <3>3, <3>5
  <2>8. Stage' = "got8" => card'.mode = "idle"
    BY <1>1, <1>2, <1>4, <2>2 DEF Known, Probed
  <2>9. Probed'
    BY <1>1, <2>2, <2>4, <2>6, <2>7, <2>8 DEF Probed, CCS
  <2>10. pc' = "got58" => Says(card'.out, 1, Ocr)
    <3>1. SUFFICES ASSUME pc' = "got58" PROVE Says(card'.out, 1, Ocr)
      OBVIOUS
    <3>2. Stage = "got58"
      BY <2>2, <2>3, <3>1
    <3>3. Says(card.out, 2, Ocr)
      BY <1>1, <1>4, <3>2 DEF Known, Classed
    <3>4. PICK i \in Nat \ {0} : i = 1 /\ i + 1 = 2
      OBVIOUS
    <3>5. PICK w : w = Ocr
      OBVIOUS
    <3>6. Says(card'.out, i, w)
      BY <1>1, <2>5, <3>3, <3>4, <3>5, SaysNext
    <3> QED
      BY <3>4, <3>5, <3>6
  <2>11. Classed'
    <3>1. CCS' = CCS /\ Ocr' = Ocr
      BY <1>1 DEF CCS, Ocr
    <3> QED
      BY <1>1, <1>2, <1>4, <2>2, <2>4, <2>10, <3>1 DEF Known, Classed
  <2> QED
    BY <2>9, <2>11 DEF Known
<1> QED
  BY <1>3, <1>4

\* The bit of the OCR the driver reads is the card's.
LEMMA CapacityRead ==
  ASSUME card \in CardStates, Awake, Says(card.out, 1, Ocr) PROVE HighCapacity <=> CCS
<1>1. card.out # <<>> /\ 1 <= Len(card.out) /\ card.out[1][1] = Ocr
  BY CardFields DEF Says
<1>2. Shifts
  BY <1>1 DEF Shifts, Awake, Alive
<1>3. Four[1] = Ocr
  BY <1>1, <1>2 DEF Four
<1> QED
  BY <1>3 DEF HighCapacity, Ocr

LEMMA InitializeKnown ==
  ASSUME CardInv, Initialize PROVE Known'
<1>1. /\ card \in CardStates /\ Known /\ UNCHANGED <<slot, Stat, CardType, call>> /\ InitLeads
      /\ pc \in Between /\ Placed /\ ty \in Codes
  BY InitializeLeads, Places DEF Driver, CardInv, Typed, CardTyped, Settled, DriverTyped
<1>2. card'.mode = card.mode /\ (Awake' <=> Awake) /\ CCS' = CCS
  <2>1. pc # "ready"
    BY <1>1 DEF Between
  <2> QED
    BY <1>1, <2>1, ModeKept DEF Driver, CCS
<1>3. Stage = pc /\ pc \in InitPcs
  BY <1>1 DEF Between, InitPcs, Stage, Sending
<1>4. CASE ~Awake
  BY <1>2, <1>4 DEF Known, Probed, Classed
<1>5. CASE Awake
  <2>1. /\ pc \in {"got0", "got8", "loop2", "got41", "got58"} => ty = 0
        /\ pc \in {"loop1", "got1", "got16"} => ty \in {1, 2}
    BY <1>3 DEF CardInv, Settled, Placed
  <2>2. pc \in {"gotsd", "loop1", "got1", "got16"} => ~CCS
    BY <1>1, <1>3, <1>5 DEF Known, Classed
  <2>3. pc = "got8" /\ CCS => sub.res = 1
    BY <1>1, <1>5 DEF Known, Probed
  <2>4. \/ pc' \in {"loop2", "loop1", "initend"}
        \/ To("got8") \/ To("gotsd") \/ To("got41") \/ To("got58") \/ To("got1") \/ To("got16")
    BY <1>1 DEF InitLeads
  <2>5. Stage' \in InitPcs \ {"got0"} /\ pc' \notin {"ready", "response", "got0", "got8", "got58"}
    BY <2>4 DEF To, Stage, Sending, InitPcs
  <2>6. Stage' = "got8" => card'.mode = "idle" /\ card'.out = <<>> /\ ~card'.busy
    <3>1. SUFFICES ASSUME Stage' = "got8" PROVE card'.mode = "idle" /\ card'.out = <<>> /\ ~card'.busy
      OBVIOUS
    <3>2. pc = "got0" /\ sub.res = 1 /\ card' = card
      BY <1>1, <2>4, <3>1 DEF InitLeads, To, Stage, Sending
    <3> QED
      BY <1>1, <1>5, <3>2 DEF Known, Probed
  <2>7. Probed'
    BY <2>5, <2>6 DEF Probed
  <2>8. Stage' \in {"gotsd", "loop1", "got1", "got16"} => ~CCS
    BY <1>1, <2>2, <2>3, <2>4 DEF InitLeads, To, Stage, Sending
  <2>9. pc' = "initend" /\ ty' # 0 => (ty' >= 8 <=> CCS)
    <3>1. SUFFICES ASSUME pc' = "initend", ty' # 0 PROVE ty' >= 8 <=> CCS
      OBVIOUS
    <3>2. CASE pc = "got58"
      <4>1. sub.res = 0 /\ ty' = (IF HighCapacity THEN 12 ELSE 4)
        BY <1>1, <2>1, <3>1, <3>2 DEF InitLeads
      <4>2. Says(card.out, 1, Ocr)
        BY <1>1, <1>5, <3>2, <4>1 DEF Known, Classed
      <4>3. HighCapacity <=> CCS
        BY <1>1, <1>5, <4>2, CapacityRead
      <4> QED
        BY <4>1, <4>3
    <3>3. CASE pc = "got16"
      <4>1. ty' = ty /\ ty \in {1, 2} /\ ~CCS
        BY <1>1, <2>1, <2>2, <3>1, <3>3 DEF InitLeads
      <4> QED
        BY <4>1
    <3>4. CASE pc \notin {"got58", "got16"}
      <4>1. ty' = 0
        BY <1>1, <2>1, <3>1, <3>4 DEF InitLeads, To
      <4> QED
        BY <3>1, <4>1
    <3> QED
      BY <3>2, <3>3, <3>4
  <2>10. Classed'
    BY <1>2, <2>5, <2>8, <2>9 DEF Classed
  <2> QED
    BY <2>7, <2>10 DEF Known
<1> QED
  BY <1>4, <1>5

LEMMA InitEndKnown ==
  ASSUME CardInv, InitEnd \/ PowerOff PROVE Known'
<1>1. /\ Known /\ UNCHANGED slot /\ pc \in {"initend", "off"} /\ Driver
      /\ card'.mode = card.mode /\ (Awake' <=> Awake)
  <2>1. pc \in {"initend", "off"} /\ Driver
    BY Places DEF Driver
  <2> QED
    BY <2>1, ModeKept DEF CardInv
<1>2. pc' \in {"idle", "off"}
  BY DEF InitEnd, PowerOff, Reply, StartWaiting
<1>3. Stage' = pc' /\ Stage' \notin {"got8", "got0", "gotsd", "loop1", "got1", "got16", "got58"}
  BY <1>2 DEF Stage, Sending
<1>4. Probed'
  BY <1>2, <1>3 DEF Probed
<1>5. CASE pc' = "off"
  <2>1. Stage' \in InitPcs \ {"got0"}
    BY <1>3, <1>5 DEF InitPcs
  <2> QED
    BY <1>3, <1>4, <1>5, <2>1 DEF Known, Classed
<1>6. CASE pc' = "idle"
  <2>1. CASE PowerOff
    BY <1>3, <1>4, <1>6, <2>1 DEF PowerOff, Known, Classed
  <2>2. CASE InitEnd
    <3>1. CardType' = ty /\ ty # 0 /\ pc = "initend"
      BY <1>6, <2>2 DEF InitEnd, StartWaiting
    <3>2. Awake => (ty >= 8 <=> CCS)
      BY <1>1, <3>1 DEF Known, Classed
    <3>3. CCS' = CCS
      BY <1>1 DEF CCS
    <3> QED
      BY <1>1, <1>3, <1>4, <1>6, <3>1, <3>2, <3>3 DEF Known, Classed
  <2> QED
    BY <2>1, <2>2
<1> QED
  BY <1>2, <1>5, <1>6

LEMMA DriverKnown ==
  ASSUME CardInv, Driver PROVE Known'
<1>1. pc \in Pcs \ {"idle"}
  BY Places DEF Driver, Waits, Between, Pcs, InitPcs, ReadPcs, WritePcs
<1>2. CASE pc \in Beside
  BY <1>2, BesideKnown
<1>3. CASE pc \in {"select", "ready", "response"}
  BY <1>3, StepAt, SelectKnown, SendFrameKnown, ResponseKnown
<1>4. CASE pc \in Between
  BY <1>4, StepAt, InitializeKnown
<1>5. CASE pc = "initend"
  <2>1. InitEnd
    BY <1>5, Places DEF Driver, Waits, Between
  <2> QED
    BY <2>1, InitEndKnown
<1>6. CASE pc = "off"
  BY <1>6, StepAt, SelectKnown, InitEndKnown
<1>7. pc \in Beside \cup {"select", "ready", "response", "initend", "off"} \cup Between
  BY <1>1 DEF Pcs, Beside, InitPcs, ReadPcs, WritePcs, Between
<1> QED
  BY <1>2, <1>3, <1>4, <1>5, <1>6, <1>7
-----------------------------------------------------------------------------
(* The card that was asked, and what no card answers.                      *)

\* A call with no card to hear it gets no further than its first command.
LEMMA StaysUnheard ==
  ASSUME CardInv, Driver, ~Awake, ~Awake', Unheard, call' # NoCall PROVE Unheard'
<1>1. /\ card \in CardStates /\ Asleep /\ DriverInv /\ DriverTyped /\ Asked /\ LineStep
      /\ UNCHANGED slot
  BY LineSteps DEF CardInv, Typed, CardTyped, Settled, DriverInv, LineStep
<1>2. rcvr_spi = IF Present /\ card.dead = "stuck" THEN <<0, "stuck">> ELSE FF
  BY <1>1, ReadByte
<1>3. CASE pc = "start"
  <2>1. Start
    BY <1>3, Places DEF Driver, Waits, Between
  <2>2. pc' # "idle"
    <3>1. DriverInv'
      BY <1>1, <2>1, StartKeeps
    <3> QED
      BY <3>1 DEF DriverInv, Placed
  <2>3. pc' = "select" /\ UNCHANGED <<done, ty>> /\ sub'.then \in {"got0", "gotpoll", "gotread", "gotwrite", "got23"}
    BY <1>1, <2>1, <2>2, StartLeads
  <2> QED
    BY <2>3 DEF Unheard, Sending
<1>4. CASE Select \/ WaitReady
  <2>1. UNCHANGED <<done, ty, sub>> /\ (pc' = pc \/ (pc = "select" /\ pc' = "ready")) /\ pc # "response"
    BY <1>4 DEF Select, WaitReady, Waiting, StartWaiting, CallVars
  <2> QED
    BY <2>1 DEF Unheard, Sending
<1>5. CASE SendFrame
  <2>1. pc = "ready" /\ UNCHANGED <<done, ty>> /\ Sending
    BY <1>5 DEF SendFrame, CallVars, Sending
  <2>2. CASE IsReady
    <3>1. Hears
      BY <1>5, <2>2 DEF SendFrame, Hears
    <3>2. pc' = "response" /\ UNCHANGED sub
      BY <3>1, FrameSent
    <3>3. card'.dead = card.dead
      BY <3>1, Heard DEF Silent, Response1
    <3>4. ~(Present /\ card.dead = "stuck")
      BY <1>2, <2>2 DEF IsReady, FF
    <3> QED
      BY <1>1, <2>1, <3>2, <3>3, <3>4 DEF Unheard, Sending, Present
  <2>3. CASE ~IsReady
    <3>1. Respond(255)
      BY <1>5, <2>3 DEF SendFrame
    <3>2. pc' = sub.then /\ sub'.res = 255
      BY <3>1 DEF Respond, NoSub
    <3> QED
      BY <2>1, <3>2 DEF Unheard, Sending
  <2> QED
    BY <2>2, <2>3
<1>6. CASE Response
  <2>1. pc = "response" /\ UNCHANGED <<done, ty>> /\ Sending /\ UNCHANGED slot
    BY <1>6 DEF Response, CallVars, Sending, Socket
  <2>2. rcvr_spi = FF
    BY <1>2, <2>1 DEF Unheard
  <2>3. card'.dead = card.dead
    BY <1>1, <1>6, LineMoved DEF Response, Moves
  <2>4. CASE sub.n = 1
    <3>1. Respond(255)
      BY <1>6, <2>2, <2>4 DEF Response, FF
    <3>2. pc' = sub.then /\ sub'.res = 255
      BY <3>1 DEF Respond, NoSub
    <3> QED
      BY <2>1, <3>2 DEF Unheard, Sending
  <2>5. CASE sub.n # 1
    <3>1. sub' = [sub EXCEPT !.n = @ - 1] /\ pc' = pc
      BY <1>6, <2>2, <2>5 DEF Response, FF
    <3>2. sub'.then = sub.then
      BY <1>1, <3>1 DEF DriverTyped, SubStates
    <3> QED
      BY <2>1, <2>3, <3>1, <3>2 DEF Unheard, Sending, Present
  <2> QED
    BY <2>4, <2>5
<1>7. CASE pc = "got0"
  <2>1. Initialize /\ sub.res = 255
    BY <1>7, StepAt DEF Between, Unheard
  <2>2. pc' = "initend" /\ ty' = ty /\ done' = done
    BY <1>7, <2>1, InitializeLeads DEF InitLeads
  <2> QED
    BY <2>2 DEF Unheard, Sending
<1>8. CASE pc = "initend"
  <2>1. InitEnd
    BY <1>8, Places DEF Driver, Waits, Between
  <2>2. pc' = "off" /\ ty' = ty /\ done' = done
    BY <2>1 DEF InitEnd, Unheard, StartWaiting, Goes
  <2> QED
    BY <2>2 DEF Unheard, Sending
<1>9. CASE pc = "got23"
  <2>1. StartWrite
    BY <1>9, StepAt
  <2>2. pc' = "select" /\ sub'.then = "gotwrite" /\ ty' = ty /\ done' = done
    BY <1>9, <2>1 DEF StartWrite, SendThen, Goes
  <2> QED
    BY <2>2 DEF Unheard, Sending
<1>10. CASE pc \in {"gotpoll", "gotread", "gotwrite"}
  <2>1. sub.res = 255
    BY <1>10 DEF Unheard
  <2>2. Polled \/ DataRead \/ StartWrite
    BY <1>10, StepAt, Places DEF Driver, Waits, Between
  <2>3. Polled => call' = NoCall
    BY DEF Polled, Reply
  <2>4. DataRead /\ pc = "gotread" => call' = NoCall
    <3>1. DataRead /\ pc = "gotread" => Reply("ERROR")
      BY <2>1 DEF DataRead
    <3>2. Reply("ERROR") => call' = NoCall
      BY DEF Reply
    <3> QED
      BY <3>1, <3>2
  <2>5. StartWrite /\ pc = "gotwrite" => call' = NoCall
    BY <2>1 DEF StartWrite, Reply
  <2>6. (DataRead => pc # "gotwrite" /\ pc # "gotpoll") /\ (StartWrite => pc # "gotread" /\ pc # "gotpoll")
    BY Places
  <2> QED
    BY <1>10, <2>2, <2>3, <2>4, <2>5, <2>6
<1>11. CASE pc = "off"
  <2>1. PowerOff => call' = NoCall
    BY DEF PowerOff, Reply
  <2> QED
    BY <1>4, <1>11, <2>1, StepAt
<1>12. pc \in {"start", "select", "ready", "response", "initend", "off", "got0", "gotpoll", "gotread",
              "got23", "gotwrite"}
  BY DEF Unheard
<1>13. /\ pc = "select" => Select
       /\ pc = "ready" => WaitReady \/ SendFrame
       /\ pc = "response" => Response
  BY StepAt
<1> QED
  BY <1>3, <1>4, <1>5, <1>6, <1>7, <1>8, <1>9, <1>10, <1>11, <1>12, <1>13

\* A step of the driver goes on with its call, or ends it.
LEMMA CallGoesOn ==
  ASSUME Driver PROVE call' = call \/ (call' = NoCall /\ pc' = "idle")
<1>1. CASE Select \/ WaitReady \/ SendFrame \/ Response \/ Token \/ Dma \/ DiscardCRC \/ SendBlock \/ BlockSent
           \/ StopTran
  BY <1>1, Zenon DEF Select, WaitReady, SendFrame, Response, Token, Dma, DiscardCRC, SendBlock, BlockSent,
                     StopTran, CallVars
<1>2. CASE Start
  BY <1>2, Zenon DEF Start, Goes, Reply
<1>3. CASE Polled \/ PowerOff \/ Written
  BY <1>3, Zenon DEF Polled, PowerOff, Written, Reply
<1>4. CASE DataRead
  BY <1>4, Zenon DEF DataRead, Goes, Reply
<1>5. CASE Initialize
  BY <1>5, Zenon DEF Initialize, Goes
<1>6. CASE InitEnd \/ StartWrite
  BY <1>6, Zenon DEF InitEnd, StartWrite, Goes, Reply
<1> QED
  BY <1>1, <1>2, <1>3, <1>4, <1>5, <1>6 DEF Driver

LEMMA DriverSameCard ==
  ASSUME CardInv, Driver PROVE SameCard'
<1>1. SUFFICES ASSUME call' # NoCall
               PROVE /\ call'.well => slot' = call'.card /\ (~Awake' => Unheard')
                     /\ Awake' /\ call'.op # "initialize" => slot' = call'.card /\ call'.well
  BY DEF SameCard
<1>2. call' = call /\ call # NoCall /\ slot' = slot /\ SameCard
  BY <1>1, CallGoesOn, LineSteps DEF LineStep, CardInv
<1>3. Awake => Awake'
  BY DriverCard
<1>4. Awake' /\ call.op # "initialize" => Awake
  <2>1. SUFFICES ASSUME Awake', ~Awake PROVE call.op = "initialize"
    OBVIOUS
  <2>2. Hears /\ Command = "CMD0"
    BY <2>1, DriverCard
  <2>3. Sending /\ Asked /\ Placed
    BY <2>2, FrameSent DEF Sending, CardInv, Settled
  <2>4. Stage = "got0"
    BY <2>2, <2>3, CommandAt
  <2> QED
    BY <2>3, <2>4 DEF Placed, InitPcs
<1>5. call.well /\ ~Awake' => Unheard'
  BY <1>1, <1>2, <1>3, StaysUnheard DEF SameCard
<1> QED
  BY <1>2, <1>4, <1>5 DEF SameCard
-----------------------------------------------------------------------------
(* What a read has brought in.                                             *)

\* A sequence that is the first values of f, and one more of them.
LEMMA OneMore ==
  ASSUME NEW S, NEW n \in Nat, NEW f, NEW g, NEW s \in Seq(S), s = [i \in 1..n |-> f[i]],
         NEW x \in S, x = f[n + 1], NEW t, t = Append(s, x), g = [i \in 1..(n + 1) |-> f[i]]
  PROVE t = g
<1>1. DOMAIN s = 1..n /\ Len(s) = n
  BY LenProperties
<1>2. /\ t \in Seq(S) /\ Len(t) = Len(s) + 1 /\ t[Len(s) + 1] = x
      /\ \A i \in 1..Len(s) : t[i] = s[i]
  BY AppendProperties
<1>3. DOMAIN t = 1..(n + 1) /\ t = [i \in DOMAIN t |-> t[i]]
  <2>1. Len(t) = n + 1
    BY <1>1, <1>2
  <2> QED
    BY <1>2, <2>1, LenProperties, SeqDef
<1>4. ASSUME NEW i \in 1..(n + 1) PROVE t[i] = f[i]
  <2>1. CASE i = n + 1
    BY <1>1, <1>2, <2>1
  <2>2. CASE i # n + 1
    <3>1. i \in 1..n
      BY <2>2
    <3> QED
      BY <1>1, <1>2, <3>1
  <2> QED
    BY <2>1, <2>2
<1> QED
  BY <1>3, <1>4

\* Where a step that is not one of these leaves what has come in as it was.
LEMMA StaysRead ==
  ASSUME Driver, ~(Dma \/ DiscardCRC \/ BlockSent \/ StopTran)
  PROVE call' = NoCall \/ UNCHANGED <<call, buff, dma, done>>
<1>1. CASE Select \/ WaitReady \/ SendFrame \/ Response \/ Token \/ SendBlock
  BY <1>1, Zenon DEF Select, WaitReady, SendFrame, Response, Token, SendBlock, CallVars
<1>2. CASE Start
  BY <1>2, Zenon DEF Start, Goes, Reply
<1>3. CASE Polled \/ PowerOff \/ Written
  BY <1>3, Zenon DEF Polled, PowerOff, Written, Reply
<1>4. CASE DataRead
  BY <1>4, Zenon DEF DataRead, Goes, Reply
<1>5. CASE Initialize
  BY <1>5, Zenon DEF Initialize, Goes
<1>6. CASE InitEnd \/ StartWrite
  BY <1>6, Zenon DEF InitEnd, StartWrite, Goes, Reply
<1> QED
  BY <1>1, <1>2, <1>3, <1>4, <1>5, <1>6 DEF Driver

\* Only a write changes what a card holds.
LEMMA ReadsOnly ==
  ASSUME CardInv, Driver, call.op # "write" \/ call = NoCall
  PROVE UNCHANGED <<mem, slot>> /\ ~(BlockSent \/ StopTran \/ Sets)
<1>1. LineStep /\ Placed
  BY LineSteps DEF CardInv, Settled
<1>2. pc \notin {"xready", "xresp", "stop"}
  BY <1>1 DEF Placed, Stage, Sending, WritePcs
<1>3. ~(BlockSent \/ StopTran \/ Sets)
  BY <1>2, BlockSet DEF BlockSent, StopTran
<1> QED
  BY <1>1, <1>3, Zenon DEF LineStep

\* A block that is in is the card's.
LEMMA BlockIsIn ==
  ASSUME CardInv, HasRead, call # NoCall, call.op = "read", call.well, pc = "dma", Len(dma) = BLOCK
  PROVE dma = mem[slot][Due]
<1>1. Awake
  BY DEF CardInv, SameCard, Unheard
<1>2. IsFrame(-1 - Len(dma), Due)
  BY <1>1 DEF CardInv, Line, SendsOn
<1>3. Due \in DOMAIN mem[slot] /\ slot \in Cards
  BY <1>1, <1>2 DEF IsFrame, Awake, Alive, Present, CardInv, Typed, CardTyped
<1>4. MemTyped /\ dma \in Seq(Byte) /\ BLOCK \in Nat
  BY CardAssumption DEF CardInv, Typed, DriverTyped
<1>5. mem[slot] \in [DOMAIN Contents[slot] -> Block]
  BY <1>3, <1>4 DEF MemTyped
<1>6. PICK b \in Block : b = mem[slot][Due]
  <2>1. DOMAIN mem[slot] = DOMAIN Contents[slot]
    BY <1>5
  <2> QED
    BY <1>3, <1>5, <2>1
<1>7. DOMAIN dma = 1..BLOCK /\ dma = [i \in DOMAIN dma |-> dma[i]]
  BY <1>4, LenProperties, SeqDef
<1>8. b = [i \in 1..BLOCK |-> b[i]]
  BY DEF Block
<1>9. \A i \in 1..BLOCK : dma[i] = b[i]
  BY <1>6, <1>7 DEF HasRead
<1> QED
  BY <1>6, <1>7, <1>8, <1>9

LEMMA DriverHasRead ==
  ASSUME CardInv, Driver PROVE HasRead'
<1>1. SUFFICES ASSUME call' # NoCall, call'.op = "read", call'.well
               PROVE /\ buff' = [i \in 1..done' |-> mem'[slot'][call'.sector + i - 1]]
                     /\ pc' = "dma" => \A i \in DOMAIN dma' : dma'[i] = (mem[slot][Due][i])'
  BY DEF HasRead
<1>2. call' = call /\ call # NoCall /\ call.op = "read" /\ call.well
  BY <1>1, CallGoesOn
<1>3. UNCHANGED <<mem, slot>> /\ ~(BlockSent \/ StopTran)
  BY <1>2, ReadsOnly
<1>4. /\ HasRead /\ SameCard /\ DriverTyped /\ Placed
      /\ dma \in Seq(Byte) /\ buff \in Seq(Seq(Byte)) /\ done \in Nat
  BY DEF CardInv, Moved, Typed, Settled, DriverTyped
<1>5. buff = [i \in 1..done |-> mem[slot][call.sector + i - 1]]
  BY <1>2, <1>4 DEF HasRead
<1>6. CASE Dma
  <2>1. Awake
    <3>1. pc = "dma"
      BY <1>6 DEF Dma
    <3> QED
      BY <1>2, <1>4, <3>1 DEF SameCard, Unheard
  <2>2. /\ rcvr_spi[1] = mem[slot][Due][Len(dma) + 1] /\ rcvr_spi[1] \in Byte
    BY <1>6, <2>1, DmaByte
  <2>3. dma' = Append(dma, rcvr_spi[1]) /\ UNCHANGED <<done, buff>> /\ pc = "dma"
    BY <1>6 DEF Dma
  <2>4. PICK v \in Byte : v = rcvr_spi[1]
    BY <2>2
  <2>5. /\ dma' \in Seq(Byte) /\ Len(dma') = Len(dma) + 1 /\ dma'[Len(dma) + 1] = v
        /\ \A i \in 1..Len(dma) : dma'[i] = dma[i]
    BY <1>4, <2>3, <2>4, AppendProperties
  <2>6. DOMAIN dma = 1..Len(dma) /\ DOMAIN dma' = 1..(Len(dma) + 1) /\ Len(dma) \in Nat
    BY <1>4, <2>5, LenProperties
  <2>7. \A i \in DOMAIN dma : dma[i] = mem[slot][Due][i]
    BY <1>2, <1>4, <2>3 DEF HasRead
  <2>8. Due' = Due
    BY <1>2, <2>3 DEF Due
  <2>9. ASSUME NEW i \in DOMAIN dma' PROVE dma'[i] = mem[slot][Due][i]
    <3>1. CASE i = Len(dma) + 1
      BY <2>2, <2>4, <2>5, <3>1
    <3>2. CASE i # Len(dma) + 1
      <4>1. i \in 1..Len(dma)
        BY <2>6, <3>2
      <4> QED
        BY <2>5, <2>6, <2>7, <4>1
    <3> QED
      BY <3>1, <3>2
  <2> QED
    BY <1>2, <1>3, <1>5, <2>3, <2>8, <2>9
<1>7. CASE DiscardCRC
  <2>1. /\ pc = "dma" /\ Len(dma) = BLOCK /\ buff' = Append(buff, dma) /\ done' = done + 1
        /\ pc' \in {"token", "broken"}
    BY <1>7 DEF DiscardCRC, WaitToken
  <2>2. dma = mem[slot][Due]
    BY <1>2, <1>4, <2>1, BlockIsIn
  <2>3. PICK f : f = [i \in Nat |-> mem[slot][call.sector + i - 1]]
    OBVIOUS
  <2>4. \A i \in Nat : f[i] = mem[slot][call.sector + i - 1]
    BY <2>3
  <2>5. buff = [i \in 1..done |-> f[i]]
    BY <1>4, <1>5, <2>4
  <2>6. dma = f[done + 1]
    <3>1. done + 1 \in Nat /\ call.sector + (done + 1) - 1 = call.sector + done
      BY <1>2, <1>4, CallFields
    <3> QED
      BY <2>2, <2>4, <3>1 DEF Due
  <2>7. PICK g : g = [i \in 1..(done + 1) |-> f[i]]
    OBVIOUS
  <2>8. buff' = g
    BY <1>4, <2>1, <2>5, <2>6, <2>7, OneMore
  <2>9. g = [i \in 1..(done + 1) |-> mem[slot][call.sector + i - 1]]
    BY <1>4, <2>4, <2>7
  <2> QED
    BY <1>2, <1>3, <2>1, <2>8, <2>9
<1>8. CASE ~(Dma \/ DiscardCRC)
  <2>1. UNCHANGED <<call, buff, dma, done>>
    BY <1>1, <1>3, <1>8, StaysRead
  <2>2. pc # "dma"
    BY <1>8, StepAt
  <2>3. dma' = <<>>
    BY <1>4, <2>1, <2>2 DEF Placed
  <2> QED
    BY <1>3, <1>5, <2>1, <2>3
<1> QED
  BY <1>6, <1>7, <1>8
-----------------------------------------------------------------------------
(* What a write has left on the card.                                      *)

\* A card that wakes does so for disk_initialize.
LEMMA WokenBy ==
  ASSUME CardInv, Driver, Awake', call.op # "initialize" PROVE Awake
<1>1. SUFFICES ASSUME ~Awake PROVE call.op = "initialize"
  OBVIOUS
<1>2. Hears /\ Command = "CMD0"
  BY <1>1, DriverCard
<1>3. Sending /\ Asked /\ Placed
  BY <1>2, FrameSent DEF Sending, CardInv, Settled
<1>4. Stage = "got0"
  BY <1>2, <1>3, CommandAt
<1> QED
  BY <1>3, <1>4 DEF Placed, InitPcs

\* A block that is set is there, and the others are as they were.
LEMMA BlockAt ==
  ASSUME MemTyped, slot \in Cards, NEW at \in DOMAIN mem[slot], NEW b,
         mem' = [mem EXCEPT ![slot][at] = b], UNCHANGED slot
  PROVE /\ Holds(at, b)'
        /\ \A x, v : Holds(x, v) /\ x # at => Holds(x, v)'
<1>1. /\ mem'[slot] = [mem[slot] EXCEPT ![at] = b]
      /\ \A c \in Cards : mem[c] \in [DOMAIN Contents[c] -> Block]
  BY DEF MemTyped
<1>2. PICK f \in [DOMAIN Contents[slot] -> Block] : f = mem[slot]
  BY <1>1
<1>3. PICK g : g = [f EXCEPT ![at] = b] /\ g = mem'[slot']
  BY <1>1, <1>2
<1>4. DOMAIN g = DOMAIN f /\ g[at] = b /\ \A x \in DOMAIN f : x # at => g[x] = f[x]
  BY <1>2, <1>3
<1> QED
  BY <1>2, <1>3, <1>4 DEF Holds

\* While a card that works is written to, the store and the block in question
\* move only where a block is sent.
LEMMA DriverHasWritten ==
  ASSUME CardInv, Driver PROVE HasWritten'
<1>1. SUFFICES ASSUME call' # NoCall, call'.op = "write", Awake', NEW i \in 1..done'
               PROVE Holds(call.sector + i - 1, call.data[i])'
  BY DEF HasWritten
<1>2. call' = call /\ call # NoCall /\ call.op = "write" /\ Awake /\ UNCHANGED slot
  BY <1>1, CallGoesOn, WokenBy, LineSteps DEF LineStep
<1>3. /\ HasWritten /\ Directed /\ DriverTyped /\ Placed /\ MemTyped /\ CardTyped /\ done \in Nat /\ LineStep
      /\ call.sector \in Nat
  <2>1. CardTyped /\ MemTyped /\ DriverTyped /\ Placed /\ HasWritten /\ Directed
    BY DEF CardInv, Moved, Typed, Settled
  <2>2. done \in Nat /\ call.sector \in Nat
    BY <1>2, <2>1, CallFields DEF DriverTyped
  <2> QED
    BY <2>1, <2>2, LineSteps
<1>4. \A j \in 1..done : Holds(call.sector + j - 1, call.data[j])
  BY <1>2, <1>3 DEF HasWritten
<1>5. PICK x, v : x = call.sector + i - 1 /\ v = call.data[i]
  OBVIOUS
<1>6. CASE Sets /\ Takes
  <2>1. pc = "xready" /\ UNCHANGED done
    BY <1>6, BlockSet
  <2>2. card.rx = Due /\ slot \in Cards
    BY <1>2, <1>3, <2>1 DEF Directed, CardTyped, Awake, Alive, Present
  <2>3. i \in 1..done /\ x # Due
    BY <1>3, <1>5, <2>1 DEF Due
  <2>4. Holds(x, v)
    BY <1>4, <1>5, <2>3
  <2>5. card.rx \in DOMAIN mem[slot] /\ mem' = [mem EXCEPT ![slot][card.rx] = call.data[done + 1]]
    BY <1>6 DEF Takes
  <2>6. PICK at \in DOMAIN mem[slot] : at = card.rx
    BY <2>5
  <2>7. PICK b : b = call.data[done + 1]
    OBVIOUS
  <2>8. mem' = [mem EXCEPT ![slot][at] = b] /\ x # at
    BY <2>2, <2>3, <2>5, <2>6, <2>7
  <2>9. \A y, w : Holds(y, w) /\ y # at => Holds(y, w)'
    BY <1>2, <1>3, <2>2, <2>8, BlockAt
  <2>10. Holds(x, v)'
    BY <2>4, <2>8, <2>9
  <2> QED
    BY <1>2, <1>5, <2>10
<1>7. CASE UNCHANGED mem
  <2>1. CASE i \in 1..done
    <3>1. Holds(x, v)
      BY <1>4, <1>5, <2>1
    <3> QED
      BY <1>2, <1>5, <1>7, <3>1 DEF Holds
  <2>2. CASE i \notin 1..done
    <3>1. BlockSent \/ StopTran \/ Dma \/ DiscardCRC
      BY <1>1, <2>2, StaysRead
    <3>2. ~Dma /\ ~DiscardCRC
      BY <1>2, <1>3, Places DEF Placed, Stage, Sending, ReadPcs
    <3>3. ~StopTran
      <4>1. StopTran => done' = done \/ done' = 0
        BY DEF StopTran
      <4> QED
        BY <1>1, <2>2, <4>1
    <3>4. BlockSent /\ pc = "xresp" /\ done' = IF Accepted THEN done + 1 ELSE done
      BY <3>1, <3>2, <3>3 DEF BlockSent
    <3>5. Accepted /\ i = done + 1
      BY <1>1, <1>3, <2>2, <3>4
    <3>6. card.out \in {<<<<5, "data">>>>, <<<<13, "data">>>>} /\ card \in CardStates /\ Asleep
      BY <1>2, <3>4 DEF CardInv, Typed, CardTyped, Settled, Line, Judged
    <3>7. rcvr_spi = card.out[1]
      <4>1. card.out # <<>>
        BY <3>6
      <4> QED
        BY <1>2, <3>6, <4>1, ReadByte
    <3>8. card.out[1][1] = 5
      BY <3>5, <3>6, <3>7 DEF Accepted
    <3>9. Holds(Due, call.data[done + 1])
      BY <1>2, <1>3, <3>4, <3>8 DEF Directed
    <3>10. call.sector + i - 1 = Due
      BY <1>3, <3>5 DEF Due
    <3>11. Holds(x, v)
      BY <1>5, <3>5, <3>9, <3>10
    <3> QED
      BY <1>2, <1>5, <1>7, <3>11 DEF Holds
  <2> QED
    BY <2>1, <2>2
<1> QED
  BY <1>3, <1>6, <1>7 DEF LineStep, Ignored, Refuses

\* Where the next block is meant to go.
Aimed == card.rx = Due /\ (card.more <=> call.count # 1)
LEMMA WritePc ==
  ASSUME DriverInv, call # NoCall, call.op = "write"
  PROVE pc \in {"start", "select", "ready", "response"} \cup WritePcs
<1>1. Stage \notin InitPcs \cup ReadPcs \cup {"gotpoll"} /\ pc # "idle" /\ pc \in Pcs
  BY DEF DriverInv, DriverTyped, Placed
<1> QED
  BY <1>1 DEF Pcs, Stage, Sending

LEMMA DriverDirected ==
  ASSUME CardInv, Driver PROVE Directed'
<1>1. SUFFICES ASSUME call' # NoCall, call'.op = "write", Awake'
               PROVE /\ \/ pc' = "response" /\ sub'.then = "gotwrite" /\ card'.out[1][1] = 0
                        \/ pc' = "gotwrite" /\ sub'.res = 0
                        \/ pc' = "xready"
                        => Aimed'
                     /\ pc' = "xresp" => (card'.more <=> call'.count # 1)
                     /\ pc' = "xresp" /\ card'.out[1][1] = 5 =>
                          card'.rx = Follows(Due)' /\ Holds(Due, call.data[done + 1])'
  BY DEF Directed, Aimed
<1>2. call' = call /\ call # NoCall /\ call.op = "write" /\ Awake /\ UNCHANGED slot
  BY <1>1, CallGoesOn, WokenBy, LineSteps DEF LineStep
<1>3. /\ Directed /\ DriverTyped /\ DriverInv /\ MemTyped /\ CardTyped /\ card \in CardStates
      /\ Asked /\ Asleep /\ Line /\ Placed
  BY DEF CardInv, Moved, Typed, Settled, DriverInv, CardTyped
<1>4. /\ done \in Nat /\ call.sector \in Nat /\ call.count \in Nat /\ Due \in Nat /\ Due # Nowhere
      /\ pc \in {"start", "select", "ready", "response"} \cup WritePcs
  BY <1>2, <1>3, CallFields, DueTyped, WritePc DEF DriverTyped
<1>5. Moves /\ UNCHANGED <<call, done>> /\ Aimed => Aimed'
  BY <1>2, <1>3, LineMoved DEF Aimed, Due
<1>6. CASE pc \in {"start", "select", "got23", "stop", "written"}
  <2>1. pc' \notin {"response", "gotwrite", "xready", "xresp"}
    <3>1. CASE pc \in {"start", "got23", "stop", "written"}
      <4>1. DriverInv /\ pc \in Beside
        BY <1>3, <3>1 DEF Beside, WritePcs
      <4>2. pc' \in {"idle", "select", "token", "dma", "broken", "xready", "xresp", "stop", "written"}
        BY <4>1, Leads
      <4>3. pc' \notin {"xready", "xresp"}
        <5>1. pc = "start" => pc' \in {"idle", "select"}
          BY <1>3, StartLeads, Places DEF Driver, Waits, Between
        <5>2. pc = "got23" => pc' = "select"
          BY StepAt DEF StartWrite, SendThen
        <5>3. pc = "stop" => pc' \in {"stop", "written"}
          BY StepAt DEF WaitReady, StopTran
        <5>4. pc = "written" => pc' = "idle"
          <6>1. pc = "written" => Written
            BY Places DEF Driver, Waits, Between
          <6> QED
            BY <6>1 DEF Written, Reply
        <5> QED
          BY <3>1, <5>1, <5>2, <5>3, <5>4
      <4> QED
        BY <4>2, <4>3
    <3>2. CASE pc = "select"
      BY <3>2, StepAt DEF Select, StartWaiting
    <3> QED
      BY <1>6, <3>1, <3>2
  <2> QED
    BY <2>1
<1>7. CASE pc = "ready"
  <2>1. CASE WaitReady
    BY <1>7, <2>1 DEF WaitReady
  <2>2. CASE SendFrame /\ ~IsReady
    <3>1. Respond(255)
      BY <2>2 DEF SendFrame
    <3>2. pc' = sub.then /\ sub'.res = 255 /\ sub.then \in Returns
      BY <1>3, <1>7, <3>1 DEF Respond, NoSub, Asked, Sending
    <3> QED
      BY <3>2 DEF Returns
  <2>3. CASE SendFrame /\ IsReady
    <3>1. Hears
      BY <2>3 DEF SendFrame, Hears
    <3>2. pc' = "response" /\ UNCHANGED <<sub, call, done>>
      BY <3>1, FrameSent
    <3>3. SUFFICES ASSUME sub.then = "gotwrite", card'.out[1][1] = 0 PROVE Aimed'
      BY <3>2
    <3>4. Response1 /\ Sending
      BY <1>2, <1>7, <3>1, Heard DEF Silent, Sending
    <3>5. sub.cmd = (IF call.count = 1 THEN "CMD24" ELSE "CMD25") /\ ~sub.app
      BY <1>3, <3>3, <3>4 DEF Asked
    <3>6. Command \in {"CMD24", "CMD25"} /\ (Command = "CMD25" <=> call.count # 1)
      BY <3>5 DEF Command
    <3>7. /\ card'.rx = Addressed(sub.arg) /\ Shifted(1 + FRAME).mode = "ready"
          /\ (card'.more <=> Command = "CMD25")
      BY <3>3, <3>4, <3>6 DEF Response1, Answers
    <3>8. card.mode = "ready"
      BY <1>3, <3>7, ShiftedCard, CardAssumption
    <3>9. Addressed(sub.arg) = Due
      BY <1>2, <3>3, <3>4, <3>8, BlockMeant
    <3> QED
      BY <3>2, <3>6, <3>7, <3>9 DEF Aimed, Due
  <2> QED
    BY <1>7, <2>1, <2>2, <2>3, StepAt
<1>8. CASE pc = "response"
  <2>1. Response
    BY <1>8, StepAt
  <2>2. PICK v \in Byte : v = card.out[1][1] /\ Respond(v) /\ card' = Shifted(1)
    BY <1>2, <2>1, ResponseRead
  <2>3. \/ pc' = "select"
        \/ pc' = sub.then /\ sub'.res = v
    BY <1>3, <1>8, <2>2, Responds
  <2>4. sub.then \in Returns
    BY <1>3, <1>8 DEF Asked, Sending
  <2>5. SUFFICES ASSUME sub.then = "gotwrite", v = 0 PROVE Aimed'
    BY <2>3, <2>4 DEF Returns
  <2>6. Aimed
    BY <1>2, <1>3, <1>8, <2>2, <2>5 DEF Directed, Aimed
  <2> QED
    BY <1>5, <2>1, <2>2, <2>6 DEF Moves, Response, CallVars
<1>9. CASE pc = "gotwrite"
  <2>1. StartWrite
    BY <1>9, StepAt
  <2>2. sub.res = 0
    BY <1>1, <1>9, <2>1 DEF StartWrite, Reply
  <2>3. Aimed
    BY <1>2, <1>3, <1>9, <2>2 DEF Directed, Aimed
  <2>4. pc' = "xready" /\ card' = Shifted(1) /\ UNCHANGED <<call, done>>
    BY <1>9, <2>1, <2>2 DEF StartWrite, StartWaiting, Goes
  <2> QED
    BY <1>5, <2>3, <2>4 DEF Moves
<1>10. CASE pc = "xready"
  <2>1. Aimed
    BY <1>2, <1>3, <1>10 DEF Directed, Aimed
  <2>2. CASE WaitReady
    BY <1>5, <1>10, <2>1, <2>2 DEF WaitReady, Moves, CallVars
  <2>3. CASE SendBlock /\ ~Sets
    <3>1. AfterBlock
      BY <2>3 DEF SendBlock, Sets
    <3> QED
      BY <3>1 DEF AfterBlock, StartWaiting
  <2>4. CASE Sets
    <3>1. pc' = "xresp" /\ UNCHANGED done
      BY <2>4, BlockSet
    <3>2. Due' = Due
      BY <1>2, <3>1 DEF Due
    <3>3. Takes \/ Refuses
      <4>1. card.rx # Nowhere /\ Alive
        BY <1>2, <1>4, <2>1 DEF Aimed, Awake
      <4> QED
        BY <1>3, <2>4, <4>1, SetBy DEF Ignored
    <3>4. card'.more = card.more
      BY <3>3 DEF Takes, Refuses, Kept
    <3>5. CASE Refuses
      <4>1. card'.out[1][1] = 13
        BY <3>5 DEF Refuses
      <4> QED
        BY <1>2, <2>1, <3>1, <3>4, <4>1 DEF Aimed
    <3>6. CASE Takes
      <4>1. card'.rx = Follows(Due)'
        <5>1. card'.rx = IF card.more THEN card.rx + 1 ELSE Nowhere
          BY <3>6 DEF Takes
        <5> QED
          BY <2>1, <3>2, <3>4, <5>1 DEF Aimed, Follows
      <4>2. PICK at \in DOMAIN mem[slot] : at = card.rx
        BY <3>6 DEF Takes
      <4>3. PICK b : b = call.data[done + 1]
        OBVIOUS
      <4>4. mem' = [mem EXCEPT ![slot][at] = b]
        BY <3>6, <4>2, <4>3 DEF Takes
      <4>5. slot \in Cards
        BY <1>2, <1>3 DEF CardTyped, Awake, Alive, Present
      <4>6. Holds(at, b)'
        BY <1>2, <1>3, <4>4, <4>5, BlockAt
      <4>7. at = Due /\ b = call'.data[done' + 1]
        BY <1>2, <2>1, <3>1, <4>2, <4>3 DEF Aimed
      <4>8. Holds(Due, call.data[done + 1])'
        BY <3>2, <4>6, <4>7
      <4> QED
        BY <1>2, <2>1, <3>1, <3>4, <4>1, <4>8 DEF Aimed
    <3> QED
      BY <3>3, <3>5, <3>6
  <2> QED
    BY <1>10, <2>2, <2>3, <2>4, StepAt
<1>11. CASE pc = "xresp"
  <2>1. BlockSent
    BY <1>11, StepAt
  <2>2. /\ done' = IF Accepted THEN done + 1 ELSE done
        /\ IF Accepted /\ done' < call.count THEN StartWaiting("xready") ELSE pc' \in {"written", "stop"}
    BY <2>1 DEF BlockSent, StartWaiting
  <2>3. SUFFICES ASSUME Accepted, done + 1 < call.count, StartWaiting("xready"), done' = done + 1
                 PROVE pc' = "xready" /\ Aimed'
    BY <2>2
  <2>4. card.out \in {<<<<5, "data">>>>, <<<<13, "data">>>>}
    BY <1>2, <1>3, <1>11 DEF Line, Judged
  <2>5. rcvr_spi = card.out[1]
    <3>1. card.out # <<>>
      BY <2>4
    <3> QED
      BY <1>2, <1>3, <3>1, ReadByte
  <2>6. card.out[1][1] = 5
    BY <2>3, <2>4, <2>5 DEF Accepted
  <2>7. card.rx = Follows(Due) /\ card.more /\ call.count # 1
    BY <1>2, <1>3, <1>4, <1>11, <2>3, <2>6 DEF Directed
  <2>8. pc' = "xready" /\ card' = Shifted(1)
    BY <2>3 DEF StartWaiting
  <2>9. card'.rx = card.rx /\ card'.more = card.more
    BY <1>2, <1>3, <2>8, LineMoved DEF Moves
  <2>10. Due' = Due + 1
    BY <1>2, <1>4, <2>3 DEF Due
  <2> QED
    BY <1>2, <2>7, <2>8, <2>9, <2>10 DEF Aimed, Follows
<1> QED
  BY <1>4, <1>6, <1>7, <1>8, <1>9, <1>10, <1>11 DEF WritePcs
-----------------------------------------------------------------------------
(* The invariant.                                                          *)

LEMMA DriverInvKeeps ==
  ASSUME CardInv, Driver PROVE CardInv'
<1>1. card \in CardStates /\ Asleep /\ DriverInv
  BY DEF CardInv, Typed, CardTyped, Settled, DriverInv
<1>2. rcvr_spi[1] \in Byte
  BY <1>1, ReadByte
<1>3. DriverInv'
  BY <1>1, <1>2, DriverKeeps
<1>4. CardTyped' /\ MemTyped' /\ Asleep'
  BY DriverCard
<1>5. Busy' /\ Patient' /\ Line' /\ Known' /\ SameCard'
  BY DriverBusy, DriverPatient, DriverOnLine, DriverKnown, DriverSameCard
<1>6. Moved'
  BY DriverHasRead, DriverHasWritten, DriverDirected DEF Moved
<1> QED
  BY <1>3, <1>4, <1>5, <1>6 DEF CardInv, Typed, Settled, DriverInv

LEMMA OffTyped == CardOff \in CardStates
<1>1. <<>> \in Seq(Bytes)
  BY EmptySeq
<1> QED
  BY <1>1 DEF CardOff, CardStates

LEMMA InitInv ==
  ASSUME CardInit PROVE CardInv
<1>1. /\ call = NoCall /\ pc = "idle" /\ sub = NoSub /\ ty = 0 /\ dma = <<>> /\ buff = <<>> /\ done = 0
      /\ card = CardOff /\ mem = Contents /\ Stat = TRUE /\ CardType = 0 /\ Timer1 = 0 /\ Timer2 = 0
      /\ slot \in Cards \cup {"none"}
  BY DEF CardInit
<1>2. CardTyped
  BY <1>1, OffTyped DEF CardTyped
<1>3. MemTyped
  BY <1>1, DataAssumption DEF MemTyped
<1>4. DriverTyped
  <2>1. <<>> \in Seq(Byte) /\ Len(<<>>) = 0 /\ <<>> \in Seq(Seq(Byte))
    BY EmptySeq
  <2>2. BLOCK \in Nat
    BY CardAssumption
  <2>3. dma \in Seq(Byte) /\ Len(dma) <= BLOCK /\ buff \in Seq(Seq(Byte)) /\ done \in Nat
    BY <1>1, <2>1, <2>2
  <2>4. Timer1 \in 0..Max({TOKEN_TICKS, INIT_TICKS}) /\ Timer2 \in 0..READY_TICKS
    BY <1>1, TimersTyped
  <2>5. sub \in SubStates /\ pc \in Pcs /\ call \in CallStates \cup {NoCall}
    BY <1>1, NoSubTyped DEF Pcs
  <2>6. Stat \in BOOLEAN /\ CardType \in Codes /\ ty \in Codes
    BY <1>1 DEF Codes
  <2> QED
    BY <2>3, <2>4, <2>5, <2>6, Zenon DEF DriverTyped
<1>5. Stage = "idle" /\ ~Sending
  BY <1>1 DEF Stage, Sending
<1>6. Asked /\ Placed
  BY <1>1, <1>5 DEF Asked, Placed, InitPcs, ReadPcs, WritePcs
<1>7. /\ card.mode = "off" /\ card.out = <<>> /\ card.from = Nowhere /\ card.rx = Nowhere
      /\ ~card.busy /\ card.prog = <<>> /\ ~Awake
  BY <1>1 DEF CardOff, Awake
<1>8. Asleep /\ Busy /\ Patient
  BY <1>1, <1>7 DEF Asleep, Busy, Patient
<1>9. Line /\ Known
  BY <1>7 DEF Line, Answered, Still, Sends, SendsOn, GoesOn, Stops, Judged, Known, Probed, Classed
<1>10. SameCard /\ Moved
  BY <1>1 DEF SameCard, Moved, HasRead, HasWritten, Directed
<1> QED
  BY <1>2, <1>3, <1>4, <1>6, <1>8, <1>9, <1>10 DEF CardInv, Typed, Settled

LEMMA StutterKeeps ==
  ASSUME CardInv, UNCHANGED cardVars PROVE CardInv'
<1>1. /\ UNCHANGED <<slot, mem, card, Stat, CardType, Timer1, Timer2, call, pc, sub, ty, dma, buff, done>>
  BY DEF cardVars
<1>2. CardTyped' /\ MemTyped' /\ DriverTyped'
  BY <1>1 DEF CardInv, Typed, CardTyped, MemTyped, DriverTyped
<1>3. Asked' /\ Placed' /\ Asleep' /\ Busy' /\ Patient'
  BY <1>1 DEF CardInv, Settled, Asked, Placed, Asleep, Busy, Patient, Stage, Sending, Alive, Present, Address
<1>4. Line' /\ Known' /\ SameCard' /\ Moved'
  BY <1>1, SameLine
<1> QED
  BY <1>2, <1>3, <1>4 DEF CardInv, Typed, Settled

\* Whatever the driver does, and whatever becomes of the card, the line carries
\* what the driver's place says it may, and the driver knows of the card and of
\* the blocks it has moved what the invariant says.
THEOREM LineIsInStep == CardSpec => []CardInv
<1>1. CardInit => CardInv
  BY InitInv
<1>2. CardInv /\ [CardNext]_cardVars => CardInv'
  BY DriverInvKeeps, AskKeeps, DeliverKeeps, ProgrammedKeeps, DieKeeps, SwapKeeps, TickKeeps, StutterKeeps
     DEF CardNext
<1> QED
  BY <1>1, <1>2, PTL DEF CardSpec

-----------------------------------------------------------------------------
(* What follows.                                                           *)

\* What is taken is what a card has answered, or a line that is held down.
LEMMA TakenIsOwn ==
  ASSUME CardInv, OwnAnswer, Response PROVE OwnAnswer'
<1>1. CASE Awake
  BY <1>1, ResponseRead DEF OwnAnswer
<1>2. CASE ~Awake
  <2>1. rcvr_spi = IF Present /\ card.dead = "stuck" THEN <<0, "stuck">> ELSE FF
    BY <1>2, ReadByte DEF CardInv, Typed, CardTyped, Settled
  <2>2. CASE rcvr_spi = FF
    BY <2>2 DEF Response, FF, OwnAnswer
  <2>3. CASE rcvr_spi = <<0, "stuck">>
    BY <2>3 DEF Response, OwnAnswer
  <2> QED
    BY <2>1, <2>2, <2>3
<1> QED
  BY <1>1, <1>2

LEMMA TakenStays ==
  ASSUME CardNext, ~Response PROVE UNCHANGED taken
<1>1. CASE Select \/ WaitReady \/ SendFrame \/ Token \/ Dma \/ DiscardCRC \/ SendBlock \/ BlockSent \/ StopTran
  BY <1>1, Zenon DEF Select, WaitReady, SendFrame, Token, Dma, DiscardCRC, SendBlock, BlockSent, StopTran
<1>2. CASE Start \/ Polled \/ PowerOff \/ Written \/ DataRead \/ Initialize \/ InitEnd \/ StartWrite
  BY <1>2, Zenon DEF Start, Polled, PowerOff, Written, DataRead, Initialize, InitEnd, StartWrite
<1>3. CASE Ask \/ Deliver \/ Programmed \/ Die \/ Swap \/ Tick
  BY <1>3, Zenon DEF Ask, Deliver, Programmed, Die, Swap, Tick, driverVars
<1> QED
  BY <1>1, <1>2, <1>3 DEF CardNext, Driver

\* send_cmd: the response it takes was given to the very command it has sent,
\* never to one before it, nor is it a byte of a block or of a card that is busy;
\* a card that holds the line down is the one thing it can be taken in by.
THEOREM ResponsesAreOwn == CardSpec => []OwnAnswer
<1>1. CardInit => OwnAnswer
  BY DEF CardInit, OwnAnswer
<1>2. CardInv /\ OwnAnswer /\ [CardNext]_cardVars => OwnAnswer'
  <2>1. CardInv /\ OwnAnswer /\ Response => OwnAnswer'
    BY TakenIsOwn
  <2>2. OwnAnswer /\ UNCHANGED taken => OwnAnswer'
    BY DEF OwnAnswer
  <2> QED
    BY <2>1, <2>2, TakenStays DEF cardVars
<1> QED
  BY <1>1, <1>2, LineIsInStep, PTL DEF CardSpec

LEMMA Types ==
  ASSUME CardInv PROVE CardTypeOK
<1>1. CardTyped /\ MemTyped /\ DriverTyped
  BY DEF CardInv, Typed
<1>2. ASSUME NEW c \in Cards, NEW b \in DOMAIN mem[c] PROVE Len(mem[c][b]) = BLOCK
  <2>1. mem[c] \in [DOMAIN Contents[c] -> Block]
    BY <1>1 DEF MemTyped
  <2>2. PICK m \in Block : m = mem[c][b]
    <3>1. DOMAIN mem[c] = DOMAIN Contents[c]
      BY <2>1
    <3> QED
      BY <2>1, <3>1
  <2>3. BLOCK \in Nat
    BY CardAssumption
  <2>4. m \in Seq(Byte)
    BY <2>2, <2>3, SeqDef DEF Block
  <2>5. DOMAIN m = 1..BLOCK /\ DOMAIN m = 1..Len(m) /\ Len(m) \in Nat
    BY <2>2, <2>4, LenProperties DEF Block
  <2> QED
    BY <2>2, <2>3, <2>5
<1>3. sub.n \in 1..TRIES /\ sub.res \in Byte
  BY <1>1, SubFields
<1> QED
  BY <1>1, <1>2, <1>3 DEF CardTyped, DriverTyped, CardTypeOK, Codes, Byte

\* disk_initialize: a card that is taken for initialised is addressed by blocks
\* if it counts in blocks and by bytes if it counts in bytes, though the card in
\* the socket may be another than the one that was asked.
THEOREM AddressedAsItCounts == CardSpec => []TypeMatchesCard
<1>1. CardInv => TypeMatchesCard
  <2>1. SUFFICES ASSUME CardInv PROVE TypeMatchesCard
    OBVIOUS
  <2>2. CardTypeOK
    BY <2>1, Types
  <2>3. ~Stat /\ Present /\ card.dead = "no" /\ card.mode = "ready" /\ pc = "idle" => (CardType >= 8 <=> CCS)
    <3>1. Classed
      BY <2>1 DEF CardInv, Known
    <3>2. pc = "idle" => Stage = "idle" /\ Stage \notin InitPcs
      BY DEF Stage, Sending, InitPcs
    <3> QED
      BY <3>1, <3>2 DEF Classed, Awake, Alive
  <2> QED
    BY <2>2, <2>3 DEF TypeMatchesCard
<1> QED
  BY <1>1, LineIsInStep, PTL

-----------------------------------------------------------------------------
(* The block store.                                                        *)

LEMMA Triple ==
  ASSUME NEW a, NEW b, NEW c PROVE <<a>> \o <<b, c>> = <<a, b, c>>
<1>1. PICK S : a \in S /\ b \in S /\ c \in S
  <2>1. \E S : S = {a, b, c}
    OBVIOUS
  <2> QED
    BY <2>1
<1>2. PICK u \in Seq(S) : u = <<a>> /\ Len(u) = 1 /\ u[1] = a
  <2>1. <<a>> \in Seq(S)
    BY <1>1
  <2> QED
    BY <2>1
<1>3. PICK v \in Seq(S) : v = <<b, c>> /\ Len(v) = 2 /\ v[1] = b /\ v[2] = c
  <2>1. <<b, c>> \in Seq(S)
    BY <1>1
  <2> QED
    BY <2>1
<1>4. PICK s : s = u \o v
  OBVIOUS
<1>5. Join(S, u, v, s)
  BY <1>4, Joined
<1>6. /\ Len(s) = 3 /\ s \in Seq(S) /\ DOMAIN s = 1..3
      /\ s[1] = u[1] /\ s[2] = v[1] /\ s[3] = v[2]
  <2>1. /\ s \in Seq(S) /\ Len(s) = Len(u) + Len(v) /\ DOMAIN s = 1..Len(s)
        /\ \A i \in 1..Len(u) : s[i] = u[i]
        /\ \A i \in 1..Len(v) : s[Len(u) + i] = v[i]
    BY <1>5 DEF Join
  <2>2. s[1] = u[1] /\ s[1 + 1] = v[1] /\ s[1 + 2] = v[2]
    BY <1>2, <1>3, <2>1
  <2> QED
    BY <1>2, <1>3, <2>1, <2>2
<1>7. s = <<a, b, c>>
  BY <1>2, <1>3, <1>6, SeqDef
<1> QED
  BY <1>2, <1>3, <1>4, <1>7

\* The block that may still be lost.
LEMMA FreshFacts ==
  ASSUME card \in CardStates
  PROVE /\ card.prog = <<>> => Fresh = <<>>
        /\ card.prog # <<>> => Fresh = <<slot, card.prog[1], card.prog[2]>> /\ Fresh # <<>>
<1>1. CASE card.prog # <<>>
  <2>1. PICK b \in Nat, m \in Block : card.prog = <<b, m>>
    BY <1>1, CardFields
  <2>2. Fresh = <<slot>> \o <<b, m>>
    BY <1>1, <2>1, Zenon DEF Fresh
  <2>3. Fresh = <<slot, b, m>>
    BY <2>2, Triple
  <2> QED
    BY <1>1, <2>1, <2>3
<1> QED
  BY <1>1 DEF Fresh

LEMMA FreshStays ==
  ASSUME UNCHANGED slot, card'.prog = card.prog PROVE Fresh' = Fresh
  BY Zenon DEF Fresh

\* What a step of the driver does to the block being programmed.
LEMMA ProgMoves ==
  ASSUME CardInv, Driver
  PROVE /\ UNCHANGED slot
        /\ \/ UNCHANGED mem /\ card'.prog = card.prog
           \/ UNCHANGED mem /\ card'.prog = <<>> /\ Hears
           \/ Sets /\ Takes
<1>1. LineStep /\ card \in CardStates /\ CardTyped
  BY LineSteps DEF CardInv, Typed, CardTyped
<1>2. CASE Moves /\ UNCHANGED mem
  BY <1>1, <1>2, LineMoved DEF LineStep
<1>3. CASE Hears /\ UNCHANGED mem /\ Silent
  <2>1. card' = card
    BY <1>3 DEF Silent, Awake
  <2> QED
    BY <1>1, <1>3, <2>1 DEF LineStep
<1>4. CASE Hears /\ UNCHANGED mem /\ Response1
  <2>1. card'.prog = IF Command = "CMD0" THEN <<>> ELSE Shifted(1 + FRAME).prog
    BY <1>4 DEF Response1, Answers, Answer
  <2>2. Shifted(1 + FRAME).prog = card.prog
    BY <1>1, ShiftedCard, CardAssumption
  <2> QED
    BY <1>1, <1>4, <2>1, <2>2 DEF LineStep
<1>5. CASE Sets /\ Ignored
  BY <1>1, <1>5, IgnoredLine, LineMoved DEF LineStep, Ignored
<1>6. CASE Sets /\ (Takes \/ Refuses)
  BY <1>1, <1>6 DEF LineStep, Refuses
<1>7. CASE StopTran /\ UNCHANGED mem
  BY <1>1, <1>7, StopTranLine DEF LineStep
<1> QED
  BY <1>1, <1>2, <1>3, <1>4, <1>5, <1>6, <1>7 DEF LineStep

LEMMA StoreInitial == CardInit => Store!StoreInit
<1>1. CardInit => Fresh = <<>>
  BY DEF CardInit, CardOff, Fresh
<1> QED
  BY <1>1 DEF CardInit, Store!StoreInit, Store!NoCall, NoCall

LEMMA NoCallHere == Store!NoCall = NoCall
  BY DEF Store!NoCall, NoCall

LEMMA StoreAsk ==
  ASSUME CardInv, Ask PROVE Store!Ask
<1>1. buff = <<>>
  BY DEF Ask, CardInv, Settled, Placed, Stage, Sending
<1>2. UNCHANGED <<slot, mem, card, buff, result>> /\ call = NoCall
  BY Zenon DEF Ask, Socket
<1>3. Fresh' = Fresh
  BY <1>2, FreshStays
<1>4. \E op \in {"initialize", "poll", "read", "write"}, s \in Sectors, n \in Counts, data \in Payloads :
        call' = [op |-> op, sector |-> s, count |-> n, data |-> data, card |-> slot, well |-> TRUE]
  BY Zenon DEF Ask
<1> QED
  BY <1>1, <1>2, <1>3, <1>4, NoCallHere, Zenon DEF Store!Ask

\* The rest of the world: the card works, or is broken, or another comes.
LEMMA StoreWorld ==
  ASSUME CardInv, Deliver \/ Tick \/ Programmed \/ Die \/ Swap
  PROVE Store!StoreNext \/ UNCHANGED Store!storeVars
<1>1. card \in CardStates /\ CardTyped
  BY DEF CardInv, Typed, CardTyped
<1>2. CASE Deliver \/ Tick
  <2>1. UNCHANGED <<slot, mem, call, buff, result>>
    BY <1>2, Zenon DEF Deliver, Tick, driverVars
  <2>2. card'.prog = card.prog
    BY <1>2, Delivered DEF Tick
  <2>3. Fresh' = Fresh
    BY <2>1, <2>2, FreshStays
  <2> QED
    BY <2>1, <2>3 DEF Store!storeVars
<1>3. CASE Programmed
  <2>1. UNCHANGED <<slot, mem, call, buff, result>>
    BY <1>3, Zenon DEF Programmed, driverVars
  <2>2. card'.prog = <<>>
    BY <1>1, <1>3 DEF Programmed, CardStates
  <2>3. Fresh' = <<>>
    BY <2>2 DEF Fresh
  <2> QED
    BY <2>1, <2>3 DEF Store!StoreNext, Store!Settle
<1>4. CASE Die
  <2>1. UNCHANGED <<slot, mem, buff, result>> /\ call # NoCall /\ call' = [call EXCEPT !.well = FALSE]
    BY <1>4, Zenon DEF Die
  <2>2. PICK how : card' = [card EXCEPT !.dead = how]
    BY <1>4 DEF Die
  <2>3. card'.prog = card.prog
    BY <1>1, <2>2 DEF CardStates
  <2>4. Fresh' = Fresh
    BY <2>1, <2>3, FreshStays
  <2> QED
    BY <2>1, <2>4, NoCallHere DEF Store!StoreNext, Store!Break
<1>5. CASE Swap
  <2>1. UNCHANGED <<buff, result>> /\ card' = CardOff
    BY <1>5, Zenon DEF Swap
  <2>2. Fresh' = <<>>
    BY <2>1 DEF Fresh, CardOff
  <2>3. slot' \in Cards \cup {"none"} /\ slot' # slot
    BY <1>1, <1>5, DataAssumption DEF Swap, Present, CardTyped
  <2>4. call' = IF call = NoCall THEN NoCall ELSE [call EXCEPT !.well = FALSE]
    BY <1>5 DEF Swap
  <2>5. mem' \in {mem} \cup (IF Fresh = <<>> THEN {}
                             ELSE {[mem EXCEPT ![Fresh[1]][Fresh[2]] = Fresh[3]]})
    <3>1. mem' = mem \/ (card.prog # <<>> /\ mem' = [mem EXCEPT ![slot][card.prog[1]] = card.prog[2]])
      BY <1>5 DEF Swap
    <3>2. card.prog # <<>> =>
            Fresh # <<>> /\ Fresh[1] = slot /\ Fresh[2] = card.prog[1] /\ Fresh[3] = card.prog[2]
      BY <1>1, FreshFacts
    <3> QED
      BY <3>1, <3>2, Zenon
  <2> QED
    BY <2>1, <2>2, <2>3, <2>4, <2>5, NoCallHere, Zenon DEF Store!StoreNext, Store!Change
<1> QED
  BY <1>2, <1>3, <1>4, <1>5

\* A card that answered a call all the time is the card that was asked.
LEMMA WellAwake ==
  ASSUME CardInv, call # NoCall, call.well, ~Unheard
  PROVE Awake /\ slot = call.card /\ call.card \in Cards
<1>1. Awake /\ slot = call.card
  BY DEF CardInv, SameCard
<1> QED
  BY <1>1 DEF CardInv, Typed, CardTyped, Awake, Alive, Present

\* What is on the card, as far as the write has got, is what was to be written.
LEMMA AllWritten ==
  ASSUME CardInv, call # NoCall, call.op = "write", call.well, Awake, slot = call.card, done = call.count
  PROVE Store!Blocks(call.card, call.sector, call.count) = SubSeq(call.data, 1, call.count)
<1>1. HasWritten /\ DriverTyped
  BY DEF CardInv, Moved, Typed
<1>2. /\ call.count \in Nat /\ call.count > 0 /\ call.data \in Seq(Block) /\ call.count <= Len(call.data)
      /\ \A i \in 1..call.count : call.data[i] \in Block
  BY <1>1, CallFields
<1>3. PICK n \in Nat : n = call.count /\ 1 <= n
  BY <1>2
<1>4. PICK d \in Seq(Block) : d = call.data /\ n <= Len(d) /\ \A i \in 1..n : d[i] \in Block
  BY <1>2, <1>3
<1>5. \A i \in 1..n : mem[call.card][call.sector + i - 1] = d[i]
  BY <1>1, <1>3, <1>4 DEF HasWritten, Holds
<1>6. PICK s : s = SubSeq(d, 1, n)
  OBVIOUS
<1>7. DOMAIN s = 1..n /\ s = [i \in DOMAIN s |-> s[i]] /\ \A i \in 1..n : s[i] = d[i]
  <2>1. /\ s \in Seq(Block)
        /\ Len(s) = IF 1 <= n THEN n - 1 + 1 ELSE 0
        /\ \A i \in 1..(n - 1 + 1) : s[i] = d[1 + i - 1]
    BY <1>4, <1>6, SubSeqProperties
  <2>2. Len(s) = n /\ \A i \in 1..n : 1 + i - 1 = i
    BY <1>3, <2>1
  <2> QED
    BY <2>1, <2>2, LenProperties, SeqDef
<1>8. s = [i \in 1..n |-> mem[call.card][call.sector + i - 1]]
  BY <1>5, <1>7
<1> QED
  BY <1>3, <1>4, <1>6, <1>8 DEF Store!Blocks

\* What is said at the end of a call: that it failed, or that it worked, and
\* then it has, if the card was well.
Failed == result' \in {"ERROR", "NOTRDY"}
Worked ==
  /\ result' = "OK"
  /\ call.well =>
       /\ call.card \in Cards
       /\ call.op = "read" => buff = Store!Blocks(call.card, call.sector, call.count)
       /\ call.op = "write" =>
            Store!Blocks(call.card, call.sector, call.count) = SubSeq(call.data, 1, call.count)

LEMMA Says1 ==
  ASSUME NEW res, Reply(res) PROVE result' = res /\ call' = NoCall /\ buff' = <<>>
  BY DEF Reply

LEMMA PolledEnds ==
  ASSUME CardInv, Polled PROVE Failed \/ Worked
<1>1. pc = "gotpoll" /\ Stage = "gotpoll" /\ call.op = "poll" /\ call # NoCall
  BY DEF Polled, CardInv, Settled, Placed, Stage, Sending
<1>2. CASE sub.res = 0
  <2>1. Reply("OK")
    BY <1>2 DEF Polled
  <2>2. ~Unheard
    BY <1>1, <1>2 DEF Unheard
  <2>3. call.well => call.card \in Cards
    BY <1>1, <2>2, WellAwake
  <2> QED
    BY <1>1, <2>1, <2>3, Says1 DEF Worked
<1>3. CASE sub.res # 0
  <2>1. Reply("NOTRDY")
    BY <1>3 DEF Polled
  <2> QED
    BY <2>1, Says1 DEF Failed
<1> QED
  BY <1>2, <1>3

LEMMA ReadEnds ==
  ASSUME CardInv, DataRead, call' = NoCall PROVE Failed \/ Worked
<1>1. /\ pc \in {"gotread", "broken", "stopped"} /\ call.op = "read" /\ call # NoCall /\ HasRead
      /\ call.count \in Nat
  <2>1. pc \in {"gotread", "broken", "stopped"}
    BY Places DEF Driver
  <2>2. call.op = "read" /\ call # NoCall
    BY <2>1 DEF CardInv, Settled, Placed, Stage, Sending, ReadPcs
  <2> QED
    BY <2>1, <2>2, CallThere DEF CardInv, Moved
<1>2. CASE pc = "gotread"
  <2>1. Reply("ERROR")
    BY <1>1, <1>2 DEF DataRead, Goes
  <2> QED
    BY <2>1, Says1 DEF Failed
<1>3. CASE pc \in {"broken", "stopped"}
  <2>1. pc = "broken" => call.count = 1
    BY <1>1 DEF DataRead, Goes
  <2>2. Reply(IF done = call.count THEN "OK" ELSE "ERROR")
    BY <1>3, <2>1 DEF DataRead
  <2>3. CASE done # call.count
    <3>1. Reply("ERROR")
      BY <2>2, <2>3
    <3> QED
      BY <3>1, Says1 DEF Failed
  <2>4. CASE done = call.count
    <3>1. Reply("OK")
      BY <2>2, <2>4
    <3>2. ~Unheard
      BY <1>3 DEF Unheard
    <3>3. ASSUME call.well
          PROVE call.card \in Cards /\ buff = Store!Blocks(call.card, call.sector, call.count)
      <4>1. slot = call.card /\ call.card \in Cards
        BY <1>1, <3>2, <3>3, WellAwake
      <4>2. buff = [i \in 1..done |-> mem[slot][call.sector + i - 1]]
        BY <1>1, <3>3 DEF HasRead
      <4> QED
        BY <2>4, <4>1, <4>2 DEF Store!Blocks
    <3> QED
      BY <1>1, <3>1, <3>3, Says1 DEF Worked
  <2> QED
    BY <2>3, <2>4
<1> QED
  BY <1>1, <1>2, <1>3

LEMMA InitEnds ==
  ASSUME CardInv, InitEnd, call' = NoCall PROVE Worked
<1>1. pc = "initend" /\ call.op = "initialize" /\ call # NoCall
  BY DEF InitEnd, CardInv, Settled, Placed, Stage, Sending, InitPcs
<1>2. ty # 0 /\ Reply("OK")
  BY <1>1 DEF InitEnd, Goes
<1>3. ~Unheard
  BY <1>2 DEF Unheard
<1>4. call.well => call.card \in Cards
  BY <1>1, <1>3, WellAwake
<1> QED
  BY <1>1, <1>2, <1>4, Says1 DEF Worked

LEMMA WriteEnds ==
  ASSUME CardInv, Written PROVE Failed \/ Worked
<1>1. pc = "written" /\ call.op = "write" /\ call # NoCall
  BY DEF Written, CardInv, Settled, Placed, Stage, Sending, WritePcs
<1>2. CASE done # call.count
  <2>1. Reply("ERROR")
    BY <1>2 DEF Written
  <2> QED
    BY <2>1, Says1 DEF Failed
<1>3. CASE done = call.count
  <2>1. Reply("OK")
    BY <1>3 DEF Written
  <2>2. ~Unheard
    BY <1>1 DEF Unheard
  <2>3. ASSUME call.well
        PROVE /\ call.card \in Cards
              /\ Store!Blocks(call.card, call.sector, call.count) = SubSeq(call.data, 1, call.count)
    <3>1. Awake /\ slot = call.card /\ call.card \in Cards
      BY <1>1, <2>2, <2>3, WellAwake
    <3> QED
      BY <1>1, <1>3, <2>3, <3>1, AllWritten
  <2> QED
    BY <1>1, <2>1, <2>3, Says1 DEF Worked
<1> QED
  BY <1>2, <1>3

\* A call ends where the driver says how it went.
LEMMA CallEnds ==
  ASSUME CardInv, Driver, call' = NoCall
  PROVE /\ call # NoCall /\ buff' = <<>> /\ UNCHANGED <<slot, mem>> /\ Fresh' = Fresh
        /\ Failed \/ Worked
<1>1. pc # "idle" /\ Placed
  BY Places DEF Driver, Waits, Between, CardInv, Settled
<1>2. call # NoCall
  BY <1>1 DEF Placed
<1>3. Start \/ Polled \/ DataRead \/ InitEnd \/ PowerOff \/ StartWrite \/ Written
  <2>1. ASSUME Select \/ WaitReady \/ SendFrame \/ Response \/ Token \/ Dma \/ DiscardCRC \/ SendBlock
               \/ BlockSent \/ StopTran \/ Initialize
        PROVE call' = call
    BY <2>1, Zenon DEF Select, WaitReady, SendFrame, Response, Token, Dma, DiscardCRC, SendBlock, BlockSent,
                       StopTran, Initialize, CallVars, Goes
  <2> QED
    BY <1>2, <2>1 DEF Driver
<1>4. UNCHANGED <<slot, mem>> /\ Fresh' = Fresh
  <2>1. pc \notin {"ready", "xready"}
    BY <1>3, Places DEF Between
  <2>2. ~Hears /\ ~Sets
    BY <2>1, FrameSent, BlockSet
  <2> QED
    BY <2>2, ProgMoves, FreshStays
<1>5. buff' = <<>> /\ (Failed \/ Worked)
  <2>1. CASE Start
    <3>1. Reply("NOTRDY")
      BY <1>2, <2>1, Zenon DEF Start, Goes
    <3> QED
      BY <3>1, Says1 DEF Failed
  <2>2. CASE Polled
    <3>1. buff' = <<>>
      BY <2>2 DEF Polled, Reply
    <3> QED
      BY <2>2, <3>1, PolledEnds
  <2>3. CASE DataRead
    <3>1. buff' = <<>>
      <4>1. DataRead => call' = call \/ \E res : Reply(res)
        BY Zenon DEF DataRead, Goes
      <4> QED
        BY <1>2, <2>3, <4>1, Says1
    <3> QED
      BY <2>3, <3>1, ReadEnds
  <2>4. CASE InitEnd
    <3>1. buff' = <<>>
      BY <1>2, <2>4 DEF InitEnd, Goes, Reply
    <3> QED
      BY <2>4, <3>1, InitEnds
  <2>5. CASE PowerOff
    <3>1. Reply("NOTRDY")
      BY <2>5 DEF PowerOff
    <3> QED
      BY <3>1, Says1 DEF Failed
  <2>6. CASE StartWrite
    <3>1. Reply("ERROR")
      BY <1>2, <2>6, Zenon DEF StartWrite, Goes
    <3> QED
      BY <3>1, Says1 DEF Failed
  <2>7. CASE Written
    <3>1. buff' = <<>>
      BY <2>7 DEF Written, Reply
    <3> QED
      BY <2>7, <3>1, WriteEnds
  <2> QED
    BY <1>3, <2>1, <2>2, <2>3, <2>4, <2>5, <2>6, <2>7
<1> QED
  BY <1>2, <1>4, <1>5

\* The driver stores, drops, hands over, ends a call, or does nothing the file
\* system could see.
LEMMA StoreDriver ==
  ASSUME CardInv, Driver PROVE Store!StoreNext \/ UNCHANGED Store!storeVars
<1>1. /\ card \in CardStates /\ DriverInv /\ call # NoCall
  <2>1. pc # "idle"
    BY Places DEF Driver, Waits, Between
  <2> QED
    BY <2>1 DEF CardInv, Typed, CardTyped, Settled, DriverInv, Placed
<1>2. CASE call' = NoCall
  <2>1. /\ call # NoCall /\ buff' = <<>> /\ UNCHANGED <<slot, mem>> /\ Fresh' = Fresh
        /\ Failed \/ Worked
    BY <1>2, CallEnds
  <2>2. CASE Failed
    BY <1>2, <2>1, <2>2, NoCallHere DEF Store!StoreNext, Store!Fail, Failed
  <2>3. CASE Worked
    <3>1. Store!Succeed
      BY <1>2, <2>1, <2>3, NoCallHere, Zenon DEF Store!Succeed, Worked
    <3> QED
      BY <3>1 DEF Store!StoreNext
  <2> QED
    BY <2>1, <2>2, <2>3
<1>3. CASE call' # NoCall
  <2>1. call' = call /\ result' = result
    <3>1. call' = call
      BY <1>3, CallGoesOn
    <3>2. ASSUME Select \/ WaitReady \/ SendFrame \/ Response \/ Token \/ Dma \/ DiscardCRC \/ SendBlock
                 \/ BlockSent \/ StopTran \/ Initialize
          PROVE result' = result
      BY <3>2, Zenon DEF Select, WaitReady, SendFrame, Response, Token, Dma, DiscardCRC, SendBlock, BlockSent,
                         StopTran, Initialize, CallVars, Goes
    <3>3. ASSUME Start \/ DataRead \/ InitEnd \/ StartWrite
          PROVE result' = result
      BY <1>3, <3>3, Zenon DEF Start, DataRead, InitEnd, StartWrite, Goes, Reply
    <3>4. ~(Polled \/ PowerOff \/ Written)
      BY <1>3 DEF Polled, PowerOff, Written, Reply
    <3> QED
      BY <3>1, <3>2, <3>3, <3>4 DEF Driver
  <2>2. CASE Sets /\ Takes
    <3>1. pc = "xready" /\ UNCHANGED <<buff, slot>>
      BY <2>2, BlockSet
    <3>2. Awake /\ call.op = "write" /\ done < call.count
      BY <2>2, <3>1 DEF Takes, CardInv, Settled, Asleep, Awake, Placed, Stage, Sending, WritePcs
    <3>3. slot = call.card /\ slot \in Cards
      BY <1>1, <3>2 DEF CardInv, SameCard, Typed, CardTyped, Awake, Alive, Present
    <3>4. card.rx = Due /\ done \in Nat /\ call.count \in Nat /\ call.sector \in Nat
      BY <1>1, <3>1, <3>2, CallThere DEF CardInv, Moved, Directed
    <3>5. PICK i \in 1..call.count : i = done + 1 /\ call.sector + i - 1 = Due
      BY <3>2, <3>4 DEF Due
    <3>6. mem' = [mem EXCEPT ![slot][call.sector + i - 1] = call.data[i]]
      BY <2>2, <3>4, <3>5, Zenon DEF Takes
    <3>7. Fresh' = <<slot, call.sector + i - 1, mem[slot][call.sector + i - 1]>>
      <4>1. card' \in CardStates /\ card'.prog = <<card.rx, mem[slot][card.rx]>>
        BY <2>2 DEF Takes, Kept
      <4>2. Fresh' = <<slot'>> \o card'.prog
        BY <4>1 DEF Fresh
      <4>3. Fresh' = <<slot, card.rx, mem[slot][card.rx]>>
        BY <3>1, <4>1, <4>2, Triple
      <4> QED
        BY <3>4, <3>5, <4>3
    <3>8. Store!Put
      BY <1>1, <2>1, <3>1, <3>2, <3>3, <3>6, <3>7, NoCallHere, Zenon DEF Store!Put
    <3> QED
      BY <3>8 DEF Store!StoreNext
  <2>3. CASE ~(Sets /\ Takes)
    <3>1. UNCHANGED <<slot, mem>> /\ (Fresh' = Fresh \/ (Fresh' = <<>> /\ Hears))
      <4>1. card'.prog = <<>> => Fresh' = <<>>
        BY DEF Fresh
      <4> QED
        BY <2>3, <4>1, ProgMoves, FreshStays
    <3>2. CASE Hears /\ Fresh' = <<>>
      BY <2>1, <3>1, <3>2, FrameSent DEF Store!StoreNext, Store!Settle
    <3>3. CASE Fresh' = Fresh /\ buff' = buff
      BY <2>1, <3>1, <3>3 DEF Store!storeVars
    <3>4. CASE Fresh' = Fresh /\ buff' # buff
      BY <1>1, <2>1, <3>1, <3>4, NoCallHere DEF Store!StoreNext, Store!Hand
    <3> QED
      BY <3>1, <3>2, <3>3, <3>4
  <2> QED
    BY <2>2, <2>3
<1> QED
  BY <1>2, <1>3

\* The driver is a block store (StoreSpec): between the calls of diskio.h, and
\* whatever the card does or the user does with it, a read that says OK hands
\* over the card's own blocks and a write that says OK has put its blocks where
\* they were to go, on the card that was asked and on no other; and nothing but
\* a write's own blocks is changed, but for the block a pulled card may lose.
THEOREM DriverIsBlockStore == CardSpec => StoreSpec
<1>1. CardInit => Store!StoreInit
  BY StoreInitial
<1>2. CardInv /\ [CardNext]_cardVars => [Store!StoreNext]_(Store!storeVars)
  <2>1. CardInv /\ CardNext => Store!StoreNext \/ UNCHANGED Store!storeVars
    <3>1. CardInv /\ Ask => Store!StoreNext
      BY StoreAsk DEF Store!StoreNext
    <3> QED
      BY <3>1, StoreDriver, StoreWorld DEF CardNext
  <2>2. UNCHANGED cardVars => UNCHANGED Store!storeVars
    <3>1. SUFFICES ASSUME UNCHANGED cardVars PROVE UNCHANGED Store!storeVars
      OBVIOUS
    <3>2. UNCHANGED <<slot, mem, card, call, buff, result>>
      BY <3>1 DEF cardVars
    <3> QED
      BY <3>2, FreshStays DEF Store!storeVars
  <2> QED
    BY <2>1, <2>2
<1> QED
  BY <1>1, <1>2, LineIsInStep, PTL DEF CardSpec, StoreSpec, Store!StoreSpec
=============================================================================
