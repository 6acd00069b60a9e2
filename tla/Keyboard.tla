------------------------------ MODULE Keyboard ------------------------------
(***************************************************************************)
(* The keyboard: vectorkeys.v, its PS/2 receiver and transmitter (ps2rx.v, *)
(* ps2tx.v), the OSD switch of specialkeys.v, and a PS/2 keyboard at the   *)
(* other end of the wire.                                                  *)
(*                                                                         *)
(* Clock is one cycle of clk24.  The wire is slower by three orders of     *)
(* magnitude: it moves when the decoder waits.  What keys the user presses *)
(* and when the program changes the RUS/LAT lamp is open.                  *)
(*                                                                         *)
(* The seven keys with a line of their own (shift, ctrl, ...) are row 8 of *)
(* keymatrix.                                                              *)
(***************************************************************************)
EXTENDS Integers, Sequences, FiniteSetsExt, Scan2Matrix

CONSTANTS
  Keys,       \* keys of the PS/2 keyboard: code, ext (has it an E0) and what cells it is
              \* meant to close in each layout
  Struck,     \* those of them that are pressed and let go in one
  Cuts,       \* bits of a frame after which a command may fall; 11 is the last bit
  DELAY_BITS, \* bits the keyboard may clock out in ps2tx's delay of 2500 clocks
  MaxEvents,  \* presses, releases, repeats and changes of led_rus
  MaxLamps,   \* changes of led_rus
  MaxResets   \* uses of KEY0

\* No key has the code of a prefix.
ASSUME KeysAssumption ==
  /\ \A k \in Keys : k.code \in Byte \ {\hE0, \hF0} /\ k.ext \in BOOLEAN
  /\ Struck \subseteq Keys
\* A delay of 104 us is too short for a byte, whose bits take 60 us and more.
ASSUME WireAssumption == Cuts \subseteq 1..11 /\ 11 \in Cuts /\ DELAY_BITS \in 0..10

VARIABLES
  held,                  \* keys that are down
  out, sent,             \* bytes the keyboard has to send, bits of the first that it has sent
  expects, lamps,        \* what the keyboard takes the next byte for; its lamps
  shiftreg, qreg, q, dsr, \* ps2rx: the bits since a start bit, with it
  tx, txd,               \* ps2tx: phase and byte
  state, keymatrix, key_osd, key_jcuken,             \* vectorkeys
  led_rus, led_rus_reg, led_scroll_reg,
  o_osd, key_osd_x,      \* specialkeys
  missed,                \* history: cells of keys that moved while no one looked
  garbled,               \* history: the receiver lost its place in the stream
  events, lampChanges, resets

userVars == <<held, events>>
devVars  == <<out, sent, expects, lamps>>
rxVars   == <<shiftreg, qreg, q, dsr>>
txVars   == <<tx, txd>>
keyVars  == <<keymatrix, key_osd, key_jcuken, missed>>
ledVars  == <<led_rus_reg, led_scroll_reg>>
osdVars  == <<o_osd, key_osd_x>>
rusVars  == <<led_rus, lampChanges>>
kbVars   == <<userVars, devVars, rxVars, txVars, state, keyVars, ledVars, osdVars, rusVars,
              garbled, resets>>

KbInit ==
  /\ held = {} /\ out = <<>> /\ sent = 0 /\ expects = "command" /\ lamps = 0
  /\ shiftreg = <<>> /\ qreg = 0 /\ q = 0 /\ dsr = FALSE
  /\ tx = "idle" /\ txd = 0
  /\ state = 0 /\ keymatrix = {} /\ key_osd = {} /\ key_jcuken = FALSE
  /\ led_rus = 0 /\ led_rus_reg = <<0, 0>> /\ led_scroll_reg = <<FALSE, FALSE>>
  /\ o_osd = FALSE /\ key_osd_x = FALSE
  /\ missed = {} /\ garbled = FALSE /\ events = 0 /\ lampChanges = 0 /\ resets = 0

-----------------------------------------------------------------------------
(* Keys.                                                                   *)

key_shift   == <<8, 0>>
key_ctrl    == <<8, 1>>
key_rus     == <<8, 2>>
key_blkvvod == <<8, 3>>
key_blksbr  == <<8, 4>>
key_bushold == <<8, 5>>

\* The line of a code, with E0 before it or without; {} if it has none.
Line(code, ext) ==
  CASE code = \h14 -> {key_ctrl}
    [] code \in {\h12, \h59} /\ ~ext -> {key_shift}
    [] code = \h58 /\ ~ext -> {key_rus}
    [] code = \h78 /\ ~ext -> {key_blkvvod}
    [] code = \h07 /\ ~ext -> {key_blksbr}
    [] code = \h7E /\ ~ext -> {key_bushold}
    [] OTHER -> {}

\* Up, down, left, right, enter.
OsdKeys == {\h75, \h72, \h6B, \h74, \h5A}
Layout == \h11

\* The cells the decoder closes for a code in a layout.  Right Alt and left Alt
\* change the layout instead.
CellsOf(code, ext, jcuken_mode) ==
  IF Line(code, ext) # {} THEN Line(code, ext)
  ELSE IF code = Layout THEN {} ELSE scan2matrix(code, jcuken_mode)

\* The keys are marked with the cells they close.
ASSUME CellsAssumption ==
  \A k \in Keys : k.cells = [m \in BOOLEAN |-> CellsOf(k.code, k.ext, m)]

\* The keys whose cell the layout decides.
Letters == {k \in Keys : k.cells[TRUE] # k.cells[FALSE]}

-----------------------------------------------------------------------------
(* The wire.                                                               *)

\* Start bit, eight bits, odd parity, stop bit.
Weight == <<1, 2, 4, 8, 16, 32, 64, 128>>
Bits == [b \in Byte |-> [i \in 1..8 |-> (b \div Weight[i]) % 2]]
Ones(s) == Cardinality({i \in DOMAIN s : s[i] = 1})
Frame == [b \in Byte |-> <<0>> \o Bits[b] \o <<(Ones(Bits[b]) + 1) % 2, 1>>]

Whole_late(s) == Len(s) > 11
Whole(s) == Len(s) >= 11
\* The byte of a frame; FF if the parity or the stop bit is wrong.
ByteOf(s) ==
  IF s[11] = 1 /\ Ones(SubSeq(s, 2, 10)) % 2 = 1
  THEN s[2] + 2 * s[3] + 4 * s[4] + 8 * s[5] + 16 * s[6] + 32 * s[7] + 64 * s[8] + 128 * s[9]
  ELSE \hFF

\* What is left of s from its first 0, a start bit.
FromStart(s) ==
  LET zeros == {i \in DOMAIN s : s[i] = 0}
  IN IF zeros = {} THEN <<>> ELSE SubSeq(s, Min(zeros), Len(s))

\* The receiver samples some bits.
Receive(bits) ==
  LET s == FromStart(shiftreg \o bits)
  IN IF Whole(s)
     THEN /\ qreg' = ByteOf(s) /\ dsr' = TRUE
          /\ shiftreg' = FromStart(SubSeq(s, 12, Len(s)))
     ELSE shiftreg' = s /\ UNCHANGED <<qreg, dsr>>

led_rus_ce == led_rus_reg[1] # led_rus_reg[2]
led_scroll_ce == led_scroll_reg[1] # led_scroll_reg[2]

\* The decoder has nothing to do before the wire moves.  Left out is a retrace
\* that begins between the two clocks in which a lamp register takes a change.
Waiting ==
  /\ state \in {2, 6, 10, 14, 20, 23, 28} /\ ~dsr
  /\ led_rus_reg = <<led_rus, led_rus>>
  /\ state = 20 => tx # "idle"
  /\ key_blkvvod \notin keymatrix
  /\ led_scroll_reg = <<o_osd, o_osd>> /\ key_osd_x = (key_bushold \in keymatrix)

\* The keyboard clocks out the bits up to the next cut.  The receiver does not
\* look while ps2tx is at work, and ps2tx has not pulled the clock down yet while
\* it delays: what the receiver has is what was sent before the delay.
DeviceSends ==
  /\ Waiting /\ out # <<>>
  /\ LET next == Min({c \in Cuts : c > sent})
         bits == SubSeq(Frame[Head(out)], sent + 1, next)
     IN /\ \/ tx = "idle" /\ Receive(bits)
           \/ /\ tx = "delay" /\ Len(bits) <= DELAY_BITS /\ next <= Len(shiftreg) + DELAY_BITS
              /\ UNCHANGED <<shiftreg, qreg, dsr>>
        /\ IF next = 11 THEN sent' = 0 /\ out' = Tail(out) ELSE sent' = next /\ UNCHANGED out
  /\ UNCHANGED <<userVars, expects, lamps, q, txVars, state, keyVars, ledVars, osdVars,
                 rusVars, garbled, resets>>

\* ps2tx pulls the clock down and asks to send; the keyboard breaks off its byte,
\* to begin it again later.  The receiver keeps the bits it has.
Inhibit ==
  /\ Waiting /\ tx = "delay"
  /\ tx' = "request" /\ sent' = 0
  /\ garbled' = (garbled \/ shiftreg # <<>>)
  /\ UNCHANGED <<userVars, out, expects, lamps, rxVars, txd, state, keyVars, ledVars, osdVars,
                 rusVars, resets>>

\* The keyboard takes the byte and answers FA.
DeviceTakes ==
  /\ Waiting /\ tx = "request"
  /\ tx' = "idle" /\ out' = <<\hFA>> \o out
  /\ IF expects = "option" /\ txd < 8
     THEN lamps' = txd /\ expects' = "command"
     ELSE expects' = (IF txd = \hED THEN "option" ELSE "command") /\ UNCHANGED lamps
  /\ UNCHANGED <<userVars, sent, rxVars, txd, state, keyVars, ledVars, osdVars, rusVars,
                 garbled, resets>>

-----------------------------------------------------------------------------
(* The decoder.  Each action is what one or some of the states do in one   *)
(* clock; Clock adds what runs beside them.                                *)

\* A byte before all else, then a lamp that has changed in this very clock.
Listen ==
  /\ state = 2
  /\ state' = IF dsr THEN 3 ELSE IF led_rus_ce \/ led_scroll_ce THEN 21 ELSE 2
  /\ UNCHANGED <<keyVars, txd>>

\* The states that wait for one more byte.
Await ==
  /\ state \in {6, 10, 14, 23, 28}
  /\ state' = IF dsr THEN state + 1 ELSE state
  /\ UNCHANGED <<keyVars, txd>>

rden == state \in {3, 7, 11, 15, 24, 29}
wren == state \in {19, 22, 27}
\* States that only pass the time.
Pass ==
  /\ rden \/ wren \/ state \in {0, 1, 8, 16, 30}
  /\ state' = CASE state = 0 -> 18 [] state = 30 -> 1 [] OTHER -> state + 1
  /\ UNCHANGED <<keyVars, txd>>

Prefix_extup ==
  /\ state \in {4, 12}
  /\ state' = CASE state = 4 /\ q = \hE0 -> 10
                [] state = 4 /\ q = \hF0 -> 6
                [] state = 4 /\ q \notin {\hE0, \hF0} -> 5
                [] state = 12 -> 13
  /\ UNCHANGED <<keyVars, txd>>
Prefix ==
  /\ state \in {4, 12}
  /\ state' = CASE state = 4 /\ q = \hE0 -> 10
                [] state = 4 /\ q = \hF0 -> 6
                [] state = 4 /\ q \notin {\hE0, \hF0} -> 5
                [] state = 12 /\ q = \hF0 -> 14
                [] state = 12 /\ q # \hF0 -> 13
  /\ UNCHANGED <<keyVars, txd>>

\* The letters a change of layout comes in between.
Affected == {k \in Letters : k \in held \/ k.cells[key_jcuken] \cap keymatrix # {}}

\* Keys of the matrix do not get through while the OSD is up; those of the OSD do.
KeyDown ==
  /\ state \in {5, 13}
  /\ LET ext == state = 13
         line == Line(q, ext)
         cell == scan2matrix(q, key_jcuken)
     IN \/ /\ line # {}
           /\ keymatrix' = keymatrix \cup line /\ missed' = missed \ line
           /\ UNCHANGED <<key_osd, key_jcuken>>
        \/ /\ line = {} /\ q = Layout
           /\ key_jcuken' = ext
           /\ missed' = IF key_jcuken = ext THEN missed
                        ELSE missed \cup UNION {k.cells[TRUE] \cup k.cells[FALSE] :
                                                k \in Affected}
           /\ UNCHANGED <<keymatrix, key_osd>>
        \/ /\ line = {} /\ q # Layout
           /\ key_osd' = IF o_osd THEN key_osd \cup ({q} \cap OsdKeys) ELSE key_osd \ {q}
           /\ keymatrix' = IF o_osd THEN keymatrix ELSE keymatrix \cup cell
           /\ missed' = IF o_osd THEN missed \cup cell ELSE missed \ cell
           /\ UNCHANGED key_jcuken
  /\ state' = 1 /\ UNCHANGED txd

OsdRelease_up(code) == IF o_osd THEN key_osd \ {code} ELSE key_osd
OsdRelease(code) == key_osd \ {code}

KeyUp ==
  /\ state \in {9, 17}
  /\ LET ext == state = 17
         line == Line(q, ext)
         cell == scan2matrix(q, key_jcuken)
         others == UNION {k.cells[key_jcuken] : k \in held}
     IN \/ /\ line # {}
           /\ keymatrix' = keymatrix \ line
           /\ missed' = (missed \ line) \cup (line \cap others)
           /\ UNCHANGED <<key_osd, key_jcuken>>
        \/ /\ line = {}
           /\ key_osd' = OsdRelease(q)
           /\ keymatrix' = IF o_osd THEN keymatrix ELSE keymatrix \ cell
           /\ missed' = IF o_osd THEN missed \cup cell ELSE (missed \ cell) \cup (cell \cap others)
           /\ UNCHANGED key_jcuken
  /\ state' = 1 /\ UNCHANGED txd

Option_swapped == led_rus + (IF o_osd THEN 4 ELSE 0)
Option == 4 * led_rus + (IF o_osd THEN 1 ELSE 0)
\* F4, enable, after reset; ED and then the lamps when one has changed.
Command ==
  \/ state = 18 /\ txd' = \hF4 /\ state' = 19 /\ UNCHANGED keyVars
  \/ state = 20 /\ state' = (IF tx = "idle" THEN 1 ELSE 20) /\ UNCHANGED <<keyVars, txd>>
  \/ state = 21 /\ txd' = \hED /\ state' = 22 /\ UNCHANGED keyVars
  \/ /\ state = 26
     /\ txd' = Option /\ state' = 27
     /\ UNCHANGED keyVars

Refused_wait == 23
Refused == 1
Acknowledge ==
  /\ state = 25
  /\ state' = IF q = \hFA THEN 26 ELSE Refused
  /\ UNCHANGED <<keyVars, txd>>

OsdToggles == key_bushold \in keymatrix /\ ~key_osd_x

\* The lamp registers, the receiver's output, the transmitter's start and the OSD
\* switch in the same clock.  led_rus is not sampled during the retrace.
Beside(retrace) ==
  /\ led_rus_reg' = IF retrace THEN led_rus_reg ELSE <<led_rus_reg[2], led_rus>>
  /\ led_scroll_reg' = <<led_scroll_reg[2], o_osd>>
  /\ IF rden /\ dsr THEN q' = qreg /\ dsr' = FALSE ELSE UNCHANGED <<q, dsr>>
  /\ tx' = IF wren THEN "delay" ELSE tx
  /\ key_osd_x' = (key_bushold \in keymatrix)
  /\ o_osd' = IF OsdToggles THEN ~o_osd ELSE o_osd

Clock(retrace) ==
  /\ key_blkvvod \notin keymatrix
  /\ Listen \/ Await \/ Pass \/ Prefix \/ KeyDown \/ KeyUp \/ Command \/ Acknowledge
  /\ Beside(retrace)
  /\ UNCHANGED <<userVars, devVars, shiftreg, qreg, rusVars, garbled, resets>>

\* mreset, by the F11 that has just been decoded or from outside: KEY0, the OSD.
\* From a delay it leads into another.
Reset ==
  /\ key_blkvvod \in keymatrix \/ resets < MaxResets
  /\ state' = 0 /\ keymatrix' = {} /\ key_osd' = {} /\ key_jcuken' = FALSE
  /\ shiftreg' = <<>> /\ q' = 0 /\ dsr' = FALSE
  /\ tx' = "idle"
  /\ led_rus_reg' = <<0, 0>> /\ led_scroll_reg' = <<FALSE, FALSE>>
  /\ o_osd' = FALSE /\ key_osd_x' = FALSE
  /\ missed' = missed \cup UNION {k.cells[FALSE] : k \in held}
  /\ garbled' = (garbled \/ shiftreg # <<>> \/ dsr \/ state \in 3..17 \/ (tx = "delay" /\ sent > 0))
  /\ resets' = resets + 1
  /\ UNCHANGED <<userVars, devVars, qreg, txd, rusVars>>

-----------------------------------------------------------------------------
(* The user and the program.                                               *)

Make(k) == IF k.ext THEN <<\hE0, k.code>> ELSE <<k.code>>
Break(k) == IF k.ext THEN <<\hE0, \hF0, k.code>> ELSE <<\hF0, k.code>>

\* The keyboard looks at its keys between two bytes.  Behind a byte that is
\* already queued it makes no difference when the next is, unless a command
\* comes in between.
UserActs(bytes) ==
  /\ Waiting /\ sent = 0 /\ (out = <<>> \/ tx = "delay") /\ events < MaxEvents
  /\ events' = events + 1 /\ out' = out \o bytes
  /\ UNCHANGED <<sent, expects, lamps, rxVars, txVars, state, keyVars, ledVars, osdVars,
                 rusVars, garbled, resets>>
Press   == \E k \in Keys \ (Struck \cup held) : held' = held \cup {k} /\ UserActs(Make(k))
Release == \E k \in held : held' = held \ {k} /\ UserActs(Break(k))
Strike  == \E k \in Struck : UNCHANGED held /\ UserActs(Make(k) \o Break(k))
Repeat  == \E k \in held : UNCHANGED held /\ UserActs(Make(k))

\* That the lamps are not looked at in the retrace lets the change show in any
\* clock.
SwitchLamp ==
  /\ Waiting /\ lampChanges < MaxLamps /\ events < MaxEvents
  /\ led_rus' = 1 - led_rus
  /\ lampChanges' = lampChanges + 1 /\ events' = events + 1
  /\ UNCHANGED <<held, devVars, rxVars, txVars, state, keyVars, ledVars, osdVars,
                 garbled, resets>>

\* What happens without the user.
Machine ==
  \/ \E retrace \in BOOLEAN : Clock(retrace)
  \/ DeviceSends \/ Inhibit \/ DeviceTakes
  \/ key_blkvvod \in keymatrix /\ Reset

KbNext == Machine \/ Reset \/ Press \/ Release \/ Strike \/ Repeat \/ SwitchLamp
KbSpec == KbInit /\ [][KbNext]_kbVars

\* The clock runs, F11 resets, and the keyboard sends what it has to send and
\* takes what it is sent.
KbFairSpec == KbSpec /\ WF_kbVars(Machine)

-----------------------------------------------------------------------------
(* Properties.                                                             *)

\* Every variable has its type, and the receiver never holds a whole frame.
KbTypeOK ==
  /\ held \subseteq Keys /\ out \in Seq(Byte) /\ sent \in 0..10
  /\ expects \in {"command", "option"} /\ lamps \in 0..7
  /\ Len(shiftreg) <= 10 /\ {qreg, q, txd} \subseteq Byte
  /\ dsr \in BOOLEAN /\ tx \in {"idle", "delay", "request"}
  /\ state \in 0..30 /\ keymatrix \subseteq Matrix \cup ({8} \X (0..5))
  /\ key_osd \subseteq OsdKeys /\ {key_jcuken, o_osd, key_osd_x, garbled} \subseteq BOOLEAN
  /\ led_rus \in {0, 1}

AtRest == out = <<>> /\ shiftreg = <<>> /\ ~dsr /\ state = 2 /\ tx = "idle"
Closed(cell) == \E k \in held : cell \in k.cells[key_jcuken]

\* Once the bytes are through, a cell is closed exactly if a key of it is held:
\* through prefixes, repeats, fake shifts, lamp commands and resets.  Left out
\* are cells whose key moved while the OSD was up, across a change of layout or a
\* reset, or together with another key of the cell, until they move again; and a
\* stream cut by a command.  The receiver never holds a whole frame.
MatrixMatches ==
  /\ KbTypeOK
  /\ AtRest /\ ~garbled =>
       \A cell \in (Matrix \cup ({8} \X (0..5))) \ missed : cell \in keymatrix <=> Closed(cell)

\* The OSD sees no key that was let go, whether it was up or not at that moment.
OsdKeysHeld == AtRest /\ ~garbled => key_osd \subseteq {k.code : k \in held}

\* The decoder always gets back to listening for keys, whatever becomes of the
\* command it sends.
Listens == []<>(state = 2)

\* The scroll lamp comes to show whether the OSD is up, whenever that changed:
\* the change is seen in one clock only.
LampShowsOsd == []<>(garbled \/ resets > 0 \/ (lamps % 2 = 1 <=> o_osd))
=============================================================================
