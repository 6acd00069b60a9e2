-------------------------------- MODULE Scanf -------------------------------
(***************************************************************************)
(* fscanf of the firmware's C library: _scanf, with fgetc to read and      *)
(* ungetc to put back the one character it has read too many.  A format is *)
(* a sequence of directives, each taken apart already; what _scanf knows   *)
(* in its static variables is a record.                                    *)
(***************************************************************************)
EXTENDS Stdio, SequencesExt, FiniteSetsExt

CONSTANTS
  Alphabet,     \* the characters of files and formats
  Scans         \* the formats a program scans with

VARIABLE scan   \* the last scan: what there was, what it returned, stored and left

scanVars == <<file, bad, stream, said, scan>>

NoScan ==
  [format |-> <<>>, from |-> <<>>, failed |-> FALSE, result |-> 0, values |-> <<>>, left |-> <<>>]

From(t, at) == SubSeq(t, at + 1, Len(t))

White == {" ", NEWLINE}
UINT_MAX == 65535

\* A directive: white space, a literal, or a conversion with its flag, width
\* and length modifier.
Directive(kind, c, base, assign, width, IntBytes) ==
  [kind |-> kind, c |-> c, base |-> base, assign |-> assign, width |-> width, IntBytes |-> IntBytes]

Literal(c) == Directive("literal", {c}, 0, FALSE, UINT_MAX, 2)
Space == Directive("white", {}, 0, FALSE, UINT_MAX, 2)
Integer(base, assign, width, IntBytes) == Directive("int", {}, base, assign, width, IntBytes)
Conversion(kind, assign, width) == Directive(kind, {}, 0, assign, width, 2)
CharSet(set, assign, width) == Directive("set", set, 0, assign, width, 2)

\* A set that begins with ^ is all other characters.
Inverted(set) == Alphabet \ set

\* What is not implemented, and what is no conversion or has a width of 0.
Unsupported == Directive("bad", {}, 0, FALSE, UINT_MAX, 2)

-----------------------------------------------------------------------------
(* Reading: C is the character read ahead, EOF at the end. *)

Begun(in) ==
  [in |-> in, C |-> EOF, CharCount |-> 0, Converted |-> FALSE, Assignments |-> 0,
   values |-> <<>>, got |-> <<>>, Positive |-> TRUE, run |-> "on"]

ReadChar(s) ==
  LET r == fgetc(s.in)
  IN [s EXCEPT !.in = r.s, !.C = r.c, !.CharCount = IF r.c = EOF THEN @ ELSE @ + 1]

PushBack(s) ==
  IF s.C = EOF THEN s ELSE [s EXCEPT !.in = Pushed(s.in, s.C), !.CharCount = @ - 1]

RECURSIVE Reading(_, _, _)
\* The characters of a set, width at most, after those got so far.
Reading(s, set, width) ==
  IF s.C \in set /\ width > 0
  THEN Reading(ReadChar([s EXCEPT !.got = Append(@, s.C)]), set, width - 1)
  ELSE s

Read(s, set, width) == Reading([s EXCEPT !.got = <<>>], set, width)

SkipWhite(s) == Read(s, White, UINT_MAX)

NoConv(s) == [s EXCEPT !.run = "failed"]
Convert(s) == [s EXCEPT !.Converted = TRUE]

Assign(s, d, value) ==
  IF d.assign
  THEN [s EXCEPT !.values = Append(@, value), !.Assignments = @ + 1]
  ELSE s

-----------------------------------------------------------------------------
(* Integers *)

ReadSign(s) ==
  IF s.C \in {"-", "+"}
  THEN ReadChar([Convert(s) EXCEPT !.Positive = (s.C = "+")])
  ELSE [s EXCEPT !.Positive = TRUE]

Digit == <<"0", "1", "2", "3", "4", "5", "6", "7", "8", "9", "a", "b", "c", "d", "e", "f">>
DigitsOf(base) == {Digit[i] : i \in 1..base}
HexVal(c) == (CHOOSE i \in 1..16 : Digit[i] = c) - 1

ReadInt(s, base, width) ==
  LET t == Read(s, DigitsOf(base), width)
  IN IF t.got = <<>> THEN NoConv(t) ELSE Convert(t)

ValueOf(digits, base) == FoldLeft(LAMBDA v, c : v * base + HexVal(c), 0, digits)

\* The low bytes of a value, as many as the argument has.
Low(value, IntBytes) == IF IntBytes = 4 THEN value ELSE value % 256^IntBytes

AssignInt(s, d, value) == IF s.run = "on" THEN Assign(s, d, Low(value, d.IntBytes)) ELSE s

\* Mutant: the character after a leading 0 is not put back.
WithBase_lost(s, base) ==
  LET t == ReadChar(s)
  IN IF base # 0 THEN [s |-> s, base |-> base]
     ELSE IF s.C # "0" THEN [s |-> s, base |-> 10]
     ELSE IF t.C = "x" THEN [s |-> ReadChar(Convert(t)), base |-> 16]
     ELSE [s |-> [t EXCEPT !.C = "0"], base |-> 8]

\* A base of 0 is found out; a leading 0 that is no 0x is read again.
WithBase(s, base) ==
  LET t == ReadChar(s)
  IN IF base # 0 THEN [s |-> s, base |-> base]
     ELSE IF s.C # "0" THEN [s |-> s, base |-> 10]
     ELSE IF t.C = "x" THEN [s |-> ReadChar(Convert(t)), base |-> 16]
     ELSE [s |-> [PushBack(t) EXCEPT !.C = "0"], base |-> 8]

ScanInt(s, d) ==
  LET b == WithBase(ReadSign(SkipWhite(s)), d.base)
      t == ReadInt(b.s, b.base, d.width)
      v == ValueOf(t.got, b.base)
  IN AssignInt(t, d, IF t.Positive THEN v ELSE -v)

-----------------------------------------------------------------------------
(* The other directives *)

Match(s, d) == IF s.C \in d.c THEN ReadChar(s) ELSE NoConv(s)

ScanString(s, d) ==
  LET t == SkipWhite(s)
      u == Read(Convert(t), Alphabet \ White, d.width)
  IN IF t.C = EOF THEN NoConv(t) ELSE Assign(u, d, u.got)

\* Exactly as many as the width says, white space too.
ScanChars(s, d) ==
  LET width == IF d.width = UINT_MAX THEN 1 ELSE d.width
      t == Read(Convert(s), Alphabet, width)
  IN IF s.C = EOF THEN NoConv(s)
     ELSE IF Len(t.got) < width THEN NoConv(t) ELSE Assign(t, d, t.got)

ScanSet(s, d) ==
  LET t == Read(s, d.c, d.width)
  IN IF t.got = <<>> THEN NoConv(t) ELSE Assign(Convert(t), d, t.got)

ScanPointer(s, d) ==
  LET t == SkipWhite(s)
      u == ReadChar(Convert(t))
      v == ReadInt(ReadChar(u), 16, d.width)
  IN IF t.C # "0" THEN NoConv(t)
     ELSE IF u.C # "x" THEN NoConv(u)
     ELSE AssignInt(v, d, ValueOf(v.got, 16))

\* How much was read, without the character read ahead; it does not count.
ScanCount(s, d) ==
  LET t == AssignInt(s, d, IF s.C = EOF THEN s.CharCount ELSE s.CharCount - 1)
  IN [t EXCEPT !.Assignments = s.Assignments]

Obey(s, d) ==
  IF s.run # "on" THEN s
  ELSE CASE d.kind = "white"   -> SkipWhite(s)
         [] d.kind = "literal" -> Match(s, d)
         [] d.kind = "int"     -> ScanInt(s, d)
         [] d.kind = "string"  -> ScanString(s, d)
         [] d.kind = "chars"   -> ScanChars(s, d)
         [] d.kind = "set"     -> ScanSet(s, d)
         [] d.kind = "pointer" -> ScanPointer(s, d)
         [] d.kind = "count"   -> ScanCount(s, d)
         [] d.kind = "bad"     -> [s EXCEPT !.run = "invalid"]

AnError == -1      \* EOF as the answer of a scan

\* Mutant: any failure at the end of the input is an error.
Result_anyEnd(s) ==
  IF s.run = "invalid" \/ (s.run = "failed" /\ s.C = EOF) THEN AnError ELSE s.Assignments

\* A failure at the end of the input before anything was converted is an error.
Result(s) ==
  IF s.run = "invalid" \/ (s.run = "failed" /\ s.C = EOF /\ ~s.Converted)
  THEN AnError ELSE s.Assignments

\* vfscanf: a scan the file failed in returns EOF.
fscanf(format) ==
  LET s == FoldLeft(Obey, ReadChar(Begun(stream)), format)
      t == PushBack(s)
  IN /\ stream' = t.in
     /\ said' = Answer("fscanf", SubSeq(Remaining(stream), 1, t.CharCount), 0, TRUE)
     /\ scan' = [format |-> format, from |-> Remaining(stream), failed |-> t.in.err,
                 result |-> IF t.in.err THEN AnError ELSE Result(s),
                 values |-> s.values, left |-> Remaining(t.in)]
     /\ UNCHANGED <<file, bad>>

ScanInit == StdioInit /\ scan = NoScan

\* scan tells of a scan until the next call.
ScanNext ==
  \/ \E format \in Scans : fscanf(format)
  \/ StdioNext /\ scan' = NoScan

ScanSpec == ScanInit /\ [][ScanNext]_scanVars

-----------------------------------------------------------------------------
(* What a format means, told without reading ahead or putting back: each     *)
(* directive takes the longest piece of the text that is, or begins, one of  *)
(* the words it stands for, and the scan stops at the first that takes none. *)

Wide(w, width) == Len(w) \in 1..width
Only(w, set) == \A i \in DOMAIN w : w[i] \in set

\* Numbers of a base, sign apart; the width limits the digits only.
Numeral(w, base, width) ==
  \/ base # 0 /\ Wide(w, width) /\ Only(w, DigitsOf(base))
  \/ /\ base = 0
     /\ \/ IsPrefix(<<"0", "x">>, w) /\ Wide(From(w, 2), width) /\ Only(From(w, 2), DigitsOf(16))
        \/ Wide(w, width) /\ Only(w, DigitsOf(IF w[1] = "0" THEN 8 ELSE 10))

Unsigned(w) == IF w # <<>> /\ w[1] \in {"-", "+"} THEN Tail(w) ELSE w

\* The words of a conversion.
IsWord(w, d) ==
  CASE d.kind = "int"     -> Numeral(Unsigned(w), d.base, d.width)
    [] d.kind = "pointer" -> IsPrefix(<<"0", "x">>, w) /\ Numeral(w, 0, d.width)
    [] d.kind = "string"  -> Wide(w, d.width) /\ Only(w, Alphabet \ White)
    [] d.kind = "set"     -> Wide(w, d.width) /\ Only(w, d.c)
    [] d.kind = "chars"   -> Len(w) = (IF d.width = UINT_MAX THEN 1 ELSE d.width)
    [] d.kind = "literal" -> Len(w) = 1 /\ w[1] \in d.c

\* The beginnings of words: some ending makes a word of them.
Endings == UNION {[1..n -> {"0", "x"}] : n \in 0..2} \cup {<<c>> : c \in Alphabet}
Begins(w, d) == w = <<>> \/ \E e \in Endings : IsWord(w \o e, d)

Blanks(t) == Max({n \in 0..Len(t) : Only(SubSeq(t, 1, n), White)})
Piece(t, d) ==
  SubSeq(t, 1, Max({n \in 0..Len(t) : Begins(SubSeq(t, 1, n), d)}))

WordValue(w, d) ==
  IF d.kind \notin {"int", "pointer"} THEN w
  ELSE LET u == Unsigned(w)
           base == CASE d.base # 0 -> d.base
                     [] IsPrefix(<<"0", "x">>, u) -> 16
                     [] d.base = 0 /\ ~IsPrefix(<<"0", "x">>, u) -> IF u[1] = "0" THEN 8 ELSE 10
           v == ValueOf(IF base = 16 /\ d.base = 0 THEN From(u, 2) ELSE u, base)
       IN Low(IF w[1] = "-" THEN -v ELSE v, d.IntBytes)

\* A scan so far: the text left, how much was taken, what was stored, how many
\* were counted, whether a conversion was completed, and how it goes on.
Meant(t, taken, values, count, done, run) ==
  [left |-> t, taken |-> taken, values |-> values, count |-> count, done |-> done, run |-> run]

MeaningOf(m, d) ==
  LET skip == IF d.kind \in {"white", "int", "pointer", "string"} THEN Blanks(m.left) ELSE 0
      t == From(m.left, skip)
      w == Piece(t, d)
      left == From(t, Len(w))
      taken == m.taken + skip + Len(w)
  IN IF m.run # "on" THEN m
     ELSE IF d.kind = "bad" THEN [m EXCEPT !.run = "error"]
     ELSE IF d.kind = "white" THEN [m EXCEPT !.left = t, !.taken = @ + skip]
     ELSE IF d.kind = "count"
     THEN [m EXCEPT !.values = IF d.assign THEN Append(@, Low(m.taken, d.IntBytes)) ELSE @]
     ELSE IF w # <<>> /\ IsWord(w, d)
     THEN Meant(left, taken,
                IF d.assign THEN Append(m.values, WordValue(w, d)) ELSE m.values,
                IF d.assign THEN m.count + 1 ELSE m.count,
                m.done \/ d.kind # "literal", "on")
     ELSE Meant(left, taken, m.values, m.count, m.done,
                IF t = <<>> /\ ~m.done THEN "error" ELSE "over")

Meaning(format, t) == FoldLeft(MeaningOf, Meant(t, 0, <<>>, 0, FALSE, "on"), format)

\* A scan stores and returns what its format means of the text before it and
\* leaves the rest of the text; a scan the file fails in returns EOF.
ScanMeansFormat ==
  scan # NoScan =>
    LET m == Meaning(scan.format, scan.from)
    IN IF scan.failed THEN scan.result = AnError
       ELSE /\ scan.result = IF m.run = "error" THEN AnError ELSE m.count
            /\ scan.values = m.values /\ scan.left = m.left
=============================================================================
