------------------------------- MODULE Stdio --------------------------------
(***************************************************************************)
(* A stream of the firmware's C library: one FILE, unbuffered but for one  *)
(* character pushed back, over a file of the system with a position of its *)
(* own.  A call answers in said.                                           *)
(***************************************************************************)
EXTENDS Integers, Sequences

CONSTANTS
  Texts,        \* what a file may hold: sequences of characters
  Chars,        \* what a program pushes back and writes
  Offsets,      \* where it seeks
  Lines,        \* sizes of the buffers it gives fgets
  MaxLength     \* bound: the characters of a file

VARIABLES
  file,         \* the characters of the file
  bad,          \* the character the system cannot read or write, 0 if none
  stream,       \* struct _FILE and the position of its descriptor
  said          \* the last call and its answer

stdioVars == <<file, bad, stream, said>>

EOF == "EOF"
NEWLINE == "\n"

Closed == [pos |-> 0, fd |-> FALSE, open |-> FALSE, eof |-> FALSE, err |-> FALSE, back |-> <<>>]

Answer(call, chars, num, ok) == [call |-> call, chars |-> chars, num |-> num, ok |-> ok]

StdioInit ==
  /\ file = <<>> /\ bad = 0 /\ stream = Closed
  /\ said = Answer("none", <<>>, 0, TRUE)

Usable(s) == s.open /\ ~s.err /\ ~s.eof

-----------------------------------------------------------------------------
(* fopen, fdopen, freopen, fclose *)

Open(pos) == [Closed EXCEPT !.pos = pos, !.fd = TRUE, !.open = TRUE]

fopen(text, b) ==
  /\ ~stream.open /\ file' = text /\ bad' = b /\ stream' = Open(0)
  /\ said' = Answer("fopen", <<>>, 0, TRUE)

\* The descriptor was used before: it is somewhere in the file.
fdopen(text, pos) ==
  /\ ~stream.open /\ file' = text /\ bad' = 0 /\ stream' = Open(pos)
  /\ said' = Answer("fdopen", <<>>, pos, TRUE)

\* The file is closed first, and the flag that says it is open left to _fopen,
\* which leaves it too when it fails.
freopen(text, ok) ==
  /\ stream.open /\ stream.fd
  /\ file' = (IF ok THEN text ELSE file) /\ bad' = 0
  /\ stream' = IF ok THEN Open(0) ELSE [stream EXCEPT !.fd = FALSE]
  /\ said' = Answer("freopen", <<>>, 0, ok)

fclose ==
  /\ stream.open /\ stream' = Closed /\ UNCHANGED <<file, bad>>
  /\ said' = Answer("fclose", <<>>, 0, TRUE)

-----------------------------------------------------------------------------
(* fgetc, fgets, gets, ungetc *)

\* A character taken from a stream, and the stream after it.
Got(c, s) == [c |-> c, s |-> s]

fgetc(s) ==
  IF ~Usable(s) THEN Got(EOF, s)
  ELSE IF s.back # <<>> THEN Got(s.back[1], [s EXCEPT !.back = <<>>])
  ELSE IF ~s.fd \/ s.pos + 1 = bad THEN Got(EOF, [s EXCEPT !.err = TRUE])
  ELSE IF s.pos >= Len(file) THEN Got(EOF, [s EXCEPT !.eof = TRUE])
  ELSE Got(file[s.pos + 1], [s EXCEPT !.pos = @ + 1])

\* Mutant: the end of the file is not forgotten.
Pushed_atEnd(s, c) == [s EXCEPT !.back = <<c>>]

Pushed(s, c) == [s EXCEPT !.back = <<c>>, !.eof = FALSE]

Getc ==
  LET r == fgetc(stream)
      chars == IF r.c = EOF THEN <<>> ELSE <<r.c>>
  IN /\ stream' = r.s /\ said' = Answer("fgetc", chars, 0, r.c # EOF)
     /\ UNCHANGED <<file, bad>>

RECURSIVE Line(_, _, _)
\* At most size more characters of a line, after those in got.
Line(s, size, got) ==
  LET r == fgetc(s)
  IN IF size = 0 THEN [s |-> s, got |-> got, ok |-> TRUE]
     ELSE IF r.c = EOF THEN [s |-> r.s, got |-> got, ok |-> ~r.s.err /\ got # <<>>]
     ELSE IF r.c = NEWLINE THEN [s |-> r.s, got |-> Append(got, r.c), ok |-> TRUE]
     ELSE Line(r.s, size - 1, Append(got, r.c))

fgets(size) ==
  LET r == IF size = 0 THEN [s |-> stream, got |-> <<>>, ok |-> FALSE]
           ELSE Line(stream, size - 1, <<>>)
  IN /\ stream' = r.s /\ said' = Answer("fgets", r.got, size, r.ok)
     /\ UNCHANGED <<file, bad>>

\* gets knows no size; it holds any line of a file.
gets ==
  LET r == Line(stream, MaxLength + 2, <<>>)
  IN /\ stream' = r.s /\ said' = Answer("fgets", r.got, MaxLength + 3, r.ok)
     /\ UNCHANGED <<file, bad>>

ungetc(c) ==
  /\ stream' = (IF stream.open THEN Pushed(stream, c) ELSE stream)
  /\ said' = Answer("ungetc", <<c>>, 0, stream.open)
  /\ UNCHANGED <<file, bad>>

-----------------------------------------------------------------------------
(* fputc, fputs *)

\* Assumed of the program, as ISO C does: nothing is pushed back when it writes.
Put(call, chars) ==
  LET pos == stream.pos
      works == stream.fd /\ bad \notin (pos + 1)..(pos + Len(chars))
  IN /\ stream.back = <<>> /\ pos + Len(chars) <= MaxLength
     /\ IF Usable(stream) /\ works
        THEN /\ file' = SubSeq(file, 1, pos) \o chars
                          \o SubSeq(file, pos + Len(chars) + 1, Len(file))
             /\ stream' = [stream EXCEPT !.pos = @ + Len(chars)]
             /\ said' = Answer(call, chars, 0, TRUE)
        ELSE /\ stream' = [stream EXCEPT !.err = @ \/ (call = "fputc" /\ Usable(stream))]
             /\ said' = Answer(call, chars, 0, FALSE)
             /\ UNCHANGED file
     /\ UNCHANGED bad

fputc(c) == Put("fputc", <<c>>)

\* fputs leaves the error flag as it was.
fputs(s) == Put("fputs", s)

-----------------------------------------------------------------------------
(* fseek, fsetpos, rewind, ftell, fgetpos *)

Whence == {"SEEK_SET", "SEEK_CUR", "SEEK_END"}

Base(whence) ==
  CASE whence = "SEEK_SET" -> 0
    [] whence = "SEEK_CUR" -> stream.pos
    [] whence = "SEEK_END" -> Len(file)

\* Mutant: no correction.
Correction_none(whence) == 0

\* The character pushed back was read already: the descriptor is past it.
Correction(whence) ==
  IF stream.back # <<>> /\ whence = "SEEK_CUR" THEN -1 ELSE 0

Sought(offset, whence) ==
  LET res == Base(whence) + offset + Correction(whence)
  IN IF ~stream.open THEN stream
     ELSE IF ~stream.fd \/ res < 0 THEN [stream EXCEPT !.err = TRUE]
     ELSE [stream EXCEPT !.pos = res, !.eof = FALSE, !.back = <<>>]

\* The program stays in the file.
fseek(offset, whence) ==
  LET res == Base(whence) + offset + Correction(whence)
  IN /\ res <= Len(file)
     /\ stream' = Sought(offset, whence)
     /\ said' = Answer(whence, <<>>, offset, stream.open /\ stream.fd /\ res >= 0)
     /\ UNCHANGED <<file, bad>>

fsetpos(pos) == fseek(pos, "SEEK_SET")

rewind ==
  /\ stream.open
  /\ stream' = [Sought(0, "SEEK_SET") EXCEPT !.eof = FALSE, !.err = FALSE]
  /\ said' = Answer("SEEK_SET", <<>>, 0, stream.fd)
  /\ UNCHANGED <<file, bad>>

ftell ==
  LET pos == IF stream.pos > 0 /\ stream.back # <<>> THEN stream.pos - 1 ELSE stream.pos
      ok == stream.open /\ stream.fd
  IN /\ said' = Answer("ftell", <<>>, IF ok THEN pos ELSE -1, ok)
     /\ UNCHANGED <<file, bad, stream>>

fgetpos == ftell

clearerr ==
  /\ stream' = (IF stream.open THEN [stream EXCEPT !.eof = FALSE, !.err = FALSE] ELSE stream)
  /\ said' = Answer("clearerr", <<>>, 0, TRUE)
  /\ UNCHANGED <<file, bad>>

StdioNext ==
  \/ \E t \in Texts : fopen(t, 0) \/ freopen(t, TRUE) \/ freopen(t, FALSE)
  \/ \E t \in Texts : \E b \in 1..Len(t) : fopen(t, b)
  \/ \E t \in Texts : \E pos \in 0..Len(t) : fdopen(t, pos)
  \/ fclose
  \/ Getc \/ gets \/ \E size \in Lines : fgets(size)
  \/ \E c \in Chars : ungetc(c) \/ fputc(c) \/ \E d \in Chars : fputs(<<c, d>>)
  \/ \E offset \in Offsets, whence \in Whence : fseek(offset, whence)
  \/ \E pos \in Offsets : fsetpos(pos)
  \/ rewind \/ ftell \/ fgetpos \/ clearerr

StdioSpec == StdioInit /\ [][StdioNext]_stdioVars

-----------------------------------------------------------------------------
(* What the program has still to read. *)

Remaining(s) ==
  s.back \o (IF s.fd THEN SubSeq(file, s.pos + 1, Len(file)) ELSE <<>>)

Promise == INSTANCE Reader WITH
             text <- file, rest <- Remaining(stream), pushed <- stream.back # <<>>,
             failed <- stream.err

\* Whatever a program does with a stream, it reads the file in order from where
\* it sought to, and what it pushed back first, exactly once.
StreamSpec == Promise!ReaderSpec
=============================================================================
