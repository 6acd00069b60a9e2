------------------------------- MODULE Reader -------------------------------
(***************************************************************************)
(* What a stream of the C library promises: the program reads the text of  *)
(* a file from a place on, one character after the other, and a character  *)
(* it pushes back comes first.  No buffer slot, no flags, no file position *)
(* of the system: rest is all the program has still to read.               *)
(***************************************************************************)
EXTENDS Integers, Sequences

VARIABLES
  text,     \* the characters of the file
  rest,     \* what the program has still to read
  pushed,   \* rest begins with a character the program pushed back
  failed,   \* an access failed: the stream may answer EOF until it is cleared
  said      \* the last call and its answer: [call, chars, num, ok]

readerVars == <<text, rest, pushed, failed, said>>

From(t, at) == SubSeq(t, at + 1, Len(t))
NEWLINE == "\n"

\* Where the program reads, counted from the start of the file.
Place == Len(text) - Len(rest)

ReaderInit ==
  /\ text = <<>> /\ rest = <<>> /\ ~pushed /\ ~failed
  /\ said = [call |-> "none", chars |-> <<>>, num |-> 0, ok |-> TRUE]

Opens ==
  /\ said'.call \in {"fopen", "fdopen", "freopen"} /\ said'.ok
  /\ rest' = From(text', said'.num) /\ ~pushed' /\ ~failed'

\* A file that is closed, or not opened again, has nothing more to read.
Closes ==
  /\ said'.call \in {"fclose", "freopen"} /\ UNCHANGED text
  /\ said'.call = "freopen" => ~said'.ok
  /\ rest' = (IF pushed' THEN SubSeq(rest, 1, 1) ELSE <<>>)

\* A call takes the next n characters and no others.
Takes(n) ==
  /\ said'.chars = SubSeq(rest, 1, n) /\ rest' = From(rest, n)
  /\ pushed' = (pushed /\ n = 0) /\ UNCHANGED text

\* fgetc takes one, and none only at the end or if the stream fails.
GetsOne ==
  /\ said'.call = "fgetc"
  /\ \/ said'.ok /\ rest # <<>> /\ Takes(1) /\ UNCHANGED failed
     \/ ~said'.ok /\ (rest = <<>> \/ failed') /\ Takes(0)

\* fgets and gets take a line, or what there is of it or the buffer holds.
GetsLine ==
  /\ said'.call = "fgets"
  /\ \E n \in 0..Len(rest) :
       /\ Takes(n)
       /\ n < said'.num \/ n = 0
       /\ \A i \in 1..(n - 1) : rest[i] # NEWLINE
       /\ said'.ok => n + 1 = said'.num \/ rest' = <<>> \/ rest[n] = NEWLINE
       /\ ~said'.ok => failed' \/ said'.num = 0 \/ rest = <<>>

\* A scan takes what it wants; the character after it, which it has seen too, it
\* may leave pushed back.
ScansText ==
  /\ said'.call = "fscanf" /\ UNCHANGED text
  /\ \E n \in 0..Len(rest) : said'.chars = SubSeq(rest, 1, n) /\ rest' = From(rest, n)
  /\ pushed' => rest' # <<>>

Unreads ==
  /\ said'.call = "ungetc" /\ UNCHANGED <<text, failed>>
  /\ IF said'.ok
     THEN pushed' /\ rest' = said'.chars \o (IF pushed THEN Tail(rest) ELSE rest)
     ELSE UNCHANGED <<rest, pushed>>

\* A seek that works puts the program where it said.
SeeksTo(place) ==
  IF said'.ok
  THEN place >= 0 /\ rest' = From(text, place) /\ ~pushed'
  ELSE UNCHANGED <<rest, pushed>>

Seeks ==
  /\ UNCHANGED text
  /\ \/ said'.call = "SEEK_SET" /\ SeeksTo(said'.num)
     \/ said'.call = "SEEK_CUR" /\ SeeksTo(Place + said'.num)
     \/ said'.call = "SEEK_END" /\ SeeksTo(Len(text) + said'.num)

Tells ==
  /\ said'.call = "ftell" /\ UNCHANGED <<text, rest, pushed, failed>>
  /\ said'.ok /\ Place >= 0 => said'.num = Place

\* What is written goes over what the program would have read next.
Puts ==
  /\ said'.call \in {"fputc", "fputs"}
  /\ LET n == Len(said'.chars)
     IN IF said'.ok
        THEN /\ text' = SubSeq(text, 1, Place) \o said'.chars \o From(text, Place + n)
             /\ rest' = From(rest, n) /\ ~pushed'
        ELSE UNCHANGED <<text, rest, pushed>>

Clears == said'.call = "clearerr" /\ ~failed' /\ UNCHANGED <<text, rest, pushed>>

ReaderNext ==
  \/ Opens \/ Closes \/ GetsOne \/ GetsLine \/ ScansText \/ Unreads \/ Seeks \/ Tells \/ Puts \/ Clears

ReaderSpec == ReaderInit /\ [][ReaderNext]_readerVars
=============================================================================
