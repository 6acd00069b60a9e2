------------------------------ MODULE Calendar ------------------------------
(***************************************************************************)
(* Time in the firmware's C library: mktime, which brings the fields of a  *)
(* broken down time into range and counts the seconds since 1970, month by *)
(* month; gmtime and localtime, which leave all their work to mktime; and  *)
(* strftime and asctime, which write a time into a buffer.  A time_t is a  *)
(* pair [days, secs], int is 16 bits wide.                                 *)
(***************************************************************************)
EXTENDS Integers, Sequences, FiniteSets

CONSTANTS
  Calls,        \* broken down times a program gives mktime
  Clocks,       \* times [days, secs] it gives localtime and gmtime
  Zones,        \* seconds behind UTC, _tz.timezone
  Formats,      \* formats of strftime: sequences of conversions and letters
  Buffers       \* sizes of the buffers it writes to

\* struct tm
Broken == [sec : Int, min : Int, hour : Int, mday : Int, mon : Int, year : Int,
           yday : Int, wday : Int]

\* What a format is made of: conversions, by their letters, and other characters.
\* A format whose last character is a lone '%' is none: strftime would read on
\* behind its end.
Items == {"%", "A", "B", "D", "F", "H", "I", "M", "P", "S", "U", "W", "X", "Y", "Z",
          "a", "b", "c", "d", "j", "m", "p", "w", "x", "y", "unknown", "letter"}

\* A conversion is made in a buffer of its own, arg[40].
ARG == 40

\* No buffer fills the address space: a conversion at its end would wrap count around.
BufferSizes == 0..(65536 - ARG)

\* No month is negative: mktime would read before its table of months.
ASSUME CalendarAssumption ==
  /\ Calls \subseteq Broken /\ \A fields \in Calls : fields.mon >= 0
  /\ Clocks \subseteq [days : Int, secs : Int] /\ Zones \subseteq Int
  /\ Formats \subseteq Seq(Items) /\ Buffers \subseteq BufferSizes

VARIABLES
  tm,           \* struct tm
  asked,        \* the fields as the program gave them
  phase,        \* "idle", where mktime is, "done"
  time,         \* what mktime returns
  text          \* strftime: its arguments, how many items of the format it has taken,
                \* count, how much of the buffer it has written, has it returned

timeVars == <<tm, asked, phase, time, text>>

U16(x) == x % 65536
Signed(x) == ((x + 32768) % 65536) - 32768

\* div, which rounds towards zero
Quot(x, n) == IF x >= 0 THEN x \div n ELSE -((-x) \div n)
Rem(x, n) == x - n * Quot(x, n)

FEBRUARY == 1
DECEMBER == 11
JAN_1_1970 == 4
MonthLength == <<31, 28, 31, 30, 31, 30, 31, 31, 30, 31, 30, 31>>
MonthDays == <<0, 31, 59, 90, 120, 151, 181, 212, 243, 273, 304, 334>>

\* Mutant: a century is no leap year, never.
IsLeapYear_never400(y) == y % 4 = 0 /\ y % 100 # 0

IsLeapYear(y) == y % 4 = 0 /\ (y % 100 # 0 \/ y % 400 = 0)

NoTime == [days |-> -1, secs |-> -1]    \* (time_t) -1
NoText == [items |-> <<>>, size |-> 0, at |-> 0, count |-> 0, touched |-> 0, done |-> TRUE]

Fields(sec, min, hour, mday, mon, year) ==
  [sec |-> sec, min |-> min, hour |-> hour, mday |-> mday, mon |-> mon, year |-> year,
   yday |-> 0, wday |-> 0]

CalendarInit ==
  /\ tm = Fields(0, 0, 0, 0, 0, 0) /\ asked = tm
  /\ phase = "idle" /\ time = NoTime /\ text = NoText

-----------------------------------------------------------------------------
(* mktime *)

Begin(fields) ==
  /\ phase = "idle"
  /\ tm' = fields /\ asked' = fields
  /\ phase' = "units" /\ time' = NoTime /\ text' = NoText

\* Seconds, minutes and hours carry into the days; a field that goes negative
\* ends the call with an error.
Units ==
  LET sec  == tm.sec
      min  == Signed(tm.min + Quot(sec, 60))
      hour == Signed(tm.hour + Quot(min, 60))
      mday == Signed(tm.mday + Quot(hour, 24))
      late == min >= 0 /\ hour >= 0
  IN /\ phase = "units"
     /\ tm' = [tm EXCEPT !.sec = Rem(sec, 60),
                         !.min = IF min < 0 THEN @ ELSE Rem(min, 60),
                         !.hour = IF late THEN Rem(hour, 24) ELSE @,
                         !.mday = IF late /\ mday >= 0 THEN mday ELSE @]
     /\ phase' = IF late /\ mday >= 0 THEN "months" ELSE "done"
     /\ UNCHANGED <<asked, time, text>>

\* The length of a month, in years since 1900.
DaysIn(mon, year) ==
  IF mon = FEBRUARY /\ IsLeapYear(year + 1900) THEN 29 ELSE MonthLength[mon + 1]

\* Mutant: December leads into January of the same year.
Months_sameYear ==
  LET mon  == Rem(tm.mon, 12)
      year == Signed(tm.year + Quot(tm.mon, 12))
      max  == DaysIn(mon, year)
  IN /\ phase = "months"
     /\ \/ /\ year < 0
           /\ tm' = [tm EXCEPT !.mon = mon] /\ phase' = "done"
        \/ /\ year >= 0 /\ tm.mday > max
           /\ tm' = [tm EXCEPT !.mday = @ - max, !.mon = (mon + 1) % 12, !.year = year]
           /\ phase' = phase
        \/ /\ year >= 0 /\ tm.mday <= max
           /\ tm' = [tm EXCEPT !.mon = mon, !.year = year] /\ phase' = "count"
     /\ UNCHANGED <<asked, time, text>>

\* One turn of the loop that moves surplus days into the months that follow.
Months ==
  LET mon  == Rem(tm.mon, 12)
      year == Signed(tm.year + Quot(tm.mon, 12))
      max  == DaysIn(mon, year)
  IN /\ phase = "months"
     /\ \/ /\ year < 0
           /\ tm' = [tm EXCEPT !.mon = mon] /\ phase' = "done"
        \/ /\ year >= 0 /\ tm.mday > max
           /\ tm' = [tm EXCEPT !.mday = @ - max,
                               !.mon = IF mon = DECEMBER THEN 0 ELSE mon + 1,
                               !.year = IF mon = DECEMBER THEN Signed(year + 1) ELSE year]
           /\ phase' = phase
        \/ /\ year >= 0 /\ tm.mday <= max
           /\ tm' = [tm EXCEPT !.mon = mon, !.year = year] /\ phase' = "count"
     /\ UNCHANGED <<asked, time, text>>

YearDay(mon, mday, year) ==
  MonthDays[mon + 1] + mday - 1
    + (IF mon > FEBRUARY /\ IsLeapYear(year + 1900) THEN 1 ELSE 0)

\* All years the count is good for that 4 divides are leap years.
DayCount(year, yday) ==
  U16(U16(year - 70) * 365 + U16(year - (68 + 1)) \div 4 + yday)

Count ==
  LET yday == YearDay(tm.mon, tm.mday, tm.year)
      days == DayCount(tm.year, yday)
  IN /\ phase = "count"
     /\ tm' = [tm EXCEPT !.yday = yday, !.wday = U16(JAN_1_1970 + days) % 7]
     /\ time' = [days |-> days,
                 secs |-> U16(tm.hour) * 3600 + U16(U16(tm.min) * 60) + U16(tm.sec)]
     /\ phase' = "done"
     /\ UNCHANGED <<asked, text>>

-----------------------------------------------------------------------------
(* localtime, gmtime *)

\* As a long, a time from 2^31 seconds on is negative, and so is one that went
\* below 0 when gmtime took a time zone ahead of UTC from it.
Negative(t) == t.days < 0 \/ t.days > 24855 \/ (t.days = 24855 /\ t.secs >= 11648)

\* Seconds, hours and days only: "The mktime routine will then do the rest."
localtime(t) ==
  /\ ~Negative(t)
  /\ Begin(Fields(t.secs % 3600, 0, t.secs \div 3600, t.days + 1, 0, 70))

Plus(t, secs) ==
  [days |-> t.days + (t.secs + secs) \div 86400, secs |-> (t.secs + secs) % 86400]

gmtime(t, timezone) == localtime(Plus(t, timezone))

-----------------------------------------------------------------------------
(* strftime *)

\* An int in decimal, and padded to a width.
PowersOf10 == <<10, 100, 1000, 10000>>
Digits(n) ==
  LET size == IF n < 0 THEN -n ELSE n
  IN (IF n < 0 THEN 2 ELSE 1) + Cardinality({k \in 1..4 : size >= PowersOf10[k]})
Padded(n, width) == IF Digits(n) > width THEN Digits(n) ELSE width

DayNames == <<6, 6, 7, 9, 8, 6, 8>>                          \* Sunday ...
MonthNames == <<7, 8, 5, 5, 3, 4, 4, 6, 9, 7, 8, 8>>         \* January ...

\* How many characters a conversion writes.  Of the fields mktime leaves, the
\* seconds may be negative.
Length(c) ==
  LET year == Padded(Signed(tm.year + 1900), 4)
      sec  == Padded(tm.sec, 2)
  IN CASE c \in {"%", "w"} -> 1
       [] c \in {"H", "I", "M", "P", "U", "W", "d", "m", "p", "y"} -> 2
       [] c \in {"Z", "a", "b", "j"} -> 3
       [] c = "A" -> DayNames[tm.wday + 1]
       [] c = "B" -> MonthNames[tm.mon + 1]
       [] c = "S" -> sec
       [] c = "D" -> 8
       [] c = "X" -> sec + 6
       [] c \in {"F", "x"} -> year + 6
       [] c = "Y" -> year
       [] c = "c" -> 15 + Padded(tm.mday, 3) + sec + Digits(Signed(tm.year + 1900))
       [] OTHER -> 0

IsLetter(item) == item = "letter"
ItemLength(item) == IF IsLetter(item) THEN 1 ELSE Length(item)

strftime(format, bufsize) ==
  /\ phase = "done" /\ time # NoTime /\ text = NoText
  /\ text' = [NoText EXCEPT !.items = format, !.size = bufsize, !.done = FALSE]
  /\ UNCHANGED <<tm, asked, phase, time>>

\* Mutant: a buffer that is just full takes the terminator.
IsFull_over(b) == b.count > b.size

\* The loop looks at the buffer first.
IsFull(b) == b.count >= b.size

NoSpace ==
  /\ ~text.done /\ IsFull(text)
  /\ text' = [text EXCEPT !.count = 0, !.done = TRUE]
  /\ UNCHANGED <<tm, asked, phase, time>>

\* The end of the format: the terminator.
EndOfFormat ==
  /\ ~text.done /\ ~IsFull(text) /\ text.at = Len(text.items)
  /\ text' = [text EXCEPT !.touched = @ + 1, !.done = TRUE]
  /\ UNCHANGED <<tm, asked, phase, time>>

\* A conversion is copied only if it fits with the terminator.
Room(count, len, bufsize) == U16(count + len) < bufsize

\* A letter is copied, a conversion first made in a buffer of its own.
Item ==
  /\ ~text.done /\ ~IsFull(text) /\ text.at < Len(text.items)
  /\ LET item == text.items[text.at + 1]
         len  == ItemLength(item)
     IN text' = [text EXCEPT !.at = @ + 1, !.count = U16(@ + len),
                             !.touched = IF IsLetter(item) \/ Room(text.count, len, text.size)
                                         THEN @ + len ELSE @]
  /\ UNCHANGED <<tm, asked, phase, time>>

asctime == strftime(<<"c", "letter">>, 26)

CalendarNext ==
  \/ \E fields \in Calls : Begin(fields)
  \/ Units \/ Months \/ Count
  \/ \E t \in Clocks : localtime(t) \/ \E zone \in Zones : gmtime(t, zone)
  \/ \E format \in Formats, bufsize \in Buffers : strftime(format, bufsize)
  \/ asctime
  \/ NoSpace \/ EndOfFormat \/ Item

CalendarSpec == CalendarInit /\ [][CalendarNext]_timeVars

-----------------------------------------------------------------------------
(* What makes it correct: the calendar, counted the long way round. *)

LeapYears(year) == year \div 4 - year \div 100 + year \div 400

\* Days from 1 January 1970 to a day of a month, any number of months on.
DayOf(year, mon, mday) ==
  LET y == year + 1900 + mon \div 12
      m == mon % 12
  IN 365 * (y - 1970) + LeapYears(y - 1) - LeapYears(1969)
       + MonthDays[m + 1] + (IF m > 1 /\ IsLeapYear(y) THEN 1 ELSE 0) + mday - 1

Counted(t) ==
  LET secs == t.hour * 3600 + t.min * 60 + t.sec
  IN [days |-> DayOf(t.year, t.mon, t.mday) + secs \div 86400, secs |-> secs % 86400]

\* Fields mktime can bring into range: none is negative, none overflows on the
\* way, and the time lies in the years the count is good for.
Regular(t) ==
  /\ t.sec >= 0 /\ t.min >= 0 /\ t.hour >= 0 /\ t.mday >= 1 /\ t.mon >= 0 /\ t.year >= 70
  /\ t.min + t.sec \div 60 < 32768
  /\ t.hour + (t.min + t.sec \div 60) \div 60 < 32768
  /\ t.mday + (t.hour + (t.min + t.sec \div 60) \div 60) \div 24 < 32768
  /\ Counted(t).days < DayOf(200, 0, 1)

InRange(t) ==
  /\ t.sec \in 0..59 /\ t.min \in 0..59 /\ t.hour \in 0..23
  /\ t.mon \in 0..11 /\ t.mday \in 1..DaysIn(t.mon, t.year)
  /\ t.yday = DayOf(t.year, t.mon, t.mday) - DayOf(t.year, 0, 1)
  /\ t.wday = (JAN_1_1970 + DayOf(t.year, t.mon, t.mday)) % 7

\* mktime gives the time its caller meant, and corrects the fields to that time.
TimeIsRight ==
  phase = "done" /\ Regular(asked) => time = Counted(asked) /\ InRange(tm) /\ Counted(tm) = time

\* The characters of the first n items of a format, none of which has over ARG.
Characters(items, n) == {p \in (1..n) \X (1..ARG) : p[2] <= ItemLength(items[p[1]])}

\* strftime stays in its buffer and says how much it wrote, or 0 if the text
\* does not fit with its terminator.
FormatFits ==
  /\ text.touched <= text.size
  /\ text.done =>
       LET whole == Cardinality(Characters(text.items, Len(text.items)))
       IN /\ text.count = IF whole < text.size THEN whole ELSE 0
          /\ text.count > 0 => text.touched = text.count + 1
=============================================================================
