------------------------------ MODULE Clib_proofs -----------------------------
(***************************************************************************)
(* mktime is right for every broken down time it can bring into range,     *)
(* strftime stays in its buffer for every format and time, and the heap is *)
(* sound for every piece of memory, every size and alignment and any       *)
(* number of blocks.                                                       *)
(***************************************************************************)
EXTENDS Heap, Calendar, FiniteSetTheorems, WellFoundedInduction, TLAPS

-----------------------------------------------------------------------------
(*                               The calendar                              *)

-----------------------------------------------------------------------------
(* Division. *)

LEMMA Parts ==
  ASSUME NEW x \in Int, NEW n \in {4, 7, 12, 24, 60, 100, 400}
  PROVE  x \div n \in Int /\ x % n \in 0..(n - 1) /\ x = n * (x \div n) + (x % n)
BY SMT

LEMMA WholeDays ==
  ASSUME NEW x \in Int, NEW q \in Int, NEW r \in Int, 0 <= r, r < 86400, x = 86400 * q + r
  PROVE  x \div 86400 = q /\ x % 86400 = r
BY SMT

LEMMA Truncated ==
  ASSUME NEW x \in Nat, NEW n \in {12, 24, 60}
  PROVE  Quot(x, n) = x \div n /\ Rem(x, n) = x % n
BY SMT DEF Quot, Rem

LEMMA Narrow ==
  ASSUME NEW x \in Nat, x < 65536
  PROVE  U16(x) = x
BY SMT DEF U16

LEMMA Positive ==
  ASSUME NEW x \in Nat, x < 32768
  PROVE  Signed(x) = x
<1> DEFINE y == x + 32768
<1>1. y \in Int /\ 0 <= y /\ y < 65536
  BY SMT
<1> HIDE DEF y
<1>2. y % 65536 = y
  BY <1>1, SMT
<1> QED BY <1>2, SMT DEF Signed, y

-----------------------------------------------------------------------------
(* The calendar. *)

LEMMA LeapYearCounts ==
  ASSUME NEW y \in Int
  PROVE  LeapYears(y) - LeapYears(y - 1) = (IF IsLeapYear(y) THEN 1 ELSE 0)
<1>1. y \div 4 - (y - 1) \div 4 = (IF y % 4 = 0 THEN 1 ELSE 0)
  BY SMT
<1>2. y \div 100 - (y - 1) \div 100 = (IF y % 100 = 0 THEN 1 ELSE 0)
  BY SMT
<1>3. y \div 400 - (y - 1) \div 400 = (IF y % 400 = 0 THEN 1 ELSE 0)
  BY SMT
<1>4. /\ y % 400 = 0 => y % 100 = 0
      /\ y % 100 = 0 => y % 4 = 0
  BY SMT
<1> QED BY <1>1, <1>2, <1>3, <1>4, SMT DEF LeapYears, IsLeapYear

LEMMA LeapYearsType ==
  ASSUME NEW y \in Int
  PROVE  LeapYears(y) \in Int
BY SMT DEF LeapYears

LEMMA MonthTables ==
  ASSUME NEW m \in 0..11
  PROVE  /\ MonthDays[m + 1] \in Nat /\ MonthLength[m + 1] \in 28..31
         /\ m < 11 => MonthDays[m + 2] = MonthDays[m + 1] + MonthLength[m + 1]
BY SMT DEF MonthDays, MonthLength

LEMMA YearEnds == MonthDays[1] = 0 /\ MonthDays[12] = 334 /\ MonthLength[12] = 31
BY SMT DEF MonthDays, MonthLength

NewYear(year) == 365 * (year - 70) + LeapYears(year + 1899) - LeapYears(1969)
LeapDay(mon, year) == IF mon > 1 /\ IsLeapYear(year + 1900) THEN 1 ELSE 0

LEMMA InYear ==
  ASSUME NEW year \in Int, NEW mon \in 0..11, NEW mday \in Int
  PROVE  DayOf(year, mon, mday)
           = NewYear(year) + MonthDays[mon + 1] + LeapDay(mon, year) + mday - 1
<1>1. mon \div 12 = 0 /\ mon % 12 = mon
  BY SMT
<1>2. year + 1900 + 0 = year + 1900 /\ (year + 1900) - 1 = year + 1899
  BY SMT
<1>3. LeapYears(year + 1899) \in Int /\ LeapYears(1969) \in Int /\ MonthDays[mon + 1] \in Nat
  BY LeapYearsType, MonthTables
<1>4. DayOf(year, mon, mday) =
        365 * (year + 1900 - 1970) + LeapYears(year + 1899) - LeapYears(1969)
          + MonthDays[mon + 1] + LeapDay(mon, year) + mday - 1
  BY <1>1, <1>2 DEF DayOf, LeapDay
<1>5. LeapDay(mon, year) \in Int
  BY DEF LeapDay
<1> QED BY <1>3, <1>4, <1>5, SMT DEF NewYear

LEMMA LaterDay ==
  ASSUME NEW year \in Int, NEW mon \in Nat, NEW mday \in Int, NEW n \in Int
  PROVE  DayOf(year, mon, mday + n) = DayOf(year, mon, mday) + n
<1> DEFINE start == 365 * (year + 1900 + mon \div 12 - 1970)
                      + LeapYears(year + 1900 + mon \div 12 - 1) - LeapYears(1969)
                      + MonthDays[(mon % 12) + 1]
                      + (IF mon % 12 > 1 /\ IsLeapYear(year + 1900 + mon \div 12) THEN 1 ELSE 0)
<1>1. DayOf(year, mon, mday) = start + mday - 1 /\ DayOf(year, mon, mday + n) = start + (mday + n) - 1
  BY DEF DayOf
<1>2. mon \div 12 \in Int /\ mon % 12 \in 0..11
  BY Parts
<1>3. start \in Int
  BY <1>2, LeapYearsType, MonthTables, SMT
<1> HIDE DEF start
<1> QED BY <1>1, <1>3, SMT

LEMMA Normalized ==
  ASSUME NEW year \in Int, NEW mon \in Nat, NEW mday \in Int
  PROVE  DayOf(year, mon, mday) = DayOf(year + mon \div 12, mon % 12, mday)
<1> DEFINE q == mon \div 12
           r == mon % 12
<1>1. q \in Int /\ r \in 0..11
  BY Parts
<1>2. r \div 12 = 0 /\ r % 12 = r
  BY <1>1, SMT
<1> HIDE DEF q, r
<1>3. year + q + 1900 + 0 = year + 1900 + q
  BY <1>1, SMT
<1> QED BY <1>2, <1>3 DEF DayOf, q, r

LEMMA NextMonth ==
  ASSUME NEW year \in Int, NEW mon \in 0..10, NEW mday \in Int
  PROVE  DayOf(year, mon + 1, mday - DaysIn(mon, year)) = DayOf(year, mon, mday)
<1>1. mon \in 0..11 /\ mon + 1 \in 0..11 /\ mon + 1 + 1 = mon + 2
  BY SMT
<1>2. /\ MonthDays[mon + 1] \in Nat /\ MonthLength[mon + 1] \in 28..31
      /\ MonthDays[mon + 2] = MonthDays[mon + 1] + MonthLength[mon + 1]
  BY <1>1, MonthTables, SMT
<1>3. /\ DaysIn(mon, year) \in Int
      /\ DaysIn(mon, year) = MonthLength[mon + 1] + (LeapDay(mon + 1, year) - LeapDay(mon, year))
      /\ LeapDay(mon + 1, year) \in Int /\ LeapDay(mon, year) \in Int
  <2>1. MonthLength[2] = 28
    BY SMT DEF MonthLength
  <2> QED BY <1>2, <2>1, SMT DEF DaysIn, LeapDay, FEBRUARY
<1>4. DayOf(year, mon, mday)
        = NewYear(year) + MonthDays[mon + 1] + LeapDay(mon, year) + mday - 1
  BY <1>1, InYear
<1>5. \A d \in Int : DayOf(year, mon + 1, d)
        = NewYear(year) + MonthDays[mon + 2] + LeapDay(mon + 1, year) + d - 1
  BY <1>1, InYear
<1>6. mday - DaysIn(mon, year) \in Int /\ NewYear(year) \in Int
  BY <1>3, LeapYearsType, SMT DEF NewYear
<1> QED BY <1>2, <1>3, <1>4, <1>5, <1>6, SMT

LEMMA NextYear ==
  ASSUME NEW year \in Int, NEW mday \in Int
  PROVE  DayOf(year + 1, 0, mday - 31) = DayOf(year, 11, mday)
<1>1. /\ DayOf(year + 1, 0, mday - 31)
           = NewYear(year + 1) + MonthDays[1] + LeapDay(0, year + 1) + (mday - 31) - 1
      /\ DayOf(year, 11, mday) = NewYear(year) + MonthDays[12] + LeapDay(11, year) + mday - 1
  BY InYear
<1>2. LeapDay(0, year + 1) = 0 /\ LeapDay(11, year) = IF IsLeapYear(year + 1900) THEN 1 ELSE 0
  BY DEF LeapDay
<1>3. LeapYears(year + 1900) - LeapYears(year + 1899) = LeapDay(11, year)
  <2>1. year + 1900 \in Int /\ (year + 1900) - 1 = year + 1899
    BY SMT
  <2> QED BY <1>2, <2>1, LeapYearCounts
<1>4. NewYear(year + 1) = NewYear(year) + 365 + LeapDay(11, year)
  <2>1. (year + 1) + 1899 = year + 1900
    BY SMT
  <2>2. LeapYears(year + 1900) \in Int /\ LeapYears(year + 1899) \in Int /\ LeapYears(1969) \in Int
    BY LeapYearsType, SMT
  <2> QED BY <1>3, <2>1, <2>2, SMT DEF NewYear
<1>5. NewYear(year) \in Int /\ LeapDay(11, year) \in Int
  BY LeapYearsType, SMT DEF NewYear, LeapDay
<1> QED BY <1>1, <1>2, <1>4, <1>5, YearEnds, SMT

\* A day before 2100 lies in a year before it.
LEMMA ThisCentury ==
  ASSUME NEW year \in Int, NEW mon \in 0..11, NEW mday \in Int, mday >= 1,
         DayOf(year, mon, mday) < DayOf(200, 0, 1)
  PROVE  year < 200
<1> SUFFICES ASSUME year >= 200
             PROVE  FALSE
  BY SMT
<1>1. DayOf(200, 0, 1) = NewYear(200) + MonthDays[1] + LeapDay(0, 200)
  <2>1. DayOf(200, 0, 1) = NewYear(200) + MonthDays[0 + 1] + LeapDay(0, 200) + 1 - 1
    BY InYear
  <2>2. LeapDay(0, 200) = 0 /\ NewYear(200) \in Int
    BY LeapYearsType, SMT DEF LeapDay, NewYear
  <2> QED BY <2>1, <2>2, YearEnds, SMT
<1>2. DayOf(year, mon, mday) = NewYear(year) + MonthDays[mon + 1] + LeapDay(mon, year) + mday - 1
  BY InYear
<1>3. LeapYears(year + 1899) >= LeapYears(2099)
  BY SMT DEF LeapYears
<1>4. NewYear(year) >= NewYear(200) /\ NewYear(year) \in Int /\ NewYear(200) \in Int
  <2>1. LeapYears(year + 1899) \in Int /\ LeapYears(2099) \in Int /\ LeapYears(1969) \in Int
    BY LeapYearsType, SMT
  <2>2. 200 + 1899 = 2099
    OBVIOUS
  <2> QED BY <1>3, <2>1, <2>2, SMT DEF NewYear
<1>5. LeapDay(mon, year) \in 0..1 /\ LeapDay(0, 200) = 0
  BY SMT DEF LeapDay
<1> QED BY <1>1, <1>2, <1>4, <1>5, YearEnds, MonthTables, SMT

\* A bound on the days of the years up to 2099: they fit into 16 bits.
ManyDays == 60000

\* The year day and the day count, as mktime computes them.
LEMMA CountsDays ==
  ASSUME NEW year \in Int, 70 <= year, year < 200, NEW mon \in 0..11, NEW mday \in 1..31
  PROVE  /\ YearDay(mon, mday, year) = DayOf(year, mon, mday) - DayOf(year, 0, 1)
         /\ DayCount(year, YearDay(mon, mday, year)) = DayOf(year, mon, mday)
         /\ DayOf(year, mon, mday) \in Nat /\ DayOf(year, mon, mday) < ManyDays
<1>0. year \in Int /\ 70 <= year /\ year < 200 /\ mday \in Int
  BY SMT
<1>1. /\ DayOf(year, mon, mday)
           = NewYear(year) + MonthDays[mon + 1] + LeapDay(mon, year) + mday - 1
      /\ DayOf(year, 0, 1) = NewYear(year) + MonthDays[1] + LeapDay(0, year) + 1 - 1
  BY <1>0, InYear
<1>2. /\ NewYear(year) \in Int /\ MonthDays[mon + 1] \in Nat /\ MonthDays[mon + 1] <= 334
      /\ LeapDay(mon, year) \in 0..1 /\ LeapDay(0, year) = 0
  <2>1. MonthDays[mon + 1] \in Nat /\ MonthDays[mon + 1] <= 334
    BY SMT DEF MonthDays
  <2> QED BY <1>0, <2>1, LeapYearsType, SMT DEF LeapDay, NewYear
<1>3. /\ YearDay(mon, mday, year) = MonthDays[mon + 1] + LeapDay(mon, year) + mday - 1
      /\ YearDay(mon, mday, year) \in Nat /\ YearDay(mon, mday, year) <= 365
  <2>1. YearDay(mon, mday, year) = MonthDays[mon + 1] + mday - 1 + LeapDay(mon, year)
    BY DEF YearDay, LeapDay, FEBRUARY
  <2> QED BY <1>2, <2>1, SMT
<1>4. NewYear(year) = 365 * (year - 70) + (year - 69) \div 4
  <2> DEFINE y == year + 1899
  <2>1. y \in Int /\ 1969 <= y /\ y < 2099 /\ year - 69 = y - 1968 /\ year - 70 = y - 1969
    BY <1>0, SMT
  <2> HIDE DEF y
  <2>2. y \div 400 - y \div 100 = -15
    BY <2>1, SMT
  <2>3. (y - 1968) \div 4 = y \div 4 - 492 /\ y \div 4 \in Int
    BY <2>1, SMT
  <2>4. LeapYears(1969) = 477
    BY SMT DEF LeapYears
  <2>5. y \div 100 \in Int /\ y \div 400 \in Int
    BY <2>1, SMT
  <2>6. LeapYears(y) - LeapYears(1969) = (y - 1968) \div 4
    <3>1. LeapYears(y) = y \div 4 - y \div 100 + y \div 400
      BY DEF LeapYears
    <3> HIDE DEF LeapYears
    <3> QED BY <2>2, <2>3, <2>4, <2>5, <3>1, SMT
  <2>7. (year - 69) \div 4 = (y - 1968) \div 4
    BY <2>1
  <2> QED BY <1>0, <2>1, <2>6, <2>7, LeapYearsType, SMT DEF NewYear, y
<1>5. /\ year - 70 \in Nat /\ year - 70 < 65536 /\ year - 69 \in Nat /\ year - 69 < 65536
      /\ (year - 69) \div 4 \in 0..33
  BY SMT
<1>6. U16(year - 70) = year - 70 /\ U16(year - (68 + 1)) = year - 69
  <2>1. year - (68 + 1) = year - 69
    BY SMT
  <2> QED BY <1>5, <2>1, Narrow
<1>7. DayCount(year, YearDay(mon, mday, year)) = NewYear(year) + YearDay(mon, mday, year)
  <2> DEFINE n == (year - 70) * 365 + (year - 69) \div 4 + YearDay(mon, mday, year)
  <2>1. n \in Nat /\ n < 65536
    BY <1>3, <1>5, SMT
  <2>2. n = NewYear(year) + YearDay(mon, mday, year)
    BY <1>3, <1>4, <1>5, SMT
  <2>3. DayCount(year, YearDay(mon, mday, year)) = U16(n)
    BY <1>6 DEF DayCount
  <2> HIDE DEF n
  <2> QED BY <2>1, <2>2, <2>3, Narrow
<1>8. NewYear(year) >= 0 /\ NewYear(year) < 59000
  BY <1>4, <1>5, SMT
<1> QED BY <1>1, <1>2, <1>3, <1>7, <1>8, YearEnds, SMT DEF ManyDays

\* The carries of Units are those of the total of seconds.
LEMMA Carries ==
  ASSUME NEW sec \in Nat, NEW min \in Nat, NEW hour \in Nat,
         NEW m \in Int, m = min + sec \div 60, NEW h \in Int, h = hour + m \div 60
  PROVE  /\ (hour * 3600 + min * 60 + sec) \div 86400 = h \div 24
         /\ (hour * 3600 + min * 60 + sec) % 86400
              = (h % 24) * 3600 + (m % 60) * 60 + (sec % 60)
         /\ m \in Nat /\ h \in Nat
<1> DEFINE qs == sec \div 60
           rs == sec % 60
           qm == m \div 60
           rm == m % 60
           qh == h \div 24
           rh == h % 24
           x == hour * 3600 + min * 60 + sec
           r == rh * 3600 + rm * 60 + rs
<1>1. qs \in Nat /\ rs \in 0..59 /\ sec = 60 * qs + rs /\ m \in Nat
  BY Parts, SMT
<1>2. qm \in Nat /\ rm \in 0..59 /\ m = 60 * qm + rm /\ h \in Nat
  BY <1>1, Parts, SMT
<1>3. qh \in Int /\ rh \in 0..23 /\ h = 24 * qh + rh
  BY <1>2, Parts
<1>4. m = min + qs /\ h = hour + qm
  OBVIOUS
<1> HIDE DEF qs, rs, qm, rm, qh, rh
<1>5. x = 86400 * qh + r /\ r \in Int /\ 0 <= r /\ r < 86400 /\ x \in Int
  BY <1>1, <1>2, <1>3, <1>4, SMT
<1> HIDE DEF x, r
<1>6. x \div 86400 = qh /\ x % 86400 = r
  BY <1>3, <1>5, WholeDays
<1> QED BY <1>1, <1>2, <1>6 DEF qs, rs, qm, rm, qh, rh, x, r

-----------------------------------------------------------------------------
(* The inductive invariant: while mktime works, the fields denote the time *)
(* it was asked for.                                                       *)

\* Hours, minutes and seconds are in range, and the day is the one asked for,
\* whatever month it is counted in.
Carried ==
  /\ tm \in Broken
  /\ tm.sec \in 0..59 /\ tm.min \in 0..59 /\ tm.hour \in 0..23
  /\ tm.mday >= 1 /\ tm.mday < 32768 /\ tm.mon >= 0 /\ tm.year >= 70
  /\ DayOf(tm.year, tm.mon, tm.mday) = Counted(asked).days
  /\ tm.hour * 3600 + tm.min * 60 + tm.sec = Counted(asked).secs

Settled == tm.mon <= 11 /\ tm.mday <= DaysIn(tm.mon, tm.year)

TimeRight == time = Counted(asked) /\ InRange(tm) /\ Counted(tm) = time

CalendarInv ==
  /\ asked \in Broken
  /\ phase \in {"idle", "units", "months", "count", "done"}
  /\ Regular(asked) =>
       /\ phase = "units" => tm = asked
       /\ phase = "months" => Carried
       /\ phase = "count" => Carried /\ Settled
       /\ phase = "done" => TimeRight

LEMMA Starts == CalendarInit => CalendarInv
<1> SUFFICES ASSUME CalendarInit PROVE CalendarInv
  OBVIOUS
<1>1. asked \in Broken
  BY DEF CalendarInit, Fields, Broken
<1> QED BY <1>1 DEF CalendarInit, CalendarInv

LEMMA Asks ==
  ASSUME CalendarInv, NEW fields \in Broken, Begin(fields)
  PROVE  CalendarInv'
BY DEF CalendarInv, Begin

LEMMA KeepsUnits ==
  ASSUME CalendarInv, Units
  PROVE  CalendarInv'
<1>1. asked \in Broken /\ asked' = asked /\ phase' \in {"months", "done"}
  BY DEF CalendarInv, Units
<1>2. ASSUME Regular(asked)
      PROVE  phase' = "months" /\ Carried'
  <2> DEFINE sec == asked.sec
             m == asked.min + sec \div 60
             h == asked.hour + m \div 60
             d == asked.mday + h \div 24
  <2>1. tm = asked
    BY <1>2 DEF CalendarInv, Units
  <2>2. /\ sec \in Nat /\ asked.min \in Nat /\ asked.hour \in Nat /\ asked.mday \in Int
        /\ asked.mday >= 1 /\ asked.mon \in Int /\ asked.mon >= 0
        /\ asked.year \in Int /\ asked.year >= 70
    BY <1>1, <1>2 DEF Regular, Broken
  <2>3. m < 32768 /\ h < 32768 /\ d < 32768
    BY <1>2 DEF Regular
  <2>4. /\ sec \div 60 \in Nat /\ sec % 60 \in 0..59
        /\ m \in Nat /\ m \div 60 \in Nat /\ m % 60 \in 0..59
        /\ h \in Nat /\ h \div 24 \in Nat /\ h % 24 \in 0..23
        /\ d \in Nat /\ d >= 1
    <3>1. sec \div 60 \in Nat /\ sec % 60 \in 0..59 /\ m \in Nat
      BY <2>2, Parts, SMT
    <3> HIDE DEF m
    <3>2. m \div 60 \in Nat /\ m % 60 \in 0..59 /\ h \in Nat
      BY <2>2, <3>1, Parts, SMT
    <3> HIDE DEF h
    <3>3. h \div 24 \in Nat /\ h % 24 \in 0..23 /\ d \in Nat /\ d >= 1
      BY <2>2, <3>2, Parts, SMT
    <3> QED BY <3>1, <3>2, <3>3
  <2>5. /\ (asked.hour * 3600 + asked.min * 60 + sec) \div 86400 = h \div 24
        /\ (asked.hour * 3600 + asked.min * 60 + sec) % 86400
             = (h % 24) * 3600 + (m % 60) * 60 + (sec % 60)
    <3> DEFINE min == asked.min
               hour == asked.hour
    <3>1. /\ m \in Int /\ h \in Int /\ m = min + sec \div 60 /\ h = hour + m \div 60
          /\ sec \in Nat /\ min \in Nat /\ hour \in Nat
      BY <2>2, <2>4
    <3> HIDE DEF m, h, sec, min, hour
    <3>2. /\ (hour * 3600 + min * 60 + sec) \div 86400 = h \div 24
          /\ (hour * 3600 + min * 60 + sec) % 86400
               = (h % 24) * 3600 + (m % 60) * 60 + (sec % 60)
      BY <3>1, Carries
    <3> QED BY <3>2 DEF min, hour
  <2>6. /\ Signed(asked.min + Quot(sec, 60)) = m /\ Rem(sec, 60) = sec % 60
        /\ Signed(asked.hour + Quot(m, 60)) = h /\ Rem(m, 60) = m % 60
        /\ Signed(asked.mday + Quot(h, 24)) = d /\ Rem(h, 24) = h % 24
    <3>1. Quot(sec, 60) = sec \div 60 /\ Rem(sec, 60) = sec % 60
      BY <2>2, Truncated
    <3>2. Signed(m) = m /\ Signed(h) = h /\ Signed(d) = d
      BY <2>3, <2>4, Positive
    <3> HIDE DEF d
    <3>3. Quot(m, 60) = m \div 60 /\ Rem(m, 60) = m % 60
      BY <2>4, Truncated
    <3>4. Quot(h, 24) = h \div 24 /\ Rem(h, 24) = h % 24
      BY <2>4, Truncated
    <3> QED BY <3>1, <3>2, <3>3, <3>4 DEF d
  <2>7. DayOf(asked.year, asked.mon, d) = DayOf(asked.year, asked.mon, asked.mday) + h \div 24
    <3> DEFINE n == h \div 24
    <3>1. n \in Int /\ d = asked.mday + n
      BY <2>4
    <3> HIDE DEF n, d
    <3>2. \A year \in Int, mon \in Nat, mday \in Int :
            DayOf(year, mon, mday + n) = DayOf(year, mon, mday) + n
      BY <3>1, LaterDay
    <3>3. asked.mon \in Nat
      BY <2>2, SMT
    <3>4. DayOf(asked.year, asked.mon, asked.mday + n)
            = DayOf(asked.year, asked.mon, asked.mday) + n
      BY <2>2, <3>2, <3>3
    <3> QED BY <3>1, <3>4 DEF n
  <2> DEFINE rs == sec % 60
             rm == m % 60
             rh == h % 24
             min == Signed(tm.min + Quot(tm.sec, 60))
             hour == Signed(tm.hour + Quot(min, 60))
             mday == Signed(tm.mday + Quot(hour, 24))
  <2>8. /\ tm' = [tm EXCEPT !.sec = Rem(tm.sec, 60),
                            !.min = IF min < 0 THEN @ ELSE Rem(min, 60),
                            !.hour = IF min >= 0 /\ hour >= 0 THEN Rem(hour, 24) ELSE @,
                            !.mday = IF (min >= 0 /\ hour >= 0) /\ mday >= 0 THEN mday ELSE @]
        /\ phase' = IF (min >= 0 /\ hour >= 0) /\ mday >= 0 THEN "months" ELSE "done"
    BY DEF Units
  <2>9. /\ min = m /\ hour = h /\ mday = d
        /\ Rem(tm.sec, 60) = rs /\ Rem(min, 60) = rm /\ Rem(hour, 24) = rh
    <3>1. min = m
      BY <2>1, <2>6
    <3>2. hour = h
      BY <2>1, <2>6, <3>1
    <3>3. mday = d
      BY <2>1, <2>6, <3>2
    <3> QED BY <2>1, <2>6, <3>1, <3>2, <3>3
  <2>10. rs \in 0..59 /\ rm \in 0..59 /\ rh \in 0..23 /\ m \in Nat /\ h \in Nat /\ d \in Nat
    BY <2>4
  <2> HIDE DEF m, h, d, min, hour, mday, rs, rm, rh
  <2>11. /\ phase' = "months"
         /\ tm' = [asked EXCEPT !.sec = rs, !.min = rm, !.hour = rh, !.mday = d]
    <3>1. (m >= 0 /\ h >= 0) /\ d >= 0 /\ ~(m < 0)
      BY <2>10, SMT
    <3> QED BY <2>1, <2>8, <2>9, <3>1
  <2>12. /\ tm' \in Broken
         /\ tm'.sec = rs /\ tm'.min = rm /\ tm'.hour = rh /\ tm'.mday = d
         /\ tm'.mon = asked.mon /\ tm'.year = asked.year
    <3> DEFINE b == [asked EXCEPT !.sec = rs]
               c == [b EXCEPT !.min = rm]
               e == [c EXCEPT !.hour = rh]
               f == [e EXCEPT !.mday = d]
    <3>1. tm' = f
      BY <2>11
    <3>2. b \in Broken /\ b.sec = rs /\ b.mon = asked.mon /\ b.year = asked.year
      BY <1>1, <2>10, SMT DEF Broken
    <3> HIDE DEF b
    <3>3. c \in Broken /\ c.sec = b.sec /\ c.min = rm /\ c.mon = b.mon /\ c.year = b.year
      BY <2>10, <3>2, SMT DEF Broken
    <3> HIDE DEF c
    <3>4. /\ e \in Broken /\ e.sec = c.sec /\ e.min = c.min /\ e.hour = rh
          /\ e.mon = c.mon /\ e.year = c.year
      BY <2>10, <3>3, SMT DEF Broken
    <3> HIDE DEF e
    <3>5. /\ f \in Broken /\ f.sec = e.sec /\ f.min = e.min /\ f.hour = e.hour /\ f.mday = d
          /\ f.mon = e.mon /\ f.year = e.year
      BY <2>10, <3>4, SMT DEF Broken
    <3> HIDE DEF f
    <3> QED BY <3>1, <3>2, <3>3, <3>4, <3>5
  <2>13. Counted(asked) = [days |-> DayOf(asked.year, asked.mon, d),
                           secs |-> rh * 3600 + rm * 60 + rs]
    BY <2>5, <2>7 DEF Counted, rs, rm, rh
  <2>14. d >= 1 /\ d < 32768
    BY <2>3, <2>4
  <2> QED BY <1>1, <2>2, <2>10, <2>11, <2>12, <2>13, <2>14 DEF Carried
<1> QED BY <1>1, <1>2 DEF CalendarInv

LEMMA MonthLengths ==
  ASSUME NEW mon \in 0..11, NEW year
  PROVE  DaysIn(mon, year) \in 28..31 /\ (mon = 11 => DaysIn(mon, year) = 31)
BY MonthTables, YearEnds, SMT DEF DaysIn, FEBRUARY

\* What the month loop computes from a time before 2100.
LEMMA Reduced ==
  ASSUME CalendarInv, Regular(asked), Carried,
         NEW mon, mon = Rem(tm.mon, 12), NEW year, year = Signed(tm.year + Quot(tm.mon, 12))
  PROVE  /\ mon \in 0..11 /\ year \in Int /\ year >= 70 /\ year < 200
         /\ DayOf(year, mon, tm.mday) = Counted(asked).days
         /\ Signed(year + 1) = year + 1
<1> DEFINE q == tm.mon \div 12
           r == tm.mon % 12
           y == tm.year + q
<1>1. tm.mon \in Nat /\ tm.year \in Int /\ tm.year >= 70 /\ tm.mday \in Int /\ tm.mday >= 1
  BY SMT DEF Carried, Broken
<1>2. q \in Nat /\ r \in 0..11 /\ y \in Int /\ y >= 70
  BY <1>1, Parts, SMT
<1>3. Quot(tm.mon, 12) = q /\ mon = r
  BY <1>1, Truncated
<1>4. DayOf(tm.year, tm.mon, tm.mday) = DayOf(y, r, tm.mday)
  BY <1>1, Normalized
<1>5. DayOf(y, r, tm.mday) = Counted(asked).days
  BY <1>4 DEF Carried
<1>6. Counted(asked).days < DayOf(200, 0, 1)
  BY DEF Regular
<1> HIDE DEF q, r, y
<1>7. y < 200
  BY <1>1, <1>2, <1>5, <1>6, ThisCentury
<1>8. Signed(y) = y /\ Signed(y + 1) = y + 1
  <2>1. y \in Nat /\ y < 32768 /\ y + 1 \in Nat /\ y + 1 < 32768
    BY <1>2, <1>7, SMT
  <2> QED BY <2>1, Positive
<1>9. year = y
  BY <1>3, <1>8 DEF y
<1> QED BY <1>2, <1>3, <1>5, <1>7, <1>8, <1>9

LEMMA KeepsMonths ==
  ASSUME CalendarInv, Months
  PROVE  CalendarInv'
<1>1. asked \in Broken /\ asked' = asked /\ phase' \in {"months", "count", "done"}
  BY DEF CalendarInv, Months
<1>2. ASSUME Regular(asked)
      PROVE  (phase' = "months" /\ Carried') \/ (phase' = "count" /\ Carried' /\ Settled')
  <2> DEFINE mon == Rem(tm.mon, 12)
             year == Signed(tm.year + Quot(tm.mon, 12))
             max == DaysIn(mon, year)
             next == IF mon = DECEMBER THEN 0 ELSE mon + 1
             then == IF mon = DECEMBER THEN Signed(year + 1) ELSE year
  <2>1. Carried
    BY <1>2 DEF CalendarInv, Months
  <2>2. /\ mon \in 0..11 /\ year \in Int /\ year >= 70 /\ year < 200
        /\ DayOf(year, mon, tm.mday) = Counted(asked).days
        /\ Signed(year + 1) = year + 1
    BY <1>2, <2>1, Reduced
  <2>3. \/ year < 0
        \/ /\ tm.mday > max /\ phase' = "months"
           /\ tm' = [tm EXCEPT !.mday = @ - max, !.mon = next, !.year = then]
        \/ /\ tm.mday <= max /\ phase' = "count"
           /\ tm' = [tm EXCEPT !.mon = mon, !.year = year]
    BY DEF Months
  <2>4. max \in 28..31 /\ (mon = 11 => max = 31)
    BY <2>2, MonthLengths
  <2>5. tm \in Broken /\ tm.mday \in Int /\ tm.mday >= 1 /\ tm.mday < 32768
    BY <2>1 DEF Carried, Broken
  <2>6. /\ next \in 0..11 /\ then \in Int /\ then >= 70
        /\ DayOf(then, next, tm.mday - max) = Counted(asked).days
    <3>1. CASE mon = 11
      <4>1. next = 0 /\ then = year + 1
        BY <2>2, <3>1 DEF DECEMBER
      <4>2. DayOf(year + 1, 0, tm.mday - 31) = DayOf(year, 11, tm.mday)
        BY <2>2, <2>5, NextYear
      <4>3. 0 \in 0..11 /\ year + 1 \in Int /\ year + 1 >= 70
        BY <2>2, SMT
      <4> QED BY <2>2, <2>4, <3>1, <4>1, <4>2, <4>3
    <3>2. CASE mon # 11
      <4>1. next = mon + 1 /\ then = year
        BY <3>2 DEF DECEMBER
      <4> HIDE DEF mon, year, next, then
      <4>2. mon \in 0..10 /\ mon + 1 \in 0..11
        BY <2>2, <3>2, SMT
      <4>3. DayOf(year, mon + 1, tm.mday - DaysIn(mon, year)) = DayOf(year, mon, tm.mday)
        BY <2>2, <2>5, <4>2, NextMonth
      <4> QED BY <2>2, <4>1, <4>2, <4>3
    <3> QED BY <3>1, <3>2
  <2> HIDE DEF mon, year, max, next, then
  <2>7. CASE tm.mday > max /\ phase' = "months"
               /\ tm' = [tm EXCEPT !.mday = @ - max, !.mon = next, !.year = then]
    <3> DEFINE b == [tm EXCEPT !.mday = tm.mday - max]
               c == [b EXCEPT !.mon = next]
               e == [c EXCEPT !.year = then]
    <3>1. tm' = e
      BY <2>7
    <3>2. /\ b \in Broken /\ b.mday = tm.mday - max
          /\ b.sec = tm.sec /\ b.min = tm.min /\ b.hour = tm.hour
      BY <2>4, <2>5, SMT DEF Broken
    <3> HIDE DEF b
    <3>3. /\ c \in Broken /\ c.mon = next /\ c.mday = b.mday
          /\ c.sec = b.sec /\ c.min = b.min /\ c.hour = b.hour
      BY <2>6, <3>2, SMT DEF Broken
    <3> HIDE DEF c
    <3>4. /\ e \in Broken /\ e.year = then /\ e.mon = c.mon /\ e.mday = c.mday
          /\ e.sec = c.sec /\ e.min = c.min /\ e.hour = c.hour
      BY <2>6, <3>3, SMT DEF Broken
    <3> HIDE DEF e
    <3>5. tm.mday - max >= 1 /\ tm.mday - max < 32768 /\ next >= 0
      BY <2>4, <2>5, <2>6, <2>7, SMT
    <3>6. Carried'
      BY <1>1, <2>1, <2>6, <3>1, <3>2, <3>3, <3>4, <3>5 DEF Carried
    <3> QED BY <2>7, <3>6
  <2>8. CASE tm.mday <= max /\ phase' = "count" /\ tm' = [tm EXCEPT !.mon = mon, !.year = year]
    <3> DEFINE b == [tm EXCEPT !.mon = mon]
               c == [b EXCEPT !.year = year]
    <3>1. tm' = c
      BY <2>8
    <3>2. /\ b \in Broken /\ b.mon = mon /\ b.mday = tm.mday
          /\ b.sec = tm.sec /\ b.min = tm.min /\ b.hour = tm.hour
      BY <2>2, <2>5, SMT DEF Broken
    <3> HIDE DEF b
    <3>3. /\ c \in Broken /\ c.mon = b.mon /\ c.mday = b.mday /\ c.year = year
          /\ c.sec = b.sec /\ c.min = b.min /\ c.hour = b.hour
      BY <2>2, <3>2, SMT DEF Broken
    <3> HIDE DEF c
    <3>4. mon >= 0 /\ mon <= 11
      BY <2>2, SMT
    <3>5. Carried'
      BY <1>1, <2>1, <2>2, <2>5, <3>1, <3>2, <3>3, <3>4 DEF Carried
    <3>6. Settled'
      BY <2>8, <3>1, <3>2, <3>3, <3>4 DEF Settled, max
    <3> QED BY <2>8, <3>5, <3>6
  <2>9. ~(year < 0)
    BY <2>2, SMT
  <2> QED BY <2>3, <2>7, <2>8, <2>9
<1> QED BY <1>1, <1>2 DEF CalendarInv

LEMMA KeepsCount ==
  ASSUME CalendarInv, Count
  PROVE  CalendarInv'
<1>1. asked \in Broken /\ asked' = asked /\ phase' = "done"
  BY DEF CalendarInv, Count
<1>2. ASSUME Regular(asked)
      PROVE  TimeRight'
  <2> DEFINE yday == YearDay(tm.mon, tm.mday, tm.year)
             days == DayCount(tm.year, yday)
             wday == U16(JAN_1_1970 + days) % 7
             secs == tm.hour * 3600 + tm.min * 60 + tm.sec
  <2>1. Carried /\ Settled
    BY <1>2 DEF CalendarInv, Count
  <2>2. /\ tm \in Broken /\ tm.sec \in 0..59 /\ tm.min \in 0..59 /\ tm.hour \in 0..23
        /\ tm.mon \in 0..11 /\ tm.mday \in 1..31 /\ tm.mday <= DaysIn(tm.mon, tm.year)
        /\ tm.year \in Int /\ tm.year >= 70
    <3>1. tm.mon \in 0..11 /\ tm.year \in Int /\ tm.year >= 70 /\ tm.mday \in Int /\ tm.mday >= 1
      <4>1. /\ tm.mon \in Int /\ tm.mon >= 0 /\ tm.year \in Int /\ tm.year >= 70
            /\ tm.mday \in Int /\ tm.mday >= 1
        BY <2>1 DEF Carried, Broken
      <4>2. tm.mon <= 11
        BY <2>1 DEF Settled
      <4> QED BY <4>1, <4>2, SMT
    <3>2. DaysIn(tm.mon, tm.year) \in 28..31 /\ tm.mday <= DaysIn(tm.mon, tm.year)
      BY <2>1, <3>1, MonthLengths DEF Settled
    <3> QED BY <2>1, <3>1, <3>2, SMT DEF Carried
  <2>3. DayOf(tm.year, tm.mon, tm.mday) = Counted(asked).days /\ secs = Counted(asked).secs
    BY <2>1 DEF Carried
  <2>4. tm.year < 200
    <3>1. Counted(asked).days < DayOf(200, 0, 1)
      BY <1>2 DEF Regular
    <3>2. tm.mday \in Int /\ tm.mday >= 1
      BY <2>2, SMT
    <3> QED BY <2>2, <2>3, <3>1, <3>2, ThisCentury
  <2>5. /\ yday = DayOf(tm.year, tm.mon, tm.mday) - DayOf(tm.year, 0, 1)
        /\ days = DayOf(tm.year, tm.mon, tm.mday)
        /\ days \in Nat /\ days < ManyDays
    <3> DEFINE y == tm.year
               n == tm.mon
               d == tm.mday
    <3>1. y \in Int /\ 70 <= y /\ y < 200 /\ n \in 0..11 /\ d \in 1..31
      BY <2>2, <2>4, SMT
    <3> HIDE DEF y, n, d
    <3>2. /\ YearDay(n, d, y) = DayOf(y, n, d) - DayOf(y, 0, 1)
          /\ DayCount(y, YearDay(n, d, y)) = DayOf(y, n, d)
          /\ DayOf(y, n, d) \in Nat /\ DayOf(y, n, d) < ManyDays
      BY <3>1, CountsDays
    <3> QED BY <3>2 DEF y, n, d
  <2>6. yday \in Int
    <3>1. /\ MonthDays[tm.mon + 1] \in Nat /\ tm.mday \in Int
          /\ (IF tm.mon > FEBRUARY /\ IsLeapYear(tm.year + 1900) THEN 1 ELSE 0) \in Int
      BY <2>2, MonthTables, SMT
    <3> QED BY <3>1, SMT DEF YearDay
  <2>7. /\ secs \in Nat /\ secs < 86400
        /\ U16(tm.hour) * 3600 + U16(U16(tm.min) * 60) + U16(tm.sec) = secs
    <3>1. /\ tm.hour \in Nat /\ tm.hour < 65536 /\ tm.sec \in Nat /\ tm.sec < 65536
          /\ tm.min \in Nat /\ tm.min < 65536
      BY <2>2, SMT
    <3>2. U16(tm.hour) = tm.hour /\ U16(tm.min) = tm.min /\ U16(tm.sec) = tm.sec
      BY <3>1, Narrow
    <3>3. U16(tm.min * 60) = tm.min * 60
      <4> DEFINE n == tm.min * 60
      <4>1. n \in Nat /\ n < 65536
        BY <2>2, SMT
      <4> HIDE DEF n
      <4>2. U16(n) = n
        BY <4>1, Narrow
      <4> QED BY <4>2 DEF n
    <3>4. U16(tm.hour) * 3600 + U16(U16(tm.min) * 60) + U16(tm.sec) = secs
      BY <3>2, <3>3
    <3>5. secs \in Nat /\ secs < 86400
      <4> DEFINE h == tm.hour
                 m == tm.min
                 s == tm.sec
      <4>1. h \in 0..23 /\ m \in 0..59 /\ s \in 0..59
        BY <2>2
      <4> HIDE DEF h, m, s
      <4>2. h * 3600 + m * 60 + s \in Nat /\ h * 3600 + m * 60 + s < 86400
        BY <4>1, SMT
      <4> QED BY <4>2 DEF h, m, s
    <3> QED BY <3>4, <3>5
  <2>8. wday = (JAN_1_1970 + DayOf(tm.year, tm.mon, tm.mday)) % 7 /\ wday \in Int
    <3> DEFINE n == JAN_1_1970 + days
    <3> HIDE DEF days
    <3>1. n \in Nat /\ n < 65536
      BY <2>5, SMT DEF JAN_1_1970, ManyDays
    <3> HIDE DEF n
    <3>2. U16(n) = n /\ n % 7 \in Int
      BY <3>1, Narrow, SMT
    <3> QED BY <2>5, <3>2 DEF n
  <2>9. tm' = [tm EXCEPT !.yday = yday, !.wday = wday]
    BY DEF Count
  <2>10. time' = [days |-> days, secs |-> secs]
    BY <2>7 DEF Count
  <2> HIDE DEF yday, days, wday
  <2>11. /\ tm'.sec = tm.sec /\ tm'.min = tm.min /\ tm'.hour = tm.hour /\ tm'.mday = tm.mday
         /\ tm'.mon = tm.mon /\ tm'.year = tm.year /\ tm'.yday = yday /\ tm'.wday = wday
    <3> DEFINE b == [tm EXCEPT !.yday = yday]
               c == [b EXCEPT !.wday = wday]
    <3>1. tm' = c
      BY <2>9
    <3>2. /\ b.sec = tm.sec /\ b.min = tm.min /\ b.hour = tm.hour /\ b.mday = tm.mday
          /\ b.mon = tm.mon /\ b.year = tm.year /\ b.yday = yday /\ b \in Broken
      BY <2>2, <2>6, SMT DEF Broken
    <3> HIDE DEF b
    <3>3. /\ c.sec = b.sec /\ c.min = b.min /\ c.hour = b.hour /\ c.mday = b.mday
          /\ c.mon = b.mon /\ c.year = b.year /\ c.yday = b.yday /\ c.wday = wday
      BY <2>8, <3>2, SMT DEF Broken
    <3> HIDE DEF c
    <3> QED BY <3>1, <3>2, <3>3
  <2>12. secs \div 86400 = 0 /\ secs % 86400 = secs
    <3> HIDE DEF secs
    <3>1. secs = 86400 * 0 + secs /\ 0 <= secs /\ secs \in Int /\ 0 \in Int
      BY <2>7, SMT
    <3> QED BY <2>7, <3>1, WholeDays
  <2>13. Counted(tm)' = time' /\ time' = Counted(asked)'
    <3>1. Counted(tm)' = [days |-> DayOf(tm.year, tm.mon, tm.mday) + 0, secs |-> secs]
      BY <2>11, <2>12 DEF Counted
    <3>2. days + 0 = days
      BY <2>5, SMT
    <3>3. Counted(asked) = [days |-> Counted(asked).days, secs |-> Counted(asked).secs]
      BY DEF Counted
    <3> QED BY <1>1, <2>3, <2>5, <2>10, <3>1, <3>2, <3>3
  <2>14. InRange(tm)'
    BY <2>2, <2>5, <2>8, <2>11 DEF InRange
  <2> QED BY <2>13, <2>14 DEF TimeRight
<1> QED BY <1>1, <1>2 DEF CalendarInv

LEMMA KeepsText ==
  ASSUME CalendarInv, UNCHANGED <<tm, asked, phase, time>>
  PROVE  CalendarInv'
BY DEF CalendarInv, Carried, Settled, TimeRight

\* localtime and gmtime give mktime fields that are integers, like any caller.
LEMMA Local ==
  ASSUME CalendarInv, NEW t \in [days : Int, secs : Int], localtime(t)
  PROVE  CalendarInv'
<1>1. Fields(t.secs % 3600, 0, t.secs \div 3600, t.days + 1, 0, 70) \in Broken
  <2>1. t.secs % 3600 \in Int /\ t.secs \div 3600 \in Int /\ t.days + 1 \in Int
    BY SMT
  <2> QED BY <2>1 DEF Fields, Broken
<1> QED BY <1>1, Asks DEF localtime

LEMMA Steps == CalendarInv /\ [CalendarNext]_timeVars => CalendarInv'
<1> SUFFICES ASSUME CalendarInv, [CalendarNext]_timeVars
             PROVE  CalendarInv'
  OBVIOUS
<1>1. ASSUME NEW fields \in Calls, Begin(fields)
      PROVE  CalendarInv'
  <2>1. fields \in Broken
    BY CalendarAssumption
  <2> QED BY <1>1, <2>1, Asks
<1>2. CASE Units
  BY <1>2, KeepsUnits
<1>3. CASE Months
  BY <1>3, KeepsMonths
<1>4. CASE Count
  BY <1>4, KeepsCount
<1>5. ASSUME NEW t \in Clocks, localtime(t)
      PROVE  CalendarInv'
  <2>1. t \in [days : Int, secs : Int]
    BY CalendarAssumption
  <2> QED BY <1>5, <2>1, Local
<1>6. ASSUME NEW t \in Clocks, NEW zone \in Zones, gmtime(t, zone)
      PROVE  CalendarInv'
  <2>1. t \in [days : Int, secs : Int] /\ zone \in Int
    BY CalendarAssumption
  <2>2. Plus(t, zone) \in [days : Int, secs : Int]
    BY <2>1, SMT DEF Plus
  <2> QED BY <1>6, <2>2, Local DEF gmtime
<1>7. ASSUME NEW format, NEW bufsize, strftime(format, bufsize)
      PROVE  CalendarInv'
  BY <1>7, KeepsText DEF strftime
<1>8. CASE asctime
  BY <1>8, KeepsText DEF asctime, strftime
<1>9. CASE NoSpace \/ EndOfFormat \/ Item
  BY <1>9, KeepsText DEF NoSpace, EndOfFormat, Item
<1>10. CASE UNCHANGED timeVars
  BY <1>10, KeepsText DEF timeVars
<1> QED BY <1>1, <1>2, <1>3, <1>4, <1>5, <1>6, <1>7, <1>8, <1>9, <1>10 DEF CalendarNext

\* mktime gives the time its caller meant and corrects the fields to it, for
\* every time of the years 1970 to 2099 and every field it can carry.
THEOREM TimesAreRight == CalendarSpec => []TimeIsRight
<1>1. CalendarInv => TimeIsRight
  BY DEF CalendarInv, TimeIsRight, TimeRight
<1> QED BY <1>1, Starts, Steps, PTL DEF CalendarSpec

-----------------------------------------------------------------------------
(* strftime.  How long a conversion is. *)

LEMMA UpTo ==
  ASSUME NEW n \in Nat
  PROVE  IsFiniteSet(1..n) /\ Cardinality(1..n) = n
<1>1. 1 \in Int /\ n \in Int
  OBVIOUS
<1>2. IsFiniteSet(1..n) /\ Cardinality(1..n) = IF 1 > n THEN 0 ELSE n - 1 + 1
  BY <1>1, FS_Interval, Zenon
<1>3. (IF 1 > n THEN 0 ELSE n - 1 + 1) = n
  BY SMT
<1> QED BY <1>2, <1>3

LEMMA DigitsType ==
  ASSUME NEW n \in Int
  PROVE  Digits(n) \in 1..6
<1> DEFINE size == IF n < 0 THEN -n ELSE n
           reached == {k \in 1..4 : size >= PowersOf10[k]}
<1>1. IsFiniteSet(1..4) /\ Cardinality(1..4) = 4
  BY UpTo
<1>2. reached \subseteq 1..4
  OBVIOUS
<1>3. IsFiniteSet(reached) /\ Cardinality(reached) <= 4
  BY <1>1, <1>2, FS_Subset
<1>4. Cardinality(reached) \in Nat
  BY <1>3, FS_CardinalityType
<1>5. Digits(n) = (IF n < 0 THEN 2 ELSE 1) + Cardinality(reached)
  BY DEF Digits
<1> HIDE DEF reached
<1> QED BY <1>3, <1>4, <1>5

LEMMA PaddedType ==
  ASSUME NEW n \in Int, NEW width \in {2, 3, 4}
  PROVE  Padded(n, width) \in 2..6
BY DigitsType DEF Padded

\* The fields that conversions look names up with.
Names == tm \in Broken /\ tm.mon \in 0..11 /\ tm.wday \in 0..6

LEMMA ItemLengthType ==
  ASSUME Names, NEW item
  PROVE  ItemLength(item) \in 0..ARG
<1> DEFINE year == Padded(Signed(tm.year + 1900), 4)
           sec == Padded(tm.sec, 2)
           day == Padded(tm.mday, 3)
           digits == Digits(Signed(tm.year + 1900))
<1>1. Signed(tm.year + 1900) \in Int /\ tm.mday \in Int /\ tm.sec \in Int
  BY DEF Names, Broken, Signed
<1>2. year \in 2..6 /\ sec \in 2..6 /\ day \in 2..6 /\ digits \in 1..6
  BY <1>1, PaddedType, DigitsType
<1>3. DayNames[tm.wday + 1] \in 6..9
  BY DEF Names, DayNames
<1>4. MonthNames[tm.mon + 1] \in 3..9
  BY DEF Names, MonthNames
<1> HIDE DEF year, sec, day, digits
<1>5. Length(item) \in 0..ARG
  BY <1>2, <1>3, <1>4 DEF Length, ARG, year, sec, day, digits
<1> QED BY <1>5 DEF ItemLength, ARG

-----------------------------------------------------------------------------
(* How many characters the first items of a format have. *)

LEMMA SomeCharacters ==
  ASSUME NEW items, NEW n \in Nat
  PROVE  /\ IsFiniteSet(Characters(items, n))
         /\ Cardinality(Characters(items, n)) \in Nat
<1>1. IsFiniteSet(1..n) /\ IsFiniteSet(1..ARG)
  BY UpTo DEF ARG
<1>2. IsFiniteSet((1..n) \X (1..ARG))
  BY <1>1, FS_Product
<1>3. IsFiniteSet(Characters(items, n))
  BY <1>2, FS_Subset DEF Characters
<1> QED BY <1>3, FS_CardinalityType

LEMMA NoCharacters ==
  ASSUME NEW items
  PROVE  Cardinality(Characters(items, 0)) = 0
<1>1. Characters(items, 0) = {}
  BY DEF Characters
<1> QED BY <1>1, FS_EmptySet

\* An item adds its own.
LEMMA MoreCharacters ==
  ASSUME Names, NEW items, NEW n \in Nat
  PROVE  Cardinality(Characters(items, n + 1))
           = Cardinality(Characters(items, n)) + ItemLength(items[n + 1])
<1> DEFINE len == ItemLength(items[n + 1])
           all == Characters(items, n + 1)
           before == Characters(items, n)
           own == {n + 1} \X (1..len)
<1>1. len \in 0..ARG
  BY ItemLengthType
<1>2. IsFiniteSet(before) /\ Cardinality(before) \in Nat
  BY SomeCharacters
<1>3. IsFiniteSet(own) /\ Cardinality(own) = len
  <2>1. IsFiniteSet(1..len) /\ Cardinality(1..len) = len
    <3>1. len \in Nat
      BY <1>1
    <3> HIDE DEF len
    <3> QED BY <3>1, UpTo
  <2>2. IsFiniteSet({n + 1}) /\ Cardinality({n + 1}) = 1
    BY FS_Singleton
  <2> HIDE DEF len
  <2>3. /\ IsFiniteSet(own)
        /\ Cardinality(own) = Cardinality({n + 1}) * Cardinality(1..len)
    BY <2>1, <2>2, FS_Product, Zenon
  <2> HIDE DEF own
  <2>4. Cardinality(own) = 1 * len
    BY <2>1, <2>2, <2>3, Zenon
  <2> QED BY <1>1, <2>3, <2>4
<1>4. all = before \cup own
  <2> HIDE DEF len
  <2>1. \A p \in own : p \in all
    BY <1>1 DEF Characters, ARG, len
  <2>2. \A p \in before : p \in all
    BY DEF Characters
  <2>3. ASSUME NEW p \in all PROVE p \in before \cup own
    <3>1. p \in (1..(n + 1)) \X (1..ARG) /\ p[2] <= ItemLength(items[p[1]])
      BY DEF Characters
    <3>2. CASE p[1] = n + 1
      BY <1>1, <3>1, <3>2 DEF len
    <3>3. CASE p[1] # n + 1
      BY <3>1, <3>3 DEF Characters
    <3> QED BY <3>2, <3>3
  <2> QED BY <2>1, <2>2, <2>3
<1>5. before \cap own = {}
  BY DEF Characters
<1> HIDE DEF all, before, own, len
<1>6. Cardinality(all) = Cardinality(before) + Cardinality(own) - Cardinality(before \cap own)
  BY <1>2, <1>3, <1>4, FS_Union
<1>7. Cardinality(before \cap own) = 0
  BY <1>5, FS_EmptySet
<1>8. Cardinality(all) = Cardinality(before) + len
  BY <1>1, <1>2, <1>3, <1>6, <1>7
<1> QED BY <1>8 DEF all, before, len

\* The whole format has no fewer than the items taken.
LEMMA AllCharacters ==
  ASSUME NEW items, NEW n \in Nat, NEW k \in 0..n
  PROVE  Cardinality(Characters(items, k)) <= Cardinality(Characters(items, n))
<1>1. Characters(items, k) \subseteq Characters(items, n)
  BY DEF Characters
<1>2. IsFiniteSet(Characters(items, n))
  BY SomeCharacters
<1> QED BY <1>1, <1>2, FS_Subset

-----------------------------------------------------------------------------
(* The fields: mktime returns a time only with names for its day and month. *)

FieldsInv ==
  /\ tm \in Broken /\ phase \in {"idle", "units", "months", "count", "done"}
  /\ phase # "idle" => tm.mon >= 0
  /\ phase = "count" => tm.mon <= 11
  /\ time # NoTime => phase = "done" /\ tm.mon <= 11 /\ tm.wday \in 0..6

LEMMA IntegersAll ==
  ASSUME NEW x \in Int, NEW n \in {12, 24, 60}
  PROVE  Quot(x, n) \in Int /\ Rem(x, n) \in Int /\ Signed(x) \in Int /\ U16(x) \in Nat
BY DEF Quot, Rem, Signed, U16

\* Setting one field leaves the others.
LEMMA SetTime ==
  ASSUME NEW b \in Broken, NEW v \in Int
  PROVE  /\ [b EXCEPT !.sec = v] \in Broken /\ [b EXCEPT !.sec = v].mon = b.mon
         /\ [b EXCEPT !.min = v] \in Broken /\ [b EXCEPT !.min = v].mon = b.mon
         /\ [b EXCEPT !.hour = v] \in Broken /\ [b EXCEPT !.hour = v].mon = b.mon
BY DEF Broken

LEMMA SetDate ==
  ASSUME NEW b \in Broken, NEW v \in Int
  PROVE  /\ [b EXCEPT !.mday = v] \in Broken /\ [b EXCEPT !.mday = v].mon = b.mon
         /\ [b EXCEPT !.mon = v] \in Broken /\ [b EXCEPT !.mon = v].mon = v
         /\ [b EXCEPT !.year = v] \in Broken /\ [b EXCEPT !.year = v].mon = b.mon
BY DEF Broken

LEMMA SetDay ==
  ASSUME NEW b \in Broken, NEW v \in Int
  PROVE  /\ [b EXCEPT !.yday = v] \in Broken /\ [b EXCEPT !.yday = v].mon = b.mon
         /\ [b EXCEPT !.wday = v] \in Broken /\ [b EXCEPT !.wday = v].mon = b.mon
         /\ [b EXCEPT !.wday = v].wday = v
BY DEF Broken

LEMMA FieldsBegin ==
  ASSUME NEW fields \in Broken, fields.mon >= 0, Begin(fields)
  PROVE  FieldsInv' /\ text' = NoText
BY DEF FieldsInv, Begin, NoTime

LEMMA FieldsLocal ==
  ASSUME NEW t \in [days : Int, secs : Int], localtime(t)
  PROVE  FieldsInv' /\ text' = NoText
<1> DEFINE fields == Fields(t.secs % 3600, 0, t.secs \div 3600, t.days + 1, 0, 70)
<1>1. t.secs % 3600 \in Int /\ t.secs \div 3600 \in Int /\ t.days + 1 \in Int
  BY SMT
<1>2. fields \in Broken /\ fields.mon = 0
  BY <1>1 DEF Fields, Broken
<1>3. Begin(fields)
  BY DEF localtime
<1> HIDE DEF fields
<1> QED BY <1>2, <1>3, FieldsBegin

LEMMA FieldsUnits ==
  ASSUME FieldsInv, Units
  PROVE  FieldsInv'
<1> DEFINE min == Signed(tm.min + Quot(tm.sec, 60))
           hour == Signed(tm.hour + Quot(min, 60))
           mday == Signed(tm.mday + Quot(hour, 24))
           late == min >= 0 /\ hour >= 0
<1>1. /\ tm \in Broken /\ tm.sec \in Int /\ tm.min \in Int /\ tm.hour \in Int /\ tm.mday \in Int
      /\ phase = "units" /\ tm.mon >= 0
  BY DEF FieldsInv, Broken, Units
<1>2. min \in Int /\ Rem(tm.sec, 60) \in Int
  <2>1. Quot(tm.sec, 60) \in Int
    BY <1>1, IntegersAll
  <2>2. tm.min + Quot(tm.sec, 60) \in Int
    BY <1>1, <2>1
  <2> QED BY <1>1, <2>2, IntegersAll
<1> HIDE DEF min
<1>3. hour \in Int /\ Rem(min, 60) \in Int
  <2>1. Quot(min, 60) \in Int
    BY <1>2, IntegersAll
  <2>2. tm.hour + Quot(min, 60) \in Int
    BY <1>1, <2>1
  <2> QED BY <1>2, <2>2, IntegersAll
<1> HIDE DEF hour
<1>4. mday \in Int /\ Rem(hour, 24) \in Int
  <2>1. Quot(hour, 24) \in Int
    BY <1>3, IntegersAll
  <2>2. tm.mday + Quot(hour, 24) \in Int
    BY <1>1, <2>1
  <2> QED BY <1>3, <2>2, IntegersAll
<1> HIDE DEF mday
<1>5. tm' = [tm EXCEPT !.sec = Rem(tm.sec, 60),
                       !.min = IF min < 0 THEN @ ELSE Rem(min, 60),
                       !.hour = IF late THEN Rem(hour, 24) ELSE @,
                       !.mday = IF late /\ mday >= 0 THEN mday ELSE @]
  BY DEF Units, min, hour, mday
<1>6. tm' \in Broken /\ tm'.mon = tm.mon
  <2> DEFINE a == [tm EXCEPT !.sec = Rem(tm.sec, 60)]
             b == [a EXCEPT !.min = IF min < 0 THEN tm.min ELSE Rem(min, 60)]
             c == [b EXCEPT !.hour = IF late THEN Rem(hour, 24) ELSE tm.hour]
             d == [c EXCEPT !.mday = IF late /\ mday >= 0 THEN mday ELSE tm.mday]
  <2>1. tm' = d
    BY <1>5
  <2>2. a \in Broken /\ a.mon = tm.mon
    BY <1>1, <1>2, SetTime, Zenon
  <2> HIDE DEF a
  <2>3. b \in Broken /\ b.mon = a.mon
    <3>1. tm.min \in Int /\ Rem(min, 60) \in Int
      BY <1>1, <1>3
    <3>2. (IF min < 0 THEN tm.min ELSE Rem(min, 60)) \in Int
      BY <3>1, Zenon
    <3> QED BY <2>2, <3>2, SetTime, Zenon
  <2> HIDE DEF b
  <2>4. c \in Broken /\ c.mon = b.mon
    <3>1. tm.hour \in Int /\ Rem(hour, 24) \in Int
      BY <1>1, <1>4
    <3>2. (IF late THEN Rem(hour, 24) ELSE tm.hour) \in Int
      BY <3>1, Zenon
    <3> QED BY <2>3, <3>2, SetTime, Zenon
  <2> HIDE DEF c
  <2>5. d \in Broken /\ d.mon = c.mon
    <3>1. (IF late /\ mday >= 0 THEN mday ELSE tm.mday) \in Int
      BY <1>1, <1>4
    <3> QED BY <2>4, <3>1, SetDate, Zenon
  <2> QED BY <2>1, <2>2, <2>3, <2>4, <2>5
<1>7. phase' \in {"months", "done"} /\ time' = time /\ time = NoTime
  BY <1>1 DEF FieldsInv, Units
<1> QED BY <1>1, <1>6, <1>7 DEF FieldsInv

LEMMA FieldsMonths ==
  ASSUME FieldsInv, Months
  PROVE  FieldsInv'
<1> DEFINE mon == Rem(tm.mon, 12)
           year == Signed(tm.year + Quot(tm.mon, 12))
           max == DaysIn(mon, year)
<1>1. tm \in Broken /\ tm.mon \in Nat /\ tm.year \in Int /\ tm.mday \in Int /\ phase = "months"
  BY DEF FieldsInv, Broken, Months
<1>2. mon \in 0..11
  <2>1. mon = tm.mon % 12
    BY <1>1, Truncated
  <2> QED BY <1>1, <2>1
<1>3. year \in Int /\ Signed(year + 1) \in Int
  <2>1. tm.mon \in Int /\ Quot(tm.mon, 12) \in Int
    <3>1. tm.mon \in Int
      BY <1>1
    <3> QED BY <3>1, IntegersAll
  <2>2. tm.year + Quot(tm.mon, 12) \in Int
    BY <1>1, <2>1
  <2>3. year \in Int
    BY <2>2, IntegersAll
  <2>4. year + 1 \in Int
    BY <2>3
  <2> QED BY <2>3, <2>4, IntegersAll
<1>4. max \in Int
  BY <1>2, MonthTables DEF DaysIn
<1> HIDE DEF mon, year, max
<1>5. \/ tm' = [tm EXCEPT !.mon = mon] /\ phase' = "done"
      \/ /\ tm' = [tm EXCEPT !.mday = @ - max,
                             !.mon = IF mon = DECEMBER THEN 0 ELSE mon + 1,
                             !.year = IF mon = DECEMBER THEN Signed(year + 1) ELSE year]
         /\ phase' = "months"
      \/ tm' = [tm EXCEPT !.mon = mon, !.year = year] /\ phase' = "count"
  BY <1>1 DEF Months, mon, year, max
<1>6. tm' \in Broken /\ tm'.mon \in 0..11 /\ phase' \in {"months", "count", "done"}
  <2>1. CASE tm' = [tm EXCEPT !.mon = mon] /\ phase' = "done"
    <3>1. mon \in Int
      BY <1>2
    <3>2. tm' \in Broken /\ tm'.mon = mon
      BY <1>1, <2>1, <3>1, SetDate, Zenon
    <3> QED BY <1>2, <2>1, <3>2
  <2>2. CASE /\ tm' = [tm EXCEPT !.mday = @ - max,
                                 !.mon = IF mon = DECEMBER THEN 0 ELSE mon + 1,
                                 !.year = IF mon = DECEMBER THEN Signed(year + 1) ELSE year]
             /\ phase' = "months"
    <3> DEFINE next == IF mon = DECEMBER THEN 0 ELSE mon + 1
               a == [tm EXCEPT !.mday = tm.mday - max]
               b == [a EXCEPT !.mon = next]
               c == [b EXCEPT !.year = IF mon = DECEMBER THEN Signed(year + 1) ELSE year]
    <3>1. tm' = c
      BY <2>2
    <3>2. next \in 0..11
      BY <1>2 DEF DECEMBER
    <3>3. a \in Broken
      <4>1. tm.mday - max \in Int
        BY <1>1, <1>4
      <4> QED BY <1>1, <4>1, SetDate, Zenon
    <3> HIDE DEF a, next
    <3>4. b \in Broken /\ b.mon = next
      <4>1. next \in Int
        BY <3>2
      <4> QED BY <3>3, <4>1, SetDate, Zenon
    <3> HIDE DEF b
    <3>5. c \in Broken /\ c.mon = b.mon
      <4>1. (IF mon = DECEMBER THEN Signed(year + 1) ELSE year) \in Int
        BY <1>3
      <4> QED BY <3>4, <4>1, SetDate, Zenon
    <3> QED BY <2>2, <3>1, <3>2, <3>4, <3>5
  <2>3. CASE tm' = [tm EXCEPT !.mon = mon, !.year = year] /\ phase' = "count"
    <3> DEFINE a == [tm EXCEPT !.mon = mon]
               b == [a EXCEPT !.year = year]
    <3>1. tm' = b
      BY <2>3
    <3>2. a \in Broken /\ a.mon = mon
      <4>1. mon \in Int
        BY <1>2
      <4> QED BY <1>1, <4>1, SetDate, Zenon
    <3> HIDE DEF a
    <3>3. b \in Broken /\ b.mon = a.mon
      BY <1>3, <3>2, SetDate, Zenon
    <3> QED BY <1>2, <2>3, <3>1, <3>2, <3>3
  <2> QED BY <1>5, <2>1, <2>2, <2>3
<1>7. time' = time /\ time = NoTime
  BY <1>1 DEF FieldsInv, Months
<1> QED BY <1>6, <1>7 DEF FieldsInv

LEMMA FieldsCount ==
  ASSUME FieldsInv, Count
  PROVE  FieldsInv'
<1> DEFINE yday == YearDay(tm.mon, tm.mday, tm.year)
           wday == U16(JAN_1_1970 + DayCount(tm.year, yday)) % 7
<1>1. tm \in Broken /\ tm.mon \in 0..11 /\ tm.year \in Int /\ tm.mday \in Int /\ phase = "count"
  BY DEF FieldsInv, Broken, Count
<1>2. yday \in Int
  <2>1. /\ MonthDays[tm.mon + 1] \in Nat
        /\ (IF tm.mon > FEBRUARY /\ IsLeapYear(tm.year + 1900) THEN 1 ELSE 0) \in Int
    BY <1>1, MonthTables
  <2> QED BY <1>1, <2>1, SMT DEF YearDay
<1>3. wday \in 0..6
  <2> HIDE DEF yday
  <2>1. DayCount(tm.year, yday) \in Int
    <3>1. \A x \in Int : U16(x) \in Int
      BY DEF U16
    <3>2. tm.year - 70 \in Int /\ tm.year - (68 + 1) \in Int
      BY <1>1
    <3>3. U16(tm.year - 70) \in Int /\ U16(tm.year - (68 + 1)) \in Int
      BY <3>1, <3>2
    <3>4. U16(tm.year - 70) * 365 + U16(tm.year - (68 + 1)) \div 4 + yday \in Int
      BY <1>2, <3>3
    <3> QED BY <3>1, <3>4 DEF DayCount
  <2>2. JAN_1_1970 + DayCount(tm.year, yday) \in Int
    BY <2>1 DEF JAN_1_1970
  <2> QED BY <2>2 DEF U16
<1>4. tm' = [tm EXCEPT !.yday = yday, !.wday = wday] /\ phase' = "done"
  BY DEF Count
<1> HIDE DEF yday, wday
<1>5. tm' \in Broken /\ tm'.mon = tm.mon /\ tm'.wday = wday
  <2> DEFINE a == [tm EXCEPT !.yday = yday]
             b == [a EXCEPT !.wday = wday]
  <2>1. tm' = b
    BY <1>4
  <2>2. a \in Broken /\ a.mon = tm.mon
    BY <1>1, <1>2, SetDay, Zenon
  <2> HIDE DEF a
  <2>3. b \in Broken /\ b.mon = a.mon /\ b.wday = wday
    <3>1. wday \in Int
      BY <1>3
    <3> QED BY <2>2, <3>1, SetDay, Zenon
  <2> QED BY <2>1, <2>2, <2>3
<1> QED BY <1>1, <1>3, <1>4, <1>5 DEF FieldsInv

-----------------------------------------------------------------------------
(* The text: strftime has counted the items it took, and while the text    *)
(* still fits, what it counted is what it wrote.                           *)

Texts == [items : Seq(Items), size : BufferSizes, at : Nat, count : Nat, touched : Nat, done : BOOLEAN]

TextType == text \in Texts

TextInv ==
  /\ FieldsInv /\ TextType
  /\ text # NoText => time # NoTime
  /\ ~text.done =>
       /\ text.at <= Len(text.items)
       /\ text.count = Cardinality(Characters(text.items, text.at))
       /\ text.count < text.size => text.touched = text.count
  /\ FormatFits

LEMMA InMemory ==
  /\ \A n \in BufferSizes : n \in Nat /\ n + ARG <= 65536
  /\ 0 \in BufferSizes /\ 26 \in BufferSizes
BY DEF BufferSizes, ARG

LEMMA SetEnd ==
  ASSUME text \in Texts, NEW t \in Nat, text' = [text EXCEPT !.touched = t, !.done = TRUE]
  PROVE  /\ text' \in Texts /\ text'.items = text.items /\ text'.size = text.size
         /\ text'.at = text.at /\ text'.touched = t /\ text'.count = text.count /\ text'.done
<1> DEFINE a == [text EXCEPT !.touched = t]
           d == [a EXCEPT !.done = TRUE]
<1>1. /\ a \in Texts /\ a.items = text.items /\ a.size = text.size /\ a.at = text.at
      /\ a.touched = t /\ a.count = text.count
  BY DEF Texts
<1>2. text' = d
  OBVIOUS
<1> HIDE DEF a
<1>3. /\ d \in Texts /\ d.items = a.items /\ d.size = a.size /\ d.at = a.at
      /\ d.touched = a.touched /\ d.count = a.count /\ d.done
  BY <1>1 DEF Texts
<1> QED BY <1>1, <1>2, <1>3

LEMMA SetTaken ==
  ASSUME text \in Texts, NEW i \in Nat, NEW n \in Nat, NEW t \in Nat,
         text' = [text EXCEPT !.at = i, !.count = n, !.touched = t]
  PROVE  /\ text' \in Texts /\ text'.items = text.items /\ text'.size = text.size
         /\ text'.at = i /\ text'.touched = t /\ text'.count = n /\ text'.done = text.done
<1> DEFINE a == [text EXCEPT !.at = i]
           c == [a EXCEPT !.count = n]
           d == [c EXCEPT !.touched = t]
<1>1. /\ a \in Texts /\ a.items = text.items /\ a.size = text.size /\ a.at = i
      /\ a.done = text.done
  BY DEF Texts
<1>2. text' = d
  OBVIOUS
<1> HIDE DEF a
<1>3. /\ c \in Texts /\ c.items = a.items /\ c.size = a.size /\ c.at = a.at /\ c.count = n
      /\ c.done = a.done
  BY <1>1 DEF Texts
<1> HIDE DEF c
<1>4. /\ d \in Texts /\ d.items = c.items /\ d.size = c.size /\ d.at = c.at /\ d.count = c.count
      /\ d.touched = t /\ d.done = c.done
  BY <1>3 DEF Texts
<1> QED BY <1>1, <1>2, <1>3, <1>4

LEMMA Blank == NoText \in Texts
BY InMemory DEF NoText, Texts

LEMMA BlankFits ==
  ASSUME text = NoText
  PROVE  TextType /\ text.done /\ FormatFits
<1>1. Len(text.items) = 0 /\ text.done /\ text.count = 0 /\ text.touched = 0 /\ text.size = 0
  BY DEF NoText
<1>2. Cardinality(Characters(text.items, 0)) = 0
  BY NoCharacters
<1> QED BY <1>1, <1>2, Blank DEF TextType, FormatFits

\* While mktime works, there is no text.
LEMMA TextIsBlank ==
  ASSUME FieldsInv', text' = NoText
  PROVE  TextInv'
<1>1. TextType' /\ text'.done /\ FormatFits'
  <2>1. (text = NoText => TextType /\ text.done /\ FormatFits)'
    BY BlankFits, PTL
  <2> QED BY <2>1, Zenon
<1> QED BY <1>1 DEF TextInv

LEMMA TextStarts == CalendarInit => TextInv
<1> SUFFICES ASSUME CalendarInit PROVE TextInv
  OBVIOUS
<1>1. FieldsInv
  BY DEF CalendarInit, Fields, FieldsInv, Broken
<1>2. text = NoText
  BY DEF CalendarInit
<1> QED BY <1>1, <1>2, BlankFits DEF TextInv

\* A format may be any sequence of conversions and letters.
LEMMA TextBegins ==
  ASSUME TextInv, NEW format \in Seq(Items), NEW bufsize \in BufferSizes, strftime(format, bufsize)
  PROVE  TextInv'
<1>1. /\ text'.items = format /\ text'.size = bufsize /\ text'.at = 0 /\ text'.count = 0
      /\ text'.touched = 0 /\ text'.done = FALSE /\ TextType'
  BY DEF strftime, NoText, TextType, Texts
<1>2. Cardinality(Characters(format, 0))' = 0
  <2>1. 1..0 = {}
    BY SMT
  <2>2. Characters(format, 0)' = {}
    BY <2>1, Zenon DEF Characters
  <2> QED BY <2>2, FS_EmptySet, Zenon
<1>3. FieldsInv' /\ time' # NoTime
  BY DEF strftime, TextInv, FieldsInv
<1>4. FormatFits'
  BY <1>1, InMemory DEF FormatFits
<1> QED BY <1>1, <1>2, <1>3, <1>4 DEF TextInv

\* What a step of the loop may count on.
LEMMA Taking ==
  ASSUME TextInv, ~text.done
  PROVE  /\ Names /\ text.items \in Seq(Items) /\ text.at \in Nat
         /\ text.size \in Nat /\ text.size + ARG <= 65536
         /\ text.count \in Nat /\ text.touched \in Nat /\ text.touched <= text.size
         /\ time # NoTime /\ Len(text.items) \in Nat
<1>1. text # NoText
  BY DEF NoText
<1>2. time # NoTime /\ FieldsInv /\ TextType /\ FormatFits
  BY <1>1 DEF TextInv
<1>3. tm.mon \in Int /\ phase # "idle"
  BY <1>2 DEF FieldsInv, Broken
<1>4. Names
  BY <1>2, <1>3 DEF FieldsInv, Names
<1>5. text.size \in BufferSizes
  BY <1>2 DEF TextType, Texts
<1>6. text.size \in Nat /\ text.size + ARG <= 65536
  BY <1>5, InMemory
<1> QED BY <1>2, <1>4, <1>6 DEF TextType, Texts, FormatFits

\* The fields stay, and with them the length of every item.
LEMMA SameCharacters ==
  ASSUME tm' = tm
  PROVE  \A items, n : Characters(items, n)' = Characters(items, n)
<1>1. \A item : Length(item)' = Length(item)
  BY DEF Length
<1>2. \A item : ItemLength(item)' = ItemLength(item)
  BY <1>1 DEF ItemLength
<1> QED BY <1>2 DEF Characters

LEMMA KeepsFields ==
  ASSUME FieldsInv, UNCHANGED <<tm, asked, phase, time>>
  PROVE  FieldsInv'
BY DEF FieldsInv

\* What was counted is no more than the whole.
LEMMA NoSpaceFits ==
  ASSUME TextInv, NoSpace
  PROVE  TextInv'
<1> DEFINE whole == Cardinality(Characters(text.items, Len(text.items)))
<1>1. ~text.done /\ text.count >= text.size
  BY DEF NoSpace, IsFull
<1>2. /\ text'.items = text.items /\ text'.size = text.size /\ text'.at = text.at
      /\ text'.touched = text.touched /\ text'.count = 0 /\ text'.done /\ TextType'
  <2>1. TextType
    BY DEF TextInv
  <2> QED BY <2>1 DEF NoSpace, TextType, Texts
<1>3. text.count <= whole /\ whole \in Nat
  <2>1. text.at \in 0..Len(text.items) /\ Len(text.items) \in Nat
    BY <1>1, Taking DEF TextInv
  <2>2. text.count = Cardinality(Characters(text.items, text.at))
    BY <1>1 DEF TextInv
  <2>3. Cardinality(Characters(text.items, text.at)) <= whole
    BY <2>1, AllCharacters
  <2>4. whole \in Nat
    BY <2>1, SomeCharacters
  <2> QED BY <2>2, <2>3, <2>4
<1>4. Cardinality(Characters(text.items, Len(text.items)))' = whole
  BY <1>2, SameCharacters DEF NoSpace
<1> HIDE DEF whole
<1>5. FormatFits'
  <2>1. ~(whole < text.size) /\ text.touched <= text.size
    BY <1>1, <1>3, Taking
  <2> QED BY <1>2, <1>4, <2>1 DEF FormatFits
<1>6. FieldsInv' /\ time' # NoTime
  BY <1>1, Taking, KeepsFields DEF NoSpace, TextInv
<1> QED BY <1>2, <1>5, <1>6 DEF TextInv

\* At the end of the format what was counted is the whole.
LEMMA EndFits ==
  ASSUME TextInv, EndOfFormat
  PROVE  TextInv'
<1> DEFINE whole == Cardinality(Characters(text.items, Len(text.items)))
<1>1. ~text.done /\ ~(text.count >= text.size) /\ text.at = Len(text.items)
  BY DEF EndOfFormat, IsFull
<1>2. /\ text'.items = text.items /\ text'.size = text.size /\ text'.at = text.at
      /\ text'.touched = text.count + 1 /\ text'.count = text.count /\ text'.done /\ TextType'
  <2>1. TextType /\ text.count + 1 \in Nat /\ text.touched = text.count
    BY <1>1, Taking DEF TextInv
  <2>2. text' = [text EXCEPT !.touched = text.count + 1, !.done = TRUE]
    BY <2>1, Zenon DEF EndOfFormat
  <2>3. text \in Texts
    BY <2>1 DEF TextType
  <2> DEFINE t == text.count + 1
  <2>4. text' = [text EXCEPT !.touched = t, !.done = TRUE] /\ t \in Nat
    BY <2>1, <2>2
  <2> HIDE DEF t
  <2>5. /\ text' \in Texts /\ text'.items = text.items /\ text'.size = text.size
        /\ text'.at = text.at /\ text'.touched = t /\ text'.count = text.count /\ text'.done
    BY <2>3, <2>4, SetEnd, Zenon
  <2> QED BY <2>5 DEF TextType, t
<1>3. text.count = whole
  BY <1>1 DEF TextInv
<1>4. Cardinality(Characters(text.items, Len(text.items)))' = whole
  BY <1>2, SameCharacters DEF EndOfFormat
<1> HIDE DEF whole
<1>5. FormatFits'
  <2>1. text.count < text.size /\ text.count + 1 <= text.size
    BY <1>1, Taking
  <2> QED BY <1>2, <1>3, <1>4, <2>1 DEF FormatFits
<1>6. FieldsInv' /\ time' # NoTime
  BY <1>1, Taking, KeepsFields DEF EndOfFormat, TextInv
<1> QED BY <1>2, <1>5, <1>6 DEF TextInv

\* While what is counted fits, every item before was copied.
LEMMA ItemFits ==
  ASSUME TextInv, Item
  PROVE  TextInv'
<1> DEFINE item == text.items[text.at + 1]
           len == ItemLength(item)
           copied == IsLetter(item) \/ Room(text.count, len, text.size)
<1>1. ~text.done /\ ~(text.count >= text.size) /\ text.at < Len(text.items)
  BY DEF Item, IsFull
<1>2. len \in 0..ARG /\ (IsLetter(item) => len = 1)
  BY <1>1, Taking, ItemLengthType DEF ItemLength
<1>3. U16(text.count + len) = text.count + len /\ text.touched = text.count
  <2>1. text.count + len \in Nat /\ text.count + len < 65536
    <3> HIDE DEF item, len, copied
    <3>1. text.count \in Nat /\ text.size \in Nat /\ text.size + ARG <= 65536
      BY <1>1, Taking
    <3>2. len \in Nat /\ len <= 40 /\ text.size + 40 <= 65536
      BY <1>2, <3>1 DEF ARG
    <3>3. text.count < text.size
      BY <1>1, <3>1
    <3> QED BY <3>1, <3>2, <3>3
  <2>2. text.touched = text.count
    <3>1. text.count < text.size
      BY <1>1, Taking
    <3> QED BY <1>1, <3>1 DEF TextInv
  <2> HIDE DEF item, len, copied
  <2> QED BY <2>1, <2>2, Narrow
<1>4. text' = [text EXCEPT !.at = @ + 1, !.count = text.count + len,
                           !.touched = IF copied THEN text.count + len ELSE @]
  BY <1>3 DEF Item
<1>5. Cardinality(Characters(text.items, text.at + 1)) = text.count + len
  <2>1. text.count = Cardinality(Characters(text.items, text.at))
    BY <1>1 DEF TextInv
  <2>2. Names /\ text.at \in Nat
    BY <1>1, Taking
  <2> QED BY <2>1, <2>2, MoreCharacters
<1>6. /\ copied => len = 1 \/ text.count + len < text.size
      /\ ~copied => text.count + len >= text.size
  <2>1. /\ copied => len = 1 \/ text.count + len < text.size
        /\ ~copied => ~(text.count + len < text.size)
    BY <1>2, <1>3 DEF Room
  <2>2. text.count \in Nat /\ text.size \in Nat
    BY <1>1, Taking
  <2> HIDE DEF item, len, copied
  <2> QED BY <1>2, <2>1, <2>2 DEF ARG
<1> HIDE DEF item, len, copied
<1>7. /\ text'.items = text.items /\ text'.size = text.size /\ text'.at = text.at + 1
      /\ text'.count = text.count + len /\ text'.done = text.done
      /\ text'.touched = (IF copied THEN text.count + len ELSE text.touched) /\ TextType'
  <2>1. TextType /\ text.at + 1 \in Nat /\ text.count + len \in Nat
    <3>1. len \in Nat
      BY <1>2 DEF ARG
    <3> QED BY <1>1, <3>1, Taking DEF TextInv
  <2>2. (IF copied THEN text.count + len ELSE text.touched) \in Nat
    BY <1>1, <2>1, Taking
  <2>3. text \in Texts
    BY <2>1 DEF TextType
  <2> DEFINE i == text.at + 1
             n == text.count + len
             t == IF copied THEN text.count + len ELSE text.touched
  <2>4. text' = [text EXCEPT !.at = i, !.count = n, !.touched = t] /\ i \in Nat /\ n \in Nat /\ t \in Nat
    BY <1>4, <2>1, <2>2
  <2> HIDE DEF i, n, t
  <2>5. /\ text' \in Texts /\ text'.items = text.items /\ text'.size = text.size /\ text'.at = i
        /\ text'.touched = t /\ text'.count = n /\ text'.done = text.done
    BY <2>3, <2>4, SetTaken, Zenon
  <2> QED BY <2>5 DEF TextType, i, n, t
<1>8. Cardinality(Characters(text.items, text.at))' = text'.count
  BY <1>5, <1>7, SameCharacters DEF Item
<1>9. /\ text'.touched <= text'.size /\ text'.at <= Len(text'.items)
      /\ text'.count < text'.size => text'.touched = text'.count
  <2>1. /\ text.count \in Nat /\ text.size \in Nat /\ text.touched \in Nat /\ text.at \in Nat
        /\ text.touched <= text.size /\ Len(text.items) \in Nat
    BY <1>1, Taking
  <2>2. len \in Nat
    BY <1>2 DEF ARG
  <2>3. text.at + 1 <= Len(text.items) /\ text.count < text.size
    BY <1>1, <2>1
  <2>4. CASE copied
    <3>1. text.count + len <= text.size
      BY <1>6, <2>1, <2>2, <2>3, <2>4
    <3> QED BY <1>7, <2>3, <2>4, <3>1
  <2>5. CASE ~copied
    <3>1. ~(text.count + len < text.size)
      BY <1>6, <2>1, <2>2, <2>5
    <3> QED BY <1>7, <2>1, <2>3, <2>5, <3>1
  <2> QED BY <2>4, <2>5
<1>10. FormatFits'
  BY <1>1, <1>7, <1>9 DEF FormatFits
<1>11. FieldsInv' /\ time' # NoTime
  BY <1>1, Taking, KeepsFields DEF Item, TextInv
<1> QED BY <1>7, <1>8, <1>9, <1>10, <1>11 DEF TextInv

LEMMA KeepsWritten ==
  ASSUME TextInv, UNCHANGED timeVars
  PROVE  TextInv'
<1>1. FieldsInv'
  BY KeepsFields DEF TextInv, timeVars
<1>2. Cardinality(Characters(text.items, text.at))' = Cardinality(Characters(text.items, text.at))
  BY SameCharacters DEF timeVars
<1>3. FormatFits'
  BY SameCharacters DEF TextInv, timeVars, FormatFits
<1> QED BY <1>1, <1>2, <1>3 DEF TextInv, TextType, timeVars

\* mktime works only on a time of its own: the last text is gone.
LEMMA NoTextYet ==
  ASSUME TextInv, phase # "done"
  PROVE  text = NoText
BY DEF TextInv, FieldsInv

LEMMA TextSteps == TextInv /\ [CalendarNext]_timeVars => TextInv'
<1> SUFFICES ASSUME TextInv, [CalendarNext]_timeVars
             PROVE  TextInv'
  OBVIOUS
<1>1. FieldsInv
  BY DEF TextInv
<1>2. ASSUME NEW fields \in Calls, Begin(fields)
      PROVE  TextInv'
  <2>1. fields \in Broken /\ fields.mon >= 0
    BY CalendarAssumption
  <2> QED BY <1>2, <2>1, FieldsBegin, TextIsBlank
<1>3. CASE Units \/ Months \/ Count
  <2>1. FieldsInv'
    BY <1>1, <1>3, FieldsUnits, FieldsMonths, FieldsCount
  <2>2. text' = text /\ phase # "done"
    BY <1>3 DEF Units, Months, Count
  <2> QED BY <2>1, <2>2, NoTextYet, TextIsBlank
<1>4. ASSUME NEW t \in Clocks, localtime(t)
      PROVE  TextInv'
  <2>1. t \in [days : Int, secs : Int]
    BY CalendarAssumption
  <2> QED BY <1>4, <2>1, FieldsLocal, TextIsBlank
<1>5. ASSUME NEW t \in Clocks, NEW zone \in Zones, gmtime(t, zone)
      PROVE  TextInv'
  <2>1. t \in [days : Int, secs : Int] /\ zone \in Int
    BY CalendarAssumption
  <2>2. Plus(t, zone) \in [days : Int, secs : Int]
    BY <2>1, SMT DEF Plus
  <2> QED BY <1>5, <2>2, FieldsLocal, TextIsBlank DEF gmtime
<1>6. ASSUME NEW format \in Formats, NEW bufsize \in Buffers, strftime(format, bufsize)
      PROVE  TextInv'
  <2>1. format \in Seq(Items) /\ bufsize \in BufferSizes
    BY CalendarAssumption
  <2> QED BY <1>6, <2>1, TextBegins
<1>7. CASE asctime
  <2>1. <<"c", "letter">> \in Seq(Items) /\ 26 \in BufferSizes
    BY InMemory DEF Items
  <2> QED BY <1>7, <2>1, TextBegins DEF asctime
<1>8. CASE NoSpace
  BY <1>8, NoSpaceFits
<1>9. CASE EndOfFormat
  BY <1>9, EndFits
<1>10. CASE Item
  BY <1>10, ItemFits
<1>11. CASE UNCHANGED timeVars
  BY <1>11, KeepsWritten
<1> QED BY <1>2, <1>3, <1>4, <1>5, <1>6, <1>7, <1>8, <1>9, <1>10, <1>11 DEF CalendarNext

\* strftime never writes past its buffer, and returns the length of the text it
\* wrote, or 0 if the text and its terminator do not fit: for every format,
\* every size of the buffer and every time mktime returns.
THEOREM TextFitsBuffer == CalendarSpec => []FormatFits
<1>1. TextInv => FormatFits
  BY DEF TextInv
<1> QED BY <1>1, TextStarts, TextSteps, PTL DEF CalendarSpec

-----------------------------------------------------------------------------
(*                                The heap                                 *)
(* Each lemma is about one operation on a heap h that tiles memory with    *)
(* the blocks of a set B.                                                  *)

Shape(h) == h \in [top : ORG..END, free : SUBSET [at : Nat, size : Nat]]

Good(h, B) == Shape(h) /\ HeapTiles(h, B)

USE DEF ADMIN, MIN, NULL, WORD

LEMMA Bounds == ORG \in Nat /\ END \in Nat /\ 1 <= ORG /\ ORG <= END /\ END < 65536
BY HeapAssumption

-----------------------------------------------------------------------------
(* malloc takes the lowest block that fits: there is one. *)

LEMMA Less == IsWellFoundedOn({ss \in Nat \X Nat : ss[1] < ss[2]}, Nat)
BY NatLessThanWellFounded DEF OpToRel

LEMMA Lowest ==
  ASSUME NEW S, S \subseteq Nat, S # {}
  PROVE  \E x \in S : \A y \in S : x <= y
<1>1. PICK x \in S : \A y \in S : ~(<<y, x>> \in {ss \in Nat \X Nat : ss[1] < ss[2]})
  BY Less, WFMin
<1>2. ASSUME NEW y \in S PROVE x <= y
  <2>1. x \in Nat /\ y \in Nat
    OBVIOUS
  <2>2. ~(<<y, x>> \in {ss \in Nat \X Nat : ss[1] < ss[2]})
    BY <1>1
  <2> QED BY <2>1, <2>2
<1> QED BY <1>2

LEMMA FirstFitFits ==
  ASSUME NEW h, Shape(h), NEW size \in Nat, \E f \in h.free : f.size >= size
  PROVE  FirstFit(h, size) \in h.free /\ FirstFit(h, size).size >= size
<1> DEFINE Fits == {f \in h.free : f.size >= size}
           Ats == {f.at : f \in Fits}
<1>1. \A f \in Fits : f.at \in Nat
  BY DEF Shape
<1>2. Ats \subseteq Nat /\ Ats # {}
  BY <1>1
<1>3. PICK x \in Ats : \A y \in Ats : x <= y
  BY <1>2, Lowest
<1>4. PICK f \in Fits : f.at = x
  BY <1>3
<1>5. \A g \in h.free : g.size >= size => f.at <= g.at
  BY <1>3, <1>4
<1>6. f \in h.free /\ f.size >= size
  BY <1>4
<1> HIDE DEF Fits, Ats
<1> QED BY <1>5, <1>6 DEF FirstFit

-----------------------------------------------------------------------------
(* Blocks that change hands without the heap noticing. *)

\* A block may be told by any record that says where it is and how long.
LEMMA SameExtent ==
  ASSUME NEW h, NEW B, NEW b, NEW c, Good(h, B \cup {b}), b \notin B,
         c.at = b.at, c.size = b.size
  PROVE  Good(h, B \cup {c}) /\ c \notin B
<1>1. IsExtent(b) /\ IsExtent(c) /\ End(c) = End(b)
  BY DEF Good, HeapTiles, NoOverlap, IsExtent, End
<1>2. \A x \in B : Apart(x, b) /\ Apart(x, c) /\ Apart(b, x) /\ Apart(c, x)
  BY <1>1 DEF Good, HeapTiles, NoOverlap, Apart
<1>3. c \notin B
  BY <1>1, <1>2 DEF Apart, IsExtent, End
<1>4. NoOverlap(h, B \cup {c})
  BY <1>1, <1>2 DEF Good, HeapTiles, NoOverlap, Apart
<1>5. NothingLost(h, B \cup {c})
  <2> SUFFICES ASSUME NEW x \in ORG..(h.top - 1)
               PROVE  \E y \in (B \cup {c}) \cup h.free : y.at <= x /\ x < End(y)
    BY DEF NothingLost
  <2>1. PICK y \in (B \cup {b}) \cup h.free : y.at <= x /\ x < End(y)
    BY DEF Good, HeapTiles, NothingLost
  <2> QED BY <1>1, <2>1
<1> QED BY <1>3, <1>4, <1>5 DEF Good, HeapTiles

\* A block may be cut in two.
LEMMA SplitKeeps ==
  ASSUME NEW h, NEW B, NEW b, NEW c, NEW d, Good(h, B \cup {b}), b \notin B,
         IsExtent(c), IsExtent(d), c.at = b.at, End(c) = d.at, End(d) = End(b)
  PROVE  Good(h, (B \cup {c}) \cup {d}) /\ c \notin B /\ d \notin B /\ c # d
<1>1. IsExtent(b) /\ ORG <= b.at /\ End(b) <= h.top
  BY DEF Good, HeapTiles, NoOverlap
<1>2. \A x \in B \cup h.free : IsExtent(x) /\ ORG <= x.at /\ End(x) <= h.top
  BY DEF Good, HeapTiles, NoOverlap
<1>3. \A x \in B \cup h.free : Apart(x, b)
  BY <1>1, <1>2 DEF Good, HeapTiles, NoOverlap, Apart
<1>4. \A x \in B \cup h.free : /\ Apart(x, c) /\ Apart(c, x)
                              /\ Apart(x, d) /\ Apart(d, x)
  BY <1>1, <1>2, <1>3 DEF Apart, IsExtent, End
<1>5. c \notin B /\ d \notin B /\ c # d /\ Apart(c, d) /\ Apart(d, c)
  BY <1>4 DEF Apart, IsExtent, End
<1>6. NoOverlap(h, (B \cup {c}) \cup {d})
  <2>1. ORG <= c.at /\ End(c) <= h.top /\ ORG <= d.at /\ End(d) <= h.top
    BY <1>1, Bounds DEF IsExtent, End, Good, Shape
  <2> QED BY <1>2, <1>4, <1>5, <2>1 DEF NoOverlap, Good, HeapTiles
<1>7. NothingLost(h, (B \cup {c}) \cup {d})
  <2> SUFFICES ASSUME NEW x \in ORG..(h.top - 1)
               PROVE  \E y \in ((B \cup {c}) \cup {d}) \cup h.free : y.at <= x /\ x < End(y)
    BY DEF NothingLost
  <2>1. PICK y \in (B \cup {b}) \cup h.free : y.at <= x /\ x < End(y)
    BY DEF Good, HeapTiles, NothingLost
  <2>2. CASE y = b
    <3>1. CASE x < End(c)
      BY <2>1, <2>2, <3>1
    <3>2. CASE ~(x < End(c))
      BY <2>1, <2>2, <3>2 DEF IsExtent, End, Good, Shape
    <3> QED BY <3>1, <3>2
  <2> QED BY <2>1, <2>2
<1> QED BY <1>5, <1>6, <1>7 DEF Good, HeapTiles

\* The block at the top may grow and shrink.
LEMMA GrowKeeps ==
  ASSUME NEW h, NEW B, NEW b, NEW c, Good(h, B \cup {b}), b \notin B, End(b) = h.top,
         IsExtent(c), c.at = b.at, End(c) <= END
  PROVE  Good([h EXCEPT !.top = End(c)], B \cup {c}) /\ c \notin B
<1> DEFINE g == [h EXCEPT !.top = End(c)]
<1>1. IsExtent(b) /\ ORG <= b.at
  BY DEF Good, HeapTiles, NoOverlap
<1>2. Shape(h) /\ Shape(g) /\ g.top = End(c) /\ g.free = h.free
  BY <1>1, Bounds DEF Good, Shape, IsExtent, End
<1>3. \A x \in B \cup h.free : IsExtent(x) /\ ORG <= x.at /\ End(x) <= h.top /\ Apart(x, b)
  BY <1>1 DEF Good, HeapTiles, NoOverlap, Apart
<1>4. \A x \in B \cup h.free : End(x) <= b.at
  BY <1>1, <1>3 DEF Apart, IsExtent, End
<1>5. \A x \in B \cup h.free : Apart(x, c) /\ Apart(c, x) /\ End(x) <= End(c) /\ End(x) # End(c)
  BY <1>1, <1>3, <1>4 DEF Apart, IsExtent, End
<1>6. c \notin B
  BY <1>5 DEF Apart, IsExtent, End
<1>7. NoOverlap(g, B \cup {c})
  <2>1. End(c) <= End(c)
    BY DEF IsExtent, End
  <2> QED BY <1>1, <1>2, <1>3, <1>5, <2>1 DEF NoOverlap, Good, HeapTiles
<1>8. NothingLost(g, B \cup {c})
  <2> SUFFICES ASSUME NEW x \in ORG..(g.top - 1)
               PROVE  \E y \in (B \cup {c}) \cup h.free : y.at <= x /\ x < End(y)
    BY <1>2 DEF NothingLost
  <2>1. CASE b.at <= x
    BY <1>1, <1>2, <2>1, Bounds DEF IsExtent, End
  <2>2. CASE ~(b.at <= x)
    <3>1. x \in ORG..(h.top - 1)
      BY <1>1, <1>2, <2>2, Bounds DEF IsExtent, End, Shape
    <3>2. PICK y \in (B \cup {b}) \cup h.free : y.at <= x /\ x < End(y)
      BY <3>1 DEF Good, HeapTiles, NothingLost
    <3> QED BY <2>2, <3>2
  <2> QED BY <2>1, <2>2
<1>9. Coalesced(g)
  BY <1>2, <1>5 DEF Good, HeapTiles, Coalesced
<1> QED BY <1>2, <1>6, <1>7, <1>8, <1>9 DEF Good, HeapTiles

-----------------------------------------------------------------------------
(* free: the neighbours of a block that goes back.                         *)

\* Below a block b lies either a block in use, or one free block, which reaches
\* down to StartOf.
LEMMA Below ==
  ASSUME NEW h, NEW B, NEW b, Good(h, B \cup {b}), b \notin B
  PROVE  /\ StartOf(h, b) \in Nat /\ ORG <= StartOf(h, b) /\ StartOf(h, b) <= b.at
         /\ \A y \in B \cup (h.free \ Left(h, b)) : End(y) <= StartOf(h, b) \/ y.at >= End(b)
         /\ \A y \in Left(h, b) : y.at = StartOf(h, b) /\ End(y) = b.at
         /\ \A f \in h.free \ Left(h, b) : End(f) # StartOf(h, b)
<1>1. IsExtent(b) /\ ORG <= b.at
  BY DEF Good, HeapTiles, NoOverlap
<1>2. \A x \in B \cup h.free : IsExtent(x) /\ ORG <= x.at /\ Apart(x, b)
  BY <1>1 DEF Good, HeapTiles, NoOverlap, Apart
<1>3. CASE Left(h, b) = {}
  <2>1. StartOf(h, b) = b.at
    BY <1>3 DEF StartOf
  <2> QED BY <1>1, <1>2, <1>3, <2>1 DEF Left, Apart, IsExtent
<1>4. CASE Left(h, b) # {}
  <2> DEFINE l == The(Left(h, b))
  <2>1. l \in h.free /\ End(l) = b.at /\ StartOf(h, b) = l.at
    BY <1>4 DEF The, Left, StartOf
  <2>2. \A y \in Left(h, b) : y = l
    <3>1. \A y \in Left(h, b) : y \in h.free /\ End(y) = b.at
      BY DEF Left
    <3>2. \A y \in Left(h, b) : y = l \/ Apart(y, l)
      BY <2>1, <3>1 DEF Good, HeapTiles, NoOverlap
    <3> QED BY <1>2, <2>1, <3>1, <3>2 DEF Apart, IsExtent, End
  <2>3. \A y \in B \cup (h.free \ Left(h, b)) : Apart(y, l)
    BY <2>1, <1>4 DEF Good, HeapTiles, NoOverlap, Apart, The
  <2>4. \A y \in B \cup (h.free \ Left(h, b)) : End(y) <= l.at \/ y.at >= End(b)
    BY <1>1, <1>2, <2>1, <2>3 DEF Apart, IsExtent, End
  <2>5. \A f \in h.free : End(f) # l.at
    BY <2>1 DEF Good, HeapTiles, Coalesced
  <2> HIDE DEF l
  <2> QED BY <1>1, <1>2, <2>1, <2>2, <2>4, <2>5 DEF IsExtent, End
<1> QED BY <1>3, <1>4

\* Above it, likewise, up to EndOf.
LEMMA Above ==
  ASSUME NEW h, NEW B, NEW b, Good(h, B \cup {b}), b \notin B
  PROVE  /\ EndOf(h, b) \in Nat /\ EndOf(h, b) <= h.top /\ End(b) <= EndOf(h, b)
         /\ \A y \in B \cup (h.free \ Right(h, b)) : End(y) <= b.at \/ y.at >= EndOf(h, b)
         /\ \A y \in Right(h, b) : y.at = End(b) /\ End(y) = EndOf(h, b)
         /\ \A f \in h.free \ Right(h, b) : f.at # EndOf(h, b)
         /\ End(b) # h.top => EndOf(h, b) # h.top
<1>1. IsExtent(b) /\ End(b) <= h.top /\ h.top \in Nat
  BY Bounds DEF Good, HeapTiles, NoOverlap, Shape
<1>2. \A x \in B \cup h.free : IsExtent(x) /\ End(x) <= h.top /\ Apart(x, b)
  BY <1>1 DEF Good, HeapTiles, NoOverlap, Apart
<1>3. CASE Right(h, b) = {}
  <2>1. EndOf(h, b) = End(b)
    BY <1>3 DEF EndOf
  <2> QED BY <1>1, <1>2, <1>3, <2>1 DEF Right, Apart, IsExtent, End
<1>4. CASE Right(h, b) # {}
  <2> DEFINE r == The(Right(h, b))
  <2>1. r \in h.free /\ r.at = End(b) /\ EndOf(h, b) = End(r)
    BY <1>4 DEF The, Right, EndOf
  <2>2. \A y \in Right(h, b) : y = r
    <3>1. \A y \in Right(h, b) : y \in h.free /\ y.at = End(b)
      BY DEF Right
    <3>2. \A y \in Right(h, b) : y = r \/ Apart(y, r)
      BY <2>1, <3>1 DEF Good, HeapTiles, NoOverlap
    <3> QED BY <1>2, <2>1, <3>1, <3>2 DEF Apart, IsExtent, End
  <2>3. \A y \in B \cup (h.free \ Right(h, b)) : Apart(y, r)
    BY <2>1, <1>4 DEF Good, HeapTiles, NoOverlap, Apart, The
  <2>4. \A y \in B \cup (h.free \ Right(h, b)) : End(y) <= b.at \/ y.at >= End(r)
    BY <1>1, <1>2, <2>1, <2>3 DEF Apart, IsExtent, End
  <2>5. End(r) # h.top /\ \A f \in h.free : f.at # End(r)
    BY <2>1 DEF Good, HeapTiles, Coalesced
  <2> HIDE DEF r
  <2> QED BY <1>1, <1>2, <2>1, <2>2, <2>4, <2>5 DEF IsExtent, End
<1> QED BY <1>3, <1>4

\* A block given back at the top takes the free block below along.
LEMMA GiveTop ==
  ASSUME NEW h, NEW B, NEW b, Good(h, B \cup {b}), b \notin B, End(b) = h.top
  PROVE  Good(Give(h, b), B)
<1> DEFINE s == StartOf(h, b)
           rest == h.free \ Left(h, b)
           g == [top |-> s, free |-> rest]
<1>1. Give(h, b) = g
  BY DEF Give
<1>2. IsExtent(b) /\ ORG <= b.at /\ h.top \in Nat /\ h.top <= END
  BY Bounds DEF Good, HeapTiles, NoOverlap, Shape
<1>3. /\ s \in Nat /\ ORG <= s /\ s <= b.at
      /\ \A y \in B \cup rest : End(y) <= s \/ y.at >= End(b)
      /\ \A y \in Left(h, b) : y.at = s /\ End(y) = b.at
      /\ \A f \in rest : End(f) # s
  BY Below
<1> HIDE DEF s
<1>4. \A y \in B \cup rest : IsExtent(y) /\ ORG <= y.at /\ End(y) <= s
  <2>1. \A y \in B \cup rest : IsExtent(y) /\ ORG <= y.at /\ End(y) <= h.top
    BY DEF Good, HeapTiles, NoOverlap
  <2> QED BY <1>2, <1>3, <2>1 DEF IsExtent, End
<1>5. Shape(g)
  BY <1>2, <1>3, Bounds DEF Good, Shape, IsExtent, End
<1>6. NoOverlap(g, B)
  BY <1>4 DEF Good, HeapTiles, NoOverlap
<1>7. NothingLost(g, B)
  <2> SUFFICES ASSUME NEW x \in ORG..(s - 1)
               PROVE  \E y \in B \cup rest : y.at <= x /\ x < End(y)
    BY DEF NothingLost
  <2>1. x \in ORG..(h.top - 1) /\ x < s /\ x < b.at
    BY <1>2, <1>3, Bounds DEF IsExtent, End
  <2>2. PICK y \in (B \cup {b}) \cup h.free : y.at <= x /\ x < End(y)
    BY <2>1 DEF Good, HeapTiles, NothingLost
  <2>3. y # b /\ y \notin Left(h, b)
    BY <1>2, <1>3, <2>1, <2>2 DEF IsExtent
  <2> QED BY <2>2, <2>3
<1>8. Coalesced(g)
  BY <1>3 DEF Good, HeapTiles, Coalesced
<1> QED BY <1>1, <1>5, <1>6, <1>7, <1>8 DEF Good, HeapTiles

\* Any other joins the free blocks on either side of it.
LEMMA GiveMiddle ==
  ASSUME NEW h, NEW B, NEW b, Good(h, B \cup {b}), b \notin B, End(b) # h.top
  PROVE  Good(Give(h, b), B)
<1> DEFINE s == StartOf(h, b)
           e == EndOf(h, b)
           m == [at |-> s, size |-> e - s]
           rest == h.free \ (Left(h, b) \cup Right(h, b))
           g == [h EXCEPT !.free = rest \cup {m}]
<1>1. Give(h, b) = g
  BY DEF Give
<1>2. IsExtent(b) /\ ORG <= b.at /\ End(b) <= h.top /\ h.top \in Nat /\ h.top <= END
  BY Bounds DEF Good, HeapTiles, NoOverlap, Shape
<1>3. /\ s \in Nat /\ ORG <= s /\ s <= b.at
      /\ \A y \in B \cup rest : End(y) <= s \/ y.at >= End(b)
      /\ \A y \in Left(h, b) : y.at = s /\ End(y) = b.at
      /\ \A f \in rest : End(f) # s
  BY Below
<1>4. /\ e \in Nat /\ e <= h.top /\ End(b) <= e /\ e # h.top
      /\ \A y \in B \cup rest : End(y) <= b.at \/ y.at >= e
      /\ \A y \in Right(h, b) : y.at = End(b) /\ End(y) = e
      /\ \A f \in rest : f.at # e
  BY Above
<1> HIDE DEF s, e
<1>5. /\ m \in [at : Nat, size : Nat] /\ IsExtent(m) /\ End(m) = e /\ m.at = s
      /\ ORG <= m.at /\ End(m) <= h.top
  BY <1>2, <1>3, <1>4 DEF IsExtent, End
<1> HIDE DEF m
<1>6. Shape(g) /\ g.top = h.top /\ g.free = rest \cup {m}
  BY <1>5 DEF Good, Shape
<1> HIDE DEF g
<1>7. \A y \in B \cup rest : /\ IsExtent(y) /\ ORG <= y.at /\ End(y) <= h.top
                             /\ Apart(y, m) /\ Apart(m, y)
  <2>1. \A y \in B \cup rest : IsExtent(y) /\ ORG <= y.at /\ End(y) <= h.top
    BY DEF Good, HeapTiles, NoOverlap
  <2>2. \A y \in B \cup rest : End(y) <= s \/ y.at >= e
    BY <1>2, <1>3, <1>4, <2>1 DEF IsExtent, End
  <2> QED BY <1>5, <2>1, <2>2 DEF Apart
<1>8. NoOverlap(g, B)
  <2>1. \A y, z \in B : y = z \/ Apart(y, z)
    BY DEF Good, HeapTiles, NoOverlap
  <2>2. \A y, z \in rest : y = z \/ Apart(y, z)
    BY DEF Good, HeapTiles, NoOverlap
  <2>3. \A y \in B, f \in rest : Apart(y, f)
    BY DEF Good, HeapTiles, NoOverlap
  <2> QED BY <1>5, <1>6, <1>7, <2>1, <2>2, <2>3 DEF NoOverlap
<1>9. NothingLost(g, B)
  <2> SUFFICES ASSUME NEW x \in ORG..(h.top - 1)
               PROVE  \E y \in B \cup (rest \cup {m}) : y.at <= x /\ x < End(y)
    BY <1>6 DEF NothingLost
  <2>1. PICK y \in (B \cup {b}) \cup h.free : y.at <= x /\ x < End(y)
    BY DEF Good, HeapTiles, NothingLost
  <2>2. CASE y \in B \cup rest
    BY <2>1, <2>2
  <2>3. CASE y \notin B \cup rest
    <3>1. m.at <= x /\ x < End(m)
      BY <1>2, <1>3, <1>4, <1>5, <2>1, <2>3, Bounds DEF IsExtent, End
    <3> QED BY <3>1
  <2> QED BY <2>2, <2>3
<1>10. Coalesced(g)
  <2>1. \A f \in rest : End(f) # h.top /\ \A k \in rest : End(f) # k.at
    BY DEF Good, HeapTiles, Coalesced
  <2>2. \A f \in rest : End(f) # m.at /\ End(m) # f.at
    BY <1>3, <1>4, <1>5
  <2>3. End(m) # m.at
    BY <1>5 DEF IsExtent, End
  <2> QED BY <1>4, <1>5, <1>6, <2>1, <2>2, <2>3 DEF Coalesced
<1> QED BY <1>1, <1>6, <1>8, <1>9, <1>10 DEF Good, HeapTiles

LEMMA GiveKeeps ==
  ASSUME NEW h, NEW B, NEW b, Good(h, B \cup {b}), b \notin B
  PROVE  Good(Give(h, b), B)
BY GiveTop, GiveMiddle

-----------------------------------------------------------------------------
(* malloc: the block it takes was in no other. *)

LEMMA TakeKeeps ==
  ASSUME NEW h, NEW B, Good(h, B), NEW size \in Nat, size >= MIN,
         Take(h, size).at # NULL,
         NEW c, c.at = Take(h, size).at, c.size = Take(h, size).size
  PROVE  /\ Good(Take(h, size).heap, B \cup {c}) /\ c \notin B
         /\ c.at \in Nat /\ c.size \in Nat /\ c.size >= size
<1>1. h.top \in Nat /\ h.top <= END /\ ORG <= h.top
  BY Bounds DEF Good, Shape
<1>2. \A x \in B \cup h.free : IsExtent(x) /\ ORG <= x.at /\ End(x) <= h.top
  BY DEF Good, HeapTiles, NoOverlap
<1>3. CASE \E f \in h.free : f.size >= size
  <2> DEFINE f == FirstFit(h, size)
             g == [h EXCEPT !.free = @ \ {f}]
             low == [at |-> f.at, size |-> f.size - size]
  <2>1. f \in h.free /\ f.size >= size
    BY <1>3, FirstFitFits DEF Good
  <2>2. \A x \in B \cup (h.free \ {f}) : Apart(x, f) /\ Apart(f, x)
    BY <2>1 DEF Good, HeapTiles, NoOverlap, Apart
  <2> HIDE DEF f
  \* The heap without f has f as a block in use.
  <2>3. Good(g, B \cup {f}) /\ f \notin B
    <3>1. Shape(g) /\ g.top = h.top /\ g.free = h.free \ {f}
      BY DEF Good, Shape
    <3>2. f \notin B
      BY <1>2, <2>1 DEF Good, HeapTiles, NoOverlap, Apart, IsExtent, End
    <3>3. NoOverlap(g, B \cup {f})
      BY <1>2, <2>1, <2>2, <3>1 DEF Good, HeapTiles, NoOverlap
    <3>4. NothingLost(g, B \cup {f})
      BY <2>1, <3>1 DEF Good, HeapTiles, NothingLost
    <3>5. Coalesced(g)
      BY <3>1 DEF Good, HeapTiles, Coalesced
    <3> QED BY <3>1, <3>2, <3>3, <3>4, <3>5 DEF Good, HeapTiles
  <2>4. CASE f.size - size < MIN
    <3>1. Take(h, size) = [at |-> f.at, size |-> f.size, heap |-> g]
      BY <1>3, <2>4 DEF Take, f
    <3> QED BY <2>1, <2>3, <3>1, <1>2, SameExtent DEF IsExtent
  <2>5. CASE ~(f.size - size < MIN)
    <3> DEFINE k == [h EXCEPT !.free = (@ \ {f}) \cup {low}]
    <3>1. Take(h, size) = [at |-> f.at + (f.size - size), size |-> size, heap |-> k]
      BY <1>3, <2>5 DEF Take, f
    <3>2. /\ IsExtent(low) /\ IsExtent(c) /\ low.at = f.at /\ End(low) = c.at
          /\ End(c) = End(f) /\ low \in [at : Nat, size : Nat]
      BY <1>2, <2>1, <2>5, <3>1 DEF IsExtent, End
    <3> HIDE DEF low
    <3>3. Good(g, (B \cup {low}) \cup {c}) /\ low \notin B /\ c \notin B /\ low # c
      BY <2>3, <3>2, SplitKeeps
    \* and the lower part goes to the free list.
    <3>4. Shape(g) /\ g.top = h.top /\ g.free = h.free \ {f}
      BY DEF Good, Shape
    <3>5. Shape(k) /\ k.top = h.top /\ k.free = g.free \cup {low}
      BY <3>2, <3>4 DEF Good, Shape
    <3>6. NoOverlap(k, B \cup {c})
      <4>1. NoOverlap(g, (B \cup {low}) \cup {c})
        BY <3>3 DEF Good, HeapTiles
      <4>2. \A x \in g.free : Apart(x, low) /\ Apart(low, x)
        BY <4>1 DEF NoOverlap, Apart
      <4>3. \A x \in B \cup {c} : Apart(x, low)
        BY <3>3, <4>1 DEF NoOverlap
      <4> QED BY <3>4, <3>5, <4>1, <4>2, <4>3 DEF NoOverlap
    <3>7. NothingLost(k, B \cup {c})
      <4>1. NothingLost(g, (B \cup {low}) \cup {c})
        BY <3>3 DEF Good, HeapTiles
      <4> QED BY <3>4, <3>5, <4>1 DEF NothingLost
    <3>8. Coalesced(k)
      <4>1. \A x \in g.free : End(x) # h.top /\ End(x) # low.at /\ \A y \in g.free : End(x) # y.at
        BY <2>1, <3>2, <3>4 DEF Good, HeapTiles, Coalesced
      <4>2. End(low) # h.top /\ End(low) # low.at
        BY <1>1, <1>2, <2>1, <3>2 DEF IsExtent, End
      <4>3. \A x \in g.free : End(low) # x.at
        <5>1. \A x \in g.free : Apart(c, x) \/ c = x
          BY <3>3 DEF Good, HeapTiles, NoOverlap
        <5>2. \A x \in g.free : IsExtent(x) /\ Apart(x, f)
          BY <1>2, <2>2, <3>4
        <5> QED BY <1>2, <2>1, <3>2, <5>2 DEF Apart, IsExtent, End
      <4> QED BY <3>5, <4>1, <4>2, <4>3 DEF Coalesced
    <3> QED BY <3>1, <3>2, <3>3, <3>5, <3>6, <3>7, <3>8 DEF Good, HeapTiles, IsExtent
  <2> QED BY <2>4, <2>5
<1>4. CASE ~(\E f \in h.free : f.size >= size) /\ h.top + size <= END
  <2> DEFINE g == [h EXCEPT !.top = @ + size]
  <2>1. Take(h, size) = [at |-> h.top, size |-> size, heap |-> g]
    BY <1>4 DEF Take
  <2>2. Shape(g) /\ g.top = h.top + size /\ g.free = h.free
    BY <1>1, <1>4, Bounds DEF Good, Shape
  <2>3. IsExtent(c) /\ End(c) = g.top /\ c.at = h.top /\ ORG <= c.at /\ End(c) <= g.top
    BY <1>1, <2>1, <2>2 DEF IsExtent, End
  <2>4. \A x \in B \cup h.free : /\ Apart(x, c) /\ Apart(c, x) /\ End(x) <= g.top
                                /\ End(x) # g.top
    BY <1>1, <1>2, <2>2, <2>3 DEF Apart, IsExtent, End
  <2>5. c \notin B
    BY <2>3, <2>4 DEF Apart, IsExtent, End
  <2>6. NoOverlap(g, B \cup {c})
    BY <1>2, <2>2, <2>3, <2>4 DEF NoOverlap, Good, HeapTiles
  <2>7. NothingLost(g, B \cup {c})
    <3> SUFFICES ASSUME NEW x \in ORG..(g.top - 1)
                 PROVE  \E y \in (B \cup {c}) \cup h.free : y.at <= x /\ x < End(y)
      BY <2>2 DEF NothingLost
    <3>1. CASE x < h.top
      <4>1. x \in ORG..(h.top - 1)
        BY <1>1, <3>1, Bounds
      <4> QED BY <4>1 DEF Good, HeapTiles, NothingLost
    <3>2. CASE ~(x < h.top)
      BY <1>1, <2>2, <2>3, <3>2, Bounds
    <3> QED BY <3>1, <3>2
  <2>8. Coalesced(g)
    BY <2>2, <2>4 DEF Good, HeapTiles, Coalesced
  <2> QED BY <2>1, <2>2, <2>3, <2>5, <2>6, <2>7, <2>8, <1>1 DEF Good, HeapTiles
<1>5. CASE ~(\E f \in h.free : f.size >= size) /\ ~(h.top + size <= END)
  BY <1>5 DEF Take
<1> QED BY <1>3, <1>4, <1>5

-----------------------------------------------------------------------------
(* Sizes and alignments. *)

\* The size of a raw block: the 16 bits of the code are enough for it.
LEMMA RawSize ==
  ASSUME NEW n \in Nat, n + ADMIN < 65536
  PROVE  Raw(n) \in Nat /\ Raw(n) >= MIN /\ Raw(n) >= n + ADMIN /\ Raw(n) <= n + MIN
BY DEF Raw, Word

\* The heap is smaller than what 16 bits count.
LEMMA InWord ==
  ASSUME NEW x \in Nat, x < 65536
  PROVE  Word(x) = x
BY DEF Word

\* What a call asks malloc for without wrapping, malloc takes with its header.
LEMMA GetTakes ==
  ASSUME NEW h, NEW n \in Nat, n + ADMIN < 65536, Get(h, n).at # NULL
  PROVE  /\ Get(h, n) = Take(h, Raw(n)) /\ n # 0
         /\ Raw(n) \in Nat /\ Raw(n) >= MIN /\ Raw(n) >= n + ADMIN
<1>1. n # 0 /\ Get(h, n) = Take(h, Raw(n))
  BY DEF Get
<1> QED BY <1>1, RawSize

LEMMA MultipleLeavesNothing ==
  ASSUME NEW q \in Nat, NEW a \in Nat \ {0}
  PROVE  (q * a) % a = 0
<1> DEFINE x == q * a
           d == x \div a
           r == x % a
<1>1. x \in Nat
  OBVIOUS
<1>2. d \in Int /\ r \in 0..(a - 1) /\ x = a * d + r
  BY <1>1
<1> HIDE DEF d, r
<1>3. r = a * (q - d)
  BY <1>2
<1>4. CASE q - d >= 1
  <2>1. a * (q - d) >= a
    BY <1>2, <1>4
  <2> QED BY <1>2, <1>3, <2>1
<1>5. CASE q - d <= -1
  <2>1. a * (q - d) <= -a
    BY <1>2, <1>5
  <2> QED BY <1>2, <1>3, <2>1
<1>6. CASE q - d = 0
  BY <1>3, <1>6
<1>7. r = 0
  BY <1>2, <1>4, <1>5, <1>6
<1> QED BY <1>7 DEF r

\* RoundUp finds the next multiple of an alignment.
LEMMA RoundUpAligns ==
  ASSUME NEW x \in Nat, NEW a \in Nat \ {0}
  PROVE  /\ RoundUp(x, a) \in Nat /\ x <= RoundUp(x, a) /\ RoundUp(x, a) <= x + (a - 1)
         /\ RoundUp(x, a) % a = 0
<1> DEFINE y == x + (a - 1)
           d == y \div a
           r == y % a
<1>1. y \in Nat
  OBVIOUS
<1>2. d \in Nat /\ r \in 0..(a - 1) /\ y = a * d + r
  BY <1>1
<1>3. RoundUp(x, a) = d * a
  BY DEF RoundUp
<1> HIDE DEF d, r
<1>4. d * a \in Nat /\ x <= d * a /\ d * a <= y
  BY <1>2
<1>5. (d * a) % a = 0
  BY <1>2, MultipleLeavesNothing
<1> QED BY <1>3, <1>4, <1>5

\* A raw block b beside the blocks of B, with room for a header below u and for
\* n bytes above.
Encloses(h, B, b, u, n) ==
  /\ Good(h, B \cup {b}) /\ b \notin B
  /\ u \in Nat /\ n \in Nat /\ b.at + ADMIN <= u /\ u + n <= End(b)

\* The block c that is left of it, and still has that room.
Trimmed(t, B, c, u, n) ==
  /\ Good(t.heap, B \cup {c})
  /\ c.at \in Nat /\ c.size \in Nat /\ c.at + ADMIN <= u /\ u + n <= End(c)

\* What posix_memalign gives back leaves a block around the program's n bytes at u.
LEMMA TrimKeeps ==
  ASSUME NEW h, NEW B, NEW b, NEW u, NEW n, Encloses(h, B, b, u, n),
         NEW t, t = Trim(h, b, u, n), NEW c, c.at = t.at, c.size = t.size
  PROVE  Trimmed(t, B, c, u, n)
<1>0. /\ Good(h, B \cup {b}) /\ b \notin B
      /\ u \in Nat /\ n \in Nat /\ b.at + ADMIN <= u /\ u + n <= End(b)
  BY DEF Encloses
<1> DEFINE upper == [at |-> u + n, size |-> End(b) - (u + n)]
           cutUp == upper.size >= MIN /\ u + n - b.at >= MIN
           rawsize == IF cutUp THEN u + n - b.at ELSE b.size
           raw == [at |-> b.at, size |-> rawsize]
           lower == [at |-> b.at, size |-> (u - b.at) - ADMIN]
           cutLow == lower.size >= MIN /\ rawsize - lower.size >= MIN
           h1 == IF cutUp THEN Give(h, upper) ELSE h
<1>2. IsExtent(b) /\ End(b) < 65536
  BY <1>0, Bounds DEF Good, HeapTiles, NoOverlap, Shape, IsExtent, End
<1>1. t = [heap |-> IF cutLow THEN Give(h1, lower) ELSE h1,
             at |-> IF cutLow THEN u - ADMIN ELSE b.at,
             size |-> IF cutLow THEN rawsize - lower.size ELSE rawsize]
  <2>1. Word(u + n) = u + n /\ Word((u + n) - b.at) = u + n - b.at
    BY <1>0, <1>2, InWord DEF IsExtent, End
  <2>2. Word(b.size - (u + n - b.at)) = End(b) - (u + n)
    BY <1>0, <1>2, InWord DEF IsExtent, End
  <2>3. Word((u - b.at) - ADMIN) = lower.size
    BY <1>0, <1>2, InWord DEF IsExtent, End
  <2>4. rawsize \in Nat /\ rawsize < 65536 /\ lower.size <= rawsize
    BY <1>0, <1>2 DEF IsExtent, End
  <2>5. Word(rawsize - lower.size) = rawsize - lower.size
    BY <1>0, <1>2, <2>4, InWord DEF IsExtent
  <2> HIDE DEF rawsize, lower
  <2> QED BY <2>1, <2>2, <2>3, <2>5 DEF Trim, rawsize, lower
<1>3. Good(h1, B \cup {raw}) /\ raw \notin B /\ IsExtent(raw) /\ raw.at = b.at /\ u + n <= End(raw)
  <2>1. CASE cutUp
    <3>1. /\ IsExtent(raw) /\ IsExtent(upper) /\ raw.at = b.at /\ End(raw) = upper.at
          /\ End(upper) = End(b) /\ u + n <= End(raw)
      BY <1>0, <1>2, <2>1 DEF IsExtent, End
    <3> HIDE DEF raw, upper
    <3>2. Good(h, (B \cup {raw}) \cup {upper}) /\ raw \notin B /\ upper \notin B /\ raw # upper
      BY <1>0, <3>1, SplitKeeps
    <3>3. upper \notin B \cup {raw}
      BY <3>2
    <3>4. Good(Give(h, upper), B \cup {raw})
      BY <3>2, <3>3, GiveKeeps
    <3> QED BY <2>1, <3>1, <3>2, <3>4
  <2>2. CASE ~cutUp
    <3>1. raw.at = b.at /\ raw.size = b.size /\ h1 = h
      BY <2>2
    <3> HIDE DEF raw, h1
    <3>2. Good(h, B \cup {raw}) /\ raw \notin B
      BY <1>0, <3>1, SameExtent
    <3> QED BY <1>0, <1>2, <3>1, <3>2 DEF IsExtent, End
  <2> QED BY <2>1, <2>2
<1>4. rawsize = raw.size
  OBVIOUS
<1> HIDE DEF raw, h1, rawsize, cutUp
<1>5. CASE cutLow
  <2>1. c.at = u - ADMIN /\ c.size = rawsize - lower.size /\ t.heap = Give(h1, lower)
    BY <1>1, <1>5
  <2>2. /\ IsExtent(lower) /\ IsExtent(c) /\ lower.at = raw.at /\ End(lower) = c.at
        /\ End(c) = End(raw) /\ c.at + ADMIN <= u
    BY <1>0, <1>2, <1>3, <1>4, <1>5, <2>1 DEF IsExtent, End
  <2> HIDE DEF lower
  <2>3. Good(h1, (B \cup {lower}) \cup {c}) /\ lower \notin B /\ c \notin B /\ lower # c
    BY <1>3, <2>2, SplitKeeps
  <2>4. (B \cup {lower}) \cup {c} = (B \cup {c}) \cup {lower} /\ lower \notin B \cup {c}
    BY <2>3
  <2>5. Good(Give(h1, lower), B \cup {c})
    BY <2>3, <2>4, GiveKeeps
  <2> QED BY <1>3, <2>1, <2>2, <2>3, <2>5 DEF IsExtent, Trimmed
<1>6. CASE ~cutLow
  <2>1. c.at = raw.at /\ c.size = raw.size /\ t.heap = h1
    BY <1>1, <1>3, <1>4, <1>6
  <2>2. Good(h1, B \cup {c}) /\ c \notin B
    BY <1>3, <2>1, SameExtent
  <2> QED BY <1>0, <1>3, <2>1, <2>2 DEF IsExtent, End, Trimmed
<1> QED BY <1>5, <1>6

-----------------------------------------------------------------------------
(* The calls. *)

\* What HeapSound says of a heap no call has spoilt, in the form the lemmas have.
Sound == /\ Good(heap, used) /\ RoomKept
         /\ used \subseteq [ptr : Nat, at : Nat, size : Nat, want : Nat, align : Nat]

LEMMA SoundIsSound == HeapSound <=> (~misled => Sound)
BY DEF HeapSound, HeapTypeOK, Good, Shape, Sound

\* The program's new block c.
LEMMA NewBlock ==
  ASSUME Sound, NEW c, NEW B, B \subseteq used, used' = B \cup {c}, Good(heap', B \cup {c}),
         c \in [ptr : Nat, at : Nat, size : Nat, want : Nat, align : Nat],
         c.at + ADMIN <= c.ptr, c.ptr + c.want <= End(c), c.ptr % c.align = 0
  PROVE  Sound'
<1>1. used' \subseteq [ptr : Nat, at : Nat, size : Nat, want : Nat, align : Nat]
  BY DEF Sound
<1>2. RoomKept'
  BY DEF Sound, RoomKept
<1> QED BY <1>1, <1>2 DEF Sound, Good, Shape

LEMMA Sized ==
  ASSUME NEW n \in Sizes
  PROVE  n \in Nat
BY HeapAssumption

\* A malloc that fails leaves the heap alone: no block lies at address 0.
LEMMA TakesNothing ==
  ASSUME NEW h, NEW B, Good(h, B), NEW size \in Nat, Take(h, size).at = NULL
  PROVE  Take(h, size).heap = h
<1>1. h.top \in Nat /\ ORG <= h.top
  BY Bounds DEF Good, Shape
<1>2. CASE \E f \in h.free : f.size >= size
  <2>1. FirstFit(h, size) \in h.free /\ FirstFit(h, size).size >= size
    BY <1>2, FirstFitFits DEF Good
  <2>2. IsExtent(FirstFit(h, size)) /\ ORG <= FirstFit(h, size).at
    BY <2>1 DEF Good, HeapTiles, NoOverlap
  <2>3. Take(h, size).at \in {FirstFit(h, size).at,
                              FirstFit(h, size).at + (FirstFit(h, size).size - size)}
    BY <1>2 DEF Take
  <2> QED BY <2>1, <2>2, <2>3, Bounds DEF IsExtent
<1>3. CASE ~(\E f \in h.free : f.size >= size)
  BY <1>1, <1>3, Bounds DEF Take
<1> QED BY <1>2, <1>3

LEMMA GetsNothing ==
  ASSUME NEW h, NEW B, Good(h, B), NEW n \in Nat, Get(h, n).at = NULL
  PROVE  Get(h, n).heap = h
<1>1. CASE n = 0
  BY <1>1 DEF Get
<1>2. CASE n # 0
  <2>1. Raw(n) \in Nat /\ Get(h, n) = Take(h, Raw(n))
    BY <1>2 DEF Get, Raw, Word
  <2> QED BY <2>1, TakesNothing
<1> QED BY <1>1, <1>2

LEMMA MallocKeeps ==
  ASSUME Sound, NEW n \in Sizes, malloc(n), ~misled'
  PROVE  Sound'
<1> DEFINE r == Get(heap, n)
           c == Block(r.at + ADMIN, r.at, r.size, n, 1)
<1>1. Good(heap, used)
  BY DEF Sound
<1>2. n \in Nat
  BY Sized
<1>3. CASE r.at = NULL
  <2>1. heap' = heap /\ used' = used
    BY <1>3, <1>1, <1>2, GetsNothing DEF malloc
  <2> QED BY <2>1 DEF Sound, RoomKept
<1>4. CASE r.at # NULL
  <2>0. n + ADMIN < 65536
    <3>1. ~Wraps(n + ADMIN)
      BY <1>4, Zenon DEF malloc
    <3> QED BY <1>2, <3>1 DEF Wraps
  <2>a. /\ r = Take(heap, Raw(n))
        /\ Raw(n) \in Nat /\ Raw(n) >= MIN /\ Raw(n) >= n + ADMIN
    BY <1>2, <1>4, <2>0, GetTakes
  <2>1. c.at = r.at /\ c.size = r.size /\ c.ptr = r.at + ADMIN /\ c.want = n /\ c.align = 1
    BY DEF Block
  <2> HIDE DEF c
  <2>2. /\ Good(r.heap, used \cup {c}) /\ c.at \in Nat /\ c.size \in Nat /\ c.size >= Raw(n)
    BY <1>1, <1>4, <2>a, <2>1, TakeKeeps
  <2>3. heap' = r.heap /\ used' = used \cup {c}
    BY <1>4 DEF malloc, c
  <2>4. c \in [ptr : Nat, at : Nat, size : Nat, want : Nat, align : Nat]
    BY <1>2, <2>1, <2>2 DEF Block, c
  <2>5. c.at + ADMIN <= c.ptr /\ c.ptr + c.want <= End(c) /\ c.ptr % c.align = 0
    BY <1>2, <2>a, <2>1, <2>2 DEF End
  <2> QED BY <2>2, <2>3, <2>4, <2>5, NewBlock
<1> QED BY <1>3, <1>4

LEMMA FreeKeeps ==
  ASSUME Sound, NEW b \in used, free(b)
  PROVE  Sound'
<1>1. Good(heap, (used \ {b}) \cup {b})
  <2>1. (used \ {b}) \cup {b} = used
    OBVIOUS
  <2> QED BY <2>1 DEF Sound
<1>2. Good(Give(heap, b), used \ {b})
  BY <1>1, GiveKeeps
<1>3. heap' = Give(heap, b) /\ used' = used \ {b}
  BY DEF free
<1>4. RoomKept' /\ used' \subseteq [ptr : Nat, at : Nat, size : Nat, want : Nat, align : Nat]
  BY <1>3 DEF Sound, RoomKept
<1> QED BY <1>2, <1>3, <1>4 DEF Sound

LEMMA ResizeKeeps ==
  ASSUME Sound, NEW b \in used, NEW n \in Sizes, Resizes(b, n), ~misled'
  PROVE  Sound'
<1> DEFINE c == Block(b.ptr, b.at, Raw(n), n, b.align)
           B == used \ {b}
<1>1. B \cup {b} = used /\ b \notin B
  OBVIOUS
<1>2. Good(heap, B \cup {b})
  BY <1>1 DEF Sound
<1>0. Whole(b) /\ n \in Nat /\ n + ADMIN < 65536 /\ ~Wraps(NewTop(b, n))
  <2>1. Whole(b) /\ ~Wraps(n + ADMIN) /\ ~Wraps(NewTop(b, n))
    BY Zenon DEF Resizes
  <2> QED BY <2>1, Sized DEF Wraps
<1>3. Raw(n) \in Nat /\ Raw(n) >= MIN /\ Raw(n) >= n + ADMIN
  BY <1>0, RawSize
<1>4. /\ b \in [ptr : Nat, at : Nat, size : Nat, want : Nat, align : Nat]
      /\ b.ptr % b.align = 0 /\ b.ptr = b.at + ADMIN
  BY <1>0 DEF Sound, RoomKept, Whole
<1>5. /\ c \in [ptr : Nat, at : Nat, size : Nat, want : Nat, align : Nat]
      /\ c.at = b.at /\ c.size = Raw(n) /\ c.want = n /\ c.ptr = b.ptr /\ c.align = b.align
  BY <1>0, <1>3, <1>4 DEF Block
<1> HIDE DEF c
<1>6. End(b) = heap.top /\ heap.top \in Nat /\ heap.top <= END
  BY Bounds DEF Resizes, Sound, Good, Shape
<1>7. Word(NewTop(b, n)) = End(c)
  <2>1. NewTop(b, n) = End(c) /\ End(c) \in Nat
    BY <1>3, <1>4, <1>5, <1>6 DEF NewTop, End
  <2>2. End(c) < 65536
    BY <1>0, <2>1 DEF Wraps
  <2> QED BY <2>1, <2>2, InWord
<1>8. heap' = [heap EXCEPT !.top = End(c)] /\ used' = B \cup {c} /\ End(c) <= END
  BY <1>7, <1>4 DEF Resizes, c
<1>9. IsExtent(c)
  BY <1>3, <1>5 DEF IsExtent
<1>10. Good(heap', B \cup {c})
  BY <1>1, <1>2, <1>5, <1>6, <1>8, <1>9, GrowKeeps
<1>11. c.at + ADMIN <= c.ptr /\ c.ptr + c.want <= End(c) /\ c.ptr % c.align = 0
  BY <1>0, <1>3, <1>4, <1>5 DEF End
<1> QED BY <1>5, <1>8, <1>10, <1>11, NewBlock

LEMMA MoveKeeps ==
  ASSUME Sound, NEW b \in used, NEW n \in Sizes, Moves(b, n), ~misled'
  PROVE  Sound'
<1> DEFINE r == Get(heap, Raw(n))
           c == Block(r.at + ADMIN, r.at, r.size, n, 1)
           B == used \ {b}
<1>1. Good(heap, used)
  BY DEF Sound
<1>2. n \in Nat
  BY Sized
<1>3. CASE r.at = NULL
  <2>1. heap' = heap /\ used' = used
    BY <1>3 DEF Moves
  <2> QED BY <2>1 DEF Sound, RoomKept
<1>4. CASE r.at # NULL
  <2>0. ~Wraps(n + ADMIN) /\ ~Wraps(Raw(n) + ADMIN)
    BY <1>4, Zenon DEF Moves
  <2>a. Raw(n) \in Nat /\ Raw(n) >= n + ADMIN
    BY <1>2, <2>0, RawSize DEF Wraps
  <2>c. Raw(n) + ADMIN < 65536
    BY <2>0, <2>a DEF Wraps
  <2>b. /\ r = Take(heap, Raw(Raw(n)))
        /\ Raw(Raw(n)) \in Nat /\ Raw(Raw(n)) >= MIN /\ Raw(Raw(n)) >= n + ADMIN
    BY <1>2, <1>4, <2>a, <2>c, GetTakes
  <2>1. c.at = r.at /\ c.size = r.size /\ c.ptr = r.at + ADMIN /\ c.want = n /\ c.align = 1
    BY DEF Block
  <2> HIDE DEF c
  <2>2. /\ Good(r.heap, used \cup {c}) /\ c \notin used
        /\ c.at \in Nat /\ c.size \in Nat /\ c.size >= Raw(Raw(n))
    BY <1>1, <1>4, <2>b, <2>1, TakeKeeps
  <2>3. used \cup {c} = (B \cup {c}) \cup {b} /\ b \notin B \cup {c}
    BY <2>2
  <2>4. Good(Give(r.heap, b), B \cup {c})
    BY <2>2, <2>3, GiveKeeps
  <2>5. heap' = Give(r.heap, b) /\ used' = B \cup {c}
    BY <1>4 DEF Moves, c
  <2>6. c \in [ptr : Nat, at : Nat, size : Nat, want : Nat, align : Nat]
    BY <1>2, <2>1, <2>2 DEF Block, c
  <2>7. c.at + ADMIN <= c.ptr /\ c.ptr + c.want <= End(c) /\ c.ptr % c.align = 0
    BY <1>2, <2>b, <2>1, <2>2 DEF End
  <2> QED BY <2>4, <2>5, <2>6, <2>7, NewBlock
<1> QED BY <1>3, <1>4

LEMMA AlignKeeps ==
  ASSUME Sound, NEW a \in Alignments, NEW n \in Sizes, posix_memalign(a, n), ~misled'
  PROVE  Sound'
<1> DEFINE size == Raw(n + (a - 1))
<1> SUFFICES ASSUME NEW r, r = Get(heap, Word(n + (a - 1))),
                    NEW u, u = Word(RoundUp(r.at + ADMIN, a)),
                    NEW t, t = Trim(r.heap, r, u, n)
             PROVE  Sound'
  OBVIOUS
<1> DEFINE c == Block(u, t.at, t.size, n, a)
<1>1. Good(heap, used)
  BY DEF Sound
<1>2. n \in Nat /\ a \in Nat \ {0}
  BY HeapAssumption
<1>4. CASE r.at = NULL
  <2>1. heap' = heap /\ used' = used
    BY <1>4 DEF posix_memalign
  <2> QED BY <2>1 DEF Sound, RoomKept
<1>5. CASE r.at # NULL
  <2>0. n + (a - 1) + ADMIN < 65536
    <3>1. ~Wraps(n + (a - 1) + ADMIN)
      BY <1>5, Zenon DEF posix_memalign
    <3> QED BY <1>2, <3>1 DEF Wraps
  <2>a. /\ r = Take(heap, size)
        /\ size \in Nat /\ size >= MIN /\ size >= n + (a - 1) + ADMIN
    <3>1. n + (a - 1) \in Nat /\ Word(n + (a - 1)) = n + (a - 1)
      BY <1>2, <2>0, InWord
    <3> QED BY <1>5, <2>0, <3>1, GetTakes
  <2>1. /\ Good(r.heap, used \cup {r}) /\ r \notin used
        /\ r.at \in Nat /\ r.size \in Nat /\ r.size >= size
    BY <1>1, <1>5, <2>a, TakeKeeps
  <2>2. heap' = t.heap /\ used' = used \cup {c}
    BY <1>5 DEF posix_memalign
  <2>3. u \in Nat /\ r.at + ADMIN <= u /\ u <= r.at + ADMIN + (a - 1) /\ u % a = 0
    <3> SUFFICES ASSUME NEW x, x = r.at + ADMIN, NEW v, v = RoundUp(x, a), u = Word(v)
                 PROVE  u \in Nat /\ x <= u /\ u <= x + (a - 1) /\ u % a = 0
      OBVIOUS
    <3>1. x \in Nat /\ a \in Nat \ {0}
      BY <1>2, <2>1
    <3>2. v \in Nat /\ x <= v /\ v <= x + (a - 1) /\ v % a = 0
      BY <3>1, RoundUpAligns
    <3>3. End(r) <= END
      BY <2>1, Bounds DEF Good, HeapTiles, NoOverlap, Shape, End
    <3>4. v < 65536
      BY <1>2, <2>1, <2>a, <3>2, <3>3, Bounds DEF End
    <3>5. u = v
      BY <3>2, <3>4, InWord
    <3> QED BY <3>1, <3>2, <3>5
  <2>4. Encloses(r.heap, used, r, u, n)
    BY <1>2, <2>a, <2>1, <2>3 DEF Encloses, End
  <2>5. c.at = t.at /\ c.size = t.size
    BY DEF Block
  <2> HIDE DEF c
  <2>6. Trimmed(t, used, c, u, n)
    BY <2>4, <2>5, TrimKeeps
  <2>7. /\ c \in [ptr : Nat, at : Nat, size : Nat, want : Nat, align : Nat]
        /\ c.ptr = u /\ c.want = n /\ c.align = a
    BY <1>2, <2>3, <2>5, <2>6 DEF Block, Trimmed, c
  <2>8. c.at + ADMIN <= c.ptr /\ c.ptr + c.want <= End(c) /\ c.ptr % c.align = 0
    BY <2>3, <2>6, <2>7 DEF Trimmed
  <2>9. Good(heap', used \cup {c})
    BY <2>2, <2>6 DEF Trimmed
  <2> QED BY <2>2, <2>7, <2>8, <2>9, NewBlock
<1> QED BY <1>4, <1>5

\* Whatever a program allocates, resizes, aligns and frees, in whatever order,
\* with every size and alignment a 16-bit word can hold: the heap stays one row
\* of blocks and free blocks, with no byte lost or handed out twice, and each
\* block holds what was asked for where it was.  It stays so until a call takes a
\* size that wraps or resizes a block with a gap at the top, which the library
\* does not refuse.
THEOREM HeapIsSound == HeapSpec => []HeapSound
<1>1. HeapInit => HeapSound
  BY Bounds DEF HeapInit, HeapSound, HeapTypeOK, HeapTiles, NoOverlap, NothingLost, Coalesced, RoomKept
<1>2. HeapSound /\ [HeapNext]_heapVars => HeapSound'
  <2> SUFFICES ASSUME HeapSound, [HeapNext]_heapVars, ~misled' PROVE Sound'
    BY DEF HeapSound, Sound, HeapTypeOK, Good, Shape
  <2>1. ASSUME NEW n \in Sizes, malloc(n) PROVE Sound'
    BY <2>1, MallocKeeps, SoundIsSound DEF malloc
  <2>2. ASSUME NEW b \in used, free(b) PROVE Sound'
    BY <2>2, FreeKeeps, SoundIsSound DEF free
  <2>3. ASSUME NEW b \in used, NEW n \in Sizes, realloc(b, n) PROVE Sound'
    <3>1. Sound
      BY <2>3, SoundIsSound DEF realloc
    <3>2. CASE Resizes(b, n)
      BY <3>1, <3>2, ResizeKeeps
    <3>3. CASE Moves(b, n)
      BY <3>1, <3>3, MoveKeeps
    <3> QED BY <2>3, <3>2, <3>3 DEF realloc
  <2>4. ASSUME NEW a \in Alignments, NEW n \in Sizes, posix_memalign(a, n) PROVE Sound'
    BY <2>4, AlignKeeps, SoundIsSound DEF posix_memalign
  <2>5. CASE UNCHANGED heapVars
    <3>1. UNCHANGED <<heap, used>> /\ Sound
      BY <2>5, SoundIsSound DEF heapVars
    <3> QED BY <3>1 DEF Sound, RoomKept
  <2> QED BY <2>1, <2>2, <2>3, <2>4, <2>5 DEF HeapNext
<1> QED BY <1>1, <1>2, PTL DEF HeapSpec
=============================================================================
