------------------------------- MODULE Calendar -------------------------------
(***************************************************************************)
(* Days and times (src/crates/slink-format: time.rs, datetime.rs): the     *)
(* arithmetic of eras that turns a count of days into a date and back,     *)
(* the moment a text names, and the check that lets a document have the    *)
(* text.  A clock walks from day to day by the rules of the calendar       *)
(* alone, and the arithmetic must keep up with it.                         *)
(*                                                                         *)
(* A text is a record of its fields; a moment is <<day, second>> and not   *)
(* one number of seconds, which would not fit TLC's 32 bits.  The fraction *)
(* is left out.                                                            *)
(***************************************************************************)
EXTENDS Integers

CONSTANTS
  FirstDays,  \* dates the clock is set to
  MaxDays     \* bound: days it walks

VARIABLES
  day,    \* the count of days, from 1970-01-01
  date,   \* the date the calendar has reached: [year, month, day]
  walked

calendarVars == <<day, date, walked>>

Date(y, m, d) == [year |-> y, month |-> m, day |-> d]
If(condition) == IF condition THEN 1 ELSE 0

Leap(y) == y % 4 = 0 /\ (y % 100 # 0 \/ y % 400 = 0)
MonthLength(y, m) ==
  CASE m \in {1, 3, 5, 7, 8, 10, 12} -> 31
    [] m \in {4, 6, 9, 11} -> 30
    [] m = 2 -> IF Leap(y) THEN 29 ELSE 28
    [] OTHER -> 0
IsDate(t) ==
  /\ t \in [year : Int, month : 1 .. 12, day : 1 .. 31]
  /\ t.day <= MonthLength(t.year, t.month)

CalendarAssumption == MaxDays \in Nat /\ \A t \in FirstDays : IsDate(t)

-----------------------------------------------------------------------------
(* The arithmetic, by eras of 400 years from 1 March of year 0.            *)

Era == 146097
March0 == 719468

\* The year of an era that its day is in, and the days of the era before a year.
YearOfEra(ofEra) == (ofEra - ofEra \div 1460 + ofEra \div 36524 - ofEra \div 146096) \div 365
DaysBefore(yearOfEra) == 365 * yearOfEra + yearOfEra \div 4 - yearOfEra \div 100

\* A date's day of the year from March, and back.
MonthIndex(m) == IF m > 2 THEN m - 3 ELSE m + 9
DayOfYear(m, d) == (153 * MonthIndex(m) + 2) \div 5 + d - 1
IndexAt(ofYear) == (5 * ofYear + 2) \div 153
MonthAt(ofYear) == IF IndexAt(ofYear) < 10 THEN IndexAt(ofYear) + 3 ELSE IndexAt(ofYear) - 9
DayAt(ofYear) == ofYear - (153 * IndexAt(ofYear) + 2) \div 5 + 1

CivilFromDays(days) ==
  LET n == days + March0
      year == YearOfEra(n % Era)
      ofYear == (n % Era) - DaysBefore(year)
      month == MonthAt(ofYear)
  IN Date((n \div Era) * 400 + year + If(month <= 2), month, DayAt(ofYear))

DaysFromCivil(y, m, d) ==
  LET year == y - If(m <= 2)
  IN (year \div 400) * Era + DaysBefore(year % 400) + DayOfYear(m, d) - March0

-----------------------------------------------------------------------------
(* Texts: a date, a time of day, minutes east of UTC, and how T and Z are  *)
(* written.                                                                *)

Texts(y, m, d) ==
  [date : {Date(y, m, d)}, hour : {0, 23, 24}, minute : {0, 59, 60}, second : {0, 59, 60, 61},
   east : {-1439, -30, 0, 60, 1440}, upper : BOOLEAN]

Years == 1 .. 9999  \* four digits, and the moments near them

GoodDate(t) == t.date.day \in 1 .. MonthLength(t.date.year, t.date.month)
GoodOffset(t) == t.east \in -1439 .. 1439
OfDay(t) == t.hour * 3600 + t.minute * 60 + t.second - t.east * 60
MomentAt(days, seconds) == <<days + seconds \div 86400, seconds % 86400>>

\* time.rs: what the programs read of a text.
Reads(t) ==
  t.upper /\ GoodDate(t) /\ t.hour <= 23 /\ t.minute <= 59 /\ t.second <= 59 /\ GoodOffset(t)
Instant(t) == MomentAt(DaysFromCivil(t.date.year, t.date.month, t.date.day), OfDay(t))

\* datetime.rs: what a document may say.  A leap second ends a UTC day, wherever it is written.
LastMinute(t) == (t.hour * 60 + t.minute - t.east) % 1440 = 1439
Allows(t) ==
  /\ GoodOffset(t) /\ GoodDate(t) /\ t.hour <= 23 /\ t.minute <= 59 /\ t.second <= 60
  /\ t.second = 60 => LastMinute(t)

\* slink-local, time.rs: the start of a capture's file name.
Stamp(moment) ==
  LET d == CivilFromDays(moment[1])
      s == moment[2]
  IN <<d.year, d.month, d.day, s \div 3600, (s \div 60) % 60, s % 60>>

-----------------------------------------------------------------------------
CalendarInit ==
  /\ date \in FirstDays /\ walked = 0
  /\ day = DaysFromCivil(date.year, date.month, date.day)

\* The calendar's own rule, and a day more.
Tomorrow ==
  /\ walked < MaxDays /\ walked' = walked + 1 /\ day' = day + 1
  /\ date' = CASE date.day < MonthLength(date.year, date.month) -> [date EXCEPT !.day = @ + 1]
               [] date.month = 12 /\ date.day = 31 -> Date(date.year + 1, 1, 1)
               [] OTHER -> Date(date.year, date.month + 1, 1)

-----------------------------------------------------------------------------
(* Properties.                                                             *)

\* The arithmetic agrees with the calendar, both ways, over leap days, ends of centuries and
\* eras, and before 1970 and the year 0.
ArithmeticKeepsUp ==
  /\ CivilFromDays(day) = date
  /\ DaysFromCivil(date.year, date.month, date.day) = day

\* Whatever is read as a moment may stand in a document: for every month, and days it may not have.
ReadIsAllowed ==
  (date.year \in Years /\ date.day = 1) =>
  \A d \in {0, 1, 28, 29, 30, 31, 32} : \A t \in Texts(date.year, date.month, d) :
    Reads(t) => Allows(t)

\* One moment is one, whatever offset it is written with, and the stamp in a capture's
\* name is that moment in UTC: asked where an offset leads into another month.
SameMoment ==
  (date.year \in Years /\ date.day \in {1, MonthLength(date.year, date.month)}) =>
  \A t \in Texts(date.year, date.month, date.day) : Reads(t) =>
    LET utc == Stamp(Instant(t))
        again == [date |-> Date(utc[1], utc[2], utc[3]), hour |-> utc[4], minute |-> utc[5],
                  second |-> utc[6], east |-> 0, upper |-> TRUE]
    IN Reads(again) /\ Instant(again) = Instant(t)
=============================================================================
