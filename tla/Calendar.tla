------------------------------ MODULE Calendar ------------------------------
(***************************************************************************)
(* format_epoch (src/render.rs): the civil date and the time of day of a   *)
(* number of seconds since 1970.  Division rounds down, as div_euclid      *)
(* does; the quotients of numbers that cannot be negative are the code's   *)
(* plain ones.                                                             *)
(***************************************************************************)
EXTENDS Integers

DaySeconds == 86400
EraDays == 146097      \* days of 400 years

\* Of a day of the era, counted from a first of March.
YearOfEra(doe) == (doe - doe \div 1460 + doe \div 36524 - doe \div 146096) \div 365
DayOfYear(doe, yoe) == doe - (365 * yoe + yoe \div 4 - yoe \div 100)
MonthFromMarch(doy) == (5 * doy + 2) \div 153

\* civil_from_days
CivilFromDays(days) ==
    LET z == days + 719468
        era == z \div EraDays
        doe == z - era * EraDays
        yoe == YearOfEra(doe)
        doy == DayOfYear(doe, yoe)
        mp == MonthFromMarch(doy)
        month == IF mp < 10 THEN mp + 3 ELSE mp - 9
        year == yoe + era * 400
    IN  [year |-> IF month <= 2 THEN year + 1 ELSE year,
         month |-> month,
         day |-> doy - (153 * mp + 2) \div 5 + 1]

TimeOfDay(tod) ==
    [hour |-> tod \div 3600, min |-> (tod % 3600) \div 60, sec |-> tod % 60]

\* format_epoch, up to its digits.
FormatEpoch(secs) ==
    [date |-> CivilFromDays(secs \div DaySeconds), time |-> TimeOfDay(secs % DaySeconds)]

-----------------------------------------------------------------------------
(***************************************************************************)
(* What a reader of the date takes it to mean: the Gregorian calendar,     *)
(* counted from January, with the lengths of its months.                   *)
(***************************************************************************)
IsLeap(year) == year % 4 = 0 /\ (year % 100 # 0 \/ year % 400 = 0)

DaysIn(year, month) ==
    IF month = 2 THEN IF IsLeap(year) THEN 29 ELSE 28
    ELSE IF month \in {4, 6, 9, 11} THEN 30 ELSE 31

\* Days of the year before the month begins.
DaysBefore(year, month) ==
    <<0, 31, 59, 90, 120, 151, 181, 212, 243, 273, 304, 334>>[month]
    + IF month > 2 /\ IsLeap(year) THEN 1 ELSE 0

\* Days from 1 January 1970 to 1 January of the year.
DaysToYear(year) ==
    LET past == year - 1
    IN  365 * (year - 1970) + past \div 4 - past \div 100 + past \div 400 - 477

IsDate(date) ==
    /\ date.month \in 1..12
    /\ date.day \in 1..DaysIn(date.year, date.month)

IsTime(time) == time.hour \in 0..23 /\ time.min \in 0..59 /\ time.sec \in 0..59

DaysOf(date) == DaysToYear(date.year) + DaysBefore(date.year, date.month) + date.day - 1

SecondsOf(stamp) ==
    DaySeconds * DaysOf(stamp.date)
    + 3600 * stamp.time.hour + 60 * stamp.time.min + stamp.time.sec

\* The stamp is a date and time that exist, and means these seconds.
Denotes(stamp, secs) ==
    IsDate(stamp.date) /\ IsTime(stamp.time) /\ SecondsOf(stamp) = secs
=============================================================================
