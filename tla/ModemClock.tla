----------------------------- MODULE ModemClock -----------------------------
(***************************************************************************)
(* The time stamp of modem/modem_helper.c: AT+CCLK? answers a date with a  *)
(* two-digit year, which iotex_modem_get_clock and its _raw twin turn into *)
(* seconds since 1970 with the formula of POSIX.  The module walks through *)
(* the calendar of the modem day by day and compares the formula with a    *)
(* plain count of the days.  The seconds within a day, and the unsigned    *)
(* 32-bit product with 86400, which every day up to 2105 fits, are left    *)
(* out, as is an answer that the modem failed to give.                     *)
(***************************************************************************)
EXTENDS Integers

CONSTANT Century     \* the years the modem can express: 2000 .. 2099

ASSUME CenturyAssumption == Century \subseteq 2000 .. 2099 /\ 2000 \in Century

VARIABLES
    year, month, day,  \* what the modem answers
    since              \* days counted one by one since 2000-01-01

clock == <<year, month, day, since>>

-----------------------------------------------------------------------------
(* iotex_modem_get_clock *)

isLeapCentury(y) == y % 4 = 0 /\ y % 100 # 0
isLeap(y) == y % 4 = 0 /\ (y % 100 # 0 \/ y % 400 = 0)

daysPerMonth(y) ==
    <<31, IF isLeap(y) THEN 29 ELSE 28, 31, 30, 31, 30, 31, 31, 30, 31, 30, 31>>

\* daysPerMonth after the loop that accumulates it.
Accumulated(y) ==
    LET days[i \in 0 .. 12] ==
          IF i = 0 THEN 0 ELSE days[i - 1] + daysPerMonth(y)[i]
    IN  days

\* The days in epoch; YY is the number of years since 1900.
EpochDay(y, m, d) ==
    LET YY == y - 1900
    IN  Accumulated(y)[m - 1] + d - 1 + (YY - 70) * 365 + (YY - 69) \div 4
            - (YY - 1) \div 100 + (YY + 299) \div 400

-----------------------------------------------------------------------------
(* The calendar of the modem *)

MonthLength(y, m) ==
    IF m = 2 THEN IF y % 4 = 0 THEN 29 ELSE 28
    ELSE IF m \in {4, 6, 9, 11} THEN 30 ELSE 31

ClockInit ==
    /\ year = 2000
    /\ month = 1
    /\ day = 1
    /\ since = 0

NextDay ==
    /\ day < MonthLength(year, month)
    /\ day' = day + 1
    /\ since' = since + 1
    /\ UNCHANGED <<year, month>>

NextMonth ==
    /\ day = MonthLength(year, month)
    /\ month < 12
    /\ day' = 1
    /\ month' = month + 1
    /\ since' = since + 1
    /\ UNCHANGED year

\* The two digits wrap to 00 after the last year.
NextYear ==
    /\ day = MonthLength(year, month)
    /\ month = 12
    /\ day' = 1
    /\ month' = 1
    /\ IF year + 1 \in Century
       THEN year' = year + 1 /\ since' = since + 1
       ELSE year' = 2000 /\ since' = 0

ClockNext == NextDay \/ NextMonth \/ NextYear

ClockSpec == ClockInit /\ [][ClockNext]_clock

-----------------------------------------------------------------------------
(* Properties *)

\* 1970-01-01 is 30 years, 7 of them leap years, before 2000-01-01.
Before2000 == 30 * 365 + 7

\* The formula counts every day once, across leap days, the year 2000 and the
\* ends of years ("the formula works only for 2xxx", modem_helper.c:69).
EpochCountsDays == EpochDay(year, month, day) = Before2000 + since
=============================================================================
