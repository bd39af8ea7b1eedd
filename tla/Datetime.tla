------------------------------ MODULE Datetime ------------------------------
(***************************************************************************)
(* The system time (kernel/datetime.c).  The interrupt of the kernel's     *)
(* timer counts it up and, when a task has asked for it, sets it by the    *)
(* RTC, whose resolution is a second.  Tasks read it without a lock, in    *)
(* get_systime(), one load at a time.  The conversions between a time and  *)
(* a date are functions.                                                   *)
(*                                                                         *)
(* A second has SecondTicks interrupts, usec counts them.                  *)
(***************************************************************************)
EXTENDS Integers

CONSTANTS
    SecondTicks,   \* interrupts of the timer in a second
    MaxSec,        \* bound: seconds counted
    LastDay        \* bound: the last day for which the conversions are checked

ASSUME DatetimeAssumption ==
    SecondTicks \in Nat \ {0} /\ MaxSec \in Nat /\ LastDay \in Nat

VARIABLES
    sec, usec,     \* system_time
    rtc,           \* the RTC, in interrupts
    tsync_status,  \* "none" or "sync"
    last_rtc,      \* last_rtcsystime.sec, 0 for none
    fixed,         \* the time was set by the RTC
    reading,        \* where get_systime() is
    r_sec, r_usec, \* what it has read
    began,         \* the time when it began
    jumped         \* the time was set while it read

datetimeVars == <<sec, usec, rtc, tsync_status, last_rtc, fixed,
                  reading, r_sec, r_usec, began, jumped>>
readingVars == <<reading, r_sec, r_usec, began>>

Now == sec * SecondTicks + usec
RtcSec == rtc \div SecondTicks

\* The RTC runs before the system does.
DatetimeInit ==
    /\ sec = 0 /\ usec = 0
    /\ rtc \in SecondTicks..(2 * SecondTicks)
    /\ tsync_status = "none" /\ last_rtc = 0 /\ fixed = FALSE
    /\ reading = "idle" /\ r_sec = 0 /\ r_usec = 0 /\ began = 0 /\ jumped = FALSE

-----------------------------------------------------------------------------
(* The interrupt, and what asks it to read the RTC. *)

\* sync_time(), up to its wait for the interrupt.
SyncTime ==
    /\ tsync_status = "none"
    /\ tsync_status' = "sync" /\ last_rtc' = 0
    /\ UNCHANGED <<sec, usec, rtc, fixed, readingVars, jumped>>

\* The mistake of taking the second as it is found.
SyncIsDue_AtOnce(rtcsec) == TRUE

\* The time is set when the second of the RTC has changed.
SyncIsDue(rtcsec) == last_rtc # 0 /\ last_rtc # rtcsec

TimeCountProc ==
    /\ sec < MaxSec /\ rtc < (MaxSec + 2) * SecondTicks
    /\ rtc' = rtc + 1
    /\ LET due == tsync_status = "sync" /\ SyncIsDue(RtcSec')
           wraps == usec + 1 = SecondTicks
       IN /\ sec' = IF due THEN RtcSec' ELSE IF wraps THEN sec + 1 ELSE sec
          /\ usec' = IF due \/ wraps THEN 0 ELSE usec + 1
          /\ tsync_status' = IF due THEN "none" ELSE tsync_status
          /\ last_rtc' = IF tsync_status = "sync" /\ last_rtc = 0 THEN RtcSec' ELSE last_rtc
          /\ fixed' = (fixed \/ due)
          /\ jumped' = (jumped \/ due)
    /\ UNCHANGED readingVars

-----------------------------------------------------------------------------
(* get_systime(), one load of system_time at a time. *)

ReadSec ==
    /\ reading = "idle"
    /\ reading' = "usec" /\ r_sec' = sec /\ began' = Now /\ jumped' = FALSE
    /\ UNCHANGED <<sec, usec, rtc, tsync_status, last_rtc, fixed, r_usec>>

ReadUsec ==
    /\ reading = "usec"
    /\ reading' = "usec2" /\ r_usec' = usec
    /\ UNCHANGED <<sec, usec, rtc, tsync_status, last_rtc, fixed, r_sec, began, jumped>>

ReadUsec2 ==
    /\ reading = "usec2"
    /\ reading' = IF usec < r_usec THEN "again" ELSE "last"
    /\ UNCHANGED <<sec, usec, rtc, tsync_status, last_rtc, fixed, r_sec, r_usec, began, jumped>>

ReadSecAgain ==
    /\ reading = "again"
    /\ reading' = "last" /\ r_sec' = sec
    /\ UNCHANGED <<sec, usec, rtc, tsync_status, last_rtc, fixed, r_usec, began, jumped>>

ReadUsecLast ==
    /\ reading = "last"
    /\ reading' = "done" /\ r_usec' = usec
    /\ UNCHANGED <<sec, usec, rtc, tsync_status, last_rtc, fixed, r_sec, began, jumped>>

ReadReturns ==
    /\ reading = "done"
    /\ reading' = "idle" /\ r_sec' = 0 /\ r_usec' = 0 /\ began' = 0 /\ jumped' = FALSE
    /\ UNCHANGED <<sec, usec, rtc, tsync_status, last_rtc, fixed>>

DatetimeNext ==
    \/ SyncTime \/ TimeCountProc
    \/ ReadSec \/ ReadUsec \/ ReadUsec2 \/ ReadSecAgain \/ ReadUsecLast \/ ReadReturns

DatetimeSpec == DatetimeInit /\ [][DatetimeNext]_datetimeVars

-----------------------------------------------------------------------------
(* Dates.  A time is a day since 1970/01/01 and a second of that day. *)

SecondsOfDay == 24 * 60 * 60
DiffFromLocalTime == 9 * 60 * 60   \* GSC_DIFF_FROM_LOCAL_TIME_SEC

\* Quotients as C has them here, of numbers that are not negative.
Jd2Greg(jday) ==
    LET jd0 == jday + 32045
        century == (4 * jd0 - 1) \div 146097
        jd1 == jd0 - (146097 * century) \div 4
        y == (4 * jd1 - 1) \div 1461
        jd2 == jd1 - (1461 * y) \div 4
        m == (5 * jd2 - 3) \div 153 + 3
    IN  [year |-> y + 100 * century - 4800 + (IF m > 12 THEN 1 ELSE 0),
         month |-> IF m > 12 THEN m - 12 ELSE m,
         day |-> jd2 - (153 * m - 457) \div 5]

DayOfWeek(date) ==
    LET t == <<0, 3, 2, 5, 0, 3, 5, 1, 4, 6, 2, 4>>
        year == IF date.month < 3 THEN date.year - 1 ELSE date.year
    IN  (year + year \div 4 - year \div 100 + year \div 400 + t[date.month] + date.day) % 7

UnixtimeToDate(day) == Jd2Greg(day + 2440588)

\* systime_to_datetime(): the date and the second of the day, local.
SystimeToDatetime(t) ==
    LET s == t.second + DiffFromLocalTime
    IN  [date |-> UnixtimeToDate(t.day + s \div SecondsOfDay), second |-> s % SecondsOfDay]

DaysOfDate(date) ==
    LET early == date.month - 2 < 1
        year == IF early THEN date.year - 1 ELSE date.year
        month == IF early THEN date.month + 10 ELSE date.month - 2
    IN  (year \div 4 - year \div 100 + year \div 400 + (367 * month) \div 12 + date.day)
          + year * 365 - 719499

\* datetime_to_utc().
DatetimeToUtc(d) ==
    LET s == d.second - DiffFromLocalTime
    IN  [day |-> DaysOfDate(d.date) + s \div SecondsOfDay, second |-> s % SecondsOfDay]

IsLeapYear(year) ==
    year >= 4 /\ (year % 400 = 0 \/ (year % 100 # 0 /\ year % 4 = 0))

\* A day is added to every month of a leap year.
NumOfDayInMonth(year, month) ==
    <<31, 28, 31, 30, 31, 30, 31, 31, 30, 31, 30, 31>>[month]
      + (IF IsLeapYear(year) THEN 1 ELSE 0)

-----------------------------------------------------------------------------
(* Properties. *)

DatetimeTypeOK ==
    /\ usec \in 0..(SecondTicks - 1) /\ sec \in 0..(MaxSec + 2)
    /\ tsync_status \in {"none", "sync"}
    /\ reading \in {"idle", "usec", "usec2", "again", "last", "done"}

\* What get_systime() returns is never ahead of the time, and not a second
\* behind the moment when it was called, whatever interrupts came between its
\* loads.  Excepted is the reading in which the time was set by the RTC.
ReadsAreClose ==
    reading = "done" /\ ~ jumped =>
        LET read == r_sec * SecondTicks + r_usec
        IN  read > began - SecondTicks /\ read <= Now

\* The RTC only tells seconds, and yet the time that was set by it is right to
\* an interrupt.
FixedByTheRtc == fixed => Now = rtc

\* The day after a date.
LengthOfMonth(year, month) ==
    IF month = 2
      THEN IF (year % 4 = 0 /\ year % 100 # 0) \/ year % 400 = 0 THEN 29 ELSE 28
      ELSE IF month \in {4, 6, 9, 11} THEN 30 ELSE 31
DayAfter(d) ==
    IF d.day < LengthOfMonth(d.year, d.month) THEN [d EXCEPT !.day = @ + 1]
    ELSE IF d.month < 12 THEN [d EXCEPT !.day = 1, !.month = @ + 1]
    ELSE [year |-> d.year + 1, month |-> 1, day |-> 1]

\* Counted from 1970/01/01, a Thursday, each day has the date that follows, the
\* next day of the week, and is found again from its date.
DatesFollowTheCalendar ==
    /\ UnixtimeToDate(0) = [year |-> 1970, month |-> 1, day |-> 1]
    /\ \A day \in 0..LastDay :
         LET d == UnixtimeToDate(day) IN
         /\ UnixtimeToDate(day + 1) = DayAfter(d)
         /\ DayOfWeek(d) = (day + 4) % 7
         /\ DaysOfDate(d) = day

\* A system time and its local date and time are converted into each other, also
\* where the local day is another one.
LocalTimesAreFoundAgain ==
    \A day \in 0..LastDay :
      \A s \in {0, 53999, 54000, 86399} :
        LET t == [day |-> day, second |-> s] IN DatetimeToUtc(SystimeToDatetime(t)) = t

\* Months have their days in common years, and February in every year.
MonthsHaveTheirDays ==
    \A year \in 1970..2100, month \in 1..12 :
        month = 2 \/ ~ IsLeapYear(year) =>
            NumOfDayInMonth(year, month) = LengthOfMonth(year, month)

\* The system time: counted, read, set by the RTC and told as a date.
DatetimeInv ==
    /\ DatetimeTypeOK /\ ReadsAreClose /\ FixedByTheRtc
    /\ DatesFollowTheCalendar /\ LocalTimesAreFoundAgain /\ MonthsHaveTheirDays

=============================================================================
