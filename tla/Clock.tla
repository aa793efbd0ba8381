-------------------------------- MODULE Clock --------------------------------
(***************************************************************************)
(* The real-time clock: the chip, the system calls gettime and settime     *)
(* (Kernel/time.c on Kernel/rtc-driver.c), and the shell commands date,    *)
(* time, setdate and settime (Userland/shell/command.c).                   *)
(*                                                                         *)
(* The chip runs on its own and is read and written one register at a      *)
(* time: it may tick between any two accesses, whether or not interrupts   *)
(* are off.  A register is a byte, binary or BCD; a character is its code. *)
(***************************************************************************)
EXTENDS Integers, Sequences

CONSTANTS
  Modes,    \* the settings of status register B: [bcd, h24]
  Starts,   \* the times at which the system may come up
  Args,     \* the arguments of settime and setdate
  MaxTicks, \* bound: ticks of the chip
  MaxCalls  \* bound: commands

Fields == {"sec", "min", "hour", "day", "mon", "year"}
Bytes  == 0 .. 255

\* What the registers hold, as far as settime checks it: it lets 60 seconds,
\* 60 minutes and 24 hours pass.
Times == [sec : 0 .. 60, min : 0 .. 60, hour : 0 .. 24,
          day : 1 .. 31, mon : 1 .. 12, year : 0 .. 99]

ASSUME ClockAssumption ==
  /\ Modes \subseteq [bcd : BOOLEAN, h24 : BOOLEAN]
  /\ Starts \subseteq Times
  /\ \A arg \in Args : arg \in Seq(Bytes)
  /\ {MaxTicks, MaxCalls} \subseteq Nat

VARIABLES
  clock, \* the time that the chip keeps, binary and of 24 hours
  B,     \* its status register B
  cmd,   \* the command under way
  arg,   \* its argument
  pc,    \* what it is doing: "idle", "get", "set" or "done"
  k,     \* the number of the register that is next
  time,  \* its struct rtc_time; while it reads, the bytes read
  since, \* history: the clock when the reading or writing began
  ticks, \* history: ticks since then
  total, \* ticks so far
  calls  \* commands so far

vars == <<clock, B, cmd, arg, pc, k, time, since, ticks, total, calls>>

\* Fault: the registers are gone through from the day down.
Order_reversed == <<"day", "year", "mon", "hour", "min", "sec">>

\* The order in which the registers are read and written.
Order == <<"sec", "min", "hour", "mon", "year", "day">>

-----------------------------------------------------------------------------
BCD2BIN(val) == (val % 16) + (val \div 16) * 10

BIN2BCD(val) == (val \div 10) * 16 + (val % 10)

\* The chip: the byte in the register of field f when it holds value v, with
\* the PM bit on the hours of a 12 hour clock; and the value of a byte.
Byte(f, v) ==
  LET hour12 == IF v % 12 = 0 THEN 12 ELSE v % 12
      w  == IF f = "hour" /\ ~ B.h24 THEN hour12 ELSE v
      pm == IF f = "hour" /\ ~ B.h24 /\ v >= 12 THEN 128 ELSE 0
  IN  pm + (IF B.bcd THEN BIN2BCD(w) ELSE w)

Value(f, byte) ==
  LET low == IF f = "hour" /\ ~ B.h24 THEN byte % 128 ELSE byte
      v   == IF B.bcd THEN BCD2BIN(low) ELSE low
  IN  IF f # "hour" \/ B.h24 THEN v
      ELSE (v % 12) + (IF byte >= 128 THEN 12 ELSE 0)

DaysIn(mon, year) ==
  IF mon = 2 THEN (IF year % 4 = 0 THEN 29 ELSE 28)
  ELSE IF mon \in {4, 6, 9, 11} THEN 30 ELSE 31

\* The time one second later; a value out of range is carried as well.
NextSecond(t) ==
  LET s == t.sec >= 59
      m == s /\ t.min >= 59
      h == m /\ t.hour >= 23
      d == h /\ t.day >= DaysIn(t.mon, t.year)
      y == d /\ t.mon >= 12
  IN  [sec  |-> IF s THEN 0 ELSE t.sec + 1,
       min  |-> IF m THEN 0 ELSE IF s THEN t.min + 1 ELSE t.min,
       hour |-> IF h THEN 0 ELSE IF m THEN t.hour + 1 ELSE t.hour,
       day  |-> IF d THEN 1 ELSE IF h THEN t.day + 1 ELSE t.day,
       mon  |-> IF y THEN 1 ELSE IF d THEN t.mon + 1 ELSE t.mon,
       year |-> IF y THEN (t.year + 1) % 100 ELSE t.year]

-----------------------------------------------------------------------------
Init ==
  /\ clock \in Starts
  /\ B \in Modes
  /\ cmd = "none" /\ arg = <<>> /\ pc = "idle" /\ k = 1
  /\ time = [f \in Fields |-> 0]
  /\ since = clock
  /\ ticks = 0 /\ total = 0 /\ calls = 0

Tick ==
  /\ total < MaxTicks
  /\ clock' = NextSecond(clock)
  /\ ticks' = ticks + 1 /\ total' = total + 1
  /\ UNCHANGED <<B, cmd, arg, pc, k, time, since, calls>>

\* One of the commands date, time, set_date and set_time calls gettime.
Command(c, a) ==
  /\ pc \in {"idle", "done"}
  /\ calls < MaxCalls
  /\ calls' = calls + 1
  /\ cmd' = c /\ arg' = a
  /\ pc' = "get" /\ k' = 1
  /\ since' = clock /\ ticks' = 0
  /\ UNCHANGED <<clock, B, time, total>>

\* syscall_get_time reads a register.
get_rtc_crt ==
  /\ pc = "get" /\ k <= Len(Order)
  /\ time' = [time EXCEPT ![Order[k]] = Byte(Order[k], clock[Order[k]])]
  /\ k' = k + 1
  /\ UNCHANGED <<clock, B, cmd, arg, pc, since, ticks, total, calls>>

(***************************************************************************)
(* The conversion of the bytes read.  The PM bit is looked for in the hour *)
(* after that has been taken from BCD to binary.                           *)
(***************************************************************************)
FromBytes(t) ==
  LET bin  == IF B.bcd THEN [f \in Fields |-> BCD2BIN(t[f]) % 256] ELSE t
      hour == bin.hour
  IN  IF ~ B.h24 /\ hour >= 128
        THEN [bin EXCEPT !.hour = ((hour % 128) + 12) % 24] ELSE bin

\* The conversion of the bytes to be written.
ToBytes(t) ==
  LET bytes == IF B.bcd THEN [f \in Fields |-> BIN2BCD(t[f]) % 256] ELSE t
      hour  == bytes.hour
  IN  IF ~ B.h24 /\ hour >= 128
        THEN [bytes EXCEPT !.hour = ((hour % 128) + 12) % 24] ELSE bytes

-----------------------------------------------------------------------------
\* The comparison with '9' leaves it out.
is_num(c) == c >= 48 /\ c < 57

\* The two digits at positions i and i + 1.
Digits(s, i) == (s[i] - 48) * 10 + s[i + 1] - 48

\* A string of eight characters: three pairs of digits with sep in between.
Shaped(s, sep) ==
  /\ Len(s) = 8
  /\ s[3] = sep /\ s[6] = sep
  /\ \A i \in {1, 2, 4, 5, 7, 8} : is_num(s[i])

valid_time(sec, min, hrs) == sec <= 60 /\ min <= 60 /\ hrs <= 24

is_leap_year(year) == (year % 4 = 0 /\ year % 100 # 0) \/ year % 400 = 0

\* Fault: the lengths of the months are looked up one month too far.
monthlen_next(month, year) ==
  CASE month = 1 -> IF is_leap_year(year) THEN 29 ELSE 28
    [] month \in {3, 5, 8, 10} -> 30
    [] OTHER -> 31

monthlen(month, year) ==
  CASE month = 2 -> IF is_leap_year(year) THEN 29 ELSE 28
    [] month \in {4, 6, 9, 11} -> 30
    [] OTHER -> 31

valid_date(day, month, year) ==
  month \in 1 .. 12 /\ day \in 1 .. monthlen(month, year)

\* parse_time accepts the string, which is ss:mm:hh; parse_date, dd/mm/yy.
parse_time(s) ==
  Shaped(s, 58) /\ valid_time(Digits(s, 1), Digits(s, 4), Digits(s, 7))

parse_date(s) ==
  Shaped(s, 47) /\ valid_date(Digits(s, 1), Digits(s, 4), Digits(s, 7))

\* The six registers have been read, and the command goes on.
Got == pc = "get" /\ k = Len(Order) + 1

\* date and time print what they got.
show ==
  /\ Got /\ cmd \in {"date", "time"}
  /\ time' = FromBytes(time)
  /\ pc' = "done"
  /\ UNCHANGED <<clock, B, cmd, arg, k, since, ticks, total, calls>>

\* set_time or set_date refuses its argument.
refuse ==
  /\ Got
  /\ \/ cmd = "set_time" /\ ~ parse_time(arg)
     \/ cmd = "set_date" /\ ~ parse_date(arg)
  /\ time' = FromBytes(time)
  /\ pc' = "idle"
  /\ UNCHANGED <<clock, B, cmd, arg, k, since, ticks, total, calls>>

\* set_date enters the date in its struct and returns.
set_date ==
  /\ Got /\ cmd = "set_date" /\ parse_date(arg)
  /\ time' = [FromBytes(time) EXCEPT !.day = Digits(arg, 1),
                                     !.mon = Digits(arg, 4),
                                     !.year = Digits(arg, 7)]
  /\ pc' = "done"
  /\ UNCHANGED <<clock, B, cmd, arg, k, since, ticks, total, calls>>

\* Fault: the minutes and the hours are taken for each other.
NewTime_swapped ==
  [FromBytes(time) EXCEPT !.sec = Digits(arg, 1), !.min = Digits(arg, 7),
                          !.hour = Digits(arg, 4)]

NewTime ==
  [FromBytes(time) EXCEPT !.sec = Digits(arg, 1), !.min = Digits(arg, 4),
                          !.hour = Digits(arg, 7)]

\* set_time enters the time in its struct and calls settime.
set_time ==
  /\ Got /\ cmd = "set_time" /\ parse_time(arg)
  /\ time' = NewTime
  /\ pc' = "set" /\ k' = 1
  /\ since' = clock /\ ticks' = 0
  /\ UNCHANGED <<clock, B, cmd, arg, total, calls>>

\* syscall_set_time writes a register; after the last one it returns.
set_rtc_crt ==
  LET f == Order[k]
  IN  /\ pc = "set"
      /\ clock' = [clock EXCEPT ![f] = Value(f, ToBytes(time)[f])]
      /\ k' = k + 1
      /\ pc' = IF k = Len(Order) THEN "done" ELSE "set"
      /\ ticks' = IF k = 1 THEN 0 ELSE ticks
      /\ UNCHANGED <<B, cmd, arg, time, since, total, calls>>

Next ==
  \/ Tick
  \/ \E c \in {"date", "time"} : Command(c, <<>>)
  \/ \E c \in {"set_date", "set_time"}, a \in Args : Command(c, a)
  \/ get_rtc_crt \/ show \/ refuse \/ set_date \/ set_time \/ set_rtc_crt

Spec == Init /\ [][Next]_vars

-----------------------------------------------------------------------------
\* A date that parse_date accepts exists in the calendar of the chip
\* (valid_date, is_leap_year).
DateExists ==
  pc = "done" /\ cmd = "set_date" =>
    time.mon \in 1 .. 12 /\ time.day \in 1 .. DaysIn(time.mon, time.year)

\* The registers hold a time as far as settime checks it; dates exist.
TypeOK ==
  /\ DateExists
  /\ {clock, since} \subseteq Times /\ B \in Modes
  /\ cmd \in {"none", "date", "time", "set_date", "set_time"}
  /\ arg \in Args \cup {<<>>}
  /\ pc \in {"idle", "get", "set", "done"}
  /\ k \in 1 .. Len(Order) + 1
  /\ time \in [Fields -> Bytes]
  /\ {ticks, total} \subseteq 0 .. MaxTicks /\ calls \in 0 .. MaxCalls

\* The seconds of a time, from the beginning of its month.
Seconds(t) == ((t.day * 24 + t.hour) * 60 + t.min) * 60 + t.sec

SameMonth(t, u) == t.mon = u.mon /\ t.year = u.year

\* A time of day that exists.
Exists(t) == t.sec < 60 /\ t.min < 60 /\ t.hour < 24

\* Less than a minute has passed since the reading or writing began.
Quick == ticks < 60

Shown == pc = "done" /\ cmd \in {"date", "time"} /\ B.h24

(***************************************************************************)
(* A reading during which the chip does not tick shows the chip's time,    *)
(* through either encoding.  One that ticks tear may run ahead by a carry  *)
(* that it met half-way, but never shows a time before the call, unless    *)
(* the month changes meanwhile: the registers are read from the seconds up *)
(* (syscall_get_time, on a clock of 24 hours that settime has not left at  *)
(* a time that does not exist).                                            *)
(***************************************************************************)
ReadNotBehind ==
  Shown =>
    /\ ticks = 0 => time = since
    /\ Quick /\ Exists(since) /\ SameMonth(since, clock) =>
         Seconds(time) >= Seconds(since)

\* The time that set_time was asked for, on the date that it read.
Asked == [time EXCEPT !.sec = Digits(arg, 1), !.min = Digits(arg, 4),
                      !.hour = Digits(arg, 7)]

\* set_time has written a time that exists.
Set == pc = "done" /\ cmd = "set_time" /\ B.h24 /\ Exists(Asked)

(***************************************************************************)
(* settime leaves the chip at the time asked for plus the seconds that     *)
(* have passed since, or a minute short of it, when the chip carried into  *)
(* registers that were still to be written; it is never ahead, and the     *)
(* month stays (syscall_set_time, set_time, parse_time).                   *)
(***************************************************************************)
SetNotAhead ==
  Set /\ Quick =>
    /\ SameMonth(Asked, clock)
    /\ Seconds(Asked) + ticks - Seconds(clock) \in {0, 60}

=============================================================================
