----------------------------- MODULE ClockProofs -----------------------------
(***************************************************************************)
(* Proofs about the clock, for every mode and start of the chip, every set *)
(* of arguments and every number of ticks, at any places.                  *)
(***************************************************************************)
EXTENDS Clock, SequenceTheorems, TLAPS

\* What a byte that was read stands for, on a clock of 24 hours.
Read(byte) == IF B.bcd THEN BCD2BIN(byte) % 256 ELSE byte

(***************************************************************************)
(* The types.  While registers are read, the date that is already there    *)
(* stands for one that the chip had; while they are written, the struct    *)
(* holds what parse_time has accepted: the digit 9 does not occur in it.   *)
(***************************************************************************)
GetInv ==
  pc = "get" =>
    /\ k > 4 => Read(time.mon) \in 1 .. 12
    /\ k > 5 => Read(time.year) \in 0 .. 99
    /\ k > 6 => Read(time.day) \in 1 .. 31

SetInv ==
  /\ pc = "set" => cmd = "set_time" /\ k \in 1 .. 6
  /\ pc \in {"set", "done"} /\ cmd = "set_time" =>
       /\ time \in Times
       /\ time.sec = Digits(arg, 1) /\ time.sec # 59
       /\ time.min = Digits(arg, 4) /\ time.min # 59
       /\ time.hour = Digits(arg, 7)

Types == TypeOK /\ ticks <= total /\ GetInv /\ SetInv

(***************************************************************************)
(* The time that a reading will show if the chip does not tick any more:   *)
(* the registers that have been read, and the clock's others.              *)
(***************************************************************************)
View ==
  IF pc = "done" THEN time
  ELSE [sec  |-> IF k > 1 THEN Read(time.sec)  ELSE clock.sec,
        min  |-> IF k > 2 THEN Read(time.min)  ELSE clock.min,
        hour |-> IF k > 3 THEN Read(time.hour) ELSE clock.hour,
        mon  |-> IF k > 4 THEN Read(time.mon)  ELSE clock.mon,
        year |-> IF k > 5 THEN Read(time.year) ELSE clock.year,
        day  |-> IF k > 6 THEN Read(time.day)  ELSE clock.day]

Reading == B.h24 /\ (pc = "get" \/ (pc = "done" /\ cmd \in {"date", "time"}))

(***************************************************************************)
(* The view is never behind the time at which the reading began, as long   *)
(* as the month is the same; once it has changed, it stays changed for the *)
(* minute that counts.                                                     *)
(***************************************************************************)
ReadInv ==
  Reading =>
    /\ ticks = 0 => clock = since /\ View = since
    /\ Quick /\ Exists(since) =>
         /\ Exists(clock)
         /\ SameMonth(since, clock) => Seconds(View) >= Seconds(since)
         /\ ~ SameMonth(since, clock) =>
              clock.day = 1 /\ clock.hour = 0 /\ clock.min = 0
              /\ clock.sec < ticks

\* The n-th register has been written.
Written(n) == IF pc = "done" THEN n <= 6 ELSE n < k

(***************************************************************************)
(* The registers written so far run on from what was written; the minutes  *)
(* cannot carry a second time, as 59 cannot be asked for.                  *)
(***************************************************************************)
WriteInv ==
  B.h24 /\ pc \in {"set", "done"} /\ cmd = "set_time" /\ Exists(time) /\ Quick
  =>
    /\ Written(1) =>
         clock.sec < 60 /\ time.sec + ticks - clock.sec \in {0, 60}
    /\ Written(2) => \/ clock.min = time.min
                    \/ /\ clock.min = time.min + 1
                       /\ clock.sec = time.sec + ticks - 60
    /\ Written(3) => clock.hour = time.hour
    /\ Written(4) => clock.mon = time.mon
    /\ Written(5) => clock.year = time.year
    /\ Written(6) => clock.day = time.day

ClockInv == Types /\ ReadInv /\ WriteInv

-----------------------------------------------------------------------------
(***************************************************************************)
(* Conversions.                                                            *)
(***************************************************************************)

\* BCD2BIN undoes BIN2BCD on two digits.
LEMMA BcdInverse ==
  ASSUME NEW v \in 0 .. 99
  PROVE  /\ BIN2BCD(v) \in 0 .. 153
         /\ BCD2BIN(BIN2BCD(v)) = v
         /\ v <= 24 => BIN2BCD(v) <= 36
<1>1. PICK a \in 0 .. 9, r \in 0 .. 9 :
        a = v \div 10 /\ r = v % 10 /\ v = 10 * a + r
  <2>1. v \div 10 \in 0 .. 9 /\ v % 10 \in 0 .. 9
        /\ v = 10 * (v \div 10) + (v % 10)
    OBVIOUS
  <2> QED BY <2>1
<1>2. BIN2BCD(v) = 16 * a + r
  BY <1>1 DEF BIN2BCD
<1>3. (16 * a + r) % 16 = r /\ (16 * a + r) \div 16 = a
  OBVIOUS
<1>4. BCD2BIN(16 * a + r) = v
  BY <1>1, <1>3 DEF BCD2BIN
<1> QED BY <1>1, <1>2, <1>4

\* What BCD2BIN makes of a byte.
LEMMA BcdByte ==
  ASSUME NEW b \in Bytes
  PROVE  BCD2BIN(b) \in 0 .. 165
<1>1. b % 16 \in 0 .. 15 /\ b \div 16 \in 0 .. 15
  BY DEF Bytes
<1> QED BY <1>1 DEF BCD2BIN

\* A register is a byte.
LEMMA ByteType ==
  ASSUME NEW f \in Fields, NEW v \in 0 .. 99
  PROVE  Byte(f, v) \in Bytes
<1> DEFINE hour12 == IF v % 12 = 0 THEN 12 ELSE v % 12
           w  == IF f = "hour" /\ ~ B.h24 THEN hour12 ELSE v
           pm == IF f = "hour" /\ ~ B.h24 /\ v >= 12 THEN 128 ELSE 0
<1>1. hour12 \in 1 .. 12
  OBVIOUS
<1>2. w \in 0 .. 99 /\ (pm = 0 \/ (pm = 128 /\ w <= 12))
  BY <1>1
<1>3. Byte(f, v) = pm + (IF B.bcd THEN BIN2BCD(w) ELSE w)
  BY DEF Byte
<1> HIDE DEF hour12, w, pm
<1>4. BIN2BCD(w) \in 0 .. 153 /\ (w <= 24 => BIN2BCD(w) <= 36)
  BY <1>2, BcdInverse
<1>5. pm \in {0, 128}
  BY <1>2
<1>6. CASE B.bcd
  BY <1>2, <1>3, <1>4, <1>6 DEF Bytes
<1>7. CASE ~ B.bcd
  BY <1>2, <1>3, <1>7 DEF Bytes
<1> QED BY <1>6, <1>7

\* Reading a register gives the value that the chip has in it.
LEMMA ReadBack ==
  ASSUME NEW f \in Fields, NEW v \in 0 .. 99, f # "hour" \/ B.h24
  PROVE  Read(Byte(f, v)) = v
<1>1. Byte(f, v) = 0 + (IF B.bcd THEN BIN2BCD(v) ELSE v)
  BY DEF Byte
<1>2. v % 256 = v
  OBVIOUS
<1>3. CASE B.bcd
  <2>1. BIN2BCD(v) \in 0 .. 153 /\ BCD2BIN(BIN2BCD(v)) = v
    BY BcdInverse
  <2>2. Byte(f, v) = BIN2BCD(v)
    BY <1>1, <1>3, <2>1
  <2> QED BY <1>2, <1>3, <2>1, <2>2 DEF Read
<1>4. CASE ~ B.bcd
  BY <1>1, <1>4 DEF Read
<1> QED BY <1>3, <1>4

\* What the conversion of the bytes read leaves in the struct.
LEMMA FromBytesIs ==
  ASSUME NEW t \in [Fields -> Bytes]
  PROVE  /\ FromBytes(t) \in [Fields -> Bytes]
         /\ \A f \in Fields :
              f # "hour" \/ B.h24 => FromBytes(t)[f] = Read(t[f])
<1> DEFINE bin == IF B.bcd THEN [f \in Fields |-> BCD2BIN(t[f]) % 256] ELSE t
<1>1. bin \in [Fields -> Bytes] /\ \A f \in Fields : bin[f] = Read(t[f])
  <2>1. CASE B.bcd
    <3>1. ASSUME NEW f \in Fields PROVE BCD2BIN(t[f]) % 256 \in Bytes
      <4>1. BCD2BIN(t[f]) \in 0 .. 165
        BY BcdByte
      <4> QED BY <4>1 DEF Bytes
    <3> QED BY <2>1, <3>1 DEF Read
  <2>2. CASE ~ B.bcd
    BY <2>2 DEF Read
  <2> QED BY <2>1, <2>2
<1>2. FromBytes(t) = IF ~ B.h24 /\ bin.hour >= 128
                     THEN [bin EXCEPT !.hour = ((bin.hour % 128) + 12) % 24]
                     ELSE bin
  BY DEF FromBytes
<1> HIDE DEF bin
<1>3. "hour" \in Fields /\ bin.hour \in Bytes
  BY <1>1 DEF Fields
<1>4. ((bin.hour % 128) + 12) % 24 \in Bytes
  BY <1>3 DEF Bytes
<1> QED BY <1>1, <1>2, <1>3, <1>4

\* Writing a register leaves the value of the struct in it.
LEMMA WriteBack ==
  ASSUME NEW t \in Times, NEW f \in Fields
  PROVE  /\ f # "hour" \/ B.h24 => Value(f, ToBytes(t)[f]) = t[f]
         /\ Value("hour", ToBytes(t)["hour"]) \in 0 .. 24
<1> DEFINE bytes == IF B.bcd THEN [g \in Fields |-> BIN2BCD(t[g]) % 256] ELSE t
<1>1. \A g \in Fields : t[g] \in 0 .. 99
  BY DEF Times, Fields
<1>2. t.hour \in 0 .. 24
  BY DEF Times
<1>3. \A g \in Fields :
        /\ bytes[g] = IF B.bcd THEN BIN2BCD(t[g]) ELSE t[g]
        /\ (IF B.bcd THEN BCD2BIN(bytes[g]) ELSE bytes[g]) = t[g]
  <2> SUFFICES ASSUME NEW g \in Fields
               PROVE  /\ bytes[g] = IF B.bcd THEN BIN2BCD(t[g]) ELSE t[g]
                      /\ (IF B.bcd THEN BCD2BIN(bytes[g]) ELSE bytes[g]) = t[g]
    OBVIOUS
  <2>1. BIN2BCD(t[g]) \in 0 .. 153 /\ BCD2BIN(BIN2BCD(t[g])) = t[g]
    BY <1>1, BcdInverse
  <2>2. BIN2BCD(t[g]) % 256 = BIN2BCD(t[g])
    BY <2>1
  <2> QED BY <2>1, <2>2
<1>4. "hour" \in Fields /\ bytes.hour \in 0 .. 36
  <2>1. "hour" \in Fields
    BY DEF Fields
  <2>2. BIN2BCD(t.hour) \in 0 .. 36
    <3>1. t.hour \in 0 .. 99 /\ t.hour <= 24
      BY <1>2
    <3>2. /\ BIN2BCD(t.hour) \in 0 .. 153
          /\ t.hour <= 24 => BIN2BCD(t.hour) <= 36
      BY <3>1, BcdInverse
    <3> QED BY <3>1, <3>2
  <2> QED BY <1>2, <1>3, <2>1, <2>2
<1>5. ToBytes(t) = bytes
  BY <1>4 DEF ToBytes
<1> HIDE DEF bytes
<1>6. f # "hour" \/ B.h24 => Value(f, bytes[f]) = t[f]
  BY <1>3 DEF Value
<1>7. Value("hour", bytes.hour) \in 0 .. 24
  <2>1. CASE B.h24
    BY <1>2, <1>3, <1>4, <2>1 DEF Value
  <2>2. CASE ~ B.h24
    <3>1. bytes.hour % 128 = bytes.hour
      BY <1>4
    <3>2. Value("hour", bytes.hour) = (t.hour % 12) + 0
      BY <1>3, <1>4, <2>2, <3>1 DEF Value
    <3> QED BY <1>2, <3>2
  <2> QED BY <2>1, <2>2
<1> QED BY <1>5, <1>6, <1>7

-----------------------------------------------------------------------------
(***************************************************************************)
(* Types.                                                                  *)
(***************************************************************************)

\* The registers, in the order in which they are read and written.
LEMMA OrderIs ==
  /\ Len(Order) = 6
  /\ Order[1] = "sec" /\ Order[2] = "min" /\ Order[3] = "hour"
  /\ Order[4] = "mon" /\ Order[5] = "year" /\ Order[6] = "day"
  /\ \A i \in 1 .. 6 : Order[i] \in Fields
  BY DEF Order, Fields

\* A tick leads from one time to another.
LEMMA NextSecondType ==
  ASSUME NEW t \in Times
  PROVE  NextSecond(t) \in Times
<1>1. /\ t.sec \in 0 .. 60 /\ t.min \in 0 .. 60 /\ t.hour \in 0 .. 24
      /\ t.day \in 1 .. 31 /\ t.mon \in 1 .. 12 /\ t.year \in 0 .. 99
  BY DEF Times
<1>2. DaysIn(t.mon, t.year) \in 28 .. 31
  BY DEF DaysIn
<1>3. (t.year + 1) % 100 \in 0 .. 99
  BY <1>1
<1>4. t.day < DaysIn(t.mon, t.year) => t.day + 1 \in 1 .. 31
  BY <1>1, <1>2
<1> HIDE DEF DaysIn
<1> QED BY <1>1, <1>2, <1>3, <1>4 DEF NextSecond, Times

\* Every value of a register has two digits.
LEMMA TwoDigits ==
  ASSUME NEW t \in Times, NEW f \in Fields
  PROVE  t[f] \in 0 .. 99
  BY DEF Times, Fields

\* What is_num accepts twice is a number without the digit 9.
LEMMA DigitsType ==
  ASSUME NEW s, NEW i \in Nat, s[i] \in Bytes, s[i + 1] \in Bytes,
         is_num(s[i]), is_num(s[i + 1])
  PROVE  Digits(s, i) \in 0 .. 88 /\ Digits(s, i) # 59
<1>1. PICK a \in 0 .. 8, b \in 0 .. 8 : a = s[i] - 48 /\ b = s[i + 1] - 48
  BY DEF is_num, Bytes
<1>2. Digits(s, i) = a * 10 + b
  BY <1>1 DEF Digits, Bytes
<1> QED BY <1>2

\* The digits of an argument.
LEMMA ShapedDigits ==
  ASSUME NEW s \in Seq(Bytes), NEW sep, Shaped(s, sep), NEW i \in {1, 4, 7}
  PROVE  Digits(s, i) \in 0 .. 88 /\ Digits(s, i) # 59
<1>1. i \in 1 .. 8 /\ i + 1 \in 1 .. 8 /\ i \in Nat
      /\ is_num(s[i]) /\ is_num(s[i + 1]) /\ Len(s) = 8
  BY DEF Shaped
<1>2. s[i] \in Bytes /\ s[i + 1] \in Bytes
  BY <1>1, ElementOfSeq
<1> QED BY <1>1, <1>2, DigitsType

\* parse_date accepts dates of the chip's calendar: a year of two digits is
\* a leap year by the rule of is_leap_year when 4 divides it.
LEMMA DateIsValid ==
  ASSUME NEW day \in 0 .. 88, NEW month \in 0 .. 88, NEW year \in 0 .. 88,
         valid_date(day, month, year)
  PROVE  month \in 1 .. 12 /\ day \in 1 .. DaysIn(month, year)
<1>1. is_leap_year(year) <=> year % 4 = 0
  <2>1. year % 400 = year /\ year % 100 = year
    OBVIOUS
  <2>2. year = 0 => year % 4 = 0
    OBVIOUS
  <2> QED BY <2>1, <2>2 DEF is_leap_year
<1>2. monthlen(month, year) = DaysIn(month, year)
  BY <1>1 DEF monthlen, DaysIn
<1> QED BY <1>2 DEF valid_date

\* The state of the chip and of the command, without the history.
LEMMA TypesUnfold ==
  ASSUME Types
  PROVE  /\ clock \in Times /\ since \in Times /\ B \in Modes
         /\ time \in [Fields -> Bytes] /\ k \in 1 .. 7
         /\ arg \in Args \cup {<<>>}
         /\ ticks \in Nat /\ total \in Nat /\ calls \in Nat
         /\ ticks <= total /\ total <= MaxTicks /\ calls <= MaxCalls
         /\ MaxTicks \in Nat /\ MaxCalls \in Nat
  BY OrderIs, ClockAssumption DEF Types, TypeOK

\* The clock comes up with a time in its registers.
LEMMA InitTypes == Init => Types
<1> SUFFICES ASSUME Init PROVE Types
  OBVIOUS
<1>1. clock \in Times /\ since \in Times
  BY ClockAssumption DEF Init
<1>2. time \in [Fields -> Bytes]
  BY DEF Init, Bytes
<1> QED BY <1>1, <1>2, OrderIs, ClockAssumption
        DEF Init, Types, TypeOK, DateExists, GetInv, SetInv

\* A tick changes the registers only.
LEMMA TickTypes == Types /\ Tick => Types'
<1> SUFFICES ASSUME Types, Tick PROVE Types'
  OBVIOUS
<1>1. clock' \in Times
  BY TypesUnfold, NextSecondType DEF Tick
<1>2. ticks' \in 0 .. MaxTicks /\ total' \in 0 .. MaxTicks /\ ticks' <= total'
  BY TypesUnfold DEF Tick
<1>3. TypeOK'
  BY <1>1, <1>2 DEF Tick, Types, TypeOK, DateExists
<1>4. GetInv' /\ SetInv'
  BY DEF Tick, Types, GetInv, SetInv, Read
<1> QED BY <1>2, <1>3, <1>4 DEF Types

\* A command begins to read.
LEMMA CommandTypes ==
  ASSUME Types, NEW c \in {"date", "time", "set_date", "set_time"},
         NEW a \in Args \cup {<<>>}, Command(c, a)
  PROVE  Types'
<1>1. calls' \in 0 .. MaxCalls /\ ticks' = 0 /\ ticks' <= total'
      /\ total' = total /\ 0 \in 0 .. MaxTicks
  BY TypesUnfold DEF Command
<1>2. TypeOK'
  BY <1>1, OrderIs DEF Command, Types, TypeOK, DateExists
<1>3. GetInv' /\ SetInv'
  BY DEF Command, GetInv, SetInv
<1> QED BY <1>1, <1>2, <1>3 DEF Types

\* What reading a register adds to the struct.
LEMMA Fetched ==
  ASSUME Types, get_rtc_crt
  PROVE  /\ k \in 1 .. 6 /\ k' = k + 1
         /\ time' \in [Fields -> Bytes]
         /\ \A f \in Fields :
              time'[f] = IF f = Order[k] THEN Byte(f, clock[f]) ELSE time[f]
<1>1. k \in 1 .. 6 /\ k' = k + 1 /\ Order[k] \in Fields
  BY TypesUnfold, OrderIs DEF get_rtc_crt
<1>2. Byte(Order[k], clock[Order[k]]) \in Bytes
  BY <1>1, TypesUnfold, TwoDigits, ByteType
<1> QED BY <1>1, <1>2, TypesUnfold DEF get_rtc_crt

\* A register that is read holds what the chip has.
LEMMA FetchedValue ==
  ASSUME Types, get_rtc_crt, NEW f \in Fields, f # "hour" \/ B.h24
  PROVE  Read(time[f])' = IF f = Order[k] THEN clock[f] ELSE Read(time[f])
<1>1. B' = B
  BY DEF get_rtc_crt
<1>2. clock[f] \in 0 .. 99
  BY TypesUnfold, TwoDigits
<1>3. PICK b : b = Byte(f, clock[f])
  OBVIOUS
<1>4. Read(b) = clock[f]
  BY <1>2, <1>3, ReadBack
<1>5. time'[f] = IF f = Order[k] THEN b ELSE time[f]
  BY <1>3, Fetched
<1> QED BY <1>1, <1>4, <1>5 DEF Read

\* Reading a register preserves the types.
LEMMA GetTypes == Types /\ get_rtc_crt => Types'
<1> SUFFICES ASSUME Types, get_rtc_crt PROVE Types'
  OBVIOUS
<1>1. pc = "get" /\ pc' = "get"
  BY DEF get_rtc_crt
<1>2. TypeOK'
  BY <1>1, Fetched, OrderIs DEF get_rtc_crt, Types, TypeOK, DateExists
<1>3. GetInv'
  <2>1. /\ "mon" \in Fields /\ "year" \in Fields /\ "day" \in Fields
        /\ clock.mon \in 1 .. 12 /\ clock.year \in 0 .. 99
        /\ clock.day \in 1 .. 31
    BY TypesUnfold DEF Fields, Times
  <2>2. k' > 4 => Read(time.mon)' \in 1 .. 12
    BY <1>1, <2>1, Fetched, FetchedValue, OrderIs DEF Types, GetInv
  <2>3. k' > 5 => Read(time.year)' \in 0 .. 99
    BY <1>1, <2>1, Fetched, FetchedValue, OrderIs DEF Types, GetInv
  <2>4. k' > 6 => Read(time.day)' \in 1 .. 31
    BY <1>1, <2>1, Fetched, FetchedValue, OrderIs DEF Types, GetInv
  <2> QED BY <2>2, <2>3, <2>4 DEF GetInv
<1>4. SetInv'
  BY <1>1 DEF SetInv
<1> QED BY <1>2, <1>3, <1>4 DEF get_rtc_crt, Types

\* date, time and a refused argument end with the bytes converted.
LEMMA ShowTypes == Types /\ (show \/ refuse) => Types'
<1> SUFFICES ASSUME Types, show \/ refuse PROVE Types'
  OBVIOUS
<1>1. time' = FromBytes(time) /\ time' \in [Fields -> Bytes]
  BY TypesUnfold, FromBytesIs DEF show, refuse
<1>2. /\ pc' = "done" => cmd' \in {"date", "time"}
      /\ pc' \in {"idle", "done"}
  BY DEF show, refuse
<1>3. TypeOK'
  BY <1>1, <1>2 DEF show, refuse, Types, TypeOK, DateExists
<1>4. GetInv' /\ SetInv'
  BY <1>2 DEF GetInv, SetInv
<1> QED BY <1>3, <1>4 DEF Types, show, refuse

\* The argument of a command that was accepted.
LEMMA ArgType ==
  ASSUME Types, NEW sep, Shaped(arg, sep)
  PROVE  /\ Digits(arg, 1) \in 0 .. 88 /\ Digits(arg, 1) # 59
         /\ Digits(arg, 4) \in 0 .. 88 /\ Digits(arg, 4) # 59
         /\ Digits(arg, 7) \in 0 .. 88 /\ Digits(arg, 7) # 59
<1>1. arg \in Seq(Bytes)
  <2>1. Len(<<>>) = 0
    OBVIOUS
  <2>2. arg # <<>>
    BY <2>1 DEF Shaped
  <2> QED BY <2>2, TypesUnfold, ClockAssumption
<1> QED BY <1>1, ShapedDigits

\* set_date leaves a date that exists in its struct.
LEMMA SetDateTypes == Types /\ set_date => Types'
<1> SUFFICES ASSUME Types, set_date PROVE Types'
  OBVIOUS
<1>1. PICK d, m, y : d = Digits(arg, 1) /\ m = Digits(arg, 4)
                     /\ y = Digits(arg, 7)
  OBVIOUS
<1>2. d \in 0 .. 88 /\ m \in 0 .. 88 /\ y \in 0 .. 88 /\ valid_date(d, m, y)
  BY <1>1, ArgType DEF set_date, parse_date
<1>3. m \in 1 .. 12 /\ d \in 1 .. DaysIn(m, y)
  BY <1>2, DateIsValid
<1>4. FromBytes(time) \in [Fields -> Bytes]
  BY TypesUnfold, FromBytesIs
<1>5. time' = [FromBytes(time) EXCEPT !.day = d, !.mon = m, !.year = y]
  BY <1>1 DEF set_date
<1>6. /\ time' \in [Fields -> Bytes]
      /\ time'.day = d /\ time'.mon = m /\ time'.year = y
  <2>1. "day" \in Fields /\ "mon" \in Fields /\ "year" \in Fields
    BY DEF Fields
  <2>2. d \in Bytes /\ m \in Bytes /\ y \in Bytes
    BY <1>2 DEF Bytes
  <2>3. PICK t1 : t1 = [FromBytes(time) EXCEPT !.day = d]
    OBVIOUS
  <2>4. PICK t2 : t2 = [t1 EXCEPT !.mon = m]
    OBVIOUS
  <2>5. time' = [t2 EXCEPT !.year = y]
    BY <1>5, <2>3, <2>4
  <2>6. t1 \in [Fields -> Bytes] /\ t1.day = d
    BY <1>4, <2>1, <2>2, <2>3
  <2>7. t2 \in [Fields -> Bytes] /\ t2.mon = m /\ t2.day = d
    BY <2>1, <2>2, <2>4, <2>6
  <2>8. time' \in [Fields -> Bytes] /\ time'.year = y /\ time'.mon = m
        /\ time'.day = d
    BY <2>1, <2>2, <2>5, <2>7
  <2> QED BY <2>8
<1>7. TypeOK'
  BY <1>3, <1>6 DEF set_date, Types, TypeOK, DateExists
<1>8. GetInv' /\ SetInv'
  BY DEF set_date, GetInv, SetInv
<1> QED BY <1>7, <1>8 DEF Types, set_date

\* set_time leaves the time asked for, on a date that the chip had.
LEMMA SetTimeTypes == Types /\ set_time => Types'
<1> SUFFICES ASSUME Types, set_time PROVE Types'
  OBVIOUS
<1>1. PICK s, m, h : s = Digits(arg, 1) /\ m = Digits(arg, 4)
                     /\ h = Digits(arg, 7)
  OBVIOUS
<1>2. /\ s \in 0 .. 60 /\ m \in 0 .. 60 /\ h \in 0 .. 24
      /\ s # 59 /\ m # 59
  BY <1>1, ArgType DEF set_time, parse_time, valid_time
<1>3. PICK t : t = FromBytes(time)
  OBVIOUS
<1>4. t \in [Fields -> Bytes] /\ t.day \in 1 .. 31 /\ t.mon \in 1 .. 12
      /\ t.year \in 0 .. 99
  <2>1. k > 6 /\ k > 5 /\ k > 4 /\ pc = "get"
    BY OrderIs DEF set_time, Got
  <2>2. t \in [Fields -> Bytes] /\ t.day = Read(time.day)
        /\ t.mon = Read(time.mon) /\ t.year = Read(time.year)
    BY <1>3, TypesUnfold, FromBytesIs DEF Fields
  <2> QED BY <2>1, <2>2 DEF Types, GetInv
<1>5. time' = [t EXCEPT !.sec = s, !.min = m, !.hour = h]
  BY <1>1, <1>3 DEF set_time, NewTime
<1>6. /\ time' \in [Fields -> Bytes]
      /\ time'.sec = s /\ time'.min = m /\ time'.hour = h
      /\ time'.day = t.day /\ time'.mon = t.mon /\ time'.year = t.year
  <2>1. /\ "sec" \in Fields /\ "min" \in Fields /\ "hour" \in Fields
        /\ "day" \in Fields /\ "mon" \in Fields /\ "year" \in Fields
    BY DEF Fields
  <2>2. s \in Bytes /\ m \in Bytes /\ h \in Bytes
    BY <1>2 DEF Bytes
  <2>3. PICK t1 : t1 = [t EXCEPT !.sec = s]
    OBVIOUS
  <2>4. PICK t2 : t2 = [t1 EXCEPT !.min = m]
    OBVIOUS
  <2>5. time' = [t2 EXCEPT !.hour = h]
    BY <1>5, <2>3, <2>4
  <2>6. t1 \in [Fields -> Bytes] /\ t1.sec = s
        /\ \A x \in Fields : x # "sec" => t1[x] = t[x]
    BY <1>4, <2>1, <2>2, <2>3
  <2>7. t2 \in [Fields -> Bytes] /\ t2.min = m
        /\ \A x \in Fields : x # "min" => t2[x] = t1[x]
    BY <2>1, <2>2, <2>4, <2>6
  <2>8. time' \in [Fields -> Bytes] /\ time'.hour = h
        /\ \A x \in Fields : x # "hour" => time'[x] = t2[x]
    BY <2>1, <2>2, <2>5, <2>7
  <2> QED BY <2>1, <2>6, <2>7, <2>8
<1>7. time' \in Times
  BY <1>2, <1>4, <1>6 DEF Times, Fields
<1>8. /\ pc' = "set" /\ cmd' = cmd /\ cmd = "set_time" /\ k' = 1
      /\ arg' = arg /\ clock' = clock /\ since' = clock /\ B' = B
      /\ ticks' = 0 /\ total' = total /\ calls' = calls
  BY DEF set_time
<1>9. SetInv'
  BY <1>1, <1>2, <1>6, <1>7, <1>8 DEF SetInv, Digits
<1>10. TypeOK'
  BY <1>6, <1>8, OrderIs, TypesUnfold DEF Types, TypeOK, DateExists
<1>11. GetInv'
  BY <1>8 DEF GetInv
<1> QED BY <1>8, <1>9, <1>10, <1>11, TypesUnfold DEF Types

\* Writing a register preserves the types.
LEMMA SetTypes == Types /\ set_rtc_crt => Types'
<1> SUFFICES ASSUME Types, set_rtc_crt PROVE Types'
  OBVIOUS
<1>1. k \in 1 .. 6 /\ cmd = "set_time" /\ time \in Times /\ pc = "set"
      /\ Order[k] \in Fields
  BY OrderIs DEF set_rtc_crt, Types, SetInv
<1>2. PICK f, v : f = Order[k] /\ v = Value(f, ToBytes(time)[f])
  OBVIOUS
<1>3. v = time[f] \/ (f = "hour" /\ v \in 0 .. 24)
  BY <1>1, <1>2, WriteBack
<1>4. clock' = [clock EXCEPT ![f] = v]
  BY <1>2 DEF set_rtc_crt
<1>5. clock' \in Times
  <2>1. clock \in Times
    BY TypesUnfold
  <2>2. CASE k = 1
    BY <1>1, <1>2, <1>3, <1>4, <2>1, <2>2, OrderIs DEF Times
  <2>3. CASE k = 2
    BY <1>1, <1>2, <1>3, <1>4, <2>1, <2>3, OrderIs DEF Times
  <2>4. CASE k = 3
    BY <1>1, <1>2, <1>3, <1>4, <2>1, <2>4, OrderIs DEF Times
  <2>5. CASE k = 4
    BY <1>1, <1>2, <1>3, <1>4, <2>1, <2>5, OrderIs DEF Times
  <2>6. CASE k = 5
    BY <1>1, <1>2, <1>3, <1>4, <2>1, <2>6, OrderIs DEF Times
  <2>7. CASE k = 6
    BY <1>1, <1>2, <1>3, <1>4, <2>1, <2>7, OrderIs DEF Times
  <2> QED BY <1>1, <2>2, <2>3, <2>4, <2>5, <2>6, <2>7
<1>6. k' = k + 1 /\ pc' = (IF k = 6 THEN "done" ELSE "set") /\ cmd' = cmd
      /\ arg' = arg /\ time' = time /\ since' = since /\ B' = B
      /\ total' = total /\ calls' = calls /\ (ticks' = 0 \/ ticks' = ticks)
  BY OrderIs DEF set_rtc_crt
<1>7. TypeOK'
  BY <1>1, <1>5, <1>6, OrderIs, TypesUnfold DEF Types, TypeOK, DateExists
<1>8. SetInv'
  BY <1>1, <1>6 DEF Types, SetInv, Digits
<1>9. GetInv'
  BY <1>6 DEF GetInv
<1> QED BY <1>6, <1>7, <1>8, <1>9, TypesUnfold DEF Types

\* Every step preserves the types.
LEMMA NextTypes == Types /\ [Next]_vars => Types'
<1> SUFFICES ASSUME Types, [Next]_vars PROVE Types'
  OBVIOUS
<1>1. CASE Tick
  BY <1>1, TickTypes
<1>2. CASE \E c \in {"date", "time"} : Command(c, <<>>)
  BY <1>2, CommandTypes
<1>3. CASE \E c \in {"set_date", "set_time"}, a \in Args : Command(c, a)
  BY <1>3, CommandTypes
<1>4. CASE get_rtc_crt
  BY <1>4, GetTypes
<1>5. CASE show \/ refuse
  BY <1>5, ShowTypes
<1>6. CASE set_date
  BY <1>6, SetDateTypes
<1>7. CASE set_time
  BY <1>7, SetTimeTypes
<1>8. CASE set_rtc_crt
  BY <1>8, SetTypes
<1>9. CASE UNCHANGED vars
  BY <1>9 DEF vars, Types, TypeOK, DateExists, GetInv, SetInv, Read
<1> QED BY <1>1, <1>2, <1>3, <1>4, <1>5, <1>6, <1>7, <1>8, <1>9 DEF Next

-----------------------------------------------------------------------------
(***************************************************************************)
(* Reading.                                                                *)
(***************************************************************************)

\* The fields of a time are numbers.
LEMMA TimeFields ==
  ASSUME NEW t \in Times
  PROVE  /\ t.sec \in 0 .. 60 /\ t.min \in 0 .. 60 /\ t.hour \in 0 .. 24
         /\ t.day \in 1 .. 31 /\ t.mon \in 1 .. 12 /\ t.year \in 0 .. 99
  BY DEF Times

\* What has been read of a byte is a number.
LEMMA ReadType ==
  ASSUME NEW b \in Bytes
  PROVE  Read(b) \in Nat
<1>1. b \in Nat
  BY DEF Bytes
<1>2. BCD2BIN(b) % 256 \in Nat
  BY BcdByte
<1> QED BY <1>1, <1>2 DEF Read

\* A tick from a time that exists leads to one that exists.  Either the
\* month stays, and then no count of days, hours or minutes goes back, or the
\* next month begins.
LEMMA TickUp ==
  ASSUME NEW t \in Times, NEW u, u = NextSecond(t), Exists(t)
  PROVE  /\ Exists(u)
         /\ t.sec < 59 =>
              /\ u.sec = t.sec + 1 /\ u.min = t.min /\ u.hour = t.hour
              /\ u.day = t.day /\ SameMonth(t, u)
         /\ \/ /\ SameMonth(t, u)
               /\ u.day >= t.day
               /\ u.day * 24 + u.hour >= t.day * 24 + t.hour
               /\ (u.day * 24 + u.hour) * 60 + u.min
                    >= (t.day * 24 + t.hour) * 60 + t.min
               /\ Seconds(u) >= Seconds(t)
            \/ /\ ~ SameMonth(t, u)
               /\ u.day = 1 /\ u.hour = 0 /\ u.min = 0 /\ u.sec = 0
<1>1. /\ t.sec \in 0 .. 59 /\ t.min \in 0 .. 59 /\ t.hour \in 0 .. 23
      /\ t.day \in 1 .. 31 /\ t.mon \in 1 .. 12 /\ t.year \in 0 .. 99
  BY TimeFields DEF Exists
<1>0. PICK s \in 0 .. 59, m \in 0 .. 59, h \in 0 .. 23, d \in 1 .. 31 :
        t.sec = s /\ t.min = m /\ t.hour = h /\ t.day = d
  BY <1>1
<1>2. CASE t.sec < 59
  <2>1. /\ u.sec = t.sec + 1 /\ u.min = t.min /\ u.hour = t.hour
        /\ u.day = t.day /\ u.mon = t.mon /\ u.year = t.year
    BY <1>1, <1>2 DEF NextSecond
  <2>2. Exists(u) /\ SameMonth(t, u)
    BY <1>1, <1>2, <2>1 DEF Exists, SameMonth
  <2> QED BY <1>0, <1>2, <2>1, <2>2 DEF Seconds
<1>3. CASE t.sec = 59 /\ t.min < 59
  <2>1. /\ u.sec = 0 /\ u.min = t.min + 1 /\ u.hour = t.hour
        /\ u.day = t.day /\ u.mon = t.mon /\ u.year = t.year
    BY <1>1, <1>3 DEF NextSecond
  <2>2. Exists(u) /\ SameMonth(t, u)
    BY <1>1, <1>3, <2>1 DEF Exists, SameMonth
  <2>3. (u.day * 24 + u.hour) * 60 + u.min
          = (t.day * 24 + t.hour) * 60 + t.min + 1
    BY <1>0, <1>3, <2>1
  <2>4. Seconds(u) = Seconds(t) + 1
    BY <1>0, <1>3, <2>1 DEF Seconds
  <2> QED BY <1>0, <1>3, <2>1, <2>2, <2>3, <2>4 DEF Seconds
<1>4. CASE t.sec = 59 /\ t.min = 59 /\ t.hour < 23
  <2>1. /\ u.sec = 0 /\ u.min = 0 /\ u.hour = t.hour + 1
        /\ u.day = t.day /\ u.mon = t.mon /\ u.year = t.year
    BY <1>1, <1>4 DEF NextSecond
  <2>2. Exists(u) /\ SameMonth(t, u)
    BY <1>1, <1>4, <2>1 DEF Exists, SameMonth
  <2>3. (u.day * 24 + u.hour) * 60 + u.min
          = (t.day * 24 + t.hour) * 60 + t.min + 1
    BY <1>0, <1>4, <2>1
  <2>4. Seconds(u) = Seconds(t) + 1
    BY <1>0, <1>4, <2>1 DEF Seconds
  <2> QED BY <1>0, <1>4, <2>1, <2>2, <2>3, <2>4 DEF Seconds
<1>5. CASE /\ t.sec = 59 /\ t.min = 59 /\ t.hour = 23
           /\ ~ (t.day >= DaysIn(t.mon, t.year))
  <2>1. /\ u.sec = 0 /\ u.min = 0 /\ u.hour = 0
        /\ u.day = t.day + 1 /\ u.mon = t.mon /\ u.year = t.year
    BY <1>1, <1>5 DEF NextSecond
  <2>2. Exists(u) /\ SameMonth(t, u)
    BY <1>1, <1>5, <2>1 DEF Exists, SameMonth
  <2>3. (u.day * 24 + u.hour) * 60 + u.min
          = (t.day * 24 + t.hour) * 60 + t.min + 1
    BY <1>0, <1>5, <2>1
  <2>4. Seconds(u) = Seconds(t) + 1
    BY <1>0, <1>5, <2>1 DEF Seconds
  <2> QED BY <1>0, <1>5, <2>1, <2>2, <2>3, <2>4 DEF Seconds
<1>6. CASE /\ t.sec = 59 /\ t.min = 59 /\ t.hour = 23
           /\ t.day >= DaysIn(t.mon, t.year)
  <2>1. /\ u.sec = 0 /\ u.min = 0 /\ u.hour = 0 /\ u.day = 1
        /\ u.mon = IF t.mon >= 12 THEN 1 ELSE t.mon + 1
    BY <1>1, <1>6 DEF NextSecond
  <2>2. u.mon # t.mon
    BY <1>1, <2>1
  <2> QED BY <1>1, <1>6, <2>1, <2>2 DEF Exists, SameMonth
<1> QED BY <1>1, <1>2, <1>3, <1>4, <1>5, <1>6

\* While registers are read, the fields of the view.
LEMMA ViewFields ==
  ASSUME pc = "get"
  PROVE  /\ View.sec  = IF k > 1 THEN Read(time.sec)  ELSE clock.sec
         /\ View.min  = IF k > 2 THEN Read(time.min)  ELSE clock.min
         /\ View.hour = IF k > 3 THEN Read(time.hour) ELSE clock.hour
         /\ View.day  = IF k > 6 THEN Read(time.day)  ELSE clock.day
  BY DEF View

\* The struct is of numbers, as bytes and as what these stand for.
LEMMA StructType ==
  ASSUME Types
  PROVE  \A f \in Fields : time[f] \in Nat /\ Read(time[f]) \in Nat
<1>1. \A f \in Fields : time[f] \in Bytes
  BY TypesUnfold
<1>2. Bytes \subseteq Nat
  BY DEF Bytes
<1> QED BY <1>1, <1>2, ReadType

\* The view is a time in numbers.
LEMMA ViewType == Types /\ Reading => Seconds(View) \in Int
<1> SUFFICES ASSUME Types, Reading PROVE Seconds(View) \in Int
  OBVIOUS
<1>1. \A f \in Fields : time[f] \in Nat /\ Read(time[f]) \in Nat
  BY StructType
<1>2. CASE pc = "done"
  BY <1>1, <1>2 DEF View, Seconds, Fields
<1>3. CASE pc = "get"
  <2>1. View.sec \in Nat /\ View.min \in Nat /\ View.hour \in Nat
        /\ View.day \in Nat
    <3>1. clock.sec \in Nat /\ clock.min \in Nat /\ clock.hour \in Nat
          /\ clock.day \in Nat
      <4>1. clock \in Times
        BY TypesUnfold
      <4> QED BY <4>1, TimeFields
    <3>2. Read(time.sec) \in Nat /\ Read(time.min) \in Nat
          /\ Read(time.hour) \in Nat /\ Read(time.day) \in Nat
      BY <1>1 DEF Fields
    <3> QED BY <1>3, <3>1, <3>2, ViewFields
  <2> QED BY <2>1 DEF Seconds
<1> QED BY <1>2, <1>3 DEF Reading

\* The same for the state after a step.
LEMMA ViewTypeNext == Types' /\ Reading' => (Seconds(View) \in Int)'
  BY ViewType, PTL

\* While the month stays, a tick does not take the view back.
LEMMA TickView ==
  ASSUME Types, Tick, pc \in {"get", "done"}, Exists(clock),
         SameMonth(clock, clock'), pc = "done" => time \in [Fields -> Bytes]
  PROVE  Seconds(View') >= Seconds(View)
<1>1. pc' = pc /\ k' = k /\ time' = time /\ B' = B
  BY DEF Tick
<1>2. \A f \in Fields : time[f] \in Nat /\ Read(time[f]) \in Nat
  BY StructType
<1>3. CASE pc = "done"
  <2>1. View' = time /\ View = time
    BY <1>1, <1>3 DEF View
  <2> QED BY <1>2, <2>1 DEF Seconds, Fields
<1>4. CASE pc = "get"
  <2>1. PICK s, m, h, d :
          /\ s = Read(time.sec) /\ m = Read(time.min)
          /\ h = Read(time.hour) /\ d = Read(time.day)
    OBVIOUS
  <2>2. s \in Nat /\ m \in Nat /\ h \in Nat /\ d \in Nat
    BY <1>2, <2>1 DEF Fields
  <2>3. PICK c, u : c = clock /\ u = clock'
    OBVIOUS
  <2>4. /\ u.day >= c.day
        /\ u.day * 24 + u.hour >= c.day * 24 + c.hour
        /\ (u.day * 24 + u.hour) * 60 + u.min
             >= (c.day * 24 + c.hour) * 60 + c.min
        /\ ((u.day * 24 + u.hour) * 60 + u.min) * 60 + u.sec
             >= ((c.day * 24 + c.hour) * 60 + c.min) * 60 + c.sec
    <3>1. c \in Times /\ u = NextSecond(c) /\ Exists(c) /\ SameMonth(c, u)
      BY <2>3, TypesUnfold DEF Tick
    <3> QED BY <3>1, TickUp DEF Seconds
  <2>5. /\ c.sec \in Nat /\ c.min \in Nat /\ c.hour \in Nat /\ c.day \in Nat
        /\ u.sec \in Nat /\ u.min \in Nat /\ u.hour \in Nat /\ u.day \in Nat
    <3>1. c \in Times /\ u \in Times
      BY <2>3, TypesUnfold, NextSecondType DEF Tick
    <3> QED BY <3>1, TimeFields
  <2>6. /\ View.sec  = IF k > 1 THEN s ELSE c.sec
        /\ View.min  = IF k > 2 THEN m ELSE c.min
        /\ View.hour = IF k > 3 THEN h ELSE c.hour
        /\ View.day  = IF k > 6 THEN d ELSE c.day
    BY <1>4, <2>1, <2>3, ViewFields
  <2>7. /\ View'.sec  = IF k > 1 THEN s ELSE u.sec
        /\ View'.min  = IF k > 2 THEN m ELSE u.min
        /\ View'.hour = IF k > 3 THEN h ELSE u.hour
        /\ View'.day  = IF k > 6 THEN d ELSE u.day
    BY <1>1, <1>4, <2>1, <2>3 DEF View, Read
  <2>8. k \in 1 .. 7
    BY TypesUnfold
  <2>9. PICK v, w : v = View /\ w = View'
    OBVIOUS
  <2> QED BY <2>2, <2>4, <2>5, <2>6, <2>7, <2>8, <2>9 DEF Seconds
<1> QED BY <1>3, <1>4

\* A tick during a reading.
LEMMA TickRead == Types /\ ReadInv /\ Tick => ReadInv'
<1> SUFFICES ASSUME Types, ReadInv, Tick, Reading'
             PROVE  /\ ticks' = 0 => clock' = since' /\ View' = since'
                    /\ Quick' /\ Exists(since)' =>
                         /\ Exists(clock)'
                         /\ SameMonth(since, clock)' =>
                              Seconds(View)' >= Seconds(since)'
                         /\ ~ SameMonth(since, clock)' =>
                              clock'.day = 1 /\ clock'.hour = 0
                              /\ clock'.min = 0 /\ clock'.sec < ticks'
  BY DEF ReadInv
<1>1. /\ ticks' = ticks + 1 /\ ticks \in Nat /\ since' = since
      /\ clock' = NextSecond(clock) /\ clock \in Times /\ since \in Times
      /\ pc' = pc /\ cmd' = cmd /\ B' = B /\ time' = time /\ k' = k
  BY TypesUnfold DEF Tick
<1>2. Reading
  BY <1>1 DEF Reading
<1>3. SUFFICES ASSUME Quick', Exists(since)
               PROVE  /\ Exists(clock)'
                      /\ SameMonth(since, clock)' =>
                           Seconds(View)' >= Seconds(since)
                      /\ ~ SameMonth(since, clock)' =>
                           clock'.day = 1 /\ clock'.hour = 0
                           /\ clock'.min = 0 /\ clock'.sec < ticks'
  <2>1. (Exists(since)' <=> Exists(since)) /\ Seconds(since)' = Seconds(since)
    BY <1>1
  <2> QED BY <1>1, <2>1
<1>4. Quick /\ ticks + 1 < 60
  BY <1>1, <1>3 DEF Quick
<1>5. /\ Exists(clock)
      /\ SameMonth(since, clock) => Seconds(View) >= Seconds(since)
      /\ ~ SameMonth(since, clock) =>
           clock.day = 1 /\ clock.hour = 0 /\ clock.min = 0
           /\ clock.sec < ticks
  BY <1>2, <1>3, <1>4 DEF ReadInv
<1>6. Exists(clock)'
  BY <1>1, <1>5, TickUp
<1>7. ASSUME ~ SameMonth(since, clock)
      PROVE  ~ SameMonth(since, clock)' /\ clock'.day = 1 /\ clock'.hour = 0
             /\ clock'.min = 0 /\ clock'.sec < ticks'
  <2>1. clock.sec < 59 /\ clock.sec \in Nat
    BY <1>1, <1>4, <1>5, <1>7, TimeFields
  <2>2. /\ clock'.sec = clock.sec + 1 /\ clock'.min = clock.min
        /\ clock'.hour = clock.hour /\ clock'.day = clock.day
        /\ SameMonth(clock, clock')
    BY <1>1, <1>5, <2>1, TickUp
  <2> QED BY <1>1, <1>5, <1>7, <2>1, <2>2 DEF SameMonth
<1>8. ASSUME SameMonth(since, clock), SameMonth(since, clock)'
      PROVE  Seconds(View)' >= Seconds(since)
  <2>1. SameMonth(clock, clock')
    BY <1>1, <1>8 DEF SameMonth
  <2>2. pc \in {"get", "done"} /\ time \in [Fields -> Bytes]
    BY <1>2, TypesUnfold DEF Reading
  <2>3. Seconds(View') >= Seconds(View)
    BY <1>5, <2>1, <2>2, TickView
  <2>4. Seconds(View) >= Seconds(since)
    BY <1>5, <1>8
  <2>5. /\ Seconds(View) \in Int /\ Seconds(View') \in Int
        /\ Seconds(since) \in Int
    <3>1. Types'
      BY TickTypes
    <3>2. since.sec \in Nat /\ since.min \in Nat /\ since.hour \in Nat
          /\ since.day \in Nat
      BY <1>1, TimeFields
    <3>3. Seconds(since) \in Int
      BY <3>2 DEF Seconds
    <3> QED BY <1>2, <3>1, <3>3, ViewType, ViewTypeNext
  <2> QED BY <2>3, <2>4, <2>5
<1>9. ASSUME SameMonth(since, clock), ~ SameMonth(since, clock)'
      PROVE  clock'.day = 1 /\ clock'.hour = 0 /\ clock'.min = 0
             /\ clock'.sec < ticks'
  <2>1. ~ SameMonth(clock, clock')
    BY <1>1, <1>9 DEF SameMonth
  <2>2. clock'.day = 1 /\ clock'.hour = 0 /\ clock'.min = 0 /\ clock'.sec = 0
    BY <1>1, <1>5, <2>1, TickUp
  <2> QED BY <1>1, <2>2
<1> QED BY <1>6, <1>7, <1>8, <1>9

\* A command begins with the clock in view.
LEMMA CommandRead ==
  ASSUME Types, NEW c, NEW a, Command(c, a)
  PROVE  ReadInv'
<1>1. /\ clock' = clock /\ since' = clock /\ ticks' = 0
      /\ k' = 1 /\ pc' = "get" /\ clock \in Times
  BY TypesUnfold DEF Command
<1>2. clock = [sec |-> clock.sec, min |-> clock.min, hour |-> clock.hour,
               mon |-> clock.mon, year |-> clock.year, day |-> clock.day]
  BY <1>1 DEF Times
<1>3. View' = clock
  BY <1>1, <1>2 DEF View
<1>4. clock.sec \in Nat /\ clock.min \in Nat /\ clock.hour \in Nat
      /\ clock.day \in Nat
  BY <1>1, TimeFields
<1>5. Seconds(clock) \in Int
  BY <1>4 DEF Seconds
<1>6. SameMonth(clock, clock)
  BY DEF SameMonth
<1> QED BY <1>1, <1>3, <1>5, <1>6 DEF ReadInv

\* Reading a register leaves the view as it is.
LEMMA GetRead == Types /\ ReadInv /\ get_rtc_crt => ReadInv'
<1> SUFFICES ASSUME Types, ReadInv, get_rtc_crt, B.h24 PROVE ReadInv'
  BY DEF ReadInv, Reading, get_rtc_crt
<1>1. /\ clock' = clock /\ since' = since /\ ticks' = ticks /\ B' = B
      /\ pc = "get" /\ pc' = "get" /\ k \in 1 .. 6 /\ k' = k + 1
  BY Fetched DEF get_rtc_crt
<1>2. Reading
  BY <1>1 DEF Reading
<1>3. /\ Read(time.sec)'  = IF k = 1 THEN clock.sec  ELSE Read(time.sec)
      /\ Read(time.min)'  = IF k = 2 THEN clock.min  ELSE Read(time.min)
      /\ Read(time.hour)' = IF k = 3 THEN clock.hour ELSE Read(time.hour)
      /\ Read(time.mon)'  = IF k = 4 THEN clock.mon  ELSE Read(time.mon)
      /\ Read(time.year)' = IF k = 5 THEN clock.year ELSE Read(time.year)
      /\ Read(time.day)'  = IF k = 6 THEN clock.day  ELSE Read(time.day)
  BY <1>1, FetchedValue, OrderIs DEF Fields
<1>4. View' = View
  BY <1>1, <1>3 DEF View
<1> QED BY <1>1, <1>2, <1>4 DEF ReadInv, Quick, Exists, SameMonth, Seconds

\* What date and time show is the view.
LEMMA ShowRead == Types /\ ReadInv /\ show => ReadInv'
<1> SUFFICES ASSUME Types, ReadInv, show, B.h24 PROVE ReadInv'
  BY DEF ReadInv, Reading, show
<1>1. /\ clock' = clock /\ since' = since /\ ticks' = ticks /\ B' = B
      /\ pc = "get" /\ pc' = "done" /\ k = 7 /\ k' = k
  BY OrderIs DEF show, Got
<1>2. Reading
  BY <1>1 DEF Reading
<1>3. /\ time' \in [Fields -> Bytes]
      /\ time'.sec = Read(time.sec) /\ time'.min = Read(time.min)
      /\ time'.hour = Read(time.hour) /\ time'.mon = Read(time.mon)
      /\ time'.year = Read(time.year) /\ time'.day = Read(time.day)
  BY TypesUnfold, FromBytesIs DEF show, Fields
<1>4. time' = [sec |-> time'.sec, min |-> time'.min, hour |-> time'.hour,
               mon |-> time'.mon, year |-> time'.year, day |-> time'.day]
  BY <1>3 DEF Fields
<1>5. View' = View
  BY <1>1, <1>3, <1>4 DEF View
<1> QED BY <1>1, <1>2, <1>5 DEF ReadInv, Quick, Exists, SameMonth, Seconds

\* Every step preserves what is known of readings.
LEMMA NextRead == Types /\ ReadInv /\ [Next]_vars => ReadInv'
<1> SUFFICES ASSUME Types, ReadInv, [Next]_vars PROVE ReadInv'
  OBVIOUS
<1>1. CASE Tick
  BY <1>1, TickRead
<1>2. CASE \E c \in {"date", "time"} : Command(c, <<>>)
  BY <1>2, CommandRead
<1>3. CASE \E c \in {"set_date", "set_time"}, a \in Args : Command(c, a)
  BY <1>3, CommandRead
<1>4. CASE get_rtc_crt
  BY <1>4, GetRead
<1>5. CASE show
  BY <1>5, ShowRead
<1>6. CASE refuse \/ set_date \/ set_time
  <2>1. ~ Reading'
    BY <1>6 DEF refuse, set_date, set_time, Reading
  <2> QED BY <2>1 DEF ReadInv
<1>7. CASE set_rtc_crt
  <2>1. ~ Reading'
    BY <1>7 DEF set_rtc_crt, Types, SetInv, Reading
  <2> QED BY <2>1 DEF ReadInv
<1>8. CASE UNCHANGED vars
  BY <1>8 DEF vars, ReadInv, Reading, View, Read, Quick
<1> QED BY <1>1, <1>2, <1>3, <1>4, <1>5, <1>6, <1>7, <1>8 DEF Next

-----------------------------------------------------------------------------
(***************************************************************************)
(* Writing.                                                                *)
(***************************************************************************)

\* What stands in the struct while the registers are written.
LEMMA WriteTypes ==
  ASSUME Types, pc \in {"set", "done"}, cmd = "set_time", Exists(time)
  PROVE  /\ time.sec \in 0 .. 58 /\ time.min \in 0 .. 58
         /\ time.hour \in 0 .. 23
<1>1. time \in Times /\ time.sec # 59 /\ time.min # 59
  BY DEF Types, SetInv
<1> QED BY <1>1, TimeFields DEF Exists

\* A tick while registers are written: the seconds are carried at most once.
LEMMA TickWrite == Types /\ WriteInv /\ Tick => WriteInv'
<1> SUFFICES ASSUME Types, WriteInv, Tick,
                    B'.h24, pc' \in {"set", "done"}, cmd' = "set_time",
                    Exists(time)', Quick'
             PROVE  /\ Written(1)' =>
                         /\ clock'.sec < 60
                         /\ time'.sec + ticks' - clock'.sec \in {0, 60}
                    /\ Written(2)' =>
                         \/ clock'.min = time'.min
                         \/ /\ clock'.min = time'.min + 1
                            /\ clock'.sec = time'.sec + ticks' - 60
                    /\ Written(3)' => clock'.hour = time'.hour
                    /\ Written(4)' => clock'.mon = time'.mon
                    /\ Written(5)' => clock'.year = time'.year
                    /\ Written(6)' => clock'.day = time'.day
  BY DEF WriteInv
<1>1. /\ ticks' = ticks + 1 /\ ticks \in Nat /\ k \in 1 .. 7
      /\ clock' = NextSecond(clock) /\ clock \in Times
      /\ pc' = pc /\ cmd' = cmd /\ B' = B /\ time' = time /\ k' = k
  BY TypesUnfold DEF Tick
<1>2. B.h24 /\ pc \in {"set", "done"} /\ cmd = "set_time" /\ Exists(time)
      /\ ticks + 1 < 60 /\ Quick
  BY <1>1 DEF Quick
<1>3. PICK s \in 0 .. 58, m \in 0 .. 58 : time.sec = s /\ time.min = m
  BY <1>2, WriteTypes
<1>4. /\ clock.sec \in 0 .. 60 /\ clock.min \in 0 .. 60
      /\ clock.hour \in 0 .. 24
  BY <1>1, TimeFields
<1>5. /\ Written(1) => clock.sec < 60 /\ s + ticks - clock.sec \in {0, 60}
      /\ Written(2) => \/ clock.min = m
                       \/ clock.min = m + 1 /\ clock.sec = s + ticks - 60
      /\ Written(3) => clock.hour = time.hour
      /\ Written(4) => clock.mon = time.mon
      /\ Written(5) => clock.year = time.year
      /\ Written(6) => clock.day = time.day
  BY <1>2, <1>3 DEF WriteInv
<1>6. /\ Written(1)' = Written(1) /\ Written(2)' = Written(2)
      /\ Written(3)' = Written(3) /\ Written(4)' = Written(4)
      /\ Written(5)' = Written(5) /\ Written(6)' = Written(6)
  BY <1>1 DEF Written
<1>7. /\ Written(2) => Written(1)
      /\ Written(3) \/ Written(4) \/ Written(5) \/ Written(6) => Written(2)
  BY <1>1 DEF Written
<1>8. Written(2) => ~ (clock.sec >= 59 /\ clock.min >= 59)
  BY <1>1, <1>2, <1>4, <1>5, <1>7
<1>9. /\ clock'.sec = IF clock.sec >= 59 THEN 0 ELSE clock.sec + 1
      /\ ~ (clock.sec >= 59 /\ clock.min >= 59) =>
           /\ clock'.min = IF clock.sec >= 59 THEN clock.min + 1 ELSE clock.min
           /\ clock'.hour = clock.hour /\ clock'.day = clock.day
           /\ clock'.mon = clock.mon /\ clock'.year = clock.year
  BY <1>1 DEF NextSecond
<1>10. Written(1) => clock'.sec < 60 /\ s + ticks' - clock'.sec \in {0, 60}
  BY <1>1, <1>2, <1>4, <1>5, <1>9
<1>11. Written(2) => \/ clock'.min = m
                     \/ clock'.min = m + 1 /\ clock'.sec = s + ticks' - 60
  BY <1>1, <1>2, <1>4, <1>5, <1>7, <1>8, <1>9
<1>12. /\ Written(3) => clock'.hour = time.hour
       /\ Written(4) => clock'.mon = time.mon
       /\ Written(5) => clock'.year = time.year
       /\ Written(6) => clock'.day = time.day
  <2>1. Written(2) => /\ clock'.hour = clock.hour /\ clock'.day = clock.day
                      /\ clock'.mon = clock.mon /\ clock'.year = clock.year
    BY <1>8, <1>9
  <2> QED BY <1>5, <1>7, <2>1
<1> QED BY <1>1, <1>3, <1>6, <1>10, <1>11, <1>12

\* Writing a register while the struct holds a time that exists.
LEMMA SetWrite == Types /\ WriteInv /\ set_rtc_crt => WriteInv'
<1> SUFFICES ASSUME Types, WriteInv, set_rtc_crt, B.h24, Exists(time)
             PROVE  WriteInv'
  BY DEF WriteInv, set_rtc_crt, Exists
<1>1. /\ k \in 1 .. 6 /\ cmd = "set_time" /\ time \in Times /\ pc = "set"
      /\ Order[k] \in Fields /\ clock \in Times
  BY TypesUnfold, OrderIs DEF set_rtc_crt, Types, SetInv
<1>2. clock' = [clock EXCEPT ![Order[k]] = time[Order[k]]]
  BY <1>1, WriteBack DEF set_rtc_crt
<1>3. /\ k' = k + 1 /\ pc' = (IF k = 6 THEN "done" ELSE "set")
      /\ cmd' = cmd /\ time' = time /\ B' = B
      /\ ticks' = (IF k = 1 THEN 0 ELSE ticks)
  BY OrderIs DEF set_rtc_crt
<1>4. /\ clock'.sec  = IF k = 1 THEN time.sec  ELSE clock.sec
      /\ clock'.min  = IF k = 2 THEN time.min  ELSE clock.min
      /\ clock'.hour = IF k = 3 THEN time.hour ELSE clock.hour
      /\ clock'.mon  = IF k = 4 THEN time.mon  ELSE clock.mon
      /\ clock'.year = IF k = 5 THEN time.year ELSE clock.year
      /\ clock'.day  = IF k = 6 THEN time.day  ELSE clock.day
  <2>1. CASE k = 1
    BY <1>1, <1>2, <2>1, OrderIs DEF Times
  <2>2. CASE k = 2
    BY <1>1, <1>2, <2>2, OrderIs DEF Times
  <2>3. CASE k = 3
    BY <1>1, <1>2, <2>3, OrderIs DEF Times
  <2>4. CASE k = 4
    BY <1>1, <1>2, <2>4, OrderIs DEF Times
  <2>5. CASE k = 5
    BY <1>1, <1>2, <2>5, OrderIs DEF Times
  <2>6. CASE k = 6
    BY <1>1, <1>2, <2>6, OrderIs DEF Times
  <2> QED BY <1>1, <2>1, <2>2, <2>3, <2>4, <2>5, <2>6
<1>5. time.sec \in 0 .. 58 /\ time.sec + 0 - time.sec = 0
  BY <1>1, WriteTypes
<1>6. \A n \in 1 .. 6 : Written(n)' <=> n <= k
  BY <1>1, <1>3 DEF Written
<1>7. \A n \in 1 .. 6 : Written(n) <=> n < k
  BY <1>1 DEF Written
<1>8. CASE k = 1
  BY <1>3, <1>4, <1>5, <1>6, <1>8 DEF WriteInv
<1>9. CASE k # 1
  <2>1. ticks' = ticks /\ (Quick' <=> Quick)
    BY <1>3, <1>9 DEF Quick
  <2>2. SUFFICES ASSUME Quick PROVE WriteInv'
    BY <2>1 DEF WriteInv
  <2>3. /\ clock.sec < 60 /\ time.sec + ticks - clock.sec \in {0, 60}
        /\ 2 < k => \/ clock.min = time.min
                    \/ /\ clock.min = time.min + 1
                       /\ clock.sec = time.sec + ticks - 60
        /\ 3 < k => clock.hour = time.hour
        /\ 4 < k => clock.mon = time.mon
        /\ 5 < k => clock.year = time.year
    BY <1>1, <1>7, <1>9, <2>2 DEF WriteInv
  <2> QED BY <1>1, <1>3, <1>4, <1>6, <1>9, <2>1, <2>3 DEF WriteInv
<1> QED BY <1>8, <1>9

\* Every step preserves what is known of writings.
LEMMA NextWrite == Types /\ WriteInv /\ [Next]_vars => WriteInv'
<1> SUFFICES ASSUME Types, WriteInv, [Next]_vars PROVE WriteInv'
  OBVIOUS
<1>1. CASE Tick
  BY <1>1, TickWrite
<1>2. CASE \E c \in {"date", "time"} : Command(c, <<>>)
  BY <1>2 DEF Command, WriteInv
<1>3. CASE \E c \in {"set_date", "set_time"}, a \in Args : Command(c, a)
  BY <1>3 DEF Command, WriteInv
<1>4. CASE get_rtc_crt \/ show \/ refuse \/ set_date
  BY <1>4 DEF get_rtc_crt, show, refuse, set_date, WriteInv
<1>5. CASE set_time
  BY <1>5 DEF set_time, WriteInv, Written
<1>6. CASE set_rtc_crt
  BY <1>6, SetWrite
<1>7. CASE UNCHANGED vars
  BY <1>7 DEF vars, WriteInv, Written, Quick
<1> QED BY <1>1, <1>2, <1>3, <1>4, <1>5, <1>6, <1>7 DEF Next

-----------------------------------------------------------------------------
(***************************************************************************)
(* The theorems.                                                           *)
(***************************************************************************)

\* The invariant of the clock, of its readings and of its writings.
LEMMA Invariant == Spec => []ClockInv
<1>1. Init => ClockInv
  BY InitTypes DEF Init, ClockInv, ReadInv, Reading, WriteInv
<1>2. ClockInv /\ [Next]_vars => ClockInv'
  BY NextTypes, NextRead, NextWrite DEF ClockInv
<1> QED BY <1>1, <1>2, PTL DEF Spec

\* settime never leaves anything in a register that it does not check, and
\* what setdate accepts exists in the calendar of the chip (parse_time,
\* parse_date, valid_date, is_leap_year).
THEOREM RegistersHoldTimes == Spec => []TypeOK
<1>1. ClockInv => TypeOK
  BY DEF ClockInv, Types
<1> QED BY <1>1, Invariant, PTL

\* What gettime reads is the time at the call when the chip does not tick, and
\* never a time before it, however the chip ticks between the registers
\* (syscall_get_time).
THEOREM ReadingNeverBehind == Spec => []ReadNotBehind
<1>1. ClockInv => ReadNotBehind
  <2> SUFFICES ASSUME ClockInv, Shown
               PROVE  /\ ticks = 0 => time = since
                      /\ Quick /\ Exists(since) /\ SameMonth(since, clock) =>
                           Seconds(time) >= Seconds(since)
    BY DEF ReadNotBehind
  <2>1. Reading /\ View = time
    BY DEF Shown, Reading, View
  <2> QED BY <2>1 DEF ClockInv, ReadInv
<1> QED BY <1>1, Invariant, PTL

\* After settime the chip runs on from the time asked for, or is a minute
\* short of it, and never ahead (syscall_set_time, set_time).
THEOREM SettingNeverAhead == Spec => []SetNotAhead
<1>1. ClockInv => SetNotAhead
  <2> SUFFICES ASSUME ClockInv, Set, Quick
               PROVE  /\ SameMonth(Asked, clock)
                      /\ Seconds(Asked) + ticks - Seconds(clock) \in {0, 60}
    BY DEF SetNotAhead
  <2>1. Types /\ WriteInv /\ pc = "done" /\ cmd = "set_time" /\ B.h24
        /\ Exists(Asked)
    BY DEF ClockInv, Set
  <2>2. /\ time \in Times /\ time \in [Fields -> Bytes]
        /\ time.sec = Digits(arg, 1) /\ time.min = Digits(arg, 4)
        /\ time.hour = Digits(arg, 7)
    BY <2>1, TypesUnfold DEF Types, SetInv
  <2>3. Asked = time
    BY <2>2 DEF Asked, Times
  <2>4. /\ clock.sec < 60 /\ time.sec + ticks - clock.sec \in {0, 60}
        /\ \/ clock.min = time.min
           \/ clock.min = time.min + 1 /\ clock.sec = time.sec + ticks - 60
        /\ clock.hour = time.hour /\ clock.mon = time.mon
        /\ clock.year = time.year /\ clock.day = time.day
    BY <2>1, <2>3 DEF WriteInv, Written
  <2>5. PICK s \in 0 .. 60, m \in 0 .. 60, h \in 0 .. 24, d \in 1 .. 31,
             c \in 0 .. 60, n \in Nat :
          /\ time.sec = s /\ time.min = m /\ time.hour = h /\ time.day = d
          /\ clock.sec = c /\ ticks = n
    <3>1. clock \in Times /\ ticks \in Nat
      BY <2>1, TypesUnfold
    <3>2. /\ time.sec \in 0 .. 60 /\ time.min \in 0 .. 60
          /\ time.hour \in 0 .. 24 /\ time.day \in 1 .. 31
      BY <2>2, TimeFields
    <3>3. clock.sec \in 0 .. 60
      BY <3>1, TimeFields
    <3> QED BY <3>1, <3>2, <3>3
  <2>6. Seconds(time) + ticks - Seconds(clock) \in {0, 60}
    BY <2>4, <2>5 DEF Seconds
  <2> QED BY <2>3, <2>4, <2>6 DEF SameMonth
<1> QED BY <1>1, Invariant, PTL

=============================================================================
