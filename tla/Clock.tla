-------------------------------- MODULE Clock --------------------------------
(***************************************************************************)
(* The time command: read_rtc of kernel.c reads the registers of the CMOS  *)
(* clock one by one while the clock goes on, until two readings agree, and *)
(* decodes them.  (drivers/rtc.c has the same function; the build leaves   *)
(* it out.)  The date is read and decoded in the same loop, in the same    *)
(* way, and is not modelled.                                               *)
(***************************************************************************)
EXTENDS Integers

CONSTANTS
  Seconds,    \* in a minute (60)
  Minutes,    \* in an hour (60)
  MaxTicks    \* bound: seconds that pass during a call

\* The readings of a call are less than a minute apart.
ASSUME ClockAssumption ==
  Seconds \in 1 .. 60 /\ Minutes \in 1 .. 60 /\ MaxTicks \in Nat /\ MaxTicks < Seconds

VARIABLES
  bcd, twelve,   \* the clock's formats: bits 2 and 1 of register B, negated
  now,           \* the time of day, in seconds
  uip,           \* an update is about to happen
  cpc, reg,      \* where read_rtc is, and the register that it reads next
  cur, last,     \* this reading and the one before
  began, ticks   \* when the call began, and the seconds since

clockVars == <<bcd, twelve, now, uip, cpc, reg, cur, last, began, ticks>>

Day == 24 * Minutes * Seconds
SecondOf(t) == t % Seconds
MinuteOf(t) == (t \div Seconds) % Minutes
HourOf(t)   == t \div (Seconds * Minutes)

\* External: what the registers hold.  Bit 7 of a 12-hour hour means afternoon.
Coded(n) == IF bcd THEN 16 * (n \div 10) + (n % 10) ELSE n
CodedHour(h) == IF twelve THEN Coded(((h + 11) % 12) + 1) + (IF h >= 12 THEN 128 ELSE 0)
                          ELSE Coded(h)
Registers(t) == <<Coded(SecondOf(t)), Coded(MinuteOf(t)), CodedHour(HourOf(t))>>

NoReading == <<0, 0, 0>>

ClockInit ==
  /\ bcd \in BOOLEAN /\ twelve \in BOOLEAN /\ now = 0 /\ uip = FALSE
  /\ cpc = "idle" /\ reg = 1 /\ cur = NoReading /\ last = <<>> /\ began = 0 /\ ticks = 0
-----------------------------------------------------------------------------
read_rtc ==
  /\ cpc = "idle"
  /\ cpc' = "wait" /\ cur' = NoReading /\ last' = <<>> /\ began' = now /\ ticks' = 0
  /\ UNCHANGED <<bcd, twelve, now, uip, reg>>

\* while (get_update_in_progress_flag());
WaitNoUpdate ==
  /\ cpc = "wait" /\ ~uip
  /\ cpc' = "read"
  /\ UNCHANGED <<bcd, twelve, now, uip, reg, cur, last, began, ticks>>

\* get_rtc_register
ReadRegister ==
  /\ cpc = "read" /\ reg <= 3
  /\ cur' = [cur EXCEPT ![reg] = Registers(now)[reg]]
  /\ reg' = reg + 1
  /\ UNCHANGED <<bcd, twelve, now, uip, cpc, last, began, ticks>>

\* Mutant: one reading is enough.
CompareOnce ==
  /\ cpc = "read" /\ reg = 4
  /\ cpc' = "decode"
  /\ reg' = 1 /\ last' = cur
  /\ UNCHANGED <<bcd, twelve, now, uip, cur, began, ticks>>

\* The first reading is only remembered; the loop ends when two agree.
Compare ==
  /\ cpc = "read" /\ reg = 4
  /\ cpc' = IF cur = last THEN "decode" ELSE "wait"
  /\ reg' = 1 /\ last' = cur
  /\ UNCHANGED <<bcd, twelve, now, uip, cur, began, ticks>>

FromBcd(x) == (x % 16) + (x \div 16) * 10
HourFromBcd(x) == (x % 16) + ((x \div 16) % 8) * 10 + 128 * (x \div 128)

\* Noon and midnight come out twelve hours off.
To24(x) == IF twelve /\ x >= 128 THEN ((x % 128) + 12) % 24 ELSE x

Decode ==
  /\ cpc = "decode"
  /\ cpc' = "done"
  /\ cur' = IF bcd THEN <<FromBcd(cur[1]), FromBcd(cur[2]), To24(HourFromBcd(cur[3]))>>
                   ELSE <<cur[1], cur[2], To24(cur[3])>>
  /\ UNCHANGED <<bcd, twelve, now, uip, reg, last, began, ticks>>

\* The time is printed.
TimeShown ==
  /\ cpc = "done"
  /\ cpc' = "idle"
  /\ cur' = NoReading /\ last' = <<>> /\ began' = 0 /\ ticks' = 0
  /\ UNCHANGED <<bcd, twelve, now, uip, reg>>

ReadStep == WaitNoUpdate \/ ReadRegister \/ Compare \/ Decode \/ TimeShown
-----------------------------------------------------------------------------
\* The clock raises its flag some time before each update.
Announce ==
  /\ ~uip /\ ticks < MaxTicks
  /\ uip' = TRUE
  /\ UNCHANGED <<bcd, twelve, now, cpc, reg, cur, last, began, ticks>>

Update ==
  /\ uip
  /\ uip' = FALSE /\ now' = (now + 1) % Day
  /\ ticks' = IF cpc = "idle" THEN 0 ELSE ticks + 1
  /\ UNCHANGED <<bcd, twelve, cpc, reg, cur, last, began>>

ClockNext == read_rtc \/ ReadStep \/ Announce \/ Update

ClockSpec == ClockInit /\ [][ClockNext]_clockVars
-----------------------------------------------------------------------------
\* The registers hold bytes, and the hour that is shown is one of the day's.
ClockTypeOK ==
  /\ bcd \in BOOLEAN /\ twelve \in BOOLEAN /\ uip \in BOOLEAN
  /\ now \in 0 .. (Day - 1) /\ began \in 0 .. (Day - 1) /\ ticks \in 0 .. MaxTicks
  /\ cpc \in {"idle", "wait", "read", "decode", "done"} /\ reg \in 1 .. 4
  /\ \A r \in 1 .. 3 : cur[r] \in 0 .. 255 /\ (last # <<>> => last[r] \in 0 .. 255)
  /\ cpc = "done" => cur[3] < 24

(* The time shown, second, minute and hour together, is one that the clock had during the *)
(* call, in 24-hour time.                                                                  *)
TimeWasRight ==
  cpc = "done" =>
    \E k \in 0 .. ticks :
      LET t == (began + k) % Day
      IN  cur = <<SecondOf(t), MinuteOf(t), HourOf(t)>>

(* The time shown is one that the clock had during the call, although the clock may have  *)
(* gone on between any two registers.  The hour is left open between twelve and one of a  *)
(* 12-hour clock, by day and by night, and only then.                                     *)
TimeWasRightUnlessTwelve ==
  cpc = "done" =>
    \E k \in 0 .. ticks :
      LET t == (began + k) % Day
      IN  /\ cur[1] = SecondOf(t) /\ cur[2] = MinuteOf(t)
          /\ cur[3] = HourOf(t) \/ (twelve /\ HourOf(t) % 12 = 0)

(* read_rtc yields a time of the day, and one that the clock had during the call, except *)
(* for the hour from twelve to one of a 12-hour clock.                                    *)
ClockInv == ClockTypeOK /\ TimeWasRightUnlessTwelve
=============================================================================
