------------------------------ MODULE Calendar ------------------------------
(***************************************************************************)
(* The arithmetic of the clock libraries: sensors/RTClib.cpp, which keeps  *)
(* a date as an offset from 2000, a month and a day, and counts days since *)
(* 2000/01/01; and sensors/Rtc_Pcf8563.cpp, which keeps an alarm in BCD    *)
(* registers whose highest bit says that the field is not compared.        *)
(***************************************************************************)
EXTENDS Integers, Sequences
LOCAL INSTANCE SequencesExt

bin2bcd(val) == (val + 6 * (val \div 10)) % 256
bcd2bin(val) == (val - 6 * (val \div 16)) % 256
decToBcd(val) == ((val \div 10) * 16 + (val % 10)) % 256
bcdToDec(val) == ((val \div 16) * 10 + (val % 16)) % 256

daysInMonth == <<31, 28, 31, 30, 31, 30, 31, 31, 30, 31, 30, 31>>
Leap(y) == IF y % 4 = 0 THEN 1 ELSE 0
DaysPerMonth(y, m) == daysInMonth[m] + (IF m = 2 THEN Leap(y) ELSE 0)

(* date2days(): uint16_t; y is the offset from 2000                        *)
LeapsBefore(y) == y \div 4      \* defect: 2000 itself is not counted
LeapsSoFar(y) == (y + 3) \div 4
date2days(y, m, d) ==
  LET days == FoldLeft(LAMBDA n, k : n + k, d, SubSeq(daysInMonth, 1, m - 1))
      leap == IF m > 2 THEN Leap(y) ELSE 0
  IN (days + leap + 365 * y + LeapsSoFar(y) - 1) % 65536

(* The date of DateTime(uint32_t): whole years are taken off, then whole   *)
(* months; YearsTaken and MonthsTaken are what the loops have taken off    *)
YearsTaken(y) == 365 * y + (y + 3) \div 4
MonthsTaken(y, m) == FoldLeft(LAMBDA n, k : n + DaysPerMonth(y, k), 0, [k \in 1 .. m - 1 |-> k])
DateOf(days) ==
  LET y == CHOOSE y \in 0 .. 99 : YearsTaken(y) <= days /\ days < YearsTaken(y + 1)
      left == days - YearsTaken(y)
      m == CHOOSE m \in 1 .. 12 : MonthsTaken(y, m) <= left /\ left < MonthsTaken(y, m + 1)
  IN <<y, m, left - MonthsTaken(y, m) + 1>>

dayOfWeek(y, m, d) == (date2days(y, m, d) + 6) % 7

(* one field of setAlarm() and getAlarm(): its range, and the bits of its  *)
(* register that hold the value                                            *)
RTCC_NO_ALARM == 99
Fields == [minute |-> [least |-> 0, most |-> 59, bits |-> 128],
           hour |-> [least |-> 0, most |-> 23, bits |-> 64],
           day |-> [least |-> 1, most |-> 31, bits |-> 64],
           weekday |-> [least |-> 0, most |-> 6, bits |-> 8]]
Unbounded(val, least, most) == val            \* defect: the value is not brought into its range
constrain(val, least, most) == IF val < least THEN least ELSE IF val > most THEN most ELSE val

setAlarm(field, val) ==
  IF val < RTCC_NO_ALARM THEN decToBcd(constrain(val, Fields[field].least, Fields[field].most)) % 128
  ELSE 128
getAlarm(field, register) ==
  IF register >= 128 THEN RTCC_NO_ALARM ELSE bcdToDec(register % Fields[field].bits)
=============================================================================
