------------------------------- MODULE Ranges -------------------------------
(***************************************************************************)
(* From a filtered reading of 0 .. 1023 to the value in the input register *)
(* (FILTER/filter.c): thermistor tables, on and off, percent, volts and    *)
(* milliamperes.  The readings go by one after the other.                  *)
(***************************************************************************)
EXTENDS Integers, FiniteSetsExt

CONSTANTS
  Calibration,          \* 500 - modbus.offset
  Garbage               \* what a variable that was never set may hold

ASSUME RangesAssumption == Calibration \in Int /\ Garbage \subseteq Int

VARIABLES
  count,                \* modbus.raw_data
  range,                \* the range of the input
  shown                 \* its modbus.input

rangesVars == <<count, range, shown>>

(* Counts from one ten degrees to the next, from 150 C down to -50 C.      *)
def_tab_pic_Type2_10K ==
  <<15, 25, 41, 61, 83, 102, 113, 112, 101, 85, 67, 51, 38, 28, 21, 15, 11, 8, 6, 5, 19>>
def_tab_pic_Type3_10K ==
  <<18, 29, 45, 63, 81, 96, 104, 103, 94, 80, 65, 51, 40, 30, 23, 17, 13, 10, 8, 6, 24>>

Thermistor == {"C_TYPE2", "F_TYPE2", "C_TYPE3", "F_TYPE3"}
Table(r) == IF r \in {"C_TYPE2", "F_TYPE2"} THEN def_tab_pic_Type2_10K ELSE def_tab_pic_Type3_10K

(* The sum of the table from its end down to an index of 0 .. 20.          *)
work_var(r, index) == MapThenSumSet(LAMBDA i : Table(r)[i + 1], index .. 20)
InTable(r, n) == n < work_var(r, 0)

(* In tenths of a degree; 0 C is at index 5.                               *)
\* Deviant: the sign of what is below 0 C is dropped.
SignedDropped(index, val) == IF index >= 5 THEN val + (index - 5) * 100 ELSE 500 - (val + index * 100)

Signed(index, val) == IF index >= 5 THEN val + (index - 5) * 100 ELSE -(500 - (val + index * 100))

look_up_table1(r, n) ==
  LET index == Max({i \in 0 .. 20 : work_var(r, i) > n})
  IN IF index = 20 THEN 1500
     ELSE Signed(index, ((work_var(r, index) - n) * 100) \div Table(r)[index + 1])

Truncated(n, d) == IF n >= 0 THEN n \div d ELSE -((-n) \div d)
Fahrenheit(t) == Truncated(t * 9, 5) + 320

Half50(n) == (n * 50) \div 1023

\* What RangeConverter may make of count n in range r.
RangeConverter(r, n) ==
  LET degrees == IF InTable(r, n) THEN {look_up_table1(r, n)} ELSE Garbage
  IN CASE r \in {"C_TYPE2", "C_TYPE3"} -> {t + Calibration : t \in degrees}
       [] r \in {"F_TYPE2", "F_TYPE3"} -> {Fahrenheit(t) + Calibration : t \in degrees}
       [] r = "RAW_DATA" -> {n + Calibration}
       [] r = "PERCENT"  -> {(n * 100) \div 1023}
       [] r = "ON_OFF"   -> {IF Half50(n) >= 26 THEN 1 ELSE 0}
       [] r = "OFF_ON"   -> {IF Half50(n) <= 24 THEN 1 ELSE 0}
       [] r = "V05"      -> {(5000 * n) \div 1024}
       [] r = "V010"     -> {(10000 * n) \div 1024}
       [] r = "I020ma"   -> {(2000 * n) \div 1024}
       [] OTHER          -> {0}

RangeName == Thermistor \cup {"RAW_DATA", "PERCENT", "ON_OFF", "OFF_ON", "V05", "V010", "I020ma", "NO_USE"}

Last == 1023            \* the reading has 12 bits, two of them dropped

RangesInit == range \in RangeName /\ count = 0 /\ shown \in RangeConverter(range, 0)

NextReading ==
  /\ count < Last /\ count' = count + 1
  /\ shown' \in RangeConverter(range, count') /\ UNCHANGED range

RangesSpec == RangesInit /\ [][NextReading]_rangesVars

-----------------------------------------------------------------------------
(* Type invariant of the ranges: what is shown fits in 16 bits. *)
RangesTypeOK == range \in RangeName /\ count \in 0 .. Last /\ shown \in -32768 .. 32767

(* Across the joints of its table, the sign at 0 C and the conversion to
   Fahrenheit, a thermistor never shows more when its reading rises, as long
   as the reading is in the table; and no other range, save OFF_ON, shows
   less. *)
OneWay ==
  [][IF range \in Thermistor THEN InTable(range, count') => shown' <= shown
     ELSE range # "OFF_ON" => shown' >= shown]_rangesVars
=============================================================================
