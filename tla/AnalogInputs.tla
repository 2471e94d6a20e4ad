---------------------------- MODULE AnalogInputs ----------------------------
(***************************************************************************)
(* One input of the T3-8AI8AO6DO, which the INPUTS task comes back to once *)
(* a round: a filtered average or, in the range of pulses, a count of the  *)
(* falls of its level (USER/inputs.c, FILTER/filter.c).  The COMM task, of *)
(* the same priority and sliced by the tick, may run between any two steps.*)
(***************************************************************************)
EXTENDS Integers

MaxReading == 4095      \* of 12 bits
MaxWord    == 65535     \* of 16

CONSTANTS
  Levels,               \* readings
  Weights,              \* filter_value; the average takes 16 bits, see below
  DefaultFilter,        \* DEFAULT_FILTER, 5
  MaxSignals, MaxSettings       \* bounds

ASSUME AnalogAssumption ==
  /\ Levels \subseteq 0 .. MaxReading /\ 0 \in Levels /\ Weights \subseteq 0 .. 254
  /\ DefaultFilter \in Weights /\ MaxSignals \in Nat /\ MaxSettings \in Nat

VARIABLES
  level,                \* at the pin
  counting,             \* is the range that of pulses?
  filter_value,
  round,                \* the next step of inputs_scan
  AD_Value,             \* the reading of this round
  analog_in_buffer,     \* the average
  sum,                  \* what it is before the division, which no other task reads
  factor,               \* history: the weight of that sum
  old_ad,               \* the reading before this one
  pulses,               \* modbus.pulse
  falls,                \* history: how often the level fell
  settings

analogVars == <<level, counting, filter_value, round, AD_Value, analog_in_buffer, sum, factor,
                old_ad, pulses, falls, settings>>
scanned == <<round, AD_Value, analog_in_buffer, sum, factor, old_ad, pulses>>

AnalogInit ==           \* power-up
  /\ level = 0 /\ counting = FALSE /\ filter_value = DefaultFilter
  /\ round = "read" /\ AD_Value = 0 /\ analog_in_buffer = 0 /\ sum = 0 /\ factor = 0
  /\ old_ad = MaxReading /\ pulses = 0 /\ falls = 0 /\ settings = 0

Signal(v) ==            \* bounded by the falls
  /\ level # v /\ level' = v
  /\ falls' = IF v < level THEN falls + 1 ELSE falls
  /\ falls' <= MaxSignals
  /\ UNCHANGED <<counting, filter_value, scanned, settings>>

Set(pulse, w) ==        \* the master, at any time
  /\ settings < MaxSettings /\ settings' = settings + 1
  /\ counting' = pulse /\ filter_value' = w
  /\ UNCHANGED <<level, scanned, falls>>

-----------------------------------------------------------------------------
(* A round of the INPUTS task.                                             *)
InputsStep(from, to) ==
  /\ round = from /\ round' = to
  /\ UNCHANGED <<level, counting, filter_value, falls, settings>>

ADC_getChannal ==
  /\ InputsStep("read", "scan") /\ AD_Value' = level
  /\ UNCHANGED <<analog_in_buffer, sum, factor, old_ad, pulses>>

\* Deviant: the reading is kept only when it is not a pulse.
CountPulseKept ==
  IF old_ad - AD_Value > 2000 THEN pulses' = pulses + 1 /\ UNCHANGED old_ad
                              ELSE old_ad' = AD_Value /\ UNCHANGED pulses

CountPulse ==
  /\ pulses' = IF old_ad - AD_Value > 2000 THEN pulses + 1 ELSE pulses
  /\ old_ad' = AD_Value

Count ==
  /\ counting /\ InputsStep("scan", "read") /\ CountPulse
  /\ UNCHANGED <<AD_Value, analog_in_buffer, sum, factor>>

Word(n) == n % (MaxWord + 1)
SignedWord(n) == IF Word(n) > MaxWord \div 2 THEN Word(n) - (MaxWord + 1) ELSE Word(n)

siDelta == SignedWord(AD_Value - analog_in_buffer)
Far == siDelta >= 100 \/ siDelta <= -100

FilterRough ==
  /\ ~counting /\ Far /\ InputsStep("scan", "read")
  /\ analog_in_buffer' = Word(analog_in_buffer + siDelta \div 2)
  /\ UNCHANGED <<AD_Value, sum, factor, old_ad, pulses>>

FilterFine ==
  /\ ~counting /\ ~Far /\ InputsStep("scan", "divide")
  /\ sum' = Word(Word(analog_in_buffer * filter_value) + AD_Value)
  /\ factor' = filter_value
  /\ UNCHANGED <<AD_Value, analog_in_buffer, old_ad, pulses>>

\* Deviant: 1 is added to a weight of 0 only.
QuotientShort == sum \div (IF filter_value = 0 THEN 1 ELSE filter_value)

\* Deviant: rounded instead of cut.
QuotientRounded == (sum + (filter_value + 1) \div 2) \div (filter_value + 1)

Quotient == sum \div (filter_value + 1)

FilterDivide ==         \* filter_value may be another by now
  /\ InputsStep("divide", "read")
  /\ analog_in_buffer' = Quotient /\ sum' = 0 /\ factor' = 0
  /\ UNCHANGED <<AD_Value, old_ad, pulses>>

filter_inputs == FilterRough \/ FilterFine \/ FilterDivide

inputs_scan == ADC_getChannal \/ Count \/ filter_inputs

AnalogNext ==
  \/ \E v \in Levels : Signal(v)
  \/ \E pulse \in BOOLEAN, w \in Weights : Set(pulse, w)
  \/ inputs_scan

AnalogSpec == AnalogInit /\ [][AnalogNext]_analogVars
AnalogFair == WF_analogVars(inputs_scan)

-----------------------------------------------------------------------------
(* Type invariant of the input. *)
AnalogTypeOK ==
  /\ level \in Levels /\ filter_value \in Weights /\ analog_in_buffer \in 0 .. MaxWord
  /\ AD_Value \in Levels /\ sum \in 0 .. MaxWord /\ factor \in Weights \cup {0}
  /\ old_ad \in 0 .. MaxReading /\ pulses \in Nat /\ falls \in 0 .. MaxSignals

(* The average never leaves the interval between what it was and the reading,
   although product and sum are cut to 16 bits, where rough and fine filter
   meet and when the weight changes: unless it changes between the product
   and the quotient, which take it twice.  Then it may leave its 12 bits,
   from where nothing is claimed.  For weights of 16 and more it jumps. *)
FilterBetween ==
  [][\/ analog_in_buffer <= analog_in_buffer' /\ analog_in_buffer' <= AD_Value
     \/ AD_Value <= analog_in_buffer' /\ analog_in_buffer' <= analog_in_buffer
     \/ round = "divide" /\ filter_value # factor
     \/ analog_in_buffer > MaxReading
     \/ UNCHANGED analog_in_buffer]_analogVars

(* Whether the input stays in the range of pulses or comes and goes, it
   counts no more pulses than its level fell, and one at power-up. *)
NoExtraPulses == pulses <= falls + 1

(* In the end, when the level stays, so does the average: at the reading when
   it comes from above, within the weight of it when it comes from below;
   and wherever a product and a quotient of two weights have left it. *)
FilterSettles ==
  <>[]counting \/ []<>(analog_in_buffer <= level /\ level <= analog_in_buffer + filter_value)
=============================================================================
