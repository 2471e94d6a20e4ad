------------------------ MODULE InputsOutputs_proofs ------------------------
(***************************************************************************)
(* Proofs about the inputs and the outputs of the module: AnalogInputs and *)
(* Outputs, which share nothing.                                           *)
(***************************************************************************)
EXTENDS AnalogInputs, Outputs, TLAPS

-----------------------------------------------------------------------------
(* An input.  The provers know division by a constant only.                *)
LEMMA Quotients ==
  ASSUME NEW p \in Nat \ {0}, NEW n \in Int
  PROVE  /\ n \div p \in Int /\ n % p \in 0 .. p - 1
         /\ n = (n \div p) * p + (n % p)
  OBVIOUS

(* Where the quotient lies, of a number between two multiples.             *)
LEMMA QuotientWithin ==
  ASSUME NEW p \in Nat \ {0}, NEW n \in Int, NEW a \in Int, NEW b \in Int,
         a * p <= n, n < (b + 1) * p
  PROVE  n \div p \in a .. b
<1> DEFINE q == n \div p   r == n % p
<1>1. q \in Int /\ r \in 0 .. p - 1 /\ n = q * p + r
  BY Quotients
<1> HIDE DEF q, r
<1>2. q < a => (q + 1) * p <= a * p
  <2>1. SUFFICES ASSUME q + 1 <= a PROVE (q + 1) * p <= a * p
    BY <1>1
  <2> QED BY <1>1, <2>1
<1>3. (q + 1) * p = q * p + p /\ q * p \in Int
  BY <1>1
<1>4. q > b => q * p >= (b + 1) * p
  <2>1. SUFFICES ASSUME q >= b + 1 PROVE q * p >= (b + 1) * p
    BY <1>1
  <2> QED BY <1>1, <2>1
<1>5. a * p \in Int /\ (b + 1) * p \in Int
  OBVIOUS
<1>6. q \in a .. b
  BY <1>1, <1>2, <1>3, <1>4, <1>5
<1> QED BY <1>6 DEF q

(* The greatest weight.                                                     *)
Heaviest == 254

LEMMA Greatest ==
  /\ MaxWord \in Nat /\ MaxReading \in Nat /\ Heaviest \in Nat /\ MaxReading <= MaxWord
  /\ MaxReading * 15 + MaxReading <= MaxWord
  /\ MaxWord \div 2 \in Nat /\ MaxReading <= MaxWord \div 2
  /\ MaxReading + MaxWord \div 2 <= MaxWord
BY DEF MaxWord, MaxReading, Heaviest

InputTypes ==
  /\ level \in Levels /\ filter_value \in Weights /\ counting \in BOOLEAN
  /\ analog_in_buffer \in Nat /\ analog_in_buffer <= MaxWord
  /\ AD_Value \in Levels /\ sum \in Nat /\ sum <= MaxWord /\ factor \in Weights \cup {0}
  /\ old_ad \in Nat /\ old_ad <= MaxReading
  /\ pulses \in Nat /\ falls \in 0 .. MaxSignals

LEMMA WordRange == ASSUME NEW n \in Int PROVE Word(n) \in Nat /\ Word(n) <= MaxWord
BY DEF Word, MaxWord

LEMMA WordFits == ASSUME NEW n \in Nat, n <= MaxWord PROVE Word(n) = n
BY DEF Word, MaxWord

LEMMA SignedTyped == ASSUME NEW n \in Int PROVE SignedWord(n) \in Int
<1>1. Word(n) \in Nat /\ MaxWord \in Nat
  BY WordRange, Greatest
<1> QED BY <1>1 DEF SignedWord

(* The difference of two readings is not cut: a negative one is a word     *)
(* above the half, and is taken back below zero.                           *)
LEMMA SignedFits ==
  ASSUME NEW v \in Nat, v <= MaxReading, NEW b \in Nat, b <= MaxReading
  PROVE  SignedWord(v - b) = v - b
<1> DEFINE n == v - b   p == MaxWord + 1
<1>1. n \in Int /\ n <= MaxReading /\ n + MaxReading >= 0 /\ p \in Nat \ {0}
  BY Greatest
<1> SUFFICES SignedWord(n) = n
  OBVIOUS
<1> HIDE DEF n
<1>2. CASE n >= 0
  <2>1. n \in Nat /\ n <= MaxWord /\ n <= MaxWord \div 2
    BY <1>1, <1>2, Greatest
  <2>2. Word(n) = n
    BY <2>1, WordFits
  <2> QED BY <2>1, <2>2, Greatest DEF SignedWord
<1>3. CASE n < 0
  <2>1. Word(n) = n % p
    BY DEF Word
  <2> HIDE DEF p
  <2>2. 0 <= n + p /\ n + p < p
    BY <1>1, <1>3, Greatest DEF p
  <2>3. n \div p \in -1 .. -1
    <3>1. (-1) * p <= n /\ n < (-1 + 1) * p
      BY <1>1, <1>3, <2>2
    <3> QED BY <1>1, <3>1, QuotientWithin
  <2>4. n % p = n + p
    <3>1. n \div p = -1
      BY <2>3
    <3>2. n % p \in Int /\ n = (-1) * p + (n % p)
      BY <1>1, <3>1, Quotients
    <3>3. (-1) * p = -p
      BY <1>1
    <3> QED BY <1>1, <3>2, <3>3
  <2>5. Word(n) > MaxWord \div 2
    BY <1>1, <2>1, <2>4, Greatest DEF p
  <2>6. Word(n) - (MaxWord + 1) = n
    BY <1>1, <2>1, <2>4 DEF p
  <2> QED BY <2>5, <2>6 DEF SignedWord
<1> QED BY <1>1, <1>2, <1>3

LEMMA WeightsAndLevels ==
  /\ \A v \in Levels : v \in Nat /\ v <= MaxReading
  /\ \A w \in Weights : w \in Nat /\ w <= Heaviest
<1>1. ASSUME NEW v \in Levels PROVE v \in Nat /\ v <= MaxReading
  <2>1. v \in 0 .. MaxReading
    BY AnalogAssumption
  <2> QED BY <2>1, Greatest
<1>2. ASSUME NEW w \in Weights PROVE w \in Nat /\ w <= Heaviest
  <2>1. w \in 0 .. 254
    BY AnalogAssumption
  <2> QED BY <2>1 DEF Heaviest
<1> QED BY <1>1, <1>2

(* A quotient is no greater than what was divided.                         *)
LEMMA QuotientFits ==
  ASSUME NEW x \in Nat, x <= MaxWord, NEW w \in Weights
  PROVE  x \div (w + 1) \in Nat /\ x \div (w + 1) <= MaxWord
<1> DEFINE p == w + 1
<1>1. p \in Nat \ {0}
  BY WeightsAndLevels
<1> HIDE DEF p
<1>2. 0 * p <= x /\ x < (x + 1) * p
  BY <1>1
<1>3. x \div p \in 0 .. x
  <2>1. x \in Int /\ 0 \in Int
    OBVIOUS
  <2> QED BY <1>1, <1>2, <2>1, QuotientWithin
<1> DEFINE q == x \div p
<1>4. q \in 0 .. x
  BY <1>3
<1> HIDE DEF q
<1>5. q \in Nat /\ q <= MaxWord
  BY <1>4, Greatest
<1> QED BY <1>5 DEF q, p

LEMMA InputInitTyped == AnalogInit => InputTypes
<1>1. 0 \in Levels /\ DefaultFilter \in Weights /\ MaxSignals \in Nat
  BY AnalogAssumption
<1> SUFFICES ASSUME AnalogInit PROVE InputTypes
  OBVIOUS
<1>2. analog_in_buffer \in Nat /\ analog_in_buffer <= MaxWord
  BY Greatest DEF AnalogInit
<1>3. old_ad \in Nat /\ old_ad <= MaxReading
  BY DEF AnalogInit, MaxReading
<1>4. pulses \in Nat /\ falls \in 0 .. MaxSignals
  BY <1>1 DEF AnalogInit
<1>5. /\ level \in Levels /\ filter_value \in Weights /\ counting \in BOOLEAN
      /\ AD_Value \in Levels /\ factor \in Weights \cup {0} /\ sum = 0
  BY <1>1 DEF AnalogInit
<1>6. sum \in Nat /\ sum <= MaxWord
  BY <1>5, Greatest
<1> QED BY <1>2, <1>3, <1>4, <1>5, <1>6 DEF InputTypes

LEMMA InputStepTyped == InputTypes /\ [AnalogNext]_analogVars => InputTypes'
<1> SUFFICES ASSUME InputTypes, [AnalogNext]_analogVars PROVE InputTypes'
  OBVIOUS
<1>1. ASSUME NEW v \in Levels, Signal(v) PROVE InputTypes'
  <2>1. MaxSignals \in Nat
    BY AnalogAssumption
  <2>2. falls' \in Nat /\ falls' <= MaxSignals
    BY <1>1, <2>1 DEF Signal, InputTypes
  <2>3. falls' \in 0 .. MaxSignals
    BY <2>1, <2>2
  <2> QED BY <1>1, <2>3 DEF Signal, scanned, InputTypes
<1>2. ASSUME NEW pulse \in BOOLEAN, NEW w \in Weights, Set(pulse, w) PROVE InputTypes'
  BY <1>2 DEF Set, scanned, InputTypes
<1>3. CASE ADC_getChannal
  BY <1>3 DEF ADC_getChannal, InputsStep, InputTypes
<1>4. CASE Count
  <2>1. pulses' \in Nat /\ old_ad' = AD_Value /\ AD_Value \in Nat /\ AD_Value <= MaxReading
    BY <1>4, WeightsAndLevels DEF Count, CountPulse, InputTypes
  <2> QED BY <1>4, <2>1 DEF Count, InputsStep, InputTypes
<1>5. CASE FilterRough
  <2>1. AD_Value - analog_in_buffer \in Int
    BY WeightsAndLevels DEF InputTypes
  <2>2. siDelta \in Int
    BY <2>1, SignedTyped DEF siDelta
  <2>3. analog_in_buffer + siDelta \div 2 \in Int
    BY <2>2 DEF InputTypes
  <2>4. analog_in_buffer' \in Nat /\ analog_in_buffer' <= MaxWord
    BY <1>5, <2>3, WordRange DEF FilterRough
  <2> QED BY <1>5, <2>4 DEF FilterRough, InputsStep, InputTypes
<1>6. CASE FilterFine
  <2> DEFINE product == analog_in_buffer * filter_value
  <2>1. product \in Int
    BY WeightsAndLevels DEF InputTypes
  <2> HIDE DEF product
  <2>2. Word(product) + AD_Value \in Int
    BY <2>1, WordRange, WeightsAndLevels DEF InputTypes
  <2>3. sum' = Word(Word(product) + AD_Value) /\ factor' = filter_value
    BY <1>6 DEF FilterFine, product
  <2>4. sum' \in Nat /\ sum' <= MaxWord
    BY <2>2, <2>3, WordRange
  <2> QED BY <1>6, <2>3, <2>4 DEF FilterFine, InputsStep, InputTypes
<1>7. CASE FilterDivide
  <2>1. analog_in_buffer' \in Nat /\ analog_in_buffer' <= MaxWord
    BY <1>7, QuotientFits DEF FilterDivide, Quotient, InputTypes
  <2>2. sum' = 0 /\ factor' = 0 /\ UNCHANGED <<AD_Value, old_ad, pulses>>
    BY <1>7 DEF FilterDivide
  <2>3. sum' \in Nat /\ sum' <= MaxWord
    BY <2>2, Greatest
  <2> QED BY <1>7, <2>1, <2>2, <2>3 DEF FilterDivide, InputsStep, InputTypes
<1>8. CASE UNCHANGED analogVars
  BY <1>8 DEF analogVars, InputTypes
<1> QED
  BY <1>1, <1>2, <1>3, <1>4, <1>5, <1>6, <1>7, <1>8 DEF AnalogNext, inputs_scan, filter_inputs

(* The reading, the average in its 16 bits and the counts stay in range,   *)
(* whatever the levels, the weights and the changes of range.              *)
THEOREM InputTyped == AnalogSpec => []AnalogTypeOK
<1>1. InputTypes => AnalogTypeOK
  <2> SUFFICES ASSUME InputTypes PROVE AnalogTypeOK
    OBVIOUS
  <2>1. analog_in_buffer \in 0 .. MaxWord
    BY Greatest DEF InputTypes
  <2>2. old_ad \in 0 .. MaxReading
    BY Greatest DEF InputTypes
  <2>3. /\ level \in Levels /\ filter_value \in Weights /\ pulses \in Nat /\ falls \in 0 .. MaxSignals
        /\ AD_Value \in Levels /\ factor \in Weights \cup {0}
    BY DEF InputTypes
  <2>4. sum \in 0 .. MaxWord
    BY Greatest DEF InputTypes
  <2> QED BY <2>1, <2>2, <2>3, <2>4 DEF AnalogTypeOK
<1> QED BY <1>1, InputInitTyped, InputStepTyped, PTL DEF AnalogSpec

(* A fall between two of the reading before this one, the reading of this  *)
(* round and the level is one the counter may still count.                 *)
Below(a, b) == IF a < b THEN 1 ELSE 0
PulsesDue ==
  IF round = "scan" THEN Below(AD_Value, old_ad) + Below(level, AD_Value) ELSE Below(level, old_ad)
PulsesInv == InputTypes /\ pulses + PulsesDue <= falls + 1

LEMMA PulsesStep == PulsesInv /\ [AnalogNext]_analogVars => PulsesInv'
<1> SUFFICES ASSUME PulsesInv, [AnalogNext]_analogVars PROVE pulses' + PulsesDue' <= falls' + 1
  BY InputStepTyped DEF PulsesInv
<1>1. /\ level \in Nat /\ level <= MaxReading /\ AD_Value \in Nat /\ AD_Value <= MaxReading
      /\ old_ad \in Nat /\ old_ad <= MaxReading /\ pulses \in Nat /\ falls \in Nat
      /\ pulses + PulsesDue <= falls + 1
  BY WeightsAndLevels, AnalogAssumption DEF PulsesInv, InputTypes
<1>2. ASSUME NEW v \in Levels, Signal(v) PROVE pulses' + PulsesDue' <= falls' + 1
  <2>1. /\ v \in Nat /\ level' = v /\ round' = round
        /\ AD_Value' = AD_Value /\ old_ad' = old_ad /\ pulses' = pulses
    BY <1>2, WeightsAndLevels DEF Signal, scanned
  <2>2. falls' = IF v < level THEN falls + 1 ELSE falls
    BY <1>2 DEF Signal
  <2> QED BY <1>1, <2>1, <2>2 DEF PulsesDue, Below
<1>3. ASSUME NEW pulse \in BOOLEAN, NEW w \in Weights, Set(pulse, w)
      PROVE  pulses' + PulsesDue' <= falls' + 1
  BY <1>1, <1>3 DEF Set, scanned, PulsesDue, Below
<1>4. CASE ADC_getChannal
  BY <1>1, <1>4 DEF ADC_getChannal, InputsStep, PulsesDue, Below
<1>5. CASE Count
  BY <1>1, <1>5 DEF Count, CountPulse, InputsStep, PulsesDue, Below
<1>6. CASE filter_inputs
  <2>1. /\ round' # "scan" /\ UNCHANGED <<level, AD_Value, old_ad, pulses, falls>>
    BY <1>6 DEF filter_inputs, FilterRough, FilterFine, FilterDivide, InputsStep
  <2> QED BY <1>1, <2>1 DEF PulsesDue, Below
<1>7. CASE UNCHANGED analogVars
  BY <1>1, <1>7 DEF analogVars, PulsesDue, Below
<1> QED BY <1>2, <1>3, <1>4, <1>5, <1>6, <1>7 DEF AnalogNext, inputs_scan

(* Whether the input stays in the range of pulses, or leaves it, amid a    *)
(* round or not, and comes back with a reading long past, it never counts  *)
(* more than the falls of its level, and one at power-up.                  *)
THEOREM CountsFallsOnly == AnalogSpec => []NoExtraPulses
<1>1. AnalogInit => PulsesInv
  BY InputInitTyped DEF PulsesInv, PulsesDue, Below, AnalogInit
<1>2. PulsesInv => NoExtraPulses
  BY AnalogAssumption DEF PulsesInv, InputTypes, PulsesDue, Below, NoExtraPulses
<1> QED BY <1>1, <1>2, PulsesStep, PTL DEF AnalogSpec

(* With an average and a reading of 12 bits and a weight of 15 or less, no *)
(* product is cut.                                                         *)
Between(a, x, b) == (a <= x /\ x <= b) \/ (b <= x /\ x <= a)

LEMMA RoughWithin ==
  ASSUME NEW b \in Nat, b <= MaxReading, NEW v \in Nat, v <= MaxReading,
         v - b >= 100 \/ v - b <= -100
  PROVE  Between(b, Word(b + (v - b) \div 2), v)
<1> DEFINE h == (v - b) \div 2
<1>1. h \in Int /\ 2 * h <= v - b /\ v - b <= 2 * h + 1
  OBVIOUS
<1> HIDE DEF h
<1>2. Between(b, b + h, v) /\ b + h \in Nat /\ b + h <= MaxReading
  <2>1. CASE v - b >= 100
    <3>1. b <= b + h /\ b + h <= v
      BY <1>1, <2>1
    <3>2. b + h \in Int /\ b + h >= 0 /\ b + h <= MaxReading
      BY <1>1, <3>1, Greatest
    <3> QED BY <3>1, <3>2 DEF Between
  <2>2. CASE v - b <= -100
    <3>1. v <= b + h /\ b + h <= b
      BY <1>1, <2>2
    <3>2. b + h \in Int /\ b + h >= 0 /\ b + h <= MaxReading
      BY <1>1, <3>1, Greatest
    <3> QED BY <3>1, <3>2 DEF Between
  <2> QED BY <2>1, <2>2
<1>3. b + h <= MaxWord
  BY <1>2, Greatest
<1>4. Word(b + h) = b + h
  BY <1>2, <1>3, WordFits
<1> QED BY <1>2, <1>4 DEF h

LEMMA FineWithin ==
  ASSUME NEW b \in Nat, b <= MaxReading, NEW w \in Nat, w <= 15, NEW v \in Nat, v <= MaxReading
  PROVE  Between(b, Word(Word(b * w) + v) \div (w + 1), v)
<1> DEFINE m == b * w   p == w + 1   x == m + v
<1>1. m \in Nat /\ m <= MaxReading * 15
  <2>1. m <= MaxReading * w /\ MaxReading * w <= MaxReading * 15
    BY Greatest
  <2>2. m \in Nat /\ MaxReading * w \in Nat /\ MaxReading * 15 \in Nat
    BY Greatest
  <2> QED BY <2>1, <2>2
<1>2. b * p = m + b /\ v * p = v * w + v /\ p \in Nat \ {0} /\ v * w \in Nat
  OBVIOUS
<1>3. (v + 1) * p = v * p + p /\ (b + 1) * p = b * p + p
  OBVIOUS
<1>4. (b <= v => m <= v * w) /\ (v <= b => v * w <= m)
  OBVIOUS
<1> DEFINE average == Word(Word(m) + v) \div p
<1> SUFFICES Between(b, average, v)
  OBVIOUS
<1> HIDE DEF m, p
<1>6. Word(m) = m /\ Word(m + v) = x
  <2>1. m + v \in Nat /\ m + v <= MaxWord /\ m <= MaxWord
    BY <1>1, Greatest
  <2> QED BY <1>1, <2>1, WordFits
<1>7. average = x \div p /\ x \in Int
  BY <1>1, <1>6
<1> HIDE DEF average
<1>8. CASE b <= v
  <2>1. b * p <= x /\ x < (v + 1) * p
    BY <1>1, <1>2, <1>3, <1>4, <1>8
  <2> HIDE DEF x
  <2>2. b \in Int /\ v \in Int /\ x \in Int /\ p \in Nat \ {0}
    BY <1>2, <1>7
  <2>3. x \div p \in b .. v
    BY <2>1, <2>2, QuotientWithin
  <2> QED BY <1>7, <2>3 DEF Between
<1>9. CASE v <= b
  <2>1. v * p <= x /\ x < (b + 1) * p
    BY <1>1, <1>2, <1>3, <1>4, <1>9
  <2> HIDE DEF x
  <2>2. b \in Int /\ v \in Int /\ x \in Int /\ p \in Nat \ {0}
    BY <1>2, <1>7
  <2>3. x \div p \in v .. b
    BY <2>1, <2>2, QuotientWithin
  <2> QED BY <1>7, <2>3 DEF Between
<1> QED BY <1>8, <1>9

(* The sum that is to be divided is that of this average and this reading, *)
(* with the weight it was made with.                                       *)
SumInv ==
  /\ InputTypes
  /\ round = "divide" => sum = Word(Word(analog_in_buffer * factor) + AD_Value)

LEMMA SumStep == SumInv /\ [AnalogNext]_analogVars => SumInv'
<1> SUFFICES ASSUME SumInv, [AnalogNext]_analogVars, round' = "divide"
             PROVE  sum' = Word(Word(analog_in_buffer' * factor') + AD_Value')
  BY InputStepTyped DEF SumInv, Word
<1>1. CASE FilterFine
  BY <1>1 DEF FilterFine
<1>2. CASE ~ FilterFine
  <2>1. UNCHANGED <<round, sum, factor, analog_in_buffer, AD_Value>>
    BY <1>2 DEF AnalogNext, inputs_scan, filter_inputs, ADC_getChannal, Count, FilterRough,
                FilterDivide, InputsStep, Signal, Set, scanned, analogVars
  <2> QED BY <2>1 DEF SumInv
<1> QED BY <1>1, <1>2

(* With weights of 15 and less an average of 12 bits never leaves the      *)
(* interval between what it was and the reading, be the filter rough or    *)
(* fine and although the code keeps 16 bits only, whenever the weight is   *)
(* written: unless it is written between the product and the quotient, and *)
(* the round ends with another weight than it began with.                  *)
THEOREM FilterStaysBetween ==
  ASSUME Weights \subseteq 0 .. 15
  PROVE  AnalogSpec => FilterBetween
<1> DEFINE Step ==
      \/ analog_in_buffer <= analog_in_buffer' /\ analog_in_buffer' <= AD_Value
      \/ AD_Value <= analog_in_buffer' /\ analog_in_buffer' <= analog_in_buffer
      \/ round = "divide" /\ filter_value # factor
      \/ analog_in_buffer > MaxReading
      \/ UNCHANGED analog_in_buffer
<1>1. AnalogInit => SumInv
  BY InputInitTyped DEF SumInv, AnalogInit
<1>2. SumInv /\ [AnalogNext]_analogVars => Step
  <2> SUFFICES ASSUME SumInv, [AnalogNext]_analogVars, ~ (analog_in_buffer > MaxReading) PROVE Step
    OBVIOUS
  <2>1. /\ analog_in_buffer \in Nat /\ analog_in_buffer <= MaxReading
        /\ AD_Value \in Nat /\ AD_Value <= MaxReading
        /\ filter_value \in Nat /\ filter_value <= 15
    BY WeightsAndLevels, Greatest DEF SumInv, InputTypes
  <2>2. CASE FilterRough
    <3>1. siDelta = AD_Value - analog_in_buffer
      BY <2>1, SignedFits DEF siDelta
    <3>2. Between(analog_in_buffer, analog_in_buffer', AD_Value)
      BY <2>1, <2>2, <3>1, RoughWithin DEF FilterRough, Far
    <3> QED BY <3>2 DEF Between
  <2>3. CASE FilterDivide
    <3> SUFFICES ASSUME filter_value = factor PROVE Step
      BY <2>3 DEF FilterDivide, InputsStep
    <3>1. analog_in_buffer' = Word(Word(analog_in_buffer * filter_value) + AD_Value) \div (filter_value + 1)
      BY <2>3 DEF FilterDivide, InputsStep, Quotient, SumInv
    <3>2. Between(analog_in_buffer, analog_in_buffer', AD_Value)
      BY <2>1, <3>1, FineWithin
    <3> QED BY <3>2 DEF Between
  <2>4. CASE ~ FilterRough /\ ~ FilterDivide
    BY <2>4 DEF AnalogNext, inputs_scan, filter_inputs, ADC_getChannal, Count, FilterFine,
                Signal, Set, scanned, analogVars
  <2> QED BY <2>2, <2>3, <2>4
<1>3. AnalogSpec => [][Step]_analogVars
  BY <1>1, <1>2, SumStep, PTL DEF AnalogSpec
<1> QED BY <1>3 DEF FilterBetween
-----------------------------------------------------------------------------
(* The outputs. *)
Most == Half * Half - 1        \* of two bytes

StoreTypes == [output : Output, value : 0 .. Most, bytes : {1, 2}]
DrivingTypes == [output : Output, oneswitch_buf : Switch \cup {"not one"}]

OutputTypes ==
  /\ position \in [Output -> Switch]
  /\ switch_state_buf \in [Output -> Switch] /\ switch_gourp \in [Output -> Switch]
  /\ refresh \subseteq Output
  /\ driving = Undriven \/ (driving \in DrivingTypes /\ driving.output \in refresh)
  /\ output \in [Output -> 0 .. Most] /\ duty \in [Output -> 0 .. Most]
  /\ \A c \in Digital : output[c] \in {0, 1} /\ duty[c] \in {0, Full}
  /\ lo \in [Output -> 0 .. Half - 1] /\ hi \in [Output -> 0 .. Half - 1]
  /\ store = Nowhere \/ store \in StoreTypes
  /\ command \in [Output -> 0 .. Unasked] /\ undisturbed \in [Output -> BOOLEAN]

LEMMA Ranged ==
  /\ Most \in Nat /\ Full \in 0 .. Most /\ Full < Most /\ Full \in Nat \ {0}
  /\ 0 \in 0 .. Most /\ 1 \in 0 .. Most
  /\ Half \in Nat \ {0, 1} /\ Half * Half \in Nat /\ Unasked = Most + 1 /\ Unasked \in Nat
  /\ \A v \in Commands : v \in 0 .. Most
<1>1. Half \in Nat \ {0, 1} /\ Full \in Nat \ {0} /\ Full < Half * Half - 1
  BY OutputsAssumption
<1>2. \A v \in Commands : v \in 0 .. Half * Half - 1
  BY OutputsAssumption
<1> DEFINE sq == Half * Half
<1>3. sq \in Nat
  BY <1>1
<1> HIDE DEF sq
<1>4. Full < sq - 1 /\ Most = sq - 1 /\ Unasked = sq
  BY <1>1 DEF sq, Most, Unasked
<1>5. /\ Most \in Nat /\ Full \in 0 .. Most /\ Full < Most
      /\ 0 \in 0 .. Most /\ 1 \in 0 .. Most /\ Unasked = Most + 1 /\ Unasked \in Nat
  BY <1>1, <1>3, <1>4
<1>6. \A v \in Commands : v \in 0 .. Most
  BY <1>2 DEF Most
<1> QED BY <1>1, <1>3, <1>5, <1>6 DEF sq

LEMMA OutputKinds ==
  /\ \A c : c \in Output <=> c \in Analog \/ c \in Digital
  /\ \A c \in Digital : c \notin Analog
  /\ Undriven.output \notin Output
BY OutputsAssumption DEF Output, Undriven

LEMMA UndrivenIsOff == driving.oneswitch_buf = "auto" => driving # Undriven
<1>1. Undriven.oneswitch_buf = "off"
  BY DEF Undriven
<1> QED BY <1>1

(* The two bytes of a value, and the value of two bytes. *)
LEMMA BytesTyped ==
  ASSUME NEW v \in 0 .. Most
  PROVE  v % Half \in 0 .. Half - 1 /\ v \div Half \in 0 .. Half - 1
<1>1. Half \in Nat \ {0} /\ v \in Int /\ v \in Nat /\ v <= Half * Half - 1
  BY Ranged DEF Most
<1>2. v % Half \in 0 .. Half - 1
  BY <1>1, Quotients
<1> DEFINE h == Half - 1
<1>3. h \in Int /\ 0 \in Int /\ h + 1 = Half
  BY <1>1
<1>4. 0 * Half <= v /\ v < (h + 1) * Half
  BY <1>1, <1>3
<1> HIDE DEF h
<1>5. v \div Half \in 0 .. h
  BY <1>1, <1>3, <1>4, QuotientWithin
<1> QED BY <1>2, <1>5 DEF h

LEMMA ValueOfBytes ==
  ASSUME NEW l \in 0 .. Half - 1, NEW h \in 0 .. Half - 1
  PROVE  h * Half + l \in 0 .. Most
<1>1. Half \in Nat \ {0} /\ h \in Nat /\ l \in Nat /\ l <= Half - 1 /\ h <= Half - 1
  BY Ranged
<1>2. h * Half <= (Half - 1) * Half /\ h * Half \in Nat
  BY <1>1
<1>3. (Half - 1) * Half = Half * Half - Half /\ Half * Half \in Nat
  BY <1>1
<1> QED BY <1>1, <1>2, <1>3 DEF Most

LEMMA BytesOfValue ==
  ASSUME NEW v \in 0 .. Most
  PROVE  (v \div Half) * Half + (v % Half) = v
BY Ranged, Quotients

LEMMA AtStartTyped ==
  ASSUME OutputTypes, NEW c \in Output
  PROVE  AtStart(c) \in 0 .. Most /\ (c \in Digital => AtStart(c) \in {0, 1})
<1>1. lo[c] \in 0 .. Half - 1 /\ hi[c] \in 0 .. Half - 1
  BY DEF OutputTypes
<1>2. hi[c] * Half + lo[c] \in 0 .. Most
  BY <1>1, ValueOfBytes
<1>3. CASE c \in Analog
  <2>1. c \notin Digital
    BY <1>3, OutputKinds
  <2> QED BY <1>2, <1>3, <2>1, Ranged DEF AtStart, BytesErased
<1>4. CASE c \notin Analog
  <2>1. AtStart(c) = IF lo[c] > 1 THEN 1 ELSE lo[c]
    BY <1>4 DEF AtStart
  <2>2. AtStart(c) \in {0, 1}
    BY <1>1, <2>1, Ranged
  <2> QED BY <2>2, Ranged
<1> QED BY <1>3, <1>4

LEMMA OutputInitTyped == OutputsInit => OutputTypes
<1> SUFFICES ASSUME OutputsInit PROVE OutputTypes
  OBVIOUS
<1>1. position \in [Output -> Switch] /\ switch_state_buf \in [Output -> Switch] /\ switch_gourp \in [Output -> Switch]
  BY DEF OutputsInit, Switch
<1>2. output \in [Output -> 0 .. Most] /\ duty \in [Output -> 0 .. Most]
  BY Ranged DEF OutputsInit
<1>3. \A c \in Digital : output[c] \in {0, 1} /\ duty[c] \in {0, Full}
  BY OutputKinds DEF OutputsInit
<1>4. 0 \in 0 .. Half - 1
  BY Ranged
<1>5. lo \in [Output -> 0 .. Half - 1] /\ hi \in [Output -> 0 .. Half - 1]
  BY <1>4 DEF OutputsInit
<1>6. Unasked \in 0 .. Unasked
  BY Ranged
<1>7. command \in [Output -> 0 .. Unasked] /\ undisturbed \in [Output -> BOOLEAN]
  BY <1>6 DEF OutputsInit
<1> QED BY <1>1, <1>2, <1>3, <1>5, <1>7 DEF OutputsInit, OutputTypes

LEMMA OutputStepTyped == OutputTypes /\ [OutputsNext]_outputsVars => OutputTypes'
<1> SUFFICES ASSUME OutputTypes, [OutputsNext]_outputsVars PROVE OutputTypes'
  OBVIOUS
<1> USE DEF OutputTypes
<1>1. ASSUME NEW c \in Output, NEW p \in Switch, Move(c, p) PROVE OutputTypes'
  BY <1>1 DEF Move, keyVars, driven, memory
<1>2. CASE KEY_Status_Scan
  <2>1. UNCHANGED <<position, driven, memory, undisturbed>>
    BY <1>2 DEF KEY_Status_Scan, key_analyse, KeyStep
  <2>2. switch_state_buf' \in [Output -> Switch]
    BY <1>2 DEF KEY_Status_Scan, key_analyse, KeyStep, Group
  <2>3. ASSUME NEW group, NEW values, \A c \in group \cap Output : values[c] \in Switch, Group(group, values)
        PROVE  switch_gourp' \in [Output -> Switch]
    BY <2>3 DEF Group
  <2>4. switch_gourp' \in [Output -> Switch]
    <3>1. CASE key_analyse
      BY <3>1 DEF key_analyse
    <3>2. CASE Group(Digital, AllOff) \/ Group(Analog, AllOff)
      <4>1. \A c \in Output : AllOff[c] \in Switch
        BY DEF AllOff, Switch
      <4> QED BY <2>3, <3>2, <4>1
    <3>3. CASE \E values \in [Digital -> Switch] : Group(Digital, values)
      BY <2>3, <3>3
    <3>4. CASE Group(Digital, switch_state_buf) \/ Group(Analog, switch_state_buf)
      BY <2>3, <3>4
    <3> QED BY <1>2, <3>1, <3>2, <3>3, <3>4 DEF KEY_Status_Scan
  <2> QED BY <2>1, <2>2, <2>4 DEF driven, memory
<1>3. ASSUME NEW c \in Output, Drive(c) PROVE OutputTypes'
  <2>1. /\ UNCHANGED <<position, keyVars, memory, undisturbed>> /\ refresh' \subseteq Output
        /\ driving' = Undriven
    BY <1>3 DEF Drive
  <2>2. CASE c \in Analog
    <3>1. AnalogNow(c) \in 0 .. Most
      BY Ranged DEF AnalogNow
    <3>2. output' = [output EXCEPT ![c] = AnalogNow(c)] /\ duty' = [duty EXCEPT ![c] = AnalogNow(c)]
      BY <1>3, <2>2 DEF Drive
    <3>3. output' \in [Output -> 0 .. Most] /\ duty' \in [Output -> 0 .. Most]
      BY <3>1, <3>2
    <3>4. \A d \in Digital : d # c /\ d \in Output
      BY <2>2, OutputKinds
    <3>5. \A d \in Digital : output'[d] \in {0, 1} /\ duty'[d] \in {0, Full}
      BY <3>2, <3>4
    <3> QED BY <2>1, <3>3, <3>5 DEF keyVars, memory
  <2>3. CASE c \notin Analog
    <3>1. DigitalDuty(c) \in {0, Full}
      <4>1. duty[c] \in {0, Full}
        BY <2>3, OutputKinds
      <4> QED BY <4>1 DEF DigitalDuty
    <3>2. output' = output /\ duty' = [duty EXCEPT ![c] = DigitalDuty(c)]
      BY <1>3, <2>3 DEF Drive
    <3>3. duty' \in [Output -> 0 .. Most]
      BY <3>1, <3>2, Ranged
    <3>4. \A d \in Digital : duty'[d] \in {0, Full}
      BY <3>1, <3>2, OutputKinds
    <3> QED BY <2>1, <3>2, <3>3, <3>4 DEF keyVars, memory
  <2> QED BY <2>2, <2>3
<1>4. CASE WakeOutputs
  BY <1>4 DEF WakeOutputs, keyVars, memory
<1>5. ASSUME NEW c \in Output, NEW v \in IF c \in Analog THEN Commands ELSE {0, 1}, SetOutput(c, v)
      PROVE  OutputTypes'
  <2> DEFINE value == IF c \in Analog THEN Limited(v) ELSE IF v > 1 THEN 1 ELSE v
  <2>1. v \in 0 .. Most
    BY Ranged
  <2>2. value \in 0 .. Most /\ (c \notin Analog => value = v /\ value \in {0, 1})
    BY <2>1, Ranged DEF Limited
  <2>3. /\ UNCHANGED <<position, keyVars, refresh, driving, duty, lo, hi>>
        /\ output' = [output EXCEPT ![c] = value]
        /\ store' = [output |-> c, value |-> IF c \in Analog THEN v ELSE value,
                     bytes |-> IF c \in Analog THEN 2 ELSE 1]
        /\ command' = [command EXCEPT ![c] = value]
        /\ undisturbed' = [undisturbed EXCEPT ![c] = c \in Analog /\ KnownAuto(c)]
    BY <1>5 DEF SetOutput
  <2> HIDE DEF value
  <2>4. value \in 0 .. Unasked
    BY <2>2, Ranged
  <2>5. output' \in [Output -> 0 .. Most] /\ command' \in [Output -> 0 .. Unasked]
    BY <2>2, <2>3, <2>4
  <2>6. undisturbed' \in [Output -> BOOLEAN]
    BY <2>3
  <2>7. store' \in StoreTypes
    BY <2>1, <2>2, <2>3 DEF StoreTypes
  <2>8. \A d \in Digital : output'[d] \in {0, 1}
    BY <2>2, <2>3, OutputKinds
  <2> QED BY <2>3, <2>5, <2>6, <2>7, <2>8 DEF keyVars
<1>6. CASE StoreOutput
  <2>1. store \in StoreTypes
    BY <1>6 DEF StoreOutput
  <2>2. store.value % Half \in 0 .. Half - 1 /\ store.value \div Half \in 0 .. Half - 1
    BY <2>1, BytesTyped DEF StoreTypes
  <2>3. lo' \in [Output -> 0 .. Half - 1] /\ hi' \in [Output -> 0 .. Half - 1]
    BY <1>6, <2>2 DEF StoreOutput
  <2>4. store' = Nowhere \/ store' \in StoreTypes
    BY <1>6, <2>1 DEF StoreOutput, StoreTypes
  <2> QED BY <1>6, <2>3, <2>4 DEF StoreOutput, keyVars, driven
<1>7. CASE Crash
  <2>1. output' \in [Output -> 0 .. Most] /\ \A d \in Digital : output'[d] \in {0, 1}
    BY <1>7, AtStartTyped, OutputKinds DEF Crash
  <2>2. duty' \in [Output -> 0 .. Most] /\ \A d \in Digital : duty'[d] \in {0, Full}
    BY <1>7, Ranged, OutputKinds DEF Crash
  <2>3. switch_gourp' \in [Output -> Switch] /\ switch_state_buf' \in [Output -> Switch]
    BY <1>7 DEF Crash, AllOff, Switch
  <2>4. undisturbed' \in [Output -> BOOLEAN]
    BY <1>7 DEF Crash
  <2>5. 0 \in 0 .. Half - 1
    BY Ranged
  <2>6. lo' \in [Output -> 0 .. Half - 1] /\ hi' \in [Output -> 0 .. Half - 1]
    BY <1>7, <2>5 DEF Crash
  <2> QED BY <1>7, <2>1, <2>2, <2>3, <2>4, <2>6 DEF Crash
<1>8. CASE UNCHANGED outputsVars
  BY <1>8 DEF outputsVars
<1>9. ASSUME NEW c \in Output, ReadSwitch(c) PROVE OutputTypes'
  <2>1. /\ UNCHANGED <<position, keyVars, refresh, output, duty, memory>> /\ c \in refresh
        /\ driving' = [output |-> c, oneswitch_buf |-> switch_gourp[c]]
    BY <1>9 DEF ReadSwitch
  <2>2. driving' \in DrivingTypes /\ driving'.output \in refresh'
    BY <2>1 DEF DrivingTypes
  <2>3. undisturbed' \in [Output -> BOOLEAN]
    BY <1>9 DEF ReadSwitch
  <2> QED BY <2>1, <2>2, <2>3 DEF keyVars, memory
<1>10. CASE NotOne
  <2>1. /\ UNCHANGED <<position, keyVars, refresh, output, duty, memory, undisturbed>>
        /\ driving' = [driving EXCEPT !.oneswitch_buf = "not one"] /\ AskedForOne
    BY <1>10 DEF NotOne
  <2>2. driving # Undriven
    BY <2>1, UndrivenIsOff DEF AskedForOne
  <2>3. driving' \in DrivingTypes /\ driving'.output \in refresh'
    BY <2>1, <2>2 DEF DrivingTypes
  <2> QED BY <2>1, <2>3 DEF keyVars, memory
<1> QED
  BY <1>1, <1>2, <1>3, <1>4, <1>5, <1>6, <1>7, <1>8, <1>9, <1>10 DEF OutputsNext, OutputsTask

(* Switches, outputs, timers and stored bytes stay in range, for any       *)
(* channels and commands: what start-up reads of an output, be it of two   *)
(* commands, still fits the two bytes it came from.                        *)
THEOREM OutputsTyped == OutputsSpec => []OutputsTypeOK
<1>1. OutputTypes => OutputsTypeOK
  BY OutputKinds, Ranged DEF OutputTypes, OutputsTypeOK, Most
<1> QED BY <1>1, OutputInitTyped, OutputStepTyped, PTL DEF OutputsSpec

(* Of an undisturbed output KEY has scanned AUTO, and so has OUTPUTS, if it*)
(* holds a reading of that switch: it leaves the value alone.              *)
InAuto(c) ==
  /\ c \in Analog /\ position[c] = "auto" /\ switch_state_buf[c] = "auto"
  /\ driving.output = c => driving.oneswitch_buf = "auto"

AutoInv ==
  /\ OutputTypes
  /\ \A c \in Output : undisturbed[c] => InAuto(c) /\ output[c] = command[c]

LEMMA AutoStep == AutoInv /\ [OutputsNext]_outputsVars => AutoInv'
<1> SUFFICES ASSUME AutoInv, [OutputsNext]_outputsVars, NEW d \in Output, undisturbed'[d]
             PROVE  InAuto(d)' /\ output'[d] = command'[d]
  BY OutputStepTyped DEF AutoInv
<1>1. OutputTypes /\ OutputTypes'
  BY OutputStepTyped DEF AutoInv
<1>2. undisturbed[d] => InAuto(d) /\ output[d] = command[d]
  BY DEF AutoInv
<1>3. ASSUME UNCHANGED <<position, switch_state_buf, driving, output, command, undisturbed>>
      PROVE  InAuto(d)' /\ output'[d] = command'[d]
  BY <1>2, <1>3 DEF InAuto
<1>4. ASSUME NEW c \in Output, NEW p \in Switch, Move(c, p)
      PROVE  InAuto(d)' /\ output'[d] = command'[d]
  <2>1. /\ UNCHANGED <<switch_state_buf, driving, output, command>>
        /\ position' = [position EXCEPT ![c] = p]
        /\ undisturbed' = [undisturbed EXCEPT ![c] = FALSE]
    BY <1>4 DEF Move, keyVars, driven, memory
  <2>2. d # c /\ undisturbed[d] /\ position'[d] = position[d]
    BY <1>1, <2>1 DEF OutputTypes
  <2> QED BY <1>2, <2>1, <2>2 DEF InAuto
<1>5. CASE KEY_Status_Scan
  <2>1. UNCHANGED <<position, driving, output, command, undisturbed>>
    BY <1>5 DEF KEY_Status_Scan, key_analyse, KeyStep, driven, memory
  <2>2. switch_state_buf' \in {switch_state_buf, position}
    BY <1>5 DEF KEY_Status_Scan, key_analyse, Group
  <2> QED BY <1>2, <2>1, <2>2 DEF InAuto
<1>6. ASSUME NEW c \in Output, ReadSwitch(c) PROVE InAuto(d)' /\ output'[d] = command'[d]
  <2>1. /\ UNCHANGED <<position, switch_state_buf, output, command>>
        /\ driving' = [output |-> c, oneswitch_buf |-> switch_gourp[c]]
    BY <1>6 DEF ReadSwitch, keyVars, memory
  <2>2. undisturbed[d] /\ (d = c => switch_gourp[c] = switch_state_buf[c])
    <3>1. CASE switch_gourp[c] = switch_state_buf[c]
      BY <1>6, <3>1 DEF ReadSwitch
    <3>2. CASE switch_gourp[c] # switch_state_buf[c]
      <4>1. undisturbed' = [undisturbed EXCEPT ![c] = FALSE]
        BY <1>6, <3>2 DEF ReadSwitch
      <4> QED BY <1>1, <4>1 DEF OutputTypes
    <3> QED BY <3>1, <3>2
  <2> QED BY <1>2, <2>1, <2>2 DEF InAuto
<1>7. ASSUME NEW c \in Output, Drive(c) PROVE InAuto(d)' /\ output'[d] = command'[d]
  <2>1. /\ UNCHANGED <<position, switch_state_buf, command, undisturbed>>
        /\ driving.output = c /\ driving' = Undriven
    BY <1>7 DEF Drive, keyVars, memory
  <2>2. InAuto(d) /\ output[d] = command[d]
    BY <1>2, <2>1
  <2>3. output'[d] = output[d]
    <3>1. CASE d = c
      <4>1. AnalogNow(c) = output[c] /\ c \in Analog
        BY <2>1, <2>2, <3>1 DEF InAuto, AnalogNow
      <4>2. output' = [output EXCEPT ![c] = AnalogNow(c)]
        BY <1>7, <4>1 DEF Drive
      <4> QED BY <1>1, <3>1, <4>1, <4>2 DEF OutputTypes
    <3>2. CASE d # c
      <4>1. output' = [output EXCEPT ![c] = AnalogNow(c)] \/ output' = output
        BY <1>7 DEF Drive
      <4> QED BY <1>1, <3>2, <4>1 DEF OutputTypes
    <3> QED BY <3>1, <3>2
  <2> QED BY <2>1, <2>2, <2>3, OutputKinds DEF InAuto
<1>8. CASE NotOne
  <2>1. /\ UNCHANGED <<position, switch_state_buf, output, command, undisturbed>>
        /\ driving.output \in Digital /\ driving # Undriven
        /\ driving' = [driving EXCEPT !.oneswitch_buf = "not one"]
    BY <1>8, UndrivenIsOff DEF NotOne, AskedForOne, keyVars, memory
  <2>2. driving'.output = driving.output
    BY <1>1, <2>1 DEF OutputTypes, DrivingTypes
  <2> QED BY <1>2, <2>1, <2>2, OutputKinds DEF InAuto
<1>9. CASE WakeOutputs
  BY <1>3, <1>9 DEF WakeOutputs, keyVars, memory
<1>10. ASSUME NEW c \in Output, NEW v \in IF c \in Analog THEN Commands ELSE {0, 1}, SetOutput(c, v)
       PROVE  InAuto(d)' /\ output'[d] = command'[d]
  <2> DEFINE value == IF c \in Analog THEN Limited(v) ELSE IF v > 1 THEN 1 ELSE v
  <2>1. /\ UNCHANGED <<position, switch_state_buf, driving>>
        /\ output' = [output EXCEPT ![c] = value]
        /\ command' = [command EXCEPT ![c] = value]
        /\ undisturbed' = [undisturbed EXCEPT ![c] = c \in Analog /\ KnownAuto(c)]
    BY <1>10 DEF SetOutput, keyVars
  <2> HIDE DEF value
  <2>2. CASE d = c
    <3>1. c \in Analog /\ KnownAuto(c)
      BY <1>1, <2>1, <2>2 DEF OutputTypes
    <3>2. output'[d] = value /\ command'[d] = value
      BY <1>1, <2>1, <2>2 DEF OutputTypes
    <3> QED BY <2>1, <2>2, <3>1, <3>2 DEF InAuto, KnownAuto
  <2>3. CASE d # c
    <3>1. undisturbed[d] /\ output'[d] = output[d] /\ command'[d] = command[d]
      BY <1>1, <2>1, <2>3 DEF OutputTypes
    <3> QED BY <1>2, <2>1, <3>1 DEF InAuto
  <2> QED BY <2>2, <2>3
<1>11. CASE StoreOutput
  BY <1>3, <1>11 DEF StoreOutput, keyVars, driven
<1>12. CASE Crash
  BY <1>12 DEF Crash
<1>13. CASE UNCHANGED outputsVars
  BY <1>3, <1>13 DEF outputsVars
<1> QED
  BY <1>4, <1>5, <1>6, <1>7, <1>8, <1>9, <1>10, <1>11, <1>12, <1>13 DEF OutputsNext, OutputsTask

(* A value that is asked of an analog output in AUTO, and known to be, is  *)
(* kept until the switch is moved or the module stops, however KEY, COMM   *)
(* and another output come between the copy of a switch and the value that *)
(* it decides; unless OUTPUTS copies the switch while KEY renews it, or    *)
(* holds another copy of it as the value comes.                            *)
THEOREM KeepsCommand == OutputsSpec => []CommandKept
<1>1. OutputsInit => AutoInv
  <2> SUFFICES ASSUME OutputsInit PROVE AutoInv
    OBVIOUS
  <2>1. \A c \in Output : ~ undisturbed[c]
    BY DEF OutputsInit
  <2> QED BY <2>1, OutputInitTyped DEF AutoInv
<1>2. AutoInv => CommandKept
  BY OutputKinds DEF AutoInv, CommandKept
<1> QED BY <1>1, <1>2, AutoStep, PTL DEF OutputsSpec

(* Of a value that is being stored: it is the last one asked for, and once *)
(* one of two bytes is left, the low one is in place.                      *)
BeingWritten(c) == store # Nowhere /\ store.output = c

StoringWell ==
  store # Nowhere =>
    /\ store.value = command[store.output]
    /\ store.output \in Digital => store.bytes = 1
    /\ store.output \in Analog /\ store.bytes = 1 => lo[store.output] = store.value % Half

StoredWell(c) == command[c] # Unasked => AtStart(c) = command[c]

Allowed(c, v) == v \in 0 .. Full /\ (c \in Digital => v \in {0, 1})

LastInv ==
  /\ OutputTypes /\ cut \in BOOLEAN
  /\ \A c \in Output : command[c] # Unasked => Allowed(c, command[c])
  /\ StoringWell
  /\ cut \/ \A c \in Output : ~ BeingWritten(c) => StoredWell(c)

LEMMA NowhereIsNoStore == \A s \in StoreTypes : s # Nowhere
<1>1. \A s \in StoreTypes : s.bytes # 0
  BY DEF StoreTypes
<1>2. Nowhere.bytes = 0
  BY DEF Nowhere
<1> QED BY <1>1, <1>2

(* The bytes of a value at most Full are read as that value.               *)
LEMMA ReadsBack ==
  ASSUME NEW v \in 0 .. Full, NEW l, NEW h, l = v % Half, h = v \div Half
  PROVE  h * Half + l = v /\ ~ (l = Clear /\ h = Clear)
<1>1. v \in 0 .. Most /\ v < Most
  BY Ranged
<1>2. h * Half + l = v
  BY <1>1, BytesOfValue
<1>3. ~ (l = Clear /\ h = Clear)
  <2> SUFFICES ASSUME l = Clear, h = Clear PROVE FALSE
    OBVIOUS
  <2>1. v = Clear * Half + Clear
    BY <1>2
  <2>2. Clear = Half - 1 /\ Half \in Nat \ {0, 1}
    BY Ranged DEF Clear
  <2>3. Clear * Half + Clear = Half * Half - 1
    BY <2>2
  <2> QED BY <1>1, <2>1, <2>3 DEF Most
<1> QED BY <1>2, <1>3

LEMMA LastStep ==
  Commands \subseteq 0 .. Full /\ LastInv /\ [OutputsNext]_outputsVars => LastInv'
<1> SUFFICES ASSUME Commands \subseteq 0 .. Full, LastInv, [OutputsNext]_outputsVars PROVE LastInv'
  OBVIOUS
<1>1. OutputTypes /\ OutputTypes' /\ cut \in BOOLEAN
  BY OutputStepTyped DEF LastInv
<1>2. \A c \in Output : command[c] # Unasked => Allowed(c, command[c])
  BY DEF LastInv
<1>3. StoringWell /\ (cut \/ \A c \in Output : ~ BeingWritten(c) => StoredWell(c))
  BY DEF LastInv
<1>4. ASSUME UNCHANGED <<lo, hi, store, command, cut>> PROVE LastInv'
  <2>1. StoringWell'
    BY <1>3, <1>4 DEF StoringWell
  <2>2. \A c \in Output : BeingWritten(c)' = BeingWritten(c) /\ StoredWell(c)' = StoredWell(c)
    BY <1>4 DEF BeingWritten, StoredWell, AtStart, BytesErased
  <2> QED BY <1>1, <1>2, <1>3, <1>4, <2>1, <2>2 DEF LastInv
<1>5. ASSUME NEW c \in Output, NEW p \in Switch, Move(c, p) PROVE LastInv'
  BY <1>4, <1>5 DEF Move, memory
<1>6. CASE KEY_Status_Scan
  BY <1>4, <1>6 DEF KEY_Status_Scan, key_analyse, KeyStep, memory
<1>7. ASSUME NEW c \in Output, Drive(c) PROVE LastInv'
  BY <1>4, <1>7 DEF Drive, memory
<1>8. CASE WakeOutputs \/ NotOne
  BY <1>4, <1>8 DEF WakeOutputs, NotOne, memory
<1>9. ASSUME NEW c \in Output, NEW v \in IF c \in Analog THEN Commands ELSE {0, 1}, SetOutput(c, v)
      PROVE  LastInv'
  <2>1. v \in 0 .. Full
    BY Ranged
  <2>2. (IF c \in Analog THEN Limited(v) ELSE IF v > 1 THEN 1 ELSE v) = v
    BY <2>1, Ranged DEF Limited
  <2>3. /\ UNCHANGED <<lo, hi, cut>>
        /\ store = Nowhere
        /\ store' = [output |-> c, value |-> v, bytes |-> IF c \in Analog THEN 2 ELSE 1]
        /\ command' = [command EXCEPT ![c] = v]
    BY <1>9, <2>2 DEF SetOutput
  <2>4. command'[c] = v /\ \A d \in Output : d # c => command'[d] = command[d]
    BY <1>1, <2>3 DEF OutputTypes
  <2>5. StoringWell'
    BY <2>3, <2>4, OutputKinds DEF StoringWell
  <2>6. \A d \in Output : command'[d] # Unasked => Allowed(d, command'[d])
    <3>1. Allowed(c, v)
      BY <2>1, OutputKinds DEF Allowed
    <3> QED BY <1>2, <2>4, <3>1
  <2>7. ASSUME NEW d \in Output, ~ BeingWritten(d)', ~ cut PROVE StoredWell(d)'
    <3>1. store' \in StoreTypes /\ store'.output = c
      BY <1>1, <2>3 DEF OutputTypes, StoreTypes, Nowhere
    <3>2. d # c
      BY <2>7, <3>1, NowhereIsNoStore DEF BeingWritten
    <3>3. ~ BeingWritten(d)
      BY <2>3 DEF BeingWritten
    <3>4. StoredWell(d)
      BY <1>3, <2>7, <3>3
    <3>5. AtStart(d)' = AtStart(d)
      BY <2>3 DEF AtStart, BytesErased
    <3> QED BY <2>4, <3>2, <3>4, <3>5 DEF StoredWell
  <2> QED BY <1>1, <2>3, <2>5, <2>6, <2>7 DEF LastInv
<1>10. CASE StoreOutput
  <2>1. PICK c \in Output : c = store.output
    BY <1>1, <1>10 DEF StoreOutput, OutputTypes, StoreTypes
  <2>2. /\ store # Nowhere /\ store \in StoreTypes /\ UNCHANGED <<command, cut>>
        /\ store' = IF store.bytes = 1 THEN Nowhere ELSE [store EXCEPT !.bytes = 1]
        /\ IF store.bytes = (IF c \in Analog THEN 2 ELSE 1)
           THEN lo' = [lo EXCEPT ![c] = store.value % Half] /\ hi' = hi
           ELSE hi' = [hi EXCEPT ![c] = store.value \div Half] /\ lo' = lo
    BY <1>1, <1>10, <2>1 DEF StoreOutput, OutputTypes
  <2>3. /\ store.value = command[c] /\ (c \in Digital => store.bytes = 1)
        /\ c \in Analog /\ store.bytes = 1 => lo[c] = store.value % Half
    BY <1>3, <2>1, <2>2 DEF StoringWell
  <2>4. command[c] # Unasked /\ command[c] \in 0 .. Full /\ (c \in Digital => command[c] \in {0, 1})
    <3>1. store.value \in 0 .. Most
      BY <2>2 DEF StoreTypes
    <3>2. command[c] # Unasked
      BY <2>3, <3>1, Ranged
    <3> QED BY <1>2, <3>2 DEF Allowed
  <2>5. store.bytes \in {1, 2} /\ store.output = c
    BY <2>1, <2>2 DEF StoreTypes
  <2>6. \A d \in Output : d # c => lo'[d] = lo[d] /\ hi'[d] = hi[d]
    BY <1>1, <2>2 DEF OutputTypes
  <2>7. ASSUME NEW d \in Output, d # c, ~ cut PROVE StoredWell(d)'
    <3>1. ~ BeingWritten(d)
      BY <2>5, <2>7 DEF BeingWritten
    <3>2. StoredWell(d)
      BY <1>3, <2>7, <3>1
    <3>3. AtStart(d)' = AtStart(d)
      BY <2>6, <2>7 DEF AtStart, BytesErased
    <3> QED BY <2>2, <3>2, <3>3 DEF StoredWell
  <2>8. CASE store.bytes = 2
    <3>1. c \in Analog /\ lo' = [lo EXCEPT ![c] = store.value % Half]
      BY <2>2, <2>3, <2>8, OutputKinds
    <3>2. store' = [store EXCEPT !.bytes = 1]
      BY <2>2, <2>8
    <3>3. store'.output = c /\ store'.value = store.value /\ store'.bytes = 1 /\ store' \in StoreTypes
      BY <2>2, <2>5, <3>2 DEF StoreTypes
    <3>4. lo'[c] = store.value % Half
      BY <1>1, <3>1 DEF OutputTypes
    <3>5. StoringWell'
      BY <2>2, <2>3, <3>3, <3>4 DEF StoringWell
    <3>6. \A d \in Output : ~ BeingWritten(d)' => d # c
      BY <3>3, NowhereIsNoStore DEF BeingWritten
    <3> QED BY <1>1, <1>2, <2>2, <2>7, <3>5, <3>6 DEF LastInv
  <2>9. CASE store.bytes = 1
    <3>1. store' = Nowhere
      BY <2>2, <2>9
    <3>2. StoringWell'
      BY <3>1 DEF StoringWell
    <3>3. CASE c \in Analog
      <4>1. hi' = [hi EXCEPT ![c] = store.value \div Half] /\ lo' = lo
        BY <2>2, <2>9, <3>3
      <4>2. lo'[c] = command[c] % Half /\ hi'[c] = command[c] \div Half
        BY <1>1, <2>3, <2>9, <3>3, <4>1 DEF OutputTypes
      <4>3. AtStart(c)' = command[c]
        BY <2>4, <3>3, <4>2, ReadsBack DEF AtStart, BytesErased
      <4> QED BY <1>1, <1>2, <2>2, <2>7, <3>2, <4>3 DEF LastInv, StoredWell
    <3>4. CASE c \in Digital
      <4>1. c \notin Analog
        BY <3>4, OutputKinds
      <4>2. lo' = [lo EXCEPT ![c] = store.value % Half]
        BY <2>2, <2>9, <4>1
      <4>3. command[c] \in {0, 1}
        BY <2>4, <3>4
      <4>4. lo'[c] = command[c] % Half
        BY <1>1, <2>3, <4>2 DEF OutputTypes
      <4>5. lo'[c] = command[c]
        BY <4>3, <4>4, Ranged
      <4>6. AtStart(c)' = command[c]
        BY <4>1, <4>3, <4>5 DEF AtStart
      <4> QED BY <1>1, <1>2, <2>2, <2>7, <3>2, <4>6 DEF LastInv, StoredWell
    <3> QED BY <3>3, <3>4, OutputKinds
  <2> QED BY <2>5, <2>8, <2>9
<1>11. CASE Crash
  <2>1. UNCHANGED command /\ cut' = (cut \/ store # Nowhere) /\ store' = Nowhere
    BY <1>11 DEF Crash
  <2>2. StoringWell'
    BY <2>1 DEF StoringWell
  <2>3. ASSUME ~ cut', NEW d \in Output PROVE StoredWell(d)'
    <3>1. ~ cut /\ store = Nowhere
      BY <2>1, <2>3
    <3>2. StoredWell(d)
      BY <1>3, <3>1 DEF BeingWritten
    <3>3. AtStart(d)' = AtStart(d)
      <4>1. CASE BytesErased(d)
        <5>1. lo'[d] = 0 /\ hi'[d] = 0
          BY <1>11, <4>1 DEF Crash
        <5> QED BY <4>1, <5>1, Ranged DEF AtStart, BytesErased
      <4>2. CASE ~ BytesErased(d)
        <5>1. lo'[d] = lo[d] /\ hi'[d] = hi[d]
          BY <1>11, <4>2 DEF Crash
        <5> QED BY <5>1 DEF AtStart, BytesErased
      <4> QED BY <4>1, <4>2
    <3> QED BY <2>1, <3>2, <3>3 DEF StoredWell
  <2>4. cut' \in BOOLEAN
    BY <2>1
  <2> QED BY <1>1, <1>2, <2>1, <2>2, <2>3, <2>4 DEF LastInv
<1>12. CASE UNCHANGED outputsVars
  BY <1>4, <1>12 DEF outputsVars
<1>13. ASSUME NEW c \in Output, ReadSwitch(c) PROVE LastInv'
  BY <1>4, <1>13 DEF ReadSwitch, memory
<1> QED
  BY <1>5, <1>6, <1>7, <1>8, <1>9, <1>10, <1>11, <1>12, <1>13 DEF OutputsNext, OutputsTask

(* Between stores, and unless the module stopped amid one, start-up reads  *)
(* the last value that was asked of every output, byte by byte, whatever   *)
(* the switches made of the value in use; for values up to the limit, for  *)
(* the code stores what exceeds it unlimited.                              *)
THEOREM LastCommandIsStored ==
  ASSUME Commands \subseteq 0 .. Full
  PROVE  OutputsSpec => []StoredCommand
<1>1. OutputsInit => LastInv
  <2> SUFFICES ASSUME OutputsInit PROVE LastInv
    OBVIOUS
  <2>1. store = Nowhere /\ cut = FALSE /\ \A c \in Output : command[c] = Unasked
    BY DEF OutputsInit
  <2> QED BY <2>1, OutputInitTyped DEF LastInv, StoringWell, StoredWell
<1>2. LastInv => StoredCommand
  BY DEF LastInv, StoredCommand, BeingWritten, StoredWell
<1>3. LastInv /\ [OutputsNext]_outputsVars => LastInv'
  BY LastStep
<1> QED BY <1>1, <1>2, <1>3, PTL DEF OutputsSpec
=============================================================================
