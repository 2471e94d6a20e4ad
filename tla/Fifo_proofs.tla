----------------------------- MODULE Fifo_proofs -----------------------------
(***************************************************************************)
(* Proofs about Fifo, for every length and every word size it divides.     *)
(***************************************************************************)
EXTENDS Fifo, SequenceTheorems, TLAPS

(* Remainders.  The provers know division by a constant only, so what is   *)
(* needed of % is stated here.                                             *)
LEMMA DivUnique ==
  ASSUME NEW n \in Nat \ {0}, NEW q \in Int, NEW r \in 0 .. n - 1
  PROVE  (q * n + r) % n = r
  OBVIOUS

LEMMA DivMod ==
  ASSUME NEW n \in Nat \ {0}, NEW a \in Int
  PROVE  /\ a \div n \in Int /\ a % n \in 0 .. n - 1
         /\ a = (a \div n) * n + (a % n)
  OBVIOUS

(* The remainder of a number at most one modulus away from its range.      *)
LEMMA ModPiece ==
  ASSUME NEW n \in Nat \ {0}, NEW x \in Int
  PROVE  /\ 0 <= x /\ x < n => x % n = x
         /\ -n <= x /\ x < 0 => x % n = x + n
         /\ n <= x /\ x < 2 * n => x % n = x - n
<1>1. 0 <= x /\ x < n => (0 * n + x) % n = x
  BY DivUnique
<1>2. -n <= x /\ x < 0 => ((-1) * n + (x + n)) % n = x + n
  <2> SUFFICES ASSUME -n <= x, x < 0 PROVE ((-1) * n + (x + n)) % n = x + n
    OBVIOUS
  <2>1. x + n \in 0 .. n - 1 /\ -1 \in Int
    OBVIOUS
  <2> QED
    BY <2>1, DivUnique
<1>3. n <= x /\ x < 2 * n => (1 * n + (x - n)) % n = x - n
  <2> SUFFICES ASSUME n <= x, x < 2 * n PROVE (1 * n + (x - n)) % n = x - n
    OBVIOUS
  <2>1. x - n \in 0 .. n - 1
    OBVIOUS
  <2> QED
    BY <2>1, DivUnique
<1>4. 0 * n + x = x /\ (-1) * n + (x + n) = x /\ 1 * n + (x - n) = x
  OBVIOUS
<1> QED
  BY <1>1, <1>2, <1>3, <1>4

(* Numbers less than a modulus apart have different remainders.            *)
LEMMA Near ==
  ASSUME NEW n \in Nat \ {0}, NEW a \in Int, NEW b \in Int, a < b, b - a < n
  PROVE  a % n # b % n
<1> SUFFICES ASSUME a % n = b % n PROVE FALSE
  OBVIOUS
<1> DEFINE p == a \div n
           q == b \div n
<1>1. p \in Int /\ q \in Int /\ a = p * n + (a % n) /\ a % n \in Int
  BY DivMod
<1>2. b = q * n + (b % n) /\ b % n \in Int
  BY DivMod
<1> HIDE DEF p, q
<1>3. b - a = (q - p) * n
  BY <1>1, <1>2
<1>4. CASE q - p <= 0
  <2>1. (q - p) * n <= 0
    BY <1>1, <1>4
  <2> QED
    BY <2>1, <1>3
<1>5. CASE q - p >= 1
  <2>1. (q - p) * n >= n
    BY <1>1, <1>5
  <2> QED
    BY <2>1, <1>3
<1> QED
  BY <1>1, <1>4, <1>5

(* A wrap of a counter does not move the index.                            *)
LEMMA SameIndex ==
  ASSUME NEW a \in Int
  PROVE  (a + Word) % Length = a % Length
<1> DEFINE k == Word \div Length
           p == a \div Length
           r == a % Length
<1>1. Word = k * Length /\ k \in Int
  <2>1. Word = k * Length + (Word % Length) /\ k \in Int
    BY DivMod, FifoAssumption
  <2> QED
    BY <2>1, FifoAssumption
<1>2. a = p * Length + r /\ p \in Int /\ r \in 0 .. Length - 1
  BY DivMod, FifoAssumption
<1> HIDE DEF k, p, r
<1>3. a + Word = (p + k) * Length + r
  BY <1>1, <1>2, FifoAssumption
<1>4. ((p + k) * Length + r) % Length = r
  BY <1>1, <1>2, DivUnique, FifoAssumption
<1>5. r = a % Length
  BY DEF r
<1> QED
  BY <1>3, <1>4, <1>5

(* The counters: how far apart they are, and where they point.             *)
Distance(h, t) == (h - t) % Word

LEMMA DistanceType ==
  ASSUME NEW h \in Counter, NEW t \in Counter
  PROVE  /\ Distance(h, t) \in Counter
         /\ h >= t => Distance(h, t) = h - t
         /\ h < t => Distance(h, t) = h - t + Word
         /\ Succ(h) \in Counter
         /\ h < Word - 1 => Succ(h) = h + 1
         /\ h = Word - 1 => Succ(h) = 0
<1>1. Word \in Nat \ {0} /\ h - t \in Int /\ h + 1 \in Int
  BY FifoAssumption DEF Counter
<1>2. \A x \in Int : /\ 0 <= x /\ x < Word => x % Word = x
                     /\ -Word <= x /\ x < 0 => x % Word = x + Word
                     /\ Word <= x /\ x < 2 * Word => x % Word = x - Word
  BY <1>1, ModPiece
<1>3. /\ h >= t => Distance(h, t) = h - t
      /\ h < t => Distance(h, t) = h - t + Word
  BY <1>1, <1>2 DEF Distance, Counter
<1>4. /\ h < Word - 1 => Succ(h) = h + 1
      /\ h = Word - 1 => Succ(h) = 0
  BY <1>1, <1>2 DEF Succ, Counter
<1> QED
  BY <1>1, <1>3, <1>4 DEF Counter

LEMMA HeadMoves ==
  ASSUME NEW h \in Counter, NEW t \in Counter, Distance(h, t) < Length
  PROVE  Distance(Succ(h), t) = Distance(h, t) + 1
<1>1. Succ(h) \in Counter /\ Word \in Nat /\ Length \in Nat /\ Length < Word
  BY DistanceType, FifoAssumption
<1>2. /\ h >= t => Distance(h, t) = h - t
      /\ h < t => Distance(h, t) = h - t + Word
  BY DistanceType
<1>3. /\ Succ(h) >= t => Distance(Succ(h), t) = Succ(h) - t
      /\ Succ(h) < t => Distance(Succ(h), t) = Succ(h) - t + Word
  BY <1>1, DistanceType
<1>4. /\ h < Word - 1 => Succ(h) = h + 1
      /\ h = Word - 1 => Succ(h) = 0
  BY DistanceType
<1> QED
  BY <1>1, <1>2, <1>3, <1>4 DEF Counter

LEMMA TailMoves ==
  ASSUME NEW h \in Counter, NEW t \in Counter, Distance(h, t) > 0
  PROVE  Distance(h, Succ(t)) = Distance(h, t) - 1
<1>1. Succ(t) \in Counter /\ Word \in Nat
  BY DistanceType, FifoAssumption
<1>2. /\ h >= t => Distance(h, t) = h - t
      /\ h < t => Distance(h, t) = h - t + Word
  BY DistanceType
<1>3. /\ h >= Succ(t) => Distance(h, Succ(t)) = h - Succ(t)
      /\ h < Succ(t) => Distance(h, Succ(t)) = h - Succ(t) + Word
  BY <1>1, DistanceType
<1>4. /\ t < Word - 1 => Succ(t) = t + 1
      /\ t = Word - 1 => Succ(t) = 0
  BY DistanceType
<1> QED
  BY <1>1, <1>2, <1>3, <1>4 DEF Counter

(* Counting from the tail leads to the same slot as the counter itself.    *)
LEMMA SlotOf ==
  ASSUME NEW h \in Counter, NEW t \in Counter, NEW i \in Int
  PROVE  (t + Distance(h, t) + i) % Length = (h + i) % Length
<1>1. t + Distance(h, t) = h \/ t + Distance(h, t) = h + Word
  <2>1. /\ h >= t => Distance(h, t) = h - t
        /\ h < t => Distance(h, t) = h - t + Word
    BY DistanceType
  <2> QED
    BY <2>1, FifoAssumption DEF Counter
<1>2. h + i \in Int /\ h + Word + i = (h + i) + Word
  BY FifoAssumption DEF Counter
<1> QED
  BY <1>1, <1>2, SameIndex

LEMMA SlotAfter ==
  ASSUME NEW t \in Counter, NEW i \in Int
  PROVE  (Succ(t) + i) % Length = (t + 1 + i) % Length
<1>1. Succ(t) = t + 1 \/ (Succ(t) = 0 /\ t + 1 = Word)
  <2>1. /\ t < Word - 1 => Succ(t) = t + 1
        /\ t = Word - 1 => Succ(t) = 0
    BY DistanceType
  <2> QED
    BY <2>1, FifoAssumption DEF Counter
<1>2. i \in Int /\ Word + i = i + Word /\ 0 + i = i
  BY FifoAssumption
<1> QED
  BY <1>1, <1>2, SameIndex

(* A counter between tail and head splits the distance.                    *)
LEMMA Between ==
  ASSUME NEW h \in Counter, NEW t \in Counter, NEW x \in Counter,
         Distance(x, t) <= Distance(h, t)
  PROVE  Distance(h, x) = Distance(h, t) - Distance(x, t)
<1>1. /\ h >= t => Distance(h, t) = h - t
      /\ h < t => Distance(h, t) = h - t + Word
  BY DistanceType
<1>2. /\ x >= t => Distance(x, t) = x - t
      /\ x < t => Distance(x, t) = x - t + Word
  BY DistanceType
<1>3. /\ h >= x => Distance(h, x) = h - x
      /\ h < x => Distance(h, x) = h - x + Word
  BY DistanceType
<1> QED
  BY <1>1, <1>2, <1>3, FifoAssumption DEF Counter

-----------------------------------------------------------------------------
(***************************************************************************)
(* The inductive invariant: besides the properties, the task never asks    *)
(* for more than is there, and a flush stops within what is there.         *)
(***************************************************************************)
CopyInv  == pc \in {"copy", "advance"} => left \in 1 .. FIFO_Count
FlushInv == pc = "flush" => Distance(top, tail) <= FIFO_Count

IInv == TypeOK /\ NeverOverrun /\ FrontHeld /\ CopyInv /\ FlushInv

(* A slot holds a byte, whatever the index was reduced from.               *)
LEMMA SlotType ==
  ASSUME NEW a \in Int
  PROVE  a % Length \in Index
  BY DivMod, FifoAssumption DEF Index

(* Storing a byte while there is room: one byte more, at the end, and the  *)
(* others are where they were.                                             *)
LEMMA StoreStep ==
  ASSUME IInv, NEW b \in Bytes, Store(b), FIFO_Count < Length
  PROVE  /\ buffer' \in [Index -> Bytes]
         /\ head' \in Counter /\ tail' = tail /\ stored' = TRUE
         /\ FIFO_Count' = FIFO_Count + 1
         /\ \A i \in 0 .. FIFO_Count - 1 :
              buffer'[(tail + i) % Length] = buffer[(tail + i) % Length]
         /\ buffer'[(tail + FIFO_Count) % Length] = b
<1>1. /\ head \in Counter /\ tail \in Counter
      /\ buffer \in [Index -> Bytes]
      /\ FIFO_Count = Distance(head, tail) /\ FIFO_Count \in Nat
  <2>1. head \in Counter /\ tail \in Counter /\ buffer \in [Index -> Bytes]
    BY DEF IInv, TypeOK
  <2>2. Distance(head, tail) \in Counter
    BY <2>1, DistanceType
  <2>3. Distance(head, tail) \in Nat
    BY <2>2, FifoAssumption DEF Counter
  <2> QED
    BY <2>1, <2>3 DEF FIFO_Count, Distance
<1>2. /\ buffer' = [buffer EXCEPT ![head % Length] = b]
      /\ head' = Succ(head) /\ tail' = tail /\ stored' = TRUE
  BY DEF Store
<1>3. head % Length \in Index
  BY <1>1, SlotType DEF Counter
<1>4. FIFO_Count' = FIFO_Count + 1
  <2>1. Distance(Succ(head), tail) = Distance(head, tail) + 1
    BY <1>1, HeadMoves
  <2> QED
    BY <1>1, <1>2, <2>1 DEF FIFO_Count, Distance
<1>5. (tail + FIFO_Count) % Length = head % Length
  <2>1. (tail + Distance(head, tail) + 0) % Length = (head + 0) % Length
    BY <1>1, SlotOf
  <2>2. tail + Distance(head, tail) + 0 = tail + FIFO_Count /\ head + 0 = head
    BY <1>1 DEF Counter
  <2> QED
    BY <2>1, <2>2
<1>6. \A i \in 0 .. FIFO_Count - 1 :
        buffer'[(tail + i) % Length] = buffer[(tail + i) % Length]
  <2> TAKE i \in 0 .. FIFO_Count - 1
  <2>1. /\ tail + i \in Int /\ tail + FIFO_Count \in Int
        /\ tail + i < tail + FIFO_Count
        /\ (tail + FIFO_Count) - (tail + i) < Length
        /\ Length \in Nat \ {0}
    BY <1>1, FifoAssumption DEF Counter
  <2>2. (tail + i) % Length # (tail + FIFO_Count) % Length
    BY <2>1, Near
  <2>3. (tail + i) % Length \in Index
    BY <2>1, SlotType
  <2> QED
    BY <1>1, <1>2, <1>3, <1>5, <2>2, <2>3
<1>7. Succ(head) \in Counter
  BY <1>1, DistanceType
<1> QED
  BY <1>1, <1>2, <1>3, <1>4, <1>5, <1>6, <1>7

LEMMA InvInit == Init => IInv
<1> SUFFICES ASSUME Init PROVE IInv
  OBVIOUS
<1>1. (0 - 0) % Word = 0
  <2>1. 0 - 0 = 0 /\ 0 \in Int /\ 0 <= 0 /\ 0 < Word /\ Word \in Nat \ {0}
    BY FifoAssumption
  <2> QED
    BY <2>1, ModPiece
<1>2. FIFO_Count = 0
  BY <1>1 DEF Init, FIFO_Count
<1>3. TypeOK
  <2>1. 0 \in Counter /\ 0 \in 0 .. Length /\ << >> \in Seq(Bytes)
    BY FifoAssumption DEF Counter
  <2> QED
    BY <2>1 DEF Init, TypeOK
<1>4. NeverOverrun
  BY <1>2, FifoAssumption DEF Init, NeverOverrun
<1> QED
  BY <1>3, <1>4 DEF Init, IInv, FrontHeld, CopyInv, FlushInv

LEMMA InvStep == IInv /\ [Next]_vars => IInv'
<1> SUFFICES ASSUME IInv, [Next]_vars PROVE IInv'
  OBVIOUS
<1>t. TypeOK
  BY DEF IInv
<1>d. Distance(head, tail) \in Counter
  BY <1>t, DistanceType DEF TypeOK
<1>n. /\ FIFO_Count = Distance(head, tail) /\ FIFO_Count \in Nat
      /\ Len(adding) \in Nat /\ FIFO_Count + Len(adding) <= Length
      /\ FIFO_Count \in 0 .. Length
      /\ Length \in Nat \ {0} /\ Word \in Nat /\ Length < Word
  <2>1. FIFO_Count = Distance(head, tail)
    BY DEF FIFO_Count, Distance
  <2>2. Distance(head, tail) \in Nat
    BY <1>d, FifoAssumption DEF Counter
  <2>3. Len(adding) \in Nat
    BY <1>t DEF TypeOK
  <2>4. FIFO_Count + Len(adding) <= Length
    BY DEF IInv, NeverOverrun
  <2> QED
    BY <2>1, <2>2, <2>3, <2>4, FifoAssumption
<1>k. UNCHANGED <<head, tail>> => FIFO_Count' = FIFO_Count
  BY DEF FIFO_Count
\* what a byte stored leaves to show
<1>s. ASSUME NEW b \in Bytes, Store(b), FIFO_Count < Length, UNCHANGED taskVars,
             adding' \in Seq(Bytes), FIFO_Count + 1 + Len(adding') <= Length
      PROVE  IInv'
  <2>1. /\ buffer' \in [Index -> Bytes]
        /\ head' \in Counter /\ tail' = tail /\ stored' = TRUE
        /\ FIFO_Count' = FIFO_Count + 1
    BY <1>s, StoreStep
  <2>2. TypeOK'
    BY <1>t, <1>s, <2>1 DEF TypeOK, taskVars
  <2>3. NeverOverrun'
    BY <1>s, <2>1 DEF NeverOverrun
  <2>4. FrontHeld'
    <3> SUFFICES ASSUME pc = "advance"
                 PROVE  /\ FIFO_Count + 1 >= left /\ left > 0
                        /\ byte = buffer'[tail % Length]
      BY <1>s, <2>1 DEF FrontHeld, taskVars
    <3>1. /\ FIFO_Count >= left /\ left > 0 /\ left \in Nat
          /\ byte = buffer[tail % Length]
      BY <1>t, <1>n DEF IInv, FrontHeld, TypeOK
    <3>2. buffer'[(tail + 0) % Length] = buffer[(tail + 0) % Length]
      <4>1. \A i \in 0 .. FIFO_Count - 1 :
              buffer'[(tail + i) % Length] = buffer[(tail + i) % Length]
        BY <1>s, StoreStep
      <4>2. 0 \in 0 .. FIFO_Count - 1
        BY <3>1, <1>n
      <4> QED
        BY <4>1, <4>2
    <3>3. tail + 0 = tail
      BY <1>t, <1>n DEF TypeOK, Counter
    <3> QED
      BY <3>1, <3>2, <3>3, <1>n
  <2>5. CopyInv'
    BY <1>s, <1>n, <2>1 DEF IInv, CopyInv, taskVars
  <2>6. FlushInv'
    <3> SUFFICES ASSUME pc = "flush" PROVE Distance(top, tail) <= FIFO_Count + 1
      BY <1>s, <2>1 DEF FlushInv, taskVars, Distance
    <3>1. Distance(top, tail) \in Counter
      BY <1>t, DistanceType DEF TypeOK
    <3> QED
      BY <3>1, <1>n DEF IInv, FlushInv, Counter
  <2> QED
    BY <2>2, <2>3, <2>4, <2>5, <2>6 DEF IInv
<1>1. ASSUME NEW b \in Bytes, FIFO_Put(b) PROVE IInv'
  <2>1. CASE FIFO_Full
    <3>1. stored' = FALSE /\ UNCHANGED <<ringVars, adding, taskVars>>
      BY <1>1, <2>1 DEF FIFO_Put
    <3> QED
      BY <3>1, <1>k DEF IInv, TypeOK, NeverOverrun, FrontHeld, CopyInv, FlushInv,
         Distance, ringVars, taskVars
  <2>2. CASE ~FIFO_Full
    <3>1. Store(b) /\ adding = << >> /\ UNCHANGED <<adding, taskVars>>
      BY <1>1, <2>2 DEF FIFO_Put
    <3>2. FIFO_Count < Length
      BY <2>2, <1>n DEF FIFO_Full
    <3>3. adding' \in Seq(Bytes) /\ FIFO_Count + 1 + Len(adding') <= Length
      BY <3>1, <3>2, <1>n, <1>t DEF TypeOK
    <3> QED
      BY <3>1, <3>2, <3>3, <1>s
  <2> QED
    BY <2>1, <2>2
<1>2. ASSUME NEW n \in 1 .. MaxCall, NEW bytes \in [1 .. n -> Bytes],
             FIFO_Add(bytes)
      PROVE  IInv'
  <2>1. adding' = bytes /\ UNCHANGED <<ringVars, stored, taskVars>>
    BY <1>2 DEF FIFO_Add
  <2>2. bytes \in Seq(Bytes) /\ Len(bytes) \in Nat
    BY FifoAssumption
  <2>3. FIFO_Count + Len(bytes) <= Length
    <3>1. (Length - FIFO_Count) % Word = Length - FIFO_Count
      <4>1. /\ Length - FIFO_Count \in Int /\ 0 <= Length - FIFO_Count
            /\ Length - FIFO_Count < Word /\ Word \in Nat \ {0}
        BY <1>n
      <4> QED
        BY <4>1, ModPiece
    <3>2. Len(bytes) <= (Length - FIFO_Count) % Word
      BY <1>2 DEF FIFO_Add, FIFO_Available
    <3> QED
      BY <3>1, <3>2, <2>2, <1>n
  <2> QED
    BY <2>1, <2>2, <2>3, <1>k
    DEF IInv, TypeOK, NeverOverrun, FrontHeld, CopyInv, FlushInv,
        Distance, ringVars, taskVars
<1>3. CASE AddByte
  <2>1. /\ Store(Head(adding)) /\ adding # << >> /\ adding' = Tail(adding)
        /\ UNCHANGED taskVars
    BY <1>3 DEF AddByte
  <2>2. /\ Head(adding) \in Bytes /\ Tail(adding) \in Seq(Bytes)
        /\ Len(adding) > 0 /\ Len(Tail(adding)) = Len(adding) - 1
    BY <2>1, <1>t DEF TypeOK
  <2>3. FIFO_Count < Length /\ FIFO_Count + 1 + Len(Tail(adding)) <= Length
    BY <2>2, <1>n
  <2> QED
    BY <2>1, <2>2, <2>3, <1>s
<1>4. ASSUME NEW n \in 1 .. MaxCall, FIFO_Pull(n) PROVE IInv'
  <2>1. /\ pc' = "copy" /\ left' \in 1 .. FIFO_Count
        /\ UNCHANGED <<ringVars, putVars, top, byte, out>>
    BY <1>4, <1>n, FifoAssumption DEF FIFO_Pull
  <2>2. left' \in 0 .. Length
    BY <2>1, <1>n
  <2> QED
    BY <2>1, <2>2, <1>k
    DEF IInv, TypeOK, NeverOverrun, FrontHeld, CopyInv, FlushInv,
        ringVars, putVars
<1>5. CASE Copy
  <2>1. /\ pc = "copy" /\ pc' = "advance" /\ byte' = buffer[tail % Length]
        /\ UNCHANGED <<ringVars, putVars, left, top, out>>
    BY <1>5 DEF Copy
  <2>2. left \in 1 .. FIFO_Count
    BY <2>1 DEF IInv, CopyInv
  <2>3. buffer[tail % Length] \in Bytes
    BY <1>t, SlotType DEF TypeOK, Counter
  <2> QED
    BY <2>1, <2>2, <2>3, <1>k, <1>n
    DEF IInv, TypeOK, NeverOverrun, FrontHeld, CopyInv, FlushInv,
        ringVars, putVars
<1>6. CASE Advance
  <2>1. /\ pc = "advance" /\ tail' = Succ(tail) /\ head' = head /\ out' = byte
        /\ left' = left - 1 /\ pc' = IF left = 1 THEN "idle" ELSE "copy"
        /\ UNCHANGED <<buffer, putVars, top, byte>>
    BY <1>6 DEF Advance
  <2>2. left \in 1 .. FIFO_Count
    BY <2>1 DEF IInv, CopyInv
  <2>3. FIFO_Count' = FIFO_Count - 1
    <3>1. Distance(head, tail) > 0
      BY <2>2, <1>n
    <3>2. Distance(head, Succ(tail)) = Distance(head, tail) - 1
      BY <3>1, <1>t, TailMoves DEF TypeOK
    <3> QED
      BY <3>2, <2>1, <1>n DEF FIFO_Count, Distance
  <2>4. Succ(tail) \in Counter
    BY <1>t, DistanceType DEF TypeOK
  <2>5. TypeOK'
    BY <1>t, <1>n, <2>1, <2>2, <2>4 DEF TypeOK, putVars
  <2>6. NeverOverrun'
    BY <2>1, <2>3, <1>n DEF NeverOverrun, putVars
  <2>7. FrontHeld' /\ CopyInv' /\ FlushInv'
    BY <2>1, <2>2, <2>3, <1>n DEF FrontHeld, CopyInv, FlushInv
  <2> QED
    BY <2>5, <2>6, <2>7 DEF IInv
<1>7. CASE FIFO_Flush
  <2>1. /\ pc' = "flush" /\ top' = head
        /\ UNCHANGED <<ringVars, putVars, left, byte, out>>
    BY <1>7 DEF FIFO_Flush
  <2>2. FlushInv'
    BY <2>1, <1>k, <1>n DEF FlushInv, Distance, ringVars
  <2> QED
    BY <2>1, <2>2, <1>k
    DEF IInv, TypeOK, NeverOverrun, FrontHeld, CopyInv, ringVars, putVars
<1>8. CASE FlushTail
  <2>1. /\ pc = "flush" /\ pc' = "idle" /\ tail' = top /\ head' = head
        /\ UNCHANGED <<buffer, putVars, left, top, byte, out>>
    BY <1>8 DEF FlushTail
  <2>2. Distance(top, tail) <= Distance(head, tail)
    BY <2>1, <1>n DEF IInv, FlushInv
  <2>3. Distance(head, top) = Distance(head, tail) - Distance(top, tail)
    BY <2>2, <1>t, Between DEF TypeOK
  <2>4. Distance(top, tail) \in Nat
    <3>1. Distance(top, tail) \in Counter
      BY <1>t, DistanceType DEF TypeOK
    <3> QED
      BY <3>1, <1>n DEF Counter
  <2>5. FIFO_Count' = FIFO_Count - Distance(top, tail)
    BY <2>1, <2>3, <1>n DEF FIFO_Count, Distance
  <2>6. NeverOverrun'
    BY <2>1, <2>4, <2>5, <1>n DEF NeverOverrun, putVars
  <2> QED
    BY <2>1, <2>6 DEF IInv, TypeOK, FrontHeld, CopyInv, FlushInv, putVars
<1>9. CASE UNCHANGED vars
  BY <1>9, <1>k DEF IInv, TypeOK, NeverOverrun, FrontHeld, CopyInv, FlushInv,
     Distance, vars, ringVars, putVars, taskVars
<1> QED
  BY <1>1, <1>2, <1>3, <1>4, <1>5, <1>6, <1>7, <1>8, <1>9 DEF Next

LEMMA Invariance == Spec => []IInv
  BY InvInit, InvStep, PTL DEF Spec

(* The FIFO keeps its state in its types, whatever the interrupt and the   *)
(* task interleave and however often the counters wrap.                    *)
THEOREM FifoTypeCorrect == Spec => []TypeOK
<1>1. IInv => TypeOK
  BY DEF IInv
<1> QED
  BY <1>1, Invariance, PTL

(* The counters are never more than a buffer apart.                        *)
THEOREM FifoNeverOverrun == Spec => []NeverOverrun
<1>1. IInv => NeverOverrun
  BY DEF IInv
<1> QED
  BY <1>1, Invariance, PTL

(* The slot that is being read is not written.                             *)
THEOREM FifoFrontHeld == Spec => []FrontHeld
<1>1. IInv => FrontHeld
  BY DEF IInv
<1> QED
  BY <1>1, Invariance, PTL

-----------------------------------------------------------------------------
(***************************************************************************)
(* Refinement.  The queue is what lies between tail and head.              *)
(***************************************************************************)
LEMMA LenOfFunction ==
  ASSUME NEW S, NEW n \in Nat, NEW f \in [1 .. n -> S]
  PROVE  f \in Seq(S) /\ Len(f) = n
  OBVIOUS

LEMMA SameSeq ==
  ASSUME NEW S, NEW n \in Nat, NEW f, NEW s \in Seq(S), Len(s) = n,
         f = [i \in 1 .. n |-> f[i]], \A i \in 1 .. n : f[i] = s[i]
  PROVE  f = s
<1>1. \A i \in 1 .. n : f[i] \in S
  BY ElementOfSeq
<1>2. f \in [1 .. n -> S]
  BY <1>1
<1>3. f \in Seq(S) /\ Len(f) = n
  BY <1>2, LenOfFunction
<1> QED
  BY <1>3, SeqEqual

LEMMA ContentType ==
  ASSUME IInv
  PROVE  /\ FIFO_Count \in 0 .. Length /\ Length \in Nat
         /\ head \in Counter /\ tail \in Counter /\ tail \in Int
         /\ FIFO_Count = Distance(head, tail)
         /\ Content \in Seq(Bytes) /\ Len(Content) = FIFO_Count
         /\ DOMAIN Content = 1 .. FIFO_Count
         /\ \A i \in 1 .. FIFO_Count :
              Content[i] = buffer[(tail + i - 1) % Length]
<1>1. /\ head \in Counter /\ tail \in Counter /\ tail \in Int
      /\ Distance(head, tail) \in Counter /\ Distance(head, tail) \in Nat
      /\ FIFO_Count = Distance(head, tail)
  <2>1. head \in Counter /\ tail \in Counter
    BY DEF IInv, TypeOK
  <2>2. Distance(head, tail) \in Counter
    BY <2>1, DistanceType
  <2> QED
    BY <2>1, <2>2, FifoAssumption DEF Counter, FIFO_Count, Distance
<1>2. FIFO_Count \in 0 .. Length
  <2>1. Len(adding) \in Nat
    BY DEF IInv, TypeOK
  <2> QED
    BY <1>1, <2>1, FifoAssumption DEF IInv, NeverOverrun
<1>3. \A i \in 1 .. FIFO_Count : buffer[(tail + i - 1) % Length] \in Bytes
  <2> TAKE i \in 1 .. FIFO_Count
  <2>1. tail + i - 1 \in Int
    BY <1>1, <1>2
  <2> QED
    BY <2>1, SlotType DEF IInv, TypeOK
<1>4. Content \in [1 .. FIFO_Count -> Bytes]
  BY <1>3 DEF Content
<1>5. Content \in Seq(Bytes) /\ Len(Content) = FIFO_Count
  BY <1>2, <1>4, SeqDef, LenOfFunction
<1>6. \A i \in 1 .. FIFO_Count : Content[i] = buffer[(tail + i - 1) % Length]
  BY DEF Content
<1> QED
  BY <1>1, <1>2, <1>4, <1>5, <1>6, FifoAssumption

LEMMA PutRefines ==
  ASSUME IInv, IInv', NEW b \in Bytes, Store(b), FIFO_Count < Length, out' = out
  PROVE  Promise!Put(b)
<1>1. /\ tail' = tail /\ stored' = TRUE
      /\ FIFO_Count' = FIFO_Count + 1
      /\ \A i \in 0 .. FIFO_Count - 1 :
           buffer'[(tail + i) % Length] = buffer[(tail + i) % Length]
      /\ buffer'[(tail + FIFO_Count) % Length] = b
  BY StoreStep
<1>2. /\ FIFO_Count \in Nat /\ tail \in Int
      /\ Content \in Seq(Bytes) /\ Len(Content) = FIFO_Count
      /\ \A i \in 1 .. FIFO_Count : Content[i] = buffer[(tail + i - 1) % Length]
  BY ContentType
<1>3. Content' = Append(Content, b)
  <2>1. Content' = [i \in 1 .. FIFO_Count + 1 |-> buffer'[(tail + i - 1) % Length]]
    BY <1>1 DEF Content
  <2>2. /\ Append(Content, b) \in Seq(Bytes)
        /\ Len(Append(Content, b)) = FIFO_Count + 1
        /\ \A i \in 1 .. FIFO_Count : Append(Content, b)[i] = Content[i]
        /\ Append(Content, b)[FIFO_Count + 1] = b
    BY <1>2, AppendProperties
  <2>3. \A i \in 1 .. FIFO_Count + 1 : Content'[i] = Append(Content, b)[i]
    <3> TAKE i \in 1 .. FIFO_Count + 1
    <3>0. Content'[i] = buffer'[(tail + i - 1) % Length]
      BY <2>1
    <3>1. CASE i = FIFO_Count + 1
      <4>1. tail + i - 1 = tail + FIFO_Count
        BY <3>1, <1>2
      <4> QED
        BY <4>1, <3>0, <3>1, <2>2, <1>1
    <3>2. CASE i \in 1 .. FIFO_Count
      <4>1. i - 1 \in 0 .. FIFO_Count - 1 /\ tail + i - 1 = tail + (i - 1)
        BY <3>2, <1>2
      <4>2. buffer'[(tail + (i - 1)) % Length] = buffer[(tail + (i - 1)) % Length]
        BY <4>1, <1>1
      <4> QED
        BY <4>1, <4>2, <3>0, <3>2, <2>2, <1>2
    <3> QED
      BY <3>1, <3>2, <1>2
  <2>4. Content' = [i \in 1 .. FIFO_Count + 1 |-> Content'[i]]
    BY <2>1
  <2> QED
    BY <2>2, <2>3, <2>4, <1>2, SameSeq
<1> QED
  BY <1>1, <1>2, <1>3 DEF Promise!Put

LEMMA TakeRefines ==
  ASSUME IInv, Advance
  PROVE  Promise!Take
<1>1. /\ pc = "advance" /\ tail' = Succ(tail) /\ head' = head /\ out' = byte
      /\ UNCHANGED <<buffer, stored>>
  BY DEF Advance, putVars
<1>2. /\ FIFO_Count \in Nat /\ tail \in Counter /\ head \in Counter /\ tail \in Int
      /\ FIFO_Count = Distance(head, tail)
      /\ Content \in Seq(Bytes) /\ Len(Content) = FIFO_Count
      /\ \A i \in 1 .. FIFO_Count : Content[i] = buffer[(tail + i - 1) % Length]
  BY ContentType
<1>3. FIFO_Count > 0 /\ byte = buffer[tail % Length]
  <2>1. left \in 1 .. FIFO_Count /\ byte = buffer[tail % Length]
    BY <1>1 DEF IInv, CopyInv, FrontHeld
  <2> QED
    BY <2>1, <1>2
<1>4. FIFO_Count' = FIFO_Count - 1
  <2>1. Distance(head, Succ(tail)) = Distance(head, tail) - 1
    BY <1>2, <1>3, TailMoves
  <2> QED
    BY <1>1, <1>2, <2>1 DEF FIFO_Count, Distance
<1>5. Content # << >>
  BY <1>2, <1>3
<1>6. Head(Content) = byte
  <2>1. 1 \in 1 .. FIFO_Count /\ tail + 1 - 1 = tail
    BY <1>2, <1>3
  <2>2. Content[1] = buffer[tail % Length]
    BY <1>2, <2>1
  <2> QED
    BY <2>2, <1>3, <1>2, <1>5
<1>7. Content' = Tail(Content)
  <2>1. Content' = [i \in 1 .. FIFO_Count - 1 |-> buffer[(Succ(tail) + i - 1) % Length]]
    BY <1>1, <1>4 DEF Content
  <2>2. /\ Tail(Content) \in Seq(Bytes) /\ Len(Tail(Content)) = FIFO_Count - 1
        /\ \A i \in 1 .. FIFO_Count - 1 : Tail(Content)[i] = Content[i + 1]
    BY <1>2, <1>5, HeadTailProperties
  <2>3. \A i \in 1 .. FIFO_Count - 1 : Content'[i] = Tail(Content)[i]
    <3> TAKE i \in 1 .. FIFO_Count - 1
    <3>1. /\ i - 1 \in Int /\ i + 1 \in 1 .. FIFO_Count
          /\ tail + 1 + (i - 1) = tail + (i + 1) - 1
          /\ Succ(tail) \in Int
      <4>1. Succ(tail) \in Counter
        BY <1>2, DistanceType
      <4> QED
        BY <4>1, <1>2, FifoAssumption DEF Counter
    <3>2. Succ(tail) + i - 1 = Succ(tail) + (i - 1)
      BY <3>1
    <3>3. (Succ(tail) + (i - 1)) % Length = (tail + 1 + (i - 1)) % Length
      BY <1>2, <3>1, SlotAfter
    <3>4. Content'[i] = buffer[(Succ(tail) + i - 1) % Length]
      BY <2>1
    <3> QED
      BY <3>1, <3>2, <3>3, <3>4, <2>2, <1>2
  <2>4. Content' = [i \in 1 .. FIFO_Count - 1 |-> Content'[i]]
    BY <2>1
  <2>5. FIFO_Count - 1 \in Nat
    BY <1>2, <1>3
  <2> QED
    BY <2>2, <2>3, <2>4, <2>5, SameSeq
<1> QED
  BY <1>1, <1>5, <1>6, <1>7 DEF Promise!Take

LEMMA DiscardRefines ==
  ASSUME IInv, FlushTail
  PROVE  Promise!Discard \/ UNCHANGED Promise!queueVars
<1> DEFINE n == Distance(top, tail)
<1>1. /\ pc = "flush" /\ tail' = top /\ head' = head
      /\ UNCHANGED <<buffer, stored, out>>
  BY DEF FlushTail, putVars
<1>2. /\ FIFO_Count \in Nat /\ tail \in Counter /\ head \in Counter /\ tail \in Int
      /\ FIFO_Count = Distance(head, tail)
      /\ Content \in Seq(Bytes) /\ Len(Content) = FIFO_Count
      /\ \A i \in 1 .. FIFO_Count : Content[i] = buffer[(tail + i - 1) % Length]
  BY ContentType
<1>3. top \in Counter /\ top \in Int
  BY FifoAssumption DEF IInv, TypeOK, Counter
<1>4. n \in Nat /\ n <= FIFO_Count /\ (n = 0 => top = tail)
  <2>1. n \in Counter
    BY <1>2, <1>3, DistanceType
  <2>2. /\ top >= tail => n = top - tail
        /\ top < tail => n = top - tail + Word
    BY <1>2, <1>3, DistanceType
  <2>3. n <= FIFO_Count
    BY <1>1 DEF IInv, FlushInv
  <2> HIDE DEF n
  <2> QED
    BY <2>1, <2>2, <2>3, <1>2, <1>3, FifoAssumption DEF Counter
<1>5. FIFO_Count' = FIFO_Count - n
  <2>1. Distance(head, top) = Distance(head, tail) - Distance(top, tail)
    BY <1>2, <1>3, <1>4, Between
  <2> QED
    BY <1>1, <1>2, <2>1 DEF FIFO_Count, Distance
<1>6. \A i \in Int : (tail + n + i) % Length = (top + i) % Length
  BY <1>2, <1>3, SlotOf
<1> HIDE DEF n
<1>7. CASE n = 0
  <2>1. tail' = tail
    BY <1>1, <1>4, <1>7
  <2> QED
    BY <1>1, <2>1 DEF Promise!queueVars, Content, FIFO_Count
<1>8. CASE n # 0
  <2>1. Content' = [i \in 1 .. FIFO_Count - n |-> buffer[(top + i - 1) % Length]]
    BY <1>1, <1>5 DEF Content
  <2> DEFINE rest == SubSeq(Content, n + 1, FIFO_Count)
  <2>2. /\ rest \in Seq(Bytes) /\ Len(rest) = FIFO_Count - n
        /\ \A i \in 1 .. FIFO_Count - n : rest[i] = Content[n + i]
    <3>1. \A i \in n + 1 .. FIFO_Count : Content[i] \in Bytes
      BY <1>2, <1>4, ElementOfSeq
    <3>2. /\ rest \in Seq(Bytes)
          /\ Len(rest) = IF n + 1 <= FIFO_Count THEN FIFO_Count - (n + 1) + 1 ELSE 0
          /\ \A i \in 1 .. FIFO_Count - (n + 1) + 1 : rest[i] = Content[n + 1 + i - 1]
      BY <3>1, <1>2, <1>4, SubSeqProperties
    <3>3. /\ FIFO_Count - (n + 1) + 1 = FIFO_Count - n
          /\ \A i \in Int : n + 1 + i - 1 = n + i
          /\ ~(n + 1 <= FIFO_Count) => FIFO_Count - n = 0
      BY <1>2, <1>4
    <3> HIDE DEF rest
    <3>4. Len(rest) = FIFO_Count - n
      BY <3>2, <3>3, <1>2, <1>4
    <3>5. ASSUME NEW i \in 1 .. FIFO_Count - n PROVE rest[i] = Content[n + i]
      BY <3>2, <3>3, <1>2, <1>4
    <3> QED
      BY <3>2, <3>4, <3>5
  <2> HIDE DEF rest
  <2>3. \A i \in 1 .. FIFO_Count - n : Content'[i] = rest[i]
    <3> TAKE i \in 1 .. FIFO_Count - n
    <3>1. /\ i - 1 \in Int /\ n + i \in 1 .. FIFO_Count
          /\ tail + n + (i - 1) = tail + (n + i) - 1
          /\ top + i - 1 = top + (i - 1)
      BY <1>2, <1>3, <1>4
    <3>2. (tail + n + (i - 1)) % Length = (top + (i - 1)) % Length
      BY <3>1, <1>6
    <3>3. Content'[i] = buffer[(top + i - 1) % Length]
      BY <2>1
    <3> QED
      BY <3>1, <3>2, <3>3, <2>2, <1>2
  <2>4. Content' = [i \in 1 .. FIFO_Count - n |-> Content'[i]]
    BY <2>1
  <2>5. FIFO_Count - n \in Nat
    BY <1>2, <1>4
  <2>6. Content' = rest
    BY <2>2, <2>3, <2>4, <2>5, SameSeq
  <2>7. n \in 1 .. Len(Content)
    BY <1>2, <1>4, <1>8
  <2> QED
    BY <2>6, <2>7, <1>1, <1>2 DEF Promise!Discard, rest
<1> QED
  BY <1>7, <1>8

LEMMA StepRefines ==
  IInv /\ IInv' /\ [Next]_vars => [Promise!Next]_(Promise!queueVars)
<1> SUFFICES ASSUME IInv, IInv', [Next]_vars
             PROVE  Promise!Next \/ UNCHANGED Promise!queueVars
  OBVIOUS
<1>n. /\ FIFO_Count \in 0 .. Length /\ Length \in Nat /\ Len(Content) = FIFO_Count
  BY ContentType
<1>k. UNCHANGED ringVars => Content' = Content
  BY DEF Content, FIFO_Count, ringVars
<1>1. ASSUME NEW b \in Bytes, FIFO_Put(b) PROVE Promise!Next
  <2>1. CASE FIFO_Full
    <3>1. stored' = FALSE /\ UNCHANGED ringVars /\ UNCHANGED out
      BY <1>1, <2>1 DEF FIFO_Put, taskVars
    <3> QED
      BY <2>1, <3>1, <1>n, <1>k DEF FIFO_Full, Promise!Next, Promise!Refuse
  <2>2. CASE ~FIFO_Full
    <3>1. Store(b) /\ out' = out
      BY <1>1, <2>2 DEF FIFO_Put, taskVars
    <3>2. FIFO_Count < Length
      BY <2>2, <1>n DEF FIFO_Full
    <3> QED
      BY <3>1, <3>2, PutRefines DEF Promise!Next
  <2> QED
    BY <2>1, <2>2
<1>2. ASSUME NEW n \in 1 .. MaxCall, NEW bytes \in [1 .. n -> Bytes],
             FIFO_Add(bytes)
      PROVE  UNCHANGED Promise!queueVars
  BY <1>2, <1>k DEF FIFO_Add, taskVars, Promise!queueVars
<1>3. CASE AddByte
  <2>1. Store(Head(adding)) /\ adding # << >> /\ out' = out
    BY <1>3 DEF AddByte, taskVars
  <2>2. Head(adding) \in Bytes /\ Len(adding) \in Nat \ {0}
    BY <2>1 DEF IInv, TypeOK
  <2>3. FIFO_Count < Length
    BY <2>2, <1>n DEF IInv, NeverOverrun
  <2> QED
    BY <2>1, <2>2, <2>3, PutRefines DEF Promise!Next
<1>4. ASSUME NEW n \in 1 .. MaxCall, FIFO_Pull(n)
      PROVE  UNCHANGED Promise!queueVars
  BY <1>4, <1>k DEF FIFO_Pull, putVars, Promise!queueVars
<1>5. CASE Copy
  BY <1>5, <1>k DEF Copy, putVars, Promise!queueVars
<1>6. CASE Advance
  BY <1>6, TakeRefines DEF Promise!Next
<1>7. CASE FIFO_Flush
  BY <1>7, <1>k DEF FIFO_Flush, putVars, Promise!queueVars
<1>8. CASE FlushTail
  BY <1>8, DiscardRefines DEF Promise!Next
<1>9. CASE UNCHANGED vars
  BY <1>9, <1>k DEF vars, putVars, taskVars, Promise!queueVars
<1> QED
  BY <1>1, <1>2, <1>3, <1>4, <1>5, <1>6, <1>7, <1>8, <1>9 DEF Next

(* Fifo implements ByteQueue: in every interleaving what is taken is what  *)
(* was put, in order and once, and a byte is refused only when full.       *)
THEOREM FifoImplements == Spec => QueuePromise
<1>1. Init => Promise!Init
  <2> SUFFICES ASSUME Init PROVE Promise!Init
    OBVIOUS
  <2>1. FIFO_Count = 0
    <3>1. IInv
      BY InvInit
    <3>2. FIFO_Count = Distance(head, tail)
      BY <3>1, ContentType
    <3>3. head \in Counter /\ tail \in Counter /\ head = 0 /\ tail = 0
      BY <3>1 DEF Init, IInv, TypeOK
    <3>4. Distance(0, 0) = 0 - 0
      BY <3>3, DistanceType
    <3> QED
      BY <3>2, <3>3, <3>4
  <2>2. Content = << >>
    <3>1. IInv
      BY InvInit
    <3>2. Content \in Seq(Bytes) /\ Len(Content) = 0
      BY <3>1, <2>1, ContentType
    <3> QED
      BY <3>2, EmptySeq
  <2> QED
    BY <2>2 DEF Init, Promise!Init
<1> QED
  BY <1>1, StepRefines, Invariance, PTL DEF Spec, QueuePromise, Promise!Spec
=============================================================================
