-------------------------- MODULE PulseStore_proofs --------------------------
(***************************************************************************)
(* Proofs about PulseStore: the counters' types, and that no counter ever  *)
(* shows more pulses than there were, for any number of channels and of    *)
(* bytes.  The bytes of a counter are the digits of a number, so the first *)
(* lemmas are about digits; they are proved by induction over the bytes,   *)
(* as the existence of a least byte that breaks them.                      *)
(***************************************************************************)
EXTENDS PulseStore, WellFoundedInduction, TLAPS

-----------------------------------------------------------------------------
(* Induction over the naturals, as the least element of a set. *)
LessOnNat == {p \in Nat \X Nat : p[1] < p[2]}

LEMMA LessIsWellFounded == IsWellFoundedOn(LessOnNat, Nat)
BY NatLessThanWellFounded DEF LessOnNat, OpToRel

LEMMA LeastNatural ==
  ASSUME NEW T \in SUBSET Nat, T # {}
  PROVE  \E x \in T : \A y \in T : x <= y
<1>1. T \subseteq Nat
  OBVIOUS
<1>2. \E x \in T : \A y \in T : ~ (<<y, x>> \in LessOnNat)
  BY <1>1, LessIsWellFounded, WFMin
<1>3. \A x, y \in Nat : y < x => <<y, x>> \in LessOnNat
  BY DEF LessOnNat
<1>4. \A x \in T, y \in T : ~ (<<y, x>> \in LessOnNat) => x <= y
  BY <1>1, <1>3
<1> QED BY <1>2, <1>4

-----------------------------------------------------------------------------
(* Digits. *)
Multiple(n, p) == \E m \in Nat : n = m * p

LEMMA Division ==
  ASSUME NEW p \in Nat \ {0}, NEW n \in Nat
  PROVE  /\ n \div p \in Int /\ n % p \in 0 .. p - 1
         /\ n = (n \div p) * p + (n % p)
  OBVIOUS

(* A quotient is what it should be. *)
LEMMA Quotient ==
  ASSUME NEW p \in Nat \ {0}, NEW q \in Int, NEW r \in 0 .. p - 1
  PROVE  (q * p + r) \div p = q
  OBVIOUS

LEMMA QuotientBounds ==
  ASSUME NEW p \in Nat \ {0}, NEW n \in Nat
  PROVE  n \div p \in Nat /\ (n \div p) * p <= n
<1> DEFINE d == n \div p
<1>1. d \in Int /\ n % p \in 0 .. p - 1 /\ n = d * p + (n % p)
  BY Division
<1> HIDE DEF d
<1>2. d <= -1 => d * p <= -p
  BY <1>1
<1>3. d >= 0 /\ d * p <= n
  BY <1>1, <1>2
<1> QED BY <1>1, <1>3 DEF d

LEMMA QuotientOrder ==
  ASSUME NEW p \in Nat \ {0}, NEW m \in Nat, NEW n \in Nat, m <= n
  PROVE  m \div p <= n \div p
<1> DEFINE c == m \div p  d == n \div p
<1>1. c \in Int /\ m % p \in 0 .. p - 1 /\ m = c * p + (m % p)
  BY Division
<1>2. d \in Int /\ n % p \in 0 .. p - 1 /\ n = d * p + (n % p)
  BY Division
<1> HIDE DEF c, d
<1>3. c >= d + 1 => c * p >= (d + 1) * p
  BY <1>1, <1>2
<1>4. (d + 1) * p = d * p + p
  BY <1>2
<1>5. c <= d
  BY <1>1, <1>2, <1>3, <1>4
<1> QED BY <1>5 DEF c, d

(* Every weight is a multiple of those below it. *)
LEMMA PlaceDivides ==
  ASSUME NEW i \in 0 .. Quarters, NEW j \in i .. Quarters
  PROVE  \E m \in Nat \ {0} : Place[j] = m * Place[i]
<1> DEFINE Good(k) == \E m \in Nat \ {0} : Place[k] = m * Place[i]
<1> DEFINE Bad == {k \in i .. Quarters : ~ Good(k)}
<1>1. Quarters \in Nat /\ Base \in Nat \ {0} /\ Place \in [0 .. Quarters -> Nat]
      /\ \A k \in 0 .. Quarters - 1 : Place[k + 1] = Base * Place[k]
  BY PulseAssumption
<1>2. Good(i)
  BY <1>1
<1>3. ASSUME NEW k \in i .. Quarters - 1, Good(k)  PROVE Good(k + 1)
  <2>1. PICK m \in Nat \ {0} : Place[k] = m * Place[i]
    BY <1>3
  <2>2. k \in 0 .. Quarters - 1 /\ Place[i] \in Nat
    BY <1>1
  <2>3. Place[k + 1] = Base * (m * Place[i])
    BY <1>1, <2>1, <2>2
  <2>4. Base * (m * Place[i]) = (Base * m) * Place[i] /\ Base * m \in Nat \ {0}
    BY <1>1, <2>2
  <2> QED BY <2>3, <2>4
<1>4. SUFFICES ASSUME Bad # {} PROVE FALSE
  OBVIOUS
<1>5. Bad \in SUBSET Nat
  BY <1>1
<1>6. PICK k \in Bad : \A l \in Bad : k <= l
  BY <1>4, <1>5, LeastNatural
<1> HIDE DEF Good
<1>7. k # i
  BY <1>2
<1>8. k - 1 \in i .. Quarters - 1 /\ k = (k - 1) + 1
  BY <1>1, <1>7
<1>9. k - 1 \notin Bad
  BY <1>6, <1>8
<1>10. Good(k - 1)
  <2>1. k - 1 \in i .. Quarters
    BY <1>1, <1>8
  <2> QED BY <1>9, <2>1
<1>11. Good((k - 1) + 1)
  BY <1>3, <1>8, <1>10
<1> QED BY <1>8, <1>11

LEMMA PlacePositive ==
  /\ Quarters \in Nat \ {0} /\ Base \in Nat \ {0, 1}
  /\ \A i \in 0 .. Quarters : Place[i] \in Nat \ {0}
  /\ \A i \in 0 .. Quarters - 1 : Place[i + 1] = Base * Place[i]
  /\ Place[0] = 1 /\ ErasedCounter \in Nat /\ MaxPulses \in Nat /\ MaxPulses < ErasedCounter
<1>1. /\ Quarters \in Nat \ {0} /\ Base \in Nat \ {0, 1}
      /\ Place \in [0 .. Quarters -> Nat] /\ Place[0] = 1
      /\ \A i \in 0 .. Quarters - 1 : Place[i + 1] = Base * Place[i]
      /\ MaxPulses \in Nat /\ MaxPulses < Place[Quarters] - 1
  BY PulseAssumption
<1>2. ASSUME NEW i \in 0 .. Quarters PROVE Place[i] # 0
  <2>1. PICK m \in Nat \ {0} : Place[i] = m * Place[0]
    BY <1>1, PlaceDivides
  <2> QED BY <1>1, <2>1
<1> QED BY <1>1, <1>2 DEF ErasedCounter

-----------------------------------------------------------------------------
(* What it does to a number to write a byte of it. *)
SplitAt(s, i, b, T, R, r) ==
  /\ s = (T * Base + R) * Place[i] + r
  /\ ByteOf(s, i) = R
  /\ WithByte(s, i, b) = (T * Base + b) * Place[i] + r

LEMMA WithByteSplit ==
  ASSUME NEW s \in Nat, NEW i \in 0 .. Quarters - 1, NEW b \in Int
  PROVE  \E T \in Nat, R \in 0 .. Base - 1, r \in 0 .. Place[i] - 1 : SplitAt(s, i, b, T, R, r)
<1> DEFINE p == Place[i]
           S == s \div p
           T == S \div Base
           R == S % Base
           r == s % p
<1>1. p \in Nat \ {0} /\ Base \in Nat \ {0}
  BY PlacePositive
<1>2. S \in Nat /\ r \in 0 .. p - 1 /\ s = S * p + r
  BY <1>1, Division, QuotientBounds
<1>3. T \in Nat /\ R \in 0 .. Base - 1 /\ S = T * Base + R
  <2> HIDE DEF S
  <2> QED BY <1>1, <1>2, Division, QuotientBounds
<1>4. ByteOf(s, i) = R
  BY DEF ByteOf
<1>5. WithByte(s, i, b) = s + (b - R) * p
  BY <1>4 DEF WithByte
<1> HIDE DEF p, S, T, R, r
<1>6. s + (b - R) * p = (T * Base + b) * p + r
  <2>1. s = (T * Base + R) * p + r
    BY <1>2, <1>3
  <2> DEFINE u == T * Base
  <2>2. u \in Nat
    BY <1>1, <1>3
  <2> HIDE DEF u
  <2>3. (u + R) * p + r + (b - R) * p = (u + b) * p + r
    BY <1>1, <1>2, <1>3, <2>2
  <2> QED BY <2>1, <2>3 DEF u
<1>7. s = (T * Base + R) * p + r
  BY <1>2, <1>3
<1>8. WithByte(s, i, b) = (T * Base + b) * p + r
  BY <1>5, <1>6
<1>9. p = Place[i]
  BY DEF p
<1>10. SplitAt(s, i, b, T, R, r)
  BY <1>4, <1>7, <1>8, <1>9 DEF SplitAt
<1> QED BY <1>2, <1>3, <1>9, <1>10

(* It stays a number of as many bytes. *)
LEMMA WithByteType ==
  ASSUME NEW s \in 0 .. ErasedCounter, NEW i \in 0 .. Quarters - 1, NEW b \in 0 .. Base - 1
  PROVE  WithByte(s, i, b) \in 0 .. ErasedCounter
<1> DEFINE p == Place[i]
           e == Place[Quarters]
<1>0. ErasedCounter = e - 1
  BY DEF ErasedCounter
<1>1. p \in Nat \ {0} /\ Base \in Nat \ {0, 1} /\ Place[i + 1] = Base * p /\ e \in Nat \ {0}
  BY PlacePositive
<1>2. PICK n \in Nat \ {0} : e = n * (Base * p)
  <2>1. i + 1 \in 0 .. Quarters /\ Quarters \in (i + 1) .. Quarters
    BY PlacePositive
  <2> QED BY <1>1, <2>1, PlaceDivides
<1>a. PICK T \in Nat, R \in 0 .. Base - 1, r \in 0 .. p - 1 : SplitAt(s, i, b, T, R, r)
  <2>1. s \in Nat /\ b \in Int
    BY <1>0, <1>1
  <2> HIDE DEF e
  <2> QED BY <2>1, WithByteSplit
<1>3. /\ s = (T * Base + R) * p + r
      /\ WithByte(s, i, b) = (T * Base + b) * p + r
  BY <1>a DEF SplitAt
<1> HIDE DEF p, e
<1>4. T < n
  <2> SUFFICES ASSUME T >= n PROVE FALSE
    BY <1>2, <1>3
  <2>1. (T * Base + R) * p >= (n * Base) * p
    <3>1. T * Base >= n * Base
      BY <1>1
    <3>2. T * Base \in Nat /\ n * Base \in Nat
      BY <1>1
    <3> DEFINE x == T * Base + R   y == n * Base
    <3>3. x \in Nat /\ y \in Nat /\ x >= y
      BY <3>1, <3>2
    <3> HIDE DEF x, y
    <3>4. x * p >= y * p
      BY <1>1, <3>3
    <3> QED BY <3>4 DEF x, y
  <2>2. (n * Base) * p = e
    BY <1>1, <1>2
  <2>3. s >= e
    <3>1. (T * Base + R) * p \in Int /\ r \in Nat
      BY <1>1, <1>3
    <3> QED BY <1>1, <1>3, <2>1, <2>2, <3>1
  <2> QED BY <1>0, <1>1, <2>3
<1> DEFINE v == T * Base + b
<1>5. v \in Nat /\ v <= n * Base - 1
  <2>1. T * Base <= (n - 1) * Base
    BY <1>1, <1>4
  <2>2. (n - 1) * Base = n * Base - Base
    BY <1>1
  <2>3. T * Base \in Nat /\ n * Base \in Nat
    BY <1>1
  <2> QED BY <1>1, <2>1, <2>2, <2>3
<1> HIDE DEF v
<1>6. v * p \in Nat /\ v * p <= n * Base * p - p
  <2> DEFINE y == n * Base
  <2>1. y \in Nat
    BY <1>1
  <2>2. v <= y - 1
    BY <1>5
  <2> HIDE DEF y
  <2>3. v * p <= (y - 1) * p
    BY <1>1, <1>5, <2>1, <2>2
  <2>4. (y - 1) * p = y * p - p
    BY <1>1, <2>1
  <2>5. v * p \in Nat
    BY <1>1, <1>5
  <2> QED BY <2>3, <2>4, <2>5 DEF y
<1>7. n * Base * p = e
  BY <1>1, <1>2
<1>8. WithByte(s, i, b) = v * p + r
  BY <1>3 DEF v
<1> QED BY <1>0, <1>1, <1>3, <1>6, <1>7, <1>8

(* Of a number of which the low bytes are those of w, and no greater: it  *)
(* stays so, with one byte more.                                          *)
LEMMA NextByteAgrees ==
  ASSUME NEW w \in Nat, NEW s \in 0 .. w, NEW i \in 0 .. Quarters - 1,
         Multiple(w - s, Place[i])
  PROVE  LET t == WithByte(s, i, ByteOf(w, i))
         IN  t \in 0 .. w /\ Multiple(w - t, Place[i + 1])
<1> DEFINE p == Place[i]
           S == s \div p
           W == w \div p
           r == s % p
<1>1. p \in Nat \ {0} /\ Base \in Nat \ {0, 1} /\ Place[i + 1] = Base * p
  BY PlacePositive
<1>2. PICK k \in Nat : w - s = k * p
  BY DEF Multiple
<1>3. S \in Nat /\ r \in 0 .. p - 1 /\ s = S * p + r
  <2>1. s \in Nat
    OBVIOUS
  <2> HIDE DEF p
  <2> QED BY <1>1, <2>1, Division, QuotientBounds
<1>4. W = S + k
  <2> HIDE DEF S, r, p
  <2>1. w = (S + k) * p + r
    BY <1>1, <1>2, <1>3
  <2>2. S + k \in Int
    BY <1>3
  <2> QED BY <1>1, <1>3, <2>1, <2>2, Quotient
<1>5. ByteOf(s, i) = S % Base /\ ByteOf(w, i) = W % Base
  BY DEF ByteOf
<1> DEFINE t == WithByte(s, i, ByteOf(w, i))
           c == S \div Base   d == W \div Base
<1>6. t = s + ((W % Base) - (S % Base)) * p
  BY <1>5 DEF WithByte
<1> HIDE DEF S, W, r, p
<1>7. W \in Nat /\ S <= W
  BY <1>3, <1>4
<1>8. /\ c \in Nat /\ d \in Nat /\ c <= d
      /\ S % Base \in 0 .. Base - 1 /\ S = c * Base + (S % Base)
      /\ W % Base \in 0 .. Base - 1 /\ W = d * Base + (W % Base)
  BY <1>1, <1>3, <1>7, Division, QuotientBounds, QuotientOrder
<1> HIDE DEF t, c, d
<1>9. w - t = (d - c) * (Base * p)
  <2>1. w - t = k * p - ((W % Base) - (S % Base)) * p
    BY <1>1, <1>2, <1>6, <1>8
  <2>2. k * p - ((W % Base) - (S % Base)) * p = (k - (W % Base) + (S % Base)) * p
    BY <1>1, <1>8
  <2>3. k - (W % Base) + (S % Base) = d * Base - c * Base
    <3>1. d * Base \in Int /\ c * Base \in Int
      BY <1>1, <1>8
    <3> QED BY <1>3, <1>4, <1>8, <3>1
  <2>4. (d * Base - c * Base) * p = (d - c) * (Base * p)
    BY <1>1, <1>8
  <2> QED BY <2>1, <2>2, <2>3, <2>4
<1>10. d - c \in Nat
  BY <1>8
<1>11. Multiple(w - t, Place[i + 1])
  BY <1>1, <1>9, <1>10 DEF Multiple
<1>12. t <= w
  <2>1. (d - c) * (Base * p) \in Nat
    BY <1>1, <1>10
  <2>2. t \in Int
    BY <1>1, <1>6, <1>8
  <2> QED BY <1>9, <2>1, <2>2
<1>13. t >= 0
  <2>1. (S % Base) * p <= S * p
    <3>1. S % Base <= S
      <4>1. c * Base \in Nat
        BY <1>1, <1>8
      <4> QED BY <1>3, <1>8, <4>1
    <3> DEFINE x == S % Base
    <3>2. x \in Nat /\ x <= S
      BY <1>8, <3>1
    <3> HIDE DEF x
    <3>3. x * p <= S * p
      BY <1>1, <1>3, <3>2
    <3> QED BY <3>3 DEF x
  <2>2. (W % Base) * p \in Nat /\ (S % Base) * p \in Nat /\ S * p \in Nat
    BY <1>1, <1>3, <1>8
  <2>3. ((W % Base) - (S % Base)) * p = (W % Base) * p - (S % Base) * p
    BY <1>1, <1>8
  <2> QED BY <1>3, <1>6, <2>1, <2>2, <2>3
<1>14. t \in Int
  BY <1>1, <1>6, <1>8
<1>15. t \in 0 .. w
  BY <1>12, <1>13, <1>14
<1> QED BY <1>11, <1>15 DEF t

(* A byte of 0 never adds, nor does it bring a low byte back. *)
LEMMA ByteOfZero ==
  ASSUME NEW i \in 0 .. Quarters - 1
  PROVE  ByteOf(0, i) = 0
<1>1. Place[i] \in Nat \ {0} /\ Base \in Nat \ {0}
  BY PlacePositive
<1>2. 0 \div Place[i] = 0
  <2>1. (0 * Place[i] + 0) \div Place[i] = 0
    BY <1>1, Quotient
  <2> QED BY <1>1, <2>1
<1>3. 0 % Base = 0
  <2>1. 0 % Base \in 0 .. Base - 1 /\ 0 = (0 \div Base) * Base + (0 % Base)
    BY <1>1, Division
  <2>2. (0 * Base + 0) \div Base = 0
    BY <1>1, Quotient
  <2>3. 0 \div Base = 0
    BY <1>1, <2>2
  <2> QED BY <1>1, <2>1, <2>3
<1> QED BY <1>2, <1>3 DEF ByteOf

LEMMA ZeroByteLowers ==
  ASSUME NEW s \in Nat, NEW j \in 0 .. Quarters - 1
  PROVE  WithByte(s, j, 0) \in 0 .. s
<1>1. Place[j] \in Nat \ {0} /\ Base \in Nat \ {0, 1}
  BY PlacePositive
<1>a. PICK T \in Nat, R \in 0 .. Base - 1, r \in 0 .. Place[j] - 1 : SplitAt(s, j, 0, T, R, r)
  <2>1. 0 \in Int
    OBVIOUS
  <2> QED BY <2>1, WithByteSplit
<1>2. /\ s = (T * Base + R) * Place[j] + r
      /\ WithByte(s, j, 0) = (T * Base + 0) * Place[j] + r
  BY <1>a DEF SplitAt
<1> DEFINE x == T * Base   p == Place[j]
<1>3. x \in Nat /\ p \in Nat
  BY <1>1
<1>4. s = (x + R) * p + r /\ WithByte(s, j, 0) = x * p + r
  BY <1>2, <1>3
<1> HIDE DEF x, p
<1>5. (x + R) * p = x * p + R * p /\ R * p \in Nat /\ x * p \in Nat
  BY <1>1, <1>3
<1>6. r \in Nat
  BY <1>1
<1> QED BY <1>4, <1>5, <1>6

LEMMA ZeroByteNext ==
  ASSUME NEW s \in Nat, NEW j \in 0 .. Quarters - 1, Multiple(s, Place[j])
  PROVE  Multiple(WithByte(s, j, 0), Place[j + 1])
<1> DEFINE p == Place[j]
<1>1. p \in Nat \ {0} /\ Base \in Nat \ {0, 1} /\ Place[j + 1] = Base * p
  BY PlacePositive
<1>2. PICK m \in Nat : s = m * p
  BY DEF Multiple
<1>a. PICK T \in Nat, R \in 0 .. Base - 1, r \in 0 .. p - 1 : SplitAt(s, j, 0, T, R, r)
  <2>1. 0 \in Int
    OBVIOUS
  <2> QED BY <2>1, WithByteSplit
<1>3. /\ s = (T * Base + R) * p + r
      /\ WithByte(s, j, 0) = (T * Base + 0) * p + r
  BY <1>a DEF SplitAt
<1> DEFINE x == T * Base
<1> HIDE DEF p
<1>4. x \in Nat
  BY <1>1
<1>5. r = (m - (x + R)) * p
  <2> DEFINE y == x + R
  <2>1. y \in Nat /\ s = y * p + r
    BY <1>3, <1>4
  <2> HIDE DEF y
  <2>2. r = (m - y) * p
    BY <1>1, <1>2, <2>1
  <2> QED BY <2>2 DEF y
<1>6. r = 0
  <2> DEFINE d == m - (x + R)
  <2>1. d \in Int
    BY <1>4
  <2> HIDE DEF d, x
  <2>2. r = d * p
    BY <1>5 DEF d
  <2>3. d >= 1 => d * p >= p
    BY <1>1, <2>1
  <2>4. d <= -1 => d * p <= -p
    BY <1>1, <2>1
  <2> QED BY <1>1, <1>3, <2>1, <2>2, <2>3, <2>4
<1>7. WithByte(s, j, 0) = T * (Base * p)
  BY <1>1, <1>3, <1>6
<1> QED BY <1>1, <1>7 DEF Multiple

LEMMA ZeroByteKeeps ==
  ASSUME NEW s \in Nat, NEW j \in 0 .. Quarters - 1, NEW i \in 0 .. Quarters,
         Multiple(s, Place[i])
  PROVE  Multiple(WithByte(s, j, 0), Place[i])
<1> DEFINE p == Place[j]
<1>1. /\ p \in Nat \ {0} /\ Base \in Nat \ {0, 1} /\ Place[j + 1] = Base * p
      /\ Place[i] \in Nat \ {0}
  BY PlacePositive
<1>2. PICK m \in Nat : s = m * Place[i]
  BY DEF Multiple
<1>3. /\ ByteOf(s, j) \in Nat
      /\ WithByte(s, j, 0) = s - ByteOf(s, j) * p
      /\ WithByte(s, j, 0) \in 0 .. s
  <2>1. ByteOf(s, j) \in Nat
    <3>1. PICK T \in Nat, R \in 0 .. Base - 1, r \in 0 .. p - 1 : SplitAt(s, j, 0, T, R, r)
      <4>1. 0 \in Int
        OBVIOUS
      <4> QED BY <4>1, WithByteSplit
    <3> QED BY <1>1, <3>1 DEF SplitAt
  <2> QED BY <1>1, <2>1, ZeroByteLowers DEF WithByte
<1>4. CASE i <= j
  <2>1. PICK n \in Nat \ {0} : p = n * Place[i]
    BY <1>4, PlaceDivides, PlacePositive
  <2> DEFINE k == m - ByteOf(s, j) * n
  <2>2. k \in Int
    BY <1>3
  <2>3. WithByte(s, j, 0) = k * Place[i]
    <3> DEFINE b == ByteOf(s, j)   q == Place[i]   t == WithByte(s, j, 0)
    <3>1. b \in Nat /\ q \in Nat \ {0} /\ t = m * q - b * (n * q)
      BY <1>1, <1>2, <1>3, <2>1
    <3> HIDE DEF b, q, t
    <3>2. t = (m - b * n) * q
      BY <3>1
    <3> QED BY <3>2 DEF b, q, t
  <2> HIDE DEF k
  <2>4. k >= 0
    <3> SUFFICES ASSUME k <= -1 PROVE FALSE
      BY <2>2
    <3>1. k * Place[i] <= -Place[i]
      BY <1>1, <2>2
    <3>2. k * Place[i] \in Int
      BY <1>1, <2>2
    <3> QED BY <1>1, <1>3, <2>3, <3>1, <3>2
  <2> QED BY <2>2, <2>3, <2>4 DEF Multiple
<1>5. CASE i > j
  <2>1. PICK n \in Nat \ {0} : Place[i] = n * (Base * p)
    <3>1. j + 1 \in 0 .. Quarters /\ i \in (j + 1) .. Quarters
      BY <1>5, PlacePositive
    <3> QED BY <1>1, <3>1, PlaceDivides
  <2>2. ByteOf(s, j) = 0
    <3> DEFINE u == (m * n) * Base
    <3>1. u \in Int /\ 0 \in 0 .. p - 1 /\ s = u * p + 0
      <4> HIDE DEF p
      <4> QED BY <1>1, <1>2, <2>1
    <3>2. s \div p = u
      <4> HIDE DEF u, p
      <4> QED BY <1>1, <3>1, Quotient
    <3>3. u % Base = 0
      <4> DEFINE v == m * n
      <4>1. v \in Nat
        OBVIOUS
      <4> HIDE DEF v
      <4>2. (v * Base + 0) \div Base = v
        BY <1>1, <4>1, Quotient
      <4>3. v * Base \in Nat /\ v * Base + 0 = v * Base
        BY <1>1, <4>1
      <4>4. (v * Base) % Base = 0
        <5> DEFINE z == v * Base
        <5>1. z \in Nat /\ z \div Base = v
          BY <4>2, <4>3
        <5> HIDE DEF z
        <5>2. z = v * Base + (z % Base) /\ z % Base \in Int
          <6>1. z = (z \div Base) * Base + (z % Base) /\ z % Base \in 0 .. Base - 1
            BY <1>1, <5>1, Division
          <6>2. z % Base \in Int
            BY <1>1, <6>1
          <6> QED BY <5>1, <6>1, <6>2
        <5>3. z = v * Base
          BY DEF z
        <5>4. z % Base = 0
          BY <4>3, <5>2, <5>3
        <5> QED BY <5>4 DEF z
      <4> QED BY <4>4 DEF v
    <3> QED BY <3>2, <3>3 DEF ByteOf
  <2>3. WithByte(s, j, 0) = s
    BY <1>1, <1>3, <2>2
  <2> QED BY <2>3
<1> QED BY <1>4, <1>5

-----------------------------------------------------------------------------
(* Types. *)
PTypes ==
  /\ word \in [Channel -> 0 .. ErasedCounter] /\ stored \in [Channel -> 0 .. ErasedCounter]
  /\ data_change \in [Channel -> BOOLEAN]
  /\ loop \in 0 .. Channels /\ quarter \in 0 .. Quarters /\ storing \in BOOLEAN
  /\ storing => loop < Channels
  /\ clearing \in [channel : 0 .. Channels, quarter : 0 .. Quarters - 1]
  /\ clearing # NoChannel => clearing.channel < Channels
  /\ counted \in [Channel -> Nat]

LEMMA SizesTyped ==
  /\ Channels \in Nat \ {0} /\ Quarters \in Nat \ {0} /\ Base \in Nat \ {0, 1}
  /\ ErasedCounter \in Nat /\ ErasedCounter + 1 = Place[Quarters]
  /\ Place[Quarters] \in Nat \ {0}
  /\ \A c : c \in Channel <=> c \in 0 .. Channels /\ c < Channels
<1>1. Channels \in Nat \ {0}
  BY PulseAssumption
<1>2. Place[Quarters] \in Nat \ {0}
  BY PlacePositive
<1> QED BY <1>1, <1>2, PlacePositive DEF ErasedCounter, Channel

LEMMA ByteOfType ==
  ASSUME NEW w \in Nat, NEW i \in 0 .. Quarters - 1
  PROVE  ByteOf(w, i) \in 0 .. Base - 1
<1>1. Place[i] \in Nat \ {0} /\ Base \in Nat \ {0}
  BY PlacePositive
<1>2. w \div Place[i] \in Nat
  BY <1>1, QuotientBounds
<1> QED BY <1>1, <1>2, Division DEF ByteOf

LEMMA InitTyped == PulseInit => PTypes
<1> SUFFICES ASSUME PulseInit PROVE PTypes
  OBVIOUS
<1>1. NoChannel \in [channel : 0 .. Channels, quarter : 0 .. Quarters - 1]
  BY SizesTyped DEF NoChannel
<1>2. 0 \in 0 .. ErasedCounter
  BY SizesTyped
<1>3. word \in [Channel -> 0 .. ErasedCounter] /\ stored \in [Channel -> 0 .. ErasedCounter]
  BY <1>2 DEF PulseInit
<1>4. data_change \in [Channel -> BOOLEAN] /\ counted \in [Channel -> Nat]
  BY DEF PulseInit
<1>5. 0 \in 0 .. Channels /\ 0 \in 0 .. Quarters /\ FALSE \in BOOLEAN
  BY SizesTyped
<1> QED BY <1>1, <1>3, <1>4, <1>5 DEF PulseInit, PTypes

LEMMA StepTyped == PTypes /\ [PulseNext]_pulseVars => PTypes'
<1> SUFFICES ASSUME PTypes, [PulseNext]_pulseVars PROVE PTypes'
  OBVIOUS
<1> USE DEF PTypes
<1>1. ASSUME NEW c \in Channel, Pulse(c) PROVE PTypes'
  <2>1. (word[c] + 1) % Place[Quarters] \in 0 .. ErasedCounter
    <3> DEFINE n == word[c] + 1
    <3>1. n \in Nat
      BY SizesTyped
    <3> HIDE DEF n
    <3>2. n % Place[Quarters] \in 0 .. Place[Quarters] - 1
      BY <3>1, SizesTyped, Division
    <3>3. Place[Quarters] - 1 = ErasedCounter
      BY SizesTyped
    <3> QED BY <3>2, <3>3 DEF n
  <2>2. (data_change[c] \/ c >= FirstPolled) \in BOOLEAN
    OBVIOUS
  <2>3. counted[c] + 1 \in Nat
    OBVIOUS
  <2>4. word' \in [Channel -> 0 .. ErasedCounter]
    BY <1>1, <2>1 DEF Pulse
  <2>5. data_change' \in [Channel -> BOOLEAN]
    BY <1>1, <2>2 DEF Pulse
  <2>6. counted' \in [Channel -> Nat]
    BY <1>1, <2>3 DEF Pulse
  <2> QED BY <1>1, <2>4, <2>5, <2>6 DEF Pulse
<1>2. ASSUME NEW c \in Channel, ClearCounter(c) PROVE PTypes'
  <2>1. [channel |-> c, quarter |-> 0] \in [channel : 0 .. Channels, quarter : 0 .. Quarters - 1]
    BY SizesTyped
  <2>2. word' \in [Channel -> 0 .. ErasedCounter]
    BY <1>2, SizesTyped DEF ClearCounter
  <2>3. clearing' = [channel |-> c, quarter |-> 0] /\ clearing'.channel < Channels
    BY <1>2, SizesTyped DEF ClearCounter
  <2> QED BY <1>2, <2>1, <2>2, <2>3 DEF ClearCounter
<1>3. CASE Look
  <2>1. loop < Channels => loop + 1 \in 0 .. Channels
    BY SizesTyped
  <2> QED BY <1>3, <2>1 DEF Look
<1>4. CASE StoreQuarter
  <2>1. loop \in Channel /\ quarter \in 0 .. Quarters - 1
    BY <1>4, SizesTyped DEF StoreQuarter
  <2>2. word[loop] \in Nat /\ stored[loop] \in 0 .. ErasedCounter
    BY <2>1, SizesTyped
  <2>3. WithByte(stored[loop], quarter, ByteOf(word[loop], quarter)) \in 0 .. ErasedCounter
    BY <2>1, <2>2, ByteOfType, WithByteType
  <2>4. stored' \in [Channel -> 0 .. ErasedCounter]
    BY <1>4, <2>3 DEF StoreQuarter
  <2>5. quarter' \in 0 .. Quarters
    BY <1>4, <2>1, SizesTyped DEF StoreQuarter
  <2> QED BY <1>4, <2>4, <2>5 DEF StoreQuarter
<1>5. CASE ClearChange
  <2>1. data_change' \in [Channel -> BOOLEAN]
    BY <1>5 DEF ClearChange
  <2>2. loop' \in 0 .. Channels /\ 0 \in 0 .. Quarters
    BY <1>5, SizesTyped DEF ClearChange
  <2> QED BY <1>5, <2>1, <2>2 DEF ClearChange
<1>6. CASE Sleep
  <2>1. 0 \in 0 .. Channels /\ 0 < Channels
    BY SizesTyped
  <2> QED BY <1>6, <2>1 DEF Sleep
<1>7. CASE ClearQuarter
  <2> DEFINE c == clearing.channel   i == clearing.quarter
  <2>1. c \in Channel /\ i \in 0 .. Quarters - 1
    BY <1>7, SizesTyped DEF ClearQuarter
  <2>2. word[c] \in Nat /\ stored[c] \in 0 .. ErasedCounter
    BY <2>1, SizesTyped
  <2>3. WithByte(stored[c], i, ByteOf(word[c], i)) \in 0 .. ErasedCounter
    BY <2>1, <2>2, ByteOfType, WithByteType
  <2>4. stored' \in [Channel -> 0 .. ErasedCounter]
    BY <1>7, <2>3 DEF ClearQuarter
  <2>5. CASE i + 1 < Quarters
    <3>1. i + 1 \in 0 .. Quarters - 1
      BY <2>1, <2>5, SizesTyped
    <3>2. clearing' = [clearing EXCEPT !.quarter = i + 1] /\ counted' = counted
      BY <1>7, <2>5 DEF ClearQuarter
    <3>3. clearing' \in [channel : 0 .. Channels, quarter : 0 .. Quarters - 1]
      BY <3>1, <3>2
    <3>4. clearing'.channel = c /\ c < Channels
      BY <2>1, <3>2, SizesTyped
    <3> QED BY <1>7, <2>4, <3>2, <3>3, <3>4 DEF ClearQuarter
  <2>6. CASE ~ (i + 1 < Quarters)
    <3>1. clearing' = NoChannel /\ counted' = [counted EXCEPT ![c] = word[c]]
      BY <1>7, <2>6 DEF ClearQuarter
    <3>2. NoChannel \in [channel : 0 .. Channels, quarter : 0 .. Quarters - 1]
      BY SizesTyped DEF NoChannel
    <3>3. counted' \in [Channel -> Nat]
      BY <2>2, <3>1
    <3> QED BY <1>7, <2>4, <3>1, <3>2, <3>3 DEF ClearQuarter
  <2> QED BY <2>5, <2>6
<1>8. CASE Outage
  <2>1. NoChannel \in [channel : 0 .. Channels, quarter : 0 .. Quarters - 1]
    BY SizesTyped DEF NoChannel
  <2>2. stored' \in [Channel -> 0 .. ErasedCounter]
    BY <1>8, SizesTyped DEF Outage
  <2>3. word' \in [Channel -> 0 .. ErasedCounter]
    BY <1>8, <2>2 DEF Outage
  <2>4. data_change' \in [Channel -> BOOLEAN] /\ 0 \in 0 .. Channels /\ 0 \in 0 .. Quarters
    BY <1>8, SizesTyped DEF Outage
  <2> QED BY <1>8, <2>1, <2>2, <2>3, <2>4 DEF Outage
<1>9. CASE UNCHANGED pulseVars
  BY <1>9 DEF pulseVars
<1> QED BY <1>1, <1>2, <1>3, <1>4, <1>5, <1>6, <1>7, <1>8, <1>9 DEF PulseNext, StoreTask

LEMMA PTypesHold == PulseSpec => []PTypes
BY InitTyped, StepTyped, PTL DEF PulseSpec

(* The counters, their bytes in EEPROM and the two tasks' places in them   *)
(* stay within their ranges, whenever the pulses come: whatever byte is    *)
(* written, a counter's bytes are those of a number it can hold.           *)
THEOREM PulsesTyped == PulseSpec => []PulseTypeOK
<1>1. PTypes => PulseTypeOK
  BY SizesTyped DEF PTypes, PulseTypeOK
<1> QED BY <1>1, PTypesHold, PTL

-----------------------------------------------------------------------------
(* What is stored of a counter is never ahead of it.  While its bytes are  *)
(* written, those written are the counter's; while it is cleared, it is 0, *)
(* and what is stored of it may be ahead, but not of the pulses there were.*)
NotAhead(c) ==
  /\ stored[c] <= word[c]
  /\ BeingStored(c) => Multiple(word[c] - stored[c], Place[quarter])

Clearing(c) ==
  /\ word[c] = 0 /\ stored[c] <= counted[c]
  /\ Multiple(stored[c], Place[clearing.quarter])
  /\ BeingStored(c) => Multiple(stored[c], Place[quarter])

CounterInv(c) ==
  /\ counted[c] <= MaxPulses /\ word[c] <= counted[c]
  /\ IF BeingCleared(c) THEN Clearing(c) ELSE NotAhead(c)

PulseInv ==
  /\ PTypes
  /\ ~storing => quarter = 0
  /\ \A c \in Channel : CounterInv(c)

LEMMA MultipleOfOne == \A n \in Nat : Multiple(n, Place[0])
<1>1. Place[0] = 1
  BY PlacePositive
<1>2. ASSUME NEW n \in Nat PROVE n = n * 1
  OBVIOUS
<1> QED BY <1>1, <1>2 DEF Multiple

LEMMA InitBehind == PulseInit => PulseInv
<1> SUFFICES ASSUME PulseInit PROVE PulseInv
  OBVIOUS
<1>1. PTypes
  BY InitTyped
<1>2. ASSUME NEW c \in Channel PROVE CounterInv(c)
  <2>1. word[c] = 0 /\ stored[c] = 0 /\ counted[c] = 0 /\ ~storing
    BY DEF PulseInit
  <2>2. ~ BeingCleared(c)
    BY SizesTyped DEF PulseInit, BeingCleared, NoChannel
  <2> QED BY <2>1, <2>2, PlacePositive DEF CounterInv, NotAhead, BeingStored
<1> QED BY <1>1, <1>2 DEF PulseInv, PulseInit

(* A channel of which a step changes nothing. *)
LEMMA OtherCounter ==
  ASSUME NEW c \in Channel, CounterInv(c),
         word'[c] = word[c], stored'[c] = stored[c], counted'[c] = counted[c],
         BeingCleared(c)' <=> BeingCleared(c),
         BeingCleared(c) => clearing'.quarter = clearing.quarter,
         BeingStored(c)' => BeingStored(c) /\ quarter' = quarter
  PROVE  CounterInv(c)'
BY DEF CounterInv, Clearing, NotAhead, Multiple

LEMMA ClearQuarterBehind ==
  ASSUME PTypes, PTypes', ClearQuarter, ~storing => quarter = 0,
         \A d \in Channel : /\ word[d] \in 0 .. ErasedCounter /\ stored[d] \in 0 .. ErasedCounter
                            /\ counted[d] \in Nat /\ CounterInv(d),
         NEW c \in Channel, clearing.channel = c,
         NEW i \in 0 .. Quarters - 1, clearing.quarter = i
  PROVE  (~storing' => quarter' = 0) /\ \A d \in Channel : CounterInv(d)'
<1> DEFINE t == WithByte(stored[c], i, ByteOf(word[c], i))
<1>1. /\ clearing # NoChannel /\ UNCHANGED <<word, loop, storing, quarter>>
      /\ stored' = [stored EXCEPT ![c] = t]
      /\ IF i + 1 < Quarters
         THEN clearing' = [clearing EXCEPT !.quarter = i + 1] /\ counted' = counted
         ELSE clearing' = NoChannel /\ counted' = [counted EXCEPT ![c] = word[c]]
  BY DEF ClearQuarter
<1>2. c # Channels
  BY SizesTyped
<1>3. /\ word[c] \in Nat /\ stored[c] \in Nat /\ counted[c] \in Nat
      /\ stored[c] <= ErasedCounter
      /\ counted[c] <= MaxPulses /\ Clearing(c)
  BY SizesTyped DEF CounterInv, BeingCleared
<1>4. /\ word[c] = 0 /\ stored[c] <= counted[c] /\ Multiple(stored[c], Place[i])
      /\ BeingStored(c) => Multiple(stored[c], Place[quarter])
  BY <1>3 DEF Clearing
<1>5. t = WithByte(stored[c], i, 0)
  BY <1>4, ByteOfZero
<1>6. t \in 0 .. stored[c] /\ Multiple(t, Place[i + 1])
  BY <1>3, <1>4, <1>5, ZeroByteLowers, ZeroByteNext
<1>7. BeingStored(c) => Multiple(t, Place[quarter])
  <2>1. quarter \in 0 .. Quarters
    BY DEF PTypes
  <2> QED BY <1>3, <1>4, <1>5, <2>1, ZeroByteKeeps
<1> HIDE DEF t
<1>8. stored'[c] = t /\ word'[c] = 0
  <2>1. stored \in [Channel -> 0 .. ErasedCounter]
    BY DEF PTypes
  <2> QED BY <1>1, <1>4, <2>1
<1>9. BeingStored(c)' = BeingStored(c)
  BY <1>1 DEF BeingStored
<1>10. t \in Nat /\ t <= counted[c] /\ t <= ErasedCounter
  BY <1>3, <1>4, <1>6, SizesTyped
<1>11. clearing \in [channel : 0 .. Channels, quarter : 0 .. Quarters - 1]
  BY DEF PTypes
<1>12. ASSUME NEW d \in Channel, d # c,
              clearing'.channel \in {c, Channels}, counted'[d] = counted[d]
       PROVE  CounterInv(d)'
  <2>1. word'[d] = word[d] /\ stored'[d] = stored[d]
    BY <1>1, <1>12 DEF PTypes
  <2>2. ~ BeingCleared(d) /\ ~ BeingCleared(d)'
    BY <1>12, SizesTyped DEF BeingCleared
  <2>3. BeingStored(d)' => BeingStored(d) /\ quarter' = quarter
    BY <1>1 DEF BeingStored
  <2>4. CounterInv(d)
    OBVIOUS
  <2> QED BY <1>12, <2>1, <2>2, <2>3, <2>4, OtherCounter
<1>13. CASE i + 1 < Quarters
  <2>1. clearing' = [clearing EXCEPT !.quarter = i + 1] /\ counted' = counted
    BY <1>1, <1>13
  <2>2. clearing'.channel = c /\ clearing'.quarter = i + 1
    BY <1>11, <2>1
  <2>3. CounterInv(c)'
    <3>1. Clearing(c)'
      <4>1. BeingStored(c)' => Multiple(stored'[c], Place[quarter'])
        BY <1>1, <1>7, <1>8, <1>9
      <4>2. Multiple(stored'[c], Place[clearing'.quarter])
        BY <1>6, <1>8, <2>2
      <4>3. stored'[c] <= counted'[c] /\ word'[c] = 0
        BY <1>8, <1>10, <2>1
      <4> QED BY <4>1, <4>2, <4>3 DEF Clearing, Multiple
    <3>2. BeingCleared(c)'
      BY <2>2 DEF BeingCleared
    <3>3. counted'[c] <= MaxPulses /\ word'[c] <= counted'[c]
      BY <1>3, <1>8, <2>1
    <3> QED BY <3>1, <3>2, <3>3 DEF CounterInv
  <2>4. ASSUME NEW d \in Channel PROVE CounterInv(d)'
    BY <1>12, <2>1, <2>2, <2>3
  <2> QED BY <1>1, <2>4
<1>14. CASE ~ (i + 1 < Quarters)
  <2>1. clearing' = NoChannel /\ counted' = [counted EXCEPT ![c] = 0]
    BY <1>1, <1>4, <1>14
  <2>2. clearing'.channel = Channels
    BY <2>1 DEF NoChannel
  <2>3. counted'[c] = 0 /\ \A d \in Channel : d # c => counted'[d] = counted[d]
    <3>1. counted \in [Channel -> Nat]
      BY DEF PTypes
    <3> QED BY <2>1, <3>1
  <2>4. t = 0
    <3>1. i + 1 = Quarters
      BY <1>14, SizesTyped
    <3>2. PICK m \in Nat : t = m * Place[Quarters]
      BY <1>6, <3>1 DEF Multiple
    <3> DEFINE e == Place[Quarters]
    <3>3. e \in Nat \ {0} /\ t < e /\ t = m * e
      BY <1>10, <3>2, SizesTyped
    <3> HIDE DEF e
    <3>4. m >= 1 => m * e >= e
      BY <3>3
    <3> QED BY <3>3, <3>4
  <2>5. CounterInv(c)'
    <3>1. ~ BeingCleared(c)'
      BY <1>2, <2>2 DEF BeingCleared
    <3>2. BeingStored(c)' => Multiple(word'[c] - stored'[c], Place[quarter'])
      <4>1. word'[c] - stored'[c] = t
        BY <1>8, <2>4
      <4> QED BY <1>1, <1>7, <1>9, <4>1
    <3>3. NotAhead(c)'
      BY <1>8, <2>4, <3>2 DEF NotAhead, Multiple
    <3>4. counted'[c] <= MaxPulses /\ word'[c] <= counted'[c]
      BY <1>8, <2>3, PlacePositive
    <3> QED BY <3>1, <3>3, <3>4 DEF CounterInv
  <2>6. ASSUME NEW d \in Channel PROVE CounterInv(d)'
    BY <1>12, <2>2, <2>3, <2>5
  <2> QED BY <1>1, <2>6
<1> QED BY <1>13, <1>14

LEMMA StepBehind == ~ CountsDuringStore /\ PulseInv /\ [PulseNext]_pulseVars => PulseInv'
<1> SUFFICES ASSUME ~ CountsDuringStore, PulseInv, [PulseNext]_pulseVars PROVE PulseInv'
  OBVIOUS
<1>1. PTypes /\ PTypes'
  BY StepTyped DEF PulseInv
<1> SUFFICES /\ ~storing' => quarter' = 0
             /\ \A d \in Channel : CounterInv(d)'
  BY <1>1 DEF PulseInv
<1>2. /\ ~storing => quarter = 0
      /\ \A d \in Channel : /\ word[d] \in 0 .. ErasedCounter /\ stored[d] \in 0 .. ErasedCounter
                            /\ counted[d] \in Nat /\ CounterInv(d)
  BY <1>1 DEF PulseInv, PTypes
<1> DEFINE Goal == (~storing' => quarter' = 0) /\ \A d \in Channel : CounterInv(d)'
<1>3. ASSUME NEW c \in Channel, Pulse(c) PROVE Goal
  <2>1. ~ BeingStored(c) /\ ~ BeingCleared(c) /\ counted[c] < MaxPulses
    BY <1>3 DEF Pulse
  <2>2. /\ UNCHANGED <<stored, loop, storing, quarter, clearing>>
        /\ word' = [word EXCEPT ![c] = (@ + 1) % Place[Quarters]]
        /\ counted' = [counted EXCEPT ![c] = @ + 1]
    BY <1>3 DEF Pulse
  <2>3. CounterInv(c)'
    <3>1. stored[c] <= word[c] /\ word[c] <= counted[c]
      BY <1>2, <2>1 DEF CounterInv, NotAhead
    <3>2. word[c] + 1 \in 0 .. Place[Quarters] - 1
      BY <1>2, <2>1, <3>1, PlacePositive, SizesTyped
    <3>3. (word[c] + 1) % Place[Quarters] = word[c] + 1
      <4> DEFINE n == word[c] + 1   e == Place[Quarters]
      <4>1. e \in Nat \ {0} /\ n \in 0 .. e - 1 /\ n \in Nat
        BY <3>2, SizesTyped
      <4> HIDE DEF n, e
      <4>2. (0 * e + n) \div e = 0
        BY <4>1, Quotient
      <4>3. 0 * e + n = n
        BY <4>1
      <4>4. n = (n \div e) * e + (n % e) /\ n % e \in 0 .. e - 1
        BY <4>1, Division
      <4>5. n \div e = 0
        BY <4>2, <4>3
      <4>6. n % e = n
        BY <4>1, <4>4, <4>5
      <4> QED BY <4>6 DEF n, e
    <3>4. word'[c] = word[c] + 1 /\ counted'[c] = counted[c] + 1 /\ stored'[c] = stored[c]
      BY <1>1, <2>2, <3>3 DEF PTypes
    <3>5. ~ BeingStored(c)' /\ ~ BeingCleared(c)'
      BY <2>1, <2>2 DEF BeingStored, BeingCleared
    <3>6. counted'[c] <= MaxPulses
      BY <1>2, <2>1, <3>4, PlacePositive
    <3>7. word'[c] <= counted'[c] /\ stored'[c] <= word'[c]
      BY <1>2, <3>1, <3>4
    <3> QED BY <3>5, <3>6, <3>7 DEF CounterInv, NotAhead
  <2>4. ASSUME NEW d \in Channel, d # c PROVE CounterInv(d)'
    <3>1. word'[d] = word[d] /\ counted'[d] = counted[d] /\ stored'[d] = stored[d]
      BY <1>1, <2>2, <2>4 DEF PTypes
    <3>2. /\ BeingCleared(d)' = BeingCleared(d)
          /\ BeingStored(d)' => BeingStored(d) /\ quarter' = quarter
      BY <2>2 DEF BeingStored, BeingCleared
    <3> QED BY <1>2, <2>2, <3>1, <3>2, OtherCounter
  <2> QED BY <1>2, <2>2, <2>3, <2>4
<1>4. ASSUME NEW c \in Channel, ClearCounter(c) PROVE Goal
  <2>1. /\ clearing = NoChannel /\ ~ BeingStored(c)
        /\ UNCHANGED <<stored, loop, storing, quarter, counted>>
        /\ word' = [word EXCEPT ![c] = 0] /\ clearing' = [channel |-> c, quarter |-> 0]
    BY <1>4 DEF ClearCounter
  <2>2. CounterInv(c)'
    <3>1. ~ BeingCleared(c)
      BY <2>1, SizesTyped DEF BeingCleared, NoChannel
    <3>2. stored[c] <= word[c] /\ word[c] <= counted[c] /\ counted[c] <= MaxPulses
      BY <1>2, <3>1 DEF CounterInv, NotAhead
    <3>3. word'[c] = 0 /\ stored'[c] = stored[c] /\ counted'[c] = counted[c]
      BY <1>1, <2>1 DEF PTypes
    <3>4. BeingCleared(c)' /\ ~ BeingStored(c)' /\ clearing'.quarter = 0
      BY <2>1 DEF BeingCleared, BeingStored
    <3>5. stored[c] <= counted[c] /\ 0 <= counted[c]
      BY <1>2, <3>2
    <3>6. Multiple(stored[c], Place[0])
      BY <1>2, MultipleOfOne
    <3>7. Clearing(c)'
      BY <3>3, <3>4, <3>5, <3>6 DEF Clearing, Multiple
    <3> QED BY <3>2, <3>3, <3>4, <3>5, <3>7 DEF CounterInv
  <2>3. ASSUME NEW d \in Channel, d # c PROVE CounterInv(d)'
    <3>1. word'[d] = word[d] /\ counted'[d] = counted[d] /\ stored'[d] = stored[d]
      BY <1>1, <2>1, <2>3 DEF PTypes
    <3>2. ~ BeingCleared(d)
      BY <2>1, SizesTyped DEF BeingCleared, NoChannel
    <3>3. ~ BeingCleared(d)'
      BY <2>1, <2>3 DEF BeingCleared
    <3>4. BeingStored(d)' => BeingStored(d) /\ quarter' = quarter
      BY <2>1 DEF BeingStored
    <3>5. CounterInv(d)
      BY <1>2
    <3> QED BY <3>1, <3>2, <3>3, <3>4, <3>5, OtherCounter
  <2> QED BY <1>2, <2>1, <2>2, <2>3
<1>5. CASE Look
  <2>1. /\ UNCHANGED <<word, stored, quarter, clearing, counted>>
        /\ loop < Channels /\ ~storing
        /\ storing' => loop' = loop
    BY <1>5 DEF Look
  <2>2. quarter = 0 /\ quarter' = 0
    BY <1>2, <2>1
  <2>3. ASSUME NEW d \in Channel PROVE CounterInv(d)'
    <3>1. Multiple(stored[d], Place[0]) /\ (stored[d] <= word[d] => Multiple(word[d] - stored[d], Place[0]))
      <4>1. stored[d] \in Nat /\ (stored[d] <= word[d] => word[d] - stored[d] \in Nat)
        BY <1>2, SizesTyped
      <4> QED BY <4>1, MultipleOfOne
    <3>2. BeingCleared(d)' = BeingCleared(d)
      BY <2>1 DEF BeingCleared
    <3>3. BeingCleared(d) => Clearing(d)'
      BY <1>2, <2>1, <2>2, <3>1 DEF CounterInv, Clearing, Multiple
    <3>4. ~ BeingCleared(d) => NotAhead(d)'
      BY <1>2, <2>1, <2>2, <3>1 DEF CounterInv, NotAhead, Multiple
    <3> QED BY <1>2, <2>1, <3>2, <3>3, <3>4 DEF CounterInv
  <2> QED BY <2>2, <2>3
<1>6. CASE StoreQuarter
  <2>1. /\ storing /\ quarter < Quarters /\ quarter' = quarter + 1
        /\ UNCHANGED <<word, loop, storing, clearing, counted>>
        /\ stored' = [stored EXCEPT ![loop] = WithByte(@, quarter, ByteOf(word[loop], quarter))]
    BY <1>6 DEF StoreQuarter
  <2>2. loop \in Channel /\ quarter \in 0 .. Quarters - 1 /\ quarter + 1 \in 0 .. Quarters
    BY <1>1, <2>1, SizesTyped DEF PTypes
  <2>3. CounterInv(loop)'
    <3>1. word[loop] \in Nat /\ stored[loop] \in Nat /\ counted[loop] \in Nat
      BY <1>2, <2>2, SizesTyped
    <3>2. BeingStored(loop) /\ BeingStored(loop)' /\ CounterInv(loop)
      BY <1>2, <2>1, <2>2 DEF BeingStored
    <3> DEFINE t == WithByte(stored[loop], quarter, ByteOf(word[loop], quarter))
    <3>3. stored'[loop'] = t /\ loop' = loop /\ word'[loop'] = word[loop] /\ counted'[loop'] = counted[loop]
      BY <1>1, <2>1, <2>2 DEF PTypes
    <3>4. BeingCleared(loop)' = BeingCleared(loop)
      BY <2>1 DEF BeingCleared
    <3>5. CASE ~ BeingCleared(loop)
      <4>1. stored[loop] <= word[loop] /\ Multiple(word[loop] - stored[loop], Place[quarter])
        BY <3>2, <3>5 DEF CounterInv, NotAhead
      <4>2. stored[loop] \in 0 .. word[loop]
        BY <3>1, <4>1
      <4>3. t \in 0 .. word[loop] /\ Multiple(word[loop] - t, Place[quarter + 1])
        BY <2>2, <3>1, <4>1, <4>2, NextByteAgrees
      <4> HIDE DEF t
      <4>4. t <= word[loop]
        BY <3>1, <4>3
      <4>5. NotAhead(loop)'
        BY <2>1, <3>3, <4>3, <4>4 DEF NotAhead, Multiple
      <4> QED BY <3>2, <3>3, <3>4, <3>5, <4>5 DEF CounterInv
    <3>6. CASE BeingCleared(loop)
      <4>1. /\ word[loop] = 0 /\ stored[loop] <= counted[loop]
            /\ Multiple(stored[loop], Place[clearing.quarter]) /\ Multiple(stored[loop], Place[quarter])
        BY <3>2, <3>6 DEF CounterInv, Clearing
      <4>2. t = WithByte(stored[loop], quarter, 0)
        BY <2>2, <4>1, ByteOfZero
      <4>3. clearing.quarter \in 0 .. Quarters
        BY <1>1, SizesTyped DEF PTypes
      <4>4. t \in 0 .. stored[loop] /\ Multiple(t, Place[quarter + 1])
        BY <2>2, <3>1, <4>1, <4>2, ZeroByteLowers, ZeroByteNext
      <4>5. Multiple(t, Place[clearing.quarter])
        BY <2>2, <3>1, <4>1, <4>2, <4>3, ZeroByteKeeps
      <4> HIDE DEF t
      <4>6. t <= counted[loop]
        BY <3>1, <4>1, <4>4
      <4>7. Clearing(loop)'
        BY <2>1, <3>3, <4>1, <4>4, <4>5, <4>6 DEF Clearing, Multiple
      <4> QED BY <3>2, <3>3, <3>4, <3>6, <4>7 DEF CounterInv
    <3> QED BY <3>5, <3>6
  <2>4. ASSUME NEW d \in Channel, d # loop PROVE CounterInv(d)'
    <3>1. word'[d] = word[d] /\ counted'[d] = counted[d] /\ stored'[d] = stored[d]
      BY <1>1, <2>1, <2>4 DEF PTypes
    <3>2. BeingCleared(d)' = BeingCleared(d) /\ ~ BeingStored(d)'
      BY <2>1, <2>4 DEF BeingStored, BeingCleared
    <3> QED BY <1>2, <2>1, <3>1, <3>2, OtherCounter
  <2>5. ASSUME NEW d \in Channel PROVE CounterInv(d)'
    <3>1. CASE d = loop
      <4>1. loop' = loop
        BY <2>1
      <4> QED BY <2>3, <3>1, <4>1 DEF CounterInv, BeingCleared, BeingStored, Clearing, NotAhead
    <3>2. CASE d # loop
      BY <2>4, <3>2
    <3> QED BY <3>1, <3>2
  <2> QED BY <2>1, <2>5
<1>7. CASE ClearChange
  <2>1. UNCHANGED <<word, stored, clearing, counted>> /\ ~storing' /\ quarter' = 0
    BY <1>7 DEF ClearChange
  <2>2. ASSUME NEW d \in Channel PROVE CounterInv(d)'
    <3>1. BeingCleared(d)' = BeingCleared(d) /\ ~ BeingStored(d)'
      BY <2>1 DEF BeingStored, BeingCleared
    <3> QED BY <1>2, <2>1, <3>1, OtherCounter
  <2> QED BY <2>1, <2>2
<1>8. CASE Sleep
  <2>1. UNCHANGED <<word, stored, clearing, counted, storing, quarter>> /\ loop = Channels
    BY <1>8 DEF Sleep
  <2>2. ~storing
    BY <1>1, <2>1, SizesTyped DEF PTypes
  <2>3. ASSUME NEW d \in Channel PROVE CounterInv(d)'
    <3>1. BeingCleared(d)' = BeingCleared(d) /\ ~ BeingStored(d)'
      BY <2>1, <2>2 DEF BeingStored, BeingCleared
    <3> QED BY <1>2, <2>1, <3>1, OtherCounter
  <2> QED BY <1>2, <2>1, <2>3
<1>9. CASE ClearQuarter
  <2>1. clearing # NoChannel
    BY <1>9 DEF ClearQuarter
  <2>2. clearing.channel \in Channel /\ clearing.quarter \in 0 .. Quarters - 1
    BY <1>1, <2>1, SizesTyped DEF PTypes
  <2> QED BY <1>1, <1>2, <1>9, <2>2, ClearQuarterBehind
<1>10. CASE Outage
  <2>1. /\ stored' = [d \in Channel |-> IF stored[d] = ErasedCounter THEN 0 ELSE stored[d]]
        /\ word' = stored' /\ counted' = counted
        /\ ~storing' /\ quarter' = 0 /\ clearing' = NoChannel
    BY <1>10 DEF Outage
  <2>2. ASSUME NEW d \in Channel PROVE CounterInv(d)'
    <3>1. stored[d] <= counted[d] /\ counted[d] <= MaxPulses
      BY <1>2, SizesTyped DEF CounterInv, NotAhead, Clearing
    <3>2. stored[d] # ErasedCounter
      BY <1>2, <3>1, PlacePositive
    <3>3. stored'[d] = stored[d] /\ word'[d] = stored[d] /\ counted'[d] = counted[d]
      BY <2>1, <3>2
    <3>4. ~ BeingCleared(d)' /\ ~ BeingStored(d)'
      BY <2>1, SizesTyped DEF BeingCleared, BeingStored, NoChannel
    <3>5. stored[d] <= stored[d]
      BY <1>2
    <3> QED BY <3>1, <3>3, <3>4, <3>5 DEF CounterInv, NotAhead
  <2> QED BY <2>1, <2>2
<1>11. CASE UNCHANGED pulseVars
  <2>1. UNCHANGED <<word, stored, clearing, counted, loop, storing, quarter>>
    BY <1>11 DEF pulseVars
  <2>2. ASSUME NEW d \in Channel PROVE CounterInv(d)'
    <3>1. BeingCleared(d)' = BeingCleared(d) /\ BeingStored(d)' = BeingStored(d)
      BY <2>1 DEF BeingStored, BeingCleared
    <3> QED BY <1>2, <2>1, <3>1, OtherCounter
  <2> QED BY <1>2, <2>1, <2>2
<1> QED
  BY <1>3, <1>4, <1>5, <1>6, <1>7, <1>8, <1>9, <1>10, <1>11 DEF PulseNext, StoreTask

(* However the store of a counter, a reset by the master and a power       *)
(* failure between any two bytes meet, a counter never comes up with more  *)
(* pulses than there were since it was cleared -- for any number of bytes, *)
(* as long as no pulse comes while the bytes of that counter are written.  *)
THEOREM CountsNothingExtra ==
  ASSUME ~ CountsDuringStore
  PROVE  PulseSpec => []NeverCountsExtra
<1>1. PulseInv => NeverCountsExtra
  BY DEF PulseInv, CounterInv, NeverCountsExtra
<1>2. PulseInv /\ [PulseNext]_pulseVars => PulseInv'
  BY StepBehind
<1> QED BY <1>1, <1>2, InitBehind, PTL DEF PulseSpec
=============================================================================
