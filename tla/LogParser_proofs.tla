-------------------------- MODULE LogParser_proofs --------------------------
(***************************************************************************)
(* Proofs about LogParser: what the encoders wrote is what the decoders    *)
(* read, whatever the lengths that fit their fields, and the parser takes  *)
(* a log record by record, wherever the last append was cut short.         *)
(*                                                                         *)
(* The encoders and the decoders are recursive functions.  Of each a lemma *)
(* shows that it exists and is what its recursion says; what it computes   *)
(* is then shown by induction up to its bound (RecursionTheorems).         *)
(***************************************************************************)
EXTENDS LogParser, RecursionTheorems, FiniteSetTheorems, TLAPS

-----------------------------------------------------------------------------
(* Length fields                                                           *)

\* 256 to the number of bytes of a length field.
Limit ==
  LET power[i \in 0..LenSize] == IF i = 0 THEN 1 ELSE power[i - 1] * 256
  IN  power[LenSize]

Fits(n) == n < Limit

LEMMA LimitPower ==
  \E power \in [0..LenSize -> Nat \ {0}] :
    /\ power[0] = 1
    /\ \A i \in 1..LenSize : power[i] = power[i - 1] * 256
    /\ Limit = power[LenSize]
<1> DEFINE V == Nat \ {0}
           Recursion(f) == [i \in 0..LenSize |-> IF i = 0 THEN 1 ELSE f[i - 1] * 256]
           step == [p \in V \X (1..LenSize) |-> p[1] * 256]
           power == CHOOSE f : f = Recursion(f)
<1>1. LenSize \in Nat /\ step \in [V \X (1..LenSize) -> V]
  BY LenSizeAssumption
<1>2. PICK f \in [0..LenSize -> V] :
        f = [i \in 0..LenSize |-> IF i = 0 THEN 1 ELSE step[<<f[i - 1], i>>]]
  <2>1. 1 \in V
    OBVIOUS
  <2> HIDE DEF step, V
  <2>2. \E f \in [0..LenSize -> V] : Iterates(f, LenSize, 1, step)
    BY <1>1, <2>1, IteratesExist
  <2> QED
    BY <2>2, Zenon DEF Iterates
<1>3. f = Recursion(f)
  <2>1. \A i \in 0..LenSize : i # 0 => i \in 1..LenSize /\ i - 1 \in 0..LenSize
    BY <1>1
  <2>2. \A i \in 1..LenSize : f[i - 1] \in V => step[<<f[i - 1], i>>] = f[i - 1] * 256
    OBVIOUS
  <2> HIDE DEF step
  <2> QED
    BY <1>2, <2>1, <2>2
<1>4. power = Recursion(power)
  <2> HIDE DEF Recursion
  <2> QED
    BY <1>3
<1>5. Limit = power[LenSize]
  BY DEF Limit
<1> HIDE DEF power
<1>6. \A i \in 0..LenSize : power[i] = IF i = 0 THEN 1 ELSE power[i - 1] * 256
  BY <1>4
<1>7. power[0] = 1 /\ \A i \in 1..LenSize : power[i] = power[i - 1] * 256
  BY <1>1, <1>6
<1>8. \A i \in 0..LenSize : power[i] \in V
  <2>1. \A i \in 1..LenSize : power[i - 1] \in V => power[i] \in V
    BY <1>7
  <2>2. power[0] \in V
    BY <1>7
  <2> HIDE DEF V
  <2> QED
    BY <1>1, <2>1, <2>2, IteratesType
<1>9. power \in [0..LenSize -> V]
  BY <1>4, <1>8
<1> QED
  BY <1>5, <1>7, <1>9

\* A number's bytes, and what is left of it after each.
LEMMA LELeft ==
  ASSUME NEW n \in Nat
  PROVE  \E left \in [0..LenSize -> Nat] :
           /\ left[0] = n
           /\ \A i \in 1..LenSize : left[i] = left[i - 1] \div 256
           /\ LE(n) = [i \in 1..LenSize |-> left[i - 1] % 256]
<1> DEFINE Recursion(f) == [i \in 0..LenSize |-> IF i = 0 THEN n ELSE f[i - 1] \div 256]
           step == [p \in Nat \X (1..LenSize) |-> p[1] \div 256]
           left == CHOOSE f : f = Recursion(f)
<1>1. LenSize \in Nat /\ step \in [Nat \X (1..LenSize) -> Nat]
  BY LenSizeAssumption
<1>2. PICK f \in [0..LenSize -> Nat] :
        f = [i \in 0..LenSize |-> IF i = 0 THEN n ELSE step[<<f[i - 1], i>>]]
  <2> HIDE DEF step
  <2>1. \E f \in [0..LenSize -> Nat] : Iterates(f, LenSize, n, step)
    BY <1>1, IteratesExist
  <2> QED
    BY <2>1, Zenon DEF Iterates
<1>3. f = Recursion(f)
  <2>1. \A i \in 0..LenSize : i # 0 => i \in 1..LenSize /\ i - 1 \in 0..LenSize
    BY <1>1
  <2>2. \A i \in 1..LenSize : f[i - 1] \in Nat => step[<<f[i - 1], i>>] = f[i - 1] \div 256
    OBVIOUS
  <2> HIDE DEF step
  <2> QED
    BY <1>2, <2>1, <2>2
<1>4. left = Recursion(left)
  <2> HIDE DEF Recursion
  <2> QED
    BY <1>3
<1>5. LE(n) = [i \in 1..LenSize |-> left[i - 1] % 256]
  BY DEF LE
<1> HIDE DEF left
<1>6. \A i \in 0..LenSize : left[i] = IF i = 0 THEN n ELSE left[i - 1] \div 256
  BY <1>4
<1>7. left[0] = n /\ \A i \in 1..LenSize : left[i] = left[i - 1] \div 256
  BY <1>1, <1>6
<1>8. \A i \in 0..LenSize : left[i] \in Nat
  <2>1. \A i \in 1..LenSize : left[i - 1] \in Nat => left[i] \in Nat
    BY <1>7
  <2> QED
    BY <1>1, <1>7, <2>1, IteratesType
<1>9. left \in [0..LenSize -> Nat]
  BY <1>4, <1>8
<1> QED
  BY <1>5, <1>7, <1>9

LEMMA LowByte ==
  ASSUME NEW n \in Nat
  PROVE  n % 256 \in Byte
BY DEF Byte

LEMMA LeftByte ==
  ASSUME NEW n \in Nat, NEW m \in Nat, n < m * 256
  PROVE  n \div 256 < m
OBVIOUS

LEMMA LEType ==
  ASSUME NEW n \in Nat
  PROVE  LE(n) \in Seq(Byte) /\ Len(LE(n)) = LenSize
<1>1. PICK left \in [0..LenSize -> Nat] :
        /\ left[0] = n
        /\ \A i \in 1..LenSize : left[i] = left[i - 1] \div 256
        /\ LE(n) = [i \in 1..LenSize |-> left[i - 1] % 256]
  BY LELeft
<1>2. ASSUME NEW i \in 1..LenSize
      PROVE  left[i - 1] % 256 \in Byte
  <2>1. i - 1 \in 0..LenSize
    BY LenSizeAssumption
  <2>2. left[i - 1] \in Nat
    BY <2>1
  <2> QED
    BY <2>2, LowByte
<1>3. LE(n) \in [1..LenSize -> Byte]
  BY <1>1, <1>2
<1> QED
  BY <1>3, LenSizeAssumption

\* The number in some bytes, and that in the last of them.
LEMMA LEAtHigh ==
  ASSUME NEW bytes \in Seq(Byte), NEW at \in Nat, at + LenSize <= Len(bytes)
  PROVE  \E high \in [0..LenSize -> Nat] :
           /\ high[0] = 0
           /\ \A i \in 1..LenSize : high[i] = high[i - 1] * 256 + bytes[at + LenSize + 1 - i]
           /\ LEAt(bytes, at) = high[LenSize]
<1> DEFINE b(i) == bytes[at + LenSize + 1 - i]
           Recursion(f) == [i \in 0..LenSize |-> IF i = 0 THEN 0 ELSE f[i - 1] * 256 + b(i)]
           step == [p \in Nat \X (1..LenSize) |-> p[1] * 256 + b(p[2])]
           high == CHOOSE f : f = Recursion(f)
<1>1. LenSize \in Nat /\ \A i \in 1..LenSize : b(i) \in Nat
  <2>1. ASSUME NEW i \in 1..LenSize
        PROVE  b(i) \in Byte
    <3>1. at + LenSize + 1 - i \in 1..Len(bytes)
      BY LenSizeAssumption
    <3> QED
      BY <3>1
  <2>2. Byte \subseteq Nat
    BY DEF Byte
  <2> HIDE DEF b
  <2> QED
    BY <2>1, <2>2, LenSizeAssumption
<1>2. LEAt(bytes, at) = high[LenSize]
  BY DEF LEAt
<1> HIDE DEF b
<1>3. step \in [Nat \X (1..LenSize) -> Nat]
  BY <1>1
<1>4. PICK f \in [0..LenSize -> Nat] :
        f = [i \in 0..LenSize |-> IF i = 0 THEN 0 ELSE step[<<f[i - 1], i>>]]
  <2> HIDE DEF step
  <2>1. \E f \in [0..LenSize -> Nat] : Iterates(f, LenSize, 0, step)
    BY <1>1, <1>3, IteratesExist
  <2> QED
    BY <2>1, Zenon DEF Iterates
<1>5. f = Recursion(f)
  <2>1. \A i \in 0..LenSize : i # 0 => i \in 1..LenSize /\ i - 1 \in 0..LenSize
    BY <1>1
  <2>2. \A i \in 1..LenSize : f[i - 1] \in Nat => step[<<f[i - 1], i>>] = f[i - 1] * 256 + b(i)
    OBVIOUS
  <2> HIDE DEF step
  <2> QED
    BY <1>4, <2>1, <2>2
<1>6. high = Recursion(high)
  <2> HIDE DEF Recursion
  <2> QED
    BY <1>5
<1> HIDE DEF high
<1>7. \A i \in 0..LenSize : high[i] = IF i = 0 THEN 0 ELSE high[i - 1] * 256 + b(i)
  BY <1>6
<1>8. high[0] = 0 /\ \A i \in 1..LenSize : high[i] = high[i - 1] * 256 + b(i)
  BY <1>1, <1>7
<1>9. \A i \in 0..LenSize : high[i] \in Nat
  <2>1. \A i \in 1..LenSize : high[i - 1] \in Nat => high[i] \in Nat
    BY <1>1, <1>8
  <2>2. high[0] \in Nat
    BY <1>8
  <2> HIDE DEF Recursion, step
  <2> QED
    BY <1>1, <2>1, <2>2, IteratesType
<1>10. high \in [0..LenSize -> Nat]
  BY <1>6, <1>9
<1> QED
  BY <1>2, <1>8, <1>10 DEF high, b

LEMMA LEAtType ==
  ASSUME NEW bytes \in Seq(Byte), NEW at \in Nat, at + LenSize <= Len(bytes)
  PROVE  LEAt(bytes, at) \in Nat
<1>1. PICK high \in [0..LenSize -> Nat] :
        /\ high[0] = 0
        /\ \A i \in 1..LenSize : high[i] = high[i - 1] * 256 + bytes[at + LenSize + 1 - i]
        /\ LEAt(bytes, at) = high[LenSize]
  BY LEAtHigh
<1> QED
  BY <1>1, LenSizeAssumption

\* A length that fits is read back as it was written.
LEMMA LEReadBack ==
  ASSUME NEW bytes \in Seq(Byte), NEW at \in Nat, at + LenSize <= Len(bytes),
         NEW n \in Nat, Fits(n), \A i \in 1..LenSize : bytes[at + i] = LE(n)[i]
  PROVE  LEAt(bytes, at) = n
<1>1. PICK power \in [0..LenSize -> Nat \ {0}] :
        /\ power[0] = 1
        /\ \A i \in 1..LenSize : power[i] = power[i - 1] * 256
        /\ Limit = power[LenSize]
  BY LimitPower
<1>2. PICK left \in [0..LenSize -> Nat] :
        /\ left[0] = n
        /\ \A i \in 1..LenSize : left[i] = left[i - 1] \div 256
        /\ LE(n) = [i \in 1..LenSize |-> left[i - 1] % 256]
  BY LELeft
<1>3. PICK high \in [0..LenSize -> Nat] :
        /\ high[0] = 0
        /\ \A i \in 1..LenSize : high[i] = high[i - 1] * 256 + bytes[at + LenSize + 1 - i]
        /\ LEAt(bytes, at) = high[LenSize]
  BY LEAtHigh
<1>4. LenSize \in Nat
  BY LenSizeAssumption
<1>5. \A i \in 0..LenSize : left[i] < power[LenSize - i]
  <2> DEFINE Bad == {i \in 0..LenSize : ~(left[i] < power[LenSize - i])}
  <2> SUFFICES ASSUME Bad # {}
               PROVE  FALSE
    OBVIOUS
  <2>1. PICK m \in Bad : \A l \in Bad : m <= l
    <3>1. Bad \in SUBSET Nat
      OBVIOUS
    <3> HIDE DEF Bad
    <3> QED
      BY <3>1, Least
  <2>2. m # 0
    BY <1>1, <1>2, <1>4 DEF Fits
  <2>3. m \in 1..LenSize /\ m - 1 \in 0..LenSize /\ m - 1 \notin Bad
    BY <1>4, <2>1, <2>2
  <2>4. left[m - 1] < power[LenSize - (m - 1)]
    BY <2>3
  <2>5. /\ LenSize - (m - 1) \in 1..LenSize
        /\ (LenSize - (m - 1)) - 1 = LenSize - m
        /\ LenSize - m \in 0..LenSize
    BY <1>4, <2>3
  <2>6. power[LenSize - (m - 1)] = power[LenSize - m] * 256
    BY <1>1, <2>5
  <2>7. left[m] = left[m - 1] \div 256 /\ left[m - 1] \in Nat /\ power[LenSize - m] \in Nat
    BY <1>1, <1>2, <2>3, <2>5
  <2>8. left[m] < power[LenSize - m]
    <3> DEFINE before == left[m - 1]
               bound == power[LenSize - m]
    <3>1. before \in Nat /\ bound \in Nat /\ before < bound * 256
      BY <2>4, <2>6, <2>7
    <3>2. left[m] = before \div 256
      BY <2>7
    <3> HIDE DEF before, bound
    <3>3. before \div 256 < bound
      BY <3>1, LeftByte
    <3> QED
      BY <3>2, <3>3 DEF bound
  <2> QED
    BY <2>1, <2>8
<1>6. left[LenSize] = 0
  <2>1. left[LenSize] < power[0] /\ left[LenSize] \in Nat
    BY <1>4, <1>5
  <2> QED
    BY <1>1, <2>1
<1>7. \A i \in 0..LenSize : high[i] = left[LenSize - i]
  <2> DEFINE Bad == {i \in 0..LenSize : high[i] # left[LenSize - i]}
  <2> SUFFICES ASSUME Bad # {}
               PROVE  FALSE
    OBVIOUS
  <2>1. PICK m \in Bad : \A l \in Bad : m <= l
    <3>1. Bad \in SUBSET Nat
      OBVIOUS
    <3> HIDE DEF Bad
    <3> QED
      BY <3>1, Least
  <2>2. m # 0
    BY <1>3, <1>4, <1>6
  <2>3. m \in 1..LenSize /\ m - 1 \in 0..LenSize /\ m - 1 \notin Bad
    BY <1>4, <2>1, <2>2
  <2>4. high[m - 1] = left[LenSize - (m - 1)]
    BY <2>3
  <2> DEFINE j == LenSize + 1 - m
  <2>5. /\ j \in 1..LenSize /\ j - 1 \in 0..LenSize
        /\ LenSize - (m - 1) = j /\ LenSize - m = j - 1 /\ at + LenSize + 1 - m = at + j
    BY <1>4, <2>3
  <2> HIDE DEF j
  <2>6. bytes[at + j] = left[j - 1] % 256
    BY <1>2, <2>5
  <2>7. high[m] = left[j] * 256 + (left[j - 1] % 256)
    <3>1. high[m] = high[m - 1] * 256 + bytes[at + LenSize + 1 - m]
      BY <1>3, <2>3
    <3> QED
      BY <2>4, <2>5, <2>6, <3>1
  <2>8. left[j] = left[j - 1] \div 256 /\ left[j - 1] \in Nat
    BY <1>2, <2>5
  <2>9. high[m] = left[j - 1]
    BY <2>7, <2>8
  <2> QED
    BY <2>1, <2>5, <2>9
<1> QED
  BY <1>2, <1>3, <1>4, <1>7

LEMMA OneFits == Fits(1)
<1>1. PICK power \in [0..LenSize -> Nat \ {0}] :
        /\ power[0] = 1
        /\ \A i \in 1..LenSize : power[i] = power[i - 1] * 256
        /\ Limit = power[LenSize]
  BY LimitPower
<1>2. LenSize \in 1..LenSize /\ LenSize - 1 \in 0..LenSize
  BY LenSizeAssumption
<1>3. power[LenSize] = power[LenSize - 1] * 256 /\ power[LenSize - 1] \in Nat \ {0}
  BY <1>1, <1>2
<1> QED
  BY <1>1, <1>3 DEF Fits

LEMMA FitsLess ==
  ASSUME NEW n \in Nat, NEW m \in Nat, Fits(n), m <= n
  PROVE  Fits(m)
<1>1. Limit \in Nat
  BY LimitPower, LenSizeAssumption
<1> QED
  BY <1>1 DEF Fits

-----------------------------------------------------------------------------
(* Bytes at an index                                                       *)

\* Some bytes are among others, from an index on.
Holds(bytes, at, s) ==
  /\ at + Len(s) <= Len(bytes)
  /\ \A i \in 1..Len(s) : bytes[at + i] = s[i]

LEMMA ConcatType ==
  ASSUME NEW s \in Seq(Byte), NEW t \in Seq(Byte)
  PROVE  /\ s \o t \in Seq(Byte) /\ Len(s \o t) = Len(s) + Len(t)
         /\ \A i \in 1..Len(s) : (s \o t)[i] = s[i]
         /\ \A i \in 1..Len(t) : (s \o t)[Len(s) + i] = t[i]
OBVIOUS

LEMMA HoldsParts ==
  ASSUME NEW bytes \in Seq(Byte), NEW at \in Nat, NEW s \in Seq(Byte), NEW t \in Seq(Byte)
  PROVE  Holds(bytes, at, s \o t) <=> Holds(bytes, at, s) /\ Holds(bytes, at + Len(s), t)
<1> DEFINE m == Len(s)
           n == Len(t)
           st == s \o t
<1>1. /\ m \in Nat /\ n \in Nat /\ Len(bytes) \in Nat
      /\ Len(st) = m + n
      /\ \A i \in 1..m : st[i] = s[i]
      /\ \A i \in 1..n : st[m + i] = t[i]
  BY ConcatType
<1>2. Holds(bytes, at, st) <=> at + (m + n) <= Len(bytes) /\ \A i \in 1..(m + n) : bytes[at + i] = st[i]
  BY <1>1 DEF Holds
<1>3. Holds(bytes, at, s) <=> at + m <= Len(bytes) /\ \A i \in 1..m : bytes[at + i] = s[i]
  BY DEF Holds
<1>4. Holds(bytes, at + m, t)
        <=> (at + m) + n <= Len(bytes) /\ \A i \in 1..n : bytes[(at + m) + i] = t[i]
  BY DEF Holds
<1> HIDE DEF m, n, st
<1>5. ASSUME \A i \in 1..(m + n) : bytes[at + i] = st[i]
      PROVE  (\A i \in 1..m : bytes[at + i] = s[i]) /\ (\A i \in 1..n : bytes[(at + m) + i] = t[i])
  <2>1. \A i \in 1..m : i \in 1..(m + n)
    BY <1>1
  <2>2. \A i \in 1..n : m + i \in 1..(m + n) /\ at + (m + i) = (at + m) + i
    BY <1>1
  <2>3. \A i \in 1..m : bytes[at + i] = s[i]
    BY <1>1, <1>5, <2>1
  <2>4. \A i \in 1..n : bytes[at + (m + i)] = t[i]
    BY <1>1, <1>5, <2>2
  <2> QED
    BY <2>2, <2>3, <2>4
<1>6. ASSUME \A i \in 1..m : bytes[at + i] = s[i], \A i \in 1..n : bytes[(at + m) + i] = t[i],
             NEW i \in 1..(m + n)
      PROVE  bytes[at + i] = st[i]
  <2>1. CASE i \in 1..m
    BY <1>1, <1>6, <2>1
  <2>2. CASE i \notin 1..m
    <3> DEFINE j == i - m
    <3>1. j \in 1..n /\ m + j = i /\ (at + m) + j = at + i
      BY <1>1, <2>2
    <3> HIDE DEF j
    <3>2. bytes[(at + m) + j] = t[j] /\ st[m + j] = t[j]
      BY <1>1, <1>6, <3>1
    <3> QED
      BY <3>1, <3>2
  <2> QED
    BY <2>1, <2>2
<1>7. at + (m + n) <= Len(bytes) <=> at + m <= Len(bytes) /\ (at + m) + n <= Len(bytes)
  BY <1>1
<1>8. Holds(bytes, at, st) <=> Holds(bytes, at, s) /\ Holds(bytes, at + m, t)
  BY <1>2, <1>3, <1>4, <1>5, <1>6, <1>7
<1> QED
  BY <1>8 DEF st, m

\* What bytes hold at an index is the slice there.
LEMMA HoldsSlice ==
  ASSUME NEW bytes \in Seq(Byte), NEW at \in Nat, NEW s \in Seq(Byte), Holds(bytes, at, s)
  PROVE  Slice(bytes, at, Len(s)) = s
<1> DEFINE m == Len(s)
           sl == SubSeq(bytes, at + 1, at + m)
<1>1. m \in Nat /\ at + m <= Len(bytes) /\ \A i \in 1..m : bytes[at + i] = s[i]
  BY DEF Holds
<1>2. sl = [i \in 1..((at + m) - (at + 1) + 1) |-> bytes[(at + 1) + i - 1]]
  BY <1>1
<1>3. (at + m) - (at + 1) + 1 = m
  BY <1>1
<1>4. \A i \in 1..m : (at + 1) + i - 1 = at + i
  BY <1>1
<1>5. s = [i \in 1..m |-> s[i]]
  OBVIOUS
<1> HIDE DEF m, sl
<1>6. sl = [i \in 1..m |-> s[i]]
  BY <1>1, <1>2, <1>3, <1>4
<1> QED
  BY <1>5, <1>6 DEF Slice, sl, m

LEMMA SliceType ==
  ASSUME NEW bytes \in Seq(Byte), NEW at \in Nat, NEW n \in Nat, at + n <= Len(bytes)
  PROVE  Slice(bytes, at, n) \in Seq(Byte)
<1>1. at + 1 \in Nat /\ at + n \in Nat /\ \A i \in (at + 1)..(at + n) : i \in 1..Len(bytes)
  OBVIOUS
<1>2. \A i \in (at + 1)..(at + n) : bytes[i] \in Byte
  BY <1>1
<1> QED
  BY <1>1, <1>2 DEF Slice

LEMMA HoldsLength ==
  ASSUME NEW bytes \in Seq(Byte), NEW at \in Nat, NEW n \in Nat, Fits(n),
         Holds(bytes, at, LE(n))
  PROVE  LEAt(bytes, at) = n /\ at + LenSize <= Len(bytes)
<1>1. at + LenSize <= Len(bytes) /\ \A i \in 1..LenSize : bytes[at + i] = LE(n)[i]
  BY LEType DEF Holds
<1> QED
  BY <1>1, LEReadBack

LEMMA PrefixedType ==
  ASSUME NEW s \in Seq(Byte)
  PROVE  Prefixed(s) \in Seq(Byte) /\ Len(Prefixed(s)) = LenSize + Len(s)
BY LEType, ConcatType DEF Prefixed

\* A length and as many bytes are read back.
LEMMA HoldsPrefixed ==
  ASSUME NEW bytes \in Seq(Byte), NEW at \in Nat, NEW s \in Seq(Byte), Fits(Len(s)),
         Holds(bytes, at, Prefixed(s))
  PROVE  /\ LEAt(bytes, at) = Len(s)
         /\ at + LenSize + Len(s) <= Len(bytes)
         /\ Slice(bytes, at + LenSize, Len(s)) = s
<1>1. LE(Len(s)) \in Seq(Byte) /\ Len(LE(Len(s))) = LenSize /\ Len(s) \in Nat
  BY LEType
<1>2. Holds(bytes, at, LE(Len(s))) /\ Holds(bytes, at + LenSize, s)
  BY <1>1, HoldsParts DEF Prefixed
<1>3. at + LenSize \in Nat
  BY LenSizeAssumption
<1>4. (at + LenSize) + Len(s) <= Len(bytes)
  BY <1>2 DEF Holds
<1> QED
  BY <1>1, <1>2, <1>3, <1>4, HoldsLength, HoldsSlice

LEMMA HoldsAll ==
  ASSUME NEW s \in Seq(Byte)
  PROVE  Holds(s, 0, s)
BY DEF Holds

LEMMA HoldsLast ==
  ASSUME NEW s \in Seq(Byte), NEW t \in Seq(Byte)
  PROVE  Holds(s \o t, Len(s), t) /\ Holds(s \o t, 0, s)
BY ConcatType DEF Holds

-----------------------------------------------------------------------------
(* The order of names                                                      *)

LEMMA ByteType ==
  ASSUME NEW s \in Seq(Byte)
  PROVE  Len(s) \in Nat /\ \A i \in 1..Len(s) : s[i] \in Nat
<1>1. Byte \subseteq Nat
  BY DEF Byte
<1>2. \A i \in 1..Len(s) : s[i] \in Byte
  OBVIOUS
<1>3. \A i \in 1..Len(s) : s[i] \in Nat
  BY <1>1, <1>2
<1> QED
  BY <1>3

LEMMA BeforeIrreflexive ==
  ASSUME NEW s \in Seq(Byte)
  PROVE  ~Before(s, s)
BY ByteType DEF Before

LEMMA BeforeTransitive ==
  ASSUME NEW s \in Seq(Byte), NEW t \in Seq(Byte), NEW u \in Seq(Byte),
         Before(s, t), Before(t, u)
  PROVE  Before(s, u)
<1>1. PICK i \in 1..Len(t) :
        i <= Len(s) + 1 /\ (\A k \in 1..(i - 1) : s[k] = t[k]) /\ (i <= Len(s) => s[i] < t[i])
  BY DEF Before
<1>2. PICK j \in 1..Len(u) :
        j <= Len(t) + 1 /\ (\A k \in 1..(j - 1) : t[k] = u[k]) /\ (j <= Len(t) => t[j] < u[j])
  BY DEF Before
<1>3. /\ Len(s) \in Nat /\ Len(t) \in Nat /\ Len(u) \in Nat
      /\ \A k \in 1..Len(s) : s[k] \in Nat
      /\ \A k \in 1..Len(t) : t[k] \in Nat
      /\ \A k \in 1..Len(u) : u[k] \in Nat
  BY ByteType
<1>4. CASE i < j
  <2>1. i \in 1..Len(u) /\ i \in 1..(j - 1) /\ \A k \in 1..(i - 1) : k \in 1..(j - 1)
    BY <1>3, <1>4
  <2>2. t[i] = u[i] /\ \A k \in 1..(i - 1) : s[k] = u[k]
    BY <1>1, <1>2, <2>1
  <2> QED
    BY <1>1, <2>1, <2>2 DEF Before
<1>5. CASE i = j
  <2>1. \A k \in 1..(i - 1) : s[k] = u[k]
    BY <1>1, <1>2, <1>5
  <2>2. i <= Len(s) => s[i] < u[i]
    <3>1. i <= Len(s) => i \in 1..Len(s)
      BY <1>3
    <3>2. i \in 1..Len(t) /\ i \in 1..Len(u) /\ t[i] < u[i]
      BY <1>2, <1>3, <1>5
    <3> QED
      BY <1>1, <1>3, <3>1, <3>2
  <2> QED
    BY <1>1, <1>5, <2>1, <2>2 DEF Before
<1>6. CASE j < i
  <2>1. /\ j \in 1..(i - 1) /\ j \in 1..Len(s) /\ j \in 1..Len(t) /\ j <= Len(s) + 1
        /\ \A k \in 1..(j - 1) : k \in 1..(i - 1)
    BY <1>1, <1>3, <1>6
  <2>2. s[j] = t[j] /\ t[j] < u[j] /\ \A k \in 1..(j - 1) : s[k] = u[k]
    BY <1>1, <1>2, <1>3, <2>1
  <2> QED
    BY <2>1, <2>2 DEF Before
<1> QED
  BY <1>3, <1>4, <1>5, <1>6

LEMMA BeforeTotal ==
  ASSUME NEW s \in Seq(Byte), NEW t \in Seq(Byte), s # t
  PROVE  Before(s, t) \/ Before(t, s)
<1> DEFINE T == {i \in Nat \ {0} : i > Len(s) \/ i > Len(t) \/ s[i] # t[i]}
<1>1. /\ Len(s) \in Nat /\ Len(t) \in Nat
      /\ \A k \in 1..Len(s) : s[k] \in Nat
      /\ \A k \in 1..Len(t) : t[k] \in Nat
  BY ByteType
<1>2. PICK m \in T : \A l \in T : m <= l
  <2>1. Len(s) + 1 \in T
    BY <1>1
  <2>2. T \in SUBSET Nat
    OBVIOUS
  <2> HIDE DEF T
  <2> QED
    BY <2>1, <2>2, Least
<1>3. ASSUME NEW k \in 1..(m - 1)
      PROVE  k \in 1..Len(s) /\ k \in 1..Len(t) /\ s[k] = t[k]
  <2>1. m \in Nat /\ k \in Nat \ {0} /\ ~(m <= k)
    OBVIOUS
  <2>2. k \notin T
    BY <1>2, <2>1
  <2> QED
    BY <1>1, <2>1, <2>2
<1>4. m \in Nat \ {0} /\ m <= Len(s) + 1 /\ m <= Len(t) + 1
  <2>1. m \in Nat \ {0}
    OBVIOUS
  <2>2. Len(s) + 1 \in T /\ Len(t) + 1 \in T
    BY <1>1
  <2> QED
    BY <1>2, <2>1, <2>2
<1>5. m > Len(s) \/ m > Len(t) \/ s[m] # t[m]
  OBVIOUS
<1> HIDE DEF T
<1>6. CASE m > Len(s) /\ m > Len(t)
  <2>1. Len(s) = m - 1 /\ Len(t) = m - 1
    BY <1>1, <1>4, <1>6
  <2>2. s = t
    BY <1>3, <2>1
  <2> QED
    BY <2>2
<1>7. CASE m > Len(s) /\ m <= Len(t)
  BY <1>1, <1>3, <1>4, <1>7 DEF Before
<1>8. CASE m <= Len(s) /\ m > Len(t)
  BY <1>1, <1>3, <1>4, <1>8 DEF Before
<1>9. CASE m <= Len(s) /\ m <= Len(t)
  <2>1. m \in 1..Len(s) /\ m \in 1..Len(t) /\ (s[m] < t[m] \/ t[m] < s[m])
    BY <1>1, <1>4, <1>5, <1>9
  <2> QED
    BY <1>1, <1>3, <1>4, <2>1 DEF Before
<1> QED
  BY <1>1, <1>4, <1>6, <1>7, <1>8, <1>9

LEMMA LastName ==
  ASSUME NEW S, IsFiniteSet(S), S \subseteq Seq(Byte), S # {}
  PROVE  \E z \in S : \A x \in S \ {z} : Before(x, z)
<1> DEFINE Ends(T) == \E z \in T : \A x \in T \ {z} : Before(x, z)
           Bad == {Cardinality(T) : T \in {U \in SUBSET S : U # {} /\ ~Ends(U)}}
<1>1. ASSUME NEW T \in SUBSET S
      PROVE  /\ IsFiniteSet(T) /\ Cardinality(T) \in Nat
             /\ \A x \in T : Cardinality(T \ {x}) = Cardinality(T) - 1
  BY FS_Subset, FS_CardinalityType, FS_RemoveElement
<1> SUFFICES ASSUME ~Ends(S)
             PROVE  FALSE
  OBVIOUS
<1>2. PICK m \in Bad : \A l \in Bad : m <= l
  <2>1. Bad \in SUBSET Nat
    BY <1>1
  <2>2. Cardinality(S) \in Bad
    OBVIOUS
  <2> HIDE DEF Bad
  <2> QED
    BY <2>1, <2>2, Least
<1>3. PICK T \in SUBSET S : m = Cardinality(T) /\ T # {} /\ ~Ends(T)
  OBVIOUS
<1>4. PICK x \in T : TRUE
  BY <1>3
<1> DEFINE R == T \ {x}
<1>5. R \in SUBSET S /\ Cardinality(R) \in Nat /\ ~(m <= Cardinality(R))
  <2>1. m \in Nat /\ Cardinality(R) = m - 1 /\ R \in SUBSET S
    <3> HIDE DEF Bad
    <3> QED
      BY <1>1, <1>3
  <2>2. Cardinality(R) \in Nat
    BY <1>1, <2>1
  <2> HIDE DEF Bad, R
  <2> QED
    BY <2>1, <2>2
<1>6. R # {}
  BY <1>3, <1>4
<1>7. PICK z \in R : \A y \in R \ {z} : Before(y, z)
  <2>1. Cardinality(R) \notin Bad
    BY <1>2, <1>5
  <2>2. Ends(R)
    BY <1>5, <1>6, <2>1
  <2> QED
    BY <2>2
<1> HIDE DEF Bad
<1>8. CASE Before(x, z)
  <2>1. \A y \in T \ {z} : Before(y, z)
    BY <1>7, <1>8
  <2> QED
    BY <1>3, <2>1
<1>9. CASE ~Before(x, z)
  <2>1. x \in Seq(Byte) /\ z \in Seq(Byte) /\ x # z
    OBVIOUS
  <2>2. Before(z, x)
    BY <1>9, <2>1, BeforeTotal
  <2>3. ASSUME NEW y \in R \ {z}
        PROVE  Before(y, x)
    <3>1. Before(y, z) /\ y \in Seq(Byte)
      BY <1>7
    <3> QED
      BY <2>1, <2>2, <3>1, BeforeTransitive
  <2>4. \A y \in T \ {x} : Before(y, x)
    BY <2>2, <2>3
  <2> QED
    BY <1>3, <2>4
<1> QED
  BY <1>8, <1>9

LEMMA NamesExist ==
  ASSUME NEW S, IsFiniteSet(S), S \subseteq Seq(Byte)
  PROVE  \E order \in [1..Cardinality(S) -> S] : InOrder(S, order)
<1> DEFINE Ordered(T) == \E order \in [1..Cardinality(T) -> T] : InOrder(T, order)
           Bad == {Cardinality(T) : T \in {U \in SUBSET S : ~Ordered(U)}}
<1>1. ASSUME NEW T \in SUBSET S
      PROVE  /\ IsFiniteSet(T) /\ Cardinality(T) \in Nat
             /\ \A x \in T : Cardinality(T \ {x}) = Cardinality(T) - 1
  BY FS_Subset, FS_CardinalityType, FS_RemoveElement
<1> SUFFICES ASSUME ~Ordered(S)
             PROVE  FALSE
  OBVIOUS
<1>2. PICK m \in Bad : \A l \in Bad : m <= l
  <2>1. Bad \in SUBSET Nat
    BY <1>1
  <2>2. Cardinality(S) \in Bad
    OBVIOUS
  <2> HIDE DEF Bad
  <2> QED
    BY <2>1, <2>2, Least
<1>3. PICK T \in SUBSET S : m = Cardinality(T) /\ ~Ordered(T)
  OBVIOUS
<1>4. T # {}
  <2> SUFFICES ASSUME T = {}
               PROVE  FALSE
    OBVIOUS
  <2>1. Cardinality(T) = 0
    BY FS_EmptySet
  <2> DEFINE none == [i \in 1..0 |-> i]
  <2>2. none \in [1..Cardinality(T) -> T]
    BY <2>1
  <2>3. InOrder(T, none)
    BY DEF InOrder
  <2> QED
    BY <1>3, <2>2, <2>3
<1>5. PICK z \in T : \A x \in T \ {z} : Before(x, z)
  <2>1. T \subseteq Seq(Byte)
    OBVIOUS
  <2> QED
    BY <1>1, <1>4, <2>1, LastName
<1> DEFINE R == T \ {z}
<1>6. R \in SUBSET S /\ Cardinality(R) = m - 1 /\ m \in Nat
  BY <1>1, <1>3
<1>7. PICK o \in [1..(m - 1) -> R] : InOrder(R, o)
  <2>1. Cardinality(R) \notin Bad
    BY <1>2, <1>6
  <2>2. Ordered(R)
    BY <1>6, <2>1
  <2> QED
    BY <1>6, <2>2
<1>8. m # 0 /\ m \in 1..m
  BY <1>1, <1>3, <1>4, <1>6, FS_EmptySet
<1> HIDE DEF Bad
<1> DEFINE order == [i \in 1..m |-> IF i = m THEN z ELSE o[i]]
<1>9. /\ \A i \in 1..m : i # m => i \in 1..(m - 1)
      /\ \A i \in 1..(m - 1) : i \in 1..m /\ i # m
  BY <1>6, <1>8
<1>10. order \in [1..m -> T]
  BY <1>9
<1>11. {order[i] : i \in DOMAIN order} = T
  <2>1. {o[i] : i \in 1..(m - 1)} = R
    BY <1>7 DEF InOrder
  <2>2. ASSUME NEW x \in T
        PROVE  \E i \in 1..m : order[i] = x
    <3>1. CASE x = z
      BY <1>8, <3>1
    <3>2. CASE x # z
      <4>1. PICK i \in 1..(m - 1) : o[i] = x
        BY <2>1, <3>2
      <4> QED
        BY <1>9, <4>1
    <3> QED
      BY <3>1, <3>2
  <2> QED
    BY <1>10, <2>2
<1>12. ASSUME NEW i \in 1..m, NEW j \in 1..m, i < j
       PROVE  Before(order[i], order[j])
  <2> HIDE DEF order, R
  <2>0. m \in Nat /\ i \in Nat /\ j \in Nat /\ 1 <= i /\ i < j /\ j <= m
    BY <1>6, <1>12
  <2> USE DEF order, R
  <2>1. i \in 1..(m - 1)
    <3> HIDE DEF order, R
    <3> QED
      BY <2>0
  <2>2. CASE j = m
    <3>1. order[j] = z /\ order[i] = o[i] /\ o[i] \in R
      BY <1>9, <2>1, <2>2
    <3> QED
      BY <1>5, <3>1
  <2>3. CASE j # m
    <3>1. j \in 1..(m - 1) /\ order[i] = o[i] /\ order[j] = o[j]
      BY <1>9, <2>1, <2>3
    <3>2. DOMAIN o = 1..(m - 1) /\ Before(o[i], o[j])
      <4> HIDE DEF order
      <4>1. DOMAIN o = 1..(m - 1)
        BY <1>7
      <4>2. \A k, l \in DOMAIN o : k < l => Before(o[k], o[l])
        BY <1>7 DEF InOrder
      <4> QED
        BY <2>0, <2>1, <3>1, <4>1, <4>2
    <3> QED
      BY <3>1, <3>2
  <2> QED
    BY <2>2, <2>3
<1>13. InOrder(T, order)
  BY <1>10, <1>11, <1>12 DEF InOrder
<1> HIDE DEF order
<1> QED
  BY <1>3, <1>10, <1>13

LEMMA NamesType ==
  ASSUME NEW meta, IsMeta(meta)
  PROVE  /\ Names(meta) \in [1..Cardinality(DOMAIN meta) -> DOMAIN meta]
         /\ InOrder(DOMAIN meta, Names(meta))
         /\ Cardinality(DOMAIN meta) \in Nat
<1>1. \E order \in [1..Cardinality(DOMAIN meta) -> DOMAIN meta] : InOrder(DOMAIN meta, order)
  BY NamesExist DEF IsMeta
<1>2. Cardinality(DOMAIN meta) \in Nat
  BY FS_CardinalityType DEF IsMeta
<1> QED
  BY <1>1, <1>2 DEF Names

-----------------------------------------------------------------------------
(* What is written is bytes                                                *)

LEMMA InfoType ==
  ASSUME NEW meta, IsMeta(meta), NEW name \in DOMAIN meta
  PROVE  /\ name \in Seq(Byte) /\ meta[name] \in [raw : Seq(Byte), type : 0..9]
         /\ SerializeInfo(name, meta[name]) \in Seq(Byte)
         /\ Len(SerializeInfo(name, meta[name])) =
              LenSize + Len(name) + LenSize + Len(meta[name].raw) + 1
<1> DEFINE info == meta[name]
<1>1. name \in Seq(Byte) /\ info \in [raw : Seq(Byte), type : 0..9]
  BY DEF IsMeta
<1>2. info.raw \in Seq(Byte) /\ info.type \in Byte
  BY <1>1 DEF Byte
<1>3. /\ Prefixed(name) \in Seq(Byte) /\ Len(Prefixed(name)) = LenSize + Len(name)
      /\ Prefixed(info.raw) \in Seq(Byte) /\ Len(Prefixed(info.raw)) = LenSize + Len(info.raw)
  BY <1>1, <1>2, PrefixedType
<1>4. <<info.type>> \in Seq(Byte) /\ Len(<<info.type>>) = 1
  BY <1>2
<1> DEFINE np == Prefixed(name)
           rp == Prefixed(info.raw)
           tp == <<info.type>>
           n == Len(name)
           r == Len(info.raw)
<1>5. n \in Nat /\ r \in Nat /\ LenSize \in Nat
  BY <1>1, <1>2, LenSizeAssumption
<1>6. SerializeInfo(name, info) = np \o rp \o tp
  BY DEF SerializeInfo
<1>7. /\ np \in Seq(Byte) /\ Len(np) = LenSize + n
      /\ rp \in Seq(Byte) /\ Len(rp) = LenSize + r
      /\ tp \in Seq(Byte) /\ Len(tp) = 1
  BY <1>3, <1>4
<1> HIDE DEF info, np, rp, tp, n, r
<1>8. np \o rp \in Seq(Byte) /\ Len(np \o rp) = LenSize + n + LenSize + r
  <2>1. np \o rp \in Seq(Byte) /\ Len(np \o rp) = Len(np) + Len(rp)
    BY <1>7, ConcatType
  <2> QED
    BY <1>5, <1>7, <2>1
<1>9. np \o rp \o tp \in Seq(Byte) /\ Len(np \o rp \o tp) = LenSize + n + LenSize + r + 1
  <2>1. /\ np \o rp \o tp \in Seq(Byte)
        /\ Len(np \o rp \o tp) = Len(np \o rp) + Len(tp)
    BY <1>7, <1>8, ConcatType
  <2> QED
    BY <1>7, <1>8, <2>1
<1>10. info \in [raw : Seq(Byte), type : 0..9]
  BY <1>1
<1> QED
  BY <1>1, <1>6, <1>9 DEF info, n, r

\* The bytes of the last some names.
LEMMA MetaLast ==
  ASSUME NEW meta, IsMeta(meta),
         NEW N, N = Cardinality(DOMAIN meta)
  PROVE  \E last \in [0..N -> Seq(Byte)] :
           /\ last[0] = <<>>
           /\ \A i \in 1..N :
                last[i] = SerializeInfo(Names(meta)[N + 1 - i], meta[Names(meta)[N + 1 - i]])
                          \o last[i - 1]
           /\ SerializeMeta(meta) = last[N]
<1> DEFINE V == Seq(Byte)
           names == Names(meta)
           b(i) == SerializeInfo(names[N + 1 - i], meta[names[N + 1 - i]])
           Recursion(f) == [i \in 0..N |-> IF i = 0 THEN <<>> ELSE b(i) \o f[i - 1]]
           step == [p \in V \X (1..N) |-> b(p[2]) \o p[1]]
           last == CHOOSE f : f = Recursion(f)
<1>1. N \in Nat /\ names \in [1..N -> DOMAIN meta] /\ Len(names) = N
  <2>1. N \in Nat /\ names \in [1..N -> DOMAIN meta]
    BY NamesType
  <2> HIDE DEF names
  <2> QED
    BY <2>1
<1>2. ASSUME NEW i \in 1..N
      PROVE  b(i) \in V
  <2>1. N + 1 - i \in 1..N
    BY <1>1
  <2>2. names[N + 1 - i] \in DOMAIN meta
    BY <1>1, <2>1
  <2> QED
    BY <2>2, InfoType
<1>3. SerializeMeta(meta) = last[N]
  BY <1>1 DEF SerializeMeta
<1> HIDE DEF names
<1>4. step \in [V \X (1..N) -> V]
  <2>1. ASSUME NEW v \in V, NEW i \in 1..N
        PROVE  b(i) \o v \in V
    <3>1. b(i) \in V
      BY <1>2
    <3> HIDE DEF b
    <3> QED
      BY <3>1, ConcatType
  <2> HIDE DEF b, V
  <2> QED
    BY <2>1
<1>5. PICK f \in [0..N -> V] :
        f = [i \in 0..N |-> IF i = 0 THEN <<>> ELSE step[<<f[i - 1], i>>]]
  <2>1. <<>> \in V
    OBVIOUS
  <2> HIDE DEF V, step
  <2>2. \E f \in [0..N -> V] : Iterates(f, N, <<>>, step)
    BY <1>1, <1>4, <2>1, IteratesExist
  <2> QED
    BY <2>2, Zenon DEF Iterates
<1>6. ASSUME NEW i \in 1..N
      PROVE  f[i] = b(i) \o f[i - 1]
  <2>1. i \in 0..N /\ i # 0 /\ i - 1 \in 0..N
    BY <1>1
  <2>2. f[i - 1] \in V /\ f[i] = step[<<f[i - 1], i>>]
    <3> HIDE DEF step, V
    <3> QED
      BY <1>5, <2>1
  <2> HIDE DEF V, b
  <2> QED
    BY <2>2
<1>7. f = Recursion(f)
  <2>1. f[0] = <<>> /\ DOMAIN f = 0..N
    <3> HIDE DEF step, V
    <3> QED
      BY <1>1, <1>5
  <2>2. \A i \in 0..N : f[i] = IF i = 0 THEN <<>> ELSE b(i) \o f[i - 1]
    <3> HIDE DEF step, b, V
    <3>1. \A i \in 0..N : i # 0 => i \in 1..N
      BY <1>1
    <3> QED
      BY <1>6, <2>1, <3>1
  <2> HIDE DEF step, b
  <2> QED
    BY <1>5, <2>1, <2>2
<1>8. last = Recursion(last)
  <2> HIDE DEF Recursion
  <2> QED
    BY <1>7
<1> HIDE DEF last
<1>9. last[0] = <<>> /\ \A i \in 1..N : last[i] = b(i) \o last[i - 1]
  <2> HIDE DEF b
  <2>1. /\ 0 \in 0..N
        /\ \A i \in 1..N : i \in 0..N /\ i # 0
    BY <1>1
  <2>2. \A i \in 0..N : last[i] = IF i = 0 THEN <<>> ELSE b(i) \o last[i - 1]
    BY <1>8
  <2> QED
    BY <2>1, <2>2
<1>10. \A i \in 0..N : last[i] \in V
  <2>1. ASSUME NEW i \in 1..N, last[i - 1] \in V
        PROVE  last[i] \in V
    <3>1. b(i) \in V /\ last[i] = b(i) \o last[i - 1]
      BY <1>2, <1>9
    <3> HIDE DEF b
    <3> QED
      BY <2>1, <3>1, ConcatType
  <2>2. last[0] \in V
    BY <1>9
  <2> HIDE DEF V
  <2> QED
    BY <1>1, <2>1, <2>2, IteratesType
<1>11. last \in [0..N -> V]
  <2>1. DOMAIN last = 0..N
    BY <1>8
  <2>2. last = [i \in 0..N |-> last[i]]
    BY <1>8
  <2> HIDE DEF V
  <2> QED
    BY <1>10, <2>2
<1> QED
  BY <1>3, <1>9, <1>11 DEF names

LEMMA ConcatNothing ==
  ASSUME NEW s \in Seq(Byte)
  PROVE  s \o <<>> = s /\ <<>> \o s = s
<1>1. /\ <<>> \in Seq(Byte) /\ Len(<<>>) = 0 /\ Len(s) \in Nat
  OBVIOUS
<1>2. Len(s \o <<>>) = Len(s) /\ \A i \in 1..Len(s) : (s \o <<>>)[i] = s[i]
  BY <1>1, ConcatType
<1>3. Len(<<>> \o s) = Len(s) /\ \A i \in 1..Len(s) : (<<>> \o s)[i] = s[i]
  BY <1>1, ConcatType
<1>4. s \o <<>> \in Seq(Byte) /\ <<>> \o s \in Seq(Byte)
  BY <1>1, ConcatType
<1> QED
  BY <1>2, <1>3, <1>4

LEMMA SerializeMetaType ==
  ASSUME NEW meta, IsMeta(meta)
  PROVE  SerializeMeta(meta) \in Seq(Byte)
<1>1. Cardinality(DOMAIN meta) \in Nat
  BY NamesType
<1> DEFINE N == Cardinality(DOMAIN meta)
<1>2. PICK last \in [0..N -> Seq(Byte)] : SerializeMeta(meta) = last[N]
  BY MetaLast
<1> HIDE DEF N
<1> QED
  BY <1>1, <1>2 DEF N

\* An entry's bytes are its length, its value, a flag and the metadata.
LEMMA SerializeType ==
  ASSUME NEW e, IsEntry(e)
  PROVE  /\ Serialize(e) \in Seq(Byte) /\ e.value \in Seq(Byte)
         /\ Len(Serialize(e)) \in Nat
         /\ Len(Serialize(e)) > LenSize + Len(e.value)
         /\ \E rest \in Seq(Byte) :
              /\ rest = IF e.meta = NoMeta THEN <<>> ELSE SerializeMeta(e.meta)
              /\ Serialize(e) = Prefixed(e.value) \o
                   (<<IF e.meta = NoMeta THEN MetaMissing ELSE MetaExists>> \o rest)
<1> DEFINE rest == IF e.meta = NoMeta THEN <<>> ELSE SerializeMeta(e.meta)
           flag == <<IF e.meta = NoMeta THEN MetaMissing ELSE MetaExists>>
           value == Prefixed(e.value)
<1>1. e.value \in Seq(Byte)
  BY DEF IsEntry
<1>2. rest \in Seq(Byte) /\ flag \in Seq(Byte) /\ Len(flag) = 1
  <2>1. rest \in Seq(Byte)
    BY SerializeMetaType DEF IsEntry
  <2>2. flag \in Seq(Byte) /\ Len(flag) = 1
    BY DEF MetaMissing, MetaExists, Byte
  <2> QED
    BY <2>1, <2>2
<1>3. value \in Seq(Byte) /\ Len(value) = LenSize + Len(e.value)
  BY <1>1, PrefixedType
<1>4. Serialize(e) = value \o (flag \o rest)
  <2>1. CASE e.meta = NoMeta
    <3>1. Serialize(e) = value \o flag /\ rest = <<>>
      BY <2>1 DEF Serialize
    <3>2. flag \o rest = flag
      <4> HIDE DEF flag
      <4> QED
        BY <1>2, <3>1, ConcatNothing
    <3> QED
      BY <3>1, <3>2
  <2>2. CASE e.meta # NoMeta
    BY <2>2 DEF Serialize
  <2> QED
    BY <2>1, <2>2
<1>5. Len(e.value) \in Nat /\ LenSize \in Nat /\ Len(rest) \in Nat
  BY <1>1, <1>2, LenSizeAssumption
<1> HIDE DEF rest, flag, value
<1>6. flag \o rest \in Seq(Byte) /\ Len(flag \o rest) = 1 + Len(rest)
  <2>1. flag \o rest \in Seq(Byte) /\ Len(flag \o rest) = Len(flag) + Len(rest)
    BY <1>2, ConcatType
  <2> QED
    BY <1>2, <2>1
<1>7. /\ value \o (flag \o rest) \in Seq(Byte)
      /\ Len(value \o (flag \o rest)) = Len(value) + Len(flag \o rest)
  BY <1>3, <1>6, ConcatType
<1>8. Len(Serialize(e)) \in Nat /\ Len(Serialize(e)) > LenSize + Len(e.value)
  <2>1. Len(Serialize(e)) = (LenSize + Len(e.value)) + (1 + Len(rest))
    BY <1>3, <1>4, <1>6, <1>7
  <2> DEFINE a == Len(e.value)
             b == Len(rest)
  <2>2. a \in Nat /\ b \in Nat /\ Len(Serialize(e)) = (LenSize + a) + (1 + b)
    BY <1>5, <2>1
  <2> HIDE DEF a, b
  <2>3. Len(Serialize(e)) \in Nat /\ Len(Serialize(e)) > LenSize + a
    BY <1>5, <2>2
  <2> QED
    BY <2>3 DEF a
<1>9. Serialize(e) \in Seq(Byte)
  BY <1>4, <1>7
<1> QED
  BY <1>1, <1>2, <1>4, <1>8, <1>9 DEF rest, flag, value

\* What a log record holds of an entry.
Payload(op) == IF op.entry = Tombstone THEN <<TombstoneByte>> ELSE Serialize(op.entry)

LEMMA EncodeType ==
  ASSUME NEW op \in Ops
  PROVE  /\ op.key \in Seq(Byte) /\ op.key # <<>>
         /\ Payload(op) \in Seq(Byte) /\ Payload(op) # <<>>
         /\ Encode(op) = Prefixed(op.key) \o Prefixed(Payload(op))
         /\ Encode(op) \in Seq(Byte)
         /\ Len(Encode(op)) = (LenSize + Len(op.key)) + (LenSize + Len(Payload(op)))
<1>1. op.key \in Seq(Byte) /\ op.key # <<>>
  BY LogKeysAssumption DEF Ops
<1>2. Payload(op) \in Seq(Byte) /\ Payload(op) # <<>>
  <2>1. CASE op.entry = Tombstone
    BY <2>1 DEF Payload, TombstoneByte, Byte
  <2>2. CASE op.entry # Tombstone
    <3>1. IsEntry(op.entry)
      BY <2>2, LogEntriesAssumption DEF Ops
    <3>2. /\ Serialize(op.entry) \in Seq(Byte) /\ op.entry.value \in Seq(Byte)
          /\ Len(Serialize(op.entry)) > LenSize + Len(op.entry.value)
      BY <3>1, SerializeType
    <3>3. Serialize(op.entry) # <<>>
      BY <3>2, LenSizeAssumption
    <3> QED
      BY <2>2, <3>2, <3>3 DEF Payload
  <2> QED
    BY <2>1, <2>2
<1>3. Encode(op) = Prefixed(op.key) \o Prefixed(Payload(op))
  BY DEF Encode, Payload
<1>4. /\ Prefixed(op.key) \in Seq(Byte) /\ Len(Prefixed(op.key)) = LenSize + Len(op.key)
      /\ Prefixed(Payload(op)) \in Seq(Byte)
      /\ Len(Prefixed(Payload(op))) = LenSize + Len(Payload(op))
  BY <1>1, <1>2, PrefixedType
<1>5. /\ Encode(op) \in Seq(Byte)
      /\ Len(Encode(op)) = Len(Prefixed(op.key)) + Len(Prefixed(Payload(op)))
  <2> DEFINE k == Prefixed(op.key)
             p == Prefixed(Payload(op))
  <2>1. k \in Seq(Byte) /\ p \in Seq(Byte) /\ Encode(op) = k \o p
    BY <1>3, <1>4
  <2> HIDE DEF k, p
  <2>2. k \o p \in Seq(Byte) /\ Len(k \o p) = Len(k) + Len(p)
    BY <2>1, ConcatType
  <2> QED
    BY <2>1, <2>2 DEF k, p
<1> QED
  BY <1>1, <1>2, <1>3, <1>4, <1>5

-----------------------------------------------------------------------------
(* Reading the metadata                                                    *)

Info == [raw : Seq(Byte), type : 0..9]

Metas == {m \in UNION {[D -> Info] : D \in SUBSET Seq(Byte)} : IsMeta(m)}

LEMMA MetaIsMeta ==
  \A m : m \in Metas <=> IsMeta(m)
<1>1. ASSUME NEW m, IsMeta(m)
      PROVE  m \in Metas
  <2>1. DOMAIN m \in SUBSET Seq(Byte) /\ m \in [DOMAIN m -> Info]
    BY <1>1 DEF IsMeta, Info
  <2> QED
    BY <1>1, <2>1 DEF Metas
<1>2. ASSUME NEW m \in Metas
      PROVE  IsMeta(m)
  BY DEF Metas
<1> QED
  BY <1>1, <1>2

LEMMA InsertMeta ==
  ASSUME NEW m, IsMeta(m), NEW name \in Seq(Byte), NEW info \in Info
  PROVE  IsMeta(Insert(m, name, info))
<1> DEFINE g == Insert(m, name, info)
           D == DOMAIN m \cup {name}
<1>1. g = [x \in D |-> IF x = name THEN info ELSE m[x]]
  BY DEF Insert
<1>2. IsFiniteSet(D) /\ D \subseteq Seq(Byte)
  BY FS_AddElement DEF IsMeta
<1>3. \A x \in DOMAIN m : m[x] \in Info
  BY DEF IsMeta, Info
<1>4. DOMAIN g = D /\ g \in [D -> Info]
  <2> HIDE DEF g
  <2> QED
    BY <1>1, <1>3
<1> HIDE DEF g, D
<1> QED
  BY <1>2, <1>4 DEF IsMeta, Info, g

\* The states of the loop over the names.
States(bytes) == [idx : 0..Len(bytes), maps : SUBSET Metas]

LEMMA NextNameType ==
  ASSUME NEW bytes \in Seq(Byte), NEW state \in States(bytes)
  PROVE  NextName(bytes, state) \in States(bytes)
<1> DEFINE n == Len(bytes)
           at == state.idx
           nameLen == LEAt(bytes, at)
           rawAt == at + LenSize + nameLen
           rawLen == LEAt(bytes, rawAt)
           typeAt == rawAt + LenSize + rawLen
           type == IF bytes[typeAt + 1] \in 1..9 THEN bytes[typeAt + 1] ELSE 0
           name == Slice(bytes, at + LenSize, nameLen)
           info == [raw |-> Slice(bytes, rawAt + LenSize, rawLen), type |-> type]
           malformed == at + LenSize > n \/ rawAt + LenSize > n \/ typeAt + 1 > n
<1>1. at \in 0..n /\ state.maps \in SUBSET Metas /\ n \in Nat /\ LenSize \in Nat
  BY LenSizeAssumption DEF States
<1>2. NextName(bytes, state) =
        IF at >= n THEN state
        ELSE IF malformed THEN [idx |-> n, maps |-> {}]
        ELSE [idx |-> typeAt + 1, maps |-> {Insert(map, name, info) : map \in state.maps}]
  BY DEF NextName
<1>3. CASE at >= n
  BY <1>2, <1>3
<1>4. CASE ~(at >= n) /\ malformed
  <2>1. NextName(bytes, state) = [idx |-> n, maps |-> {}]
    BY <1>2, <1>4
  <2> QED
    BY <1>1, <2>1 DEF States
<1>5. CASE ~(at >= n) /\ ~malformed
  <2>0. at \in Nat
    BY <1>1
  <2>1. at + LenSize <= n
    BY <1>1, <1>5
  <2>2. nameLen \in Nat
    BY <2>0, <2>1, LEAtType
  <2> HIDE DEF nameLen
  <2>3. rawAt \in Nat /\ rawAt + LenSize <= n /\ (at + LenSize) + nameLen <= n
    BY <1>1, <1>5, <2>0, <2>2
  <2>4. rawLen \in Nat
    BY <2>3, LEAtType
  <2> HIDE DEF rawLen
  <2>5. typeAt + 1 \in 0..n /\ (rawAt + LenSize) + rawLen <= n
    BY <1>1, <1>5, <2>3, <2>4
  <2>6. name \in Seq(Byte)
    <3>1. at + LenSize \in Nat
      BY <1>1, <2>0
    <3> QED
      BY <2>2, <2>3, <3>1, SliceType
  <2>7. info \in Info
    <3>1. rawAt + LenSize \in Nat
      BY <1>1, <2>3
    <3>2. Slice(bytes, rawAt + LenSize, rawLen) \in Seq(Byte)
      <4> HIDE DEF rawAt
      <4> QED
        BY <2>4, <2>5, <3>1, SliceType
    <3>3. type \in 0..9
      <4> HIDE DEF typeAt
      <4> QED
        OBVIOUS
    <3> HIDE DEF type
    <3> QED
      BY <3>2, <3>3 DEF Info
  <2> HIDE DEF name, info, typeAt
  <2>8. {Insert(map, name, info) : map \in state.maps} \in SUBSET Metas
    <3>1. ASSUME NEW map \in state.maps
          PROVE  Insert(map, name, info) \in Metas
      <4>1. IsMeta(map)
        BY <1>1, MetaIsMeta
      <4> QED
        BY <2>6, <2>7, <4>1, InsertMeta, MetaIsMeta
    <3> QED
      BY <3>1
  <2>9. NextName(bytes, state) =
          [idx |-> typeAt + 1, maps |-> {Insert(map, name, info) : map \in state.maps}]
    <3> HIDE DEF malformed
    <3> QED
      BY <1>2, <1>5
  <2> HIDE DEF n
  <2> QED
    BY <2>5, <2>8, <2>9 DEF States, n
<1> HIDE DEF malformed
<1> QED
  BY <1>3, <1>4, <1>5

LEMMA MetaLoop ==
  ASSUME NEW bytes \in Seq(Byte), NEW from \in 0..Len(bytes)
  PROVE  \E loop \in [0..Len(bytes) -> States(bytes)] :
           /\ loop[0] = [idx |-> from, maps |-> {<<>>}]
           /\ \A i \in 1..Len(bytes) : loop[i] = NextName(bytes, loop[i - 1])
           /\ DeserializeMeta(bytes, from) = loop[Len(bytes)].maps
<1> DEFINE N == Len(bytes)
           V == States(bytes)
           first == [idx |-> from, maps |-> {<<>>}]
           Recursion(f) == [i \in 0..N |-> IF i = 0 THEN first ELSE NextName(bytes, f[i - 1])]
           step == [p \in V \X (1..N) |-> NextName(bytes, p[1])]
           loop == CHOOSE f : f = Recursion(f)
<1>1. N \in Nat
  OBVIOUS
<1>2. first \in V
  <2>1. IsMeta(<<>>)
    <3>1. DOMAIN <<>> = {} /\ <<>> \in [{} -> Info]
      OBVIOUS
    <3> QED
      BY <3>1, FS_EmptySet DEF IsMeta, Info
  <2>2. {<<>>} \in SUBSET Metas
    BY <2>1, MetaIsMeta
  <2> QED
    BY <2>2 DEF States
<1>3. DeserializeMeta(bytes, from) = loop[N].maps
  BY DEF DeserializeMeta
<1> HIDE DEF N, first
<1>4. step \in [V \X (1..N) -> V]
  <2>1. ASSUME NEW v \in V
        PROVE  NextName(bytes, v) \in V
    BY NextNameType
  <2> HIDE DEF V
  <2> QED
    BY <2>1
<1>5. PICK f \in [0..N -> V] :
        f = [i \in 0..N |-> IF i = 0 THEN first ELSE step[<<f[i - 1], i>>]]
  <2> HIDE DEF V, step
  <2>1. \E f \in [0..N -> V] : Iterates(f, N, first, step)
    BY <1>1, <1>2, <1>4, IteratesExist
  <2> QED
    BY <2>1, Zenon DEF Iterates
<1> HIDE DEF V
<1>6. ASSUME NEW i \in 1..N
      PROVE  f[i] = NextName(bytes, f[i - 1])
  <2>1. i \in 0..N /\ i # 0 /\ i - 1 \in 0..N
    BY <1>1
  <2>2. f[i - 1] \in V /\ f[i] = step[<<f[i - 1], i>>]
    <3> HIDE DEF step
    <3> QED
      BY <1>5, <2>1
  <2> QED
    BY <2>2
<1>7. f = Recursion(f)
  <2>1. f[0] = first /\ DOMAIN f = 0..N
    <3> HIDE DEF step
    <3> QED
      BY <1>1, <1>5
  <2>2. \A i \in 0..N : f[i] = IF i = 0 THEN first ELSE NextName(bytes, f[i - 1])
    <3> HIDE DEF step
    <3>1. \A i \in 0..N : i # 0 => i \in 1..N
      BY <1>1
    <3> QED
      BY <1>6, <2>1, <3>1
  <2> HIDE DEF step
  <2> QED
    BY <1>5, <2>1, <2>2
<1>8. loop = Recursion(loop)
  <2> HIDE DEF Recursion
  <2> QED
    BY <1>7
<1> HIDE DEF loop
<1>9. loop[0] = first /\ \A i \in 1..N : loop[i] = NextName(bytes, loop[i - 1])
  <2>1. /\ 0 \in 0..N
        /\ \A i \in 1..N : i \in 0..N /\ i # 0
    BY <1>1
  <2>2. \A i \in 0..N : loop[i] = IF i = 0 THEN first ELSE NextName(bytes, loop[i - 1])
    BY <1>8
  <2> QED
    BY <2>1, <2>2
<1>10. \A i \in 0..N : loop[i] \in V
  <2>1. \A i \in 1..N : loop[i - 1] \in V => loop[i] \in V
    BY <1>9, NextNameType DEF V
  <2>2. loop[0] \in V
    BY <1>2, <1>9
  <2> QED
    BY <1>1, <2>1, <2>2, IteratesType
<1>11. loop \in [0..N -> V]
  <2>1. loop = [i \in 0..N |-> loop[i]]
    BY <1>8
  <2> QED
    BY <1>10, <2>1
<1> QED
  BY <1>3, <1>9, <1>11 DEF N, V, first

\* Whatever the bytes, an entry is what is read, if anything is.
LEMMA DeserializeType ==
  ASSUME NEW bytes \in Seq(Byte), NEW e \in Deserialize(bytes)
  PROVE  IsEntry(e)
<1> DEFINE valLen == LEAt(bytes, 0)
           flagAt == LenSize + valLen
           value == Slice(bytes, LenSize, valLen)
           metas == IF bytes[flagAt + 1] = MetaMissing THEN {NoMeta}
                    ELSE DeserializeMeta(bytes, flagAt + 1)
<1>1. Len(bytes) \in Nat /\ LenSize \in Nat
  BY LenSizeAssumption
<1>2. /\ ~(Len(bytes) <= LenSize) /\ ~(flagAt + 1 > Len(bytes))
      /\ e \in {[value |-> value, meta |-> m] : m \in metas}
  BY DEF Deserialize
<1>3. valLen \in Nat
  <2>1. 0 + LenSize <= Len(bytes) /\ 0 \in Nat
    BY <1>1, <1>2
  <2> QED
    BY <2>1, LEAtType
<1> HIDE DEF valLen
<1>4. flagAt + 1 \in 0..Len(bytes) /\ LenSize + valLen <= Len(bytes)
  BY <1>1, <1>2, <1>3
<1>5. value \in Seq(Byte)
  BY <1>1, <1>3, <1>4, SliceType
<1>6. \A m \in metas : m = NoMeta \/ IsMeta(m)
  <2>1. ASSUME bytes[flagAt + 1] # MetaMissing, NEW m \in DeserializeMeta(bytes, flagAt + 1)
        PROVE  IsMeta(m)
    <3>1. PICK loop \in [0..Len(bytes) -> States(bytes)] :
            DeserializeMeta(bytes, flagAt + 1) = loop[Len(bytes)].maps
      <4> HIDE DEF flagAt
      <4> QED
        BY <1>4, MetaLoop
    <3>2. loop[Len(bytes)].maps \in SUBSET Metas
      <4>1. loop[Len(bytes)] \in States(bytes)
        BY <1>1
      <4> QED
        BY <4>1 DEF States
    <3> QED
      BY <2>1, <3>1, <3>2, MetaIsMeta
  <2> HIDE DEF flagAt
  <2> QED
    BY <2>1
<1> HIDE DEF value, metas
<1>7. PICK m \in metas : e = [value |-> value, meta |-> m]
  BY <1>2
<1> QED
  BY <1>5, <1>6, <1>7 DEF IsEntry

-----------------------------------------------------------------------------
(* What was written is read back                                           *)

MetaFits(meta) == \A name \in DOMAIN meta : Fits(Len(name)) /\ Fits(Len(meta[name].raw))

\* The loop's state at an index, of a map read so far.
Reading(at, map) == [idx |-> at, maps |-> {map}]

LEMMA NextNameReads ==
  ASSUME NEW bytes \in Seq(Byte), NEW at \in Nat, NEW map,
         NEW meta, IsMeta(meta), MetaFits(meta), NEW name \in DOMAIN meta,
         Holds(bytes, at, SerializeInfo(name, meta[name]))
  PROVE  NextName(bytes, Reading(at, map)) =
           Reading(at + Len(SerializeInfo(name, meta[name])), Insert(map, name, meta[name]))
<1> DEFINE maps == {map}
           info == meta[name]
           n == Len(name)
           r == Len(info.raw)
           np == Prefixed(name)
           rp == Prefixed(info.raw)
           tp == <<info.type>>
           state == [idx |-> at, maps |-> maps]
<1>1. /\ name \in Seq(Byte) /\ info \in [raw : Seq(Byte), type : 0..9]
      /\ Len(SerializeInfo(name, info)) = LenSize + n + LenSize + r + 1
  BY InfoType
<1>2. /\ info.raw \in Seq(Byte) /\ info.type \in 0..9 /\ info = [raw |-> info.raw, type |-> info.type]
      /\ Fits(n) /\ Fits(r) /\ n \in Nat /\ r \in Nat
      /\ LenSize \in Nat /\ LenSize > 0
  BY <1>1, LenSizeAssumption DEF MetaFits
<1>3. SerializeInfo(name, info) = np \o rp \o tp
  BY DEF SerializeInfo
<1>4. /\ np \in Seq(Byte) /\ Len(np) = LenSize + n
      /\ rp \in Seq(Byte) /\ Len(rp) = LenSize + r
      /\ tp \in Seq(Byte) /\ Len(tp) = 1 /\ tp[1] = info.type
  BY <1>1, <1>2, PrefixedType DEF Byte
<1> HIDE DEF np, rp, tp
<1>5. np \o rp \in Seq(Byte) /\ Len(np \o rp) = (LenSize + n) + (LenSize + r)
  <2>1. np \o rp \in Seq(Byte) /\ Len(np \o rp) = Len(np) + Len(rp)
    BY <1>4, ConcatType
  <2> QED
    BY <1>4, <2>1
<1>6. Holds(bytes, at, np \o rp) /\ Holds(bytes, at + Len(np \o rp), tp)
  <2> DEFINE both == np \o rp
  <2>1. both \in Seq(Byte) /\ tp \in Seq(Byte) /\ Holds(bytes, at, both \o tp)
    BY <1>3, <1>4, <1>5
  <2> HIDE DEF both
  <2>2. Holds(bytes, at, both) /\ Holds(bytes, at + Len(both), tp)
    BY <2>1, HoldsParts
  <2> QED
    BY <2>2 DEF both
<1>7. Holds(bytes, at, np) /\ Holds(bytes, at + Len(np), rp)
  <2>1. Holds(bytes, at, np \o rp) /\ np \in Seq(Byte) /\ rp \in Seq(Byte)
    BY <1>4, <1>6
  <2> QED
    BY <2>1, HoldsParts
<1>8. /\ LEAt(bytes, at) = n
      /\ Slice(bytes, at + LenSize, n) = name
  BY <1>1, <1>2, <1>7, HoldsPrefixed DEF np
<1> DEFINE rawAt == at + LenSize + n
<1>9. rawAt = at + Len(np) /\ rawAt \in Nat
  <2> HIDE DEF n
  <2> QED
    BY <1>2, <1>4
<1>10. /\ LEAt(bytes, rawAt) = r
       /\ Slice(bytes, rawAt + LenSize, r) = info.raw
  <2> HIDE DEF rawAt, info
  <2>1. Holds(bytes, rawAt, Prefixed(info.raw))
    BY <1>7, <1>9 DEF rp
  <2> QED
    BY <1>2, <1>9, <2>1, HoldsPrefixed DEF r
<1> DEFINE typeAt == rawAt + LenSize + r
<1>11. typeAt = at + Len(np \o rp) /\ typeAt \in Nat
  <2> HIDE DEF n, r
  <2> QED
    BY <1>2, <1>5
<1>12. bytes[typeAt + 1] = info.type /\ typeAt + 1 <= Len(bytes)
  <2> HIDE DEF typeAt, info
  <2> QED
    BY <1>4, <1>6, <1>11 DEF Holds
<1> HIDE DEF n, r, info
<1>13. /\ ~(at >= Len(bytes)) /\ ~(at + LenSize > Len(bytes))
       /\ ~(rawAt + LenSize > Len(bytes)) /\ ~(typeAt + 1 > Len(bytes))
  BY <1>2, <1>12
<1>14. (IF info.type \in 1..9 THEN info.type ELSE 0) = info.type
  BY <1>2
<1>15. NextName(bytes, state) =
         [idx |-> typeAt + 1, maps |-> {Insert(map, name, info)}]
  <2> HIDE DEF rawAt, typeAt
  <2>1. state.idx = at /\ state.maps = maps
    OBVIOUS
  <2> HIDE DEF state
  <2>2. rawAt = state.idx + LenSize + LEAt(bytes, state.idx)
    BY <1>8, <2>1 DEF rawAt
  <2>3. typeAt = rawAt + LenSize + LEAt(bytes, rawAt)
    BY <1>10 DEF typeAt
  <2>4. name = Slice(bytes, state.idx + LenSize, LEAt(bytes, state.idx))
    BY <1>8, <2>1
  <2>5. info = [raw |-> Slice(bytes, rawAt + LenSize, LEAt(bytes, rawAt)),
                type |-> IF bytes[typeAt + 1] \in 1..9 THEN bytes[typeAt + 1] ELSE 0]
    BY <1>2, <1>10, <1>12, <1>14
  <2>6. NextName(bytes, state) =
          IF state.idx >= Len(bytes) THEN state
          ELSE IF state.idx + LenSize > Len(bytes) \/ rawAt + LenSize > Len(bytes)
                  \/ typeAt + 1 > Len(bytes)
          THEN [idx |-> Len(bytes), maps |-> {}]
          ELSE [idx |-> typeAt + 1, maps |-> {Insert(m, name, info) : m \in state.maps}]
    BY <2>2, <2>3, <2>4, <2>5 DEF NextName
  <2>7. {Insert(m, name, info) : m \in state.maps} = {Insert(map, name, info)}
    BY <2>1
  <2> QED
    BY <1>13, <2>1, <2>6, <2>7
<1>16. typeAt + 1 = at + (LenSize + n + LenSize + r + 1)
  BY <1>2
<1> HIDE DEF typeAt
<1> QED
  BY <1>1, <1>15, <1>16 DEF info, n, r, Reading

LEMMA PastTheEnd ==
  ASSUME NEW bytes, NEW maps
  PROVE  NextName(bytes, [idx |-> Len(bytes), maps |-> maps]) =
           [idx |-> Len(bytes), maps |-> maps]
BY DEF NextName

\* The metadata of the first some names.
FirstOf(meta, k) == [x \in {Names(meta)[j] : j \in 1..k} |-> meta[x]]

LEMMA InsertNext ==
  ASSUME NEW meta, IsMeta(meta), NEW k \in 1..Cardinality(DOMAIN meta)
  PROVE  /\ Names(meta)[k] \in DOMAIN meta
         /\ Insert(FirstOf(meta, k - 1), Names(meta)[k], meta[Names(meta)[k]]) =
              FirstOf(meta, k)
<1> DEFINE N == Cardinality(DOMAIN meta)
           names == Names(meta)
           D == {names[j] : j \in 1..(k - 1)}
<1>1. names \in [1..N -> DOMAIN meta] /\ N \in Nat /\ k \in 1..N
  BY NamesType
<1> HIDE DEF N, names
<1>2. names[k] \in DOMAIN meta
  BY <1>1
<1>3. {names[j] : j \in 1..k} = D \cup {names[k]}
  <2>1. \A j : j \in 1..k <=> j \in 1..(k - 1) \/ j = k
    BY <1>1
  <2> QED
    BY <2>1
<1>4. FirstOf(meta, k) = [x \in D \cup {names[k]} |-> meta[x]]
  BY <1>3 DEF FirstOf, names
<1>5. FirstOf(meta, k - 1) = [x \in D |-> meta[x]]
  BY DEF FirstOf, names
<1> HIDE DEF D
<1>6. Insert(FirstOf(meta, k - 1), names[k], meta[names[k]]) = FirstOf(meta, k)
  BY <1>4, <1>5 DEF Insert
<1> QED
  BY <1>2, <1>6 DEF names

LEMMA FirstOfEnds ==
  ASSUME NEW meta, IsMeta(meta)
  PROVE  FirstOf(meta, 0) = <<>> /\ FirstOf(meta, Cardinality(DOMAIN meta)) = meta
<1>1. FirstOf(meta, 0) = <<>>
  <2>1. {Names(meta)[j] : j \in 1..0} = {}
    OBVIOUS
  <2>2. FirstOf(meta, 0) = [x \in {} |-> meta[x]]
    BY <2>1 DEF FirstOf
  <2>3. DOMAIN FirstOf(meta, 0) = {} /\ FirstOf(meta, 0) \in [1..0 -> {}]
    <3>1. 1..0 = {}
      OBVIOUS
    <3>2. [x \in {} |-> meta[x]] \in [{} -> {}] /\ DOMAIN [x \in {} |-> meta[x]] = {}
      BY Zenon
    <3> QED
      BY <2>2, <3>1, <3>2, Zenon
  <2>4. FirstOf(meta, 0) \in Seq({}) /\ Len(FirstOf(meta, 0)) = 0
    BY <2>3
  <2> QED
    BY <2>4
<1>2. FirstOf(meta, Cardinality(DOMAIN meta)) = meta
  <2> DEFINE N == Cardinality(DOMAIN meta)
             names == Names(meta)
  <2>1. names \in [1..N -> DOMAIN meta] /\ InOrder(DOMAIN meta, names)
    BY NamesType
  <2> HIDE DEF N, names
  <2>2. {names[j] : j \in 1..N} = DOMAIN meta
    BY <2>1 DEF InOrder
  <2>3. FirstOf(meta, N) = [x \in DOMAIN meta |-> meta[x]]
    BY <2>2 DEF FirstOf, names
  <2>4. meta = [x \in DOMAIN meta |-> meta[x]]
    BY DEF IsMeta
  <2> QED
    BY <2>3, <2>4 DEF N
<1> QED
  BY <1>1, <1>2

\* The loop over the names reads the metadata back.
LEMMA MetaReadBack ==
  ASSUME NEW bytes \in Seq(Byte), NEW from \in Nat,
         NEW meta, IsMeta(meta), MetaFits(meta),
         Holds(bytes, from, SerializeMeta(meta)),
         from + Len(SerializeMeta(meta)) = Len(bytes)
  PROVE  DeserializeMeta(bytes, from) = {meta}
<1> DEFINE N == Cardinality(DOMAIN meta)
           n == Len(bytes)
           names == Names(meta)
           b(i) == SerializeInfo(names[N + 1 - i], meta[names[N + 1 - i]])
<1>1. N \in Nat /\ n \in Nat /\ names \in [1..N -> DOMAIN meta]
  BY NamesType
<1> HIDE DEF names
<1>2. PICK last \in [0..N -> Seq(Byte)] :
        /\ last[0] = <<>>
        /\ \A i \in 1..N : last[i] = b(i) \o last[i - 1]
        /\ SerializeMeta(meta) = last[N]
  <2> HIDE DEF N
  <2> QED
    BY MetaLast DEF names, N
<1>3. ASSUME NEW i \in 1..N
      PROVE  /\ b(i) \in Seq(Byte) /\ Len(b(i)) \in Nat \ {0} /\ names[N + 1 - i] \in DOMAIN meta
             /\ last[i - 1] \in Seq(Byte) /\ last[i] \in Seq(Byte)
             /\ Len(last[i]) = Len(b(i)) + Len(last[i - 1])
  <2>1. N + 1 - i \in 1..N /\ i - 1 \in 0..N /\ i \in 0..N
    BY <1>1
  <2> DEFINE name == names[N + 1 - i]
  <2>2. name \in DOMAIN meta
    BY <1>1, <2>1
  <2> HIDE DEF name
  <2>3. /\ name \in Seq(Byte) /\ meta[name] \in [raw : Seq(Byte), type : 0..9]
        /\ SerializeInfo(name, meta[name]) \in Seq(Byte)
        /\ Len(SerializeInfo(name, meta[name])) =
             LenSize + Len(name) + LenSize + Len(meta[name].raw) + 1
    BY <2>2, InfoType
  <2>4. Len(name) \in Nat /\ Len(meta[name].raw) \in Nat /\ LenSize \in Nat
    BY <2>3, LenSizeAssumption
  <2>5. Len(SerializeInfo(name, meta[name])) \in Nat \ {0}
    <3> DEFINE p == Len(name)
               q == Len(meta[name].raw)
    <3>1. /\ p \in Nat /\ q \in Nat /\ LenSize \in Nat
          /\ Len(SerializeInfo(name, meta[name])) = LenSize + p + LenSize + q + 1
      BY <2>3, <2>4
    <3> HIDE DEF p, q
    <3> QED
      BY <3>1
  <2>6. last[i - 1] \in Seq(Byte) /\ last[i] \in Seq(Byte)
    BY <1>2, <2>1
  <2>7. b(i) = SerializeInfo(name, meta[name])
    BY DEF name
  <2> HIDE DEF b
  <2>8. last[i] = b(i) \o last[i - 1]
    BY <1>2
  <2>9. Len(last[i]) = Len(b(i)) + Len(last[i - 1])
    BY <2>3, <2>6, <2>7, <2>8, ConcatType
  <2> QED
    BY <2>2, <2>3, <2>5, <2>6, <2>7, <2>9 DEF name
<1>4. \A i \in 0..N : last[i] \in Seq(Byte) /\ Len(last[i]) \in Nat
  BY <1>2
<1> HIDE DEF N, n
\* As many bytes as names at least.
<1>5. N <= Len(last[N])
  <2> DEFINE S == {i \in 0..N : i <= Len(last[i])}
  <2>1. 0 \in S
    BY <1>1, <1>2
  <2>2. ASSUME NEW i \in 1..N, i - 1 \in S
        PROVE  i \in S
    <3> HIDE DEF b
    <3>1. i \in 0..N /\ i - 1 \in Nat
      BY <1>1
    <3>2. i - 1 <= Len(last[i - 1]) /\ Len(last[i - 1]) \in Nat
      BY <1>4, <2>2
    <3>3. Len(b(i)) \in Nat \ {0} /\ Len(last[i]) = Len(b(i)) + Len(last[i - 1])
      BY <1>3
    <3>4. i <= Len(last[i])
      BY <3>1, <3>2, <3>3
    <3> QED
      BY <3>1, <3>4
  <2>3. \A i \in 0..N : i \in S
    <3> HIDE DEF S, b
    <3> QED
      BY <1>1, <2>1, <2>2, UpTo
  <2>4. N \in 0..N
    BY <1>1
  <2> QED
    BY <2>3, <2>4
\* After k turns the last N - k names are left.
<1> DEFINE left(k) == last[N - k]
           At(k) == [idx |-> n - Len(left(k)), maps |-> {FirstOf(meta, k)}]
<1>6. PICK loop \in [0..n -> States(bytes)] :
        /\ loop[0] = [idx |-> from, maps |-> {<<>>}]
        /\ \A i \in 1..n : loop[i] = NextName(bytes, loop[i - 1])
        /\ DeserializeMeta(bytes, from) = loop[n].maps
  <2>1. from \in 0..Len(bytes)
    <3>1. Len(last[N]) \in Nat /\ from + Len(last[N]) = n /\ n = Len(bytes)
      BY <1>1, <1>2, <1>4 DEF n
    <3> QED
      BY <1>1, <3>1
  <2> QED
    BY <2>1, MetaLoop DEF n
<1> DEFINE S == {k \in 0..N : /\ n - Len(left(k)) \in Nat /\ loop[k] = At(k)
                               /\ Holds(bytes, n - Len(left(k)), left(k))}
<1>7. N <= n
  <2>1. from + Len(last[N]) = n /\ N \in 0..N
    BY <1>1, <1>2 DEF n
  <2> QED
    BY <1>1, <1>4, <1>5, <2>1
<1>8. 0 \in S
  <2>1. left(0) = last[N] /\ from + Len(last[N]) = n /\ N \in 0..N
    BY <1>1, <1>2 DEF n
  <2>2. n - Len(left(0)) = from
    BY <1>1, <1>4, <2>1
  <2>3. Holds(bytes, n - Len(left(0)), left(0))
    BY <1>2, <2>1, <2>2
  <2>4. loop[0] = At(0)
    BY <1>6, <2>2, FirstOfEnds
  <2> HIDE DEF left, At
  <2> QED
    BY <1>1, <2>2, <2>3, <2>4
<1>9. ASSUME NEW k \in 1..N, k - 1 \in S
      PROVE  k \in S
  <2> DEFINE i == N + 1 - k
             at == n - Len(last[i])
             name == names[k]
  <2>1. /\ i \in 1..N /\ N - (k - 1) = i /\ N - k = i - 1 /\ N + 1 - i = k
        /\ k \in 0..N /\ k \in 1..n /\ i \in 0..N /\ i - 1 \in 0..N
    BY <1>1, <1>7
  <2> HIDE DEF i
  <2>2. left(k - 1) = last[i] /\ left(k) = last[i - 1]
    BY <2>1
  <2>3. at \in Nat /\ loop[k - 1] = At(k - 1) /\ Holds(bytes, at, last[i])
    BY <1>9, <2>2
  <2>4. At(k - 1) = [idx |-> at, maps |-> {FirstOf(meta, k - 1)}]
    BY <2>2
  <2>5. /\ b(i) \in Seq(Byte) /\ Len(b(i)) \in Nat \ {0} /\ names[N + 1 - i] \in DOMAIN meta
        /\ last[i - 1] \in Seq(Byte) /\ last[i] \in Seq(Byte)
        /\ Len(last[i]) = Len(b(i)) + Len(last[i - 1]) /\ last[i] = b(i) \o last[i - 1]
    <3> HIDE DEF b
    <3> QED
      BY <1>2, <1>3, <2>1
  <2>6. b(i) = SerializeInfo(name, meta[name]) /\ name \in DOMAIN meta
    BY <2>1, <2>5
  <2>7. at + Len(b(i)) = n - Len(last[i - 1]) /\ at + Len(b(i)) \in Nat
    <3> HIDE DEF b
    <3>1. Len(last[i]) \in Nat /\ Len(last[i - 1]) \in Nat
      BY <1>4, <2>1
    <3> QED
      BY <1>1, <2>3, <2>5, <3>1
  <2> HIDE DEF S, left, At
  <2>8. Holds(bytes, at, b(i)) /\ Holds(bytes, at + Len(b(i)), last[i - 1])
    <3> HIDE DEF b, at
    <3> QED
      BY <2>3, <2>5, HoldsParts
  <2>9. NextName(bytes, loop[k - 1]) =
          [idx |-> at + Len(b(i)), maps |-> {FirstOf(meta, k)}]
    <3> DEFINE map == FirstOf(meta, k - 1)
    <3>1. /\ Holds(bytes, at, SerializeInfo(name, meta[name]))
          /\ loop[k - 1] = [idx |-> at, maps |-> {map}]
      BY <2>3, <2>4, <2>6, <2>8
    <3> HIDE DEF at, name, b, map
    <3>2. NextName(bytes, Reading(at, map)) =
            Reading(at + Len(SerializeInfo(name, meta[name])), Insert(map, name, meta[name]))
      <4>1. at \in Nat /\ name \in DOMAIN meta /\ Holds(bytes, at, SerializeInfo(name, meta[name]))
        BY <2>3, <2>6, <3>1
      <4>2. IsMeta(meta) /\ MetaFits(meta)
        OBVIOUS
      <4> QED
        BY <4>1, <4>2, NextNameReads
    <3>3. Insert(map, name, meta[name]) = FirstOf(meta, k)
      BY InsertNext DEF name, names, N, map
    <3> QED
      BY <2>6, <3>1, <3>2, <3>3 DEF Reading
  <2>10. loop[k] = NextName(bytes, loop[k - 1])
    BY <1>6, <2>1
  <2> HIDE DEF b, at
  <2>11. loop[k] = At(k)
    BY <2>2, <2>7, <2>9, <2>10 DEF At
  <2> QED
    BY <2>1, <2>2, <2>7, <2>8, <2>11 DEF S
<1>10. loop[N] = [idx |-> n, maps |-> {meta}]
  <2>1. \A k \in 0..N : k \in S
    <3> HIDE DEF S
    <3> QED
      BY <1>1, <1>8, <1>9, UpTo
  <2>2. loop[N] = At(N) /\ N \in 0..N
    BY <1>1, <2>1
  <2>3. left(N) = <<>> /\ n - Len(left(N)) = n
    BY <1>1, <1>2
  <2>4. FirstOf(meta, N) = meta
    BY FirstOfEnds DEF N
  <2> QED
    BY <2>2, <2>3, <2>4
<1> HIDE DEF S, At, left, b
<1>11. loop[n] = [idx |-> n, maps |-> {meta}]
  <2> DEFINE R == {i \in 0..n : i >= N => loop[i] = [idx |-> n, maps |-> {meta}]}
  <2>1. 0 \in R
    BY <1>1, <1>10
  <2>2. ASSUME NEW i \in 1..n, i - 1 \in R
        PROVE  i \in R
    <3>1. CASE i <= N
      BY <1>1, <1>10, <3>1
    <3>2. CASE ~(i <= N)
      <4>1. i - 1 >= N /\ i \in 0..n
        BY <1>1, <3>2
      <4>2. loop[i - 1] = [idx |-> n, maps |-> {meta}]
        BY <2>2, <4>1
      <4>3. loop[i] = [idx |-> n, maps |-> {meta}]
        BY <1>6, <4>2, PastTheEnd DEF n
      <4> QED
        BY <4>1, <4>3
    <3> QED
      BY <3>1, <3>2
  <2>3. \A i \in 0..n : i \in R
    <3> HIDE DEF R
    <3> QED
      BY <1>1, <2>1, <2>2, UpTo
  <2> QED
    BY <1>1, <1>7, <2>3
<1> QED
  BY <1>6, <1>11

\* What names and values an entry's length has room for.
LEMMA MetaRoom ==
  ASSUME NEW meta, IsMeta(meta), NEW name \in DOMAIN meta
  PROVE  Len(SerializeInfo(name, meta[name])) <= Len(SerializeMeta(meta))
<1> DEFINE N == Cardinality(DOMAIN meta)
           names == Names(meta)
           b(i) == SerializeInfo(names[N + 1 - i], meta[names[N + 1 - i]])
<1>1. N \in Nat /\ names \in [1..N -> DOMAIN meta] /\ InOrder(DOMAIN meta, names)
  BY NamesType
<1>2. PICK last \in [0..N -> Seq(Byte)] :
        /\ last[0] = <<>>
        /\ \A i \in 1..N : last[i] = b(i) \o last[i - 1]
        /\ SerializeMeta(meta) = last[N]
  <2> HIDE DEF N
  <2> QED
    BY MetaLast DEF N
<1> HIDE DEF N, names
<1>3. ASSUME NEW i \in 1..N
      PROVE  Len(b(i)) \in Nat /\ Len(last[i - 1]) \in Nat /\ Len(last[i]) = Len(b(i)) + Len(last[i - 1])
  <2>1. N + 1 - i \in 1..N /\ i - 1 \in 0..N /\ i \in 0..N
    BY <1>1
  <2>2. names[N + 1 - i] \in DOMAIN meta
    BY <1>1, <2>1
  <2>3. b(i) \in Seq(Byte)
    BY <2>2, InfoType
  <2> HIDE DEF b
  <2>4. last[i - 1] \in Seq(Byte) /\ last[i] = b(i) \o last[i - 1]
    BY <1>2, <2>1
  <2> QED
    BY <2>3, <2>4, ConcatType
<1> DEFINE S == {j \in 0..N : \A i \in 1..j : Len(b(i)) <= Len(last[j])}
<1> HIDE DEF b
<1>4. 0 \in S
  BY <1>1
<1>5. ASSUME NEW j \in 1..N, j - 1 \in S
      PROVE  j \in S
  <2>1. /\ Len(b(j)) \in Nat /\ Len(last[j - 1]) \in Nat
        /\ Len(last[j]) = Len(b(j)) + Len(last[j - 1])
    BY <1>3
  <2>2. ASSUME NEW i \in 1..j
        PROVE  Len(b(i)) <= Len(last[j])
    <3>1. CASE i = j
      BY <2>1, <3>1
    <3>2. CASE i # j
      <4>1. i \in 1..(j - 1) /\ i \in 1..N
        BY <1>1, <3>2
      <4>2. Len(b(i)) <= Len(last[j - 1]) /\ Len(b(i)) \in Nat
        BY <1>3, <1>5, <4>1
      <4> QED
        BY <2>1, <4>2
    <3> QED
      BY <3>1, <3>2
  <2> QED
    BY <1>1, <2>2
<1>6. N \in S
  <2>1. \A j \in 0..N : j \in S
    <3> HIDE DEF S
    <3> QED
      BY <1>1, <1>4, <1>5, UpTo
  <2> QED
    BY <1>1, <2>1
<1>7. PICK k \in 1..N : names[k] = name
  BY <1>1 DEF InOrder
<1>8. N + 1 - k \in 1..N /\ N + 1 - (N + 1 - k) = k
  BY <1>1
<1>9. b(N + 1 - k) = SerializeInfo(name, meta[name])
  BY <1>7, <1>8 DEF b
<1> QED
  BY <1>2, <1>6, <1>8, <1>9

LEMMA EntrySize ==
  ASSUME NEW e, IsEntry(e)
  PROVE  /\ Serialize(e) \in Seq(Byte) /\ e.value \in Seq(Byte)
         /\ Len(Serialize(e)) \in Nat /\ Len(e.value) \in Nat
         /\ Len(Serialize(e)) > LenSize + Len(e.value)
<1>1. Serialize(e) \in Seq(Byte) /\ e.value \in Seq(Byte)
  BY SerializeType
<1>2. Len(Serialize(e)) \in Nat /\ Len(e.value) \in Nat
  BY <1>1
<1>3. Len(Serialize(e)) > LenSize + Len(e.value)
  BY SerializeType
<1> QED
  BY <1>1, <1>2, <1>3

LEMMA EntryFits ==
  ASSUME NEW e, IsEntry(e), Fits(Len(Serialize(e)))
  PROVE  Fits(Len(e.value)) /\ (e.meta # NoMeta => MetaFits(e.meta))
<1> DEFINE n == Len(Serialize(e))
           v == Len(e.value)
<1>1. /\ Serialize(e) \in Seq(Byte) /\ e.value \in Seq(Byte) /\ n \in Nat
      /\ n > LenSize + v /\ v \in Nat
  BY EntrySize
<1>2. Fits(v)
  <2> HIDE DEF n, v
  <2>1. v <= n
    BY <1>1, LenSizeAssumption
  <2> QED
    BY <1>1, <2>1, FitsLess DEF n
<1>3. ASSUME e.meta # NoMeta, NEW name \in DOMAIN e.meta
      PROVE  Fits(Len(name)) /\ Fits(Len(e.meta[name].raw))
  <2> DEFINE meta == e.meta
             p == Len(name)
             q == Len(meta[name].raw)
             m == Len(SerializeMeta(meta))
  <2>1. IsMeta(meta)
    BY <1>3 DEF IsEntry
  <2>2. /\ p \in Nat /\ q \in Nat
        /\ Len(SerializeInfo(name, meta[name])) = LenSize + p + LenSize + q + 1
    <3> HIDE DEF meta
    <3>1. name \in Seq(Byte) /\ meta[name].raw \in Seq(Byte)
      BY <1>3, <2>1, InfoType DEF meta
    <3> QED
      BY <1>3, <2>1, <3>1, InfoType DEF meta
  <2>3. Len(SerializeInfo(name, meta[name])) <= m
    BY <1>3, <2>1, MetaRoom
  <2>4. m \in Nat /\ SerializeMeta(meta) \in Seq(Byte)
    BY <2>1, SerializeMetaType
  <2>5. m <= n
    <3> DEFINE flag == <<MetaExists>>
               vp == Prefixed(e.value)
               rest == SerializeMeta(meta)
    <3>1. Serialize(e) = vp \o (flag \o rest)
      BY <1>3 DEF Serialize
    <3>2. flag \in Seq(Byte) /\ Len(flag) = 1 /\ vp \in Seq(Byte) /\ Len(vp) \in Nat
      BY <1>1, PrefixedType DEF MetaExists, Byte
    <3>3. rest \in Seq(Byte)
      BY <2>4
    <3> HIDE DEF flag, vp, rest
    <3>4. flag \o rest \in Seq(Byte) /\ Len(flag \o rest) = Len(flag) + Len(rest)
      BY <3>2, <3>3, ConcatType
    <3>5. Len(vp \o (flag \o rest)) = Len(vp) + Len(flag \o rest)
      BY <3>2, <3>4, ConcatType
    <3>6. m = Len(rest)
      BY DEF rest
    <3> HIDE DEF m
    <3>7. n = Len(vp) + (1 + m)
      BY <3>1, <3>2, <3>4, <3>5, <3>6
    <3> HIDE DEF n
    <3> QED
      BY <2>4, <3>2, <3>7 DEF m
  <2>6. p <= n /\ q <= n
    <3>1. LenSize + p + LenSize + q + 1 <= n
      BY <2>2, <2>3, <2>4, <2>5
    <3> HIDE DEF p, q, n, m
    <3> QED
      BY <1>1, <2>2, <3>1, LenSizeAssumption
  <2> HIDE DEF p, q, n
  <2>7. Fits(p) /\ Fits(q)
    BY <1>1, <2>2, <2>6, FitsLess DEF n
  <2> QED
    BY <2>7 DEF p, q
<1> QED
  BY <1>2, <1>3 DEF MetaFits

\* An entry whose length fits is read back as it was written.
LEMMA EntryReadBack ==
  ASSUME NEW e, IsEntry(e), Fits(Len(Serialize(e)))
  PROVE  Deserialize(Serialize(e)) = {e}
<1> DEFINE bytes == Serialize(e)
           vp == Prefixed(e.value)
           flag == <<IF e.meta = NoMeta THEN MetaMissing ELSE MetaExists>>
           v == Len(e.value)
<1>1. PICK rest \in Seq(Byte) :
        /\ rest = IF e.meta = NoMeta THEN <<>> ELSE SerializeMeta(e.meta)
        /\ bytes = vp \o (flag \o rest)
  BY SerializeType
<1>2. /\ bytes \in Seq(Byte) /\ e.value \in Seq(Byte)
      /\ v \in Nat /\ Len(bytes) \in Nat /\ LenSize \in Nat /\ LenSize > 0
  BY EntrySize, LenSizeAssumption
<1>3. Fits(v) /\ (e.meta # NoMeta => MetaFits(e.meta) /\ IsMeta(e.meta))
  BY EntryFits DEF IsEntry
<1>4. /\ vp \in Seq(Byte) /\ Len(vp) = LenSize + v
      /\ flag \in Seq(Byte) /\ Len(flag) = 1
      /\ flag[1] = IF e.meta = NoMeta THEN MetaMissing ELSE MetaExists
  <2>1. vp \in Seq(Byte) /\ Len(vp) = LenSize + v
    BY <1>2, PrefixedType
  <2>2. flag \in Seq(Byte) /\ Len(flag) = 1
    BY DEF MetaMissing, MetaExists, Byte
  <2> QED
    BY <2>1, <2>2
<1> HIDE DEF bytes, vp, flag
<1>5. flag \o rest \in Seq(Byte) /\ Len(flag \o rest) = Len(flag) + Len(rest)
  BY <1>4, ConcatType
<1>6. Holds(bytes, 0, vp) /\ Holds(bytes, Len(vp), flag \o rest)
  BY <1>1, <1>4, <1>5, HoldsLast
<1>7. Holds(bytes, Len(vp), flag) /\ Holds(bytes, Len(vp) + Len(flag), rest)
  <2>1. Len(vp) \in Nat
    BY <1>4
  <2> QED
    BY <1>2, <1>4, <1>6, <2>1, HoldsParts
<1>8. LEAt(bytes, 0) = v /\ Slice(bytes, LenSize, v) = e.value
  <2>1. 0 \in Nat /\ 0 + LenSize = LenSize /\ Holds(bytes, 0, Prefixed(e.value))
    BY <1>2, <1>6 DEF vp
  <2> QED
    BY <1>2, <1>3, <2>1, HoldsPrefixed
<1> DEFINE flagAt == LenSize + v
<1>9. /\ flagAt + 1 <= Len(bytes) /\ flagAt \in Nat /\ flagAt + 1 \in Nat
      /\ bytes[flagAt + 1] = flag[1] /\ Holds(bytes, flagAt + 1, rest)
  <2> HIDE DEF v
  <2>1. flagAt = Len(vp) /\ flagAt \in Nat
    BY <1>2, <1>4
  <2> HIDE DEF flagAt
  <2>2. flagAt + 1 <= Len(bytes) /\ bytes[flagAt + 1] = flag[1]
    BY <1>4, <1>7, <2>1 DEF Holds
  <2> QED
    BY <1>4, <1>7, <2>1, <2>2
<1>10. flagAt + 1 + Len(rest) = Len(bytes)
  <2>1. Len(bytes) = Len(vp) + Len(flag \o rest) /\ Len(rest) \in Nat
    BY <1>1, <1>4, <1>5, ConcatType
  <2> HIDE DEF v
  <2> QED
    BY <1>2, <1>4, <1>5, <2>1
<1> HIDE DEF v, flagAt
<1>11. Deserialize(bytes) =
         {[value |-> e.value, meta |-> m] :
            m \in IF flag[1] = MetaMissing THEN {NoMeta} ELSE DeserializeMeta(bytes, flagAt + 1)}
  <2>1. ~(Len(bytes) <= LenSize) /\ ~(flagAt + 1 > Len(bytes))
    BY <1>2, <1>9 DEF flagAt
  <2> QED
    BY <1>8, <1>9, <2>1 DEF Deserialize, flagAt
<1>12. (IF flag[1] = MetaMissing THEN {NoMeta} ELSE DeserializeMeta(bytes, flagAt + 1)) = {e.meta}
  <2>1. CASE e.meta = NoMeta
    BY <1>4, <2>1
  <2>2. CASE e.meta # NoMeta
    <3>1. flag[1] # MetaMissing
      BY <1>4, <2>2 DEF MetaMissing, MetaExists
    <3>2. rest = SerializeMeta(e.meta)
      BY <1>1, <2>2
    <3>3. DeserializeMeta(bytes, flagAt + 1) = {e.meta}
      <4> DEFINE from == flagAt + 1
                 meta == e.meta
      <4>1. from \in Nat /\ Holds(bytes, from, SerializeMeta(meta))
            /\ from + Len(SerializeMeta(meta)) = Len(bytes) /\ IsMeta(meta) /\ MetaFits(meta)
        BY <1>3, <1>9, <1>10, <2>2, <3>2
      <4> HIDE DEF from, meta
      <4>2. DeserializeMeta(bytes, from) = {meta}
        BY <1>2, <4>1, MetaReadBack
      <4> QED
        BY <4>2 DEF from, meta
    <3> QED
      BY <3>1, <3>3
  <2> QED
    BY <2>1, <2>2
<1>13. e = [value |-> e.value, meta |-> e.meta]
  BY DEF IsEntry
<1>14. Deserialize(bytes) = {e}
  <2> DEFINE M == IF flag[1] = MetaMissing THEN {NoMeta} ELSE DeserializeMeta(bytes, flagAt + 1)
  <2>1. Deserialize(bytes) = {[value |-> e.value, meta |-> m] : m \in M}
    BY <1>11
  <2>2. M = {e.meta}
    BY <1>12
  <2> HIDE DEF M
  <2> QED
    BY <1>13, <2>1, <2>2
<1> QED
  BY <1>14 DEF bytes

-----------------------------------------------------------------------------
(* The log of some operations, and what they leave                         *)

LEMMA FirstOps ==
  ASSUME NEW ops \in Seq(Ops), NEW n \in 0..Len(ops)
  PROVE  /\ SubSeq(ops, 1, n) \in Seq(Ops) /\ Len(SubSeq(ops, 1, n)) = n
         /\ \A i \in 1..n : SubSeq(ops, 1, n)[i] = ops[i]
         /\ DOMAIN SubSeq(ops, 1, n) = 1..n
OBVIOUS

\* The bytes of the first some operations.
LEMMA EncodeAllFirst ==
  ASSUME NEW ops \in Seq(Ops)
  PROVE  \E first \in [0..Len(ops) -> Seq(Byte)] :
           /\ first[0] = <<>>
           /\ \A i \in 1..Len(ops) : first[i] = first[i - 1] \o Encode(ops[i])
           /\ EncodeAll(ops) = first[Len(ops)]
<1> DEFINE N == Len(ops)
           V == Seq(Byte)
           Recursion(f) == [i \in 0..N |-> IF i = 0 THEN <<>> ELSE f[i - 1] \o Encode(ops[i])]
           step == [p \in V \X (1..N) |-> p[1] \o Encode(ops[p[2]])]
           first == CHOOSE f : f = Recursion(f)
<1>1. N \in Nat
  OBVIOUS
<1>2. EncodeAll(ops) = first[N]
  BY DEF EncodeAll
<1>3. \A i \in 1..N : ops[i] \in Ops
  OBVIOUS
<1> HIDE DEF N
<1>4. ASSUME NEW v \in V, NEW i \in 1..N
      PROVE  v \o Encode(ops[i]) \in V
  <2>1. Encode(ops[i]) \in V
    BY <1>3, EncodeType
  <2> QED
    BY <2>1, ConcatType
<1>5. step \in [V \X (1..N) -> V]
  <2> HIDE DEF V
  <2> QED
    BY <1>4
<1>6. PICK f \in [0..N -> V] :
        f = [i \in 0..N |-> IF i = 0 THEN <<>> ELSE step[<<f[i - 1], i>>]]
  <2>0. <<>> \in V
    OBVIOUS
  <2> HIDE DEF V, step
  <2>1. \E f \in [0..N -> V] : Iterates(f, N, <<>>, step)
    BY <1>1, <1>5, <2>0, IteratesExist
  <2> QED
    BY <2>1, Zenon DEF Iterates
<1> HIDE DEF V
<1>7. ASSUME NEW i \in 1..N
      PROVE  f[i] = f[i - 1] \o Encode(ops[i])
  <2>1. i \in 0..N /\ i # 0 /\ i - 1 \in 0..N
    BY <1>1
  <2>2. f[i - 1] \in V /\ f[i] = step[<<f[i - 1], i>>]
    <3> HIDE DEF step
    <3> QED
      BY <1>6, <2>1
  <2> QED
    BY <2>2
<1>8. f = Recursion(f)
  <2>1. f[0] = <<>> /\ DOMAIN f = 0..N
    <3> HIDE DEF step
    <3> QED
      BY <1>1, <1>6
  <2>2. \A i \in 0..N : f[i] = IF i = 0 THEN <<>> ELSE f[i - 1] \o Encode(ops[i])
    <3> HIDE DEF step
    <3>1. \A i \in 0..N : i # 0 => i \in 1..N
      BY <1>1
    <3> QED
      BY <1>7, <2>1, <3>1
  <2> HIDE DEF step
  <2> QED
    BY <1>6, <2>1, <2>2
<1>9. first = Recursion(first)
  <2> HIDE DEF Recursion
  <2> QED
    BY <1>8
<1> HIDE DEF first
<1>10. first[0] = <<>> /\ \A i \in 1..N : first[i] = first[i - 1] \o Encode(ops[i])
  <2>1. /\ 0 \in 0..N
        /\ \A i \in 1..N : i \in 0..N /\ i # 0
    BY <1>1
  <2>2. \A i \in 0..N : first[i] = IF i = 0 THEN <<>> ELSE first[i - 1] \o Encode(ops[i])
    BY <1>9
  <2> QED
    BY <2>1, <2>2
<1>11. \A i \in 0..N : first[i] \in V
  <2>1. \A i \in 1..N : first[i - 1] \in V => first[i] \in V
    BY <1>4, <1>10
  <2>2. first[0] \in V
    BY <1>10 DEF V
  <2> QED
    BY <1>1, <2>1, <2>2, IteratesType
<1>12. first \in [0..N -> V]
  <2>1. first = [i \in 0..N |-> first[i]]
    BY <1>9
  <2> QED
    BY <1>11, <2>1
<1> QED
  BY <1>2, <1>10, <1>12 DEF N, V, first

\* A log of some operations begins with the log of the first of them.
LEMMA EncodeAllPrefixes ==
  ASSUME NEW ops \in Seq(Ops)
  PROVE  \E first \in [0..Len(ops) -> Seq(Byte)] :
           /\ first[0] = <<>>
           /\ \A i \in 1..Len(ops) : first[i] = first[i - 1] \o Encode(ops[i])
           /\ \A n \in 0..Len(ops) : EncodeAll(SubSeq(ops, 1, n)) = first[n]
<1>1. PICK first \in [0..Len(ops) -> Seq(Byte)] :
        /\ first[0] = <<>>
        /\ \A i \in 1..Len(ops) : first[i] = first[i - 1] \o Encode(ops[i])
  BY EncodeAllFirst
<1>2. ASSUME NEW n \in 0..Len(ops)
      PROVE  EncodeAll(SubSeq(ops, 1, n)) = first[n]
  <2> DEFINE s == SubSeq(ops, 1, n)
  <2>1. /\ s \in Seq(Ops) /\ Len(s) = n /\ n \in Nat /\ \A i \in 1..n : s[i] = ops[i]
        /\ \A i \in 1..n : i \in 1..Len(ops)
    BY FirstOps
  <2> HIDE DEF s
  <2>2. PICK g \in [0..n -> Seq(Byte)] :
          /\ g[0] = <<>>
          /\ \A i \in 1..n : g[i] = g[i - 1] \o Encode(s[i])
          /\ EncodeAll(s) = g[n]
    BY <2>1, EncodeAllFirst
  <2> DEFINE S == {i \in 0..n : g[i] = first[i]}
  <2>3. 0 \in S
    BY <1>1, <2>1, <2>2
  <2>4. ASSUME NEW i \in 1..n, i - 1 \in S
        PROVE  i \in S
    <3>1. g[i] = g[i - 1] \o Encode(ops[i]) /\ first[i] = first[i - 1] \o Encode(ops[i])
      BY <1>1, <2>1, <2>2
    <3>2. g[i - 1] = first[i - 1] /\ i \in 0..n
      BY <2>1, <2>4
    <3>3. g[i] = first[i]
      BY <3>1, <3>2
    <3> QED
      BY <3>2, <3>3
  <2>5. \A i \in 0..n : i \in S
    <3> HIDE DEF S
    <3> QED
      BY <2>1, <2>3, <2>4, UpTo
  <2> QED
    BY <2>1, <2>2, <2>5 DEF s
<1> QED
  BY <1>1, <1>2

LEMMA EncodeAllType ==
  ASSUME NEW ops \in Seq(Ops)
  PROVE  EncodeAll(ops) \in Seq(Byte)
<1>1. PICK first \in [0..Len(ops) -> Seq(Byte)] : EncodeAll(ops) = first[Len(ops)]
  BY EncodeAllFirst
<1>2. Len(ops) \in 0..Len(ops)
  OBVIOUS
<1> QED
  BY <1>1, <1>2

\* What the first some operations leave.
LEMMA ReplayFirst ==
  ASSUME NEW ops \in Seq(Ops), NEW n \in 0..Len(ops)
  PROVE  Replay(SubSeq(ops, 1, n)) =
           [k \in {ops[i].key : i \in 1..n} |-> ops[Max({i \in 1..n : ops[i].key = k})].entry]
<1> DEFINE s == SubSeq(ops, 1, n)
           I(k) == {i \in 1..n : ops[i].key = k}
<1>1. DOMAIN s = 1..n /\ \A i \in 1..n : s[i] = ops[i]
  BY FirstOps
<1> HIDE DEF s
<1>2. {s[i].key : i \in DOMAIN s} = {ops[i].key : i \in 1..n}
  BY <1>1
<1>3. \A k : {i \in DOMAIN s : s[i].key = k} = I(k)
  BY <1>1
<1>4. ASSUME NEW k \in {ops[i].key : i \in 1..n}
      PROVE  Max(I(k)) \in 1..n
  <2>1. I(k) \in SUBSET (1..n) /\ I(k) # {} /\ n \in Nat
    OBVIOUS
  <2> HIDE DEF I
  <2>2. Max(I(k)) \in I(k)
    BY <2>1, GreatestOf
  <2> QED
    BY <2>1, <2>2
<1>5. Replay(s) = [k \in {ops[i].key : i \in 1..n} |-> s[Max(I(k))].entry]
  BY <1>2, <1>3 DEF Replay
<1> HIDE DEF I
<1>6. Replay(s) = [k \in {ops[i].key : i \in 1..n} |-> ops[Max(I(k))].entry]
  BY <1>1, <1>4, <1>5
<1> QED
  BY <1>6 DEF s, I

LEMMA ReplayNothing ==
  ASSUME NEW ops \in Seq(Ops)
  PROVE  Replay(SubSeq(ops, 1, 0)) = <<>>
<1>1. 0 \in 0..Len(ops) /\ 1..0 = {}
  OBVIOUS
<1> DEFINE r == Replay(SubSeq(ops, 1, 0))
<1>2. r = [k \in {ops[i].key : i \in 1..0} |-> ops[Max({i \in 1..0 : ops[i].key = k})].entry]
  BY <1>1, ReplayFirst
<1>3. {ops[i].key : i \in 1..0} = {}
  BY <1>1
<1>4. DOMAIN r = {} /\ r \in [{} -> {}]
  <2> DEFINE e(k) == ops[Max({i \in 1..0 : ops[i].key = k})].entry
  <2>1. r = [k \in {} |-> e(k)]
    BY <1>2, <1>3
  <2> HIDE DEF e, r
  <2>2. [k \in {} |-> e(k)] \in [{} -> {}] /\ DOMAIN [k \in {} |-> e(k)] = {}
    BY Zenon
  <2> QED
    BY <2>1, <2>2, Zenon
<1> HIDE DEF r
<1>5. r \in [1..0 -> {}]
  BY <1>1, <1>4, Zenon
<1>6. r \in Seq({}) /\ Len(r) = 0
  BY <1>4, <1>5
<1>7. r = <<>>
  BY <1>6
<1> QED
  BY <1>7 DEF r

LEMMA ReplayNext ==
  ASSUME NEW ops \in Seq(Ops), NEW n \in 1..Len(ops)
  PROVE  Replay(SubSeq(ops, 1, n)) =
           Insert(Replay(SubSeq(ops, 1, n - 1)), ops[n].key, ops[n].entry)
<1> DEFINE I(m, k) == {i \in 1..m : ops[i].key = k}
           D(m) == {ops[i].key : i \in 1..m}
           e(m, k) == ops[Max(I(m, k))].entry
<1>1. n \in 0..Len(ops) /\ n - 1 \in 0..Len(ops) /\ n \in Nat /\ n \in 1..n
      /\ \A i : i \in 1..n <=> i \in 1..(n - 1) \/ i = n
  OBVIOUS
<1>2. /\ Replay(SubSeq(ops, 1, n)) = [k \in D(n) |-> e(n, k)]
      /\ Replay(SubSeq(ops, 1, n - 1)) = [k \in D(n - 1) |-> e(n - 1, k)]
  BY <1>1, ReplayFirst
<1>3. D(n) = D(n - 1) \cup {ops[n].key}
  BY <1>1
<1>4. e(n, ops[n].key) = ops[n].entry
  <2> DEFINE J == I(n, ops[n].key)
  <2>1. J \in SUBSET (1..n) /\ n \in J
    BY <1>1
  <2> HIDE DEF J
  <2>2. Max(J) \in J /\ \A m \in J : m <= Max(J)
    BY <1>1, <2>1, GreatestOf
  <2>3. Max(J) \in 1..n /\ n <= Max(J)
    BY <2>1, <2>2
  <2>4. Max(J) = n
    BY <1>1, <2>3
  <2> QED
    BY <2>4 DEF J
<1>5. ASSUME NEW k, k # ops[n].key
      PROVE  e(n, k) = e(n - 1, k)
  <2>1. I(n, k) = I(n - 1, k)
    BY <1>1, <1>5
  <2> QED
    BY <2>1
<1> HIDE DEF D, e
<1> QED
  BY <1>2, <1>3, <1>4, <1>5 DEF Insert

-----------------------------------------------------------------------------
(* One record                                                              *)

\* Every length of the log fits into its field.
LengthsFit ==
  /\ \A k \in LogKeys : Fits(Len(k))
  /\ \A e \in LogEntries \ {Tombstone} : Fits(Len(Serialize(e)))

LEMMA PartsFit ==
  ASSUME LengthsFit, NEW op \in Ops
  PROVE  /\ Fits(Len(op.key)) /\ Fits(Len(Payload(op)))
         /\ Len(op.key) \in Nat \ {0} /\ Len(Payload(op)) \in Nat \ {0}
<1>1. /\ op.key \in Seq(Byte) /\ op.key # <<>>
      /\ Payload(op) \in Seq(Byte) /\ Payload(op) # <<>>
  BY EncodeType
<1>2. Len(op.key) \in Nat \ {0} /\ Len(Payload(op)) \in Nat \ {0}
  BY <1>1
<1>3. Fits(Len(op.key))
  BY DEF Ops, LengthsFit
<1>4. Fits(Len(Payload(op)))
  <2>1. CASE op.entry = Tombstone
    <3>1. Payload(op) = <<TombstoneByte>> /\ Len(<<TombstoneByte>>) = 1
      BY <2>1 DEF Payload
    <3> QED
      BY <3>1, OneFits
  <2>2. CASE op.entry # Tombstone
    BY <2>2 DEF Payload, Ops, LengthsFit
  <2> QED
    BY <2>1, <2>2
<1> QED
  BY <1>2, <1>3, <1>4

\* Where the lengths are in a record.
LEMMA EncodeLengths ==
  ASSUME NEW op \in Ops
  PROVE  \A i \in 1..LenSize :
           /\ Encode(op)[i] = LE(Len(op.key))[i]
           /\ Encode(op)[LenSize + Len(op.key) + i] = LE(Len(Payload(op)))[i]
<1> DEFINE kp == Prefixed(op.key)
           pp == Prefixed(Payload(op))
           a == LE(Len(op.key))
           b == LE(Len(Payload(op)))
           k == op.key
           p == Payload(op)
<1>1. k \in Seq(Byte) /\ p \in Seq(Byte) /\ Encode(op) = kp \o pp
  BY EncodeType
<1>2. /\ kp \in Seq(Byte) /\ Len(kp) = LenSize + Len(k) /\ kp = a \o k
      /\ pp \in Seq(Byte) /\ Len(pp) = LenSize + Len(p) /\ pp = b \o p
  BY <1>1, PrefixedType DEF Prefixed
<1>3. /\ a \in Seq(Byte) /\ Len(a) = LenSize /\ b \in Seq(Byte) /\ Len(b) = LenSize
  <2>1. Len(k) \in Nat /\ Len(p) \in Nat
    BY <1>1
  <2> QED
    BY <2>1, LEType
<1> DEFINE n == Len(k)
           m == Len(p)
<1>4. n \in Nat /\ m \in Nat /\ LenSize \in Nat
  BY <1>1, LenSizeAssumption
<1>5. Len(kp) = LenSize + n /\ Len(pp) = LenSize + m
  BY <1>2
<1> HIDE DEF kp, pp, a, b, k, p, n, m
<1>6. \A i \in 1..LenSize : kp[i] = a[i] /\ pp[i] = b[i]
  BY <1>1, <1>2, <1>3, ConcatType
<1>7. /\ \A i \in 1..Len(kp) : Encode(op)[i] = kp[i]
      /\ \A i \in 1..Len(pp) : Encode(op)[Len(kp) + i] = pp[i]
  <2>1. /\ \A i \in 1..Len(kp) : (kp \o pp)[i] = kp[i]
        /\ \A i \in 1..Len(pp) : (kp \o pp)[Len(kp) + i] = pp[i]
    BY <1>2, ConcatType
  <2> QED
    BY <1>1, <2>1
<1>8. ASSUME NEW i \in 1..LenSize
      PROVE  Encode(op)[i] = a[i] /\ Encode(op)[LenSize + n + i] = b[i]
  <2>1. i \in 1..Len(kp) /\ i \in 1..Len(pp) /\ Len(kp) + i = LenSize + n + i
    BY <1>4, <1>5
  <2> QED
    BY <1>6, <1>7, <2>1
<1> QED
  BY <1>8 DEF a, b, n, k, p

\* The lengths are read of as much of a record as there is.
LEMMA RecordLengths ==
  ASSUME LengthsFit, NEW bytes \in Seq(Byte), NEW at \in Nat, NEW op \in Ops,
         NEW n \in Nat, at + n <= Len(bytes),
         \A i \in 1..n : bytes[at + i] = Encode(op)[i]
  PROVE  /\ n >= LenSize => LEAt(bytes, at) = Len(op.key)
         /\ n >= LenSize + Len(op.key) + LenSize =>
              LEAt(bytes, at + LenSize + Len(op.key)) = Len(Payload(op))
<1> DEFINE k == Len(op.key)
           p == Len(Payload(op))
<1>1. /\ Fits(k) /\ Fits(p) /\ k \in Nat \ {0} /\ p \in Nat \ {0}
      /\ LenSize \in Nat /\ LenSize > 0 /\ Len(bytes) \in Nat
  BY PartsFit, LenSizeAssumption
<1>2. \A i \in 1..LenSize :
        Encode(op)[i] = LE(k)[i] /\ Encode(op)[LenSize + k + i] = LE(p)[i]
  BY EncodeLengths
<1> HIDE DEF k, p
<1>3. ASSUME n >= LenSize
      PROVE  LEAt(bytes, at) = k
  <2>1. \A i \in 1..LenSize : bytes[at + i] = LE(k)[i]
    BY <1>1, <1>2, <1>3
  <2>2. at + LenSize <= Len(bytes)
    BY <1>1, <1>3
  <2> QED
    BY <1>1, <2>1, <2>2, LEReadBack
<1>4. ASSUME n >= LenSize + k + LenSize
      PROVE  LEAt(bytes, at + LenSize + k) = p
  <2> DEFINE lenAt == at + LenSize + k
  <2>1. ASSUME NEW i \in 1..LenSize
        PROVE  bytes[lenAt + i] = LE(p)[i]
    <3>1. LenSize + k + i \in 1..n /\ at + (LenSize + k + i) = lenAt + i
      BY <1>1, <1>4
    <3> QED
      BY <1>2, <3>1
  <2>2. lenAt \in Nat /\ lenAt + LenSize <= Len(bytes)
    BY <1>1, <1>4
  <2> HIDE DEF lenAt
  <2>3. LEAt(bytes, lenAt) = p
    BY <1>1, <2>1, <2>2, LEReadBack
  <2> QED
    BY <2>3 DEF lenAt
<1> QED
  BY <1>3, <1>4 DEF k, p

\* Only the bytes of Tombstone are one byte.
LEMMA EntryOfPayload ==
  ASSUME LengthsFit, NEW op \in Ops
  PROVE  (IF Payload(op) = <<TombstoneByte>> THEN {Tombstone} ELSE Deserialize(Payload(op)))
           = {op.entry}
<1>1. CASE op.entry = Tombstone
  BY <1>1 DEF Payload
<1>2. CASE op.entry # Tombstone
  <2>1. Payload(op) = Serialize(op.entry) /\ IsEntry(op.entry) /\ Fits(Len(Serialize(op.entry)))
    BY <1>2, LogEntriesAssumption DEF Payload, Ops, LengthsFit
  <2>2. Payload(op) # <<TombstoneByte>>
    <3>1. Len(Serialize(op.entry)) > LenSize + Len(op.entry.value) /\ Len(op.entry.value) \in Nat
          /\ Len(Serialize(op.entry)) \in Nat
      BY <2>1, EntrySize
    <3>2. Len(Serialize(op.entry)) # 1
      <4> DEFINE v == Len(op.entry.value)
                 m == Len(Serialize(op.entry))
      <4>1. v \in Nat /\ m \in Nat /\ m > LenSize + v
        BY <3>1
      <4> HIDE DEF v, m
      <4>2. m # 1
        BY <4>1, LenSizeAssumption
      <4> QED
        BY <4>2 DEF m
    <3>3. Len(<<TombstoneByte>>) = 1
      OBVIOUS
    <3> QED
      BY <2>1, <3>2, <3>3
  <2>3. Deserialize(Serialize(op.entry)) = {op.entry}
    BY <2>1, EntryReadBack
  <2> QED
    BY <2>1, <2>2, <2>3
<1> QED
  BY <1>1, <1>2

\* The record at the index is all there: it is taken.
LEMMA TakesRecord ==
  ASSUME LengthsFit, log \in Seq(Byte), idx \in Nat, NEW op \in Ops, Holds(log, idx, Encode(op))
  PROVE  /\ idx < Len(log) /\ KeyAt <= Len(log)
         /\ EntryAtIdx = {op.entry} /\ Key = op.key
         /\ NextAt = idx + Len(Encode(op))
<1> DEFINE k == Len(op.key)
           p == Len(Payload(op))
           n == Len(Encode(op))
           L == Len(log)
           kp == Prefixed(op.key)
           pp == Prefixed(Payload(op))
<1>1. /\ Fits(k) /\ Fits(p) /\ k \in Nat \ {0} /\ p \in Nat \ {0}
      /\ LenSize \in Nat /\ LenSize > 0 /\ L \in Nat
  BY PartsFit, LenSizeAssumption
<1>2. /\ op.key \in Seq(Byte) /\ Payload(op) \in Seq(Byte) /\ Encode(op) = kp \o pp
      /\ Encode(op) \in Seq(Byte) /\ n = (LenSize + k) + (LenSize + p)
  BY EncodeType
<1>3. n \in Nat /\ idx + n <= L /\ \A i \in 1..n : log[idx + i] = Encode(op)[i]
  <2>1. n \in Nat
    BY <1>2
  <2>2. idx + n <= L /\ \A i \in 1..n : log[idx + i] = Encode(op)[i]
    BY DEF Holds
  <2> QED
    BY <2>1, <2>2
<1> DEFINE keyLen == LEAt(log, idx)
           valLen == LEAt(log, idx + LenSize + k)
<1>4. keyLen = k /\ valLen = p
  <2> HIDE DEF n, L
  <2>1. n >= LenSize /\ n >= LenSize + k + LenSize
    <3> HIDE DEF k, p
    <3> QED
      BY <1>1, <1>2
  <2>2. idx + n <= Len(log)
    BY <1>3 DEF L
  <2> QED
    BY <1>3, <2>1, <2>2, RecordLengths
<1>5. /\ kp \in Seq(Byte) /\ pp \in Seq(Byte) /\ Len(kp) = LenSize + k
  BY <1>2, PrefixedType
<1>6. Holds(log, idx, kp) /\ Holds(log, idx + LenSize + k, pp)
  <2> HIDE DEF kp, pp, k
  <2>1. Holds(log, idx, kp) /\ Holds(log, idx + Len(kp), pp)
    <3>1. Holds(log, idx, kp \o pp)
      BY <1>2
    <3> QED
      BY <1>5, <3>1, HoldsParts
  <2>2. idx + Len(kp) = idx + LenSize + k
    BY <1>1, <1>5
  <2> QED
    BY <2>1, <2>2
<1>7. Slice(log, idx + LenSize, k) = op.key
  BY <1>1, <1>2, <1>6, HoldsPrefixed
<1>8. Slice(log, (idx + LenSize + k) + LenSize, p) = Payload(op)
  <2> DEFINE at == idx + LenSize + k
  <2>1. at \in Nat /\ Holds(log, at, Prefixed(Payload(op)))
    <3>1. at \in Nat
      <4> HIDE DEF k
      <4> QED
        BY <1>1
    <3> QED
      BY <1>6, <3>1
  <2> HIDE DEF at
  <2>2. Slice(log, at + LenSize, p) = Payload(op)
    BY <1>1, <1>2, <2>1, HoldsPrefixed
  <2> QED
    BY <2>2 DEF at
<1> HIDE DEF k, p, n, L
<1>9. /\ KeyAt = idx + LenSize /\ ValLenAt = idx + LenSize + k
      /\ ValAt = (idx + LenSize + k) + LenSize
      /\ NextAt = (idx + LenSize + k) + LenSize + p
  BY <1>4 DEF KeyAt, ValLenAt, ValAt, NextAt
<1>10. Key = op.key /\ RawValue = Payload(op)
  BY <1>4, <1>7, <1>8, <1>9 DEF Key, RawValue
<1>11. NextAt = idx + n /\ idx < L /\ KeyAt <= L /\ ValLenAt < L /\ ValAt < L /\ NextAt <= L
  BY <1>1, <1>2, <1>3, <1>9
<1>12. InBounds
  BY <1>1, <1>4, <1>11 DEF InBounds, L
<1>13. EntryAtIdx = {op.entry}
  BY <1>10, <1>12, EntryOfPayload DEF EntryAtIdx
<1> QED
  BY <1>10, <1>11, <1>13 DEF n, L

\* The log ends within the record at the index: there is nothing to take.
LEMMA RefusesPart ==
  ASSUME LengthsFit, log \in Seq(Byte), idx \in Nat, NEW op \in Ops, NEW n \in Nat,
         n < Len(Encode(op)), Len(log) = idx + n, KeyAt <= Len(log),
         \A i \in 1..n : log[idx + i] = Encode(op)[i]
  PROVE  EntryAtIdx = {}
<1> DEFINE k == Len(op.key)
           p == Len(Payload(op))
<1>1. /\ k \in Nat \ {0} /\ p \in Nat \ {0} /\ LenSize \in Nat /\ LenSize > 0
      /\ Len(Encode(op)) = (LenSize + k) + (LenSize + p) /\ idx \in Nat
  <2>1. k \in Nat \ {0} /\ p \in Nat \ {0}
    BY PartsFit
  <2>2. Len(Encode(op)) = (LenSize + k) + (LenSize + p)
    BY EncodeType
  <2>3. LenSize \in Nat /\ LenSize > 0
    BY LenSizeAssumption
  <2> HIDE DEF k, p
  <2> QED
    BY <2>1, <2>2, <2>3
<1>2. /\ n >= LenSize => LEAt(log, idx) = k
      /\ n >= LenSize + k + LenSize => LEAt(log, idx + LenSize + k) = p
  <2>1. idx + n <= Len(log)
    OBVIOUS
  <2> QED
    BY <2>1, RecordLengths
<1> HIDE DEF k, p
<1>3. n >= LenSize /\ ValLenAt = idx + LenSize + k
  BY <1>1, <1>2 DEF KeyAt, ValLenAt
<1> SUFFICES ASSUME InBounds
             PROVE  FALSE
  BY DEF EntryAtIdx
<1>4. n >= LenSize + k + LenSize
  BY <1>1, <1>3 DEF InBounds, ValAt
<1>5. NextAt = idx + LenSize + k + LenSize + p
  BY <1>2, <1>3, <1>4 DEF NextAt, ValAt
<1> QED
  BY <1>1, <1>5 DEF InBounds

-----------------------------------------------------------------------------
(* The log as the appends left it                                          *)

\* Whole records, but for the last one a part of it may be all there is.
LogOfRecords ==
  /\ written \in Seq(Ops)
  /\ IF written = <<>> THEN log = <<>>
     ELSE \E part \in Appended(written[Len(written)]) :
            log = EncodeAll(SubSeq(written, 1, Len(written) - 1)) \o part

LEMMA AllOps ==
  ASSUME NEW ops \in Seq(Ops)
  PROVE  SubSeq(ops, 1, Len(ops)) = ops
<1>1. Len(ops) \in 0..Len(ops)
  OBVIOUS
<1>2. /\ SubSeq(ops, 1, Len(ops)) \in Seq(Ops) /\ Len(SubSeq(ops, 1, Len(ops))) = Len(ops)
      /\ \A i \in 1..Len(ops) : SubSeq(ops, 1, Len(ops))[i] = ops[i]
  BY <1>1, FirstOps
<1> QED
  BY <1>2

LEMMA HoldsMore ==
  ASSUME NEW s \in Seq(Byte), NEW t \in Seq(Byte), NEW u \in Seq(Byte), NEW at \in Nat,
         Holds(s, at, u)
  PROVE  Holds(s \o t, at, u)
<1> DEFINE st == s \o t
           m == Len(u)
<1>1. /\ Len(st) = Len(s) + Len(t) /\ Len(s) \in Nat /\ Len(t) \in Nat
      /\ \A i \in 1..Len(s) : st[i] = s[i]
  BY ConcatType
<1>2. m \in Nat /\ at + m <= Len(s) /\ \A i \in 1..m : s[at + i] = u[i]
  BY DEF Holds
<1>3. at + m <= Len(st) /\ \A i \in 1..m : at + i \in 1..Len(s)
  BY <1>1, <1>2
<1>4. \A i \in 1..m : st[at + i] = u[i]
  BY <1>1, <1>2, <1>3
<1> HIDE DEF st
<1>5. Holds(st, at, u)
  BY <1>3, <1>4 DEF Holds
<1> QED
  BY <1>5 DEF st

\* A record is where the records before it end.
LEMMA RecordsInPlace ==
  ASSUME NEW ops \in Seq(Ops), NEW m \in 0..Len(ops), NEW n \in 0..(m - 1)
  PROVE  Holds(EncodeAll(SubSeq(ops, 1, m)), Len(EncodeAll(SubSeq(ops, 1, n))),
               Encode(ops[n + 1]))
<1> DEFINE N == Len(ops)
<1>1. N \in Nat /\ \A i \in 1..N : ops[i] \in Ops
  OBVIOUS
<1>2. PICK first \in [0..N -> Seq(Byte)] :
        /\ first[0] = <<>>
        /\ \A i \in 1..N : first[i] = first[i - 1] \o Encode(ops[i])
        /\ \A i \in 0..N : EncodeAll(SubSeq(ops, 1, i)) = first[i]
  BY EncodeAllPrefixes
<1> DEFINE S == {j \in 0..N : \A i \in 0..(j - 1) : Holds(first[j], Len(first[i]), Encode(ops[i + 1]))}
<1> HIDE DEF N
<1>3. 0 \in S
  BY <1>1
<1>4. ASSUME NEW j \in 1..N, j - 1 \in S
      PROVE  j \in S
  <2>1. /\ j \in 0..N /\ j - 1 \in 0..N /\ first[j - 1] \in Seq(Byte)
        /\ first[j] = first[j - 1] \o Encode(ops[j])
    <3>1. j \in 0..N /\ j - 1 \in 0..N
      BY <1>1
    <3>2. first[j - 1] \in Seq(Byte)
      BY <1>2, <3>1
    <3> QED
      BY <1>2, <3>1, <3>2
  <2>2. Encode(ops[j]) \in Seq(Byte)
    BY <1>1, EncodeType
  <2>3. ASSUME NEW i \in 0..(j - 1)
        PROVE  Holds(first[j], Len(first[i]), Encode(ops[i + 1]))
    <3>1. i + 1 \in 1..N /\ i \in 0..N
      BY <1>1
    <3>2. Encode(ops[i + 1]) \in Seq(Byte) /\ first[i] \in Seq(Byte)
      <4>1. ops[i + 1] \in Ops
        BY <1>1, <3>1
      <4> QED
        BY <1>2, <3>1, <4>1, EncodeType
    <3>3. CASE i = j - 1
      <4>1. i + 1 = j
        BY <1>1, <3>3
      <4>2. Holds(first[j - 1] \o Encode(ops[j]), Len(first[j - 1]), Encode(ops[j]))
        BY <2>1, <2>2, HoldsLast
      <4> QED
        BY <2>1, <3>3, <4>1, <4>2
    <3>4. CASE i # j - 1
      <4>1. i \in 0..((j - 1) - 1)
        BY <1>1, <3>4
      <4>2. Holds(first[j - 1], Len(first[i]), Encode(ops[i + 1])) /\ Len(first[i]) \in Nat
        BY <1>4, <3>2, <4>1
      <4>3. Holds(first[j - 1] \o Encode(ops[j]), Len(first[i]), Encode(ops[i + 1]))
        BY <2>1, <2>2, <3>2, <4>2, HoldsMore
      <4> QED
        BY <2>1, <4>3
    <3> QED
      BY <3>3, <3>4
  <2> QED
    BY <2>1, <2>3
<1>5. m \in S
  <2>1. \A j \in 0..N : j \in S
    <3> HIDE DEF S
    <3> QED
      BY <1>1, <1>3, <1>4, UpTo
  <2>2. m \in 0..N
    BY DEF N
  <2> QED
    BY <2>1, <2>2
<1>6. m \in 0..N /\ n \in 0..N
  BY <1>1 DEF N
<1> QED
  BY <1>2, <1>5, <1>6

\* What there is of the records from the end of the first some of them on.
LEMMA RecordAfter ==
  ASSUME LogOfRecords, NEW n \in 0..Len(written),
         NEW at, at = Len(EncodeAll(SubSeq(written, 1, n))), at < Len(log)
  PROVE  /\ log \in Seq(Byte) /\ at \in Nat /\ n + 1 \in 1..Len(written)
         /\ \/ Holds(log, at, Encode(written[n + 1]))
            \/ /\ n + 1 = Len(written)
               /\ \E k \in Nat :
                    /\ k < Len(Encode(written[n + 1])) /\ Len(log) = at + k
                    /\ \A i \in 1..k : log[at + i] = Encode(written[n + 1])[i]
<1> DEFINE N == Len(written)
           E(m) == EncodeAll(SubSeq(written, 1, m))
<1>1. written \in Seq(Ops) /\ N \in Nat /\ \A i \in 1..N : written[i] \in Ops
  BY DEF LogOfRecords
<1>2. \A m \in 0..N : E(m) \in Seq(Byte) /\ Len(E(m)) \in Nat
  <2>1. ASSUME NEW m \in 0..N
        PROVE  E(m) \in Seq(Byte)
    <3>1. SubSeq(written, 1, m) \in Seq(Ops)
      BY <1>1, FirstOps
    <3> QED
      BY <3>1, EncodeAllType
  <2> HIDE DEF E
  <2> QED
    BY <2>1
<1>3. written # <<>>
  <2> SUFFICES ASSUME written = <<>>
               PROVE  FALSE
    OBVIOUS
  <2>1. Len(log) = 0
    BY DEF LogOfRecords
  <2>2. at \in Nat
    BY <1>2
  <2> QED
    BY <2>1, <2>2
<1> DEFINE enc == Encode(written[N])
<1>4. PICK k \in 1..Len(enc) : log = E(N - 1) \o SubSeq(enc, 1, k)
  BY <1>3 DEF LogOfRecords, Appended
<1>5. N # 0 /\ N \in 1..N /\ N - 1 \in 0..N
  BY <1>1, <1>3
<1>6. enc \in Seq(Byte) /\ Len(enc) \in Nat
  BY <1>1, <1>5, EncodeType
<1> HIDE DEF N, E, enc
<1> DEFINE part == SubSeq(enc, 1, k)
<1>7. part \in Seq(Byte) /\ Len(part) = k /\ k \in Nat /\ \A i \in 1..k : part[i] = enc[i]
  BY <1>6
<1> HIDE DEF part
<1>8. /\ log \in Seq(Byte) /\ Len(log) = Len(E(N - 1)) + k /\ Holds(log, Len(E(N - 1)), part)
  <2>1. log = E(N - 1) \o part /\ E(N - 1) \in Seq(Byte)
    BY <1>2, <1>4, <1>5 DEF part
  <2>2. /\ E(N - 1) \o part \in Seq(Byte) /\ Len(E(N - 1) \o part) = Len(E(N - 1)) + Len(part)
        /\ Holds(E(N - 1) \o part, Len(E(N - 1)), part)
    BY <1>7, <2>1, ConcatType, HoldsLast
  <2> QED
    BY <1>7, <2>1, <2>2
<1>9. at = Len(E(n)) /\ n \in 0..N /\ at \in Nat
  BY <1>2 DEF E, N
<1>10. CASE n = N
  <2>1. Holds(E(N), Len(E(N - 1)), Encode(written[(N - 1) + 1]))
    <3>1. N \in 0..N /\ N - 1 \in 0..(N - 1)
      BY <1>1, <1>5
    <3> QED
      BY <1>1, <3>1, RecordsInPlace DEF E, N
  <2>2. (N - 1) + 1 = N
    BY <1>1
  <2>3. Len(E(N - 1)) + Len(enc) <= Len(E(N))
    BY <2>1, <2>2 DEF Holds, enc
  <2>4. k <= Len(enc) /\ Len(E(N - 1)) \in Nat /\ Len(E(N)) \in Nat
    BY <1>2, <1>5, <1>6
  <2>5. Len(log) <= at
    BY <1>6, <1>7, <1>8, <1>9, <1>10, <2>3, <2>4
  <2>6. at < Len(log)
    OBVIOUS
  <2> QED
    BY <1>8, <1>9, <2>5, <2>6
<1>11. CASE n = N - 1
  <2>1. n + 1 = N /\ Encode(written[n + 1]) = enc
    BY <1>1, <1>11 DEF enc
  <2>2. Len(log) = at + k /\ Holds(log, at, part)
    BY <1>8, <1>9, <1>11
  <2>3. \A i \in 1..k : log[at + i] = enc[i]
    BY <1>7, <2>2 DEF Holds
  <2>4. CASE k = Len(enc)
    <3>1. Holds(log, at, enc)
      BY <1>7, <1>8, <1>9, <2>2, <2>3, <2>4 DEF Holds
    <3> QED
      BY <1>5, <1>8, <1>9, <2>1, <3>1 DEF N
  <2>5. CASE k # Len(enc)
    <3>1. k < Len(enc) /\ k \in Nat
      BY <1>6, <1>7, <2>5
    <3> QED
      BY <1>5, <1>8, <1>9, <2>1, <2>2, <2>3, <3>1 DEF N
  <2> QED
    BY <2>4, <2>5
<1>12. CASE n # N /\ n # N - 1
  <2>1. n \in 0..((N - 1) - 1) /\ n + 1 \in 1..N
    BY <1>1, <1>9, <1>12
  <2>2. Holds(E(N - 1), Len(E(n)), Encode(written[n + 1]))
    BY <1>1, <1>5, <2>1, RecordsInPlace DEF E, N
  <2>3. Encode(written[n + 1]) \in Seq(Byte)
    BY <1>1, <2>1, EncodeType
  <2>4. Holds(log, at, Encode(written[n + 1]))
    <3>1. E(N - 1) \in Seq(Byte) /\ log = E(N - 1) \o part /\ Holds(E(N - 1), at, Encode(written[n + 1]))
      BY <1>2, <1>4, <1>5, <1>9, <2>2 DEF part
    <3>2. Holds(E(N - 1) \o part, at, Encode(written[n + 1]))
      BY <1>7, <1>9, <2>3, <3>1, HoldsMore
    <3> QED
      BY <3>1, <3>2
  <2> QED
    BY <1>8, <1>9, <2>1, <2>4 DEF N
<1> QED
  BY <1>10, <1>11, <1>12

\* A parser at the end has gone through all the records.
LEMMA AllRecordsAtEnd ==
  ASSUME LogOfRecords, NEW n \in 0..Len(written),
         Len(log) = Len(EncodeAll(SubSeq(written, 1, n)))
  PROVE  n = Len(written) /\ log = EncodeAll(written)
<1> DEFINE N == Len(written)
           E(m) == EncodeAll(SubSeq(written, 1, m))
<1>1. written \in Seq(Ops) /\ N \in Nat /\ \A i \in 1..N : written[i] \in Ops
  BY DEF LogOfRecords
<1>2. \A m \in 0..N : E(m) \in Seq(Byte) /\ Len(E(m)) \in Nat
  <2>1. ASSUME NEW m \in 0..N
        PROVE  E(m) \in Seq(Byte)
    <3>1. SubSeq(written, 1, m) \in Seq(Ops)
      BY <1>1, FirstOps
    <3> QED
      BY <3>1, EncodeAllType
  <2> HIDE DEF E
  <2> QED
    BY <2>1
<1>3. EncodeAll(written) = E(N)
  BY <1>1, AllOps
<1>4. PICK first \in [0..N -> Seq(Byte)] :
        /\ first[0] = <<>>
        /\ \A i \in 1..N : first[i] = first[i - 1] \o Encode(written[i])
        /\ \A m \in 0..N : E(m) = first[m]
  BY <1>1, EncodeAllPrefixes
<1>5. CASE written = <<>>
  <2>1. log = <<>> /\ N = 0 /\ n = 0
    BY <1>5 DEF LogOfRecords
  <2>2. E(0) = <<>>
    BY <1>4, <2>1
  <2> QED
    BY <1>3, <2>1, <2>2
<1>6. CASE written # <<>>
  <2> DEFINE enc == Encode(written[N])
  <2>1. PICK k \in 1..Len(enc) : log = E(N - 1) \o SubSeq(enc, 1, k)
    BY <1>6 DEF LogOfRecords, Appended
  <2>2. N # 0 /\ N \in 1..N /\ N - 1 \in 0..N /\ N \in 0..N
    BY <1>1, <1>6
  <2>3. enc \in Seq(Byte) /\ Len(enc) \in Nat
    BY <1>1, <2>2, EncodeType
  <2>4. Len(log) = Len(E(n)) /\ n \in 0..N
    OBVIOUS
  <2> HIDE DEF N, E, enc
  <2> DEFINE part == SubSeq(enc, 1, k)
  <2>5. part \in Seq(Byte) /\ Len(part) = k /\ k \in Nat /\ k >= 1
    BY <2>3
  <2>6. k = Len(enc) => part = enc
    BY <2>3
  <2> HIDE DEF part
  <2>7. log = E(N - 1) \o part /\ Len(log) = Len(E(N - 1)) + k /\ Len(E(N - 1)) \in Nat
    <3>1. log = E(N - 1) \o part /\ E(N - 1) \in Seq(Byte) /\ Len(E(N - 1)) \in Nat
      BY <1>2, <2>1, <2>2 DEF part
    <3>2. Len(E(N - 1) \o part) = Len(E(N - 1)) + Len(part)
      BY <2>5, <3>1, ConcatType
    <3> QED
      BY <2>5, <3>1, <3>2
  <2>8. n = N
    <3> SUFFICES ASSUME n # N
                 PROVE  FALSE
      OBVIOUS
    <3>1. CASE n = N - 1
      BY <2>4, <2>5, <2>7, <3>1
    <3>2. CASE n # N - 1
      <4>1. n \in 0..((N - 1) - 1) /\ n + 1 \in 1..N
        BY <1>1, <2>4, <3>2
      <4>2. Holds(E(N - 1), Len(E(n)), Encode(written[n + 1]))
        BY <1>1, <2>2, <4>1, RecordsInPlace DEF E, N
      <4>3. Len(Encode(written[n + 1])) \in Nat
        BY <1>1, <4>1, EncodeType
      <4>4. Len(E(n)) <= Len(E(N - 1))
        <5>1. Len(E(n)) + Len(Encode(written[n + 1])) <= Len(E(N - 1)) /\ Len(E(n)) \in Nat
          BY <1>2, <2>4, <4>2 DEF Holds
        <5> QED
          BY <2>7, <4>3, <5>1
      <4> QED
        BY <1>2, <2>4, <2>5, <2>7, <4>4
    <3> QED
      BY <3>1, <3>2
  <2>9. E(N) = E(N - 1) \o enc
    BY <1>4, <2>2 DEF enc
  <2>10. Len(E(N)) = Len(E(N - 1)) + Len(enc)
    <3>1. E(N - 1) \in Seq(Byte)
      BY <1>2, <2>2
    <3> QED
      BY <2>3, <2>9, <3>1, ConcatType
  <2>11. k = Len(enc)
    BY <2>3, <2>4, <2>5, <2>7, <2>8, <2>10
  <2>12. log = E(N)
    BY <2>6, <2>7, <2>9, <2>11
  <2> QED
    BY <1>3, <2>8, <2>12 DEF N
<1> QED
  BY <1>5, <1>6

-----------------------------------------------------------------------------
(* Types                                                                   *)

LEMMA InitTypes ==
  ASSUME Init
  PROVE  written \in Seq(Ops) /\ log \in Seq(Byte)
<1>1. PICK n \in 0..MaxRecords : written \in [1..n -> Ops]
  BY DEF Init
<1>2. n \in Nat
  BY MaxRecordsAssumption
<1>3. written \in Seq(Ops) /\ Len(written) = n /\ DOMAIN written = 1..n
  BY <1>1, <1>2
<1>4. CASE written = <<>>
  BY <1>3, <1>4 DEF Init
<1>5. CASE written # <<>>
  <2>1. PICK i \in IF ShortWrites THEN DOMAIN written ELSE {Len(written)} :
          \E part \in Appended(written[i]) :
            log = EncodeAll(SubSeq(written, 1, i - 1)) \o part
                  \o EncodeAll(SubSeq(written, i + 1, Len(written)))
    BY <1>5 DEF Init
  <2>2. PICK part \in Appended(written[i]) :
          log = EncodeAll(SubSeq(written, 1, i - 1)) \o part
                \o EncodeAll(SubSeq(written, i + 1, Len(written)))
    BY <2>1
  <2>3. n # 0 /\ i \in 1..n
    <3>1. n # 0
      BY <1>3, <1>5
    <3> QED
      BY <1>2, <1>3, <3>1
  <2>4. SubSeq(written, 1, i - 1) \in Seq(Ops) /\ SubSeq(written, i + 1, Len(written)) \in Seq(Ops)
    BY <1>2, <1>3, <2>3
  <2>5. EncodeAll(SubSeq(written, 1, i - 1)) \in Seq(Byte)
        /\ EncodeAll(SubSeq(written, i + 1, Len(written))) \in Seq(Byte)
    BY <2>4, EncodeAllType
  <2>6. part \in Seq(Byte)
    <3>1. Encode(written[i]) \in Seq(Byte)
      <4>1. written[i] \in Ops
        BY <1>1, <2>3
      <4> QED
        BY <4>1, EncodeType
    <3>2. PICK k \in 1..Len(Encode(written[i])) : part = SubSeq(Encode(written[i]), 1, k)
      BY <2>2 DEF Appended
    <3> QED
      BY <3>1, <3>2
  <2> DEFINE a == EncodeAll(SubSeq(written, 1, i - 1))
             b == EncodeAll(SubSeq(written, i + 1, Len(written)))
  <2>7. a \in Seq(Byte) /\ b \in Seq(Byte) /\ log = a \o part \o b
    BY <2>2, <2>5
  <2> HIDE DEF a, b
  <2>8. a \o part \in Seq(Byte)
    BY <2>6, <2>7, ConcatType
  <2>9. a \o part \o b \in Seq(Byte)
    BY <2>7, <2>8, ConcatType
  <2> QED
    BY <1>3, <2>7, <2>9
<1> QED
  BY <1>4, <1>5

\* Whatever the bytes of the log, what is taken of them has its type.
LEMMA TakenType ==
  ASSUME log \in Seq(Byte), idx \in Nat, KeyAt <= Len(log), NEW entry \in EntryAtIdx
  PROVE  /\ NextAt \in 0..Len(log) /\ Key \in Seq(Byte)
         /\ entry = Tombstone \/ IsEntry(entry)
<1> DEFINE k == LEAt(log, idx)
           p == LEAt(log, ValLenAt)
           L == Len(log)
<1>1. LenSize \in Nat /\ L \in Nat /\ InBounds
  BY LenSizeAssumption DEF EntryAtIdx
<1>2. k \in Nat
  BY LEAtType DEF KeyAt
<1>3. ValLenAt = idx + LenSize + k /\ ValLenAt \in Nat
  <2>1. ValLenAt = idx + LenSize + k
    BY DEF ValLenAt, KeyAt
  <2> HIDE DEF k
  <2> QED
    BY <1>1, <1>2, <2>1
<1>4. ValAt = ValLenAt + LenSize /\ ValAt < L /\ ValLenAt < L /\ NextAt <= L
  BY <1>1 DEF ValAt, InBounds
<1>5. p \in Nat
  <2>1. ValLenAt + LenSize <= L
    BY <1>1, <1>3, <1>4
  <2> QED
    BY <1>3, <2>1, LEAtType
<1>6. NextAt = ValAt + p
  BY DEF NextAt
<1> HIDE DEF k, p, L
<1>7. NextAt \in 0..L /\ ValAt \in Nat /\ idx + LenSize \in Nat /\ (idx + LenSize) + k <= L
      /\ ValAt + p <= L
  BY <1>1, <1>2, <1>3, <1>4, <1>5, <1>6
<1>8. Key \in Seq(Byte)
  <2>1. Key = Slice(log, idx + LenSize, k)
    BY DEF Key, KeyAt, k
  <2>2. Slice(log, idx + LenSize, k) \in Seq(Byte)
    BY <1>2, <1>7, SliceType DEF L
  <2> QED
    BY <2>1, <2>2
<1>9. RawValue \in Seq(Byte)
  <2>1. RawValue = Slice(log, ValAt, p)
    BY DEF RawValue, p
  <2> QED
    BY <1>5, <1>7, <2>1, SliceType DEF L
<1>10. entry = Tombstone \/ IsEntry(entry)
  BY <1>1, <1>9, DeserializeType DEF EntryAtIdx
<1> QED
  BY <1>7, <1>8, <1>10 DEF L

\* The types hold in every state, whatever the log was left as: what is read of any
\* bytes at all is of the type it should be of, and the index stays in the log.
THEOREM TypeCorrect == Spec => []TypeOK
<1>1. Init => TypeOK
  <2> SUFFICES ASSUME Init
               PROVE  TypeOK
    OBVIOUS
  <2>1. log \in Seq(Byte) /\ idx = 0 /\ mem = <<>> /\ size = 0 /\ pc = "parse"
    BY InitTypes DEF Init
  <2>2. DOMAIN mem = {} /\ idx \in 0..Len(log)
    BY <2>1
  <2> QED
    BY <2>1, <2>2 DEF TypeOK
<1>2. TypeOK /\ [Next]_logVars => TypeOK'
  <2> SUFFICES ASSUME TypeOK, [Next]_logVars
               PROVE  TypeOK'
    OBVIOUS
  <2>1. CASE Finish
    <3>1. Len(log) \in Nat
      BY DEF TypeOK
    <3> QED
      BY <2>1, <3>1 DEF Finish, TypeOK
  <2>2. CASE StopsShort
    BY <2>2 DEF StopsShort, TypeOK
  <2>3. CASE Rejects
    BY <2>3 DEF Rejects, TypeOK
  <2>4. CASE Inserts
    <3>1. PICK entry \in EntryAtIdx : mem' = Insert(mem, Key, entry)
      BY <2>4 DEF Inserts
    <3>2. log \in Seq(Byte) /\ idx \in Nat /\ KeyAt <= Len(log)
      BY <2>4 DEF Inserts, TypeOK
    <3>3. NextAt \in 0..Len(log) /\ Key \in Seq(Byte) /\ (entry = Tombstone \/ IsEntry(entry))
      BY <3>2, TakenType
    <3>4. \A k \in DOMAIN mem' : k \in Seq(Byte) /\ (mem'[k] = Tombstone \/ IsEntry(mem'[k]))
      BY <3>1, <3>3 DEF TypeOK, Insert
    <3>5. idx' = NextAt /\ log' = log /\ size' = size /\ pc' = pc
      BY <2>4 DEF Inserts
    <3> QED
      BY <3>3, <3>4, <3>5 DEF TypeOK
  <2>5. CASE Ended
    BY <2>5 DEF Ended, logVars, TypeOK
  <2>6. CASE UNCHANGED logVars
    BY <2>6 DEF logVars, TypeOK
  <2> QED
    BY <2>1, <2>2, <2>3, <2>4, <2>5, <2>6 DEF Next
<1> QED
  BY <1>1, <1>2, PTL DEF Spec

-----------------------------------------------------------------------------
(* The parser stays in step with the records                               *)

\* How the parse ends.
Ending ==
  /\ pc = "done" => idx = Len(log) /\ size = Len(log)
  /\ pc \in {"error", "panic"} => log # EncodeAll(written)

StepInv ==
  /\ log \in Seq(Byte) /\ idx \in 0..Len(log)
  /\ LogOfRecords
  /\ ParserInStep
  /\ Ending

LEMMA InitInStep ==
  ASSUME ~ShortWrites, Init
  PROVE  StepInv
<1>1. written \in Seq(Ops) /\ log \in Seq(Byte)
  BY InitTypes
<1>2. idx = 0 /\ mem = <<>> /\ pc = "parse"
  BY DEF Init
<1>3. LogOfRecords
  <2>1. CASE written = <<>>
    BY <1>1, <2>1 DEF Init, LogOfRecords
  <2>2. CASE written # <<>>
    <3> DEFINE N == Len(written)
    <3>1. PICK part \in Appended(written[N]) :
            log = EncodeAll(SubSeq(written, 1, N - 1)) \o part
                  \o EncodeAll(SubSeq(written, N + 1, N))
      BY <2>2 DEF Init
    <3>2. N \in Nat /\ N # 0 /\ N \in 1..N
      BY <1>1, <2>2
    <3>3. EncodeAll(SubSeq(written, N + 1, N)) = <<>>
      <4>1. SubSeq(written, N + 1, N) = <<>>
        BY <1>1, <3>2
      <4>2. EncodeAll(<<>>) = <<>>
        <5>1. PICK first \in [0..Len(<<>>) -> Seq(Byte)] :
                first[0] = <<>> /\ EncodeAll(<<>>) = first[Len(<<>>)]
          <6>1. <<>> \in Seq(Ops)
            OBVIOUS
          <6> QED
            BY <6>1, EncodeAllFirst
        <5>2. Len(<<>>) = 0
          OBVIOUS
        <5> QED
          BY <5>1, <5>2
      <4> QED
        BY <4>1, <4>2
    <3> DEFINE a == EncodeAll(SubSeq(written, 1, N - 1))
    <3>4. a \in Seq(Byte)
      <4>1. SubSeq(written, 1, N - 1) \in Seq(Ops)
        BY <1>1, <3>2
      <4> QED
        BY <4>1, EncodeAllType
    <3>5. part \in Seq(Byte)
      <4>1. Encode(written[N]) \in Seq(Byte)
        <5>1. written[N] \in Ops
          BY <1>1, <3>2
        <5> QED
          BY <5>1, EncodeType
      <4>2. PICK k \in 1..Len(Encode(written[N])) : part = SubSeq(Encode(written[N]), 1, k)
        BY DEF Appended
      <4> QED
        BY <4>1, <4>2
    <3> HIDE DEF a
    <3>6. a \o part \o <<>> = a \o part
      BY <3>4, <3>5, ConcatType, ConcatNothing
    <3>7. log = a \o part
      BY <3>1, <3>3, <3>6 DEF a
    <3> QED
      BY <1>1, <2>2, <3>7 DEF LogOfRecords, a
  <2> QED
    BY <2>1, <2>2
<1>4. ParserInStep
  <2>1. 0 \in 0..Len(written)
    BY <1>1
  <2>2. PICK first \in [0..Len(written) -> Seq(Byte)] :
          first[0] = <<>> /\ \A n \in 0..Len(written) : EncodeAll(SubSeq(written, 1, n)) = first[n]
    BY <1>1, EncodeAllPrefixes
  <2>3. idx = Len(EncodeAll(SubSeq(written, 1, 0)))
    BY <1>2, <2>1, <2>2
  <2>4. mem = Replay(SubSeq(written, 1, 0))
    BY <1>1, <1>2, ReplayNothing
  <2> QED
    BY <2>1, <2>3, <2>4 DEF ParserInStep
<1>5. Ending
  BY <1>2 DEF Ending
<1>6. idx \in 0..Len(log)
  BY <1>1, <1>2
<1> QED
  BY <1>1, <1>3, <1>4, <1>5, <1>6 DEF StepInv

\* A whole record is taken, and the parser is behind it.
LEMMA InsertsInStep ==
  ASSUME LengthsFit, StepInv, Inserts
  PROVE  ParserInStep' /\ idx' \in 0..Len(log)
<1>1. PICK n \in 0..Len(written) :
        idx = Len(EncodeAll(SubSeq(written, 1, n))) /\ mem = Replay(SubSeq(written, 1, n))
  BY DEF StepInv, ParserInStep
<1>2. /\ LogOfRecords /\ written \in Seq(Ops) /\ idx < Len(log) /\ KeyAt <= Len(log)
      /\ log \in Seq(Byte) /\ idx \in Nat
      /\ written' = written /\ log' = log /\ idx' = NextAt
  BY DEF StepInv, LogOfRecords, Inserts
<1>3. PICK entry \in EntryAtIdx : mem' = Insert(mem, Key, entry)
  BY DEF Inserts
<1> DEFINE op == written[n + 1]
<1>4. /\ n + 1 \in 1..Len(written)
      /\ \/ Holds(log, idx, Encode(op))
         \/ /\ n + 1 = Len(written)
            /\ \E k \in Nat : /\ k < Len(Encode(op)) /\ Len(log) = idx + k
                              /\ \A i \in 1..k : log[idx + i] = Encode(op)[i]
  <2>1. idx = Len(EncodeAll(SubSeq(written, 1, n))) /\ LogOfRecords /\ idx < Len(log)
    BY <1>1, <1>2
  <2> QED
    BY <2>1, RecordAfter
<1>5. op \in Ops
  BY <1>2, <1>4
<1> HIDE DEF op
<1>6. Holds(log, idx, Encode(op))
  <2> SUFFICES ASSUME NEW k \in Nat, k < Len(Encode(op)), Len(log) = idx + k,
                      \A i \in 1..k : log[idx + i] = Encode(op)[i]
               PROVE  FALSE
    BY <1>4
  <2>1. EntryAtIdx = {}
    BY <1>2, <1>5, RefusesPart
  <2> QED
    BY <1>3, <2>1
<1>7. EntryAtIdx = {op.entry} /\ Key = op.key /\ NextAt = idx + Len(Encode(op))
  BY <1>2, <1>5, <1>6, TakesRecord
<1>8. n + 1 \in 0..Len(written) /\ (n + 1) - 1 = n
  BY <1>4
<1>9. idx' = Len(EncodeAll(SubSeq(written, 1, n + 1)))
  <2>1. PICK first \in [0..Len(written) -> Seq(Byte)] :
          /\ \A i \in 1..Len(written) : first[i] = first[i - 1] \o Encode(written[i])
          /\ \A i \in 0..Len(written) : EncodeAll(SubSeq(written, 1, i)) = first[i]
    BY <1>2, EncodeAllPrefixes
  <2>2. first[n + 1] = first[n] \o Encode(op) /\ first[n] \in Seq(Byte)
    BY <1>4, <1>8, <2>1 DEF op
  <2>3. Encode(op) \in Seq(Byte)
    BY <1>5, EncodeType
  <2>4. Len(first[n + 1]) = Len(first[n]) + Len(Encode(op))
    BY <2>2, <2>3, ConcatType
  <2> QED
    BY <1>1, <1>2, <1>7, <1>8, <2>1, <2>4
<1>10. mem' = Replay(SubSeq(written, 1, n + 1))
  <2>1. Replay(SubSeq(written, 1, n + 1)) = Insert(Replay(SubSeq(written, 1, n)), op.key, op.entry)
    BY <1>2, <1>4, <1>8, ReplayNext DEF op
  <2> QED
    BY <1>1, <1>3, <1>7, <2>1
<1>11. idx' \in 0..Len(log)
  BY <1>2, <1>3, TakenType
<1> QED
  BY <1>2, <1>8, <1>9, <1>10, <1>11 DEF ParserInStep

\* The parse stops only within a record.
LEMMA StopsWithinRecord ==
  ASSUME LengthsFit, StepInv, idx < Len(log), KeyAt > Len(log) \/ EntryAtIdx = {}
  PROVE  log # EncodeAll(written)
<1>1. PICK n \in 0..Len(written) : idx = Len(EncodeAll(SubSeq(written, 1, n)))
  BY DEF StepInv, ParserInStep
<1>2. LogOfRecords /\ written \in Seq(Ops) /\ log \in Seq(Byte) /\ idx \in Nat /\ Len(log) \in Nat
  BY DEF StepInv, LogOfRecords
<1> DEFINE op == written[n + 1]
<1>3. /\ n + 1 \in 1..Len(written)
      /\ \/ Holds(log, idx, Encode(op))
         \/ /\ n + 1 = Len(written)
            /\ \E k \in Nat : /\ k < Len(Encode(op)) /\ Len(log) = idx + k
                              /\ \A i \in 1..k : log[idx + i] = Encode(op)[i]
  BY <1>1, <1>2, RecordAfter
<1>4. op \in Ops
  BY <1>2, <1>3
<1> HIDE DEF op
<1>5. ~Holds(log, idx, Encode(op))
  <2> SUFFICES ASSUME Holds(log, idx, Encode(op))
               PROVE  FALSE
    OBVIOUS
  <2>1. KeyAt <= Len(log) /\ EntryAtIdx = {op.entry}
    BY <1>2, <1>4, TakesRecord
  <2>2. KeyAt \in Nat
    BY <1>2, LenSizeAssumption DEF KeyAt
  <2> QED
    BY <1>2, <2>1, <2>2
<1>6. PICK k \in Nat : k < Len(Encode(op)) /\ Len(log) = idx + k
  BY <1>3, <1>5
<1>7. n + 1 = Len(written)
  BY <1>3, <1>5
<1>8. Len(EncodeAll(written)) = idx + Len(Encode(op))
  <2>1. PICK first \in [0..Len(written) -> Seq(Byte)] :
          /\ \A i \in 1..Len(written) : first[i] = first[i - 1] \o Encode(written[i])
          /\ \A i \in 0..Len(written) : EncodeAll(SubSeq(written, 1, i)) = first[i]
    BY <1>2, EncodeAllPrefixes
  <2>2. (n + 1) - 1 = n /\ n + 1 \in 0..Len(written)
    BY <1>3
  <2>3. first[n + 1] = first[n] \o Encode(op) /\ first[n] \in Seq(Byte)
    BY <1>3, <2>1, <2>2 DEF op
  <2>4. Encode(op) \in Seq(Byte)
    BY <1>4, EncodeType
  <2>5. Len(first[n + 1]) = Len(first[n]) + Len(Encode(op))
    BY <2>3, <2>4, ConcatType
  <2>6. EncodeAll(written) = first[n + 1]
    <3>1. SubSeq(written, 1, n + 1) = written
      BY <1>2, <1>7, AllOps
    <3> QED
      BY <2>1, <2>2, <3>1
  <2> QED
    BY <1>1, <2>1, <2>5, <2>6
<1>9. Len(Encode(op)) \in Nat
  BY <1>4, EncodeType
<1> QED
  BY <1>2, <1>6, <1>8, <1>9

LEMMA StepKeepsInStep ==
  ASSUME LengthsFit, StepInv, [Next]_logVars
  PROVE  StepInv'
<1>1. log \in Seq(Byte) /\ idx \in 0..Len(log) /\ LogOfRecords /\ ParserInStep /\ Ending
  BY DEF StepInv
<1>2. CASE Finish
  <2>1. idx' = Len(log') /\ size' = Len(log') /\ pc' = "done"
    BY <1>1, <1>2 DEF Finish
  <2>2. Ending'
    BY <2>1 DEF Ending
  <2> QED
    BY <1>1, <1>2, <2>2 DEF Finish, StepInv, LogOfRecords, ParserInStep
<1>3. CASE StopsShort
  <2>1. log # EncodeAll(written)
    BY <1>3, StopsWithinRecord DEF StopsShort
  <2>2. Ending'
    <3>1. pc' # "done" /\ log' = log /\ written' = written
      BY <1>3 DEF StopsShort
    <3> QED
      BY <2>1, <3>1 DEF Ending
  <2> QED
    BY <1>1, <1>3, <2>2 DEF StopsShort, StepInv, LogOfRecords, ParserInStep
<1>4. CASE Rejects
  <2>1. log # EncodeAll(written)
    BY <1>4, StopsWithinRecord DEF Rejects
  <2>2. Ending'
    <3>1. pc' # "done" /\ log' = log /\ written' = written
      BY <1>4 DEF Rejects
    <3> QED
      BY <2>1, <3>1 DEF Ending
  <2> QED
    BY <1>1, <1>4, <2>2 DEF Rejects, StepInv, LogOfRecords, ParserInStep
<1>5. CASE Inserts
  <2>1. ParserInStep' /\ idx' \in 0..Len(log)
    BY <1>5, InsertsInStep
  <2>2. log' = log /\ written' = written /\ pc' = "parse"
    BY <1>5 DEF Inserts
  <2>3. Ending'
    BY <2>2 DEF Ending
  <2>4. LogOfRecords'
    BY <1>1, <2>2 DEF LogOfRecords
  <2> QED
    BY <1>1, <2>1, <2>2, <2>3, <2>4 DEF StepInv
<1>6. CASE UNCHANGED logVars
  BY <1>1, <1>6 DEF logVars, StepInv, LogOfRecords, ParserInStep, Ending
<1> QED
  BY <1>2, <1>3, <1>4, <1>5, <1>6 DEF Next, Ended

\* A log that only the last append may have cut short is taken record by record:
\* what is behind the index is whole records, and the memtable is their replay.
THEOREM StaysInStep ==
  ASSUME ~ShortWrites, LengthsFit
  PROVE  Spec => []ParserInStep
<1>1. Init => StepInv
  BY InitInStep
<1>2. StepInv /\ [Next]_logVars => StepInv'
  BY StepKeepsInStep
<1>3. StepInv => ParserInStep
  BY DEF StepInv
<1> QED
  BY <1>1, <1>2, <1>3, PTL DEF Spec

LEMMA InStepTakesWhole ==
  ASSUME StepInv
  PROVE  TakesWholeLogsOnly
<1> SUFFICES ASSUME pc = "done"
             PROVE  log = EncodeAll(written) /\ mem = Replay(written) /\ size = Len(log)
  BY DEF StepInv, Ending, TakesWholeLogsOnly
<1>1. PICK n \in 0..Len(written) :
        idx = Len(EncodeAll(SubSeq(written, 1, n))) /\ mem = Replay(SubSeq(written, 1, n))
  BY DEF StepInv, ParserInStep
<1>2. idx = Len(log) /\ size = Len(log) /\ LogOfRecords /\ written \in Seq(Ops)
  BY DEF StepInv, Ending, LogOfRecords
<1>3. n = Len(written) /\ log = EncodeAll(written)
  BY <1>1, <1>2, AllRecordsAtEnd
<1>4. SubSeq(written, 1, n) = written
  BY <1>2, <1>3, AllOps
<1> QED
  BY <1>1, <1>2, <1>3, <1>4

\* A whole log is taken, with its length for the memtable's size; one that was cut
\* short never is.
THEOREM WholeLogsOnly ==
  ASSUME ~ShortWrites, LengthsFit
  PROVE  Spec => []TakesWholeLogsOnly
<1>1. Init => StepInv
  BY InitInStep
<1>2. StepInv /\ [Next]_logVars => StepInv'
  BY StepKeepsInStep
<1>3. StepInv => TakesWholeLogsOnly
  BY InStepTakesWhole
<1> QED
  BY <1>1, <1>2, <1>3, PTL DEF Spec
=============================================================================
