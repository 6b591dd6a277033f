-------------------------- MODULE SizeClasses_proofs --------------------------
(***************************************************************************)
(* What class_of finds and class_size gives, for every width of integers   *)
(* up to 32 bits and every request that raw accepts.  The provers do not   *)
(* compute with powers of two whose exponent they do not know, so they are *)
(* given a table of them first; all else follows from the doubling.        *)
(***************************************************************************)
EXTENDS SizeClasses, TLAPS

-----------------------------------------------------------------------------
\* Powers of two, as far as 32 bits go: the table, and what it says.
LEMMA PowersOfTwo ==
  ASSUME NEW i \in 0..32
  PROVE  /\ 2^i \in Nat \ {0}
         /\ i < 32 => 2^(i + 1) = 2 * 2^i
         /\ \A j \in 0..32 : i < j => 2 * 2^i <= 2^j
<1>0. \A x \in Int : x = 0 => 2^x = 1
  OBVIOUS
<1>1. \A x \in Int : x = 1 => 2^x = 2
  OBVIOUS
<1>2. \A x \in Int : x = 2 => 2^x = 4
  OBVIOUS
<1>3. \A x \in Int : x = 3 => 2^x = 8
  OBVIOUS
<1>4. \A x \in Int : x = 4 => 2^x = 16
  OBVIOUS
<1>5. \A x \in Int : x = 5 => 2^x = 32
  OBVIOUS
<1>6. \A x \in Int : x = 6 => 2^x = 64
  OBVIOUS
<1>7. \A x \in Int : x = 7 => 2^x = 128
  OBVIOUS
<1>8. \A x \in Int : x = 8 => 2^x = 256
  OBVIOUS
<1>9. \A x \in Int : x = 9 => 2^x = 512
  OBVIOUS
<1>10. \A x \in Int : x = 10 => 2^x = 1024
  OBVIOUS
<1>11. \A x \in Int : x = 11 => 2^x = 2048
  OBVIOUS
<1>12. \A x \in Int : x = 12 => 2^x = 4096
  OBVIOUS
<1>13. \A x \in Int : x = 13 => 2^x = 8192
  OBVIOUS
<1>14. \A x \in Int : x = 14 => 2^x = 16384
  OBVIOUS
<1>15. \A x \in Int : x = 15 => 2^x = 32768
  OBVIOUS
<1>16. \A x \in Int : x = 16 => 2^x = 65536
  OBVIOUS
<1>17. \A x \in Int : x = 17 => 2^x = 131072
  OBVIOUS
<1>18. \A x \in Int : x = 18 => 2^x = 262144
  OBVIOUS
<1>19. \A x \in Int : x = 19 => 2^x = 524288
  OBVIOUS
<1>20. \A x \in Int : x = 20 => 2^x = 1048576
  OBVIOUS
<1>21. \A x \in Int : x = 21 => 2^x = 2097152
  OBVIOUS
<1>22. \A x \in Int : x = 22 => 2^x = 4194304
  OBVIOUS
<1>23. \A x \in Int : x = 23 => 2^x = 8388608
  OBVIOUS
<1>24. \A x \in Int : x = 24 => 2^x = 16777216
  OBVIOUS
<1>25. \A x \in Int : x = 25 => 2^x = 33554432
  OBVIOUS
<1>26. \A x \in Int : x = 26 => 2^x = 67108864
  OBVIOUS
<1>27. \A x \in Int : x = 27 => 2^x = 134217728
  OBVIOUS
<1>28. \A x \in Int : x = 28 => 2^x = 268435456
  OBVIOUS
<1>29. \A x \in Int : x = 29 => 2^x = 536870912
  OBVIOUS
<1>30. \A x \in Int : x = 30 => 2^x = 1073741824
  OBVIOUS
<1>31. \A x \in Int : x = 31 => 2^x = 2147483648
  OBVIOUS
<1>32. \A x \in Int : x = 32 => 2^x = 4294967296
  OBVIOUS
<1> QED
  BY <1>0, <1>1, <1>2, <1>3, <1>4, <1>5, <1>6, <1>7, <1>8, <1>9, <1>10, <1>11, <1>12,
     <1>13, <1>14, <1>15, <1>16, <1>17, <1>18, <1>19, <1>20, <1>21, <1>22, <1>23, <1>24,
     <1>25, <1>26, <1>27, <1>28, <1>29, <1>30, <1>31, <1>32

LEMMA Doubles ==
  ASSUME NEW i \in 1..32
  PROVE  2^i = 2 * 2^(i - 1)
<1>1. i - 1 \in 0..32 /\ i - 1 < 32 /\ (i - 1) + 1 = i
  OBVIOUS
<1> QED BY <1>1, PowersOfTwo

LEMMA Higher ==
  ASSUME NEW i \in 0..32, NEW j \in 0..32, i < j
  PROVE  2 * 2^i <= 2^j
BY PowersOfTwo

LEMMA NoLower ==
  ASSUME NEW i \in 0..32, NEW j \in 0..32, i <= j
  PROVE  2^i <= 2^j
<1>1. CASE i = j
  <2>1. 2^j \in Nat
    BY PowersOfTwo
  <2> QED BY <1>1, <2>1
<1>2. CASE i < j
  <2>1. 2 * 2^i <= 2^j
    BY <1>2, Higher
  <2>2. 2^i \in Nat /\ 2^j \in Nat
    BY PowersOfTwo
  <2> QED BY <2>1, <2>2
<1> QED BY <1>1, <1>2

\* From two above on, a power of two is a whole number of eighths.
LEMMA Eighths ==
  ASSUME NEW i \in 3..32
  PROVE  2^i = 8 * 2^(i - 3) /\ 2^i = 4 * 2^(i - 2)
<1>1. i - 1 \in 1..32 /\ i - 2 \in 1..32 /\ i \in 1..32
  OBVIOUS
<1>2. 2^i = 2 * 2^(i - 1) /\ 2^(i - 1) = 2 * 2^((i - 1) - 1) /\ 2^(i - 2) = 2 * 2^((i - 2) - 1)
  BY <1>1, Doubles
<1>3. (i - 1) - 1 = i - 2 /\ (i - 2) - 1 = i - 3
  OBVIOUS
<1>4. i - 3 \in 0..32 /\ i - 2 \in 0..32
  OBVIOUS
<1>5. 2^(i - 3) \in Nat /\ 2^(i - 2) \in Nat
  BY <1>4, PowersOfTwo
<1> QED BY <1>2, <1>3, <1>5

-----------------------------------------------------------------------------
\* Half of what W bits hold: the numbers of an i32 are -Half..Half-1.
Half == 2^(W - 1)

LEMMA Widths ==
  /\ Half \in Nat \ {0} /\ 2^W = 2 * Half /\ Half = 2 * 2^(W - 2)
  /\ 2^(W - 4) \in Nat \ {0} /\ 2^(W - 2) = 4 * 2^(W - 4) /\ 2^(W - 4) >= 16
  /\ Accepted = 7 * 2^(W - 4) - 8
<1>1. /\ W \in 1..32 /\ W - 1 \in 1..32 /\ W - 1 \in 0..32 /\ W - 4 \in 0..32 /\ W - 2 \in 3..32
      /\ (W - 1) - 1 = W - 2 /\ (W - 2) - 2 = W - 4
  BY WidthAssumption
<1>2. 2^W = 2 * 2^(W - 1) /\ 2^(W - 1) = 2 * 2^(W - 2) /\ 2^(W - 2) = 4 * 2^(W - 4)
  BY <1>1, Doubles, Eighths
<1>3. 2^(W - 4) \in Nat \ {0} /\ 2^(W - 1) \in Nat \ {0}
  BY <1>1, PowersOfTwo
<1>4. 2^4 <= 2^(W - 4)
  <2>1. 4 \in 0..32 /\ 4 <= W - 4
    BY WidthAssumption
  <2> QED BY <1>1, <2>1, NoLower
<1> QED BY <1>2, <1>3, <1>4 DEF Half, Accepted

\* An i32 is what it is; one more than the largest is the smallest.
LEMMA WrappedFits ==
  ASSUME NEW x \in Int, -Half <= x, x < Half
  PROVE  Wrapped(x) = x
<1>1. x + Half \in 0..(2 * Half - 1)
  BY Widths
<1>2. (x + Half) % (2 * Half) = x + Half
  BY <1>1, Widths
<1> QED BY <1>2, Widths DEF Wrapped, Half

LEMMA WrappedHalf == Wrapped(Half) = -Half
<1>1. (Half + Half) % (2 * Half) = 0
  BY Widths
<1> QED BY <1>1, Widths DEF Wrapped, Half

\* What shifting a 1 gives, by how far the shift is.
LEMMA Shifts ==
  ASSUME NEW b \in 0..(2 * W)
  PROVE  /\ b <= W - 2 => Shl(1, b) = 2^b /\ 2^b \in Nat \ {0} /\ 2 * 2^b <= Half
         /\ b = W - 1 => Shl(1, b) = -Half
         /\ b > W - 2 => Shl(1, b) <= 2^(W - 2)
<1>1. ASSUME NEW c \in 0..(W - 2)
      PROVE  Wrapped(1 * 2^c) = 2^c /\ 2^c \in Nat \ {0} /\ 2 * 2^c <= Half /\ 2^c <= 2^(W - 2)
  <2>1. c \in 0..32 /\ W - 1 \in 0..32 /\ c < W - 1 /\ W - 2 \in 0..32 /\ c <= W - 2
    BY WidthAssumption
  <2>2. 2^c \in Nat \ {0} /\ 2 * 2^c <= 2^(W - 1) /\ 2^c <= 2^(W - 2)
    BY <2>1, PowersOfTwo, Higher, NoLower
  <2> QED BY <2>2, WrappedFits, Widths DEF Half
<1>2. Wrapped(1 * 2^(W - 1)) = -Half
  BY WrappedHalf, Widths DEF Half
<1>3. b % W \in 0..(W - 1) /\ (b < W => b % W = b)
  BY WidthAssumption
<1>4. CASE b <= W - 2
  <2>1. b % W = b /\ b \in 0..(W - 2)
    BY <1>3, <1>4, WidthAssumption
  <2> QED BY <2>1, <1>1, <1>4, WidthAssumption DEF Shl
<1>5. CASE b > W - 2
  <2>1. b = W - 1 => Shl(1, b) = -Half
    BY <1>2, <1>3, WidthAssumption DEF Shl
  <2>2. CASE b % W = W - 1
    BY <2>1, <2>2, <1>2, <1>5, Widths, WidthAssumption DEF Shl
  <2>3. CASE b % W \in 0..(W - 2)
    <3>1. Wrapped(1 * 2^(b % W)) <= 2^(W - 2)
      BY <1>1, <2>3
    <3> QED BY <3>1, <2>1, <1>5, WidthAssumption DEF Shl
  <2> QED BY <2>2, <2>3, <1>3, WidthAssumption
<1> QED BY <1>4, <1>5, WidthAssumption

-----------------------------------------------------------------------------
\* The division by a step that is itself a power of two: how often it goes in.
LEMMA Times ==
  ASSUME NEW x \in Nat, NEW d \in Nat \ {0}, x < 5 * d
  PROVE  /\ x \div d \in 0..4
         /\ (x \div d) * d <= x /\ x < (x \div d) * d + d
<1>1. x \div d \in Nat /\ (x \div d) * d <= x /\ x < (x \div d) * d + d
  OBVIOUS
<1>2. x \div d < 5
  <2>1. SUFFICES ASSUME x \div d >= 5 PROVE FALSE
    BY <1>1
  <2> DEFINE q == x \div d
  <2>2. q \in Nat /\ q >= 5 /\ q * d <= x
    BY <1>1, <2>1
  <2> HIDE DEF q
  <2>3. q * d >= 5 * d
    BY <2>2
  <2> QED BY <2>2, <2>3
<1> QED BY <1>1, <1>2

\* Rounding a request up to words loses nothing and adds less than a word.
LEMMA Words ==
  ASSUME NEW m \in 1..Accepted
  PROVE  /\ RoundUp(m) \in Nat /\ RoundUp(m) % 8 = 0
         /\ m <= RoundUp(m) /\ RoundUp(m) <= m + 7 /\ RoundUp(m) <= Accepted /\ RoundUp(m) < Half
<1>1. m \in Nat /\ m >= 1 /\ m + 7 < Half /\ Half = 8 * 2^(W - 4) /\ Half \in Nat
  BY Widths
<1>2. Add(m, 7) = m + 7
  BY <1>1, WrappedFits DEF Add
<1>3. RoundUp(m) = (m + 7) - ((m + 7) % 8)
  BY <1>2 DEF RoundUp
<1>4. /\ RoundUp(m) \in Nat /\ RoundUp(m) % 8 = 0 /\ m <= RoundUp(m) /\ RoundUp(m) <= m + 7
      /\ RoundUp(m) < Half
  BY <1>1, <1>3
<1>5. RoundUp(m) <= Accepted
  <2>1. Accepted = 8 * (7 * 2^(W - 7) - 1) /\ 2^(W - 7) \in Nat
    <3>1. W - 4 \in 3..32 /\ (W - 4) - 3 = W - 7 /\ W - 7 \in 0..32
      BY WidthAssumption
    <3>2. 2^(W - 4) = 8 * 2^((W - 4) - 3) /\ 2^(W - 7) \in Nat
      BY <3>1, Eighths, PowersOfTwo
    <3> QED BY <3>1, <3>2, Widths
  <2>2. PICK a \in Nat : RoundUp(m) = 8 * a
    BY <1>4
  <2> QED BY <1>1, <1>4, <2>1, <2>2
<1> QED BY <1>4, <1>5

-----------------------------------------------------------------------------
\* The size of a class that is not one of the first three: quarters of a
\* doubling, none of which leaves the i32s.
LEMMA QuarterSize ==
  ASSUME NEW e \in 5..(W - 2), NEW q \in 0..3
  PROVE  /\ 3 + 4 * (e - 5) + q \in 3..(NCLASSES - 1)
         /\ ClassSize(3 + 4 * (e - 5) + q) = (4 + q) * 2^(e - 2)
         /\ 2^(e - 2) \in Nat /\ 2^(e - 2) % 8 = 0 /\ 2^(e - 2) >= 8
         /\ 2^e = 4 * 2^(e - 2) /\ 2 * 2^e <= Half
<1> DEFINE c == 3 + 4 * (e - 5) + q
           p == 2^(e - 2)
<1>1. /\ W \in Int /\ e \in Int /\ q \in Int /\ e <= W - 2 /\ c >= 3 /\ c \in Int
      /\ (c - 3) \div 4 = e - 5 /\ (c - 3) % 4 = q /\ 5 + (e - 5) = e
  BY WidthAssumption
<1>2. c \in 3..(NCLASSES - 1)
  BY <1>1 DEF NCLASSES
<1>3. e \in 0..(2 * W) /\ e - 2 \in 0..(2 * W) /\ e <= W - 2 /\ e - 2 <= W - 2 /\ e - 2 \in 3..32 /\ e \in 3..32 /\ (e - 2) - 3 \in 0..32
  BY <1>1, WidthAssumption
<1>4. /\ Shl(1, e) = 2^e /\ Shl(1, e - 2) = p /\ p \in Nat \ {0} /\ 2 * 2^e <= Half /\ 2^e = 4 * p
      /\ p = 8 * 2^((e - 2) - 3) /\ 2^((e - 2) - 3) \in Nat \ {0}
  BY <1>3, Shifts, Eighths, PowersOfTwo
<1> HIDE DEF p
<1>5. q * p \in Nat /\ q * p <= 3 * p
  <2>1. q = 0 \/ q = 1 \/ q = 2 \/ q = 3
    OBVIOUS
  <2> QED BY <2>1, <1>4
<1>6. Wrapped(q * p) = q * p
  BY <1>4, <1>5, WrappedFits, Widths
<1>7. Add(2^e, q * p) = 4 * p + q * p
  BY <1>4, <1>5, WrappedFits, Widths DEF Add
<1>8. ClassSize(c) = Add(Shl(1, e), Wrapped(q * Shl(1, e - 2)))
  BY <1>1 DEF ClassSize
<1>9. ClassSize(c) = (4 + q) * p
  BY <1>4, <1>6, <1>7, <1>8
<1>10. p % 8 = 0 /\ p >= 8
  BY <1>4
<1> QED BY <1>2, <1>4, <1>9, <1>10 DEF p

\* Every class but the first three is a quarter of a doubling.
LEMMA QuarterOf ==
  ASSUME NEW c \in 3..(NCLASSES - 1)
  PROVE  \E e \in 5..(W - 2), q \in 0..3 : c = 3 + 4 * (e - 5) + q
<1> DEFINE e == 5 + (c - 3) \div 4
           q == (c - 3) % 4
<1>1. e \in 5..(W - 2) /\ q \in 0..3 /\ c = 3 + 4 * (e - 5) + q
  BY WidthAssumption DEF NCLASSES
<1> QED BY <1>1

LEMMA SmallSize ==
  ASSUME NEW c \in 0..2
  PROVE  c \in 0..(NCLASSES - 1) /\ ClassSize(c) = 8 * (c + 1)
BY WidthAssumption DEF ClassSize, NCLASSES

\* The classes rise, in whole words.
LEMMA ClassesRise ==
  ASSUME NEW c \in 0..(NCLASSES - 1), NEW d \in 0..(NCLASSES - 1), c < d
  PROVE  ClassSize(c) < ClassSize(d)
<1>1. CASE d <= 2
  BY <1>1, SmallSize
<1>2. CASE c <= 2 /\ d > 2
  <2>1. PICK e \in 5..(W - 2), q \in 0..3 : d = 3 + 4 * (e - 5) + q
    BY <1>2, QuarterOf
  <2>2. ClassSize(d) = (4 + q) * 2^(e - 2) /\ 2^(e - 2) \in Nat /\ 2^(e - 2) >= 8
    BY <2>1, QuarterSize
  <2>3. (4 + q) * 2^(e - 2) >= 32
    <3>1. q = 0 \/ q = 1 \/ q = 2 \/ q = 3
      OBVIOUS
    <3> QED BY <3>1, <2>2
  <2>4. ClassSize(c) <= 24
    BY <1>2, SmallSize
  <2> QED BY <2>2, <2>3, <2>4, <1>2, SmallSize
<1>3. CASE c > 2
  <2>1. PICK e \in 5..(W - 2), q \in 0..3 : c = 3 + 4 * (e - 5) + q
    BY <1>3, QuarterOf
  <2>2. PICK f \in 5..(W - 2), r \in 0..3 : d = 3 + 4 * (f - 5) + r
    BY <1>3, QuarterOf
  <2>3. /\ ClassSize(c) = (4 + q) * 2^(e - 2) /\ 2^(e - 2) \in Nat /\ 2^(e - 2) >= 8
        /\ ClassSize(d) = (4 + r) * 2^(f - 2) /\ 2^(f - 2) \in Nat /\ 2^(f - 2) >= 8
    BY <2>1, <2>2, QuarterSize
  <2>4. CASE e = f
    <3>1. q < r
      BY <2>1, <2>2, <2>4
    <3>2. (4 + q) * 2^(e - 2) < (4 + r) * 2^(e - 2)
      BY <3>1, <2>3
    <3> QED BY <3>2, <2>3, <2>4
  <2>5. CASE e < f
    <3>1. e - 2 \in 0..32 /\ f - 2 \in 0..32 /\ e - 2 < f - 2
      BY <2>5, WidthAssumption
    <3>2. 2 * 2^(e - 2) <= 2^(f - 2)
      BY <3>1, Higher
    <3>3. (4 + q) * 2^(e - 2) <= 7 * 2^(e - 2)
      BY <2>3
    <3>4. (4 + r) * 2^(f - 2) >= 4 * 2^(f - 2)
      BY <2>3
    <3> QED BY <3>2, <3>3, <3>4, <2>3
  <2>6. e <= f
    BY <2>1, <2>2
  <2> QED BY <2>4, <2>5, <2>6
<1> QED BY <1>1, <1>2, <1>3

LEMMA WholeWords ==
  ASSUME NEW c \in 0..(NCLASSES - 1)
  PROVE  ClassSize(c) \in Nat /\ ClassSize(c) % 8 = 0 /\ ClassSize(c) < Half
<1>1. CASE c <= 2
  BY <1>1, SmallSize, Widths
<1>2. CASE c > 2
  <2>1. PICK e \in 5..(W - 2), q \in 0..3 : c = 3 + 4 * (e - 5) + q
    BY <1>2, QuarterOf
  <2> DEFINE p == 2^(e - 2)
  <2>2. /\ ClassSize(c) = (4 + q) * p /\ p \in Nat /\ p % 8 = 0
        /\ 2^e = 4 * p /\ 2 * 2^e <= Half /\ p >= 8
    BY <2>1, QuarterSize
  <2> HIDE DEF p
  <2>3. PICK a \in Nat : p = 8 * a
    BY <2>2
  <2>4. ClassSize(c) = 4 * p \/ ClassSize(c) = 5 * p \/ ClassSize(c) = 6 * p \/ ClassSize(c) = 7 * p
    <3>1. q = 0 \/ q = 1 \/ q = 2 \/ q = 3
      OBVIOUS
    <3> QED BY <2>2, <3>1
  <2>5. ClassSize(c) \in Nat /\ ClassSize(c) < Half
    BY <2>2, <2>4, Widths
  <2>6. ClassSize(c) % 8 = 0
    BY <2>3, <2>4
  <2> QED BY <2>5, <2>6
<1> QED BY <1>1, <1>2

-----------------------------------------------------------------------------
\* That a class holds a request is that it holds its words; so the smallest
\* class that does is the one above the last that does not.
Smallest(c, words) ==
  /\ c \in 0..(NCLASSES - 1)
  /\ words <= ClassSize(c)
  /\ c > 0 => ClassSize(c - 1) < words

LEMMA SmallestHolds ==
  ASSUME NEW m \in Nat, NEW w \in Nat, w % 8 = 0, m <= w, w <= m + 7,
         NEW c, Smallest(c, w)
  PROVE  \A d \in 0..(NCLASSES - 1) : ClassSize(d) >= m <=> d >= c
<1> TAKE d \in 0..(NCLASSES - 1)
<1>1. c \in 0..(NCLASSES - 1) /\ c \in Int /\ d \in Int /\ NCLASSES \in Int
  BY WidthAssumption DEF Smallest, NCLASSES
<1>2. ClassSize(c) \in Nat /\ ClassSize(d) \in Nat /\ ClassSize(d) % 8 = 0
  BY <1>1, WholeWords
<1>3. CASE d >= c
  BY <1>1, <1>2, <1>3, ClassesRise DEF Smallest
<1>4. CASE d < c
  <2>1. c - 1 \in 0..(NCLASSES - 1) /\ ClassSize(c - 1) \in Nat /\ ClassSize(c - 1) < w
    <3>1. c - 1 \in 0..(NCLASSES - 1) /\ c > 0
      BY <1>1, <1>4
    <3> QED BY <3>1, WholeWords DEF Smallest
  <2>2. ClassSize(d) <= ClassSize(c - 1)
    <3>1. d = c - 1 \/ d < c - 1
      BY <1>1, <1>4
    <3> QED BY <3>1, <2>1, <1>2, ClassesRise
  <2>3. ClassSize(d) < w
    BY <1>2, <2>1, <2>2
  <2>4. PICK a \in Nat, b \in Nat : ClassSize(d) = 8 * a /\ w = 8 * b
    BY <1>2
  <2> QED BY <1>1, <1>4, <2>3, <2>4
<1> QED BY <1>1, <1>3, <1>4

-----------------------------------------------------------------------------
\* What class_of is at: the request in words, and the highest bit of it found so
\* far.  A request of more than half the positive numbers is never done, since
\* from there on no shift is above it.
Going ==
  /\ s = RoundUp(n) /\ s > 24 /\ k \in 5..(2 * W - 1)
  /\ k <= W - 2 => 2^k <= s
  /\ k > W - 2 => 2^(W - 2) <= s
Done == s = RoundUp(n) /\ Smallest(result, s) /\ 4 * (ClassSize(result) - s) <= s
SizeInv ==
  /\ n \in 1..MaxRequest /\ pc \in {"start", "loop", "done"}
  /\ pc = "loop" => Going
  /\ pc = "done" => Done

LEMMA Requested ==
  ASSUME SizeInv
  PROVE  /\ n \in 1..Accepted /\ RoundUp(n) \in Nat /\ RoundUp(n) % 8 = 0
         /\ n <= RoundUp(n) /\ RoundUp(n) <= n + 7 /\ RoundUp(n) <= Accepted /\ RoundUp(n) < Half
<1>1. n \in 1..Accepted
  BY WidthAssumption, Widths DEF SizeInv
<1> QED BY <1>1, Words

LEMMA SizeStarts == Init => SizeInv
BY DEF Init, SizeInv

\* A size in whole words is eight times a number.
LEMMA Eights ==
  ASSUME NEW x \in Nat, x % 8 = 0
  PROVE  \E a \in Nat : x = 8 * a
<1>1. x = 8 * (x \div 8) /\ x \div 8 \in Nat
  OBVIOUS
<1> QED BY <1>1

\* 8, 16 and 24 bytes are the first three classes.
LEMMA SmallStep ==
  ASSUME SizeInv, Small
  PROVE  SizeInv'
<1>1. n' = n /\ s' = RoundUp(n) /\ RoundUp(n') = RoundUp(n)
  BY DEF Small, RoundUp, Add, Wrapped
<1>2. s' \in Nat /\ s' % 8 = 0 /\ s' > 0 /\ s' < Half
  BY <1>1, Requested
<1>5. PICK a \in Nat : s' = 8 * a
  BY <1>2, Eights
<1>3. CASE s' <= 24
  <2>1. pc' = "done" /\ result' = s' \div 8 - 1
    BY <1>3 DEF Small, Return
  <2>2. s' = 8 \/ s' = 16 \/ s' = 24
    BY <1>2, <1>3, <1>5
  <2>3. result' \in 0..2 /\ s' = 8 * (result' + 1)
    BY <2>1, <2>2
  <2>4. Smallest(result', s') /\ ClassSize(result') = s'
    <3>1. result' > 0 => result' - 1 \in 0..2
      BY <2>3
    <3> QED BY <2>3, <3>1, SmallSize DEF Smallest
  <2>5. 4 * (ClassSize(result') - s') <= s'
    <3>1. ClassSize(result') = s' /\ s' \in Nat
      BY <1>2, <2>4
    <3>2. \A x \in Nat : 4 * (x - x) <= x
      OBVIOUS
    <3> QED BY <3>1, <3>2
  <2>6. Done'
    BY <1>1, <2>4, <2>5 DEF Done, Smallest, ClassSize, NCLASSES, Add, Shl, Wrapped
  <2> QED BY <1>1, <2>1, <2>6 DEF SizeInv
<1>4. CASE s' > 24
  <2>1. pc' = "loop" /\ k' = 5 /\ 5 <= W - 2
    BY <1>3, <1>2, <1>4, WidthAssumption DEF Small
  <2>2. s' >= 32
    BY <1>4, <1>5
  <2>3. 2^5 = 32
    OBVIOUS
  <2>4. k' \in 5..(2 * W - 1) /\ 2^(k') <= s'
    BY <2>1, <2>2, <2>3, WidthAssumption
  <2>5. Going'
    BY <1>1, <1>4, <2>1, <2>4, WidthAssumption DEF Going
  <2> QED BY <1>1, <2>1, <2>5 DEF SizeInv
<1> QED BY <1>2, <1>3, <1>4

LEMMA LoopStep ==
  ASSUME SizeInv, Loop
  PROVE  SizeInv'
<1>1. /\ pc = "loop" /\ pc' = "loop" /\ n' = n /\ s' = s /\ RoundUp(n') = RoundUp(n)
      /\ s >= Shl(1, k + 1) /\ Going
      /\ k' = IF k = 2 * W - 1 THEN W ELSE k + 1
  BY DEF Loop, SizeInv
<1>2. s \in Nat /\ k \in 5..(2 * W - 1) /\ W \in 8..32
  BY <1>1, Requested, WidthAssumption DEF Going
<1>3. k' \in 5..(2 * W - 1)
  BY <1>1, <1>2
<1>4. k' <= W - 2 => 2^(k') <= s
  <2>1. SUFFICES ASSUME k' <= W - 2 PROVE 2^(k') <= s
    OBVIOUS
  <2>2. k' = k + 1 /\ k + 1 \in 0..(2 * W) /\ k + 1 <= W - 2
    BY <1>1, <1>2, <2>1
  <2> QED BY <1>1, <2>2, Shifts
<1>5. k' > W - 2 => 2^(W - 2) <= s
  <2>1. CASE k > W - 2
    BY <1>1, <2>1 DEF Going
  <2>2. CASE k <= W - 2 /\ k' > W - 2
    <3>1. k = W - 2
      BY <1>1, <1>2, <2>2
    <3> QED BY <1>1, <2>2, <3>1 DEF Going
  <2> QED BY <1>2, <2>1, <2>2
<1>6. Going'
  BY <1>1, <1>3, <1>4, <1>5 DEF Going
<1> QED BY <1>1, <1>6 DEF SizeInv

\* Rounding up to a quarter of the doubling: the last quarter is the first of the
\* next doubling.
LEMMA QuarterStep ==
  ASSUME SizeInv, Quarter
  PROVE  SizeInv'
<1> DEFINE p == 2^(k - 2)
           j == Add(Add(s, -Shl(1, k)), Add(Shl(1, k - 2), -1)) \div Shl(1, k - 2)
<1>1. /\ pc = "loop" /\ Going /\ s < Shl(1, k + 1) /\ pc' = "done"
      /\ n' = n /\ s' = s /\ k' = k /\ RoundUp(n') = RoundUp(n)
      /\ result' = IF j = 4 THEN 3 + 4 * (k + 1 - 5) ELSE 3 + 4 * (k - 5) + j
  BY DEF Quarter, Return, SizeInv
<1>2. s \in Nat /\ s < Half /\ k \in 5..(2 * W - 1) /\ W \in 8..32 /\ 2^(W - 2) \in Nat /\ s % 8 = 0
  BY <1>1, Requested, WidthAssumption, Widths DEF Going
<1>3. k \in 5..(W - 3)
  <2>1. k + 1 \in 0..(2 * W)
    BY <1>2
  <2>2. ~ (k > W - 2)
    <3>1. SUFFICES ASSUME k > W - 2 PROVE FALSE
      OBVIOUS
    <3>2. Shl(1, k + 1) <= 2^(W - 2) /\ 2^(W - 2) <= s
      BY <1>1, <1>2, <2>1, <3>1, Shifts DEF Going
    <3>3. Shl(1, k + 1) \in Int
      BY <2>1, Widths, WidthAssumption DEF Shl, Wrapped, Half
    <3> QED BY <1>1, <1>2, <3>2, <3>3
  <2>3. k # W - 2
    <3>1. SUFFICES ASSUME k = W - 2 PROVE FALSE
      OBVIOUS
    <3>2. Shl(1, k + 1) = -Half
      BY <2>1, <3>1, <1>2, Shifts
    <3> QED BY <1>1, <1>2, <3>2, Widths
  <2> QED BY <1>2, <2>2, <2>3
<1>4. /\ Shl(1, k) = 4 * p /\ Shl(1, k - 2) = p /\ Shl(1, k + 1) = 8 * p /\ p \in Nat \ {0}
      /\ 2 * (8 * p) <= Half /\ p >= 8 /\ 2^k = 4 * p
  <2>1. /\ k \in 0..(2 * W) /\ k - 2 \in 0..(2 * W) /\ k + 1 \in 0..(2 * W)
        /\ k <= W - 2 /\ k - 2 <= W - 2 /\ k + 1 <= W - 2 /\ k \in 3..32 /\ k + 1 \in 1..32 /\ (k + 1) - 1 = k
        /\ k \in 5..(W - 2)
    BY <1>2, <1>3
  <2>2. Shl(1, k) = 2^k /\ Shl(1, k - 2) = p /\ Shl(1, k + 1) = 2^(k + 1) /\ p \in Nat \ {0} /\ 2 * 2^(k + 1) <= Half
    BY <2>1, Shifts
  <2>3. 2^k = 4 * p /\ 2^(k + 1) = 2 * 2^k
    BY <2>1, Eighths, Doubles
  <2>4. p >= 8
    <3>1. 0 \in 0..3
      OBVIOUS
    <3> QED BY <2>1, <3>1, QuarterSize
  <2> QED BY <2>2, <2>3, <2>4
<1> HIDE DEF p
<1>5. 4 * p <= s /\ s < 8 * p
  BY <1>1, <1>3, <1>4, <1>2 DEF Going
<1>6. j = (s - 4 * p + p - 1) \div p
  <2>1. Add(s, -(4 * p)) = s - 4 * p
    BY <1>2, <1>4, <1>5, WrappedFits, Widths DEF Add
  <2>2. Add(p, -1) = p - 1
    BY <1>4, WrappedFits, Widths DEF Add
  <2>3. Add(s - 4 * p, p - 1) = s - 4 * p + p - 1
    BY <1>2, <1>4, <1>5, WrappedFits, Widths DEF Add
  <2> QED BY <1>4, <2>1, <2>2, <2>3
<1>7. j \in 0..4 /\ j * p <= s - 4 * p + p - 1 /\ s - 4 * p + p - 1 < j * p + p
  <2>1. s - 4 * p + p - 1 \in Nat /\ s - 4 * p + p - 1 < 5 * p
    BY <1>2, <1>4, <1>5
  <2> QED BY <1>4, <1>6, <2>1, Times
<1> HIDE DEF j
<1>8. result' \in 3..(NCLASSES - 1) /\ ClassSize(result') = 4 * p + j * p
  <2>1. CASE j = 4
    <3>1. k + 1 \in 5..(W - 2) /\ 0 \in 0..3 /\ (k + 1) - 2 \in 0..32 /\ (k + 1) - 2 = k - 1 /\ k - 1 \in 1..32 /\ (k - 1) - 1 = k - 2
      BY <1>2, <1>3
    <3>2. result' = 3 + 4 * ((k + 1) - 5) + 0
      BY <1>1, <1>2, <2>1
    <3>3. result' \in 3..(NCLASSES - 1) /\ ClassSize(result') = (4 + 0) * 2^((k + 1) - 2)
      BY <3>1, <3>2, QuarterSize
    <3>4. 2^(k - 1) = 2 * p
      BY <3>1, Doubles DEF p
    <3> QED BY <2>1, <3>1, <3>3, <3>4, <1>4
  <2>2. CASE j \in 0..3
    <3>1. k \in 5..(W - 2) /\ result' = 3 + 4 * (k - 5) + j
      BY <1>1, <1>2, <1>3, <2>2
    <3>2. result' \in 3..(NCLASSES - 1) /\ ClassSize(result') = (4 + j) * 2^(k - 2)
      BY <3>1, <2>2, QuarterSize
    <3> QED BY <2>2, <3>2, <1>4 DEF p
  <2> QED BY <1>7, <2>1, <2>2
<1>9. ClassSize(result' - 1) < s
  <2>1. CASE j \in 1..4
    <3>1. k \in 5..(W - 2) /\ j - 1 \in 0..3 /\ result' - 1 = 3 + 4 * (k - 5) + (j - 1)
      BY <1>1, <1>2, <1>3, <2>1
    <3>2. ClassSize(result' - 1) = (4 + (j - 1)) * 2^(k - 2)
      BY <3>1, QuarterSize
    <3>3. (4 + (j - 1)) * p = 4 * p + j * p - p
      BY <2>1, <1>4
    <3>4. j * p \in Int
      BY <2>1, <1>4
    <3> QED BY <3>2, <3>3, <3>4, <1>7, <1>4, <1>2 DEF p
  <2>2. CASE j = 0 /\ k = 5
    <3>1. result' - 1 = 2 /\ 2 \in 0..2
      BY <1>1, <2>2
    <3> QED BY <3>1, SmallSize, <1>1, <1>2 DEF Going
  <2>3. CASE j = 0 /\ k > 5
    <3>1. k - 1 \in 5..(W - 2) /\ 3 \in 0..3 /\ result' - 1 = 3 + 4 * ((k - 1) - 5) + 3 /\ (k - 1) - 2 = (k - 2) - 1 /\ k - 2 \in 1..32
      BY <1>1, <1>2, <1>3, <2>3
    <3>2. ClassSize(result' - 1) = (4 + 3) * 2^((k - 1) - 2) /\ 2^((k - 1) - 2) \in Nat
      BY <3>1, QuarterSize
    <3>3. p = 2 * 2^((k - 2) - 1)
      BY <3>1, Doubles DEF p
    <3> QED BY <3>1, <3>2, <3>3, <1>4, <1>5, <1>2
  <2> QED BY <1>3, <1>7, <2>1, <2>2, <2>3
<1>10. s <= ClassSize(result') /\ 4 * (ClassSize(result') - s) <= s
  <2>1. j * p \in Int
    BY <1>4, <1>7
  <2> QED BY <2>1, <1>2, <1>4, <1>5, <1>7, <1>8
<1>11. Smallest(result', s) /\ 4 * (ClassSize(result') - s) <= s
  <2>1. result' \in 0..(NCLASSES - 1)
    BY <1>8, WidthAssumption DEF NCLASSES
  <2> QED BY <2>1, <1>9, <1>10 DEF Smallest
<1>12. Done'
  BY <1>1, <1>11 DEF Going, Done, Smallest, ClassSize, NCLASSES, Add, Shl, Wrapped
<1> QED BY <1>1, <1>12 DEF SizeInv

LEMMA SizeSteps == SizeInv /\ [Next]_vars => SizeInv'
<1> SUFFICES ASSUME SizeInv, [Next]_vars PROVE SizeInv'
  OBVIOUS
<1>1. CASE Next
  BY <1>1, SmallStep, LoopStep, QuarterStep DEF Next
<1>2. CASE UNCHANGED vars
  BY <1>2 DEF vars, SizeInv, Going, Done, Smallest, ClassSize, NCLASSES, RoundUp, Add, Shl, Wrapped
<1> QED BY <1>1, <1>2

-----------------------------------------------------------------------------
\* What class_of returns is a class the heap has, and the smallest that holds
\* the request: exactly the classes from it on do (class_of and class_size in
\* heap.aipl).  raw takes a block of that class for the request, and free_raw
\* puts the block on that class's list again.
THEOREM SmallestClassFound == Spec => []SmallestClass
<1>1. SizeInv => SmallestClass
  <2> SUFFICES ASSUME SizeInv, pc = "done"
               PROVE  /\ result \in 0..(NCLASSES - 1)
                      /\ \A c \in 0..(NCLASSES - 1) : ClassSize(c) >= n <=> c >= result
    BY DEF SmallestClass
  <2>1. s = RoundUp(n) /\ Smallest(result, s)
    BY DEF SizeInv, Done
  <2>2. n \in Nat /\ s \in Nat /\ s % 8 = 0 /\ n <= s /\ s <= n + 7
    BY <2>1, Requested
  <2>3. \A c \in 0..(NCLASSES - 1) : ClassSize(c) >= n <=> c >= result
    BY <2>1, <2>2, SmallestHolds
  <2> QED BY <2>1, <2>3 DEF Smallest
<1> QED BY <1>1, SizeStarts, SizeSteps, PTL DEF Spec

\* "so at most a quarter is spare" (heap.aipl:20-22): of the words asked for.
THEOREM QuarterSpareAtMost == Spec => []AtMostAQuarterSpare
<1>1. SizeInv => AtMostAQuarterSpare
  BY DEF SizeInv, Done, AtMostAQuarterSpare
<1> QED BY <1>1, SizeStarts, SizeSteps, PTL DEF Spec

\* What Heap assumes of its classes: they rise, in whole words that an i32 can
\* say, and every request that raw accepts has one that holds it.
THEOREM ClassesServeTheHeap ==
  /\ \A c \in 0..(NCLASSES - 1) : ClassSize(c) \in Nat \ {0} /\ ClassSize(c) % 8 = 0 /\ ClassSize(c) < Half
  /\ \A c, d \in 0..(NCLASSES - 1) : c < d => ClassSize(c) < ClassSize(d)
  /\ \A m \in 1..Accepted : \E c \in 0..(NCLASSES - 1) : m <= ClassSize(c)
<1>1. \A c \in 0..(NCLASSES - 1) : ClassSize(c) \in Nat /\ ClassSize(c) % 8 = 0 /\ ClassSize(c) < Half
  BY WholeWords
<1>2. \A c, d \in 0..(NCLASSES - 1) : c < d => ClassSize(c) < ClassSize(d)
  BY ClassesRise
<1>3. \A c \in 0..(NCLASSES - 1) : ClassSize(c) # 0
  <2> TAKE c \in 0..(NCLASSES - 1)
  <2>1. CASE c = 0
    <3>1. 0 \in 0..2
      OBVIOUS
    <3> QED BY <2>1, <3>1, SmallSize
  <2>2. CASE c > 0
    <3>1. 0 \in 0..(NCLASSES - 1)
      BY WidthAssumption DEF NCLASSES
    <3> QED BY <2>2, <3>1, <1>1, <1>2
  <2> QED BY <2>1, <2>2
<1>4. ASSUME NEW m \in 1..Accepted PROVE \E c \in 0..(NCLASSES - 1) : m <= ClassSize(c)
  <2>1. W - 2 \in 5..(W - 2) /\ 3 \in 0..3 /\ (W - 2) - 2 = W - 4
    BY WidthAssumption
  <2> DEFINE c == 3 + 4 * ((W - 2) - 5) + 3
  <2>2. c \in 3..(NCLASSES - 1) /\ ClassSize(c) = (4 + 3) * 2^((W - 2) - 2)
    BY <2>1, QuarterSize
  <2>3. c \in 0..(NCLASSES - 1) /\ m <= ClassSize(c)
    BY <2>1, <2>2, Widths, WidthAssumption DEF NCLASSES
  <2> QED BY <2>3
<1> QED BY <1>1, <1>2, <1>3, <1>4
=============================================================================
