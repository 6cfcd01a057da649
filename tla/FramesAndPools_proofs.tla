----------------------- MODULE FramesAndPools_proofs -----------------------
(***************************************************************************)
(* Proofs about the two parts that have data and no goroutines of their    *)
(* own: the frame codecs, for bytes of any size, any codecs and any        *)
(* messages, and the byte pools, for pools of any size.                    *)
(***************************************************************************)
EXTENDS FrameCodec, BytesPool, SequenceTheorems, WellFoundedInduction, TLAPS

-----------------------------------------------------------------------------
(* FrameCodec: length fields.                                              *)

\* What CodecAssumption says of a byte: it has at least two bits.
LEMMA BaseFacts ==
  /\ Base \in Nat \ {0} /\ Base = 2 * Half /\ Half \in Nat /\ Half > 1
BY CodecAssumption DEF Half

\* Division with remainder.
LEMMA Division ==
  ASSUME NEW n \in Int, NEW m \in Nat \ {0}
  PROVE  n \div m \in Int /\ n % m \in 0 .. m - 1 /\ n = (n \div m) * m + (n % m)
OBVIOUS

\* Division with remainder of a number that is not negative.
LEMMA NatDivision ==
  ASSUME NEW n \in Nat, NEW m \in Nat \ {0}
  PROVE  n \div m \in Nat /\ n % m \in Nat /\ n % m < m /\ n = (n \div m) * m + (n % m)
OBVIOUS

\* A number below the product of k and m has less than k multiples of m.
LEMMA Quotient ==
  ASSUME NEW n \in Nat, NEW m \in Nat \ {0}, NEW k \in Nat, n < k * m
  PROVE  n \div m \in Nat /\ n \div m < k
<1> DEFINE q == n \div m
<1>1. q \in Nat /\ n % m \in Nat /\ n = q * m + (n % m)
  BY NatDivision
<1> HIDE DEF q
<1>2. ASSUME q >= k PROVE FALSE
  <2>1. q * m >= k * m
    BY <1>1, <1>2
  <2>2. QED
    BY <1>1, <2>1
<1>3. QED
  BY <1>1, <1>2 DEF q

\* The remainder of a number that is small enough is the number.
LEMMA SmallRemainder ==
  ASSUME NEW n \in Nat, NEW m \in Nat \ {0}, n < m
  PROVE  n % m = n
OBVIOUS

\* What a sum is without one of its parts.
LEMMA Difference ==
  ASSUME NEW m \in Nat, NEW n \in Nat, NEW k, k = m + n
  PROVE  k - n = m
OBVIOUS

\* What is not above a number.
LEMMA NotAbove ==
  ASSUME NEW m \in Int, NEW n \in Int, m <= n
  PROVE  ~(n < m) /\ ~(m > n)
OBVIOUS

\* Three sequences are joined in either order.
LEMMA Associative == \A s, t, u \in Seq(Bytes) : (s \o t) \o u = s \o (t \o u)
BY ConcatAssociative

\* Sequences of one and two elements.
LEMMA Tuples ==
  ASSUME NEW S, NEW a \in S, NEW b \in S
  PROVE  /\ <<a>> \in Seq(S) /\ Len(<<a>>) = 1
         /\ <<a, b>> \in Seq(S) /\ Len(<<a, b>>) = 2
OBVIOUS

\* What the limits of numbers are.
LEMMA Limits ==
  /\ Base2 \in Nat \ {0} /\ Base4 \in Nat \ {0} /\ Base8 \in Nat \ {0}
  /\ IntLimit \in Nat \ {0} /\ Base8 = 2 * IntLimit
<1>1. Base2 \in Nat /\ Base2 > 0 /\ Base2 = 2 * (Half * Base)
  BY BaseFacts DEF Base2
<1>2. Base4 \in Nat /\ Base4 > 0 /\ Half * Base * Base2 \in Nat
  BY <1>1, BaseFacts DEF Base4
<1>3. Base4 = 2 * (Half * Base * Base2)
  BY <1>1, BaseFacts DEF Base4
<1> DEFINE h == Half * Base * Base2
<1>4. h \in Nat /\ Base4 = 2 * h
  BY <1>2, <1>3
<1> HIDE DEF h
<1>5. h * Base4 \in Nat /\ Base8 \in Nat /\ Base8 > 0 /\ Base8 = 2 * (h * Base4)
  BY <1>2, <1>4 DEF Base8
<1>6. IntLimit = h * Base4
  BY <1>5 DEF IntLimit
<1>7. QED
  BY <1>1, <1>2, <1>5, <1>6

\* An int64 is an integer, and a number that has room in it stays what it is.
LEMMA Int64Facts ==
  ASSUME NEW n \in Int
  PROVE  Int64(n) \in Int /\ (n \in 0 .. IntLimit - 1 => Int64(n) = n)
<1> DEFINE m == 2 * IntLimit
<1>1. m \in Nat \ {0} /\ IntLimit \in Nat
  BY Limits
<1>2. n + IntLimit \in Int
  BY <1>1
<1>3. (n + IntLimit) % m \in Int
  BY <1>1, <1>2, Division
<1>4. ASSUME n \in 0 .. IntLimit - 1 PROVE (n + IntLimit) % m = n + IntLimit
  <2>1. n + IntLimit \in Nat /\ n + IntLimit < m
    BY <1>1, <1>4
  <2> HIDE DEF m
  <2>2. QED
    BY <1>1, <2>1, SmallRemainder
<1>5. Int64(n) = ((n + IntLimit) % m) - IntLimit
  BY DEF Int64
<1> HIDE DEF m
<1>6. QED
  BY <1>1, <1>3, <1>4, <1>5

\* A number of two bytes has two digits.
LEMMA Digits2Type ==
  ASSUME NEW n \in Int
  PROVE  Digits2(n) \in Seq(Bytes) /\ Len(Digits2(n)) = 2
<1>1. n \div Base \in Int /\ n % Base \in Bytes
  BY BaseFacts, Division DEF Bytes
<1>2. (n \div Base) % Base \in Bytes
  BY <1>1, BaseFacts, Division DEF Bytes
<1>3. QED
  BY <1>1, <1>2, Tuples DEF Digits2

\* What lies before the joint of two sequences is the first of them,
LEMMA StartLemma ==
  ASSUME NEW S, NEW a \in Seq(S), NEW b \in Seq(S)
  PROVE  SubSeq(a \o b, 1, Len(a)) = a
<1> DEFINE e == a \o b
           m == Len(a)
           n == Len(b)
           z == SubSeq(e, 1, m)
<1>1. m \in Nat /\ n \in Nat
  OBVIOUS
<1>2. e \in Seq(S) /\ Len(e) = m + n
      /\ \A i \in 1 .. m + n : e[i] = IF i <= m THEN a[i] ELSE b[i - m]
  BY ConcatProperties
<1> HIDE DEF e
<1>3. z \in Seq(S) /\ Len(z) = m /\ \A i \in 1 .. m : z[i] = e[i]
  BY <1>1, <1>2
<1> HIDE DEF z
<1>4. \A i \in 1 .. m : z[i] = a[i]
  <2> HIDE DEF m, n
  <2>1. \A i \in 1 .. m : i \in 1 .. m + n /\ i <= m
    BY <1>1
  <2>2. QED
    BY <1>2, <1>3, <2>1
<1>5. z = a
  BY <1>3, <1>4, SeqEqual
<1>6. QED
  BY <1>5 DEF z, e, m

\* and what lies behind it the second.
LEMMA EndLemma ==
  ASSUME NEW S, NEW a \in Seq(S), NEW b \in Seq(S)
  PROVE  SubSeq(a \o b, Len(a) + 1, Len(a) + Len(b)) = b
<1> DEFINE e == a \o b
           m == Len(a)
           n == Len(b)
           z == SubSeq(e, m + 1, m + n)
<1>1. m \in Nat /\ n \in Nat
  OBVIOUS
<1>2. e \in Seq(S) /\ Len(e) = m + n
      /\ \A i \in 1 .. m + n : e[i] = IF i <= m THEN a[i] ELSE b[i - m]
  BY ConcatProperties
<1> HIDE DEF e
<1>3. z \in Seq(S) /\ Len(z) = n /\ \A i \in 1 .. n : z[i] = e[m + i]
  BY <1>1, <1>2
<1> HIDE DEF z
<1>4. \A i \in 1 .. n : z[i] = b[i]
  <2> HIDE DEF m, n
  <2>1. \A i \in 1 .. n : m + i \in 1 .. m + n /\ ~(m + i <= m) /\ (m + i) - m = i
    BY <1>1
  <2>2. QED
    BY <1>2, <1>3, <2>1
<1>5. z = b
  BY <1>3, <1>4, SeqEqual
<1>6. QED
  BY <1>5 DEF z, e, m, n

\* Two halves of a length field are one.
LEMMA Halves ==
  ASSUME NEW s \in Seq(Bytes), NEW t \in Seq(Bytes)
  PROVE  /\ s \o t \in Seq(Bytes) /\ Len(s \o t) = Len(s) + Len(t)
         /\ SubSeq(s \o t, 1, Len(s)) = s /\ SubSeq(s \o t, Len(s) + 1, Len(s) + Len(t)) = t
<1>1. s \o t \in Seq(Bytes) /\ Len(s \o t) = Len(s) + Len(t)
  BY ConcatProperties, Zenon
<1>2. SubSeq(s \o t, 1, Len(s)) = s /\ SubSeq(s \o t, Len(s) + 1, Len(s) + Len(t)) = t
  BY StartLemma, EndLemma, Zenon
<1>3. QED
  BY <1>1, <1>2, Zenon

\* A number of four bytes has the digits of its halves,
LEMMA Digits4Type ==
  ASSUME NEW n \in Int
  PROVE  /\ Digits4(n) \in Seq(Bytes) /\ Len(Digits4(n)) = 4
         /\ SubSeq(Digits4(n), 1, 2) = Digits2(n \div Base2)
         /\ SubSeq(Digits4(n), 3, 4) = Digits2(n % Base2)
<1> DEFINE s == Digits2(n \div Base2)
           t == Digits2(n % Base2)
           u == Digits4(n)
<1>1. n \div Base2 \in Int /\ n % Base2 \in Int
  BY Limits, Division
<1>2. s \in Seq(Bytes) /\ Len(s) = 2 /\ t \in Seq(Bytes) /\ Len(t) = 2
  BY <1>1, Digits2Type
<1>3. u = s \o t
  BY DEF Digits4
<1> SUFFICES /\ u \in Seq(Bytes) /\ Len(u) = 4 /\ SubSeq(u, 1, 2) = s /\ SubSeq(u, 3, 4) = t
  OBVIOUS
<1> HIDE DEF s, t, u
<1>4. /\ u \in Seq(Bytes) /\ Len(u) = Len(s) + Len(t)
      /\ SubSeq(u, 1, Len(s)) = s /\ SubSeq(u, Len(s) + 1, Len(s) + Len(t)) = t
  BY <1>2, <1>3, Halves, Zenon
<1>5. Len(s) + 1 = 3 /\ Len(s) + Len(t) = 4
  BY <1>2
<1>6. QED
  BY <1>2, <1>4, <1>5, Zenon

\* and so has one of eight bytes.
LEMMA Digits8Type ==
  ASSUME NEW n \in Int
  PROVE  /\ Digits8(n) \in Seq(Bytes) /\ Len(Digits8(n)) = 8
         /\ SubSeq(Digits8(n), 1, 4) = Digits4(n \div Base4)
         /\ SubSeq(Digits8(n), 5, 8) = Digits4(n % Base4)
<1> DEFINE s == Digits4(n \div Base4)
           t == Digits4(n % Base4)
           u == Digits8(n)
<1>1. n \div Base4 \in Int /\ n % Base4 \in Int
  BY Limits, Division
<1>2. s \in Seq(Bytes) /\ Len(s) = 4 /\ t \in Seq(Bytes) /\ Len(t) = 4
  BY <1>1, Digits4Type
<1>3. u = s \o t
  BY DEF Digits8
<1> SUFFICES /\ u \in Seq(Bytes) /\ Len(u) = 8 /\ SubSeq(u, 1, 4) = s /\ SubSeq(u, 5, 8) = t
  OBVIOUS
<1> HIDE DEF s, t, u
<1>4. /\ u \in Seq(Bytes) /\ Len(u) = Len(s) + Len(t)
      /\ SubSeq(u, 1, Len(s)) = s /\ SubSeq(u, Len(s) + 1, Len(s) + Len(t)) = t
  BY <1>2, <1>3, Halves, Zenon
<1>5. Len(s) + 1 = 5 /\ Len(s) + Len(t) = 8
  BY <1>2
<1>6. QED
  BY <1>2, <1>4, <1>5, Zenon

\* A length field has the width it should have.
LEMMA DigitsType ==
  ASSUME NEW width \in {1, 2, 4, 8}, NEW n \in Int
  PROVE  Digits(width, n) \in Seq(Bytes) /\ Len(Digits(width, n)) = width
<1>1. CASE width = 1
  <2>1. n % Base \in Bytes
    BY BaseFacts, Division DEF Bytes
  <2>2. QED
    BY <1>1, <2>1, Tuples DEF Digits
<1>2. CASE width = 2
  BY <1>2, Digits2Type DEF Digits
<1>3. CASE width = 4
  BY <1>3, Digits4Type DEF Digits
<1>4. CASE width = 8
  BY <1>4, Digits8Type DEF Digits
<1>5. QED
  BY <1>1, <1>2, <1>3, <1>4

\* A number and a digit, or two halves of a number, are a number.
LEMMA NextDigit ==
  ASSUME NEW x \in Nat, NEW y \in Nat, NEW m \in Nat
  PROVE  x * m + y \in Nat
<1>1. x * m \in Nat
  OBVIOUS
<1>2. QED
  BY <1>1

\* Digits are numbers.
LEMMA DigitNat ==
  ASSUME NEW d \in Seq(Bytes), NEW i \in 1 .. Len(d)
  PROVE  d[i] \in Nat
<1>1. d[i] \in Bytes
  OBVIOUS
<1>2. QED
  BY <1>1, BaseFacts DEF Bytes

\* What two digits mean is a number,
LEMMA Value2Type ==
  ASSUME NEW d \in Seq(Bytes), Len(d) = 2
  PROVE  Value2(d) \in Nat
<1>1. d[1] \in Nat /\ d[2] \in Nat /\ Base \in Nat
  <2>1. 1 \in 1 .. Len(d) /\ 2 \in 1 .. Len(d)
    OBVIOUS
  <2>2. QED
    BY <2>1, BaseFacts, DigitNat
<1>2. QED
  BY <1>1, NextDigit, Zenon DEF Value2

\* what four digits mean,
LEMMA Value4Type ==
  ASSUME NEW d \in Seq(Bytes), Len(d) = 4
  PROVE  Value4(d) \in Nat
<1>1. /\ SubSeq(d, 1, 2) \in Seq(Bytes) /\ Len(SubSeq(d, 1, 2)) = 2
      /\ SubSeq(d, 3, 4) \in Seq(Bytes) /\ Len(SubSeq(d, 3, 4)) = 2
  OBVIOUS
<1>2. Value2(SubSeq(d, 1, 2)) \in Nat /\ Value2(SubSeq(d, 3, 4)) \in Nat /\ Base2 \in Nat
  BY <1>1, Value2Type, Limits
<1>3. QED
  BY <1>2, NextDigit, Zenon DEF Value4

\* and what eight digits mean before they are taken for an int64.
LEMMA Value8Type ==
  ASSUME NEW d \in Seq(Bytes), Len(d) = 8
  PROVE  Value8(d) \in Nat
<1>1. /\ SubSeq(d, 1, 4) \in Seq(Bytes) /\ Len(SubSeq(d, 1, 4)) = 4
      /\ SubSeq(d, 5, 8) \in Seq(Bytes) /\ Len(SubSeq(d, 5, 8)) = 4
  <2>1. SubSeq(d, 1, 4) \in Seq(Bytes) /\ Len(SubSeq(d, 1, 4)) = 4
    BY SubSeqProperties
  <2>2. SubSeq(d, 5, 8) \in Seq(Bytes) /\ Len(SubSeq(d, 5, 8)) = 4
    <3>1. \A i \in 5 .. 8 : d[i] \in Bytes
      OBVIOUS
    <3> DEFINE t == SubSeq(d, 5, 8)
    <3>2. t \in Seq(Bytes) /\ Len(t) = IF 5 <= 8 THEN 8 - 5 + 1 ELSE 0
      BY <3>1, SubSeqProperties
    <3> HIDE DEF t
    <3>3. t \in Seq(Bytes) /\ Len(t) = 4
      BY <3>2
    <3>4. QED
      BY <3>3 DEF t
  <2>3. QED
    BY <2>1, <2>2
<1>2. Value4(SubSeq(d, 1, 4)) \in Nat /\ Value4(SubSeq(d, 5, 8)) \in Nat /\ Base4 \in Nat
  BY <1>1, Value4Type, Limits
<1>3. QED
  BY <1>2, NextDigit, Zenon DEF Value8

\* What digits mean is an integer.
LEMMA ValueType ==
  ASSUME NEW d \in Seq(Bytes), Len(d) \in {1, 2, 4, 8}
  PROVE  Value(d) \in Int
<1>1. CASE Len(d) = 1
  <2>1. 1 \in 1 .. Len(d)
    BY <1>1
  <2>2. d[1] \in Nat
    BY <2>1, DigitNat
  <2>3. QED
    BY <1>1, <2>2 DEF Value
<1>2. CASE Len(d) = 2
  BY <1>2, Value2Type DEF Value
<1>3. CASE Len(d) = 4
  BY <1>3, Value4Type DEF Value
<1>4. CASE Len(d) = 8
  <2>1. Value8(d) \in Int
    BY <1>4, Value8Type
  <2>2. QED
    BY <1>4, <2>1, Int64Facts DEF Value
<1>5. QED
  BY <1>1, <1>2, <1>3, <1>4

\* A number of two bytes is what its digits mean,
LEMMA Digits2Value ==
  ASSUME NEW n \in Nat, n < Base2
  PROVE  Value2(Digits2(n)) = n
<1> DEFINE q == n \div Base
           r == n % Base
<1>1. q \in Nat /\ r \in Nat /\ n = q * Base + r
  BY BaseFacts, NatDivision
<1>2. q < Base
  BY BaseFacts, Quotient DEF Base2
<1>3. q % Base = q
  <2> HIDE DEF q
  <2>1. QED
    BY <1>1, <1>2, BaseFacts, SmallRemainder
<1>4. Digits2(n) = <<q, r>>
  BY <1>3 DEF Digits2
<1> HIDE DEF q, r
<1>5. Value2(Digits2(n)) = q * Base + r
  BY <1>4 DEF Value2
<1>6. QED
  BY <1>1, <1>5

\* one of four bytes,
LEMMA Digits4Value ==
  ASSUME NEW n \in Nat, n < Base4
  PROVE  Value4(Digits4(n)) = n
<1> DEFINE q == n \div Base2
           r == n % Base2
<1>1. q \in Nat /\ r \in Nat /\ r < Base2 /\ n = q * Base2 + r
  BY Limits, NatDivision
<1>2. q < Base2
  BY Limits, Quotient DEF Base4
<1> HIDE DEF q, r
<1>3. SubSeq(Digits4(n), 1, 2) = Digits2(q) /\ SubSeq(Digits4(n), 3, 4) = Digits2(r)
  BY Digits4Type DEF q, r
<1>4. Value4(Digits4(n)) = q * Base2 + r
  BY <1>1, <1>2, <1>3, Digits2Value DEF Value4
<1>5. QED
  BY <1>1, <1>4

\* and one of eight bytes.
LEMMA Digits8Value ==
  ASSUME NEW n \in Nat, n < Base8
  PROVE  Value8(Digits8(n)) = n
<1> DEFINE q == n \div Base4
           r == n % Base4
<1>1. q \in Nat /\ r \in Nat /\ r < Base4 /\ n = q * Base4 + r
  BY Limits, NatDivision
<1>2. q < Base4
  BY Limits, Quotient DEF Base8
<1> HIDE DEF q, r
<1>3. SubSeq(Digits8(n), 1, 4) = Digits4(q) /\ SubSeq(Digits8(n), 5, 8) = Digits4(r)
  BY Digits8Type DEF q, r
<1>4. Value8(Digits8(n)) = q * Base4 + r
  BY <1>1, <1>2, <1>3, Digits4Value DEF Value8
<1>5. QED
  BY <1>1, <1>4

\* A number is what its digits mean, if they are enough.
LEMMA DigitsValue ==
  ASSUME NEW c, c.width \in {1, 2, 4, 8}, NEW n \in Nat, n < FieldLimit(c)
  PROVE  Value(Digits(c.width, n)) = n
<1>1. CASE c.width = 1
  <2>1. n < Base
    BY <1>1 DEF FieldLimit
  <2>2. Digits(c.width, n) = <<n>>
    BY <1>1, <2>1, BaseFacts, SmallRemainder DEF Digits
  <2>3. QED
    BY <2>2 DEF Value
<1>2. CASE c.width = 2
  <2>1. n < Base2 /\ Digits(c.width, n) = Digits2(n)
    BY <1>2 DEF FieldLimit, Digits
  <2>2. QED
    <3>1. Len(Digits2(n)) = 2 /\ Value2(Digits2(n)) = n
      BY <2>1, Digits2Type, Digits2Value
    <3>2. QED
      BY <2>1, <3>1 DEF Value
<1>3. CASE c.width = 4
  <2>1. n < Base4 /\ Digits(c.width, n) = Digits4(n)
    BY <1>3 DEF FieldLimit, Digits
  <2>2. QED
    <3>1. Len(Digits4(n)) = 4 /\ Value4(Digits4(n)) = n
      BY <2>1, Digits4Type, Digits4Value
    <3>2. QED
      BY <2>1, <3>1 DEF Value
<1>4. CASE c.width = 8
  <2>1. n < IntLimit /\ Digits(c.width, n) = Digits8(n)
    BY <1>4 DEF FieldLimit, Digits
  <2>2. n < Base8 /\ n \in 0 .. IntLimit - 1
    BY <2>1, Limits
  <2>3. Len(Digits8(n)) = 8 /\ Value8(Digits8(n)) = n
    BY <2>2, Digits8Type, Digits8Value
  <2>4. Value(Digits8(n)) = Int64(n)
    BY <2>3 DEF Value
  <2>5. Int64(n) = n
    BY <2>2, Int64Facts
  <2>6. QED
    BY <2>1, <2>4, <2>5
<1>5. QED
  BY <1>1, <1>2, <1>3, <1>4

\* Reversed twice a sequence is as it was.
LEMMA ReverseLemma ==
  ASSUME NEW S, NEW s \in Seq(S)
  PROVE  Reverse(s) \in Seq(S) /\ Len(Reverse(s)) = Len(s) /\ Reverse(Reverse(s)) = s
<1> DEFINE t == Reverse(s)
<1>1. t \in Seq(S) /\ Len(t) = Len(s) /\ \A i \in 1 .. Len(s) : t[i] = s[(Len(s) - i) + 1]
  BY DEF Reverse
<1> HIDE DEF t
<1>2. /\ Reverse(t) \in Seq(S) /\ Len(Reverse(t)) = Len(s)
      /\ \A i \in 1 .. Len(s) : Reverse(t)[i] = t[(Len(s) - i) + 1]
  BY <1>1 DEF Reverse
<1>3. \A i \in 1 .. Len(s) : Reverse(t)[i] = s[i]
  <2>1. \A i \in 1 .. Len(s) : (Len(s) - i) + 1 \in 1 .. Len(s)
                               /\ (Len(s) - ((Len(s) - i) + 1)) + 1 = i
    OBVIOUS
  <2>2. QED
    BY <1>1, <1>2, <2>1
<1>4. Reverse(t) = s
  BY <1>2, <1>3, SeqEqual
<1>5. QED
  BY <1>1, <1>4 DEF t

\* A length field is as wide as it should be,
LEMMA PackType ==
  ASSUME NEW c \in LengthFieldCodec, NEW n \in Int
  PROVE  Pack(c, n) \in Seq(Bytes) /\ Len(Pack(c, n)) = c.width
<1>1. c.width \in {1, 2, 4, 8}
  BY DEF LengthFieldCodec
<1>2. Digits(c.width, n) \in Seq(Bytes) /\ Len(Digits(c.width, n)) = c.width
  BY <1>1, DigitsType
<1>3. /\ Reverse(Digits(c.width, n)) \in Seq(Bytes)
      /\ Len(Reverse(Digits(c.width, n))) = c.width
  BY <1>2, ReverseLemma
<1>4. QED
  BY <1>2, <1>3 DEF Pack

\* is read as an integer,
LEMMA UnpackType ==
  ASSUME NEW c \in LengthFieldCodec, NEW bs \in Seq(Bytes), Len(bs) = c.width
  PROVE  Unpack(c, bs) \in Int
<1>1. c.width \in {1, 2, 4, 8}
  BY DEF LengthFieldCodec
<1>2. QED
  BY <1>1, ValueType, ReverseLemma DEF Unpack

\* and is read as the number that was written if that has room.
LEMMA UnpackPack ==
  ASSUME NEW c \in LengthFieldCodec, NEW n \in Nat, n < FieldLimit(c)
  PROVE  Unpack(c, Pack(c, n)) = n
<1>1. c.width \in {1, 2, 4, 8}
  BY DEF LengthFieldCodec
<1>2. Value(Digits(c.width, n)) = n
  BY <1>1, DigitsValue
<1>3. Reverse(Reverse(Digits(c.width, n))) = Digits(c.width, n)
  BY <1>1, DigitsType, ReverseLemma
<1>4. QED
  BY <1>2, <1>3 DEF Unpack, Pack

-----------------------------------------------------------------------------
(* Recursive functions.                                                    *)

\* A set of numbers that has one has a smallest.
LEMMA NatMin ==
  ASSUME NEW T \in SUBSET Nat, T # {}
  PROVE  \E x \in T : \A y \in T : ~(y < x)
<1> DEFINE R == {ss \in Nat \X Nat : ss[1] < ss[2]}
<1>1. IsWellFoundedOn(R, Nat)
  BY NatLessThanWellFounded DEF OpToRel
<1>2. PICK x \in T : \A y \in T : ~(<<y, x>> \in R)
  BY <1>1, WFMin
<1>3. QED
  BY <1>2

\* Induction over D by a measure of its elements, one of which is smaller than
\* any one of D that is not in P.
LEMMA MeasureInduction ==
  ASSUME NEW D, NEW P \in SUBSET D, NEW m \in [D -> Nat],
         \A d \in D : (\A e \in D : m[e] < m[d] => e \in P) => d \in P
  PROVE  P = D
<1> DEFINE T == {m[d] : d \in D \ P}
<1>1. SUFFICES ASSUME T # {} PROVE FALSE
  OBVIOUS
<1>2. PICK x \in T : \A y \in T : ~(y < x)
  <2>1. T \in SUBSET Nat
    OBVIOUS
  <2> HIDE DEF T
  <2>2. QED
    BY <1>1, <2>1, NatMin
<1>3. PICK d \in D \ P : x = m[d]
  BY <1>2
<1>4. \A e \in D : m[e] < m[d] => e \in P
  BY <1>2, <1>3
<1>5. QED
  BY <1>3, <1>4

\* A function that is base on B, and that takes step of its argument and of its
\* value for a smaller argument, prev, everywhere else.
Recursion(f, D, B, base, prev, step) ==
  f = [d \in D |-> IF d \in B THEN base[d] ELSE step[<<d, f[prev[d]]>>]]

\* There is one.
LEMMA RecursionExists ==
  ASSUME NEW D, NEW S, NEW B, NEW base \in [D -> S], NEW prev \in [D -> D],
         NEW step \in [D \X S -> S], NEW m \in [D -> Nat],
         \A d \in D \ B : m[prev[d]] < m[d]
  PROVE  \E f \in [D -> S] : Recursion(f, D, B, base, prev, step)
<1> DEFINE Next1(g, d) == IF d \in B THEN base[d] ELSE step[<<d, g[prev[d]]>>]
           Below(n) == {d \in D : m[d] < n}
           Solves(g, n) == g \in [D -> S] /\ \A d \in Below(n) : g[d] = Next1(g, d)
<1>1. ASSUME NEW n \in Nat PROVE \E g : Solves(g, n)
  <2> DEFINE Q == {k \in Nat : \E g : Solves(g, k)}
  <2>1. ASSUME NEW k \in Nat, \A j \in Nat : j < k => j \in Q PROVE k \in Q
    <3>1. CASE k = 0
      <4>1. Below(0) = {}
        OBVIOUS
      <4>2. Solves(base, 0)
        BY <4>1
      <4>3. QED
        BY <3>1, <4>2
    <3>2. CASE k # 0
      <4>1. k - 1 \in Nat /\ k - 1 < k
        BY <3>2
      <4>2. PICK g : Solves(g, k - 1)
        BY <2>1, <4>1
      <4> DEFINE h == [d \in D |-> IF m[d] = k - 1 THEN Next1(g, d) ELSE g[d]]
      <4>3. h \in [D -> S]
        BY <4>2
      <4>4. ASSUME NEW d \in Below(k) PROVE h[d] = Next1(h, d)
        <5>1. m[d] \in Nat /\ (m[d] = k - 1 \/ d \in Below(k - 1)) /\ d \in D
          BY <4>1
        <5>2. h[d] = Next1(g, d)
          BY <4>2, <5>1
        <5>3. CASE d \in B
          BY <5>2, <5>3
        <5>4. CASE d \notin B
          <6>1. m[prev[d]] < m[d] /\ prev[d] \in D /\ m[prev[d]] \in Nat
            BY <5>1, <5>4
          <6>2. m[prev[d]] # k - 1
            BY <4>1, <5>1, <6>1
          <6>3. h[prev[d]] = g[prev[d]]
            BY <6>1, <6>2
          <6>4. QED
            BY <5>2, <5>4, <6>3
        <5>5. QED
          BY <5>3, <5>4
      <4> HIDE DEF h
      <4>5. Solves(h, k)
        BY <4>3, <4>4
      <4>6. QED
        BY <4>5
    <3>3. QED
      BY <3>1, <3>2
  <2> HIDE DEF Solves
  <2>2. Q = Nat
    <3>1. SUFFICES ASSUME Nat \ Q # {} PROVE FALSE
      OBVIOUS
    <3> HIDE DEF Q
    <3>2. Nat \ Q \in SUBSET Nat
      OBVIOUS
    <3>3. PICK k \in Nat \ Q : \A j \in Nat \ Q : ~(j < k)
      BY <3>1, <3>2, NatMin
    <3>4. QED
      BY <2>1, <3>3
  <2>3. QED
    BY <2>2
<1>2. ASSUME NEW n \in Nat, NEW k \in Nat, NEW g, NEW h, Solves(g, n), Solves(h, k),
             NEW d \in D, m[d] < n, m[d] < k
      PROVE  g[d] = h[d]
  <2> DEFINE Q == {e \in D : m[e] < n /\ m[e] < k => g[e] = h[e]}
  <2>1. ASSUME NEW e \in D, \A c \in D : m[c] < m[e] => c \in Q PROVE e \in Q
    <3>1. SUFFICES ASSUME m[e] < n, m[e] < k PROVE g[e] = h[e]
      OBVIOUS
    <3>2. g[e] = Next1(g, e) /\ h[e] = Next1(h, e)
      BY <1>2, <3>1
    <3>3. CASE e \in B
      BY <3>2, <3>3
    <3>4. CASE e \notin B
      <4>1. prev[e] \in D /\ m[prev[e]] < m[e] /\ m[prev[e]] \in Nat /\ m[e] \in Nat
        BY <3>4
      <4>2. m[prev[e]] < n /\ m[prev[e]] < k /\ prev[e] \in Q
        BY <2>1, <3>1, <4>1
      <4>3. g[prev[e]] = h[prev[e]]
        BY <4>2
      <4>4. QED
        BY <3>2, <3>4, <4>3
    <3>5. QED
      BY <3>3, <3>4
  <2>2. Q = D
    <3> HIDE DEF Q
    <3>1. Q \in SUBSET D
      BY DEF Q
    <3>2. QED
      BY <2>1, <3>1, MeasureInduction
  <2>3. QED
    BY <1>2, <2>2
<1> DEFINE some == [n \in Nat |-> CHOOSE g : Solves(g, n)]
           f == [d \in D |-> some[m[d] + 1][d]]
<1>3. \A n \in Nat : Solves(some[n], n)
  <2> HIDE DEF Solves
  <2>1. QED
    BY <1>1
<1> HIDE DEF some
<1>4. f \in [D -> S]
  <2>1. \A d \in D : m[d] + 1 \in Nat
    OBVIOUS
  <2>2. \A d \in D : some[m[d] + 1] \in [D -> S]
    BY <1>3, <2>1
  <2>3. QED
    BY <2>2
<1>5. ASSUME NEW d \in D PROVE f[d] = Next1(f, d)
  <2>1. m[d] + 1 \in Nat /\ m[d] < m[d] + 1 /\ m[d] \in Nat
    OBVIOUS
  <2>2. f[d] = Next1(some[m[d] + 1], d)
    BY <1>3, <2>1
  <2>3. CASE d \in B
    BY <2>2, <2>3
  <2>4. CASE d \notin B
    <3> DEFINE e == prev[d]
    <3>1. e \in D /\ m[e] < m[d] /\ m[e] \in Nat /\ m[e] + 1 \in Nat /\ m[e] < m[e] + 1
          /\ m[e] < m[d] + 1
      BY <2>1, <2>4
    <3>2. Solves(some[m[d] + 1], m[d] + 1) /\ Solves(some[m[e] + 1], m[e] + 1)
      BY <1>3, <2>1, <3>1
    <3>3. some[m[e] + 1][e] = some[m[d] + 1][e]
      <4> HIDE DEF Solves, e
      <4>1. QED
        BY <1>2, <2>1, <3>1, <3>2
    <3>4. f[e] = some[m[d] + 1][e]
      BY <3>1, <3>3
    <3>5. QED
      BY <2>2, <2>4, <3>4
  <2>5. QED
    BY <2>3, <2>4
<1> HIDE DEF f
<1>6. f = [d \in D |-> Next1(f, d)]
  BY <1>4, <1>5
<1>7. QED
  BY <1>4, <1>6 DEF Recursion

-----------------------------------------------------------------------------
(* Variable-length numbers.                                                *)

\* PutUvarint is what its definition says.
LEMMA PutUvarintDef ==
  PutUvarint = [n \in Nat |-> IF n < Half THEN <<n>>
                              ELSE <<(n % Half) + Half>> \o PutUvarint[n \div Half]]
<1> DEFINE base == [n \in Nat |-> IF n < Half THEN <<n>> ELSE <<>>]
           prev == [n \in Nat |-> n \div Half]
           step == [p \in Nat \X Seq(Bytes) |-> <<(p[1] % Half) + Half>> \o p[2]]
           m == [n \in Nat |-> n]
           B == {n \in Nat : n < Half}
<1>1. /\ Half \in Nat \ {0} /\ Half > 1 /\ Base = 2 * Half /\ Bytes = 0 .. Base - 1
  BY BaseFacts DEF Bytes
<1>2. base \in [Nat -> Seq(Bytes)]
  <2>1. ASSUME NEW n \in Nat PROVE (IF n < Half THEN <<n>> ELSE <<>>) \in Seq(Bytes)
    <3>1. CASE n < Half
      <4>1. n \in Bytes
        BY <1>1, <3>1
      <4>2. <<n>> \in Seq(Bytes)
        BY <4>1
      <4>3. QED
        BY <3>1, <4>2
    <3>2. CASE ~(n < Half)
      BY <3>2
    <3>3. QED
      BY <3>1, <3>2
  <2>2. QED
    BY <2>1
<1>3. prev \in [Nat -> Nat]
  BY <1>1, NatDivision
<1>4. step \in [Nat \X Seq(Bytes) -> Seq(Bytes)]
  <2>1. ASSUME NEW n \in Nat, NEW s \in Seq(Bytes) PROVE <<(n % Half) + Half>> \o s \in Seq(Bytes)
    <3>1. (n % Half) + Half \in Bytes
      BY <1>1, NatDivision
    <3>2. QED
      BY <3>1
  <2>2. QED
    BY <2>1
<1>5. \A n \in Nat \ B : prev[n] < n
  <2>1. ASSUME NEW n \in Nat, n >= Half PROVE n \div Half < n
    <3> DEFINE q == n \div Half
    <3>1. q \in Nat /\ n % Half \in Nat /\ n = q * Half + (n % Half)
      BY <1>1, NatDivision
    <3> HIDE DEF q
    <3>2. q * 2 <= q * Half /\ q * Half \in Nat
      BY <1>1, <3>1
    <3>3. q * 2 <= n
      BY <3>1, <3>2
    <3>4. q < n
      BY <1>1, <2>1, <3>1, <3>3
    <3>5. QED
      BY <3>4 DEF q
  <2>2. QED
    BY <1>1, <2>1
<1>6. m \in [Nat -> Nat] /\ \A n \in Nat \ B : m[prev[n]] < m[n]
  BY <1>3, <1>5
<1> HIDE DEF m
<1>7. PICK f \in [Nat -> Seq(Bytes)] : Recursion(f, Nat, B, base, prev, step)
  <2> HIDE DEF B, base, prev, step
  <2>1. QED
    BY <1>2, <1>3, <1>4, <1>6, RecursionExists
<1>8. f = [n \in Nat |-> IF n < Half THEN <<n>> ELSE <<(n % Half) + Half>> \o f[n \div Half]]
  <2>1. ASSUME NEW n \in Nat
        PROVE  f[n] = IF n < Half THEN <<n>> ELSE <<(n % Half) + Half>> \o f[n \div Half]
    <3>1. f[n] = IF n \in B THEN base[n] ELSE step[<<n, f[prev[n]]>>]
      BY <1>7 DEF Recursion
    <3>2. CASE n < Half
      BY <3>1, <3>2
    <3>3. CASE ~(n < Half)
      <4>1. prev[n] = n \div Half /\ f[n \div Half] \in Seq(Bytes)
        BY <1>3, <1>7
      <4>2. f[n] = step[<<n, f[n \div Half]>>]
        BY <3>1, <3>3, <4>1
      <4>3. QED
        BY <3>3, <4>1, <4>2
    <3>4. QED
      BY <3>2, <3>3
  <2>2. QED
    BY <2>1
<1>9. QED
  BY <1>8 DEF PutUvarint

\* So is Uvarint.
LEMMA UvarintDef ==
  Uvarint = [bs \in Seq(Bytes) |->
               IF bs = <<>> THEN 0 ELSE (Head(bs) % Half) + Half * Uvarint[Tail(bs)]]
<1> DEFINE D == Seq(Bytes)
           base == [bs \in D |-> 0]
           prev == [bs \in D |-> IF bs = <<>> THEN <<>> ELSE Tail(bs)]
           step == [p \in D \X Nat |-> IF p[1] = <<>> THEN 0 ELSE (Head(p[1]) % Half) + Half * p[2]]
           m == [bs \in D |-> Len(bs)]
<1>1. /\ Half \in Nat \ {0} /\ Bytes \subseteq Nat
  BY BaseFacts DEF Bytes
<1>2. base \in [D -> Nat] /\ prev \in [D -> D] /\ m \in [D -> Nat]
  OBVIOUS
<1>3. step \in [D \X Nat -> Nat]
  <2>1. ASSUME NEW bs \in D, NEW n \in Nat, bs # <<>>
        PROVE  (Head(bs) % Half) + Half * n \in Nat
    <3>1. Head(bs) \in Nat
      <4>1. Head(bs) \in Bytes
        BY <2>1
      <4>2. QED
        BY <1>1, <4>1
    <3>2. Head(bs) % Half \in Nat
      BY <1>1, <3>1, NatDivision
    <3>3. QED
      BY <1>1, <3>2
  <2>2. QED
    BY <2>1
<1>4. \A bs \in D \ {<<>>} : m[prev[bs]] < m[bs]
  OBVIOUS
<1>5. PICK f \in [D -> Nat] : Recursion(f, D, {<<>>}, base, prev, step)
  <2> HIDE DEF D, base, prev, step, m
  <2>1. QED
    BY <1>2, <1>3, <1>4, RecursionExists
<1>6. f = [bs \in D |-> IF bs = <<>> THEN 0 ELSE (Head(bs) % Half) + Half * f[Tail(bs)]]
  <2>1. ASSUME NEW bs \in D
        PROVE  f[bs] = IF bs = <<>> THEN 0 ELSE (Head(bs) % Half) + Half * f[Tail(bs)]
    <3>1. f[bs] = IF bs \in {<<>>} THEN base[bs] ELSE step[<<bs, f[prev[bs]]>>]
      BY <1>5 DEF Recursion
    <3>2. CASE bs = <<>>
      BY <3>1, <3>2
    <3>3. CASE bs # <<>>
      <4>1. prev[bs] = Tail(bs) /\ f[Tail(bs)] \in Nat
        <5>1. Tail(bs) \in D
          BY <3>3
        <5>2. prev[bs] = Tail(bs)
          BY <3>3
        <5>3. f[Tail(bs)] \in Nat
          <6> HIDE DEF D
          <6>1. QED
            BY <1>5, <5>1
        <5>4. QED
          BY <5>2, <5>3
      <4>2. f[bs] = step[<<bs, f[Tail(bs)]>>]
        BY <3>1, <3>3, <4>1
      <4>3. QED
        BY <3>3, <4>1, <4>2
    <3>4. QED
      BY <3>2, <3>3
  <2>2. QED
    BY <2>1
<1>7. QED
  BY <1>6 DEF Uvarint

\* Any bytes are read as a number.
LEMMA UvarintType == ASSUME NEW bs \in Seq(Bytes) PROVE Uvarint[bs] \in Nat
<1> DEFINE D == Seq(Bytes)
           P == {d \in D : Uvarint[d] \in Nat}
           m == [d \in D |-> Len(d)]
<1>1. ASSUME NEW d \in D, \A e \in D : m[e] < m[d] => e \in P PROVE d \in P
  <2>1. CASE d = <<>>
    BY <2>1, UvarintDef
  <2>2. CASE d # <<>>
    <3>1. Tail(d) \in D /\ m[Tail(d)] < m[d] /\ Head(d) \in Bytes
      BY <2>2
    <3>2. Head(d) \in Nat /\ Half \in Nat \ {0}
      BY <3>1, BaseFacts DEF Bytes
    <3>3. Head(d) % Half \in Nat
      BY <3>2, NatDivision
    <3>4. Uvarint[Tail(d)] \in Nat
      <4> HIDE DEF D, m
      <4>1. Tail(d) \in P
        BY <1>1, <3>1
      <4>2. QED
        BY <4>1
    <3>5. Uvarint[d] = (Head(d) % Half) + Half * Uvarint[Tail(d)]
      BY <2>2, UvarintDef
    <3>6. QED
      BY <3>2, <3>3, <3>4, <3>5
  <2>3. QED
    BY <2>1, <2>2
<1>2. P = D
  <2>1. P \in SUBSET D /\ m \in [D -> Nat]
    OBVIOUS
  <2> HIDE DEF D, P, m
  <2>2. QED
    BY <1>1, <2>1, MeasureInduction
<1>3. QED
  BY <1>2

\* What PutUvarint writes is read as the number it was: the last byte alone has
\* nothing after it.
LEMMA UvarintPut ==
  ASSUME NEW n \in Nat
  PROVE  LET p == PutUvarint[n] IN
         /\ p \in Seq(Bytes) /\ p # <<>> /\ p[Len(p)] < Half
         /\ \A i \in 1 .. Len(p) - 1 : p[i] >= Half
         /\ Uvarint[p] = n
<1> DEFINE Good(k, p) == /\ p \in Seq(Bytes) /\ p # <<>> /\ p[Len(p)] < Half
                         /\ \A i \in 1 .. Len(p) - 1 : p[i] >= Half
                         /\ Uvarint[p] = k
           Bad == {k \in Nat : ~Good(k, PutUvarint[k])}
<1>1. /\ Half \in Nat \ {0} /\ Half > 1 /\ Base = 2 * Half /\ Bytes = 0 .. Base - 1
  BY BaseFacts DEF Bytes
<1>2. ASSUME NEW k \in Nat, \A j \in Nat : j < k => Good(j, PutUvarint[j])
      PROVE  Good(k, PutUvarint[k])
  <2> DEFINE p == PutUvarint[k]
  <2>1. CASE k < Half
    <3>1. p = <<k>>
      BY <2>1, PutUvarintDef
    <3> HIDE DEF p
    <3>2. p \in Seq(Bytes) /\ Len(p) = 1 /\ p[1] = k /\ Head(p) = k /\ Tail(p) = <<>> /\ p # <<>>
      BY <1>1, <2>1, <3>1
    <3>3. Uvarint[<<>>] = 0
      BY UvarintDef
    <3>4. Uvarint[p] = (k % Half) + Half * 0
      BY <3>2, <3>3, UvarintDef
    <3>5. Uvarint[p] = k
      BY <1>1, <2>1, <3>4, SmallRemainder
    <3>6. Good(k, p)
      BY <2>1, <3>2, <3>5
    <3>7. QED
      BY <3>6 DEF p
  <2>2. CASE ~(k < Half)
    <3> DEFINE q == k \div Half
               r == PutUvarint[q]
               b == (k % Half) + Half
    <3>1. q \in Nat /\ k % Half \in Nat /\ k % Half < Half /\ k = q * Half + (k % Half)
      BY <1>1, NatDivision
    <3>2. q < k
      <4> HIDE DEF q
      <4>1. q * 2 <= q * Half /\ q * Half \in Nat
        BY <1>1, <3>1
      <4>2. QED
        BY <1>1, <2>2, <3>1, <4>1
    <3>3. Good(q, r)
      BY <1>2, <3>1, <3>2
    <3>4. p = <<b>> \o r
      BY <2>2, PutUvarintDef
    <3>5. b \in Bytes /\ b >= Half
      BY <1>1, <3>1
    <3>6. b % Half = k % Half
      BY <1>1, <3>1
    <3> HIDE DEF p, q, r, b
    <3>7. /\ p \in Seq(Bytes) /\ p # <<>> /\ Head(p) = b /\ Tail(p) = r /\ Len(p) = Len(r) + 1
          /\ p[1] = b /\ \A i \in 1 .. Len(r) : p[i + 1] = r[i]
      <4>1. r \in Seq(Bytes)
        BY <3>3
      <4>2. QED
        BY <3>4, <3>5, <4>1
    <3>8. r \in Seq(Bytes) /\ Len(r) \in Nat \ {0}
      BY <3>3
    <3>9. p[Len(p)] < Half
      BY <3>3, <3>7, <3>8
    <3>10. ASSUME NEW i \in 1 .. Len(p) - 1 PROVE p[i] >= Half
      <4>1. CASE i = 1
        BY <3>5, <3>7, <4>1
      <4>2. CASE i # 1
        <5>1. i - 1 \in 1 .. Len(r) - 1 /\ i - 1 \in 1 .. Len(r) /\ (i - 1) + 1 = i
          BY <3>7, <3>8, <4>2
        <5>2. p[i] = r[i - 1]
          BY <3>7, <5>1
        <5>3. QED
          BY <3>3, <5>1, <5>2
      <4>3. QED
        BY <4>1, <4>2
    <3>11. Uvarint[p] = k
      <4>1. Uvarint[p] = (b % Half) + Half * Uvarint[r]
        BY <3>7, UvarintDef
      <4>2. Uvarint[r] = q
        BY <3>3
      <4>3. QED
        BY <1>1, <3>1, <3>6, <4>1, <4>2
    <3>12. Good(k, p)
      BY <3>7, <3>9, <3>10, <3>11
    <3>13. QED
      BY <3>12 DEF p
  <2>3. QED
    BY <2>1, <2>2
<1>3. Bad = {}
  <2> HIDE DEF Good
  <2>1. SUFFICES ASSUME Bad # {} PROVE FALSE
    OBVIOUS
  <2>2. Bad \in SUBSET Nat
    OBVIOUS
  <2>3. PICK k \in Bad : \A j \in Bad : ~(j < k)
    BY <2>1, <2>2, NatMin
  <2>4. \A j \in Nat : j < k => Good(j, PutUvarint[j])
    BY <2>3
  <2>5. QED
    BY <1>2, <2>3, <2>4
<1>4. QED
  BY <1>3
-----------------------------------------------------------------------------
(* Types.                                                                  *)

\* What the constructors of the codecs assert.
LEMMA Kinds ==
  ASSUME NEW c \in Codecs
  PROVE  /\ c.kind \in {"lengthField", "varint", "delimiter", "fixed"}
         /\ c.kind = "lengthField" => c \in LengthFieldCodec
         /\ c.kind = "varint" => c \in VarintLengthFieldCodec
         /\ c.kind = "delimiter" => c \in DelimiterCodec
         /\ c.kind = "fixed" => c \in FixedLengthCodec
<1>1. /\ c \in LengthFieldCodec => c.kind = "lengthField"
      /\ c \in VarintLengthFieldCodec => c.kind = "varint"
      /\ c \in DelimiterCodec => c.kind = "delimiter"
      /\ c \in FixedLengthCodec => c.kind = "fixed"
  BY DEF LengthFieldCodec, VarintLengthFieldCodec, DelimiterCodec, FixedLengthCodec
<1>2. \/ c \in LengthFieldCodec \/ c \in VarintLengthFieldCodec \/ c \in DelimiterCodec
      \/ c \in FixedLengthCodec
  BY CodecAssumption
<1>3. QED
  BY <1>1, <1>2

\* What the parameters of a length field codec are,
LEMMA LengthFieldFacts ==
  ASSUME NEW c \in LengthFieldCodec
  PROVE  /\ c.kind = "lengthField" /\ c.width \in Nat \ {0} /\ c.width \in {1, 2, 4, 8}
         /\ c.offset \in Nat /\ c.adjust \in Int
         /\ c.strip \in Nat /\ c.max \in Nat /\ c.prepend \in Int /\ c.includes \in BOOLEAN
         /\ c.max < IntLimit
BY Limits DEF LengthFieldCodec, Ints

\* and what those of a delimiter codec are.
LEMMA DelimiterFacts ==
  ASSUME NEW c \in DelimiterCodec
  PROVE  /\ c.kind = "delimiter" /\ c.max \in Nat \ {0} /\ c.strip \in {0, 1}
         /\ c.delimiter \in Seq(Bytes) /\ c.delimiter # <<>>
BY DEF DelimiterCodec

\* A frame with a length field is the bytes before it, the field and the message.
LEMMA LengthFieldBytes ==
  ASSUME NEW c \in LengthFieldCodec, NEW b \in Seq(Bytes)
  PROVE  LET before == [i \in 1 .. c.offset |-> 0]
             field == Pack(c, FieldValue(c, b))
         IN
         /\ before \in Seq(Bytes) /\ Len(before) = c.offset
         /\ FieldValue(c, b) \in Int
         /\ field \in Seq(Bytes) /\ Len(field) = c.width
         /\ Encode(c, b) = (before \o field) \o b /\ Encode(c, b) \in Seq(Bytes)
         /\ Len(Encode(c, b)) = c.offset + c.width + Len(b)
<1> DEFINE before == [i \in 1 .. c.offset |-> 0]
           field == Pack(c, FieldValue(c, b))
<1>1. FieldValue(c, b) \in Int
  BY LengthFieldFacts DEF FieldValue
<1>2. field \in Seq(Bytes) /\ Len(field) = c.width
  BY <1>1, PackType
<1>3. before \in Seq(Bytes) /\ Len(before) = c.offset
  <2>1. 0 \in Bytes
    BY BaseFacts DEF Bytes
  <2>2. QED
    BY <2>1, LengthFieldFacts
<1>4. Encode(c, b) = (before \o field) \o b
  BY LengthFieldFacts DEF Encode, WriteLengthField
<1> HIDE DEF before, field
<1>5. /\ Encode(c, b) \in Seq(Bytes) /\ Len(Encode(c, b)) = c.offset + c.width + Len(b)
  <2>1. before \o field \in Seq(Bytes) /\ Len(before \o field) = c.offset + c.width
    <3>1. /\ before \o field \in Seq(Bytes)
          /\ Len(before \o field) = Len(before) + Len(field)
      BY <1>2, <1>3, ConcatProperties
    <3>2. QED
      BY <1>2, <1>3, <3>1
  <2> DEFINE head == before \o field
  <2> HIDE DEF head
  <2>2. head \o b \in Seq(Bytes) /\ Len(head \o b) = Len(head) + Len(b)
    BY <2>1 DEF head
  <2>3. QED
    BY <1>4, <2>1, <2>2 DEF head
<1>6. QED
  BY <1>1, <1>2, <1>3, <1>4, <1>5 DEF before, field

\* Codecs write bytes and pass on bytes.
LEMMA EncodeType ==
  ASSUME NEW c \in Codecs, NEW b \in Seq(Bytes)
  PROVE  Encode(c, b) \in Seq(Bytes) /\ Decoded(c, b) \in Seq(Bytes)
<1>1. CASE c.kind = "lengthField"
  <2>1. c \in LengthFieldCodec
    BY <1>1, Kinds
  <2>2. Encode(c, b) \in Seq(Bytes)
    BY <2>1, LengthFieldBytes
  <2>3. SubSeq(Encode(c, b), c.strip + 1, Len(Encode(c, b))) \in Seq(Bytes)
    BY <2>1, <2>2, LengthFieldFacts
  <2>4. QED
    BY <1>1, <2>2, <2>3 DEF Decoded
<1>2. CASE c.kind = "varint"
  <2>1. PutUvarint[Len(b)] \in Seq(Bytes)
    BY UvarintPut
  <2>2. QED
    BY <1>2, <2>1 DEF Encode, Decoded, WriteVarint
<1>3. CASE c.kind = "delimiter"
  <2>1. c.delimiter \in Seq(Bytes)
    BY <1>3, Kinds, DelimiterFacts
  <2>2. QED
    BY <1>3, <2>1 DEF Encode, Decoded, WriteDelimited
<1>4. CASE c.kind = "fixed"
  BY <1>4 DEF Encode, Decoded
<1>5. QED
  BY <1>1, <1>2, <1>3, <1>4, Kinds

\* The length field of a header is an integer.
LEMMA HeaderLength ==
  ASSUME NEW c \in LengthFieldCodec, NEW bs \in Seq(Bytes), Len(bs) >= c.offset + c.width
  PROVE  Unpack(c, SubSeq(bs, c.offset + 1, c.offset + c.width)) \in Int
<1> DEFINE f == SubSeq(bs, c.offset + 1, c.offset + c.width)
<1>1. f \in Seq(Bytes) /\ Len(f) = c.width
  <2> DEFINE i == c.offset
             w == c.width
  <2>1. i \in Nat /\ w \in Nat \ {0} /\ Len(bs) >= i + w
    BY LengthFieldFacts
  <2> HIDE DEF i, w
  <2>2. SubSeq(bs, i + 1, i + w) \in Seq(Bytes) /\ Len(SubSeq(bs, i + 1, i + w)) = w
    BY <2>1
  <2>3. QED
    BY <2>2 DEF i, w
<1> HIDE DEF f
<1>2. Unpack(c, f) \in Int
  BY <1>1, UnpackType
<1>3. QED
  BY <1>2 DEF f

\* HandleRead takes the first byte of the stream.
LEMMA Taken ==
  ASSUME TypeOK, NEW bs, Take(bs)
  PROVE  /\ phase = "header" /\ bs \in Seq(Bytes) /\ Len(bs) = Len(buf) + 1
         /\ Len(bs) \in Nat \ {0} /\ Last(bs) \in Bytes
         /\ stream' \in Seq(Bytes) /\ bs = buf \o <<Last(bs)>> /\ stream = <<Last(bs)>> \o stream'
<1> DEFINE h == Head(stream)
<1>1. phase = "header" /\ bs = Append(buf, h) /\ stream' = Tail(stream) /\ stream # <<>>
  BY DEF Take
<1>2. buf \in Seq(Bytes) /\ stream \in Seq(Bytes)
  BY DEF TypeOK
<1>3. h \in Bytes /\ stream' \in Seq(Bytes) /\ stream = <<h>> \o stream'
  BY <1>1, <1>2
<1> HIDE DEF h
<1>4. bs \in Seq(Bytes) /\ Len(bs) = Len(buf) + 1 /\ bs = buf \o <<h>> /\ bs[Len(bs)] = h
  BY <1>1, <1>2, <1>3
<1>5. QED
  BY <1>1, <1>2, <1>3, <1>4 DEF Last
-----------------------------------------------------------------------------
(* Frames are bounded.                                                     *)

\* A delimiter codec that looks for the delimiter has room for another byte.
HeaderRoom == phase = "header" /\ codec.kind = "delimiter" => Len(buf) < codec.max

Bounded == TypeOK /\ FramesAreBounded /\ HeaderRoom

\* Bounded holds at first.
LEMMA InitBounded == Init => Bounded
<1> SUFFICES ASSUME Init PROVE Bounded
  OBVIOUS
<1>1. TypeOK
  <2>1. <<>> \in Seq(Bytes) /\ <<>> \in Seq(Bodies) /\ <<>> \in Seq(Seq(Bytes))
    OBVIOUS
  <2>2. codec \in Codecs /\ phase = "header" /\ spoiled = FALSE /\ skip \in 0 .. left /\ left \in Nat
        /\ left = 0
    BY DEF Init
  <2>3. /\ stream \in Seq(Bytes) /\ buf \in Seq(Bytes) /\ frame \in Seq(Bytes) /\ frame = <<>>
        /\ sent \in Seq(Bodies) /\ received \in Seq(Seq(Bytes))
    BY <2>1, Zenon DEF Init
  <2>4. QED
    BY <2>2, <2>3 DEF TypeOK
<1>2. codec.kind = "delimiter" => codec.max > 0
  BY Kinds, DelimiterFacts DEF Init
<1>3. QED
  BY <1>1, <1>2 DEF Init, Bounded, FramesAreBounded, HeaderRoom

\* A message that is written,
LEMMA WriteBounded == Bounded /\ Write => Bounded'
<1> SUFFICES ASSUME Bounded, Write PROVE Bounded'
  OBVIOUS
<1>1. PICK b \in Bodies : stream' = stream \o Encode(codec, b) /\ sent' = Append(sent, b)
                          /\ spoiled' = (spoiled \/ ~Fits(codec, b))
  BY DEF Write
<1>2. UNCHANGED <<codec, phase, buf, frame, skip, left, received>>
  BY DEF Write
<1>3. Encode(codec, b) \in Seq(Bytes)
  BY CodecAssumption, EncodeType DEF Bounded, TypeOK
<1>4. stream' \in Seq(Bytes) /\ sent' \in Seq(Bodies)
  BY <1>1, <1>3 DEF Bounded, TypeOK
<1>5. spoiled' \in BOOLEAN
  BY <1>1, Zenon
<1>6. QED
  BY <1>2, <1>4, <1>5 DEF Bounded, TypeOK, FramesAreBounded, HeaderRoom

\* a byte of a header,
LEMMA LengthFieldBounded == Bounded /\ ReadLengthField => Bounded'
<1> SUFFICES ASSUME Bounded, ReadLengthField PROVE Bounded'
  OBVIOUS
<1> DEFINE end == codec.offset + codec.width
<1>1. codec \in LengthFieldCodec /\ codec.kind = "lengthField" /\ UNCHANGED <<codec, sent>>
  BY Kinds DEF Bounded, TypeOK, ReadLengthField
<1> DEFINE Field(bs) == Unpack(codec, SubSeq(bs, codec.offset + 1, end))
           Length(bs) == Int64(Field(bs) + codec.adjust + end)
<1>2. PICK bs \in Seq(Bytes), length \in Int :
        /\ Take(bs)
        /\ IF Len(bs) < end THEN More(bs)
           ELSE \/ Refuse
                \/ /\ ~(length < end \/ length > codec.max \/ codec.strip > length)
                   /\ Post(SubSeq(bs, codec.strip + 1, end),
                           IF codec.strip > end THEN codec.strip - end ELSE 0, length - end)
  <2>1. PICK bs \in {Append(buf, b) : b \in Bytes} :
        /\ Take(bs)
        /\ IF Len(bs) < end THEN More(bs)
           ELSE IF \/ Field(bs) < 0 \/ Length(bs) < end
                   \/ Length(bs) > codec.max \/ codec.strip > Length(bs) THEN Refuse
           ELSE Post(SubSeq(bs, codec.strip + 1, end),
                     IF codec.strip > end THEN codec.strip - end ELSE 0, Length(bs) - end)
    BY DEF ReadLengthField
  <2>2. bs \in Seq(Bytes) /\ Len(bs) \in Nat
    BY <2>1, Taken DEF Bounded
  <2>3. CASE Len(bs) < end
    BY <2>1, <2>2, <2>3
  <2>4. CASE ~(Len(bs) < end)
    <3>1. Len(bs) >= codec.offset + codec.width
      BY <1>1, <2>2, <2>4, LengthFieldFacts
    <3>2. Field(bs) \in Int
      BY <1>1, <2>2, <3>1, HeaderLength
    <3>3. Length(bs) \in Int
      <4>1. Field(bs) + codec.adjust + end \in Int
        BY <1>1, <3>2, LengthFieldFacts
      <4>2. QED
        BY <4>1, Int64Facts
    <3> HIDE DEF Field, Length, end
    <3>4. QED
      BY <2>1, <2>2, <2>4, <3>3
  <2>5. QED
    BY <2>3, <2>4
<1>3. phase = "header" /\ stream' \in Seq(Bytes)
  BY <1>2, Taken DEF Bounded
<1>4. CASE Len(bs) < end
  <2>1. More(bs)
    BY <1>2, <1>4
  <2>2. QED
    BY <1>1, <1>2, <1>3, <2>1 DEF More, Bounded, TypeOK, FramesAreBounded, HeaderRoom
<1>5. CASE ~(Len(bs) < end) /\ Refuse
  BY <1>1, <1>3, <1>5 DEF Refuse, Bounded, TypeOK, FramesAreBounded, HeaderRoom
<1>6. CASE /\ ~(Len(bs) < end) /\ ~(length < end \/ length > codec.max \/ codec.strip > length)
           /\ Post(SubSeq(bs, codec.strip + 1, end),
                   IF codec.strip > end THEN codec.strip - end ELSE 0, length - end)
  <2> DEFINE f == SubSeq(bs, codec.strip + 1, end)
  <2>1. /\ end \in Nat /\ codec.strip \in Nat /\ codec.max \in Nat
        /\ length >= end /\ length <= codec.max /\ codec.strip <= length /\ Len(bs) >= end
    <3>1. /\ codec.offset \in Nat /\ codec.width \in Nat /\ codec.adjust \in Int
          /\ codec.strip \in Nat /\ codec.max \in Nat
      BY <1>1, LengthFieldFacts
    <3>2. end \in Nat
      BY <3>1
    <3> HIDE DEF end
    <3>3. Len(bs) >= end
      BY <1>6, <3>2
    <3>4. QED
      BY <1>6, <3>1, <3>2, <3>3
  <2> DEFINE e == end
             k == codec.strip
             l == length
  <2> HIDE DEF e, k, l
  <2>2. f \in Seq(Bytes) /\ Len(f) = IF k + 1 <= e THEN e - (k + 1) + 1 ELSE 0
    BY <2>1 DEF e, k
  <2>3. /\ buf' = <<>> /\ phase' = "body" /\ frame' = f
        /\ skip' = (IF k > e THEN k - e ELSE 0) /\ left' = l - e
        /\ UNCHANGED <<received, spoiled>>
    BY <1>6 DEF Post, e, k, l
  <2>4. skip' \in 0 .. left' /\ left' \in Nat
    BY <2>1, <2>3 DEF e, k, l
  <2>5. Len(frame') + left' <= codec.max
    <3>1. e \in Nat /\ k \in Nat /\ l \in Int /\ l >= e /\ l <= codec.max /\ codec.max \in Nat
      BY <2>1 DEF e, k, l
    <3> HIDE DEF f
    <3>2. Len(f) \in Nat /\ Len(f) <= e
      BY <2>2, <3>1
    <3>3. Len(f) + (l - e) <= codec.max
      BY <3>1, <3>2
    <3>4. QED
      BY <2>3, <3>3
  <2> HIDE DEF f
  <2>6. TypeOK'
    BY <1>1, <1>3, <2>2, <2>3, <2>4 DEF Bounded, TypeOK
  <2>7. QED
    BY <1>1, <2>3, <2>5, <2>6 DEF Bounded, FramesAreBounded, HeaderRoom
<1>7. QED
  BY <1>2, <1>4, <1>5, <1>6

\* A varint header keeps it,
LEMMA VarintBounded == Bounded /\ ReadVarint => Bounded'
<1> SUFFICES ASSUME Bounded, ReadVarint PROVE Bounded'
  OBVIOUS
<1>1. codec \in VarintLengthFieldCodec /\ codec.kind = "varint" /\ UNCHANGED <<codec, sent>>
  BY Kinds DEF Bounded, TypeOK, ReadVarint
<1>2. PICK bs : /\ Take(bs)
               /\ IF Last(bs) >= Half THEN More(bs)
                  ELSE IF Uvarint[bs] > codec.max THEN Refuse
                  ELSE Post(<<>>, 0, Uvarint[bs])
  BY DEF ReadVarint
<1>3. phase = "header" /\ stream' \in Seq(Bytes) /\ bs \in Seq(Bytes)
  BY <1>2, Taken DEF Bounded
<1>4. CASE More(bs)
  BY <1>1, <1>3, <1>4 DEF More, Bounded, TypeOK, FramesAreBounded, HeaderRoom
<1>5. CASE Refuse
  BY <1>1, <1>3, <1>5 DEF Refuse, Bounded, TypeOK, FramesAreBounded, HeaderRoom
<1>6. CASE ~(Uvarint[bs] > codec.max) /\ Post(<<>>, 0, Uvarint[bs])
  <2>1. Uvarint[bs] \in Nat
    BY <1>3, UvarintType
  <2>2. codec.max \in Nat
    BY <1>1 DEF VarintLengthFieldCodec
  <2>3. /\ buf' = <<>> /\ phase' = "body" /\ frame' = <<>> /\ skip' = 0
        /\ left' = Uvarint[bs] /\ left' <= codec.max /\ UNCHANGED <<received, spoiled>>
    BY <1>6, <2>1, <2>2 DEF Post
  <2>4. left' \in Nat /\ skip' \in 0 .. left' /\ Len(frame') = 0 /\ frame' \in Seq(Bytes)
    BY <2>1, <2>3
  <2>5. QED
    BY <1>1, <1>3, <2>2, <2>3, <2>4 DEF Bounded, TypeOK, FramesAreBounded, HeaderRoom
<1>7. QED
  BY <1>2, <1>4, <1>5, <1>6

\* so does a byte before a delimiter,
LEMMA DelimitedBounded == Bounded /\ ReadDelimited => Bounded'
<1> SUFFICES ASSUME Bounded, ReadDelimited PROVE Bounded'
  OBVIOUS
<1>1. codec \in DelimiterCodec /\ codec.kind = "delimiter" /\ UNCHANGED <<codec, sent>>
  BY Kinds DEF Bounded, TypeOK, ReadDelimited
<1>2. PICK bs :
        /\ Take(bs)
        /\ IF EndsWith(bs, codec.delimiter)
           THEN Post(IF codec.strip > 0 THEN SubSeq(bs, 1, Len(bs) - Len(codec.delimiter)) ELSE bs,
                     0, 0)
           ELSE IF Len(bs) < codec.max THEN More(bs) ELSE Refuse
  BY DEF ReadDelimited
<1>3. /\ phase = "header" /\ stream' \in Seq(Bytes) /\ bs \in Seq(Bytes)
      /\ Len(bs) = Len(buf) + 1 /\ Len(buf) \in Nat
  <2>1. Len(buf) \in Nat
    BY DEF Bounded, TypeOK
  <2>2. QED
    BY <1>2, <2>1, Taken DEF Bounded
<1>4. /\ codec.max \in Nat \ {0} /\ codec.delimiter \in Seq(Bytes) /\ Len(codec.delimiter) \in Nat
      /\ codec.strip \in {0, 1}
  BY <1>1, DelimiterFacts
<1>5. Len(buf) < codec.max
  BY <1>1, <1>3 DEF Bounded, HeaderRoom
<1>6. CASE Len(bs) < codec.max /\ More(bs)
  <2>1. /\ buf' = bs /\ phase' = phase /\ UNCHANGED <<frame, skip, left, received, spoiled>>
    BY <1>6 DEF More
  <2>2. QED
    BY <1>1, <1>3, <1>6, <2>1 DEF Bounded, TypeOK, FramesAreBounded, HeaderRoom
<1>7. CASE Refuse
  <2>1. Len(<<>>) = 0
    OBVIOUS
  <2>2. QED
    BY <1>1, <1>3, <1>4, <1>7, <2>1 DEF Refuse, Bounded, TypeOK, FramesAreBounded, HeaderRoom
<1>8. CASE EndsWith(bs, codec.delimiter)
           /\ Post(IF codec.strip > 0 THEN SubSeq(bs, 1, Len(bs) - Len(codec.delimiter)) ELSE bs, 0, 0)
  <2> DEFINE d == Len(codec.delimiter)
             f == IF codec.strip > 0 THEN SubSeq(bs, 1, Len(bs) - d) ELSE bs
  <2>1. d \in Nat /\ Len(bs) >= d
    BY <1>4, <1>8 DEF EndsWith
  <2>2. f \in Seq(Bytes) /\ Len(f) <= Len(bs)
    <3> HIDE DEF d
    <3>1. SubSeq(bs, 1, Len(bs) - d) \in Seq(Bytes) /\ Len(SubSeq(bs, 1, Len(bs) - d)) = Len(bs) - d
      BY <1>3, <2>1
    <3>2. QED
      BY <1>3, <2>1, <3>1
  <2>3. /\ buf' = <<>> /\ phase' = "body" /\ frame' = f /\ skip' = 0 /\ left' = 0
        /\ UNCHANGED <<received, spoiled>>
    BY <1>8 DEF Post
  <2> HIDE DEF f
  <2>4. TypeOK'
    BY <1>1, <1>3, <2>2, <2>3 DEF Bounded, TypeOK
  <2>5. Len(frame') + left' <= codec.max
    BY <1>3, <1>4, <1>5, <2>2, <2>3
  <2>6. QED
    BY <1>1, <2>3, <2>4, <2>5 DEF Bounded, FramesAreBounded, HeaderRoom
<1>9. QED
  BY <1>2, <1>6, <1>7, <1>8

\* so does a frame of fixed length.
LEMMA FixedBounded == Bounded /\ ReadFixed => Bounded'
<1> SUFFICES ASSUME Bounded, ReadFixed PROVE Bounded'
  OBVIOUS
<1>1. /\ codec.kind = "fixed" /\ UNCHANGED <<codec, stream, sent, received, spoiled>>
      /\ buf' = <<>> /\ phase' = "body" /\ frame' = <<>> /\ skip' = 0 /\ left' = codec.length
  BY DEF ReadFixed, Post
<1>2. codec.length \in Nat
  BY <1>1, Kinds DEF Bounded, TypeOK, FixedLengthCodec
<1>3. left' \in Nat /\ skip' \in 0 .. left' /\ Len(frame') = 0 /\ frame' \in Seq(Bytes)
  BY <1>1, <1>2
<1>4. QED
  BY <1>1, <1>2, <1>3 DEF Bounded, TypeOK, FramesAreBounded, HeaderRoom

\* a byte of a frame
LEMMA FrameBounded == Bounded /\ ReadFrame => Bounded'
<1> SUFFICES ASSUME Bounded, ReadFrame PROVE Bounded'
  OBVIOUS
<1>1. /\ phase = "body" /\ left > 0 /\ stream # <<>> /\ stream' = Tail(stream) /\ left' = left - 1
      /\ UNCHANGED <<codec, phase, buf, sent, received, spoiled>>
  BY DEF ReadFrame
<1>2. /\ stream \in Seq(Bytes) /\ frame \in Seq(Bytes) /\ left \in Nat /\ skip \in 0 .. left
  BY DEF Bounded, TypeOK
<1>3. stream' \in Seq(Bytes) /\ Head(stream) \in Bytes /\ left' \in Nat
  BY <1>1, <1>2
<1>4. /\ frame' \in Seq(Bytes) /\ Len(frame') + left' <= Len(frame) + left
      /\ skip' \in 0 .. left'
  <2>1. CASE skip > 0
    <3>1. skip' = skip - 1 /\ frame' = frame
      BY <2>1 DEF ReadFrame
    <3>2. QED
      BY <1>1, <1>2, <2>1, <3>1
  <2>2. CASE ~(skip > 0)
    <3>1. skip' = skip /\ frame' = Append(frame, Head(stream))
      BY <2>2 DEF ReadFrame
    <3>2. frame' \in Seq(Bytes) /\ Len(frame') = Len(frame) + 1
      BY <1>2, <1>3, <3>1
    <3>3. QED
      BY <1>1, <1>2, <2>2, <3>1, <3>2
  <2>3. QED
    BY <2>1, <2>2
<1>5. TypeOK'
  BY <1>1, <1>3, <1>4 DEF Bounded, TypeOK
<1>6. FramesAreBounded'
  <2>1. ASSUME NEW n, Len(frame) + left <= n, n \in Int PROVE Len(frame') + left' <= n
    BY <1>2, <1>3, <1>4, <2>1
  <2>2. (codec.kind = "fixed" => codec.length \in Int) /\ (codec.kind # "fixed" => codec.max \in Int)
    <3>1. codec \in Codecs
      BY DEF Bounded, TypeOK
    <3>2. QED
      BY <3>1, Kinds, LengthFieldFacts, DelimiterFacts DEF FixedLengthCodec, VarintLengthFieldCodec
  <2>3. QED
    BY <1>1, <2>1, <2>2 DEF Bounded, FramesAreBounded
<1>7. HeaderRoom'
  BY <1>1 DEF HeaderRoom
<1>8. QED
  BY <1>5, <1>6, <1>7 DEF Bounded

\* and the end of one do not make it larger.
LEMMA BoundedStep == Bounded /\ [Next]_vars => Bounded'
<1> SUFFICES ASSUME Bounded, [Next]_vars PROVE Bounded'
  OBVIOUS
<1>1. CASE EndFrame
  <2>1. /\ phase' = "header" /\ frame' = <<>> /\ skip' = 0 /\ received' = Append(received, frame)
        /\ left = 0 /\ buf = <<>> /\ UNCHANGED <<codec, stream, buf, left, sent, spoiled>>
    BY <1>1 DEF EndFrame, Bounded, TypeOK
  <2>2. received' \in Seq(Seq(Bytes))
    BY <2>1 DEF Bounded, TypeOK
  <2>3. codec.kind = "delimiter" => Len(<<>>) < codec.max
    BY Kinds, DelimiterFacts DEF Bounded, TypeOK
  <2>4. QED
    BY <2>1, <2>2, <2>3 DEF Bounded, TypeOK, FramesAreBounded, HeaderRoom
<1>2. CASE LeaveFrame
  <2>1. codec.kind = "delimiter" => Len(<<>>) < codec.max
    BY Kinds, DelimiterFacts DEF Bounded, TypeOK
  <2>2. QED
    BY <1>2, <2>1 DEF LeaveFrame, Bounded, TypeOK, FramesAreBounded, HeaderRoom
<1>3. CASE UNCHANGED vars
  BY <1>3 DEF vars, Bounded, TypeOK, FramesAreBounded, HeaderRoom
<1>4. QED
  BY <1>1, <1>2, <1>3, WriteBounded, LengthFieldBounded, VarintBounded, DelimitedBounded,
     FixedBounded, FrameBounded DEF Next

\* Bytes stay bytes and lengths natural numbers, whatever the codec takes for a
\* header (codec/frame).
THEOREM TypeCorrect == Spec => []TypeOK
<1>1. Bounded => TypeOK
  BY DEF Bounded
<1>2. QED
  BY <1>1, InitBounded, BoundedStep, PTL DEF Spec

\* No handler gets a frame larger than the codec's maximum, whatever bytes the
\* codec takes for a header (maxFrameLength, length).
THEOREM FramesBounded == Spec => []FramesAreBounded
<1>1. Bounded => FramesAreBounded
  BY DEF Bounded
<1>2. QED
  BY <1>1, InitBounded, BoundedStep, PTL DEF Spec
-----------------------------------------------------------------------------
(* Sequences in pieces.                                                    *)

\* Sequence e is a and rest, and u is rest and v.
Splits(a, u, e, v, rest) ==
  /\ e = a \o rest /\ u = rest \o v
  /\ a = SubSeq(e, 1, Len(a)) /\ Len(e) = Len(a) + Len(rest)

\* What begins two splits of a sequence begins both, and the rest goes on.
LEMMA SplitLemma ==
  ASSUME NEW S, NEW a \in Seq(S), NEW u \in Seq(S), NEW e \in Seq(S), NEW v \in Seq(S),
         a \o u = e \o v, Len(a) <= Len(e)
  PROVE  \E rest \in Seq(S) : Splits(a, u, e, v, rest)
<1> DEFINE rest == SubSeq(e, Len(a) + 1, Len(e))
<1>1. rest \in Seq(S) /\ Len(rest) = Len(e) - Len(a) /\ Len(a) \in Nat /\ Len(e) \in Nat
  OBVIOUS
<1>2. \A i \in 1 .. Len(rest) : rest[i] = e[i + Len(a)]
  BY <1>1
<1> HIDE DEF rest
<1>3. \A i \in 1 .. Len(a) : a[i] = e[i]
  <2>1. ASSUME NEW i \in 1 .. Len(a) PROVE a[i] = e[i]
    <3>1. (a \o u)[i] = a[i]
      BY <1>1, ConcatProperties
    <3>2. (e \o v)[i] = e[i]
      BY <1>1, ConcatProperties
    <3>3. QED
      BY <3>1, <3>2
  <2>2. QED
    BY <2>1
<1>4. a \o rest = e
  <2>1. a \o rest \in Seq(S) /\ Len(a \o rest) = Len(e)
    BY <1>1, ConcatProperties
  <2>2. ASSUME NEW i \in 1 .. Len(e) PROVE (a \o rest)[i] = e[i]
    <3>1. (a \o rest)[i] = IF i <= Len(a) THEN a[i] ELSE rest[i - Len(a)]
      BY <1>1, ConcatProperties
    <3>2. CASE i <= Len(a)
      <4>1. i \in 1 .. Len(a)
        BY <1>1, <3>2
      <4>2. QED
        BY <1>3, <3>1, <3>2, <4>1
    <3>3. CASE ~(i <= Len(a))
      <4>1. i - Len(a) \in 1 .. Len(rest) /\ (i - Len(a)) + Len(a) = i
        BY <1>1, <3>3
      <4>2. QED
        BY <1>2, <3>1, <3>3, <4>1
    <3>4. QED
      BY <3>2, <3>3
  <2>3. QED
    BY <2>1, <2>2, SeqEqual
<1>5. a \o u = a \o (rest \o v)
  <2>1. (a \o rest) \o v = a \o (rest \o v)
    <3>1. \A x, y, z \in Seq(S) : (x \o y) \o z = x \o (y \o z)
      BY ConcatAssociative, SMTT(60)
    <3>2. QED
      BY <1>1, <3>1, Zenon
  <2>2. QED
    BY <1>4, <2>1, a \o u = e \o v, Zenon
<1>6. u = rest \o v
  <2>1. rest \o v \in Seq(S)
    BY <1>1, ConcatProperties
  <2>2. QED
    BY <1>5, <2>1, ConcatSimplifications
<1>7. a = SubSeq(e, 1, Len(a))
  <2> DEFINE p == SubSeq(e, 1, Len(a))
  <2>1. p \in Seq(S) /\ Len(p) = Len(a)
    BY <1>1
  <2>2. \A i \in 1 .. Len(a) : p[i] = e[i]
    BY <1>1
  <2> HIDE DEF p
  <2>3. a = p
    BY <1>3, <2>1, <2>2, SeqEqual
  <2>4. QED
    BY <2>3 DEF p
<1>8. Len(e) = Len(a) + Len(rest) /\ e = a \o rest
  BY <1>1, <1>4
<1>9. QED
  BY <1>1, <1>6, <1>7, <1>8, Zenon DEF Splits

\* Cutting the first k elements off a sequence in two pieces.
LEMMA CutLemma ==
  ASSUME NEW S, NEW a \in Seq(S), NEW b \in Seq(S), NEW k \in Nat, k <= Len(a) + Len(b)
  PROVE  SubSeq(a \o b, k + 1, Len(a \o b))
           = SubSeq(a, k + 1, Len(a))
               \o SubSeq(b, (IF k > Len(a) THEN k - Len(a) ELSE 0) + 1, Len(b))
<1> DEFINE j == IF k > Len(a) THEN k - Len(a) ELSE 0
           x == SubSeq(a, k + 1, Len(a))
           y == SubSeq(b, j + 1, Len(b))
           e == a \o b
           z == SubSeq(e, k + 1, Len(e))
           m == Len(a)
           n == Len(b)
<1>1. m \in Nat /\ n \in Nat /\ k <= m + n
  OBVIOUS
<1>2. e \in Seq(S) /\ Len(e) = m + n
      /\ \A i \in 1 .. m + n : e[i] = IF i <= m THEN a[i] ELSE b[i - m]
  BY ConcatProperties
<1>3. j \in Nat /\ j <= n
  BY <1>1
<1>4. x \in Seq(S) /\ Len(x) = (IF k <= m THEN m - k ELSE 0)
      /\ \A i \in 1 .. Len(x) : x[i] = a[k + i]
  BY <1>1
<1> HIDE DEF j
<1>5. y \in Seq(S) /\ Len(y) = n - j /\ \A i \in 1 .. Len(y) : y[i] = b[j + i]
  BY <1>1, <1>3
<1> HIDE DEF e
<1>6. z \in Seq(S) /\ Len(z) = (m + n) - k /\ \A i \in 1 .. Len(z) : z[i] = e[k + i]
  <2>1. Len(e) = m + n /\ Len(e) \in Nat /\ e \in Seq(S)
    BY <1>1, <1>2
  <2> HIDE DEF m, n
  <2>2. k <= Len(e)
    BY <1>1, <2>1
  <2>3. z \in Seq(S) /\ Len(z) = Len(e) - k /\ \A i \in 1 .. Len(z) : z[i] = e[k + i]
    BY <2>1, <2>2
  <2>4. QED
    BY <2>1, <2>3
<1> HIDE DEF x, y, z, m, n
<1>7. x \o y \in Seq(S) /\ Len(x \o y) = Len(x) + Len(y)
      /\ \A i \in 1 .. Len(x) + Len(y) :
           (x \o y)[i] = IF i <= Len(x) THEN x[i] ELSE y[i - Len(x)]
  BY <1>4, <1>5, ConcatProperties
<1>8. Len(x \o y) = Len(z)
  <2>1. j = IF k > m THEN k - m ELSE 0
    BY DEF j, m
  <2>2. QED
    BY <1>1, <1>3, <1>4, <1>5, <1>6, <1>7, <2>1
<1>9. ASSUME NEW i \in 1 .. Len(z) PROVE z[i] = (x \o y)[i]
  <2>1. i \in Nat /\ i >= 1 /\ i <= (m + n) - k
    BY <1>1, <1>6
  <2>2. z[i] = IF k + i <= m THEN a[k + i] ELSE b[(k + i) - m]
    <3>1. z[i] = e[k + i]
      BY <1>6
    <3>2. k + i \in 1 .. m + n
      BY <1>1, <2>1
    <3>3. QED
      BY <1>2, <3>1, <3>2
  <2>3. CASE k <= m
    <3>1. j = 0 /\ Len(x) = m - k
      BY <1>1, <1>4, <2>3 DEF j, m
    <3>2. CASE i <= m - k
      <4>1. (x \o y)[i] = a[k + i]
        BY <1>1, <1>4, <1>7, <1>8, <2>1, <3>1, <3>2
      <4>2. QED
        BY <1>1, <2>1, <2>2, <3>2, <4>1
    <3>3. CASE ~(i <= m - k)
      <4>1. (x \o y)[i] = y[i - (m - k)]
        BY <1>1, <1>7, <1>8, <2>1, <3>1, <3>3
      <4>2. y[i - (m - k)] = b[i - (m - k)]
        BY <1>1, <1>5, <2>1, <3>1, <3>3
      <4>3. i - (m - k) = (k + i) - m /\ ~(k + i <= m)
        BY <1>1, <2>1, <3>3
      <4>4. QED
        BY <2>2, <4>1, <4>2, <4>3
    <3>4. QED
      BY <3>2, <3>3
  <2>4. CASE ~(k <= m)
    <3>1. j = k - m /\ Len(x) = 0
      BY <1>1, <1>4, <2>4 DEF j, m
    <3>2. (x \o y)[i] = y[i]
      BY <1>1, <1>7, <1>8, <2>1, <3>1
    <3>3. y[i] = b[j + i]
      BY <1>1, <1>5, <2>1, <3>1
    <3>4. j + i = (k + i) - m /\ ~(k + i <= m)
      BY <1>1, <2>1, <2>4, <3>1
    <3>5. QED
      BY <2>2, <3>2, <3>3, <3>4
  <2>5. QED
    BY <2>3, <2>4
<1>10. z = x \o y
  BY <1>6, <1>7, <1>8, <1>9, SeqEqual
<1>11. QED
  BY <1>10 DEF x, y, z, e, j, m, n

-----------------------------------------------------------------------------
(* What is read of a frame.                                                *)

\* The header of message b is not complete in bs.
InHeader(c, b, bs) ==
  CASE c.kind = "lengthField" -> Len(bs) < c.offset + c.width
    [] c.kind = "varint" -> Len(bs) < Len(PutUvarint[Len(b)])
    [] c.kind = "delimiter" -> Len(bs) < Len(b) + Len(c.delimiter)
    [] c.kind = "fixed" -> bs = <<>>

\* What the codec can carry: the varint codec refuses what is too large.
Carries(c, b) == Fits(c, b) /\ (c.kind = "varint" => Len(b) <= c.max)

\* The frame of message b is f and what is left after n bytes of rest, m bytes long.
Completes(c, b, f, n, m, rest) ==
  Len(rest) = m /\ Decoded(c, b) = f \o SubSeq(rest, n + 1, m)

\* Nothing is an incomplete header.
LEMMA InHeaderEmpty ==
  ASSUME NEW c \in Codecs, NEW b \in Seq(Bytes)
  PROVE  InHeader(c, b, <<>>)
<1>1. CASE c.kind = "lengthField"
  <2>1. c.offset \in Nat /\ c.width \in Nat \ {0}
    BY <1>1, Kinds, LengthFieldFacts
  <2>2. Len(<<>>) < c.offset + c.width
    BY <2>1
  <2>3. QED
    BY <1>1, <2>2 DEF InHeader
<1>2. CASE c.kind = "varint"
  <2>1. PutUvarint[Len(b)] \in Seq(Bytes) /\ PutUvarint[Len(b)] # <<>>
    BY UvarintPut
  <2>2. Len(<<>>) < Len(PutUvarint[Len(b)])
    BY <2>1
  <2>3. QED
    BY <1>2, <2>2 DEF InHeader
<1>3. CASE c.kind = "delimiter"
  <2>1. c.delimiter \in Seq(Bytes) /\ c.delimiter # <<>>
    BY <1>3, Kinds, DelimiterFacts
  <2>2. Len(<<>>) < Len(b) + Len(c.delimiter)
    BY <2>1
  <2>3. QED
    BY <1>3, <2>2 DEF InHeader
<1>4. CASE c.kind = "fixed"
  BY <1>4 DEF InHeader
<1>5. QED
  BY <1>1, <1>2, <1>3, <1>4, Kinds

\* A message with a length field: the header is read up to its end, says how
\* long the frame is, is not refused, and what is passed on is the frame.
LEMMA LengthFieldRead ==
  ASSUME NEW c \in LengthFieldCodec, NEW b \in Seq(Bytes), Carries(c, b),
         NEW buffer \in Seq(Bytes), InHeader(c, b, buffer),
         NEW bs \in Seq(Bytes), Len(bs) = Len(buffer) + 1, NEW u \in Seq(Bytes),
         NEW v \in Seq(Bytes), bs \o u = Encode(c, b) \o v
  PROVE  LET end == c.offset + c.width
             field == Unpack(c, SubSeq(bs, c.offset + 1, end))
             length == Int64(field + c.adjust + end)
         IN  Len(bs) >= end =>
               /\ ~(field < 0 \/ length < end \/ length > c.max \/ c.strip > length)
               /\ \E rest \in Seq(Bytes) :
                    /\ u = rest \o v
                    /\ Completes(c, b, SubSeq(bs, c.strip + 1, end),
                                 IF c.strip > end THEN c.strip - end ELSE 0, length - end, rest)
<1> DEFINE end == c.offset + c.width
           header == SubSeq(bs, c.offset + 1, end)
           field == Unpack(c, header)
           length == Int64(field + c.adjust + end)
           e == Encode(c, b)
           before == [i \in 1 .. c.offset |-> 0]
           fld == Pack(c, FieldValue(c, b))
<1> SUFFICES ASSUME Len(bs) >= end
             PROVE  /\ ~(field < 0 \/ length < end \/ length > c.max \/ c.strip > length)
                    /\ \E rest \in Seq(Bytes) :
                         /\ u = rest \o v
                         /\ Completes(c, b, SubSeq(bs, c.strip + 1, end),
                                      IF c.strip > end THEN c.strip - end ELSE 0,
                                      length - end, rest)
  OBVIOUS
<1>1. /\ c.kind = "lengthField" /\ c.width \in Nat \ {0} /\ c.offset \in Nat /\ c.adjust \in Int
      /\ c.strip \in Nat /\ c.max \in Nat /\ c.prepend \in Int /\ c.includes \in BOOLEAN
      /\ c.max < IntLimit
  BY LengthFieldFacts
<1>2. end \in Nat /\ Len(bs) \in Nat /\ Len(buffer) \in Nat /\ Len(b) \in Nat
  BY <1>1
<1>3. Len(bs) = end
  <2>1. Len(buffer) < end
    BY <1>1 DEF InHeader
  <2> HIDE DEF end
  <2>2. QED
    BY <1>2, <2>1
<1>4. /\ before \in Seq(Bytes) /\ Len(before) = c.offset /\ FieldValue(c, b) \in Int
      /\ fld \in Seq(Bytes) /\ Len(fld) = c.width
      /\ e = (before \o fld) \o b /\ e \in Seq(Bytes) /\ Len(e) = c.offset + c.width + Len(b)
  BY LengthFieldBytes
<1> HIDE DEF before, fld, e
<1>5. Len(e) = end + Len(b)
  BY <1>4
<1>6. PICK rest \in Seq(Bytes) : Splits(bs, u, e, v, rest)
  <2> HIDE DEF end
  <2>1. Len(bs) <= Len(e)
    BY <1>2, <1>3, <1>5
  <2>2. bs \o u = e \o v
    BY DEF e
  <2>3. QED
    BY <1>4, <2>1, <2>2, SplitLemma
<1>7. e = bs \o rest /\ u = rest \o v /\ Len(e) = Len(bs) + Len(rest)
  BY <1>6 DEF Splits
<1>8. Len(rest) = Len(b)
  <2> HIDE DEF end
  <2>1. QED
    BY <1>2, <1>3, <1>5, <1>7
<1>9. header = fld
  <2> DEFINE h == before \o fld
  <2>1. h \in Seq(Bytes) /\ Len(h) = end
    <3>1. before \in Seq(Bytes) /\ fld \in Seq(Bytes)
      BY <1>4
    <3>2. h \in Seq(Bytes) /\ Len(h) = Len(before) + Len(fld)
      BY <3>1, ConcatProperties, Zenon
    <3>3. QED
      BY <1>4, <3>2
  <2>2. h = bs
    <3> HIDE DEF h, end
    <3>1. h \o b = bs \o rest /\ Len(h) <= Len(bs)
      BY <1>3, <1>4, <1>7, <2>1 DEF h
    <3>2. PICK r \in Seq(Bytes) : Splits(h, b, bs, rest, r)
      BY <2>1, <3>1, SplitLemma
    <3>3. bs = h \o r /\ Len(bs) = Len(h) + Len(r)
      BY <3>2 DEF Splits
    <3>4. r = <<>>
      BY <1>2, <1>3, <2>1, <3>3
    <3>5. QED
      BY <2>1, <3>3, <3>4, ConcatEmptySeq
  <2>3. SubSeq(before \o fld, Len(before) + 1, Len(before) + Len(fld)) = fld
    BY <1>4, EndLemma
  <2>4. QED
    BY <1>4, <2>2, <2>3
<1> HIDE DEF header
<1>10. /\ FieldValue(c, b) \in Nat /\ FieldValue(c, b) < FieldLimit(c)
      /\ c.strip <= Len(e) /\ Len(e) <= c.max
      /\ c.prepend + c.adjust + (IF c.includes THEN c.width ELSE 0) = 0
  BY <1>1, <1>4 DEF Carries, Fits, e
<1>11. field = FieldValue(c, b)
  BY <1>9, <1>10, UnpackPack DEF fld
<1>12. length = Len(e)
  <2>1. FieldValue(c, b) + c.adjust = Len(b)
    <3> DEFINE p == c.prepend
               a == c.adjust
               w == IF c.includes THEN c.width ELSE 0
    <3>1. p \in Int /\ a \in Int /\ w \in Int /\ p + a + w = 0 /\ FieldValue(c, b) = Len(b) + p + w
      BY <1>1, <1>10 DEF FieldValue
    <3> HIDE DEF p, a, w
    <3>2. FieldValue(c, b) + a = Len(b)
      BY <1>2, <3>1
    <3>3. QED
      BY <3>2 DEF a
  <2>2. length = Int64((FieldValue(c, b) + c.adjust) + end)
    BY <1>11
  <2> HIDE DEF end, length
  <2>3. length = Int64(Len(b) + end)
    BY <2>1, <2>2, Zenon
  <2>4. Len(b) + end = Len(e) /\ Len(e) \in 0 .. IntLimit - 1
    <3> DEFINE m == c.max
               l == Len(e)
    <3>1. m \in Nat /\ m < IntLimit /\ l \in Nat /\ l <= m /\ IntLimit \in Nat
      BY <1>1, <1>2, <1>5, <1>10, Limits
    <3> HIDE DEF m
    <3>2. l \in 0 .. IntLimit - 1
      <4> HIDE DEF l
      <4>1. QED
        BY <3>1
    <3>3. QED
      BY <1>2, <1>5, <3>2
  <2>5. Int64(Len(e)) = Len(e)
    BY <2>4, Int64Facts
  <2>6. QED
    BY <2>3, <2>4, <2>5, Zenon
<1>13. length - end = Len(rest) /\ length >= end
  <2> HIDE DEF end, length
  <2>1. QED
    BY <1>2, <1>5, <1>8, <1>12
<1> HIDE DEF length, field
<1>14. ~(field < 0 \/ length < end \/ length > c.max \/ c.strip > length)
  <2> HIDE DEF end
  <2>1. Len(e) \in Nat /\ end <= Len(e)
    BY <1>2, <1>5
  <2>2. Len(e) \in Int /\ end \in Int /\ c.max \in Int /\ c.strip \in Int
    BY <1>1, <1>2, <2>1
  <2>3. /\ ~(Len(e) < end) /\ ~(Len(e) > c.max) /\ ~(c.strip > Len(e))
    BY <1>10, <2>1, <2>2, NotAbove, Zenon
  <2>4. ~(field < 0)
    BY <1>10, <1>11
  <2>5. QED
    BY <1>12, <2>3, <2>4, Zenon
<1>15. Completes(c, b, SubSeq(bs, c.strip + 1, end), IF c.strip > end THEN c.strip - end ELSE 0,
                 length - end, rest)
  <2>1. Decoded(c, b) = SubSeq(e, c.strip + 1, Len(e))
    BY <1>1 DEF Decoded, e
  <2> DEFINE k == c.strip
  <2>2. k \in Nat /\ k <= Len(bs) + Len(rest)
    BY <1>1, <1>7, <1>10
  <2> HIDE DEF k, end
  <2>3. SubSeq(bs \o rest, k + 1, Len(bs \o rest))
          = SubSeq(bs, k + 1, Len(bs))
              \o SubSeq(rest, (IF k > Len(bs) THEN k - Len(bs) ELSE 0) + 1, Len(rest))
    BY <2>2, CutLemma
  <2>4. SubSeq(e, k + 1, Len(e))
          = SubSeq(bs, k + 1, end) \o SubSeq(rest, (IF k > end THEN k - end ELSE 0) + 1, length - end)
    BY <1>3, <1>7, <1>13, <2>3
  <2>5. QED
    BY <1>13, <2>1, <2>4, Zenon DEF Completes, k
<1>16. QED
  BY <1>7, <1>14, <1>15
\* Such a message is the number and what it counts.
LEMMA VarintBytes ==
  ASSUME NEW c, c.kind = "varint", NEW b \in Seq(Bytes), NEW v \in Seq(Bytes)
  PROVE  Encode(c, b) \o v = PutUvarint[Len(b)] \o (b \o v)
<1> DEFINE p == PutUvarint[Len(b)]
<1>1. p \in Seq(Bytes)
  BY UvarintPut
<1>2. Encode(c, b) = p \o b
  BY DEF Encode, WriteVarint
<1> HIDE DEF p
<1>3. (p \o b) \o v = p \o (b \o v)
  BY <1>1, ConcatAssociative
<1>4. QED
  BY <1>2, <1>3 DEF p

\* A message with a variable-length number: the number ends with the first byte
\* that is not followed by others, and is the length of the message.
LEMMA VarintRead ==
  ASSUME NEW c \in VarintLengthFieldCodec, NEW b \in Seq(Bytes), Carries(c, b),
         NEW buffer \in Seq(Bytes), InHeader(c, b, buffer),
         NEW bs \in Seq(Bytes), Len(bs) = Len(buffer) + 1, NEW u \in Seq(Bytes),
         NEW v \in Seq(Bytes), bs \o u = Encode(c, b) \o v
  PROVE  /\ Last(bs) >= Half => InHeader(c, b, bs)
         /\ ~(Last(bs) >= Half) =>
              /\ ~(Uvarint[bs] > c.max)
              /\ \E rest \in Seq(Bytes) :
                   u = rest \o v /\ Completes(c, b, <<>>, 0, Uvarint[bs], rest)
<1> DEFINE p == PutUvarint[Len(b)]
           w == b \o v
<1>1. c.kind = "varint" /\ c.max \in Nat /\ Half \in Nat /\ Bytes \subseteq Nat
  BY BaseFacts DEF VarintLengthFieldCodec, Bytes
<1>2. Len(b) \in Nat /\ Len(buffer) \in Nat /\ Len(bs) \in Nat \ {0} /\ w \in Seq(Bytes)
  OBVIOUS
<1>3. /\ p \in Seq(Bytes) /\ p # <<>> /\ p[Len(p)] < Half
      /\ \A i \in 1 .. Len(p) - 1 : p[i] >= Half
      /\ Uvarint[p] = Len(b)
  BY <1>2, UvarintPut
<1>4. bs \o u = p \o w
  BY <1>1, VarintBytes
<1>5. Len(bs) <= Len(p) /\ Len(p) \in Nat
  <2>1. Len(buffer) < Len(p)
    BY <1>1 DEF InHeader
  <2> HIDE DEF p
  <2>2. QED
    BY <1>2, <1>3, <2>1
<1> HIDE DEF p, w
<1>6. PICK r \in Seq(Bytes) : Splits(bs, u, p, w, r)
  BY <1>2, <1>3, <1>4, <1>5, SplitLemma
<1>7. p = bs \o r /\ u = r \o w /\ Len(p) = Len(bs) + Len(r)
  BY <1>6 DEF Splits
<1>8. Last(bs) = p[Len(bs)] /\ Last(bs) \in Nat
  <2>1. (bs \o r)[Len(bs)] = bs[Len(bs)]
    BY <1>2, ConcatProperties
  <2>2. bs[Len(bs)] \in Bytes
    BY <1>2
  <2>3. QED
    BY <1>1, <1>7, <2>1, <2>2 DEF Last
<1>9. ASSUME Last(bs) >= Half PROVE InHeader(c, b, bs)
  <2>1. Len(bs) # Len(p)
    BY <1>1, <1>3, <1>8, <1>9
  <2>2. Len(bs) < Len(p)
    BY <1>2, <1>5, <2>1
  <2>3. QED
    BY <1>1, <2>2 DEF InHeader, p
<1>10. ASSUME ~(Last(bs) >= Half)
       PROVE  /\ ~(Uvarint[bs] > c.max)
              /\ \E rest \in Seq(Bytes) :
                   u = rest \o v /\ Completes(c, b, <<>>, 0, Uvarint[bs], rest)
  <2>1. Len(bs) = Len(p)
    <3>1. ~(Len(bs) \in 1 .. Len(p) - 1)
      BY <1>3, <1>8, <1>10
    <3>2. QED
      BY <1>2, <1>5, <3>1
  <2>2. r = <<>>
    BY <1>2, <1>5, <1>7, <2>1
  <2>3. p = bs /\ u = w
    <3>1. bs \o <<>> = bs /\ <<>> \o w = w
      BY <1>2, ConcatEmptySeq
    <3>2. QED
      BY <1>7, <2>2, <3>1, Zenon
  <2>4. Uvarint[bs] = Len(b)
    BY <1>3, <2>3, Zenon
  <2>5. Len(b) <= c.max
    BY <1>1 DEF Carries
  <2>6. ~(Uvarint[bs] > c.max)
    BY <1>1, <1>2, <2>4, <2>5
  <2>7. Completes(c, b, <<>>, 0, Uvarint[bs], b)
    <3>1. Decoded(c, b) = b
      BY <1>1 DEF Decoded
    <3>2. SubSeq(b, 0 + 1, Len(b)) = b
      BY <1>2
    <3>3. <<>> \o b = b
      BY ConcatEmptySeq
    <3>4. QED
      BY <2>4, <3>1, <3>2, <3>3, Zenon DEF Completes
  <2>8. u = b \o v
    BY <2>3 DEF w
  <2>9. QED
    BY <2>6, <2>7, <2>8
<1>11. QED
  BY <1>9, <1>10

\* The frame the delimiter codec passes on when it has read bs.
Stripped(c, bs) == IF c.strip > 0 THEN SubSeq(bs, 1, Len(bs) - Len(c.delimiter)) ELSE bs

\* With bs read, u is left of the stream of message b and what follows it, v.
DelimiterRule(c, b, bs, u, v) ==
  /\ ~EndsWith(bs, c.delimiter) => InHeader(c, b, bs) /\ Len(bs) < c.max
  /\ EndsWith(bs, c.delimiter) => u = v /\ Completes(c, b, Stripped(c, bs), 0, 0, <<>>)

\* A message with a delimiter: the delimiter is met at the end of the frame and
\* not before, where there is room for another byte.
LEMMA DelimitedRead ==
  ASSUME NEW c \in DelimiterCodec, NEW b \in Seq(Bytes), Carries(c, b),
         NEW buffer \in Seq(Bytes), InHeader(c, b, buffer),
         NEW bs \in Seq(Bytes), Len(bs) = Len(buffer) + 1, NEW u \in Seq(Bytes),
         NEW v \in Seq(Bytes), bs \o u = Encode(c, b) \o v
  PROVE  DelimiterRule(c, b, bs, u, v)
<1> DEFINE d == c.delimiter
           e == b \o d
<1>1. c.kind = "delimiter" /\ c.max \in Nat /\ c.strip \in {0, 1} /\ d \in Seq(Bytes) /\ d # <<>>
  BY DelimiterFacts
<1> HIDE DEF d
<1>2. /\ e \in Seq(Bytes) /\ Len(e) = Len(b) + Len(d) /\ Len(b) \in Nat /\ Len(d) \in Nat \ {0}
      /\ Len(buffer) \in Nat /\ Len(bs) \in Nat \ {0}
  <2>1. e \in Seq(Bytes) /\ Len(e) = Len(b) + Len(d)
    BY <1>1, ConcatProperties
  <2>2. QED
    BY <1>1, <2>1
<1>3. Encode(c, b) = e
  BY <1>1 DEF Encode, WriteDelimited, d
<1>4. EndsWith(e, d)
  <2>1. SubSeq(b \o d, Len(b) + 1, Len(b) + Len(d)) = d
    BY <1>1, EndLemma
  <2>2. Len(e) >= Len(d) /\ (Len(e) - Len(d)) + 1 = Len(b) + 1 /\ Len(e) = Len(b) + Len(d)
    BY <1>2
  <2>3. QED
    BY <2>1, <2>2 DEF EndsWith
<1>5. Len(bs) <= Len(e)
  <2>1. Len(buffer) < Len(b) + Len(d)
    BY <1>1 DEF InHeader, d
  <2>2. QED
    BY <1>2, <2>1
<1>6. /\ Len(e) <= c.max
      /\ \A i \in 1 .. Len(e) - 1 : ~EndsWith(SubSeq(e, 1, i), d)
  BY <1>1, <1>3 DEF Carries, Fits, d
<1> HIDE DEF e
<1>7. PICK r \in Seq(Bytes) : Splits(bs, u, e, v, r)
  <2>1. bs \o u = e \o v
    BY <1>3, Zenon
  <2>2. QED
    BY <1>2, <1>5, <2>1, SplitLemma
<1>8. e = bs \o r /\ u = r \o v /\ Len(e) = Len(bs) + Len(r) /\ bs = SubSeq(e, 1, Len(bs))
  BY <1>7 DEF Splits
<1>9. ASSUME ~EndsWith(bs, d) PROVE InHeader(c, b, bs) /\ Len(bs) < c.max
  <2>1. Len(bs) # Len(e)
    <3>1. ASSUME Len(bs) = Len(e) PROVE FALSE
      <4>1. Len(r) = 0
        BY <1>2, <1>8, <3>1
      <4>2. r = <<>>
        BY <4>1
      <4>3. bs \o <<>> = bs
        BY ConcatEmptySeq
      <4>4. e = bs
        BY <1>8, <4>2, <4>3, Zenon
      <4>5. QED
        BY <1>4, <1>9, <4>4
    <3>2. QED
      BY <3>1
  <2>2. Len(bs) < Len(e)
    BY <1>2, <1>5, <2>1
  <2>3. Len(bs) < c.max /\ Len(bs) < Len(b) + Len(d)
    BY <1>1, <1>2, <1>6, <2>2
  <2>4. QED
    BY <1>1, <2>3 DEF InHeader, d
<1>10. ASSUME EndsWith(bs, d)
       PROVE  /\ u = v
              /\ Completes(c, b, Stripped(c, bs), 0, 0, <<>>)
  <2>1. Len(bs) = Len(e)
    <3>1. ~(Len(bs) \in 1 .. Len(e) - 1)
      BY <1>6, <1>8, <1>10, Zenon
    <3>2. QED
      BY <1>2, <1>5, <3>1
  <2>2. Len(r) = 0
    BY <1>2, <1>8, <2>1
  <2>3. r = <<>>
    BY <2>2
  <2>4. bs = e /\ u = v
    <3>1. bs \o <<>> = bs /\ <<>> \o v = v
      BY ConcatEmptySeq
    <3>2. QED
      BY <1>8, <2>3, <3>1, Zenon
  <2>5. SubSeq(<<>>, 0 + 1, 0) = <<>> /\ Len(<<>>) = 0
    OBVIOUS
  <2>6. ASSUME NEW f \in Seq(Bytes), Decoded(c, b) = f PROVE Completes(c, b, f, 0, 0, <<>>)
    <3>1. f \o <<>> = f
      BY ConcatEmptySeq
    <3>2. QED
      BY <2>5, <2>6, <3>1, Zenon DEF Completes
  <2>7. CASE c.strip > 0
    <3>1. Decoded(c, b) = b
      BY <1>1, <2>7 DEF Decoded
    <3>2. SubSeq(bs, 1, Len(bs) - Len(d)) = b
      <4>1. Len(bs) - Len(d) = Len(b)
        <5>1. Len(b) \in Nat /\ Len(d) \in Nat /\ Len(bs) = Len(b) + Len(d)
          BY <1>2, <2>1
        <5>2. QED
          BY <5>1, Difference, Zenon
      <4>2. SubSeq(b \o d, 1, Len(b)) = b
        <5> DEFINE z == SubSeq(e, 1, Len(b))
        <5>1. z \in Seq(Bytes) /\ Len(z) = Len(b) /\ \A i \in 1 .. Len(b) : z[i] = e[i]
          BY <1>2
        <5>2. \A i \in 1 .. Len(b) : e[i] = b[i]
          BY <1>1, <1>2, ConcatProperties DEF e
        <5> HIDE DEF z
        <5>3. z = b
          BY <5>1, <5>2, SeqEqual
        <5>4. QED
          BY <5>3 DEF z, e
      <4>3. bs = b \o d
        BY <2>4 DEF e
      <4>4. QED
        BY <4>1, <4>2, <4>3, Zenon
    <3>3. Stripped(c, bs) = b
      BY <2>7, <3>2 DEF Stripped, d
    <3>4. QED
      BY <2>4, <2>6, <3>1, <3>3
  <2>8. CASE ~(c.strip > 0)
    <3>1. Decoded(c, b) = bs
      BY <1>1, <2>4, <2>8 DEF Decoded, e, d
    <3>2. Stripped(c, bs) = bs
      BY <2>8 DEF Stripped
    <3>3. QED
      BY <2>4, <2>6, <3>1, <3>2
  <2>9. QED
    BY <2>7, <2>8
<1>11. QED
  BY <1>9, <1>10 DEF d, DelimiterRule
-----------------------------------------------------------------------------
(* Frames arrive.                                                          *)

\* t[i] is what the messages from the i-th on are on the stream.
IsTails(c, t, s) ==
  /\ t \in [1 .. Len(s) + 1 -> Seq(Bytes)] /\ t[Len(s) + 1] = <<>>
  /\ \A i \in 1 .. Len(s) : t[i] = Encode(c, s[i]) \o t[i + 1]

\* The message whose frame is read next.
Now == sent[Len(received) + 1]

\* HandleRead is in the header of the next message, or between two messages.
HeaderAt(t) ==
  phase = "header" =>
    /\ buf \o stream = t[Len(received) + 1]
    /\ buf # <<>> => Len(received) < Len(sent) /\ InHeader(codec, Now, buf)

\* The next handler has the beginning of the frame of the next message, and the
\* rest of it is on the stream.
FrameAt(t) ==
  phase = "body" =>
    /\ Len(received) < Len(sent)
    /\ \E rest \in Seq(Bytes) :
         /\ stream = rest \o t[Len(received) + 2]
         /\ Completes(codec, Now, frame, skip, left, rest)

\* The stream holds the messages that were not received, from the byte on where
\* the reader is.
Aligned ==
  ~spoiled =>
    /\ \A i \in 1 .. Len(sent) : Carries(codec, sent[i])
    /\ Len(received) <= Len(sent)
    /\ \A i \in 1 .. Len(received) : received[i] = Decoded(codec, sent[i])
    /\ \E t : IsTails(codec, t, sent) /\ HeaderAt(t) /\ FrameAt(t)

\* Reader and writer are in step at first.
LEMMA InitAligned == Init => Aligned
<1> SUFFICES ASSUME Init PROVE Aligned
  OBVIOUS
<1> DEFINE t == [i \in 1 .. 1 |-> <<>>]
<1>1. /\ Len(sent) = 0 /\ Len(received) = 0 /\ phase = "header" /\ stream = <<>> /\ buf = <<>>
  BY DEF Init
<1>2. IsTails(codec, t, sent)
  BY <1>1 DEF IsTails
<1>3. buf \o stream = t[Len(received) + 1]
  BY <1>1
<1> HIDE DEF t
<1>4. HeaderAt(t) /\ FrameAt(t)
  BY <1>1, <1>3 DEF HeaderAt, FrameAt
<1>5. QED
  BY <1>1, <1>2, <1>4 DEF Aligned

\* Messages that are added to the end of the stream move none.
LEMMA WriteAligned == Bounded /\ Aligned /\ Write => Aligned'
<1> SUFFICES ASSUME Bounded, Aligned, Write, ~spoiled' PROVE Aligned'
  BY DEF Aligned
<1>1. PICK b \in Bodies :
        /\ codec.kind = "varint" => Len(b) <= codec.max
        /\ stream' = stream \o Encode(codec, b) /\ sent' = Append(sent, b)
        /\ spoiled' = (spoiled \/ ~Fits(codec, b))
  BY DEF Write
<1>2. UNCHANGED <<codec, phase, buf, frame, skip, left, received>>
  BY DEF Write
<1>3. ~spoiled /\ Carries(codec, b)
  BY <1>1 DEF Carries
<1> DEFINE n == Len(sent)
           r == Len(received)
           enc == Encode(codec, b)
<1>4. /\ codec \in Codecs /\ b \in Seq(Bytes) /\ sent \in Seq(Bodies) /\ n \in Nat /\ r \in Nat
      /\ stream \in Seq(Bytes) /\ buf \in Seq(Bytes)
  BY CodecAssumption DEF Bounded, TypeOK
<1>5. enc \in Seq(Bytes)
  BY <1>4, EncodeType
<1>6. /\ Len(sent') = n + 1 /\ sent'[n + 1] = b /\ \A i \in 1 .. n : sent'[i] = sent[i]
  BY <1>1, <1>4
<1>7. /\ \A i \in 1 .. n : Carries(codec, sent[i])
      /\ r <= n
      /\ \A i \in 1 .. r : received[i] = Decoded(codec, sent[i])
  BY <1>3 DEF Aligned
<1>8. PICK t : IsTails(codec, t, sent) /\ HeaderAt(t) /\ FrameAt(t)
  BY <1>3 DEF Aligned
<1>9. /\ t \in [1 .. n + 1 -> Seq(Bytes)] /\ t[n + 1] = <<>>
      /\ \A i \in 1 .. n : t[i] = Encode(codec, sent[i]) \o t[i + 1]
  BY <1>8 DEF IsTails
<1> HIDE DEF n, r, enc
<1>10. PICK q : /\ q \in [1 .. n + 2 -> Seq(Bytes)] /\ q[n + 2] = <<>>
                /\ \A i \in 1 .. n + 1 : q[i] = t[i] \o enc
  <2> DEFINE w == [i \in 1 .. n + 2 |-> IF i <= n + 1 THEN t[i] \o enc ELSE <<>>]
  <2>1. ASSUME NEW i \in 1 .. n + 2 PROVE w[i] \in Seq(Bytes)
    <3>1. CASE i <= n + 1
      <4>1. i \in 1 .. n + 1
        BY <1>4, <3>1
      <4>2. t[i] \in Seq(Bytes)
        BY <1>9, <4>1
      <4>3. t[i] \o enc \in Seq(Bytes)
        BY <1>5, <4>2
      <4>4. QED
        BY <3>1, <4>3
    <3>2. CASE ~(i <= n + 1)
      BY <3>2
    <3>3. QED
      BY <3>1, <3>2
  <2>2. w \in [1 .. n + 2 -> Seq(Bytes)]
    BY <2>1
  <2>3. w[n + 2] = <<>> /\ \A i \in 1 .. n + 1 : w[i] = t[i] \o enc
    BY <1>4
  <2> HIDE DEF w
  <2>4. QED
    BY <2>2, <2>3
<1>11. IsTails(codec, q, sent')
  <2>1. ASSUME NEW i \in 1 .. n + 1 PROVE q[i] = Encode(codec, sent'[i]) \o q[i + 1]
    <3>1. CASE i = n + 1
      <4>1. q[i] = <<>> \o enc /\ q[i + 1] = <<>>
        <5>1. i + 1 = n + 2
          BY <1>4, <3>1
        <5>2. QED
          BY <1>9, <1>10, <3>1, <5>1, Zenon
      <4>2. <<>> \o enc = enc /\ enc \o <<>> = enc
        BY <1>5, ConcatEmptySeq
      <4>3. QED
        BY <1>6, <3>1, <4>1, <4>2 DEF enc
    <3>2. CASE i # n + 1
      <4>1. i \in 1 .. n /\ i + 1 \in 1 .. n + 1
        BY <1>4, <3>2
      <4> DEFINE e == Encode(codec, sent[i])
                 x == t[i + 1]
      <4>2. sent[i] \in Seq(Bytes)
        <5>1. sent[i] \in Bodies
          BY <1>4, <4>1 DEF n
        <5>2. QED
          BY <5>1, CodecAssumption
      <4>3. e \in Seq(Bytes) /\ x \in Seq(Bytes)
        BY <1>4, <1>9, <4>1, <4>2, EncodeType
      <4>4. q[i] = (e \o x) \o enc /\ q[i + 1] = x \o enc
        BY <1>9, <1>10, <4>1
      <4>5. Encode(codec, sent'[i]) = e
        BY <1>6, <4>1
      <4> HIDE DEF e, x
      <4>6. (e \o x) \o enc = e \o (x \o enc)
        BY <1>5, <4>3, ConcatAssociative
      <4>7. QED
        BY <4>4, <4>5, <4>6, Zenon
    <3>3. QED
      BY <3>1, <3>2
  <2>2. Len(sent') + 1 = n + 2
    BY <1>4, <1>6
  <2>3. QED
    BY <1>6, <1>10, <2>1, <2>2 DEF IsTails
<1>12. HeaderAt(q)'
  <2> SUFFICES ASSUME phase = "header"
               PROVE  /\ buf \o stream' = q[r + 1]
                      /\ buf # <<>> => r < n + 1 /\ InHeader(codec, sent'[r + 1], buf)
    BY <1>2, <1>6 DEF HeaderAt, Now, r
  <2>1. buf \o stream = t[r + 1] /\ (buf # <<>> => r < n /\ InHeader(codec, sent[r + 1], buf))
    BY <1>8 DEF HeaderAt, Now, r, n
  <2>2. q[r + 1] = t[r + 1] \o enc
    <3>1. r + 1 \in 1 .. n + 1
      BY <1>4, <1>7
    <3>2. QED
      BY <1>10, <3>1
  <2>3. buf \o (stream \o enc) = (buf \o stream) \o enc
    BY <1>4, <1>5, Associative, Zenon
  <2>4. buf \o stream' = q[r + 1]
    BY <1>1, <2>1, <2>2, <2>3, Zenon DEF enc
  <2>5. ASSUME r < n PROVE sent'[r + 1] = sent[r + 1] /\ r < n + 1
    <3>1. r + 1 \in 1 .. n /\ r < n + 1
      BY <1>4, <2>5
    <3>2. QED
      BY <1>6, <3>1
  <2>6. QED
    BY <2>1, <2>4, <2>5
<1>13. FrameAt(q)'
  <2> SUFFICES ASSUME phase = "body"
               PROVE  /\ r < n + 1
                      /\ \E rest \in Seq(Bytes) :
                           /\ stream' = rest \o q[r + 2]
                           /\ Completes(codec, sent'[r + 1], frame, skip, left, rest)
    BY <1>2, <1>6 DEF FrameAt, Now, r
  <2>1. r < n
    BY <1>8 DEF FrameAt, r, n
  <2>2. PICK rest \in Seq(Bytes) : /\ stream = rest \o t[r + 2]
                                  /\ Completes(codec, sent[r + 1], frame, skip, left, rest)
    BY <1>8 DEF FrameAt, Now, r
  <2>3. r + 1 \in 1 .. n /\ r + 2 \in 1 .. n + 1 /\ r < n + 1
    BY <1>4, <2>1
  <2>4. q[r + 2] = t[r + 2] \o enc /\ t[r + 2] \in Seq(Bytes) /\ sent'[r + 1] = sent[r + 1]
    BY <1>6, <1>9, <1>10, <2>3
  <2>5. (rest \o t[r + 2]) \o enc = rest \o (t[r + 2] \o enc)
    <3> DEFINE x == t[r + 2]
    <3>1. rest \in Seq(Bytes) /\ x \in Seq(Bytes)
      BY <2>4
    <3> HIDE DEF x
    <3>2. (rest \o x) \o enc = rest \o (x \o enc)
      BY <1>5, <3>1, ConcatAssociative
    <3>3. QED
      BY <3>2 DEF x
  <2>6. stream' = rest \o q[r + 2]
    BY <1>1, <2>2, <2>4, <2>5, Zenon DEF enc
  <2>7. QED
    BY <2>2, <2>3, <2>4, <2>6
<1>14. \A i \in 1 .. n + 1 : Carries(codec, sent'[i])
  <2>1. ASSUME NEW i \in 1 .. n + 1 PROVE Carries(codec, sent'[i])
    <3>1. i = n + 1 \/ i \in 1 .. n
      BY <1>4
    <3>2. QED
      BY <1>3, <1>6, <1>7, <3>1
  <2>2. QED
    BY <2>1
<1>15. \A i \in 1 .. r : received[i] = Decoded(codec, sent'[i])
  <2>1. \A i \in 1 .. r : i \in 1 .. n
    BY <1>4, <1>7
  <2>2. QED
    BY <1>6, <1>7, <2>1
<1>16. r <= n + 1
  BY <1>4, <1>7
<1>17. QED
  BY <1>2, <1>6, <1>11, <1>12, <1>13, <1>14, <1>15, <1>16 DEF Aligned, r
\* A step that only moves the reader keeps the stream aligned if it keeps the
\* reader where it should be.
LEMMA ReaderStep ==
  ASSUME Aligned, UNCHANGED <<codec, sent, received, spoiled>>,
         NEW t, IsTails(codec, t, sent), HeaderAt(t)', FrameAt(t)'
  PROVE  Aligned'
BY DEF Aligned

\* Where there is something to read there is a message to read,
LEMMA HeaderNext ==
  ASSUME Bounded, Aligned, ~spoiled, phase = "header", stream # <<>>
  PROVE  /\ Len(received) \in Nat /\ Len(received) < Len(sent) /\ Now \in Seq(Bytes)
         /\ Carries(codec, Now) /\ InHeader(codec, Now, buf)
         /\ \E t : /\ IsTails(codec, t, sent) /\ t[Len(received) + 2] \in Seq(Bytes)
                  /\ buf \o stream = Encode(codec, Now) \o t[Len(received) + 2]
<1> DEFINE n == Len(sent)
           r == Len(received)
<1>1. /\ codec \in Codecs /\ sent \in Seq(Bodies) /\ Bodies \subseteq Seq(Bytes) /\ n \in Nat /\ r \in Nat
      /\ stream \in Seq(Bytes) /\ buf \in Seq(Bytes)
  BY CodecAssumption DEF Bounded, TypeOK
<1>2. r <= n /\ \A i \in 1 .. n : Carries(codec, sent[i])
  BY DEF Aligned
<1>3. PICK t : IsTails(codec, t, sent) /\ HeaderAt(t)
  BY DEF Aligned
<1>4. /\ t \in [1 .. n + 1 -> Seq(Bytes)] /\ t[n + 1] = <<>>
      /\ \A i \in 1 .. n : t[i] = Encode(codec, sent[i]) \o t[i + 1]
  BY <1>3 DEF IsTails
<1>5. /\ buf \o stream = t[r + 1]
      /\ buf # <<>> => InHeader(codec, Now, buf)
  BY <1>3 DEF HeaderAt
<1> HIDE DEF n, r
<1>6. r < n
  <2>1. SUFFICES ASSUME r = n PROVE FALSE
    BY <1>1, <1>2
  <2>2. buf \o stream = <<>>
    BY <1>4, <1>5, <2>1
  <2>3. Len(stream) = 0
    <3>1. Len(buf \o stream) = Len(buf) + Len(stream) /\ Len(buf) \in Nat /\ Len(stream) \in Nat
      BY <1>1, ConcatProperties
    <3>2. Len(<<>>) = 0
      OBVIOUS
    <3>3. QED
      BY <2>2, <3>1, <3>2
  <2>4. QED
    BY <1>1, <2>3
<1>7. r + 1 \in 1 .. n /\ r + 2 \in 1 .. n + 1 /\ (r + 1) + 1 = r + 2
  BY <1>1, <1>6
<1>8. Now \in Seq(Bytes)
  <2>1. sent[r + 1] \in Bodies
    BY <1>1, <1>7 DEF n
  <2>2. QED
    BY <1>1, <2>1 DEF Now, r
<1>9. Carries(codec, Now)
  BY <1>2, <1>7 DEF Now, r
<1>10. InHeader(codec, Now, buf)
  BY <1>1, <1>5, <1>8, InHeaderEmpty
<1>11. t[r + 2] \in Seq(Bytes) /\ buf \o stream = Encode(codec, Now) \o t[r + 2]
  BY <1>4, <1>5, <1>7 DEF Now, r
<1>12. QED
  BY <1>1, <1>3, <1>6, <1>8, <1>9, <1>10, <1>11 DEF n, r

\* and the byte that is taken is the next of it.
LEMMA TakenNext ==
  ASSUME Bounded, Aligned, ~spoiled, NEW bs, Take(bs)
  PROVE  /\ Len(received) < Len(sent) /\ Now \in Seq(Bytes)
         /\ Carries(codec, Now) /\ InHeader(codec, Now, buf) /\ buf \in Seq(Bytes)
         /\ bs \in Seq(Bytes) /\ bs # <<>> /\ Len(bs) = Len(buf) + 1 /\ stream' \in Seq(Bytes)
         /\ \E t : /\ IsTails(codec, t, sent) /\ t[Len(received) + 2] \in Seq(Bytes)
                  /\ Encode(codec, Now) \o t[Len(received) + 2] = t[Len(received) + 1]
                  /\ bs \o stream' = Encode(codec, Now) \o t[Len(received) + 2]
<1>1. phase = "header" /\ stream # <<>>
  BY DEF Take
<1>2. /\ bs \in Seq(Bytes) /\ Len(bs) = Len(buf) + 1 /\ Len(bs) \in Nat \ {0} /\ Last(bs) \in Bytes
      /\ stream' \in Seq(Bytes) /\ bs = buf \o <<Last(bs)>> /\ stream = <<Last(bs)>> \o stream'
      /\ buf \in Seq(Bytes)
  BY Taken DEF Bounded, TypeOK
<1>3. bs # <<>>
  BY <1>2
<1>4. buf \o stream = bs \o stream'
  <2> DEFINE h == <<Last(bs)>>
             u == stream'
  <2>1. h \in Seq(Bytes) /\ u \in Seq(Bytes) /\ buf \in Seq(Bytes) /\ bs = buf \o h /\ stream = h \o u
    BY <1>2
  <2> HIDE DEF h, u
  <2>2. (buf \o h) \o u = buf \o (h \o u)
    BY <2>1, Associative, Zenon
  <2>3. QED
    BY <2>1, <2>2, Zenon DEF u
<1>5. /\ Len(received) \in Nat /\ Len(received) < Len(sent) /\ Now \in Seq(Bytes)
      /\ Carries(codec, Now) /\ InHeader(codec, Now, buf)
  BY <1>1, HeaderNext
<1>6. PICK t : /\ IsTails(codec, t, sent) /\ t[Len(received) + 2] \in Seq(Bytes)
               /\ buf \o stream = Encode(codec, Now) \o t[Len(received) + 2]
  BY <1>1, HeaderNext
<1>7. Encode(codec, Now) \o t[Len(received) + 2] = t[Len(received) + 1]
  <2>1. \A i \in 1 .. Len(sent) : t[i] = Encode(codec, sent[i]) \o t[i + 1]
    BY <1>6 DEF IsTails
  <2>2. Len(received) + 1 \in 1 .. Len(sent) /\ (Len(received) + 1) + 1 = Len(received) + 2
    <3>1. Len(sent) \in Nat
      BY DEF Bounded, TypeOK
    <3>2. QED
      BY <1>5, <3>1
  <2>3. QED
    BY <2>1, <2>2 DEF Now
<1>8. QED
  BY <1>2, <1>3, <1>4, <1>5, <1>6, <1>7

\* More of the header,
LEMMA MoreAligned ==
  ASSUME Bounded, Aligned, ~spoiled, NEW bs, Take(bs), More(bs), UNCHANGED <<codec, sent>>,
         InHeader(codec, Now, bs)
  PROVE  Aligned'
<1>1. /\ buf' = bs /\ phase = "header" /\ UNCHANGED <<codec, sent, phase, received, spoiled>>
  BY DEF More, Take
<1>2. Len(received) < Len(sent)
  BY TakenNext
<1>3. PICK t : /\ IsTails(codec, t, sent) /\ bs \o stream' = t[Len(received) + 1]
  BY TakenNext
<1>4. HeaderAt(t)'
  BY <1>1, <1>2, <1>3 DEF HeaderAt, Now
<1>5. FrameAt(t)'
  BY <1>1 DEF FrameAt
<1>6. QED
  BY <1>1, <1>3, <1>4, <1>5, ReaderStep

\* and the beginning of a frame.
LEMMA PostAligned ==
  ASSUME Aligned, NEW f, NEW n, NEW m, Post(f, n, m), UNCHANGED <<codec, sent>>,
         Len(received) < Len(sent), NEW t, IsTails(codec, t, sent),
         NEW rest \in Seq(Bytes), stream' = rest \o t[Len(received) + 2],
         Completes(codec, Now, f, n, m, rest)
  PROVE  Aligned'
<1>1. /\ buf' = <<>> /\ phase' = "body" /\ frame' = f /\ skip' = n /\ left' = m
      /\ UNCHANGED <<codec, sent, received, spoiled>>
  BY DEF Post
<1>2. HeaderAt(t)'
  BY <1>1 DEF HeaderAt
<1>3. FrameAt(t)'
  BY <1>1 DEF FrameAt, Now
<1>4. QED
  BY <1>1, <1>2, <1>3, ReaderStep
\* Every codec finds the end of the header and the length of the frame.
LEMMA LengthFieldAligned == Bounded /\ Aligned /\ ReadLengthField => Aligned'
<1> SUFFICES ASSUME Bounded, Aligned, ReadLengthField, ~spoiled' PROVE Aligned'
  BY DEF Aligned
<1> DEFINE end == codec.offset + codec.width
           Field(bs) == Unpack(codec, SubSeq(bs, codec.offset + 1, end))
           Length(bs) == Int64(Field(bs) + codec.adjust + end)
           Strip == IF codec.strip > end THEN codec.strip - end ELSE 0
<1>1. codec \in LengthFieldCodec /\ codec.kind = "lengthField" /\ UNCHANGED <<codec, sent>>
  BY Kinds DEF Bounded, TypeOK, ReadLengthField
<1>2. PICK bs :
        /\ Take(bs)
        /\ IF Len(bs) < end THEN More(bs)
           ELSE IF \/ Field(bs) < 0 \/ Length(bs) < end
                   \/ Length(bs) > codec.max \/ codec.strip > Length(bs) THEN Refuse
           ELSE Post(SubSeq(bs, codec.strip + 1, end), Strip, Length(bs) - end)
  BY DEF ReadLengthField
<1>3. ~Refuse
  BY DEF Refuse
<1>4. ~spoiled
  BY <1>2, <1>3 DEF More, Post
<1>5. CASE Len(bs) < end
  <2>1. InHeader(codec, Now, bs)
    BY <1>1, <1>5 DEF InHeader
  <2>2. QED
    BY <1>1, <1>2, <1>4, <1>5, <2>1, MoreAligned
<1>6. CASE ~(Len(bs) < end)
  <2>1. /\ Len(received) < Len(sent) /\ Now \in Seq(Bytes)
        /\ Carries(codec, Now) /\ InHeader(codec, Now, buf) /\ buf \in Seq(Bytes)
        /\ bs \in Seq(Bytes) /\ Len(bs) = Len(buf) + 1 /\ stream' \in Seq(Bytes)
    BY <1>2, <1>4, TakenNext
  <2>2. PICK t : /\ IsTails(codec, t, sent) /\ t[Len(received) + 2] \in Seq(Bytes)
                 /\ bs \o stream' = Encode(codec, Now) \o t[Len(received) + 2]
    BY <1>2, <1>4, TakenNext
  <2>3. Len(bs) >= end
    <3>1. end \in Nat /\ Len(bs) \in Nat
      BY <1>1, <2>1, LengthFieldFacts
    <3> HIDE DEF end
    <3>2. QED
      BY <1>6, <3>1
  <2>4. /\ ~(Field(bs) < 0 \/ Length(bs) < end \/ Length(bs) > codec.max \/ codec.strip > Length(bs))
        /\ \E rest \in Seq(Bytes) :
             /\ stream' = rest \o t[Len(received) + 2]
             /\ Completes(codec, Now, SubSeq(bs, codec.strip + 1, end), Strip,
                          Length(bs) - end, rest)
    BY <1>1, <2>1, <2>2, <2>3, LengthFieldRead
  <2>5. PICK rest \in Seq(Bytes) :
          /\ stream' = rest \o t[Len(received) + 2]
          /\ Completes(codec, Now, SubSeq(bs, codec.strip + 1, end), Strip, Length(bs) - end, rest)
    BY <2>4
  <2> HIDE DEF end, Field, Length, Strip
  <2>6. Post(SubSeq(bs, codec.strip + 1, end), Strip, Length(bs) - end)
    BY <1>2, <1>6, <2>4
  <2>7. QED
    BY <1>1, <2>1, <2>2, <2>5, <2>6, PostAligned
<1>7. QED
  BY <1>5, <1>6

\* They stay so with a varint header,
LEMMA VarintAligned == Bounded /\ Aligned /\ ReadVarint => Aligned'
<1> SUFFICES ASSUME Bounded, Aligned, ReadVarint, ~spoiled' PROVE Aligned'
  BY DEF Aligned
<1>1. codec \in VarintLengthFieldCodec /\ UNCHANGED <<codec, sent>>
  BY Kinds DEF Bounded, TypeOK, ReadVarint
<1>2. PICK bs : /\ Take(bs)
               /\ IF Last(bs) >= Half THEN More(bs)
                  ELSE IF Uvarint[bs] > codec.max THEN Refuse
                  ELSE Post(<<>>, 0, Uvarint[bs])
  BY DEF ReadVarint
<1>3. ~Refuse
  BY DEF Refuse
<1>4. ~spoiled
  BY <1>2, <1>3 DEF More, Post
<1>5. /\ Len(received) < Len(sent) /\ Now \in Seq(Bytes)
      /\ Carries(codec, Now) /\ InHeader(codec, Now, buf) /\ buf \in Seq(Bytes)
      /\ bs \in Seq(Bytes) /\ Len(bs) = Len(buf) + 1 /\ stream' \in Seq(Bytes)
  BY <1>2, <1>4, TakenNext
<1>6. PICK t : /\ IsTails(codec, t, sent) /\ t[Len(received) + 2] \in Seq(Bytes)
               /\ bs \o stream' = Encode(codec, Now) \o t[Len(received) + 2]
  BY <1>2, <1>4, TakenNext
<1>7. /\ Last(bs) >= Half => InHeader(codec, Now, bs)
      /\ ~(Last(bs) >= Half) =>
           /\ ~(Uvarint[bs] > codec.max)
           /\ \E rest \in Seq(Bytes) :
                /\ stream' = rest \o t[Len(received) + 2]
                /\ Completes(codec, Now, <<>>, 0, Uvarint[bs], rest)
  BY <1>1, <1>5, <1>6, VarintRead, Zenon
<1>8. CASE Last(bs) >= Half
  BY <1>1, <1>2, <1>4, <1>7, <1>8, MoreAligned
<1>9. CASE ~(Last(bs) >= Half)
  <2>1. PICK rest \in Seq(Bytes) : /\ stream' = rest \o t[Len(received) + 2]
                                  /\ Completes(codec, Now, <<>>, 0, Uvarint[bs], rest)
    BY <1>7, <1>9
  <2>2. Post(<<>>, 0, Uvarint[bs])
    BY <1>2, <1>7, <1>9
  <2>3. QED
    BY <1>1, <1>5, <1>6, <2>1, <2>2, PostAligned
<1>10. QED
  BY <1>8, <1>9

\* with a delimiter,
LEMMA DelimitedAligned == Bounded /\ Aligned /\ ReadDelimited => Aligned'
<1> SUFFICES ASSUME Bounded, Aligned, ReadDelimited, ~spoiled' PROVE Aligned'
  BY DEF Aligned
<1>1. codec \in DelimiterCodec /\ UNCHANGED <<codec, sent>>
  BY Kinds DEF Bounded, TypeOK, ReadDelimited
<1>2. PICK bs : /\ Take(bs)
               /\ IF EndsWith(bs, codec.delimiter) THEN Post(Stripped(codec, bs), 0, 0)
                  ELSE IF Len(bs) < codec.max THEN More(bs) ELSE Refuse
  BY DEF ReadDelimited, Stripped
<1>3. ~Refuse
  BY DEF Refuse
<1>4. ~spoiled
  BY <1>2, <1>3 DEF More, Post
<1>5. /\ Len(received) < Len(sent) /\ Now \in Seq(Bytes)
      /\ Carries(codec, Now) /\ InHeader(codec, Now, buf) /\ buf \in Seq(Bytes)
      /\ bs \in Seq(Bytes) /\ Len(bs) = Len(buf) + 1 /\ stream' \in Seq(Bytes)
  BY <1>2, <1>4, TakenNext
<1>6. PICK t : /\ IsTails(codec, t, sent) /\ t[Len(received) + 2] \in Seq(Bytes)
               /\ bs \o stream' = Encode(codec, Now) \o t[Len(received) + 2]
  BY <1>2, <1>4, TakenNext
<1>7. /\ ~EndsWith(bs, codec.delimiter) => InHeader(codec, Now, bs) /\ Len(bs) < codec.max
      /\ EndsWith(bs, codec.delimiter) =>
           /\ stream' = t[Len(received) + 2]
           /\ Completes(codec, Now, Stripped(codec, bs), 0, 0, <<>>)
  <2>1. /\ codec \in DelimiterCodec /\ Now \in Seq(Bytes) /\ Carries(codec, Now)
        /\ buf \in Seq(Bytes) /\ InHeader(codec, Now, buf)
        /\ bs \in Seq(Bytes) /\ Len(bs) = Len(buf) + 1
        /\ stream' \in Seq(Bytes) /\ t[Len(received) + 2] \in Seq(Bytes)
        /\ bs \o stream' = Encode(codec, Now) \o t[Len(received) + 2]
    BY <1>1, <1>5, <1>6
  <2>2. DelimiterRule(codec, Now, bs, stream', t[Len(received) + 2])
    BY <2>1, DelimitedRead, Zenon
  <2>3. QED
    BY <2>2 DEF DelimiterRule
<1>8. CASE ~EndsWith(bs, codec.delimiter)
  BY <1>1, <1>2, <1>4, <1>7, <1>8, MoreAligned
<1>9. CASE EndsWith(bs, codec.delimiter)
  <2>1. Post(Stripped(codec, bs), 0, 0)
    BY <1>2, <1>9
  <2>2. <<>> \o t[Len(received) + 2] = t[Len(received) + 2]
    BY <1>6, ConcatEmptySeq
  <2>3. stream' = <<>> \o t[Len(received) + 2] /\ <<>> \in Seq(Bytes)
    <3>1. <<>> \in Seq(Bytes)
      OBVIOUS
    <3>2. QED
      BY <1>7, <1>9, <2>2, <3>1, Zenon
  <2>4. QED
    BY <1>1, <1>5, <1>6, <1>7, <1>9, <2>1, <2>3, PostAligned
<1>10. QED
  BY <1>8, <1>9

\* and with a frame of fixed length.
LEMMA FixedAligned == Bounded /\ Aligned /\ ReadFixed => Aligned'
<1> SUFFICES ASSUME Bounded, Aligned, ReadFixed, ~spoiled' PROVE Aligned'
  BY DEF Aligned
<1>1. /\ codec.kind = "fixed" /\ phase = "header" /\ stream # <<>> /\ Post(<<>>, 0, codec.length)
      /\ UNCHANGED <<codec, stream, sent>>
  BY DEF ReadFixed
<1>2. ~spoiled
  BY <1>1 DEF Post
<1>3. /\ Len(received) < Len(sent) /\ Now \in Seq(Bytes)
      /\ Carries(codec, Now) /\ InHeader(codec, Now, buf)
  BY <1>1, <1>2, HeaderNext
<1>4. PICK t : /\ IsTails(codec, t, sent) /\ t[Len(received) + 2] \in Seq(Bytes)
               /\ buf \o stream = Encode(codec, Now) \o t[Len(received) + 2]
  BY <1>1, <1>2, HeaderNext
<1>5. buf = <<>> /\ Encode(codec, Now) = Now /\ Decoded(codec, Now) = Now /\ Len(Now) = codec.length
  BY <1>1, <1>3 DEF InHeader, Encode, Decoded, Carries, Fits
<1>6. stream' = Now \o t[Len(received) + 2]
  <2>1. <<>> \o stream = stream
    BY ConcatEmptySeq DEF Bounded, TypeOK
  <2>2. QED
    BY <1>1, <1>4, <1>5, <2>1, Zenon
<1>7. Completes(codec, Now, <<>>, 0, codec.length, Now)
  <2>1. SubSeq(Now, 0 + 1, Len(Now)) = Now
    BY <1>3
  <2>2. <<>> \o Now = Now
    BY <1>3, ConcatEmptySeq
  <2>3. QED
    BY <1>5, <2>1, <2>2, Zenon DEF Completes
<1>8. QED
  BY <1>1, <1>3, <1>4, <1>6, <1>7, PostAligned

\* A byte of a frame goes from the stream to the next handler, or is stripped.
LEMMA FrameAligned == Bounded /\ Aligned /\ ReadFrame => Aligned'
<1> SUFFICES ASSUME Bounded, Aligned, ReadFrame, ~spoiled' PROVE Aligned'
  BY DEF Aligned
<1>1. /\ phase = "body" /\ left > 0 /\ stream # <<>> /\ stream' = Tail(stream) /\ left' = left - 1
      /\ UNCHANGED <<codec, phase, buf, sent, received, spoiled>>
  BY DEF ReadFrame
<1>2. /\ stream \in Seq(Bytes) /\ frame \in Seq(Bytes) /\ left \in Nat \ {0} /\ skip \in 0 .. left
  BY <1>1 DEF Bounded, TypeOK
<1>3. PICK t : IsTails(codec, t, sent) /\ FrameAt(t)
  BY <1>1 DEF Aligned
<1>4. Len(received) < Len(sent)
  BY <1>1, <1>3 DEF FrameAt
<1>5. PICK rest \in Seq(Bytes) : /\ stream = rest \o t[Len(received) + 2]
                                /\ Completes(codec, Now, frame, skip, left, rest)
  BY <1>1, <1>3 DEF FrameAt
<1> DEFINE v == t[Len(received) + 2]
           h == Head(rest)
           tail == Tail(rest)
<1>6. v \in Seq(Bytes)
  <2>1. Len(received) + 2 \in 1 .. Len(sent) + 1
    <3>1. Len(received) \in Nat /\ Len(sent) \in Nat
      BY DEF Bounded, TypeOK
    <3>2. QED
      BY <1>4, <3>1
  <2>2. QED
    BY <1>3, <2>1 DEF IsTails
<1>7. Len(rest) = left /\ Decoded(codec, Now) = frame \o SubSeq(rest, skip + 1, left)
  BY <1>5 DEF Completes
<1>8. /\ h \in Bytes /\ tail \in Seq(Bytes) /\ Len(tail) = left - 1 /\ rest = <<h>> \o tail
      /\ \A i \in 1 .. left - 1 : tail[i] = rest[i + 1]
  BY <1>2, <1>7
<1> HIDE DEF v, h, tail
<1>9. stream = <<h>> \o (tail \o v)
  <2>1. <<h>> \in Seq(Bytes)
    BY <1>8
  <2> DEFINE x == <<h>>
  <2>2. x \in Seq(Bytes) /\ rest = x \o tail
    BY <1>8, <2>1
  <2> HIDE DEF x
  <2>3. (x \o tail) \o v = x \o (tail \o v)
    BY <1>6, <1>8, <2>2, ConcatAssociative
  <2>4. stream = x \o (tail \o v)
    BY <1>5, <2>2, <2>3, Zenon DEF v
  <2>5. QED
    BY <2>4 DEF x
<1>10. Head(stream) = h /\ stream' = tail \o v
  <2> DEFINE u == tail \o v
  <2>1. u \in Seq(Bytes) /\ stream = <<h>> \o u
    BY <1>6, <1>8, <1>9
  <2> HIDE DEF u
  <2>2. Head(stream) = h /\ Tail(stream) = u
    BY <1>8, <2>1
  <2>3. QED
    BY <1>1, <2>2 DEF u
<1>11. Completes(codec, Now, frame', skip', left', tail)
  <2>1. Len(tail) = left'
    BY <1>1, <1>8
  <2>2. CASE skip > 0
    <3>1. skip' = skip - 1 /\ frame' = frame
      BY <2>2 DEF ReadFrame
    <3>2. SubSeq(tail, skip' + 1, left') = SubSeq(rest, skip + 1, left)
      <4> DEFINE y == SubSeq(tail, skip, left - 1)
                 z == SubSeq(rest, skip + 1, left)
      <4>1. y \in Seq(Bytes) /\ Len(y) = left - skip /\ \A i \in 1 .. left - skip : y[i] = tail[skip + i - 1]
        BY <1>2, <1>8, <2>2
      <4>2. z \in Seq(Bytes) /\ Len(z) = left - skip /\ \A i \in 1 .. left - skip : z[i] = rest[skip + i]
        <5>1. Len(rest) = left /\ skip \in Nat /\ skip <= left /\ left \in Nat
          BY <1>2, <1>7
        <5>2. QED
          BY <5>1
      <4> HIDE DEF y, z
      <4>3. \A i \in 1 .. left - skip : y[i] = z[i]
        <5>1. ASSUME NEW i \in 1 .. left - skip PROVE y[i] = z[i]
          <6>1. skip + i - 1 \in 1 .. left - 1 /\ (skip + i - 1) + 1 = skip + i
            BY <1>2, <2>2
          <6>2. QED
            BY <1>8, <4>1, <4>2, <6>1
        <5>2. QED
          BY <5>1
      <4>4. y = z
        BY <4>1, <4>2, <4>3, SeqEqual
      <4>5. skip' + 1 = skip /\ left' = left - 1
        BY <1>1, <1>2, <3>1
      <4>6. QED
        BY <4>4, <4>5 DEF y, z
    <3>3. QED
      BY <1>7, <2>1, <3>1, <3>2, Zenon DEF Completes
  <2>3. CASE ~(skip > 0)
    <3>1. skip = 0 /\ skip' = skip /\ frame' = Append(frame, h)
      BY <1>2, <1>10, <2>3 DEF ReadFrame
    <3>2. SubSeq(rest, 0 + 1, left) = rest
      BY <1>2, <1>7
    <3>3. SubSeq(tail, 0 + 1, left') = tail
      BY <1>1, <1>2, <1>8
    <3> DEFINE x == <<h>>
    <3>4. x \in Seq(Bytes) /\ rest = x \o tail /\ frame' = frame \o x
      BY <1>2, <1>8, <3>1
    <3> HIDE DEF x
    <3>5. (frame \o x) \o tail = frame \o (x \o tail)
      BY <1>2, <1>8, <3>4, Associative, Zenon
    <3>6. Decoded(codec, Now) = frame' \o tail
      BY <1>7, <3>1, <3>2, <3>4, <3>5, Zenon
    <3>7. QED
      BY <2>1, <3>1, <3>3, <3>6, Zenon DEF Completes
  <2>4. QED
    BY <2>2, <2>3
<1>12. HeaderAt(t)' /\ FrameAt(t)'
  <2>1. HeaderAt(t)'
    BY <1>1 DEF HeaderAt
  <2>2. stream' = tail \o t[Len(received) + 2] /\ tail \in Seq(Bytes)
    BY <1>8, <1>10 DEF v
  <2>3. FrameAt(t)'
    BY <1>1, <1>4, <1>11, <2>2 DEF FrameAt, Now
  <2>4. QED
    BY <2>1, <2>3
<1>13. QED
  BY <1>1, <1>3, <1>12, ReaderStep
\* The end of a frame is the beginning of the next message.
LEMMA EndAligned == Bounded /\ Aligned /\ EndFrame => Aligned'
<1> SUFFICES ASSUME Bounded, Aligned, EndFrame, ~spoiled' PROVE Aligned'
  BY DEF Aligned
<1> DEFINE n == Len(sent)
           r == Len(received)
<1>1. /\ phase = "body" /\ left = 0 /\ received' = Append(received, frame) /\ phase' = "header"
      /\ buf = <<>> /\ UNCHANGED <<codec, stream, buf, sent, spoiled>>
  BY DEF EndFrame, Bounded, TypeOK
<1>2. /\ stream \in Seq(Bytes) /\ frame \in Seq(Bytes) /\ received \in Seq(Seq(Bytes)) /\ r \in Nat
      /\ n \in Nat
  BY DEF Bounded, TypeOK
<1>3. /\ \A i \in 1 .. n : Carries(codec, sent[i])
      /\ \A i \in 1 .. r : received[i] = Decoded(codec, sent[i])
  BY <1>1 DEF Aligned
<1>4. PICK t : IsTails(codec, t, sent) /\ FrameAt(t)
  BY <1>1 DEF Aligned
<1>5. r < n
  BY <1>1, <1>4 DEF FrameAt
<1>6. PICK rest \in Seq(Bytes) : /\ stream = rest \o t[r + 2]
                                /\ Completes(codec, Now, frame, skip, 0, rest)
  BY <1>1, <1>4 DEF FrameAt
<1>7. t[r + 2] \in Seq(Bytes)
  <2>1. r + 2 \in 1 .. n + 1
    BY <1>2, <1>5
  <2>2. QED
    BY <1>4, <2>1 DEF IsTails
<1>8. Len(rest) = 0 /\ Decoded(codec, Now) = frame \o SubSeq(rest, skip + 1, 0)
  BY <1>6 DEF Completes
<1>9. rest = <<>>
  BY <1>8
<1>10. stream = t[r + 2]
  <2>1. <<>> \o t[r + 2] = t[r + 2]
    BY <1>7, ConcatEmptySeq
  <2>2. QED
    BY <1>6, <1>9, <2>1, Zenon
<1>11. Decoded(codec, Now) = frame
  <2>1. SubSeq(rest, skip + 1, 0) = <<>>
    <3>1. skip \in Nat
      BY <1>1 DEF Bounded, TypeOK
    <3>2. QED
      BY <3>1, <1>9
  <2>2. frame \o <<>> = frame
    BY <1>2, ConcatEmptySeq
  <2>3. QED
    BY <1>8, <2>1, <2>2, Zenon
<1>12. /\ Len(received') = r + 1 /\ received'[r + 1] = frame
       /\ \A i \in 1 .. r : received'[i] = received[i]
  BY <1>1, <1>2
<1>13. Len(received') <= Len(sent') /\ (r + 1) + 1 = r + 2
  BY <1>1, <1>2, <1>5, <1>12
<1>14. \A i \in 1 .. Len(received') : received'[i] = Decoded(codec, sent[i])
  <2>1. ASSUME NEW i \in 1 .. r + 1 PROVE received'[i] = Decoded(codec, sent[i])
    <3>1. i = r + 1 \/ i \in 1 .. r
      BY <1>2
    <3>2. CASE i = r + 1
      BY <1>11, <1>12, <3>2 DEF Now
    <3>3. CASE i \in 1 .. r
      BY <1>3, <1>12, <3>3
    <3>4. QED
      BY <3>1, <3>2, <3>3
  <2>2. QED
    BY <1>12, <2>1
<1>15. HeaderAt(t)'
  <2>1. buf \o stream = t[r + 2]
    <3>1. <<>> \o stream = stream
      BY <1>2, ConcatEmptySeq
    <3>2. QED
      BY <1>1, <1>10, <3>1, Zenon
  <2>2. QED
    BY <1>1, <1>12, <1>13, <2>1 DEF HeaderAt
<1>16. FrameAt(t)'
  BY <1>1 DEF FrameAt
<1>17. QED
  BY <1>1, <1>3, <1>4, <1>13, <1>14, <1>15, <1>16 DEF Aligned

\* Every step keeps the stream aligned.
LEMMA AlignedStep == Bounded /\ Aligned /\ [Next]_vars => Aligned'
<1>1. LeaveFrame => Aligned'
  BY DEF LeaveFrame, Aligned
<1>2. Aligned /\ UNCHANGED vars => Aligned'
  <2> SUFFICES ASSUME Aligned, UNCHANGED vars, ~spoiled' PROVE Aligned'
    BY DEF Aligned
  <2>1. /\ UNCHANGED <<codec, sent, received, spoiled, phase, buf, stream, frame, skip, left>>
    BY DEF vars
  <2>2. PICK t : IsTails(codec, t, sent) /\ HeaderAt(t) /\ FrameAt(t)
    BY <2>1 DEF Aligned
  <2>3. HeaderAt(t)' /\ FrameAt(t)'
    BY <2>1, <2>2 DEF HeaderAt, FrameAt, Now
  <2>4. QED
    BY <2>1, <2>2, <2>3, ReaderStep
<1>3. QED
  BY <1>1, <1>2, WriteAligned, LengthFieldAligned, VarintAligned, DelimitedAligned, FixedAligned,
     FrameAligned, EndAligned DEF Next

\* Where the stream is aligned the frames are those of the messages.
LEMMA AlignedFrames == Bounded /\ Aligned => FramesArrive
<1> SUFFICES ASSUME Bounded, Aligned, ~spoiled PROVE IsPrefix(received, Frames)
  BY DEF FramesArrive
<1> DEFINE n == Len(sent)
           r == Len(received)
<1>1. /\ n \in Nat /\ r \in Nat /\ received \in Seq(Seq(Bytes)) /\ sent \in Seq(Bodies)
      /\ codec \in Codecs /\ Bodies \subseteq Seq(Bytes)
  BY CodecAssumption DEF Bounded, TypeOK
<1>2. r <= n /\ \A i \in 1 .. r : received[i] = Decoded(codec, sent[i])
  BY DEF Aligned
<1>3. Frames \in Seq(Seq(Bytes)) /\ Len(Frames) = n
      /\ \A i \in 1 .. n : Frames[i] = Decoded(codec, sent[i])
  <2>1. DOMAIN sent = 1 .. n
    BY <1>1
  <2>2. \A i \in 1 .. n : Decoded(codec, sent[i]) \in Seq(Bytes)
    BY <1>1, EncodeType
  <2>3. QED
    BY <1>1, <2>1, <2>2 DEF Frames
<1> HIDE DEF n
<1> DEFINE x == SubSeq(received, 1, r)
           y == SubSeq(Frames, 1, r)
<1>4. x \in Seq(Seq(Bytes)) /\ Len(x) = r /\ \A i \in 1 .. r : x[i] = received[i]
  BY <1>1
<1>5. y \in Seq(Seq(Bytes)) /\ Len(y) = r /\ \A i \in 1 .. r : y[i] = Frames[i]
  BY <1>1, <1>2, <1>3
<1> HIDE DEF x, y, r
<1>6. \A i \in 1 .. r : x[i] = y[i]
  <2>1. \A i \in 1 .. r : i \in 1 .. n
    BY <1>1, <1>2
  <2>2. QED
    BY <1>2, <1>3, <1>4, <1>5, <2>1
<1>7. x = y
  BY <1>4, <1>5, <1>6, SeqEqual
<1>8. QED
  BY <1>2, <1>3, <1>7 DEF IsPrefix, x, y, r

\* Frames arrive as they were written, in order, for every codec the constructors
\* accept and every sequence of messages, as long as messages fit and handlers
\* read what they get (codec/frame).
THEOREM FramesArriveHolds == Spec => []FramesArrive
<1>1. Bounded /\ Aligned => FramesArrive
  BY AlignedFrames
<1>2. Init => Bounded /\ Aligned
  BY InitBounded, InitAligned
<1>3. (Bounded /\ Aligned) /\ [Next]_vars => (Bounded /\ Aligned)'
  BY BoundedStep, AlignedStep
<1>4. QED
  BY <1>1, <1>2, <1>3, PTL DEF Spec
-----------------------------------------------------------------------------
(* BytesPool: rounding.                                                    *)

\* CeilToPowerOfTwo returns a power of two that is large enough.
LEMMA CeilLemma ==
  ASSUME NEW n \in 1 .. Limit
  PROVE  /\ CeilToPowerOfTwo(n) \in PowersOfTwo
         /\ n <= CeilToPowerOfTwo(n) /\ CeilToPowerOfTwo(n) < 2 * n
<1>1. \E m \in PowersOfTwo : n <= m /\ m < 2 * n
  BY PowersAssumption
<1>2. QED
  BY <1>1 DEF CeilToPowerOfTwo

\* A multiple of a step, less one, is in the class before the multiple.
LEMMA ClassLemma ==
  ASSUME NEW s \in Nat \ {0}, NEW k \in Nat \ {0}
  PROVE  (k * s - 1) \div s = k - 1
<1>1. k * s - 1 = s * (k - 1) + (s - 1)
  OBVIOUS
<1>2. QED
  BY <1>1

\* Powers of two of the same class are equal.
LEMMA SameClass ==
  ASSUME NEW s \in PowersOfTwo, NEW a \in PowersOfTwo, NEW b \in PowersOfTwo,
         s <= a, s <= b, (a - 1) \div s = (b - 1) \div s
  PROVE  a = b
<1> DEFINE j == a \div s
           k == b \div s
<1>1. s \in Nat \ {0} /\ a \in Nat \ {0} /\ b \in Nat \ {0} /\ a % s = 0 /\ b % s = 0
  BY PowersAssumption
<1>2. a = j * s /\ j \in Nat \ {0}
  BY <1>1
<1>3. b = k * s /\ k \in Nat \ {0}
  BY <1>1
<1> HIDE DEF j, k
<1>4. (a - 1) \div s = j - 1 /\ (b - 1) \div s = k - 1
  BY <1>1, <1>2, <1>3, ClassLemma
<1>5. QED
  BY <1>2, <1>3, <1>4

\* The step is a power of two.
LEMMA StepLemma == StepSize \in PowersOfTwo
<1>1. MaxSize \in PowersOfTwo /\ MaxSize \in Nat \ {0} /\ MaxSize < 2 * Limit
  <2> DEFINE n == IF MaxCap > 1 THEN MaxCap ELSE 1
  <2>1. n \in 1 .. Limit /\ Limit \in Nat
    BY PowersAssumption
  <2> HIDE DEF n
  <2>2. CeilToPowerOfTwo(n) \in PowersOfTwo /\ CeilToPowerOfTwo(n) < 2 * n
    BY <2>1, CeilLemma
  <2>3. CeilToPowerOfTwo(n) \in Nat \ {0}
    BY <2>2, PowersAssumption
  <2>4. CeilToPowerOfTwo(n) < 2 * Limit
    BY <2>1, <2>2, <2>3
  <2>5. QED
    BY <2>2, <2>3, <2>4 DEF MaxSize, n
<1>2. MaxSize \div ShardSize \in 1 .. Limit
  <2>1. CASE MaxSize < 64
    <3>1. MaxSize \div ShardSize = 1
      BY <1>1, <2>1 DEF ShardSize
    <3>2. QED
      BY <3>1, PowersAssumption
  <2>2. CASE MaxSize >= 64
    <3>1. ShardSize = 64
      BY <1>1, <2>2 DEF ShardSize
    <3>2. QED
      BY <1>1, <2>2, <3>1, PowersAssumption
  <2>3. QED
    BY <1>1, <2>1, <2>2
<1>3. QED
  BY <1>2, CeilLemma DEF StepSize

\* A rounded size is a power of two of at least the size and the step.
LEMMA SizeLemma ==
  ASSUME NEW n \in 0 .. Limit
  PROVE  Size(n) \in PowersOfTwo /\ n <= Size(n) /\ StepSize <= Size(n)
<1>1. StepSize \in PowersOfTwo /\ StepSize \in Nat \ {0}
  BY StepLemma, PowersAssumption
<1>2. CASE n <= StepSize
  BY <1>1, <1>2 DEF Size
<1>3. CASE n > StepSize
  <2>1. n \in 1 .. Limit
    BY <1>1, <1>3, PowersAssumption
  <2>2. Size(n) = CeilToPowerOfTwo(n)
    BY <1>1, <1>3 DEF Size
  <2>3. Size(n) \in PowersOfTwo /\ n <= Size(n)
    BY <2>1, <2>2, CeilLemma
  <2>4. Size(n) \in Nat
    BY <2>3, PowersAssumption
  <2>5. QED
    BY <1>1, <1>3, <2>3, <2>4
<1>4. QED
  BY <1>1, <1>2, <1>3

-----------------------------------------------------------------------------
(* The pool.                                                               *)

\* An object is used by one client at a time.
Unshared == \A p, q \in Clients : held[p] = held[q] /\ held[p] # NoObject => p = q

PoolTypes == PoolTypeOK /\ Unshared

\* Nothing is pooled or used at first.
LEMMA PoolTypesInit == NoObject \notin Objects /\ PoolInit => PoolTypes
BY PowersAssumption DEF PoolInit, PoolTypes, PoolTypeOK, Unshared

\* What the arithmetic of the classes gives the steps.
LEMMA PoolFacts ==
  /\ PowersOfTwo \subseteq Nat \ {0} /\ Sizes \subseteq 0 .. Limit /\ Limit \in Nat
  /\ ForeignCaps \subseteq Nat /\ StepSize \in Nat \ {0} /\ StepSize \in PowersOfTwo
  /\ \A n \in Sizes : Size(n) \in PowersOfTwo /\ n <= Size(n) /\ StepSize <= Size(n)
                     /\ Shard(Size(n)) # Free
<1>1. /\ PowersOfTwo \subseteq Nat \ {0} /\ Sizes \subseteq 0 .. Limit /\ Limit \in Nat
      /\ ForeignCaps \subseteq Nat
  BY PowersAssumption, ClientsAssumption
<1>2. StepSize \in Nat \ {0} /\ StepSize \in PowersOfTwo
  BY StepLemma, <1>1
<1>3. ASSUME NEW n \in Sizes
      PROVE  /\ Size(n) \in PowersOfTwo /\ n <= Size(n) /\ StepSize <= Size(n)
             /\ Shard(Size(n)) # Free
  <2>1. Size(n) \in PowersOfTwo /\ n <= Size(n) /\ StepSize <= Size(n)
    BY SizeLemma, <1>1
  <2>2. Size(n) \in Nat \ {0}
    BY <1>1, <2>1, Zenon
  <2>3. (Size(n) - 1) \div StepSize \in Nat
    BY <1>2, <2>2, SMT
  <2>4. QED
    BY <2>1, <2>3 DEF Shard, Free
<1>4. QED
  BY <1>1, <1>2, <1>3

\* No step gives an object to two clients.
LEMMA PoolTypesStep ==
  ASSUME NoObject \notin Objects
  PROVE  PoolTypes /\ [PoolNext]_poolVars => PoolTypes'
<1> SUFFICES ASSUME PoolTypes, [PoolNext]_poolVars PROVE PoolTypes'
  OBVIOUS
<1> USE NoObject \notin Objects DEF PoolTypes, Hold, Free
<1>1. ASSUME NEW p \in Clients, GetPooled(p) PROVE PoolTypes'
  <2>1. PICK n \in Sizes, b \in Objects :
          /\ shard[b] = Shard(Size(n))
          /\ shard' = [shard EXCEPT ![b] = Free]
          /\ held' = [held EXCEPT ![p] = b] /\ want' = [want EXCEPT ![p] = n]
    BY <1>1 DEF GetPooled
  <2>2. held[p] = NoObject /\ capacity' = capacity /\ shard[b] # Free /\ n \in 0 .. Limit
    BY <1>1, <2>1, PoolFacts DEF GetPooled
  <2>3. PoolTypeOK'
    BY <2>1, <2>2 DEF PoolTypeOK
  <2>4. Unshared'
    BY <2>1, <2>2 DEF PoolTypeOK, Unshared
  <2>5. QED
    BY <2>3, <2>4
<1>2. ASSUME NEW p \in Clients, NEW n \in 0 .. Limit, NEW c \in Nat, NEW b \in Objects, Unused(b),
             capacity' = [capacity EXCEPT ![b] = c], held' = [held EXCEPT ![p] = b],
             want' = [want EXCEPT ![p] = n], held[p] = NoObject, shard' = shard
      PROVE  PoolTypes'
  <2>1. PoolTypeOK'
    BY <1>2 DEF PoolTypeOK, Unused
  <2>2. Unshared'
    BY <1>2 DEF PoolTypeOK, Unshared, Unused
  <2>3. QED
    BY <2>1, <2>2
<1>3. ASSUME NEW p \in Clients, GetNew(p) PROVE PoolTypes'
  <2>1. PICK n \in Sizes, b \in Objects :
          /\ Unused(b)
          /\ capacity' = [capacity EXCEPT ![b] = Size(n)]
          /\ held' = [held EXCEPT ![p] = b] /\ want' = [want EXCEPT ![p] = n]
    BY <1>3 DEF GetNew
  <2>2. held[p] = NoObject /\ shard' = shard
    BY <1>3 DEF GetNew
  <2>3. n \in 0 .. Limit /\ Size(n) \in Nat
    BY PoolFacts
  <2>4. QED
    BY <1>2, <2>1, <2>2, <2>3
<1>4. ASSUME NEW p \in Clients, Bring(p) PROVE PoolTypes'
  <2>1. PICK c \in ForeignCaps, b \in Objects :
          /\ Unused(b)
          /\ capacity' = [capacity EXCEPT ![b] = c]
          /\ held' = [held EXCEPT ![p] = b] /\ want' = [want EXCEPT ![p] = 0]
    BY <1>4 DEF Bring
  <2>2. held[p] = NoObject /\ shard' = shard
    BY <1>4 DEF Bring
  <2>3. 0 \in 0 .. Limit /\ c \in Nat
    BY PoolFacts
  <2>4. QED
    BY <1>2, <2>1, <2>2, <2>3
<1>5. ASSUME NEW p \in Clients, Put(p) PROVE PoolTypes'
  <2>1. /\ held[p] \in Objects /\ capacity' = capacity /\ 0 \in 0 .. Limit
        /\ held' = [held EXCEPT ![p] = NoObject] /\ want' = [want EXCEPT ![p] = 0]
    BY <1>5, PoolFacts DEF Put, PoolTypeOK
  <2>2. \/ shard' = shard
        \/ /\ Shard(capacity[held[p]]) \in Shards
           /\ shard' = [shard EXCEPT ![held[p]] = Shard(capacity[held[p]])]
    BY <1>5 DEF Put
  <2>3. PoolTypeOK'
    BY <2>1, <2>2 DEF PoolTypeOK, Unshared
  <2>4. Unshared'
    BY <2>1 DEF PoolTypeOK, Unshared
  <2>5. QED
    BY <2>3, <2>4
<1>6. ASSUME NEW b \in Objects, Collect(b) PROVE PoolTypes'
  BY <1>6 DEF Collect, PoolTypeOK, Unshared
<1>7. CASE UNCHANGED poolVars
  BY <1>7 DEF poolVars, PoolTypeOK, Unshared
<1>8. QED
  BY <1>1, <1>3, <1>4, <1>5, <1>6, <1>7 DEF PoolNext

\* The objects of the clients and of the pool have capacities that are powers of
\* two, or none.
PoolFit ==
  /\ \A p \in Clients : held[p] # NoObject => capacity[held[p]] \in PowersOfTwo \cup {0}
  /\ \A b \in Objects : shard[b] # Free =>
       /\ capacity[b] \in PowersOfTwo /\ StepSize <= capacity[b]
       /\ shard[b] = Shard(capacity[b])

PoolInv == PoolTypes /\ PoolFit /\ GetSuffices

\* PoolInv holds at first.
LEMMA PoolInvInit == NoObject \notin Objects /\ PoolInit => PoolInv
<1>1. PoolInit => PoolFit /\ GetSuffices
  BY DEF PoolInit, PoolFit, GetSuffices
<1>2. QED
  BY <1>1, PoolTypesInit DEF PoolInv

\* Every step keeps the invariant.
LEMMA PoolInvStep ==
  ASSUME NoObject \notin Objects, ForeignCaps \subseteq PowersOfTwo \cup {0}
  PROVE  PoolInv /\ [PoolNext]_poolVars => PoolInv'
<1> SUFFICES ASSUME PoolInv, [PoolNext]_poolVars PROVE PoolFit' /\ GetSuffices'
  BY PoolTypesStep, NoObject \notin Objects DEF PoolInv
<1> USE NoObject \notin Objects DEF PoolInv, PoolTypes, Hold, Free
<1>1. ASSUME NEW p \in Clients, GetPooled(p) PROVE PoolFit' /\ GetSuffices'
  <2>1. PICK n \in Sizes, b \in Objects :
          /\ shard[b] = Shard(Size(n))
          /\ shard' = [shard EXCEPT ![b] = Free]
          /\ held' = [held EXCEPT ![p] = b] /\ want' = [want EXCEPT ![p] = n]
    BY <1>1 DEF GetPooled
  <2>2. held[p] = NoObject /\ capacity' = capacity /\ shard[b] # Free
    BY <1>1, <2>1, PoolFacts DEF GetPooled
  <2>3. capacity[b] = Size(n)
    BY <2>1, <2>2, PoolFacts, SameClass DEF PoolFit, Shard
  <2>4. PoolFit'
    BY <2>1, <2>2 DEF PoolTypeOK, PoolFit
  <2>5. GetSuffices'
    BY <2>1, <2>2, <2>3, PoolFacts DEF PoolTypeOK, GetSuffices
  <2>6. QED
    BY <2>4, <2>5
<1>2. ASSUME NEW p \in Clients, GetNew(p) PROVE PoolFit' /\ GetSuffices'
  <2>1. PICK n \in Sizes, b \in Objects :
          /\ Unused(b)
          /\ capacity' = [capacity EXCEPT ![b] = Size(n)]
          /\ held' = [held EXCEPT ![p] = b] /\ want' = [want EXCEPT ![p] = n]
    BY <1>2 DEF GetNew
  <2>2. held[p] = NoObject /\ shard' = shard
    BY <1>2 DEF GetNew
  <2>3. Size(n) \in PowersOfTwo /\ n <= Size(n)
    BY PoolFacts
  <2>4. PoolFit'
    BY <2>1, <2>2, <2>3 DEF PoolTypeOK, PoolFit, Unused
  <2>5. GetSuffices'
    BY <2>1, <2>2, <2>3 DEF PoolTypeOK, GetSuffices, Unused
  <2>6. QED
    BY <2>4, <2>5
<1>3. ASSUME NEW p \in Clients, Bring(p) PROVE PoolFit' /\ GetSuffices'
  <2>1. PICK c \in ForeignCaps, b \in Objects :
          /\ Unused(b)
          /\ capacity' = [capacity EXCEPT ![b] = c]
          /\ held' = [held EXCEPT ![p] = b] /\ want' = [want EXCEPT ![p] = 0]
    BY <1>3 DEF Bring
  <2>2. held[p] = NoObject /\ shard' = shard /\ c \in PowersOfTwo \cup {0}
    BY <1>3, ForeignCaps \subseteq PowersOfTwo \cup {0} DEF Bring
  <2>3. c \in Nat
    BY PoolFacts
  <2>4. PoolFit'
    BY <2>1, <2>2 DEF PoolTypeOK, PoolFit, Unused
  <2>5. GetSuffices'
    BY <2>1, <2>2, <2>3 DEF PoolTypeOK, GetSuffices, Unused
  <2>6. QED
    BY <2>4, <2>5
<1>4. ASSUME NEW p \in Clients, Put(p) PROVE PoolFit' /\ GetSuffices'
  <2>1. /\ held[p] \in Objects /\ capacity' = capacity
        /\ held' = [held EXCEPT ![p] = NoObject] /\ want' = [want EXCEPT ![p] = 0]
    BY <1>4 DEF Put, PoolTypeOK
  <2>2. \/ shard' = shard
        \/ /\ StepSize <= capacity[held[p]]
           /\ shard' = [shard EXCEPT ![held[p]] = Shard(capacity[held[p]])]
    BY <1>4, <2>1, PoolFacts DEF Put, PoolTypeOK
  <2>3. PoolFit'
    BY <2>1, <2>2, PoolFacts DEF PoolTypeOK, PoolFit
  <2>4. GetSuffices'
    BY <2>1 DEF PoolTypeOK, GetSuffices
  <2>5. QED
    BY <2>3, <2>4
<1>5. ASSUME NEW b \in Objects, Collect(b) PROVE PoolFit' /\ GetSuffices'
  BY <1>5 DEF Collect, PoolTypeOK, PoolFit, GetSuffices
<1>6. CASE UNCHANGED poolVars
  BY <1>6 DEF poolVars, PoolFit, GetSuffices
<1>7. QED
  BY <1>1, <1>2, <1>3, <1>4, <1>5, <1>6 DEF PoolNext

\* Classes, capacities and owners are what they should be whatever is put into
\* the pool: no object is in a class that does not exist, in the pool and in the
\* hands of a client, or with two clients (utils/pool/generic.go, Put).
THEOREM PoolTypeCorrect ==
  ASSUME NoObject \notin Objects
  PROVE  PoolSpec => []PoolTypeOK
<1>1. PoolTypes => PoolTypeOK
  BY DEF PoolTypes
<1>2. PoolTypes /\ [PoolNext]_poolVars => PoolTypes'
  BY PoolTypesStep, NoObject \notin Objects
<1>3. PoolInit => PoolTypes
  BY PoolTypesInit, NoObject \notin Objects
<1>4. QED
  BY <1>1, <1>2, <1>3, PTL DEF PoolSpec

\* Get returns enough room, provided that what is put into the pool has a
\* power of two as its capacity, as everything channel.go puts there has
\* (utils/pool/generic.go, Get and Put).
THEOREM GetReturnsEnough ==
  ASSUME NoObject \notin Objects, ForeignCaps \subseteq PowersOfTwo \cup {0}
  PROVE  PoolSpec => []GetSuffices
<1>1. PoolInv => GetSuffices
  BY DEF PoolInv
<1>2. PoolInv /\ [PoolNext]_poolVars => PoolInv'
  BY PoolInvStep, NoObject \notin Objects, ForeignCaps \subseteq PowersOfTwo \cup {0}
<1>3. PoolInit => PoolInv
  BY PoolInvInit, NoObject \notin Objects
<1>4. QED
  BY <1>1, <1>2, <1>3, PTL DEF PoolSpec
=============================================================================
