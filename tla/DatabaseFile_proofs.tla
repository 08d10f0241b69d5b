------------------------ MODULE DatabaseFile_proofs -------------------------
(***************************************************************************)
(* The properties of DatabaseFile, for every file: what find_metadata(),   *)
(* the sizes and MMDB_read_node() do with one of the format, and what      *)
(* decode_one() makes of the bytes of a field, for every type, size and    *)
(* pointer.                                                                *)
(***************************************************************************)
EXTENDS DatabaseFile, Facts_proofs

-----------------------------------------------------------------------------
(* Bytes of numbers.                                                       *)

Low(v) == Digit(v, 65536) * 65536 + Digit(v, 256) * 256 + Digit(v, 1)
High(v) == Digit(v, 16777216)

Composed(v, limit) ==
  /\ High(v) \in 0 .. limit - 1
  /\ Low(v) \in Nat
  /\ v = High(v) * 16777216 + Low(v)

\* The four digits of a number of 24, 27, 28 or 32 bits make it up.
LEMMA Digits ==
  ASSUME NEW v \in Nat, NEW limit \in {1, 8, 16, 256}, v \div 16777216 < limit
  PROVE  Composed(v, limit)
BY SMTT(30) DEF Digit, Low, High, Composed

\* A number of two bytes, and one of three bits and two bytes.
LEMMA TwoDigits ==
  ASSUME NEW v \in Nat, v < 524288
  PROVE  /\ v \div 65536 \in 0 .. 7
         /\ (v \div 65536) * 65536 + Digit(v, 256) * 256 + Digit(v, 1) = v
         /\ v < 65536 => Digit(v, 256) * 256 + Digit(v, 1) = v
BY SMTT(30) DEF Digit

\* A number of three bits and a byte.
LEMMA OneDigit ==
  ASSUME NEW v \in Nat, v < 2048
  PROVE  v \div 256 \in 0 .. 7 /\ (v \div 256) * 256 + Digit(v, 1) = v
BY SMTT(30) DEF Digit

\* The parts of the control byte of a field.
LEMMA ControlByte ==
  ASSUME NEW type \in 0 .. 7, NEW bits \in 0 .. 31
  PROVE  (32 * type + bits) \div 32 = type /\ (32 * type + bits) % 32 = bits
BY SMT

\* The parts of the control byte of a pointer.
LEMMA PointerControl ==
  ASSUME NEW psize \in 0 .. 3, NEW high \in 0 .. 7
  PROVE  /\ (32 + 8 * psize + high) \div 32 = 1
         /\ ((32 + 8 * psize + high) \div 8) % 4 = psize
         /\ (32 + 8 * psize + high) % 8 = high
BY SMT

\* A number reduced modulo 2^32 is a natural number below 2^32, and one below 2^32
\* is left alone.
LEMMA Reduced ==
  ASSUME NEW a \in Nat, NEW w \in Nat \ {0}
  PROVE  a % w \in Nat /\ a % w < w /\ (a < w => a % w = a)
BY SMTT(30)

-----------------------------------------------------------------------------
(* The parts of a field.                                                   *)

\* The bytes of a size, or of a pointer, lie at o.
SizeStored(n, mem, o) ==
  \A i \in 1 .. Len(SizeBytes(n)) : mem[o + i - 1] = SizeBytes(n)[i]
PointerStored(p, mem, o) ==
  \A i \in 0 .. Len(PointerBytes(p)) - 1 : mem[o + i] = PointerBytes(p)[i + 1]

\* A size is read from the bytes that were written for it.
LEMMA SizeRead ==
  ASSUME NEW n \in Nat, n <= 16843036, NEW mem, NEW o \in Nat,
         SizeStored(n, mem, o)
  PROVE  /\ SizeBits(n) \in 0 .. 31
         /\ SizeLength(SizeBits(n)) = Len(SizeBytes(n))
         /\ SizeAt(mem, o, SizeBits(n)) = n
<1>1. CASE n < 29
  <2>1. SizeBits(n) = n /\ SizeBytes(n) = <<>>
    BY <1>1, SMT DEF SizeBits, SizeBytes
  <2>2. SizeLength(n) = 0 /\ SizeAt(mem, o, n) = n
    BY <1>1, SMT DEF SizeLength, SizeAt
  <2>3. Len(SizeBytes(n)) = 0
    BY <2>1, SMT
  <2>4. n \in 0 .. 31
    BY <1>1, SMT
  <2> QED BY <2>1, <2>2, <2>3, <2>4, SMT
<1>2. CASE 29 <= n /\ n < 285
  <2>1. SizeBits(n) = 29 /\ SizeBytes(n) = <<n - 29>>
    BY <1>2, SMT DEF SizeBits, SizeBytes
  <2>2. mem[o] = n - 29
    <3>1. mem[o + 1 - 1] = <<n - 29>>[1]
      BY <2>1, SMT DEF SizeStored
    <3> QED BY <3>1, SMT
  <2> QED BY <2>1, <2>2, SMT DEF SizeLength, SizeAt
<1>3. CASE 285 <= n /\ n < 65821
  <2> DEFINE q == n - 285
  <2>1. SizeBits(n) = 30 /\ SizeBytes(n) = <<Digit(q, 256), Digit(q, 1)>>
    BY <1>3, SMT DEF SizeBits, SizeBytes
  <2>2. mem[o] = Digit(q, 256) /\ mem[o + 1] = Digit(q, 1)
    <3>1. /\ mem[o + 1 - 1] = <<Digit(q, 256), Digit(q, 1)>>[1]
          /\ mem[o + 2 - 1] = <<Digit(q, 256), Digit(q, 1)>>[2]
      BY <2>1, SMT DEF SizeStored
    <3> QED BY <3>1, SMT
  <2>3. Digit(q, 256) * 256 + Digit(q, 1) = q
    <3>1. q \in Nat /\ q < 65536
      BY <1>3, SMT
    <3> HIDE DEF q
    <3> QED BY <3>1, TwoDigits, SMT
  <2>4. Get16(mem, o) = q
    BY <2>2, <2>3, SMT DEF Get16
  <2> QED BY <2>1, <2>4, SMT DEF SizeLength, SizeAt
<1>4. CASE 65821 <= n
  <2> DEFINE q == n - 65821
  <2>1. /\ SizeBits(n) = 31
        /\ SizeBytes(n) = <<Digit(q, 65536), Digit(q, 256), Digit(q, 1)>>
    BY <1>4, SMT DEF SizeBits, SizeBytes
  <2>2. mem[o] = Digit(q, 65536) /\ mem[o + 1] = Digit(q, 256) /\ mem[o + 2] = Digit(q, 1)
    <3> DEFINE bytes == <<Digit(q, 65536), Digit(q, 256), Digit(q, 1)>>
    <3>1. mem[o + 1 - 1] = bytes[1] /\ mem[o + 2 - 1] = bytes[2] /\ mem[o + 3 - 1] = bytes[3]
      BY <2>1, SMT DEF SizeStored
    <3> QED BY <3>1, SMT
  <2>3. Low(q) = q
    <3>1. q \in Nat /\ q \div 16777216 < 1
      BY <1>4, SMT
    <3> HIDE DEF q
    <3>2. Composed(q, 1)
      BY <3>1, Digits, SMT
    <3> QED BY <3>2, SMT DEF Composed
  <2>4. Get24(mem, o) = q
    BY <2>2, <2>3, SMT DEF Get24, Low
  <2> QED BY <2>1, <2>4, SMT DEF SizeLength, SizeAt
<1> QED BY <1>1, <1>2, <1>3, <1>4, SMT

\* What decode_one() reads of a pointer of `psize` and three high bits.
PointerRead(mem, o, p, psize) ==
  /\ mem[o] \div 32 = Pointer
  /\ (mem[o] \div 8) % 4 = psize
  /\ PointerAt(mem, o + 1, mem[o], psize) = p
  /\ Len(PointerBytes(p)) = psize + 2

\* A pointer is read from the bytes that were written for it.
LEMMA PointerIsRead ==
  ASSUME NEW p \in Nat, p \div 16777216 < 256, NEW mem, NEW o \in Nat,
         PointerStored(p, mem, o)
  PROVE  \E psize \in 0 .. 3 : PointerRead(mem, o, p, psize)
<1>1. CASE p < 2048
  <2> DEFINE h == p \div 256
  <2>1. PointerBytes(p) = <<32 + h, Digit(p, 1)>>
    BY <1>1, SMT DEF PointerBytes
  <2>2. mem[o] = 32 + h /\ mem[o + 1] = Digit(p, 1)
    <3>1. mem[o + 0] = <<32 + h, Digit(p, 1)>>[1] /\ mem[o + 1] = <<32 + h, Digit(p, 1)>>[2]
      BY <2>1, SMT DEF PointerStored
    <3> QED BY <3>1, SMT
  <2>3. h \in 0 .. 7 /\ h * 256 + Digit(p, 1) = p
    BY <1>1, OneDigit, SMT
  <2> HIDE DEF h
  <2>4. mem[o] \div 32 = 1 /\ (mem[o] \div 8) % 4 = 0 /\ mem[o] % 8 = h
    <3>1. mem[o] = 32 + 8 * 0 + h
      BY <2>2, <2>3, SMT
    <3> QED BY <3>1, <2>3, PointerControl, SMT
  <2>5. PointerAt(mem, o + 1, mem[o], 0) = p
    BY <2>2, <2>3, <2>4, SMT DEF PointerAt
  <2>6. PointerRead(mem, o, p, 0)
    BY <2>1, <2>4, <2>5, SMT DEF PointerRead, Pointer
  <2> QED BY <2>6, SMT
<1>2. CASE 2048 <= p /\ p < 526336
  <2> DEFINE q == p - 2048
             h == q \div 65536
             bytes == <<40 + h, Digit(q, 256), Digit(q, 1)>>
  <2>1. PointerBytes(p) = bytes
    BY <1>2, SMT DEF PointerBytes
  <2>2. mem[o] = 40 + h /\ mem[o + 1] = Digit(q, 256) /\ mem[o + 2] = Digit(q, 1)
    <3>1. mem[o + 0] = bytes[1] /\ mem[o + 1] = bytes[2] /\ mem[o + 2] = bytes[3]
      BY <2>1, SMT DEF PointerStored
    <3> QED BY <3>1, SMT
  <2>7. Len(PointerBytes(p)) = 3
    BY <2>1, SMT
  <2>3. h \in 0 .. 7 /\ h * 65536 + Digit(q, 256) * 256 + Digit(q, 1) = q /\ q \in Nat
    <3>1. q \in Nat /\ q < 524288
      BY <1>2, SMT
    <3> HIDE DEF q
    <3> QED BY <3>1, TwoDigits, SMT
  <2> HIDE DEF h
  <2>4. mem[o] \div 32 = 1 /\ (mem[o] \div 8) % 4 = 1 /\ mem[o] % 8 = h
    <3>1. mem[o] = 32 + 8 * 1 + h
      BY <2>2, <2>3, SMT
    <3> QED BY <3>1, <2>3, PointerControl, SMT
  <2>5. PointerAt(mem, o + 1, mem[o], 1) = p
    <3>1. Get16(mem, o + 1) = Digit(q, 256) * 256 + Digit(q, 1)
      BY <2>2, SMT DEF Get16
    <3>2. PointerAt(mem, o + 1, mem[o], 1)
            = 2048 + h * 65536 + (Digit(q, 256) * 256 + Digit(q, 1))
      BY <2>4, <3>1, SMT DEF PointerAt
    <3>3. Digit(q, 256) \in Int /\ Digit(q, 1) \in Int
      BY <2>3, SMT DEF Digit
    <3> QED BY <3>2, <3>3, <2>3, SMT
  <2>6. PointerRead(mem, o, p, 1)
    BY <2>7, <2>4, <2>5, SMT DEF PointerRead, Pointer
  <2> QED BY <2>6, SMT
<1>3. CASE 526336 <= p /\ p < 134744064
  <2> DEFINE q == p - 526336
             h == q \div 16777216
             bytes == <<48 + h, Digit(q, 65536), Digit(q, 256), Digit(q, 1)>>
  <2>1. PointerBytes(p) = bytes
    BY <1>3, SMT DEF PointerBytes
  <2>2. /\ mem[o] = 48 + h /\ mem[o + 1] = Digit(q, 65536)
        /\ mem[o + 2] = Digit(q, 256) /\ mem[o + 3] = Digit(q, 1)
    <3>1. /\ mem[o + 0] = bytes[1] /\ mem[o + 1] = bytes[2] /\ mem[o + 2] = bytes[3]
          /\ mem[o + 3] = bytes[4]
      BY <2>1, SMT DEF PointerStored
    <3> QED BY <3>1, SMT
  <2>7. Len(PointerBytes(p)) = 4
    BY <2>1, SMT
  <2>3. h \in 0 .. 7 /\ q = h * 16777216 + Low(q) /\ q \in Nat /\ Low(q) \in Nat
    <3>1. q \in Nat /\ q \div 16777216 < 8 /\ q \div 16777216 \in 0 .. 7
      BY <1>3, SMT
    <3>2. h = High(q)
      <4> HIDE DEF q
      <4> QED BY <3>1, SMT DEF High, Digit
    <3> HIDE DEF q, h
    <3>3. Composed(q, 8)
      BY <3>1, Digits, SMT
    <3> QED BY <3>1, <3>2, <3>3, SMT DEF Composed
  <2> HIDE DEF h
  <2>4. mem[o] \div 32 = 1 /\ (mem[o] \div 8) % 4 = 2 /\ mem[o] % 8 = h
    <3>1. mem[o] = 32 + 8 * 2 + h
      BY <2>2, <2>3, SMT
    <3> QED BY <3>1, <2>3, PointerControl, SMT
  <2>5. PointerAt(mem, o + 1, mem[o], 2) = p
    <3>1. Get24(mem, o + 1) = Low(q)
      BY <2>2, SMT DEF Get24, Low
    <3>2. PointerAt(mem, o + 1, mem[o], 2) = 2048 + 524288 + h * 16777216 + Low(q)
      BY <2>4, <3>1, SMT DEF PointerAt
    <3> QED BY <3>2, <2>3, SMT
  <2>6. PointerRead(mem, o, p, 2)
    BY <2>7, <2>4, <2>5, SMT DEF PointerRead, Pointer
  <2> QED BY <2>6, SMT
<1>4. CASE p >= 134744064
  <2> DEFINE bytes == <<56, High(p), Digit(p, 65536), Digit(p, 256), Digit(p, 1)>>
  <2>1. PointerBytes(p) = bytes
    BY <1>4, SMT DEF PointerBytes, High
  <2>2. /\ mem[o] = 56 /\ mem[o + 1] = High(p) /\ mem[o + 2] = Digit(p, 65536)
        /\ mem[o + 3] = Digit(p, 256) /\ mem[o + 4] = Digit(p, 1)
    <3>1. /\ mem[o + 0] = bytes[1] /\ mem[o + 1] = bytes[2] /\ mem[o + 2] = bytes[3]
          /\ mem[o + 3] = bytes[4] /\ mem[o + 4] = bytes[5]
      BY <2>1, SMT DEF PointerStored
    <3> QED BY <3>1, SMT
  <2>3. Len(PointerBytes(p)) = 5
    BY <2>1, SMT
  <2>4. mem[o] \div 32 = 1 /\ (mem[o] \div 8) % 4 = 3
    <3>1. mem[o] = 32 + 8 * 3 + 0
      BY <2>2, SMT
    <3> QED BY <3>1, PointerControl, SMT
  <2>5. PointerAt(mem, o + 1, mem[o], 3) = p
    <3>1. Get24(mem, o + 2) = Low(p)
      BY <2>2, SMT DEF Get24, Low
    <3>2. PointerAt(mem, o + 1, mem[o], 3) = High(p) * 16777216 + Low(p)
      BY <2>2, <3>1, SMT DEF PointerAt, Get32
    <3>3. Composed(p, 256)
      BY Digits, SMT
    <3> QED BY <3>2, <3>3, SMT DEF Composed
  <2>6. PointerRead(mem, o, p, 3)
    BY <2>3, <2>4, <2>5, SMT DEF PointerRead, Pointer
  <2> QED BY <2>6, SMT
<1> QED BY <1>1, <1>2, <1>3, <1>4, SMT

-----------------------------------------------------------------------------
(* The field.                                                              *)

\* The bytes of a field's header lie at o.
Stored(d, mem, o) ==
  \A i \in 0 .. HeaderLength(d) - 1 : mem[o + i] = HeaderByte(d, i)

\* The bytes of a size have a length.
LEMMA SizeBytesLength == ASSUME NEW n \in Nat PROVE Len(SizeBytes(n)) \in 0 .. 3
<1>1. \/ SizeBytes(n) = <<>>
      \/ SizeBytes(n) = <<n - 29>>
      \/ SizeBytes(n) = <<Digit(n - 285, 256), Digit(n - 285, 1)>>
      \/ SizeBytes(n)
           = <<Digit(n - 65821, 65536), Digit(n - 65821, 256), Digit(n - 65821, 1)>>
  BY SMT DEF SizeBytes
<1> QED BY <1>1, SMT

\* What decode_one() reads of a field that is no pointer, up to its payload.
HeaderRead(mem, o, d) ==
  LET k == Len(TypeBytes(d))
  IN  /\ k = (IF mem[o] \div 32 = Extended THEN 2 ELSE 1)
      /\ d.type = (IF mem[o] \div 32 = Extended THEN ExtendedType(mem[o + 1])
                   ELSE mem[o] \div 32)
      /\ SizeAt(mem, o + k, mem[o] % 32) = d.size
      /\ SizeLength(mem[o] % 32) = Len(SizeBytes(d.size))

\* The header of a field that is no pointer is read from the bytes that were written
\* for it.
LEMMA HeaderIsRead ==
  ASSUME NEW d \in Field, d.type # Pointer, d.size <= 16843036,
         NEW mem, NEW o \in Nat, Stored(d, mem, o)
  PROVE  HeaderRead(mem, o, d)
<1> DEFINE n == d.size
           t == d.type
           k == Len(TypeBytes(d))
           b == SizeBits(n)
<1>1. n \in Nat /\ n <= 16843036 /\ t \in 1 .. 15 /\ t # Pointer
  BY SMT DEF Field
<1> HIDE DEF n, t
<1>2. Len(SizeBytes(n)) \in 0 .. 3
  BY <1>1, SizeBytesLength, SMT
<1>3. b \in 0 .. 31
  BY <1>1, SMT DEF SizeBits
<1>4. /\ t < 8 => TypeBytes(d) = <<32 * t + b>>
      /\ ~ (t < 8) => TypeBytes(d) = <<b, t - 7>>
  BY <1>1, SMT DEF TypeBytes, n, t
<1>5. k = (IF t < 8 THEN 1 ELSE 2)
  BY <1>4, SMT
<1>6. HeaderLength(d) = k + Len(SizeBytes(n))
  BY <1>1, SMT DEF HeaderLength, n, t
<1>7. \A i \in 0 .. k - 1 : mem[o + i] = TypeBytes(d)[i + 1]
  <2> SUFFICES ASSUME NEW i \in 0 .. k - 1 PROVE mem[o + i] = TypeBytes(d)[i + 1]
    BY SMT
  <2>1. i \in 0 .. HeaderLength(d) - 1 /\ i < k
    BY <1>2, <1>5, <1>6, SMT
  <2>2. HeaderByte(d, i) = TypeBytes(d)[i + 1]
    BY <2>1, <1>1, SMT DEF HeaderByte, t
  <2> QED BY <2>1, <2>2, SMT DEF Stored
<1>8. SizeStored(n, mem, o + k)
  <2> SUFFICES ASSUME NEW i \in 1 .. Len(SizeBytes(n))
               PROVE  mem[(o + k) + i - 1] = SizeBytes(n)[i]
    BY SMT DEF SizeStored
  <2> DEFINE j == k + i - 1
  <2>1. j \in 0 .. HeaderLength(d) - 1 /\ ~ (j < k) /\ j + 1 - k = i /\ o + j = (o + k) + i - 1
    BY <1>2, <1>5, <1>6, SMT
  <2> HIDE DEF j
  <2>2. HeaderByte(d, j) = SizeBytes(n)[j + 1 - k]
    BY <2>1, <1>1, SMT DEF HeaderByte, t, n
  <2>3. mem[o + j] = HeaderByte(d, j)
    BY <2>1, SMT DEF Stored
  <2> QED BY <2>1, <2>2, <2>3, SMT
<1>9. /\ SizeLength(b) = Len(SizeBytes(n))
      /\ SizeAt(mem, o + k, b) = n
  <2>1. o + k \in Nat
    BY <1>5, SMT
  <2> HIDE DEF k
  <2> QED BY <2>1, <1>1, <1>8, SizeRead, SMT
<1>10. CASE t < 8
  <2>1. mem[o] = 32 * t + b
    <3>1. mem[o + 0] = TypeBytes(d)[1]
      BY <1>5, <1>7, <1>10, SMT
    <3> QED BY <3>1, <1>4, <1>10, SMT
  <2>2. mem[o] \div 32 = t /\ mem[o] % 32 = b /\ t # Extended
    <3>1. t \in 0 .. 7
      BY <1>1, <1>10, SMT
    <3> HIDE DEF b
    <3> QED BY <2>1, <3>1, <1>1, <1>3, ControlByte, SMT DEF Extended
  <2> QED BY <2>2, <1>5, <1>9, <1>10, SMT DEF HeaderRead, n, t
<1>11. CASE ~ (t < 8)
  <2>1. mem[o] = b /\ mem[o + 1] = t - 7
    <3>1. mem[o + 0] = TypeBytes(d)[1] /\ mem[o + 1] = TypeBytes(d)[2]
      BY <1>5, <1>7, <1>11, SMT
    <3> QED BY <3>1, <1>4, <1>11, SMT
  <2>2. mem[o] \div 32 = 0 /\ mem[o] % 32 = b
    <3> HIDE DEF b
    <3> QED BY <2>1, <1>3, SMT
  <2>3. ExtendedType(mem[o + 1]) = t
    BY <2>1, <1>1, SMT DEF ExtendedType
  <2> QED BY <2>2, <2>3, <1>5, <1>9, <1>11, SMT DEF HeaderRead, n, t, Extended
<1> QED BY <1>10, <1>11, SMT

\* A header has a byte, and a field is as long as its header at least.
LEMMA FieldLengths ==
  ASSUME NEW d \in Field, FieldFits(d)
  PROVE  HeaderLength(d) \in 1 .. 5 /\ FieldLength(d) \in Nat /\ HeaderLength(d) <= FieldLength(d)
<1>1. HeaderLength(d) \in 1 .. 5
  <2>1. CASE d.type = Pointer
    <3> DEFINE p == d.value
    <3>1. \/ \E a, b : PointerBytes(p) = <<a, b>>
          \/ \E a, b, c : PointerBytes(p) = <<a, b, c>>
          \/ \E a, b, c, e : PointerBytes(p) = <<a, b, c, e>>
          \/ \E a, b, c, e, f : PointerBytes(p) = <<a, b, c, e, f>>
      <4> HIDE DEF p
      <4> QED BY SMT DEF PointerBytes
    <3>2. Len(PointerBytes(p)) \in 1 .. 5
      <4> HIDE DEF p
      <4> QED BY <3>1, SMT
    <3>3. HeaderLength(d) = Len(PointerBytes(p))
      BY <2>1, SMT DEF HeaderLength
    <3> HIDE DEF p
    <3> QED BY <3>2, <3>3, SMT
  <2>2. CASE d.type # Pointer
    <3>1. Len(TypeBytes(d)) \in {1, 2}
      <4>1. \/ TypeBytes(d) = <<32 * d.type + SizeBits(d.size)>>
            \/ TypeBytes(d) = <<SizeBits(d.size), d.type - 7>>
        BY SMT DEF TypeBytes
      <4> QED BY <4>1, SMT
    <3>2. Len(SizeBytes(d.size)) \in 0 .. 3
      BY SizeBytesLength, SMT DEF Field
    <3> DEFINE t == Len(TypeBytes(d))
               n == Len(SizeBytes(d.size))
    <3>3. HeaderLength(d) = t + n
      BY <2>2, SMT DEF HeaderLength
    <3>4. t \in {1, 2} /\ n \in 0 .. 3
      BY <3>1, <3>2, Zenon
    <3> HIDE DEF t, n
    <3> QED BY <3>3, <3>4, SMT
  <2> QED BY <2>1, <2>2, SMT
<1>2. PayloadLength(d) \in Nat
  BY SMT DEF PayloadLength, Field
<1> QED BY <1>1, <1>2, SMT DEF FieldLength

\* decode_one() succeeds or finds invalid data.
LEMMA DecodeStatus ==
  ASSUME NEW mem, NEW o
  PROVE  DecodeOne(mem, o).status \in {"SUCCESS", "INVALID_DATA"}
BY SMT DEF DecodeOne, NoField

\* The offset it was called with is kept.
LEMMA DecodeOffset == ASSUME NEW mem, NEW o PROVE DecodeOne(mem, o).offset = o
BY SMT DEF DecodeOne, NoField

\* What decode_one() has to make of field d at o.
DecodedAs(e, d, o) ==
  /\ e.status = "SUCCESS" /\ e.offset = o /\ e.type = d.type
  /\ d.type \in {Utf8String, Bytes, Map, Array} => e.size = d.size
  /\ d.type = Pointer => e.value = Separator + d.value
  /\ e.next = o + (IF d.type \in {Map, Array} THEN HeaderLength(d) ELSE FieldLength(d))

\* What it has to store for a number or a boolean is computed from the bytes behind
\* the header.
ValueFromPayload(e, d, mem, o) ==
  d.type \notin {Pointer, Map, Array} =>
    e.value = ValueAt(mem, o + HeaderLength(d), d.type, d.size)

\* decode_one() decodes every field of the format as it was packed, wherever it lies
\* below 2^32.
THEOREM FieldDecoded ==
  ASSUME NEW d \in Field, FieldFits(d), NEW mem, NEW o \in Nat, Stored(d, mem, o),
         o + FieldLength(d) < Wrap
  PROVE  /\ DecodedAs(DecodeOne(mem, o), d, o)
         /\ ValueFromPayload(DecodeOne(mem, o), d, mem, o)
<1> DEFINE extended == mem[o] \div 32 = Extended
           type == IF extended THEN ExtendedType(mem[o + 1]) ELSE mem[o] \div 32
           o1 == IF extended THEN o + 2 ELSE o + 1
           size == SizeAt(mem, o1, mem[o] % 32)
           q == o1 + SizeLength(mem[o] % 32)
           psize == (mem[o] \div 8) % 4
           Decoded(dataSize, value, next) ==
             [status |-> "SUCCESS", offset |-> o, type |-> type, size |-> dataSize,
              value |-> value, next |-> next % Wrap]
<1>3. DecodeOne(mem, o) =
        CASE type = Pointer ->
               Decoded(psize + 1, (Separator + PointerAt(mem, o1, mem[o], psize)) % Wrap,
                       o1 + psize + 1)
          [] type # Pointer /\ TooLong(type, size) ->
               [NoField EXCEPT !.status = "INVALID_DATA", !.offset = o, !.type = type]
          [] type \in {Map, Array} -> Decoded(size, 0, q)
          [] type = Boolean -> Decoded(0, ValueAt(mem, q, type, size), q)
          [] OTHER ->
               Decoded(IF type \in {Utf8String, Bytes} THEN size ELSE 0,
                       ValueAt(mem, q, type, size), q + size)
  BY SMT DEF DecodeOne
<1> HIDE DEF extended, type, o1, size, q, psize
<1>1. CASE d.type = Pointer
  <2> DEFINE p == d.value
  <2>1. p \in Nat /\ p \div 16777216 < 256 /\ Separator + p < Wrap
    BY <1>1, SMT DEF FieldFits
  <2>2. HeaderLength(d) = Len(PointerBytes(p)) /\ FieldLength(d) = HeaderLength(d) + 0
    BY <1>1, SMT DEF HeaderLength, FieldLength, PayloadLength
  <2>3. PointerStored(p, mem, o)
    BY <1>1, <2>2, SMT DEF Stored, HeaderByte, PointerStored
  <2> HIDE DEF p
  <2>4. PICK n \in 0 .. 3 : PointerRead(mem, o, p, n)
    BY <2>1, <2>3, PointerIsRead, SMT
  <2> DEFINE next == o + 1 + n + 1
             target == Separator + PointerAt(mem, o + 1, mem[o], n)
  <2>5. FieldLength(d) = n + 2 /\ next = o + FieldLength(d)
    BY <2>2, <2>4, SMT DEF PointerRead
  <2>6. DecodeOne(mem, o)
          = [status |-> "SUCCESS", offset |-> o, type |-> Pointer, size |-> n + 1,
             value |-> target % Wrap, next |-> next % Wrap]
    <3>1. mem[o] \div 32 = 1 /\ (mem[o] \div 8) % 4 = n
      BY <2>4, SMT DEF PointerRead, Pointer
    <3>2. ~ extended /\ type = Pointer /\ o1 = o + 1 /\ psize = n
      BY <3>1, SMT DEF extended, type, o1, psize, Extended, Pointer
    <3>3. DecodeOne(mem, o) = Decoded(n + 1, target % Wrap, o1 + n + 1)
      BY <3>2, <1>3, SMT DEF Pointer, Map, Array, Boolean
    <3> QED BY <3>2, <3>3, SMT
  <2>7. target % Wrap = Separator + p
    <3>1. target = Separator + p
      BY <2>4, SMT DEF PointerRead
    <3>2. Separator + p \in Nat /\ Wrap \in Nat \ {0}
      BY <2>1, FieldAssumption, SMT
    <3> HIDE DEF target
    <3> DEFINE z == Separator + p
    <3>3. z < Wrap
      BY <2>1, SMT
    <3> HIDE DEF z
    <3>4. z % Wrap = z
      BY <3>2, <3>3, Reduced, SMT DEF z
    <3> QED BY <3>1, <3>4, SMT DEF z
  <2>8. next % Wrap = o + FieldLength(d)
    <3>1. next \in Nat /\ next < Wrap /\ Wrap \in Nat \ {0}
      BY <2>5, FieldAssumption, SMT
    <3> HIDE DEF next
    <3> QED BY <3>1, <2>5, Reduced, SMT
  <2> HIDE DEF target, next
  <2> QED BY <1>1, <2>6, <2>7, <2>8, SMT
       DEF DecodedAs, ValueFromPayload, p, Pointer, Utf8String, Bytes, Map, Array
<1>2. CASE d.type # Pointer
  <2> DEFINE k == Len(TypeBytes(d))
             s == Len(SizeBytes(d.size))
             o2 == o + k + s
  <2>1. d.size \in Nat /\ d.size <= 16843036 /\ ~ TooLong(d.type, d.size)
    BY <1>2, SMT DEF FieldFits, Field
  <2>2. HeaderRead(mem, o, d)
    BY <1>2, <2>1, HeaderIsRead, SMT
  <2>3. k \in {1, 2} /\ s \in 0 .. 3
    BY <2>1, <2>2, SizeBytesLength, SMT DEF HeaderRead
  <2>4. HeaderLength(d) = k + s /\ o + HeaderLength(d) = o2
    BY <1>2, <2>3, SMT DEF HeaderLength
  <2>5. /\ mem[o] \div 32 = Extended => o + 2 = o + k
        /\ ~ (mem[o] \div 32 = Extended) => o + 1 = o + k
    BY <2>2, SMT DEF HeaderRead
  <2>6. type = d.type /\ o1 = o + k /\ size = d.size /\ q = o2
    BY <2>2, <2>5, SMT DEF HeaderRead, extended, type, o1, size, q, k, s, o2
  <2> HIDE DEF k, s, o2
  <2>8. o2 \in Nat /\ Wrap \in Nat \ {0}
    BY <2>3, FieldAssumption, SMT DEF o2
  <2>9. CASE d.type \in {Map, Array}
    <3>1. DecodeOne(mem, o) = Decoded(d.size, 0, o2)
      BY <2>1, <2>6, <1>3, <2>9, SMT DEF Map, Array, Pointer, Boolean
    <3>2. o2 % Wrap = o2
      <4>1. FieldLength(d) = HeaderLength(d) + 0
        BY <2>9, SMT DEF FieldLength, PayloadLength
      <4>2. o2 < Wrap
        BY <2>3, <2>4, <4>1, SMT
      <4> QED BY <4>2, <2>8, Reduced, SMT
    <3> QED BY <3>1, <3>2, <2>4, <2>6, <2>9, SMT
          DEF DecodedAs, ValueFromPayload, Map, Array, Pointer
  <2>10. CASE d.type = Boolean
    <3>1. DecodeOne(mem, o) = Decoded(0, ValueAt(mem, o2, d.type, d.size), o2)
      BY <2>1, <2>6, <1>3, <2>10, SMT DEF Map, Array, Pointer, Boolean
    <3>2. FieldLength(d) = HeaderLength(d)
      BY <2>3, <2>4, <2>10, SMT DEF FieldLength, PayloadLength
    <3>3. o2 % Wrap = o2
      <4>1. o2 < Wrap
        BY <2>4, <3>2, SMT
      <4> QED BY <4>1, <2>8, Reduced, SMT
    <3> QED BY <3>1, <3>2, <3>3, <2>4, <2>6, <2>10, SMT
          DEF DecodedAs, ValueFromPayload, Map, Array, Pointer, Boolean, Utf8String, Bytes
  <2>11. CASE d.type \notin {Map, Array, Boolean}
    <3> DEFINE next == o2 + d.size
               value == ValueAt(mem, o2, d.type, d.size)
               dataSize == IF d.type \in {Utf8String, Bytes} THEN d.size ELSE 0
    <3>1. DecodeOne(mem, o) = Decoded(dataSize, value, next)
      BY <1>2, <2>1, <2>6, <1>3, <2>11, SMT
    <3>2. next = o + FieldLength(d)
      <4>1. FieldLength(d) = HeaderLength(d) + d.size
        BY <1>2, <2>11, SMT DEF FieldLength, PayloadLength
      <4> QED BY <4>1, <2>1, <2>3, <2>4, SMT
    <3>3. next % Wrap = next
      <4>1. next \in Nat /\ next < Wrap
        BY <3>2, <2>1, <2>8, SMT
      <4> HIDE DEF next
      <4> QED BY <4>1, <2>8, Reduced, SMT
    <3> HIDE DEF next, value
    <3>4. DecodedAs(DecodeOne(mem, o), d, o)
      BY <3>1, <3>2, <3>3, <1>2, <2>6, <2>11, SMT DEF DecodedAs, Map, Array
    <3>5. DecodeOne(mem, o).value = value
      BY <3>1, SMT
    <3> QED BY <3>4, <3>5, <2>4, SMT DEF ValueFromPayload, value
  <2> QED BY <2>9, <2>10, <2>11, SMT
<1> QED BY <1>1, <1>2, SMT
-----------------------------------------------------------------------------
(* Integers.                                                               *)

\* What get_uintX() has after each byte is what its loop makes of that byte and of
\* what it had before.
LEMMA GetXPrefixes ==
  ASSUME NEW mem, NEW o, NEW length \in Nat
  PROVE  \E V : /\ V[0] = 0
                /\ \A n \in 1 .. length : V[n] = V[n - 1] * 256 + mem[o + n - 1]
                /\ GetX(mem, o, length) = V[length]
<1> DEFINE It(m, f) ==
             f = [n \in 0 .. m |->
                    IF n = 0 THEN 0 ELSE f[n - 1] * 256 + mem[o + n - 1]]
           T == {m \in Nat : ~ \E f : It(m, f)}
<1>1. T = {}
  <2> SUFFICES ASSUME T # {} PROVE FALSE
    OBVIOUS
  <2>1. PICK m \in T : \A y \in T : m <= y
    BY LeastNat
  <2>2. CASE m = 0
    <3> DEFINE f == [n \in 0 .. 0 |-> 0]
    <3>1. It(0, f)
      OBVIOUS
    <3> QED BY <3>1, <2>2, <2>1
  <2>3. CASE m # 0
    <3>1. m - 1 \in Nat /\ m - 1 \notin T
      BY <2>1, <2>3
    <3>2. PICK f : It(m - 1, f)
      BY <3>1
    <3> DEFINE g == [n \in 0 .. m |->
                       IF n = m THEN f[m - 1] * 256 + mem[o + m - 1] ELSE f[n]]
    <3>3. ASSUME NEW n \in 0 .. m
          PROVE  g[n] = IF n = 0 THEN 0 ELSE g[n - 1] * 256 + mem[o + n - 1]
      <4>1. CASE n = m
        <5>1. g[n] = f[m - 1] * 256 + mem[o + m - 1]
          BY <4>1
        <5>2. m - 1 \in 0 .. m /\ m - 1 # m
          BY <2>1, <2>3
        <5>3. g[m - 1] = f[m - 1]
          BY <5>2
        <5> QED BY <5>1, <5>3, <4>1, <2>3
      <4>2. CASE n # m /\ n # 0
        <5>1. n \in 0 .. m - 1 /\ n - 1 \in 0 .. m /\ n - 1 # m
          BY <4>2, <2>1
        <5>2. f[n] = f[n - 1] * 256 + mem[o + n - 1]
          BY <5>1, <3>2, <4>2
        <5>3. g[n] = f[n] /\ g[n - 1] = f[n - 1]
          BY <5>1, <4>2
        <5> QED BY <5>2, <5>3, <4>2
      <4>3. CASE n = 0 /\ n # m
        <5>1. f[0] = 0
          BY <3>1, <3>2
        <5> QED BY <5>1, <4>3
      <4> QED BY <4>1, <4>2, <4>3
    <3>4. It(m, g)
      <4> HIDE DEF g
      <4>1. g = [n \in 0 .. m |-> g[n]]
        BY DEF g
      <4> QED BY <4>1, <3>3
    <3> QED BY <3>4, <2>1
  <2> QED BY <2>2, <2>3
<1>2. \E f : It(length, f)
  <2> HIDE DEF It
  <2> QED BY <1>1
<1> DEFINE V == CHOOSE f : It(length, f)
<1>3. It(length, V)
  BY <1>2
<1>4. GetX(mem, o, length) = V[length]
  BY DEF GetX
<1>5. V[0] = 0 /\ \A n \in 1 .. length : V[n] = V[n - 1] * 256 + mem[o + n - 1]
  <2> HIDE DEF V
  <2>1. \A n \in 0 .. length :
          V[n] = IF n = 0 THEN 0 ELSE V[n - 1] * 256 + mem[o + n - 1]
    BY <1>3
  <2> QED BY <2>1
<1> HIDE DEF V
<1> QED BY <1>4, <1>5

\* The bytes of an integer lie at o.
PayloadStored(d, mem, o) ==
  \A i \in 0 .. d.size - 1 : mem[o + i] = PayloadByte(d, d.size - 1 - i)

\* An integer without one byte more is what the division by 256 leaves of it.
LEMMA ShiftedSteps ==
  ASSUME NEW v \in Int
  PROVE  /\ Shifted(v, 0) = v
         /\ \A n \in Nat : /\ Shifted(v, n) \in Int
                           /\ Shifted(v, n + 1) = Shifted(v, n) \div 256
<1> DEFINE step == [x \in Nat \X Int |-> x[2] \div 256]
           It(f) == f = [k \in Nat |-> IF k = 0 THEN v ELSE f[k - 1] \div 256]
           rest == CHOOSE f : It(f)
<1>1. step \in [Nat \X Int -> Int]
  BY SMT
<1>2. \A k \in Nat, x \in Int : step[<<k, x>>] = x \div 256
  OBVIOUS
<1> HIDE DEF step
<1>3. PICK f \in [Nat -> Int] : Continued(f, v, step)
  BY <1>1, IteratedForever
<1>4. It(f)
  <2>1. \A k \in Nat : f[k] = IF k = 0 THEN v ELSE f[k - 1] \div 256
    <3> SUFFICES ASSUME NEW k \in Nat, k # 0 PROVE f[k] = f[k - 1] \div 256
      BY <1>3 DEF Continued
    <3>1. k - 1 \in Nat /\ (k - 1) + 1 = k
      OBVIOUS
    <3>2. f[k - 1] \in Int
      BY <3>1
    <3>3. f[(k - 1) + 1] = step[<<(k - 1) + 1, f[k - 1]>>]
      BY <3>1, <1>3 DEF Continued
    <3>4. step[<<k, f[k - 1]>>] = f[k - 1] \div 256
      BY <3>1, <3>2, <1>2
    <3> QED BY <3>1, <3>3, <3>4
  <2>2. f = [k \in Nat |-> f[k]]
    OBVIOUS
  <2> QED BY <2>1, <2>2
<1>5. It(rest)
  <2> HIDE DEF It
  <2> QED BY <1>4
<1> HIDE DEF rest
<1>6. /\ rest[0] = v
      /\ \A k \in Nat \ {0} : rest[k] = rest[k - 1] \div 256
  BY <1>5
<1>7. \A n \in Nat : rest[n + 1] = rest[n] \div 256
  <2> SUFFICES ASSUME NEW n \in Nat PROVE rest[n + 1] = rest[n] \div 256
    OBVIOUS
  <2>1. n + 1 \in Nat \ {0} /\ (n + 1) - 1 = n
    OBVIOUS
  <2> QED BY <2>1, <1>6
<1>8. \A n \in Nat : rest[n] \in Int
  <2> DEFINE T == {n \in Nat : rest[n] \notin Int}
  <2> SUFFICES ASSUME T # {} PROVE FALSE
    OBVIOUS
  <2>1. PICK n \in T : \A k \in T : n <= k
    <3>1. T \subseteq Nat
      OBVIOUS
    <3> QED BY <3>1, LeastNat
  <2>2. n # 0
    BY <2>1, <1>6
  <2>3. n - 1 \in Nat /\ n - 1 \notin T
    BY <2>1, <2>2
  <2>4. rest[n - 1] \in Int
    BY <2>3
  <2>5. rest[n] = rest[n - 1] \div 256
    BY <2>1, <2>2, <1>6
  <2> QED BY <2>1, <2>4, <2>5
<1>9. \A n : Shifted(v, n) = rest[n]
  BY DEF Shifted, rest
<1> QED BY <1>6, <1>7, <1>8, <1>9

\* The byte of each place is what the next one leaves out.
LEMMA ShiftedByte ==
  ASSUME NEW v \in Int, NEW n \in Nat
  PROVE  /\ Shifted(v, n) = Shifted(v, n + 1) * 256 + (Shifted(v, n) % 256)
         /\ (Shifted(v, n) % 256) \in 0 .. 255 /\ Shifted(v, n) \in Int
<1>1. Shifted(v, n) \in Int /\ Shifted(v, n + 1) = Shifted(v, n) \div 256
  BY ShiftedSteps
<1> QED BY <1>1, SMT

\* The last three bytes of an integer, and what is left without the last four.
LEMMA LastBytes ==
  ASSUME NEW d \in Field, d.type \in IntegerTypes
  PROVE  LET v == d.value
             S(n) == Shifted(d.value, n)
         IN  /\ S(0) = v /\ S(1) \in Int /\ S(2) \in Int /\ S(3) \in Int
             /\ S(1) = v \div 256 /\ S(2) = S(1) \div 256
             /\ S(3) = S(2) \div 256 /\ S(4) = S(3) \div 256
             /\ v = S(1) * 256 + (v % 256) /\ (v % 256) \in 0 .. 255
             /\ S(1) = S(2) * 256 + (S(1) % 256) /\ (S(1) % 256) \in 0 .. 255
             /\ S(2) = S(3) * 256 + (S(2) % 256) /\ (S(2) % 256) \in 0 .. 255
<1> DEFINE v == d.value
           S(n) == Shifted(v, n)
<1> v \in Int
  BY DEF Field
<1>1. S(0) = v /\ \A n \in Nat : S(n) \in Int /\ S(n + 1) = S(n) \div 256
  BY ShiftedSteps
<1> HIDE DEF S, v
<1>2. \A n, m \in Nat : m = n + 1 => S(m) = S(n) \div 256
  BY <1>1
<1>3. S(1) = v \div 256 /\ S(2) = S(1) \div 256
  BY <1>1, <1>2
<1>4. S(3) = S(2) \div 256 /\ S(4) = S(3) \div 256
  BY <1>2
<1>5. S(1) \in Int /\ S(2) \in Int /\ S(3) \in Int
  BY <1>1
<1>6. ASSUME NEW x \in Int, NEW y \in Int, y = x \div 256
      PROVE  x = y * 256 + (x % 256) /\ (x % 256) \in 0 .. 255
  BY <1>6
<1>7. v = S(1) * 256 + (v % 256) /\ (v % 256) \in 0 .. 255
  BY <1>3, <1>5, <1>6, Zenon
<1>8. S(1) = S(2) * 256 + (S(1) % 256) /\ (S(1) % 256) \in 0 .. 255
  BY <1>3, <1>5, <1>6, Zenon
<1>9. S(2) = S(3) * 256 + (S(2) % 256) /\ (S(2) % 256) \in 0 .. 255
  BY <1>4, <1>5, <1>6, Zenon
<1>10. S(0) = v
  BY <1>1
<1> USE DEF S, v
<1> QED BY <1>3, <1>4, <1>5, <1>7, <1>8, <1>9, <1>10, Zenon

\* What get_uintX() has after each byte of the integer, when n bytes are packed.
LEMMA GetXBytes ==
  ASSUME NEW d \in Field, d.type \in IntegerTypes, NEW mem, NEW o \in Nat,
         PayloadStored(d, mem, o)
  PROVE  \E V : /\ V[0] = 0
                /\ \A i \in 1 .. d.size :
                     V[i] = V[i - 1] * 256 + (Shifted(d.value, d.size - i) % 256)
                /\ GetX(mem, o, d.size) = V[d.size]
<1> DEFINE n == d.size
           v == d.value
<1>1. n \in Nat
  BY DEF Field
<1>2. PICK V : /\ V[0] = 0
               /\ \A i \in 1 .. n : V[i] = V[i - 1] * 256 + mem[o + i - 1]
               /\ GetX(mem, o, n) = V[n]
  BY <1>1, GetXPrefixes
<1>3. ASSUME NEW i \in 1 .. n
      PROVE  V[i] = V[i - 1] * 256 + (Shifted(v, n - i) % 256)
  <2>1. i - 1 \in 0 .. n - 1 /\ o + (i - 1) = o + i - 1 /\ n - 1 - (i - 1) = n - i
    BY <1>1
  <2>2. mem[o + (i - 1)] = PayloadByte(d, n - 1 - (i - 1))
    BY <2>1 DEF PayloadStored
  <2>3. PayloadByte(d, n - i) = (Shifted(v, n - i) % 256)
    BY DEF PayloadByte
  <2>4. V[i] = V[i - 1] * 256 + mem[o + i - 1]
    BY <1>2
  <2> QED BY <2>1, <2>2, <2>3, <2>4
<1> QED BY <1>2, <1>3

\* get_uintX() gives the integer whose bytes it reads, whatever number of them there
\* is, when they leave nothing of it out.
LEMMA GetXRight ==
  ASSUME NEW d \in Field, d.type \in IntegerTypes, Shifted(d.value, d.size) = 0,
         NEW mem, NEW o \in Nat, PayloadStored(d, mem, o)
  PROVE  GetX(mem, o, d.size) = d.value
<1> DEFINE n == d.size
           v == d.value
<1>1. n \in Nat /\ v \in Int /\ Shifted(v, n) = 0
  BY DEF Field
<1>2. PICK V : /\ V[0] = 0
               /\ \A i \in 1 .. n : V[i] = V[i - 1] * 256 + (Shifted(v, n - i) % 256)
               /\ GetX(mem, o, n) = V[n]
  BY GetXBytes
<1> HIDE DEF n, v
<1> DEFINE T == {i \in 0 .. n : V[i] # Shifted(v, n - i)}
<1>3. T = {}
  <2> SUFFICES ASSUME T # {} PROVE FALSE
    OBVIOUS
  <2>1. PICK i \in T : \A j \in T : i <= j
    <3>1. T \subseteq Nat
      BY <1>1
    <3> QED BY <3>1, LeastNat
  <2>2. CASE i = 0
    <3>1. n - 0 = n
      BY <1>1
    <3> QED BY <3>1, <2>1, <2>2, <1>1, <1>2
  <2>3. CASE i # 0
    <3>1. /\ i \in 1 .. n /\ i - 1 \in 0 .. n /\ i - 1 \notin T
          /\ n - i \in Nat /\ n - (i - 1) = (n - i) + 1
      BY <1>1, <2>1, <2>3
    <3>2. V[i - 1] = Shifted(v, (n - i) + 1)
      BY <3>1
    <3>3. V[i] = V[i - 1] * 256 + (Shifted(v, n - i) % 256)
      BY <3>1, <1>2
    <3>4. Shifted(v, n - i) = Shifted(v, (n - i) + 1) * 256 + (Shifted(v, n - i) % 256)
      BY <3>1, <1>1, ShiftedByte
    <3>5. V[i] = Shifted(v, n - i)
      BY <3>2, <3>3, <3>4
    <3> QED BY <3>5, <2>1
  <2> QED BY <2>2, <2>3
<1>4. V[n] = Shifted(v, n - n)
  BY <1>1, <1>3
<1>5. n - n = 0 /\ Shifted(v, 0) = v
  BY <1>1, ShiftedSteps
<1> QED BY <1>2, <1>4, <1>5 DEF n, v

\* What get_sintX() makes of an integer.
SignedAs(d) ==
  IF IsShortNegative(d) THEN WithoutSign(d.value, d.size) ELSE d.value

\* get_sintX() of four bytes: the highest bit is the sign.
LEMMA GetSignedWhole ==
  ASSUME NEW d \in Field, d.type = Int32, d.size = 4, ValueFits(d),
         NEW mem, NEW o \in Nat, PayloadStored(d, mem, o)
  PROVE  GetSigned(mem, o, 4) = d.value
<1> DEFINE v == d.value
           s1 == Shifted(v, 1)
           s2 == Shifted(v, 2)
           s3 == Shifted(v, 3)
           s4 == Shifted(v, 4)
<1>1. v \in Int /\ d.type \in IntegerTypes
  BY DEF Field, IntegerTypes
<1>2. /\ mem[o + 0] = PayloadByte(d, 3) /\ mem[o + 1] = PayloadByte(d, 2)
      /\ mem[o + 2] = PayloadByte(d, 1) /\ mem[o + 3] = PayloadByte(d, 0)
  BY SMT DEF PayloadStored
<1>3. /\ PayloadByte(d, 3) = (s3 % 256) /\ PayloadByte(d, 2) = (s2 % 256)
      /\ PayloadByte(d, 1) = (s1 % 256) /\ PayloadByte(d, 0) = (v % 256)
  BY <1>1, ShiftedSteps DEF PayloadByte
<1>4. s3 \div 128 \in {0, -1}
  BY SMT DEF ValueFits, Int32
<1>5. v = s1 * 256 + (v % 256) /\ s1 \in Int /\ (v % 256) \in 0 .. 255
  BY <1>1, LastBytes
<1>6. s1 = s2 * 256 + (s1 % 256) /\ s2 \in Int /\ (s1 % 256) \in 0 .. 255
  BY <1>1, LastBytes
<1>7. s2 = s3 * 256 + (s2 % 256) /\ s3 \in Int /\ (s2 % 256) \in 0 .. 255
  BY <1>1, LastBytes
<1>8. o + 0 = o /\ (o + 1) + 1 = o + 2 /\ (o + 1) + 2 = o + 3
  OBVIOUS
<1> HIDE DEF v, s1, s2, s3, s4
<1>9. Get24(mem, o + 1) = (s2 % 256) * 65536 + (s1 % 256) * 256 + (v % 256)
  BY <1>2, <1>3, <1>8 DEF Get24
<1>10. v = s3 * 16777216 + Get24(mem, o + 1)
  BY <1>5, <1>6, <1>7, <1>9, <1>1
<1>11. CASE s3 \div 128 = -1
  <2>1. (s3 % 256) >= 128 /\ (s3 % 256) - 256 = s3
    BY <1>11, <1>7, SMT
  <2>2. GetSigned(mem, o, 4) = (mem[o] - 256) * 16777216 + Get24(mem, o + 1)
    BY <1>2, <1>3, <1>8, <2>1 DEF GetSigned
  <2> QED BY <2>1, <2>2, <1>2, <1>3, <1>8, <1>10 DEF v
<1>12. CASE s3 \div 128 = 0
  <2>1. ~ (s3 % 256 >= 128) /\ s3 \div 256 = 0
    BY <1>12, <1>7, SMT
  <2>2. GetSigned(mem, o, 4) = GetX(mem, o, 4)
    BY <1>2, <1>3, <1>8, <2>1 DEF GetSigned
  <2>3. Shifted(v, 4) = 0
    <3>1. Shifted(v, 4) = Shifted(v, 3) \div 256
      BY <1>1, LastBytes DEF v
    <3> QED BY <3>1, <2>1 DEF s3
  <2>4. GetX(mem, o, d.size) = d.value
    BY <1>1, <2>3, GetXRight DEF v
  <2> QED BY <2>2, <2>4
<1> QED BY <1>4, <1>11, <1>12

\* get_sintX() of fewer bytes: those of a negative integer are taken for one that is
\* not.
LEMMA GetSignedShort ==
  ASSUME NEW d \in Field, d.type = Int32, d.size < 4, ValueFits(d),
         NEW mem, NEW o \in Nat, PayloadStored(d, mem, o)
  PROVE  GetSigned(mem, o, d.size) = SignedAs(d)
<1> DEFINE n == d.size
           v == d.value
<1>1. /\ n \in Nat /\ v \in Int /\ d.type \in IntegerTypes
      /\ GetSigned(mem, o, n) = GetX(mem, o, n)
  BY DEF Field, IntegerTypes, GetSigned
<1>2. CASE n = 0
  <2>1. Shifted(v, n) = 0
    BY <1>2 DEF ValueFits
  <2>2. v = 0
    BY <2>1, <1>1, <1>2, ShiftedSteps
  <2>3. SignedAs(d) = v
    BY <2>2 DEF SignedAs, IsShortNegative
  <2> QED BY <2>1, <2>3, <1>1, GetXRight
<1>3. ASSUME n # 0
      PROVE  /\ Shifted(v, n) = (IF v < 0 THEN -1 ELSE 0)
             /\ v < 0 => Shifted(v, n - 1) < 0
  <2> DEFINE s == Shifted(v, n - 1)
             t == Shifted(v, 1)
             u == Shifted(v, 2)
  <2>1. s \div 128 \in {0, -1}
    BY <1>3 DEF ValueFits
  <2>2. n - 1 \in Nat /\ (n - 1) + 1 = n
    BY <1>1, <1>3
  <2>3. s \in Int /\ Shifted(v, n) = s \div 256
    <3>1. \A k \in Nat : /\ Shifted(v, k) \in Int
                          /\ Shifted(v, k + 1) = Shifted(v, k) \div 256
      BY <1>1, ShiftedSteps, Zenon
    <3> HIDE DEF n, v
    <3>2. /\ Shifted(v, n - 1) \in Int
          /\ Shifted(v, (n - 1) + 1) = Shifted(v, n - 1) \div 256
      BY <3>1, <2>2, Zenon
    <3> QED BY <3>2, <2>2, Zenon
  <2>4. v \in Int /\ t \in Int /\ t = v \div 256 /\ u \in Int /\ u = t \div 256
    BY <1>1, LastBytes
  <2>5. s = v \/ s = t \/ s = u
    <3>1. n \in {1, 2, 3}
      <4>1. n \in Nat /\ n < 4 /\ n # 0
        BY <1>1, <1>3
      <4> HIDE DEF n
      <4> QED BY <4>1
    <3>2. Shifted(v, 0) = v
      BY <1>1, ShiftedSteps
    <3>3. n - 1 \in {0, 1, 2}
      BY <3>1
    <3> QED BY <3>2, <3>3
  <2>6. v < 0 <=> s < 0
    <3> HIDE DEF s, t, u, v
    <3>1. v < 0 <=> t < 0
      BY <2>4
    <3>2. t < 0 <=> u < 0
      BY <2>4
    <3> QED BY <2>5, <3>1, <3>2
  <2> HIDE DEF s, v
  <2>7. s \div 256 = IF s < 0 THEN -1 ELSE 0
    BY <2>1, <2>3, SMT
  <2> QED BY <2>3, <2>6, <2>7 DEF s
<1>4. CASE n # 0 /\ v >= 0
  <2>1. SignedAs(d) = v
    BY <1>1, <1>4 DEF SignedAs, IsShortNegative
  <2>2. Shifted(v, n) = 0
    BY <1>1, <1>3, <1>4
  <2> QED BY <2>1, <2>2, <1>1, GetXRight
<1>5. CASE n # 0 /\ v < 0
  <2> DEFINE s1 == Shifted(v, 1)
             s2 == Shifted(v, 2)
             s3 == Shifted(v, 3)
  <2>1. PICK V : /\ V[0] = 0
                 /\ \A i \in 1 .. n : V[i] = V[i - 1] * 256 + (Shifted(v, n - i) % 256)
                 /\ GetX(mem, o, n) = V[n]
    BY <1>1, GetXBytes
  <2>2. SignedAs(d) = WithoutSign(v, n) /\ Shifted(v, n) = -1
    BY <1>3, <1>5 DEF SignedAs, IsShortNegative
  <2>3. /\ v = s1 * 256 + (v % 256) /\ s1 = s2 * 256 + (s1 % 256)
        /\ s2 = s3 * 256 + (s2 % 256)
        /\ s1 \in Int /\ s2 \in Int /\ s3 \in Int /\ Shifted(v, 0) = v
    BY <1>1, LastBytes
  <2>4. /\ (v % 256) \in Int /\ (s1 % 256) \in Int /\ (s2 % 256) \in Int
    BY <1>1, <2>3
  <2>5. ASSUME NEW i \in 1 .. n
        PROVE  V[i] = V[i - 1] * 256 + (Shifted(v, n - i) % 256)
    BY <2>1
  <2> HIDE DEF n, v
  <2>6. CASE n = 1
    <3>1. V[1] = V[1 - 1] * 256 + (Shifted(v, 1 - 1) % 256)
      BY <2>5, <2>6
    <3>2. V[1] = (v % 256)
      BY <3>1, <2>1, <2>3, <2>4
    <3>3. s1 = -1
      BY <2>2, <2>6
    <3> HIDE DEF s1, s2, s3
    <3> QED BY <3>2, <3>3, <2>1, <2>2, <2>3, <2>6, <1>1 DEF WithoutSign, n, v
  <2>7. CASE n = 2
    <3>1. /\ V[1] = V[1 - 1] * 256 + (Shifted(v, 2 - 1) % 256)
          /\ V[2] = V[2 - 1] * 256 + (Shifted(v, 2 - 2) % 256)
      BY <2>5, <2>7
    <3>2. V[1] = (s1 % 256) /\ V[2] = (s1 % 256) * 256 + (v % 256)
      BY <3>1, <2>1, <2>3, <2>4
    <3>3. s2 = -1
      BY <2>2, <2>7
    <3> HIDE DEF s1, s2, s3
    <3> QED BY <3>2, <3>3, <2>1, <2>2, <2>3, <2>4, <2>7, <1>1 DEF WithoutSign, n, v
  <2>8. CASE n = 3
    <3>1. /\ V[1] = V[1 - 1] * 256 + (Shifted(v, 3 - 1) % 256)
          /\ V[2] = V[2 - 1] * 256 + (Shifted(v, 3 - 2) % 256)
          /\ V[3] = V[3 - 1] * 256 + (Shifted(v, 3 - 3) % 256)
      BY <2>5, <2>8
    <3>2. /\ V[1] = (s2 % 256) /\ V[2] = (s2 % 256) * 256 + (s1 % 256)
          /\ V[3] = ((s2 % 256) * 256 + (s1 % 256)) * 256 + (v % 256)
      BY <3>1, <2>1, <2>3, <2>4
    <3>3. s3 = -1
      BY <2>2, <2>8
    <3> HIDE DEF s1, s2, s3
    <3> QED BY <3>2, <3>3, <2>1, <2>2, <2>3, <2>4, <2>8, <1>1 DEF WithoutSign, n, v
  <2>9. n \in {1, 2, 3}
    BY <1>1, <1>5 DEF n
  <2> QED BY <2>6, <2>7, <2>8, <2>9, <1>1 DEF n
<1>6. n = 0 \/ (n # 0 /\ v >= 0) \/ (n # 0 /\ v < 0)
  BY <1>1
<1> QED BY <1>2, <1>4, <1>5, <1>6

\* What is stored in the union for a number or a boolean of the format.
ValueKept(e, d) ==
  /\ (d.type \in IntegerTypes /\ ValueFits(d)) => e.value = SignedAs(d)
  /\ d.type = Boolean => e.value = (IF d.size = 0 THEN 0 ELSE 1)

\* decode_one() decodes every integer that can be packed into a field, of any type, size
\* and sign, and every boolean: to the value packed or, of a negative one of one to
\* three bytes, to that value without its sign.
THEOREM ValueDecoded ==
  ASSUME NEW d \in Field, FieldFits(d), NEW mem, NEW o \in Nat, Stored(d, mem, o),
         o + FieldLength(d) < Wrap,
         d.type \notin {Pointer, Map, Array, Boolean}
           => PayloadStored(d, mem, o + HeaderLength(d))
  PROVE  ValueKept(DecodeOne(mem, o), d)
<1> DEFINE q == o + HeaderLength(d)
<1>1. ValueFromPayload(DecodeOne(mem, o), d, mem, o)
  BY FieldDecoded, Zenon
<1>2. q \in Nat
  BY FieldLengths, SMT
<1>3. d.size \in Nat /\ d.value \in Int
  BY SMT DEF Field
<1>4. ASSUME d.type \in IntegerTypes, ValueFits(d)
      PROVE  DecodeOne(mem, o).value = SignedAs(d)
  <2>1. DecodeOne(mem, o).value = ValueAt(mem, q, d.type, d.size)
    BY <1>1, <1>4, SMT
      DEF ValueFromPayload, IntegerTypes, Pointer, Map, Array, Uint16, Uint32, Int32,
          Uint64, Uint128
  <2>2. PayloadStored(d, mem, q)
    BY <1>4, SMT
      DEF IntegerTypes, Pointer, Map, Array, Boolean, Uint16, Uint32, Int32, Uint64,
          Uint128
  <2> HIDE DEF q
  <2>3. CASE d.type = Int32
    <3>1. d.size <= 4
      BY <2>3, <1>3, SMT DEF FieldFits, TooLong, Pointer, Int32
    <3>2. ValueAt(mem, q, d.type, d.size) = GetSigned(mem, q, d.size)
      BY <2>3, SMT DEF ValueAt, Boolean, Uint16, Uint32, Uint64, Uint128, Int32
    <3>3. CASE d.size = 4
      <4>1. SignedAs(d) = d.value
        BY <3>3 DEF SignedAs, IsShortNegative
      <4> QED BY <2>1, <2>2, <2>3, <3>2, <3>3, <4>1, <1>2, <1>4, GetSignedWhole
    <3>4. CASE d.size # 4
      <4>1. d.size < 4
        BY <3>1, <3>4, <1>3
      <4> QED BY <2>1, <2>2, <2>3, <3>2, <4>1, <1>2, <1>4, GetSignedShort
    <3> QED BY <3>3, <3>4
  <2>4. CASE d.type # Int32
    <3>1. SignedAs(d) = d.value /\ Shifted(d.value, d.size) = 0
      BY <1>4, <2>4 DEF ValueFits, SignedAs, IsShortNegative
    <3>2. ValueAt(mem, q, d.type, d.size) = GetX(mem, q, d.size)
      BY <1>4, <2>4, SMT
        DEF ValueAt, IntegerTypes, Boolean, Uint16, Uint32, Uint64, Uint128, Int32
    <3> QED BY <2>1, <2>2, <3>1, <3>2, <1>2, <1>4, GetXRight
  <2> QED BY <2>3, <2>4, Zenon
<1>5. ASSUME d.type = Boolean
      PROVE  DecodeOne(mem, o).value = (IF d.size = 0 THEN 0 ELSE 1)
  <2>1. ValueAt(mem, q, d.type, d.size) = (IF d.size = 0 THEN 0 ELSE 1)
    BY <1>5, SMT DEF ValueAt, Boolean, Uint16, Uint32, Uint64, Uint128, Int32
  <2>2. DecodeOne(mem, o).value = ValueAt(mem, q, d.type, d.size)
    BY <1>1, <1>5, SMT DEF ValueFromPayload, Boolean, Pointer, Map, Array
  <2> QED BY <2>1, <2>2, Zenon
<1> QED BY <1>4, <1>5, Zenon DEF ValueKept

-----------------------------------------------------------------------------
(* Records.                                                                *)

\* The two halves of a byte.
LEMMA Halves ==
  ASSUME NEW a \in 0 .. 15, NEW b \in 0 .. 15
  PROVE  (16 * a + b) \div 16 = a /\ (16 * a + b) % 16 = b
BY SMT

\* A multiple of the length of a node, and what is less than it, are told apart
\* again.
LEMMA NodeAndByte ==
  ASSUME NEW bits \in {24, 28, 32}, NEW i \in Nat, NEW k \in 0 .. NodeLength(bits) - 1
  PROVE  /\ i * NodeLength(bits) + k \in Nat
         /\ (i * NodeLength(bits) + k) \div NodeLength(bits) = i
         /\ (i * NodeLength(bits) + k) % NodeLength(bits) = k
<1>1. CASE bits = 24
  BY <1>1, SMTT(20) DEF NodeLength
<1>2. CASE bits = 28
  BY <1>2, SMTT(20) DEF NodeLength
<1>3. CASE bits = 32
  BY <1>3, SMTT(20) DEF NodeLength
<1> QED BY <1>1, <1>2, <1>3

\* The bytes of a node lie one behind the other from a multiple of its length on.
LEMMA ByteOfNode ==
  ASSUME NEW f \in Files, NEW i \in Nat, i < Len(f.tree),
         NEW k \in 0 .. NodeLength(f.bits) - 1
  PROVE  Byte(f, i * NodeLength(f.bits) + k) = Packed(f.tree[i + 1], f.bits)[k + 1]
<1>1. f.bits \in {24, 28, 32}
  BY FilesAssumption
<1> DEFINE o == i * NodeLength(f.bits) + k
<1>2. o \div NodeLength(f.bits) = i /\ o % NodeLength(f.bits) = k
  BY <1>1, NodeAndByte
<1> HIDE DEF o
<1>3. Byte(f, o) = Packed(f.tree[i + 1], f.bits)[k + 1]
  BY <1>2 DEF Byte
<1> QED BY <1>3 DEF o

\* What the getters compute from the bytes of a node are its two records.
LEMMA RecordsRead ==
  ASSUME NEW f \in Files, NEW i \in Nat, i < Len(f.tree),
         Fits(f.tree[i + 1], f.bits)
  PROVE  LET o == i * NodeLength(f.bits)
             mem == Memory(f, 0)
         IN  /\ LeftRecord(mem, NodeLength(f.bits), o) = f.tree[i + 1].left
             /\ RightRecord(mem, NodeLength(f.bits), o) = f.tree[i + 1].right
<1> DEFINE n == f.tree[i + 1]
           l == n.left
           r == n.right
           o == i * NodeLength(f.bits)
           mem == Memory(f, 0)
<1>1. l \in Nat /\ r \in Nat
  <2>1. f.tree \in Seq(Node) /\ i + 1 \in 1 .. Len(f.tree)
    BY FilesAssumption
  <2>2. n \in Node
    BY <2>1
  <2> QED BY <2>2 DEF Node
<1>2. f.bits \in {24, 28, 32}
  BY FilesAssumption
<1>4. o \in Nat
  BY <1>2, SMTT(20) DEF NodeLength
<1>3. \A k \in 0 .. NodeLength(f.bits) - 1 : mem[o + k] = Packed(n, f.bits)[k + 1]
  <2> SUFFICES ASSUME NEW k \in 0 .. NodeLength(f.bits) - 1
               PROVE  mem[o + k] = Packed(n, f.bits)[k + 1]
    OBVIOUS
  <2>1. Byte(f, o + k) = Packed(n, f.bits)[k + 1]
    BY ByteOfNode
  <2> HIDE DEF n, o
  <2>2. o + k \in Nat /\ 0 + (o + k) = o + k
    BY <1>4
  <2> QED BY <2>1, <2>2 DEF Memory
<1>5. l \div 16777216 < HighLimit(f.bits) /\ r \div 16777216 < HighLimit(f.bits)
  BY SMT DEF Fits
<1>6. HighLimit(f.bits) \in {1, 16, 256}
  BY <1>2, SMT DEF HighLimit
<1> DEFINE h == HighLimit(f.bits)
<1> HIDE DEF n, l, r, o, h, mem
<1>10. Composed(l, h)
  <2>1. h \in {1, 16, 256} /\ l \div 16777216 < h
    BY <1>5, <1>6, SMT DEF h
  <2> QED BY <1>1, <2>1, Digits, SMT
<1>11. Composed(r, h)
  <2>1. h \in {1, 16, 256} /\ r \div 16777216 < h
    BY <1>5, <1>6, SMT DEF h
  <2> QED BY <1>1, <2>1, Digits, SMT
<1>7. CASE f.bits = 24
  <2>1. \A k \in 0 .. 5 : mem[o + k] = Packed(n, 24)[k + 1]
    BY <1>3, <1>7 DEF NodeLength
  <2>2. Packed(n, 24) = <<Digit(l, 65536), Digit(l, 256), Digit(l, 1),
                          Digit(r, 65536), Digit(r, 256), Digit(r, 1)>>
    BY SMT DEF Packed, High, l, r
  <2>3. Get24(mem, o) = Low(l)
    BY <2>1, <2>2, <1>4, SMT DEF Get24, Low
  <2>4. Get24(mem, o + 3) = Low(r)
    BY <2>1, <2>2, <1>4, SMT DEF Get24, Low
  <2>5. h = 1
    BY <1>7, SMT DEF HighLimit, h
  <2>8. l = Low(l) /\ r = Low(r)
    BY <1>10, <1>11, <2>5, SMT DEF Composed
  <2>6. /\ LeftRecord(mem, NodeLength(f.bits), o) = Get24(mem, o)
        /\ RightRecord(mem, NodeLength(f.bits), o) = Get24(mem, o + 3)
    BY <1>7 DEF LeftRecord, RightRecord, NodeLength
  <2> QED BY <2>3, <2>4, <2>8, <2>6, SMT DEF o, l, r, n, mem
<1>8. CASE f.bits = 28
  <2>1. \A k \in 0 .. 6 : mem[o + k] = Packed(n, 28)[k + 1]
    BY <1>3, <1>8 DEF NodeLength
  <2>2. Packed(n, 28) = <<Digit(l, 65536), Digit(l, 256), Digit(l, 1),
                          16 * High(l) + High(r),
                          Digit(r, 65536), Digit(r, 256), Digit(r, 1)>>
    BY SMT DEF Packed, High, l, r
  <2>3. Get24(mem, o) = Low(l)
    BY <2>1, <2>2, <1>4, SMT DEF Get24, Low
  <2>4. mem[o + 3] = 16 * High(l) + High(r)
    BY <2>1, <2>2
  <2>5. Get24(mem, o + 4) = Low(r)
    BY <2>1, <2>2, <1>4, SMT DEF Get24, Low
  <2>6. High(l) \in 0 .. 15 /\ High(r) \in 0 .. 15
    <3>1. h = 16
      BY <1>8, SMT DEF HighLimit, h
    <3> QED BY <3>1, <1>10, <1>11, SMT DEF Composed
  <2>7. /\ mem[o + 3] \div 16 = High(l)
        /\ mem[o + 3] % 16 = High(r)
    <3>1. /\ (16 * High(l) + High(r)) \div 16 = High(l)
          /\ (16 * High(l) + High(r)) % 16 = High(r)
      BY <2>6, Halves, Zenon
    <3> QED BY <2>4, <3>1, Zenon
  <2>8. /\ LeftRecord(mem, NodeLength(f.bits), o)
             = Get24(mem, o) + (mem[o + 3] \div 16) * 16777216
        /\ RightRecord(mem, NodeLength(f.bits), o)
             = (mem[o + 3] % 16) * 16777216 + Get24(mem, o + 4)
    BY <1>8, <1>4, SMT DEF LeftRecord, RightRecord, NodeLength, Left28, Right28
  <2>9. LeftRecord(mem, NodeLength(f.bits), o) = Low(l) + High(l) * 16777216
    BY <2>3, <2>7, <2>8, SMT
  <2>10. RightRecord(mem, NodeLength(f.bits), o) = High(r) * 16777216 + Low(r)
    BY <2>5, <2>7, <2>8, SMT
  <2>11. Low(l) + High(l) * 16777216 = l /\ High(r) * 16777216 + Low(r) = r
    BY <1>10, <1>11, <2>6, SMT DEF Composed
  <2> QED BY <2>9, <2>10, <2>11, SMT DEF o, l, r, n, mem
<1>9. CASE f.bits = 32
  <2>1. \A k \in 0 .. 7 : mem[o + k] = Packed(n, 32)[k + 1]
    BY <1>3, <1>9 DEF NodeLength
  <2>2. Packed(n, 32) = <<High(l), Digit(l, 65536), Digit(l, 256), Digit(l, 1),
                          High(r), Digit(r, 65536), Digit(r, 256), Digit(r, 1)>>
    BY SMT DEF Packed, High, l, r
  <2>3. Get32(mem, o) = High(l) * 16777216 + Low(l)
    BY <2>1, <2>2, <1>4, SMT DEF Get32, Get24, Low
  <2>4. Get32(mem, o + 4) = High(r) * 16777216 + Low(r)
    BY <2>1, <2>2, <1>4, SMT DEF Get32, Get24, Low
  <2>5. l = High(l) * 16777216 + Low(l) /\ r = High(r) * 16777216 + Low(r)
    BY <1>10, <1>11, SMT DEF Composed
  <2>6. /\ LeftRecord(mem, NodeLength(f.bits), o) = Get32(mem, o)
        /\ RightRecord(mem, NodeLength(f.bits), o) = Get32(mem, o + 4)
    BY <1>9 DEF LeftRecord, RightRecord, NodeLength
  <2> QED BY <2>3, <2>4, <2>5, <2>6, SMT DEF o, l, r, n, mem
<1> QED BY <1>2, <1>7, <1>8, <1>9

-----------------------------------------------------------------------------
(* The invariant: where the search begins, and what is known at each step  *)
(* of opening a file of the format with its marker at m.                   *)

\* The sizes that MMDB_open() computes from such a file.
Sizes(f, m) ==
  [nodeCount |-> Len(f.tree), recordBytes |-> NodeLength(f.bits),
   data |-> Len(f.tree) * NodeLength(f.bits),
   dataSize |-> f.size - Len(f.tree) * NodeLength(f.bits),
   metadata |-> m + MarkerLength, metadataSize |-> f.size - m]

ReadRight(f, m) ==
  node.status = "SUCCESS" =>
    /\ node.number \in 0 .. Len(f.tree)
    /\ node.at = node.number * NodeLength(f.bits)
    /\ node.number < Len(f.tree) =>
         /\ node.left = f.tree[node.number + 1].left
         /\ node.right = f.tree[node.number + 1].right

OpenedRight(f, m) ==
  /\ pc # "failed"
  /\ pc = "metadata" => area = m
  /\ pc = "open" => db = Sizes(f, m)

Opening ==
  /\ file \in Files
  /\ DOMAIN node = DOMAIN NoNode
  /\ pc = "search" => area <= file.size - MaxBlock \/ area = 0
  /\ pc = "search" => area >= file.size - MaxBlock
  /\ pc # "open" => node = NoNode

FileInv ==
  /\ TypeOK
  /\ Opening
  /\ \A m \in DOMAIN file.metadata :
       WellFormed(file, m) => OpenedRight(file, m) /\ ReadRight(file, m)

\* What the assumption on the files says of one of them.
LEMMA FileFacts ==
  ASSUME NEW f \in Files
  PROVE  /\ f.size \in Nat /\ Len(f.tree) \in Nat /\ f.bits \in {24, 28, 32}
         /\ \A m \in DOMAIN f.metadata :
              /\ m \in Nat /\ m + MarkerLength <= f.size
              /\ f.metadata[m].nodeCount \in Nat /\ f.metadata[m].recordSize \in Nat
         /\ MarkerLength \in Nat \ {0} /\ MaxBlock \in Nat
         /\ Separator \in Nat /\ Separator >= 8
         /\ Wrap \in Nat \ {0} /\ ShortWrap \in Nat \ {0}
<1>1. f.tree \in Seq(Node)
  BY FilesAssumption
<1>2. Len(f.tree) \in Nat
  BY <1>1
<1> QED BY <1>2, FilesAssumption, FieldAssumption

\* A set of offsets that is not empty has a first one.
LEMMA FirstIsLeast ==
  ASSUME NEW T, T \subseteq Nat, T # {}
  PROVE  First(T) \in T /\ \A k \in T : First(T) <= k
<1>1. PICK x \in T : \A y \in T : x <= y
  BY LeastNat
<1> QED BY <1>1 DEF First

\* Under a file of the format the sizes do not wrap.
LEMMA SizesFit ==
  ASSUME NEW f \in Files, NEW m \in DOMAIN f.metadata, WellFormed(f, m)
  PROVE  /\ NodeLength(f.bits) \in {6, 7, 8}
         /\ Len(f.tree) * NodeLength(f.bits) \in Nat
         /\ Len(f.tree) * NodeLength(f.bits) + 8 <= m
         /\ m \in Nat /\ m < f.size /\ f.size < Wrap
         /\ \A n \in 0 .. Len(f.tree) :
              /\ n * NodeLength(f.bits) \in Nat
              /\ n * NodeLength(f.bits) <= Len(f.tree) * NodeLength(f.bits)
<1>1. Len(f.tree) * NodeLength(f.bits) + Separator <= m /\ f.size < Wrap
  BY DEF WellFormed, TreeLength
<1>2. NodeLength(f.bits) \in {6, 7, 8}
  BY FileFacts DEF NodeLength
<1>3. m \in Nat /\ m < f.size /\ Separator \in Nat /\ Separator >= 8
  BY FileFacts
<1>4. \A n \in 0 .. Len(f.tree) :
        /\ n * NodeLength(f.bits) \in Nat
        /\ n * NodeLength(f.bits) <= Len(f.tree) * NodeLength(f.bits)
  <2> DEFINE c == Len(f.tree)
  <2>1. c \in Nat
    BY FileFacts
  <2> HIDE DEF c
  <2>2. \A n \in 0 .. c : /\ n * NodeLength(f.bits) \in Nat
                          /\ n * NodeLength(f.bits) <= c * NodeLength(f.bits)
    BY <1>2, <2>1, SMTT(20)
  <2> QED BY <2>2 DEF c
<1> DEFINE c == Len(f.tree)
<1>8. c \in Nat
  BY FileFacts
<1> HIDE DEF c
<1>9. c \in 0 .. c
  BY <1>8
<1>5. Len(f.tree) \in 0 .. Len(f.tree)
  BY <1>9 DEF c
<1>6. Len(f.tree) * NodeLength(f.bits) \in Nat
  BY <1>4, <1>5
<1> DEFINE z == Len(f.tree) * NodeLength(f.bits)
<1> HIDE DEF z
<1>7. z + 8 <= m
  BY <1>1, <1>3, <1>6 DEF z
<1> QED BY <1>1, <1>2, <1>3, <1>4, <1>6, <1>7 DEF z

\* In a file of the format the search area of the start holds one marker.
LEMMA OneMatch ==
  ASSUME TypeOK, Opening, pc = "search",
         NEW m \in DOMAIN file.metadata, WellFormed(file, m)
  PROVE  Matches(area, left) = {m}
<1>1. /\ file \in Files
      /\ area <= file.size - MaxBlock \/ area = 0
      /\ area >= file.size - MaxBlock
  BY DEF Opening
<1>2. area \in Nat /\ left \in Nat /\ area + left = file.size
  <2>1. file.size \in Nat
    BY <1>1, FileFacts
  <2> QED BY <2>1 DEF TypeOK
<1>3. /\ \A k \in DOMAIN file.metadata : k \in Nat /\ k + MarkerLength <= file.size
      /\ file.size \in Nat /\ MaxBlock \in Nat /\ MarkerLength \in Nat
  BY <1>1, FileFacts
<1>4. /\ m >= file.size - MaxBlock
      /\ \A k \in DOMAIN file.metadata : k >= file.size - MaxBlock => k = m
  BY DEF WellFormed, SoleMarker
<1>5. \A k \in Matches(area, left) : k = m
  <2> SUFFICES ASSUME NEW k \in DOMAIN file.metadata, area <= k PROVE k = m
    BY DEF Matches
  <2>1. k >= file.size - MaxBlock
    BY <1>1, <1>2, <1>3
  <2> QED BY <2>1, <1>4
<1>6. m \in Matches(area, left)
  <2>1. area <= m /\ m + MarkerLength <= area + left
    BY <1>1, <1>2, <1>3, <1>4
  <2> QED BY <2>1 DEF Matches
<1> QED BY <1>5, <1>6

\* The first turn of the search stays in the file and finds the marker.
LEMMA SearchKeeps ==
  ASSUME FileInv, Search
  PROVE  FileInv'
<1>1. /\ file \in Files /\ file' = file /\ db' = db /\ node' = node /\ field' = field
      /\ pc = "search"
  BY DEF FileInv, Opening, Search
<1>2. /\ file.size \in Nat /\ MarkerLength \in Nat
      /\ \A k \in DOMAIN file.metadata : k \in Nat
  BY <1>1, FileFacts
<1>3. area \in Nat /\ left \in Nat /\ area + left = file.size
  BY <1>2 DEF FileInv, TypeOK
<1> DEFINE ms == Matches(area, left)
<1>4. ms \subseteq Nat /\ \A k \in ms : area <= k /\ k + MarkerLength <= area + left
  BY <1>2 DEF Matches
<1> HIDE DEF ms
<1>5. /\ ms = {} => area' = area /\ left' = left
      /\ ms # {} => area' = First(ms) /\ left' = left - (First(ms) - area)
      /\ pc' \in {"search", "metadata"}
      /\ pc' = "search" => ms # {} /\ First(ms) # area'
  BY DEF Search, NarrowTo, ms
<1>6. pc' = "metadata"
  BY <1>5
<1>7. area' \in 0 .. file.size /\ left' \in 0 .. file.size /\ area' + left' = file.size
  <2>1. CASE ms = {}
    BY <2>1, <1>5, <1>3
  <2>2. CASE ms # {}
    <3>1. First(ms) \in ms
      BY <2>2, <1>4, FirstIsLeast
    <3>2. First(ms) \in Nat /\ area <= First(ms) /\ First(ms) + MarkerLength <= area + left
      BY <3>1, <1>4
    <3> QED BY <2>2, <1>5, <3>2, <1>3, <1>2
  <2> QED BY <2>1, <2>2
<1>8. TypeOK'
  BY <1>1, <1>6, <1>7 DEF FileInv, TypeOK
<1>9. Opening'
  BY <1>1, <1>6 DEF FileInv, Opening
<1>10. ASSUME NEW m \in DOMAIN file.metadata, WellFormed(file, m)
       PROVE  OpenedRight(file, m)' /\ ReadRight(file, m)'
  <2>1. ms = {m}
    BY <1>1, <1>10, OneMatch DEF FileInv, ms
  <2>2. First(ms) = m
    BY <2>1 DEF First
  <2>3. area' = m
    BY <2>1, <2>2, <1>5
  <2>4. ReadRight(file, m)'
    BY <1>1, <1>10 DEF FileInv, ReadRight
  <2> QED BY <2>3, <2>4, <1>6, <1>1 DEF OpenedRight
<1> QED BY <1>8, <1>9, <1>10, <1>1 DEF FileInv

\* The sizes of a file of the format are those it was written with.
LEMMA ReadMetadataKeeps ==
  ASSUME FileInv, ReadMetadata
  PROVE  FileInv'
<1>1. /\ file \in Files /\ file' = file /\ area' = area /\ left' = left /\ node' = node
      /\ field' = field /\ pc = "metadata" /\ node = NoNode
  BY DEF FileInv, Opening, ReadMetadata
<1> DEFINE nodeCount == ValueForKey(Behind.nodeCount, Wrap)
           recordSize == ValueForKey(Behind.recordSize, ShortWrap)
           bytes == FullRecordBytes(recordSize)
           treeSize == (nodeCount * bytes) % Wrap
           fails == nodeCount = 0 \/ recordSize \notin {24, 28, 32}
           sizes == [nodeCount |-> nodeCount, recordBytes |-> bytes,
                     data |-> treeSize, dataSize |-> (file.size - treeSize) % Wrap,
                     metadata |-> area + MarkerLength,
                     metadataSize |-> (file.size - area) % Wrap]
<1>2. /\ fails => pc' = "failed" /\ db' = db
      /\ ~ fails => pc' = "open" /\ db' = sizes
  BY DEF ReadMetadata
<1>3. /\ file.size \in Nat /\ MarkerLength \in Nat
      /\ Wrap \in Nat \ {0} /\ ShortWrap \in Nat \ {0}
  BY <1>1, FileFacts
<1>4. area \in 0 .. file.size
  BY DEF FileInv, TypeOK
<1>5. Behind.nodeCount \in Nat /\ Behind.recordSize \in Nat
  BY <1>1, FileFacts DEF Behind
<1>6. nodeCount \in Nat /\ recordSize \in Nat
  BY <1>3, <1>5, Reduced DEF ValueForKey
<1> HIDE DEF nodeCount, recordSize
<1>7. ~ fails => bytes \in {6, 7, 8}
  BY <1>6, SMT DEF FullRecordBytes
<1> HIDE DEF bytes
<1>8. ~ fails => treeSize \in Nat
  <2> SUFFICES ASSUME ~ fails PROVE treeSize \in Nat
    OBVIOUS
  <2>1. nodeCount * bytes \in Nat
    BY <1>6, <1>7
  <2> QED BY <2>1, <1>3, Reduced
<1> HIDE DEF treeSize
<1>9. ~ fails => (file.size - treeSize) % Wrap \in Nat
  BY <1>3, <1>8, SMT
<1>10. (file.size - area) % Wrap \in Nat
  BY <1>3, <1>4, Reduced
<1>11. TypeOK'
  <2>1. db' \in [nodeCount : Nat, recordBytes : {0, 6, 7, 8}, data : Nat, dataSize : Nat,
                 metadata : Nat, metadataSize : Nat]
    <3>1. CASE fails
      BY <3>1, <1>2 DEF FileInv, TypeOK
    <3>2. CASE ~ fails
      <4>1. area + MarkerLength \in Nat
        BY <1>3, <1>4
      <4> DEFINE d == (file.size - treeSize) % Wrap
                 s == (file.size - area) % Wrap
      <4>2. d \in Nat /\ s \in Nat
        BY <3>2, <1>9, <1>10
      <4> HIDE DEF d, s
      <4>3. db' = [nodeCount |-> nodeCount, recordBytes |-> bytes, data |-> treeSize,
                   dataSize |-> d, metadata |-> area + MarkerLength, metadataSize |-> s]
        BY <3>2, <1>2 DEF d, s
      <4> QED BY <4>1, <4>2, <4>3, <3>2, <1>6, <1>7, <1>8
    <3> QED BY <3>1, <3>2
  <2> QED BY <2>1, <1>1, <1>2 DEF FileInv, TypeOK
<1>12. Opening'
  BY <1>1, <1>2 DEF FileInv, Opening
<1>13. ASSUME NEW m \in DOMAIN file.metadata, WellFormed(file, m)
       PROVE  OpenedRight(file, m)' /\ ReadRight(file, m)'
  <2> DEFINE c == Len(file.tree)
             b == NodeLength(file.bits)
  <2>1. area = m
    BY <1>13, <1>1 DEF FileInv, OpenedRight
  <2>2. Behind.nodeCount = c /\ Behind.recordSize = file.bits /\ file.bits < ShortWrap /\ c > 0
    BY <2>1, <1>13 DEF WellFormed, Behind
  <2>3. file.bits \in {24, 28, 32} /\ c \in Nat
    BY <1>1, FileFacts
  <2>4. /\ b \in {6, 7, 8} /\ c * b \in Nat /\ c * b + 8 <= m
        /\ m \in Nat /\ m < file.size /\ file.size < Wrap
    BY <1>1, <1>13, SizesFit
  <2> HIDE DEF c, b
  <2>5. c <= c * b
    BY <2>3, <2>4
  <2>6. nodeCount = c
    <3>1. c < Wrap
      BY <2>3, <2>4, <2>5, <1>3
    <3> QED BY <3>1, <2>2, <2>3, <1>3, Reduced DEF nodeCount, ValueForKey
  <2>7. recordSize = file.bits
    BY <2>2, <2>3, <1>3, Reduced DEF recordSize, ValueForKey
  <2>8. bytes = b
    BY <2>7, <2>3, SMT DEF bytes, FullRecordBytes, b, NodeLength
  <2>9. treeSize = c * b
    <3> DEFINE z == c * b
    <3>1. z \in Nat /\ z < Wrap
      BY <2>4, <1>3
    <3>2. treeSize = z % Wrap
      BY <2>6, <2>8 DEF treeSize
    <3> HIDE DEF z
    <3>3. treeSize = z
      BY <3>1, <3>2, <1>3, Reduced
    <3> QED BY <3>3 DEF z
  <2>10. (file.size - treeSize) % Wrap = file.size - c * b
    <3> DEFINE z == file.size - c * b
    <3>1. z \in Nat /\ z < Wrap
      BY <2>4, <1>3
    <3> HIDE DEF z
    <3>2. z % Wrap = z
      BY <3>1, <1>3, Reduced
    <3> QED BY <3>2, <2>9 DEF z
  <2>11. (file.size - area) % Wrap = file.size - m
    <3> DEFINE z == file.size - m
    <3>1. z \in Nat /\ z < Wrap
      BY <2>4, <1>3
    <3> HIDE DEF z
    <3>2. z % Wrap = z
      BY <3>1, <1>3, Reduced
    <3> QED BY <3>2, <2>1 DEF z
  <2>12. ~ fails
    BY <2>2, <2>3, <2>6, <2>7
  <2>13. sizes = Sizes(file, m)
    BY <2>1, <2>6, <2>8, <2>9, <2>10, <2>11 DEF Sizes, c, b
  <2>14. OpenedRight(file, m)'
    BY <2>12, <2>13, <1>2, <1>1 DEF OpenedRight, Sizes
  <2> QED BY <2>14, <1>1 DEF ReadRight, NoNode
<1> QED BY <1>11, <1>12, <1>13, <1>1 DEF FileInv

\* A node that exists is read where it lies, or what is behind the last one.
LEMMA ReadNodeKeeps ==
  ASSUME FileInv, NEW n \in NodeNumbers, ReadNode(n)
  PROVE  FileInv'
<1> DEFINE o == (n * db.recordBytes) % Wrap
           read == [status |-> "SUCCESS", number |-> n, at |-> o,
                    left |-> LeftRecord(Memory(file, 0), db.recordBytes, o),
                    right |-> RightRecord(Memory(file, 0), db.recordBytes, o)]
           refused == [node EXCEPT !.status = "INVALID_NODE_NUMBER", !.number = n]
<1>1. /\ file \in Files /\ file' = file /\ pc = "open" /\ pc' = pc
      /\ area' = area /\ left' = left /\ db' = db /\ field' = field
      /\ node' = IF NodeExists(n) THEN read ELSE refused
  BY DEF FileInv, Opening, ReadNode
<1>2. DOMAIN node = {"status", "number", "at", "left", "right"}
  BY DEF FileInv, Opening, NoNode
<1> HIDE DEF o
<1>3. node'.status = IF NodeExists(n) THEN "SUCCESS" ELSE "INVALID_NODE_NUMBER"
  <2>1. CASE NodeExists(n)
    BY <2>1, <1>1
  <2>2. CASE ~ NodeExists(n)
    BY <2>2, <1>1, <1>2
  <2> QED BY <2>1, <2>2
<1>4. DOMAIN node' = DOMAIN NoNode
  <2>1. DOMAIN NoNode = {"status", "number", "at", "left", "right"}
    BY DEF NoNode
  <2>2. DOMAIN read = {"status", "number", "at", "left", "right"}
    OBVIOUS
  <2>3. DOMAIN refused = DOMAIN node
    OBVIOUS
  <2> QED BY <2>1, <2>2, <2>3, <1>1, <1>2
<1>5. TypeOK'
  BY <1>1, <1>3 DEF FileInv, TypeOK
<1>6. Opening'
  BY <1>1, <1>4 DEF Opening
<1>7. ASSUME NEW m \in DOMAIN file.metadata, WellFormed(file, m)
      PROVE  OpenedRight(file, m)' /\ ReadRight(file, m)'
  <2>1. db = Sizes(file, m)
    BY <1>1, <1>7 DEF FileInv, OpenedRight
  <2>2. db.nodeCount = Len(file.tree) /\ db.recordBytes = NodeLength(file.bits)
    BY <2>1 DEF Sizes
  <2>3. OpenedRight(file, m)'
    BY <1>1, <1>7 DEF FileInv, OpenedRight
  <2>4. CASE ~ NodeExists(n)
    <3>1. node'.status # "SUCCESS"
      BY <2>4, <1>3
    <3> QED BY <3>1, <2>3 DEF ReadRight
  <2>5. CASE NodeExists(n)
    <3> DEFINE b == NodeLength(file.bits)
               c == Len(file.tree)
    <3>1. n \in Nat /\ c \in Nat /\ Wrap \in Nat \ {0}
      <4>1. Wrap \in Nat \ {0} /\ c \in Nat
        BY <1>1, FileFacts
      <4> HIDE DEF c
      <4>2. NodeNumbers \subseteq 0 .. Wrap - 1
        BY FilesAssumption
      <4> QED BY <4>1, <4>2
    <3>2. n \in 0 .. c
      <4>1. n <= c
        BY <2>2, <2>5 DEF NodeExists
      <4> HIDE DEF c
      <4> QED BY <4>1, <3>1
    <3>3. n * b \in Nat /\ n * b < Wrap
      <4>1. n * b \in Nat /\ n * b <= c * b /\ c * b \in Nat /\ c * b + 8 <= m
            /\ m \in Nat /\ m < file.size /\ file.size < Wrap
        BY <1>1, <1>7, <3>2, SizesFit
      <4>2. file.size \in Nat
        BY <1>1, FileFacts
      <4> DEFINE x == n * b
                 y == c * b
      <4> HIDE DEF x, y
      <4>3. x \in Nat /\ x <= y /\ y \in Nat /\ y + 8 <= m
        BY <4>1 DEF x, y
      <4>4. x < Wrap
        BY <4>1, <4>2, <4>3, <3>1
      <4> QED BY <4>1, <4>4 DEF x
    <3>4. o = n * b
      <4> DEFINE x == n * b
      <4> HIDE DEF x
      <4>1. x \in Nat /\ x < Wrap
        BY <3>3 DEF x
      <4>2. o = x % Wrap
        BY <2>2 DEF o, x
      <4>3. o = x
        BY <4>1, <4>2, <3>1, Reduced
      <4> QED BY <4>3 DEF x
    <3>5. node' = [status |-> "SUCCESS", number |-> n, at |-> n * b,
                   left |-> LeftRecord(Memory(file, 0), b, n * b),
                   right |-> RightRecord(Memory(file, 0), b, n * b)]
      BY <2>2, <2>5, <1>1, <3>4
    <3>6. ASSUME n < c
          PROVE  /\ LeftRecord(Memory(file, 0), b, n * b) = file.tree[n + 1].left
                 /\ RightRecord(Memory(file, 0), b, n * b) = file.tree[n + 1].right
      <4>1. Fits(file.tree[n + 1], file.bits)
        <5>1. n + 1 \in DOMAIN file.tree
          <6>1. file.tree \in Seq(Node)
            BY <1>1, FilesAssumption
          <6> QED BY <6>1, <3>1, <3>6
        <5> QED BY <5>1, <1>7 DEF WellFormed
      <4> QED BY <4>1, <1>1, <3>1, <3>6, RecordsRead
    <3> HIDE DEF b, c
    <3>7. /\ node'.number = n /\ node'.at = n * b
          /\ node'.left = LeftRecord(Memory(file, 0), b, n * b)
          /\ node'.right = RightRecord(Memory(file, 0), b, n * b)
      BY <3>5
    <3>8. /\ n \in 0 .. Len(file.tree)
          /\ node'.at = n * NodeLength(file.bits)
          /\ n < Len(file.tree) =>
               /\ node'.left = file.tree[n + 1].left
               /\ node'.right = file.tree[n + 1].right
      BY <3>2, <3>6, <3>7 DEF b, c
    <3> QED BY <3>7, <3>8, <2>3, <1>1 DEF ReadRight
  <2> QED BY <2>4, <2>5
<1> QED BY <1>5, <1>6, <1>7, <1>1 DEF FileInv

\* Decoding a field leaves all but its result as it was.
LEMMA ReadFieldKeeps ==
  ASSUME FileInv, NEW o \in Offsets, ReadField(o)
  PROVE  FileInv'
<1>1. /\ file' = file /\ pc' = pc /\ area' = area /\ left' = left /\ db' = db /\ node' = node
      /\ \/ field' = [NoField EXCEPT !.status = "INVALID_DATA", !.offset = o]
         \/ field' = DecodeOne(Memory(file, db.data), o)
  BY DEF ReadField
<1>2. field'.status \in {"SUCCESS", "INVALID_DATA"}
  <2>1. CASE field' = [NoField EXCEPT !.status = "INVALID_DATA", !.offset = o]
    BY <2>1 DEF NoField
  <2>2. CASE field' = DecodeOne(Memory(file, db.data), o)
    BY <2>2, DecodeStatus
  <2> QED BY <1>1, <2>1, <2>2
<1> QED BY <1>1, <1>2 DEF FileInv, TypeOK, Opening, OpenedRight, ReadRight

\* The invariant holds before the search.
LEMMA FileInvInit == Init => FileInv
<1> SUFFICES ASSUME Init PROVE FileInv
  OBVIOUS
<1>1. /\ file \in Files /\ pc = "search" /\ db = Unopened /\ node = NoNode
      /\ field = NoField
      /\ left = IF file.size > MaxBlock THEN MaxBlock ELSE file.size
      /\ area = file.size - left
  BY DEF Init
<1>2. file.size \in Nat /\ MaxBlock \in Nat
  BY <1>1, FileFacts
<1>3. /\ area \in 0 .. file.size /\ left \in 0 .. file.size /\ area + left = file.size
      /\ area <= file.size - MaxBlock \/ area = 0
      /\ area >= file.size - MaxBlock
  BY <1>1, <1>2
<1>4. TypeOK
  BY <1>1, <1>3 DEF TypeOK, Unopened, NoNode, NoField
<1>5. Opening
  BY <1>1, <1>3 DEF Opening
<1>6. \A m \in DOMAIN file.metadata : OpenedRight(file, m) /\ ReadRight(file, m)
  BY <1>1 DEF OpenedRight, ReadRight, NoNode
<1> QED BY <1>4, <1>5, <1>6 DEF FileInv

\* Every step keeps the invariant.
LEMMA FileInvStep == FileInv /\ [Next]_vars => FileInv'
<1> SUFFICES ASSUME FileInv, [Next]_vars PROVE FileInv'
  OBVIOUS
<1>1. CASE Search
  BY <1>1, SearchKeeps
<1>2. CASE ReadMetadata
  BY <1>2, ReadMetadataKeeps
<1>3. CASE \E n \in NodeNumbers : ReadNode(n)
  BY <1>3, ReadNodeKeeps
<1>5. CASE \E o \in Offsets : ReadField(o)
  BY <1>5, ReadFieldKeeps
<1>4. CASE UNCHANGED vars
  <2>1. file' = file /\ pc' = pc /\ area' = area /\ left' = left /\ db' = db
        /\ node' = node /\ field' = field
    BY <1>4 DEF vars
  <2> QED BY <2>1 DEF FileInv, TypeOK, Opening, OpenedRight, ReadRight
<1> QED BY <1>1, <1>2, <1>3, <1>4, <1>5 DEF Next

\* The invariant holds in every state of DatabaseFile.
THEOREM FileInvariant == Spec => []FileInv
BY FileInvInit, FileInvStep, PTL DEF Spec

-----------------------------------------------------------------------------
(* Fields.                                                                 *)

FieldRight(f) ==
  (field.status # "NONE" /\ field.offset \in DOMAIN f.data)
    => /\ DecodedAs(field, f.data[field.offset], field.offset)
       /\ ValueKept(field, f.data[field.offset])

FieldInv == \A m \in DOMAIN file.metadata : WellFormed(file, m) => FieldRight(file)

\* The bytes of a field lie where it was put, from the end of the tree on.
LEMMA FieldInMemory ==
  ASSUME NEW f \in Files, NEW m \in DOMAIN f.metadata, WellFormed(f, m),
         NEW o \in DOMAIN f.data
  PROVE  \A i \in 0 .. FieldLength(f.data[o]) - 1 :
           Memory(f, TreeLength(f))[o + i] = FieldByte(f.data[o], i)
<1> DEFINE d == f.data[o]
           tree == TreeLength(f)
           b == NodeLength(f.bits)
           c == Len(f.tree)
<1>1. o \in Nat /\ d \in Field /\ \A s \in DOMAIN f.data : s \in Nat /\ f.data[s] \in Field
  BY FilesAssumption
<1>2. /\ \A s \in DOMAIN f.data : FieldFits(f.data[s])
      /\ \A s, t \in DOMAIN f.data : s < t => s + FieldLength(f.data[s]) <= t
  BY DEF WellFormed, DataFits
<1>3. \A s \in DOMAIN f.data : FieldLength(f.data[s]) \in Nat
  BY <1>1, <1>2, FieldLengths
<1>4. HeaderLength(d) \in 1 .. 5 /\ HeaderLength(d) <= FieldLength(d)
  BY <1>1, <1>2, FieldLengths
<1>5. b \in {6, 7, 8} /\ c \in Nat /\ tree = c * b
  BY SizesFit, FileFacts DEF TreeLength
<1> HIDE DEF d, tree, b, c
<1> SUFFICES ASSUME NEW i \in 0 .. FieldLength(d) - 1
             PROVE  Memory(f, tree)[o + i] = FieldByte(d, i)
  BY DEF d, tree
<1>6. tree \in Nat
  BY <1>5
<1>7. i \in Nat /\ i < FieldLength(d) /\ o + i \in Nat
  <2>1. FieldLength(d) \in Nat
    BY <1>3 DEF d
  <2> QED BY <1>1, <1>4, <2>1
<1>8. Memory(f, tree)[o + i] = Byte(f, tree + (o + i))
  BY <1>7 DEF Memory
<1>9. Byte(f, tree + (o + i)) = DataByte(f, o + i)
  <2> DEFINE x == o + i
  <2>1. x \in Nat
    BY <1>7
  <2> HIDE DEF x
  <2>2. ~ ((tree + x) \div b < c) /\ (tree + x) - tree = x
    <3>1. CASE b = 6
      BY <3>1, <2>1, <1>5, SMT
    <3>2. CASE b = 7
      BY <3>2, <2>1, <1>5, SMT
    <3>3. CASE b = 8
      BY <3>3, <2>1, <1>5, SMT
    <3> QED BY <3>1, <3>2, <3>3, <1>5
  <2>3. Byte(f, tree + x) = DataByte(f, x)
    BY <2>2 DEF Byte, tree, b, c
  <2> QED BY <2>3 DEF x
<1>10. DataByte(f, o + i) = FieldByte(d, i)
  <2> DEFINE Covers(s) == s <= o + i /\ o + i < s + FieldLength(f.data[s])
  <2>1. Covers(o)
    <3>1. FieldLength(d) \in Nat
      BY <1>3 DEF d
    <3>2. o <= o + i /\ o + i < o + FieldLength(d)
      BY <3>1, <1>1, <1>7
    <3> QED BY <3>2 DEF d
  <2>2. ASSUME NEW s \in DOMAIN f.data, Covers(s) PROVE s = o
    <3>1. s \in Nat /\ FieldLength(f.data[s]) \in Nat /\ FieldLength(d) \in Nat
      BY <1>1, <1>3 DEF d
    <3>2. s < o => s + FieldLength(f.data[s]) <= o
      BY <1>2
    <3>3. o < s => o + FieldLength(d) <= s
      BY <1>2 DEF d
    <3> QED BY <3>1, <3>2, <3>3, <2>2, <1>1, <1>7
  <2>3. (CHOOSE s \in DOMAIN f.data : Covers(s)) = o
    <3> HIDE DEF Covers
    <3> QED BY <2>1, <2>2
  <2>4. (o + i) - o = i
    BY <1>1, <1>7
  <2> QED BY <2>1, <2>3, <2>4 DEF DataByte, d
<1> QED BY <1>8, <1>9, <1>10

\* So do those of its header, and of the integer behind it.
LEMMA PartsInMemory ==
  ASSUME NEW f \in Files, NEW m \in DOMAIN f.metadata, WellFormed(f, m),
         NEW o \in DOMAIN f.data
  PROVE  LET d == f.data[o]
             mem == Memory(f, TreeLength(f))
         IN  /\ Stored(d, mem, o)
             /\ d.type \notin {Pointer, Map, Array, Boolean}
                  => PayloadStored(d, mem, o + HeaderLength(d))
<1> DEFINE d == f.data[o]
           mem == Memory(f, TreeLength(f))
           h == HeaderLength(d)
           n == d.size
<1>1. \A i \in 0 .. FieldLength(d) - 1 : mem[o + i] = FieldByte(d, i)
  BY FieldInMemory
<1>2. o \in Nat /\ d \in Field /\ FieldFits(d)
  BY FilesAssumption DEF WellFormed, DataFits
<1>3. h \in 1 .. 5 /\ FieldLength(d) \in Nat /\ h <= FieldLength(d) /\ n \in Nat
  BY <1>2, FieldLengths DEF Field
<1> HIDE DEF d, mem, h, n
<1>4. ASSUME NEW i \in 0 .. h - 1 PROVE mem[o + i] = HeaderByte(d, i)
  <2>1. i \in 0 .. FieldLength(d) - 1 /\ i < h
    BY <1>3
  <2> QED BY <1>1, <2>1 DEF FieldByte, h
<1>5. ASSUME d.type \notin {Pointer, Map, Array, Boolean}, NEW i \in 0 .. n - 1
      PROVE  mem[(o + h) + i] = PayloadByte(d, n - 1 - i)
  <2>1. FieldLength(d) = h + n
    BY <1>5 DEF FieldLength, PayloadLength, h, n
  <2>2. /\ h + i \in 0 .. FieldLength(d) - 1 /\ ~ (h + i < h)
        /\ o + (h + i) = (o + h) + i /\ FieldLength(d) - 1 - (h + i) = n - 1 - i
    BY <1>2, <1>3, <2>1
  <2>3. mem[o + (h + i)] = FieldByte(d, h + i)
    BY <1>1, <2>2
  <2>4. FieldByte(d, h + i) = PayloadByte(d, FieldLength(d) - 1 - (h + i))
    BY <2>2 DEF FieldByte, h
  <2> QED BY <2>2, <2>3, <2>4
<1> QED BY <1>4, <1>5 DEF Stored, PayloadStored, d, mem, h, n

\* A field of a file of the format is decoded as it was packed.
LEMMA ReadFieldRight ==
  ASSUME FileInv, NEW o \in Offsets, ReadField(o)
  PROVE  FieldInv'
<1> SUFFICES ASSUME NEW m \in DOMAIN file.metadata, WellFormed(file, m)
             PROVE  FieldRight(file)'
  BY DEF FieldInv, ReadField
<1>1. file \in Files /\ file' = file /\ pc = "open" /\ db = Sizes(file, m)
  BY DEF FileInv, Opening, OpenedRight, ReadField
<1> DEFINE tree == TreeLength(file)
<1>2. /\ db.data = tree /\ db.dataSize = file.size - tree
      /\ tree \in Nat /\ m \in Nat /\ m < file.size /\ file.size \in Nat /\ file.size < Wrap
      /\ Wrap \in Nat \ {0}
  BY <1>1, SizesFit, FileFacts DEF Sizes, TreeLength
<1> HIDE DEF tree
<1>3. field'.offset = o
  <2>1. /\ o > db.dataSize => field' = [NoField EXCEPT !.status = "INVALID_DATA", !.offset = o]
        /\ ~ (o > db.dataSize) => field' = DecodeOne(Memory(file, db.data), o)
    BY DEF ReadField
  <2>2. DecodeOne(Memory(file, db.data), o).offset = o
    BY DecodeOffset
  <2> QED BY <2>1, <2>2 DEF NoField
<1> SUFFICES ASSUME o \in DOMAIN file.data
             PROVE  DecodedAs(field', file.data[o], o) /\ ValueKept(field', file.data[o])
  BY <1>1, <1>3 DEF FieldRight
<1> DEFINE d == file.data[o]
<1>4. o \in Nat /\ d \in Field
  BY <1>1, FilesAssumption
<1>5. FieldFits(d) /\ tree + o + FieldLength(d) <= m
  BY DEF WellFormed, DataFits, tree
<1>6. FieldLength(d) \in Nat
  BY <1>4, <1>5, FieldLengths
<1> HIDE DEF d
<1>7. ~ (o > file.size - tree) /\ o + FieldLength(d) < Wrap
  BY <1>2, <1>4, <1>5, <1>6
<1>8. field' = DecodeOne(Memory(file, tree), o)
  BY <1>2, <1>7 DEF ReadField
<1>9. /\ Stored(d, Memory(file, tree), o)
      /\ d.type \notin {Pointer, Map, Array, Boolean}
           => PayloadStored(d, Memory(file, tree), o + HeaderLength(d))
  BY <1>1, PartsInMemory DEF d, tree
<1>10. /\ DecodedAs(DecodeOne(Memory(file, tree), o), d, o)
       /\ ValueKept(DecodeOne(Memory(file, tree), o), d)
  BY <1>4, <1>5, <1>7, <1>9, FieldDecoded, ValueDecoded
<1> QED BY <1>8, <1>10 DEF d

\* What was decoded last is right in every state.
LEMMA FieldInvariant == Spec => []FieldInv
<1>1. Init => FieldInv
  BY DEF Init, FieldInv, FieldRight, NoField
<1>2. FileInv /\ FieldInv /\ [Next]_vars => FieldInv'
  <2> SUFFICES ASSUME FileInv, FieldInv, [Next]_vars PROVE FieldInv'
    OBVIOUS
  <2>1. CASE \E o \in Offsets : ReadField(o)
    BY <2>1, ReadFieldRight
  <2>2. CASE file' = file /\ field' = field
    BY <2>2 DEF FieldInv, FieldRight
  <2>3. (\E o \in Offsets : ReadField(o)) \/ (file' = file /\ field' = field)
    BY DEF Next, Search, ReadMetadata, ReadNode, vars
  <2> QED BY <2>1, <2>2, <2>3
<1> QED BY <1>1, <1>2, FileInvariant, PTL DEF Spec

-----------------------------------------------------------------------------
(* The properties.                                                         *)

\* Every variable of find_metadata() and MMDB_open() keeps its type, and the search
\* area lies in the file, for every file.
THEOREM FileTypes == Spec => []TypeOK
<1>1. FileInv => TypeOK
  BY DEF FileInv
<1> QED BY <1>1, FileInvariant, PTL

\* MMDB_open() finds the sections of every file of the format where they lie.
THEOREM SectionsFound == Spec => []SectionsAsWritten
<1>1. FileInv => SectionsAsWritten
  <2> SUFFICES ASSUME FileInv, NEW m \in DOMAIN file.metadata, WellFormed(file, m)
               PROVE  /\ pc # "failed"
                      /\ pc = "open" =>
                           /\ db.data = Len(file.tree) * NodeLength(file.bits)
                           /\ db.data + db.dataSize = file.size
                           /\ db.metadata = m + MarkerLength
                           /\ db.metadata + db.metadataSize = file.size + MarkerLength
    BY DEF SectionsAsWritten, TreeLength
  <2>1. file \in Files /\ pc # "failed" /\ (pc = "open" => db = Sizes(file, m))
    BY DEF FileInv, Opening, OpenedRight
  <2> DEFINE z == Len(file.tree) * NodeLength(file.bits)
  <2>2. z \in Nat /\ m \in Nat /\ file.size \in Nat /\ MarkerLength \in Nat
    BY <2>1, SizesFit, FileFacts
  <2>3. pc = "open" => /\ db.data = z /\ db.dataSize = file.size - z
                       /\ db.metadata = m + MarkerLength /\ db.metadataSize = file.size - m
    BY <2>1 DEF Sizes
  <2> HIDE DEF z
  <2>4. pc = "open" => /\ db.data = z
                       /\ db.data + db.dataSize = file.size
                       /\ db.metadata = m + MarkerLength
                       /\ db.metadata + db.metadataSize = file.size + MarkerLength
    BY <2>2, <2>3
  <2> QED BY <2>1, <2>4 DEF z
<1> QED BY <1>1, FileInvariant, PTL

\* MMDB_read_node() reads the two records that were packed into a node, for every
\* size of a record and every value that fits it.
THEOREM RecordsFound == Spec => []RecordsAsWritten
<1>1. FileInv => RecordsAsWritten
  BY DEF FileInv, ReadRight, RecordsAsWritten
<1> QED BY <1>1, FileInvariant, PTL

\* No node number that MMDB_read_node() accepts reads beyond a file of the format.
THEOREM NodesInFile == Spec => []NodesStayInFile
<1>1. FileInv => NodesStayInFile
  <2> SUFFICES ASSUME FileInv, NEW m \in DOMAIN file.metadata, WellFormed(file, m),
                      node.status = "SUCCESS"
               PROVE  node.at + NodeLength(file.bits) <= m
    BY DEF NodesStayInFile
  <2>1. /\ file \in Files
        /\ node.number \in 0 .. Len(file.tree)
        /\ node.at = node.number * NodeLength(file.bits)
    BY DEF FileInv, Opening, ReadRight
  <2> DEFINE b == NodeLength(file.bits)
             z == Len(file.tree) * b
             x == node.number * b
  <2>2. /\ b \in {6, 7, 8} /\ z \in Nat /\ z + 8 <= m /\ m \in Nat
        /\ x \in Nat /\ x <= z
    BY <2>1, SizesFit
  <2>3. node.at = x
    BY <2>1
  <2> HIDE DEF b, z, x
  <2>4. x + b <= m
    BY <2>2
  <2> QED BY <2>3, <2>4 DEF b
<1> QED BY <1>1, FileInvariant, PTL

\* decode_one() decodes every field of a file of the format as it was packed: its
\* type, its size or pointer, and where the next field begins.
THEOREM FieldsFound == Spec => []FieldsAsWritten
<1>1. FieldInv => FieldsAsWritten
  BY DEF FieldInv, FieldRight, FieldsAsWritten, DecodedAs
<1> QED BY <1>1, FieldInvariant, PTL

\* decode_one() decodes every number of a file of the format, whatever its type, its
\* number of bytes and its sign, to the value it was packed with or, if it is negative
\* and has one to three bytes, to that value without its sign.
THEOREM ValuesFound == Spec => []ValuesAsWritten
<1>1. FieldInv => ValuesAsWritten
  BY DEF FieldInv, FieldRight, ValuesAsWritten, ValueKept, SignedAs
<1> QED BY <1>1, FieldInvariant, PTL
=============================================================================
