------------------------------ MODULE DataField ------------------------------
(***************************************************************************)
(* One field of a data section: how the MaxMind DB format packs it, and    *)
(* how decode_one() of src/libmaxminddb/src/maxminddb.c decodes it from    *)
(* its bytes: the control byte, the type of an extended field, the four    *)
(* lengths of a size and of a pointer, and the integers.                   *)
(*                                                                         *)
(* A memory is a function from offsets to bytes.  What a string or bytes   *)
(* hold and the value of a float are left out: decode_one() keeps where    *)
(* the former begin, and takes the bytes of the latter as they are.        *)
(***************************************************************************)
EXTENDS Integers, Sequences

CONSTANTS
  Separator,  \* MMDB_DATA_SECTION_SEPARATOR
  Wrap        \* 2^32, what offsets and sizes are computed in

ASSUME FieldAssumption == Separator \in Nat /\ Wrap \in Nat \ {0}

Extended == 0
Pointer == 1
Utf8String == 2
Double == 3
Bytes == 4
Uint16 == 5
Uint32 == 6
Map == 7
Int32 == 8
Uint64 == 9
Uint128 == 10
Array == 11
Container == 12
EndMarker == 13
Boolean == 14
Float == 15

IntegerTypes == {Uint16, Uint32, Int32, Uint64, Uint128}

Digit(n, weight) == (n \div weight) % 256

\* An integer without its lowest n bytes; of a negative one nothing but the sign is
\* left in the end, which is -1.
Shifted(v, n) ==
  LET Rest[k \in Nat] == IF k = 0 THEN v ELSE Rest[k - 1] \div 256
  IN  Rest[n]

-----------------------------------------------------------------------------
(* The packed field.  A field has a type; a size, which is the number of   *)
(* bytes of its payload, of the elements or pairs in a map or an array, or *)
(* the value of a boolean; and a value, which is an integer, or the offset *)
(* behind the separator that a pointer points to.                          *)

Field == [type : 1 .. 15, size : Nat, value : Int]

PointerBytes(p) ==
  CASE p < 2048 ->
         <<32 + p \div 256, Digit(p, 1)>>
    [] 2048 <= p /\ p < 526336 ->
         LET q == p - 2048
         IN  <<40 + q \div 65536, Digit(q, 256), Digit(q, 1)>>
    [] 526336 <= p /\ p < 134744064 ->
         LET q == p - 526336
         IN  <<48 + q \div 16777216, Digit(q, 65536), Digit(q, 256), Digit(q, 1)>>
    [] OTHER ->
         <<56, Digit(p, 16777216), Digit(p, 65536), Digit(p, 256), Digit(p, 1)>>

\* The low five bits of a control byte, and the bytes of a size they ask for.
SizeBits(n) ==
  CASE n < 29 -> n
    [] 29 <= n /\ n < 285 -> 29
    [] 285 <= n /\ n < 65821 -> 30
    [] OTHER -> 31

SizeBytes(n) ==
  CASE n < 29 -> <<>>
    [] 29 <= n /\ n < 285 -> <<n - 29>>
    [] 285 <= n /\ n < 65821 -> <<Digit(n - 285, 256), Digit(n - 285, 1)>>
    [] OTHER -> <<Digit(n - 65821, 65536), Digit(n - 65821, 256), Digit(n - 65821, 1)>>

TypeBytes(f) ==
  IF f.type < 8 THEN <<32 * f.type + SizeBits(f.size)>>
  ELSE <<SizeBits(f.size), f.type - 7>>

HeaderLength(f) ==
  IF f.type = Pointer THEN Len(PointerBytes(f.value))
  ELSE Len(TypeBytes(f)) + Len(SizeBytes(f.size))

HeaderByte(f, i) ==
  IF f.type = Pointer THEN PointerBytes(f.value)[i + 1]
  ELSE IF i < Len(TypeBytes(f)) THEN TypeBytes(f)[i + 1]
  ELSE SizeBytes(f.size)[i + 1 - Len(TypeBytes(f))]

PayloadLength(f) ==
  IF f.type \in {Pointer, Map, Array, Boolean} THEN 0 ELSE f.size

\* The byte of an integer that `n` other bytes follow; a negative one is stored as
\* its two's complement. What other payloads hold is left out.
PayloadByte(f, n) ==
  IF f.type \in IntegerTypes THEN Shifted(f.value, n) % 256 ELSE 0

FieldLength(f) == HeaderLength(f) + PayloadLength(f)

FieldByte(f, i) ==
  IF i < HeaderLength(f) THEN HeaderByte(f, i)
  ELSE PayloadByte(f, FieldLength(f) - 1 - i)

\* The sizes decode_one() rejects, and the format does not have.
TooLong(type, size) ==
  \/ type = Uint16 /\ size > 2
  \/ type \in {Uint32, Int32} /\ size > 4
  \/ type = Uint64 /\ size > 8
  \/ type = Uint128 /\ size > 16
  \/ type = Float /\ size # 4
  \/ type = Double /\ size # 8

\* A field the format knows.
FieldFits(d) ==
  \/ /\ d.type = Pointer
     /\ d.value \in Nat /\ Separator + d.value < Wrap /\ d.value \div 16777216 < 256
  \/ /\ d.type \notin {Pointer, Container}
     /\ d.size <= 16843036 /\ ~ TooLong(d.type, d.size)

\* The integers that can be packed into the bytes of a field. MaxMind-DB-spec.md:329
\* says of a signed one that "the left-most bit is the sign", however many bytes
\* there are; without any it is 0.
ValueFits(d) ==
  IF d.type # Int32 \/ d.size = 0 THEN Shifted(d.value, d.size) = 0
  ELSE Shifted(d.value, d.size - 1) \div 128 \in {0, -1}

\* Negative integers of one to three bytes.
IsShortNegative(d) == d.type = Int32 /\ d.size < 4 /\ d.value < 0

-----------------------------------------------------------------------------
(* Decoding.                                                               *)

\* get_uint16(), get_uint24(), get_uint32().
Get16(mem, o) == mem[o] * 256 + mem[o + 1]
Get24(mem, o) == mem[o] * 65536 + mem[o + 1] * 256 + mem[o + 2]
Get32(mem, o) == mem[o] * 16777216 + Get24(mem, o + 1)

\* `--length > 0`: the last byte is left out.
GetX_slip(mem, o, length) ==
  LET Value[n \in 0 .. length] ==
        IF n = 0 THEN 0 ELSE Value[n - 1] * 256 + mem[o + n - 1]
  IN  IF length = 0 THEN 0 ELSE Value[length - 1]

\* get_uintX() and get_uint128(): any number of bytes, the highest first.
GetX(mem, o, length) ==
  LET Value[n \in 0 .. length] ==
        IF n = 0 THEN 0 ELSE Value[n - 1] * 256 + mem[o + n - 1]
  IN  Value[length]

\* get_sintX(): the cast to int32_t makes the highest bit of four bytes a sign; to
\* fewer bytes it gives none, unlike the format.
GetSigned(mem, o, length) ==
  IF length = 4 /\ mem[o] >= 128
  THEN (mem[o] - 256) * 16777216 + Get24(mem, o + 1)
  ELSE GetX(mem, o, length)

\* The pointers of four bytes begin where those of two bytes do.
PointerAt_slip(mem, o, ctrl, psize) ==
  CASE psize = 0 -> (ctrl % 8) * 256 + mem[o]
    [] psize = 1 -> 2048 + (ctrl % 8) * 65536 + Get16(mem, o)
    [] psize = 2 -> 2048 + (ctrl % 8) * 16777216 + Get24(mem, o)
    [] psize = 3 -> Get32(mem, o)

\* get_ptr_from(), without the separator.
PointerAt(mem, o, ctrl, psize) ==
  CASE psize = 0 -> (ctrl % 8) * 256 + mem[o]
    [] psize = 1 -> 2048 + (ctrl % 8) * 65536 + Get16(mem, o)
    [] psize = 2 -> 2048 + 524288 + (ctrl % 8) * 16777216 + Get24(mem, o)
    [] psize = 3 -> Get32(mem, o)

SizeAt(mem, o, bits) ==
  CASE bits < 29 -> bits
    [] bits = 29 -> 29 + mem[o]
    [] bits = 30 -> 285 + Get16(mem, o)
    [] bits = 31 -> 65821 + Get24(mem, o)

SizeLength(bits) == IF bits < 29 THEN 0 ELSE bits - 28

\* get_ext_type().
ExtendedType(raw) == 7 + raw

\* What is stored in the union, for a payload at o.
ValueAt(mem, o, type, size) ==
  CASE type = Boolean -> IF size = 0 THEN 0 ELSE 1
    [] type \in {Uint16, Uint32, Uint64, Uint128} -> GetX(mem, o, size)
    [] type = Int32 -> GetSigned(mem, o, size)
    [] OTHER -> 0

NoField ==
  [status |-> "NONE", offset |-> 0, type |-> 0, size |-> 0, value |-> 0, next |-> 0]

\* decode_one() of the field at o into a cleared entry_data; a type without a
\* data_size leaves that at 0.
DecodeOne(mem, o) ==
  LET ctrl == mem[o]
      extended == ctrl \div 32 = Extended
      type == IF extended THEN ExtendedType(mem[o + 1]) ELSE ctrl \div 32
      o1 == IF extended THEN o + 2 ELSE o + 1
      psize == (ctrl \div 8) % 4
      size == SizeAt(mem, o1, ctrl % 32)
      o2 == o1 + SizeLength(ctrl % 32)
      Decoded(dataSize, value, next) ==
        [status |-> "SUCCESS", offset |-> o, type |-> type, size |-> dataSize,
         value |-> value, next |-> next % Wrap]
  IN  CASE type = Pointer ->
             Decoded(psize + 1, (Separator + PointerAt(mem, o1, ctrl, psize)) % Wrap,
                     o1 + psize + 1)
        [] type # Pointer /\ TooLong(type, size) ->
             [NoField EXCEPT !.status = "INVALID_DATA", !.offset = o, !.type = type]
        [] type \in {Map, Array} -> Decoded(size, 0, o2)
        [] type = Boolean -> Decoded(0, ValueAt(mem, o2, type, size), o2)
        [] OTHER ->
             Decoded(IF type \in {Utf8String, Bytes} THEN size ELSE 0,
                     ValueAt(mem, o2, type, size), o2 + size)
=============================================================================
