---------------------------- MODULE DatabaseFile ----------------------------
(***************************************************************************)
(* How MMDB_open() of src/libmaxminddb/src/maxminddb.c finds the sections  *)
(* of a file, MMDB_read_node() reads the records of a node and             *)
(* decode_one() a field of the data section: the search for the metadata,  *)
(* the sizes computed from it, and the three ways two records are packed.  *)
(*                                                                         *)
(* A file begins with its tree, has fields in its data and ends with a     *)
(* marker and the metadata. Other markers may lie in its data.  What is    *)
(* behind a marker is kept as far as the sizes need it; a search tree is a *)
(* sequence of nodes, and the bytes of the tree and of the fields are      *)
(* those the format lays out.                                              *)
(***************************************************************************)
EXTENDS DataField

CONSTANTS
  Files,         \* the files that are opened
  MarkerLength,  \* 14 in the code
  MaxBlock,      \* METADATA_BLOCK_MAX_SIZE
  ShortWrap,     \* 2^16, what a record size is read in
  NodeNumbers,   \* what MMDB_read_node() is called with
  Offsets        \* what decode_one() is called with

Node == [left : Nat, right : Nat]

\* A file has a size, a tree, the number of bits of its records, fields at offsets
\* from the end of the tree, and behind each marker the metadata that is there, with
\* 0 for a value that is not.
ASSUME FilesAssumption ==
  /\ MarkerLength \in Nat \ {0} /\ MaxBlock \in Nat
  /\ Separator >= 8
  /\ ShortWrap \in Nat \ {0}
  /\ NodeNumbers \subseteq 0 .. Wrap - 1
  /\ Offsets \subseteq 0 .. Wrap - 1
  /\ \A f \in Files :
       /\ f.size \in Nat
       /\ f.tree \in Seq(Node)
       /\ f.bits \in {24, 28, 32}
       /\ \A s \in DOMAIN f.data : s \in Nat /\ f.data[s] \in Field
       /\ \A m \in DOMAIN f.metadata :
            /\ m \in Nat /\ m + MarkerLength <= f.size
            /\ f.metadata[m] \in [nodeCount : Nat, recordSize : Nat]

VARIABLES
  file,  \* the file
  pc,    \* where MMDB_open() is
  area,  \* search_area of find_metadata()
  left,  \* its max_size
  db,    \* what MMDB_open() keeps
  node,  \* the last MMDB_read_node()
  field  \* the last decode_one()

vars == <<file, pc, area, left, db, node, field>>

Unopened ==
  [nodeCount |-> 0, recordBytes |-> 0, data |-> 0, dataSize |-> 0,
   metadata |-> 0, metadataSize |-> 0]

NoNode == [status |-> "NONE", number |-> 0, at |-> 0, left |-> 0, right |-> 0]

\* find_metadata() before its loop: the last 128 kB, or all of a shorter file.
Init ==
  /\ file \in Files
  /\ pc = "search"
  /\ left = IF file.size > MaxBlock THEN MaxBlock ELSE file.size
  /\ area = file.size - left
  /\ db = Unopened
  /\ node = NoNode
  /\ field = NoField

-----------------------------------------------------------------------------
(* Opening.                                                                *)

\* mmdb_memmem(): the first marker in n bytes from offset o on.
Matches(o, n) == {m \in DOMAIN file.metadata : o <= m /\ m + MarkerLength <= o + n}
First(ms) == CHOOSE m \in ms : \A k \in ms : m <= k

\* The area keeps its size.
NarrowTo_slip(m) == area' = m /\ left' = left
NarrowTo(m) == area' = m /\ left' = left - (m - area)

\* One turn of the loop of find_metadata(). Its condition compares the match with
\* the search area the turn has just moved there, so there is no second turn.
Search ==
  LET ms == Matches(area, left)
  IN  /\ pc = "search"
      /\ IF ms = {} THEN UNCHANGED <<area, left>>
         ELSE NarrowTo(First(ms))
      /\ pc' = IF ms # {} /\ First(ms) # area' THEN "search" ELSE "metadata"
      /\ UNCHANGED <<file, db, node, field>>

\* A value of the metadata is read as an integer of a given width, whatever its
\* type is; one that is missing is 0. It is taken to be stored at least as wide as
\* it is read: of a narrower one only a part of the union would be defined.
ValueForKey(value, modulus) == value % modulus

\* The bits of one record are rounded to bytes first.
FullRecordBytes_slip(bits) == 2 * (bits \div 8)
FullRecordBytes(bits) == (bits * 2) \div 8

\* What read_metadata() reads behind the marker, or where it would be.
Behind == IF area \in DOMAIN file.metadata THEN file.metadata[area]
          ELSE [nodeCount |-> 0, recordSize |-> 0]

\* read_metadata(), as far as the tree is concerned, and the sizes.
ReadMetadata ==
  LET nodeCount == ValueForKey(Behind.nodeCount, Wrap)
      recordSize == ValueForKey(Behind.recordSize, ShortWrap)
      bytes == FullRecordBytes(recordSize)
      treeSize == (nodeCount * bytes) % Wrap
  IN  /\ pc = "metadata"
      /\ IF nodeCount = 0 \/ recordSize \notin {24, 28, 32}
         THEN pc' = "failed" /\ UNCHANGED db
         ELSE /\ pc' = "open"
              /\ db' = [nodeCount |-> nodeCount, recordBytes |-> bytes,
                        data |-> treeSize, dataSize |-> (file.size - treeSize) % Wrap,
                        metadata |-> area + MarkerLength,
                        metadataSize |-> (file.size - area) % Wrap]
      /\ UNCHANGED <<file, area, left, node, field>>

-----------------------------------------------------------------------------
(* Records. A node is packed into six, seven or eight bytes; of seven, the *)
(* one in the middle has the highest four bits of each record.             *)

Packed(n, bits) ==
  LET L(weight) == Digit(n.left, weight)
      R(weight) == Digit(n.right, weight)
  IN  CASE bits = 24 -> <<L(65536), L(256), L(1), R(65536), R(256), R(1)>>
        [] bits = 28 -> <<L(65536), L(256), L(1), 16 * L(16777216) + R(16777216),
                          R(65536), R(256), R(1)>>
        [] bits = 32 -> <<L(16777216), L(65536), L(256), L(1),
                          R(16777216), R(65536), R(256), R(1)>>

NodeLength(bits) == CASE bits = 24 -> 6 [] bits = 28 -> 7 [] bits = 32 -> 8

\* The byte at an offset from the end of the tree: a byte of the field that lies
\* there, or 0 for what is none.
DataByte(f, o) ==
  LET Holds(s) == s <= o /\ o < s + FieldLength(f.data[s])
  IN  IF \E s \in DOMAIN f.data : Holds(s)
      THEN LET s == CHOOSE s \in DOMAIN f.data : Holds(s) IN FieldByte(f.data[s], o - s)
      ELSE 0

TreeLength(f) == Len(f.tree) * NodeLength(f.bits)

Byte(f, o) ==
  LET i == o \div NodeLength(f.bits)
  IN  IF i < Len(f.tree)
      THEN Packed(f.tree[i + 1], f.bits)[(o % NodeLength(f.bits)) + 1]
      ELSE DataByte(f, o - TreeLength(f))

\* The memory from an offset of the file on.
Memory(f, start) == [o \in Nat |-> Byte(f, start + o)]

\* get_left_28_bit_record() and get_right_28_bit_record(); the mask of the latter
\* leaves four bits of the highest byte.
Left28(mem, o) == Get24(mem, o) + (mem[o + 3] \div 16) * 16777216
Right28_slip(mem, o) == (mem[o] \div 16) * 16777216 + Get24(mem, o + 1)
Right28(mem, o) == (mem[o] % 16) * 16777216 + Get24(mem, o + 1)

\* record_info_for_database(): the getters for a length of two records.
LeftRecord(mem, bytes, o) ==
  CASE bytes = 6 -> Get24(mem, o) [] bytes = 7 -> Left28(mem, o)
    [] bytes = 8 -> Get32(mem, o)
RightRecord(mem, bytes, o) ==
  CASE bytes = 6 -> Get24(mem, o + 3) [] bytes = 7 -> Right28(mem, o + 3)
    [] bytes = 8 -> Get32(mem, o + 4)

\* Any number is read.
NodeExists_slip(n) == TRUE
\* One beyond the last node is accepted, too.
NodeExists(n) == n <= db.nodeCount

ReadNode(n) ==
  LET o == (n * db.recordBytes) % Wrap
  IN  /\ pc = "open"
      /\ node' = IF NodeExists(n)
                 THEN [status |-> "SUCCESS", number |-> n, at |-> o,
                       left |-> LeftRecord(Memory(file, 0), db.recordBytes, o),
                       right |-> RightRecord(Memory(file, 0), db.recordBytes, o)]
                 ELSE [node EXCEPT !.status = "INVALID_NODE_NUMBER", !.number = n]
      /\ UNCHANGED <<file, pc, area, left, db, field>>

\* decode_one(); the offset right behind the section is accepted, too.
ReadField(o) ==
  /\ pc = "open"
  /\ field' = IF o > db.dataSize
              THEN [NoField EXCEPT !.status = "INVALID_DATA", !.offset = o]
              ELSE DecodeOne(Memory(file, db.data), o)
  /\ UNCHANGED <<file, pc, area, left, db, node>>

Next ==
  \/ Search
  \/ ReadMetadata
  \/ \E n \in NodeNumbers : ReadNode(n)
  \/ \E o \in Offsets : ReadField(o)

Spec == Init /\ [][Next]_vars

-----------------------------------------------------------------------------
(* Properties.  A file of the format has one marker in its last 128 kB,    *)
(* and behind it the metadata of its tree; the tree, the separator and the *)
(* fields lie before the marker, 32 bits hold the size, and a record and a *)
(* field fit their bits.                                                   *)

SoleMarker(f, m) ==
  /\ m \in DOMAIN f.metadata /\ m >= f.size - MaxBlock
  /\ \A k \in DOMAIN f.metadata : k >= f.size - MaxBlock => k = m

HighLimit(bits) == CASE bits = 24 -> 1 [] bits = 28 -> 16 [] bits = 32 -> 256

Fits(n, bits) ==
  /\ n.left \div 16777216 < HighLimit(bits)
  /\ n.right \div 16777216 < HighLimit(bits)

\* The fields lie in the data and do not overlap.
DataFits(f, m) ==
  \A s \in DOMAIN f.data :
    /\ Separator <= s /\ TreeLength(f) + s + FieldLength(f.data[s]) <= m
    /\ FieldFits(f.data[s])
    /\ \A t \in DOMAIN f.data :
         s < t => s + FieldLength(f.data[s]) <= t

WellFormed(f, m) ==
  /\ SoleMarker(f, m)
  /\ f.metadata[m] = [nodeCount |-> Len(f.tree), recordSize |-> f.bits]
  /\ Len(f.tree) > 0
  /\ TreeLength(f) + Separator <= m
  /\ f.size < Wrap
  /\ f.bits < ShortWrap
  /\ \A i \in DOMAIN f.tree : Fits(f.tree[i], f.bits)
  /\ DataFits(f, m)

\* Every variable stays within its type, and the search area within the file.
TypeOK ==
  /\ pc \in {"search", "metadata", "failed", "open"}
  /\ area \in 0 .. file.size /\ left \in 0 .. file.size /\ area + left = file.size
  /\ db \in [nodeCount : Nat, recordBytes : {0, 6, 7, 8}, data : Nat, dataSize : Nat,
              metadata : Nat, metadataSize : Nat]
  /\ node.status \in {"NONE", "SUCCESS", "INVALID_NODE_NUMBER"}
  /\ field.status \in {"NONE", "SUCCESS", "INVALID_DATA"}

\* A file of the format opens, and its sections are where they lie: the data right
\* behind the tree, up to the end of the file, the metadata right behind its marker.
\* The size of the metadata counts the marker, so its end is taken too far.
SectionsAsWritten ==
  \A m \in DOMAIN file.metadata : WellFormed(file, m) =>
    /\ pc # "failed"
    /\ pc = "open" =>
         /\ db.data = TreeLength(file)
         /\ db.data + db.dataSize = file.size
         /\ db.metadata = m + MarkerLength
         /\ db.metadata + db.metadataSize = file.size + MarkerLength

\* Each node of a file of the format is read with the two records that were packed
\* into it, whatever the record size is.
RecordsAsWritten ==
  \A m \in DOMAIN file.metadata :
    (/\ WellFormed(file, m)
     /\ node.status = "SUCCESS"
     /\ node.number < Len(file.tree))
    => /\ node.left = file.tree[node.number + 1].left
       /\ node.right = file.tree[node.number + 1].right

\* No node number that is accepted reads beyond a file of the format; the one behind
\* the last node reads the separator.
NodesStayInFile ==
  \A m \in DOMAIN file.metadata :
    (WellFormed(file, m) /\ node.status = "SUCCESS") =>
      node.at + NodeLength(file.bits) <= m

\* Each field of a file of the format is decoded with the type it was packed with and
\* the offset behind it; a map or an array with the number of its members, text with
\* its length, a pointer with the offset it points to, counted from the separator.
FieldsAsWritten ==
  \A m \in DOMAIN file.metadata :
    (/\ WellFormed(file, m)
     /\ field.status # "NONE"
     /\ field.offset \in DOMAIN file.data)
    => LET d == file.data[field.offset]
       IN  /\ field.status = "SUCCESS"
           /\ field.type = d.type
           /\ d.type \in {Utf8String, Bytes, Map, Array} => field.size = d.size
           /\ d.type = Pointer => field.value = Separator + d.value
           /\ field.next = field.offset
                + (IF d.type \in {Map, Array} THEN HeaderLength(d) ELSE FieldLength(d))

\* A negative number of n bytes when its sign is taken for a bit like the others.
WithoutSign(v, n) ==
  CASE n = 1 -> v + 256 [] n = 2 -> v + 65536 [] n = 3 -> v + 16777216

\* Each number of a file of the format is decoded to the value it was packed with,
\* whatever number of bytes it has. Only a negative one of fewer than four bytes loses
\* its sign, unlike the format says (MaxMind-DB-spec.md:329).
ValuesAsWritten ==
  \A m \in DOMAIN file.metadata :
    (/\ WellFormed(file, m)
     /\ field.status = "SUCCESS"
     /\ field.offset \in DOMAIN file.data)
    => LET d == file.data[field.offset]
       IN  /\ (d.type \in IntegerTypes /\ ValueFits(d))
                => field.value = IF IsShortNegative(d) THEN WithoutSign(d.value, d.size)
                                 ELSE d.value
           /\ d.type = Boolean => field.value = (IF d.size = 0 THEN 0 ELSE 1)

\* MaxMind-DB-spec.md:42: "The *last* occurrence of this string in the file marks
\* the end of the data section and the beginning of the metadata."
LastMarkerCounts ==
  pc = "open" =>
    \A m \in DOMAIN file.metadata :
      (\A k \in DOMAIN file.metadata : k <= m) => db.metadata = m + MarkerLength
=============================================================================
