--------------------------- MODULE MCDatabaseFile ---------------------------
(***************************************************************************)
(* Instances of DatabaseFile for TLC, with a marker of 3 bytes, a block of *)
(* 20 and sizes computed modulo 2^30.                                      *)
(***************************************************************************)
EXTENDS DatabaseFile

\* Record values around every byte, as far as the numbers of TLC reach.
Edges(bits) ==
  {0, 1, 255, 256, 65535, 65536, 16711680, 16777215}
    \cup (IF bits = 24 THEN {} ELSE {16777216, 16777217, 251658240, 268435455})
    \cup (IF bits = 32 THEN {268435456, 305419896, 2147483647} ELSE {})

Nodes(bits) == [left : Edges(bits), right : Edges(bits)]

\* The metadata ends the file, 10 bytes behind the marker.
File(tree, bits, data, padding, others) ==
  LET marker == Len(tree) * NodeLength(bits) + Separator + padding
      metadata == [nodeCount |-> Len(tree), recordSize |-> bits]
  IN  [size |-> marker + MarkerLength + 10, tree |-> tree, bits |-> bits, data |-> data,
       metadata |-> [m \in {marker} \cup DOMAIN others |->
                       IF m = marker THEN metadata ELSE others[m]]]

None == [nodeCount |-> 0, recordSize |-> 0]
Small == [nodeCount |-> 1, recordSize |-> 24]

\* Two equal nodes around the one with the records at an edge.
Trees(bits) ==
  LET other == [left |-> 65793, right |-> 131844]
  IN  {<<n>> : n \in Nodes(bits)} \cup {<<other, n, other>> : n \in Nodes(bits)}

\* A marker in the data, in or before the last block, alone or with metadata of its
\* own behind it.
Others(p) == UNION {[{m} -> {None, Small}] : m \in {20, Separator + p, Separator + 6 + p}}

FewTrees == {<<n, n>> : n \in [left : {1, 77}, right : {2}]}

\* Node counts that are too large: beyond the file, and so that the tree wraps to a
\* few bytes.
Wrapping ==
  {[nodeCount |-> 60, recordSize |-> 24],
   [nodeCount |-> (Wrap \div 8) + 1, recordSize |-> 32]}

\* Every tree with one marker; a tree with more data, with other markers, up to so
\* much data that the file size wraps; and wrong metadata or none.
TreeFiles ==
  UNION {{File(t, bits, <<>>, 0, <<>>) : t \in Trees(bits)} : bits \in {24, 28, 32}}
    \cup UNION {{File(t, bits, <<>>, p, o) : t \in FewTrees, o \in Others(p)} :
                bits \in {24, 28, 32}, p \in {16, 90, Wrap - 20}}
    \cup {[f EXCEPT !.metadata = [m \in DOMAIN f.metadata |-> v]] :
            f \in {File(t, 24, <<>>, 1, <<>>) : t \in FewTrees},
            v \in Wrapping \cup
                  {None, [Small EXCEPT !.recordSize = 20],
                   [Small EXCEPT !.recordSize = 24 + ShortWrap]}}
    \cup {[File(t, 24, <<>>, 1, <<>>) EXCEPT !.metadata = <<>>] : t \in FewTrees}

-----------------------------------------------------------------------------
(* Fields: sizes and pointers around the ends of each of their lengths and *)
(* integers of each number of bytes.                                       *)

FieldOf(type, size, value) == [type |-> type, size |-> size, value |-> value]

Pointers ==
  {FieldOf(Pointer, 0, p) :
     p \in {0, 255, 2047, 2048, 67583, 526335, 526336, 17303552, 134744063, 134744064,
            Wrap - Separator - 1, Wrap - Separator}}

Sized ==
  {FieldOf(t, n, 0) :
     t \in {Utf8String, Bytes, Map, Array},
     n \in {0, 1, 28, 29, 284, 285, 65820, 65821, 16843036}}

Unsigned ==
  {0, 1, 127, 128, 255, 256, 32768, 65535, 65536, 16777215, 16777216, 2147483647}

Numbers ==
  {FieldOf(t, n, v) : t \in {Uint16, Uint32, Uint64, Uint128},
                      n \in {0, 1, 2, 3, 4, 5, 8, 9, 16, 17}, v \in Unsigned}
    \cup {FieldOf(Int32, n, v) : n \in 0 .. 5,
            v \in Unsigned \cup {-1, -128, -129, -32768, -65537, -2147483647}}

Fixed ==
  {FieldOf(t, n, 0) : t \in {Boolean, Float, Double, EndMarker, Container},
                      n \in {0, 1, 4, 8}}

\* A field between two short ones.
Short == FieldOf(Uint16, 2, 258)
Second == Separator + FieldLength(Short)

Between(d) ==
  [o \in {Separator, Second, Second + FieldLength(d)} |-> IF o = Second THEN d ELSE Short]

FieldFile(d) ==
  File(<<[left |-> 1, right |-> 2]>>, 28, Between(d), 2 * FieldLength(Short) + FieldLength(d),
       <<>>)

FieldFiles ==
  {FieldFile(d) : d \in Pointers \cup Sized \cup Fixed \cup {e \in Numbers : ValueFits(e)}}

AllFiles == TreeFiles \cup FieldFiles

\* The separator, the first field, what lies inside of it, the second, and both sides
\* of the end of a short section.
AllOffsets == {0, 16, 17, 18, 19, 36, 37, Wrap - 1}
=============================================================================
