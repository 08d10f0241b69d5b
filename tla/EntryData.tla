------------------------------ MODULE EntryData ------------------------------
(***************************************************************************)
(* The data section decoder of src/libmaxminddb/src/maxminddb.c: the value *)
(* at a lookup path (MMDB_aget_value), the list of all fields of an entry  *)
(* (MMDB_get_entry_data_list, MMDB_free_entry_data_list), and the dump of  *)
(* such a list (MMDB_dump_entry_data_list).                                *)
(*                                                                         *)
(* A section is a sequence: section[o] is what the bytes from offset o on  *)
(* decode to, so what lies inside of a longer field decodes to something   *)
(* too.  Offsets begin at 1, after the separator, and the last element is  *)
(* what lies at the offset that equals the size of the section: decode_one *)
(* reads it, and what is there is no longer part of the section.           *)
(*                                                                         *)
(* Each step is a turn of one of the loops or a call or return of one of   *)
(* the recursive functions; every allocation can fail.                     *)
(***************************************************************************)
EXTENDS Integers, Sequences

CONSTANTS
  Number,      \* what strtol() makes of a path element: its value, whether text is
               \* left behind the number, and whether it is out of the range of a long
  IntModulus,  \* 2^32 in the code: what an int array index is reduced by
  MaxNodes,    \* no list gets longer: memory is exhausted then
  MaxCalls     \* no more calls wait for each other: the stack is exhausted then

ASSUME EntryAssumption ==
  /\ \A text \in DOMAIN Number : 
       Number[text] \in [value : Int, junk : BOOLEAN, overflow : BOOLEAN]
  /\ IntModulus \in Nat \ {0}
  /\ MaxNodes \in Nat \ {0} /\ MaxCalls \in Nat \ {0}

VARIABLES
  section,  \* the data section of the open file
  at,       \* where the call of the library is; "idle" when none is under way
  status,   \* what the last call returned
  path,     \* what MMDB_aget_value() has still to follow of its path
  entry,    \* its entry_data
  call,     \* the offset and the node of a call of get_entry_data_list()
  frames,   \* its callers up to MMDB_get_entry_data_list(), or those of a dump
  nodes,    \* nodes of the list in the order of their allocation
  heap,     \* those of them that are not freed
  cursor,   \* entry_data_list of the dump, 0 for NULL
  printed,  \* what has been dumped
  starved   \* history: an allocation has failed

getVars == <<path, entry>>
listVars == <<call, nodes, heap>>
dumpVars == <<cursor, printed>>
entryVars == <<section, at, status, getVars, listVars, dumpVars, frames, starved>>

-----------------------------------------------------------------------------
(* Fields. A field has a type, the number of elements or pairs of a map or *)
(* an array, the cells up to the next field (for a map or an array: to its *)
(* contents), and a value; a pointer has the offset it points to.  The     *)
(* type "bad" stands for an integer or a float of a size decode_one()      *)
(* rejects, "other" for a type it knows nothing of.                        *)

Decodes(o) == o \in DOMAIN section /\ section[o].type # "bad"

ZeroEntry ==
  [type |-> "none", size |-> 0, value |-> "none", pointer |-> 0, offset |-> 0,
   next |-> 0]

\* decode_one() of a field it accepts (DataField has its bytes). The data_size of a
\* number, which it leaves as it was, is taken as 0.
EntryAt(o) ==
  [type |-> section[o].type, size |-> section[o].size, value |-> section[o].value,
   pointer |-> section[o].pointer, offset |-> o, next |-> o + section[o].cells]

IsCompound(e) == e.type \in {"map", "array"}

\* decode_one_follow(): one pointer is followed; a simple value is left behind the
\* pointer, a compound one at its contents.
FollowDecodes(o) ==
  Decodes(o) /\ (section[o].type = "pointer" => Decodes(section[o].pointer))

\* With the field after the pointer taken from where the pointer points to.
FollowedAt_slip(o) ==
  IF section[o].type = "pointer" THEN EntryAt(section[o].pointer) ELSE EntryAt(o)

FollowedAt(o) ==
  IF section[o].type # "pointer" THEN EntryAt(o)
  ELSE LET target == EntryAt(section[o].pointer)
       IN  IF IsCompound(target) THEN target
           ELSE [target EXCEPT !.next = EntryAt(o).next]

\* skip_map_or_array(), from the offset of a value to the offset behind it, or
\* NoOffset when it cannot be decoded; S is what its recursive calls yield. Pointers
\* are not followed, and of a key only the field itself is skipped.
NoOffset == 0

SkipField(o, S) ==
  LET e == EntryAt(o)
      From(p) == IF p \in DOMAIN section THEN S[p] ELSE NoOffset
      BehindKey(p) == IF Decodes(p) THEN From(EntryAt(p).next) ELSE NoOffset
      Behind[n \in 0 .. e.size] ==
        IF n = 0 THEN e.next
        ELSE IF e.type = "map" THEN BehindKey(Behind[n - 1]) ELSE From(Behind[n - 1])
  IN  IF ~ Decodes(o) THEN NoOffset ELSE IF IsCompound(e) THEN Behind[e.size] ELSE e.next

\* With d calls in each other. A call begins behind the one it is made from, so
\* there are never more of them than cells.
Skip[d \in Nat] ==
  [o \in DOMAIN section |-> IF d = 0 THEN NoOffset ELSE SkipField(o, Skip[d - 1])]

SkipValue(o) ==
  IF o \in DOMAIN section THEN Skip[2 * Len(section)][o] ELSE NoOffset

-----------------------------------------------------------------------------
(* MMDB_aget_value().                                                      *)

Return(s) == at' = "idle" /\ status' = s

\* What decode_one_follow() leaves in the cleared entry when it fails: a field it
\* rejects has got its offset and type, and one outside of the section nothing.
FailedEntry(o) ==
  LET p == IF Decodes(o) THEN section[o].pointer ELSE o
      before == IF Decodes(o) THEN EntryAt(o) ELSE ZeroEntry
  IN  IF p \in DOMAIN section
      THEN [before EXCEPT !.offset = p, !.type = section[p].type]
      ELSE before

\* An error in the loop clears the entry.
FailLookup(s) == Return(s) /\ entry' = ZeroEntry /\ path' = <<>>

CallGetValue(o, p) ==
  /\ path' = p
  /\ IF FollowDecodes(o)
     THEN entry' = FollowedAt(o) /\ at' = "descend" /\ UNCHANGED status
     ELSE entry' = FailedEntry(o) /\ Return("INVALID_DATA")
  /\ UNCHANGED <<section, listVars, dumpVars, frames, starved>>

\* The long that strtol() returns is stored in an int.
ToInt(n) ==
  ((n + (IntModulus \div 2)) % IntModulus) - (IntModulus \div 2)

\* The value at offset o becomes the entry, and the next path element is due.
Descend(o) ==
  IF FollowDecodes(o)
  THEN entry' = FollowedAt(o) /\ path' = Tail(path) /\ UNCHANGED <<at, status>>
  ELSE FailLookup("INVALID_DATA")

\* The elements in front of an index are skipped, pointers without being followed.
BehindElements(index) ==
  LET After[n \in 0 .. index] ==
        IF n = 0 THEN entry.next ELSE SkipValue(After[n - 1])
  IN  After[index]

IsInvalid(index) == index < 0 \/ Number[Head(path)].overflow

NoElement(index) == Number[Head(path)].junk \/ index >= entry.size

LookupInArray ==
  LET index == ToInt(Number[Head(path)].value)
  IN  /\ at = "descend" /\ path # <<>> /\ entry.type = "array"
      /\ CASE IsInvalid(index) -> FailLookup("INVALID_LOOKUP_PATH")
           [] ~ IsInvalid(index) /\ NoElement(index) ->
                FailLookup("LOOKUP_PATH_DOES_NOT_MATCH")
           [] OTHER            -> Descend(BehindElements(index))
      /\ UNCHANGED <<section, listVars, dumpVars, frames, starved>>

\* One turn of the loop of lookup_path_in_map(): the entry stays the map, its
\* size and next count down what is left of it.
LookupInMap ==
  LET key == FollowedAt(entry.next)
      next == SkipValue(key.next)
  IN  /\ at = "descend" /\ path # <<>> /\ entry.type = "map"
      /\ \/ entry.size = 0 /\ FailLookup("LOOKUP_PATH_DOES_NOT_MATCH")
         \/ /\ entry.size # 0
            /\ ~ FollowDecodes(entry.next) \/ key.type # "string"
            /\ FailLookup("INVALID_DATA")
         \/ /\ entry.size # 0 /\ FollowDecodes(entry.next) /\ key.type = "string"
            /\ CASE key.value = Head(path) -> Descend(key.next)
                 [] key.value # Head(path) /\ next = NoOffset -> FailLookup("INVALID_DATA")
                 [] OTHER ->
                      /\ entry' = [entry EXCEPT !.size = @ - 1, !.next = next]
                      /\ UNCHANGED <<path, at, status>>
      /\ UNCHANGED <<section, listVars, dumpVars, frames, starved>>

LookupInSimple ==
  /\ at = "descend" /\ path # <<>> /\ ~ IsCompound(entry)
  /\ FailLookup("LOOKUP_PATH_DOES_NOT_MATCH")
  /\ UNCHANGED <<section, listVars, dumpVars, frames, starved>>

EndOfPath ==
  /\ at = "descend" /\ path = <<>>
  /\ Return("SUCCESS")
  /\ UNCHANGED <<section, getVars, listVars, dumpVars, frames, starved>>

GetValueStep == LookupInArray \/ LookupInMap \/ LookupInSimple \/ EndOfPath

-----------------------------------------------------------------------------
(* MMDB_get_entry_data_list().  A frame is a call of get_entry_data_list() *)
(* that waits for another: at a pointer, or in the loop of an array or map *)
(* with `left` fields to come (a pair counts as two, its key and its value *)
(* are treated alike), of which the next one is at offset `next` and is    *)
(* appended to the node `previous`.                                        *)

Push(f) == frames' = <<f>> \o frames
Pop == frames' = Tail(frames)

Inside(e) ==
  CASE e.type = "map" -> 2 * e.size [] e.type = "array" -> e.size [] OTHER -> 0

\* The tail is not looked for.
LastNode_slip(n) == n

\* The last node of the list from node n on.
LastNode(n) ==
  LET Last[i \in DOMAIN nodes] ==
        IF nodes[i].next = 0 THEN i ELSE Last[nodes[i].next]
  IN  Last[n]

Starve == Return("OUT_OF_MEMORY") /\ starved' = TRUE

\* The link points behind the node.
Link_slip(previous, n) ==
  [i \in 1 .. Len(nodes) |->
     IF i = previous THEN [nodes[i] EXCEPT !.next = n + 1] ELSE nodes[i]]
  \o <<[entry |-> ZeroEntry, next |-> 0]>>

\* calloc() of a node that is linked to the node `previous`, or to nothing.
Link(previous, n) ==
  [i \in 1 .. Len(nodes) |->
     IF i = previous THEN [nodes[i] EXCEPT !.next = n] ELSE nodes[i]]
  \o <<[entry |-> ZeroEntry, next |-> 0]>>

CallGetList(o) ==
  /\ \/ /\ nodes' = <<[entry |-> ZeroEntry, next |-> 0]>>
        /\ heap' = heap \cup {1}
        /\ call' = [offset |-> o, node |-> 1]
        /\ at' = "enter"
        /\ UNCHANGED <<status, starved>>
     \/ Starve /\ nodes' = <<>> /\ UNCHANGED <<call, heap>>
  /\ frames' = <<>>
  /\ UNCHANGED <<section, getVars, dumpVars>>

Enter ==
  LET e == EntryAt(call.offset)
      frame == [at |-> IF e.type = "pointer" THEN "pointer" ELSE "elements",
                node |-> call.node, previous |-> call.node, child |-> call.node,
                left |-> Inside(e), next |-> e.next]
  IN  /\ at = "enter" /\ Len(frames) < MaxCalls
      /\ IF Decodes(call.offset)
         THEN /\ nodes' = [nodes EXCEPT ![call.node].entry = e]
              /\ IF e.type = "pointer" \/ IsCompound(e)
                 THEN Push(frame) ELSE UNCHANGED frames
              /\ at' = CASE e.type = "pointer" -> "chase"
                         [] IsCompound(e)      -> "element"
                         [] OTHER              -> "return"
              /\ UNCHANGED status
         ELSE Return("INVALID_DATA") /\ UNCHANGED <<nodes, frames>>
      /\ UNCHANGED <<section, getVars, call, heap, dumpVars, starved>>

\* Calls in each other, as many as there are containers and pointers around a field:
\* one that contains itself has them go on until the stack ends, and the process.
Overflow ==
  /\ at = "enter" /\ Len(frames) >= MaxCalls
  /\ at' = "crashed"
  /\ UNCHANGED <<section, status, getVars, listVars, dumpVars, frames, starved>>

\* The field just decoded is decoded again.
ChaseTarget_slip(n) == nodes[n].entry.offset
ChaseTarget(n) == nodes[n].entry.pointer

\* A turn of the loop over pointers; after the last one a map or an array is
\* entered again, into the same node.
Chase ==
  LET n == call.node
      target == ChaseTarget(n)
  IN  /\ at = "chase"
      /\ IF Decodes(target)
         THEN /\ nodes' = [nodes EXCEPT ![n].entry = EntryAt(target)]
              /\ at' = CASE section[target].type = "pointer" -> "chase"
                         [] IsCompound(section[target])      -> "enter"
                         [] OTHER                            -> "return"
              /\ call' = [call EXCEPT !.offset = target]
              /\ UNCHANGED status
         ELSE Return("INVALID_DATA") /\ UNCHANGED <<nodes, call>>
      /\ UNCHANGED <<section, getVars, heap, dumpVars, frames, starved>>

\* The loop of an array or a map: another node, or the end of the call.
Element ==
  LET f == Head(frames)
      n == Len(nodes) + 1
  IN  /\ at = "element"
      /\ \/ /\ f.left = 0
            /\ nodes' = [nodes EXCEPT ![f.node].entry.next = f.next]
            /\ Pop
            /\ at' = "return"
            /\ call' = [call EXCEPT !.node = f.node]
            /\ UNCHANGED <<heap, status, starved>>
         \/ /\ f.left > 0 /\ n <= MaxNodes
            /\ nodes' = Link(f.previous, n)
            /\ heap' = heap \cup {n}
            /\ frames' = [frames EXCEPT ![1].left = @ - 1, ![1].child = n]
            /\ call' = [offset |-> f.next, node |-> n]
            /\ at' = "enter"
            /\ UNCHANGED <<status, starved>>
         \/ /\ f.left > 0
            /\ nodes' = [nodes EXCEPT ![f.previous].next = 0]
            /\ Starve
            /\ UNCHANGED <<heap, call, frames>>
      /\ UNCHANGED <<section, getVars, dumpVars>>

\* What follows a pointer is behind what it points to.
BehindPointer_slip(f) == nodes[f.node].entry.next
BehindPointer(f) == f.next

\* A call returns to the one that waits for it.
Returned ==
  LET f == Head(frames)
  IN  /\ at = "return"
      /\ \/ /\ frames = <<>>
            /\ Return("SUCCESS")
            /\ UNCHANGED <<nodes, frames>>
         \/ /\ frames # <<>> /\ f.at = "pointer"
            /\ nodes' = [nodes EXCEPT ![f.node].entry.next = BehindPointer(f)]
            /\ Pop
            /\ UNCHANGED <<at, status>>
         \/ /\ frames # <<>> /\ f.at = "elements"
            /\ frames' = [frames EXCEPT ![1].next = nodes[f.child].entry.next,
                                        ![1].previous = LastNode(@)]
            /\ at' = "element"
            /\ UNCHANGED <<nodes, status>>
      /\ UNCHANGED <<section, getVars, call, heap, dumpVars, starved>>

GetListStep == Enter \/ Overflow \/ Chase \/ Element \/ Returned

\* The nodes reached from node n, in their order.
Chain(n) ==
  LET From[i \in 0 .. Len(nodes)] ==
        IF i = 0 THEN <<>> ELSE <<i>> \o From[nodes[i].next]
  IN  From[n]

List == IF nodes = <<>> THEN <<>> ELSE Chain(1)

\* MMDB_free_entry_data_list(), of the head or of NULL, calls itself for each node
\* that follows. MaxCalls bounds these calls, too.
FreeFits == Len(List) <= MaxCalls
FreeList == FreeFits /\ heap' = heap \ {List[i] : i \in 1 .. Len(List)}

-----------------------------------------------------------------------------
(* MMDB_dump_entry_data_list().  A frame is the loop of a map or an array  *)
(* with `left` pairs or elements to come.  What is printed is a sequence   *)
(* of brackets and values, wording and indentation left out.               *)

Emit(token) == printed' = Append(printed, token)

CallDump ==
  /\ cursor' = 1
  /\ frames' = <<>>
  /\ at' = "dump"
  /\ UNCHANGED <<section, status, getVars, listVars, printed, starved>>

NextNode(n) == nodes[n].next

\* dump_entry_data_list() of the node at the cursor, up to its loop. The cursor is
\* read without a test for NULL, and bytes_to_hex() writes to what malloc() returned,
\* unless there are no bytes. Its calls are fewer than those that built the list.
DumpField ==
  LET e == nodes[cursor].entry
  IN  /\ at = "dump"
      /\ \/ /\ IsCompound(e)
            /\ Emit(e.type)
            /\ Push([type |-> e.type, left |-> e.size])
            /\ cursor' = NextNode(cursor)
            /\ at' = "member"
            /\ UNCHANGED <<status, starved>>
         \/ /\ e.type \in {"string", "bytes", "number"}
            /\ Emit(e.value)
            /\ cursor' = NextNode(cursor)
            /\ at' = "member"
            /\ UNCHANGED <<frames, status, starved>>
         \/ /\ e.type \in {"string", "bytes"}
            /\ Starve
            /\ UNCHANGED <<cursor, printed, frames>>
         \/ /\ e.type = "bytes"
            /\ at' = "crashed"
            /\ UNCHANGED <<cursor, printed, frames, status, starved>>
         \/ /\ e.type = "other"
            /\ Return("INVALID_DATA")
            /\ UNCHANGED <<cursor, printed, frames, starved>>
      /\ UNCHANGED <<section, getVars, listVars>>

\* The loop of a map leaves a pair out.
MemberDue_slip == frames # <<>> /\ Head(frames).left > 1 /\ cursor # 0
MemberDue == frames # <<>> /\ Head(frames).left > 0 /\ cursor # 0

\* The loops: another member, whose key is printed first when it is one of a map,
\* or the closing bracket. A key that is no string is copied from the union as if
\* it were one: the process ends, or something is printed.
DumpMember ==
  LET e == nodes[cursor].entry
  IN  /\ at = "member"
      /\ \/ /\ frames = <<>>
            /\ Return("SUCCESS")
            /\ UNCHANGED <<cursor, printed, frames, starved>>
         \/ /\ frames # <<>> /\ ~ MemberDue
            /\ Emit("end")
            /\ Pop
            /\ UNCHANGED <<at, cursor, status, starved>>
         \/ /\ MemberDue /\ Head(frames).type = "array"
            /\ frames' = [frames EXCEPT ![1].left = @ - 1]
            /\ at' = "dump"
            /\ UNCHANGED <<cursor, printed, status, starved>>
         \/ /\ MemberDue /\ Head(frames).type = "map"
            /\ Emit(IF e.type = "string" THEN e.value ELSE "?")
            /\ frames' = [frames EXCEPT ![1].left = @ - 1]
            /\ cursor' = NextNode(cursor)
            /\ at' = "dump"
            /\ UNCHANGED <<status, starved>>
         \/ /\ MemberDue /\ Head(frames).type = "map"
            /\ Starve
            /\ UNCHANGED <<cursor, printed, frames>>
         \/ /\ MemberDue /\ Head(frames).type = "map" /\ e.type # "string"
            /\ at' = "crashed"
            /\ UNCHANGED <<cursor, printed, frames, status, starved>>
      /\ UNCHANGED <<section, getVars, listVars>>

DumpStep == DumpField \/ DumpMember

\* The steps a call of the library takes by itself.
LibraryStep == GetValueStep \/ GetListStep \/ DumpStep
=============================================================================
