----------------------------- MODULE DataSection -----------------------------
(***************************************************************************)
(* What a data section means, said without the decoder: where a value      *)
(* ends, the fields it is made of, its text, and the value at a path.      *)
(* EntryData is compared with it.                                          *)
(*                                                                         *)
(* A section is a sequence of fields as in EntryData; its last element is  *)
(* what follows the section.                                               *)
(***************************************************************************)
EXTENDS Integers, Sequences

\* The number of fields a field announces.
Members(f) ==
  CASE f.type = "map" -> 2 * f.size [] f.type = "array" -> f.size [] OTHER -> 0

\* A field that lies in the section from its first to its last cell.
Whole(sec, o) == o \in DOMAIN sec /\ o + sec[o].cells <= Len(sec)

\* The field that a pointer stands for.
Target(sec, o) == IF sec[o].type = "pointer" THEN sec[o].pointer ELSE o

(* The reading of a value: whether it is legal, the offset behind it, the  *)
(* offsets of all fields it is made of, each container before what it      *)
(* holds and what a pointer leads to in the place of the pointer, and the  *)
(* same with a bracket where a container ends.                             *)

Legal(end, fields) == [legal |-> TRUE, end |-> end, fields |-> fields, text |-> fields]

Illegal == [legal |-> FALSE, end |-> 0, fields |-> <<>>, text |-> <<>>]

Bracket == 0

\* The i-th member of the map or array at o is read behind those before it, when R is
\* the reading of each; a key has to be a string.
Joined(sec, o, R, i, before) ==
  LET member == IF before.end \in DOMAIN sec THEN R[before.end] ELSE Illegal
      IsKey == sec[o].type = "map" /\ i % 2 = 1
  IN  [legal |-> /\ before.legal /\ member.legal
                 /\ IsKey => sec[Target(sec, before.end)].type = "string",
       end |-> member.end,
       fields |-> before.fields \o member.fields,
       text |-> before.text \o member.text]

\* What has been read behind the first i members.
Parts(sec, o, R) ==
  LET Part[i \in 0 .. Members(sec[o])] ==
        IF i = 0 THEN Legal(o + sec[o].cells, <<>>) ELSE Joined(sec, o, R, i, Part[i - 1])
  IN  Part

\* The reading of a field, when R is the reading of what is in it: it is not legal
\* when it is cut off, of a type or size that does not exist, a pointer to a pointer,
\* or when one of its members is not, or is a key but no string.
Read(sec, o, R) ==
  LET f == sec[o]
      members == Parts(sec, o, R)[Members(f)]
  IN  CASE ~ Whole(sec, o) \/ f.type \in {"bad", "other"} -> Illegal
        [] Whole(sec, o) /\ f.type = "pointer" ->
             IF Whole(sec, f.pointer) /\ sec[f.pointer].type # "pointer"
             THEN [R[f.pointer] EXCEPT !.end = o + f.cells] ELSE Illegal
        [] Whole(sec, o) /\ f.type \in {"map", "array"} ->
             IF members.legal
             THEN [members EXCEPT !.fields = <<o>> \o @, !.text = <<o>> \o @ \o <<Bracket>>]
             ELSE Illegal
        [] OTHER -> Legal(o + f.cells, <<o>>)

\* The readings of all offsets, of values that are nested d deep at most.
Readings(sec) ==
  LET To[d \in Nat] ==
        [o \in DOMAIN sec |-> IF d = 0 THEN Illegal ELSE Read(sec, o, To[d - 1])]
  IN  To

\* A value that does not contain itself is nested no deeper than twice the cells
\* there are.
Reading(sec) == Readings(sec)[2 * Len(sec)]

IsLegal(sec, o) == o \in DOMAIN sec /\ Reading(sec)[o].legal

\* All fields of a value.
Preorder(sec, o) ==
  LET fields == Reading(sec)[o].fields
      Item(p) == [type |-> sec[p].type, value |-> sec[p].value, size |-> sec[p].size,
                  offset |-> p]
  IN  [i \in 1 .. Len(fields) |-> Item(fields[i])]

\* The text of a value.
Text(sec, o) ==
  LET text == Reading(sec)[o].text
      Token(p) == IF p = Bracket THEN "end"
                  ELSE IF sec[p].type \in {"map", "array"} THEN sec[p].type
                  ELSE sec[p].value
  IN  [i \in 1 .. Len(text) |-> Token(text[i])]

Found(sec, o) == [error |-> "SUCCESS", offset |-> Target(sec, o)]

Fails(error) == [error |-> error, offset |-> 0]

\* The value in a container that a path element selects, which stands for a number
\* too, or the error there is instead; of two equal keys the first counts.
Select(sec, o, text, number) ==
  LET f == sec[o]
      parts == Parts(sec, o, Reading(sec))
      pairs == {i \in 0 .. f.size - 1 : sec[Target(sec, parts[2 * i].end)].value = text}
      first == CHOOSE i \in pairs : \A j \in pairs : i <= j
  IN  IF f.type = "array" /\ (number.value < 0 \/ number.overflow)
      THEN Fails("INVALID_LOOKUP_PATH")
      ELSE IF f.type = "array" /\ ~ number.junk /\ number.value < f.size
      THEN Found(sec, parts[number.value].end)
      ELSE IF f.type = "map" /\ pairs # {}
      THEN Found(sec, parts[2 * first + 1].end)
      ELSE Fails("LOOKUP_PATH_DOES_NOT_MATCH")

\* The values along a path. numbers tells the number each text stands for.
Along(sec, o, path, numbers) ==
  LET At[i \in 0 .. Len(path)] ==
        IF i = 0 THEN Found(sec, o)
        ELSE IF At[i - 1].error = "SUCCESS"
             THEN Select(sec, At[i - 1].offset, path[i], numbers[path[i]])
             ELSE At[i - 1]
  IN  At

\* The value at a path.
AtPath(sec, o, path, numbers) == Along(sec, o, path, numbers)[Len(path)]

\* Pointers that only lead to each other.
HasPointerCycle(sec) ==
  \E S \in SUBSET {o \in DOMAIN sec : sec[o].type = "pointer"} :
    S # {} /\ \A o \in S : sec[o].pointer \in S
=============================================================================
