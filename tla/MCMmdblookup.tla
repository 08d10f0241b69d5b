---------------------------- MODULE MCMmdblookup ----------------------------
(***************************************************************************)
(* Instances of MmdblookupValues for TLC.                                  *)
(***************************************************************************)
EXTENDS MmdblookupValues

Field(type, size, cells, value) ==
  [type |-> type, size |-> size, cells |-> cells, value |-> value, pointer |-> 0]
Str(text) == Field("string", 0, 1, text)
Num == Field("number", 0, 2, "n")
Bytes == Field("bytes", 0, 2, "x")
Map(n) == Field("map", n, 1, "none")
Arr(n) == Field("array", n, 1, "none")
Bad == Field("bad", 0, 1, "none")
Other == Field("other", 0, 1, "none")
Ptr(o) == [Field("pointer", 0, 1, "none") EXCEPT !.pointer = o]
\* A pointer as wide as one to a far offset.
Far(o) == [Ptr(o) EXCEPT !.cells = 2]

\* Every section of four cells, legal or not: what is inside of a number, behind
\* the section or the target of a pointer can be anything.
SmallSections ==
  LET cells == {Str("a"), Str("b"), Num, Bad, Map(1), Arr(2), Ptr(1), Ptr(2), Ptr(3)}
  IN  {s \o <<Str("a")>> : s \in [1 .. 4 -> cells]}

\* Longer ones, legal but for the last three: nested maps and arrays before and
\* behind the value looked for, empty ones, pointers as keys and to values,
\* to containers and between containers, equal keys; and a key that is no string,
\* a map that contains itself, a type that does not exist.
Documents ==
  { <<Map(2), Str("b"), Map(1), Str("a"), Arr(2), Num, Num, Str("x"),
      Str("a"), Num, Num, Bad>>,
    <<Arr(3), Arr(2), Map(1), Str("a"), Num, Num, Str("x"), Map(0),
      Arr(1), Str("b"), Bad>>,
    <<Map(2), Str("b"), Far(8), Bad, Ptr(9), Ptr(8), Bad, Map(1), Str("a"), Str("x"),
      Bad>>,
    <<Map(2), Ptr(7), Arr(2), Ptr(7), Ptr(9), Ptr(8), Str("b"), Str("a"), Map(1),
      Str("a"), Ptr(10), Num, Num, Bad>>,
    <<Map(2), Str("b"), Ptr(6), Str("a"), Ptr(7), Arr(2), Map(1), Str("a"), Str("x"),
      Str("b"), Bad>>,
    <<Map(2), Str("a"), Str("x"), Str("a"), Str("b"), Bad>>,
    <<Arr(3), Bytes, Bad, Bytes, Bad, Str("b"), Bad>>,
    <<Map(1), Map(1), Str("a"), Str("b"), Str("x"), Bad>>,
    <<Arr(2), Str("a"), Map(1), Str("b"), Ptr(1), Bad>>,
    <<Arr(2), Str("a"), Other, Bad>> }

Numbers ==
  [text \in {"a", "b", "", "0", "1", "2", "-1", "1x", "17", "-huge"} |->
     [value |-> CASE text \in {"1", "1x"} -> 1 [] text = "2" -> 2
                  [] text = "-1" -> -1 [] text = "17" -> 17
                  [] text = "-huge" -> -32 [] OTHER -> 0,
      junk |-> text \in {"a", "b", "1x"}, overflow |-> text = "-huge"]]

Answers ==
  [ip \in {"found", "bad_address", "rejected", "missing", "found6"} |->
     [gai |-> ip = "bad_address", error |-> ip = "rejected", v4 |-> ip # "found6",
      entry |-> CASE ip = "found" -> 1 [] ip = "found6" -> 3 [] OTHER -> NoEntry]]

Plain ==
  [help |-> FALSE, version |-> FALSE, file |-> TRUE, ip |-> "found", benchmark |-> 0,
   path |-> <<>>]

Input(sections, commands) == [section : sections, args : commands]

PathsTo(n, texts) == UNION {[1 .. m -> texts] : m \in 0 .. n}

CommandLines ==
  { [Plain EXCEPT !.help = TRUE], [Plain EXCEPT !.version = TRUE],
    [Plain EXCEPT !.file = FALSE], [Plain EXCEPT !.ip = NoIp] }
    \cup {[Plain EXCEPT !.ip = i] : i \in DOMAIN Answers}
    \cup {[Plain EXCEPT !.ip = i, !.benchmark = n] : i \in {NoIp, "found6"}, n \in {-1, 1, 2}}

AllInputs ==
  Input(SmallSections, {[Plain EXCEPT !.path = p] :
                          p \in {<<>>, <<"a">>, <<"1">>}})
    \cup Input(Documents, {[Plain EXCEPT !.path = p] : p \in PathsTo(3, DOMAIN Numbers)})
    \cup Input(Documents, CommandLines)
=============================================================================
