-------------------------- MODULE MmdblookupValues --------------------------
(***************************************************************************)
(* What mmdblookup finds, lists and prints, compared with what the data    *)
(* section means: EntryData decodes the section step by step, DataSection  *)
(* says what it stands for.                                                *)
(***************************************************************************)
EXTENDS Mmdblookup, DataSection

(* Properties.  `Start` is the entry of the address, and a path is plain   *)
(* when no number of it is out of the range of an int.                     *)

Start == Answer[args.ip].entry

IsPlain(p) ==
  \A i \in DOMAIN p :
    Number[p[i]].overflow \/ ToInt(Number[p[i]].value) = Number[p[i]].value

Wanted == AtPath(section, Start, args.path, Number)

WantedText == Text(section, Wanted.offset)

\* The run prints the value of an address, and its data follows the format.
Sound == args.benchmark = 0 /\ IsLegal(section, Start) /\ IsPlain(args.path)

\* MMDB_aget_value() finds the value at the path: behind all elements and pairs it
\* skips, through pointers to keys, values and containers, and it tells an error
\* of the path by its name.
ValueAtPath ==
  (pc = "value" /\ at = "idle" /\ Sound) =>
    /\ status = Wanted.error
    /\ status = "SUCCESS" =>
         /\ entry.offset = Wanted.offset
         /\ entry.type = section[Wanted.offset].type
         /\ IsCompound(entry) \/ entry.value = section[Wanted.offset].value

\* The list of get_entry_data_list() holds each field of the value once, in the
\* order of the section, with the fields a pointer leads to in its place.
ListIsPreorder ==
  (pc = "list" /\ at = "idle" /\ status = "SUCCESS" /\ Sound) =>
    [i \in DOMAIN List |->
       LET e == nodes[List[i]].entry
       IN  [type |-> e.type, value |-> e.value, size |-> e.size, offset |-> e.offset]]
    = Preorder(section, Wanted.offset)

\* The dump prints the value and nothing else, as far as it gets; it takes from
\* the list just what the sizes in it announce.
PrintedIsValue ==
  (pc \in {"dump", "end"} /\ code # "5" /\ Sound) =>
    /\ Len(printed) <= Len(WantedText)
    /\ printed = SubSeq(WantedText, 1, Len(printed))
    /\ at = "idle" /\ ~ starved => printed = WantedText

\* The exit code tells what became of the one address looked up: 0 only when the
\* value is there, 5 when it is not or memory ran out, 6 when there is no entry.
ExitCodeTells ==
  (pc = "exit" /\ args.benchmark = 0 /\ code \in {"0", "5", "6"} /\ EarlyExit = "none") =>
    /\ (code = "6") <=> (Start = NoEntry)
    /\ (code = "0" /\ Sound) => Wanted.error = "SUCCESS" /\ (starved \/ printed = WantedText)
    /\ (code = "5" /\ Sound) => Wanted.error # "SUCCESS" \/ starved

\* The program ends, whatever the data is, unless a chain of pointers leads back
\* to itself, in the data or in the metadata (MMDBHandle): a value that contains
\* itself ends with the stack or the memory.
ProgramEnds == ~ HasPointerCycle(section) => <>Ended
=============================================================================
