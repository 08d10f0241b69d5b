----------------------------- MODULE Mmdblookup -----------------------------
(***************************************************************************)
(* The command line tool src/libmaxminddb/bin/mmdblookup.c as a client of  *)
(* the library: it opens a file, looks one address up (or many at random), *)
(* decodes the entry or the value at a path, and dumps it.  The decoder is *)
(* EntryData, step by step; opening a file and looking an address up are   *)
(* modelled by MMDBHandle and LookupThreads and are only their outcomes    *)
(* here.                                                                   *)
(***************************************************************************)
EXTENDS EntryData

CONSTANTS
  Inputs,  \* pairs of a data section and a command line
  Answer,  \* what a lookup yields for each address
  NoIp,    \* NULL, for a command line without an address
  NoEntry  \* an answer without an entry

VARIABLES
  args,    \* the command line
  pc,      \* where the program is
  mapped,  \* the file is open
  turn,    \* iterations of the benchmark that are left
  code     \* the exit code, or "none"

programVars == <<args, pc, mapped, turn, code>>
vars == <<entryVars, programVars>>

\* An entry is an offset of the data section, and so is what a pointer points to;
\* what stands for no entry is none. A path is made of texts.
ASSUME ProgramAssumption ==
  /\ NoIp \notin DOMAIN Answer /\ NoEntry \notin Nat
  /\ \A ip \in DOMAIN Answer :
       Answer[ip] \in [gai : BOOLEAN, error : BOOLEAN, v4 : BOOLEAN,
                       entry : (Nat \ {0}) \cup {NoEntry}]
  /\ \A input \in Inputs :
       LET sec == input.section
       IN  /\ input.args.path \in Seq(DOMAIN Number)
           /\ Len(sec) \in Nat /\ DOMAIN sec = 1 .. Len(sec)
           /\ \A o \in 1 .. Len(sec) :
                sec[o].size \in Nat /\ sec[o].cells \in Nat /\ sec[o].pointer \in Nat

Init ==
  /\ \E input \in Inputs : section = input.section /\ args = input.args
  /\ at = "idle" /\ status = "SUCCESS"
  /\ path = <<>> /\ entry = ZeroEntry
  /\ call = [offset |-> 0, node |-> 0] /\ frames = <<>>
  /\ nodes = <<>> /\ heap = {}
  /\ cursor = 0 /\ printed = <<>>
  /\ starved = FALSE
  /\ pc = "options" /\ mapped = FALSE /\ turn = 0 /\ code = "none"

Exit(c) == pc' = "exit" /\ code' = c

\* get_options(): how the program ends before it opens a file.
EarlyExit ==
  IF args.help \/ args.version THEN "0"
  ELSE IF ~ args.file \/ (args.ip = NoIp /\ args.benchmark = 0) THEN "1"
  ELSE "none"

\* The copy of the lookup path is not tested for NULL.
GetOptions ==
  /\ pc = "options"
  /\ \/ EarlyExit # "none" /\ Exit(EarlyExit) /\ UNCHANGED at
     \/ EarlyExit = "none" /\ pc' = "open" /\ UNCHANGED <<at, code>>
     \/ EarlyExit = "none" /\ at' = "crashed" /\ UNCHANGED <<pc, code>>
  /\ UNCHANGED <<section, status, getVars, listVars, dumpVars, frames, starved,
                 args, mapped, turn>>

\* open_or_die() and dump_meta(), which prints what there is. MMDB_open() is taken to
\* return, or to read NULL (MMDBHandle); dump_meta() does not test what gmtime() makes
\* of the build epoch.
OpenOrDie ==
  /\ pc = "open"
  /\ \/ Exit("2") /\ UNCHANGED <<at, mapped, turn>>
     \/ /\ mapped' = TRUE
        /\ pc' = IF args.benchmark = 0 THEN "lookup" ELSE "benchmark"
        /\ turn' = args.benchmark
        /\ UNCHANGED <<at, code>>
     \/ at' = "crashed" /\ UNCHANGED <<pc, mapped, turn, code>>
  /\ UNCHANGED <<section, status, getVars, listVars, dumpVars, frames, starved, args>>

\* lookup_or_die(): an error of getaddrinfo() comes before one of the library, and
\* either ends the program.
LookupOrDie(ip, found, missing) ==
  LET answer == Answer[ip]
  IN  \/ answer.gai /\ Exit("3") /\ UNCHANGED <<entryVars, mapped, turn>>
      \/ ~ answer.gai /\ answer.error /\ Exit("4")
           /\ UNCHANGED <<entryVars, mapped, turn>>
      \/ ~ answer.gai /\ ~ answer.error /\ answer.entry # NoEntry /\ found
      \/ ~ answer.gai /\ ~ answer.error /\ answer.entry = NoEntry /\ missing

\* lookup_and_print() up to the decoding of the entry.
Lookup ==
  /\ pc = "lookup"
  /\ LookupOrDie(args.ip,
       /\ IF args.path = <<>>
          THEN CallGetList(Answer[args.ip].entry) /\ pc' = "list"
          ELSE CallGetValue(Answer[args.ip].entry, args.path) /\ pc' = "value"
       /\ UNCHANGED <<mapped, turn, code>>,
       /\ pc' = "end" /\ code' = "6"
       /\ UNCHANGED <<entryVars, mapped, turn>>)
  /\ UNCHANGED args

\* The status is not looked at.
ValueFound_slip ==
  /\ pc = "value" /\ at = "idle"
  /\ \/ /\ entry.offset # 0
        /\ CallGetList(entry.offset)
        /\ pc' = "list"
        /\ UNCHANGED code
     \/ /\ entry.offset = 0
        /\ pc' = "end" /\ code' = "0"
        /\ UNCHANGED entryVars
  /\ UNCHANGED <<args, mapped, turn>>

\* The list begins at the field found, not at the pointer to it. An offset of 0,
\* for which the code prints that nothing was found, is in the separator: a success
\* with it would be a deadlock here.
ValueFound ==
  /\ pc = "value" /\ at = "idle"
  /\ \/ /\ status = "SUCCESS" /\ entry.offset # 0
        /\ CallGetList(entry.offset)
        /\ pc' = "list"
        /\ UNCHANGED code
     \/ /\ status # "SUCCESS"
        /\ pc' = "end" /\ code' = "5"
        /\ UNCHANGED entryVars
  /\ UNCHANGED <<args, mapped, turn>>

ListDone ==
  /\ pc = "list" /\ at = "idle"
  /\ IF status = "SUCCESS"
     THEN CallDump /\ pc' = "dump" /\ UNCHANGED code
     ELSE pc' = "end" /\ code' = "5" /\ UNCHANGED entryVars
  /\ UNCHANGED <<args, mapped, turn>>

\* What MMDB_dump_entry_data_list() returns is not looked at.
DumpDone ==
  /\ pc = "dump" /\ at = "idle"
  /\ pc' = "end" /\ code' = "0"
  /\ UNCHANGED <<entryVars, args, mapped, turn>>

\* A list that is too long to be freed.
FreeOverflow ==
  /\ ~ FreeFits
  /\ at' = "crashed"
  /\ UNCHANGED <<heap, pc, mapped, turn, code>>

\* The label `end` of lookup_and_print().
End ==
  /\ pc = "end"
  /\ \/ /\ FreeList
        /\ mapped' = FALSE
        /\ pc' = "exit"
        /\ UNCHANGED <<at, turn, code>>
     \/ FreeOverflow
  /\ UNCHANGED <<section, status, getVars, call, nodes, dumpVars, frames, starved, args>>

\* benchmark(): an IPv4 address at random. A number of iterations below 0 is none.
Benchmark ==
  /\ pc = "benchmark"
  /\ \/ /\ turn <= 0
        /\ Exit("0")
        /\ mapped' = FALSE
        /\ UNCHANGED <<entryVars, turn>>
     \/ /\ turn > 0
        /\ \E ip \in {i \in DOMAIN Answer : Answer[i].v4} :
             LookupOrDie(ip,
               /\ CallGetList(Answer[ip].entry)
               /\ pc' = "benchmark_list"
               /\ UNCHANGED <<mapped, turn, code>>,
               turn' = turn - 1 /\ UNCHANGED <<entryVars, pc, mapped, code>>)
  /\ UNCHANGED args

\* On an error the list is left as it is.
BenchmarkListDone_slip ==
  /\ pc = "benchmark_list" /\ at = "idle"
  /\ IF status = "SUCCESS"
     THEN FreeList /\ pc' = "benchmark" /\ turn' = turn - 1 /\ UNCHANGED <<mapped, code>>
     ELSE Exit("5") /\ mapped' = FALSE /\ UNCHANGED <<turn, heap>>
  /\ UNCHANGED <<section, at, status, getVars, call, nodes, dumpVars, frames, starved,
                 args>>

BenchmarkListDone ==
  /\ pc = "benchmark_list" /\ at = "idle"
  /\ \/ /\ FreeList
        /\ IF status = "SUCCESS"
           THEN pc' = "benchmark" /\ turn' = turn - 1 /\ UNCHANGED <<mapped, code>>
           ELSE Exit("5") /\ mapped' = FALSE /\ UNCHANGED turn
        /\ UNCHANGED at
     \/ FreeOverflow
  /\ UNCHANGED <<section, status, getVars, call, nodes, dumpVars, frames, starved, args>>

Ended == pc = "exit" \/ at = "crashed"

Step ==
  \/ GetOptions \/ OpenOrDie \/ Lookup \/ ValueFound \/ ListDone \/ DumpDone \/ End
  \/ Benchmark \/ BenchmarkListDone
  \/ LibraryStep /\ UNCHANGED programVars

Next ==
  \/ ~ Ended /\ Step
  \/ Ended /\ UNCHANGED vars

\* The program is a single thread that runs.
Spec == Init /\ [][Next]_vars /\ WF_vars(~ Ended /\ Step)

-----------------------------------------------------------------------------
(* Properties of the lists and of what is given back.                      *)

\* Every variable stays within its type, no link leads out of the list, and the
\* dump reads no NULL at its end: a list has all the nodes its sizes announce, also
\* when the section is not legal.
TypeOK ==
  /\ pc \in {"options", "open", "lookup", "value", "list", "dump", "benchmark",
             "benchmark_list", "end", "exit"}
  /\ at \in {"idle", "descend", "enter", "chase", "element", "return", "dump",
             "member", "crashed"}
  /\ status \in {"SUCCESS", "INVALID_DATA", "INVALID_LOOKUP_PATH",
                 "LOOKUP_PATH_DOES_NOT_MATCH", "OUT_OF_MEMORY"}
  /\ code \in {"none", "0", "1", "2", "3", "4", "5", "6"}
  /\ Len(nodes) <= MaxNodes /\ heap \subseteq 1 .. Len(nodes)
  /\ \A n \in DOMAIN nodes : nodes[n].next \in 0 .. Len(nodes)
  /\ cursor \in 0 .. Len(nodes) /\ (at = "dump" => cursor # 0)

\* At every moment, also while a list is built and after an allocation failed in
\* the middle of it, each node allocated can be reached from the head, which is
\* all that freeing the list has to go by.
NoNodeLost == pc # "exit" => heap = {List[i] : i \in DOMAIN List} \/ heap = {}

\* Once the program has returned from lookup_and_print() or benchmark(), with
\* whatever code, all lists are freed and the file is closed.
ReturnsEverything ==
  (pc = "exit" /\ code \notin {"3", "4"}) => heap = {} /\ ~ mapped
=============================================================================
