# A verification project for node-geoip2c

geoip2c is a Node.js module that answers where an IP address is. It links the C
library libmaxminddb, which maps a MaxMind DB file into memory and looks
addresses up in it. This directory holds TLA+ modules of both, the TLC
configurations that check them and proofs for TLAPS.

`PROJECT.json` lists the components, runs, mutants, findings, hazards and
theorems, and for each definition the source lines it stands for. Line numbers
below without a file are those of `src/libmaxminddb/src/maxminddb.c`.

## The system

| component | source | state | operations | what makes it correct |
|---|---|---|---|---|
| Node binding | `src/src/binding.cpp` | five global `MMDB_s`, of which one (`mmdbCountry`) is never opened; the locals of a running `lookupIp()` | `load`, `lookupIp`, `unload` | a section reads only its own entry; what was loaded is given back; a failure is reported; the masks ask for what they name |
| Handle | 195-336, 363-621, 1537-1606 | pointers and counts of an `MMDB_s`, heap blocks, the mapping | `MMDB_open`, `MMDB_close` | nothing is leaked, lost or freed twice on any path; an open handle is usable |
| Address lookup | 623-869 | the mapped tree (read only), `ipv4_start_node` (a cache, written without a lock), the locals of each thread | `MMDB_lookup_string`, `MMDB_lookup_sockaddr` | the entry and the netmask are those of the address, for every tree and interleaving; reads stay inside the tree; the walk ends |
| Record getters | 800-822, 871-903, `maxminddb-compat-util.h` | none | 24, 28, 32 bit records, `MMDB_read_node` | the number packed in the file is the number read; no node behind the file is |
| Metadata | 225-262, 338-361, 447-494 | the search area, then the sections of a handle | `find_metadata`, `read_metadata`, `value_for_key_as_*` | the sections are where they lie; sizes do not wrap |
| Data section decoder | 905-1535, 1613-1800 | the result list of a call | `decode_one`, `MMDB_aget_value`, `MMDB_get_entry_data_list`, `MMDB_free_entry_data_list`, `MMDB_dump_entry_data_list` | a field is decoded as it was packed; a path yields the value at it; the list and the dump hold the value and nothing else; no node of a list is lost |
| mmdblookup | `bin/mmdblookup.c` | its arguments, the open file, one list | the command line tool | everything is given back; the exit code is true; it ends |
| Tests, examples, build | `src/tests`, `libmaxminddb/t` | none | none | they use the library and define nothing of it |

The binding calls the library synchronously on the JavaScript thread, so inside
one Node.js process calls do not overlap. The library itself promises to be
thread safe (`doc/libmaxminddb.md:813`, tests `t/threads_t.c`), and its one
shared mutable state is the start node cache. A lookup yields an offset of the
data section, which the decoder takes; the metadata is such a section, too.

The hard behaviours: the data race on that cache; the paths on which opening
fails half way; the sequences of load, failed load and unload; the one local
`mmdb_result` that five sections of `lookupIp()` use in turn; the boundaries of
the tree walk (a walk that starts in the middle, records equal to the node
count, cycles); sizes computed in 32 bits; the bytes at the ends of each length
of a record, a size or a pointer; where the decoder goes on behind a pointer or
a nested container; and an allocation that fails in the middle of a list. The
`hazards` of `PROJECT.json` give the line of each.

## Modules

| module | models |
|---|---|
| `SearchTree` | the tree of a file as a function, and as operators what a lookup has to answer |
| `LookupThreads` | threads in `MMDB_lookup_string()` / `MMDB_lookup_sockaddr()` |
| `AtomicLookup` | the abstract specification: a call is answered in one step from the tree alone |
| `MMDBHandle` | `MMDB_open()` and `MMDB_close()` with their allocations and mapping |
| `DataField` | one field in bytes: how the format packs it, and `decode_one()` |
| `DatabaseFile` (extends `DataField`) | how `MMDB_open()` finds the sections of a file, `MMDB_read_node()`, `decode_one()` on a file |
| `DataSection` | what a section of decoded fields means: the abstract side of the decoder |
| `EntryData` | value at a path, list of fields, dump, step by step |
| `Mmdblookup` (extends `EntryData`) | the command line program as a client of the decoder |
| `MmdblookupValues` (extends `Mmdblookup`, `DataSection`) | what the program finds, lists and prints, compared with what the section means |
| `Binding` | `load()`, `lookupIp()`, `unload()` |
| `Facts_proofs` | lemmas that other proofs rest on: least numbers, sums, functions computed step by step, sequences inside of sequences |
| `LookupThreads_proofs` (with `SearchTree`), `MMDBHandle_proofs`, `DatabaseFile_proofs` (with `DataField`), `DataSection_proofs`, `Mmdblookup_proofs`, `MmdblookupValues_proofs`, `Binding_proofs` | lemmas and theorems |
| `MCLookup`, `MCHandle`, `MCDatabaseFile`, `MCMmdblookup`, `MCBinding` | instances for TLC |

An operator called `X_slip` is `X` with a mistake that a change of the code could
make. No specification uses it; putting it in place of `X` must make the
property violated that `PROJECT.json` names with it.

### LookupThreads and AtomicLookup

A thread's call goes `called`, then either `walk` from the root or, for an IPv4
address in an IPv6 file, through `find_ipv4_start_node()`: one step tests
`node_value`, `scan` steps follow left records, two steps store the two members
of the cache, one copies the struct. The two stores are plain C stores, so they
happen in either order (`store` leads to `store_mask` or `store_value`). Each
`walk` step is one turn of the loop over `current_bit`. A record is a number, its
packed form is left to `DatabaseFile`; the address widths are constants (32 and
128 in the code), so small instances have the same spine, start bit and netmask
arithmetic. `settled` is a history variable: the cache was complete when the call
began.

`AtomicLookup` has no cache: a call, one answer, a return. The refinement mapping
makes `phase` of `pc`, `reply` of the answer and `exposed` of `~ OutsideRace(t)`,
which holds for an IPv4 address in an IPv6 file whose call began before the cache
was complete, while there are other threads. Only such a call may be answered with
another entry than the tree's: that is how far the promise of thread safety is
kept (`StepsAreAtomic`). With fairness, every call is also answered
(`ImplementsAtomic`).

### MMDBHandle

Each call of `malloc`, `strdup` or `mmap` that can fail is a choice. The steps
follow the code from `cleanup` label to `cleanup` label, and `free_mmdb_struct()`
is one step that frees what the pointers and counts reach. A block is named by what
it holds, so a leak is a block left in `heap` and a count that is wrong is a block
not reached. `maps` is the address space all handles share, with addresses
handed out again. A file is its metadata keys; the values are inputs, missing
ones 0 as `value_for_key_as_uint*` returns them. A failed allocation inside the
list of entries is a NULL pointer that is read (`StartList`, `ShortList`): the
process ends, and nothing happens after that (`Running`). A language, or a key or
value of the descriptions, may be a pointer that leads back to itself; then
`MMDB_get_entry_data_list()`, which `MMDB_open()` calls for either, goes round in the
loop at 1357-1362, and the handle stays at `chasing`, unless an allocation before
it failed. An entry that contains itself ends with the stack, as in `EntryData`, and
is left out here. Reopening an open struct is modelled in `Binding`.

### DataField and DatabaseFile

These two are about bytes. The first half of `DataField` is the format's layout
of a field (`HeaderByte`, `PayloadByte`), which only files use; the second half is
`decode_one()` with `get_ptr_from()` and the integer getters, over a memory that
is a function from offsets to bytes. A control byte that says `extended`, the four
lengths of a size, the four of a pointer and the order of the early returns are
those of the code. Masks and shifts of a byte are `\div` and `%` by powers of two.
`ValueFits` says which integers the format can pack into how many bytes: as
`MaxMind-DB-spec.md:323-343` has it, an int32 of any number of bytes has its sign in
the first bit of them, in two's complement. `GetSigned` is what the code makes of
these bytes, which is something else for one to three of them, and
`ValuesAsWritten` says so.

A file of `DatabaseFile` is its tree, the fields in its data with their offsets, and
the markers with what is behind each. `Byte` lays these out; `Search` is a turn of
the loop of `find_metadata()`, `ReadMetadata` is `read_metadata()` as far as the
tree is concerned together with the sizes `MMDB_open()` computes from it modulo
2^32 (`Wrap`). Then `ReadNode` and `ReadField` are called with any of the
numbers and offsets. The properties say `WellFormed` of a file that follows the
format; what the code does with others is modelled, too.

### DataSection, EntryData and Mmdblookup

A section is here a sequence of what the bytes decode to, one element for each
offset, so that a reader at a wrong offset gets something else. `DataSection`
says what each offset stands for by a `Reading`: whether the value there is legal,
where it ends, the fields it is made of in order, and its text. The reading of a
container joins those of its members (`Parts`), the reading of a pointer is that of
its target with the end of the pointer. Readings are functions over offsets, made for
one level of nesting after the other (`Readings`), so that no operator recurses; a
value that does not contain itself is nested no deeper than twice the cells there are
(a container and a pointer to it for each), so `Reading` stops there, and what is
not read by then is not legal. `Select` and `Along` are the value at a path.

`EntryData` has the loops: a pair of a map or an index of an array at a time for
`MMDB_aget_value()`; for `get_entry_data_list()` a stack of frames, each a recursive
call that waits, and a list whose links are set as the code sets them; for the dump
a stack of the loops it is in. `skip_map_or_array()` changes no state: `SkipField`
is its body, and `Skip` is that body with a number of calls in each other. A call
begins behind the field it is made for, so the code never makes more of them than
there are cells, and the bound of twice as many takes nothing away; that a very deep
nesting could end the stack there is left out. Every allocation may fail; the memory
is bounded by `MaxNodes`. The stack is bounded by `MaxCalls`: a list of a container
that contains itself, or of one nested that deep, ends with the process
(`Overflow`), and so does freeing a list that is longer, since
`MMDB_free_entry_data_list()` calls itself for each node (`FreeFits`). A call that
fails leaves the entry as `decode_one()` left it (`FailedEntry`). Of bytes of length
0, what is printed when `malloc()` returned NULL or a block of no bytes is left out;
both are a value printed, an error or a crash here.

`Mmdblookup` runs these from its exit paths: options, open, look up, value, list,
dump, end, and the benchmark loop. Opening may end the process: `MMDB_open()` may
read NULL, and `dump_meta()` hands `strftime()` what `gmtime()` returns for any
build epoch, NULL included. That `MMDB_open()` returns is taken from `MMDBHandle`.
What the program prints is a sequence of brackets and values. `MmdblookupValues`
brings in `DataSection` and says, of an entry that is legal and a path whose numbers
an `int` holds (`Sound`), that what is found, listed and printed is what the section
means.

### Binding

Every call runs to its end before the next. `load()` goes through the five keys in
order; each `MMDB_open()` succeeds or fails. `lookupIp()` goes through the same
keys: a search step (one for country and city together), then a step that reads
the fields of the mask through `mmdb_result`. The step has one error path, the
type test of the string macro. What the library answers is a constant: for each
database and address a status or an entry, and for an entry the type of each field.
`mapped` counts the files a struct has mapped and not unmapped.

## Runs

| run | instance | shows |
|---|---|---|
| `lookup_every_tree` | 1 thread, all 625 trees of 2 nodes, both IP versions, all calls, fair | the properties of a lookup, with records at every boundary: 0, a node, `node_count`, data, one beyond the data; every lookup ends; implements `AtomicLookup` with its liveness |
| `lookup_threads` | 3 threads, 5 trees of 4 nodes, both IP versions | the cache under every interleaving; together the threads implement the steps of `AtomicLookup` |
| `handle_files` | 2 handles, 2 addresses; a good file for one, and that and 24 with one defect or another shape for the other, three of them with a pointer that leads back to itself; fair | counts, leaks, mappings of different handles, return of `MMDB_open()` where no such pointer is |
| `database_file` | trees of 1 to 3 nodes with every pair of records at an edge of their bytes, for 24, 28 and 32 bits; other markers; wrong and wrapping metadata; one field of every type, size, pointer and integer at an edge between two others, with integers of each length at both ends and either sign | sections, records and fields are found as written, but for the sign of a short int32; no node beyond the file is read |
| `mmdblookup` | all sections of 4 cells from 9 fields with three paths; 10 longer documents with all paths of up to 3 elements from 10 texts and with every kind of command line; every allocation failing; fair | the decoder and the program against `DataSection`; nothing lost; exit codes; termination, with the stack at its end, too, where no chain of pointers is a cycle |
| `binding_lookup` | 6 databases, 4 addresses, 10 option objects, loads while no struct has mapped 2 files | the outcome of every lookup after every sequence of loads; loading and unloading balance |

Each passing property has a mutant of the code that breaks it.

### Bounds

- Three threads are enough for the cache: one that stores, one that has scanned
  and stores late, one that reads between them. Trees of two nodes reach each
  branch of both loops, because a branch depends on one record and on whether bits
  are left; the five trees with four nodes add a start node with a tree below it, a
  short spine, no IPv4 data, a spine back to the root and a node that refers to
  itself. Two address bits after two spine bits give walks that end before, at and
  after the last bit.
- Two entries of languages and descriptions let a failure happen at the first and
  after it; two addresses let a mapping be handed out again.
- `database_file` has a marker of 3 bytes, a block of 20, the separator of 16, and
  computes in 30 bits (`Wrap`) and a record size in 6 (`ShortWrap`), since TLC's
  integers have 32: a file may be longer and shorter than the block, and sizes
  wrap. Offsets are both sides of each field, inside of one, and far out. For the
  same reason the integers packed are below 2^31, in up to 16 bytes; `ValuesFound` is
  about all of them.
- Four cells hold a container in a container with a pointer, and every illegal
  section of that length; the documents add values in front of and behind the one
  looked for. `MaxNodes` is 12 and `MaxCalls` 11: more than any legal document has
  nodes or nesting, and a list can be too long to be freed, a container that contains
  itself can run out of memory and out of stack. An `int` is reduced modulo 16.
- `CHECK_DEADLOCK` is off in the runs of `MMDBHandle`, where a crash of the process
  is an end, and of `DatabaseFile`, where a file that does not open is one.

### Fairness

`lookup_every_tree` assumes weak fairness of each thread's own steps, which is what
an operating system gives a runnable thread; no call is assumed to be made. The
refinement's abstract fairness says a call made is answered. `handle_files` assumes
it of the thread inside `MMDB_open()`, which takes no lock. `mmdblookup` is a single
thread that runs. Nothing else is assumed.

### Disagreements between the code and what is said about it

These runs look for the claim of a document or comment and find it violated; the
quotations are in `findings` of `PROJECT.json`.

| run | claim | what happens |
|---|---|---|
| `lookup_thread_safe` | the library is thread safe | a thread reads `node_value` of one store and `netmask` from before the other, and starts at the wrong bit |
| `lookup_netmask` | `netmask` is the subnet | in a file whose spine ends early, it is computed from the number of nodes scanned instead of the bit that is left |
| `handle_close_twice` | closing twice is safe | the mapping of another handle may go |
| `metadata_last_marker` | the last marker counts | the search ends at the first one of the last 128 kB |
| `binding_unload` | `unload()` frees the memory | country and city share a struct, the first is lost |
| `binding_types` | look at `type` before the union | the AS number loses its high bits |

The models also follow the code, without a run, where it parts from these:

- `doc/libmaxminddb.md:474`: an IPv6 address in an IPv4 file gives `MMDB_SUCCESS`;
  `MMDB_lookup_string()` gives an error (`Rejection`).
- `doc/libmaxminddb.md:491`: the two entry points are identical;
  `MMDB_lookup_sockaddr()` then leaves `mmdb_error` unset (`Rejection`).
- `doc/libmaxminddb.md:408`: a failed open frees everything; the entry list, and an
  array of which nothing was counted, stay (`FailedOpenLeavesLists` says just what).
- `doc/libmaxminddb.md:430`: closing frees everything; an array of no elements stays
  (hence the condition in `OpenCloseBalanced`).
- `doc/libmaxminddb.md:355`: a failed allocation is `MMDB_OUT_OF_MEMORY_ERROR`; it
  may be invalid metadata (`ReadHeader`) or a NULL pointer read (`StartList`,
  `DumpField`, `GetOptions`).
- `doc/libmaxminddb.md:360`: an index beyond a `long` is an invalid path; one beyond
  an `int` selects another element (`ToInt`).
- `doc/libmaxminddb.md:178`: languages and descriptions are optional; without
  them a file is rejected (`StartList`).
- `doc/libmaxminddb.md:350`: missing keys are rejected; a missing `database_type` is
  not (`ReadHeader`).
- line 358: the size of the metadata section counts the marker it begins behind
  (`SectionsAsWritten` says how far it goes).
- line 891: a node number equal to `node_count` is accepted (`NodeExists`); it reads
  the separator (`NodesStayInFile`).
- `MaxMind-DB-spec.md:323-330` and `:343`: a signed integer has its sign in the
  left-most bit, in two's complement, in any number of bytes from 1 to 4; a negative
  one of one to three bytes is decoded as a positive one, since `get_sintX()` at line
  1514 casts the unsigned number (`GetSigned`; `ValuesAsWritten` says as which).
- `doc/libmaxminddb.md:350`: invalid metadata is an error; a pointer of it that leads
  back to itself keeps `MMDB_open()` from ever returning (`StartList`), and any other
  list of such data from being made (`Chase`). A container that contains itself ends
  the process with its stack (`Overflow`).
- `bin/mmdblookup.c:304`: a dump that ran out of memory exits with 0 (`DumpDone`).
- `src/Readme.md:14`: `load()` of a path and a list of keys; it loads nothing
  (`CallLoad`).
- `src/src/binding.cpp:187`: `load()` returns a status with an error string; the
  string is always empty (`LoadKey`).
- `src/src/binding.cpp:285`: constants are associated with fields; two of them ask
  for another one (`Exported`).

## Proofs

Every invariant below was checked by TLC on the run of its module before it was
proved. Each module's assumptions on its constants are named (`SearchTreeAssumption`,
`LookupAssumption`, `HandleAssumption`, `FieldAssumption`, `FilesAssumption`,
`EntryAssumption`, `ProgramAssumption`, `BindingAssumption`), are all that the
theorems assume unless it is said, and are evaluated by the runs.

Recursive functions are a `CHOOSE` for the prover, and induction theorems that take
an operator are out of its reach. So a proof about one shows that a function with its
equation exists, and what all its values have in common, by least counterexample:
`LeastNat` in `Facts_proofs`, from the library's theorem that `<` is well founded on
the naturals. `IteratedTo` and `IteratedForever` are the facts that a function computed from its value
before exists; where an induction has a stack or a nesting depth in it, the least index at
which the claim fails is taken.

### LookupThreads

For any number of threads, any tree, any set of calls and any address widths
with `V6Bits > V4Bits`.

1. `TypeCorrect`, `ReadsStayInside`. `TypeOK` is not inductive: that a walk is
   inside the tree needs what each thread's place says of its locals (`Located`),
   for instance that a thread that scans is at a node and has fewer than
   `SpineBits` behind it. `Typed` is the conjunction and is inductive.
2. `CacheFieldsAreFinal`, `TornCacheIsInFlight`, `CacheStaysComplete`. The scan
   of any thread follows the spine of the tree (`Scanned`), and the spine does
   not depend on the cache, so all threads store the same two values.
   `CacheInv` adds that a thread past its stores leaves no half behind.
3. `OrderedLookupsAreRight`. `RightAt` relates a walk to the path of its address:
   the record reached after `k` bits is `Path(...)[k]`, for a lookup outside the
   race. A start node from a complete cache is the path's record after
   `SpineBits` zero bits (`MappedPath`), which is where the walk continues. The
   three ways a walk ends are the three lemmas `EntryOfLeaf`, `EntryOfZero` and
   `EntryOfRunOut`.
4. `LookupsAreAtomic`: the specification implies the steps of `AtomicLookup`.
   Initial states map to initial states (`AtomicInit`); a call, an answer, a return
   and each other step map to `ACall`, `AAnswer`, `AReturn` and a stutter
   (`CallStep`, `AnswerStep`, `ReturnStep`, `HiddenStep`). That an answer is the
   tree's entry unless `exposed` is the invariant of 3; that a thread stays exposed
   until it returns is a property of `OutsideRace`.
5. `MappedIsV6Lookup`, on top of 3: in a tree without records back to the root the
   walk from the root takes the `SpineBits` zero bits like any others
   (`WellFormedEntry`), so starting behind them changes nothing.
6. `NetmaskTellsBits`: `NetmaskAt` is the netmask of one thread, and is kept because a
   walk stands at the record its address leads to after `Taken` bits (`RightAt`), so
   the turn that leaves the tree has taken `SubnetBits` (`SubnetAtLeaf`). It is said,
   as in the property, of a start node that lies inside the tree; for the others
   `lookup_netmask` shows the opposite.

### MMDBHandle

For any handles, addresses and files, from `HandleAssumption` and `~ CloseTwice`: with
`CloseTwice` the specification has the calls the run `handle_close_twice` refutes.

`TypeCorrect`, `CountsCorrect`, `FailedOpenCorrect`, `BalanceCorrect`,
`OpenHandleCorrect` and `ForeignMapsKept` follow from `HandleInv`. It consists of one
formula for each handle (`Local`) and one that relates them (`Owns`).
`Covered` is what `free_mmdb_struct()` trusts: a count never exceeds the copies that were
made, a block is reached from the struct or is one of the three that no field
points to on a failure (`Lists`), and no count stands with a NULL array. `Placed`
is what each place of `MMDB_open()` has done so far, which makes `Covered` inductive:
without it the step that allocates an array could find a count that is already
set. `Returned` says with which status a place is reached, `Left` what a closed
handle leaves behind, and `Owns` that a struct's mapping is its own as long as it is
open, so that unmapping it cannot take another's.

### DataField and DatabaseFile

For any set of files, any separator of at least 8 bytes, any marker, block and
widths. The layout of 24, 28 and 32 bit records and of fields is fixed.

1. `FieldDecoded`: whatever memory holds a field of the format at an offset,
   `DecodeOne` gives its type, its size or pointer and the offset behind it. A
   number is the sum of its digits (`Digits`); `SizeRead` and `PointerIsRead` go
   through the four lengths of each, `HeaderIsRead` through the two forms of a
   type, and `FieldDecoded` through the early returns.
2. `ValueDecoded`: an integer decodes to the number that was packed, of whatever
   size: the bytes of a field are those of `Shifted`, the number without its last
   bytes, also of a negative one, which is what makes two's complement
   (`ShiftedSteps`, `ShiftedByte`, `LastBytes`). `GetXBytes` gives the values of the
   loop of `get_uintX()`, byte by byte. `GetXRight` compares them with the number,
   for one of any length of which nothing is left when all bytes are taken off;
   `GetSignedWhole` does so for an int32 of four bytes, where the cast gives the
   sign, and `GetSignedShort` says what becomes of one of fewer bytes: the number,
   or for a negative one the number with 2 to the power of its bits added.
3. `FileTypes`, `SectionsFound`, `RecordsFound`, `NodesInFile`. `FileInv` adds to the
   types where the search area begins and, for a file of the format with its marker
   at `m`: the search cannot fail and ends at `m` (`OneMatch`: no other marker lies
   in the area), the sizes are those of the tree, because 32 bits hold them
   (`SizesFit`), and the last node read has the records packed into it
   (`RecordsRead`, a case for each size, and `ByteOfNode`).
4. `FieldsFound`, `ValuesFound`: on top of `FileInv`, the memory `decode_one()` is given
   holds each field where it was put, header and payload (`FieldInMemory`,
   `PartsInMemory`: the fields do not overlap, so a byte belongs to one);
   `FieldDecoded` and `ValueDecoded` do the rest.

### Mmdblookup

For any data section, legal or not, any command line, any limit of memory and stack
and any allocation that fails: `LookupTypes`, `ListReachable` and
`EverythingReturned`.

That a dump never reads the NULL behind the last node is the claim that is hard to
see: neither `dump_entry_data_list()` nor `mmdblookup` tests for it, and what a
dump reads depends on sizes, while the list was built by recursion. It is proved by
counting. `Announced` is how many nodes the first `n` nodes of a list announce by
their sizes, `Waiting` how many the callers on the stack have still to append, `Due`
how many the loops of a dump have still to read. `LookupInv` has these parts:

- `Typed`, `Controlled`: types, and which call is under way at which place of the
  program.
- `Linked`: the list is linked in the order of allocation. It is kept because the
  tail that the code looks for is always the node allocated last (`LastNodeIsLast`),
  and it is why a free reaches all nodes (`ListIsAll`).
- `Owned`: all nodes of a list are on the heap or none is, and none between two lists.
- `Grows`: while a list is built, `1 + Announced = Len(nodes) + Waiting`, where a node
  whose entry is not decoded yet announces nothing. A pointer counts as the container
  it leads to once its target is in the node.
- `Complete`: so a list that was built has as many nodes as it announces.
- `Reads`: the fields still due and the place of the cursor do not exceed what the
  nodes read so far announce. With `Complete`, a pair whose key is the last node is
  impossible, so the cursor stands on a node when a value is dumped.

Each action has a lemma (`EnterKeeps`, `ElementKeeps`, `DumpMemberKeeps`, ...); steps after which
no list is built or dumped share `Idles`.

### DataSection and MmdblookupValues

For any section, command line, path and answer of a search, any limit of memory and
stack and any allocation that fails: `PathLeadsToValue`, `ListHoldsValue`,
`PrintsValue` and `ExitCodeIsRight`. The entry has to be legal and the path plain,
as in the properties (`Sound`): with other data the decoder finds what happens to be
there.

`DataSection_proofs` has what the readings are, for every section.

- `ReadingFixed`: the reading of a legal value is made from the readings of what is in
  it. It rests on `ReadingsExtend`: a value that is legal at one depth has the same
  reading at each greater one, so the readings one level less deep, from which it was
  made, are those of the last depth wherever they matter.
- `LegalField`, `LegalPointer`, `LegalSimple`, `LegalContainer`, `LegalMember`: what a legal
  value of each kind is made of. `KidPlaced`: the fields and the text of the i-th
  member lie in those of its container behind the members before it.
- `AlongRead`: a path from a legal value leads to legal values, or to its first error.

`MmdblookupValues_proofs` compares the steps of the program with these. First
`SkipReads`: `skip_map_or_array()` from a legal value ends where its reading ends. It
does not follow pointers while the reading does, so it is proved of the nesting without
pointers: `SkipEnds` compares `Skip` with `Readings` at each depth, by the least depth at
which they differ. Then `ValuesInv`, on top of
`LookupInv` of the last section:

- `Given`: the command line is one of the inputs, and which places of the program it
  lets be reached; what is behind an address has an entry; nothing is printed before
  the dump.
- `Finding`: how many elements of the path have been followed; the entry is then the
  value `Along` gives for them. In a map it is that map with its size counted down and
  its `next` behind the pairs passed, none of which has the key that is looked for.
  `ValueAtPath` itself is a part, because the list is read after it.
- `Listing`: while a list is built there is a sequence `g` of values, one for the
  call and one for each frame that waits (`Calls`): each frame is at the member, or at
  the pointer, that the value above it is (`Waits`), the value at the bottom is the one
  at the path, and all have the nodes where their fields lie in its preorder. The nodes
  before the call are `Filled` with the fields of that preorder. A return then finds
  the end of the value in the node, which is where the next member begins.
- `Dumped`: while the list is dumped there is a sequence `h` of values with their
  places in the list and in the text (`Spot`), one for each loop (`Loops`); the members
  already dumped put the cursor and the printed text where the next member lies
  (`Between`). What is printed is a beginning of the text (`Begun`).
- `Closing`: the exit code, with `starved` for an allocation that failed.

The two sequences are what makes the invariant inductive: a frame of the decoder
remembers an offset and a count, and that these belong to the right place of the
right value holds only because of all the frames below it. They are ghosts, bound by
`\E`, and no variable of the model holds them. `CallsPush`, `CallsPop`, `LoopsPush` and
`LoopsPop` say what a call and a return do to
them; then each action has a lemma for each part (`MapGoes`, `ListElement`,
`PrintMember`, ...), and `FindingKept`, `ListingKept`, `DumpedKept` and `ClosingKept`
put these together. `ValuesInv` was checked by TLC on the run `mmdblookup`, with the
ghost sequences enumerated, before it was proved.

### Binding

For any databases, entries and arguments: `TypeCorrect`, `EntryIsOwn`, `LookupCorrect` and
`UnloadCorrect` follow from `BindingInv`. `LookupRuns` is the running `lookupIp()`: the
sections before the present one are `Handled`, the others have no value, and the
`mmdb_result` that country and city share is the one of the search that was made
once for both (`CityFound`). `FilesCounted` relates the files a struct has mapped to
whether it was opened over.

### Only model-checked

Liveness (`LookupsEnd`, `OpenReturns`, `ProgramEnds`, and the fairness part of
`ImplementsAtomic`) is out of the prover's reach. Every invariant that a passing run
checks, and every action property, is also a theorem.

## Not modelled

- Text: error strings (`MMDB_strerror`), the wording and indentation of a dump, usage
  and metadata output of `mmdblookup`.
- What a string or bytes hold, and the bytes of a float or a double, whose byte
  order the code reverses on little-endian machines.
- `MMDB_get_metadata_as_entry_data_list()`, which is `MMDB_get_entry_data_list()` on
  the metadata section; the map lookup behind `value_for_key_as_*()`, which is
  `MMDB_aget_value()`. A metadata value stored narrower than it is read.
- A header that lies across offset 2^32 of a section: `DataField` reduces the
  offset behind a field, not one inside its header.
- `MMDB_get_value()` running out of memory in the binding, where an entry that was
  never written would be read, and option objects whose accessors call the module
  again.
- The test programs, the vendored libtap, build files and the Windows branches.
