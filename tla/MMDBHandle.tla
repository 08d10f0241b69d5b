----------------------------- MODULE MMDBHandle -----------------------------
(***************************************************************************)
(* MMDB_open() and MMDB_close() of src/libmaxminddb/src/maxminddb.c: what  *)
(* an MMDB_s owns at every point where opening can fail, and what is left  *)
(* when it was closed.  Each allocation may fail; each handle belongs to   *)
(* one thread, and all handles draw their mappings from one address space, *)
(* which hands an address out again once it was unmapped.                  *)
(*                                                                         *)
(* Of a file only what decides the outcome is kept: the metadata keys with *)
(* a value that is missing (0, "missing"), wrong or right.                 *)
(***************************************************************************)
EXTENDS Integers, Sequences, FiniteSets

CONSTANTS
  Handles,    \* MMDB_s structs of the process
  Addresses,  \* addresses mmap() may return
  Files,      \* for each handle, the metadata of the files it opens
  NoAddress,  \* NULL
  NoOwner,    \* an address that is not mapped
  CloseTwice  \* TRUE: MMDB_close() may be called again on a closed handle

\* Languages and descriptions are sequences of entries, or not there at all; an
\* entry that is no string, or has a key or a value that is none, is rejected. In
\* place of a language, a key or a value there may be a pointer that leads back to
\* itself; one deeper inside of a rejected entry is left out.
Missing == <<"no such key">>

Cyclic == {"cycle", "key_cycle", "value_cycle"}

File ==
  [nodeCount : Nat, recordSize : Nat, ipVersion : Nat, major : Nat, epoch : Nat,
   languages : Seq({"string", "other", "cycle"}) \cup {Missing},
   descriptions : Seq({"string", "bad_key", "bad_value", "key_cycle", "value_cycle"})
                    \cup {Missing}]

ASSUME HandleAssumption ==
  /\ NoAddress \notin Addresses
  /\ NoOwner \notin Handles
  /\ DOMAIN Files = Handles
  /\ \A h \in Handles : Files[h] \subseteq File
  /\ CloseTwice \in BOOLEAN

VARIABLES
  pc,      \* where MMDB_open() is for each handle
  file,    \* the file it opens
  db,      \* the pointers and counts of the struct
  heap,    \* blocks allocated since MMDB_open() was called and not yet freed
  maps,    \* for each address, the handle whose mapping is there
  status   \* what MMDB_open() returned last

vars == <<pc, file, db, heap, maps, status>>

\* Pointers are TRUE when they are not NULL; content is an address.
ZeroStruct ==
  [filename |-> FALSE, content |-> NoAddress, databaseType |-> FALSE,
   languages |-> 0, names |-> FALSE, descriptions |-> 0, table |-> FALSE]

NoFile == [nodeCount |-> 0, languages |-> Missing, descriptions |-> Missing]

Init ==
  /\ pc = [h \in Handles |-> "closed"]
  /\ file = [h \in Handles |-> NoFile]
  /\ db = [h \in Handles |-> ZeroStruct]
  /\ heap = [h \in Handles |-> {}]
  /\ maps = [a \in Addresses |-> NoOwner]
  /\ status = [h \in Handles |-> "NONE"]

-----------------------------------------------------------------------------

Goto(h, label) == pc' = [pc EXCEPT ![h] = label]

Alloc(h, blocks) == heap' = [heap EXCEPT ![h] = @ \cup blocks]

\* `goto cleanup` with an error.
Fail(h, error) ==
  /\ Goto(h, "cleanup")
  /\ status' = [status EXCEPT ![h] = error]

OutOfMemory(h) == Fail(h, "OUT_OF_MEMORY")

\* Without `mmdb->file_content = NULL`.
Open_slip(h, f) ==
  /\ pc[h] = "closed"
  /\ Goto(h, "filename")
  /\ file' = [file EXCEPT ![h] = f]
  /\ db' = [db EXCEPT ![h] = [@ EXCEPT !.databaseType = FALSE,
              !.languages = 0, !.descriptions = 0]]
  /\ status' = [status EXCEPT ![h] = "NONE"]
  /\ heap' = [heap EXCEPT ![h] = {}]
  /\ UNCHANGED maps

Open(h, f) ==
  /\ pc[h] = "closed"
  /\ Goto(h, "filename")
  /\ file' = [file EXCEPT ![h] = f]
  /\ db' = [db EXCEPT ![h] = [@ EXCEPT !.content = NoAddress,
              !.databaseType = FALSE, !.languages = 0, !.descriptions = 0]]
  /\ status' = [status EXCEPT ![h] = "NONE"]
  /\ heap' = [heap EXCEPT ![h] = {}]
  /\ UNCHANGED maps

CopyFilename(h) ==
  /\ pc[h] = "filename"
  /\ \/ /\ Goto(h, "map")
        /\ Alloc(h, {<<"filename">>})
        /\ db' = [db EXCEPT ![h].filename = TRUE]
        /\ UNCHANGED status
     \/ /\ OutOfMemory(h)
        /\ db' = [db EXCEPT ![h].filename = FALSE]
        /\ UNCHANGED heap
  /\ UNCHANGED <<file, maps>>

\* map_file(); the descriptor is closed on every path.
MapFile(h) ==
  /\ pc[h] = "map"
  /\ \/ /\ \E error \in {"FILE_OPEN", "IO"} : Fail(h, error)
        /\ UNCHANGED <<db, maps>>
     \/ OutOfMemory(h) /\ UNCHANGED <<db, maps>>
     \/ \E a \in Addresses :
          /\ maps[a] = NoOwner
          /\ maps' = [maps EXCEPT ![a] = h]
          /\ db' = [db EXCEPT ![h].content = a]
          /\ Goto(h, "header")
          /\ UNCHANGED status
  /\ UNCHANGED <<file, heap>>

\* Without the check of record_size, which leaves no getter for the records.
HeaderError_slip(f) ==
  IF f.nodeCount = 0 \/ f.ipVersion \notin {4, 6} THEN "INVALID_METADATA" ELSE "SUCCESS"

\* The checks of read_metadata() up to ip_version, in their order.
HeaderError(f) ==
  IF f.nodeCount = 0 \/ f.recordSize = 0 THEN "INVALID_METADATA"
  ELSE IF f.recordSize \notin {24, 28, 32} THEN "UNKNOWN_DATABASE_FORMAT"
  ELSE IF f.ipVersion \notin {4, 6} THEN "INVALID_METADATA"
  ELSE "SUCCESS"

\* A database_type that is missing becomes an empty string, not NULL. Only a copy
\* that cannot be allocated is NULL; it is reported as wrong metadata.
ReadHeader(h) ==
  /\ pc[h] = "header"
  /\ \/ /\ HeaderError(file[h]) # "SUCCESS"
        /\ Fail(h, HeaderError(file[h]))
        /\ UNCHANGED <<db, heap>>
     \/ /\ HeaderError(file[h]) = "SUCCESS"
        /\ Goto(h, "languages")
        /\ db' = [db EXCEPT ![h].databaseType = TRUE]
        /\ Alloc(h, {<<"database_type">>})
        /\ UNCHANGED status
     \/ /\ HeaderError(file[h]) = "SUCCESS"
        /\ Fail(h, "INVALID_METADATA")
        /\ UNCHANGED <<db, heap>>
  /\ UNCHANGED <<file, maps>>

HasCycle(entries) == \E i \in DOMAIN entries : entries[i] \in Cyclic

\* populate_languages_metadata() and populate_description_metadata() up to
\* their loops: the list of entries is built, then the array of pointers. The
\* status of the list is not looked at and its head is read at once. The list
\* follows a pointer that leads back to itself for ever, if no allocation before it
\* fails; an entry that contains itself has it run out of stack.
StartList(h, from, value, pointer, count, block, loop) ==
  /\ pc[h] = from
  /\ \/ /\ value = Missing
        /\ Fail(h, "INVALID_METADATA")
        /\ UNCHANGED <<db, heap>>
     \/ /\ value # Missing
        /\ Goto(h, "crashed")
        /\ UNCHANGED <<db, heap, status>>
     \/ /\ value # Missing
        /\ HasCycle(value)
        /\ Goto(h, "chasing")
        /\ Alloc(h, {<<"list">>})
        /\ UNCHANGED <<db, status>>
     \/ /\ value # Missing
        /\ OutOfMemory(h)
        /\ Alloc(h, {<<"list">>})
        /\ db' = [db EXCEPT ![h][count] = 0, ![h][pointer] = FALSE]
     \/ /\ value # Missing
        /\ Goto(h, loop)
        /\ Alloc(h, {<<"list">>, <<block>>})
        /\ db' = [db EXCEPT ![h][count] = 0, ![h][pointer] = TRUE]
        /\ UNCHANGED status
  /\ UNCHANGED <<file, maps>>

StartLanguages(h) ==
  StartList(h, "languages", file[h].languages, "names", "languages", "names",
            "language")

StartDescriptions(h) ==
  StartList(h, "descriptions", file[h].descriptions, "table", "descriptions",
            "table", "description")

\* The count is one ahead of the copies.
NextLanguage_slip(h) ==
  LET i == db[h].languages + 1
  IN  /\ pc[h] = "language"
      /\ i <= Len(file[h].languages)
      /\ file[h].languages[i] = "string"
      /\ Alloc(h, {<<"name", i>>})
      /\ db' = [db EXCEPT ![h].languages = i + 1]
      /\ UNCHANGED <<pc, file, maps, status>>

NextLanguage(h) ==
  LET i == db[h].languages + 1
  IN  /\ pc[h] = "language"
      /\ i <= Len(file[h].languages)
      /\ \/ /\ file[h].languages[i] = "other"
            /\ Fail(h, "INVALID_METADATA")
            /\ UNCHANGED <<db, heap>>
         \/ /\ file[h].languages[i] = "string"
            /\ OutOfMemory(h)
            /\ UNCHANGED <<db, heap>>
         \/ /\ file[h].languages[i] = "string"
            /\ Alloc(h, {<<"name", i>>})
            /\ db' = [db EXCEPT ![h].languages = i]
            /\ UNCHANGED <<pc, status>>
      /\ UNCHANGED <<file, maps>>

\* The list ends early because one of its elements could not be allocated: its
\* next pointer is NULL and is followed.
ShortList(h) ==
  /\ \/ pc[h] = "language" /\ db[h].languages < Len(file[h].languages)
     \/ pc[h] = "description" /\ db[h].descriptions < Len(file[h].descriptions)
  /\ Goto(h, "crashed")
  /\ UNCHANGED <<file, db, heap, maps, status>>

\* The list is freed; then major version and build epoch must be there.
EndLanguages(h) ==
  /\ pc[h] = "language"
  /\ db[h].languages = Len(file[h].languages)
  /\ heap' = [heap EXCEPT ![h] = @ \ {<<"list">>}]
  /\ IF file[h].major = 0 \/ file[h].epoch = 0
     THEN Fail(h, "INVALID_METADATA")
     ELSE Goto(h, "descriptions") /\ UNCHANGED status
  /\ UNCHANGED <<file, db, maps>>

\* An entry is a struct, a copy of the key and a copy of the value. It counts
\* as soon as there is the struct. Those of a pointer that leads back to itself are
\* never made: a list that was built at all ends before it.
Copies(entry) == CASE entry \in {"bad_key", "key_cycle"} -> 1
                   [] entry \in {"bad_value", "value_cycle"} -> 2
                   [] entry = "string" -> 3

NextDescription(h) ==
  LET i == db[h].descriptions + 1
  IN  /\ pc[h] = "description"
      /\ i <= Len(file[h].descriptions)
      /\ \E n \in 0 .. Copies(file[h].descriptions[i]) :
           /\ file[h].descriptions[i] \in Cyclic => n < Copies(file[h].descriptions[i])
           /\ Alloc(h, {<<"description", i, k>> : k \in 1 .. n})
           /\ IF n = 0 THEN db' = db
              ELSE db' = [db EXCEPT ![h].descriptions = i]
           /\ IF n < Copies(file[h].descriptions[i])
              THEN OutOfMemory(h)
              ELSE IF n < 3 THEN Fail(h, "INVALID_METADATA")
                            ELSE UNCHANGED <<pc, status>>
      /\ UNCHANGED <<file, maps>>

\* The version is checked last.
EndDescriptions(h) ==
  /\ pc[h] = "description"
  /\ db[h].descriptions = Len(file[h].descriptions)
  /\ heap' = [heap EXCEPT ![h] = @ \ {<<"list">>}]
  /\ IF file[h].major # 2
     THEN Fail(h, "UNKNOWN_DATABASE_FORMAT")
     ELSE Goto(h, "open") /\ status' = [status EXCEPT ![h] = "SUCCESS"]
  /\ UNCHANGED <<file, db, maps>>

-----------------------------------------------------------------------------
(* An operator X_slip, here and above, is X with a mistake a change of the *)
(* code could make; the specification does not use it.                     *)
(*                                                                         *)
(* free_mmdb_struct(): what the pointers and counts of the struct reach.   *)

\* Without the database type.
Reached_slip(d) ==
  UNION { IF d.filename THEN {<<"filename">>} ELSE {},
          IF d.languages = 0 THEN {}
          ELSE {<<"names">>} \cup {<<"name", i>> : i \in 1 .. d.languages},
          IF d.descriptions = 0 THEN {}
          ELSE {<<"table">>} \cup
               {<<"description", i, k>> : i \in 1 .. d.descriptions, k \in 1 .. 3} }

Reached(d) ==
  UNION { IF d.filename THEN {<<"filename">>} ELSE {},
          IF d.databaseType THEN {<<"database_type">>} ELSE {},
          IF d.languages = 0 THEN {}
          ELSE {<<"names">>} \cup {<<"name", i>> : i \in 1 .. d.languages},
          IF d.descriptions = 0 THEN {}
          ELSE {<<"table">>} \cup
               {<<"description", i, k>> : i \in 1 .. d.descriptions, k \in 1 .. 3} }

\* A count that is not 0 promises an array.
NullArray(d) ==
  \/ d.languages > 0 /\ ~ d.names
  \/ d.descriptions > 0 /\ ~ d.table

\* The pointers freed become NULL; file_content and the counts stay.
FreeStruct(h) ==
  LET d == db[h]
  IN  /\ heap' = [heap EXCEPT ![h] = @ \ Reached(d)]
      /\ maps' = IF d.content = NoAddress THEN maps
                 ELSE [maps EXCEPT ![d.content] = NoOwner]
      /\ db' = [db EXCEPT ![h] =
                 [d EXCEPT !.filename = FALSE, !.databaseType = FALSE,
                           !.names = d.names /\ d.languages = 0,
                           !.table = d.table /\ d.descriptions = 0]]
      /\ Goto(h, IF NullArray(d) THEN "crashed" ELSE "closed")
      /\ UNCHANGED <<file, status>>

CleanUp(h) == pc[h] = "cleanup" /\ FreeStruct(h)

Close(h) ==
  /\ pc[h] = "open" \/ (CloseTwice /\ pc[h] = "closed" /\ status[h] = "SUCCESS")
  /\ FreeStruct(h)

\* The steps MMDB_open() takes by itself.
Opening(h) ==
  \/ CopyFilename(h) \/ MapFile(h) \/ ReadHeader(h)
  \/ StartLanguages(h) \/ NextLanguage(h) \/ EndLanguages(h)
  \/ StartDescriptions(h) \/ NextDescription(h) \/ EndDescriptions(h)
  \/ ShortList(h)
  \/ CleanUp(h)

\* A NULL pointer read ends the process.
Running == \A h \in Handles : pc[h] # "crashed"

Next ==
  /\ Running
  /\ \E h \in Handles : (\E f \in Files[h] : Open(h, f)) \/ Opening(h) \/ Close(h)

Spec == Init /\ [][Next]_vars

\* The thread that called MMDB_open() runs.
FairSpec ==
  Spec /\ \A h \in Handles : WF_vars(Running /\ Opening(h))

-----------------------------------------------------------------------------
(* Properties. *)

\* Every variable stays within its type, and no count gets beyond the entries of
\* the file, whose index the copies are stored at.
TypeOK ==
  /\ pc \in [Handles -> {"closed", "filename", "map", "header", "languages",
                         "language", "descriptions", "description", "chasing",
                         "cleanup", "open", "crashed"}]
  /\ \A h \in Handles : file[h] \in Files[h] \cup {NoFile}
  /\ db \in [Handles -> [filename : BOOLEAN, content : Addresses \cup {NoAddress},
                         databaseType : BOOLEAN, languages : Nat,
                         names : BOOLEAN, descriptions : Nat, table : BOOLEAN]]
  /\ maps \in [Addresses -> Handles \cup {NoOwner}]
  /\ status \in [Handles -> {"NONE", "SUCCESS", "FILE_OPEN", "IO", "OUT_OF_MEMORY",
                             "INVALID_METADATA", "UNKNOWN_DATABASE_FORMAT"}]
  /\ \A h \in Handles :
       /\ db[h].languages <= Len(file[h].languages)
       /\ db[h].descriptions <= Len(file[h].descriptions)

\* A handle MMDB_open() returned with MMDB_SUCCESS can be used: its mapping is
\* its own, whatever other handles have opened and closed meanwhile, there is a
\* getter for its records, and its pointers and counts are those of the file.
OpenHandleUsable ==
  \A h \in Handles : pc[h] = "open" =>
    /\ db[h].content # NoAddress /\ maps[db[h].content] = h
    /\ file[h].recordSize \in {24, 28, 32} /\ file[h].ipVersion \in {4, 6}
    /\ file[h].major = 2
    /\ db[h].filename /\ db[h].databaseType /\ db[h].names /\ db[h].table
    /\ db[h].languages = Len(file[h].languages)
    /\ db[h].descriptions = Len(file[h].descriptions)

\* The entries of which there is a copy.
Indexes(blocks, kind) == {b[2] : b \in {c \in blocks : c[1] = kind}}

\* At every point where opening can fail, the counts free_mmdb_struct() will
\* trust cover the copies that were made, and no copy that was not; a count that
\* is not 0 comes with an array.
CountsCoverCopies ==
  \A h \in Handles : pc[h] # "closed" =>
    /\ ~ NullArray(db[h])
    /\ Indexes(heap[h], "name") = 1 .. db[h].languages
    /\ Indexes(heap[h], "description") = 1 .. db[h].descriptions

\* After an MMDB_open() that failed nothing is left of its mapping and of its
\* blocks, the list of entries being read and the arrays of the two loops apart.
FailedOpenLeavesLists ==
  \A h \in Handles : (pc[h] = "closed" /\ status[h] # "SUCCESS") =>
    /\ heap[h] \subseteq {<<"list">>, <<"names">>, <<"table">>}
    /\ \A a \in Addresses : maps[a] # h
    /\ ~ db[h].filename

\* A handle that was opened and closed has given back all it took, if its file
\* names a language and has a description: an array of none is not freed.
OpenCloseBalanced ==
  \A h \in Handles :
    (/\ pc[h] = "closed"
     /\ status[h] = "SUCCESS"
     /\ file[h].languages # <<>>
     /\ file[h].descriptions # <<>>)
    => heap[h] = {} /\ \A a \in Addresses : maps[a] # h

\* No step of one handle removes the mapping of another.
KeepsForeignMaps ==
  [][\A a \in Addresses, h \in Handles :
       (maps[a] = h /\ maps'[a] # h) => db[h].content = a /\ pc'[h] # pc[h]]_vars

\* MMDB_open() returns, or a NULL pointer is read, unless a pointer of the languages
\* or of the descriptions leads back to itself.
OpenReturns ==
  \A h \in Handles :
    (pc[h] = "filename" /\ ~ HasCycle(file[h].languages)
                        /\ ~ HasCycle(file[h].descriptions))
      ~> (pc[h] \in {"open", "closed"} \/ ~ Running)

\* Changes.md:53: "This makes it safe to call MMDB_close more than once on the
\* same MMDB_s struct pointer. Before this change, calling this function twice on
\* the same pointer could cause the code to free memory that belonged to
\* something else in the process".
CloseTwiceIsSafe == KeepsForeignMaps
=============================================================================
