-------------------------- MODULE MMDBHandle_proofs --------------------------
(***************************************************************************)
(* Theorems about MMDB_open() and MMDB_close() (module MMDBHandle), for    *)
(* any number of handles and addresses and any files, with every           *)
(* allocation failing or not.  All but the last one are about programs     *)
(* that close a handle once (CloseTwice = FALSE).                          *)
(***************************************************************************)
EXTENDS MMDBHandle, TLAPS, SequenceTheorems

PCs == {"closed", "filename", "map", "header", "languages", "language",
        "descriptions", "description", "chasing", "cleanup", "open", "crashed"}

Statuses == {"NONE", "SUCCESS", "FILE_OPEN", "IO", "OUT_OF_MEMORY",
             "INVALID_METADATA", "UNKNOWN_DATABASE_FORMAT"}

Struct == [filename : BOOLEAN, content : Addresses \cup {NoAddress},
           databaseType : BOOLEAN, languages : Nat,
           names : BOOLEAN, descriptions : Nat, table : BOOLEAN]

\* The blocks that no count or pointer may reach: the list of entries, and the arrays.
Lists == {<<"list">>, <<"names">>, <<"table">>}

-----------------------------------------------------------------------------
(* The invariant of one handle, from the place p of MMDB_open(), its file  *)
(* f, its struct d, its blocks b and what it returned, s.                  *)

\* What free_mmdb_struct() will trust.
Covered(f, d, b) ==
  /\ b \subseteq Lists \cup Reached(d)
  /\ \A i \in 1 .. d.languages : <<"name", i>> \in b
  /\ \A i \in 1 .. d.descriptions : <<"description", i, 1>> \in b
  /\ ~ NullArray(d)

\* What each place of MMDB_open() knows of the struct and of the file.
Placed(p, f, d, b) ==
  /\ p \in {"filename", "map", "header", "languages"} =>
       d.languages = 0 /\ d.descriptions = 0 /\ b \cap Lists = {}
  /\ p = "filename" => b = {}
  /\ p \in {"filename", "map"} => d.content = NoAddress
  /\ p \notin {"closed", "filename", "cleanup", "crashed"} => d.filename
  /\ p \in {"languages", "language", "descriptions", "description", "open"} =>
       d.databaseType /\ HeaderError(f) = "SUCCESS"
  /\ p \in {"header", "languages", "language", "descriptions", "description", "open"} =>
       d.content # NoAddress
  /\ p \in {"language", "descriptions", "description", "open"} => d.names
  /\ p = "language" => d.descriptions = 0 /\ <<"table">> \notin b
  /\ p \in {"descriptions", "description", "open"} => d.languages = Len(f.languages)
  /\ p = "descriptions" => d.descriptions = 0 /\ <<"table">> \notin b
  /\ p \in {"descriptions", "open"} => <<"list">> \notin b
  /\ p \in {"description", "open"} => d.table
  /\ p = "description" => f.descriptions # Missing
  /\ p = "open" => d.descriptions = Len(f.descriptions) /\ f.major = 2

\* What MMDB_open() has returned.
Returned(p, s) ==
  /\ p = "cleanup" => s \notin {"NONE", "SUCCESS"}
  /\ p = "open" => s = "SUCCESS"
  /\ p \notin {"closed", "cleanup", "open", "crashed"} => s = "NONE"

\* What a handle that was closed leaves behind.
Left(f, d, b, s) ==
  /\ b \subseteq Lists
  /\ ~ d.filename
  /\ (s = "SUCCESS" /\ f.languages # <<>> /\ f.descriptions # <<>>) => b = {}

Local(p, f, d, b, s) ==
  /\ p \in PCs
  /\ d \in Struct
  /\ s \in Statuses
  /\ d.languages <= Len(f.languages) /\ d.descriptions <= Len(f.descriptions)
  /\ p # "closed" => f \in File /\ Covered(f, d, b)
  /\ p = "closed" => Left(f, d, b, s)
  /\ Placed(p, f, d, b)
  /\ Returned(p, s)

\* The mappings of a handle: one while it is open or opening, none once it is closed.
Owns(h) ==
  /\ pc[h] = "closed" => \A a \in Addresses : maps[a] # h
  /\ pc[h] # "closed" => \A a \in Addresses : (maps[a] = h) <=> (db[h].content = a)

HandleInv ==
  /\ TypeOK
  /\ DOMAIN file = Handles /\ DOMAIN heap = Handles
  /\ \A h \in Handles : Local(pc[h], file[h], db[h], heap[h], status[h]) /\ Owns(h)

-----------------------------------------------------------------------------
(* What each step does to the invariant of its handle.                     *)

\* The entries of a file can be counted, also those that are missing; only a
\* list without entries counts none.
LEMMA EntryCounts ==
  ASSUME NEW f \in File
  PROVE  /\ Len(f.languages) \in Nat /\ Len(f.descriptions) \in Nat
         /\ f.languages # <<>> => Len(f.languages) # 0
         /\ f.descriptions # <<>> => Len(f.descriptions) # 0
<1>1. Len(Missing) = 1
  BY DEF Missing
<1>2. /\ f.languages \in Seq({"string", "other", "cycle"}) \cup {Missing}
      /\ f.descriptions \in
           Seq({"string", "bad_key", "bad_value", "key_cycle", "value_cycle"})
             \cup {Missing}
  BY DEF File
<1> QED BY <1>1, <1>2, EmptySeq

\* MMDB_open() resets the struct of a closed handle.
LEMMA OpenLocal ==
  ASSUME NEW f0, NEW d, NEW b, NEW s, Local("closed", f0, d, b, s), NEW f \in File
  PROVE  Local("filename", f, [d EXCEPT !.content = NoAddress, !.databaseType = FALSE,
                                        !.languages = 0, !.descriptions = 0], {}, "NONE")
<1> DEFINE e == [d EXCEPT !.content = NoAddress, !.databaseType = FALSE,
                          !.languages = 0, !.descriptions = 0]
<1>1. e \in Struct /\ e.content = NoAddress /\ e.languages = 0 /\ e.descriptions = 0
  BY DEF Local, Struct
<1>2. Len(f.languages) \in Nat /\ Len(f.descriptions) \in Nat
  BY EntryCounts
<1>3. Covered(f, e, {})
  BY <1>1 DEF Covered, NullArray
<1>4. Placed("filename", f, e, {})
  BY <1>1 DEF Placed
<1> QED BY <1>1, <1>2, <1>3, <1>4 DEF Local, Returned, PCs, Statuses

\* The copy of the filename, made or not.
LEMMA FilenameLocal ==
  ASSUME NEW f, NEW d, NEW b, NEW s, Local("filename", f, d, b, s)
  PROVE  /\ Local("map", f, [d EXCEPT !.filename = TRUE], b \cup {<<"filename">>}, s)
         /\ Local("cleanup", f, [d EXCEPT !.filename = FALSE], b, "OUT_OF_MEMORY")
<1> DEFINE e == [d EXCEPT !.filename = TRUE]
           g == [d EXCEPT !.filename = FALSE]
<1>1. /\ e \in Struct /\ e.filename /\ g \in Struct
      /\ \A x \in {"content", "databaseType", "languages", "names", "descriptions", "table"} :
           e[x] = d[x] /\ g[x] = d[x]
      /\ b = {} /\ d.languages = 0 /\ d.descriptions = 0
  BY DEF Local, Struct, Placed
<1>2. Covered(f, e, b \cup {<<"filename">>}) /\ Covered(f, g, b)
  BY <1>1 DEF Covered, NullArray, Reached
<1>3. Placed("map", f, e, b \cup {<<"filename">>}) /\ Placed("cleanup", f, g, b)
  BY <1>1 DEF Placed, Local, Lists
<1> QED BY <1>1, <1>2, <1>3 DEF Local, Returned, PCs, Statuses

\* A failure that changes neither the struct nor the heap.
LEMMA FailLocal ==
  ASSUME NEW p, NEW f, NEW d, NEW b, NEW s, Local(p, f, d, b, s), p # "closed",
         NEW error \in Statuses \ {"NONE", "SUCCESS"}
  PROVE  Local("cleanup", f, d, b, error)
BY DEF Local, Placed, Returned, PCs

\* A NULL pointer is read.
LEMMA CrashLocal ==
  ASSUME NEW p, NEW f, NEW d, NEW b, NEW s, Local(p, f, d, b, s), p # "closed"
  PROVE  Local("crashed", f, d, b, s)
BY DEF Local, Placed, Returned, PCs

\* The list follows a pointer that leads back to itself.
LEMMA ChasingLocal ==
  ASSUME NEW p \in {"languages", "descriptions"}, NEW f, NEW d, NEW b, NEW s,
         Local(p, f, d, b, s)
  PROVE  Local("chasing", f, d, b \cup {<<"list">>}, s)
<1>1. Covered(f, d, b \cup {<<"list">>})
  BY DEF Local, Covered, Lists
<1> QED BY <1>1 DEF Local, Placed, Returned, PCs

\* The mapping.
LEMMA MapLocal ==
  ASSUME NEW f, NEW d, NEW b, NEW s, Local("map", f, d, b, s), NEW a \in Addresses
  PROVE  Local("header", f, [d EXCEPT !.content = a], b, s)
<1> DEFINE e == [d EXCEPT !.content = a]
<1>1. /\ e \in Struct /\ e.content = a /\ a # NoAddress
      /\ \A x \in {"filename", "databaseType", "languages", "names", "descriptions", "table"} :
           e[x] = d[x]
  BY HandleAssumption DEF Local, Struct
<1>2. Reached(e) = Reached(d)
  BY <1>1 DEF Reached
<1>3. Covered(f, e, b)
  BY <1>1, <1>2 DEF Covered, NullArray, Local
<1>4. Placed("header", f, e, b)
  BY <1>1 DEF Placed, Local
<1> QED BY <1>1, <1>3, <1>4 DEF Local, Returned, PCs

\* The copy of the database type, when the checks before it passed.
LEMMA HeaderLocal ==
  ASSUME NEW f, NEW d, NEW b, NEW s, Local("header", f, d, b, s),
         HeaderError(f) = "SUCCESS"
  PROVE  Local("languages", f, [d EXCEPT !.databaseType = TRUE],
               b \cup {<<"database_type">>}, s)
<1> DEFINE e == [d EXCEPT !.databaseType = TRUE]
           c == b \cup {<<"database_type">>}
<1>1. /\ e \in Struct /\ e.databaseType
      /\ \A x \in {"filename", "content", "languages", "names", "descriptions", "table"} :
           e[x] = d[x]
  BY DEF Local, Struct
<1>2. Reached(e) = Reached(d) \cup {<<"database_type">>}
  BY <1>1 DEF Reached
<1>3. Covered(f, e, c)
  BY <1>1, <1>2 DEF Covered, NullArray, Local
<1>4. Placed("languages", f, e, c)
  BY <1>1 DEF Placed, Local, Lists
<1> QED BY <1>1, <1>3, <1>4 DEF Local, Returned, PCs

\* The beginning of the languages: the list, and the array or NULL.
LEMMA LanguagesLocal ==
  ASSUME NEW f, NEW d, NEW b, NEW s, Local("languages", f, d, b, s)
  PROVE  /\ Local("language", f, [d EXCEPT !.languages = 0, !.names = TRUE],
                  b \cup {<<"list">>, <<"names">>}, s)
         /\ Local("cleanup", f, [d EXCEPT !.languages = 0, !.names = FALSE],
                  b \cup {<<"list">>}, "OUT_OF_MEMORY")
<1> DEFINE e == [d EXCEPT !.languages = 0, !.names = TRUE]
           g == [d EXCEPT !.languages = 0, !.names = FALSE]
           c == b \cup {<<"list">>, <<"names">>}
           k == b \cup {<<"list">>}
<1>1. /\ e \in Struct /\ e.names /\ g \in Struct
      /\ \A x \in {"filename", "content", "databaseType", "languages", "descriptions", "table"} :
           e[x] = d[x] /\ g[x] = d[x]
      /\ d.languages = 0 /\ d.descriptions = 0 /\ b \cap Lists = {}
  BY DEF Local, Struct, Placed
<1>2. Reached(e) = Reached(d) /\ Reached(g) = Reached(d)
  BY <1>1 DEF Reached
<1>3. Covered(f, e, c) /\ Covered(f, g, k)
  BY <1>1, <1>2 DEF Covered, NullArray, Local, Lists
<1>4. <<"table">> \notin c
  BY <1>1 DEF Lists
<1>5. Placed("language", f, e, c) /\ Placed("cleanup", f, g, k)
  BY <1>1, <1>4 DEF Placed, Local
<1> QED BY <1>1, <1>3, <1>5 DEF Local, Returned, PCs, Statuses

\* The copy of one more language counts.
LEMMA NextLanguageLocal ==
  ASSUME NEW f, NEW d, NEW b, NEW s, Local("language", f, d, b, s),
         NEW i, i = d.languages + 1, i <= Len(f.languages)
  PROVE  Local("language", f, [d EXCEPT !.languages = i], b \cup {<<"name", i>>}, s)
<1> DEFINE e == [d EXCEPT !.languages = i]
           c == b \cup {<<"name", i>>}
<1>1. /\ e \in Struct /\ e.languages = i /\ i \in Nat /\ d.languages \in Nat
      /\ \A x \in {"filename", "content", "databaseType", "names", "descriptions", "table"} :
           e[x] = d[x]
      /\ d.names /\ d.descriptions = 0
  BY DEF Local, Struct, Placed
<1>2. Reached(d) \cup {<<"names">>, <<"name", i>>} \subseteq Reached(e) \cup Lists
  <2>1. \A j \in 1 .. d.languages : j \in 1 .. i
    BY <1>1
  <2> QED BY <1>1, <2>1 DEF Reached, Lists
<1>3. \A j \in 1 .. i : <<"name", j>> \in c
  <2>1. \A j \in 1 .. i : j \in 1 .. d.languages \/ j = i
    BY <1>1
  <2> QED BY <2>1 DEF Local, Covered
<1>4. Covered(f, e, c)
  BY <1>1, <1>2, <1>3 DEF Covered, NullArray, Local, Lists
<1>5. <<"table">> \notin c
  BY DEF Local, Placed
<1>6. Placed("language", f, e, c)
  BY <1>1, <1>5 DEF Placed, Local
<1> QED BY <1>1, <1>4, <1>6 DEF Local, Returned

\* The list of languages is freed, after all of them were copied.
LEMMA EndLanguagesLocal ==
  ASSUME NEW f, NEW d, NEW b, NEW s, Local("language", f, d, b, s),
         d.languages = Len(f.languages)
  PROVE  /\ Local("descriptions", f, d, b \ {<<"list">>}, s)
         /\ Local("cleanup", f, d, b \ {<<"list">>}, "INVALID_METADATA")
<1>1. Covered(f, d, b \ {<<"list">>})
  BY DEF Local, Covered
<1> QED BY <1>1 DEF Local, Placed, Returned, PCs, Statuses

\* The beginning of the descriptions.
LEMMA DescriptionsLocal ==
  ASSUME NEW f, NEW d, NEW b, NEW s, Local("descriptions", f, d, b, s),
         f.descriptions # Missing
  PROVE  /\ Local("description", f, [d EXCEPT !.descriptions = 0, !.table = TRUE],
                  b \cup {<<"list">>, <<"table">>}, s)
         /\ Local("cleanup", f, [d EXCEPT !.descriptions = 0, !.table = FALSE],
                  b \cup {<<"list">>}, "OUT_OF_MEMORY")
<1> DEFINE e == [d EXCEPT !.descriptions = 0, !.table = TRUE]
           g == [d EXCEPT !.descriptions = 0, !.table = FALSE]
           c == b \cup {<<"list">>, <<"table">>}
           k == b \cup {<<"list">>}
<1>1. /\ e \in Struct /\ e.table /\ g \in Struct
      /\ \A x \in {"filename", "content", "databaseType", "languages", "names", "descriptions"} :
           e[x] = d[x] /\ g[x] = d[x]
      /\ d.descriptions = 0
  BY DEF Local, Struct, Placed
<1>2. Reached(e) = Reached(d) /\ Reached(g) = Reached(d)
  BY <1>1 DEF Reached
<1>3. Covered(f, e, c) /\ Covered(f, g, k)
  BY <1>1, <1>2 DEF Covered, NullArray, Local, Lists
<1>4. Placed("description", f, e, c) /\ Placed("cleanup", f, g, k)
  BY <1>1 DEF Placed, Local
<1> QED BY <1>1, <1>3, <1>4 DEF Local, Returned, PCs, Statuses

\* The blocks of the first n copies of an entry.
Blocks(i, n) == {<<"description", i, k>> : k \in 1 .. n}

\* An entry with n of its blocks; after the first it counts.
LEMMA NextDescriptionLocal ==
  ASSUME NEW f, NEW d, NEW b, NEW s, Local("description", f, d, b, s),
         NEW i, i = d.descriptions + 1, i <= Len(f.descriptions), NEW n \in 1 .. 3
  PROVE  Local("description", f, [d EXCEPT !.descriptions = i],
               b \cup Blocks(i, n), s)
<1> DEFINE e == [d EXCEPT !.descriptions = i]
           c == b \cup Blocks(i, n)
<1>1. /\ e \in Struct /\ e.descriptions = i /\ i \in Nat /\ d.descriptions \in Nat
      /\ \A x \in {"filename", "content", "databaseType", "languages", "names", "table"} :
           e[x] = d[x]
      /\ d.table
  BY DEF Local, Struct, Placed
<1>2. Reached(d) \cup Blocks(i, 3) \subseteq Reached(e) \cup Lists
  <2>1. \A j \in 1 .. d.descriptions : j \in 1 .. i
    BY <1>1
  <2>2. i \in 1 .. i /\ e.descriptions # 0
    BY <1>1
  <2> QED BY <1>1, <2>1, <2>2 DEF Reached, Lists, Blocks
<1>3. \A k \in 1 .. n : k \in 1 .. 3
  OBVIOUS
<1>4. c \subseteq Reached(e) \cup Lists
  BY <1>2, <1>3 DEF Local, Covered, Blocks
<1>5. \A j \in 1 .. i : <<"description", j, 1>> \in c
  <2>1. \A j \in 1 .. i : j \in 1 .. d.descriptions \/ j = i
    BY <1>1
  <2>2. 1 \in 1 .. n
    OBVIOUS
  <2> QED BY <2>1, <2>2 DEF Local, Covered, Blocks
<1>6. Covered(f, e, c)
  BY <1>1, <1>4, <1>5 DEF Covered, NullArray, Local
<1>7. Placed("description", f, e, c)
  BY <1>1 DEF Placed, Local
<1> QED BY <1>1, <1>6, <1>7 DEF Local, Returned

\* The list of descriptions is freed, after all of them were copied.
LEMMA EndDescriptionsLocal ==
  ASSUME NEW f, NEW d, NEW b, NEW s, Local("description", f, d, b, s),
         d.descriptions = Len(f.descriptions)
  PROVE  /\ f.major = 2 => Local("open", f, d, b \ {<<"list">>}, "SUCCESS")
         /\ Local("cleanup", f, d, b \ {<<"list">>}, "UNKNOWN_DATABASE_FORMAT")
<1>1. Covered(f, d, b \ {<<"list">>})
  BY DEF Local, Covered
<1> QED BY <1>1 DEF Local, Placed, Returned, PCs, Statuses

\* free_mmdb_struct() of a handle that is open, or failed to open.
LEMMA FreeLocal ==
  ASSUME NEW p \in {"cleanup", "open"}, NEW f, NEW d, NEW b, NEW s, Local(p, f, d, b, s)
  PROVE  /\ ~ NullArray(d)
         /\ Local("closed", f,
                  [d EXCEPT !.filename = FALSE, !.databaseType = FALSE,
                            !.names = d.names /\ d.languages = 0,
                            !.table = d.table /\ d.descriptions = 0],
                  b \ Reached(d), s)
<1> DEFINE e == [d EXCEPT !.filename = FALSE, !.databaseType = FALSE,
                          !.names = d.names /\ d.languages = 0,
                          !.table = d.table /\ d.descriptions = 0]
<1>1. /\ e \in Struct /\ ~ e.filename
      /\ e.languages = d.languages /\ e.descriptions = d.descriptions
  BY DEF Local, Struct
<1>2. ~ NullArray(d)
  BY DEF Local, Covered
<1>3. b \ Reached(d) \subseteq Lists
  BY DEF Local, Covered
<1>4. ASSUME s = "SUCCESS", f.languages # <<>>, f.descriptions # <<>>
      PROVE  b \ Reached(d) = {}
  <2>1. p = "open"
    BY <1>4 DEF Local, Returned
  <2>2. f \in File /\ d.languages = Len(f.languages) /\ d.descriptions = Len(f.descriptions)
        /\ <<"list">> \notin b
    BY <2>1 DEF Local, Placed
  <2>3. d.languages # 0 /\ d.descriptions # 0
    BY <1>4, <2>2, EntryCounts
  <2>4. <<"names">> \in Reached(d) /\ <<"table">> \in Reached(d)
    BY <2>3 DEF Reached
  <2> QED BY <1>3, <2>2, <2>4 DEF Lists
<1>5. Left(f, e, b \ Reached(d), s)
  BY <1>1, <1>3, <1>4 DEF Left
<1> QED BY <1>1, <1>2, <1>5 DEF Local, Placed, Returned, PCs

-----------------------------------------------------------------------------
(* A step changes one handle.                                              *)

\* What y has at h is v; the rest of x did not change.
Sets(x, y, h, v) == y = [x EXCEPT ![h] = v] \/ (y = x /\ v = x[h])

\* The struct, the file and the heap of a handle change, and of the mappings only its own.
LEMMA StepOfOne ==
  ASSUME HandleInv, NEW h \in Handles, NEW p, NEW f, NEW d, NEW b, NEW s,
         Sets(pc, pc', h, p), Sets(file, file', h, f), Sets(db, db', h, d),
         Sets(heap, heap', h, b), Sets(status, status', h, s),
         f \in Files[h] \cup {NoFile}, Local(p, f, d, b, s),
         maps' \in [Addresses -> Handles \cup {NoOwner}],
         \A g \in Handles \ {h}, a \in Addresses : (maps'[a] = g) <=> (maps[a] = g),
         p = "closed" => \A a \in Addresses : maps'[a] # h,
         p # "closed" => \A a \in Addresses : (maps'[a] = h) <=> (d.content = a)
  PROVE  HandleInv'
<1>1. /\ pc \in [Handles -> PCs] /\ db \in [Handles -> Struct]
      /\ status \in [Handles -> Statuses]
      /\ DOMAIN file = Handles /\ DOMAIN heap = Handles
  BY DEF HandleInv, TypeOK, PCs, Struct, Statuses
<1>2. p \in PCs /\ d \in Struct /\ s \in Statuses
  BY DEF Local
<1>3. /\ pc' \in [Handles -> PCs] /\ db' \in [Handles -> Struct]
      /\ status' \in [Handles -> Statuses]
      /\ DOMAIN file' = Handles /\ DOMAIN heap' = Handles
  BY <1>1, <1>2 DEF Sets
<1>4. pc'[h] = p /\ file'[h] = f /\ db'[h] = d /\ heap'[h] = b /\ status'[h] = s
  BY <1>1 DEF Sets
<1>5. \A g \in Handles \ {h} : /\ pc'[g] = pc[g] /\ file'[g] = file[g] /\ db'[g] = db[g]
                               /\ heap'[g] = heap[g] /\ status'[g] = status[g]
  BY <1>1 DEF Sets
<1>6. \A g \in Handles : Local(pc[g], file[g], db[g], heap[g], status[g])' /\ Owns(g)'
  <2> SUFFICES ASSUME NEW g \in Handles
               PROVE  Local(pc[g], file[g], db[g], heap[g], status[g])' /\ Owns(g)'
    OBVIOUS
  <2>1. CASE g = h
    BY <2>1, <1>4 DEF Owns
  <2>2. CASE g # h
    <3>1. Local(pc[g], file[g], db[g], heap[g], status[g]) /\ Owns(g)
      BY DEF HandleInv
    <3> QED BY <2>2, <3>1, <1>5 DEF Owns
  <2> QED BY <2>1, <2>2
<1>7. \A g \in Handles : file'[g] \in Files[g] \cup {NoFile}
  BY <1>4, <1>5 DEF HandleInv, TypeOK
<1>8. \A g \in Handles : /\ db'[g].languages <= Len(file'[g].languages)
                         /\ db'[g].descriptions <= Len(file'[g].descriptions)
  BY <1>6 DEF Local
<1>9. TypeOK'
  BY <1>3, <1>7, <1>8 DEF TypeOK, PCs, Struct, Statuses
<1> QED BY <1>3, <1>6, <1>9 DEF HandleInv

\* A step of MMDB_open() that leaves the mapping alone.
LEMMA StepOfOpen ==
  ASSUME HandleInv, NEW h \in Handles, NEW p, NEW d, NEW b, NEW s,
         Sets(pc, pc', h, p), Sets(db, db', h, d), Sets(heap, heap', h, b),
         Sets(status, status', h, s), UNCHANGED <<file, maps>>,
         Local(p, file[h], d, b, s), pc[h] # "closed", p # "closed",
         d.content = db[h].content
  PROVE  HandleInv'
<1>1. Sets(file, file', h, file[h])
  BY DEF Sets
<1>2. file[h] \in Files[h] \cup {NoFile} /\ maps \in [Addresses -> Handles \cup {NoOwner}]
  BY DEF HandleInv, TypeOK
<1>3. \A a \in Addresses : (maps[a] = h) <=> (d.content = a)
  BY DEF HandleInv, Owns
<1> QED BY <1>1, <1>2, <1>3, StepOfOne

\* `goto cleanup`, with the struct and the heap as they are.
LEMMA FailStep ==
  ASSUME HandleInv, NEW h \in Handles, pc[h] # "closed",
         NEW error \in Statuses \ {"NONE", "SUCCESS"}, Fail(h, error),
         UNCHANGED <<file, db, heap, maps>>
  PROVE  HandleInv'
<1>1. Local("cleanup", file[h], db[h], heap[h], error)
  BY FailLocal DEF HandleInv
<1>2. /\ Sets(pc, pc', h, "cleanup") /\ Sets(status, status', h, error)
      /\ Sets(db, db', h, db[h]) /\ Sets(heap, heap', h, heap[h])
  BY DEF Sets, Fail, Goto
<1> QED BY <1>1, <1>2, StepOfOpen

-----------------------------------------------------------------------------
(* Every step keeps the invariant.                                         *)

\* MMDB_open() of a closed handle forgets what the struct pointed to.
LEMMA OpenStep ==
  ASSUME HandleInv, NEW h \in Handles, NEW f \in Files[h], Open(h, f)
  PROVE  HandleInv'
<1> DEFINE d == [db[h] EXCEPT !.content = NoAddress, !.databaseType = FALSE,
                              !.languages = 0, !.descriptions = 0]
<1>1. /\ Sets(pc, pc', h, "filename") /\ Sets(file, file', h, f) /\ Sets(db, db', h, d)
      /\ Sets(heap, heap', h, {}) /\ Sets(status, status', h, "NONE")
      /\ maps' = maps /\ pc[h] = "closed"
  BY DEF Open, Goto, Sets
<1>2. f \in File
  BY HandleAssumption
<1>3. Local("closed", file[h], db[h], heap[h], status[h]) /\ Owns(h)
  BY <1>1 DEF HandleInv
<1>4. Local("filename", f, d, {}, "NONE")
  BY <1>2, <1>3, OpenLocal
<1>5. maps \in [Addresses -> Handles \cup {NoOwner}] /\ db[h] \in Struct
  BY DEF HandleInv, TypeOK, Struct
<1>6. d.content = NoAddress
  BY <1>5 DEF Struct
<1>7. \A a \in Addresses : maps[a] # h /\ a # NoAddress
  BY <1>1, <1>3, HandleAssumption DEF Owns
<1> HIDE DEF d
<1> QED BY <1>1, <1>4, <1>5, <1>6, <1>7, StepOfOne

\* The copy of the filename.
LEMMA CopyFilenameStep ==
  ASSUME HandleInv, NEW h \in Handles, CopyFilename(h)
  PROVE  HandleInv'
<1>1. pc[h] = "filename" /\ UNCHANGED <<file, maps>>
  BY DEF CopyFilename
<1>2. Local("filename", file[h], db[h], heap[h], status[h]) /\ db[h] \in Struct
  BY <1>1 DEF HandleInv, TypeOK, Struct
<1>3. CASE /\ Goto(h, "map") /\ Alloc(h, {<<"filename">>})
           /\ db' = [db EXCEPT ![h].filename = TRUE] /\ UNCHANGED status
  <2> DEFINE d == [db[h] EXCEPT !.filename = TRUE]
  <2>1. /\ Sets(pc, pc', h, "map") /\ Sets(db, db', h, d)
        /\ Sets(heap, heap', h, heap[h] \cup {<<"filename">>})
        /\ Sets(status, status', h, status[h])
    BY <1>3 DEF Sets, Goto, Alloc
  <2>2. Local("map", file[h], d, heap[h] \cup {<<"filename">>}, status[h])
    BY <1>2, FilenameLocal
  <2>3. d.content = db[h].content
    BY <1>2 DEF Struct
  <2> HIDE DEF d
  <2> QED BY <1>1, <2>1, <2>2, <2>3, StepOfOpen
<1>4. CASE /\ OutOfMemory(h) /\ db' = [db EXCEPT ![h].filename = FALSE] /\ UNCHANGED heap
  <2> DEFINE d == [db[h] EXCEPT !.filename = FALSE]
  <2>1. /\ Sets(pc, pc', h, "cleanup") /\ Sets(db, db', h, d)
        /\ Sets(heap, heap', h, heap[h]) /\ Sets(status, status', h, "OUT_OF_MEMORY")
    BY <1>4 DEF Sets, OutOfMemory, Fail, Goto
  <2>2. Local("cleanup", file[h], d, heap[h], "OUT_OF_MEMORY")
    BY <1>2, FilenameLocal
  <2>3. d.content = db[h].content
    BY <1>2 DEF Struct
  <2> HIDE DEF d
  <2> QED BY <1>1, <2>1, <2>2, <2>3, StepOfOpen
<1> QED BY <1>3, <1>4 DEF CopyFilename

\* map_file() takes an address nobody has.
LEMMA MapFileStep ==
  ASSUME HandleInv, NEW h \in Handles, MapFile(h)
  PROVE  HandleInv'
<1>1. pc[h] = "map" /\ UNCHANGED <<file, heap>>
  BY DEF MapFile
<1>2. Local("map", file[h], db[h], heap[h], status[h]) /\ db[h] \in Struct /\ Owns(h)
  BY <1>1 DEF HandleInv, TypeOK, Struct
<1>3. maps \in [Addresses -> Handles \cup {NoOwner}] /\ file[h] \in Files[h] \cup {NoFile}
  BY DEF HandleInv, TypeOK
<1>4. CASE /\ \E error \in {"FILE_OPEN", "IO"} : Fail(h, error)
           /\ UNCHANGED <<db, maps>>
  BY <1>1, <1>4, FailStep DEF Statuses
<1>5. CASE OutOfMemory(h) /\ UNCHANGED <<db, maps>>
  BY <1>1, <1>5, FailStep DEF Statuses, OutOfMemory
<1>6. ASSUME NEW a \in Addresses, maps[a] = NoOwner, maps' = [maps EXCEPT ![a] = h],
             db' = [db EXCEPT ![h].content = a], Goto(h, "header"), UNCHANGED status
      PROVE  HandleInv'
  <2> DEFINE d == [db[h] EXCEPT !.content = a]
  <2>1. /\ Sets(pc, pc', h, "header") /\ Sets(db, db', h, d) /\ Sets(file, file', h, file[h])
        /\ Sets(heap, heap', h, heap[h]) /\ Sets(status, status', h, status[h])
    BY <1>1, <1>6 DEF Sets, Goto
  <2>2. Local("header", file[h], d, heap[h], status[h])
    BY <1>2, MapLocal
  <2>3. d.content = a
    BY <1>2 DEF Struct
  <2>4. \A c \in Addresses : maps[c] # h
    <3>1. db[h].content = NoAddress
      BY <1>2 DEF Local, Placed
    <3> QED BY <3>1, <1>1, <1>2, HandleAssumption DEF Owns
  <2>5. maps' \in [Addresses -> Handles \cup {NoOwner}]
    BY <1>3, <1>6
  <2>6. \A g \in Handles \ {h}, c \in Addresses : (maps'[c] = g) <=> (maps[c] = g)
    BY <1>3, <1>6, HandleAssumption
  <2>7. \A c \in Addresses : (maps'[c] = h) <=> (d.content = c)
    BY <1>3, <1>6, <2>3, <2>4
  <2> HIDE DEF d
  <2> QED BY <1>3, <2>1, <2>2, <2>5, <2>6, <2>7, StepOfOne
<1> QED BY <1>4, <1>5, <1>6 DEF MapFile

\* The metadata up to ip_version.
LEMMA ReadHeaderStep ==
  ASSUME HandleInv, NEW h \in Handles, ReadHeader(h)
  PROVE  HandleInv'
<1>1. pc[h] = "header" /\ UNCHANGED <<file, maps>>
  BY DEF ReadHeader
<1>2. Local("header", file[h], db[h], heap[h], status[h]) /\ db[h] \in Struct
  BY <1>1 DEF HandleInv, TypeOK, Struct
<1>3. CASE /\ HeaderError(file[h]) # "SUCCESS" /\ Fail(h, HeaderError(file[h]))
           /\ UNCHANGED <<db, heap>>
  <2>1. HeaderError(file[h]) \in Statuses \ {"NONE", "SUCCESS"}
    BY <1>3 DEF HeaderError, Statuses
  <2> QED BY <1>1, <1>3, <2>1, FailStep
<1>4. CASE Fail(h, "INVALID_METADATA") /\ UNCHANGED <<db, heap>>
  BY <1>1, <1>4, FailStep DEF Statuses
<1>5. CASE /\ HeaderError(file[h]) = "SUCCESS" /\ Goto(h, "languages")
           /\ db' = [db EXCEPT ![h].databaseType = TRUE]
           /\ Alloc(h, {<<"database_type">>}) /\ UNCHANGED status
  <2> DEFINE d == [db[h] EXCEPT !.databaseType = TRUE]
  <2>1. /\ Sets(pc, pc', h, "languages") /\ Sets(db, db', h, d)
        /\ Sets(heap, heap', h, heap[h] \cup {<<"database_type">>})
        /\ Sets(status, status', h, status[h])
    BY <1>5 DEF Sets, Goto, Alloc
  <2>2. Local("languages", file[h], d, heap[h] \cup {<<"database_type">>}, status[h])
    BY <1>2, <1>5, HeaderLocal
  <2>3. d.content = db[h].content
    BY <1>2 DEF Struct
  <2> HIDE DEF d
  <2> QED BY <1>1, <2>1, <2>2, <2>3, StepOfOpen
<1> QED BY <1>3, <1>4, <1>5 DEF ReadHeader

\* The list of languages, and the array for them.
LEMMA StartLanguagesStep ==
  ASSUME HandleInv, NEW h \in Handles, StartLanguages(h)
  PROVE  HandleInv'
<1>1. pc[h] = "languages" /\ UNCHANGED <<file, maps>>
  BY DEF StartLanguages, StartList
<1>2. Local("languages", file[h], db[h], heap[h], status[h]) /\ db[h] \in Struct
  BY <1>1 DEF HandleInv, TypeOK, Struct
<1>3. CASE Fail(h, "INVALID_METADATA") /\ UNCHANGED <<db, heap>>
  BY <1>1, <1>3, FailStep DEF Statuses
<1>4. CASE Goto(h, "crashed") /\ UNCHANGED <<db, heap, status>>
  <2>1. Local("crashed", file[h], db[h], heap[h], status[h])
    BY <1>2, CrashLocal
  <2>2. /\ Sets(pc, pc', h, "crashed") /\ Sets(db, db', h, db[h])
        /\ Sets(heap, heap', h, heap[h]) /\ Sets(status, status', h, status[h])
    BY <1>4 DEF Sets, Goto
  <2> QED BY <1>1, <2>1, <2>2, StepOfOpen
<1>5. CASE /\ OutOfMemory(h) /\ Alloc(h, {<<"list">>})
           /\ db' = [db EXCEPT ![h]["languages"] = 0, ![h]["names"] = FALSE]
  <2> DEFINE d == [db[h] EXCEPT !.languages = 0, !.names = FALSE]
  <2>1. /\ Sets(pc, pc', h, "cleanup") /\ Sets(db, db', h, d)
        /\ Sets(heap, heap', h, heap[h] \cup {<<"list">>})
        /\ Sets(status, status', h, "OUT_OF_MEMORY")
    BY <1>5 DEF Sets, OutOfMemory, Fail, Goto, Alloc, HandleInv, TypeOK
  <2>2. Local("cleanup", file[h], d, heap[h] \cup {<<"list">>}, "OUT_OF_MEMORY")
    BY <1>2, LanguagesLocal
  <2>3. d.content = db[h].content
    BY <1>2 DEF Struct
  <2> HIDE DEF d
  <2> QED BY <1>1, <2>1, <2>2, <2>3, StepOfOpen
<1>6. CASE /\ Goto(h, "language") /\ Alloc(h, {<<"list">>, <<"names">>})
           /\ db' = [db EXCEPT ![h]["languages"] = 0, ![h]["names"] = TRUE]
           /\ UNCHANGED status
  <2> DEFINE d == [db[h] EXCEPT !.languages = 0, !.names = TRUE]
  <2>1. /\ Sets(pc, pc', h, "language") /\ Sets(db, db', h, d)
        /\ Sets(heap, heap', h, heap[h] \cup {<<"list">>, <<"names">>})
        /\ Sets(status, status', h, status[h])
    BY <1>6 DEF Sets, Goto, Alloc, HandleInv, TypeOK
  <2>2. Local("language", file[h], d, heap[h] \cup {<<"list">>, <<"names">>}, status[h])
    BY <1>2, LanguagesLocal
  <2>3. d.content = db[h].content
    BY <1>2 DEF Struct
  <2> HIDE DEF d
  <2> QED BY <1>1, <2>1, <2>2, <2>3, StepOfOpen
<1>7. CASE Goto(h, "chasing") /\ Alloc(h, {<<"list">>}) /\ UNCHANGED <<db, status>>
  <2>1. Local("chasing", file[h], db[h], heap[h] \cup {<<"list">>}, status[h])
    BY <1>2, ChasingLocal
  <2>2. /\ Sets(pc, pc', h, "chasing") /\ Sets(db, db', h, db[h])
        /\ Sets(heap, heap', h, heap[h] \cup {<<"list">>})
        /\ Sets(status, status', h, status[h])
    BY <1>7 DEF Sets, Goto, Alloc, HandleInv, TypeOK
  <2> QED BY <1>1, <2>1, <2>2, StepOfOpen
<1> QED BY <1>3, <1>4, <1>5, <1>6, <1>7 DEF StartLanguages, StartList

\* The copy of a language.
LEMMA NextLanguageStep ==
  ASSUME HandleInv, NEW h \in Handles, NextLanguage(h)
  PROVE  HandleInv'
<1> DEFINE i == db[h].languages + 1
<1>1. pc[h] = "language" /\ i <= Len(file[h].languages) /\ UNCHANGED <<file, maps>>
  BY DEF NextLanguage
<1>2. Local("language", file[h], db[h], heap[h], status[h]) /\ db[h] \in Struct
  BY <1>1 DEF HandleInv, TypeOK, Struct
<1>3. CASE Fail(h, "INVALID_METADATA") /\ UNCHANGED <<db, heap>>
  BY <1>1, <1>3, FailStep DEF Statuses
<1>4. CASE OutOfMemory(h) /\ UNCHANGED <<db, heap>>
  BY <1>1, <1>4, FailStep DEF Statuses, OutOfMemory
<1>5. CASE /\ Alloc(h, {<<"name", i>>}) /\ db' = [db EXCEPT ![h].languages = i]
           /\ UNCHANGED <<pc, status>>
  <2> DEFINE d == [db[h] EXCEPT !.languages = i]
  <2>1. /\ Sets(pc, pc', h, "language") /\ Sets(db, db', h, d)
        /\ Sets(heap, heap', h, heap[h] \cup {<<"name", i>>})
        /\ Sets(status, status', h, status[h])
    BY <1>1, <1>5 DEF Sets, Alloc
  <2>2. Local("language", file[h], d, heap[h] \cup {<<"name", i>>}, status[h])
    BY <1>1, <1>2, NextLanguageLocal
  <2>3. d.content = db[h].content
    BY <1>2 DEF Struct
  <2> HIDE DEF d
  <2> QED BY <1>1, <2>1, <2>2, <2>3, StepOfOpen
<1> QED BY <1>3, <1>4, <1>5 DEF NextLanguage

\* A list that ends early is followed into NULL.
LEMMA ShortListStep ==
  ASSUME HandleInv, NEW h \in Handles, ShortList(h)
  PROVE  HandleInv'
<1>1. pc[h] # "closed" /\ UNCHANGED <<file, db, heap, maps, status>> /\ Goto(h, "crashed")
  BY DEF ShortList
<1>2. Local("crashed", file[h], db[h], heap[h], status[h])
  BY <1>1, CrashLocal DEF HandleInv
<1>3. /\ Sets(pc, pc', h, "crashed") /\ Sets(db, db', h, db[h])
      /\ Sets(heap, heap', h, heap[h]) /\ Sets(status, status', h, status[h])
  BY <1>1 DEF Sets, Goto
<1> QED BY <1>1, <1>2, <1>3, StepOfOpen

\* The list of languages is freed.
LEMMA EndLanguagesStep ==
  ASSUME HandleInv, NEW h \in Handles, EndLanguages(h)
  PROVE  HandleInv'
<1>1. /\ pc[h] = "language" /\ UNCHANGED <<file, db, maps>>
      /\ db[h].languages = Len(file[h].languages)
      /\ heap' = [heap EXCEPT ![h] = @ \ {<<"list">>}]
  BY DEF EndLanguages
<1>2. Local("language", file[h], db[h], heap[h], status[h])
  BY <1>1 DEF HandleInv
<1>3. /\ Sets(db, db', h, db[h]) /\ Sets(heap, heap', h, heap[h] \ {<<"list">>})
  BY <1>1 DEF Sets
<1>4. CASE Fail(h, "INVALID_METADATA")
  <2>1. Sets(pc, pc', h, "cleanup") /\ Sets(status, status', h, "INVALID_METADATA")
    BY <1>4 DEF Sets, Fail, Goto
  <2>2. Local("cleanup", file[h], db[h], heap[h] \ {<<"list">>}, "INVALID_METADATA")
    BY <1>1, <1>2, EndLanguagesLocal
  <2> QED BY <1>1, <1>3, <2>1, <2>2, StepOfOpen
<1>5. CASE Goto(h, "descriptions") /\ UNCHANGED status
  <2>1. Sets(pc, pc', h, "descriptions") /\ Sets(status, status', h, status[h])
    BY <1>5 DEF Sets, Goto
  <2>2. Local("descriptions", file[h], db[h], heap[h] \ {<<"list">>}, status[h])
    BY <1>1, <1>2, EndLanguagesLocal
  <2> QED BY <1>1, <1>3, <2>1, <2>2, StepOfOpen
<1> QED BY <1>4, <1>5 DEF EndLanguages

\* The list of descriptions, and the array for them.
LEMMA StartDescriptionsStep ==
  ASSUME HandleInv, NEW h \in Handles, StartDescriptions(h)
  PROVE  HandleInv'
<1>1. pc[h] = "descriptions" /\ UNCHANGED <<file, maps>>
  BY DEF StartDescriptions, StartList
<1>2. Local("descriptions", file[h], db[h], heap[h], status[h]) /\ db[h] \in Struct
  BY <1>1 DEF HandleInv, TypeOK, Struct
<1>3. CASE Fail(h, "INVALID_METADATA") /\ UNCHANGED <<db, heap>>
  BY <1>1, <1>3, FailStep DEF Statuses
<1>4. CASE Goto(h, "crashed") /\ UNCHANGED <<db, heap, status>>
  <2>1. Local("crashed", file[h], db[h], heap[h], status[h])
    BY <1>2, CrashLocal
  <2>2. /\ Sets(pc, pc', h, "crashed") /\ Sets(db, db', h, db[h])
        /\ Sets(heap, heap', h, heap[h]) /\ Sets(status, status', h, status[h])
    BY <1>4 DEF Sets, Goto
  <2> QED BY <1>1, <2>1, <2>2, StepOfOpen
<1>5. CASE /\ file[h].descriptions # Missing /\ OutOfMemory(h) /\ Alloc(h, {<<"list">>})
           /\ db' = [db EXCEPT ![h]["descriptions"] = 0, ![h]["table"] = FALSE]
  <2> DEFINE d == [db[h] EXCEPT !.descriptions = 0, !.table = FALSE]
  <2>1. /\ Sets(pc, pc', h, "cleanup") /\ Sets(db, db', h, d)
        /\ Sets(heap, heap', h, heap[h] \cup {<<"list">>})
        /\ Sets(status, status', h, "OUT_OF_MEMORY")
    BY <1>5 DEF Sets, OutOfMemory, Fail, Goto, Alloc, HandleInv, TypeOK
  <2>2. Local("cleanup", file[h], d, heap[h] \cup {<<"list">>}, "OUT_OF_MEMORY")
    BY <1>2, <1>5, DescriptionsLocal
  <2>3. d.content = db[h].content
    BY <1>2 DEF Struct
  <2> HIDE DEF d
  <2> QED BY <1>1, <2>1, <2>2, <2>3, StepOfOpen
<1>6. CASE /\ file[h].descriptions # Missing /\ Goto(h, "description") /\ Alloc(h, {<<"list">>, <<"table">>})
           /\ db' = [db EXCEPT ![h]["descriptions"] = 0, ![h]["table"] = TRUE]
           /\ UNCHANGED status
  <2> DEFINE d == [db[h] EXCEPT !.descriptions = 0, !.table = TRUE]
  <2>1. /\ Sets(pc, pc', h, "description") /\ Sets(db, db', h, d)
        /\ Sets(heap, heap', h, heap[h] \cup {<<"list">>, <<"table">>})
        /\ Sets(status, status', h, status[h])
    BY <1>6 DEF Sets, Goto, Alloc, HandleInv, TypeOK
  <2>2. Local("description", file[h], d, heap[h] \cup {<<"list">>, <<"table">>}, status[h])
    BY <1>2, <1>6, DescriptionsLocal
  <2>3. d.content = db[h].content
    BY <1>2 DEF Struct
  <2> HIDE DEF d
  <2> QED BY <1>1, <2>1, <2>2, <2>3, StepOfOpen
<1>7. CASE Goto(h, "chasing") /\ Alloc(h, {<<"list">>}) /\ UNCHANGED <<db, status>>
  <2>1. Local("chasing", file[h], db[h], heap[h] \cup {<<"list">>}, status[h])
    BY <1>2, ChasingLocal
  <2>2. /\ Sets(pc, pc', h, "chasing") /\ Sets(db, db', h, db[h])
        /\ Sets(heap, heap', h, heap[h] \cup {<<"list">>})
        /\ Sets(status, status', h, status[h])
    BY <1>7 DEF Sets, Goto, Alloc, HandleInv, TypeOK
  <2> QED BY <1>1, <2>1, <2>2, StepOfOpen
<1> QED BY <1>3, <1>4, <1>5, <1>6, <1>7 DEF StartDescriptions, StartList

\* The copies of a description, all of them or the first ones.
LEMMA NextDescriptionStep ==
  ASSUME HandleInv, NEW h \in Handles, NextDescription(h)
  PROVE  HandleInv'
<1> DEFINE i == db[h].descriptions + 1
           all == Copies(file[h].descriptions[i])
<1>1. pc[h] = "description" /\ i <= Len(file[h].descriptions) /\ UNCHANGED <<file, maps>>
  BY DEF NextDescription
<1>2. Local("description", file[h], db[h], heap[h], status[h]) /\ db[h] \in Struct
  BY <1>1 DEF HandleInv, TypeOK, Struct
<1>3. PICK n \in 0 .. all :
        /\ Alloc(h, {<<"description", i, k>> : k \in 1 .. n})
        /\ IF n = 0 THEN db' = db ELSE db' = [db EXCEPT ![h].descriptions = i]
        /\ IF n < all THEN OutOfMemory(h)
           ELSE IF n < 3 THEN Fail(h, "INVALID_METADATA") ELSE UNCHANGED <<pc, status>>
  BY DEF NextDescription
<1>4. all \in 1 .. 3
  <2> DEFINE kinds == {"string", "bad_key", "bad_value", "key_cycle", "value_cycle"}
  <2>1. file[h].descriptions \in Seq(kinds) \cup {Missing}
    BY <1>2 DEF Local, File
  <2>2. file[h].descriptions # Missing
    BY <1>2 DEF Local, Placed
  <2>3. i \in 1 .. Len(file[h].descriptions)
    BY <1>1, <1>2 DEF Struct
  <2>4. file[h].descriptions[i] \in kinds
    BY <2>1, <2>2, <2>3
  <2> QED BY <2>4 DEF Copies
<1>5. \/ n = 0 /\ OutOfMemory(h)
      \/ n \in 1 .. 3 /\ OutOfMemory(h)
      \/ n \in 1 .. 3 /\ Fail(h, "INVALID_METADATA")
      \/ n \in 1 .. 3 /\ UNCHANGED <<pc, status>>
  BY <1>3, <1>4
<1>6. CASE n = 0 /\ OutOfMemory(h)
  <2>1. {<<"description", i, k>> : k \in 1 .. n} = {}
    BY <1>6
  <2>2. UNCHANGED db
    BY <1>3, <1>6
  <2>3. /\ Sets(pc, pc', h, "cleanup") /\ Sets(db, db', h, db[h])
        /\ Sets(heap, heap', h, heap[h]) /\ Sets(status, status', h, "OUT_OF_MEMORY")
    BY <1>3, <1>6, <2>1, <2>2 DEF Sets, OutOfMemory, Fail, Goto, Alloc
  <2>4. Local("cleanup", file[h], db[h], heap[h], "OUT_OF_MEMORY")
    BY <1>2, FailLocal DEF Statuses
  <2> QED BY <1>1, <2>3, <2>4, StepOfOpen
<1>7. CASE n \in 1 .. 3
  <2> DEFINE d == [db[h] EXCEPT !.descriptions = i]
             b == heap[h] \cup Blocks(i, n)
  <2>1. Sets(db, db', h, d) /\ Sets(heap, heap', h, b)
    BY <1>3, <1>7 DEF Sets, Alloc, Blocks
  <2>2. Local("description", file[h], d, b, status[h])
    BY <1>1, <1>2, <1>7, NextDescriptionLocal
  <2>3. d.content = db[h].content
    BY <1>2 DEF Struct
  <2> HIDE DEF d, b
  <2>4. ASSUME NEW error \in {"OUT_OF_MEMORY", "INVALID_METADATA"}, Fail(h, error)
        PROVE  HandleInv'
    <3>1. Sets(pc, pc', h, "cleanup") /\ Sets(status, status', h, error)
      BY <2>4 DEF Sets, Fail, Goto
    <3>2. Local("cleanup", file[h], d, b, error)
      BY <2>2, FailLocal DEF Statuses
    <3> QED BY <1>1, <2>1, <2>3, <3>1, <3>2, StepOfOpen
  <2>5. CASE UNCHANGED <<pc, status>>
    <3>1. Sets(pc, pc', h, "description") /\ Sets(status, status', h, status[h])
      BY <1>1, <2>5 DEF Sets
    <3> QED BY <1>1, <2>1, <2>2, <2>3, <3>1, StepOfOpen
  <2> QED BY <1>5, <1>7, <2>4, <2>5 DEF OutOfMemory
<1> QED BY <1>5, <1>6, <1>7

\* The list of descriptions is freed, and the version checked.
LEMMA EndDescriptionsStep ==
  ASSUME HandleInv, NEW h \in Handles, EndDescriptions(h)
  PROVE  HandleInv'
<1>1. /\ pc[h] = "description" /\ UNCHANGED <<file, db, maps>>
      /\ db[h].descriptions = Len(file[h].descriptions)
      /\ heap' = [heap EXCEPT ![h] = @ \ {<<"list">>}]
  BY DEF EndDescriptions
<1>2. Local("description", file[h], db[h], heap[h], status[h])
  BY <1>1 DEF HandleInv
<1>3. /\ Sets(db, db', h, db[h]) /\ Sets(heap, heap', h, heap[h] \ {<<"list">>})
  BY <1>1 DEF Sets
<1>4. CASE Fail(h, "UNKNOWN_DATABASE_FORMAT")
  <2>1. Sets(pc, pc', h, "cleanup") /\ Sets(status, status', h, "UNKNOWN_DATABASE_FORMAT")
    BY <1>4 DEF Sets, Fail, Goto
  <2>2. Local("cleanup", file[h], db[h], heap[h] \ {<<"list">>}, "UNKNOWN_DATABASE_FORMAT")
    BY <1>1, <1>2, EndDescriptionsLocal
  <2> QED BY <1>1, <1>3, <2>1, <2>2, StepOfOpen
<1>5. CASE file[h].major = 2 /\ Goto(h, "open") /\ status' = [status EXCEPT ![h] = "SUCCESS"]
  <2>1. Sets(pc, pc', h, "open") /\ Sets(status, status', h, "SUCCESS")
    BY <1>5 DEF Sets, Goto
  <2>2. Local("open", file[h], db[h], heap[h] \ {<<"list">>}, "SUCCESS")
    BY <1>1, <1>2, <1>5, EndDescriptionsLocal
  <2> QED BY <1>1, <1>3, <2>1, <2>2, StepOfOpen
<1> QED BY <1>4, <1>5 DEF EndDescriptions

\* free_mmdb_struct() unmaps what the handle has mapped, and nothing else.
LEMMA FreeStep ==
  ASSUME HandleInv, NEW h \in Handles, pc[h] \in {"cleanup", "open"}, FreeStruct(h)
  PROVE  /\ HandleInv'
         /\ \A g \in Handles, a \in Addresses :
              (maps[a] = g /\ maps'[a] # g) => g = h /\ db[h].content = a /\ pc'[h] = "closed"
<1> DEFINE d == db[h]
           e == [d EXCEPT !.filename = FALSE, !.databaseType = FALSE,
                          !.names = d.names /\ d.languages = 0,
                          !.table = d.table /\ d.descriptions = 0]
           b == heap[h] \ Reached(d)
<1>1. Local(pc[h], file[h], d, heap[h], status[h]) /\ Owns(h)
  BY DEF HandleInv
<1>2. ~ NullArray(d) /\ Local("closed", file[h], e, b, status[h])
  BY <1>1, FreeLocal
<1>3. /\ Sets(file, file', h, file[h]) /\ Sets(heap, heap', h, b)
      /\ Sets(status, status', h, status[h])
  BY DEF FreeStruct, Sets
<1>4. Sets(pc, pc', h, "closed") /\ pc' = [pc EXCEPT ![h] = "closed"]
  BY <1>2 DEF FreeStruct, Sets, Goto
<1>5. Sets(db, db', h, e)
  BY DEF FreeStruct, Sets
<1>6. maps \in [Addresses -> Handles \cup {NoOwner}] /\ file[h] \in Files[h] \cup {NoFile}
      /\ pc \in [Handles -> PCs]
  BY DEF HandleInv, TypeOK, PCs
<1>7. maps' = IF d.content = NoAddress THEN maps
              ELSE [maps EXCEPT ![d.content] = NoOwner]
  BY DEF FreeStruct
<1>8. \A a \in Addresses : (maps[a] = h) <=> (d.content = a)
  BY <1>1 DEF Owns
<1>9. maps' \in [Addresses -> Handles \cup {NoOwner}]
  BY <1>6, <1>7
<1>10. \A a \in Addresses : maps'[a] # h
  BY <1>6, <1>7, <1>8, HandleAssumption
<1>11. \A g \in Handles \ {h}, a \in Addresses : (maps'[a] = g) <=> (maps[a] = g)
  BY <1>6, <1>7, <1>8, HandleAssumption
<1>12. pc'[h] = "closed"
  BY <1>4, <1>6
<1> HIDE DEF d, e, b
<1>13. HandleInv'
  BY <1>2, <1>3, <1>4, <1>5, <1>6, <1>9, <1>10, <1>11, StepOfOne
<1> QED BY <1>8, <1>11, <1>12, <1>13 DEF d

-----------------------------------------------------------------------------
(* The theorems. *)

\* Every handle is closed at first, and no address is mapped.
LEMMA HandleInvInit ==
  Init => HandleInv
<1> SUFFICES ASSUME Init PROVE HandleInv
  OBVIOUS
<1>1. Len(Missing) = 1
  BY DEF Missing
<1>2. ZeroStruct \in Struct
  BY DEF ZeroStruct, Struct
<1>3. TypeOK
  BY <1>1, <1>2 DEF Init, TypeOK, Struct, ZeroStruct, NoFile
<1>4. \A h \in Handles : Local("closed", NoFile, ZeroStruct, {}, "NONE")
  BY <1>1, <1>2 DEF Local, Left, Placed, Returned, ZeroStruct, NoFile, PCs, Statuses
<1>5. \A h \in Handles : Owns(h)
  BY HandleAssumption DEF Init, Owns
<1> QED BY <1>3, <1>4, <1>5 DEF HandleInv, Init

\* A step of the process, with handles that are closed once, keeps the invariant.
LEMMA HandleInvStep ==
  ~ CloseTwice /\ HandleInv /\ [Next]_vars => HandleInv'
<1> SUFFICES ASSUME ~ CloseTwice, HandleInv, [Next]_vars PROVE HandleInv'
  OBVIOUS
<1>1. CASE UNCHANGED vars
  BY <1>1 DEF vars, HandleInv, TypeOK, Local, Covered, Placed, Returned, Left, Owns,
              NullArray, Reached
<1>2. ASSUME NEW h \in Handles, NEW f \in Files[h], Open(h, f) PROVE HandleInv'
  BY <1>2, OpenStep
<1>3. ASSUME NEW h \in Handles, Opening(h) PROVE HandleInv'
  BY <1>3, CopyFilenameStep, MapFileStep, ReadHeaderStep, StartLanguagesStep,
     NextLanguageStep, EndLanguagesStep, StartDescriptionsStep, NextDescriptionStep,
     EndDescriptionsStep, ShortListStep, FreeStep DEF Opening, CleanUp
<1>4. ASSUME NEW h \in Handles, Close(h) PROVE HandleInv'
  BY <1>4, FreeStep DEF Close
<1> QED BY <1>1, <1>2, <1>3, <1>4 DEF Next

\* A handle keeps its mapping until it is closed, or has failed to open.
LEMMA MapsStep ==
  ASSUME ~ CloseTwice, HandleInv, [Next]_vars, NEW a \in Addresses, NEW h \in Handles,
         maps[a] = h, maps'[a] # h
  PROVE  db[h].content = a /\ pc'[h] # pc[h]
<1>1. PICK g \in Handles : (\E f \in Files[g] : Open(g, f)) \/ Opening(g) \/ Close(g)
  BY DEF Next, vars
<1>2. CASE UNCHANGED maps
  BY <1>2
<1>3. CASE MapFile(g)
  <2>1. PICK c \in Addresses : maps[c] = NoOwner /\ maps' = [maps EXCEPT ![c] = g]
    BY <1>3 DEF MapFile
  <2>2. maps \in [Addresses -> Handles \cup {NoOwner}]
    BY DEF HandleInv, TypeOK
  <2> QED BY <2>1, <2>2, HandleAssumption
<1>4. CASE pc[g] \in {"cleanup", "open"} /\ FreeStruct(g)
  <2>1. h = g /\ db[g].content = a /\ pc'[g] = "closed"
    BY <1>4, FreeStep
  <2> QED BY <1>4, <2>1
<1>5. UNCHANGED maps \/ MapFile(g) \/ (pc[g] \in {"cleanup", "open"} /\ FreeStruct(g))
  BY <1>1 DEF Open, Opening, Close, CleanUp, CopyFilename, ReadHeader, StartLanguages,
     StartDescriptions, StartList, NextLanguage, EndLanguages, NextDescription,
     EndDescriptions, ShortList
<1> QED BY <1>2, <1>3, <1>4, <1>5

\* The invariant of the theorems below.
LEMMA HandleInvariant ==
  ~ CloseTwice => (Spec => []HandleInv)
<1>1. ASSUME ~ CloseTwice PROVE Spec => []HandleInv
  <2>1. HandleInv /\ [Next]_vars => HandleInv'
    BY <1>1, HandleInvStep
  <2> QED BY <2>1, HandleInvInit, PTL DEF Spec
<1> QED BY <1>1

\* What the blocks of a handle are, from what its struct reaches.
LEMMA CoveredCopies ==
  ASSUME NEW f, NEW d \in Struct, NEW b, Covered(f, d, b)
  PROVE  /\ Indexes(b, "name") = 1 .. d.languages
         /\ Indexes(b, "description") = 1 .. d.descriptions
<1>1. /\ \A i \in 1 .. d.languages : <<"name", i>> \in b
      /\ \A i \in 1 .. d.descriptions : <<"description", i, 1>> \in b
  BY DEF Covered
<1>2. \A c \in b : c[1] = "name" => \E i \in 1 .. d.languages : c = <<"name", i>>
  BY DEF Covered, Lists, Reached
<1>3. \A c \in b : c[1] = "description" =>
        \E i \in 1 .. d.descriptions, k \in 1 .. 3 : c = <<"description", i, k>>
  BY DEF Covered, Lists, Reached
<1>4. \A n : (n \in Indexes(b, "name")) <=> (n \in 1 .. d.languages)
  <2>1. \A i : <<"name", i>>[1] = "name" /\ <<"name", i>>[2] = i
    OBVIOUS
  <2>2. \A n \in Indexes(b, "name") : n \in 1 .. d.languages
    BY <1>2, <2>1 DEF Indexes
  <2>3. \A n \in 1 .. d.languages : n \in Indexes(b, "name")
    BY <1>1, <2>1 DEF Indexes
  <2> QED BY <2>2, <2>3
<1>5. \A n : (n \in Indexes(b, "description")) <=> (n \in 1 .. d.descriptions)
  <2>1. \A i, k : <<"description", i, k>>[1] = "description" /\ <<"description", i, k>>[2] = i
    OBVIOUS
  <2>2. \A n \in Indexes(b, "description") : n \in 1 .. d.descriptions
    BY <1>3, <2>1 DEF Indexes
  <2>3. \A n \in 1 .. d.descriptions : n \in Indexes(b, "description")
    BY <1>1, <2>1 DEF Indexes
  <2> QED BY <2>2, <2>3
<1> QED BY <1>4, <1>5

\* The variables stay in their types, and no count of a struct gets beyond the
\* languages and descriptions of its file.
THEOREM TypeCorrect == ~ CloseTwice => (Spec => []TypeOK)
<1>1. HandleInv => TypeOK
  BY DEF HandleInv
<1> QED BY <1>1, HandleInvariant, PTL

\* Wherever opening can fail, the counts that free_mmdb_struct() trusts are those of
\* the copies that were made, and a count that is not 0 has its array.
THEOREM CountsCorrect == ~ CloseTwice => (Spec => []CountsCoverCopies)
<1>1. HandleInv => CountsCoverCopies
  <2> SUFFICES ASSUME HandleInv, NEW h \in Handles, pc[h] # "closed"
               PROVE  /\ ~ NullArray(db[h])
                      /\ Indexes(heap[h], "name") = 1 .. db[h].languages
                      /\ Indexes(heap[h], "description") = 1 .. db[h].descriptions
    BY DEF CountsCoverCopies
  <2>1. Covered(file[h], db[h], heap[h]) /\ db[h] \in Struct
    BY DEF HandleInv, Local
  <2> QED BY <2>1, CoveredCopies DEF Covered
<1> QED BY <1>1, HandleInvariant, PTL

\* An MMDB_open() that failed leaves no mapping, and of its blocks at most the
\* list of entries and the two arrays.
THEOREM FailedOpenCorrect == ~ CloseTwice => (Spec => []FailedOpenLeavesLists)
<1>1. HandleInv => FailedOpenLeavesLists
  BY DEF HandleInv, Local, Left, Lists, Owns, FailedOpenLeavesLists
<1> QED BY <1>1, HandleInvariant, PTL

\* MMDB_close() gives back all that MMDB_open() took, if the file names a language
\* and has a description.
THEOREM BalanceCorrect == ~ CloseTwice => (Spec => []OpenCloseBalanced)
<1>1. HandleInv => OpenCloseBalanced
  BY DEF HandleInv, Local, Left, Owns, OpenCloseBalanced
<1> QED BY <1>1, HandleInvariant, PTL

\* A handle MMDB_open() returned has its own mapping, whatever the others do, and a
\* struct that agrees with a file the lookup can read.
THEOREM OpenHandleCorrect == ~ CloseTwice => (Spec => []OpenHandleUsable)
<1>1. HandleInv => OpenHandleUsable
  <2> SUFFICES ASSUME HandleInv, NEW h \in Handles, pc[h] = "open"
               PROVE  /\ db[h].content # NoAddress /\ maps[db[h].content] = h
                      /\ file[h].recordSize \in {24, 28, 32} /\ file[h].ipVersion \in {4, 6}
                      /\ file[h].major = 2
                      /\ db[h].filename /\ db[h].databaseType /\ db[h].names /\ db[h].table
                      /\ db[h].languages = Len(file[h].languages)
                      /\ db[h].descriptions = Len(file[h].descriptions)
    BY DEF OpenHandleUsable
  <2>1. Placed("open", file[h], db[h], heap[h]) /\ db[h] \in Struct /\ Owns(h)
    BY DEF HandleInv, Local
  <2>2. HeaderError(file[h]) = "SUCCESS"
    BY <2>1 DEF Placed
  <2>3. file[h].recordSize \in {24, 28, 32} /\ file[h].ipVersion \in {4, 6}
    BY <2>2 DEF HeaderError
  <2>4. db[h].content # NoAddress /\ maps[db[h].content] = h
    BY <2>1 DEF Placed, Struct, Owns
  <2> QED BY <2>1, <2>3, <2>4 DEF Placed
<1> QED BY <1>1, HandleInvariant, PTL

\* No open or close of a handle, failed or not, unmaps the file of another one.
THEOREM ForeignMapsKept == ~ CloseTwice => (Spec => KeepsForeignMaps)
<1>1. ASSUME ~ CloseTwice PROVE Spec => KeepsForeignMaps
  <2>1. HandleInv /\ [Next]_vars =>
          [\A a \in Addresses, h \in Handles :
             (maps[a] = h /\ maps'[a] # h) => db[h].content = a /\ pc'[h] # pc[h]]_vars
    BY <1>1, MapsStep
  <2>2. Spec => []HandleInv
    BY <1>1, HandleInvariant
  <2> QED BY <2>1, <2>2, PTL DEF Spec, KeepsForeignMaps
<1> QED BY <1>1
=============================================================================
