------------------------------- MODULE Binding -------------------------------
(***************************************************************************)
(* The Node.js module geoip2c (src/src/binding.cpp): load(), lookupIp()    *)
(* and unload() over the MMDB_s structs of the module.  JavaScript calls   *)
(* them one at a time; a call is several steps here because lookupIp()     *)
(* keeps one local mmdb_result through its five sections and may leave in  *)
(* the middle of any of them, and load() opens one file after the other.   *)
(*                                                                         *)
(* MMDB_open(), MMDB_close() and MMDB_lookup_string() are taken by what    *)
(* they do to a struct and return, see MMDBHandle and LookupThreads. Of a  *)
(* database it is kept what it answers for an address, and of an entry the *)
(* type of the value of each field.                                        *)
(***************************************************************************)
EXTENDS Integers, Sequences

CONSTANTS
  Databases,   \* the databases that can be loaded
  Answer,      \* Answer[d][ip]: a status and, if it is "found", an entry
  Loads,       \* the arguments of load(): for each key a database or none
  Lookups,     \* the arguments of lookupIp(): address, exported names per key
  NoDatabase,  \* no file for this key, or a struct whose filename is NULL
  NotRequested,\* an option that is undefined
  MaxMapped    \* bound: a struct that mapped as many files is not loaded again

\* The keys in the order both functions handle them.
Keys == <<"country", "city", "isp", "netspeed", "anonymous">>
KeySet == {Keys[i] : i \in DOMAIN Keys}

\* An address is no address, its lookup fails, or it has no entry, or one.
ASSUME BindingAssumption ==
  /\ NoDatabase \notin Databases
  /\ MaxMapped \in Nat
  /\ Loads \subseteq [KeySet -> Databases \cup {NoDatabase}]
  /\ \A d \in Databases, r \in Lookups :
       Answer[d][r.ip].status \in {"gai", "mmdb", "none", "found"}

\* mmdbCity serves both keys; mmdbCountry is never opened.
Struct(key) == IF key = "country" THEN "mmdbCity" ELSE
  CASE key = "city" -> "mmdbCity" [] key = "isp" -> "mmdbIsp"
    [] key = "netspeed" -> "mmdbNetspeed" [] key = "anonymous" -> "mmdbAnonymous"
Structs == {"mmdbCountry", "mmdbCity", "mmdbIsp", "mmdbNetspeed", "mmdbAnonymous"}

\* The fields of each key, by the name of their bit.
Fields ==
  [country   |-> {"COUNTRY_CODE", "COUNTRY_NAME", "COUNTRY_CONTINENT",
                  "COUNTRY_REGISTRED"},
   city      |-> {"CITY_ZIP", "CITY_NAME", "CITY_TZ", "CITY_REGION",
                  "CITY_METRO", "CITY_LAT", "CITY_LON"},
   isp       |-> {"ISP_CODE", "ISP_NAME", "ISP_NORGANIZATION",
                  "ISP_CORGANIZATION"},
   netspeed  |-> {"NETSPEED_TYPE"},
   anonymous |-> {"ANYM_IS_ANONYMOUS", "ANYM_IS_PUBPROXY",
                  "ANYM_IS_ANONYMOUS_VPN", "ANYM_IS_HOSTING_PROVIDER",
                  "ANYM_IS_TOR_EXIT_NODE"}]

\* The member of the union that is read. Only the macro for strings looks at
\* the type first.
Member(field) ==
  CASE field \in {"CITY_METRO", "ISP_CODE"}    -> "uint16"
    [] field \in {"CITY_LAT", "CITY_LON"}      -> "double"
    [] field \in Fields.anonymous              -> "boolean"
    [] OTHER                                   -> "utf8_string"

\* The bits an exported T_ constant stands for. Three of the anonymous ones are
\* set to the bit of another one, or not set at all, like three of the city
\* ones: an undefined name adds no bit.
Exported(key, name) ==
  CASE name = "ALL" -> Fields[key]
    [] name \in {"ANYM_IS_ANONYMOUS", "ANYM_IS_PUBPROXY"} ->
         {"ANYM_IS_ANONYMOUS_VPN"}
    [] name \in {"ANYM_IS_ANONYMOUS_VPN", "CITY_REGION", "CITY_METRO",
                 "CITY_LAT", "CITY_LON"} -> {}
    [] OTHER -> {name}

Mask(key, names) == UNION {Exported(key, name) : name \in names}

VARIABLES
  handle,   \* the database of each struct, NoDatabase: filename is NULL
  mapped,   \* files MMDB_open() mapped for each struct and nothing unmapped yet
  pc,       \* "idle", "load", "search" or "collect"
  section,  \* the key the running call is at
  args,     \* its arguments
  looked,   \* local mmdb_result: whose entry it is, NoDatabase: not set yet
  object,   \* the object it builds: for each key a value or NotRequested
  outcome,  \* of the last call: "loaded", "unloaded", "returned", "thrown",
            \* or "refused" for missing arguments
  reopened  \* history: the structs opened while they were open

vars == <<handle, mapped, pc, section, args, looked, object, outcome,
          reopened>>
libs == <<handle, mapped, reopened>>

NoObject == [k \in KeySet |-> NotRequested]
NoFiles == [k \in KeySet |-> NoDatabase]

Init ==
  /\ handle = [s \in Structs |-> NoDatabase]
  /\ mapped = [s \in Structs |-> 0]
  /\ pc = "idle"
  /\ section = 1
  /\ args = [ip |-> "none", names |-> NoObject, files |-> NoFiles]
  /\ looked = NoDatabase
  /\ object = NoObject
  /\ outcome = "none"
  /\ reopened = {}

-----------------------------------------------------------------------------

Key == Keys[section]
IsOpen(key) == handle[Struct(key)] # NoDatabase

\* What the database of a key answers to the running call.
At(key) == Answer[handle[Struct(key)]][args.ip]

\* load() of an object. Any other value is an object with none of the keys.
CallLoad(files) ==
  /\ pc = "idle"
  /\ \A s \in Structs : mapped[s] < MaxMapped
  /\ pc' = "load"
  /\ args' = [args EXCEPT !.files = files]
  /\ object' = NoObject /\ outcome' = "none"
  /\ UNCHANGED <<libs, section, looked>>

\* load() of undefined, and lookupIp() of anything but a string.
CallWithoutArguments ==
  /\ pc = "idle"
  /\ outcome' = "refused" /\ object' = NoObject
  /\ UNCHANGED <<libs, pc, section, args, looked>>

\* Nothing closes the struct before it is opened.
OpenStruct(s, d) ==
  /\ handle' = [handle EXCEPT ![s] = d]
  /\ mapped' = IF d = NoDatabase THEN mapped ELSE [mapped EXCEPT ![s] = @ + 1]
  /\ reopened' = IF handle[s] = NoDatabase THEN reopened ELSE reopened \cup {s}

\* loadMMDB() for one key: whatever happens, the status string stays empty. A
\* failed MMDB_open() leaves a struct without a filename.
LoadKey ==
  /\ pc = "load" /\ section <= Len(Keys)
  /\ section' = section + 1
  /\ \/ /\ args.files[Key] = NoDatabase
        /\ UNCHANGED <<libs, object>>
     \/ /\ args.files[Key] # NoDatabase
        /\ object' = [object EXCEPT ![Key] = "empty string"]
        /\ \/ OpenStruct(Struct(Key), args.files[Key])
           \/ OpenStruct(Struct(Key), NoDatabase)
  /\ UNCHANGED <<pc, args, looked, outcome>>

EndLoad ==
  /\ pc = "load" /\ section > Len(Keys)
  /\ pc' = "idle" /\ section' = 1 /\ outcome' = "loaded"
  /\ UNCHANGED <<libs, args, looked, object>>

\* Without `filename != NULL`.
Unload_slip ==
  /\ pc = "idle"
  /\ handle' = [s \in Structs |-> NoDatabase]
  /\ mapped' = [s \in Structs |-> mapped[s] - 1]
  /\ outcome' = "unloaded" /\ object' = NoObject
  /\ UNCHANGED <<pc, section, args, looked, reopened>>

Unload ==
  /\ pc = "idle"
  /\ handle' = [s \in Structs |-> NoDatabase]
  /\ mapped' = [s \in Structs |->
                  IF handle[s] = NoDatabase THEN mapped[s] ELSE mapped[s] - 1]
  /\ outcome' = "unloaded" /\ object' = NoObject
  /\ UNCHANGED <<pc, section, args, looked, reopened>>

-----------------------------------------------------------------------------
(* lookupIp() *)

CallLookup(ip, names) ==
  /\ pc = "idle"
  /\ pc' = "search"
  /\ args' = [args EXCEPT !.ip = ip, !.names = names]
  /\ looked' = NoDatabase /\ object' = NoObject
  /\ outcome' = "none"
  /\ UNCHANGED <<libs, section>>

Requested(key) == args.names[key] # NotRequested

\* An operator X_slip, here and above, is X with a mistake a change of the code
\* could make; the specification does not use it.
\* The shared search only for the country.
Searches_slip(key) == IsOpen(key) /\ key # "city" /\ Requested(key)

\* The country and the city section share one search, made before both.
Searches(key) ==
  /\ IsOpen(key)
  /\ IF key = "country" THEN Requested("country") \/ Requested("city")
     ELSE key # "city" /\ Requested(key)

Collects(key) == IsOpen(key) /\ Requested(key)

Throw ==
  /\ pc' = "idle" /\ section' = 1 /\ object' = NoObject /\ outcome' = "thrown"

\* Without an entry every search ends the call with an empty object.
Search_slip ==
  /\ pc = "search" /\ section <= Len(Keys)
  /\ \/ /\ ~ Searches(Key)
        /\ pc' = "collect"
        /\ UNCHANGED <<section, looked, object, outcome>>
     \/ /\ Searches(Key)
        /\ looked' = handle[Struct(Key)]
        /\ CASE At(Key).status \in {"gai", "mmdb"} -> Throw
             [] At(Key).status = "none" ->
                  /\ pc' = "idle" /\ section' = 1 /\ outcome' = "returned"
                  /\ object' = NoObject
             [] At(Key).status = "found" ->
                  /\ pc' = "collect"
                  /\ UNCHANGED <<section, object, outcome>>
  /\ UNCHANGED <<libs, args>>

\* MMDB_lookup_string() for the section. Without an entry the city search ends
\* the call with an empty object; the others go on with the next section.
Search ==
  /\ pc = "search" /\ section <= Len(Keys)
  /\ \/ /\ ~ Searches(Key)
        /\ pc' = "collect"
        /\ UNCHANGED <<section, looked, object, outcome>>
     \/ /\ Searches(Key)
        /\ looked' = handle[Struct(Key)]
        /\ CASE At(Key).status \in {"gai", "mmdb"} -> Throw
             [] At(Key).status = "none" ->
                  IF Key = "country"
                  THEN /\ pc' = "idle" /\ section' = 1 /\ outcome' = "returned"
                       /\ object' = NoObject
                  ELSE /\ section' = section + 1
                       /\ UNCHANGED <<pc, object, outcome>>
             [] At(Key).status = "found" ->
                  /\ pc' = "collect"
                  /\ UNCHANGED <<section, object, outcome>>
  /\ UNCHANGED <<libs, args>>

\* Strings that are not: the macro throws.
Unexpected(key, entry) ==
  {f \in Mask(key, args.names[key]) :
     Member(f) = "utf8_string" /\ entry[f] \notin {"absent", "utf8_string"}}

\* The object of a section: its default value for what the entry does not have.
NA == [type |-> "absent", read |-> "nothing"]
Values(key, names, entry) ==
  [f \in Mask(key, names) |->
     IF entry[f] = "absent" THEN NA ELSE [type |-> entry[f], read |-> Member(f)]]

\* Read the fields through mmdb_result.
Collect ==
  /\ pc = "collect"
  /\ \/ /\ ~ Collects(Key)
        /\ pc' = "search" /\ section' = section + 1
        /\ UNCHANGED <<object, outcome>>
     \/ /\ Collects(Key)
        /\ LET entry == Answer[looked][args.ip].entry
           IN  IF Unexpected(Key, entry) # {}
               THEN Throw
               ELSE /\ pc' = "search" /\ section' = section + 1
                    /\ object' = [object EXCEPT ![Key] =
                                    Values(Key, args.names[Key], entry)]
                    /\ UNCHANGED outcome
  /\ UNCHANGED <<libs, args, looked>>

EndLookup ==
  /\ pc = "search" /\ section > Len(Keys)
  /\ pc' = "idle" /\ section' = 1 /\ outcome' = "returned"
  /\ UNCHANGED <<libs, args, looked, object>>

Next ==
  \/ \E files \in Loads : CallLoad(files)
  \/ CallWithoutArguments
  \/ LoadKey \/ EndLoad \/ Unload
  \/ \E r \in Lookups : CallLookup(r.ip, r.names)
  \/ Search \/ Collect \/ EndLookup

Spec == Init /\ [][Next]_vars

-----------------------------------------------------------------------------
(* Properties. *)

\* Every variable stays within its type; no file is unmapped that was not mapped.
TypeOK ==
  /\ handle \in [Structs -> Databases \cup {NoDatabase}]
  /\ handle["mmdbCountry"] = NoDatabase
  /\ mapped \in [Structs -> Nat]
  /\ pc \in {"idle", "load", "search", "collect"}
  /\ section \in 1 .. Len(Keys) + 1
  /\ looked \in Databases \cup {NoDatabase}
  /\ DOMAIN object = KeySet
  /\ outcome \in {"none", "loaded", "unloaded", "returned", "thrown", "refused"}
  /\ reopened \subseteq Structs

\* A section reads fields only from an entry that was found, in its own database
\* and by the running call: the local mmdb_result is never the one of an earlier
\* section, nor left as the compiler made it.
EntryOfOwnDatabase ==
  (pc = "collect" /\ Collects(Key)) =>
    /\ looked = handle[Struct(Key)]
    /\ Answer[looked][args.ip].status = "found"

\* What lookupIp() has to do, section by section and without their order: an
\* address the city database does not have gives an empty object, whatever the
\* other databases hold; otherwise an error of any database asked for, or a value
\* of an unexpected type, takes the whole result away; otherwise each key has the
\* fields of the entry its own database has, if it has one.
ExpectedOutcome ==
  LET asked == {k \in KeySet : Requested(k) /\ IsOpen(k)}
      wrong(k) == \/ At(k).status \in {"gai", "mmdb"}
                  \/ At(k).status = "found" /\ Unexpected(k, At(k).entry) # {}
  IN  IF \E k \in asked : Struct(k) = "mmdbCity" /\ At(k).status = "none"
      THEN [outcome |-> "returned", object |-> NoObject]
      ELSE IF \E k \in asked : wrong(k)
      THEN [outcome |-> "thrown", object |-> NoObject]
      ELSE [outcome |-> "returned",
            object |-> [k \in KeySet |->
              IF k \in asked /\ At(k).status = "found"
              THEN Values(k, args.names[k], At(k).entry) ELSE NotRequested]]

\* Whatever was loaded, failed to load or was unloaded before, a lookupIp() that
\* has ended has returned, or thrown, what ExpectedOutcome says.
LookupAsSpecified ==
  outcome \in {"returned", "thrown"} =>
    ExpectedOutcome = [outcome |-> outcome, object |-> object]

\* unload() gives back every file of a struct that was never loaded twice without
\* an unload() in between, failed loads included (UnloadFreesMemory).
LoadedOnceIsFreed ==
  outcome = "unloaded" =>
    \A s \in Structs \ reopened : mapped[s] = 0

\* src/Readme.md:16: "geo.unload() to free memory".
UnloadFreesMemory ==
  outcome = "unloaded" => \A s \in Structs : mapped[s] = 0

\* doc/libmaxminddb.md:243: "To determine which union member is populated you
\* should look at the type member": a value is read through the member that its
\* type populates.
ReadsPopulatedMember ==
  outcome = "returned" =>
    \A k \in KeySet : object[k] # NotRequested =>
      \A f \in DOMAIN object[k] :
        object[k][f] = NA \/ object[k][f].type = object[k][f].read

=============================================================================
