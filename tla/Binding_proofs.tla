---------------------------- MODULE Binding_proofs ----------------------------
(***************************************************************************)
(* Theorems about load(), lookupIp() and unload() (module Binding), for    *)
(* any databases with any entries and any arguments of the calls.          *)
(***************************************************************************)
EXTENDS Binding, TLAPS

-----------------------------------------------------------------------------
(* The invariant.                                                          *)

\* The result of the search the first two sections share.
CityFound == Searches("country") => At("country").status = "found"

Asked(key) == Requested(key) /\ IsOpen(key)

\* What a section leaves behind when the call goes on.
Handled(key) ==
  /\ Asked(key) => At(key).status \in {"none", "found"}
  /\ IF Asked(key) /\ At(key).status = "found"
     THEN /\ Unexpected(key, At(key).entry) = {}
          /\ object[key] = Values(key, args.names[key], At(key).entry)
     ELSE object[key] = NotRequested

\* A running lookupIp(): the sections before the present one are handled, the
\* others have no value yet, and the mmdb_result is the one the section needs.
LookupRuns ==
  /\ section \in 1 .. 6
  /\ \E r \in Lookups : args.ip = r.ip /\ args.names = r.names
  /\ \A i \in 1 .. 5 : i < section => Handled(Keys[i])
  /\ \A i \in 1 .. 5 : i >= section => object[Keys[i]] = NotRequested
  /\ (section > 1 \/ pc = "collect") => CityFound
  /\ pc = "collect" => section < 6
  /\ (pc = "collect" /\ section = 1) \/ (pc = "search" /\ section = 2) =>
       (Searches("country") => looked = handle["mmdbCity"])

\* Each struct has mapped one file or none, if it was never opened over.
FilesCounted ==
  \A s \in Structs :
    /\ handle[s] # NoDatabase => mapped[s] > 0
    /\ s \notin reopened => mapped[s] = IF handle[s] = NoDatabase THEN 0 ELSE 1

BindingInv ==
  /\ TypeOK
  /\ object = [k \in KeySet |-> object[k]]
  /\ DOMAIN args = {"ip", "names", "files"}
  /\ pc = "idle" => section = 1
  /\ pc # "idle" => outcome = "none"
  /\ pc = "load" => args.files \in Loads
  /\ pc \in {"search", "collect"} => LookupRuns
  /\ outcome = "unloaded" => \A s \in Structs : handle[s] = NoDatabase
  /\ FilesCounted
  /\ EntryOfOwnDatabase
  /\ LookupAsSpecified

-----------------------------------------------------------------------------
(* Keys, structs and the result that is expected.                          *)

\* The keys by their place, and the structs that serve them.
LEMMA KeyFacts ==
  /\ Len(Keys) = 5
  /\ KeySet = {"country", "city", "isp", "netspeed", "anonymous"}
  /\ Keys[1] = "country" /\ Keys[2] = "city" /\ Keys[3] = "isp"
  /\ Keys[4] = "netspeed" /\ Keys[5] = "anonymous"
  /\ \A i \in 1 .. 5 : Keys[i] \in KeySet /\ Struct(Keys[i]) \in Structs
  /\ \A i, j \in 1 .. 5 : Keys[i] = Keys[j] => i = j
  /\ \A key \in KeySet : \E i \in 1 .. 5 : key = Keys[i]
  /\ \A key \in KeySet : Struct(key) = "mmdbCity" <=> key \in {"country", "city"}
<1>1. /\ Len(Keys) = 5 /\ DOMAIN Keys = {1, 2, 3, 4, 5} /\ 1 .. 5 = {1, 2, 3, 4, 5}
      /\ Keys[1] = "country" /\ Keys[2] = "city" /\ Keys[3] = "isp"
      /\ Keys[4] = "netspeed" /\ Keys[5] = "anonymous"
  BY DEF Keys
<1>2. KeySet = {"country", "city", "isp", "netspeed", "anonymous"}
  BY <1>1 DEF KeySet
<1>3. \A i \in 1 .. 5 : Keys[i] \in KeySet /\ Struct(Keys[i]) \in Structs
  BY <1>1, <1>2 DEF Struct, Structs
<1>4. \A i, j \in 1 .. 5 : Keys[i] = Keys[j] => i = j
  BY <1>1
<1>5. \A key \in KeySet : \E i \in 1 .. 5 : key = Keys[i]
  BY <1>1, <1>2
<1>6. \A key \in KeySet : Struct(key) = "mmdbCity" <=> key \in {"country", "city"}
  BY <1>2 DEF Struct
<1> QED BY <1>1, <1>2, <1>3, <1>4, <1>5, <1>6

\* A section that was handled stays so while its part of the object is left alone.
LEMMA HandledStays ==
  ASSUME NEW key, UNCHANGED <<handle, args>>, object'[key] = object[key], Handled(key)
  PROVE  Handled(key)'
BY DEF Handled, Asked, Requested, IsOpen, At, Unexpected, Values

\* A section is handled by reading the fields of its entry.
LEMMA HandledNow ==
  ASSUME NEW key, UNCHANGED <<handle, args>>, Asked(key), At(key).status = "found",
         Unexpected(key, At(key).entry) = {},
         object'[key] = Values(key, args.names[key], At(key).entry)
  PROVE  Handled(key)'
<1>1. /\ Asked(key)' /\ At(key)' = At(key)
      /\ Unexpected(key, At(key).entry)' = Unexpected(key, At(key).entry)
      /\ Values(key, args.names[key], At(key).entry)' =
           Values(key, args.names[key], At(key).entry)
  BY DEF Asked, Requested, IsOpen, At, Unexpected, Values
<1> QED BY <1>1 DEF Handled

\* What is asked and answered is fixed while structs and arguments are.
LEMMA SameQuestion ==
  ASSUME UNCHANGED <<handle, args>>
  PROVE  /\ CityFound' <=> CityFound
         /\ Searches("country")' <=> Searches("country")
         /\ ExpectedOutcome' = ExpectedOutcome
<1>1. /\ \A key : IsOpen(key)' <=> IsOpen(key)
      /\ \A key : Requested(key)' <=> Requested(key)
      /\ \A key : At(key)' = At(key)
  BY DEF IsOpen, Requested, At
<1>2. ExpectedOutcome' = ExpectedOutcome
  BY DEF ExpectedOutcome, IsOpen, Requested, At, Unexpected, Values
<1> QED BY <1>1, <1>2 DEF CityFound, Searches

\* The entry of the search the first two sections share is there for both.
LEMMA CityAnswers ==
  ASSUME CityFound, NEW key \in KeySet, Asked(key), Struct(key) = "mmdbCity"
  PROVE  At(key).status = "found"
<1>1. key \in {"country", "city"}
  BY KeyFacts
<1>2. Struct("country") = "mmdbCity"
  BY DEF Struct
<1>3. Searches("country")
  BY <1>1, <1>2 DEF Searches, Asked, IsOpen
<1> QED BY <1>2, <1>3 DEF CityFound, At

\* An address the city database does not have.
LEMMA ExpectNothing ==
  ASSUME NEW key \in KeySet, Asked(key), Struct(key) = "mmdbCity", At(key).status = "none"
  PROVE  ExpectedOutcome = [outcome |-> "returned", object |-> NoObject]
BY DEF ExpectedOutcome, Asked

\* A search that failed, or a value of an unexpected type.
LEMMA ExpectThrow ==
  ASSUME NEW key \in KeySet, Asked(key),
         \/ At(key).status \in {"gai", "mmdb"}
         \/ At(key).status = "found" /\ Unexpected(key, At(key).entry) # {},
         \A k \in KeySet : (Asked(k) /\ Struct(k) = "mmdbCity") => At(k).status # "none"
  PROVE  ExpectedOutcome = [outcome |-> "thrown", object |-> NoObject]
BY DEF ExpectedOutcome, Asked

\* All sections were handled.
LEMMA ExpectObject ==
  ASSUME object = [k \in KeySet |-> object[k]], CityFound, \A k \in KeySet : Handled(k)
  PROVE  ExpectedOutcome = [outcome |-> "returned", object |-> object]
<1>1. \A k \in KeySet : (Asked(k) /\ Struct(k) = "mmdbCity") => At(k).status # "none"
  BY CityAnswers
<1>2. \A k \in KeySet : Asked(k) =>
        /\ At(k).status \notin {"gai", "mmdb"}
        /\ At(k).status = "found" => Unexpected(k, At(k).entry) = {}
  BY DEF Handled
<1>3. [k \in KeySet |-> IF k \in {j \in KeySet : Requested(j) /\ IsOpen(j)}
                           /\ At(k).status = "found"
                        THEN Values(k, args.names[k], At(k).entry) ELSE NotRequested]
      = object
  <2>1. \A k \in KeySet :
          (IF k \in {j \in KeySet : Requested(j) /\ IsOpen(j)} /\ At(k).status = "found"
           THEN Values(k, args.names[k], At(k).entry) ELSE NotRequested) = object[k]
    BY DEF Handled, Asked
  <2> QED BY <2>1
<1> QED BY <1>1, <1>2, <1>3 DEF ExpectedOutcome, Asked

-----------------------------------------------------------------------------
(* load() and unload().                                                    *)

\* The calls begin with an empty object.
LEMMA CallLoadStep ==
  ASSUME BindingInv, NEW files \in Loads, CallLoad(files)
  PROVE  BindingInv'
<1>1. /\ pc = "idle" /\ pc' = "load" /\ outcome' = "none" /\ object' = NoObject
      /\ args' = [args EXCEPT !.files = files]
      /\ UNCHANGED <<handle, mapped, reopened, section, looked>>
  BY DEF CallLoad, libs
<1>2. args'.files = files /\ DOMAIN args' = {"ip", "names", "files"}
  BY <1>1 DEF BindingInv
<1>3. TypeOK'
  BY <1>1 DEF BindingInv, TypeOK, NoObject
<1>4. object' = [k \in KeySet |-> object'[k]]
  BY <1>1 DEF NoObject
<1>5. FilesCounted'
  BY <1>1 DEF BindingInv, FilesCounted
<1> QED BY <1>1, <1>2, <1>3, <1>4, <1>5 DEF BindingInv, EntryOfOwnDatabase, LookupAsSpecified

\* Missing arguments.
LEMMA RefusedStep ==
  ASSUME BindingInv, CallWithoutArguments
  PROVE  BindingInv'
<1>1. /\ pc = "idle" /\ outcome' = "refused" /\ object' = NoObject
      /\ UNCHANGED <<handle, mapped, reopened, pc, section, args, looked>>
  BY DEF CallWithoutArguments, libs
<1>3. TypeOK'
  BY <1>1 DEF BindingInv, TypeOK, NoObject
<1>4. object' = [k \in KeySet |-> object'[k]]
  BY <1>1 DEF NoObject
<1>5. FilesCounted'
  BY <1>1 DEF BindingInv, FilesCounted
<1> QED BY <1>1, <1>3, <1>4, <1>5 DEF BindingInv, EntryOfOwnDatabase, LookupAsSpecified

\* unload() closes every struct that is open.
LEMMA UnloadStep ==
  ASSUME BindingInv, Unload
  PROVE  BindingInv'
<1>1. /\ pc = "idle" /\ outcome' = "unloaded" /\ object' = NoObject
      /\ handle' = [s \in Structs |-> NoDatabase]
      /\ mapped' = [s \in Structs |->
                      IF handle[s] = NoDatabase THEN mapped[s] ELSE mapped[s] - 1]
      /\ UNCHANGED <<reopened, pc, section, args, looked>>
  BY DEF Unload
<1>2. /\ handle \in [Structs -> Databases \cup {NoDatabase}]
      /\ mapped \in [Structs -> Nat] /\ FilesCounted
  BY DEF BindingInv, TypeOK
<1>3. \A s \in Structs : mapped'[s] \in Nat /\ handle'[s] = NoDatabase
  BY <1>1, <1>2 DEF FilesCounted
<1>4. FilesCounted'
  BY <1>1, <1>2, <1>3 DEF FilesCounted
<1>5. mapped' \in [Structs -> Nat]
  BY <1>1, <1>3
<1>6. "mmdbCountry" \in Structs
  BY DEF Structs
<1>7. TypeOK'
  BY <1>1, <1>3, <1>5, <1>6 DEF BindingInv, TypeOK, NoObject
<1>8. object' = [k \in KeySet |-> object'[k]]
  BY <1>1 DEF NoObject
<1> QED BY <1>1, <1>3, <1>4, <1>7, <1>8 DEF BindingInv, EntryOfOwnDatabase, LookupAsSpecified

\* loadMMDB() for one key.
LEMMA LoadKeyStep ==
  ASSUME BindingInv, LoadKey
  PROVE  BindingInv'
<1>1. /\ pc = "load" /\ pc' = "load" /\ section <= 5 /\ section' = section + 1
      /\ UNCHANGED <<args, looked, outcome>>
  BY KeyFacts DEF LoadKey
<1>2. /\ handle \in [Structs -> Databases \cup {NoDatabase}]
      /\ mapped \in [Structs -> Nat] /\ FilesCounted /\ reopened \subseteq Structs
      /\ section \in 1 .. 6 /\ outcome = "none" /\ handle["mmdbCountry"] = NoDatabase
  BY <1>1, KeyFacts DEF BindingInv, TypeOK
<1>3. Key \in KeySet /\ Struct(Key) \in Structs /\ Struct(Key) # "mmdbCountry"
  <2>1. Key \in KeySet /\ Struct(Key) \in Structs
    BY <1>1, <1>2, KeyFacts DEF Key
  <2>2. \A k \in {"country", "city", "isp", "netspeed", "anonymous"} : Struct(k) # "mmdbCountry"
    BY DEF Struct
  <2> QED BY <2>1, <2>2, KeyFacts
<1>4. /\ DOMAIN object' = KeySet
      /\ object' = [k \in KeySet |-> object'[k]]
  <2>1. object' = object \/ object' = [object EXCEPT ![Key] = "empty string"]
    BY DEF LoadKey
  <2> QED BY <2>1 DEF BindingInv
<1>5. CASE UNCHANGED libs
  <2>1. FilesCounted' /\ UNCHANGED <<handle, mapped, reopened>>
    BY <1>2, <1>5 DEF libs, FilesCounted
  <2> QED BY <1>1, <1>2, <1>4, <2>1, KeyFacts
          DEF BindingInv, TypeOK, EntryOfOwnDatabase, LookupAsSpecified
<1>6. ASSUME NEW d \in Databases \cup {NoDatabase}, OpenStruct(Struct(Key), d)
      PROVE  BindingInv'
  <2> DEFINE st == Struct(Key)
  <2>1. /\ handle' = [handle EXCEPT ![st] = d]
        /\ mapped' = IF d = NoDatabase THEN mapped ELSE [mapped EXCEPT ![st] = @ + 1]
        /\ reopened' = IF handle[st] = NoDatabase THEN reopened ELSE reopened \cup {st}
    BY <1>6 DEF OpenStruct
  <2>2. st \in Structs /\ st # "mmdbCountry"
    BY <1>3
  <2> HIDE DEF st
  <2>3. /\ handle' \in [Structs -> Databases \cup {NoDatabase}]
        /\ mapped' \in [Structs -> Nat] /\ reopened' \subseteq Structs
        /\ handle'["mmdbCountry"] = NoDatabase
    BY <1>2, <2>1, <2>2
  <2>4. \A s \in Structs \ {st} : handle'[s] = handle[s] /\ mapped'[s] = mapped[s]
                                  /\ (s \in reopened' <=> s \in reopened)
    BY <1>2, <2>1, <2>2
  <2>5. handle'[st] = d /\ mapped'[st] = IF d = NoDatabase THEN mapped[st] ELSE mapped[st] + 1
    BY <1>2, <2>1, <2>2
  <2>6. /\ d # NoDatabase => mapped'[st] > 0
        /\ st \notin reopened' => mapped'[st] = IF d = NoDatabase THEN 0 ELSE 1
    BY <1>2, <2>1, <2>2, <2>5 DEF FilesCounted
  <2>7. FilesCounted'
    BY <1>2, <2>4, <2>5, <2>6 DEF FilesCounted
  <2> QED BY <1>1, <1>2, <1>4, <2>3, <2>7, KeyFacts
          DEF BindingInv, TypeOK, EntryOfOwnDatabase, LookupAsSpecified
<1>7. args.files[Key] \in Databases \cup {NoDatabase}
  BY <1>1, <1>3, BindingAssumption DEF BindingInv
<1> QED BY <1>5, <1>6, <1>7 DEF LoadKey

\* load() returns.
LEMMA EndLoadStep ==
  ASSUME BindingInv, EndLoad
  PROVE  BindingInv'
<1>1. /\ pc = "load" /\ pc' = "idle" /\ section' = 1 /\ outcome' = "loaded"
      /\ UNCHANGED <<handle, mapped, reopened, args, looked, object>>
  BY DEF EndLoad, libs
<1>2. TypeOK'
  BY <1>1, KeyFacts DEF BindingInv, TypeOK
<1>3. FilesCounted'
  BY <1>1 DEF BindingInv, FilesCounted
<1> QED BY <1>1, <1>2, <1>3 DEF BindingInv, EntryOfOwnDatabase, LookupAsSpecified

-----------------------------------------------------------------------------
(* lookupIp().                                                             *)

\* What a step of lookupIp() leaves alone.
LEMMA LookupKeeps ==
  ASSUME BindingInv, UNCHANGED <<libs, args>>
  PROVE  FilesCounted' /\ UNCHANGED <<handle, mapped, reopened, args>>
BY DEF BindingInv, FilesCounted, libs

\* The call begins: no section was handled, and mmdb_result is not set.
LEMMA CallLookupStep ==
  ASSUME BindingInv, NEW r \in Lookups, CallLookup(r.ip, r.names)
  PROVE  BindingInv'
<1>1. /\ pc = "idle" /\ pc' = "search" /\ outcome' = "none" /\ object' = NoObject
      /\ args' = [args EXCEPT !.ip = r.ip, !.names = r.names] /\ looked' = NoDatabase
      /\ section = 1
      /\ UNCHANGED <<handle, mapped, reopened, section>>
  BY DEF CallLookup, libs, BindingInv
<1>2. args'.ip = r.ip /\ args'.names = r.names /\ DOMAIN args' = {"ip", "names", "files"}
  BY <1>1 DEF BindingInv
<1>3. TypeOK'
  BY <1>1 DEF BindingInv, TypeOK, NoObject
<1>4. object' = [k \in KeySet |-> object'[k]]
  BY <1>1 DEF NoObject
<1>5. FilesCounted'
  BY <1>1 DEF BindingInv, FilesCounted
<1>6. LookupRuns'
  BY <1>1, <1>2, KeyFacts DEF LookupRuns, NoObject
<1> QED BY <1>1, <1>2, <1>3, <1>4, <1>5, <1>6
        DEF BindingInv, EntryOfOwnDatabase, LookupAsSpecified

\* The call ends with what was expected of it.
LEMMA CallEnds ==
  ASSUME BindingInv, UNCHANGED <<libs, args>>, pc' = "idle", section' = 1,
         outcome' \in {"returned", "thrown"}, object' = [k \in KeySet |-> object'[k]],
         looked' \in Databases \cup {NoDatabase},
         ExpectedOutcome = [outcome |-> outcome', object |-> object']
  PROVE  BindingInv'
<1>1. FilesCounted' /\ UNCHANGED <<handle, mapped, reopened, args>>
  BY LookupKeeps
<1>2. ExpectedOutcome' = ExpectedOutcome
  BY <1>1, SameQuestion
<1>3. TypeOK'
  BY <1>1, KeyFacts DEF BindingInv, TypeOK
<1>4. LookupAsSpecified'
  BY <1>2 DEF LookupAsSpecified
<1> QED BY <1>1, <1>3, <1>4 DEF BindingInv, EntryOfOwnDatabase

\* The call goes on: with the fields of the section, or with the next one.
LEMMA CallGoesOn ==
  ASSUME BindingInv, UNCHANGED <<libs, args, outcome>>, pc \in {"search", "collect"},
         pc' \in {"search", "collect"}, object' = [k \in KeySet |-> object'[k]],
         looked' \in Databases \cup {NoDatabase}, LookupRuns', EntryOfOwnDatabase'
  PROVE  BindingInv'
<1>1. FilesCounted' /\ UNCHANGED <<handle, mapped, reopened, args>>
  BY LookupKeeps
<1>2. TypeOK'
  BY <1>1, KeyFacts DEF BindingInv, TypeOK, LookupRuns
<1>3. LookupAsSpecified'
  BY DEF BindingInv, LookupAsSpecified
<1> QED BY <1>1, <1>2, <1>3 DEF BindingInv

\* What a section finds: its key, and the arguments of the call.
LEMMA SectionFacts ==
  ASSUME BindingInv, pc \in {"search", "collect"}, section <= 5
  PROVE  /\ section \in 1 .. 5 /\ Key = Keys[section] /\ Key \in KeySet
         /\ section = 1 <=> Key = "country"
         /\ section = 2 <=> Key = "city"
         /\ Struct(Key) \in Structs
         /\ IsOpen(Key) => /\ handle[Struct(Key)] \in Databases
                           /\ At(Key).status \in {"gai", "mmdb", "none", "found"}
         /\ section > 1 => CityFound
         /\ object[Key] = NotRequested
<1>1. LookupRuns /\ section \in 1 .. 5
  BY DEF BindingInv, LookupRuns
<1>2. Key = Keys[section] /\ Key \in KeySet /\ Struct(Key) \in Structs
  BY <1>1, KeyFacts DEF Key
<1>3. (section = 1 <=> Key = "country") /\ (section = 2 <=> Key = "city")
  BY <1>1, <1>2, KeyFacts
<1>4. IsOpen(Key) => handle[Struct(Key)] \in Databases
  BY <1>2 DEF BindingInv, TypeOK, IsOpen
<1>5. IsOpen(Key) => At(Key).status \in {"gai", "mmdb", "none", "found"}
  BY <1>1, <1>4, BindingAssumption DEF LookupRuns, At
<1> QED BY <1>1, <1>2, <1>3, <1>4, <1>5 DEF LookupRuns

\* A section that is over, and those before it.
LEMMA NextSection ==
  ASSUME BindingInv, UNCHANGED <<libs, args>>, pc \in {"search", "collect"}, section <= 5,
         pc' = "search", section' = section + 1, object' = [k \in KeySet |-> object'[k]],
         NEW n \in 1 .. 5, n = section, CityFound, Handled(Keys[n])',
         \A k \in KeySet \ {Keys[n]} : object'[k] = object[k],
         section = 1 => (Searches("country") => looked' = handle["mmdbCity"])
  PROVE  LookupRuns' /\ EntryOfOwnDatabase'
<1>2. UNCHANGED <<handle, args>>
  BY LookupKeeps
<1>3. \A i \in 1 .. 5 : i # n => object'[Keys[i]] = object[Keys[i]]
  BY KeyFacts
<1>4. ASSUME NEW i \in 1 .. 5, i < section' PROVE Handled(Keys[i])'
  <2>1. CASE i = n
    BY <2>1
  <2>2. CASE i < n
    BY <2>2, <1>2, <1>3, HandledStays DEF BindingInv, LookupRuns
  <2> QED BY <1>4, <2>1, <2>2
<1>5. \A i \in 1 .. 5 : i >= section' => object'[Keys[i]] = NotRequested
  BY <1>3 DEF BindingInv, LookupRuns
<1>6. CityFound' /\ (Searches("country")' <=> Searches("country"))
  BY <1>2, SameQuestion
<1>7. \E r \in Lookups : args'.ip = r.ip /\ args'.names = r.names
  BY <1>2 DEF BindingInv, LookupRuns
<1>8. (pc' = "search" /\ section' = 2) => (Searches("country")' => looked' = handle'["mmdbCity"])
  BY <1>2, <1>6
<1>9. LookupRuns'
  BY <1>4, <1>5, <1>6, <1>7, <1>8 DEF LookupRuns
<1> QED BY <1>9 DEF EntryOfOwnDatabase

\* The search of a section.
LEMMA SearchStep ==
  ASSUME BindingInv, Search
  PROVE  BindingInv'
<1>1. pc = "search" /\ section <= 5 /\ UNCHANGED <<libs, args>>
  BY KeyFacts DEF Search
<1>2. /\ section \in 1 .. 5 /\ Key = Keys[section] /\ Key \in KeySet
      /\ section = 1 <=> Key = "country"
      /\ section = 2 <=> Key = "city"
      /\ IsOpen(Key) => /\ handle[Struct(Key)] \in Databases
                        /\ At(Key).status \in {"gai", "mmdb", "none", "found"}
      /\ section > 1 => CityFound
      /\ object[Key] = NotRequested
  BY <1>1, SectionFacts
<1>3. UNCHANGED <<handle, args>>
  BY <1>1, LookupKeeps
<1>4. LookupRuns /\ object = [k \in KeySet |-> object[k]] /\ outcome = "none"
      /\ looked \in Databases \cup {NoDatabase}
  BY <1>1 DEF BindingInv, TypeOK
<1>5. ASSUME pc' = "collect", UNCHANGED <<section, object, outcome>>,
             looked' \in Databases \cup {NoDatabase}, CityFound,
             section = 1 => (Searches("country") => looked' = handle["mmdbCity"]),
             Collects(Key) => looked' = handle[Struct(Key)] /\ At(Key).status = "found"
      PROVE  BindingInv'
  <2>1. \A i \in 1 .. 5 : i < section' => Handled(Keys[i])'
    BY <1>3, <1>4, <1>5, HandledStays DEF LookupRuns
  <2>2. CityFound' /\ (Searches("country")' <=> Searches("country"))
    BY <1>3, <1>5, SameQuestion
  <2>3. LookupRuns'
    BY <1>2, <1>3, <1>4, <1>5, <2>1, <2>2 DEF LookupRuns
  <2>5. /\ Collects(Key)' <=> Collects(Key)
        /\ At(Key)' = At(Key)
    BY <1>3, <1>5 DEF Collects, IsOpen, Requested, Key, At
  <2>6. object' = [k \in KeySet |-> object'[k]] /\ UNCHANGED <<libs, args, outcome>>
    BY <1>1, <1>4, <1>5
  <2>7. EntryOfOwnDatabase'
    BY <1>3, <1>5, <2>5 DEF EntryOfOwnDatabase, Collects, IsOpen, Requested, Key, At
  <2> QED BY <1>1, <1>5, <2>3, <2>6, <2>7, CallGoesOn
<1>6. CASE ~ Searches(Key) /\ pc' = "collect" /\ UNCHANGED <<section, looked, object, outcome>>
  <2>1. CityFound
    BY <1>2, <1>6 DEF CityFound
  <2>2. section = 1 => ~ Searches("country")
    BY <1>2, <1>6
  <2>3. Collects(Key) => looked' = handle[Struct(Key)] /\ At(Key).status = "found"
    <3> SUFFICES ASSUME Collects(Key)
                 PROVE  looked' = handle[Struct(Key)] /\ At(Key).status = "found"
      OBVIOUS
    <3>1. Key = "city" /\ section = 2
      BY <1>2, <1>6 DEF Searches, Collects
    <3>2. Struct("city") = "mmdbCity" /\ Struct("country") = "mmdbCity"
      BY DEF Struct
    <3>3. Searches("country")
      BY <3>1, <3>2 DEF Searches, Collects, IsOpen
    <3>4. looked = handle["mmdbCity"]
      BY <1>1, <1>4, <3>1, <3>3 DEF LookupRuns
    <3>5. At("country").status = "found" /\ At("city") = At("country")
      BY <2>1, <3>2, <3>3 DEF CityFound, At
    <3> QED BY <1>6, <3>1, <3>2, <3>4, <3>5
  <2> QED BY <1>4, <1>5, <1>6, <2>1, <2>2, <2>3
<1>7. ASSUME Searches(Key), looked' = handle[Struct(Key)]
      PROVE  /\ \E k \in KeySet : Asked(k) /\ At(k) = At(Key) /\ Struct(k) = Struct(Key)
             /\ IsOpen(Key) /\ looked' \in Databases \cup {NoDatabase}
             /\ Key # "city" /\ (Key # "country" => Asked(Key))
  <2>1. IsOpen(Key) /\ Key # "city"
    BY <1>7 DEF Searches
  <2>2. Struct("city") = "mmdbCity" /\ Struct("country") = "mmdbCity"
    BY DEF Struct
  <2>3. Key = "country" => (Asked("country") \/ Asked("city")) /\ At("city") = At("country")
    BY <1>7, <2>2 DEF Searches, Asked, IsOpen, At
  <2>4. Key # "country" => Asked(Key)
    BY <1>7 DEF Searches, Asked
  <2> QED BY <1>2, <1>7, <2>1, <2>2, <2>3, <2>4, KeyFacts
<1>8. ASSUME Searches(Key), looked' = handle[Struct(Key)], At(Key).status \in {"gai", "mmdb"}, Throw
      PROVE  BindingInv'
  <2>1. PICK k \in KeySet : Asked(k) /\ At(k) = At(Key) /\ Struct(k) = Struct(Key)
    BY <1>7, <1>8
  <2>2. \A j \in KeySet : (Asked(j) /\ Struct(j) = "mmdbCity") => At(j).status # "none"
    <3>1. CASE section > 1
      BY <3>1, <1>2, CityAnswers
    <3>2. CASE section = 1
      <4>1. Struct(Key) = "mmdbCity"
        BY <3>2, <1>2 DEF Struct
      <4> QED BY <4>1, <1>8 DEF At
    <3> QED BY <1>2, <3>1, <3>2
  <2>3. ExpectedOutcome = [outcome |-> "thrown", object |-> NoObject]
    BY <1>8, <2>1, <2>2, ExpectThrow
  <2>4. NoObject = [j \in KeySet |-> NoObject[j]]
    BY DEF NoObject
  <2> QED BY <1>1, <1>7, <1>8, <2>3, <2>4, CallEnds DEF Throw
<1>9. ASSUME Searches(Key), looked' = handle[Struct(Key)], At(Key).status = "none",
             Key = "country", pc' = "idle", section' = 1, outcome' = "returned",
             object' = NoObject
      PROVE  BindingInv'
  <2>1. PICK k \in KeySet : Asked(k) /\ At(k) = At(Key) /\ Struct(k) = Struct(Key)
    BY <1>7, <1>9
  <2>2. Struct(Key) = "mmdbCity"
    BY <1>9 DEF Struct
  <2>3. ExpectedOutcome = [outcome |-> "returned", object |-> NoObject]
    BY <1>9, <2>1, <2>2, ExpectNothing
  <2>4. NoObject = [j \in KeySet |-> NoObject[j]]
    BY DEF NoObject
  <2> QED BY <1>1, <1>7, <1>9, <2>3, <2>4, CallEnds
<1>10. ASSUME Searches(Key), looked' = handle[Struct(Key)], At(Key).status = "none",
              Key # "country", section' = section + 1, UNCHANGED <<pc, object, outcome>>
       PROVE  BindingInv'
  <2>1. CityFound /\ section # 1 /\ Asked(Key)
    BY <1>2, <1>7, <1>10
  <2>2. PICK n \in 1 .. 5 : n = section
    BY <1>2
  <2>3. Key = Keys[n]
    BY <1>2, <2>2
  <2>4. Handled(Keys[n])'
    BY <1>2, <1>3, <1>10, <2>1, <2>3 DEF Handled, Asked, Requested, IsOpen, At
  <2>5. object' = [k \in KeySet |-> object'[k]] /\ \A k \in KeySet : object'[k] = object[k]
    BY <1>4, <1>10
  <2>6. LookupRuns' /\ EntryOfOwnDatabase'
    BY <1>1, <1>10, <2>1, <2>2, <2>4, <2>5, NextSection
  <2> QED BY <1>1, <1>7, <1>10, <2>5, <2>6, CallGoesOn
<1>11. ASSUME Searches(Key), looked' = handle[Struct(Key)], At(Key).status = "found",
              pc' = "collect", UNCHANGED <<section, object, outcome>>
       PROVE  BindingInv'
  <2>1. CityFound
    BY <1>2, <1>11 DEF CityFound
  <2>2. section = 1 => Struct(Key) = "mmdbCity"
    BY <1>2 DEF Struct
  <2> QED BY <1>5, <1>7, <1>11, <2>1, <2>2
<1>12. Searches(Key) => IsOpen(Key)
  BY DEF Searches
<1> QED BY <1>2, <1>6, <1>8, <1>9, <1>10, <1>11, <1>12 DEF Search

\* The fields of a section are read, or it is left out.
LEMMA CollectStep ==
  ASSUME BindingInv, Collect
  PROVE  BindingInv'
<1>1. /\ pc = "collect" /\ UNCHANGED <<libs, args, looked>>
      /\ LookupRuns /\ section <= 5 /\ outcome = "none"
      /\ object = [k \in KeySet |-> object[k]] /\ looked \in Databases \cup {NoDatabase}
      /\ EntryOfOwnDatabase
  BY DEF Collect, BindingInv, LookupRuns, TypeOK
<1>2. Key \in KeySet /\ object[Key] = NotRequested /\ section \in 1 .. 5 /\ Key = Keys[section]
  BY <1>1, SectionFacts
<1>3. UNCHANGED <<handle, args>> /\ CityFound
  BY <1>1, LookupKeeps DEF LookupRuns
<1>4. PICK n \in 1 .. 5 : n = section
  BY <1>2
<1>5. Key = Keys[n]
  BY <1>2, <1>4
<1>6. section = 1 => (Searches("country") => looked' = handle["mmdbCity"])
  BY <1>1 DEF LookupRuns
<1>7. CASE ~ Collects(Key) /\ pc' = "search" /\ section' = section + 1 /\ UNCHANGED <<object, outcome>>
  <2>1. Handled(Keys[n])'
    BY <1>2, <1>3, <1>5, <1>7 DEF Handled, Collects, Asked, Requested, IsOpen
  <2>2. object' = [k \in KeySet |-> object'[k]] /\ \A k \in KeySet : object'[k] = object[k]
    BY <1>1, <1>7
  <2>3. LookupRuns' /\ EntryOfOwnDatabase'
    BY <1>1, <1>3, <1>4, <1>6, <1>7, <2>1, <2>2, NextSection
  <2> QED BY <1>1, <1>7, <2>2, <2>3, CallGoesOn
<1>8. ASSUME Collects(Key) PROVE BindingInv'
  <2>1. looked = handle[Struct(Key)] /\ Answer[looked][args.ip] = At(Key)
        /\ At(Key).status = "found" /\ Asked(Key)
    BY <1>1, <1>8 DEF EntryOfOwnDatabase, At, Asked, Collects
  <2>2. CASE Unexpected(Key, At(Key).entry) # {} /\ Throw
    <3>1. \A j \in KeySet : (Asked(j) /\ Struct(j) = "mmdbCity") => At(j).status # "none"
      BY <1>3, CityAnswers
    <3>2. ExpectedOutcome = [outcome |-> "thrown", object |-> NoObject]
      BY <1>2, <2>1, <2>2, <3>1, ExpectThrow
    <3>3. NoObject = [j \in KeySet |-> NoObject[j]]
      BY DEF NoObject
    <3> QED BY <1>1, <2>2, <3>2, <3>3, CallEnds DEF Throw
  <2>3. CASE /\ Unexpected(Key, At(Key).entry) = {} /\ pc' = "search" /\ section' = section + 1
             /\ object' = [object EXCEPT ![Key] = Values(Key, args.names[Key], At(Key).entry)]
             /\ UNCHANGED outcome
    <3>1. /\ object' = [k \in KeySet |-> object'[k]]
          /\ \A k \in KeySet \ {Key} : object'[k] = object[k]
          /\ object'[Key] = Values(Key, args.names[Key], At(Key).entry)
      BY <1>1, <1>2, <2>3
    <3>2. Handled(Keys[n])'
      BY <1>3, <1>5, <2>1, <2>3, <3>1, HandledNow
    <3>3. LookupRuns' /\ EntryOfOwnDatabase'
      BY <1>1, <1>3, <1>4, <1>5, <1>6, <2>3, <3>1, <3>2, NextSection
    <3> QED BY <1>1, <2>3, <3>1, <3>3, CallGoesOn
  <2> QED BY <1>8, <2>1, <2>2, <2>3 DEF Collect
<1> QED BY <1>7, <1>8 DEF Collect

\* lookupIp() returns its object.
LEMMA EndLookupStep ==
  ASSUME BindingInv, EndLookup
  PROVE  BindingInv'
<1>1. /\ pc = "search" /\ section > 5 /\ UNCHANGED <<libs, args, looked, object>>
      /\ pc' = "idle" /\ section' = 1 /\ outcome' = "returned"
      /\ LookupRuns /\ object = [k \in KeySet |-> object[k]]
      /\ looked \in Databases \cup {NoDatabase}
  BY KeyFacts DEF EndLookup, BindingInv, TypeOK
<1>2. CityFound /\ \A i \in 1 .. 5 : Handled(Keys[i])
  BY <1>1 DEF LookupRuns
<1>3. \A k \in KeySet : Handled(k)
  BY <1>2, KeyFacts
<1>4. ExpectedOutcome = [outcome |-> "returned", object |-> object]
  BY <1>1, <1>2, <1>3, ExpectObject
<1> QED BY <1>1, <1>4, CallEnds

-----------------------------------------------------------------------------
(* The theorems. *)

\* Nothing is loaded at first.
LEMMA BindingInvInit ==
  Init => BindingInv
<1> SUFFICES ASSUME Init PROVE BindingInv
  OBVIOUS
<1>1. "mmdbCountry" \in Structs
  BY DEF Structs
<1>2. TypeOK
  BY <1>1, KeyFacts DEF Init, TypeOK, NoObject
<1>3. object = [k \in KeySet |-> object[k]]
  BY DEF Init, NoObject
<1>4. FilesCounted
  BY DEF Init, FilesCounted
<1> QED BY <1>2, <1>3, <1>4 DEF Init, BindingInv, EntryOfOwnDatabase, LookupAsSpecified

\* Every step of every call keeps the invariant.
LEMMA BindingInvStep ==
  BindingInv /\ [Next]_vars => BindingInv'
<1> SUFFICES ASSUME BindingInv, [Next]_vars PROVE BindingInv'
  OBVIOUS
<1>1. CASE UNCHANGED vars
  <2>1. UNCHANGED <<handle, mapped, pc, section, args, looked, object, outcome, reopened>>
    BY <1>1 DEF vars
  <2>2. TypeOK' /\ FilesCounted'
    BY <2>1 DEF BindingInv, TypeOK, FilesCounted
  <2>3. ASSUME LookupRuns PROVE LookupRuns'
    <3>1. \A i \in 1 .. 5 : Handled(Keys[i]) => Handled(Keys[i])'
      BY <2>1, HandledStays
    <3>2. (CityFound' <=> CityFound) /\ (Searches("country")' <=> Searches("country"))
      BY <2>1, SameQuestion
    <3> QED BY <2>1, <2>3, <3>1, <3>2 DEF LookupRuns
  <2>4. EntryOfOwnDatabase'
    BY <2>1 DEF BindingInv, EntryOfOwnDatabase, Collects, Requested, IsOpen, Key
  <2>5. LookupAsSpecified'
    BY <2>1, SameQuestion DEF BindingInv, LookupAsSpecified
  <2> QED BY <2>1, <2>2, <2>3, <2>4, <2>5 DEF BindingInv
<1> QED BY <1>1, CallLoadStep, RefusedStep, LoadKeyStep, EndLoadStep, UnloadStep,
           CallLookupStep, SearchStep, CollectStep, EndLookupStep DEF Next

\* The invariant of the theorems below.
LEMMA BindingInvariant ==
  Spec => []BindingInv
BY BindingInvInit, BindingInvStep, PTL DEF Spec

\* Every variable stays in its type, and unload() unmaps only what was mapped.
THEOREM TypeCorrect == Spec => []TypeOK
<1>1. BindingInv => TypeOK
  BY DEF BindingInv
<1> QED BY <1>1, BindingInvariant, PTL

\* The local mmdb_result of lookupIp() is the one of the running section: its
\* fields are read from an entry that was found in the section's own database.
THEOREM EntryIsOwn == Spec => []EntryOfOwnDatabase
<1>1. BindingInv => EntryOfOwnDatabase
  BY DEF BindingInv
<1> QED BY <1>1, BindingInvariant, PTL

\* lookupIp() does what its sections mean without their order, for every content
\* of the databases and after every sequence of load() and unload().
THEOREM LookupCorrect == Spec => []LookupAsSpecified
<1>1. BindingInv => LookupAsSpecified
  BY DEF BindingInv
<1> QED BY <1>1, BindingInvariant, PTL

\* unload() leaves mapped only what was loaded over.
THEOREM UnloadCorrect == Spec => []LoadedOnceIsFreed
<1>1. BindingInv => LoadedOnceIsFreed
  BY DEF BindingInv, FilesCounted, LoadedOnceIsFreed
<1> QED BY <1>1, BindingInvariant, PTL
=============================================================================
