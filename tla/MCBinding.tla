------------------------------ MODULE MCBinding ------------------------------
(***************************************************************************)
(* Instances of Binding for TLC.                                           *)
(***************************************************************************)
EXTENDS Binding

AllFields == UNION {Fields[k] : k \in KeySet}

\* An entry in which some fields have a type of their own, some are absent, and
\* the others have the type that is read.
EntryOf(types, absent) ==
  [f \in AllFields |->
     IF f \in DOMAIN types THEN types[f]
     ELSE IF f \in absent THEN "absent" ELSE Member(f)]

\* "v4" is in every database, "gap" only in two of them, "v6" is an IPv6 address
\* and the netspeed database an IPv4 one, "host" is no address.
Found(entry) == [status |-> "found", entry |-> entry]
No(status) == [status |-> status, entry |-> <<>>]
AnswerOf(entry, gap, v6) ==
  [ip \in {"v4", "gap", "v6", "host"} |->
     CASE ip = "host" -> No("gai") [] ip = "gap" -> gap [] ip = "v6" -> v6
       [] OTHER -> Found(entry)]

AnEntry == EntryOf(<<>>, {"CITY_ZIP", "ISP_NAME"})
IspEntry == EntryOf([ISP_CODE |-> "uint32"], {})
OddEntry == EntryOf([COUNTRY_NAME |-> "map", CITY_TZ |-> "uint16"], {"CITY_METRO"})

\* The city files, of which the second has values of other types, and the files
\* of the other keys.
Files == {"country", "city", "odd", "isp", "netspeed", "anonymous"}
FileAnswer ==
  [d \in Files |->
     CASE d = "country" ->
            AnswerOf(EntryOf(<<>>, Fields.city), No("none"), Found(AnEntry))
       [] d = "city"      -> AnswerOf(AnEntry, No("none"), Found(AnEntry))
       [] d = "odd"       -> AnswerOf(OddEntry, Found(AnEntry), Found(AnEntry))
       [] d = "isp"       -> AnswerOf(IspEntry, No("none"), No("none"))
       [] d = "netspeed"  -> AnswerOf(AnEntry, Found(AnEntry), No("mmdb"))
       [] d = "anonymous" -> AnswerOf(AnEntry, No("none"), Found(AnEntry))]

FilesFor(files) ==
  [k \in KeySet |-> IF k \in DOMAIN files THEN files[k] ELSE NoDatabase]

\* Each file by itself, the two files of mmdbCity at once, all keys, and none.
FileLoads ==
  { FilesFor([country |-> "country"]), FilesFor([city |-> "odd"]),
    FilesFor([isp |-> "isp"]), FilesFor([netspeed |-> "netspeed"]),
    FilesFor([anonymous |-> "anonymous"]),
    FilesFor([country |-> "country", city |-> "city"]),
    FilesFor([country |-> "country", city |-> "city", isp |-> "isp",
              netspeed |-> "netspeed", anonymous |-> "anonymous"]),
    FilesFor(<<>>) }

NamesFor(names) ==
  [k \in KeySet |-> IF k \in DOMAIN names THEN names[k] ELSE NotRequested]

\* Everything, each key by itself, and a few masks.
NameChoices ==
  {[k \in KeySet |-> {"ALL"}]}
    \cup {NamesFor([k \in {key} |-> {"ALL"}]) : key \in KeySet}
    \cup { NamesFor([city |-> {"CITY_NAME"}, anonymous |-> {"ANYM_IS_TOR_EXIT_NODE"}]),
           NamesFor([country |-> {"COUNTRY_CODE", "COUNTRY_NAME"}, isp |-> {"ALL"}]),
           NamesFor([city |-> {}, isp |-> {"ISP_NAME"}]),
           NamesFor([anonymous |-> {"ANYM_IS_ANONYMOUS"}]) }

AllLookups == [ip : {"v4", "gap", "v6", "host"}, names : NameChoices]

\* For the runs about load() and unload(): one lookup.
OneLookup == [ip : {"v4"}, names : {[k \in KeySet |-> {"ALL"}]}]
=============================================================================
