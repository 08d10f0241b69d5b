----------------------------- MODULE SearchTree -----------------------------
(***************************************************************************)
(* The binary search tree of a MaxMind DB file as libmaxminddb sees it     *)
(* (src/libmaxminddb/src/maxminddb.c), without the loops that walk it.     *)
(*                                                                         *)
(* A tree maps a node number and an address bit to a record.  A record     *)
(* smaller than NodeCount is the number of another node; NodeCount itself  *)
(* says "no data"; a larger one points into the data section.  The packed  *)
(* 24, 28 and 32 bit forms of a record are not visible here.               *)
(*                                                                         *)
(* The operators below say what a lookup has to answer.  The loops of the  *)
(* code, with the cache they share, are in LookupThreads.                  *)
(***************************************************************************)
EXTENDS Integers

CONSTANTS
  NodeCount,  \* metadata.node_count
  DataSize,   \* data_section_size
  V4Bits,     \* bits of an IPv4 address: 32 in the code
  V6Bits      \* bits of an IPv6 address: 128 in the code

ASSUME SearchTreeAssumption ==
  /\ NodeCount \in Nat \ {0}
  /\ DataSize \in Nat
  /\ V4Bits \in Nat \ {0}
  /\ V6Bits \in Nat
  /\ V6Bits > V4Bits

Bits == {0, 1}
Nodes == 0 .. NodeCount - 1

\* Zero bits in front of an IPv4 address in an IPv6 tree: 96 in the code.
SpineBits == V6Bits - V4Bits

Depth(ipVersion) == IF ipVersion = 4 THEN V4Bits ELSE V6Bits

Addresses(family) ==
  CASE family = 4 -> [0 .. V4Bits - 1 -> Bits]
    [] family = 6 -> [0 .. V6Bits - 1 -> Bits]
    [] OTHER      -> {<<>>}

\* A call of the library. Family 0 is a string getaddrinfo() rejects.
AllRequests ==
  [api : {"string", "sockaddr"}, family : {4}, address : Addresses(4)] \cup
  [api : {"string", "sockaddr"}, family : {6}, address : Addresses(6)] \cup
  [api : {"string"}, family : {0}, address : Addresses(0)]

\* An IPv4 address asked of an IPv6 database.
IsMapped(ipVersion, r) == ipVersion = 6 /\ r.family = 4

\* The bits the lookup walks: an IPv4 address is put behind 12 zero bytes.
MappedAddress(ipVersion, r) ==
  IF IsMapped(ipVersion, r)
  THEN [i \in 0 .. V6Bits - 1 |->
          IF i < SpineBits THEN 0 ELSE r.address[i - SpineBits]]
  ELSE r.address

-----------------------------------------------------------------------------
(* Where the bits of an address lead. *)

Follow(tree, value, b) == IF value < NodeCount THEN tree[value][b] ELSE value

\* Path(tree, bits, n)[k] is the record reached after k bits. It stays at the
\* first record that leaves the tree.
Path(tree, bits, n) ==
  LET path[k \in 0 .. n] ==
        IF k = 0 THEN 0 ELSE Follow(tree, path[k - 1], bits[k - 1])
  IN  path

ZeroBits == [i \in 0 .. V6Bits - 1 |-> 0]

\* The records on the way to ::/96.
Spine(tree) == Path(tree, ZeroBits, SpineBits)

\* What find_ipv4_start_node() stores: the record the IPv4 part starts at, and
\* the number of nodes passed on the way.
StartValue(tree) == Spine(tree)[SpineBits]
StartMask(tree) ==
  IF StartValue(tree) < NodeCount
  THEN SpineBits
  ELSE CHOOSE k \in 0 .. SpineBits - 1 :
         /\ Spine(tree)[k] < NodeCount
         /\ Spine(tree)[k + 1] >= NodeCount

-----------------------------------------------------------------------------
(* Answers. *)

\* The result every lookup starts from; mmdb_error belongs to the caller and
\* holds whatever it held before.
NoAnswer == [gai |-> FALSE, mmdbError |-> "UNSET",
             found |-> FALSE, offset |-> 0, netmask |-> 0]

Failed(error) == [NoAnswer EXCEPT !.mmdbError = error]

\* With the netmask one bit short, and "no data" taken for an entry.
PopulateResult_slip(depth, value, bit) ==
  LET offset == value - NodeCount
  IN  IF offset > DataSize
      THEN Failed("CORRUPT")
      ELSE [gai |-> FALSE, mmdbError |-> "SUCCESS", found |-> offset >= 0,
            offset |-> offset, netmask |-> depth - bit - 1]

PopulateResult(depth, value, bit) ==
  LET offset == value - NodeCount
  IN  IF offset > DataSize
      THEN Failed("CORRUPT")
      ELSE [gai |-> FALSE, mmdbError |-> "SUCCESS", found |-> offset > 0,
            offset |-> offset, netmask |-> depth - bit]

\* The errors a call ends with before it looks at the tree.
IsRejected(ipVersion, r) == r.family = 0 \/ (ipVersion = 4 /\ r.family = 6)

Rejection(r) ==
  IF r.family = 0 THEN [NoAnswer EXCEPT !.gai = TRUE]
  ELSE IF r.api = "string" THEN Failed("IPV6_LOOKUP_IN_IPV4_DATABASE")
  ELSE NoAnswer

\* What the tree holds for a run of bits, of which the first `from` are not
\* checked for a record that leads back to the root.
EntryAt(tree, bits, depth, from) ==
  LET path == Path(tree, bits, depth)
      end  == path[depth]
  IN  IF \/ \E k \in from + 1 .. depth : path[k] = 0
         \/ end < NodeCount
         \/ end - NodeCount > DataSize
      THEN [mmdbError |-> "CORRUPT", found |-> FALSE, offset |-> 0]
      ELSE [mmdbError |-> "SUCCESS", found |-> end > NodeCount,
            offset |-> end - NodeCount]

Entry(answer) ==
  [mmdbError |-> answer.mmdbError, found |-> answer.found,
   offset |-> answer.offset]

\* The entry a call must return.
ExpectedEntry(tree, ipVersion, r) ==
  IF IsRejected(ipVersion, r)
  THEN Entry(Rejection(r))
  ELSE EntryAt(tree, MappedAddress(ipVersion, r), Depth(ipVersion),
               IF IsMapped(ipVersion, r) THEN SpineBits ELSE 0)

\* Number of leading bits that decide the entry of an address.
SubnetBits(tree, bits, depth) ==
  CHOOSE k \in 1 .. depth :
    /\ Path(tree, bits, depth)[k] >= NodeCount
    /\ Path(tree, bits, depth)[k - 1] < NodeCount

\* No record leads back to the root.
WellFormed(tree) == \A n \in Nodes, b \in Bits : tree[n][b] # 0
=============================================================================
