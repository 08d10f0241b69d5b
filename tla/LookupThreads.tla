--------------------------- MODULE LookupThreads ----------------------------
(***************************************************************************)
(* Threads that call MMDB_lookup_string() and MMDB_lookup_sockaddr() on    *)
(* one MMDB_s (src/libmaxminddb/src/maxminddb.c).                          *)
(*                                                                         *)
(* All they share that is ever written is mmdb->ipv4_start_node, a cache   *)
(* of two members filled by find_ipv4_start_node() with no lock and no     *)
(* atomic access.  The two stores are two steps, taken in either order     *)
(* because the compiler and the machine may reorder them; the check of     *)
(* node_value and the copy of the struct are a step each.                  *)
(***************************************************************************)
EXTENDS SearchTree

CONSTANTS
  Threads,   \* the threads that share the handle
  Trees,     \* the search trees the file may hold
  Versions,  \* metadata.ip_version of those files
  Requests   \* the calls the threads make

ASSUME LookupAssumption ==
  /\ Trees \subseteq [Nodes -> [Bits -> Nat]]
  /\ Versions \subseteq {4, 6}
  /\ Requests \subseteq AllRequests

VARIABLES
  tree,        \* the mapped file, never written
  ipVersion,   \* metadata.ip_version, never written after MMDB_open()
  cacheValue,  \* mmdb->ipv4_start_node.node_value, 0: not known yet
  cacheMask,   \* mmdb->ipv4_start_node.netmask
  pc,          \* where each thread is
  req,         \* the arguments of its call
  node,        \* local: value, node_value
  mask,        \* local: netmask of the scan, and of the copied struct
  bit,         \* local: current_bit
  answer,      \* what its call returns
  settled      \* history: the cache was complete when the call began

shared == <<tree, ipVersion, cacheValue, cacheMask>>
locals == <<node, mask, bit>>
vars == <<tree, ipVersion, cacheValue, cacheMask,
          pc, req, node, mask, bit, answer, settled>>

NoRequest == [api |-> "sockaddr", family |-> 0, address |-> <<>>]

CacheSettled ==
  cacheValue = StartValue(tree) /\ cacheMask = StartMask(tree)

Init ==
  /\ tree \in Trees
  /\ ipVersion \in Versions
  /\ cacheValue = 0 /\ cacheMask = 0
  /\ pc = [t \in Threads |-> "idle"]
  /\ req = [t \in Threads |-> NoRequest]
  /\ node = [t \in Threads |-> 0]
  /\ mask = [t \in Threads |-> 0]
  /\ bit = [t \in Threads |-> 0]
  /\ answer = [t \in Threads |-> NoAnswer]
  /\ settled = [t \in Threads |-> FALSE]

-----------------------------------------------------------------------------
(* The arithmetic of the two loops. An operator X_slip is X with a mistake a  *)
(* change of the code could make; the specification does not use it.          *)

\* A record that is not the number of a node.
LeavesTree_slip(value) == value > NodeCount
LeavesTree(value) == value >= NodeCount

\* netmask after one turn of the scan: `break` skips the increment.
ScanMask_slip(value, m) == m + 1
ScanMask(value, m) == IF LeavesTree(value) THEN m ELSE m + 1

\* start_bit: the first bit of an address that is looked at. The slips: one bit
\* too early and one too late.
StartBit_early_slip(depth, m) == depth - m
StartBit_slip(depth, m) == depth - 2 - m
StartBit(depth, m) == depth - 1 - m

\* current_bit--; with an unsigned counter the loop would not get below 0.
NextBit_slip(b) == IF b = 0 THEN 0 ELSE b - 1
NextBit(b) == b - 1

-----------------------------------------------------------------------------

\* The application calls one of the two entry points.
Call(t, r) ==
  /\ pc[t] = "idle"
  /\ pc' = [pc EXCEPT ![t] = "called"]
  /\ req' = [req EXCEPT ![t] = r]
  /\ settled' = [settled EXCEPT ![t] = CacheSettled]
  /\ UNCHANGED <<shared, locals, answer>>

\* gai_error, and an IPv6 address in an IPv4 database.
Reject(t) ==
  /\ pc[t] = "called"
  /\ IsRejected(ipVersion, req[t])
  /\ pc' = [pc EXCEPT ![t] = "done"]
  /\ answer' = [answer EXCEPT ![t] = Rejection(req[t])]
  /\ UNCHANGED <<shared, req, locals, settled>>

\* find_address_in_search_tree() from the root.
EnterTree(t) ==
  /\ pc[t] = "called"
  /\ ~ IsRejected(ipVersion, req[t])
  /\ ~ IsMapped(ipVersion, req[t])
  /\ pc' = [pc EXCEPT ![t] = "walk"]
  /\ node' = [node EXCEPT ![t] = 0]
  /\ bit' = [bit EXCEPT ![t] = StartBit(Depth(ipVersion), 0)]
  /\ UNCHANGED <<shared, req, mask, answer, settled>>

\* find_ipv4_start_node(): the first, unsynchronised look at the cache.
CheckCache(t) ==
  /\ pc[t] = "called"
  /\ IsMapped(ipVersion, req[t])
  /\ pc' = [pc EXCEPT ![t] = IF cacheValue # 0 THEN "copy" ELSE "scan"]
  /\ node' = [node EXCEPT ![t] = 0]
  /\ mask' = [mask EXCEPT ![t] = 0]
  /\ UNCHANGED <<shared, req, bit, answer, settled>>

\* The scan with the cache itself as its counter.
ScanStep_slip(t) ==
  LET value == tree[node[t]][0]
      m     == ScanMask(value, mask[t])
  IN  /\ pc[t] = "scan"
      /\ node' = [node EXCEPT ![t] = value]
      /\ mask' = [mask EXCEPT ![t] = m]
      /\ cacheMask' = m
      /\ pc' = [pc EXCEPT ![t] =
                  IF LeavesTree(value) \/ m = SpineBits THEN "store" ELSE "scan"]
      /\ UNCHANGED <<tree, ipVersion, cacheValue, req, bit, answer, settled>>

\* One left record further, at most SpineBits times.
ScanStep(t) ==
  LET value == tree[node[t]][0]
      m     == ScanMask(value, mask[t])
  IN  /\ pc[t] = "scan"
      /\ node' = [node EXCEPT ![t] = value]
      /\ mask' = [mask EXCEPT ![t] = m]
      /\ pc' = [pc EXCEPT ![t] =
                  IF LeavesTree(value) \/ m = SpineBits THEN "store" ELSE "scan"]
      /\ UNCHANGED <<shared, req, bit, answer, settled>>

StoreValue(t) ==
  /\ pc[t] \in {"store", "store_value"}
  /\ cacheValue' = node[t]
  /\ pc' = [pc EXCEPT ![t] = IF pc[t] = "store" THEN "store_mask" ELSE "copy"]
  /\ UNCHANGED <<tree, ipVersion, cacheMask, req, locals, answer, settled>>

\* Only node_value is kept.
StoreMask_slip(t) ==
  /\ pc[t] \in {"store", "store_mask"}
  /\ pc' = [pc EXCEPT ![t] = IF pc[t] = "store" THEN "store_value" ELSE "copy"]
  /\ UNCHANGED <<shared, req, locals, answer, settled>>

StoreMask(t) ==
  /\ pc[t] \in {"store", "store_mask"}
  /\ cacheMask' = mask[t]
  /\ pc' = [pc EXCEPT ![t] = IF pc[t] = "store" THEN "store_value" ELSE "copy"]
  /\ UNCHANGED <<tree, ipVersion, cacheValue, req, locals, answer, settled>>

\* `return mmdb->ipv4_start_node`, and what the caller does with the copy.
CopyCache(t) ==
  /\ pc[t] = "copy"
  /\ node' = [node EXCEPT ![t] = cacheValue]
  /\ mask' = [mask EXCEPT ![t] = cacheMask]
  /\ IF LeavesTree(cacheValue)
     THEN /\ pc' = [pc EXCEPT ![t] = "done"]
          /\ answer' = [answer EXCEPT ![t] =
               PopulateResult(Depth(ipVersion), cacheValue, cacheMask)]
          /\ bit' = bit
     ELSE /\ pc' = [pc EXCEPT ![t] = "walk"]
          /\ bit' = [bit EXCEPT ![t] = StartBit(Depth(ipVersion), cacheMask)]
          /\ answer' = answer
  /\ UNCHANGED <<shared, req, settled>>

\* One turn of the loop over current_bit.
WalkStep(t) ==
  LET index == Depth(ipVersion) - 1 - bit[t]
      value == tree[node[t]][MappedAddress(ipVersion, req[t])[index]]
  IN  /\ pc[t] = "walk"
      /\ bit[t] >= 0
      /\ node' = [node EXCEPT ![t] = value]
      /\ IF value = 0 \/ LeavesTree(value)
         THEN /\ pc' = [pc EXCEPT ![t] = "done"]
              /\ answer' = [answer EXCEPT ![t] =
                   IF value = 0
                   THEN Failed("CORRUPT")
                   ELSE PopulateResult(Depth(ipVersion), value, bit[t])]
              /\ bit' = bit
         ELSE /\ bit' = [bit EXCEPT ![t] = NextBit(bit[t])]
              /\ UNCHANGED <<pc, answer>>
      /\ UNCHANGED <<shared, req, mask, settled>>

\* The address is used up and the walk is still inside the tree.
RunOut(t) ==
  /\ pc[t] = "walk"
  /\ bit[t] < 0
  /\ pc' = [pc EXCEPT ![t] = "done"]
  /\ answer' = [answer EXCEPT ![t] = Failed("CORRUPT")]
  /\ UNCHANGED <<shared, req, locals, settled>>

\* The caller takes the result; its locals are gone.
Return(t) ==
  /\ pc[t] = "done"
  /\ pc' = [pc EXCEPT ![t] = "idle"]
  /\ req' = [req EXCEPT ![t] = NoRequest]
  /\ node' = [node EXCEPT ![t] = 0]
  /\ mask' = [mask EXCEPT ![t] = 0]
  /\ bit' = [bit EXCEPT ![t] = 0]
  /\ answer' = [answer EXCEPT ![t] = NoAnswer]
  /\ settled' = [settled EXCEPT ![t] = FALSE]
  /\ UNCHANGED shared

\* What a thread does by itself once it has called.
Step(t) ==
  \/ Reject(t) \/ EnterTree(t) \/ CheckCache(t) \/ ScanStep(t)
  \/ StoreValue(t) \/ StoreMask(t) \/ CopyCache(t)
  \/ WalkStep(t) \/ RunOut(t)

Next ==
  \E t \in Threads :
    (\E r \in Requests : Call(t, r)) \/ Step(t) \/ Return(t)

Spec == Init /\ [][Next]_vars

\* The operating system runs every thread; nothing makes the application call.
FairSpec == Spec /\ \A t \in Threads : WF_vars(Step(t))

-----------------------------------------------------------------------------
(* Properties. *)

PCs == {"idle", "called", "scan", "store", "store_value", "store_mask",
        "copy", "walk", "done"}

Answers ==
  [gai : BOOLEAN,
   mmdbError : {"UNSET", "SUCCESS", "CORRUPT", "IPV6_LOOKUP_IN_IPV4_DATABASE"},
   found : BOOLEAN, offset : 0 .. DataSize, netmask : 0 .. V6Bits]

\* Every variable stays within its type; netmask and offset within the depth of
\* the tree and the data section (the uint16_t and uint32_t of the code).
TypeOK ==
  /\ tree \in Trees
  /\ ipVersion \in Versions
  /\ cacheValue \in Nat
  /\ cacheMask \in 0 .. SpineBits
  /\ pc \in [Threads -> PCs]
  /\ req \in [Threads -> Requests \cup {NoRequest}]
  /\ node \in [Threads -> Nat]
  /\ mask \in [Threads -> 0 .. SpineBits]
  /\ bit \in [Threads -> -1 .. V6Bits - 1]
  /\ answer \in [Threads -> Answers]
  /\ settled \in [Threads -> BOOLEAN]

\* No read of the mapped file lies outside the search tree, and no read of the
\* address outside its bytes, whatever half of the cache a thread has seen.
ReadsInside ==
  \A t \in Threads :
    /\ pc[t] = "scan" => node[t] \in Nodes
    /\ (pc[t] = "walk" /\ bit[t] >= 0) =>
         /\ node[t] \in Nodes
         /\ Depth(ipVersion) - 1 - bit[t] \in
              DOMAIN MappedAddress(ipVersion, req[t])

\* Each member of the cache is either as MMDB_open() left it or final.
CacheFieldsFinal ==
  /\ cacheValue \in {0, StartValue(tree)}
  /\ cacheMask \in {0, StartMask(tree)}

\* Other threads can see node_value without its netmask only while the thread
\* that stored the one has not stored the other.
TornOnlyInFlight ==
  (cacheValue # 0 /\ ~ CacheSettled) => \E t \in Threads : pc[t] = "store_mask"

\* Once it is complete, no lookup in flight changes the cache again, not even a
\* thread that scanned long before and stores only now.
CacheOnlyCompletes == [][CacheSettled => CacheSettled']_vars

\* The lookups the race cannot reach: those that need no start node, those that
\* began after the cache was complete, and those of a single thread.
OutsideRace(t) ==
  \/ ~ IsMapped(ipVersion, req[t])
  \/ settled[t]
  \/ \A u \in Threads : u = t

LookupRight(t) == Entry(answer[t]) = ExpectedEntry(tree, ipVersion, req[t])

\* A lookup outside the race returns the entry the tree holds for its address,
\* however it interleaves with the lookups that are filling the cache.
OrderedLookupsRight ==
  \A t \in Threads : (pc[t] = "done" /\ OutsideRace(t)) => LookupRight(t)

\* Such a lookup also reports the subnet of its address, unless the whole IPv4
\* range lies within one record of the tree (NetmaskTellsSubnet).
NetmaskOfSubnet ==
  \A t \in Threads :
    (/\ pc[t] = "done"
     /\ OutsideRace(t)
     /\ answer[t].mmdbError = "SUCCESS"
     /\ IsMapped(ipVersion, req[t]) => StartValue(tree) < NodeCount)
    => answer[t].netmask =
         SubnetBits(tree, MappedAddress(ipVersion, req[t]), Depth(ipVersion))

\* In a tree without a record back to the root an IPv4 address is looked up as
\* ::a.b.c.d, although the lookup starts in the middle of the tree.
MappedLookedUpAsV6 ==
  \A t \in Threads :
    (/\ pc[t] = "done"
     /\ OutsideRace(t)
     /\ IsMapped(ipVersion, req[t])
     /\ WellFormed(tree))
    => Entry(answer[t]) =
         EntryAt(tree, MappedAddress(ipVersion, req[t]), V6Bits, 0)

Phase(t) == IF pc[t] \in {"idle", "done"} THEN pc[t] ELSE "busy"

\* LookupThreads implements AtomicLookup, which knows neither the cache nor the
\* steps of a lookup: the answer is published by the step that ends the walk,
\* and is another than the tree's only for a call the race can reach.
Atomic ==
  INSTANCE AtomicLookup WITH
    phase <- [t \in Threads |-> Phase(t)],
    reply <- [t \in Threads |-> Entry(answer[t])],
    exposed <- [t \in Threads |-> ~ OutsideRace(t)]

\* The same with the promise that every call is answered.
ImplementsAtomic == Atomic!ASpec

\* Each step of a thread is a call, an answer, a return or nothing at all to the
\* application, and in the eyes of every other thread.
StepsAreAtomic == Atomic!ASafety

\* Every lookup ends, in any tree, cyclic ones included, and whatever the cache
\* holds: the depth bounds both loops.
LookupsEnd ==
  \A t \in Threads : pc[t] = "called" ~> pc[t] = "done"

\* doc/libmaxminddb.md:813: "This library is thread safe when compiled and
\* linked with a thread-safe malloc and free implementation": every lookup of
\* every thread returns the entry of its address.
ThreadSafe == \A t \in Threads : pc[t] = "done" => LookupRight(t)

\* doc/libmaxminddb.md:200: "The netmask member tells you what subnet the IP
\* address belongs to in this database".
NetmaskTellsSubnet ==
  \A t \in Threads :
    (pc[t] = "done" /\ answer[t].mmdbError = "SUCCESS") =>
      answer[t].netmask =
        SubnetBits(tree, MappedAddress(ipVersion, req[t]), Depth(ipVersion))

=============================================================================
