------------------------------ MODULE MCLookup ------------------------------
(***************************************************************************)
(* Instances of LookupThreads for TLC.                                     *)
(***************************************************************************)
EXTENDS LookupThreads

\* Every tree of NodeCount nodes whose records reach one beyond the data.
EveryTree == [Nodes -> [Bits -> 0 .. NodeCount + DataSize + 1]]

Node4(l, r) ==
  [n \in Nodes |-> [b \in Bits |-> IF b = 0 THEN l[n + 1] ELSE r[n + 1]]]

\* Four nodes, three data records (5, 6, 7); 4 means no data.
\* 0: the IPv4 part begins at node 2 after two zero bits and has two levels.
\* 1: ::/2 is one record, so the IPv4 range lies within it.
\* 2: no IPv4 data: the spine ends in "no data".
\* 3: the spine leads back to the root, so the start node is node 0.
\* 4: node 2 refers to itself: the walk runs out of bits.
ThreadTrees ==
  { Node4(<<1, 2, 3, 5>>, <<5, 6, 7, 4>>),
    Node4(<<5, 2, 3, 5>>, <<1, 6, 7, 4>>),
    Node4(<<1, 4, 3, 5>>, <<5, 6, 7, 4>>),
    Node4(<<1, 0, 3, 5>>, <<2, 6, 7, 4>>),
    Node4(<<1, 2, 2, 5>>, <<5, 6, 2, 4>>) }

V4Request(api, a) == [api |-> api, family |-> 4, address |-> a]
V6Request(api, a) == [api |-> api, family |-> 6, address |-> a]

\* Two IPv4 addresses that differ in their last bit, two IPv6 addresses, one of
\* them ::, and one string that is no address.
ThreadRequests ==
  { V4Request("string", [i \in 0 .. V4Bits - 1 |-> 0]),
    V4Request("sockaddr", [i \in 0 .. V4Bits - 1 |-> i % 2]),
    V6Request("sockaddr", [i \in 0 .. V6Bits - 1 |-> 1 - (i % 2)]),
    V6Request("string", [i \in 0 .. V6Bits - 1 |-> 0]),
    [api |-> "string", family |-> 0, address |-> <<>>] }
=============================================================================
