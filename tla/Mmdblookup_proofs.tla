------------------------- MODULE Mmdblookup_proofs -------------------------
(***************************************************************************)
(* The list of fields that get_entry_data_list() builds, for every data    *)
(* section, legal or not: it is linked in the order of its allocation, it  *)
(* is freed whole, and it has as many nodes as a dump of it reads.         *)
(***************************************************************************)
EXTENDS Mmdblookup, Facts_proofs

-----------------------------------------------------------------------------
(* The invariant.                                                          *)

Building == at \in {"enter", "chase", "element", "return"}
Dumping == at \in {"dump", "member"}

Entries ==
  [type : {section[o].type : o \in DOMAIN section} \cup {"none"}, size : Nat,
   value : {section[o].value : o \in DOMAIN section} \cup {"none"},
   pointer : Nat, offset : Nat, next : Nat]

Frame ==
  [at : {"pointer", "elements"}, node : Nat, previous : Nat, child : Nat, left : Nat,
   next : Nat]

Loop == [type : {"map", "array"}, left : Nat]

Node == [entry : Entries, next : Nat]

\* What the variables hold.
Typed ==
  /\ section \in {input.section : input \in Inputs}
  /\ nodes \in Seq(Node)
  /\ "node" \in DOMAIN call
  /\ Building => frames \in Seq(Frame)
  /\ Dumping => frames \in Seq(Loop)

\* Which call of the library the program is in, and what it has opened.
Controlled ==
  /\ pc \in {"options", "open", "lookup", "value", "list", "dump", "benchmark",
             "benchmark_list", "end", "exit"}
  /\ at \in {"idle", "descend", "enter", "chase", "element", "return", "dump",
             "member", "crashed"}
  /\ status \in {"SUCCESS", "INVALID_DATA", "INVALID_LOOKUP_PATH",
                 "LOOKUP_PATH_DOES_NOT_MATCH", "OUT_OF_MEMORY"}
  /\ code \in {"none", "0", "1", "2", "3", "4", "5", "6"}
  /\ at = "descend" => pc = "value"
  /\ Building => pc \in {"list", "benchmark_list"}
  /\ Dumping => pc = "dump"
  /\ pc \in {"options", "open"} => ~ mapped
  /\ (pc = "exit" /\ code \notin {"3", "4"}) => ~ mapped
  /\ pc \notin {"dump", "end", "exit"} => cursor = 0

\* The list is linked in the order its nodes were allocated in.
Linked ==
  \A n \in 1 .. Len(nodes) : nodes[n].next = (IF n < Len(nodes) THEN n + 1 ELSE 0)

\* All nodes are on the heap or none is, and none is between two lists.
Owned ==
  /\ Len(nodes) <= MaxNodes
  /\ heap \in {{}, 1 .. Len(nodes)}
  /\ pc \in {"options", "open", "lookup", "value", "benchmark", "exit"} => heap = {}
  /\ Building => heap = 1 .. Len(nodes)

\* How many nodes the first n nodes of a list announce.
Announced(ns, n) == Sum([i \in 1 .. Len(ns) |-> Inside(ns[i].entry)], n)

\* How many nodes the callers of get_entry_data_list() have still to append, and how
\* many the loops of a dump have still to read.
Waiting(fs) == Stacked([k \in 1 .. Len(fs) |-> fs[k].left])
Weight(f) == IF f.type = "map" THEN 2 * f.left ELSE f.left
Due(fs) == Stacked([k \in 1 .. Len(fs) |-> Weight(fs[k])])

\* While a list is built, its nodes and those that are to come are the first one and
\* those that are announced.
Grows ==
  Building =>
    /\ Len(nodes) > 0
    /\ at \in {"enter", "chase"} =>
         /\ call.node = Len(nodes)
         /\ 1 + Announced(nodes, Len(nodes) - 1) = Len(nodes) + Waiting(frames)
    /\ at \in {"element", "return"} =>
         1 + Announced(nodes, Len(nodes)) = Len(nodes) + Waiting(frames)
    /\ at = "element" => frames # <<>> /\ Head(frames).previous = Len(nodes)
    /\ \A k \in 1 .. Len(frames) :
         /\ {frames[k].node, frames[k].previous, frames[k].child} \subseteq 1 .. Len(nodes)
         /\ frames[k].at = "pointer" => frames[k].left = 0

\* A list that was built is complete.
Complete ==
  (pc = "list" /\ at = "idle" /\ status = "SUCCESS") \/ Dumping =>
    Len(nodes) > 0 /\ 1 + Announced(nodes, Len(nodes)) = Len(nodes)

\* The place of the cursor in the list, the end for NULL.
Place == IF cursor = 0 THEN Len(nodes) + 1 ELSE cursor

\* A dump has as many fields to read as the nodes it has read announce, and no more.
Reads ==
  /\ cursor \in 0 .. Len(nodes)
  /\ at = "dump" => cursor # 0 /\ Due(frames) + Place <= Announced(nodes, Place - 1) + 1
  /\ at = "member" => Due(frames) + Place <= Announced(nodes, Place - 1) + 2

LookupInv == Typed /\ Controlled /\ Linked /\ Owned /\ Grows /\ Complete /\ Reads

-----------------------------------------------------------------------------
(* What is announced.                                                      *)

\* The first n nodes of two lists announce the same.
SameMembers(ns, ms, n) ==
  \A i \in 1 .. n : Inside(ns[i].entry) = Inside(ms[i].entry)

\* The nodes of a list are counted.
Countable(ns) ==
  Len(ns) \in Nat /\ \A i \in 1 .. Len(ns) : Inside(ns[i].entry) \in Nat

\* What the nodes of a list announce adds up node by node, and does not depend on
\* the nodes behind them.
LEMMA AnnouncedSteps ==
  ASSUME NEW ns, NEW ms, Countable(ns), Countable(ms),
         NEW n \in Nat, n <= Len(ns), n <= Len(ms), SameMembers(ns, ms, n)
  PROVE  /\ Announced(ns, 0) = 0
         /\ Announced(ns, n) \in Nat
         /\ Announced(ms, n) = Announced(ns, n)
         /\ n < Len(ms) =>
              Announced(ms, n + 1) = Announced(ns, n) + Inside(ms[n + 1].entry)
<1> DEFINE w == [i \in 1 .. Len(ns) |-> Inside(ns[i].entry)]
           v == [i \in 1 .. Len(ms) |-> Inside(ms[i].entry)]
<1>1. \A i \in 1 .. n : w[i] = v[i] /\ w[i] \in Nat
  <2> TAKE i \in 1 .. n
  <2>1. i \in 1 .. Len(ns) /\ i \in 1 .. Len(ms)
    BY DEF Countable
  <2> QED BY <2>1 DEF SameMembers, Countable
<1>2. n < Len(ms) => v[n + 1] = Inside(ms[n + 1].entry)
  <2> SUFFICES ASSUME n < Len(ms) PROVE n + 1 \in 1 .. Len(ms)
    OBVIOUS
  <2> QED BY DEF Countable
<1> HIDE DEF w, v
<1>3. Agree(w, v, n)
  BY <1>1 DEF Agree
<1>4. Sum(w, 0) = 0 /\ Sum(w, n) = Sum(v, n) /\ Sum(v, n + 1) = Sum(w, n) + v[n + 1]
  BY <1>3, SumSteps
<1>5. Sum(w, n) \in Nat
  BY <1>1, SumNat
<1> QED BY <1>2, <1>4, <1>5 DEF Announced, w, v

\* The same of one list.
LEMMA AnnouncedNext ==
  ASSUME NEW ns, Countable(ns), NEW n \in Nat, n < Len(ns)
  PROVE  /\ Announced(ns, 0) = 0
         /\ Announced(ns, n) \in Nat
         /\ Announced(ns, n + 1) = Announced(ns, n) + Inside(ns[n + 1].entry)
<1>1. n <= Len(ns) /\ SameMembers(ns, ns, n)
  BY DEF Countable, SameMembers
<1> QED BY <1>1, AnnouncedSteps

\* What a list announces is announced when nodes are appended.
LEMMA AnnouncedAll ==
  ASSUME NEW ns, NEW ms, Countable(ns), Countable(ms), Len(ns) <= Len(ms),
         SameMembers(ns, ms, Len(ns))
  PROVE  Announced(ns, Len(ns)) \in Nat /\ Announced(ms, Len(ns)) = Announced(ns, Len(ns))
<1> DEFINE l == Len(ns)
<1>1. l \in Nat /\ l <= Len(ns) /\ l <= Len(ms) /\ SameMembers(ns, ms, l)
  BY DEF Countable
<1> HIDE DEF l
<1>2. Announced(ns, l) \in Nat /\ Announced(ms, l) = Announced(ns, l)
  BY <1>1, AnnouncedSteps
<1> QED BY <1>2 DEF l

\* What all nodes of a list but the last one announce, and all of them, when another
\* list differs in the last node.
LEMMA AnnouncedLast ==
  ASSUME NEW ns, NEW ms, Countable(ns), Countable(ms), Len(ns) = Len(ms), Len(ns) > 0,
         SameMembers(ns, ms, Len(ns) - 1)
  PROVE  /\ Announced(ns, Len(ns) - 1) \in Nat
         /\ Announced(ms, Len(ns) - 1) = Announced(ns, Len(ns) - 1)
         /\ Announced(ms, Len(ns)) =
              Announced(ns, Len(ns) - 1) + Inside(ms[Len(ns)].entry)
<1> DEFINE l == Len(ns) - 1
<1>1. l \in Nat /\ l <= Len(ns) /\ l <= Len(ms) /\ l < Len(ms) /\ l + 1 = Len(ns)
  BY DEF Countable
<1>2. SameMembers(ns, ms, l)
  OBVIOUS
<1> HIDE DEF l
<1>3. /\ Announced(ns, l) \in Nat
      /\ Announced(ms, l) = Announced(ns, l)
      /\ l < Len(ms) =>
           Announced(ms, l + 1) = Announced(ns, l) + Inside(ms[l + 1].entry)
  BY <1>1, <1>2, AnnouncedSteps
<1> QED BY <1>1, <1>3 DEF l

\* What is left to do on a stack of calls.
LEMMA WaitingTop ==
  ASSUME NEW fs \in Seq(Frame)
  PROVE  /\ Waiting(fs) \in Nat
         /\ fs = <<>> => Waiting(fs) = 0
         /\ fs # <<>> => Waiting(fs) = fs[1].left + Waiting(Tail(fs))
<1> DEFINE s == [k \in 1 .. Len(fs) |-> fs[k].left]
<1>1. Len(fs) \in Nat /\ \A k \in 1 .. Len(fs) : fs[k].left \in Nat
  <2>1. \A k \in 1 .. Len(fs) : fs[k] \in Frame
    OBVIOUS
  <2>2. \A f \in Frame : f.left \in Nat
    BY DEF Frame
  <2> QED BY <2>1, <2>2
<1>2. s \in Seq(Nat) /\ Len(s) = Len(fs)
  BY <1>1
<1>3. Waiting(fs) = Stacked(s)
  BY DEF Waiting
<1>4. ASSUME fs = <<>> PROVE s = <<>>
  BY <1>4
<1>5. ASSUME fs # <<>>
      PROVE  s # <<>> /\ s[1] = fs[1].left /\ Waiting(Tail(fs)) = Stacked(Tail(s))
  <2> DEFINE ts == Tail(fs)
             t == [k \in 1 .. Len(ts) |-> ts[k].left]
  <2>1. /\ ts \in Seq(Frame) /\ Len(ts) = Len(fs) - 1 /\ Len(ts) \in Nat
        /\ \A k \in 1 .. Len(ts) : ts[k] = fs[k + 1]
    BY <1>5, HeadTailProperties
  <2>2. s # <<>> /\ s[1] = fs[1].left
    BY <1>1, <1>2, <1>5
  <2>3. Tail(s) \in Seq(Nat) /\ Len(Tail(s)) = Len(s) - 1
        /\ \A k \in 1 .. Len(Tail(s)) : Tail(s)[k] = s[k + 1]
    <3> HIDE DEF s
    <3> QED BY <1>2, <2>2, HeadTailProperties
  <2>4. t \in Seq(Nat) /\ Len(t) = Len(ts)
    <3> HIDE DEF ts
    <3>1. \A k \in 1 .. Len(ts) : ts[k] \in Frame
      BY <2>1
    <3>2. \A f \in Frame : f.left \in Nat
      BY DEF Frame
    <3>3. \A k \in 1 .. Len(ts) : ts[k].left \in Nat
      BY <3>1, <3>2
    <3> QED BY <2>1, <3>3
  <2>5. \A k \in 1 .. Len(ts) : t[k] = s[k + 1]
    <3> SUFFICES ASSUME NEW k \in 1 .. Len(ts) PROVE t[k] = s[k + 1]
      OBVIOUS
    <3>1. k + 1 \in 1 .. Len(fs)
      BY <1>1, <2>1
    <3> HIDE DEF ts
    <3> QED BY <2>1, <3>1
  <2> HIDE DEF s, t, ts
  <2>6. t = Tail(s)
    BY <1>2, <2>1, <2>3, <2>4, <2>5, SeqEqual
  <2> QED BY <2>2, <2>6 DEF Waiting, t, ts
<1> HIDE DEF s
<1> QED BY <1>2, <1>3, <1>4, <1>5, StackedTop

\* What is left to do in a stack of loops.
LEMMA DueTop ==
  ASSUME NEW fs \in Seq(Loop)
  PROVE  /\ Due(fs) \in Nat
         /\ fs = <<>> => Due(fs) = 0
         /\ fs # <<>> => Due(fs) = Weight(fs[1]) + Due(Tail(fs)) /\ Weight(fs[1]) \in Nat
<1> DEFINE s == [k \in 1 .. Len(fs) |-> Weight(fs[k])]
<1>1. Len(fs) \in Nat /\ \A k \in 1 .. Len(fs) : Weight(fs[k]) \in Nat
  <2>1. \A k \in 1 .. Len(fs) : fs[k] \in Loop
    OBVIOUS
  <2>2. \A f \in Loop : Weight(f) \in Nat
    BY DEF Loop, Weight
  <2> QED BY <2>1, <2>2
<1>2. s \in Seq(Nat) /\ Len(s) = Len(fs)
  BY <1>1
<1>3. Due(fs) = Stacked(s)
  BY DEF Due
<1>4. ASSUME fs = <<>> PROVE s = <<>>
  BY <1>4
<1>5. ASSUME fs # <<>>
      PROVE  /\ s # <<>> /\ s[1] = Weight(fs[1]) /\ Weight(fs[1]) \in Nat
             /\ Due(Tail(fs)) = Stacked(Tail(s))
  <2> DEFINE ts == Tail(fs)
             t == [k \in 1 .. Len(ts) |-> Weight(ts[k])]
  <2>1. /\ ts \in Seq(Loop) /\ Len(ts) = Len(fs) - 1 /\ Len(ts) \in Nat
        /\ \A k \in 1 .. Len(ts) : ts[k] = fs[k + 1]
    BY <1>5, HeadTailProperties
  <2>2. s # <<>> /\ s[1] = Weight(fs[1]) /\ Weight(fs[1]) \in Nat
    BY <1>1, <1>2, <1>5
  <2>3. Tail(s) \in Seq(Nat) /\ Len(Tail(s)) = Len(s) - 1
        /\ \A k \in 1 .. Len(Tail(s)) : Tail(s)[k] = s[k + 1]
    <3> HIDE DEF s
    <3> QED BY <1>2, <2>2, HeadTailProperties
  <2>5. \A k \in 1 .. Len(ts) : t[k] = s[k + 1] /\ t[k] \in Nat
    <3> SUFFICES ASSUME NEW k \in 1 .. Len(ts) PROVE t[k] = s[k + 1] /\ t[k] \in Nat
      OBVIOUS
    <3>1. k + 1 \in 1 .. Len(fs)
      BY <1>1, <2>1
    <3> HIDE DEF ts
    <3> QED BY <1>1, <2>1, <3>1
  <2>4. t \in Seq(Nat) /\ Len(t) = Len(ts)
    <3> HIDE DEF ts
    <3>1. \A k \in 1 .. Len(ts) : ts[k] \in Loop
      BY <2>1
    <3>2. \A f \in Loop : Weight(f) \in Nat
      BY DEF Loop, Weight
    <3>3. \A k \in 1 .. Len(ts) : Weight(ts[k]) \in Nat
      BY <3>1, <3>2
    <3> QED BY <2>1, <3>3
  <2> HIDE DEF s, t, ts
  <2>6. t = Tail(s)
    BY <1>2, <2>1, <2>3, <2>4, <2>5, SeqEqual
  <2> QED BY <2>2, <2>6 DEF Due, t, ts
<1> HIDE DEF s
<1> QED BY <1>2, <1>3, <1>4, <1>5, StackedTop

-----------------------------------------------------------------------------
(* Walks along the list.                                                   *)

\* The loop that looks for the tail of a list ends at the node allocated last, from
\* whichever node it begins.
LEMMA LastNodeIsLast ==
  ASSUME Linked, Len(nodes) \in Nat, DOMAIN nodes = 1 .. Len(nodes),
         NEW n \in 1 .. Len(nodes)
  PROVE  LastNode(n) = Len(nodes)
<1> DEFINE m == Len(nodes)
           It(f) == f = [i \in DOMAIN nodes |->
                          IF nodes[i].next = 0 THEN i ELSE f[nodes[i].next]]
           Last == CHOOSE f : It(f)
<1>1. \A i \in 1 .. m : nodes[i].next = (IF i < m THEN i + 1 ELSE 0)
  BY DEF Linked
<1> HIDE DEF m
<1>2. m \in Nat /\ DOMAIN nodes = 1 .. m /\ n \in 1 .. m
  BY DEF m
<1>3. \E f : It(f)
  <2> DEFINE f == [i \in 1 .. m |-> m]
  <2>1. ASSUME NEW i \in 1 .. m
        PROVE  f[i] = IF nodes[i].next = 0 THEN i ELSE f[nodes[i].next]
    <3>1. CASE i < m
      <4>1. nodes[i].next = i + 1 /\ i + 1 \in 1 .. m /\ i + 1 # 0
        BY <3>1, <1>1, <1>2
      <4> QED BY <4>1
    <3>2. CASE ~ (i < m)
      BY <3>2, <1>1, <1>2
    <3> QED BY <3>1, <3>2
  <2>2. It(f)
    <3>1. f = [i \in 1 .. m |-> f[i]]
      OBVIOUS
    <3> HIDE DEF f
    <3> QED BY <3>1, <2>1, <1>2
  <2> QED BY <2>2
<1>4. It(Last)
  BY <1>3
<1> HIDE DEF Last
<1>5. \A i \in 1 .. m : Last[i] = IF nodes[i].next = 0 THEN i ELSE Last[nodes[i].next]
  BY <1>4, <1>2
<1> DEFINE T == {k \in 0 .. m - 1 : Last[m - k] # m}
<1>6. T = {}
  <2> SUFFICES ASSUME T # {} PROVE FALSE
    OBVIOUS
  <2>1. PICK k \in T : \A j \in T : k <= j
    <3>1. T \subseteq Nat
      OBVIOUS
    <3> QED BY <3>1, LeastNat
  <2>2. k \in 0 .. m - 1 /\ m - k \in 1 .. m
    BY <1>2
  <2>3. CASE k = 0
    <3>1. nodes[m].next = 0 /\ m \in 1 .. m /\ m - k = m
      BY <2>3, <2>2, <1>1, <1>2
    <3>2. Last[m - k] = m
      BY <3>1, <1>5
    <3> QED BY <3>2, <2>1
  <2>4. CASE k # 0
    <3>1. k - 1 \in 0 .. m - 1 /\ ~ (k <= k - 1) /\ m - k < m
          /\ (m - k) + 1 = m - (k - 1) /\ (m - k) + 1 # 0
      BY <2>4, <2>2, <1>2
    <3>2. Last[m - (k - 1)] = m
      BY <3>1, <2>1
    <3>3. nodes[m - k].next = m - (k - 1) /\ m - (k - 1) # 0
      BY <3>1, <2>2, <1>1
    <3>4. Last[m - k] = Last[m - (k - 1)]
      BY <3>3, <2>2, <1>5
    <3> QED BY <3>2, <3>4, <2>1
  <2> QED BY <2>3, <2>4
<1>7. Last[n] = m
  <2>1. m - n \in 0 .. m - 1 /\ m - (m - n) = n
    BY <1>2
  <2> QED BY <2>1, <1>6
<1>8. LastNode(n) = Last[n]
  BY DEF LastNode, Last
<1> QED BY <1>7, <1>8 DEF m

\* The nodes reached from the head are all nodes of the list.
LEMMA ListIsAll ==
  ASSUME Linked, Len(nodes) \in Nat, nodes = <<>> <=> Len(nodes) = 0
  PROVE  List = [k \in 1 .. Len(nodes) |-> k]
<1> DEFINE m == Len(nodes)
           It(f) == f = [i \in 0 .. m |->
                          IF i = 0 THEN <<>> ELSE <<i>> \o f[nodes[i].next]]
           From == CHOOSE f : It(f)
           rest == [i \in 0 .. m |->
                     IF i = 0 THEN <<>> ELSE [k \in 1 .. (m + 1) - i |-> (i + k) - 1]]
<1>1. \A i \in 1 .. m : nodes[i].next = (IF i < m THEN i + 1 ELSE 0)
  BY DEF Linked
<1>2. m \in Nat /\ (nodes = <<>> <=> m = 0)
  OBVIOUS
<1>3. List = IF nodes = <<>> THEN <<>> ELSE From[1]
  BY DEF List, Chain
<1> HIDE DEF m
<1>4. \A i \in 1 .. m : rest[i] \in Seq(Nat) /\ Len(rest[i]) = (m + 1) - i
  <2> TAKE i \in 1 .. m
  <2>1. (m + 1) - i \in Nat /\ \A k \in 1 .. (m + 1) - i : (i + k) - 1 \in Nat
    BY <1>2
  <2> QED BY <2>1
<1>5. \A i \in 1 .. m : \A k \in 1 .. (m + 1) - i : rest[i][k] = (i + k) - 1
  BY <1>2
<1>6. rest[0] = <<>>
  BY <1>2
<1>7. rest = [i \in 0 .. m |-> rest[i]]
  OBVIOUS
<1> HIDE DEF rest
<1>8. ASSUME NEW i \in 1 .. m
      PROVE  rest[i] = <<i>> \o rest[nodes[i].next]
  <2>1. CASE i < m
    <3> DEFINE q == rest[i + 1]
    <3>1. nodes[i].next = i + 1 /\ i + 1 \in 1 .. m
      BY <2>1, <1>1, <1>2
    <3>2. q \in Seq(Nat) /\ Len(q) = m - i /\ \A k \in 1 .. m - i : q[k] = i + k
      <4>1. (m + 1) - (i + 1) = m - i
        BY <1>2
      <4>2. \A k \in 1 .. m - i : ((i + 1) + k) - 1 = i + k
        BY <1>2
      <4> QED BY <3>1, <4>1, <4>2, <1>4, <1>5
    <3> HIDE DEF q
    <3>3. /\ <<i>> \o q \in Seq(Nat) /\ Len(<<i>> \o q) = (m + 1) - i
          /\ \A k \in 1 .. (m + 1) - i : (<<i>> \o q)[k] = (i + k) - 1
      <4>1. <<i>> \in Seq(Nat) /\ Len(<<i>>) = 1 /\ <<i>>[1] = i
        BY <1>2
      <4>2. <<i>> \o q \in Seq(Nat) /\ Len(<<i>> \o q) = 1 + Len(q)
            /\ \A k \in 1 .. 1 + Len(q) : (<<i>> \o q)[k] = IF k <= 1 THEN i ELSE q[k - 1]
        BY <4>1, <3>2, ConcatProperties
      <4>3. 1 + Len(q) = (m + 1) - i
        BY <3>2, <1>2
      <4>4. ASSUME NEW k \in 1 .. (m + 1) - i
            PROVE  (<<i>> \o q)[k] = (i + k) - 1
        <5>1. CASE k = 1
          BY <5>1, <4>2, <4>3, <4>4, <1>2
        <5>2. CASE k # 1
          <6>1. ~ (k <= 1) /\ k - 1 \in 1 .. m - i /\ i + (k - 1) = (i + k) - 1
            BY <5>2, <4>4, <1>2
          <6> QED BY <6>1, <4>2, <4>3, <3>2
        <5> QED BY <5>1, <5>2
      <4> QED BY <4>2, <4>3, <4>4
    <3>4. rest[i] = <<i>> \o q
      <4>1. rest[i] \in Seq(Nat) /\ Len(rest[i]) = (m + 1) - i
            /\ \A k \in 1 .. (m + 1) - i : rest[i][k] = (i + k) - 1
        BY <1>4, <1>5
      <4>2. \A k \in 1 .. Len(rest[i]) : rest[i][k] = (<<i>> \o q)[k]
        BY <4>1, <3>3, Zenon
      <4>3. Len(rest[i]) = Len(<<i>> \o q)
        BY <4>1, <3>3, Zenon
      <4> QED BY <4>1, <4>2, <4>3, <3>3, SeqEqual, Zenon
    <3> QED BY <3>1, <3>4 DEF q
  <2>2. CASE ~ (i < m)
    <3>1. i = m /\ nodes[i].next = 0 /\ (m + 1) - i = 1
      BY <2>2, <1>1, <1>2
    <3>2. rest[i] \in Seq(Nat) /\ Len(rest[i]) = 1 /\ rest[i][1] = i
      <4>1. 1 \in 1 .. (m + 1) - i /\ (i + 1) - 1 = i
        BY <3>1, <1>2
      <4> QED BY <3>1, <4>1, <1>4, <1>5
    <3>3. rest[i] = <<i>>
      BY <3>2
    <3>4. <<i>> \o <<>> = <<i>>
      OBVIOUS
    <3> QED BY <3>1, <3>3, <3>4, <1>6
  <2> QED BY <2>1, <2>2
<1>9. \E f : It(f)
  <2>1. ASSUME NEW i \in 0 .. m
        PROVE  rest[i] = IF i = 0 THEN <<>> ELSE <<i>> \o rest[nodes[i].next]
    <3>1. CASE i = 0
      BY <3>1, <1>6
    <3>2. CASE i # 0
      <4>1. i \in 1 .. m
        BY <3>2, <1>2
      <4> QED BY <4>1, <3>2, <1>8
    <3> QED BY <3>1, <3>2
  <2>2. It(rest)
    BY <1>7, <2>1
  <2> QED BY <2>2
<1>10. It(From)
  BY <1>9
<1> HIDE DEF From
<1>11. From[0] = <<>> /\ \A i \in 1 .. m : From[i] = <<i>> \o From[nodes[i].next]
  <2>1. \A i \in 0 .. m : From[i] = IF i = 0 THEN <<>> ELSE <<i>> \o From[nodes[i].next]
    BY <1>10
  <2>2. 0 \in 0 .. m
    BY <1>2
  <2>3. \A i \in 1 .. m : i \in 0 .. m /\ i # 0
    BY <1>2
  <2> QED BY <2>1, <2>2, <2>3, Zenon
<1> DEFINE T == {k \in 0 .. m - 1 : From[m - k] # rest[m - k]}
<1>12. T = {}
  <2> SUFFICES ASSUME T # {} PROVE FALSE
    OBVIOUS
  <2>1. PICK k \in T : \A j \in T : k <= j
    <3>1. T \subseteq Nat
      OBVIOUS
    <3> QED BY <3>1, LeastNat
  <2>2. k \in 0 .. m - 1 /\ m - k \in 1 .. m
    BY <1>2
  <2>3. From[nodes[m - k].next] = rest[nodes[m - k].next]
    <3>1. CASE k = 0
      <4>1. nodes[m - k].next = 0
        BY <3>1, <2>2, <1>1, <1>2
      <4> QED BY <4>1, <1>6, <1>11
    <3>2. CASE k # 0
      <4>1. k - 1 \in 0 .. m - 1 /\ ~ (k <= k - 1) /\ m - k < m
            /\ (m - k) + 1 = m - (k - 1)
        BY <3>2, <2>2, <1>2
      <4>2. From[m - (k - 1)] = rest[m - (k - 1)]
        BY <4>1, <2>1
      <4> QED BY <4>1, <4>2, <2>2, <1>1
    <3> QED BY <3>1, <3>2
  <2>4. From[m - k] = rest[m - k]
    BY <2>2, <2>3, <1>8, <1>11
  <2> QED BY <2>1, <2>4
<1>13. CASE m = 0
  BY <1>13, <1>2, <1>3 DEF m
<1>14. CASE m # 0
  <2>1. m - 1 \in 0 .. m - 1 /\ m - (m - 1) = 1 /\ 1 \in 1 .. m
    BY <1>14, <1>2
  <2>2. From[1] = rest[1]
    BY <2>1, <1>12
  <2>3. rest[1] = [k \in 1 .. m |-> k]
    <3>1. (m + 1) - 1 = m /\ \A k \in 1 .. m : (1 + k) - 1 = k
      BY <1>2
    <3>2. rest[1] = [k \in 1 .. (m + 1) - 1 |-> (1 + k) - 1]
      BY <2>1 DEF rest
    <3> QED BY <3>1, <3>2
  <2> QED BY <2>2, <2>3, <1>3, <1>14, <1>2 DEF m
<1> QED BY <1>13, <1>14

-----------------------------------------------------------------------------
(* Stacks and nodes that change.                                           *)

\* A call is put on the stack, and what was there is under it.
LEMMA Pushed ==
  ASSUME NEW S, NEW f \in S, NEW fs \in Seq(S), NEW gs, gs = <<f>> \o fs
  PROVE  /\ gs \in Seq(S) /\ gs # <<>> /\ gs[1] = f /\ Head(gs) = f
         /\ Len(gs) = Len(fs) + 1
         /\ \A k \in 1 .. Len(gs) : k # 1 => k - 1 \in 1 .. Len(fs) /\ gs[k] = fs[k - 1]
         /\ Tail(gs) = fs
<1>1. <<f>> \in Seq(S) /\ Len(<<f>>) = 1 /\ <<f>>[1] = f
  OBVIOUS
<1>2. /\ gs \in Seq(S) /\ Len(gs) = 1 + Len(fs)
      /\ \A k \in 1 .. 1 + Len(fs) : gs[k] = IF k <= 1 THEN f ELSE fs[k - 1]
  BY <1>1, ConcatProperties
<1>3. Len(fs) \in Nat
  OBVIOUS
<1>4. gs # <<>> /\ gs[1] = f /\ Len(gs) = Len(fs) + 1
  BY <1>2, <1>3
<1>5. \A k \in 1 .. Len(gs) : k # 1 => k - 1 \in 1 .. Len(fs) /\ gs[k] = fs[k - 1]
  BY <1>2, <1>3
<1>6. Tail(gs) = fs
  <2>1. /\ Tail(gs) \in Seq(S) /\ Len(Tail(gs)) = Len(fs)
        /\ \A k \in 1 .. Len(Tail(gs)) : Tail(gs)[k] = gs[k + 1]
    BY <1>2, <1>3, <1>4, HeadTailProperties
  <2>2. \A k \in 1 .. Len(fs) : gs[k + 1] = fs[k]
    BY <1>2, <1>3
  <2> QED BY <2>1, <2>2, SeqEqual
<1>7. Head(gs) = f
  BY <1>4
<1> QED BY <1>2, <1>4, <1>5, <1>6, <1>7

\* What is left of a stack without its top.
LEMMA Popped ==
  ASSUME NEW S, NEW fs \in Seq(S), fs # <<>>
  PROVE  /\ Head(fs) = fs[1] /\ fs[1] \in S /\ 1 \in 1 .. Len(fs)
         /\ Tail(fs) \in Seq(S)
         /\ \A k \in 1 .. Len(Tail(fs)) : k + 1 \in 1 .. Len(fs) /\ Tail(fs)[k] = fs[k + 1]
<1>1. /\ Tail(fs) \in Seq(S) /\ Len(Tail(fs)) = Len(fs) - 1
      /\ \A k \in 1 .. Len(Tail(fs)) : Tail(fs)[k] = fs[k + 1]
  BY HeadTailProperties
<1>2. Len(fs) \in Nat /\ Len(fs) # 0
  OBVIOUS
<1>3. 1 \in 1 .. Len(fs) /\ fs[1] \in S /\ Head(fs) = fs[1]
  BY <1>2
<1>4. \A k \in 1 .. Len(Tail(fs)) : k + 1 \in 1 .. Len(fs)
  BY <1>1, <1>2
<1> QED BY <1>1, <1>3, <1>4

\* The top of a stack changes, and what is under it does not.
LEMMA TopChanged ==
  ASSUME NEW S, NEW fs \in Seq(S), fs # <<>>, NEW f \in S, NEW gs,
         gs = [fs EXCEPT ![1] = f]
  PROVE  /\ gs \in Seq(S) /\ gs # <<>> /\ gs[1] = f /\ Head(gs) = f
         /\ Len(gs) = Len(fs)
         /\ \A k \in 1 .. Len(gs) : k # 1 => gs[k] = fs[k]
         /\ Tail(gs) = Tail(fs)
<1>1. Len(fs) \in Nat /\ 1 \in 1 .. Len(fs)
  OBVIOUS
<1>2. /\ gs \in Seq(S) /\ Len(gs) = Len(fs)
      /\ \A k \in 1 .. Len(fs) : gs[k] = IF k = 1 THEN f ELSE fs[k]
  BY <1>1, ExceptSeq
<1>3. gs # <<>> /\ gs[1] = f /\ Head(gs) = f
  BY <1>1, <1>2
<1>4. \A k \in 1 .. Len(gs) : k # 1 => gs[k] = fs[k]
  BY <1>2
<1>5. Tail(gs) = Tail(fs)
  <2>1. /\ Tail(gs) \in Seq(S) /\ Len(Tail(gs)) = Len(fs) - 1
        /\ \A k \in 1 .. Len(Tail(gs)) : Tail(gs)[k] = gs[k + 1]
    BY <1>2, <1>3, HeadTailProperties
  <2>2. /\ Tail(fs) \in Seq(S) /\ Len(Tail(fs)) = Len(fs) - 1
        /\ \A k \in 1 .. Len(Tail(fs)) : Tail(fs)[k] = fs[k + 1]
    BY HeadTailProperties
  <2>3. \A k \in 1 .. Len(Tail(fs)) : k + 1 \in 1 .. Len(fs) /\ k + 1 # 1
    BY <1>1, <2>2
  <2>4. \A k \in 1 .. Len(Tail(gs)) : Tail(gs)[k] = Tail(fs)[k]
    BY <2>1, <2>2, <2>3, <1>2
  <2> QED BY <2>1, <2>2, <2>4, SeqEqual
<1> QED BY <1>2, <1>3, <1>4, <1>5

\* A list of nodes is a sequence that can be counted.
LEMMA NodesCountable ==
  ASSUME NEW ns \in Seq(Node)
  PROVE  /\ Len(ns) \in Nat /\ DOMAIN ns = 1 .. Len(ns) /\ (ns = <<>> <=> Len(ns) = 0)
         /\ Countable(ns)
<1>1. Len(ns) \in Nat /\ DOMAIN ns = 1 .. Len(ns) /\ (ns = <<>> <=> Len(ns) = 0)
  OBVIOUS
<1>2. \A i \in 1 .. Len(ns) : ns[i] \in Node
  OBVIOUS
<1>3. \A n \in Node : Inside(n.entry) \in Nat
  BY DEF Node, Entries, Inside
<1> QED BY <1>1, <1>2, <1>3 DEF Countable

\* The entry of a node changes, and the links do not.
LEMMA EntryChanged ==
  ASSUME NEW ns \in Seq(Node), NEW n \in 1 .. Len(ns), NEW e \in Entries, NEW ms,
         ms = [ns EXCEPT ![n].entry = e]
  PROVE  /\ ms \in Seq(Node) /\ Len(ms) = Len(ns) /\ ms[n].entry = e
         /\ \A i \in 1 .. Len(ms) : ms[i].next = ns[i].next /\ (i # n => ms[i] = ns[i])
<1> DEFINE d == [ns[n] EXCEPT !.entry = e]
<1>1. ns[n] \in Node
  OBVIOUS
<1>2. d \in Node /\ d.entry = e /\ d.next = ns[n].next
  BY <1>1 DEF Node
<1>3. ms = [ns EXCEPT ![n] = d]
  OBVIOUS
<1> HIDE DEF d
<1>4. /\ ms \in Seq(Node) /\ Len(ms) = Len(ns)
      /\ \A i \in 1 .. Len(ns) : ms[i] = IF i = n THEN d ELSE ns[i]
  BY <1>2, <1>3, ExceptSeq
<1> QED BY <1>2, <1>4

\* A field that decode_one() accepts makes an entry.
LEMMA DecodedEntry ==
  ASSUME section \in {input.section : input \in Inputs}, NEW o, Decodes(o)
  PROVE  EntryAt(o) \in Entries /\ EntryAt(o).type = section[o].type
<1>1. PICK input \in Inputs : section = input.section
  OBVIOUS
<1>2. o \in DOMAIN section /\ o \in Nat /\ section[o].size \in Nat
      /\ section[o].cells \in Nat /\ section[o].pointer \in Nat
  BY <1>1, ProgramAssumption DEF Decodes
<1>3. o + section[o].cells \in Nat
  BY <1>2
<1>4. section[o].type \in {section[q].type : q \in DOMAIN section}
      /\ section[o].value \in {section[q].value : q \in DOMAIN section}
  BY <1>2
<1> QED BY <1>2, <1>3, <1>4 DEF EntryAt, Entries

-----------------------------------------------------------------------------
(* The steps.                                                              *)

\* Which call the program is in is kept by every step.
LEMMA ControlledKept ==
  ASSUME LookupInv, Step
  PROVE  Controlled'
<1> USE DEF LookupInv, Controlled, Building, Dumping
<1>1. CASE GetOptions
  <2>1. EarlyExit \in {"0", "1", "none"}
    BY DEF EarlyExit
  <2> QED BY <1>1, <2>1 DEF GetOptions, Exit, dumpVars
<1>2. CASE OpenOrDie
  BY <1>2 DEF OpenOrDie, Exit, entryVars, dumpVars
<1>3. CASE Lookup
  BY <1>3 DEF Lookup, LookupOrDie, CallGetList, CallGetValue, Return, Starve, Exit,
              entryVars, dumpVars
<1>4. CASE ValueFound
  BY <1>4 DEF ValueFound, CallGetList, Return, Starve, entryVars, dumpVars
<1>5. CASE ListDone
  BY <1>5 DEF ListDone, CallDump, entryVars, dumpVars
<1>6. CASE DumpDone
  BY <1>6 DEF DumpDone, entryVars, dumpVars
<1>7. CASE End
  BY <1>7 DEF End, FreeOverflow, dumpVars
<1>8. CASE Benchmark
  BY <1>8 DEF Benchmark, LookupOrDie, CallGetList, Return, Starve, Exit, entryVars,
              dumpVars
<1>9. CASE BenchmarkListDone
  BY <1>9 DEF BenchmarkListDone, FreeOverflow, Exit, dumpVars
<1>10. CASE LibraryStep /\ UNCHANGED programVars
  <2>1. CASE GetValueStep
    BY <1>10, <2>1 DEF programVars, GetValueStep, LookupInArray, LookupInMap,
                       LookupInSimple, EndOfPath, Descend, FailLookup, Return, dumpVars
  <2>2. CASE GetListStep
    BY <1>10, <2>2 DEF programVars, GetListStep, Enter, Overflow, Chase, Element,
                       Returned, Return, Starve, dumpVars
  <2>3. CASE DumpStep
    BY <1>10, <2>3 DEF programVars, DumpStep, DumpField, DumpMember, Return, Starve
  <2> QED BY <1>10, <2>1, <2>2, <2>3 DEF LibraryStep
<1> QED BY <1>1, <1>2, <1>3, <1>4, <1>5, <1>6, <1>7, <1>8, <1>9, <1>10 DEF Step

\* A step after which no list is built or dumped keeps the invariant, when it leaves
\* the list alone or frees it, and completes it if it says so.
LEMMA Idles ==
  ASSUME LookupInv, Controlled', section' = section, nodes' = nodes, cursor' = cursor,
         "node" \in DOMAIN call', ~ Building', ~ Dumping',
         heap' = heap \/ heap' = {},
         pc' \in {"options", "open", "lookup", "value", "benchmark", "exit"} => heap' = {},
         (pc' = "list" /\ at' = "idle" /\ status' = "SUCCESS") =>
            Len(nodes) > 0 /\ 1 + Announced(nodes, Len(nodes)) = Len(nodes)
  PROVE  LookupInv'
<1>1. Typed'
  <2>1. Node' = Node
    BY DEF Node, Entries
  <2> QED BY <2>1 DEF LookupInv, Typed
<1>2. Linked'
  BY DEF LookupInv, Linked
<1>3. Owned'
  BY DEF LookupInv, Owned
<1>4. Grows'
  BY DEF Grows
<1>5. Complete'
  BY DEF Complete
<1>6. Reads'
  BY DEF LookupInv, Reads, Dumping
<1> QED BY <1>1, <1>2, <1>3, <1>4, <1>5, <1>6 DEF LookupInv

\* A list begins with a node that announces nothing yet, or not at all.
LEMMA ListBegins ==
  ASSUME LookupInv, Controlled', NEW o, CallGetList(o), heap = {}, cursor = 0,
         pc' \in {"list", "benchmark_list"}
  PROVE  LookupInv'
<1>1. /\ section' = section /\ frames' = <<>> /\ cursor' = 0
      /\ Node' = Node /\ Frame' = Frame /\ Loop' = Loop
  BY DEF CallGetList, dumpVars, Node, Entries, Frame, Loop
<1>2. MaxNodes \in Nat /\ MaxNodes >= 1
  BY EntryAssumption
<1>3. frames' \in Seq(Frame) /\ frames' \in Seq(Loop)
  BY <1>1
<1>4. CASE /\ nodes' = <<[entry |-> ZeroEntry, next |-> 0]>>
           /\ heap' = {1}
           /\ call' = [offset |-> o, node |-> 1]
           /\ at' = "enter"
  <2>1. ZeroEntry \in Entries
    BY DEF ZeroEntry, Entries
  <2>2. [entry |-> ZeroEntry, next |-> 0] \in Node
    BY <2>1 DEF Node
  <2>3. /\ nodes' \in Seq(Node) /\ Len(nodes') = 1
        /\ nodes'[1] = [entry |-> ZeroEntry, next |-> 0]
    BY <1>4, <2>2
  <2>4. Typed'
    <3>1. "node" \in DOMAIN call'
      BY <1>4
    <3> QED BY <1>1, <1>3, <2>3, <3>1 DEF LookupInv, Typed
  <2>5. Linked'
    BY <2>3 DEF Linked
  <2>6. Owned'
    <3>1. 1 .. 1 = {1}
      OBVIOUS
    <3> QED BY <1>2, <1>4, <2>3, <3>1 DEF Owned
  <2>7. Grows'
    <3>1. Waiting(frames') = 0
      BY <1>1, <1>3, WaitingTop
    <3>2. Announced(nodes', 0) = 0
      <4>1. Countable(nodes')
        <5>1. Inside(ZeroEntry) = 0
          BY DEF Inside, ZeroEntry
        <5> QED BY <2>3, <5>1 DEF Countable
      <4> QED BY <4>1, <2>3, AnnouncedNext
    <3>3. call'.node = 1 /\ 1 - 1 = 0 /\ 1 > 0 /\ 1 + 0 = 1
      BY <1>4
    <3>4. Len(frames') = 0
      BY <1>1
    <3> QED BY <1>4, <2>3, <3>1, <3>2, <3>3, <3>4 DEF Grows
  <2>8. Complete' /\ Reads'
    BY <1>1, <1>4, <2>3 DEF Complete, Reads, Dumping
  <2> QED BY <2>4, <2>5, <2>6, <2>7, <2>8 DEF LookupInv
<1>5. CASE nodes' = <<>> /\ heap' = {} /\ at' = "idle" /\ status' = "OUT_OF_MEMORY"
           /\ call' = call
  <2>1. nodes' \in Seq(Node) /\ Len(nodes') = 0
    BY <1>5
  <2>2. Typed'
    BY <1>1, <1>3, <1>5, <2>1 DEF LookupInv, Typed
  <2>3. Linked' /\ Owned' /\ Grows' /\ Complete' /\ Reads'
    BY <1>1, <1>2, <1>5, <2>1 DEF Linked, Owned, Grows, Complete, Reads, Building, Dumping
  <2> QED BY <2>2, <2>3 DEF LookupInv
<1>6. {} \cup {1} = {1}
  OBVIOUS
<1> QED BY <1>4, <1>5, <1>6 DEF CallGetList, Starve, Return

\* The steps of the program between two calls of the library.
LEMMA ProgramKeeps ==
  ASSUME LookupInv, Controlled',
         GetOptions \/ OpenOrDie \/ Lookup \/ ValueFound \/ ListDone \/ DumpDone
  PROVE  LookupInv'
<1> USE DEF Building, Dumping
<1>0. "node" \in DOMAIN call
  BY DEF LookupInv, Typed
<1>1. CASE GetOptions
  BY <1>0, <1>1, Idles DEF GetOptions, Exit, listVars, dumpVars, LookupInv, Owned,
                          Controlled
<1>2. CASE OpenOrDie
  BY <1>0, <1>2, Idles DEF OpenOrDie, Exit, entryVars, listVars, dumpVars, LookupInv,
                          Owned, Controlled
<1>3. CASE Lookup
  <2>1. heap = {} /\ cursor = 0 /\ ~ Building /\ ~ Dumping
    BY <1>3 DEF Lookup, LookupInv, Owned, Controlled
  <2>2. CASE CallGetList(Answer[args.ip].entry) /\ pc' = "list"
    BY <2>1, <2>2, ListBegins
  <2>3. CASE CallGetValue(Answer[args.ip].entry, args.path) /\ pc' = "value"
    BY <1>0, <2>1, <2>3, Idles DEF CallGetValue, Return, listVars, dumpVars
  <2>4. CASE UNCHANGED entryVars /\ pc' \in {"end", "exit"}
    BY <1>0, <2>1, <2>4, Idles DEF entryVars, listVars, dumpVars
  <2> QED BY <1>3, <2>2, <2>3, <2>4 DEF Lookup, LookupOrDie, Exit
<1>4. CASE ValueFound
  <2>1. heap = {} /\ cursor = 0
    BY <1>4 DEF ValueFound, LookupInv, Owned, Controlled
  <2>2. CASE CallGetList(entry.offset) /\ pc' = "list"
    BY <2>1, <2>2, ListBegins
  <2>3. CASE UNCHANGED entryVars /\ pc' = "end"
    BY <1>0, <1>4, <2>3, Idles DEF ValueFound, entryVars, listVars, dumpVars
  <2> QED BY <1>4, <2>2, <2>3 DEF ValueFound
<1>5. CASE ListDone
  <2>1. CASE UNCHANGED entryVars /\ pc' = "end"
    BY <1>0, <1>5, <2>1, Idles DEF ListDone, entryVars, listVars, dumpVars
  <2>2. CASE status = "SUCCESS" /\ CallDump /\ pc' = "dump"
    <3>1. Len(nodes) > 0 /\ 1 + Announced(nodes, Len(nodes)) = Len(nodes)
      BY <1>5, <2>2 DEF ListDone, LookupInv, Complete
    <3>2. Typed'
      <4>1. Node' = Node /\ <<>> \in Seq(Loop)'
        BY <2>2 DEF CallDump, Node, Entries, Loop
      <4> QED BY <2>2, <4>1 DEF CallDump, listVars, LookupInv, Typed
    <3>3. Linked' /\ Owned' /\ Grows' /\ Complete'
      BY <2>2, <3>1 DEF CallDump, listVars, LookupInv, Linked, Owned, Grows, Complete
    <3>4. Reads'
      <4>1. nodes \in Seq(Node) /\ Len(nodes) \in Nat /\ Countable(nodes)
        BY NodesCountable DEF LookupInv, Typed
      <4>2. Announced(nodes, 0) = 0
        BY <3>1, <4>1, AnnouncedNext
      <4>3. frames' = <<>> /\ Due(<<>>) = 0
        <5>1. <<>> \in Seq(Loop)
          OBVIOUS
        <5> QED BY <2>2, <5>1, DueTop DEF CallDump
      <4>4. 1 - 1 = 0 /\ 1 \in 0 .. Len(nodes) /\ 1 # 0 /\ 0 + 1 <= 0 + 1
        BY <3>1, <4>1
      <4>5. cursor' = 1 /\ at' = "dump" /\ nodes' = nodes
        BY <2>2 DEF CallDump, listVars
      <4>6. Place' = 1
        BY <4>5 DEF Place
      <4> QED BY <4>2, <4>3, <4>4, <4>5, <4>6 DEF Reads
    <3> QED BY <3>2, <3>3, <3>4 DEF LookupInv
  <2> QED BY <1>5, <2>1, <2>2 DEF ListDone
<1>6. CASE DumpDone
  BY <1>0, <1>6, Idles DEF DumpDone, entryVars, listVars, dumpVars
<1> QED BY <1>1, <1>2, <1>3, <1>4, <1>5, <1>6

\* Freeing a list frees all of it.
LEMMA FreesAll ==
  ASSUME LookupInv, FreeList
  PROVE  heap' = {}
<1>1. nodes \in Seq(Node) /\ Len(nodes) \in Nat /\ (nodes = <<>> <=> Len(nodes) = 0)
  BY NodesCountable DEF LookupInv, Typed
<1>2. List = [k \in 1 .. Len(nodes) |-> k]
  BY <1>1, ListIsAll DEF LookupInv
<1>3. Len(List) = Len(nodes) /\ {List[i] : i \in 1 .. Len(List)} = 1 .. Len(nodes)
  BY <1>1, <1>2
<1> QED BY <1>3 DEF FreeList, LookupInv, Owned

\* The steps that free a list, and those of a benchmark.
LEMMA FreeingKeeps ==
  ASSUME LookupInv, Controlled', End \/ Benchmark \/ BenchmarkListDone
  PROVE  LookupInv'
<1> USE DEF Building, Dumping
<1>0. "node" \in DOMAIN call
  BY DEF LookupInv, Typed
<1>1. CASE End
  <2>1. at = "idle" \/ at = "crashed"
    BY <1>1 DEF End, LookupInv, Controlled
  <2>2. CASE FreeList /\ pc' = "exit" /\ at' = at
    <3>1. heap' = {}
      BY <2>2, FreesAll
    <3> QED BY <1>0, <1>1, <2>1, <2>2, <3>1, Idles DEF End, dumpVars
  <2>3. CASE FreeOverflow
    <3>1. pc' = "end" /\ heap' = heap /\ at' = "crashed"
      BY <1>1, <2>3 DEF End, FreeOverflow
    <3> QED BY <1>0, <1>1, <3>1, Idles DEF End, dumpVars
  <2> QED BY <1>1, <2>2, <2>3 DEF End
<1>2. CASE Benchmark
  <2>1. heap = {} /\ cursor = 0 /\ ~ Building /\ ~ Dumping
    BY <1>2 DEF Benchmark, LookupInv, Owned, Controlled
  <2>2. ASSUME NEW ip, CallGetList(Answer[ip].entry), pc' = "benchmark_list"
        PROVE  LookupInv'
    BY <2>1, <2>2, ListBegins
  <2>3. CASE UNCHANGED entryVars /\ pc' \in {"benchmark", "exit"}
    BY <1>0, <2>1, <2>3, Idles DEF entryVars, listVars, dumpVars
  <2> QED BY <1>2, <2>2, <2>3 DEF Benchmark, LookupOrDie, Exit
<1>3. CASE BenchmarkListDone
  <2>1. CASE FreeList /\ pc' \in {"benchmark", "exit"} /\ at' = at
    <3>1. heap' = {}
      BY <2>1, FreesAll
    <3> QED BY <1>0, <1>3, <2>1, <3>1, Idles DEF BenchmarkListDone, dumpVars
  <2>2. CASE FreeOverflow
    <3>1. pc' = "benchmark_list" /\ heap' = heap /\ at' = "crashed"
      BY <1>3, <2>2 DEF BenchmarkListDone, FreeOverflow
    <3> QED BY <1>0, <1>3, <3>1, Idles DEF BenchmarkListDone, dumpVars
  <2> QED BY <1>3, <2>1, <2>2 DEF BenchmarkListDone, Exit
<1> QED BY <1>1, <1>2, <1>3

\* A call for the value at a path has nothing to do with the list.
LEMMA GetValueKeeps ==
  ASSUME LookupInv, Controlled', GetValueStep, UNCHANGED programVars
  PROVE  LookupInv'
<1>1. "node" \in DOMAIN call /\ pc = "value" /\ heap = {}
  BY DEF LookupInv, Typed, Controlled, Owned, GetValueStep, LookupInArray, LookupInMap,
         LookupInSimple, EndOfPath
<1>2. /\ UNCHANGED <<section, listVars, dumpVars, frames>>
      /\ at' \in {"idle", "descend"}
  BY DEF GetValueStep, LookupInArray, LookupInMap, LookupInSimple, EndOfPath, Descend,
         FailLookup, Return, getVars
<1> QED BY <1>1, <1>2, Idles DEF listVars, dumpVars, programVars, Building, Dumping

-----------------------------------------------------------------------------
(* The steps of MMDB_get_entry_data_list().                                *)

\* What holds while a list is built.
LEMMA BuildingFacts ==
  ASSUME LookupInv, Building
  PROVE  /\ nodes \in Seq(Node) /\ Len(nodes) \in Nat /\ Len(nodes) > 0
         /\ DOMAIN nodes = 1 .. Len(nodes) /\ Countable(nodes)
         /\ frames \in Seq(Frame) /\ Waiting(frames) \in Nat
         /\ pc \in {"list", "benchmark_list"} /\ cursor = 0
         /\ "node" \in DOMAIN call
BY NodesCountable, WaitingTop DEF LookupInv, Typed, Controlled, Grows

\* A call of get_entry_data_list() that fails leaves a list that nothing is said of.
LEMMA BuildFails ==
  ASSUME LookupInv, Controlled', Building, UNCHANGED programVars,
         section' = section, nodes' = nodes, heap' = heap, cursor' = cursor,
         "node" \in DOMAIN call', at' = "idle", status' # "SUCCESS"
  PROVE  LookupInv'
<1>1. pc' \in {"list", "benchmark_list"}
  BY BuildingFacts DEF programVars
<1> QED BY <1>1, Idles DEF Building, Dumping

\* A step that goes on building a list keeps what is not about the numbers of nodes.
LEMMA BuildGoesOn ==
  ASSUME LookupInv, Controlled', Building, Building', UNCHANGED programVars,
         section' = section, cursor' = cursor, Linked', Grows',
         nodes' \in Seq(Node), "node" \in DOMAIN call', frames' \in Seq(Frame),
         Len(nodes') <= MaxNodes, heap' = 1 .. Len(nodes')
  PROVE  LookupInv'
<1>1. Node' = Node /\ Frame' = Frame /\ Loop' = Loop
  BY DEF Node, Entries, Frame, Loop
<1>2. pc' \in {"list", "benchmark_list"} /\ cursor' = 0 /\ Len(nodes') \in Nat
      /\ ~ Dumping' /\ at' # "idle"
  BY BuildingFacts, NodesCountable DEF programVars, Building, Dumping
<1>3. Typed'
  BY <1>1, <1>2 DEF LookupInv, Typed
<1>4. Owned'
  BY <1>2 DEF Owned
<1>5. Complete'
  BY <1>2 DEF Complete
<1>6. Reads'
  BY <1>2 DEF Reads, Dumping
<1> QED BY <1>3, <1>4, <1>5, <1>6 DEF LookupInv

\* The last node of a list gets an entry: its links stay, and what is announced
\* grows by what the entry announces.
LEMMA LastEntry ==
  ASSUME LookupInv, Building, NEW e \in Entries,
         nodes' = [nodes EXCEPT ![Len(nodes)].entry = e]
  PROVE  /\ nodes' \in Seq(Node) /\ Len(nodes') = Len(nodes) /\ Linked'
         /\ Announced(nodes', Len(nodes) - 1) = Announced(nodes, Len(nodes) - 1)
         /\ Announced(nodes', Len(nodes)) =
              Announced(nodes, Len(nodes) - 1) + Inside(e)
         /\ Announced(nodes, Len(nodes) - 1) \in Nat /\ Inside(e) \in Nat
<1> DEFINE m == Len(nodes)
           l == m - 1
<1>1. nodes \in Seq(Node) /\ m \in Nat /\ m > 0 /\ Countable(nodes)
  BY BuildingFacts
<1>2. m \in 1 .. m /\ l \in Nat /\ l < m /\ l <= m /\ l + 1 = m
  BY <1>1
<1>3. /\ nodes' \in Seq(Node) /\ Len(nodes') = m /\ nodes'[m].entry = e
      /\ \A i \in 1 .. m : nodes'[i].next = nodes[i].next /\ (i # m => nodes'[i] = nodes[i])
  <2>1. nodes' = [nodes EXCEPT ![m].entry = e]
    OBVIOUS
  <2> HIDE DEF m
  <2>2. m \in 1 .. Len(nodes)
    BY <1>2 DEF m
  <2>3. /\ nodes' \in Seq(Node) /\ Len(nodes') = Len(nodes) /\ nodes'[m].entry = e
        /\ \A i \in 1 .. Len(nodes') :
             nodes'[i].next = nodes[i].next /\ (i # m => nodes'[i] = nodes[i])
    BY <1>1, <2>1, <2>2, EntryChanged
  <2> QED BY <2>3 DEF m
<1>4. Countable(nodes')
  BY <1>3, NodesCountable
<1>5. SameMembers(nodes, nodes', l)
  <2>1. \A i \in 1 .. l : i \in 1 .. m /\ i # m
    BY <1>1
  <2> QED BY <1>3, <2>1 DEF SameMembers
<1>6. Linked'
  BY <1>3 DEF LookupInv, Linked
<1>7. Inside(e) \in Nat
  BY <1>2, <1>3, <1>4 DEF Countable
<1>8. /\ Announced(nodes, l) \in Nat
      /\ Announced(nodes', l) = Announced(nodes, l)
      /\ Announced(nodes', m) = Announced(nodes, l) + Inside(nodes'[m].entry)
  BY <1>1, <1>3, <1>4, <1>5, AnnouncedLast
<1> QED BY <1>3, <1>6, <1>7, <1>8

\* get_entry_data_list() up to its loop.
LEMMA EnterKeeps ==
  ASSUME LookupInv, Controlled', Enter, UNCHANGED programVars
  PROVE  LookupInv'
<1> DEFINE m == Len(nodes)
           e == EntryAt(call.offset)
           frame == [at |-> IF e.type = "pointer" THEN "pointer" ELSE "elements",
                     node |-> call.node, previous |-> call.node, child |-> call.node,
                     left |-> Inside(e), next |-> e.next]
<1>0. Building
  BY DEF Enter, Building
<1>1. /\ nodes \in Seq(Node) /\ m \in Nat /\ m > 0 /\ m \in 1 .. m
      /\ frames \in Seq(Frame) /\ Waiting(frames) \in Nat
      /\ "node" \in DOMAIN call
  BY <1>0, BuildingFacts
<1>2. /\ call.node = m
      /\ 1 + Announced(nodes, m - 1) = m + Waiting(frames)
      /\ \A k \in 1 .. Len(frames) :
           /\ {frames[k].node, frames[k].previous, frames[k].child} \subseteq 1 .. m
           /\ frames[k].at = "pointer" => frames[k].left = 0
  BY <1>0 DEF LookupInv, Grows, Enter
<1>3. m <= MaxNodes /\ heap = 1 .. m
  BY <1>0 DEF LookupInv, Owned
<1>4. section' = section /\ cursor' = cursor /\ call' = call /\ heap' = heap
  BY DEF Enter, dumpVars
<1>5. CASE ~ Decodes(call.offset)
  BY <1>0, <1>1, <1>4, <1>5, BuildFails DEF Enter, Return
<1>6. CASE Decodes(call.offset)
  <2>1. e \in Entries
    BY <1>6, DecodedEntry DEF LookupInv, Typed
  <2>2. /\ nodes' = [nodes EXCEPT ![m].entry = e]
        /\ IF e.type = "pointer" \/ IsCompound(e)
           THEN frames' = <<frame>> \o frames ELSE frames' = frames
        /\ at' = CASE e.type = "pointer" -> "chase"
                   [] IsCompound(e)      -> "element"
                   [] OTHER              -> "return"
    BY <1>2, <1>6 DEF Enter, Push
  <2>3. frame \in Frame /\ frame.left = Inside(e) /\ frame.previous = m
        /\ {frame.node, frame.previous, frame.child} \subseteq 1 .. m
        /\ (frame.at = "pointer" => e.type = "pointer")
    <3>1. Inside(e) \in Nat /\ e.next \in Nat
      BY <2>1 DEF Entries, Inside
    <3> HIDE DEF e
    <3> QED BY <1>1, <1>2, <3>1 DEF Frame
  <2>4. e.type = "pointer" => Inside(e) = 0 /\ ~ IsCompound(e)
    BY DEF Inside, IsCompound
  <2>5. ~ IsCompound(e) => Inside(e) = 0
    BY DEF Inside, IsCompound
  <2> HIDE DEF e, frame
  <2>6. /\ nodes' \in Seq(Node) /\ Len(nodes') = m /\ Linked'
        /\ Announced(nodes', m - 1) = Announced(nodes, m - 1)
        /\ Announced(nodes', m) = Announced(nodes, m - 1) + Inside(e)
        /\ Announced(nodes, m - 1) \in Nat /\ Inside(e) \in Nat
    BY <1>0, <2>1, <2>2, LastEntry
  <2> HIDE DEF m
  <2>7. CASE e.type = "pointer" \/ IsCompound(e)
    <3>1. frames' = <<frame>> \o frames /\ at' \in {"chase", "element"}
          /\ (at' = "chase" => Inside(e) = 0)
      BY <2>2, <2>4, <2>7
    <3>2. /\ frames' \in Seq(Frame) /\ frames' # <<>> /\ frames'[1] = frame
          /\ Head(frames') = frame /\ Tail(frames') = frames
          /\ \A k \in 1 .. Len(frames') :
               k # 1 => k - 1 \in 1 .. Len(frames) /\ frames'[k] = frames[k - 1]
      BY <1>1, <2>3, <3>1, Pushed
    <3>3. Waiting(frames') = Inside(e) + Waiting(frames)
      BY <3>2, <2>3, WaitingTop
    <3>4. ASSUME NEW k \in 1 .. Len(frames')
          PROVE  /\ {frames'[k].node, frames'[k].previous, frames'[k].child}
                       \subseteq 1 .. m
                 /\ frames'[k].at = "pointer" => frames'[k].left = 0
      <4>1. CASE k = 1
        BY <4>1, <3>2, <2>3, <2>4
      <4>2. CASE k # 1
        BY <4>2, <3>2, <1>2
      <4> QED BY <4>1, <4>2
    <3>5. at' = "chase" => 1 + Announced(nodes', m - 1) = m + Waiting(frames')
      BY <3>1, <3>3, <2>6, <1>1, <1>2
    <3>6. 1 + Announced(nodes', m) = m + Waiting(frames')
      <4> DEFINE a == Announced(nodes, m - 1)
                 w == Waiting(frames)
                 i == Inside(e)
      <4>1. a \in Nat /\ i \in Nat /\ w \in Nat /\ m \in Nat /\ 1 + a = m + w
        BY <2>6, <1>1, <1>2
      <4>2. Announced(nodes', m) = a + i /\ Waiting(frames') = i + w
        BY <3>3, <2>6
      <4> HIDE DEF a, w, i
      <4> QED BY <4>1, <4>2
    <3>7. Grows'
      BY <3>1, <3>2, <3>4, <3>5, <3>6, <2>3, <2>6, <1>1, <1>2, <1>4 DEF Grows
    <3>8. Building'
      BY <3>1 DEF Building
    <3> QED BY <3>2, <3>7, <3>8, <2>6, <1>0, <1>1, <1>3, <1>4, BuildGoesOn
  <2>8. CASE ~ (e.type = "pointer" \/ IsCompound(e))
    <3>1. frames' = frames /\ at' = "return" /\ Inside(e) = 0
      BY <2>2, <2>5, <2>8
    <3>2. 1 + Announced(nodes', m) = m + Waiting(frames')
      BY <3>1, <2>6, <1>1, <1>2
    <3>3. Grows'
      BY <3>1, <3>2, <2>6, <1>1, <1>2, <1>4 DEF Grows
    <3>4. Building'
      BY <3>1 DEF Building
    <3> QED BY <3>1, <3>3, <3>4, <2>6, <1>0, <1>1, <1>3, <1>4, BuildGoesOn
  <2> QED BY <2>7, <2>8
<1> QED BY <1>5, <1>6

\* The stack ends.
LEMMA OverflowKeeps ==
  ASSUME LookupInv, Controlled', Overflow, UNCHANGED programVars
  PROVE  LookupInv'
<1>1. Building
  BY DEF Overflow, Building
<1>2. pc' \in {"list", "benchmark_list"} /\ "node" \in DOMAIN call
  BY <1>1, BuildingFacts DEF programVars
<1> QED BY <1>2, Idles DEF Overflow, listVars, dumpVars, Building, Dumping

\* The loop over pointers.
LEMMA ChaseKeeps ==
  ASSUME LookupInv, Controlled', Chase, UNCHANGED programVars
  PROVE  LookupInv'
<1> DEFINE m == Len(nodes)
           target == ChaseTarget(call.node)
           e == EntryAt(target)
<1>0. Building
  BY DEF Chase, Building
<1>1. /\ nodes \in Seq(Node) /\ m \in Nat /\ m > 0 /\ m \in 1 .. m
      /\ frames \in Seq(Frame) /\ Waiting(frames) \in Nat
      /\ "node" \in DOMAIN call
  BY <1>0, BuildingFacts
<1>2. /\ call.node = m
      /\ 1 + Announced(nodes, m - 1) = m + Waiting(frames)
      /\ \A k \in 1 .. Len(frames) :
           /\ {frames[k].node, frames[k].previous, frames[k].child} \subseteq 1 .. m
           /\ frames[k].at = "pointer" => frames[k].left = 0
  BY <1>0 DEF LookupInv, Grows, Chase
<1>3. m <= MaxNodes /\ heap = 1 .. m
  BY <1>0 DEF LookupInv, Owned
<1>4. section' = section /\ cursor' = cursor /\ frames' = frames /\ heap' = heap
  BY DEF Chase, dumpVars
<1>5. CASE ~ Decodes(target)
  BY <1>0, <1>1, <1>4, <1>5, BuildFails DEF Chase, Return
<1>6. CASE Decodes(target)
  <2>1. e \in Entries /\ e.type = section[target].type
    BY <1>6, DecodedEntry DEF LookupInv, Typed
  <2>2. /\ nodes' = [nodes EXCEPT ![m].entry = e]
        /\ at' = CASE section[target].type = "pointer" -> "chase"
                   [] IsCompound(section[target])      -> "enter"
                   [] OTHER                            -> "return"
        /\ call' = [call EXCEPT !.offset = target]
    BY <1>2, <1>6 DEF Chase
  <2>3. "node" \in DOMAIN call' /\ call'.node = m
    BY <1>1, <1>2, <2>2
  <2>4. at' \in {"chase", "enter", "return"} /\ (at' = "return" => Inside(e) = 0)
    <3> HIDE DEF target, e
    <3> QED BY <2>1, <2>2 DEF Inside, IsCompound
  <2> HIDE DEF e, target
  <2>5. /\ nodes' \in Seq(Node) /\ Len(nodes') = m /\ Linked'
        /\ Announced(nodes', m - 1) = Announced(nodes, m - 1)
        /\ Announced(nodes', m) = Announced(nodes, m - 1) + Inside(e)
        /\ Announced(nodes, m - 1) \in Nat /\ Inside(e) \in Nat
    BY <1>0, <2>1, <2>2, LastEntry
  <2> HIDE DEF m
  <2>6. /\ 1 + Announced(nodes', m - 1) = m + Waiting(frames')
        /\ at' = "return" => 1 + Announced(nodes', m) = m + Waiting(frames')
    BY <1>1, <1>2, <1>4, <2>4, <2>5
  <2>7. Grows'
    BY <1>1, <1>2, <1>4, <2>3, <2>4, <2>5, <2>6 DEF Grows
  <2>8. Building'
    BY <2>4 DEF Building
  <2> QED BY <2>3, <2>5, <2>7, <2>8, <1>0, <1>1, <1>3, <1>4, BuildGoesOn
<1> QED BY <1>5, <1>6

\* The first n nodes of two lists are of the same fields.
SameField(e, d) ==
  e.type = d.type /\ e.size = d.size /\ e.value = d.value /\ e.offset = d.offset

SameFields(ns, ms, n) == \A i \in 1 .. n : SameField(ms[i].entry, ns[i].entry)

\* A node that learns where the field behind its contents is keeps its link, its field
\* and what it announces.
LEMMA NextChanged ==
  ASSUME LookupInv, Building, NEW n \in 1 .. Len(nodes), NEW x \in Nat,
         nodes' = [nodes EXCEPT ![n].entry.next = x]
  PROVE  /\ nodes' \in Seq(Node) /\ Len(nodes') = Len(nodes) /\ Linked'
         /\ Announced(nodes', Len(nodes)) = Announced(nodes, Len(nodes))
         /\ SameFields(nodes, nodes', Len(nodes)) /\ nodes'[n].entry.next = x
<1> DEFINE m == Len(nodes)
           e == [nodes[n].entry EXCEPT !.next = x]
<1>1. nodes \in Seq(Node) /\ m \in Nat /\ m > 0 /\ Countable(nodes)
  BY BuildingFacts
<1>2. /\ e \in Entries /\ Inside(e) = Inside(nodes[n].entry)
      /\ SameField(e, nodes[n].entry) /\ e.next = x
  <2>1. nodes[n] \in Node
    BY <1>1
  <2>2. nodes[n].entry \in Entries
    BY <2>1 DEF Node
  <2> QED BY <2>2 DEF Entries, Inside, SameField
<1>3. nodes' = [nodes EXCEPT ![n].entry = e]
  OBVIOUS
<1> HIDE DEF e
<1>4. /\ nodes' \in Seq(Node) /\ Len(nodes') = m /\ nodes'[n].entry = e
      /\ \A i \in 1 .. m : nodes'[i].next = nodes[i].next /\ (i # n => nodes'[i] = nodes[i])
  <2>1. n \in 1 .. Len(nodes)
    OBVIOUS
  <2> HIDE DEF m
  <2>2. /\ nodes' \in Seq(Node) /\ Len(nodes') = Len(nodes) /\ nodes'[n].entry = e
        /\ \A i \in 1 .. Len(nodes') :
             nodes'[i].next = nodes[i].next /\ (i # n => nodes'[i] = nodes[i])
    <3>1. nodes \in Seq(Node) /\ e \in Entries
      BY <1>1, <1>2
    <3>2. \A ms : ms = [nodes EXCEPT ![n].entry = e] =>
             ms \in Seq(Node) /\ Len(ms) = Len(nodes)
      BY <3>1, <2>1, EntryChanged
    <3>4. \A ms : ms = [nodes EXCEPT ![n].entry = e] => ms[n].entry = e
      BY <3>1, <2>1, EntryChanged
    <3>3. \A ms : ms = [nodes EXCEPT ![n].entry = e] =>
        \A i \in 1 .. Len(ms) :
             ms[i].next = nodes[i].next /\ (i # n => ms[i] = nodes[i])
      BY <3>1, <2>1, EntryChanged
    <3> QED BY <3>2, <3>3, <3>4, <1>3
  <2> QED BY <2>2 DEF m
<1>5. Countable(nodes')
  BY <1>4, NodesCountable
<1>6. SameMembers(nodes, nodes', m)
  BY <1>2, <1>4 DEF SameMembers
<1>7. Linked'
  BY <1>4 DEF LookupInv, Linked
<1>8. Announced(nodes', m) = Announced(nodes, m)
  <2>1. Len(nodes) <= Len(nodes')
    BY <1>1, <1>4
  <2> QED BY <1>1, <1>5, <1>6, <2>1, AnnouncedAll
<1>9. SameFields(nodes, nodes', m)
  <2> SUFFICES ASSUME NEW i \in 1 .. m PROVE SameField(nodes'[i].entry, nodes[i].entry)
    BY DEF SameFields
  <2>1. CASE i = n
    BY <1>2, <1>4, <2>1
  <2>2. CASE i # n
    BY <1>4, <2>2 DEF SameField
  <2> QED BY <2>1, <2>2
<1>10. nodes'[n].entry.next = x
  BY <1>2, <1>4
<1> QED BY <1>4, <1>7, <1>8, <1>9, <1>10

\* A node that is linked behind the last one comes after it in the list.
LEMMA NodeAppended ==
  ASSUME LookupInv, Building, nodes' = Link(Len(nodes), Len(nodes) + 1)
  PROVE  /\ nodes' \in Seq(Node) /\ Len(nodes') = Len(nodes) + 1 /\ Linked'
         /\ Announced(nodes', Len(nodes)) = Announced(nodes, Len(nodes))
         /\ SameFields(nodes, nodes', Len(nodes))
<1> DEFINE m == Len(nodes)
           fresh == [entry |-> ZeroEntry, next |-> 0]
           old == [i \in 1 .. m |-> IF i = m THEN [nodes[i] EXCEPT !.next = m + 1]
                                   ELSE nodes[i]]
<1>1. nodes \in Seq(Node) /\ m \in Nat /\ m > 0 /\ Countable(nodes)
  BY BuildingFacts
<1>2. fresh \in Node /\ fresh.next = 0
  <2>1. ZeroEntry \in Entries
    BY DEF ZeroEntry, Entries
  <2> QED BY <2>1 DEF Node
<1>3. \A i \in 1 .. m : /\ old[i] \in Node /\ old[i].entry = nodes[i].entry
                        /\ old[i].next = IF i = m THEN m + 1 ELSE nodes[i].next
  <2> TAKE i \in 1 .. m
  <2>1. nodes[i] \in Node
    BY <1>1
  <2> QED BY <1>1, <2>1 DEF Node
<1>4. old \in Seq(Node) /\ Len(old) = m
  <2>1. old = [i \in 1 .. m |-> old[i]]
    OBVIOUS
  <2> HIDE DEF old, m
  <2> QED BY <1>1, <1>3, <2>1
<1>5. nodes' = old \o <<fresh>>
  BY DEF Link
<1> HIDE DEF fresh, old
<1>6. /\ nodes' \in Seq(Node) /\ Len(nodes') = m + 1
      /\ \A i \in 1 .. m + 1 : nodes'[i] = IF i <= m THEN old[i] ELSE fresh
  <2>1. <<fresh>> \in Seq(Node) /\ Len(<<fresh>>) = 1 /\ <<fresh>>[1] = fresh
    BY <1>2
  <2>2. /\ nodes' \in Seq(Node) /\ Len(nodes') = m + 1
        /\ \A i \in 1 .. m + 1 : nodes'[i] = IF i <= m THEN old[i] ELSE <<fresh>>[i - m]
    <3> HIDE DEF m
    <3> DEFINE one == <<fresh>>
    <3>1. one \in Seq(Node) /\ Len(one) = 1 /\ nodes' = old \o one
      BY <1>5, <2>1
    <3> HIDE DEF one
    <3>2. /\ nodes' \in Seq(Node) /\ Len(nodes') = Len(old) + Len(one)
          /\ \A i \in 1 .. Len(old) + Len(one) :
               nodes'[i] = IF i <= Len(old) THEN old[i] ELSE one[i - Len(old)]
      <4>1. old \in Seq(Node) /\ one \in Seq(Node)
        BY <1>4, <3>1
      <4>2. old \o one \in Seq(Node)
        BY <4>1, ConcatProperties
      <4>3. Len(old \o one) = Len(old) + Len(one)
        BY <4>1, ConcatProperties
      <4>4. \A i \in 1 .. Len(old) + Len(one) :
               (old \o one)[i] = IF i <= Len(old) THEN old[i] ELSE one[i - Len(old)]
        BY <4>1, ConcatProperties
      <4> QED BY <4>2, <4>3, <4>4, <3>1
    <3> QED BY <3>1, <3>2, <1>4 DEF one
  <2>3. \A i \in 1 .. m + 1 : ~ (i <= m) => i - m = 1
    BY <1>1
  <2> QED BY <2>1, <2>2, <2>3
<1>7. Countable(nodes')
  BY <1>6, NodesCountable
<1>8. SameMembers(nodes, nodes', m) /\ SameFields(nodes, nodes', m)
  <2>1. \A i \in 1 .. m : nodes'[i] = old[i]
    BY <1>1, <1>6
  <2>2. \A i \in 1 .. m : nodes'[i].entry = nodes[i].entry
    BY <1>3, <2>1
  <2> QED BY <2>2 DEF SameMembers, SameFields, SameField
<1>9. Linked'
  <2> SUFFICES ASSUME NEW i \in 1 .. m + 1
               PROVE  nodes'[i].next = IF i < m + 1 THEN i + 1 ELSE 0
    BY <1>6 DEF Linked
  <2>1. CASE i = m + 1
    BY <1>1, <1>2, <1>6, <2>1
  <2>2. CASE i = m
    BY <1>1, <1>3, <1>6, <2>2
  <2>3. CASE i < m
    <3>1. i \in 1 .. m /\ i # m /\ i <= m /\ i < m + 1
      BY <1>1, <2>3
    <3>2. nodes'[i].next = nodes[i].next
      BY <1>3, <1>6, <3>1
    <3>3. nodes[i].next = i + 1
      BY <3>1, <2>3 DEF LookupInv, Linked
    <3> QED BY <3>1, <3>2, <3>3
  <2> QED BY <1>1, <2>1, <2>2, <2>3
<1>10. Announced(nodes', m) = Announced(nodes, m)
  <2>1. Len(nodes) <= Len(nodes')
    BY <1>1, <1>6
  <2> QED BY <1>1, <1>7, <1>8, <2>1, AnnouncedAll
<1> QED BY <1>6, <1>8, <1>9, <1>10

\* The loop of an array or a map.
LEMMA ElementKeeps ==
  ASSUME LookupInv, Controlled', Element, UNCHANGED programVars
  PROVE  LookupInv'
<1> DEFINE m == Len(nodes)
           f == Head(frames)
           a == Announced(nodes, m)
           w == Waiting(Tail(frames))
<1>0. Building
  BY DEF Element, Building
<1>1. /\ nodes \in Seq(Node) /\ m \in Nat /\ m > 0 /\ m \in 1 .. m
      /\ frames \in Seq(Frame) /\ frames # <<>> /\ "node" \in DOMAIN call
  BY <1>0, BuildingFacts DEF LookupInv, Grows, Element
<1>2. /\ f.previous = m
      /\ 1 + a = m + Waiting(frames)
      /\ \A k \in 1 .. Len(frames) :
           /\ {frames[k].node, frames[k].previous, frames[k].child} \subseteq 1 .. m
           /\ frames[k].at = "pointer" => frames[k].left = 0
  BY <1>0 DEF LookupInv, Grows, Element
<1>3. m <= MaxNodes /\ heap = 1 .. m
  BY <1>0 DEF LookupInv, Owned
<1>4. section' = section /\ cursor' = cursor
  BY DEF Element, dumpVars
<1>5. /\ f = frames[1] /\ f \in Frame /\ 1 \in 1 .. Len(frames)
      /\ Tail(frames) \in Seq(Frame)
      /\ \A k \in 1 .. Len(Tail(frames)) :
           k + 1 \in 1 .. Len(frames) /\ Tail(frames)[k] = frames[k + 1]
  BY <1>1, Popped
<1>6. Waiting(frames) = f.left + w /\ w \in Nat
  BY <1>1, <1>5, WaitingTop
<1>7. f.left \in Nat /\ f.next \in Nat /\ f.node \in 1 .. m
  BY <1>2, <1>5 DEF Frame
<1>8. a \in Nat
  <2>1. Len(nodes) <= Len(nodes) /\ SameMembers(nodes, nodes, m) /\ Countable(nodes)
    BY <1>0, <1>1, BuildingFacts DEF SameMembers
  <2> QED BY <1>1, <2>1, AnnouncedAll
<1>9. CASE /\ f.left = 0
           /\ nodes' = [nodes EXCEPT ![f.node].entry.next = f.next]
           /\ frames' = Tail(frames) /\ at' = "return"
           /\ call' = [call EXCEPT !.node = f.node] /\ heap' = heap
  <2>1. /\ nodes' \in Seq(Node) /\ Len(nodes') = m /\ Linked'
        /\ Announced(nodes', m) = a
    <3> HIDE DEF f
    <3> QED BY <1>0, <1>7, <1>9, NextChanged
  <2> HIDE DEF m, f, a, w
  <2>2. 1 + Announced(nodes', m) = m + Waiting(frames')
    BY <2>1, <1>2, <1>6, <1>9 DEF w
  <2>3. ASSUME NEW k \in 1 .. Len(frames')
        PROVE  /\ {frames'[k].node, frames'[k].previous, frames'[k].child} \subseteq 1 .. m
               /\ frames'[k].at = "pointer" => frames'[k].left = 0
    BY <2>3, <1>2, <1>5, <1>9
  <2>4. Grows'
    BY <2>1, <2>2, <2>3, <1>1, <1>9 DEF Grows
  <2>5. Building' /\ "node" \in DOMAIN call'
    BY <1>1, <1>9 DEF Building
  <2>6. frames' \in Seq(Frame) /\ Len(nodes') <= MaxNodes /\ heap' = 1 .. Len(nodes')
    BY <1>3, <1>5, <1>9, <2>1
  <2> QED BY <2>1, <2>4, <2>5, <2>6, <1>0, <1>4, BuildGoesOn
<1>10. CASE /\ f.left > 0 /\ m + 1 <= MaxNodes
            /\ nodes' = Link(f.previous, m + 1)
            /\ heap' = heap \cup {m + 1}
            /\ frames' = [frames EXCEPT ![1].left = @ - 1, ![1].child = m + 1]
            /\ call' = [offset |-> f.next, node |-> m + 1]
            /\ at' = "enter"
  <2> DEFINE g == [f EXCEPT !.left = @ - 1, !.child = m + 1]
  <2>1. /\ nodes' \in Seq(Node) /\ Len(nodes') = m + 1 /\ Linked'
        /\ Announced(nodes', m) = a
    BY <1>0, <1>2, <1>10, NodeAppended
  <2>2. /\ g \in Frame /\ g.left = f.left - 1 /\ g.child = m + 1
        /\ g.node = f.node /\ g.previous = f.previous /\ g.at = f.at
    <3>1. f.left - 1 \in Nat /\ m + 1 \in Nat
      BY <1>1, <1>7, <1>10
    <3> HIDE DEF m, f
    <3> QED BY <1>5, <3>1 DEF Frame
  <2>3. frames' = [frames EXCEPT ![1] = g]
    BY <1>1, <1>5, <1>10
  <2> HIDE DEF f, g, w, a
  <2>4. /\ frames' \in Seq(Frame) /\ frames' # <<>> /\ frames'[1] = g
        /\ Len(frames') = Len(frames)
        /\ \A k \in 1 .. Len(frames') : k # 1 => frames'[k] = frames[k]
        /\ Tail(frames') = Tail(frames)
    BY <2>2, <2>3, <1>1, TopChanged
  <2>5. Waiting(frames') = (f.left - 1) + w
    BY <2>2, <2>4, WaitingTop DEF w
  <2> HIDE DEF m
  <2>6. 1 + Announced(nodes', m) = (m + 1) + Waiting(frames')
    <3> DEFINE l == f.left
    <3>1. l \in Nat /\ w \in Nat /\ m \in Nat /\ a \in Nat /\ 1 + a = m + (l + w)
      BY <1>1, <1>2, <1>6, <1>7, <1>8
    <3>2. Announced(nodes', m) = a /\ Waiting(frames') = (l - 1) + w
      BY <2>1, <2>5
    <3> HIDE DEF l
    <3> QED BY <3>1, <3>2
  <2>7. ASSUME NEW k \in 1 .. Len(frames')
        PROVE  /\ {frames'[k].node, frames'[k].previous, frames'[k].child}
                     \subseteq 1 .. m + 1
               /\ frames'[k].at = "pointer" => frames'[k].left = 0
    <3>1. 1 .. m \subseteq 1 .. m + 1 /\ m + 1 \in 1 .. m + 1
      BY <1>1
    <3>2. k \in 1 .. Len(frames)
      BY <2>4
    <3>3. CASE k = 1
      <4>1. f.left = 0 => FALSE
        BY <1>10
      <4> QED BY <3>1, <3>3, <4>1, <2>2, <2>4, <1>2, <1>5
    <3>4. CASE k # 1
      BY <3>1, <3>2, <3>4, <2>4, <1>2
    <3> QED BY <3>3, <3>4
  <2>8. (m + 1) - 1 = m /\ m + 1 > 0 /\ 1 .. m \cup {m + 1} = 1 .. m + 1
    BY <1>1
  <2>9. Grows'
    BY <2>1, <2>6, <2>7, <2>8, <1>10 DEF Grows
  <2>10. Building' /\ "node" \in DOMAIN call'
    BY <1>10 DEF Building
  <2>11. heap' = 1 .. Len(nodes') /\ Len(nodes') <= MaxNodes
    BY <2>1, <2>8, <1>3, <1>10
  <2> QED BY <2>1, <2>4, <2>9, <2>10, <2>11, <1>0, <1>4, BuildGoesOn
<1>11. CASE /\ nodes' = [nodes EXCEPT ![f.previous].next = 0]
            /\ at' = "idle" /\ status' = "OUT_OF_MEMORY" /\ heap' = heap /\ call' = call
  <2>1. nodes' = nodes
    <3>1. nodes[m] \in Node /\ nodes[m].next = 0
      BY <1>1 DEF LookupInv, Linked
    <3>2. [nodes[m] EXCEPT !.next = 0] = nodes[m]
      BY <3>1 DEF Node
    <3>3. nodes' = [nodes EXCEPT ![m] = nodes[m]]
      BY <1>2, <1>11, <3>2
    <3> QED BY <1>1, <3>3
  <2> QED BY <2>1, <1>0, <1>1, <1>4, <1>11, BuildFails
<1>12. m + 1 = Len(nodes) + 1
  OBVIOUS
<1> QED BY <1>9, <1>10, <1>11 DEF Element, Pop, Starve, Return

\* A call of get_entry_data_list() returns.
LEMMA ReturnedKeeps ==
  ASSUME LookupInv, Controlled', Returned, UNCHANGED programVars
  PROVE  LookupInv'
<1> DEFINE m == Len(nodes)
           f == Head(frames)
           a == Announced(nodes, m)
           w == Waiting(Tail(frames))
<1>0. Building
  BY DEF Returned, Building
<1>1. /\ nodes \in Seq(Node) /\ m \in Nat /\ m > 0 /\ m \in 1 .. m
      /\ DOMAIN nodes = 1 .. m
      /\ frames \in Seq(Frame) /\ "node" \in DOMAIN call
      /\ pc \in {"list", "benchmark_list"}
  BY <1>0, BuildingFacts
<1>2. /\ 1 + a = m + Waiting(frames)
      /\ \A k \in 1 .. Len(frames) :
           /\ {frames[k].node, frames[k].previous, frames[k].child} \subseteq 1 .. m
           /\ frames[k].at = "pointer" => frames[k].left = 0
  BY <1>0 DEF LookupInv, Grows, Returned
<1>3. m <= MaxNodes /\ heap = 1 .. m
  BY <1>0 DEF LookupInv, Owned
<1>4. section' = section /\ cursor' = cursor /\ heap' = heap /\ call' = call /\ pc' = pc
  BY DEF Returned, dumpVars, programVars
<1>5. CASE frames = <<>> /\ at' = "idle" /\ status' = "SUCCESS" /\ nodes' = nodes
  <2>1. Waiting(frames) = 0
    BY <1>1, <1>5, WaitingTop
  <2>2. Len(nodes) > 0 /\ 1 + Announced(nodes, Len(nodes)) = Len(nodes)
    <3>1. m + 0 = m
      BY <1>1
    <3> QED BY <1>1, <1>2, <2>1, <3>1
  <2>3. pc' \notin {"options", "open", "lookup", "value", "benchmark", "exit"}
    BY <1>1, <1>4
  <2> QED BY <2>2, <2>3, <1>1, <1>4, <1>5, Idles DEF Building, Dumping
<1>6. CASE frames # <<>>
  <2>1. /\ f = frames[1] /\ f \in Frame /\ 1 \in 1 .. Len(frames)
        /\ Tail(frames) \in Seq(Frame)
        /\ \A k \in 1 .. Len(Tail(frames)) :
             k + 1 \in 1 .. Len(frames) /\ Tail(frames)[k] = frames[k + 1]
    BY <1>1, <1>6, Popped
  <2>2. Waiting(frames) = f.left + w /\ w \in Nat
    BY <1>1, <1>6, <2>1, WaitingTop
  <2>3. /\ f.left \in Nat /\ f.next \in Nat
        /\ f.node \in 1 .. m /\ f.previous \in 1 .. m /\ f.child \in 1 .. m
        /\ f.at = "pointer" => f.left = 0
    BY <1>2, <2>1 DEF Frame
  <2>4. CASE /\ f.at = "pointer"
             /\ nodes' = [nodes EXCEPT ![f.node].entry.next = f.next]
             /\ frames' = Tail(frames) /\ at' = at
    <3>1. /\ nodes' \in Seq(Node) /\ Len(nodes') = m /\ Linked'
          /\ Announced(nodes', m) = a
      <4> HIDE DEF f
      <4> QED BY <1>0, <2>3, <2>4, NextChanged
    <3> HIDE DEF m, f, a, w
    <3>2. 1 + Announced(nodes', m) = m + Waiting(frames')
      BY <3>1, <2>2, <2>3, <2>4, <1>2 DEF w
    <3>3. ASSUME NEW k \in 1 .. Len(frames')
          PROVE  /\ {frames'[k].node, frames'[k].previous, frames'[k].child}
                       \subseteq 1 .. m
                 /\ frames'[k].at = "pointer" => frames'[k].left = 0
      BY <3>3, <1>2, <2>1, <2>4
    <3>4. at' = "return"
      BY <2>4 DEF Returned
    <3>5. Grows'
      BY <3>1, <3>2, <3>3, <3>4, <1>1 DEF Grows
    <3>6. Building' /\ frames' \in Seq(Frame)
      BY <3>4, <2>1, <2>4 DEF Building
    <3> QED BY <3>1, <3>5, <3>6, <1>0, <1>1, <1>3, <1>4, BuildGoesOn
  <2>5. CASE /\ frames' = [frames EXCEPT ![1].next = nodes[f.child].entry.next,
                                         ![1].previous = LastNode(@)]
             /\ f.at = "elements" /\ at' = "element" /\ nodes' = nodes
    <3> DEFINE x == nodes[f.child].entry.next
               g == [f EXCEPT !.next = x, !.previous = LastNode(f.previous)]
    <3>1. LastNode(f.previous) = m
      BY <1>1, <2>3, LastNodeIsLast DEF LookupInv
    <3>2. x \in Nat
      <4>1. nodes[f.child] \in Node
        BY <1>1, <2>3
      <4> QED BY <4>1 DEF Node, Entries
    <3>3. frames' = [frames EXCEPT ![1] = g]
      BY <1>1, <2>1, <2>5
    <3>4. /\ g \in Frame /\ g.left = f.left /\ g.child = f.child
          /\ g.node = f.node /\ g.previous = m /\ g.at = f.at
      <4> HIDE DEF m, f, x
      <4> QED BY <3>1, <3>2, <2>1, <1>1 DEF Frame
    <3> HIDE DEF f, g, w, a, x
    <3>5. /\ frames' \in Seq(Frame) /\ frames' # <<>> /\ frames'[1] = g
          /\ Head(frames') = g /\ Len(frames') = Len(frames)
          /\ \A k \in 1 .. Len(frames') : k # 1 => frames'[k] = frames[k]
          /\ Tail(frames') = Tail(frames)
      BY <3>3, <3>4, <1>1, <1>6, TopChanged
    <3>6. Waiting(frames') = f.left + w
      BY <3>4, <3>5, WaitingTop DEF w
    <3>7. 1 + Announced(nodes', m) = m + Waiting(frames')
      BY <3>6, <1>2, <2>2, <2>5 DEF a
    <3> HIDE DEF m
    <3>8. ASSUME NEW k \in 1 .. Len(frames')
          PROVE  /\ {frames'[k].node, frames'[k].previous, frames'[k].child}
                       \subseteq 1 .. m
                 /\ frames'[k].at = "pointer" => frames'[k].left = 0
      <4>1. CASE k = 1
        BY <4>1, <3>4, <3>5, <2>3, <1>1
      <4>2. CASE k # 1
        BY <4>2, <3>5, <1>2
      <4> QED BY <4>1, <4>2
    <3>9. Grows'
      BY <3>4, <3>5, <3>7, <3>8, <2>5, <1>1 DEF Grows, m
    <3>10. Building' /\ Linked'
      BY <2>5 DEF Building, LookupInv, Linked
    <3> QED BY <3>5, <3>9, <3>10, <2>5, <1>0, <1>1, <1>3, <1>4, BuildGoesOn DEF m
  <2>6. (f.at = "pointer" \/ f.at = "elements")
    BY <2>1 DEF Frame
  <2> QED BY <2>4, <2>5, <2>6, <1>6 DEF Returned, Pop, BehindPointer
<1> QED BY <1>5, <1>6 DEF Returned, Return

-----------------------------------------------------------------------------
(* The steps of MMDB_dump_entry_data_list().                               *)

\* What holds while a list is dumped. The node under the cursor adds to what is
\* announced what its entry does.
LEMMA DumpingFacts ==
  ASSUME LookupInv, Dumping
  PROVE  /\ nodes \in Seq(Node) /\ Len(nodes) \in Nat /\ Len(nodes) > 0
         /\ frames \in Seq(Loop) /\ Due(frames) \in Nat
         /\ pc = "dump" /\ "node" \in DOMAIN call
         /\ cursor \in 0 .. Len(nodes)
         /\ Place \in 1 .. Len(nodes) + 1 /\ Announced(nodes, Place - 1) \in Nat
         /\ Due(frames) + Place <= Announced(nodes, Place - 1) + 2
         /\ at = "dump" =>
              cursor # 0 /\ Due(frames) + Place <= Announced(nodes, Place - 1) + 1
         /\ cursor # 0 =>
              /\ Place = cursor /\ nodes[cursor].entry \in Entries
              /\ Announced(nodes, cursor - 1) \in Nat
              /\ Inside(nodes[cursor].entry) \in Nat
              /\ Announced(nodes, cursor) =
                   Announced(nodes, cursor - 1) + Inside(nodes[cursor].entry)
              /\ NextNode(cursor) = (IF cursor < Len(nodes) THEN cursor + 1 ELSE 0)
              /\ 1 + Announced(nodes, Len(nodes)) = Len(nodes)
<1>1. /\ nodes \in Seq(Node) /\ Len(nodes) \in Nat /\ Countable(nodes)
      /\ frames \in Seq(Loop) /\ pc = "dump" /\ "node" \in DOMAIN call
  BY NodesCountable DEF LookupInv, Typed, Controlled
<1>2. Len(nodes) > 0 /\ 1 + Announced(nodes, Len(nodes)) = Len(nodes)
  BY DEF LookupInv, Complete
<1>3. Due(frames) \in Nat
  BY <1>1, DueTop
<1>4. /\ cursor \in 0 .. Len(nodes)
      /\ at = "dump" =>
           cursor # 0 /\ Due(frames) + Place <= Announced(nodes, Place - 1) + 1
      /\ at = "member" => Due(frames) + Place <= Announced(nodes, Place - 1) + 2
  BY DEF LookupInv, Reads
<1>5. ASSUME NEW n \in Nat, n < Len(nodes)
      PROVE  Announced(nodes, n) \in Nat
  BY <1>1, <1>5, AnnouncedNext
<1>6. ASSUME cursor # 0
      PROVE  /\ Place = cursor /\ nodes[cursor].entry \in Entries
             /\ Announced(nodes, cursor - 1) \in Nat
             /\ Inside(nodes[cursor].entry) \in Nat
             /\ Announced(nodes, cursor) =
                  Announced(nodes, cursor - 1) + Inside(nodes[cursor].entry)
             /\ NextNode(cursor) = (IF cursor < Len(nodes) THEN cursor + 1 ELSE 0)
  <2> DEFINE n == cursor - 1
  <2>1. n \in Nat /\ n < Len(nodes) /\ n + 1 = cursor /\ cursor \in 1 .. Len(nodes)
    BY <1>1, <1>4, <1>6
  <2>2. nodes[cursor] \in Node /\ Inside(nodes[cursor].entry) \in Nat
    BY <1>1, <2>1 DEF Countable
  <2>3. nodes[cursor].entry \in Entries
    BY <2>2 DEF Node
  <2>4. NextNode(cursor) = (IF cursor < Len(nodes) THEN cursor + 1 ELSE 0)
    BY <2>1 DEF NextNode, LookupInv, Linked
  <2>5. Place = cursor
    BY <1>6 DEF Place
  <2> HIDE DEF n
  <2>6. /\ Announced(nodes, n) \in Nat
        /\ Announced(nodes, n + 1) = Announced(nodes, n) + Inside(nodes[n + 1].entry)
    BY <1>1, <2>1, AnnouncedNext
  <2> QED BY <2>1, <2>2, <2>3, <2>4, <2>5, <2>6 DEF n
<1>7. Due(frames) + Place <= Announced(nodes, Place - 1) + 2
  <2>1. CASE at = "member"
    BY <1>4, <2>1
  <2>2. CASE at = "dump"
    <3> DEFINE d == Due(frames)
               b == Announced(nodes, cursor - 1)
    <3>1. Place = cursor /\ b \in Nat /\ d \in Nat /\ cursor \in Nat /\ d + cursor <= b + 1
      BY <1>1, <1>3, <1>4, <1>6, <2>2
    <3>2. d + cursor <= b + 2
      <4> HIDE DEF b, d
      <4> QED BY <3>1
    <3> QED BY <3>1, <3>2
  <2> QED BY <2>1, <2>2 DEF Dumping
<1>8. Place \in 1 .. Len(nodes) + 1 /\ Announced(nodes, Place - 1) \in Nat
  <2>1. CASE cursor = 0
    <3> DEFINE m == Len(nodes)
    <3>1. SameMembers(nodes, nodes, m)
      BY DEF SameMembers
    <3>2. m \in Nat /\ m <= m
      BY <1>1
    <3>3. Announced(nodes, m) \in Nat
      BY <1>1, <3>1, <3>2, AnnouncedAll
    <3> HIDE DEF m
    <3>4. Place = m + 1 /\ (m + 1) - 1 = m /\ m + 1 \in 1 .. m + 1
      BY <2>1, <3>2 DEF Place, m
    <3> QED BY <3>3, <3>4 DEF m
  <2>2. CASE cursor # 0
    <3>1. cursor \in 1 .. Len(nodes) + 1
      BY <1>1, <1>4, <2>2
    <3> QED BY <3>1, <2>2, <1>6
  <2> QED BY <2>1, <2>2
<1> QED BY <1>1, <1>2, <1>3, <1>4, <1>6, <1>7, <1>8

\* A dump that ends, or crashes, leaves the list to be freed.
LEMMA DumpEnds ==
  ASSUME LookupInv, Controlled', Dumping, UNCHANGED programVars,
         UNCHANGED <<section, getVars, listVars, cursor>>, at' \in {"idle", "crashed"}
  PROVE  LookupInv'
<1>1. pc' = "dump" /\ "node" \in DOMAIN call
  BY DumpingFacts DEF programVars
<1> QED BY <1>1, Idles DEF listVars, Building, Dumping

\* A step that goes on dumping has to keep what is left to read.
LEMMA DumpGoesOn ==
  ASSUME LookupInv, Controlled', Dumping, Dumping', UNCHANGED programVars,
         UNCHANGED <<section, getVars, listVars>>, frames' \in Seq(Loop),
         cursor' \in 0 .. Len(nodes),
         at' = "dump" =>
           cursor' # 0 /\ Due(frames') + Place' <= Announced(nodes, Place' - 1) + 1,
         at' = "member" => Due(frames') + Place' <= Announced(nodes, Place' - 1) + 2
  PROVE  LookupInv'
<1>1. Node' = Node /\ Frame' = Frame /\ Loop' = Loop /\ nodes' = nodes /\ heap' = heap
      /\ call' = call
  BY DEF Node, Entries, Frame, Loop, listVars
<1>2. pc' = "dump" /\ ~ Building'
  BY DumpingFacts DEF programVars, Building, Dumping
<1>3. Typed'
  BY <1>1, <1>2 DEF LookupInv, Typed
<1>4. Linked' /\ Owned' /\ Grows'
  BY <1>1, <1>2 DEF LookupInv, Linked, Owned, Grows
<1>5. Complete'
  BY <1>1, DumpingFacts DEF LookupInv, Complete
<1>6. Reads'
  BY <1>1 DEF Reads
<1> QED BY <1>3, <1>4, <1>5, <1>6 DEF LookupInv

\* dump_entry_data_list() up to its loop: the node is read.
LEMMA DumpFieldKeeps ==
  ASSUME LookupInv, Controlled', DumpField, UNCHANGED programVars
  PROVE  LookupInv'
<1> DEFINE e == nodes[cursor].entry
           d == Due(frames)
           b == Announced(nodes, cursor - 1)
           i == Inside(e)
           m == Len(nodes)
           f == [type |-> e.type, left |-> e.size]
<1>0. Dumping /\ at = "dump"
  BY DEF DumpField, Dumping
<1>1. /\ nodes \in Seq(Node) /\ m \in Nat /\ m > 0 /\ frames \in Seq(Loop) /\ d \in Nat
      /\ cursor \in 1 .. m /\ d + cursor <= b + 1 /\ e \in Entries
      /\ b \in Nat /\ i \in Nat /\ Announced(nodes, cursor) = b + i
      /\ NextNode(cursor) = (IF cursor < m THEN cursor + 1 ELSE 0)
  <2>1. m \in Nat /\ cursor \in 0 .. m /\ cursor # 0
    BY <1>0, DumpingFacts
  <2>2. cursor \in 1 .. m
    BY <2>1
  <2> QED BY <1>0, <2>1, <2>2, DumpingFacts
<1>2. UNCHANGED <<section, getVars, listVars>>
  BY DEF DumpField
<1>3. ASSUME cursor' = NextNode(cursor)
      PROVE  cursor' \in 0 .. m /\ Place' = cursor + 1 /\ Place' - 1 = cursor
  <2>1. nodes' = nodes
    BY <1>2 DEF listVars
  <2>2. cursor' = IF cursor < m THEN cursor + 1 ELSE 0
    BY <1>1, <1>3
  <2>3. Place' = IF cursor' = 0 THEN m + 1 ELSE cursor'
    BY <2>1 DEF Place
  <2> HIDE DEF m
  <2> QED BY <1>1, <2>2, <2>3
<1>4. CASE /\ IsCompound(e) /\ frames' = <<f>> \o frames
           /\ cursor' = NextNode(cursor) /\ at' = "member"
  <2>1. f \in Loop /\ Weight(f) = i
    <3> HIDE DEF e
    <3> QED BY <1>1, <1>4 DEF Entries, Loop, Weight, Inside, IsCompound
  <2> HIDE DEF f, e, i, d, b
  <2>2. /\ frames' \in Seq(Loop) /\ frames' # <<>> /\ frames'[1] = f
        /\ Tail(frames') = frames
    BY <1>1, <1>4, <2>1, Pushed
  <2>3. Due(frames') = i + d
    BY <2>1, <2>2, DueTop DEF d
  <2>4. Due(frames') + Place' <= Announced(nodes, Place' - 1) + 2
    <3>1. (i + d) + (cursor + 1) <= (b + i) + 2
      BY <1>1
    <3> QED BY <1>1, <1>3, <1>4, <2>3, <3>1
  <2>5. Dumping'
    BY <1>4 DEF Dumping
  <2> QED BY <1>0, <1>2, <1>3, <1>4, <2>2, <2>4, <2>5, DumpGoesOn
<1>5. CASE frames' = frames /\ cursor' = NextNode(cursor) /\ at' = "member"
  <2>1. Due(frames') + Place' <= Announced(nodes, Place' - 1) + 2
    <3>1. Due(frames') = d
      BY <1>5
    <3> HIDE DEF d, b, i
    <3>2. d + (cursor + 1) <= (b + i) + 2
      BY <1>1
    <3> QED BY <1>1, <1>3, <1>5, <3>1, <3>2
  <2>2. Dumping'
    BY <1>5 DEF Dumping
  <2> QED BY <1>0, <1>1, <1>2, <1>3, <1>5, <2>1, <2>2, DumpGoesOn
<1>6. CASE at' \in {"idle", "crashed"} /\ cursor' = cursor
  BY <1>0, <1>2, <1>6, DumpEnds
<1> QED BY <1>4, <1>5, <1>6 DEF DumpField, Push, Starve, Return

\* The loop of a map or an array: the key of a pair is read, and there is a node for
\* its value.
LEMMA DumpMemberKeeps ==
  ASSUME LookupInv, Controlled', DumpMember, UNCHANGED programVars
  PROVE  LookupInv'
<1> DEFINE d == Due(frames)
           m == Len(nodes)
           f == Head(frames)
           r == Due(Tail(frames))
           g == [f EXCEPT !.left = @ - 1]
<1>0. Dumping /\ at = "member"
  BY DEF DumpMember, Dumping
<1>1. /\ nodes \in Seq(Node) /\ m \in Nat /\ m > 0 /\ frames \in Seq(Loop) /\ d \in Nat
      /\ cursor \in 0 .. m /\ d + Place <= Announced(nodes, Place - 1) + 2
  BY <1>0, DumpingFacts
<1>2. UNCHANGED <<section, getVars, listVars>> /\ nodes' = nodes
  BY DEF DumpMember, listVars
<1>3. CASE at' \in {"idle", "crashed"} /\ cursor' = cursor
  BY <1>0, <1>2, <1>3, DumpEnds
<1>4. ASSUME frames # <<>>
      PROVE  /\ f = frames[1] /\ f \in Loop /\ Tail(frames) \in Seq(Loop)
             /\ f.left \in Nat /\ d = Weight(f) + r /\ Weight(f) \in Nat /\ r \in Nat
  <2>1. f = frames[1] /\ f \in Loop /\ Tail(frames) \in Seq(Loop)
    BY <1>1, <1>4, Popped
  <2>2. f.left \in Nat
    BY <2>1 DEF Loop
  <2>3. d = Weight(f) + r /\ Weight(f) \in Nat /\ r \in Nat
    BY <1>1, <1>4, <2>1, DueTop
  <2> QED BY <2>1, <2>2, <2>3
<1>5. CASE frames # <<>> /\ frames' = Tail(frames) /\ cursor' = cursor /\ at' = at
  <2>1. Place' = Place /\ Due(frames') = r /\ frames' \in Seq(Loop)
    BY <1>2, <1>4, <1>5 DEF Place
  <2>2. r + Place <= Announced(nodes, Place - 1) + 2
    <3> DEFINE v == Weight(f)
               A == Announced(nodes, Place - 1)
    <3>1. v \in Nat /\ r \in Nat /\ d = v + r /\ d + Place <= A + 2
      BY <1>1, <1>4, <1>5
    <3>2. Place \in Int /\ A \in Int
      BY <1>0, <1>1, DumpingFacts
    <3> HIDE DEF v, A, r, d
    <3>3. r + Place <= A + 2
      BY <3>1, <3>2
    <3> QED BY <3>3 DEF A
  <2>3. Dumping' /\ at' = "member"
    BY <1>0, <1>5 DEF Dumping
  <2> QED BY <1>0, <1>1, <1>2, <1>5, <2>1, <2>2, <2>3, DumpGoesOn
<1>6. ASSUME MemberDue, frames' = [frames EXCEPT ![1].left = @ - 1]
      PROVE  /\ frames' \in Seq(Loop) /\ cursor \in 1 .. m
             /\ f.type = "array" => Due(frames') = d - 1
             /\ f.type = "map" => Due(frames') = d - 2 /\ d \in Nat /\ d >= 2
             /\ Due(frames') \in Nat
  <2>1. frames # <<>> /\ f.left > 0 /\ cursor # 0
    BY <1>6 DEF MemberDue
  <2>2. /\ f = frames[1] /\ f \in Loop /\ Tail(frames) \in Seq(Loop)
        /\ f.left \in Nat /\ d = Weight(f) + r /\ Weight(f) \in Nat /\ r \in Nat
    BY <1>4, <2>1
  <2>3. frames' = [frames EXCEPT ![1] = g]
    BY <1>1, <1>6, <2>2
  <2>4. g \in Loop /\ g.left = f.left - 1 /\ g.type = f.type
    <3>1. f.left - 1 \in Nat
      BY <2>1, <2>2
    <3> HIDE DEF f
    <3> QED BY <2>2, <3>1 DEF Loop
  <2> HIDE DEF f, g, r, d
  <2>5. /\ frames' \in Seq(Loop) /\ frames' # <<>> /\ frames'[1] = g
        /\ Tail(frames') = Tail(frames)
    BY <1>1, <2>1, <2>3, <2>4, TopChanged
  <2>6. Due(frames') = Weight(g) + r /\ Due(frames') \in Nat
    BY <2>5, DueTop DEF r
  <2>7. f.type = "array" => Weight(g) = f.left - 1 /\ Weight(f) = f.left
    BY <2>4 DEF Weight
  <2>8. f.type = "map" => Weight(g) = 2 * (f.left - 1) /\ Weight(f) = 2 * f.left
    BY <2>4 DEF Weight
  <2>9. cursor \in 1 .. m
    BY <1>1, <2>1
  <2>10. f.type = "array" => Due(frames') = d - 1
    BY <2>2, <2>6, <2>7
  <2>11. f.type = "map" => Due(frames') = d - 2 /\ d \in Nat /\ d >= 2
    <3> SUFFICES ASSUME f.type = "map"
                 PROVE  Due(frames') = d - 2 /\ d \in Nat /\ d >= 2
      OBVIOUS
    <3> DEFINE l == f.left
    <3>1. l \in Nat /\ l > 0 /\ r \in Nat
      BY <2>1, <2>2
    <3>2. d = 2 * l + r /\ Due(frames') = 2 * (l - 1) + r
      BY <2>2, <2>6, <2>8
    <3> HIDE DEF l
    <3> QED BY <3>1, <3>2
  <2> QED BY <2>5, <2>6, <2>9, <2>10, <2>11
<1>7. CASE /\ MemberDue /\ f.type = "array"
           /\ frames' = [frames EXCEPT ![1].left = @ - 1]
           /\ at' = "dump" /\ cursor' = cursor
  <2> DEFINE A == Announced(nodes, Place - 1)
  <2>1. Place' = Place /\ Dumping' /\ cursor' # 0
    BY <1>2, <1>7 DEF Place, Dumping, MemberDue
  <2>2. /\ frames' \in Seq(Loop) /\ Due(frames') = d - 1 /\ d \in Nat
        /\ Place \in Int /\ A \in Int /\ d + Place <= A + 2
    BY <1>0, <1>1, <1>6, <1>7, DumpingFacts
  <2>3. Due(frames') + Place <= A + 1
    <3> HIDE DEF A, d
    <3> QED BY <2>2
  <2> QED BY <1>0, <1>1, <1>2, <1>7, <2>1, <2>2, <2>3, DumpGoesOn
<1>8. CASE /\ MemberDue /\ f.type = "map"
           /\ frames' = [frames EXCEPT ![1].left = @ - 1]
           /\ at' = "dump" /\ cursor' = NextNode(cursor)
  <2> DEFINE b == Announced(nodes, cursor - 1)
             i == Inside(nodes[cursor].entry)
             x == Due(frames')
  <2>1. /\ frames' \in Seq(Loop) /\ cursor \in 1 .. m /\ x = d - 2 /\ d >= 2
        /\ d \in Nat /\ x \in Nat
    BY <1>1, <1>6, <1>8
  <2>2. /\ Place = cursor /\ b \in Nat /\ i \in Nat /\ Announced(nodes, cursor) = b + i
        /\ NextNode(cursor) = (IF cursor < m THEN cursor + 1 ELSE 0)
        /\ 1 + Announced(nodes, m) = m /\ d + cursor <= b + 2
    <3>1. cursor # 0
      BY <2>1, <1>1
    <3>2. Place = cursor
      BY <3>1 DEF Place
    <3> QED BY <1>0, <1>1, <3>1, <3>2, DumpingFacts
  <2> HIDE DEF b, i, d, m, x
  <2>3. cursor # m
    <3> SUFFICES ASSUME cursor = m PROVE FALSE
      OBVIOUS
    <3>1. 1 + (b + i) = m /\ d + m <= b + 2
      BY <2>2
    <3> QED BY <3>1, <2>1, <2>2, <1>1
  <2>4. cursor' = cursor + 1 /\ cursor' \in 0 .. m /\ cursor' # 0 /\ cursor' - 1 = cursor
    <3>1. cursor < m /\ cursor \in Nat
      BY <1>1, <2>1, <2>3
    <3>2. cursor' = cursor + 1
      BY <1>8, <2>2, <3>1
    <3>3. cursor + 1 \in 0 .. m /\ cursor + 1 # 0 /\ (cursor + 1) - 1 = cursor
      BY <1>1, <3>1
    <3> QED BY <3>2, <3>3
  <2>5. Place' = cursor'
    BY <2>4 DEF Place
  <2>6. x + (cursor + 1) <= (b + i) + 1
    BY <1>1, <2>1, <2>2
  <2>7. Due(frames') + Place' <= Announced(nodes, Place' - 1) + 1
    BY <2>2, <2>4, <2>5, <2>6 DEF x
  <2>8. Dumping'
    BY <1>8 DEF Dumping
  <2> QED BY <1>0, <1>2, <1>8, <2>1, <2>4, <2>7, <2>8, DumpGoesOn DEF m
<1> QED BY <1>3, <1>5, <1>7, <1>8 DEF DumpMember, Pop, Starve, Return

-----------------------------------------------------------------------------
(* The theorems.                                                           *)

\* In the initial states there is no list.
LEMMA LookupInvInit == Init => LookupInv
<1> SUFFICES ASSUME Init PROVE LookupInv
  OBVIOUS
<1>1. section \in {input.section : input \in Inputs}
  BY DEF Init
<1>2. nodes = <<>> /\ nodes \in Seq(Node) /\ Len(nodes) = 0 /\ "node" \in DOMAIN call
  BY DEF Init
<1>3. /\ heap = {} /\ cursor = 0 /\ at = "idle" /\ pc = "options" /\ status = "SUCCESS"
      /\ code = "none" /\ ~ mapped
  BY DEF Init
<1>4. Typed
  BY <1>1, <1>2, <1>3 DEF Typed, Building, Dumping
<1>5. Controlled
  BY <1>3 DEF Controlled, Building, Dumping
<1>6. MaxNodes \in Nat /\ 0 <= MaxNodes
  BY EntryAssumption
<1>7. Linked /\ Owned /\ Grows /\ Complete /\ Reads
  BY <1>2, <1>3, <1>6 DEF Linked, Owned, Grows, Complete, Reads, Building, Dumping
<1> QED BY <1>4, <1>5, <1>7 DEF LookupInv

\* Every step keeps the invariant.
LEMMA LookupInvNext == LookupInv /\ [Next]_vars => LookupInv'
<1> SUFFICES ASSUME LookupInv, [Next]_vars PROVE LookupInv'
  OBVIOUS
<1>1. CASE Step
  <2>1. Controlled'
    BY <1>1, ControlledKept
  <2>2. CASE LibraryStep /\ UNCHANGED programVars
    BY <2>1, <2>2, GetValueKeeps, EnterKeeps, OverflowKeeps, ChaseKeeps, ElementKeeps,
       ReturnedKeeps, DumpFieldKeeps, DumpMemberKeeps
       DEF LibraryStep, GetListStep, DumpStep
  <2> QED BY <1>1, <2>1, <2>2, ProgramKeeps, FreeingKeeps DEF Step
<1>2. CASE UNCHANGED vars
  <2>1. /\ UNCHANGED <<section, at, status, nodes, heap, call, frames, cursor>>
        /\ UNCHANGED <<pc, mapped, code>>
    BY <1>2 DEF vars, entryVars, getVars, listVars, dumpVars, programVars
  <2>2. Node' = Node /\ Frame' = Frame /\ Loop' = Loop /\ Building' = Building
        /\ Dumping' = Dumping
    BY <2>1 DEF Node, Entries, Frame, Loop, Building, Dumping
  <2>3. Typed' /\ Controlled'
    BY <2>1, <2>2 DEF LookupInv, Typed, Controlled
  <2>4. Linked' /\ Owned' /\ Complete'
    BY <2>1, <2>2 DEF LookupInv, Linked, Owned, Complete
  <2>5. Grows' /\ Reads'
    BY <2>1, <2>2 DEF LookupInv, Grows, Reads, Place
  <2> QED BY <2>3, <2>4, <2>5 DEF LookupInv
<1> QED BY <1>1, <1>2 DEF Next

\* The invariant holds in every reachable state, for every data section.
THEOREM LookupInvariant == Spec => []LookupInv
BY LookupInvInit, LookupInvNext, PTL DEF Spec

\* No link leads out of the list and no list is longer than memory allows; and a dump
\* of a list never reads the NULL at its end, which mmdblookup and the library do not
\* test for, whatever sizes the fields of the section announce.
THEOREM LookupTypes == Spec => []TypeOK
<1>1. LookupInv => TypeOK
  <2> SUFFICES ASSUME LookupInv PROVE TypeOK
    OBVIOUS
  <2>1. Len(nodes) \in Nat /\ DOMAIN nodes = 1 .. Len(nodes)
    BY NodesCountable DEF LookupInv, Typed
  <2>2. heap \subseteq 1 .. Len(nodes) /\ Len(nodes) <= MaxNodes
    BY DEF LookupInv, Owned
  <2>3. \A n \in DOMAIN nodes : nodes[n].next \in 0 .. Len(nodes)
    BY <2>1 DEF LookupInv, Linked
  <2>4. cursor \in 0 .. Len(nodes) /\ (at = "dump" => cursor # 0)
    BY DEF LookupInv, Reads
  <2> QED BY <2>2, <2>3, <2>4 DEF TypeOK, LookupInv, Controlled
<1> QED BY <1>1, LookupInvariant, PTL

\* At every moment, also after an allocation failed half way, all nodes that are
\* allocated can be reached from the head of the list.
THEOREM ListReachable == Spec => []NoNodeLost
<1>1. LookupInv => NoNodeLost
  <2> SUFFICES ASSUME LookupInv PROVE NoNodeLost
    OBVIOUS
  <2>1. /\ Len(nodes) \in Nat /\ (nodes = <<>> <=> Len(nodes) = 0)
    BY NodesCountable DEF LookupInv, Typed
  <2>2. List = [k \in 1 .. Len(nodes) |-> k]
    BY <2>1, ListIsAll DEF LookupInv
  <2>3. {List[i] : i \in DOMAIN List} = 1 .. Len(nodes)
    BY <2>1, <2>2
  <2> QED BY <2>3 DEF LookupInv, Owned, NoNodeLost
<1> QED BY <1>1, LookupInvariant, PTL

\* When the program has returned from looking an address up or from a benchmark, all
\* lists are freed and the file is closed.
THEOREM EverythingReturned == Spec => []ReturnsEverything
<1>1. LookupInv => ReturnsEverything
  BY DEF LookupInv, Owned, Controlled, ReturnsEverything
<1> QED BY <1>1, LookupInvariant, PTL
=============================================================================
