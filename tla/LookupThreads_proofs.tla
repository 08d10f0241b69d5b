------------------------ MODULE LookupThreads_proofs ------------------------
(***************************************************************************)
(* Theorems about LookupThreads, for any number of threads, any trees and  *)
(* any widths of the addresses, and the facts about the paths of a search  *)
(* tree they rest on.                                                      *)
(***************************************************************************)
EXTENDS LookupThreads, Facts_proofs

-----------------------------------------------------------------------------
(* The paths of a search tree.                                             *)

\* Path is a function that satisfies its recursive equation.
LEMMA PathEquation ==
  ASSUME NEW records, NEW bits, NEW n \in Nat
  PROVE  Path(records, bits, n) =
           [k \in 0 .. n |->
              IF k = 0 THEN 0
              ELSE Follow(records, Path(records, bits, n)[k - 1], bits[k - 1])]
<1> DEFINE It(m, f) ==
             f = [k \in 0 .. m |->
                    IF k = 0 THEN 0 ELSE Follow(records, f[k - 1], bits[k - 1])]
           T == {m \in Nat : ~ \E f : It(m, f)}
<1>4. T = {}
  <2> SUFFICES ASSUME T # {} PROVE FALSE
    OBVIOUS
  <2>1. PICK m \in T : \A y \in T : m <= y
    BY LeastNat
  <2>2. CASE m = 0
    <3> DEFINE f == [k \in 0 .. 0 |-> 0]
    <3>1. It(0, f)
      OBVIOUS
    <3> QED BY <3>1, <2>2, <2>1
  <2>3. CASE m # 0
    <3>1. m - 1 \in Nat /\ m - 1 \notin T
      BY <2>1, <2>3
    <3>2. PICK f : It(m - 1, f)
      BY <3>1
    <3> DEFINE g == [k \in 0 .. m |->
                       IF k = m THEN Follow(records, f[m - 1], bits[m - 1])
                                ELSE f[k]]
    <3>3. ASSUME NEW k \in 0 .. m
          PROVE  g[k] = IF k = 0 THEN 0 ELSE Follow(records, g[k - 1], bits[k - 1])
      <4>1. CASE k = m
        <5>1. g[k] = Follow(records, f[m - 1], bits[m - 1])
          BY <4>1
        <5>2. m - 1 \in 0 .. m /\ m - 1 # m
          BY <2>3
        <5>3. g[m - 1] = f[m - 1]
          BY <5>2
        <5> QED BY <5>1, <5>3, <4>1, <2>3
      <4>2. CASE k # m /\ k # 0
        <5>1. k \in 0 .. m - 1 /\ k - 1 \in 0 .. m /\ k - 1 # m
          BY <4>2
        <5>2. f[k] = Follow(records, f[k - 1], bits[k - 1])
          BY <5>1, <3>2, <4>2
        <5>3. g[k] = f[k] /\ g[k - 1] = f[k - 1]
          BY <5>1, <4>2
        <5> QED BY <5>2, <5>3, <4>2
      <4>3. CASE k = 0 /\ k # m
        <5>1. f[0] = 0
          BY <3>2, <2>3
        <5> QED BY <5>1, <4>3
      <4> QED BY <4>1, <4>2, <4>3
    <3>4. It(m, g)
      <4> HIDE DEF g
      <4>1. g = [k \in 0 .. m |-> g[k]]
        BY DEF g
      <4> QED BY <4>1, <3>3
    <3> QED BY <3>4, <2>1
  <2> QED BY <2>2, <2>3
<1>5. \E f : It(n, f)
  BY <1>4
<1>6. It(n, CHOOSE f : It(n, f))
  BY <1>5
<1> QED BY <1>6 DEF Path

\* The equation, one value at a time.
LEMMA PathValues ==
  ASSUME NEW records, NEW bits, NEW n \in Nat
  PROVE  /\ DOMAIN Path(records, bits, n) = 0 .. n
         /\ Path(records, bits, n)[0] = 0
         /\ \A k \in 0 .. n - 1 :
              Path(records, bits, n)[k + 1] =
                Follow(records, Path(records, bits, n)[k], bits[k])
<1> DEFINE P == Path(records, bits, n)
<1>1. P = [k \in 0 .. n |->
             IF k = 0 THEN 0 ELSE Follow(records, P[k - 1], bits[k - 1])]
  BY PathEquation
<1> HIDE DEF P
<1>2. DOMAIN P = 0 .. n /\ P[0] = 0
  BY <1>1
<1>3. ASSUME NEW k \in 0 .. n - 1
      PROVE  P[k + 1] = Follow(records, P[k], bits[k])
  <2>1. k + 1 \in 0 .. n /\ k + 1 # 0 /\ (k + 1) - 1 = k
    OBVIOUS
  <2> QED BY <2>1, <1>1
<1> QED BY <1>2, <1>3 DEF P

\* Every record on a path is a natural number.
LEMMA PathType ==
  ASSUME NEW records \in [Nodes -> [Bits -> Nat]],
         NEW n \in Nat,
         NEW bits \in [0 .. n - 1 -> Bits]
  PROVE  Path(records, bits, n) \in [0 .. n -> Nat]
<1> DEFINE P == Path(records, bits, n)
           T == {k \in 0 .. n : P[k] \notin Nat}
<1>1. /\ DOMAIN P = 0 .. n
      /\ P[0] = 0
      /\ \A k \in 0 .. n - 1 : P[k + 1] = Follow(records, P[k], bits[k])
  BY PathValues
<1>2. P = [k \in 0 .. n |-> P[k]]
  BY PathEquation
<1> HIDE DEF P
<1>3. T = {}
  <2> SUFFICES ASSUME T # {} PROVE FALSE
    OBVIOUS
  <2>0. T \subseteq Nat
    OBVIOUS
  <2>1. PICK k \in T : \A y \in T : k <= y
    <3> HIDE DEF T
    <3> QED BY <2>0, LeastNat
  <2>2. k - 1 \in 0 .. n - 1 /\ P[k - 1] \in Nat
    BY <2>1, <1>1
  <2>3. P[k] = Follow(records, P[k - 1], bits[k - 1])
    <3>1. (k - 1) + 1 = k
      BY <2>1
    <3> QED BY <3>1, <2>2, <1>1
  <2>4. Follow(records, P[k - 1], bits[k - 1]) \in Nat
    <3>1. bits[k - 1] \in Bits
      BY <2>2
    <3>2. P[k - 1] < NodeCount => P[k - 1] \in Nodes
      BY <2>2, SearchTreeAssumption DEF Nodes
    <3> QED BY <2>2, <3>1, <3>2 DEF Follow
  <2> QED BY <2>1, <2>3, <2>4
<1> QED BY <1>2, <1>3 DEF P

\* A path that has left the tree stays at the record it left it by.
LEMMA PathStays ==
  ASSUME NEW records \in [Nodes -> [Bits -> Nat]],
         NEW n \in Nat,
         NEW bits \in [0 .. n - 1 -> Bits],
         NEW i \in 0 .. n, NEW j \in i .. n,
         Path(records, bits, n)[i] >= NodeCount
  PROVE  Path(records, bits, n)[j] = Path(records, bits, n)[i]
<1> DEFINE P == Path(records, bits, n)
           T == {k \in i .. n : P[k] # P[i]}
<1>1. \A k \in 0 .. n - 1 : P[k + 1] = Follow(records, P[k], bits[k])
  BY PathValues
<1>2. P \in [0 .. n -> Nat] /\ P[i] >= NodeCount
  BY PathType
<1> HIDE DEF P
<1>3. T = {}
  <2> SUFFICES ASSUME T # {} PROVE FALSE
    OBVIOUS
  <2>0. T \subseteq Nat
    OBVIOUS
  <2>1. PICK k \in T : \A y \in T : k <= y
    <3> HIDE DEF T
    <3> QED BY <2>0, LeastNat
  <2>2. k - 1 \in 0 .. n - 1 /\ k - 1 \in i .. n /\ P[k - 1] = P[i]
    BY <2>1
  <2>3. P[k] = Follow(records, P[k - 1], bits[k - 1])
    <3>1. (k - 1) + 1 = k
      BY <2>1
    <3> QED BY <3>1, <2>2, <1>1
  <2>4. ~ (P[k - 1] < NodeCount)
    BY <1>2, <2>2, SearchTreeAssumption
  <2> QED BY <2>1, <2>2, <2>3, <2>4 DEF Follow
<1> QED BY <1>3 DEF P

\* Two addresses with the same first m bits share the first m records.
LEMMA PathPrefix ==
  ASSUME NEW records, NEW a, NEW b, NEW p \in Nat, NEW q \in Nat,
         NEW m \in Nat, m <= p, m <= q,
         \A k \in 0 .. m - 1 : a[k] = b[k]
  PROVE  \A k \in 0 .. m : Path(records, a, p)[k] = Path(records, b, q)[k]
<1> DEFINE P == Path(records, a, p)
           Q == Path(records, b, q)
           T == {k \in 0 .. m : P[k] # Q[k]}
<1>1. P[0] = 0 /\ \A k \in 0 .. p - 1 : P[k + 1] = Follow(records, P[k], a[k])
  BY PathValues
<1>2. Q[0] = 0 /\ \A k \in 0 .. q - 1 : Q[k + 1] = Follow(records, Q[k], b[k])
  BY PathValues
<1> HIDE DEF P, Q
<1>3. T = {}
  <2> SUFFICES ASSUME T # {} PROVE FALSE
    OBVIOUS
  <2>0. T \subseteq Nat
    OBVIOUS
  <2>1. PICK k \in T : \A y \in T : k <= y
    <3> HIDE DEF T
    <3> QED BY <2>0, LeastNat
  <2>2. /\ k - 1 \in 0 .. m - 1
        /\ k - 1 \in 0 .. p - 1
        /\ k - 1 \in 0 .. q - 1
        /\ (k - 1) + 1 = k
        /\ P[k - 1] = Q[k - 1]
    BY <2>1, <1>1, <1>2
  <2>3. P[k] = Follow(records, P[k - 1], a[k - 1])
    BY <2>2, <1>1
  <2>4. Q[k] = Follow(records, Q[k - 1], b[k - 1])
    BY <2>2, <1>2
  <2> QED BY <2>1, <2>2, <2>3, <2>4
<1> QED BY <1>3 DEF P, Q

-----------------------------------------------------------------------------
(* The start node of the IPv4 part. *)

\* The spine is the path of any zero bits.
LEMMA SpinePath ==
  ASSUME NEW records, NEW Z, \A k \in 0 .. SpineBits - 1 : Z[k] = 0
  PROVE  \A k \in 0 .. SpineBits : Path(records, Z, SpineBits)[k] = Spine(records)[k]
<1>1. SpineBits \in Nat /\ SpineBits <= V6Bits
  BY SearchTreeAssumption DEF SpineBits
<1>2. \A k \in 0 .. SpineBits - 1 : Z[k] = ZeroBits[k]
  BY <1>1, SearchTreeAssumption DEF ZeroBits
<1>3. SpineBits <= SpineBits
  BY <1>1
<1> QED BY <1>1, <1>2, <1>3, PathPrefix DEF Spine

\* The records of the spine.
LEMMA SpineFacts ==
  ASSUME NEW records \in [Nodes -> [Bits -> Nat]]
  PROVE  /\ Spine(records) \in [0 .. SpineBits -> Nat]
         /\ Spine(records)[0] = 0
         /\ \A k \in 0 .. SpineBits - 1 :
              Spine(records)[k + 1] = Follow(records, Spine(records)[k], 0)
<1>1. SpineBits \in Nat /\ SpineBits <= V6Bits
  BY SearchTreeAssumption DEF SpineBits
<1>2. \A k \in 0 .. SpineBits - 1 : ZeroBits[k] = 0
  BY <1>1, SearchTreeAssumption DEF ZeroBits
<1> DEFINE Z == [k \in 0 .. SpineBits - 1 |-> 0]
<1>3. Z \in [0 .. SpineBits - 1 -> Bits]
  BY DEF Bits
<1>4. Path(records, Z, SpineBits) \in [0 .. SpineBits -> Nat]
  BY <1>1, <1>3, PathType
<1>5. \A k \in 0 .. SpineBits : Path(records, Z, SpineBits)[k] = Spine(records)[k]
  <2>1. \A k \in 0 .. SpineBits - 1 : Z[k] = 0
    OBVIOUS
  <2> HIDE DEF Z
  <2> QED BY <2>1, SpinePath
<1>6. Spine(records) = [k \in 0 .. SpineBits |-> Spine(records)[k]]
  BY <1>1, PathEquation DEF Spine
<1>7. /\ Spine(records)[0] = 0
      /\ \A k \in 0 .. SpineBits - 1 :
           Spine(records)[k + 1] = Follow(records, Spine(records)[k], ZeroBits[k])
  BY <1>1, PathValues DEF Spine
<1> HIDE DEF Z
<1>8. Spine(records) \in [0 .. SpineBits -> Nat]
  BY <1>4, <1>5, <1>6
<1> QED BY <1>2, <1>7, <1>8

\* PathStays for the spine.
LEMMA SpineStays ==
  ASSUME NEW records \in [Nodes -> [Bits -> Nat]],
         NEW i \in 0 .. SpineBits, NEW j \in 0 .. SpineBits,
         i <= j, Spine(records)[i] >= NodeCount
  PROVE  Spine(records)[j] = Spine(records)[i]
<1>1. SpineBits \in Nat /\ SpineBits <= V6Bits
  BY SearchTreeAssumption DEF SpineBits
<1> DEFINE Z == [k \in 0 .. SpineBits - 1 |-> 0]
<1>2. Z \in [0 .. SpineBits - 1 -> Bits]
  BY DEF Bits
<1>3. \A k \in 0 .. SpineBits - 1 : Z[k] = 0
  OBVIOUS
<1> HIDE DEF Z
<1>4. \A k \in 0 .. SpineBits : Path(records, Z, SpineBits)[k] = Spine(records)[k]
  BY <1>3, SpinePath
<1>5. j \in i .. SpineBits /\ Path(records, Z, SpineBits)[i] >= NodeCount
  BY <1>1, <1>4
<1> QED BY <1>1, <1>2, <1>4, <1>5, PathStays

\* The first record of the spine outside the tree is the start value, and
\* StartMask counts the nodes before it.
LEMMA StartAtLeaf ==
  ASSUME NEW records \in [Nodes -> [Bits -> Nat]],
         NEW k \in 0 .. SpineBits - 1,
         Spine(records)[k] < NodeCount, Spine(records)[k + 1] >= NodeCount
  PROVE  StartValue(records) = Spine(records)[k + 1] /\ StartMask(records) = k
<1>1. SpineBits \in Nat
  BY SearchTreeAssumption DEF SpineBits
<1>2. \A i \in 0 .. SpineBits, j \in 0 .. SpineBits :
        i <= j /\ Spine(records)[i] >= NodeCount => Spine(records)[j] = Spine(records)[i]
  BY SpineStays
<1>3. StartValue(records) = Spine(records)[k + 1]
  BY <1>1, <1>2 DEF StartValue
<1>4. ~ (StartValue(records) < NodeCount)
  BY <1>1, <1>3, SpineFacts, SearchTreeAssumption
<1>5. ASSUME NEW i \in 0 .. SpineBits - 1,
             Spine(records)[i] < NodeCount, Spine(records)[i + 1] >= NodeCount
      PROVE  i = k
  <2>1. i + 1 \in 0 .. SpineBits /\ k + 1 \in 0 .. SpineBits
        /\ i \in 0 .. SpineBits /\ k \in 0 .. SpineBits
    BY <1>1
  <2>2. i < k => Spine(records)[k] = Spine(records)[i + 1]
    BY <1>1, <1>2, <1>5, <2>1
  <2>3. k < i => Spine(records)[i] = Spine(records)[k + 1]
    BY <1>1, <1>2, <2>1
  <2>4. /\ Spine(records)[k] \in Nat /\ Spine(records)[k + 1] \in Nat
        /\ Spine(records)[i] \in Nat /\ Spine(records)[i + 1] \in Nat
    BY <2>1, SpineFacts
  <2> QED BY <1>5, <2>2, <2>3, <2>4, SearchTreeAssumption
<1>6. StartMask(records) = CHOOSE i \in 0 .. SpineBits - 1 :
        Spine(records)[i] < NodeCount /\ Spine(records)[i + 1] >= NodeCount
  BY <1>4 DEF StartMask
<1> QED BY <1>3, <1>5, <1>6

-----------------------------------------------------------------------------
(* How a walk ends. *)

\* No record between the bits `from` and m leads back to the root.
NoRootBetween(records, bits, d, from, m) ==
  \A k \in from + 1 .. m - 1 : Path(records, bits, d)[k] # 0

\* The walk meets a record outside the tree: the entry of that record is the
\* entry of the address, whatever the rest of the address is.
LEMMA EntryOfLeaf ==
  ASSUME NEW records \in [Nodes -> [Bits -> Nat]],
         NEW d \in Nat, NEW bits \in [0 .. d - 1 -> Bits],
         NEW from \in 0 .. d, NEW m \in from .. d, NEW b,
         Path(records, bits, d)[m] >= NodeCount,
         NoRootBetween(records, bits, d, from, m)
  PROVE  Entry(PopulateResult(d, Path(records, bits, d)[m], b)) =
           EntryAt(records, bits, d, from)
<1> DEFINE P == Path(records, bits, d)
           v == P[m]
<1>1. m \in 0 .. d /\ d \in m .. d
  OBVIOUS
<1>2. v \in Nat /\ v >= NodeCount
  BY <1>1, PathType
<1>3. \A k \in m .. d : P[k] = v
  BY <1>1, PathStays
<1>4. P[d] = v
  BY <1>1, <1>3
<1>5. ~ \E k \in from + 1 .. d : P[k] = 0
  <2> SUFFICES ASSUME NEW k \in from + 1 .. d PROVE P[k] # 0
    OBVIOUS
  <2> HIDE DEF P, v
  <2>1. CASE k < m
    <3>1. k \in from + 1 .. m - 1
      BY <1>1, <2>1
    <3> QED BY <3>1 DEF P, NoRootBetween
  <2>2. CASE ~ (k < m)
    <3>1. P[k] = v
      BY <1>1, <1>3, <2>2
    <3> QED BY <3>1, <1>2, SearchTreeAssumption
  <2> QED BY <2>1, <2>2
<1>6. ~ (v < NodeCount)
  BY <1>2, SearchTreeAssumption
<1>7. (v > NodeCount) = (v - NodeCount > 0)
  BY <1>2, SearchTreeAssumption
<1>8. EntryAt(records, bits, d, from) =
        IF v - NodeCount > DataSize
        THEN [mmdbError |-> "CORRUPT", found |-> FALSE, offset |-> 0]
        ELSE [mmdbError |-> "SUCCESS", found |-> v > NodeCount,
              offset |-> v - NodeCount]
  <2> HIDE DEF v
  <2> QED BY <1>4, <1>5, <1>6, Zenon DEF EntryAt
<1>9. CASE v - NodeCount > DataSize
  <2>1. EntryAt(records, bits, d, from) =
          [mmdbError |-> "CORRUPT", found |-> FALSE, offset |-> 0]
    BY <1>8, <1>9
  <2>2. PopulateResult(d, v, b) = Failed("CORRUPT")
    BY <1>9 DEF PopulateResult
  <2> HIDE DEF v
  <2>3. Entry(PopulateResult(d, v, b)) = EntryAt(records, bits, d, from)
    BY <2>1, <2>2 DEF Entry, Failed, NoAnswer
  <2> QED BY <2>3 DEF v
<1>10. CASE ~ (v - NodeCount > DataSize)
  <2>1. EntryAt(records, bits, d, from) =
          [mmdbError |-> "SUCCESS", found |-> v > NodeCount,
           offset |-> v - NodeCount]
    BY <1>8, <1>10
  <2>2. PopulateResult(d, v, b) =
          [gai |-> FALSE, mmdbError |-> "SUCCESS", found |-> v - NodeCount > 0,
           offset |-> v - NodeCount, netmask |-> d - b]
    BY <1>10 DEF PopulateResult
  <2> HIDE DEF v
  <2>3. Entry(PopulateResult(d, v, b)) = EntryAt(records, bits, d, from)
    BY <2>1, <2>2, <1>7 DEF Entry
  <2> QED BY <2>3 DEF v
<1> QED BY <1>9, <1>10

\* The walk meets a record that leads back to the root.
LEMMA EntryOfZero ==
  ASSUME NEW records, NEW d \in Nat, NEW bits, NEW from \in 0 .. d,
         NEW m \in from + 1 .. d, Path(records, bits, d)[m] = 0
  PROVE  Entry(Failed("CORRUPT")) = EntryAt(records, bits, d, from)
<1>1. EntryAt(records, bits, d, from) =
        [mmdbError |-> "CORRUPT", found |-> FALSE, offset |-> 0]
  BY Zenon DEF EntryAt
<1> QED BY <1>1 DEF Entry, Failed, NoAnswer

\* The address ends inside the tree.
LEMMA EntryOfRunOut ==
  ASSUME NEW records, NEW d \in Nat, NEW bits, NEW from,
         Path(records, bits, d)[d] < NodeCount
  PROVE  Entry(Failed("CORRUPT")) = EntryAt(records, bits, d, from)
<1>1. EntryAt(records, bits, d, from) =
        [mmdbError |-> "CORRUPT", found |-> FALSE, offset |-> 0]
  BY Zenon DEF EntryAt
<1> QED BY <1>1 DEF Entry, Failed, NoAnswer

\* The start value of the IPv4 part is the record every mapped address reaches
\* after the zero bits.
LEMMA MappedPath ==
  ASSUME NEW records \in [Nodes -> [Bits -> Nat]], NEW r, IsMapped(6, r)
  PROVE  Path(records, MappedAddress(6, r), V6Bits)[SpineBits] = StartValue(records)
<1>1. SpineBits \in Nat /\ SpineBits <= V6Bits
  BY SearchTreeAssumption DEF SpineBits
<1>2. \A k \in 0 .. SpineBits - 1 : MappedAddress(6, r)[k] = ZeroBits[k]
  BY <1>1, SearchTreeAssumption DEF MappedAddress, ZeroBits
<1>3. \A k \in 0 .. SpineBits :
        Path(records, MappedAddress(6, r), V6Bits)[k] =
          Path(records, ZeroBits, SpineBits)[k]
  BY <1>1, <1>2, PathPrefix, SearchTreeAssumption
<1> QED BY <1>1, <1>3 DEF StartValue, Spine

\* In a tree without a record back to the root no path returns to it.
LEMMA WellFormedPath ==
  ASSUME NEW records \in [Nodes -> [Bits -> Nat]], WellFormed(records),
         NEW d \in Nat, NEW bits \in [0 .. d - 1 -> Bits], NEW k \in 1 .. d
  PROVE  Path(records, bits, d)[k] # 0
<1> DEFINE P == Path(records, bits, d)
<1>1. k - 1 \in 0 .. d - 1 /\ k - 1 \in 0 .. d /\ (k - 1) + 1 = k
  OBVIOUS
<1>2. P[k] = Follow(records, P[k - 1], bits[k - 1])
  BY <1>1, PathValues
<1>3. P[k - 1] \in Nat /\ bits[k - 1] \in Bits
  BY <1>1, PathType
<1> HIDE DEF P
<1>4. CASE P[k - 1] < NodeCount
  <2>1. P[k - 1] \in Nodes
    BY <1>3, <1>4, SearchTreeAssumption DEF Nodes
  <2> QED BY <1>2, <1>3, <1>4, <2>1 DEF Follow, WellFormed, P
<1>5. CASE ~ (P[k - 1] < NodeCount)
  BY <1>2, <1>3, <1>5, SearchTreeAssumption DEF Follow, P
<1> QED BY <1>4, <1>5

\* There the entry of an address does not depend on the bits it is checked from.
LEMMA WellFormedEntry ==
  ASSUME NEW records \in [Nodes -> [Bits -> Nat]], WellFormed(records),
         NEW d \in Nat, NEW bits \in [0 .. d - 1 -> Bits], NEW from \in 0 .. d
  PROVE  EntryAt(records, bits, d, from) = EntryAt(records, bits, d, 0)
<1>1. ~ \E k \in 0 + 1 .. d : Path(records, bits, d)[k] = 0
  <2>1. \A k \in 0 + 1 .. d : k \in 1 .. d
    OBVIOUS
  <2> QED BY <2>1, WellFormedPath
<1>2. ~ \E k \in from + 1 .. d : Path(records, bits, d)[k] = 0
  <2>1. \A k \in from + 1 .. d : k \in 1 .. d
    OBVIOUS
  <2> QED BY <2>1, WellFormedPath
<1> QED BY <1>1, <1>2, Zenon DEF EntryAt

\* The bits that decide an entry are those before its path leaves the tree.
LEMMA SubnetAtLeaf ==
  ASSUME NEW records \in [Nodes -> [Bits -> Nat]],
         NEW d \in Nat, NEW bits \in [0 .. d - 1 -> Bits], NEW n \in 0 .. d - 1,
         Path(records, bits, d)[n] < NodeCount, Path(records, bits, d)[n + 1] >= NodeCount
  PROVE  SubnetBits(records, bits, d) = n + 1
<1> DEFINE P == Path(records, bits, d)
<1>1. \A i \in 0 .. d : P[i] \in Nat
  BY PathType
<1>2. \A i \in 0 .. d, j \in 0 .. d : i <= j /\ P[i] >= NodeCount => P[j] = P[i]
  BY PathStays
<1> HIDE DEF P
<1>3. P[n] < NodeCount /\ P[n + 1] >= NodeCount
  BY DEF P
<1>4. ASSUME NEW k \in 1 .. d, P[k] >= NodeCount, P[k - 1] < NodeCount
      PROVE  k = n + 1
  <2>1. k \in 0 .. d /\ k - 1 \in 0 .. d /\ n \in 0 .. d /\ n + 1 \in 0 .. d
    OBVIOUS
  <2>2. k <= n => P[n] = P[k]
    BY <1>2, <1>4, <2>1
  <2>3. n + 1 <= k - 1 => P[k - 1] = P[n + 1]
    BY <1>2, <1>3, <2>1
  <2> QED BY <1>1, <1>3, <1>4, <2>1, <2>2, <2>3, SearchTreeAssumption
<1>5. n + 1 \in 1 .. d /\ (n + 1) - 1 = n
  OBVIOUS
<1> QED BY <1>3, <1>4, <1>5 DEF SubnetBits, P

USE SearchTreeAssumption, LookupAssumption

-----------------------------------------------------------------------------
(* Facts about calls. *)

\* What the arguments of a call may be.
LEMMA RequestShape ==
  ASSUME NEW r \in AllRequests
  PROVE  /\ r.family \in {0, 4, 6}
         /\ r.api \in {"string", "sockaddr"}
         /\ r.family = 0 => r.api = "string"
         /\ r.family = 4 => r.address \in [0 .. V4Bits - 1 -> Bits]
         /\ r.family = 6 => r.address \in [0 .. V6Bits - 1 -> Bits]
<1>1. /\ Addresses(4) = [0 .. V4Bits - 1 -> Bits]
      /\ Addresses(6) = [0 .. V6Bits - 1 -> Bits]
  BY DEF Addresses
<1> QED BY <1>1 DEF AllRequests

\* The walk of a call that is not rejected has a bit for each of its turns.
LEMMA AddressType ==
  ASSUME NEW v \in {4, 6}, NEW r \in AllRequests, ~ IsRejected(v, r)
  PROVE  MappedAddress(v, r) \in [0 .. Depth(v) - 1 -> Bits]
<1>1. CASE IsMapped(v, r)
  <2>1. r.address \in [0 .. V4Bits - 1 -> Bits]
    BY <1>1, RequestShape DEF IsMapped
  <2>2. Depth(v) = V6Bits
    BY <1>1 DEF IsMapped, Depth
  <2>3. \A i \in 0 .. V6Bits - 1 :
          (IF i < SpineBits THEN 0 ELSE r.address[i - SpineBits]) \in Bits
    BY <2>1 DEF SpineBits, Bits
  <2> QED BY <1>1, <2>2, <2>3 DEF MappedAddress
<1>2. CASE ~ IsMapped(v, r)
  BY <1>2, RequestShape DEF IsMapped, IsRejected, MappedAddress, Depth
<1> QED BY <1>1, <1>2

\* An answer read from the tree is in range.
LEMMA PopulateType ==
  ASSUME NEW depth \in 0 .. V6Bits, NEW value \in Nat, value >= NodeCount,
         NEW b \in 0 .. depth
  PROVE  PopulateResult(depth, value, b) \in Answers
<1> DEFINE offset == value - NodeCount
<1>1. CASE offset > DataSize
  <2>1. PopulateResult(depth, value, b) = Failed("CORRUPT")
    BY <1>1 DEF PopulateResult
  <2>2. NoAnswer \in Answers
    BY DEF NoAnswer, Answers
  <2> QED BY <2>1, <2>2 DEF Failed, Answers
<1>2. CASE ~ (offset > DataSize)
  <2>1. offset \in 0 .. DataSize /\ depth - b \in 0 .. V6Bits
    BY <1>2
  <2>2. PopulateResult(depth, value, b) =
          [gai |-> FALSE, mmdbError |-> "SUCCESS", found |-> offset > 0,
           offset |-> offset, netmask |-> depth - b]
    BY <1>2 DEF PopulateResult
  <2> DEFINE found == offset > 0
             netmask == depth - b
  <2>3. found \in BOOLEAN
    OBVIOUS
  <2> HIDE DEF offset, found, netmask
  <2>4. [gai |-> FALSE, mmdbError |-> "SUCCESS", found |-> found,
         offset |-> offset, netmask |-> netmask] \in Answers
    BY <2>1, <2>3 DEF Answers, netmask
  <2> QED BY <2>2, <2>4 DEF found, netmask
<1> QED BY <1>1, <1>2

\* So are the answers given without the tree.
LEMMA ErrorTypes ==
  /\ NoAnswer \in Answers
  /\ Failed("CORRUPT") \in Answers
  /\ \A r \in AllRequests : r.family \in {0, 4, 6} /\ r.api \in {"string", "sockaddr"}
       => Rejection(r) \in Answers
<1>1. NoAnswer \in Answers
  BY DEF NoAnswer, Answers
<1>2. /\ Failed("CORRUPT") \in Answers
      /\ Failed("IPV6_LOOKUP_IN_IPV4_DATABASE") \in Answers
  BY <1>1 DEF Failed, Answers
<1>3. [NoAnswer EXCEPT !.gai = TRUE] \in Answers
  BY <1>1 DEF Answers
<1> QED BY <1>1, <1>2, <1>3 DEF Rejection

-----------------------------------------------------------------------------
(* Type correctness. *)

\* What the local variables are good for at each point of a lookup.
Located ==
  \A t \in Threads :
    /\ pc[t] # "idle" => req[t] \in Requests
    /\ pc[t] \in {"scan", "store", "store_value", "store_mask", "copy"}
         => IsMapped(ipVersion, req[t])
    /\ pc[t] = "scan" => node[t] \in Nodes /\ mask[t] < SpineBits
    /\ pc[t] = "walk" => /\ ~ IsRejected(ipVersion, req[t])
                         /\ node[t] \in Nodes
                         /\ bit[t] < Depth(ipVersion)

Typed == TypeOK /\ Located

\* A call that goes through the cache walks an IPv6 tree and is not rejected.
LEMMA MappedIsV6 ==
  ASSUME NEW v \in {4, 6}, NEW r, IsMapped(v, r)
  PROVE  v = 6 /\ Depth(v) = V6Bits /\ ~ IsRejected(v, r)
BY DEF IsMapped, Depth, IsRejected

\* The depth of a tree, and of its IPv4 part, in bits.
LEMMA DepthType ==
  ASSUME NEW v \in {4, 6}
  PROVE  Depth(v) \in 1 .. V6Bits /\ SpineBits \in 1 .. V6Bits - 1
BY DEF Depth, SpineBits

\* Typed holds before any call.
LEMMA TypedInit == Init => Typed
<1> SUFFICES ASSUME Init PROVE Typed
  OBVIOUS
<1>1. SpineBits \in Nat
  BY DEF SpineBits
<1>2. NoAnswer \in Answers
  BY ErrorTypes
<1> QED BY <1>1, <1>2 DEF Init, Typed, TypeOK, Located, PCs, SpineBits

\* Every step of every thread keeps the types and the places of the locals.
LEMMA TypedNext == Typed /\ [Next]_vars => Typed'
<1> SUFFICES ASSUME Typed, [Next]_vars PROVE Typed'
  OBVIOUS
<1> USE DEF Typed, TypeOK, Located, PCs, shared, locals
<1>0. ipVersion \in {4, 6} /\ tree \in [Nodes -> [Bits -> Nat]]
  OBVIOUS
<1>1. ASSUME NEW t \in Threads, NEW r \in Requests, Call(t, r) PROVE Typed'
  BY <1>1 DEF Call, CacheSettled
<1>2. ASSUME NEW t \in Threads, Reject(t) PROVE Typed'
  <2>1. Rejection(req[t]) \in Answers
    BY <1>2, ErrorTypes, RequestShape DEF Reject
  <2> QED BY <1>2, <2>1 DEF Reject
<1>3. ASSUME NEW t \in Threads, EnterTree(t) PROVE Typed'
  <2>1. /\ StartBit(Depth(ipVersion), 0) \in -1 .. V6Bits - 1
        /\ StartBit(Depth(ipVersion), 0) < Depth(ipVersion)
    BY <1>0, DepthType DEF StartBit
  <2>2. 0 \in Nodes
    BY DEF Nodes
  <2> QED BY <1>3, <2>1, <2>2 DEF EnterTree
<1>4. ASSUME NEW t \in Threads, CheckCache(t) PROVE Typed'
  <2>1. 0 \in Nodes /\ 0 \in 0 .. SpineBits /\ 0 < SpineBits
    BY DEF Nodes, SpineBits
  <2> QED BY <1>4, <2>1 DEF CheckCache
<1>5. ASSUME NEW t \in Threads, ScanStep(t) PROVE Typed'
  <2> DEFINE value == tree[node[t]][0]
             m     == ScanMask(value, mask[t])
  <2>1. value \in Nat
    BY <1>5, <1>0 DEF ScanStep, Bits
  <2>2. /\ m \in 0 .. SpineBits
        /\ ~ LeavesTree(value) => value \in Nodes
    <3> HIDE DEF value
    <3>1. mask[t] \in 0 .. SpineBits /\ mask[t] < SpineBits
      BY <1>5 DEF ScanStep
    <3>2. SpineBits \in Nat
      BY DEF SpineBits
    <3>3. m \in 0 .. SpineBits
      BY <3>1, <3>2 DEF ScanMask
    <3>4. ~ LeavesTree(value) => value \in Nodes
      BY <2>1 DEF LeavesTree, Nodes
    <3> QED BY <3>3, <3>4
  <2>3. /\ node' = [node EXCEPT ![t] = value]
        /\ mask' = [mask EXCEPT ![t] = m]
        /\ pc' = [pc EXCEPT ![t] =
                    IF LeavesTree(value) \/ m = SpineBits THEN "store" ELSE "scan"]
        /\ UNCHANGED <<shared, req, bit, answer, settled>>
        /\ pc[t] = "scan"
    BY <1>5 DEF ScanStep
  <2> HIDE DEF value, m
  <2>4. /\ m \in 0 .. SpineBits
        /\ m # SpineBits => m < SpineBits
        /\ IsMapped(ipVersion, req[t])
    <3>1. SpineBits \in Nat
      BY DEF SpineBits
    <3> QED BY <2>2, <2>3, <3>1
  <2>5. TypeOK'
    BY <2>1, <2>3, <2>4
  <2>6. Located'
    BY <2>2, <2>3, <2>4
  <2> QED BY <2>5, <2>6
<1>6. ASSUME NEW t \in Threads, StoreValue(t) PROVE Typed'
  BY <1>6 DEF StoreValue
<1>7. ASSUME NEW t \in Threads, StoreMask(t) PROVE Typed'
  BY <1>7 DEF StoreMask
<1>8. ASSUME NEW t \in Threads, CopyCache(t) PROVE Typed'
  <2>1. IsMapped(ipVersion, req[t]) /\ Depth(ipVersion) = V6Bits
        /\ ~ IsRejected(ipVersion, req[t])
    BY <1>8, <1>0, MappedIsV6 DEF CopyCache
  <2>2. CASE LeavesTree(cacheValue)
    <3>1. PopulateResult(Depth(ipVersion), cacheValue, cacheMask) \in Answers
      BY <2>1, <2>2, PopulateType DEF LeavesTree, SpineBits
    <3>2. /\ node' = [node EXCEPT ![t] = cacheValue]
          /\ mask' = [mask EXCEPT ![t] = cacheMask]
          /\ pc' = [pc EXCEPT ![t] = "done"]
          /\ answer' = [answer EXCEPT ![t] =
               PopulateResult(Depth(ipVersion), cacheValue, cacheMask)]
          /\ UNCHANGED <<shared, req, bit, settled>>
          /\ pc[t] = "copy"
      BY <1>8, <2>2 DEF CopyCache
    <3> HIDE DEF shared
    <3>3. UNCHANGED <<tree, ipVersion, cacheValue, cacheMask>>
      BY <3>2 DEF shared
    <3>4. TypeOK'
      BY <3>1, <3>2, <3>3
    <3>5. Located'
      BY <2>1, <3>2, <3>3
    <3> QED BY <3>4, <3>5
  <2>3. CASE ~ LeavesTree(cacheValue)
    <3>1. /\ StartBit(Depth(ipVersion), cacheMask) \in -1 .. V6Bits - 1
          /\ StartBit(Depth(ipVersion), cacheMask) < Depth(ipVersion)
          /\ cacheValue \in Nodes
      BY <2>1, <2>3 DEF StartBit, SpineBits, LeavesTree, Nodes
    <3>2. /\ node' = [node EXCEPT ![t] = cacheValue]
          /\ mask' = [mask EXCEPT ![t] = cacheMask]
          /\ pc' = [pc EXCEPT ![t] = "walk"]
          /\ bit' = [bit EXCEPT ![t] = StartBit(Depth(ipVersion), cacheMask)]
          /\ UNCHANGED <<shared, req, answer, settled>>
          /\ pc[t] = "copy"
      BY <1>8, <2>3 DEF CopyCache
    <3> HIDE DEF shared
    <3>3. UNCHANGED <<tree, ipVersion, cacheValue, cacheMask>>
      BY <3>2 DEF shared
    <3>4. TypeOK'
      BY <3>1, <3>2, <3>3
    <3>5. Located'
      BY <2>1, <3>1, <3>2, <3>3
    <3> QED BY <3>4, <3>5
  <2> QED BY <2>2, <2>3
<1>9. ASSUME NEW t \in Threads, WalkStep(t) PROVE Typed'
  <2> DEFINE index == Depth(ipVersion) - 1 - bit[t]
             value == tree[node[t]][MappedAddress(ipVersion, req[t])[index]]
  <2>0. pc[t] = "walk" /\ bit[t] >= 0
    BY <1>9 DEF WalkStep
  <2>1. index \in 0 .. Depth(ipVersion) - 1
    BY <1>0, <2>0, DepthType
  <2>2. MappedAddress(ipVersion, req[t])[index] \in Bits
    <3>1. req[t] \in AllRequests /\ ~ IsRejected(ipVersion, req[t])
      BY <2>0
    <3>2. MappedAddress(ipVersion, req[t]) \in [0 .. Depth(ipVersion) - 1 -> Bits]
      BY <1>0, <3>1, AddressType
    <3> HIDE DEF index
    <3> QED BY <2>1, <3>2
  <2>3. value \in Nat
    BY <1>0, <2>0, <2>2
  <2>4. node' = [node EXCEPT ![t] = value]
        /\ UNCHANGED <<shared, req, mask, settled>>
    BY <1>9 DEF WalkStep
  <2>5. CASE value = 0 \/ LeavesTree(value)
    <3> DEFINE a == IF value = 0 THEN Failed("CORRUPT")
                    ELSE PopulateResult(Depth(ipVersion), value, bit[t])
    <3>1. a \in Answers
      <4>1. CASE value = 0
        BY <4>1, ErrorTypes
      <4>2. CASE value # 0
        <5>1. bit[t] \in 0 .. Depth(ipVersion) /\ Depth(ipVersion) \in 0 .. V6Bits
          BY <1>0, <2>0, DepthType
        <5>2. value >= NodeCount
          BY <2>5, <4>2 DEF LeavesTree
        <5> HIDE DEF value
        <5>3. PopulateResult(Depth(ipVersion), value, bit[t]) \in Answers
          BY <2>3, <5>1, <5>2, PopulateType
        <5> QED BY <5>3, <4>2
      <4> QED BY <4>1, <4>2
    <3>2. /\ pc' = [pc EXCEPT ![t] = "done"]
          /\ answer' = [answer EXCEPT ![t] = a]
          /\ bit' = bit
      BY <1>9, <2>5 DEF WalkStep
    <3> HIDE DEF a, value
    <3> QED BY <2>0, <2>3, <2>4, <3>1, <3>2
  <2>6. CASE ~ (value = 0 \/ LeavesTree(value))
    <3>1. value \in Nodes
      BY <2>3, <2>6 DEF LeavesTree, Nodes
    <3>2. bit' = [bit EXCEPT ![t] = bit[t] - 1] /\ UNCHANGED <<pc, answer>>
      BY <1>9, <2>6 DEF WalkStep, NextBit
    <3> HIDE DEF value
    <3>3. bit[t] - 1 \in -1 .. V6Bits - 1 /\ bit[t] - 1 < Depth(ipVersion)
      BY <1>0, <2>0, DepthType
    <3> QED BY <2>0, <2>3, <2>4, <3>1, <3>2, <3>3
  <2> QED BY <2>5, <2>6
<1>10. ASSUME NEW t \in Threads, RunOut(t) PROVE Typed'
  BY <1>10, ErrorTypes DEF RunOut
<1>11. ASSUME NEW t \in Threads, Return(t) PROVE Typed'
  <2>1. /\ 0 \in 0 .. SpineBits
        /\ 0 \in -1 .. V6Bits - 1
        /\ NoAnswer \in Answers
    BY ErrorTypes DEF SpineBits
  <2> QED BY <1>11, <2>1 DEF Return
<1>12. CASE UNCHANGED vars
  BY <1>12 DEF vars
<1> QED
  BY <1>1, <1>2, <1>3, <1>4, <1>5, <1>6, <1>7, <1>8, <1>9, <1>10, <1>11, <1>12
  DEF Next, Step

\* Every variable keeps its type: netmask and offset stay within the depth of
\* the tree and the data section, the local variables within the tree.
THEOREM TypeCorrect == Spec => []TypeOK
<1>1. Typed => TypeOK
  BY DEF Typed
<1> QED BY <1>1, TypedInit, TypedNext, PTL DEF Spec

\* Reads of the file and of the address stay inside, in every interleaving.
THEOREM ReadsStayInside == Spec => []ReadsInside
<1>1. Typed => ReadsInside
  <2> SUFFICES ASSUME Typed, NEW t \in Threads, pc[t] = "walk", bit[t] >= 0
               PROVE  Depth(ipVersion) - 1 - bit[t] \in
                        DOMAIN MappedAddress(ipVersion, req[t])
    BY DEF Typed, Located, ReadsInside
  <2>1. ipVersion \in {4, 6} /\ req[t] \in AllRequests
        /\ ~ IsRejected(ipVersion, req[t]) /\ bit[t] < Depth(ipVersion)
        /\ bit[t] \in Int
    BY DEF Typed, TypeOK, Located
  <2>2. DOMAIN MappedAddress(ipVersion, req[t]) = 0 .. Depth(ipVersion) - 1
    BY <2>1, AddressType
  <2> QED BY <2>1, <2>2, DepthType
<1> QED BY <1>1, TypedInit, TypedNext, PTL DEF Spec

-----------------------------------------------------------------------------
(* The cache. *)

\* What a thread between CheckCache and CopyCache knows of the start node.
Scanned ==
  \A t \in Threads :
    /\ pc[t] = "scan" => node[t] = Spine(tree)[mask[t]]
    /\ pc[t] \in {"store", "store_value", "store_mask"} =>
         node[t] = StartValue(tree) /\ mask[t] = StartMask(tree)
    /\ pc[t] = "store_mask" => cacheValue = StartValue(tree)
    /\ pc[t] = "store_value" => cacheMask = StartMask(tree)
    /\ pc[t] = "copy" => /\ cacheValue = StartValue(tree)
                         /\ OutsideRace(t) => CacheSettled
    /\ settled[t] => CacheSettled

CacheInv == CacheFieldsFinal /\ TornOnlyInFlight /\ Scanned

\* CacheInv holds before any call.
LEMMA CacheInit == Init => CacheInv
BY DEF Init, CacheInv, CacheFieldsFinal, TornOnlyInFlight, Scanned, CacheSettled

\* A turn of the scan goes one record down the spine, or ends it.
LEMMA ScanFacts ==
  ASSUME Typed, Scanned, NEW t \in Threads, ScanStep(t)
  PROVE  /\ pc'[t] = "scan" => node'[t] = Spine(tree)[mask'[t]]
         /\ pc'[t] = "store" =>
              node'[t] = StartValue(tree) /\ mask'[t] = StartMask(tree)
<1> DEFINE value == tree[node[t]][0]
           m     == ScanMask(value, mask[t])
<1>1. tree \in [Nodes -> [Bits -> Nat]] /\ SpineBits \in Nat
  BY DEF Typed, TypeOK, SpineBits
<1>2. /\ mask[t] \in 0 .. SpineBits - 1
      /\ node[t] \in Nodes
      /\ node[t] = Spine(tree)[mask[t]]
      /\ node'[t] = value
      /\ mask'[t] = m
      /\ pc'[t] = IF LeavesTree(value) \/ m = SpineBits THEN "store" ELSE "scan"
  BY <1>1 DEF Typed, TypeOK, Located, Scanned, ScanStep
<1>3. node[t] < NodeCount
  BY <1>2 DEF Nodes
<1>4. value = Spine(tree)[mask[t] + 1]
  BY <1>1, <1>2, <1>3, SpineFacts DEF Follow
<1>5. value \in Nat
  BY <1>1, <1>2 DEF Bits
<1> HIDE DEF value
<1>6. CASE LeavesTree(value)
  <2>1. m = mask[t]
    BY <1>6 DEF ScanMask
  <2>2. StartValue(tree) = value /\ StartMask(tree) = mask[t]
    BY <1>1, <1>2, <1>3, <1>4, <1>6, StartAtLeaf DEF LeavesTree
  <2> QED BY <1>2, <1>6, <2>1, <2>2
<1>7. CASE ~ LeavesTree(value)
  <2>1. m = mask[t] + 1
    BY <1>7 DEF ScanMask
  <2>2. CASE m = SpineBits
    <3>1. value = StartValue(tree)
      BY <1>4, <2>1, <2>2 DEF StartValue
    <3>2. StartMask(tree) = SpineBits
      BY <1>5, <1>7, <3>1 DEF StartMask, LeavesTree
    <3> QED BY <1>2, <2>2, <3>1, <3>2
  <2>3. CASE m # SpineBits
    BY <1>2, <1>4, <1>7, <2>1, <2>3
  <2> QED BY <2>2, <2>3
<1> QED BY <1>6, <1>7

\* Every step keeps CacheInv: a store writes what a scan of the spine found.
LEMMA CacheNext == Typed /\ CacheInv /\ [Next]_vars => CacheInv'
<1> SUFFICES ASSUME Typed, CacheInv, [Next]_vars PROVE CacheInv'
  OBVIOUS
<1> USE DEF CacheInv, CacheFieldsFinal, TornOnlyInFlight, Scanned, CacheSettled,
            OutsideRace, shared, locals, Typed, TypeOK, Located
<1>1. ASSUME NEW t \in Threads, NEW r \in Requests, Call(t, r) PROVE CacheInv'
  BY <1>1 DEF Call
<1>2. ASSUME NEW t \in Threads, Reject(t) PROVE CacheInv'
  BY <1>2 DEF Reject
<1>3. ASSUME NEW t \in Threads, EnterTree(t) PROVE CacheInv'
  BY <1>3 DEF EnterTree
<1>4. ASSUME NEW t \in Threads, CheckCache(t) PROVE CacheInv'
  <2>1. Spine(tree)[0] = 0
    BY SpineFacts
  <2> QED BY <1>4, <2>1 DEF CheckCache
<1>5. ASSUME NEW t \in Threads, ScanStep(t) PROVE CacheInv'
  <2>1. /\ pc'[t] = "scan" => node'[t] = Spine(tree)[mask'[t]]
        /\ pc'[t] = "store" =>
             node'[t] = StartValue(tree) /\ mask'[t] = StartMask(tree)
    BY <1>5, ScanFacts
  <2>2. /\ pc[t] = "scan"
        /\ \E p \in {"store", "scan"} : pc' = [pc EXCEPT ![t] = p]
        /\ \E v : node' = [node EXCEPT ![t] = v]
        /\ \E m : mask' = [mask EXCEPT ![t] = m]
        /\ UNCHANGED <<shared, req, bit, answer, settled>>
    BY <1>5 DEF ScanStep
  <2> QED BY <2>1, <2>2
<1>6. ASSUME NEW t \in Threads, StoreValue(t) PROVE CacheInv'
  BY <1>6 DEF StoreValue
<1>7. ASSUME NEW t \in Threads, StoreMask(t) PROVE CacheInv'
  BY <1>7 DEF StoreMask
<1>8. ASSUME NEW t \in Threads, CopyCache(t) PROVE CacheInv'
  <2>1. /\ pc[t] = "copy"
        /\ \E p \in {"done", "walk"} : pc' = [pc EXCEPT ![t] = p]
        /\ \E v : node' = [node EXCEPT ![t] = v]
        /\ \E m : mask' = [mask EXCEPT ![t] = m]
        /\ UNCHANGED <<shared, req, settled>>
    BY <1>8 DEF CopyCache
  <2> QED BY <2>1
<1>9. ASSUME NEW t \in Threads, WalkStep(t) PROVE CacheInv'
  <2>1. /\ pc[t] = "walk"
        /\ pc' = pc \/ pc' = [pc EXCEPT ![t] = "done"]
        /\ \E v : node' = [node EXCEPT ![t] = v]
        /\ UNCHANGED <<shared, req, mask, settled>>
    BY <1>9 DEF WalkStep
  <2> QED BY <2>1
<1>10. ASSUME NEW t \in Threads, RunOut(t) PROVE CacheInv'
  BY <1>10 DEF RunOut
<1>11. ASSUME NEW t \in Threads, Return(t) PROVE CacheInv'
  BY <1>11 DEF Return
<1>12. CASE UNCHANGED vars
  BY <1>12 DEF vars
<1> QED
  BY <1>1, <1>2, <1>3, <1>4, <1>5, <1>6, <1>7, <1>8, <1>9, <1>10, <1>11, <1>12
  DEF Next, Step

\* However the scans of several threads interleave, each member of the cache is
\* as MMDB_open() left it or final.
THEOREM CacheFieldsAreFinal == Spec => []CacheFieldsFinal
<1>1. CacheInv => CacheFieldsFinal
  BY DEF CacheInv
<1> QED BY <1>1, TypedInit, TypedNext, CacheInit, CacheNext, PTL DEF Spec

\* The window of the race is the time between the two stores of one thread.
THEOREM TornCacheIsInFlight == Spec => []TornOnlyInFlight
<1>1. CacheInv => TornOnlyInFlight
  BY DEF CacheInv
<1> QED BY <1>1, TypedInit, TypedNext, CacheInit, CacheNext, PTL DEF Spec

\* A complete cache is never changed again.
THEOREM CacheStaysComplete == Spec => CacheOnlyCompletes
<1>1. Typed /\ CacheInv /\ CacheInv' /\ [Next]_vars
        => [CacheSettled => CacheSettled']_vars
  <2> SUFFICES ASSUME Typed, CacheInv, CacheSettled, [Next]_vars
               PROVE  CacheSettled'
    OBVIOUS
  <2>1. UNCHANGED <<tree, cacheValue, cacheMask>> => CacheSettled'
    BY DEF CacheSettled
  <2>2. ASSUME NEW t \in Threads, StoreValue(t) PROVE CacheSettled'
    BY <2>2 DEF StoreValue, CacheInv, Scanned, CacheSettled
  <2>3. ASSUME NEW t \in Threads, StoreMask(t) PROVE CacheSettled'
    BY <2>3 DEF StoreMask, CacheInv, Scanned, CacheSettled
  <2> QED
    BY <2>1, <2>2, <2>3 DEF Next, Step, Call, Reject, EnterTree, CheckCache,
       ScanStep, CopyCache, WalkStep, RunOut, Return, vars, shared
<1> QED
  BY <1>1, TypedInit, TypedNext, CacheInit, CacheNext, PTL
  DEF Spec, CacheOnlyCompletes

-----------------------------------------------------------------------------
(* Lookups outside the race. *)

PathOf(t) == Path(tree, MappedAddress(ipVersion, req[t]), Depth(ipVersion))
FirstChecked(t) == IF IsMapped(ipVersion, req[t]) THEN SpineBits ELSE 0
Taken(t) == Depth(ipVersion) - 1 - bit[t]

\* The walk is where the first Taken(t) bits of its address lead, and has met no
\* record that leads back to the root; a finished lookup has the right entry.
RightAt(t) ==
  OutsideRace(t) =>
    /\ pc[t] = "walk" =>
         /\ Taken(t) >= FirstChecked(t)
         /\ node[t] = PathOf(t)[Taken(t)]
         /\ \A k \in FirstChecked(t) + 1 .. Taken(t) : PathOf(t)[k] # 0
    /\ pc[t] = "done" => LookupRight(t)

AllRight == \A t \in Threads : RightAt(t)

\* Before any call nothing has been answered.
LEMMA RightInit == Init => AllRight
BY DEF Init, AllRight, RightAt

\* The facts about a path that the steps of a walk use.
LEMMA PathOfFacts ==
  ASSUME Typed, NEW t \in Threads, pc[t] # "idle",
         ~ IsRejected(ipVersion, req[t])
  PROVE  /\ tree \in [Nodes -> [Bits -> Nat]]
         /\ Depth(ipVersion) \in Nat \ {0}
         /\ MappedAddress(ipVersion, req[t]) \in
              [0 .. Depth(ipVersion) - 1 -> Bits]
         /\ FirstChecked(t) \in 0 .. Depth(ipVersion)
         /\ PathOf(t) \in [0 .. Depth(ipVersion) -> Nat]
         /\ PathOf(t)[0] = 0
         /\ \A k \in 0 .. Depth(ipVersion) - 1 :
              PathOf(t)[k + 1] =
                Follow(tree, PathOf(t)[k], MappedAddress(ipVersion, req[t])[k])
<1>1. /\ tree \in [Nodes -> [Bits -> Nat]]
      /\ ipVersion \in {4, 6}
      /\ req[t] \in AllRequests
  BY DEF Typed, TypeOK, Located
<1>2. Depth(ipVersion) \in Nat \ {0}
  BY <1>1, DepthType
<1>3. MappedAddress(ipVersion, req[t]) \in [0 .. Depth(ipVersion) - 1 -> Bits]
  BY <1>1, AddressType
<1>4. FirstChecked(t) \in 0 .. Depth(ipVersion)
  BY <1>1, <1>2, MappedIsV6 DEF FirstChecked, SpineBits
<1>5. PathOf(t) \in [0 .. Depth(ipVersion) -> Nat]
  BY <1>1, <1>2, <1>3, PathType DEF PathOf
<1>6. /\ PathOf(t)[0] = 0
      /\ \A k \in 0 .. Depth(ipVersion) - 1 :
           PathOf(t)[k + 1] =
             Follow(tree, PathOf(t)[k], MappedAddress(ipVersion, req[t])[k])
  BY <1>2, PathValues DEF PathOf
<1> QED BY <1>1, <1>2, <1>3, <1>4, <1>5, <1>6

\* A thread whose variables do not change stays right.
LEMMA RightFrame ==
  ASSUME NEW t \in Threads, RightAt(t),
         UNCHANGED <<tree, ipVersion, pc[t], req[t], node[t], bit[t], answer[t],
                     settled[t]>>
  PROVE  RightAt(t)'
BY DEF RightAt, OutsideRace, PathOf, FirstChecked, Taken, LookupRight

\* The copy of a complete cache starts the walk where the zero bits lead, or
\* answers with the record that holds the whole IPv4 range.
LEMMA RightCopy ==
  ASSUME Typed, CacheInv, NEW t \in Threads, CopyCache(t)
  PROVE  RightAt(t)'
<1> SUFFICES ASSUME OutsideRace(t) PROVE RightAt(t)'
  BY DEF RightAt, OutsideRace, CopyCache, shared
<1>1. /\ pc[t] = "copy"
      /\ IsMapped(ipVersion, req[t])
      /\ ipVersion = 6
      /\ Depth(ipVersion) = V6Bits
      /\ ~ IsRejected(ipVersion, req[t])
      /\ UNCHANGED <<tree, ipVersion, cacheValue, cacheMask, req>>
  BY MappedIsV6 DEF CopyCache, Typed, TypeOK, Located, shared
<1>2. cacheValue = StartValue(tree) /\ cacheMask = StartMask(tree)
  BY <1>1 DEF CacheInv, Scanned, CacheSettled
<1>3. /\ tree \in [Nodes -> [Bits -> Nat]]
      /\ MappedAddress(ipVersion, req[t]) \in [0 .. V6Bits - 1 -> Bits]
  BY <1>1, PathOfFacts
<1>4. PathOf(t)[SpineBits] = cacheValue
  BY <1>1, <1>2, <1>3, MappedPath DEF PathOf
<1>5. SpineBits \in 0 .. V6Bits /\ FirstChecked(t) = SpineBits
  BY <1>1 DEF SpineBits, FirstChecked
<1>6. PathOf(t)' = PathOf(t) /\ FirstChecked(t)' = FirstChecked(t)
  BY <1>1 DEF PathOf, FirstChecked
<1>7. CASE LeavesTree(cacheValue)
  <2>1. pc'[t] = "done" /\ answer'[t] =
          PopulateResult(Depth(ipVersion), cacheValue, cacheMask)
    BY <1>7 DEF CopyCache, Typed, TypeOK
  <2>2. Entry(PopulateResult(V6Bits, cacheValue, cacheMask)) =
          EntryAt(tree, MappedAddress(ipVersion, req[t]), V6Bits, SpineBits)
    <3>1. PathOf(t)[SpineBits] >= NodeCount
      BY <1>4, <1>7 DEF LeavesTree
    <3>2. /\ V6Bits \in Nat
          /\ SpineBits \in 0 .. V6Bits
          /\ SpineBits \in SpineBits .. V6Bits
      BY <1>5
    <3>3. Path(tree, MappedAddress(ipVersion, req[t]), V6Bits)[SpineBits] =
            cacheValue
      BY <1>1, <1>4 DEF PathOf
    <3>4. NoRootBetween(tree, MappedAddress(ipVersion, req[t]), V6Bits,
                        SpineBits, SpineBits)
      BY <1>5 DEF NoRootBetween
    <3>5. Path(tree, MappedAddress(ipVersion, req[t]), V6Bits)[SpineBits] >=
            NodeCount
      BY <3>1, <1>4, <3>3
    <3>6. Entry(PopulateResult(V6Bits,
                  Path(tree, MappedAddress(ipVersion, req[t]), V6Bits)[SpineBits],
                  cacheMask)) =
            EntryAt(tree, MappedAddress(ipVersion, req[t]), V6Bits, SpineBits)
      <4> HIDE SearchTreeAssumption, LookupAssumption
      <4> QED BY <1>3, <3>2, <3>4, <3>5, EntryOfLeaf, Zenon
    <3> QED BY <3>3, <3>6
  <2>3. LookupRight(t)'
    BY <1>1, <1>5, <2>1, <2>2 DEF LookupRight, ExpectedEntry
  <2> QED BY <2>1, <2>3 DEF RightAt
<1>8. CASE ~ LeavesTree(cacheValue)
  <2>1. /\ pc'[t] = "walk"
        /\ node'[t] = cacheValue
        /\ bit'[t] = V6Bits - 1 - cacheMask
    BY <1>1, <1>8 DEF CopyCache, Typed, TypeOK, StartBit
  <2>2. cacheMask = SpineBits
    <3>1. cacheValue \in Nat
      BY DEF Typed, TypeOK
    <3> QED BY <1>2, <1>8, <3>1 DEF StartMask, LeavesTree
  <2>3. Taken(t)' = SpineBits
    BY <1>1, <2>1, <2>2 DEF Taken, SpineBits
  <2> QED BY <1>4, <1>5, <1>6, <2>1, <2>3 DEF RightAt
<1> QED BY <1>7, <1>8

\* A turn of the walk follows the path of its address.
LEMMA RightWalk ==
  ASSUME Typed, NEW t \in Threads, RightAt(t), WalkStep(t)
  PROVE  RightAt(t)'
<1> SUFFICES ASSUME OutsideRace(t) PROVE RightAt(t)'
  BY DEF RightAt, OutsideRace, WalkStep, shared
<1> DEFINE d == Depth(ipVersion)
           bits == MappedAddress(ipVersion, req[t])
           n == Taken(t)
           value == tree[node[t]][bits[n]]
<1>1. /\ pc[t] = "walk"
      /\ ~ IsRejected(ipVersion, req[t])
      /\ node[t] \in Nodes
      /\ bit[t] \in 0 .. d - 1
      /\ node'[t] = value
      /\ UNCHANGED <<tree, ipVersion, req>>
  <2>1. pc[t] = "walk" /\ bit[t] >= 0 /\ ipVersion \in {4, 6}
    BY DEF WalkStep, Typed, TypeOK
  <2>2. ~ IsRejected(ipVersion, req[t]) /\ node[t] \in Nodes /\ bit[t] < d
    BY <2>1 DEF Typed, Located
  <2>3. d \in Nat /\ bit[t] \in Int
    BY <2>1, DepthType DEF Typed, TypeOK
  <2>4. node'[t] = value /\ UNCHANGED <<tree, ipVersion, req>>
    BY DEF WalkStep, Typed, TypeOK, Taken, shared
  <2> QED BY <2>1, <2>2, <2>3, <2>4
<1>2. /\ tree \in [Nodes -> [Bits -> Nat]]
      /\ d \in Nat \ {0}
      /\ bits \in [0 .. d - 1 -> Bits]
      /\ FirstChecked(t) \in 0 .. d
      /\ \A k \in 0 .. d - 1 : PathOf(t)[k + 1] = Follow(tree, PathOf(t)[k], bits[k])
  BY <1>1, PathOfFacts
<1>3. /\ n \in 0 .. d - 1
      /\ n >= FirstChecked(t)
      /\ node[t] = PathOf(t)[n]
      /\ \A k \in FirstChecked(t) + 1 .. n : PathOf(t)[k] # 0
  BY <1>1, <1>2 DEF RightAt, Taken
<1>4. PathOf(t)[n + 1] = value
  <2>1. PathOf(t)[n + 1] = Follow(tree, node[t], bits[n])
    BY <1>2, <1>3
  <2>2. node[t] < NodeCount
    BY <1>1 DEF Nodes
  <2> QED BY <2>1, <2>2 DEF Follow
<1>5. value \in Nat
  BY <1>1, <1>2, <1>3
<1>6. PathOf(t)' = PathOf(t) /\ FirstChecked(t)' = FirstChecked(t)
  BY <1>1 DEF PathOf, FirstChecked
<1>7. CASE value = 0 \/ LeavesTree(value)
  <2>1. pc'[t] = "done" /\ answer'[t] =
          IF value = 0 THEN Failed("CORRUPT") ELSE PopulateResult(d, value, bit[t])
    BY <1>7 DEF WalkStep, Typed, TypeOK, Taken
  <2> HIDE DEF value, n, d, bits
  <2>2. /\ n + 1 \in FirstChecked(t) + 1 .. d
        /\ n + 1 \in FirstChecked(t) .. d
        /\ (n + 1) - 1 = n
        /\ d \in Nat
    BY <1>2, <1>3
  <2>3. Entry(answer'[t]) = EntryAt(tree, bits, d, FirstChecked(t))
    <3>1. CASE value = 0
      <4>1. Path(tree, bits, d)[n + 1] = 0
        BY <1>4, <3>1 DEF PathOf, d, bits
      <4>2. Entry(Failed("CORRUPT")) = EntryAt(tree, bits, d, FirstChecked(t))
        <5>1. /\ tree \in [Nodes -> [Bits -> Nat]]
              /\ d \in Nat
              /\ bits \in [0 .. d - 1 -> Bits]
              /\ FirstChecked(t) \in 0 .. d
              /\ n + 1 \in FirstChecked(t) + 1 .. d
          BY <1>2, <2>2
        <5> HIDE SearchTreeAssumption, LookupAssumption
        <5> QED BY <4>1, <5>1, EntryOfZero, Zenon
      <4> QED BY <2>1, <3>1, <4>2
    <3>2. CASE value # 0
      <4>1. Path(tree, bits, d)[n + 1] = value /\ value >= NodeCount
        BY <1>4, <1>7, <3>2 DEF PathOf, d, bits, LeavesTree
      <4>2. NoRootBetween(tree, bits, d, FirstChecked(t), n + 1)
        BY <1>3, <2>2 DEF PathOf, d, bits, NoRootBetween
      <4>3. Entry(PopulateResult(d, Path(tree, bits, d)[n + 1], bit[t])) =
              EntryAt(tree, bits, d, FirstChecked(t))
        <5>1. Path(tree, bits, d)[n + 1] >= NodeCount
          BY <4>1
        <5>2. /\ tree \in [Nodes -> [Bits -> Nat]]
              /\ d \in Nat
              /\ bits \in [0 .. d - 1 -> Bits]
              /\ FirstChecked(t) \in 0 .. d
              /\ n + 1 \in FirstChecked(t) .. d
          BY <1>2, <2>2
        <5> HIDE SearchTreeAssumption, LookupAssumption
        <5> QED BY <4>2, <5>1, <5>2, EntryOfLeaf, Zenon
      <4> QED BY <2>1, <3>2, <4>1, <4>3
    <3> QED BY <3>1, <3>2
  <2>4. LookupRight(t)'
    BY <1>1, <2>3 DEF LookupRight, ExpectedEntry, FirstChecked, d, bits
  <2> QED BY <2>1, <2>4 DEF RightAt
<1>8. CASE ~ (value = 0 \/ LeavesTree(value))
  <2>1. pc'[t] = "walk" /\ bit'[t] = bit[t] - 1
    BY <1>1, <1>8 DEF WalkStep, Typed, TypeOK, Taken, NextBit
  <2>2. Taken(t)' = n + 1
    BY <1>1, <1>2, <2>1 DEF Taken
  <2> HIDE DEF value, n, d, bits
  <2>3. \A k \in FirstChecked(t) + 1 .. n + 1 : PathOf(t)[k] # 0
    BY <1>2, <1>3, <1>4, <1>8
  <2>4. node'[t] = PathOf(t)[n + 1] /\ n + 1 >= FirstChecked(t)
    BY <1>1, <1>2, <1>3, <1>4
  <2> QED BY <1>6, <2>1, <2>2, <2>3, <2>4 DEF RightAt
<1> QED BY <1>7, <1>8

\* Every step keeps every lookup outside the race on the path of its address.
LEMMA RightNext == Typed /\ CacheInv /\ AllRight /\ [Next]_vars => AllRight'
<1> SUFFICES ASSUME Typed, CacheInv, AllRight, [Next]_vars,
                    NEW u \in Threads
             PROVE  RightAt(u)'
  BY DEF AllRight
<1>0. RightAt(u)
  BY DEF AllRight
<1> USE DEF shared, locals
<1>1. CASE UNCHANGED vars
  BY <1>0, <1>1, RightFrame DEF vars
<1>2. ASSUME NEW t \in Threads, t # u,
             (\E r \in Requests : Call(t, r)) \/ Step(t) \/ Return(t)
      PROVE  RightAt(u)'
  <2>1. UNCHANGED <<tree, ipVersion, pc[u], req[u], node[u], bit[u], answer[u],
                    settled[u]>>
    BY <1>2 DEF Typed, TypeOK, Step, Call, Reject, EnterTree, CheckCache, ScanStep,
       StoreValue, StoreMask, CopyCache, WalkStep, RunOut, Return
  <2> QED BY <1>0, <2>1, RightFrame
<1>3. CASE (\E r \in Requests : Call(u, r)) \/ CheckCache(u) \/ ScanStep(u)
           \/ StoreValue(u) \/ StoreMask(u) \/ Return(u)
  <2>1. pc'[u] \notin {"walk", "done"}
    BY <1>3 DEF Typed, TypeOK, Call, CheckCache, ScanStep, StoreValue, StoreMask, Return
  <2> QED BY <2>1 DEF RightAt
<1>4. CASE Reject(u)
  <2>1. pc'[u] = "done" /\ answer'[u] = Rejection(req[u])
        /\ IsRejected(ipVersion, req[u]) /\ UNCHANGED <<tree, ipVersion, req>>
    BY <1>4 DEF Reject, Typed, TypeOK
  <2>2. LookupRight(u)'
    BY <2>1 DEF LookupRight, ExpectedEntry
  <2> QED BY <2>1, <2>2 DEF RightAt
<1>5. CASE EnterTree(u)
  <2>1. /\ pc[u] = "called" /\ pc'[u] = "walk"
        /\ node'[u] = 0 /\ bit'[u] = Depth(ipVersion) - 1
        /\ ~ IsMapped(ipVersion, req[u]) /\ ~ IsRejected(ipVersion, req[u])
        /\ UNCHANGED <<tree, ipVersion, req>>
    BY <1>5, DepthType DEF EnterTree, StartBit, Typed, TypeOK
  <2>2. Depth(ipVersion) \in Nat \ {0} /\ PathOf(u)[0] = 0
    BY <2>1, PathOfFacts
  <2>3. Taken(u)' = 0 /\ FirstChecked(u)' = 0 /\ PathOf(u)' = PathOf(u)
    BY <2>1, <2>2 DEF Taken, FirstChecked, PathOf
  <2> QED BY <2>1, <2>2, <2>3 DEF RightAt
<1>6. CASE CopyCache(u)
  BY <1>6, RightCopy
<1>7. CASE WalkStep(u)
  BY <1>0, <1>7, RightWalk
<1>8. CASE RunOut(u)
  <2>1. /\ pc[u] = "walk" /\ bit[u] = -1 /\ pc'[u] = "done"
        /\ node[u] \in Nodes /\ ~ IsRejected(ipVersion, req[u])
        /\ answer'[u] = Failed("CORRUPT")
        /\ UNCHANGED <<tree, ipVersion, req, settled>>
    BY <1>8 DEF RunOut, Typed, TypeOK, Located
  <2>2. Depth(ipVersion) \in Nat \ {0}
    BY <2>1, PathOfFacts
  <2>3. OutsideRace(u)' => PathOf(u)[Depth(ipVersion)] < NodeCount
    BY <1>0, <2>1, <2>2 DEF RightAt, OutsideRace, Taken, Nodes
  <2>4. OutsideRace(u)' => LookupRight(u)'
    BY <2>1, <2>2, <2>3, EntryOfRunOut
    DEF LookupRight, ExpectedEntry, PathOf
  <2> QED BY <2>1, <2>4 DEF RightAt
<1> QED
  BY <1>1, <1>2, <1>3, <1>4, <1>5, <1>6, <1>7, <1>8 DEF Next, Step

\* Every lookup that needs no start node, every lookup that begins once the
\* cache is complete and every lookup of a lone thread returns the entry of its
\* address, in any tree and whatever the other threads do meanwhile.
THEOREM OrderedLookupsAreRight == Spec => []OrderedLookupsRight
<1>1. AllRight => OrderedLookupsRight
  BY DEF AllRight, RightAt, OrderedLookupsRight
<1> QED
  BY <1>1, TypedInit, TypedNext, CacheInit, CacheNext, RightInit, RightNext, PTL
  DEF Spec

\* Every step keeps the types, the cache and the lookups outside the race.
LEMMA LookupInvariant == Spec => [](Typed /\ CacheInv /\ AllRight)
BY TypedInit, TypedNext, CacheInit, CacheNext, RightInit, RightNext, PTL DEF Spec

\* In a tree without records back to the root the lookup of an IPv4 address that
\* starts in the middle of the tree has the entry of ::a.b.c.d.
THEOREM MappedIsV6Lookup == Spec => []MappedLookedUpAsV6
<1>1. Typed /\ AllRight => MappedLookedUpAsV6
  <2> SUFFICES ASSUME Typed, AllRight, NEW t \in Threads, pc[t] = "done",
                      OutsideRace(t), IsMapped(ipVersion, req[t]), WellFormed(tree)
               PROVE  Entry(answer[t]) =
                        EntryAt(tree, MappedAddress(ipVersion, req[t]), V6Bits, 0)
    BY DEF MappedLookedUpAsV6
  <2>1. Depth(ipVersion) = V6Bits /\ ~ IsRejected(ipVersion, req[t])
    BY MappedIsV6 DEF Typed, TypeOK
  <2>2. /\ tree \in [Nodes -> [Bits -> Nat]] /\ V6Bits \in Nat
        /\ MappedAddress(ipVersion, req[t]) \in [0 .. V6Bits - 1 -> Bits]
    BY <2>1, PathOfFacts
  <2>3. SpineBits \in 0 .. V6Bits
    BY DEF SpineBits
  <2>4. Entry(answer[t]) =
          EntryAt(tree, MappedAddress(ipVersion, req[t]), V6Bits, SpineBits)
    BY <2>1 DEF AllRight, RightAt, LookupRight, ExpectedEntry
  <2> QED BY <2>2, <2>3, <2>4, WellFormedEntry
<1> QED BY <1>1, LookupInvariant, PTL

-----------------------------------------------------------------------------
(* The netmask. *)

\* A lookup that has found the IPv4 part inside the tree, or needs none, reports the
\* bits it took.
NetmaskAt(t) ==
  (/\ pc[t] = "done"
   /\ OutsideRace(t)
   /\ answer[t].mmdbError = "SUCCESS"
   /\ IsMapped(ipVersion, req[t]) => StartValue(tree) < NodeCount)
  => answer[t].netmask =
       SubnetBits(tree, MappedAddress(ipVersion, req[t]), Depth(ipVersion))

\* The errors are no success.
LEMMA ErrorsAreNone ==
  /\ Failed("CORRUPT").mmdbError # "SUCCESS"
  /\ \A r \in AllRequests : Rejection(r).mmdbError # "SUCCESS"
<1>1. \A e : Failed(e).mmdbError = e
  BY DEF Failed, NoAnswer
<1>2. NoAnswer.mmdbError = "UNSET" /\ [NoAnswer EXCEPT !.gai = TRUE].mmdbError = "UNSET"
  BY DEF NoAnswer
<1>3. \A r \in AllRequests : r.api \in {"string", "sockaddr"}
  BY RequestShape
<1> QED BY <1>1, <1>2, <1>3 DEF Rejection

\* A thread whose variables do not change keeps its netmask.
LEMMA NetmaskFrame ==
  ASSUME NEW t \in Threads, NetmaskAt(t),
         UNCHANGED <<tree, ipVersion, pc[t], req[t], answer[t], settled[t]>>
  PROVE  NetmaskAt(t)'
BY DEF NetmaskAt, OutsideRace

\* The turn that ends a walk outside the tree has taken the bits of the subnet.
LEMMA NetmaskWalk ==
  ASSUME Typed, NEW t \in Threads, RightAt(t), WalkStep(t)
  PROVE  NetmaskAt(t)'
<1> DEFINE d == Depth(ipVersion)
           bits == MappedAddress(ipVersion, req[t])
           n == Taken(t)
           value == tree[node[t]][bits[n]]
<1> SUFFICES ASSUME OutsideRace(t), pc'[t] = "done", answer'[t].mmdbError = "SUCCESS"
             PROVE  answer'[t].netmask = SubnetBits(tree, bits, d)
  BY DEF NetmaskAt, OutsideRace, WalkStep, shared
<1>1. /\ pc[t] = "walk" /\ bit[t] >= 0 /\ ipVersion \in {4, 6}
      /\ ~ IsRejected(ipVersion, req[t]) /\ node[t] \in Nodes /\ bit[t] < d
      /\ bit[t] \in Int
  BY DEF WalkStep, Typed, TypeOK, Located
<1>2. /\ tree \in [Nodes -> [Bits -> Nat]]
      /\ d \in Nat \ {0}
      /\ bits \in [0 .. d - 1 -> Bits]
      /\ \A k \in 0 .. d - 1 : PathOf(t)[k + 1] = Follow(tree, PathOf(t)[k], bits[k])
  BY <1>1, PathOfFacts
<1>3. n \in 0 .. d - 1 /\ node[t] = PathOf(t)[n] /\ d - bit[t] = n + 1
  BY <1>1, <1>2 DEF RightAt, Taken
<1>4. PathOf(t)[n] < NodeCount
  BY <1>1, <1>3 DEF Nodes
<1>5. PathOf(t)[n + 1] = value
  BY <1>2, <1>3, <1>4 DEF Follow
<1>6. /\ value = 0 \/ LeavesTree(value)
      /\ answer'[t] = IF value = 0 THEN Failed("CORRUPT")
                                   ELSE PopulateResult(d, value, bit[t])
  BY <1>1 DEF WalkStep, Typed, TypeOK, Taken
<1>7. value # 0 /\ LeavesTree(value) /\ answer'[t] = PopulateResult(d, value, bit[t])
  BY <1>6, ErrorsAreNone
<1> HIDE DEF value, n, d, bits
<1>8. ~ (value - NodeCount > DataSize)
  BY <1>7, ErrorsAreNone DEF PopulateResult
<1>9. answer'[t].netmask = d - bit[t]
  BY <1>7, <1>8 DEF PopulateResult
<1>10. SubnetBits(tree, bits, d) = n + 1
  <2>1. Path(tree, bits, d)[n] < NodeCount /\ Path(tree, bits, d)[n + 1] >= NodeCount
    BY <1>4, <1>5, <1>7 DEF PathOf, LeavesTree, bits, d
  <2>2. /\ tree \in [Nodes -> [Bits -> Nat]] /\ d \in Nat
        /\ bits \in [0 .. d - 1 -> Bits] /\ n \in 0 .. d - 1
    BY <1>2, <1>3
  <2> HIDE SearchTreeAssumption, LookupAssumption
  <2> QED BY <2>1, <2>2, SubnetAtLeaf, Zenon
<1> QED BY <1>3, <1>9, <1>10

\* Every step keeps the netmasks of the lookups outside the race.
LEMMA NetmaskNext ==
  ASSUME Typed, CacheInv, AllRight, \A t \in Threads : NetmaskAt(t), [Next]_vars,
         NEW u \in Threads
  PROVE  NetmaskAt(u)'
<1> USE DEF shared, locals
<1>1. CASE UNCHANGED vars
  BY <1>1, NetmaskFrame DEF vars
<1>2. ASSUME NEW t \in Threads, t # u,
             (\E r \in Requests : Call(t, r)) \/ Step(t) \/ Return(t)
      PROVE  NetmaskAt(u)'
  <2>1. UNCHANGED <<tree, ipVersion, pc[u], req[u], answer[u], settled[u]>>
    BY <1>2 DEF Typed, TypeOK, Step, Call, Reject, EnterTree, CheckCache, ScanStep,
       StoreValue, StoreMask, CopyCache, WalkStep, RunOut, Return
  <2> QED BY <2>1, NetmaskFrame
<1>3. CASE (\E r \in Requests : Call(u, r)) \/ EnterTree(u) \/ CheckCache(u)
           \/ ScanStep(u) \/ StoreValue(u) \/ StoreMask(u) \/ Return(u)
  <2>1. pc'[u] # "done"
    BY <1>3 DEF Typed, TypeOK, Call, EnterTree, CheckCache, ScanStep, StoreValue,
       StoreMask, Return
  <2> QED BY <2>1 DEF NetmaskAt
<1>4. CASE Reject(u)
  <2>1. answer'[u] = Rejection(req[u]) /\ req[u] \in AllRequests
    BY <1>4 DEF Reject, Typed, TypeOK, Located
  <2> QED BY <2>1, ErrorsAreNone DEF NetmaskAt
<1>5. CASE CopyCache(u)
  <2>1. IsMapped(ipVersion, req[u]) /\ UNCHANGED <<tree, ipVersion, req, settled>>
    BY <1>5 DEF CopyCache, Typed, Located
  <2>2. ~ LeavesTree(cacheValue) => pc'[u] # "done"
    BY <1>5 DEF CopyCache, Typed, TypeOK
  <2>3. cacheValue = StartValue(tree)
    BY <1>5 DEF CopyCache, CacheInv, Scanned
  <2>4. LeavesTree(cacheValue) => ~ (StartValue(tree) < NodeCount)
    BY <2>3 DEF LeavesTree, Typed, TypeOK
  <2> QED BY <2>1, <2>2, <2>4 DEF NetmaskAt
<1>6. CASE WalkStep(u)
  BY <1>6, NetmaskWalk DEF AllRight
<1>7. CASE RunOut(u)
  <2>1. answer'[u] = Failed("CORRUPT")
    BY <1>7 DEF RunOut, Typed, TypeOK
  <2> QED BY <2>1, ErrorsAreNone DEF NetmaskAt
<1> QED
  BY <1>1, <1>2, <1>3, <1>4, <1>5, <1>6, <1>7 DEF Next, Step

\* Every lookup outside the race reports the number of bits that decide its entry,
\* for every tree that does not hold the IPv4 range in one record.
THEOREM NetmaskTellsBits == Spec => []NetmaskOfSubnet
<1> DEFINE Netmasks == \A t \in Threads : NetmaskAt(t)
<1>1. Init => Netmasks
  BY DEF Init, NetmaskAt
<1>2. Typed /\ CacheInv /\ AllRight /\ Netmasks /\ [Next]_vars => Netmasks'
  BY NetmaskNext
<1>3. Netmasks => NetmaskOfSubnet
  BY DEF NetmaskAt, NetmaskOfSubnet
<1> HIDE DEF Netmasks
<1> QED BY <1>1, <1>2, <1>3, LookupInvariant, PTL DEF Spec

-----------------------------------------------------------------------------
(* LookupThreads implements AtomicLookup. *)

phases == [t \in Threads |-> Phase(t)]
replies == [t \in Threads |-> Entry(answer[t])]
exposures == [t \in Threads |-> ~ OutsideRace(t)]

\* The operators of SearchTree are the same in both.
LEMMA SameOperators ==
  /\ Atomic!NoRequest = NoRequest
  /\ Atomic!Entry(Atomic!NoAnswer) = Entry(NoAnswer)
  /\ \A v, r : Atomic!IsMapped(v, r) <=> IsMapped(v, r)
  /\ \A tr, v, r : Atomic!ExpectedEntry(tr, v, r) = ExpectedEntry(tr, v, r)
<1>1. Atomic!NoRequest = NoRequest
  BY DEF NoRequest, Atomic!NoRequest
<1>2. Atomic!NoAnswer = NoAnswer
  BY DEF NoAnswer, Atomic!NoAnswer
<1>3. ASSUME NEW a PROVE Atomic!Entry(a) = Entry(a)
  BY DEF Entry, Atomic!Entry
<1>4. ASSUME NEW v, NEW r PROVE Atomic!IsMapped(v, r) <=> IsMapped(v, r)
  BY DEF IsMapped, Atomic!IsMapped
<1>5. Atomic!SpineBits = SpineBits
  BY DEF SpineBits, Atomic!SpineBits
<1>6. ASSUME NEW v, NEW r
      PROVE  Atomic!MappedAddress(v, r) = MappedAddress(v, r)
  BY <1>4, <1>5 DEF MappedAddress, Atomic!MappedAddress
<1>7. ASSUME NEW v, NEW r PROVE Atomic!IsRejected(v, r) <=> IsRejected(v, r)
  BY DEF IsRejected, Atomic!IsRejected
<1>8. ASSUME NEW error PROVE Atomic!Failed(error) = Failed(error)
  BY <1>2 DEF Failed, Atomic!Failed
<1>9. ASSUME NEW r PROVE Atomic!Rejection(r) = Rejection(r)
  BY <1>2, <1>8 DEF Rejection, Atomic!Rejection
<1>10. ASSUME NEW tr, NEW bits, NEW n
       PROVE  Atomic!Path(tr, bits, n) = Path(tr, bits, n)
  BY DEF Path, Follow, Atomic!Path, Atomic!Follow
<1>11. ASSUME NEW tr, NEW bits, NEW d, NEW from
       PROVE  Atomic!EntryAt(tr, bits, d, from) = EntryAt(tr, bits, d, from)
  BY <1>10 DEF EntryAt, Atomic!EntryAt
<1>12. ASSUME NEW v PROVE Atomic!Depth(v) = Depth(v)
  BY DEF Depth, Atomic!Depth
<1>13. ASSUME NEW tr, NEW v, NEW r
       PROVE  Atomic!ExpectedEntry(tr, v, r) = ExpectedEntry(tr, v, r)
  BY <1>3, <1>4, <1>5, <1>6, <1>7, <1>9, <1>11, <1>12
  DEF ExpectedEntry, Atomic!ExpectedEntry
<1> QED BY <1>1, <1>2, <1>3, <1>4, <1>13

\* A lookup that the start node matters to ends with one of two statuses.
LEMMA ExposedEntry ==
  ASSUME Typed, Typed', NEW t \in Threads, pc'[t] = "done",
         CopyCache(t) \/ WalkStep(t) \/ RunOut(t)
  PROVE  Entry(answer[t])' \in Atomic!AnyEntry
<1>1. answer'[t] \in Answers
  BY DEF Typed, TypeOK
<1>2. answer'[t].mmdbError \in {"SUCCESS", "CORRUPT"}
  <2>1. answer \in [Threads -> Answers]
    BY DEF Typed, TypeOK
  <2>2. pc \in [Threads -> PCs]
    BY DEF Typed, TypeOK
  <2>3. \A depth, value, b :
          PopulateResult(depth, value, b).mmdbError \in {"SUCCESS", "CORRUPT"}
    BY DEF PopulateResult, Failed, NoAnswer
  <2>4. Failed("CORRUPT").mmdbError = "CORRUPT"
    BY DEF Failed, NoAnswer
  <2>5. CASE CopyCache(t)
    <3>1. answer'[t] = PopulateResult(Depth(ipVersion), cacheValue, cacheMask)
      BY <2>1, <2>2, <2>5 DEF CopyCache
    <3> QED BY <2>3, <3>1
  <2>6. CASE WalkStep(t)
    <3>1. \/ answer'[t] = Failed("CORRUPT")
          \/ \E value : answer'[t] =
                          PopulateResult(Depth(ipVersion), value, bit[t])
      BY <2>1, <2>2, <2>6 DEF WalkStep
    <3> QED BY <2>3, <2>4, <3>1
  <2>7. CASE RunOut(t)
    <3>1. answer'[t] = Failed("CORRUPT")
      BY <2>1, <2>7 DEF RunOut
    <3> QED BY <2>4, <3>1
  <2> QED BY <2>5, <2>6, <2>7
<1> QED BY <1>1, <1>2 DEF Entry, Answers, Atomic!AnyEntry

\* The step that publishes an answer is the abstract answer.
LEMMA AnswerStep ==
  ASSUME Typed, Typed', AllRight', NEW t \in Threads, pc'[t] = "done",
         Reject(t) \/ CopyCache(t) \/ WalkStep(t) \/ RunOut(t)
  PROVE  Atomic!AAnswer(t)
<1> DEFINE e == Entry(answer[t])'
<1>1. /\ pc \in [Threads -> PCs] /\ pc[t] \notin {"idle", "done"}
      /\ pc' = [pc EXCEPT ![t] = "done"]
      /\ answer \in [Threads -> Answers]
      /\ answer' = [answer EXCEPT ![t] = answer'[t]]
      /\ UNCHANGED <<tree, ipVersion, req, settled>>
  BY DEF Typed, TypeOK, Reject, CopyCache, WalkStep, RunOut, shared, locals
<1>2. phases[t] = "busy"
  BY <1>1 DEF phases, Phase
<1>3. phases' = [phases EXCEPT ![t] = "done"]
  BY <1>1 DEF phases, Phase
<1>4. replies' = [replies EXCEPT ![t] = e]
  BY <1>1 DEF replies
<1>5. exposures' = exposures
  BY <1>1 DEF exposures, OutsideRace
<1>6. ~ exposures[t] => e = ExpectedEntry(tree, ipVersion, req[t])
  <2>1. RightAt(t)'
    BY DEF AllRight
  <2>2. OutsideRace(t)' <=> OutsideRace(t)
    BY <1>1 DEF OutsideRace
  <2> QED BY <1>1, <2>1, <2>2 DEF exposures, RightAt, LookupRight
<1>7. e \in Atomic!AnyEntry \cup {ExpectedEntry(tree, ipVersion, req[t])}
  <2>1. CASE Reject(t)
    <3>1. e = Entry(Rejection(req[t])) /\ IsRejected(ipVersion, req[t])
      BY <1>1, <2>1 DEF Reject
    <3> QED BY <3>1 DEF ExpectedEntry
  <2>2. CASE CopyCache(t) \/ WalkStep(t) \/ RunOut(t)
    BY <2>2, ExposedEntry
  <2> QED BY <2>1, <2>2
<1> HIDE DEF e
<1> QED
  BY <1>1, <1>2, <1>3, <1>4, <1>5, <1>6, <1>7, SameOperators
  DEF Atomic!AAnswer, phases, replies, exposures

\* A step of a call that neither begins nor ends it cannot be seen.
LEMMA HiddenStep ==
  ASSUME Typed, NEW t \in Threads, Step(t), pc'[t] # "done"
  PROVE  UNCHANGED Atomic!avars
<1>1. /\ pc \in [Threads -> PCs] /\ pc[t] \notin {"idle", "done"}
      /\ \E q \in PCs \ {"idle", "done"} : pc' = [pc EXCEPT ![t] = q]
      /\ UNCHANGED <<tree, ipVersion, req, settled, answer>>
  BY DEF Typed, TypeOK, PCs, Step, Reject, EnterTree, CheckCache, ScanStep,
     StoreValue, StoreMask, CopyCache, WalkStep, RunOut, shared, locals
<1>2. phases' = phases
  BY <1>1 DEF phases, Phase
<1>3. replies' = replies /\ exposures' = exposures
  BY <1>1 DEF replies, exposures, OutsideRace
<1> QED BY <1>1, <1>2, <1>3 DEF Atomic!avars, phases, replies, exposures

\* Calling and returning are what they are in the abstract specification.
LEMMA CallStep ==
  ASSUME Typed, NEW t \in Threads, NEW r \in Requests, Call(t, r)
  PROVE  Atomic!ACall(t, r)
<1> DEFINE e == ~ OutsideRace(t)'
<1>1. /\ pc \in [Threads -> PCs] /\ pc[t] = "idle"
      /\ pc' = [pc EXCEPT ![t] = "called"]
      /\ req \in [Threads -> Requests \cup {NoRequest}]
      /\ req' = [req EXCEPT ![t] = r]
      /\ settled \in [Threads -> BOOLEAN]
      /\ settled' = [settled EXCEPT ![t] = CacheSettled]
      /\ UNCHANGED <<tree, ipVersion, answer>>
  BY DEF Typed, TypeOK, Call, shared, locals
<1>2. phases[t] = "idle" /\ phases' = [phases EXCEPT ![t] = "busy"]
  BY <1>1 DEF phases, Phase
<1>3. replies' = replies
  BY <1>1 DEF replies
<1>4. exposures' = [exposures EXCEPT ![t] = e]
  BY <1>1 DEF exposures, OutsideRace
<1>5. e \in BOOLEAN /\ (e => IsMapped(ipVersion, r) /\ \E u \in Threads : u # t)
  BY <1>1 DEF OutsideRace
<1> HIDE DEF e
<1> QED
  BY <1>1, <1>2, <1>3, <1>4, <1>5, SameOperators
  DEF Atomic!ACall, phases, replies, exposures

\* A return forgets the call in both.
LEMMA ReturnStep ==
  ASSUME Typed, NEW t \in Threads, Return(t)
  PROVE  Atomic!AReturn(t)
<1>1. /\ pc \in [Threads -> PCs] /\ pc[t] = "done"
      /\ pc' = [pc EXCEPT ![t] = "idle"]
      /\ req \in [Threads -> Requests \cup {NoRequest}]
      /\ req' = [req EXCEPT ![t] = NoRequest]
      /\ answer \in [Threads -> Answers]
      /\ answer' = [answer EXCEPT ![t] = NoAnswer]
      /\ settled \in [Threads -> BOOLEAN]
      /\ settled' = [settled EXCEPT ![t] = FALSE]
      /\ UNCHANGED <<tree, ipVersion>>
  BY DEF Typed, TypeOK, Return, shared
<1>2. phases[t] = "done" /\ phases' = [phases EXCEPT ![t] = "idle"]
  BY <1>1 DEF phases, Phase
<1>3. replies' = [replies EXCEPT ![t] = Entry(NoAnswer)]
  BY <1>1 DEF replies
<1>4. ~ IsMapped(ipVersion, NoRequest)
  BY DEF IsMapped, NoRequest
<1>5. exposures' = [exposures EXCEPT ![t] = FALSE]
  BY <1>1, <1>4 DEF exposures, OutsideRace
<1> QED
  BY <1>1, <1>2, <1>3, <1>5, SameOperators
  DEF Atomic!AReturn, phases, replies, exposures

\* No thread has called before the first step.
LEMMA AtomicInit == Init => Atomic!AInit
<1> SUFFICES ASSUME Init PROVE Atomic!AInit
  OBVIOUS
<1>1. phases = [t \in Threads |-> "idle"]
  BY DEF Init, phases, Phase
<1>2. replies = [t \in Threads |-> Entry(NoAnswer)]
  BY DEF Init, replies
<1>3. ~ IsMapped(ipVersion, NoRequest)
  BY DEF IsMapped, NoRequest
<1>4. exposures = [t \in Threads |-> FALSE]
  BY <1>3 DEF Init, exposures, OutsideRace
<1> QED
  BY <1>1, <1>2, <1>4, SameOperators
  DEF Init, Atomic!AInit, phases, replies, exposures

\* Every step of every thread is a step of AtomicLookup or cannot be seen there.
LEMMA AtomicNext ==
  Typed /\ Typed' /\ AllRight' /\ [Next]_vars => [Atomic!ANext]_(Atomic!avars)
<1> SUFFICES ASSUME Typed, Typed', AllRight', [Next]_vars
             PROVE  [Atomic!ANext]_(Atomic!avars)
  OBVIOUS
<1>1. CASE UNCHANGED vars
  BY <1>1
  DEF vars, Atomic!avars, Phase, OutsideRace
<1>2. ASSUME NEW t \in Threads, NEW r \in Requests, Call(t, r)
      PROVE  Atomic!ANext
  BY <1>2, CallStep DEF Atomic!ANext
<1>3. ASSUME NEW t \in Threads, Return(t) PROVE Atomic!ANext
  BY <1>3, ReturnStep DEF Atomic!ANext
<1>4. ASSUME NEW t \in Threads, Step(t), pc'[t] = "done" PROVE Atomic!ANext
  <2>1. Reject(t) \/ CopyCache(t) \/ WalkStep(t) \/ RunOut(t)
    BY <1>4
    DEF Typed, TypeOK, Step, EnterTree, CheckCache, ScanStep, StoreValue, StoreMask
  <2> QED BY <1>4, <2>1, AnswerStep DEF Atomic!ANext
<1>5. ASSUME NEW t \in Threads, Step(t), pc'[t] # "done"
      PROVE  UNCHANGED Atomic!avars
  BY <1>5, HiddenStep
<1> QED BY <1>1, <1>2, <1>3, <1>4, <1>5 DEF Next

\* What the application sees of any number of threads is what AtomicLookup lets
\* it see: one-step lookups, wrong at most for an IPv4 address in an IPv6 file
\* that is looked up before the cache is complete.
THEOREM LookupsAreAtomic == Spec => StepsAreAtomic
<1> QED
  BY TypedInit, TypedNext, CacheInit, CacheNext, RightInit, RightNext,
     AtomicInit, AtomicNext, PTL
  DEF Spec, StepsAreAtomic, Atomic!ASafety
=============================================================================
