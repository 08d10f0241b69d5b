----------------------- MODULE MmdblookupValues_proofs -----------------------
(***************************************************************************)
(* What mmdblookup finds, lists and prints is what the data section means: *)
(* the decoder of EntryData follows the readings of DataSection, for every *)
(* section, path and sequence of failing allocations.                      *)
(***************************************************************************)
EXTENDS MmdblookupValues, Mmdblookup_proofs, DataSection_proofs

-----------------------------------------------------------------------------
(* Skipping a value ends where its reading ends.                           *)

\* The offset behind the value at p, and behind the member at p of the container at o,
\* when S tells the offset behind each value.
Onward(p, S) == IF p \in DOMAIN section THEN S[p] ELSE NoOffset

Over(o, p, S) ==
  IF section[o].type # "map" THEN Onward(p, S)
  ELSE IF Decodes(p) THEN Onward(p + section[p].cells, S) ELSE NoOffset

\* B goes from member to member.
Walks(B, o, S) ==
  /\ B[0] = o + section[o].cells
  /\ \A i \in 1 .. section[o].size : B[i] = Over(o, B[i - 1], S)

Offsets == [DOMAIN section -> Nat]

\* A field is skipped member by member.
LEMMA SkipFieldWalks ==
  ASSUME IsSection(section), NEW S \in Offsets, NEW o \in DOMAIN section
  PROVE  \E B \in [0 .. section[o].size -> Nat] :
           /\ Walks(B, o, S)
           /\ SkipField(o, S) =
                IF ~ Decodes(o) THEN NoOffset
                ELSE IF section[o].type \in {"map", "array"} THEN B[section[o].size]
                ELSE o + section[o].cells
<1> DEFINE n == section[o].size
           c == o + section[o].cells
           From(p) == IF p \in DOMAIN section THEN S[p] ELSE NoOffset
           BehindKey(p) == IF Decodes(p) THEN From(EntryAt(p).next) ELSE NoOffset
           It(f) == f = [i \in 0 .. EntryAt(o).size |->
                          IF i = 0 THEN EntryAt(o).next
                          ELSE IF EntryAt(o).type = "map" THEN BehindKey(f[i - 1])
                          ELSE From(f[i - 1])]
           P == CHOOSE f : It(f)
           step == [p \in Nat \X Nat |-> Over(o, p[2], S)]
<1>1. n \in Nat /\ c \in Nat
  BY DEF IsSection
<1>2. \A p : Over(o, p, S) = IF EntryAt(o).type = "map" THEN BehindKey(p) ELSE From(p)
  BY DEF Over, Onward, EntryAt
<1>3. \A p : Over(o, p, S) \in Nat
  BY DEF Over, Onward, Offsets, NoOffset
<1>4. step \in [Nat \X Nat -> Nat]
  BY <1>3
<1>5. \A i \in Nat : \A x \in Nat : step[<<i, x>>] = Over(o, x, S)
  OBVIOUS
<1>6. EntryAt(o).size = n /\ EntryAt(o).next = c /\ EntryAt(o).type = section[o].type
  BY DEF EntryAt
<1> HIDE DEF step, n, c, From, BehindKey
<1>7. PICK g \in [0 .. n -> Nat] : Iterated(g, n, c, step)
  BY <1>1, <1>4, IteratedTo
<1>8. ASSUME NEW i \in 0 .. n
      PROVE  g[i] = IF i = 0 THEN c ELSE Over(o, g[i - 1], S)
  <2>1. CASE i = 0
    BY <2>1, <1>7 DEF Iterated
  <2>2. CASE i # 0
    <3>1. i \in 1 .. n /\ i - 1 \in 0 .. n /\ i \in Nat
      BY <2>2, <1>1
    <3>2. g[i] = step[<<i, g[i - 1]>>] /\ g[i - 1] \in Nat
      BY <3>1, <1>7 DEF Iterated
    <3> QED BY <3>1, <3>2, <2>2, <1>5
  <2> QED BY <2>1, <2>2
<1>9. It(g)
  <2>1. g = [i \in 0 .. n |-> g[i]]
    BY <1>7
  <2>2. \A i \in 0 .. n :
          g[i] = IF i = 0 THEN EntryAt(o).next
                 ELSE IF EntryAt(o).type = "map" THEN BehindKey(g[i - 1])
                 ELSE From(g[i - 1])
    BY <1>2, <1>6, <1>8
  <2> QED BY <2>1, <2>2, <1>6
<1>10. It(P)
  BY <1>9
<1>11. SkipField(o, S) =
         IF ~ Decodes(o) THEN NoOffset ELSE IF IsCompound(EntryAt(o)) THEN P[n] ELSE c
  BY <1>6 DEF SkipField, P, From, BehindKey
<1> HIDE DEF P
<1>12. \A i \in 0 .. n : P[i] = IF i = 0 THEN c ELSE Over(o, P[i - 1], S)
  BY <1>2, <1>6, <1>10
<1>13. P[0] = c /\ \A i \in 1 .. n : P[i] = Over(o, P[i - 1], S)
  BY <1>1, <1>12
<1>14. \A i \in 0 .. n : P[i] \in Nat
  BY <1>1, <1>3, <1>12
<1>15. P \in [0 .. n -> Nat]
  <2>1. P = [i \in 0 .. n |-> P[i]]
    BY <1>6, <1>10
  <2> QED BY <2>1, <1>14
<1>16. Walks(P, o, S)
  BY <1>13 DEF Walks, n, c
<1>17. SkipField(o, S) =
         IF ~ Decodes(o) THEN NoOffset
         ELSE IF section[o].type \in {"map", "array"} THEN P[n] ELSE c
  BY <1>6, <1>11 DEF IsCompound
<1> QED BY <1>15, <1>16, <1>17 DEF n, c

\* What a field is skipped to is a number.
LEMMA SkipFieldNat ==
  ASSUME IsSection(section), NEW S \in Offsets, NEW o \in DOMAIN section
  PROVE  SkipField(o, S) \in Nat
<1>1. PICK B \in [0 .. section[o].size -> Nat] :
        SkipField(o, S) =
          IF ~ Decodes(o) THEN NoOffset
          ELSE IF section[o].type \in {"map", "array"} THEN B[section[o].size]
          ELSE o + section[o].cells
  BY SkipFieldWalks
<1>2. section[o].size \in 0 .. section[o].size /\ o + section[o].cells \in Nat
  BY DEF IsSection
<1> QED BY <1>1, <1>2 DEF NoOffset

\* Values are skipped with calls that are nested deeper and deeper.
LEMMA SkipCalls ==
  ASSUME IsSection(section)
  PROVE  /\ \A d \in Nat : Skip[d] \in Offsets
         /\ \A o \in DOMAIN section : Skip[0][o] = NoOffset
         /\ \A d \in Nat : \A o \in DOMAIN section :
              Skip[d + 1][o] = SkipField(o, Skip[d])
<1> DEFINE c == [o \in DOMAIN section |-> NoOffset]
           step == [p \in Nat \X Offsets |-> [o \in DOMAIN section |-> SkipField(o, p[2])]]
           It(f) == f = [d \in Nat |-> [o \in DOMAIN section |->
                          IF d = 0 THEN NoOffset ELSE SkipField(o, f[d - 1])]]
           To == CHOOSE f : It(f)
<1>1. c \in Offsets
  BY DEF Offsets, NoOffset
<1>2. step \in [Nat \X Offsets -> Offsets]
  <2> SUFFICES ASSUME NEW p \in Nat \X Offsets
               PROVE  [o \in DOMAIN section |-> SkipField(o, p[2])] \in Offsets
    OBVIOUS
  <2>1. p[2] \in Offsets
    OBVIOUS
  <2>2. \A o \in DOMAIN section : SkipField(o, p[2]) \in Nat
    BY <2>1, SkipFieldNat
  <2> QED BY <2>2 DEF Offsets
<1>3. \A d \in Nat : \A x \in Offsets :
        step[<<d, x>>] = [o \in DOMAIN section |-> SkipField(o, x)]
  OBVIOUS
<1> HIDE DEF step, c
<1>4. PICK g \in [Nat -> Offsets] : Continued(g, c, step)
  BY <1>1, <1>2, IteratedForever
<1>5. \A d \in Nat : g[d + 1] = [o \in DOMAIN section |-> SkipField(o, g[d])]
  <2> SUFFICES ASSUME NEW d \in Nat
               PROVE  g[d + 1] = [o \in DOMAIN section |-> SkipField(o, g[d])]
    OBVIOUS
  <2>1. g[d] \in Offsets /\ d + 1 \in Nat
    BY <1>4
  <2> QED BY <2>1, <1>3, <1>4 DEF Continued
<1>6. It(g)
  <2>1. ASSUME NEW d \in Nat
        PROVE  g[d] = [o \in DOMAIN section |->
                        IF d = 0 THEN NoOffset ELSE SkipField(o, g[d - 1])]
    <3>1. CASE d = 0
      BY <3>1, <1>4 DEF c, Continued
    <3>2. CASE d # 0
      <4>1. d - 1 \in Nat /\ (d - 1) + 1 = d
        BY <3>2
      <4>2. g[(d - 1) + 1] = [o \in DOMAIN section |-> SkipField(o, g[d - 1])]
        BY <4>1, <1>5
      <4> QED BY <4>1, <4>2, <3>2
    <3> QED BY <3>1, <3>2
  <2>2. g = [d \in Nat |-> g[d]]
    BY <1>4
  <2> QED BY <2>1, <2>2
<1>7. It(To)
  BY <1>6
<1>8. Skip = To
  BY DEF Skip
<1> HIDE DEF To
<1>9. \A d \in Nat : To[d] = [o \in DOMAIN section |->
                                IF d = 0 THEN NoOffset ELSE SkipField(o, To[d - 1])]
  BY <1>7
<1>10. To[0] = c
  BY <1>9 DEF c
<1>11. \A d \in Nat : To[d + 1] = [o \in DOMAIN section |-> SkipField(o, To[d])]
  <2> SUFFICES ASSUME NEW d \in Nat
               PROVE  To[d + 1] = [o \in DOMAIN section |-> SkipField(o, To[d])]
    OBVIOUS
  <2>1. d + 1 \in Nat /\ d + 1 # 0 /\ (d + 1) - 1 = d
    OBVIOUS
  <2> QED BY <2>1, <1>9
<1>12. \A d \in Nat : To[d] \in Offsets
  <2> DEFINE T == {d \in Nat : To[d] \notin Offsets}
  <2>1. T = {}
    <3> SUFFICES ASSUME T # {} PROVE FALSE
      OBVIOUS
    <3>1. PICK d \in T : \A y \in T : d <= y
      BY LeastNat
    <3>2. CASE d = 0
      BY <3>1, <3>2, <1>10, <1>1
    <3>3. CASE d # 0
      <4>1. d - 1 \in Nat /\ (d - 1) + 1 = d /\ To[d - 1] \in Offsets
        BY <3>1, <3>3
      <4>2. To[d] = [o \in DOMAIN section |-> SkipField(o, To[d - 1])]
        BY <4>1, <1>11
      <4>3. \A o \in DOMAIN section : SkipField(o, To[d - 1]) \in Nat
        BY <4>1, SkipFieldNat
      <4>4. To[d] \in Offsets
        BY <4>2, <4>3 DEF Offsets
      <4> QED BY <4>4, <3>1
    <3> QED BY <3>2, <3>3
  <2> QED BY <2>1
<1> QED BY <1>8, <1>10, <1>11, <1>12 DEF c

\* A legal field that is no container ends behind its own cells.
LEMMA SimpleEnds ==
  ASSUME IsSection(section), NEW d \in Nat, NEW o \in DOMAIN section,
         Readings(section)[d][o].legal, ~ IsContainer(section[o])
  PROVE  Readings(section)[d][o].end = o + section[o].cells
<1> DEFINE k == d - 1
           R == Readings(section)[k]
<1>1. d # 0
  <2> SUFFICES ASSUME d = 0 PROVE FALSE
    OBVIOUS
  <2>1. Readings(section)[0][o] = Illegal
    BY ReadingsRead
  <2> QED BY <2>1, IllegalIn
<1>2. k \in Nat /\ k + 1 = d
  BY <1>1
<1> HIDE DEF k
<1>3. R \in Outcomes(section) /\ Readings(section)[d][o] = Read(section, o, R)
  BY <1>2, ReadingsRead
<1> HIDE DEF R
<1>4. Read(section, o, R).legal
  BY <1>3
<1>5. section[o].type \notin {"bad", "other"}
  BY <1>4, ReadLegal
<1>6. CASE section[o].type = "pointer"
  <2>1. Whole(section, section[o].pointer)
    BY <1>4, <1>6, ReadLegal
  <2>2. Read(section, o, R) = Ending(R[section[o].pointer], o + section[o].cells)
    BY <1>4, <1>6, ReadLegal
  <2>3. R[section[o].pointer] \in Outcome
    BY <1>3, <2>1 DEF Whole, Outcomes
  <2>4. Read(section, o, R).end = o + section[o].cells
    BY <2>2, <2>3 DEF Ending, Outcome
  <2> QED BY <1>3, <2>4
<1>7. CASE IsSimple(section[o])
  <2>1. Read(section, o, R) = Legal(o + section[o].cells, <<o>>)
    BY <1>4, <1>7, ReadLegal
  <2> QED BY <1>3, <2>1 DEF Legal
<1> QED BY <1>5, <1>6, <1>7, Kinds

\* S ends where R ends, for all that is legal.
Ends(S, R) ==
  \A o \in DOMAIN section : R[o].legal => S[o] = R[o].end /\ S[o] # 0

\* The way along an array, and along a map pair by pair, goes through the ends of the
\* members.
LEMMA WalkEnds ==
  ASSUME IsSection(section), NEW d \in Nat, NEW S \in Offsets,
         Ends(S, Readings(section)[d]), NEW o \in DOMAIN section,
         IsContainer(section[o]),
         Parts(section, o, Readings(section)[d])[Members(section[o])].legal,
         NEW B \in [0 .. section[o].size -> Nat], Walks(B, o, S)
  PROVE  /\ B[section[o].size] =
              Parts(section, o, Readings(section)[d])[Members(section[o])].end
         /\ B[section[o].size] # 0
<1> DEFINE R == Readings(section)[d]
           P == Parts(section, o, R)
           n == section[o].size
           m == Members(section[o])
           stride == IF section[o].type = "map" THEN 2 ELSE 1
<1>1. n \in Nat /\ m = stride * n /\ m \in Nat /\ o + section[o].cells \in Nat \ {0}
  BY DEF IsSection, Members, IsContainer
<1>2. R \in Outcomes(section)
  BY ReadingsRead
<1>3. Extends(section, R, R)
  BY DEF Extends
<1>4. \A i \in 0 .. m : P[i].legal
  <2>1. m \in 0 .. m /\ P[m].legal
    BY <1>1
  <2> QED BY <1>2, <1>3, <2>1, PartsExtend
<1>5. /\ P[0] = Legal(o + section[o].cells, <<>>)
      /\ \A i \in 1 .. m : P[i] = Joined(section, o, R, i, P[i - 1])
  BY <1>2, PartsRead
<1>6. Ends(S, R)
  OBVIOUS
<1> HIDE DEF P, R
<1>7. ASSUME NEW i \in 1 .. m
      PROVE  /\ P[i - 1].end \in DOMAIN section /\ R[P[i - 1].end].legal
             /\ P[i].end = R[P[i - 1].end].end
             /\ section[o].type = "map" /\ i % 2 = 1 =>
                  section[Target(section, P[i - 1].end)].type = "string"
  <2>1. P[i] = Joined(section, o, R, i, P[i - 1]) /\ i \in 0 .. m
    BY <1>1, <1>5
  <2>2. Joined(section, o, R, i, P[i - 1]).legal
    BY <1>4, <2>1
  <2>3. P[i - 1].end \in DOMAIN section /\ R[P[i - 1].end].legal
    BY <1>2, <2>2, JoinedLegal
  <2> QED BY <2>1, <2>2, <2>3 DEF Joined
<1>8. \A i \in 0 .. n : B[i] = P[stride * i].end /\ B[i] # 0
  <2> DEFINE T == {i \in 0 .. n : ~ (B[i] = P[stride * i].end /\ B[i] # 0)}
  <2>1. T = {}
    <3> SUFFICES ASSUME T # {} PROVE FALSE
      OBVIOUS
    <3>1. PICK i \in T : \A j \in T : i <= j
      <4>1. T \subseteq Nat
        OBVIOUS
      <4> QED BY <4>1, LeastNat
    <3>2. i # 0
      <4>1. B[0] = o + section[o].cells /\ P[0].end = o + section[o].cells
        BY <1>5 DEF Walks, Legal
      <4>2. stride * 0 = 0
        OBVIOUS
      <4> QED BY <4>1, <4>2, <3>1, <1>1
    <3>3. /\ i \in 1 .. n /\ i - 1 \in 0 .. n /\ i - 1 \notin T
      BY <3>1, <3>2, <1>1
    <3>4. B[i - 1] = P[stride * (i - 1)].end /\ B[i] = Over(o, B[i - 1], S)
      BY <3>3 DEF Walks
    <3>5. CASE section[o].type # "map"
      <4>1. stride = 1 /\ stride * i = i /\ stride * (i - 1) = i - 1 /\ i \in 1 .. m
        BY <1>1, <3>3, <3>5
      <4>2. B[i] = Onward(P[i - 1].end, S)
        BY <3>4, <3>5, <4>1 DEF Over
      <4>3. B[i] = S[P[i - 1].end]
        BY <1>7, <4>1, <4>2 DEF Onward
      <4>4. B[i] = P[i].end /\ B[i] # 0
        BY <1>6, <1>7, <4>1, <4>3 DEF Ends
      <4> QED BY <4>1, <4>4, <3>1
    <3>6. CASE section[o].type = "map"
      <4> DEFINE j == 2 * i - 1
                 q == P[j - 1].end
      <4>1. /\ stride = 2 /\ stride * i = 2 * i /\ stride * (i - 1) = j - 1
            /\ j \in 1 .. m /\ 2 * i \in 1 .. m /\ 2 * i - 1 = j /\ j % 2 = 1
        BY <1>1, <3>3, <3>6
      <4> HIDE DEF j
      <4>2. /\ q \in DOMAIN section /\ R[q].legal /\ P[j].end = R[q].end
            /\ section[Target(section, q)].type = "string"
        BY <1>7, <4>1, <3>6
      <4>3. /\ P[j].end \in DOMAIN section /\ R[P[j].end].legal
            /\ P[2 * i].end = R[P[j].end].end
        BY <1>7, <4>1
      <4>4. ~ IsContainer(section[q])
        BY <4>2 DEF Target, IsContainer
      <4>5. R[q].end = q + section[q].cells
        BY <4>2, <4>4, SimpleEnds DEF R
      <4>6. Decodes(q)
        <5>1. Readings(section)[d][q].legal
          BY <4>2 DEF R
        <5>2. section[q].type # "bad"
          BY <4>2 DEF Target
        <5> QED BY <4>2, <5>2 DEF Decodes
      <4>7. B[i] = S[P[j].end]
        BY <3>4, <3>6, <4>1, <4>2, <4>3, <4>5, <4>6 DEF Over, Onward
      <4>8. B[i] = P[2 * i].end /\ B[i] # 0
        BY <1>6, <4>3, <4>7 DEF Ends
      <4> QED BY <4>1, <4>8, <3>1
    <3> QED BY <3>5, <3>6
  <2> QED BY <2>1
<1>9. n \in 0 .. n /\ m = stride * n
  BY <1>1
<1>10. B[n] = P[m].end /\ B[n] # 0
  BY <1>8, <1>9
<1> QED BY <1>10 DEF P, R

\* With as many calls in each other as values are nested, skipping ends where the
\* reading ends.
LEMMA SkipEnds ==
  ASSUME IsSection(section), NEW d \in Nat
  PROVE  Ends(Skip[d], Readings(section)[d])
<1> DEFINE T == {n \in Nat : ~ Ends(Skip[n], Readings(section)[n])}
<1>1. T = {}
  <2> SUFFICES ASSUME T # {} PROVE FALSE
    OBVIOUS
  <2>1. PICK n \in T : \A y \in T : n <= y
    BY LeastNat
  <2>2. CASE n = 0
    <3>1. \A o \in DOMAIN section : ~ Readings(section)[0][o].legal
      BY ReadingsRead, IllegalIn
    <3> QED BY <2>1, <2>2, <3>1 DEF Ends
  <2>3. CASE n # 0
    <3> DEFINE k == n - 1
               S == Skip[k]
               R == Readings(section)[k]
    <3>1. k \in Nat /\ k + 1 = n /\ k \notin T
      BY <2>1, <2>3
    <3> HIDE DEF k
    <3>2. Ends(S, R) /\ S \in Offsets /\ R \in Outcomes(section)
      BY <3>1, SkipCalls, ReadingsRead
    <3>3. ASSUME NEW o \in DOMAIN section, Readings(section)[n][o].legal
          PROVE  Skip[n][o] = Readings(section)[n][o].end /\ Skip[n][o] # 0
      <4>1. /\ Skip[n][o] = SkipField(o, S)
            /\ Readings(section)[n][o] = Read(section, o, R)
        BY <3>1, SkipCalls, ReadingsRead
      <4>2. Read(section, o, R).legal
        BY <3>3, <4>1
      <4>3. PICK B \in [0 .. section[o].size -> Nat] :
              /\ Walks(B, o, S)
              /\ SkipField(o, S) =
                   IF ~ Decodes(o) THEN NoOffset
                   ELSE IF section[o].type \in {"map", "array"} THEN B[section[o].size]
                   ELSE o + section[o].cells
        BY <3>2, SkipFieldWalks
      <4>4. Decodes(o)
        BY <4>2, ReadLegal DEF Decodes, Whole
      <4>5. CASE IsContainer(section[o])
        <5>1. Parts(section, o, R)[Members(section[o])].legal
          BY <4>2, <4>5, ReadLegal
        <5>2. Read(section, o, R) =
                Around(o, Parts(section, o, R)[Members(section[o])])
          BY <4>2, <4>5, ReadLegal
        <5> DEFINE all == Parts(section, o, R)[Members(section[o])]
        <5>3. all \in Outcome
          <6>1. Members(section[o]) \in Nat
            BY MembersNat
          <6>2. Members(section[o]) \in 0 .. Members(section[o])
            BY <6>1
          <6> QED BY <6>2, <3>2, PartsRead
        <5>4. B[section[o].size] = all.end /\ B[section[o].size] # 0
          BY <3>1, <3>2, <4>3, <4>5, <5>1, WalkEnds, ZenonT(40)
        <5>5. SkipField(o, S) = B[section[o].size]
          BY <4>3, <4>4, <4>5 DEF IsContainer
        <5>6. Around(o, all).end = all.end
          BY <5>3 DEF Around, Outcome
        <5> QED BY <4>1, <5>2, <5>4, <5>5, <5>6
      <4>6. CASE ~ IsContainer(section[o])
        <5>1. Readings(section)[n][o].end = o + section[o].cells
          BY <2>1, <3>3, <4>6, SimpleEnds
        <5>2. SkipField(o, S) = o + section[o].cells
          BY <4>3, <4>4, <4>6 DEF IsContainer
        <5>3. o + section[o].cells # 0
          BY DEF IsSection
        <5> QED BY <4>1, <5>1, <5>2, <5>3
      <4> QED BY <4>5, <4>6
    <3>4. Ends(Skip[n], Readings(section)[n])
      BY <3>3 DEF Ends
    <3> QED BY <2>1, <3>4
  <2> QED BY <2>2, <2>3
<1> QED BY <1>1

\* A legal value is skipped to where its reading ends.
LEMMA SkipReads ==
  ASSUME NEW o, Valid(section, o)
  PROVE  SkipValue(o) = Reading(section)[o].end /\ SkipValue(o) \in Nat \ {0}
<1>1. IsSection(section) /\ o \in DOMAIN section /\ Reading(section)[o].legal
  BY DEF Valid, IsLegal
<1>2. 2 * Len(section) \in Nat
  BY <1>1 DEF IsSection
<1>3. Ends(Skip[2 * Len(section)], Reading(section))
  BY <1>1, <1>2, SkipEnds DEF Reading
<1>4. Skip[2 * Len(section)] \in Offsets
  BY <1>1, <1>2, SkipCalls
<1>5. SkipValue(o) = Skip[2 * Len(section)][o]
  BY <1>1 DEF SkipValue
<1> QED BY <1>1, <1>3, <1>4, <1>5 DEF Ends, Offsets

-----------------------------------------------------------------------------
(* The invariant.                                                          *)

\* What the command line says, and what the program has come to by it.
Given ==
  /\ args \in {input.args : input \in Inputs}
  /\ pc \notin {"options", "exit"} => EarlyExit = "none"
  /\ pc \in {"lookup", "value", "list", "dump"} => args.benchmark = 0
  /\ pc \in {"benchmark", "benchmark_list"} => args.benchmark # 0
  /\ pc \in {"value", "list", "dump"} => Start # NoEntry
  /\ pc \notin {"dump", "end", "exit"} => printed = <<>>

\* Where the first i elements of the path lead to.
Stop(i) == Onto(section, Start, args.path, Number, i)

\* p is what is left of the path q behind its first i elements.
Rest(p, q, i) ==
  p \in Seq(DOMAIN Number) /\ Len(p) = Len(q) - i /\ \A k \in 1 .. Len(p) : p[k] = q[i + k]

\* The entry e stands for the map at o behind k of its pairs, of which none has the key
\* looked for.
Passed(sec, e, o, p, k) ==
  /\ k \in 0 .. sec[o].size
  /\ e.size = sec[o].size - k /\ e.next = Part(sec, o, 2 * k).end
  /\ p # <<>> => \A j \in 0 .. k - 1 : KeyOf(sec, o, j) # p[1]

\* The entry e is the value at o, or what is left of it.
EntryFields == {"type", "size", "value", "pointer", "offset", "next"}

Halfway(sec, e, o, p) ==
  /\ DOMAIN e = EntryFields
  /\ e.type = sec[o].type /\ e.offset = o /\ e.value = sec[o].value
  /\ sec[o].type = "array" => e.size = sec[o].size /\ e.next = o + sec[o].cells
  /\ sec[o].type = "map" => \E k \in 0 .. sec[o].size : Passed(sec, e, o, p, k)

\* The first i elements of the path q lead to x, and e and p are what is left there.
Seeks(sec, e, p, q, i, x) ==
  x.error = "SUCCESS" /\ Rest(p, q, i) /\ Halfway(sec, e, x.offset, p)

\* MMDB_aget_value() has followed a part of the path.
Finding ==
  (pc = "value" /\ at = "descend" /\ Sound) =>
    \E i \in 0 .. Len(args.path) : Seeks(section, entry, path, args.path, i, Stop(i))

\* The fields of the value at the path, and those that are in a list.
Fields == Reading(section)[Wanted.offset].fields

Filled(sec, fields, ns, n) ==
  \A j \in 1 .. n :
    /\ j \in DOMAIN fields
    /\ ns[j].entry.offset = fields[j] /\ ns[j].entry.type = sec[fields[j]].type
    /\ ns[j].entry.value = sec[fields[j]].value /\ ns[j].entry.size = sec[fields[j]].size

\* The value at o is to be read, or was read, into the nodes from n on.
Placed(sec, fields, o, n) == Valid(sec, o) /\ Holds(fields, n, Reading(sec)[o].fields)

\* A frame f of the value at o waits for the value at v, which begins at node n.
Waits(sec, f, o, v, n) ==
  \/ /\ f.at = "pointer" /\ sec[o].type = "pointer"
     /\ v = sec[o].pointer /\ n = f.node /\ f.next = o + sec[o].cells
  \/ /\ f.at = "elements" /\ IsContainer(sec[o])
     /\ f.left \in 0 .. Members(sec[o]) - 1
     /\ v = Kid(sec, o, Members(sec[o]) - f.left)
     /\ n = f.child
     /\ n = f.node + 1 + Len(Part(sec, o, Members(sec[o]) - f.left - 1).fields)

\* The node a frame on the stack waits for.
Above(fs, n, k) == IF k = 1 THEN n ELSE fs[k - 1].node

\* The value at g[1] is read into the nodes from n on, and the frames fs wait for it,
\* each for the value of the frame above it; g has the values of the frames.
Calls(sec, fields, g, fs, n) ==
  /\ g \in Seq(Nat) /\ Len(g) = Len(fs) + 1
  /\ Placed(sec, fields, g[1], n)
  /\ \A k \in 1 .. Len(fs) :
       /\ Placed(sec, fields, g[k + 1], fs[k].node)
       /\ Waits(sec, fs[k], g[k + 1], g[k], Above(fs, n, k))
  /\ Above(fs, n, Len(g)) = 1 /\ Reading(sec)[g[Len(g)]].fields = fields

\* What holds while a list is built, when c is the call and ns the nodes: before a field
\* is read, before a pointer is followed, when a call returns, and in the loop over a
\* container.
Entering(sec, fields, c, fs, ns, g) ==
  /\ DOMAIN c = {"offset", "node"} /\ Calls(sec, fields, g, fs, c.node)
  /\ g[1] = c.offset
  /\ Filled(sec, fields, ns, c.node - 1)

Chasing(sec, fields, c, fs, ns, g) ==
  /\ DOMAIN c = {"offset", "node"} /\ Calls(sec, fields, g, fs, c.node)
  /\ g[1] = ns[c.node].entry.pointer /\ sec[g[1]].type # "pointer"
  /\ Filled(sec, fields, ns, c.node - 1)

Returning(sec, fields, n, fs, ns, g) ==
  /\ Calls(sec, fields, g, fs, n)
  /\ Filled(sec, fields, ns, Len(ns))
  /\ Len(ns) + 1 = n + Len(Reading(sec)[g[1]].fields)
  /\ ns[n].entry.next = Reading(sec)[g[1]].end

InLoop(sec, fields, f, fs, ns, g) ==
  LET done == Members(sec[g[1]]) - f.left
  IN  /\ Calls(sec, fields, g, fs, f.node)
      /\ Filled(sec, fields, ns, Len(ns))
      /\ f.at = "elements" /\ IsContainer(sec[g[1]])
      /\ f.left \in 0 .. Members(sec[g[1]])
      /\ Len(ns) = f.node + Len(Part(sec, g[1], done).fields)
      /\ f.next = Part(sec, g[1], done).end

BuiltTo(g) ==
  /\ at = "enter" => Entering(section, Fields, call, frames, nodes, g)
  /\ at = "chase" => Chasing(section, Fields, call, frames, nodes, g)
  /\ at = "return" => Returning(section, Fields, call.node, frames, nodes, g)
  /\ at = "element" =>
       InLoop(section, Fields, Head(frames), Tail(frames), nodes, g)

\* The list holds all fields of the value.
Listed == Len(nodes) = Len(Fields) /\ Filled(section, Fields, nodes, Len(nodes))

\* The list of the value at the path is built, in the order of its fields.
Listing ==
  (pc = "list" /\ Sound) =>
    /\ Wanted.error = "SUCCESS"
    /\ Building => \E g \in Seq(Nat) : BuiltTo(g)
    /\ at = "idle" /\ status = "SUCCESS" => Listed
    /\ at = "idle" /\ status # "SUCCESS" => starved

\* The text of the value at the path, field by field, and what has been printed of it.
Tokens == Reading(section)[Wanted.offset].text

TokenOf(sec, p) ==
  IF p = Bracket THEN "end"
  ELSE IF sec[p].type \in {"map", "array"} THEN sec[p].type ELSE sec[p].value

Begun(sec, tokens, out, n) ==
  /\ n \in 0 .. Len(tokens)
  /\ out = [i \in 1 .. n |-> TokenOf(sec, tokens[i])]

\* A value with its places among the fields and in the text.
Spot == [o : Nat, p : Nat, q : Nat]

Laid(sec, fields, tokens, s) ==
  /\ Valid(sec, s.o) /\ sec[s.o].type # "pointer"
  /\ Holds(fields, s.p, Reading(sec)[s.o].fields)
  /\ Holds(tokens, s.q, Reading(sec)[s.o].text)

\* The loop f runs over the container at c.
LoopsOver(sec, f, c) ==
  IsContainer(sec[c.o]) /\ f.type = sec[c.o].type /\ f.left \in 0 .. sec[c.o].size

\* The members that are dumped or being dumped.
Dumps(sec, f, c) == Members(sec[c.o]) - Weight(f)

\* The value at s is the member that is being dumped.
Within(sec, f, c, s) ==
  LET done == Dumps(sec, f, c)
  IN  /\ done \in 1 .. Members(sec[c.o])
      /\ s.o = Target(sec, Kid(sec, c.o, done))
      /\ s.p = c.p + 1 + Len(Part(sec, c.o, done - 1).fields)
      /\ s.q = c.q + 1 + Len(Part(sec, c.o, done - 1).text)

\* The value at h[1] is dumped in the loops fs; h has what they run over.
Loops(sec, fields, tokens, h, fs) ==
  /\ h \in Seq(Spot) /\ Len(h) = Len(fs) + 1
  /\ Laid(sec, fields, tokens, h[1])
  /\ \A k \in 1 .. Len(fs) :
       /\ Laid(sec, fields, tokens, h[k + 1])
       /\ LoopsOver(sec, fs[k], h[k + 1]) /\ Within(sec, fs[k], h[k + 1], h[k])
  /\ h[Len(h)].p = 1 /\ h[Len(h)].q = 1
  /\ Reading(sec)[h[Len(h)].o].fields = fields /\ Reading(sec)[h[Len(h)].o].text = tokens

\* What holds while a list is dumped, when n nodes have been read or are and t tokens
\* are printed: before a value, and in the loop over a container.
Reaching(sec, fields, tokens, n, t, fs, h) ==
  /\ Loops(sec, fields, tokens, h, fs)
  /\ h[1].p = n /\ h[1].q = t + 1

Between(sec, fields, tokens, n, t, f, fs, h) ==
  LET done == Dumps(sec, f, h[1])
  IN  /\ Loops(sec, fields, tokens, h, fs) /\ LoopsOver(sec, f, h[1])
      /\ n = h[1].p + 1 + Len(Part(sec, h[1].o, done).fields)
      /\ t = h[1].q + Len(Part(sec, h[1].o, done).text)

DumpedTo(h) ==
  /\ at = "dump" =>
       Reaching(section, Fields, Tokens, cursor, Len(printed), frames, h)
  /\ at = "member" /\ frames # <<>> =>
       Between(section, Fields, Tokens, Place, Len(printed), Head(frames), Tail(frames), h)
  /\ at = "member" /\ frames = <<>> => Len(printed) = Len(Tokens)

\* The list is dumped in the order of the text of the value.
Dumped ==
  (pc = "dump" /\ Sound) =>
    /\ Wanted.error = "SUCCESS" /\ Listed
    /\ Begun(section, Tokens, printed, Len(printed))
    /\ Dumping => \E h \in Seq(Spot) : DumpedTo(h)
    /\ at = "idle" => starved \/ Len(printed) = Len(Tokens)

\* What became of the address, when the program is done with it.
Closing ==
  /\ pc = "end" => code \in {"0", "5", "6"}
  /\ (pc \in {"end", "exit"} /\ args.benchmark = 0 /\ code \in {"0", "5", "6"}
        /\ EarlyExit = "none") =>
       /\ code = "6" <=> Start = NoEntry
       /\ code = "0" /\ Sound =>
            /\ Wanted.error = "SUCCESS"
            /\ Begun(section, Tokens, printed, Len(printed))
            /\ starved \/ Len(printed) = Len(Tokens)
       /\ code = "5" /\ Sound => Wanted.error # "SUCCESS" \/ starved

ValuesInv ==
  Given /\ Finding /\ ValueAtPath /\ Listing /\ Dumped /\ Closing

-----------------------------------------------------------------------------
(* What the section and the command line stand for.                        *)

\* The section of a run is one, and so is the path.
LEMMA Section ==
  ASSUME LookupInv, Given
  PROVE  /\ IsSection(section)
         /\ args.path \in Seq(DOMAIN Number) /\ Len(args.path) \in Nat
         /\ \A text \in DOMAIN Number : Number[text] \in Numbers
<1>1. section \in {input.section : input \in Inputs}
  BY DEF LookupInv, Typed
<1>2. IsSection(section)
  BY <1>1, ProgramAssumption DEF IsSection
<1>3. args.path \in Seq(DOMAIN Number)
  BY ProgramAssumption DEF Given
<1>4. \A text \in DOMAIN Number : Number[text] \in Numbers
  BY EntryAssumption DEF Numbers
<1> QED BY <1>2, <1>3, <1>4, LenProperties

\* A step that leaves the section and the command line alone does not change what is
\* wanted.
LEMMA WantedStays ==
  ASSUME section' = section, args' = args
  PROVE  /\ Start' = Start /\ Sound' = Sound /\ Wanted' = Wanted
         /\ WantedText' = WantedText /\ Fields' = Fields /\ Tokens' = Tokens
<1>1. Start' = Start
  BY DEF Start
<1>2. Sound' = Sound
  BY <1>1 DEF Sound, IsPlain, ToInt
<1>3. Wanted' = Wanted
  BY <1>1 DEF Wanted
<1> QED BY <1>1, <1>2, <1>3 DEF WantedText, Fields, Tokens

\* The way along the path.
LEMMA Stopping ==
  ASSUME LookupInv, Given, Sound
  PROVE  /\ Valid(section, Start)
         /\ \A i \in 0 .. Len(args.path) : Stop(i) \in Stops(section)
         /\ Stop(0) = Found(section, Start)
         /\ \A i \in 1 .. Len(args.path) : Stop(i - 1).error = "SUCCESS" =>
              Stop(i) = Select(section, Stop(i - 1).offset, args.path[i],
                               Number[args.path[i]])
         /\ Wanted = Stop(Len(args.path))
         /\ \A i \in 0 .. Len(args.path) : Stop(i).error # "SUCCESS" => Wanted = Stop(i)
<1>1. Valid(section, Start)
  BY Section DEF Valid, Sound
<1>2. /\ args.path \in Seq(DOMAIN Number) /\ Len(args.path) \in Nat
      /\ \A text \in DOMAIN Number : Number[text] \in Numbers
  BY Section
<1>3. \A i \in 0 .. Len(args.path) : Stop(i) \in Stops(section)
  BY <1>1, <1>2, AlongRead DEF Stop, Onto
<1>4. Stop(0) = Found(section, Start)
  BY <1>1, <1>2, AlongRead DEF Stop
<1>5. \A i \in 1 .. Len(args.path) : Stop(i - 1).error = "SUCCESS" =>
        Stop(i) = Select(section, Stop(i - 1).offset, args.path[i], Number[args.path[i]])
  BY <1>1, <1>2, AlongRead DEF Stop
<1>6. Wanted = Stop(Len(args.path))
  BY DEF Wanted, AtPath, Stop, Onto
<1>7. ASSUME NEW i \in 0 .. Len(args.path), Stop(i).error # "SUCCESS"
      PROVE  Wanted = Stop(i)
  BY <1>1, <1>2, <1>7, AlongFails DEF Wanted, Stop
<1> QED BY <1>1, <1>3, <1>4, <1>5, <1>6, <1>7

\* The value that a path leads to, if it leads to one.
LEMMA WantedValid ==
  ASSUME LookupInv, Given, Sound, Wanted.error = "SUCCESS"
  PROVE  /\ Valid(section, Wanted.offset) /\ section[Wanted.offset].type # "pointer"
         /\ Wanted.offset \in Nat
<1>1. Len(args.path) \in 0 .. Len(args.path)
  <2>1. Len(args.path) \in Nat
    BY Section
  <2> QED BY <2>1
<1>2. Wanted \in Stops(section)
  BY <1>1, Stopping
<1> QED BY <1>2 DEF Stops, Arrived, Results

-----------------------------------------------------------------------------
(* MMDB_aget_value().                                                      *)

\* decode_one_follow() of a legal field yields the value it stands for.
LEMMA FollowsField ==
  ASSUME NEW o, Valid(section, o)
  PROVE  /\ FollowDecodes(o) /\ DOMAIN FollowedAt(o) = EntryFields
         /\ FollowedAt(o).type = section[Target(section, o)].type
         /\ FollowedAt(o).offset = Target(section, o)
         /\ FollowedAt(o).value = section[Target(section, o)].value
         /\ FollowedAt(o).size = section[Target(section, o)].size
         /\ IsContainer(section[Target(section, o)]) =>
              FollowedAt(o).next = Target(section, o) + section[Target(section, o)].cells
         /\ ~ IsContainer(section[Target(section, o)]) =>
              FollowedAt(o).next = Reading(section)[o].end
<1> DEFINE t == Target(section, o)
<1>1. o \in DOMAIN section /\ section[o].type # "bad"
  BY LegalField
<1>2. Valid(section, t) /\ section[t].type # "pointer"
  BY TargetRead
<1>3. t \in DOMAIN section /\ section[t].type # "bad"
  BY <1>2, LegalField
<1>4. FollowDecodes(o)
  BY <1>1, <1>3 DEF FollowDecodes, Decodes, Target
<1>5. CASE section[o].type = "pointer"
  <2>1. t = section[o].pointer /\ ~ IsContainer(section[o])
    BY <1>5 DEF Target, IsContainer
  <2>2. Reading(section)[o].end = o + section[o].cells
    BY <1>5, LegalPointer
  <2>3. CASE IsContainer(section[t])
    <3>1. FollowedAt(o) = EntryAt(t)
      BY <1>5, <2>1, <2>3 DEF FollowedAt, IsCompound, EntryAt, IsContainer
    <3> QED BY <1>4, <2>3, <3>1 DEF EntryAt, EntryFields
  <2>4. CASE ~ IsContainer(section[t])
    <3>1. FollowedAt(o) = [EntryAt(t) EXCEPT !.next = EntryAt(o).next]
      BY <1>5, <2>1, <2>4 DEF FollowedAt, IsCompound, EntryAt, IsContainer
    <3> QED BY <1>4, <2>2, <2>4, <3>1 DEF EntryAt, EntryFields
  <2> QED BY <2>3, <2>4
<1>6. CASE section[o].type # "pointer"
  <2>1. t = o /\ FollowedAt(o) = EntryAt(o)
    BY <1>6 DEF Target, FollowedAt
  <2>2. ~ IsContainer(section[o]) => Reading(section)[o].end = o + section[o].cells
    BY <1>6, LegalField, LegalSimple
  <2> QED BY <1>4, <2>1, <2>2 DEF EntryAt, EntryFields
<1> QED BY <1>5, <1>6

\* The entry that decode_one_follow() makes is the value before any pair of it.
LEMMA FollowedHalfway ==
  ASSUME NEW o, Valid(section, o), NEW p
  PROVE  Halfway(section, FollowedAt(o), Target(section, o), p)
<1> DEFINE t == Target(section, o)
           e == FollowedAt(o)
<1>1. Valid(section, t)
  BY TargetRead
<1>2. /\ DOMAIN e = EntryFields
      /\ e.type = section[t].type /\ e.offset = t /\ e.value = section[t].value
      /\ e.size = section[t].size
      /\ IsContainer(section[t]) => e.next = t + section[t].cells
  BY FollowsField
<1>3. ASSUME section[t].type = "map"
      PROVE  \E k \in 0 .. section[t].size : Passed(section, e, t, p, k)
  <2>1. IsContainer(section[t])
    BY <1>3 DEF IsContainer
  <2>2. Part(section, t, 0).end = t + section[t].cells
    BY <1>1, <2>1, LegalContainer
  <2>3. section[t].size \in Nat
    <3>1. t \in DOMAIN section /\ IsSection(section)
      BY <1>1 DEF Valid, IsLegal
    <3> QED BY <3>1 DEF IsSection
  <2>4. 0 \in 0 .. section[t].size /\ 2 * 0 = 0 /\ section[t].size - 0 = section[t].size
    BY <2>3
  <2> HIDE DEF e, t
  <2>5. Passed(section, e, t, p, 0)
    BY <1>2, <2>1, <2>2, <2>4 DEF Passed
  <2> QED BY <2>4, <2>5
<1>4. section[t].type = "array" => e.next = t + section[t].cells
  BY <1>2 DEF IsContainer
<1> HIDE DEF e, t
<1>5. Halfway(section, e, t, p)
  BY <1>2, <1>3, <1>4 DEF Halfway
<1> QED BY <1>5 DEF e, t

\* What a call for a value comes to in a step: it has followed more of the path, or
\* has returned what is wanted.
Returns(e, s) ==
  /\ s = Wanted.error
  /\ s = "SUCCESS" =>
       /\ e.offset = Wanted.offset
       /\ e.type = section[Wanted.offset].type
       /\ IsCompound(e) \/ e.value = section[Wanted.offset].value

Goes ==
  \/ /\ at' = "descend"
     /\ \E i \in 0 .. Len(args.path) : Seeks(section, entry', path', args.path, i, Stop(i))
  \/ at' = "idle" /\ Returns(entry', status')

\* What is left of a path gets shorter.
LEMMA RestTail ==
  ASSUME NEW p, NEW q \in Seq(DOMAIN Number), NEW i \in 0 .. Len(q), Rest(p, q, i), p # <<>>
  PROVE  /\ i + 1 \in 1 .. Len(q) /\ i + 1 \in 0 .. Len(q) /\ (i + 1) - 1 = i
         /\ p[1] = q[i + 1] /\ Head(p) = p[1] /\ p[1] \in DOMAIN Number
         /\ Rest(Tail(p), q, i + 1)
<1>1. p \in Seq(DOMAIN Number) /\ Len(p) = Len(q) - i /\ Len(q) \in Nat
      /\ \A k \in 1 .. Len(p) : p[k] = q[i + k]
  BY DEF Rest
<1>2. Len(p) \in Nat \ {0} /\ Head(p) = p[1] /\ Len(Tail(p)) = Len(p) - 1
      /\ Tail(p) \in Seq(DOMAIN Number)
      /\ \A k \in 1 .. Len(p) - 1 : Tail(p)[k] = p[k + 1]
  BY <1>1
<1>3. i + 1 \in 1 .. Len(q) /\ i + 1 \in 0 .. Len(q) /\ (i + 1) - 1 = i
  BY <1>1, <1>2
<1>4. 1 \in 1 .. Len(p)
  BY <1>2
<1>5. p[1] = q[i + 1] /\ p[1] \in DOMAIN Number
  BY <1>1, <1>4
<1>6. ASSUME NEW k \in 1 .. Len(Tail(p))
      PROVE  Tail(p)[k] = q[(i + 1) + k]
  <2>1. k \in 1 .. Len(p) - 1 /\ k + 1 \in 1 .. Len(p) /\ i + (k + 1) = (i + 1) + k
    BY <1>1, <1>2
  <2>2. Tail(p)[k] = p[k + 1] /\ p[k + 1] = q[i + (k + 1)]
    BY <1>1, <1>2, <2>1
  <2> QED BY <2>1, <2>2
<1>7. Len(Tail(p)) = Len(q) - (i + 1)
  BY <1>1, <1>2
<1> QED BY <1>2, <1>3, <1>5, <1>6, <1>7 DEF Rest

\* The path goes on to the value at o.
LEMMA GoesOn ==
  ASSUME LookupInv, Given, Sound, at = "descend", NEW i \in 0 .. Len(args.path),
         Seeks(section, entry, path, args.path, i, Stop(i)), path # <<>>,
         NEW o, Valid(section, o), Stop(i + 1) = Found(section, o), Descend(o)
  PROVE  Goes
<1>1. FollowDecodes(o)
  BY FollowsField
<1>2. entry' = FollowedAt(o) /\ path' = Tail(path) /\ at' = "descend"
  BY <1>1 DEF Descend
<1>3. args.path \in Seq(DOMAIN Number)
  BY Section
<1>4. i + 1 \in 0 .. Len(args.path) /\ Rest(Tail(path), args.path, i + 1)
  BY <1>3, RestTail DEF Seeks
<1>5. Stop(i + 1).error = "SUCCESS" /\ Stop(i + 1).offset = Target(section, o)
  BY DEF Found
<1>6. Halfway(section, FollowedAt(o), Target(section, o), path')
  BY FollowedHalfway
<1>7. Seeks(section, entry', path', args.path, i + 1, Stop(i + 1))
  BY <1>2, <1>4, <1>5, <1>6 DEF Seeks
<1> QED BY <1>2, <1>4, <1>7 DEF Goes

\* The path ends with an error.
LEMMA GoesWrong ==
  ASSUME LookupInv, Given, Sound, NEW i \in 0 .. Len(args.path),
         Seeks(section, entry, path, args.path, i, Stop(i)), path # <<>>,
         NEW s \in {"INVALID_LOOKUP_PATH", "LOOKUP_PATH_DOES_NOT_MATCH"},
         Stop(i + 1) = Fails(s), FailLookup(s)
  PROVE  Goes
<1>1. args.path \in Seq(DOMAIN Number)
  BY Section
<1>2. i + 1 \in 0 .. Len(args.path)
  BY <1>1, RestTail DEF Seeks
<1>3. Stop(i + 1).error = s
  BY DEF Fails
<1>4. Wanted = Stop(i + 1)
  BY <1>2, <1>3, Stopping
<1>5. at' = "idle" /\ status' = s
  BY DEF FailLookup, Return
<1> QED BY <1>3, <1>4, <1>5 DEF Goes, Returns

\* What the next element of the path selects.
LEMMA NextStop ==
  ASSUME LookupInv, Given, Sound, NEW i \in 0 .. Len(args.path),
         Seeks(section, entry, path, args.path, i, Stop(i)), path # <<>>
  PROVE  /\ Stop(i + 1) = Select(section, Stop(i).offset, path[1], Number[path[1]])
         /\ Head(path) = path[1] /\ Number[path[1]] \in Numbers
         /\ Number[path[1]].overflow \/
              ToInt(Number[path[1]].value) = Number[path[1]].value
         /\ Valid(section, Stop(i).offset) /\ section[Stop(i).offset].type # "pointer"
         /\ section[Stop(i).offset].size \in Nat
<1>1. /\ args.path \in Seq(DOMAIN Number)
      /\ \A text \in DOMAIN Number : Number[text] \in Numbers
  BY Section
<1>2. /\ i + 1 \in 1 .. Len(args.path) /\ (i + 1) - 1 = i
      /\ path[1] = args.path[i + 1] /\ Head(path) = path[1] /\ path[1] \in DOMAIN Number
  BY <1>1, RestTail DEF Seeks
<1>3. Stop(i).error = "SUCCESS" /\ Stop(i) \in Stops(section)
  BY Stopping DEF Seeks
<1>4. Stop(i + 1) = Select(section, Stop(i).offset, path[1], Number[path[1]])
  BY <1>2, <1>3, Stopping
<1>5. Valid(section, Stop(i).offset) /\ section[Stop(i).offset].type # "pointer"
  BY <1>3 DEF Stops, Arrived
<1>6. Number[path[1]].overflow \/ ToInt(Number[path[1]].value) = Number[path[1]].value
  <2>1. i + 1 \in DOMAIN args.path
    BY <1>1, <1>2
  <2> QED BY <1>2, <2>1 DEF Sound, IsPlain
<1>7. section[Stop(i).offset].size \in Nat
  <2>1. Stop(i).offset \in DOMAIN section /\ IsSection(section)
    BY <1>5 DEF Valid, IsLegal
  <2> QED BY <2>1 DEF IsSection
<1> QED BY <1>1, <1>2, <1>4, <1>5, <1>6, <1>7

\* The elements before an index are skipped as they are read.
LEMMA ElementsSkipped ==
  ASSUME NEW o, Valid(section, o), section[o].type = "array",
         entry.next = o + section[o].cells, NEW index \in 0 .. section[o].size
  PROVE  BehindElements(index) = Part(section, o, index).end
<1> DEFINE It(f) == f = [n \in 0 .. index |->
                          IF n = 0 THEN entry.next ELSE SkipValue(f[n - 1])]
           g == [n \in 0 .. index |-> Part(section, o, n).end]
           P == CHOOSE f : It(f)
<1>1. IsContainer(section[o]) /\ Members(section[o]) = section[o].size
  BY DEF IsContainer, Members
<1>2. section[o].size \in Nat
  BY <1>1, LegalContainer
<1>3. Part(section, o, 0).end = entry.next
  BY <1>1, LegalContainer
<1>4. \A n \in 1 .. index : Part(section, o, n).end = SkipValue(Part(section, o, n - 1).end)
  <2> SUFFICES ASSUME NEW n \in 1 .. index
               PROVE  Part(section, o, n).end = SkipValue(Part(section, o, n - 1).end)
    OBVIOUS
  <2>1. n \in 1 .. Members(section[o])
    BY <1>1, <1>2
  <2>2. Valid(section, Kid(section, o, n))
    BY <1>1, <2>1, LegalMember
  <2>3. Part(section, o, n).end = Reading(section)[Kid(section, o, n)].end
    BY <1>1, <2>1, LegalMember
  <2>4. SkipValue(Kid(section, o, n)) = Reading(section)[Kid(section, o, n)].end
    BY <2>2, SkipReads
  <2> QED BY <2>3, <2>4 DEF Kid
<1>5. It(g)
  <2> SUFFICES ASSUME NEW n \in 0 .. index
               PROVE  Part(section, o, n).end =
                        IF n = 0 THEN entry.next ELSE SkipValue(g[n - 1])
    OBVIOUS
  <2>1. CASE n = 0
    BY <2>1, <1>3
  <2>2. CASE n # 0
    <3>1. n \in 1 .. index /\ n - 1 \in 0 .. index
      BY <2>2
    <3> QED BY <3>1, <2>2, <1>4
  <2> QED BY <2>1, <2>2
<1>6. It(P)
  BY <1>5
<1>7. BehindElements(index) = P[index]
  BY DEF BehindElements
<1> HIDE DEF P, g
<1>8. P[0] = entry.next /\ \A n \in 1 .. index : P[n] = SkipValue(P[n - 1])
  BY <1>2, <1>6
<1> DEFINE T == {n \in 0 .. index : P[n] # Part(section, o, n).end}
<1>9. T = {}
  <2> SUFFICES ASSUME T # {} PROVE FALSE
    OBVIOUS
  <2>1. PICK n \in T : \A k \in T : n <= k
    <3>1. T \subseteq Nat
      OBVIOUS
    <3> QED BY <3>1, LeastNat
  <2>2. n # 0 /\ n \in 1 .. index /\ n - 1 \in 0 .. index /\ n - 1 \notin T
    BY <2>1, <1>3, <1>8
  <2>3. P[n - 1] = Part(section, o, n - 1).end
    BY <2>2
  <2>4. P[n] = Part(section, o, n).end
    BY <2>2, <2>3, <1>4, <1>8
  <2> QED BY <2>1, <2>4
<1>10. index \in 0 .. index
  OBVIOUS
<1> QED BY <1>7, <1>9, <1>10

\* A path element for an array.
LEMMA ArrayGoes ==
  ASSUME LookupInv, Given, Sound, NEW i \in 0 .. Len(args.path),
         Seeks(section, entry, path, args.path, i, Stop(i)), LookupInArray
  PROVE  Goes
<1> DEFINE o == Stop(i).offset
           number == Number[path[1]]
           index == ToInt(number.value)
<1>1. path # <<>> /\ entry.type = "array" /\ at = "descend"
  BY DEF LookupInArray
<1>2. /\ Stop(i + 1) = Select(section, o, path[1], number)
      /\ Head(path) = path[1] /\ number \in Numbers
      /\ number.overflow \/ index = number.value
      /\ Valid(section, o) /\ section[o].size \in Nat
  BY <1>1, NextStop
<1>3. /\ section[o].type = "array" /\ entry.size = section[o].size
      /\ entry.next = o + section[o].cells
  BY <1>1 DEF Seeks, Halfway
<1>4. /\ IsInvalid(index) <=> index < 0 \/ number.overflow
      /\ NoElement(index) <=> number.junk \/ index >= entry.size
  BY <1>2 DEF IsInvalid, NoElement
<1>5. LookupInArray =>
        CASE IsInvalid(index) -> FailLookup("INVALID_LOOKUP_PATH")
          [] ~ IsInvalid(index) /\ NoElement(index) ->
               FailLookup("LOOKUP_PATH_DOES_NOT_MATCH")
          [] OTHER -> Descend(BehindElements(index))
  BY <1>2 DEF LookupInArray
<1>6. number.value \in Int
  BY <1>2 DEF Numbers
<1> HIDE DEF o, number, index
<1>7. CASE IsInvalid(index)
  <2>1. number.value < 0 \/ number.overflow
    BY <1>2, <1>4, <1>7
  <2>2. Stop(i + 1) = Fails("INVALID_LOOKUP_PATH")
    BY <1>2, <1>3, <2>1, SelectOutside
  <2>3. FailLookup("INVALID_LOOKUP_PATH")
    BY <1>5, <1>7
  <2> QED BY <1>1, <2>2, <2>3, GoesWrong
<1>8. CASE ~ IsInvalid(index) /\ NoElement(index)
  <2>1. /\ ~ (number.value < 0 \/ number.overflow)
        /\ number.junk \/ ~ number.value < section[o].size
    BY <1>2, <1>3, <1>4, <1>6, <1>8
  <2>2. Stop(i + 1) = Fails("LOOKUP_PATH_DOES_NOT_MATCH")
    BY <1>2, <1>3, <2>1, SelectNone
  <2>3. FailLookup("LOOKUP_PATH_DOES_NOT_MATCH")
    BY <1>5, <1>8
  <2> QED BY <1>1, <2>2, <2>3, GoesWrong
<1>9. CASE ~ IsInvalid(index) /\ ~ NoElement(index)
  <2>1. /\ number.value \in Nat /\ ~ number.overflow /\ ~ number.junk
        /\ number.value < section[o].size /\ index = number.value
    BY <1>2, <1>3, <1>4, <1>6, <1>9
  <2>2. Stop(i + 1) = Found(section, Part(section, o, number.value).end)
    BY <1>2, <1>3, <2>1, SelectElement
  <2>3. number.value \in 0 .. Members(section[o]) - 1 /\ IsContainer(section[o])
    BY <1>2, <1>3, <2>1 DEF Members, IsContainer
  <2>4. Valid(section, Part(section, o, number.value).end)
    BY <1>2, <2>3, MemberFound
  <2>5. index \in 0 .. section[o].size
    BY <1>2, <2>1
  <2>6. BehindElements(index) = Part(section, o, number.value).end
    BY <1>2, <1>3, <2>1, <2>5, ElementsSkipped
  <2>7. Descend(Part(section, o, number.value).end)
    BY <1>5, <1>9, <2>6
  <2> QED BY <1>1, <2>2, <2>4, <2>7, GoesOn
<1> QED BY <1>7, <1>8, <1>9

\* A path element for a simple value, and the end of the path.
LEMMA SimpleGoes ==
  ASSUME LookupInv, Given, Sound, NEW i \in 0 .. Len(args.path),
         Seeks(section, entry, path, args.path, i, Stop(i)), LookupInSimple
  PROVE  Goes
<1>1. path # <<>> /\ ~ IsCompound(entry) /\ FailLookup("LOOKUP_PATH_DOES_NOT_MATCH")
  BY DEF LookupInSimple
<1>2. section[Stop(i).offset].type \notin {"map", "array"}
  BY <1>1 DEF Seeks, Halfway, IsCompound
<1>3. /\ Stop(i + 1) = Select(section, Stop(i).offset, path[1], Number[path[1]])
      /\ section[Stop(i).offset].size \in Nat
  BY <1>1, NextStop
<1>4. Stop(i + 1) = Fails("LOOKUP_PATH_DOES_NOT_MATCH")
  BY <1>2, <1>3, SelectNone
<1> QED BY <1>1, <1>4, GoesWrong

LEMMA EndGoes ==
  ASSUME LookupInv, Given, Sound, NEW i \in 0 .. Len(args.path),
         Seeks(section, entry, path, args.path, i, Stop(i)), EndOfPath
  PROVE  Goes
<1>1. path = <<>> /\ at' = "idle" /\ status' = "SUCCESS" /\ entry' = entry
  BY DEF EndOfPath, Return, getVars
<1>2. i = Len(args.path)
  <2>1. Len(path) = Len(args.path) - i /\ Len(args.path) \in Nat
    BY Section DEF Seeks, Rest
  <2>2. Len(path) = 0
    BY <1>1
  <2> QED BY <2>1, <2>2
<1>3. Wanted = Stop(i)
  BY <1>2, Stopping
<1>4. Returns(entry, "SUCCESS")
  BY <1>3 DEF Returns, Seeks, Halfway
<1> QED BY <1>1, <1>4 DEF Goes

\* A pair of a map: its key is a string, and behind it are its value and the next pair.
LEMMA PairRead ==
  ASSUME NEW o, Valid(section, o), section[o].type = "map",
         NEW k \in 0 .. section[o].size - 1, section[o].size \in Nat,
         NEW q, q = Part(section, o, 2 * k).end
  PROVE  /\ FollowDecodes(q) /\ FollowedAt(q).type = "string"
         /\ FollowedAt(q).value = KeyOf(section, o, k)
         /\ FollowedAt(q).next = Part(section, o, 2 * k + 1).end
         /\ Valid(section, Part(section, o, 2 * k + 1).end)
         /\ SkipValue(Part(section, o, 2 * k + 1).end) = Part(section, o, 2 * (k + 1)).end
         /\ Part(section, o, 2 * (k + 1)).end # NoOffset
<1> DEFINE i == 2 * k + 1
           j == 2 * (k + 1)
<1>1. IsContainer(section[o]) /\ Members(section[o]) = 2 * section[o].size
  BY DEF IsContainer, Members
<1>2. /\ i \in 1 .. Members(section[o]) /\ i % 2 = 1 /\ i - 1 = 2 * k
      /\ j \in 1 .. Members(section[o]) /\ j - 1 = i
  BY <1>1
<1> HIDE DEF i, j
<1>3. Kid(section, o, i) = q /\ Kid(section, o, j) = Part(section, o, i).end
  BY <1>2 DEF Kid
<1>4. Valid(section, q) /\ Part(section, o, i).end = Reading(section)[q].end
  <2>1. /\ Valid(section, Kid(section, o, i))
        /\ Part(section, o, i).end = Reading(section)[Kid(section, o, i)].end
    BY <1>1, <1>2, LegalMember
  <2> QED BY <2>1, <1>3
<1>5. section[Target(section, q)].type = "string"
  <2>1. section[Target(section, Kid(section, o, i))].type = "string"
    BY <1>1, <1>2, LegalMember
  <2> QED BY <2>1, <1>3
<1>6. Valid(section, Kid(section, o, j))
      /\ Part(section, o, j).end = Reading(section)[Kid(section, o, j)].end
  BY <1>1, <1>2, LegalMember
<1>7. /\ SkipValue(Kid(section, o, j)) = Reading(section)[Kid(section, o, j)].end
      /\ SkipValue(Kid(section, o, j)) # 0
  BY <1>6, SkipReads
<1>8. ~ IsContainer(section[Target(section, q)])
  BY <1>5 DEF IsContainer
<1>9. /\ FollowDecodes(q) /\ FollowedAt(q).type = "string"
      /\ FollowedAt(q).value = section[Target(section, q)].value
  BY <1>4, <1>5, FollowsField
<1>10. FollowedAt(q).next = Reading(section)[q].end
  BY <1>4, <1>8, FollowsField
<1> QED BY <1>3, <1>4, <1>6, <1>7, <1>9, <1>10 DEF KeyOf, i, j, NoOffset

\* A path element for a map.
LEMMA MapGoes ==
  ASSUME LookupInv, Given, Sound, NEW i \in 0 .. Len(args.path),
         Seeks(section, entry, path, args.path, i, Stop(i)), LookupInMap
  PROVE  Goes
<1> DEFINE o == Stop(i).offset
           number == Number[path[1]]
           n == section[o].size
           q == entry.next
           key == FollowedAt(q)
           next == SkipValue(key.next)
<1>1. path # <<>> /\ entry.type = "map" /\ at = "descend"
  BY DEF LookupInMap
<1>2. /\ Stop(i + 1) = Select(section, o, path[1], number)
      /\ Head(path) = path[1]
      /\ Valid(section, o) /\ n \in Nat
  BY <1>1, NextStop
<1>3. section[o].type = "map"
  BY <1>1 DEF Seeks, Halfway
<1>4. PICK k \in 0 .. n : Passed(section, entry, o, path, k)
  BY <1>3 DEF Seeks, Halfway
<1>5. /\ entry.size = n - k /\ q = Part(section, o, 2 * k).end
      /\ \A j \in 0 .. k - 1 : KeyOf(section, o, j) # path[1]
  BY <1>1, <1>4 DEF Passed
<1>6. IsContainer(section[o]) /\ Members(section[o]) = 2 * n
  BY <1>3 DEF IsContainer, Members
<1>7. CASE entry.size = 0
  <2>1. k = n
    BY <1>2, <1>5, <1>7
  <2>2. \A j \in 0 .. n - 1 : KeyOf(section, o, j) # path[1]
    BY <1>5, <2>1
  <2>3. Stop(i + 1) = Fails("LOOKUP_PATH_DOES_NOT_MATCH")
    BY <1>2, <1>3, <2>2, SelectNone
  <2>4. FailLookup("LOOKUP_PATH_DOES_NOT_MATCH")
    BY <1>7 DEF LookupInMap
  <2> QED BY <1>1, <2>3, <2>4, GoesWrong
<1>8. CASE entry.size # 0
  <2>1. k \in 0 .. n - 1 /\ k < n /\ k \in Nat
    BY <1>2, <1>5, <1>8
  <2>2. /\ FollowDecodes(q) /\ key.type = "string" /\ key.value = KeyOf(section, o, k)
        /\ key.next = Part(section, o, 2 * k + 1).end
    BY <1>2, <1>3, <1>5, <2>1, PairRead
  <2>3. /\ Valid(section, Part(section, o, 2 * k + 1).end)
        /\ next = Part(section, o, 2 * (k + 1)).end /\ next # NoOffset
    BY <1>2, <1>3, <1>5, <2>1, <2>2, PairRead
  <2>4. CASE key.value = path[1]
    <3>1. Descend(key.next)
      BY <1>2, <1>8, <2>2, <2>4 DEF LookupInMap
    <3>2. KeyOf(section, o, k) = path[1]
      BY <2>2, <2>4
    <3>3. Stop(i + 1) = Found(section, Part(section, o, 2 * k + 1).end)
      BY <1>2, <1>3, <1>5, <2>1, <3>2, SelectPair
    <3> QED BY <1>1, <2>2, <2>3, <3>1, <3>3, GoesOn
  <2>5. CASE key.value # path[1]
    <3>1. /\ entry' = [entry EXCEPT !.size = @ - 1, !.next = next]
          /\ UNCHANGED <<path, at, status>>
      BY <1>2, <1>8, <2>2, <2>3, <2>5 DEF LookupInMap
    <3> HIDE DEF o, next, key, q
    <3>2. /\ k + 1 \in 0 .. n /\ n - k - 1 = n - (k + 1)
          /\ \A j \in 0 .. (k + 1) - 1 : j \in 0 .. k - 1 \/ j = k
      BY <1>2, <2>1
    <3>3. \A j \in 0 .. (k + 1) - 1 : KeyOf(section, o, j) # path[1]
      BY <1>5, <2>2, <2>5, <3>2
    <3>4. DOMAIN entry = EntryFields
      BY DEF Seeks, Halfway
    <3>5. /\ DOMAIN entry' = EntryFields /\ entry'.type = entry.type
          /\ entry'.offset = entry.offset /\ entry'.value = entry.value
          /\ entry'.size = entry.size - 1 /\ entry'.next = next
      BY <3>1, <3>4 DEF EntryFields
    <3>7. Passed(section, entry', o, path', k + 1)
      BY <1>1, <1>5, <2>3, <3>1, <3>2, <3>3, <3>5 DEF Passed
    <3>8. Halfway(section, entry', o, path')
      BY <1>1, <1>3, <3>2, <3>5, <3>7 DEF Seeks, Halfway, o
    <3>6. Seeks(section, entry', path', args.path, i, Stop(i))
      BY <3>1, <3>8 DEF Seeks, o
    <3> QED BY <1>1, <3>1, <3>6 DEF Goes
  <2> QED BY <2>4, <2>5
<1> QED BY <1>7, <1>8

-----------------------------------------------------------------------------
(* Steps that find.                                                        *)

\* No step changes the section or the command line.
LEMMA InputFixed ==
  ASSUME Step
  PROVE  section' = section /\ args' = args
<1>1. CASE GetOptions
  BY <1>1 DEF GetOptions
<1>2. CASE OpenOrDie
  BY <1>2 DEF OpenOrDie, entryVars
<1>3. CASE Lookup
  BY <1>3 DEF Lookup, LookupOrDie, CallGetList, CallGetValue, entryVars
<1>4. CASE ValueFound
  BY <1>4 DEF ValueFound, CallGetList, entryVars
<1>5. CASE ListDone
  BY <1>5 DEF ListDone, CallDump, entryVars
<1>6. CASE DumpDone
  BY <1>6 DEF DumpDone, entryVars
<1>7. CASE End
  BY <1>7 DEF End
<1>8. CASE Benchmark
  BY <1>8 DEF Benchmark, LookupOrDie, CallGetList, entryVars
<1>9. CASE BenchmarkListDone
  BY <1>9 DEF BenchmarkListDone
<1>10. CASE LibraryStep /\ UNCHANGED programVars
  <2>1. CASE GetValueStep
    BY <1>10, <2>1 DEF programVars, GetValueStep, LookupInArray, LookupInMap,
                       LookupInSimple, EndOfPath
  <2>2. CASE GetListStep
    BY <1>10, <2>2 DEF programVars, GetListStep, Enter, Overflow, Chase, Element,
                       Returned
  <2>3. CASE DumpStep
    BY <1>10, <2>3 DEF programVars, DumpStep, DumpField, DumpMember
  <2> QED BY <1>10, <2>1, <2>2, <2>3 DEF LibraryStep
<1> QED BY <1>1, <1>2, <1>3, <1>4, <1>5, <1>6, <1>7, <1>8, <1>9, <1>10 DEF Step

\* The command line decides where the program goes.
LEMMA GivenKept ==
  ASSUME LookupInv, Given, Step
  PROVE  Given'
<1>1. section' = section /\ args' = args
  BY InputFixed
<1>2. Start' = Start /\ EarlyExit' = EarlyExit
  BY <1>1, WantedStays DEF EarlyExit
<1>3. SUFFICES /\ pc' \notin {"options", "exit"} => EarlyExit = "none"
               /\ pc' \in {"lookup", "value", "list", "dump"} => args.benchmark = 0
               /\ pc' \in {"benchmark", "benchmark_list"} => args.benchmark # 0
               /\ pc' \in {"value", "list", "dump"} => Start # NoEntry
               /\ pc' \notin {"dump", "end", "exit"} => printed' = <<>>
  BY <1>1, <1>2 DEF Given
<1>4. Controlled
  BY DEF LookupInv
<1>5. CASE GetOptions
  BY <1>5 DEF GetOptions, Exit, Given, dumpVars
<1>6. CASE OpenOrDie
  BY <1>6 DEF OpenOrDie, Exit, Given, entryVars, dumpVars
<1>7. CASE Lookup
  BY <1>7 DEF Lookup, LookupOrDie, CallGetList, CallGetValue, Exit, Given, entryVars,
              dumpVars, Start
<1>8. CASE ValueFound
  BY <1>8 DEF ValueFound, CallGetList, Given, entryVars, dumpVars
<1>9. CASE ListDone
  BY <1>9 DEF ListDone, CallDump, Given, entryVars, dumpVars
<1>10. CASE DumpDone
  BY <1>10 DEF DumpDone, Given, entryVars, dumpVars
<1>11. CASE End
  BY <1>11 DEF End, FreeOverflow, Given, dumpVars
<1>12. CASE Benchmark
  BY <1>12 DEF Benchmark, LookupOrDie, CallGetList, Exit, Given, entryVars, dumpVars
<1>13. CASE BenchmarkListDone
  BY <1>13 DEF BenchmarkListDone, FreeOverflow, Exit, Given, dumpVars
<1>14. CASE LibraryStep /\ UNCHANGED programVars
  <2>1. CASE GetValueStep
    BY <1>14, <2>1 DEF programVars, GetValueStep, LookupInArray, LookupInMap,
                       LookupInSimple, EndOfPath, Given, dumpVars
  <2>2. CASE GetListStep
    BY <1>14, <2>2 DEF programVars, GetListStep, Enter, Overflow, Chase, Element,
                       Returned, Given, dumpVars
  <2>3. CASE DumpStep
    <3>1. pc = "dump"
      BY <1>4, <2>3 DEF Controlled, Dumping, DumpStep, DumpField, DumpMember
    <3> QED BY <1>14, <3>1 DEF programVars, Given
  <2> QED BY <1>14, <2>1, <2>2, <2>3 DEF LibraryStep
<1> QED BY <1>5, <1>6, <1>7, <1>8, <1>9, <1>10, <1>11, <1>12, <1>13, <1>14 DEF Step

\* A call begins at the entry of the address.
LEMMA FindingBegins ==
  ASSUME LookupInv, Given, Sound, CallGetValue(Start, args.path)
  PROVE  Goes
<1>1. Valid(section, Start) /\ Stop(0) = Found(section, Start)
  BY Stopping
<1>2. FollowDecodes(Start)
  BY <1>1, FollowsField
<1>3. entry' = FollowedAt(Start) /\ at' = "descend" /\ path' = args.path
  BY <1>2 DEF CallGetValue
<1>4. args.path \in Seq(DOMAIN Number) /\ Len(args.path) \in Nat
  BY Section
<1>5. 0 \in 0 .. Len(args.path) /\ Rest(args.path, args.path, 0)
  BY <1>4 DEF Rest
<1>6. Halfway(section, FollowedAt(Start), Target(section, Start), path')
  BY <1>1, FollowedHalfway
<1>7. Seeks(section, entry', path', args.path, 0, Stop(0))
  BY <1>1, <1>3, <1>5, <1>6 DEF Seeks, Found
<1> QED BY <1>3, <1>5, <1>7 DEF Goes

\* The value at the path is found, or the error there is instead.
LEMMA FindingKept ==
  ASSUME LookupInv, Given, Finding, Step
  PROVE  Finding' /\ ValueAtPath'
<1>1. section' = section /\ args' = args
  BY InputFixed
<1>2. Start' = Start /\ Sound' = Sound /\ Wanted' = Wanted
  BY <1>1, WantedStays
<1>3. \A i : Stop(i)' = Stop(i)
  BY <1>1, <1>2 DEF Stop
<1>4. ASSUME Goes
      PROVE  Finding' /\ ValueAtPath'
  <2>1. Finding'
    BY <1>1, <1>2, <1>3, <1>4 DEF Goes, Finding
  <2>2. ValueAtPath'
    BY <1>1, <1>2, <1>4 DEF Goes, ValueAtPath, Returns, IsCompound
  <2> QED BY <2>1, <2>2
<1>5. ASSUME ~ (pc' = "value" /\ Sound /\ at' \in {"descend", "idle"})
      PROVE  Finding' /\ ValueAtPath'
  BY <1>2, <1>5 DEF Finding, ValueAtPath
<1>6. SUFFICES ASSUME pc' = "value", Sound
               PROVE  Goes \/ at' \notin {"descend", "idle"}
  BY <1>4, <1>5
<1>7. Controlled
  BY DEF LookupInv
<1>8. CASE Lookup
  <2>1. CallGetValue(Start, args.path)
    BY <1>6, <1>8 DEF Lookup, LookupOrDie, Exit, Start
  <2> QED BY <2>1, <1>6, FindingBegins
<1>9. CASE LibraryStep /\ UNCHANGED programVars
  <2>1. pc = "value"
    BY <1>6, <1>9 DEF programVars
  <2>2. GetValueStep
    BY <1>7, <1>9, <2>1 DEF LibraryStep, GetListStep, DumpStep, Enter, Overflow, Chase,
                            Element, Returned, DumpField, DumpMember, Controlled, Building, Dumping
  <2>3. at = "descend"
    BY <2>2 DEF GetValueStep, LookupInArray, LookupInMap, LookupInSimple, EndOfPath
  <2>4. PICK i \in 0 .. Len(args.path) :
          Seeks(section, entry, path, args.path, i, Stop(i))
    BY <1>6, <2>1, <2>3 DEF Finding
  <2> QED BY <1>6, <2>2, <2>4, ArrayGoes, MapGoes, SimpleGoes, EndGoes DEF GetValueStep
<1>10. CASE GetOptions \/ OpenOrDie
  BY <1>6, <1>10 DEF GetOptions, OpenOrDie, Exit
<1>11. CASE ValueFound \/ ListDone \/ DumpDone \/ End
  BY <1>6, <1>11 DEF ValueFound, ListDone, DumpDone, End, FreeOverflow
<1>12. CASE Benchmark \/ BenchmarkListDone
  BY <1>6, <1>12 DEF Benchmark, BenchmarkListDone, FreeOverflow, LookupOrDie, Exit
<1> QED BY <1>8, <1>9, <1>10, <1>11, <1>12 DEF Step

-----------------------------------------------------------------------------
(* Places in the list.                                                     *)

\* The field that a value begins with lies where the value is placed.
LEMMA PlacedFirst ==
  ASSUME NEW sec, NEW fields, Len(fields) \in Nat, NEW o, NEW n,
         Placed(sec, fields, o, n)
  PROVE  /\ Valid(sec, o) /\ n \in 1 .. Len(fields) /\ n \in Nat \ {0}
         /\ fields[n] = Target(sec, o)
         /\ Len(Reading(sec)[o].fields) \in Nat \ {0}
         /\ n + Len(Reading(sec)[o].fields) <= Len(fields) + 1
<1> DEFINE l == Len(Reading(sec)[o].fields)
<1>1. Valid(sec, o) /\ Holds(fields, n, Reading(sec)[o].fields)
  BY DEF Placed
<1>2. l \in Nat \ {0} /\ Reading(sec)[o].fields[1] = Target(sec, o)
  BY <1>1, FieldsBegin
<1>3. n \in Nat \ {0} /\ n + l <= Len(fields) + 1
  BY <1>1 DEF Holds
<1>4. 1 \in 1 .. l
  BY <1>2
<1>5. fields[n + 1 - 1] = Reading(sec)[o].fields[1]
  BY <1>1, <1>4 DEF Holds
<1> HIDE DEF l
<1>6. n + 1 - 1 = n /\ n \in 1 .. Len(fields)
  BY <1>2, <1>3
<1> QED BY <1>1, <1>2, <1>3, <1>5, <1>6 DEF l

\* What a pointer leads to takes the place of the pointer.
LEMMA PlacedTarget ==
  ASSUME NEW sec, NEW fields, NEW o, NEW n, Placed(sec, fields, o, n)
  PROVE  Placed(sec, fields, Target(sec, o), n)
<1>1. Valid(sec, o)
  BY DEF Placed
<1>2. /\ Valid(sec, Target(sec, o))
      /\ Reading(sec)[o].fields = Reading(sec)[Target(sec, o)].fields
  BY <1>1, TargetRead
<1> QED BY <1>2 DEF Placed

\* A member is placed behind the container and the members before it.
LEMMA PlacedKid ==
  ASSUME NEW sec, NEW fields, Len(fields) \in Nat, NEW o, NEW n,
         Placed(sec, fields, o, n), IsContainer(sec[o]), NEW i \in 1 .. Members(sec[o])
  PROVE  /\ Valid(sec, Kid(sec, o, i))
         /\ Placed(sec, fields, Kid(sec, o, i), n + 1 + Len(Part(sec, o, i - 1).fields))
<1> DEFINE l == Len(Part(sec, o, i - 1).fields)
           k == Kid(sec, o, i)
           all == Reading(sec)[o].fields
           kid == Reading(sec)[k].fields
<1>1. Valid(sec, o) /\ Holds(fields, n, all)
  BY DEF Placed
<1>2. Members(sec[o]) \in Nat
  BY <1>1, LegalContainer
<1>3. i - 1 \in 0 .. Members(sec[o])
  BY <1>2
<1>4. l \in Nat
  BY <1>1, <1>3, ContainerEnds
<1>5. Valid(sec, k)
  BY <1>1, LegalMember
<1>6. Holds(all, 2 + l, kid)
  BY <1>1, KidPlaced
<1>7. Len(all) \in Nat /\ Len(kid) \in Nat
  BY <1>1, <1>5, FieldsBegin
<1>8. n \in Nat
  BY <1>1 DEF Holds
<1> HIDE DEF l, k, all, kid
<1>9. Holds(fields, n + (2 + l) - 1, kid)
  BY <1>1, <1>6, <1>7, HoldsInside
<1>10. n + (2 + l) - 1 = n + 1 + l
  BY <1>4, <1>8
<1>11. Placed(sec, fields, k, n + 1 + l)
  BY <1>5, <1>9, <1>10 DEF Placed, kid
<1> QED BY <1>5, <1>11 DEF k, l

\* A list stays filled when its nodes stay of the same fields.
LEMMA FilledSame ==
  ASSUME NEW sec, NEW fields, NEW ns, NEW ms, NEW n, Filled(sec, fields, ns, n),
         SameFields(ns, ms, n)
  PROVE  Filled(sec, fields, ms, n)
BY DEF Filled, SameFields, SameField

\* A list is filled node by node.
LEMMA FilledNext ==
  ASSUME NEW sec, NEW fields, NEW ns, NEW n \in Nat \ {0}, Filled(sec, fields, ns, n - 1),
         n \in DOMAIN fields, sec = section, ns[n].entry = EntryAt(fields[n])
  PROVE  Filled(sec, fields, ns, n)
<1> SUFFICES ASSUME NEW j \in 1 .. n
             PROVE  /\ j \in DOMAIN fields
                    /\ ns[j].entry.offset = fields[j]
                    /\ ns[j].entry.type = sec[fields[j]].type
                    /\ ns[j].entry.value = sec[fields[j]].value
                    /\ ns[j].entry.size = sec[fields[j]].size
  BY DEF Filled
<1>1. CASE j = n
  BY <1>1 DEF EntryAt
<1>2. CASE j # n
  <2>1. j \in 1 .. n - 1
    BY <1>2
  <2> QED BY <2>1 DEF Filled
<1> QED BY <1>1, <1>2

-----------------------------------------------------------------------------
(* Calls that wait for each other.                                         *)

\* A call is made from the call on top: its frame waits for the value at v, which is to
\* be read into the nodes from m on.
LEMMA CallsPush ==
  ASSUME NEW sec, NEW fields, NEW g, NEW fs \in Seq(Frame), NEW n,
         Calls(sec, fields, g, fs, n),
         NEW hs \in Seq(Frame), hs # <<>>, Tail(hs) = fs, hs[1].node = n,
         NEW v \in Nat, NEW m, Placed(sec, fields, v, m), Waits(sec, hs[1], g[1], v, m)
  PROVE  \E h \in Seq(Nat) : h[1] = v /\ Calls(sec, fields, h, hs, m)
<1> DEFINE h == <<v>> \o g
<1>1. g \in Seq(Nat) /\ Len(g) = Len(fs) + 1 /\ Placed(sec, fields, g[1], n)
  BY DEF Calls
<1>2. /\ h \in Seq(Nat) /\ h[1] = v /\ Len(h) = Len(g) + 1
      /\ \A k \in 1 .. Len(h) : k # 1 => k - 1 \in 1 .. Len(g) /\ h[k] = g[k - 1]
  <2> HIDE DEF h
  <2>1. h = <<v>> \o g
    BY DEF h
  <2>2. h \in Seq(Nat) /\ h[1] = v /\ Len(h) = Len(g) + 1
    BY <1>1, <2>1, Pushed
  <2>3. \A k \in 1 .. Len(h) : k # 1 => k - 1 \in 1 .. Len(g) /\ h[k] = g[k - 1]
    BY <1>1, <2>1, Pushed
  <2> QED BY <2>2, <2>3
<1>3. /\ Len(hs) = Len(fs) + 1 /\ Len(fs) \in Nat
      /\ \A k \in 1 .. Len(fs) : k + 1 \in 1 .. Len(hs) /\ fs[k] = hs[k + 1]
  <2>1. \A k \in 1 .. Len(Tail(hs)) : k + 1 \in 1 .. Len(hs) /\ Tail(hs)[k] = hs[k + 1]
    BY Popped
  <2>2. Len(Tail(hs)) = Len(hs) - 1 /\ Len(hs) \in Nat /\ Len(fs) \in Nat
    BY HeadTailProperties
  <2>3. Tail(hs) = fs
    OBVIOUS
  <2>4. \A k \in 1 .. Len(fs) : k + 1 \in 1 .. Len(hs) /\ fs[k] = hs[k + 1]
    BY <2>1, <2>3, Zenon
  <2>5. Len(fs) = Len(hs) - 1
    BY <2>2, <2>3, Zenon
  <2>6. Len(hs) = Len(fs) + 1
    BY <2>2, <2>5
  <2> QED BY <2>2, <2>4, <2>6
<1>4. \A k \in 1 .. Len(fs) :
        /\ Placed(sec, fields, g[k + 1], fs[k].node)
        /\ Waits(sec, fs[k], g[k + 1], g[k], Above(fs, n, k))
  BY DEF Calls
<1>5. Above(fs, n, Len(g)) = 1 /\ Reading(sec)[g[Len(g)]].fields = fields
  BY DEF Calls
<1> HIDE DEF h
<1>6. ASSUME NEW k \in 2 .. Len(hs) + 1
      PROVE  Above(hs, m, k) = Above(fs, n, k - 1)
  <2>1. CASE k = 2
    BY <2>1 DEF Above
  <2>2. CASE k # 2
    <3>1. /\ k - 2 \in 1 .. Len(fs) /\ (k - 2) + 1 = k - 1 /\ k # 1 /\ k - 1 # 1
          /\ (k - 1) - 1 = k - 2
      BY <2>2, <1>3
    <3>2. hs[k - 1].node = fs[k - 2].node
      BY <3>1, <1>3
    <3> QED BY <3>1, <3>2 DEF Above
  <2> QED BY <2>1, <2>2
<1>7. ASSUME NEW k \in 1 .. Len(hs)
      PROVE  /\ Placed(sec, fields, h[k + 1], hs[k].node)
             /\ Waits(sec, hs[k], h[k + 1], h[k], Above(hs, m, k))
  <2>1. k + 1 \in 1 .. Len(h) /\ k + 1 # 1 /\ (k + 1) - 1 = k
    BY <1>1, <1>2, <1>3
  <2>2. h[k + 1] = g[k]
    BY <1>2, <2>1
  <2>3. CASE k = 1
    <3>1. Above(hs, m, k) = m /\ h[k] = v
      BY <1>2, <2>3 DEF Above
    <3> QED BY <1>1, <2>2, <2>3, <3>1
  <2>4. CASE k # 1
    <3>1. k - 1 \in 1 .. Len(fs) /\ (k - 1) + 1 = k /\ k \in 2 .. Len(hs) + 1
          /\ k \in 1 .. Len(h)
      BY <2>4, <1>1, <1>2, <1>3
    <3>2. h[k] = g[k - 1] /\ hs[k] = fs[k - 1]
      BY <1>2, <1>3, <2>4, <3>1
    <3>3. Above(hs, m, k) = Above(fs, n, k - 1)
      BY <1>6, <3>1
    <3>4. /\ Placed(sec, fields, g[(k - 1) + 1], fs[k - 1].node)
          /\ Waits(sec, fs[k - 1], g[(k - 1) + 1], g[k - 1], Above(fs, n, k - 1))
      BY <1>4, <3>1
    <3> QED BY <2>2, <3>1, <3>2, <3>3, <3>4
  <2> QED BY <2>3, <2>4
<1>8. Above(hs, m, Len(h)) = 1 /\ h[Len(h)] = g[Len(g)]
  <2>1. /\ Len(h) \in 2 .. Len(hs) + 1 /\ Len(h) - 1 = Len(g) /\ Len(h) \in 1 .. Len(h)
        /\ Len(h) # 1
    BY <1>1, <1>2, <1>3
  <2> QED BY <2>1, <1>2, <1>5, <1>6
<1>9. Calls(sec, fields, h, hs, m)
  <2>1. Len(h) = Len(hs) + 1
    BY <1>1, <1>2, <1>3
  <2> QED BY <1>2, <1>5, <1>7, <1>8, <2>1 DEF Calls
<1> QED BY <1>2, <1>9

\* The call on top returns.
LEMMA CallsPop ==
  ASSUME NEW sec, NEW fields, NEW g, NEW fs \in Seq(Frame), NEW n,
         Calls(sec, fields, g, fs, n), fs # <<>>
  PROVE  /\ Tail(g) \in Seq(Nat) /\ Tail(g)[1] = g[2]
         /\ Calls(sec, fields, Tail(g), Tail(fs), fs[1].node)
         /\ Placed(sec, fields, g[2], fs[1].node) /\ Waits(sec, fs[1], g[2], g[1], n)
<1> DEFINE h == Tail(g)
           hs == Tail(fs)
<1>1. g \in Seq(Nat) /\ Len(g) = Len(fs) + 1 /\ Len(fs) \in Nat \ {0}
  BY DEF Calls
<1>2. /\ h \in Seq(Nat) /\ Len(h) + 1 = Len(g) /\ Len(h) \in Nat
      /\ \A k \in 1 .. Len(h) : h[k] = g[k + 1]
  <2>1. g # <<>> /\ Len(g) \in Nat
    BY <1>1
  <2> HIDE DEF h
  <2>2. \A k \in 1 .. Len(Tail(g)) : k + 1 \in 1 .. Len(g) /\ Tail(g)[k] = g[k + 1]
    BY <1>1, <2>1, Popped
  <2>3. Len(Tail(g)) = Len(g) - 1 /\ Tail(g) \in Seq(Nat)
    BY <1>1, <2>1, HeadTailProperties
  <2> QED BY <1>1, <2>1, <2>2, <2>3 DEF h
<1>3. /\ hs \in Seq(Frame) /\ Len(hs) + 1 = Len(fs) /\ Len(hs) \in Nat
      /\ \A k \in 1 .. Len(hs) : hs[k] = fs[k + 1]
  <2> HIDE DEF hs
  <2>1. \A k \in 1 .. Len(Tail(fs)) : k + 1 \in 1 .. Len(fs) /\ Tail(fs)[k] = fs[k + 1]
    BY Popped
  <2>2. Len(Tail(fs)) = Len(fs) - 1 /\ Tail(fs) \in Seq(Frame)
    BY HeadTailProperties
  <2> QED BY <1>1, <2>1, <2>2 DEF hs
<1>4. \A k \in 1 .. Len(fs) :
        /\ Placed(sec, fields, g[k + 1], fs[k].node)
        /\ Waits(sec, fs[k], g[k + 1], g[k], Above(fs, n, k))
  BY DEF Calls
<1>5. Above(fs, n, Len(g)) = 1 /\ Reading(sec)[g[Len(g)]].fields = fields
  BY DEF Calls
<1> HIDE DEF h, hs
<1>6. 1 \in 1 .. Len(fs) /\ 1 \in 1 .. Len(h) /\ 1 + 1 = 2
  BY <1>1, <1>2
<1>7. h[1] = g[2] /\ Placed(sec, fields, g[2], fs[1].node)
      /\ Waits(sec, fs[1], g[2], g[1], n)
  BY <1>2, <1>4, <1>6 DEF Above
<1>8. ASSUME NEW k \in 1 .. Len(hs) + 1
      PROVE  Above(hs, fs[1].node, k) = Above(fs, n, k + 1)
  <2>1. CASE k = 1
    BY <2>1 DEF Above
  <2>2. CASE k # 1
    <3>1. k - 1 \in 1 .. Len(hs) /\ (k - 1) + 1 = k /\ (k + 1) - 1 = k /\ k + 1 # 1
      BY <1>3, <2>2
    <3> QED BY <2>2, <3>1, <1>3 DEF Above
  <2> QED BY <2>1, <2>2
<1>9. ASSUME NEW k \in 1 .. Len(hs)
      PROVE  /\ Placed(sec, fields, h[k + 1], hs[k].node)
             /\ Waits(sec, hs[k], h[k + 1], h[k], Above(hs, fs[1].node, k))
  <2>0. Len(fs) = Len(hs) + 1 /\ Len(h) = Len(hs) + 1 /\ Len(hs) \in Nat
    BY <1>1, <1>2, <1>3
  <2>1. /\ k + 1 \in 1 .. Len(fs) /\ k \in 1 .. Len(h) /\ k + 1 \in 1 .. Len(h)
        /\ k \in 1 .. Len(hs) + 1
    BY <2>0
  <2>2. /\ hs[k] = fs[k + 1] /\ h[k] = g[k + 1] /\ h[k + 1] = g[(k + 1) + 1]
        /\ Above(hs, fs[1].node, k) = Above(fs, n, k + 1)
    BY <1>2, <1>3, <1>8, <2>1
  <2>3. /\ Placed(sec, fields, g[(k + 1) + 1], fs[k + 1].node)
        /\ Waits(sec, fs[k + 1], g[(k + 1) + 1], g[k + 1], Above(fs, n, k + 1))
    BY <1>4, <2>1
  <2> QED BY <2>2, <2>3
<1>10. Above(hs, fs[1].node, Len(h)) = 1 /\ h[Len(h)] = g[Len(g)]
  <2>1. Len(h) \in 1 .. Len(hs) + 1 /\ Len(h) + 1 = Len(g) /\ Len(h) \in 1 .. Len(h)
    BY <1>1, <1>2, <1>3
  <2> QED BY <2>1, <1>2, <1>5, <1>8
<1>11. Calls(sec, fields, h, hs, fs[1].node)
  <2>1. Len(h) = Len(hs) + 1
    BY <1>1, <1>2, <1>3
  <2> QED BY <1>2, <1>5, <1>7, <1>9, <1>10, <2>1 DEF Calls
<1> QED BY <1>2, <1>7, <1>11 DEF h, hs

-----------------------------------------------------------------------------
(* The steps of MMDB_get_entry_data_list(), of a sound value.              *)

\* A list is built of the value at the path.
Lists == LookupInv /\ Given /\ Sound /\ pc = "list" /\ Wanted.error = "SUCCESS"

\* What holds while it is.
LEMMA ListFacts ==
  ASSUME Lists, Building
  PROVE  /\ IsSection(section)
         /\ Fields \in Seq(Nat) /\ Len(Fields) \in Nat /\ DOMAIN Fields = 1 .. Len(Fields)
         /\ nodes \in Seq(Node) /\ Len(nodes) \in Nat \ {0}
         /\ Len(nodes) \in 1 .. Len(nodes) /\ frames \in Seq(Frame)
         /\ at \in {"enter", "chase"} => call.node = Len(nodes)
<1>1. LookupInv /\ Given /\ Sound /\ Wanted.error = "SUCCESS"
  BY DEF Lists
<1>2. IsSection(section)
  BY <1>1, Section
<1>3. Valid(section, Wanted.offset)
  BY <1>1, WantedValid
<1>4. Fields \in Seq(Nat)
  BY <1>3, FieldsBegin DEF Fields
<1>5. Len(Fields) \in Nat /\ DOMAIN Fields = 1 .. Len(Fields)
  BY <1>4, LenProperties
<1>6. nodes \in Seq(Node) /\ Len(nodes) \in Nat /\ Len(nodes) > 0 /\ frames \in Seq(Frame)
  BY <1>1, BuildingFacts
<1>7. at \in {"enter", "chase"} => call.node = Len(nodes)
  BY <1>1 DEF LookupInv, Grows
<1>8. Len(nodes) \in Nat \ {0} /\ Len(nodes) \in 1 .. Len(nodes)
  BY <1>6
<1> QED BY <1>2, <1>4, <1>5, <1>6, <1>7, <1>8

\* The last node gets a field.
LEMMA NodeFilled ==
  ASSUME Lists, Building, NEW o, Decodes(o),
         nodes' = [nodes EXCEPT ![Len(nodes)].entry = EntryAt(o)]
  PROVE  /\ Len(nodes') = Len(nodes) /\ nodes'[Len(nodes)].entry = EntryAt(o)
         /\ SameFields(nodes, nodes', Len(nodes) - 1)
<1> DEFINE m == Len(nodes)
           e == EntryAt(o)
<1>1. nodes \in Seq(Node) /\ m \in 1 .. Len(nodes) /\ m \in Nat
  BY ListFacts
<1>2. e \in Entries
  BY DecodedEntry DEF Lists, LookupInv, Typed
<1>3. nodes' = [nodes EXCEPT ![m].entry = e]
  OBVIOUS
<1> HIDE DEF m, e
<1>4. Len(nodes') = Len(nodes) /\ nodes'[m].entry = e
  <2>1. \A ms : ms = [nodes EXCEPT ![m].entry = e] => Len(ms) = Len(nodes)
    BY <1>1, <1>2, EntryChanged
  <2>2. \A ms : ms = [nodes EXCEPT ![m].entry = e] => ms[m].entry = e
    BY <1>1, <1>2, EntryChanged
  <2> QED BY <1>3, <2>1, <2>2
<1>5. \A i \in 1 .. Len(nodes') : i # m => nodes'[i] = nodes[i]
  <2>1. \A ms : ms = [nodes EXCEPT ![m].entry = e] =>
          \A i \in 1 .. Len(ms) : ms[i].next = nodes[i].next /\ (i # m => ms[i] = nodes[i])
    BY <1>1, <1>2, EntryChanged
  <2> QED BY <1>3, <2>1
<1>6. \A i \in 1 .. m - 1 : i \in 1 .. Len(nodes') /\ i # m
  BY <1>1, <1>4 DEF m
<1>7. SameFields(nodes, nodes', m - 1)
  BY <1>5, <1>6 DEF SameFields, SameField
<1> QED BY <1>4, <1>7 DEF m, e

\* What a step of the call has come to.
ListsOn ==
  /\ at' \in {"enter", "chase", "return", "element", "idle"}
  /\ at' = "enter" => \E g \in Seq(Nat) :
       Entering(section, Fields, call', frames', nodes', g)
  /\ at' = "chase" => \E g \in Seq(Nat) :
       Chasing(section, Fields, call', frames', nodes', g)
  /\ at' = "return" => \E g \in Seq(Nat) :
       Returning(section, Fields, call'.node, frames', nodes', g)
  /\ at' = "element" => \E g \in Seq(Nat) :
       InLoop(section, Fields, Head(frames'), Tail(frames'), nodes', g)
  /\ at' = "idle" =>
       \/ status' # "SUCCESS" /\ starved'
       \/ status' = "SUCCESS" /\ Len(nodes') = Len(Fields)
            /\ Filled(section, Fields, nodes', Len(nodes'))

\* get_entry_data_list() up to its loop.
LEMMA ListEnter ==
  ASSUME Lists, Enter, NEW g \in Seq(Nat),
         Entering(section, Fields, call, frames, nodes, g)
  PROVE  ListsOn
<1> DEFINE o == call.offset
           m == Len(nodes)
           e == EntryAt(o)
           f == section[o]
           frame == [at |-> IF e.type = "pointer" THEN "pointer" ELSE "elements",
                     node |-> call.node, previous |-> call.node, child |-> call.node,
                     left |-> Inside(e), next |-> e.next]
<1>0. at = "enter" /\ Building
  BY DEF Enter, Building
<1>1. /\ Len(Fields) \in Nat /\ DOMAIN Fields = 1 .. Len(Fields)
      /\ m \in Nat \ {0} /\ frames \in Seq(Frame) /\ call.node = m
  BY <1>0, ListFacts
<1>2. /\ DOMAIN call = {"offset", "node"} /\ Calls(section, Fields, g, frames, m)
      /\ g[1] = o /\ Filled(section, Fields, nodes, m - 1)
  BY <1>1 DEF Entering
<1>3. Placed(section, Fields, o, m)
  BY <1>2 DEF Calls
<1>4. Valid(section, o) /\ m \in 1 .. Len(Fields) /\ Fields[m] = Target(section, o)
  <2> HIDE DEF o, m
  <2>1. Len(Fields) \in Nat /\ Placed(section, Fields, o, m)
    BY <1>1, <1>3
  <2> QED BY <2>1, PlacedFirst
<1>5. /\ o \in DOMAIN section /\ f.type \notin {"bad", "other"}
      /\ f.type = "pointer" \/ IsContainer(f) \/ IsSimple(f)
  BY <1>4, LegalField
<1>6. Decodes(o)
  BY <1>5 DEF Decodes
<1>7. nodes' = [nodes EXCEPT ![m].entry = e] /\ call' = call
  BY <1>1, <1>6 DEF Enter
<1>8. /\ Len(nodes') = m /\ nodes'[m].entry = e
      /\ SameFields(nodes, nodes', m - 1)
  BY <1>0, <1>6, <1>7, NodeFilled
<1>9. Filled(section, Fields, nodes', m - 1)
  BY <1>2, <1>8, FilledSame
<1>10. /\ e.type = f.type /\ e.next = o + f.cells /\ e.pointer = f.pointer
       /\ Inside(e) = Members(f)
  BY DEF EntryAt, Inside, Members
<1>11. o + f.cells \in Nat /\ Members(f) \in Nat /\ f.pointer \in Nat
  <2>1. IsSection(section) /\ o \in DOMAIN section
    BY <1>4, <1>5 DEF Valid
  <2>2. Members(f) \in Nat
    BY <2>1, MembersNat
  <2> QED BY <2>1, <2>2 DEF IsSection
<1>12. e.type # "pointer" => Filled(section, Fields, nodes', m)
  <2> SUFFICES ASSUME e.type # "pointer" PROVE Filled(section, Fields, nodes', m)
    OBVIOUS
  <2>1. Fields[m] = o
    BY <1>4, <1>10 DEF Target
  <2>2. nodes'[m].entry = EntryAt(Fields[m])
    BY <1>8, <2>1
  <2>3. m \in DOMAIN Fields /\ m \in Nat \ {0}
    BY <1>1, <1>4
  <2> QED BY <1>9, <2>2, <2>3, FilledNext
<1>13. frame \in Frame /\ frame.at = (IF e.type = "pointer" THEN "pointer" ELSE "elements")
       /\ frame.node = m /\ frame.left = Members(f) /\ frame.next = o + f.cells
  <2> HIDE DEF e, m, f, o
  <2> QED BY <1>1, <1>10, <1>11 DEF Frame
<1>14. /\ IF e.type = "pointer" \/ IsCompound(e)
          THEN frames' = <<frame>> \o frames ELSE frames' = frames
       /\ at' = CASE e.type = "pointer" -> "chase"
                  [] IsCompound(e)      -> "element"
                  [] OTHER              -> "return"
  BY <1>6 DEF Enter, Push
<1>15. IsCompound(e) <=> IsContainer(f)
  BY <1>10 DEF IsCompound, IsContainer
<1>16. frames' = <<frame>> \o frames =>
          /\ frames' \in Seq(Frame) /\ frames' # <<>> /\ frames'[1] = frame
          /\ Head(frames') = frame /\ Tail(frames') = frames
  <2> HIDE DEF frame
  <2> QED BY <1>1, <1>13, Pushed
<1> HIDE DEF frame, e
<1>17. CASE f.type = "pointer"
  <2> DEFINE v == f.pointer
  <2>1. at' = "chase" /\ frames' = <<frame>> \o frames
    BY <1>10, <1>14, <1>17 DEF IsCompound
  <2>2. v = Target(section, o)
    BY <1>17 DEF Target
  <2>3. Placed(section, Fields, v, m)
    BY <1>3, <2>2, PlacedTarget
  <2>4. section[v].type # "pointer"
    BY <1>4, <1>17, LegalPointer
  <2>5. Waits(section, frames'[1], g[1], v, m)
    BY <1>2, <1>10, <1>13, <1>16, <1>17, <2>1 DEF Waits
  <2>6. frames'[1].node = m /\ v \in Nat /\ frames' \in Seq(Frame) /\ frames' # <<>>
        /\ Tail(frames') = frames
    BY <1>11, <1>13, <1>16, <2>1
  <2> HIDE DEF v, m, o, f
  <2>7. PICK h \in Seq(Nat) : h[1] = v /\ Calls(section, Fields, h, frames', m)
    BY <1>1, <1>2, <2>3, <2>5, <2>6, CallsPush
  <2>8. Chasing(section, Fields, call', frames', nodes', h)
    BY <1>1, <1>2, <1>7, <1>8, <1>9, <1>10, <2>4, <2>7 DEF Chasing, v
  <2> QED BY <2>1, <2>8 DEF ListsOn
<1>18. CASE IsContainer(f)
  <2>1. at' = "element" /\ frames' = <<frame>> \o frames /\ e.type # "pointer"
    BY <1>10, <1>14, <1>15, <1>18 DEF IsContainer
  <2>2. Head(frames') = frame /\ Tail(frames') = frames
    BY <1>16, <2>1
  <2>3. Members(f) - frame.left = 0 /\ frame.left \in 0 .. Members(f)
    BY <1>11, <1>13
  <2>4. Part(section, o, 0).end = o + f.cells /\ Len(Part(section, o, 0).fields) = 0
    BY <1>4, <1>18, LegalContainer, ContainerEnds, ZenonT(40)
  <2>5. m = m + 0
    BY <1>1
  <2>6. Len(nodes') = frame.node + Len(Part(section, g[1], 0).fields)
    BY <1>2, <1>8, <1>13, <2>4, <2>5
  <2>7. frame.next = Part(section, g[1], 0).end
    BY <1>2, <1>13, <2>4
  <2>8. Filled(section, Fields, nodes', Len(nodes'))
    BY <1>8, <1>12, <2>1
  <2>9. frame.at = "elements" /\ frame.node = m
    BY <1>13, <2>1
  <2>10. InLoop(section, Fields, frame, frames, nodes', g)
    BY <1>2, <1>18, <2>3, <2>6, <2>7, <2>8, <2>9 DEF InLoop
  <2> QED BY <2>1, <2>2, <2>10 DEF ListsOn
<1>19. CASE IsSimple(f)
  <2>1. at' = "return" /\ frames' = frames /\ e.type # "pointer"
    BY <1>10, <1>14, <1>15, <1>19 DEF IsSimple, IsContainer
  <2>2. Reading(section)[o].end = o + f.cells /\ Reading(section)[o].fields = <<o>>
    BY <1>4, <1>19, LegalSimple
  <2>3. Len(nodes') + 1 = m + Len(Reading(section)[g[1]].fields)
    BY <1>2, <1>8, <2>2
  <2>4. nodes'[m].entry.next = Reading(section)[g[1]].end
    BY <1>2, <1>8, <1>10, <2>2
  <2>5. Filled(section, Fields, nodes', Len(nodes'))
    BY <1>8, <1>12, <2>1
  <2>6. Returning(section, Fields, m, frames, nodes', g)
    BY <1>2, <2>3, <2>4, <2>5 DEF Returning
  <2> QED BY <1>1, <1>7, <2>1, <2>6 DEF ListsOn
<1> QED BY <1>5, <1>17, <1>18, <1>19

\* A turn of the loop over pointers.
LEMMA ListChase ==
  ASSUME Lists, Chase, NEW g \in Seq(Nat),
         Chasing(section, Fields, call, frames, nodes, g)
  PROVE  ListsOn
<1> DEFINE o == nodes[call.node].entry.pointer
           m == Len(nodes)
           e == EntryAt(o)
           f == section[o]
<1>0. at = "chase" /\ Building
  BY DEF Chase, Building
<1>1. /\ Len(Fields) \in Nat /\ DOMAIN Fields = 1 .. Len(Fields)
      /\ m \in Nat \ {0} /\ frames \in Seq(Frame) /\ call.node = m
  BY <1>0, ListFacts
<1>2. /\ DOMAIN call = {"offset", "node"} /\ Calls(section, Fields, g, frames, m)
      /\ g[1] = o /\ f.type # "pointer" /\ Filled(section, Fields, nodes, m - 1)
  BY <1>1 DEF Chasing
<1>3. Placed(section, Fields, o, m)
  BY <1>2 DEF Calls
<1>4. Valid(section, o) /\ m \in 1 .. Len(Fields) /\ Fields[m] = o
  <2>1. Target(section, o) = o
    BY <1>2 DEF Target
  <2> HIDE DEF o, m
  <2>2. Len(Fields) \in Nat /\ Placed(section, Fields, o, m)
    BY <1>1, <1>3
  <2>3. Valid(section, o) /\ m \in 1 .. Len(Fields) /\ Fields[m] = Target(section, o)
    BY <2>2, PlacedFirst
  <2> QED BY <2>1, <2>3
<1>5. /\ o \in DOMAIN section /\ f.type \notin {"bad", "other"}
      /\ IsContainer(f) \/ IsSimple(f)
  BY <1>2, <1>4, LegalField
<1>6. Decodes(o)
  BY <1>5 DEF Decodes
<1>7. /\ nodes' = [nodes EXCEPT ![m].entry = e] /\ frames' = frames
      /\ call' = [call EXCEPT !.offset = o]
      /\ at' = CASE f.type = "pointer" -> "chase"
                 [] IsCompound(f)      -> "enter"
                 [] OTHER              -> "return"
  BY <1>1, <1>6 DEF Chase, ChaseTarget
<1>8. /\ Len(nodes') = m /\ nodes'[m].entry = e
      /\ SameFields(nodes, nodes', m - 1)
  BY <1>0, <1>6, <1>7, NodeFilled
<1>9. Filled(section, Fields, nodes', m - 1)
  BY <1>2, <1>8, FilledSame
<1>10. DOMAIN call' = {"offset", "node"} /\ call'.offset = o /\ call'.node = m
  <2> HIDE DEF o, m
  <2> QED BY <1>1, <1>2, <1>7
<1>11. e.next = o + f.cells
  BY DEF EntryAt
<1>12. CASE IsContainer(f)
  <2>1. at' = "enter"
    BY <1>7, <1>12 DEF IsCompound, IsContainer
  <2>2. Entering(section, Fields, call', frames', nodes', g)
    BY <1>2, <1>7, <1>9, <1>10 DEF Entering
  <2> QED BY <2>1, <2>2 DEF ListsOn
<1>13. CASE IsSimple(f)
  <2>1. at' = "return"
    BY <1>7, <1>13 DEF IsCompound, IsSimple
  <2>2. Reading(section)[o].end = o + f.cells /\ Reading(section)[o].fields = <<o>>
    BY <1>4, <1>13, LegalSimple
  <2>3. Len(nodes') + 1 = m + Len(Reading(section)[g[1]].fields)
    BY <1>2, <1>8, <2>2
  <2>4. nodes'[m].entry.next = Reading(section)[g[1]].end
    BY <1>2, <1>8, <1>11, <2>2
  <2>5. Filled(section, Fields, nodes', Len(nodes'))
    <3>1. nodes'[m].entry = EntryAt(Fields[m])
      BY <1>4, <1>8
    <3>2. m \in DOMAIN Fields /\ m \in Nat \ {0}
      BY <1>1, <1>4
    <3>3. Filled(section, Fields, nodes', m)
      BY <1>9, <3>1, <3>2, FilledNext
    <3> QED BY <1>8, <3>3
  <2>6. Returning(section, Fields, call'.node, frames', nodes', g)
    BY <1>2, <1>7, <1>10, <2>3, <2>4, <2>5 DEF Returning
  <2> QED BY <2>1, <2>6 DEF ListsOn
<1> QED BY <1>5, <1>12, <1>13

\* The loop of an array or a map.
LEMMA ListElement ==
  ASSUME Lists, Element, NEW g \in Seq(Nat),
         InLoop(section, Fields, Head(frames), Tail(frames), nodes, g)
  PROVE  ListsOn
<1> DEFINE f == Head(frames)
           fs == Tail(frames)
           m == Len(nodes)
           o == g[1]
           done == Members(section[o]) - f.left
<1>0. at = "element" /\ Building
  BY DEF Element, Building
<1>1. /\ Len(Fields) \in Nat /\ m \in Nat \ {0} /\ frames \in Seq(Frame)
      /\ nodes \in Seq(Node)
  BY <1>0, ListFacts
<1>2. /\ frames # <<>> /\ f.previous = m
      /\ {frames[k].node : k \in 1 .. Len(frames)} \subseteq 1 .. m
  BY <1>0 DEF Lists, LookupInv, Grows
<1>3. f = frames[1] /\ f \in Frame /\ 1 \in 1 .. Len(frames) /\ fs \in Seq(Frame)
  BY <1>1, <1>2, Popped
<1>4. f.node \in 1 .. m /\ f.left \in Nat /\ f.next \in Nat
  BY <1>2, <1>3 DEF Frame
<1>5. /\ Calls(section, Fields, g, fs, f.node) /\ Filled(section, Fields, nodes, m)
      /\ f.at = "elements" /\ IsContainer(section[o])
      /\ f.left \in 0 .. Members(section[o])
      /\ m = f.node + Len(Part(section, o, done).fields)
      /\ f.next = Part(section, o, done).end
  BY DEF InLoop
<1>6. Placed(section, Fields, o, f.node)
  BY <1>5 DEF Calls
<1>7. Valid(section, o)
  BY <1>6 DEF Placed
<1>8. Members(section[o]) \in Nat
  BY <1>5, <1>7, LegalContainer
<1>9. "node" \in DOMAIN call
  BY <1>0, BuildingFacts DEF Lists
<1>10. CASE /\ f.left = 0
            /\ nodes' = [nodes EXCEPT ![f.node].entry.next = f.next]
            /\ frames' = fs /\ at' = "return" /\ call' = [call EXCEPT !.node = f.node]
  <2>1. Members(section[o]) - f.left = Members(section[o])
    BY <1>8, <1>10
  <2>2. /\ Reading(section)[o].end = f.next
        /\ Len(Reading(section)[o].fields) =
             1 + Len(Part(section, o, Members(section[o])).fields)
        /\ m = f.node + Len(Part(section, o, Members(section[o])).fields)
    <3>1. Reading(section)[o].end = Part(section, o, Members(section[o])).end
      <4>1. Valid(section, o) /\ IsContainer(section[o])
        BY <1>5, <1>7
      <4> HIDE DEF o
      <4> QED BY <4>1, LegalContainer
    <3>2. Len(Reading(section)[o].fields) =
            1 + Len(Part(section, o, Members(section[o])).fields)
      BY <1>5, <1>7, ContainerEnds
    <3>3. f.next = Part(section, o, Members(section[o])).end
      BY <1>5, <2>1
    <3>4. m = f.node + Len(Part(section, o, Members(section[o])).fields)
      BY <1>5, <2>1
    <3> QED BY <3>1, <3>2, <3>3, <3>4
  <2>3. Len(Part(section, o, Members(section[o])).fields) \in Nat
    <3>1. Members(section[o]) \in 0 .. Members(section[o])
      BY <1>8
    <3> QED BY <3>1, <1>5, <1>7, ContainerEnds
  <2>4. /\ Len(nodes') = m /\ SameFields(nodes, nodes', m)
        /\ nodes'[f.node].entry.next = f.next
    <3>1. LookupInv
      BY DEF Lists
    <3> HIDE DEF f
    <3> QED BY <3>1, <1>0, <1>4, <1>10, NextChanged
  <2>5. call'.node = f.node
    <3> HIDE DEF f
    <3> QED BY <1>9, <1>10
  <2>6. Filled(section, Fields, nodes', Len(nodes'))
    BY <1>5, <2>4, FilledSame
  <2>7. Len(nodes') + 1 = f.node + Len(Reading(section)[o].fields)
    <3> DEFINE l == Len(Part(section, o, Members(section[o])).fields)
               n == f.node
    <3>1. /\ n \in Nat /\ l \in Nat /\ m = n + l /\ Len(nodes') = m
          /\ Len(Reading(section)[o].fields) = 1 + l
      BY <1>4, <2>2, <2>3, <2>4
    <3> HIDE DEF l, n, m
    <3>2. Len(nodes') + 1 = n + (1 + l)
      BY <3>1
    <3> QED BY <3>1, <3>2 DEF n
  <2>8. Returning(section, Fields, call'.node, frames', nodes', g)
    BY <1>5, <1>10, <2>2, <2>4, <2>5, <2>6, <2>7 DEF Returning
  <2> QED BY <1>10, <2>8 DEF ListsOn
<1>11. CASE /\ f.left > 0
            /\ nodes' = Link(m, m + 1)
            /\ frames' = [frames EXCEPT ![1].left = @ - 1, ![1].child = m + 1]
            /\ call' = [offset |-> f.next, node |-> m + 1]
            /\ at' = "enter"
  <2> DEFINE i == done + 1
             p == [f EXCEPT !.left = @ - 1, !.child = m + 1]
             v == f.next
  <2>1. /\ i \in 1 .. Members(section[o]) /\ i - 1 = done
        /\ f.left - 1 \in 0 .. Members(section[o]) - 1
        /\ Members(section[o]) - (f.left - 1) = i
    BY <1>5, <1>8, <1>11
  <2>2. Kid(section, o, i) = v
    BY <1>5, <2>1 DEF Kid
  <2>3. Len(Part(section, o, done).fields) \in Nat
    <3>1. done \in 0 .. Members(section[o])
      BY <1>5, <1>8
    <3> QED BY <3>1, <1>5, <1>7, ContainerEnds
  <2>4. f.node + 1 + Len(Part(section, o, i - 1).fields) = m + 1
    <3> DEFINE l == Len(Part(section, o, done).fields)
               n == f.node
    <3>1. n \in Nat /\ l \in Nat /\ m = n + l
      BY <1>4, <1>5, <2>3
    <3>2. Len(Part(section, o, i - 1).fields) = l
      BY <2>1
    <3> HIDE DEF l, n, m, i, done
    <3>3. n + 1 + l = m + 1
      BY <3>1
    <3> QED BY <3>2, <3>3 DEF n
  <2>5. Placed(section, Fields, v, m + 1)
    <3>1. Placed(section, Fields, Kid(section, o, i),
                 f.node + 1 + Len(Part(section, o, i - 1).fields))
      <4> HIDE DEF f, i, o
      <4> QED BY <1>1, <1>5, <1>6, <2>1, PlacedKid
    <3> QED BY <3>1, <2>2, <2>4
  <2>6. /\ p \in Frame /\ p.left = f.left - 1 /\ p.child = m + 1
        /\ p.node = f.node /\ p.at = f.at
    <3>1. f.left - 1 \in Nat /\ m + 1 \in Nat
      BY <1>1, <1>4, <1>11
    <3> HIDE DEF m, f
    <3> QED BY <1>3, <3>1 DEF Frame
  <2>7. frames' = [frames EXCEPT ![1] = p]
    BY <1>1, <1>3, <1>11
  <2>8. Waits(section, p, o, v, m + 1)
    <3>1. Members(section[o]) - p.left = i /\ Members(section[o]) - p.left - 1 = i - 1
      BY <2>1, <2>6
    <3>2. v = Kid(section, o, Members(section[o]) - p.left)
      BY <2>2, <3>1
    <3>3. m + 1 =
            p.node + 1 + Len(Part(section, o, Members(section[o]) - p.left - 1).fields)
      BY <2>4, <2>6, <3>1
    <3> HIDE DEF p
    <3> QED BY <1>5, <2>1, <2>6, <3>2, <3>3 DEF Waits
  <2> HIDE DEF p, i, done
  <2>9. /\ frames' \in Seq(Frame) /\ frames' # <<>> /\ frames'[1] = p
        /\ Tail(frames') = fs
    BY <1>1, <1>2, <2>6, <2>7, TopChanged
  <2>10. Waits(section, frames'[1], g[1], v, m + 1) /\ frames'[1].node = f.node
    BY <2>6, <2>8, <2>9
  <2>11. PICK h \in Seq(Nat) : h[1] = v /\ Calls(section, Fields, h, frames', m + 1)
    <3> DEFINE n == f.node
               k == m + 1
    <3>1. Calls(section, Fields, g, fs, n) /\ v \in Nat /\ frames'[1].node = n
          /\ Placed(section, Fields, v, k) /\ Waits(section, frames'[1], g[1], v, k)
      BY <1>4, <1>5, <2>5, <2>10
    <3> HIDE DEF n, k, v, fs, o
    <3>2. \E h \in Seq(Nat) : h[1] = v /\ Calls(section, Fields, h, frames', k)
      BY <1>3, <2>9, <3>1, CallsPush, ZenonT(40)
    <3> QED BY <3>2 DEF k
  <2>12. SameFields(nodes, nodes', m)
    <3>1. LookupInv
      BY DEF Lists
    <3> QED BY <3>1, <1>0, <1>11, NodeAppended
  <2>13. Filled(section, Fields, nodes', m)
    BY <1>5, <2>12, FilledSame
  <2>14. /\ DOMAIN call' = {"offset", "node"} /\ call'.offset = v /\ call'.node = m + 1
         /\ (m + 1) - 1 = m
    BY <1>1, <1>11
  <2>15. Entering(section, Fields, call', frames', nodes', h)
    <3>1. Filled(section, Fields, nodes', call'.node - 1)
      BY <2>13, <2>14
    <3>2. Calls(section, Fields, h, frames', call'.node) /\ h[1] = call'.offset
      BY <2>11, <2>14
    <3> QED BY <2>14, <3>1, <3>2 DEF Entering
  <2> QED BY <1>11, <2>15 DEF ListsOn
<1>12. CASE at' = "idle" /\ status' # "SUCCESS" /\ starved'
  BY <1>12 DEF ListsOn
<1> QED BY <1>2, <1>10, <1>11, <1>12 DEF Element, Pop, Starve, Return

\* A call returns to the one that waits for it.
LEMMA ListReturned ==
  ASSUME Lists, Returned, NEW g \in Seq(Nat),
         Returning(section, Fields, call.node, frames, nodes, g)
  PROVE  ListsOn
<1> DEFINE f == Head(frames)
           fs == Tail(frames)
           m == Len(nodes)
           n == call.node
<1>0. at = "return" /\ Building
  BY DEF Returned, Building
<1>1. /\ Len(Fields) \in Nat /\ m \in Nat \ {0} /\ frames \in Seq(Frame)
      /\ nodes \in Seq(Node)
  BY <1>0, ListFacts
<1>2. /\ Calls(section, Fields, g, frames, n) /\ Filled(section, Fields, nodes, m)
      /\ m + 1 = n + Len(Reading(section)[g[1]].fields)
      /\ nodes[n].entry.next = Reading(section)[g[1]].end
  BY DEF Returning
<1>3. Placed(section, Fields, g[1], n)
  BY <1>2 DEF Calls
<1>4. Valid(section, g[1]) /\ n \in Nat
  BY <1>3 DEF Placed, Holds
<1>5. Len(Reading(section)[g[1]].fields) \in Nat
  BY <1>4, FieldsBegin
<1>6. CASE frames = <<>>
  <2>1. at' = "idle" /\ status' = "SUCCESS" /\ nodes' = nodes
    BY <1>6 DEF Returned, Return
  <2>2. Len(g) = 1 /\ Above(frames, n, 1) = 1 /\ Reading(section)[g[1]].fields = Fields
    <3>1. Len(g) = 1
      BY <1>2, <1>6 DEF Calls
    <3> QED BY <1>2, <3>1 DEF Calls
  <2>3. n = 1
    BY <2>2 DEF Above
  <2>4. m = Len(Fields)
    <3>1. m + 1 = 1 + Len(Fields)
      BY <1>2, <2>2, <2>3
    <3> QED BY <3>1, <1>1
  <2> QED BY <1>2, <2>1, <2>4 DEF ListsOn
<1>7. CASE frames # <<>>
  <2>1. f = frames[1] /\ f \in Frame /\ 1 \in 1 .. Len(frames) /\ fs \in Seq(Frame)
    BY <1>1, <1>7, Popped
  <2>2. f.node \in 1 .. m /\ f.child \in 1 .. m /\ f.previous \in 1 .. m
    BY <1>0, <2>1 DEF Lists, LookupInv, Grows
  <2>3. /\ Tail(g) \in Seq(Nat) /\ Tail(g)[1] = g[2]
        /\ Calls(section, Fields, Tail(g), fs, f.node)
        /\ Placed(section, Fields, g[2], f.node) /\ Waits(section, f, g[2], g[1], n)
    BY <1>1, <1>2, <1>7, <2>1, CallsPop
  <2> DEFINE h == Tail(g)
             o == g[2]
  <2>4. Valid(section, o)
    BY <2>3 DEF Placed
  <2>5. f.next \in Nat
    BY <2>1 DEF Frame
  <2>6. CASE f.at = "pointer"
    <3>1. /\ nodes' = [nodes EXCEPT ![f.node].entry.next = f.next]
          /\ frames' = fs /\ at' = "return" /\ call' = call
      BY <1>0, <1>7, <2>6 DEF Returned, Pop, BehindPointer
    <3>2. /\ section[o].type = "pointer" /\ g[1] = section[o].pointer
          /\ n = f.node /\ f.next = o + section[o].cells
      BY <2>3, <2>6 DEF Waits
    <3>3. /\ Reading(section)[o].end = f.next
          /\ Reading(section)[o].fields = Reading(section)[g[1]].fields
      BY <2>4, <3>2, LegalPointer
    <3>4. /\ Len(nodes') = m /\ SameFields(nodes, nodes', m)
          /\ nodes'[f.node].entry.next = f.next
      <4>1. LookupInv
        BY DEF Lists
      <4> HIDE DEF f
      <4> QED BY <4>1, <1>0, <2>2, <2>5, <3>1, NextChanged
    <3>5. Filled(section, Fields, nodes', Len(nodes'))
      BY <1>2, <3>4, FilledSame
    <3>6. Len(nodes') + 1 = n + Len(Reading(section)[h[1]].fields)
      BY <1>2, <2>3, <3>3, <3>4
    <3>7. nodes'[n].entry.next = Reading(section)[h[1]].end
      BY <2>3, <3>2, <3>3, <3>4
    <3>8. Returning(section, Fields, call'.node, frames', nodes', h)
      BY <2>3, <3>1, <3>2, <3>5, <3>6, <3>7 DEF Returning
    <3> QED BY <2>3, <3>1, <3>8 DEF ListsOn
  <2>7. CASE f.at = "elements"
    <3> DEFINE x == nodes[f.child].entry.next
               y == LastNode(f.previous)
               p == [f EXCEPT !.next = x, !.previous = y]
               i == Members(section[o]) - f.left
    <3>1. /\ frames' = [frames EXCEPT ![1].next = x, ![1].previous = LastNode(@)]
          /\ nodes' = nodes /\ at' = "element"
      BY <1>7, <2>7 DEF Returned
    <3>2. /\ IsContainer(section[o]) /\ f.left \in 0 .. Members(section[o]) - 1
          /\ g[1] = Kid(section, o, i) /\ n = f.child
          /\ n = f.node + 1 + Len(Part(section, o, i - 1).fields)
      BY <2>3, <2>7 DEF Waits
    <3>3. Members(section[o]) \in Nat
      BY <2>4, <3>2, LegalContainer
    <3>4. i \in 1 .. Members(section[o]) /\ f.left \in 0 .. Members(section[o])
          /\ i - 1 \in 0 .. Members(section[o])
      BY <3>2, <3>3, SMTT(30)
    <3>5. Part(section, o, i).end = Reading(section)[g[1]].end
      BY <2>4, <3>2, <3>4, LegalMember, ZenonT(40)
    <3>6. Len(Part(section, o, i).fields) =
            Len(Part(section, o, i - 1).fields) + Len(Reading(section)[g[1]].fields)
      BY <2>4, <3>2, <3>4, KidPlaced
    <3>7. Len(Part(section, o, i - 1).fields) \in Nat
      BY <2>4, <3>2, <3>4, ContainerEnds
    <3>8. m = f.node + Len(Part(section, o, i).fields)
      <4> DEFINE a == f.node
                 b == Len(Part(section, o, i - 1).fields)
                 c == Len(Reading(section)[g[1]].fields)
                 d == Len(Part(section, o, i).fields)
      <4>1. /\ a \in Nat /\ b \in Nat /\ c \in Nat /\ m \in Nat /\ d = b + c
            /\ n = a + 1 + b /\ m + 1 = n + c
        <5>1. a \in Nat /\ b \in Nat /\ c \in Nat /\ m \in Nat
          BY <1>1, <1>5, <2>2, <3>7
        <5>2. d = b + c
          BY <3>6
        <5>3. n = a + 1 + b
          BY <3>2
        <5>4. m + 1 = n + c
          BY <1>2
        <5> QED BY <5>1, <5>2, <5>3, <5>4
      <4> HIDE DEF a, b, c, d, m, n
      <4>2. m = a + d
        BY <4>1
      <4> QED BY <4>2 DEF a, d
    <3>9. x = Part(section, o, i).end
      BY <1>2, <3>2, <3>5
    <3>10. x \in Nat /\ y \in Nat
      <4>1. nodes[f.child] \in Node
        BY <1>1, <2>2
      <4>2. x \in Nat
        BY <4>1 DEF Node, Entries
      <4>3. LastNode(f.previous) = Len(nodes)
        <5>1. Linked
          BY DEF Lists, LookupInv
        <5>2. Len(nodes) \in Nat /\ DOMAIN nodes = 1 .. Len(nodes)
          BY <1>1
        <5> HIDE DEF f
        <5> QED BY <5>1, <5>2, <2>2, LastNodeIsLast
      <4> QED BY <1>1, <4>2, <4>3
    <3>11. /\ p \in Frame /\ p.next = x /\ p.node = f.node /\ p.left = f.left
           /\ p.at = f.at
      <4> HIDE DEF x, y, f
      <4> QED BY <2>1, <3>10 DEF Frame
    <3>12. frames' = [frames EXCEPT ![1] = p]
      <4> HIDE DEF x
      <4> QED BY <1>1, <2>1, <3>1
    <3> HIDE DEF p, x, y
    <3>13. Head(frames') = p /\ Tail(frames') = fs
      BY <1>1, <1>7, <3>11, <3>12, TopChanged
    <3>14. InLoop(section, Fields, p, fs, nodes', h)
      <4>1. h[1] = o /\ Calls(section, Fields, h, fs, p.node)
        BY <2>3, <3>11
      <4>2. Filled(section, Fields, nodes', Len(nodes'))
        BY <1>2, <3>1
      <4>3. p.at = "elements" /\ p.left \in 0 .. Members(section[h[1]])
            /\ IsContainer(section[h[1]])
        BY <2>7, <3>2, <3>4, <3>11, <4>1
      <4>4. Members(section[h[1]]) - p.left = i
        BY <3>11, <4>1
      <4>5. Len(nodes') = p.node + Len(Part(section, h[1], i).fields)
        BY <3>1, <3>8, <3>11, <4>1
      <4>6. p.next = Part(section, h[1], i).end
        BY <3>9, <3>11, <4>1
      <4> HIDE DEF h, i
      <4> QED BY <4>1, <4>2, <4>3, <4>4, <4>5, <4>6 DEF InLoop
    <3> QED BY <2>3, <3>1, <3>13, <3>14 DEF ListsOn
  <2> QED BY <2>1, <2>6, <2>7 DEF Frame
<1> QED BY <1>6, <1>7

\* A list begins at the value at the path, or at a pointer to it.
LEMMA ListStarts ==
  ASSUME LookupInv, Given, Sound, Wanted.error = "SUCCESS",
         NEW o \in Nat, Valid(section, o), Wanted.offset = Target(section, o),
         CallGetList(o)
  PROVE  ListsOn
<1>1. CASE at' = "idle" /\ status' = "OUT_OF_MEMORY" /\ starved' = TRUE
  BY <1>1 DEF ListsOn
<1>2. CASE /\ at' = "enter" /\ frames' = <<>>
           /\ call' = [offset |-> o, node |-> 1]
  <2> DEFINE g == <<o>>
             fields == Reading(section)[o].fields
  <2>1. Fields = fields
    BY TargetRead DEF Fields
  <2>2. fields \in Seq(Nat) /\ Len(fields) \in Nat
    BY FieldsBegin
  <2>3. Holds(fields, 1, fields)
    <3> HIDE DEF fields
    <3>1. \A k \in 1 .. Len(fields) : 1 + k - 1 = k
      BY <2>2
    <3>2. 1 \in Nat \ {0} /\ 1 + Len(fields) <= Len(fields) + 1
      BY <2>2
    <3> QED BY <3>1, <3>2 DEF Holds
  <2>4. Placed(section, Fields, o, 1)
    BY <2>1, <2>3 DEF Placed
  <2>5. g \in Seq(Nat) /\ Len(g) = 1 /\ g[1] = o
    OBVIOUS
  <2>6. Len(frames') = 0 /\ 1 .. Len(frames') = {}
    BY <1>2
  <2>7. Above(frames', 1, 1) = 1
    BY DEF Above
  <2> HIDE DEF g
  <2>8. Calls(section, Fields, g, frames', 1)
    <3>1. Reading(section)[g[1]].fields = Fields
      BY <2>1, <2>5
    <3>2. Placed(section, Fields, g[1], 1)
      BY <2>4, <2>5
    <3> HIDE DEF fields
    <3> QED BY <2>5, <2>6, <2>7, <3>1, <3>2 DEF Calls
  <2>9. DOMAIN call' = {"offset", "node"} /\ call'.offset = o /\ call'.node = 1
    BY <1>2
  <2>10. Filled(section, Fields, nodes', call'.node - 1)
    BY <2>9 DEF Filled
  <2>11. Entering(section, Fields, call', frames', nodes', g)
    BY <2>5, <2>8, <2>9, <2>10 DEF Entering
  <2> QED BY <1>2, <2>5, <2>11 DEF ListsOn
<1> QED BY <1>1, <1>2 DEF CallGetList, Starve, Return

\* A step that builds the list of the value at the path keeps what is said of it.
LEMMA ListsStay ==
  ASSUME ListsOn, section' = section, args' = args, Wanted.error = "SUCCESS"
  PROVE  Listing'
<1>1. Wanted' = Wanted /\ Fields' = Fields
  BY WantedStays
<1>2. ASSUME Building'
      PROVE  \E g \in Seq(Nat) : BuiltTo(g)'
  <2>1. CASE at' = "enter"
    <3>1. PICK g \in Seq(Nat) : Entering(section, Fields, call', frames', nodes', g)
      BY <2>1 DEF ListsOn
    <3>2. BuiltTo(g)'
      BY <1>1, <2>1, <3>1 DEF BuiltTo
    <3> QED BY <3>2
  <2>2. CASE at' = "chase"
    <3>1. PICK g \in Seq(Nat) : Chasing(section, Fields, call', frames', nodes', g)
      BY <2>2 DEF ListsOn
    <3>2. BuiltTo(g)'
      BY <1>1, <2>2, <3>1 DEF BuiltTo
    <3> QED BY <3>2
  <2>3. CASE at' = "return"
    <3>1. PICK g \in Seq(Nat) :
            Returning(section, Fields, call'.node, frames', nodes', g)
      BY <2>3 DEF ListsOn
    <3>2. BuiltTo(g)'
      BY <1>1, <2>3, <3>1 DEF BuiltTo
    <3> QED BY <3>2
  <2>4. CASE at' = "element"
    <3>1. PICK g \in Seq(Nat) :
            InLoop(section, Fields, Head(frames'), Tail(frames'), nodes', g)
      BY <2>4 DEF ListsOn
    <3>2. BuiltTo(g)'
      BY <1>1, <2>4, <3>1 DEF BuiltTo
    <3> QED BY <3>2
  <2> QED BY <1>2, <2>1, <2>2, <2>3, <2>4 DEF Building
<1>3. at' = "idle" /\ status' = "SUCCESS" => Listed'
  BY <1>1 DEF ListsOn, Listed
<1>4. at' = "idle" /\ status' # "SUCCESS" => starved'
  BY DEF ListsOn
<1> QED BY <1>1, <1>2, <1>3, <1>4 DEF Listing

\* The list of the value at the path is built field by field.
LEMMA ListingKept ==
  ASSUME LookupInv, Given, ValueAtPath, Listing, Step
  PROVE  Listing'
<1>1. section' = section /\ args' = args
  BY InputFixed
<1>2. Sound' = Sound
  BY <1>1, WantedStays
<1>3. SUFFICES ASSUME pc' = "list", Sound PROVE Listing'
  BY <1>2 DEF Listing
<1>4. CASE Overflow /\ UNCHANGED programVars
  BY <1>1, <1>2, <1>4, WantedStays DEF Overflow, programVars, Listing, Building
<1>5. SUFFICES ASSUME ~ (Overflow /\ UNCHANGED programVars)
               PROVE  ListsOn /\ Wanted.error = "SUCCESS"
  BY <1>1, <1>4, ListsStay
<1>6. Controlled
  BY DEF LookupInv
<1>7. Valid(section, Start) /\ Stop(0) = Found(section, Start)
  BY <1>3, Stopping
<1>8. CASE Lookup
  <2>1. args.path = <<>> /\ CallGetList(Start)
    BY <1>3, <1>8 DEF Lookup, LookupOrDie, Exit, Start
  <2>2. Len(args.path) = 0
    BY <2>1
  <2>3. Wanted = Found(section, Start)
    BY <1>3, <1>7, <2>2, Stopping
  <2>4. Wanted.error = "SUCCESS" /\ Wanted.offset = Target(section, Start)
    BY <2>3 DEF Found
  <2>5. Start \in Nat
    BY <1>7, LegalField
  <2> QED BY <1>3, <1>7, <2>1, <2>4, <2>5, ListStarts
<1>9. CASE ValueFound
  <2>1. pc = "value" /\ at = "idle" /\ status = "SUCCESS" /\ CallGetList(entry.offset)
    BY <1>3, <1>9 DEF ValueFound
  <2>2. Wanted.error = "SUCCESS" /\ entry.offset = Wanted.offset
    BY <1>3, <2>1 DEF ValueAtPath
  <2>3. /\ Valid(section, Wanted.offset) /\ section[Wanted.offset].type # "pointer"
        /\ Wanted.offset \in Nat
    BY <1>3, <2>2, WantedValid
  <2>4. Wanted.offset = Target(section, Wanted.offset)
    BY <2>3 DEF Target
  <2>5. CallGetList(Wanted.offset)
    BY <2>1, <2>2
  <2> QED BY <1>3, <2>2, <2>3, <2>4, <2>5, ListStarts
<1>10. CASE LibraryStep /\ UNCHANGED programVars
  <2>1. pc = "list"
    BY <1>3, <1>10 DEF programVars
  <2>2. GetListStep
    BY <1>6, <1>10, <2>1 DEF LibraryStep, GetValueStep, DumpStep, LookupInArray,
                            LookupInMap, LookupInSimple, EndOfPath, DumpField, DumpMember,
                            Controlled, Dumping
  <2>3. Building
    BY <1>5, <1>10, <2>2 DEF GetListStep, Enter, Chase, Element, Returned, Building
  <2>4. Wanted.error = "SUCCESS"
    BY <1>3, <2>1 DEF Listing
  <2>5. PICK g \in Seq(Nat) : BuiltTo(g)
    BY <1>3, <2>1, <2>3 DEF Listing
  <2>6. Lists
    BY <1>3, <2>1, <2>4 DEF Lists
  <2>7. CASE Enter
    <3>1. Entering(section, Fields, call, frames, nodes, g)
      BY <2>5, <2>7 DEF BuiltTo, Enter
    <3> QED BY <2>4, <2>6, <2>7, <3>1, ListEnter
  <2>8. CASE Chase
    <3>1. Chasing(section, Fields, call, frames, nodes, g)
      BY <2>5, <2>8 DEF BuiltTo, Chase
    <3> QED BY <2>4, <2>6, <2>8, <3>1, ListChase
  <2>9. CASE Element
    <3>1. InLoop(section, Fields, Head(frames), Tail(frames), nodes, g)
      BY <2>5, <2>9 DEF BuiltTo, Element
    <3> QED BY <2>4, <2>6, <2>9, <3>1, ListElement
  <2>10. CASE Returned
    <3>1. Returning(section, Fields, call.node, frames, nodes, g)
      BY <2>5, <2>10 DEF BuiltTo, Returned
    <3> QED BY <2>4, <2>6, <2>10, <3>1, ListReturned
  <2> QED BY <1>5, <1>10, <2>2, <2>7, <2>8, <2>9, <2>10 DEF GetListStep
<1>11. CASE GetOptions \/ OpenOrDie
  BY <1>3, <1>11 DEF GetOptions, OpenOrDie, Exit
<1>12. CASE ListDone \/ DumpDone \/ End
  BY <1>3, <1>12 DEF ListDone, DumpDone, End, FreeOverflow
<1>13. CASE Benchmark \/ BenchmarkListDone
  BY <1>3, <1>13 DEF Benchmark, BenchmarkListDone, FreeOverflow, LookupOrDie, Exit
<1> QED BY <1>8, <1>9, <1>10, <1>11, <1>12, <1>13 DEF Step

-----------------------------------------------------------------------------
(* Places in the dump.                                                     *)

\* A value that is dumped begins in the list and in the text where it is laid.
LEMMA LaidFirst ==
  ASSUME NEW sec, NEW fields, NEW tokens, Len(fields) \in Nat, Len(tokens) \in Nat,
         NEW s, Laid(sec, fields, tokens, s)
  PROVE  /\ s.p \in 1 .. Len(fields) /\ fields[s.p] = s.o
         /\ s.q \in 1 .. Len(tokens) /\ tokens[s.q] = s.o
         /\ s.o \in DOMAIN sec /\ s.o # Bracket
         /\ s.q + Len(Reading(sec)[s.o].text) <= Len(tokens) + 1
         /\ Len(Reading(sec)[s.o].fields) \in Nat \ {0}
         /\ Len(Reading(sec)[s.o].text) \in Nat \ {0}
<1> DEFINE l == Len(Reading(sec)[s.o].fields)
           m == Len(Reading(sec)[s.o].text)
           o == s.o
           p == s.p
           q == s.q
<1>1. /\ Valid(sec, o) /\ sec[o].type # "pointer"
      /\ Holds(fields, p, Reading(sec)[o].fields)
      /\ Holds(tokens, q, Reading(sec)[o].text)
  BY DEF Laid
<1>2. /\ l \in Nat \ {0} /\ Reading(sec)[o].fields[1] = Target(sec, o)
      /\ m \in Nat \ {0} /\ Reading(sec)[o].text[1] = Target(sec, o)
  <2>1. Valid(sec, o)
    BY <1>1
  <2> HIDE DEF o
  <2>2. /\ Len(Reading(sec)[o].fields) \in Nat \ {0}
        /\ Len(Reading(sec)[o].text) \in Nat \ {0}
        /\ Reading(sec)[o].fields[1] = Target(sec, o)
        /\ Reading(sec)[o].text[1] = Target(sec, o)
    BY <2>1, FieldsBegin
  <2> QED BY <2>2 DEF o
<1>3. Target(sec, o) = o
  BY <1>1 DEF Target
<1>4. /\ p \in Nat \ {0} /\ p + l <= Len(fields) + 1
      /\ q \in Nat \ {0} /\ q + m <= Len(tokens) + 1
  BY <1>1 DEF Holds
<1>5. 1 \in 1 .. l /\ 1 \in 1 .. m
  BY <1>2
<1>6. /\ fields[p + 1 - 1] = Reading(sec)[o].fields[1]
      /\ tokens[q + 1 - 1] = Reading(sec)[o].text[1]
  BY <1>1, <1>5 DEF Holds
<1>7. o \in DOMAIN sec /\ o # 0
  <2>1. Valid(sec, o)
    BY <1>1
  <2> HIDE DEF o
  <2> QED BY <2>1, LegalField
<1> HIDE DEF l, m, o, p, q
<1>8. p + 1 - 1 = p /\ q + 1 - 1 = q /\ p \in 1 .. Len(fields) /\ q \in 1 .. Len(tokens)
  BY <1>2, <1>4
<1>9. fields[p] = o /\ tokens[q] = o
  BY <1>2, <1>3, <1>6, <1>8
<1> QED BY <1>2, <1>4, <1>7, <1>8, <1>9 DEF l, m, o, p, q, Bracket

\* Where the i-th member of the container at c is laid.
Member(sec, c, i) ==
  [o |-> Target(sec, Kid(sec, c.o, i)),
   p |-> c.p + 1 + Len(Part(sec, c.o, i - 1).fields),
   q |-> c.q + 1 + Len(Part(sec, c.o, i - 1).text)]

\* A member of a container lies behind the bracket and the members before it.
LEMMA MemberLaid ==
  ASSUME NEW sec, NEW fields, NEW tokens, Len(fields) \in Nat, Len(tokens) \in Nat,
         NEW c, Laid(sec, fields, tokens, c),
         IsContainer(sec[c.o]), NEW i \in 1 .. Members(sec[c.o])
  PROVE  Member(sec, c, i) \in Spot /\ Laid(sec, fields, tokens, Member(sec, c, i))
<1> DEFINE o == c.o
           p == c.p
           q == c.q
           k == Kid(sec, o, i)
           t == Target(sec, k)
           l == Len(Part(sec, o, i - 1).fields)
           m == Len(Part(sec, o, i - 1).text)
           s == Member(sec, c, i)
<1>1. /\ Valid(sec, o) /\ Holds(fields, p, Reading(sec)[o].fields)
      /\ Holds(tokens, q, Reading(sec)[o].text) /\ IsContainer(sec[o])
      /\ i \in 1 .. Members(sec[o])
  BY DEF Laid
<1>2. s.o = t /\ s.p = p + 1 + l /\ s.q = q + 1 + m
  BY DEF Member
<1>3. s = [o |-> t, p |-> p + 1 + l, q |-> q + 1 + m]
  BY DEF Member
<1> HIDE DEF o, p, q, s
<1>4. Members(sec[o]) \in Nat
  BY <1>1, LegalContainer
<1>5. i - 1 \in 0 .. Members(sec[o])
  BY <1>1, <1>4
<1>6. l \in Nat /\ m \in Nat
  BY <1>1, <1>5, ContainerEnds
<1>7. Valid(sec, k)
  BY <1>1, LegalMember
<1>8. /\ Holds(Reading(sec)[o].fields, 2 + l, Reading(sec)[k].fields)
      /\ Holds(Reading(sec)[o].text, 2 + m, Reading(sec)[k].text)
  BY <1>1, KidPlaced
<1>9. /\ Len(Reading(sec)[o].fields) \in Nat /\ Len(Reading(sec)[o].text) \in Nat
      /\ Len(Reading(sec)[k].fields) \in Nat /\ Len(Reading(sec)[k].text) \in Nat
  <2> HIDE DEF k
  <2> QED BY <1>1, <1>7, FieldsBegin
<1>10. /\ Valid(sec, t) /\ sec[t].type # "pointer"
       /\ Reading(sec)[k].fields = Reading(sec)[t].fields
       /\ Reading(sec)[k].text = Reading(sec)[t].text
  <2> HIDE DEF k
  <2> QED BY <1>7, TargetRead
<1>11. t \in Nat
  <2> HIDE DEF t
  <2> QED BY <1>10, LegalField
<1>12. p \in Nat /\ q \in Nat
  BY <1>1 DEF Holds
<1> HIDE DEF k, t, l, m
<1>13. p + (2 + l) - 1 = p + 1 + l /\ q + (2 + m) - 1 = q + 1 + m
  BY <1>6, <1>12
<1>14. Holds(fields, p + (2 + l) - 1, Reading(sec)[k].fields)
  BY <1>1, <1>8, <1>9, HoldsInside
<1>15. Holds(tokens, q + (2 + m) - 1, Reading(sec)[k].text)
  BY <1>1, <1>8, <1>9, HoldsInside
<1>16. /\ Holds(fields, s.p, Reading(sec)[s.o].fields)
       /\ Holds(tokens, s.q, Reading(sec)[s.o].text)
  BY <1>2, <1>10, <1>13, <1>14, <1>15
<1>17. Laid(sec, fields, tokens, s)
  BY <1>2, <1>10, <1>16 DEF Laid
<1>18. s \in Spot
  <2>1. p + 1 + l \in Nat /\ q + 1 + m \in Nat
    BY <1>6, <1>12
  <2> QED BY <1>3, <1>11, <2>1 DEF Spot
<1> QED BY <1>17, <1>18 DEF s

\* A loop is entered: the frame on top runs over what was dumped before.
LEMMA LoopsPush ==
  ASSUME NEW sec, NEW fields, NEW tokens, NEW g, NEW fs \in Seq(Loop),
         Loops(sec, fields, tokens, g, fs),
         NEW hs \in Seq(Loop), hs # <<>>, Tail(hs) = fs, LoopsOver(sec, hs[1], g[1]),
         NEW s \in Spot, Laid(sec, fields, tokens, s), Within(sec, hs[1], g[1], s)
  PROVE  \E h \in Seq(Spot) : h[1] = s /\ Loops(sec, fields, tokens, h, hs)
<1> DEFINE h == <<s>> \o g
<1>1. g \in Seq(Spot) /\ Len(g) = Len(fs) + 1 /\ Len(fs) \in Nat
  BY DEF Loops
<1>2. /\ h \in Seq(Spot) /\ h[1] = s /\ Len(h) = Len(g) + 1
      /\ \A k \in 1 .. Len(h) : k # 1 => k - 1 \in 1 .. Len(g) /\ h[k] = g[k - 1]
  <2> HIDE DEF h
  <2>1. h = <<s>> \o g
    BY DEF h
  <2>2. h \in Seq(Spot) /\ h[1] = s /\ Len(h) = Len(g) + 1
    BY <1>1, <2>1, Pushed
  <2>3. \A k \in 1 .. Len(h) : k # 1 => k - 1 \in 1 .. Len(g) /\ h[k] = g[k - 1]
    BY <1>1, <2>1, Pushed
  <2> QED BY <2>2, <2>3
<1>3. /\ Len(hs) = Len(fs) + 1
      /\ \A k \in 1 .. Len(fs) : k + 1 \in 1 .. Len(hs) /\ fs[k] = hs[k + 1]
  <2>1. \A k \in 1 .. Len(Tail(hs)) : k + 1 \in 1 .. Len(hs) /\ Tail(hs)[k] = hs[k + 1]
    BY Popped
  <2>2. Len(Tail(hs)) = Len(hs) - 1 /\ Len(hs) \in Nat
    BY HeadTailProperties
  <2>3. Tail(hs) = fs
    OBVIOUS
  <2>4. \A k \in 1 .. Len(fs) : k + 1 \in 1 .. Len(hs) /\ fs[k] = hs[k + 1]
    BY <2>1, <2>3, Zenon
  <2>5. Len(fs) = Len(hs) - 1
    BY <2>2, <2>3, Zenon
  <2>6. Len(hs) = Len(fs) + 1
    BY <2>2, <2>5, <1>1
  <2> QED BY <2>4, <2>6
<1>4. \A k \in 1 .. Len(fs) :
        /\ Laid(sec, fields, tokens, g[k + 1])
        /\ LoopsOver(sec, fs[k], g[k + 1]) /\ Within(sec, fs[k], g[k + 1], g[k])
  BY DEF Loops
<1>5. /\ Laid(sec, fields, tokens, g[1]) /\ g[Len(g)].p = 1 /\ g[Len(g)].q = 1
      /\ Reading(sec)[g[Len(g)].o].fields = fields
      /\ Reading(sec)[g[Len(g)].o].text = tokens
  BY DEF Loops
<1> HIDE DEF h
<1>6. ASSUME NEW k \in 1 .. Len(hs)
      PROVE  /\ Laid(sec, fields, tokens, h[k + 1])
             /\ LoopsOver(sec, hs[k], h[k + 1]) /\ Within(sec, hs[k], h[k + 1], h[k])
  <2>1. k + 1 \in 1 .. Len(h) /\ k + 1 # 1 /\ (k + 1) - 1 = k
    BY <1>1, <1>2, <1>3
  <2>2. h[k + 1] = g[k]
    BY <1>2, <2>1
  <2>3. CASE k = 1
    BY <1>2, <1>5, <2>2, <2>3
  <2>4. CASE k # 1
    <3>1. k - 1 \in 1 .. Len(fs) /\ (k - 1) + 1 = k /\ k \in 1 .. Len(h)
      BY <2>4, <1>1, <1>2, <1>3
    <3>2. h[k] = g[k - 1] /\ hs[k] = fs[k - 1]
      BY <1>2, <1>3, <2>4, <3>1
    <3>3. /\ Laid(sec, fields, tokens, g[(k - 1) + 1])
          /\ LoopsOver(sec, fs[k - 1], g[(k - 1) + 1])
          /\ Within(sec, fs[k - 1], g[(k - 1) + 1], g[k - 1])
      BY <1>4, <3>1
    <3> QED BY <2>2, <3>1, <3>2, <3>3
  <2> QED BY <2>3, <2>4
<1>7. h[Len(h)] = g[Len(g)] /\ Len(h) = Len(hs) + 1
  <2>1. Len(h) - 1 = Len(g) /\ Len(h) \in 1 .. Len(h) /\ Len(h) # 1 /\ Len(h) = Len(hs) + 1
    BY <1>1, <1>2, <1>3
  <2> QED BY <2>1, <1>2
<1>8. Laid(sec, fields, tokens, h[1])
  BY <1>2
<1>9. Loops(sec, fields, tokens, h, hs)
  BY <1>2, <1>5, <1>6, <1>7, <1>8 DEF Loops
<1> QED BY <1>2, <1>9

\* A loop is left.
LEMMA LoopsPop ==
  ASSUME NEW sec, NEW fields, NEW tokens, NEW g, NEW fs \in Seq(Loop),
         Loops(sec, fields, tokens, g, fs), fs # <<>>
  PROVE  /\ Tail(g) \in Seq(Spot) /\ Tail(g)[1] = g[2]
         /\ Loops(sec, fields, tokens, Tail(g), Tail(fs))
         /\ Laid(sec, fields, tokens, g[2])
         /\ LoopsOver(sec, fs[1], g[2]) /\ Within(sec, fs[1], g[2], g[1])
<1> DEFINE h == Tail(g)
           hs == Tail(fs)
<1>1. g \in Seq(Spot) /\ Len(g) = Len(fs) + 1 /\ Len(fs) \in Nat \ {0}
  BY DEF Loops
<1>2. /\ h \in Seq(Spot) /\ Len(h) + 1 = Len(g) /\ Len(h) \in Nat
      /\ \A k \in 1 .. Len(h) : h[k] = g[k + 1]
  <2>1. g # <<>> /\ Len(g) \in Nat
    BY <1>1
  <2> HIDE DEF h
  <2>2. \A k \in 1 .. Len(Tail(g)) : k + 1 \in 1 .. Len(g) /\ Tail(g)[k] = g[k + 1]
    BY <1>1, <2>1, Popped
  <2>3. Len(Tail(g)) = Len(g) - 1 /\ Tail(g) \in Seq(Spot)
    BY <1>1, <2>1, HeadTailProperties
  <2> QED BY <1>1, <2>1, <2>2, <2>3 DEF h
<1>3. /\ Len(hs) + 1 = Len(fs) /\ Len(hs) \in Nat
      /\ \A k \in 1 .. Len(hs) : hs[k] = fs[k + 1]
  <2> HIDE DEF hs
  <2>1. \A k \in 1 .. Len(Tail(fs)) : k + 1 \in 1 .. Len(fs) /\ Tail(fs)[k] = fs[k + 1]
    BY Popped
  <2>2. Len(Tail(fs)) = Len(fs) - 1
    BY HeadTailProperties
  <2> QED BY <1>1, <2>1, <2>2 DEF hs
<1>4. \A k \in 1 .. Len(fs) :
        /\ Laid(sec, fields, tokens, g[k + 1])
        /\ LoopsOver(sec, fs[k], g[k + 1]) /\ Within(sec, fs[k], g[k + 1], g[k])
  BY DEF Loops
<1>5. /\ g[Len(g)].p = 1 /\ g[Len(g)].q = 1
      /\ Reading(sec)[g[Len(g)].o].fields = fields
      /\ Reading(sec)[g[Len(g)].o].text = tokens
  BY DEF Loops
<1> HIDE DEF h, hs
<1>6. 1 \in 1 .. Len(fs) /\ 1 \in 1 .. Len(h) /\ 1 + 1 = 2
  BY <1>1, <1>2
<1>7. /\ h[1] = g[2] /\ Laid(sec, fields, tokens, g[2])
      /\ LoopsOver(sec, fs[1], g[2]) /\ Within(sec, fs[1], g[2], g[1])
  BY <1>2, <1>4, <1>6
<1>8. ASSUME NEW k \in 1 .. Len(hs)
      PROVE  /\ Laid(sec, fields, tokens, h[k + 1])
             /\ LoopsOver(sec, hs[k], h[k + 1]) /\ Within(sec, hs[k], h[k + 1], h[k])
  <2>1. k + 1 \in 1 .. Len(fs) /\ k \in 1 .. Len(h) /\ k + 1 \in 1 .. Len(h)
    BY <1>1, <1>2, <1>3
  <2>2. hs[k] = fs[k + 1] /\ h[k] = g[k + 1] /\ h[k + 1] = g[(k + 1) + 1]
    BY <1>2, <1>3, <2>1
  <2>3. /\ Laid(sec, fields, tokens, g[(k + 1) + 1])
        /\ LoopsOver(sec, fs[k + 1], g[(k + 1) + 1])
        /\ Within(sec, fs[k + 1], g[(k + 1) + 1], g[k + 1])
    BY <1>4, <2>1
  <2> QED BY <2>2, <2>3
<1>9. h[Len(h)] = g[Len(g)] /\ Len(h) = Len(hs) + 1
  <2>1. Len(h) + 1 = Len(g) /\ Len(h) \in 1 .. Len(h) /\ Len(h) = Len(hs) + 1
    BY <1>1, <1>2, <1>3
  <2> QED BY <2>1, <1>2
<1>10. Laid(sec, fields, tokens, h[1])
  BY <1>7
<1>11. Loops(sec, fields, tokens, h, hs)
  BY <1>2, <1>5, <1>8, <1>9, <1>10 DEF Loops
<1> QED BY <1>2, <1>7, <1>11 DEF h, hs

\* Another token is printed.
LEMMA BegunNext ==
  ASSUME NEW sec, NEW tokens, Len(tokens) \in Nat, NEW out, NEW n, n = Len(out),
         Begun(sec, tokens, out, n), n + 1 \in 1 .. Len(tokens),
         NEW more, more = Append(out, TokenOf(sec, tokens[n + 1]))
  PROVE  Len(more) = n + 1 /\ Begun(sec, tokens, more, n + 1)
<1> DEFINE S == {TokenOf(sec, tokens[i]) : i \in 1 .. Len(tokens)}
           x == TokenOf(sec, tokens[n + 1])
<1>1. n \in 0 .. Len(tokens) /\ n \in Nat
  BY DEF Begun
<1>2. out = [i \in 1 .. n |-> TokenOf(sec, tokens[i])]
  BY DEF Begun
<1>3. \A i \in 1 .. n : TokenOf(sec, tokens[i]) \in S
  BY <1>1
<1>4. x \in S
  OBVIOUS
<1>5. out \in Seq(S)
  <2> HIDE DEF S
  <2> QED BY <1>1, <1>2, <1>3
<1>6. more = Append(out, x)
  OBVIOUS
<1> HIDE DEF S, x
<1>7. /\ more \in Seq(S) /\ Len(more) = n + 1
      /\ \A i \in 1 .. n : more[i] = out[i]
      /\ more[n + 1] = x
  BY <1>4, <1>5, <1>6, AppendProperties
<1>8. more = [i \in 1 .. n + 1 |-> more[i]]
  BY <1>7
<1>9. \A i \in 1 .. n + 1 : more[i] = TokenOf(sec, tokens[i])
  <2> SUFFICES ASSUME NEW i \in 1 .. n + 1 PROVE more[i] = TokenOf(sec, tokens[i])
    OBVIOUS
  <2>1. CASE i = n + 1
    BY <2>1, <1>7 DEF x
  <2>2. CASE i # n + 1
    <3>1. i \in 1 .. n
      BY <2>2, <1>1
    <3> QED BY <3>1, <1>2, <1>7
  <2> QED BY <2>1, <2>2
<1>10. more = [i \in 1 .. n + 1 |-> TokenOf(sec, tokens[i])]
  BY <1>8, <1>9
<1>11. n + 1 \in 0 .. Len(tokens)
  BY <1>1
<1> QED BY <1>7, <1>10, <1>11 DEF Begun

\* When a value has been dumped, the loop it is in has read one member more; when it is
\* in none, all of the text is printed.
LEMMA ValueDumped ==
  ASSUME NEW sec, NEW fields, NEW tokens, Len(tokens) \in Nat,
         NEW g, NEW fs \in Seq(Loop), Loops(sec, fields, tokens, g, fs),
         NEW n, NEW t \in Nat, n = g[1].p + Len(Reading(sec)[g[1].o].fields),
         t + 1 = g[1].q + Len(Reading(sec)[g[1].o].text)
  PROVE  /\ fs = <<>> => t = Len(tokens)
         /\ fs # <<>> => \E h \in Seq(Spot) :
              Between(sec, fields, tokens, n, t, Head(fs), Tail(fs), h)
<1>1. CASE fs = <<>>
  <2>1. Len(g) = 1
    BY <1>1 DEF Loops
  <2>2. g[1].q = 1 /\ Reading(sec)[g[1].o].text = tokens
    BY <2>1 DEF Loops
  <2>3. t + 1 = 1 + Len(tokens)
    BY <2>2
  <2> QED BY <1>1, <2>3
<1>2. CASE fs # <<>>
  <2> DEFINE h == Tail(g)
             f == Head(fs)
             c == g[2]
             s == g[1]
             done == Dumps(sec, f, c)
             k == Kid(sec, c.o, done)
  <2>1. f = fs[1] /\ f \in Loop
    BY <1>2, Popped
  <2>2. /\ h \in Seq(Spot) /\ h[1] = c /\ Loops(sec, fields, tokens, h, Tail(fs))
        /\ Laid(sec, fields, tokens, c) /\ LoopsOver(sec, f, c) /\ Within(sec, f, c, s)
    BY <1>2, <2>1, LoopsPop
  <2>3. /\ IsContainer(sec[c.o]) /\ Valid(sec, c.o)
        /\ c.p \in Nat /\ c.q \in Nat
    BY <2>2 DEF LoopsOver, Laid, Holds
  <2>4. /\ done \in 1 .. Members(sec[c.o]) /\ s.o = Target(sec, k)
        /\ s.p = c.p + 1 + Len(Part(sec, c.o, done - 1).fields)
        /\ s.q = c.q + 1 + Len(Part(sec, c.o, done - 1).text)
    BY <2>2 DEF Within
  <2> HIDE DEF c, s, done, h, f
  <2>5. Members(sec[c.o]) \in Nat /\ Valid(sec, k)
    <3> DEFINE o == c.o
    <3>1. Valid(sec, o) /\ IsContainer(sec[o]) /\ done \in 1 .. Members(sec[o])
      BY <2>3, <2>4
    <3> HIDE DEF o
    <3>2. Members(sec[o]) \in Nat /\ Valid(sec, Kid(sec, o, done))
      BY <3>1, LegalContainer, LegalMember
    <3> QED BY <3>2 DEF o
  <2>6. /\ Len(Part(sec, c.o, done).fields) =
             Len(Part(sec, c.o, done - 1).fields) + Len(Reading(sec)[k].fields)
        /\ Len(Part(sec, c.o, done).text) =
             Len(Part(sec, c.o, done - 1).text) + Len(Reading(sec)[k].text)
    <3> DEFINE o == c.o
    <3>1. Valid(sec, o) /\ IsContainer(sec[o]) /\ done \in 1 .. Members(sec[o])
      BY <2>3, <2>4
    <3> HIDE DEF o
    <3>2. /\ Len(Part(sec, o, done).fields) =
               Len(Part(sec, o, done - 1).fields)
                 + Len(Reading(sec)[Kid(sec, o, done)].fields)
          /\ Len(Part(sec, o, done).text) =
               Len(Part(sec, o, done - 1).text)
                 + Len(Reading(sec)[Kid(sec, o, done)].text)
      BY <3>1, KidPlaced
    <3> QED BY <3>2 DEF o
  <2>7. /\ Len(Part(sec, c.o, done - 1).fields) \in Nat
        /\ Len(Part(sec, c.o, done - 1).text) \in Nat
    <3> DEFINE o == c.o
               i == done - 1
    <3>1. Valid(sec, o) /\ IsContainer(sec[o]) /\ i \in 0 .. Members(sec[o])
      BY <2>3, <2>4, <2>5, SMTT(30)
    <3> HIDE DEF o, i
    <3>2. Len(Part(sec, o, i).fields) \in Nat /\ Len(Part(sec, o, i).text) \in Nat
      BY <3>1, ContainerEnds
    <3> QED BY <3>2 DEF o, i
  <2>8. /\ Reading(sec)[s.o].fields = Reading(sec)[k].fields
        /\ Reading(sec)[s.o].text = Reading(sec)[k].text
        /\ Len(Reading(sec)[k].fields) \in Nat /\ Len(Reading(sec)[k].text) \in Nat
    <3> HIDE DEF k
    <3>1. /\ Reading(sec)[Target(sec, k)].fields = Reading(sec)[k].fields
          /\ Reading(sec)[Target(sec, k)].text = Reading(sec)[k].text
      BY <2>5, TargetRead
    <3>2. Len(Reading(sec)[k].fields) \in Nat /\ Len(Reading(sec)[k].text) \in Nat
      BY <2>5, FieldsBegin
    <3> QED BY <2>4, <3>1, <3>2
  <2>9. n = s.p + Len(Reading(sec)[s.o].fields) /\ t + 1 = s.q + Len(Reading(sec)[s.o].text)
    BY DEF s
  <2> DEFINE a == Len(Part(sec, c.o, done - 1).fields)
             b == Len(Part(sec, c.o, done - 1).text)
             x == Len(Reading(sec)[k].fields)
             y == Len(Reading(sec)[k].text)
             p == c.p
             q == c.q
  <2>10. /\ a \in Nat /\ b \in Nat /\ x \in Nat /\ y \in Nat /\ p \in Nat /\ q \in Nat
         /\ n = (p + 1 + a) + x /\ t + 1 = (q + 1 + b) + y
    BY <2>3, <2>4, <2>7, <2>8, <2>9
  <2> HIDE DEF a, b, x, y, p, q
  <2>11. n = p + 1 + (a + x) /\ t = q + (b + y)
    BY <2>10
  <2>12. /\ n = c.p + 1 + Len(Part(sec, c.o, done).fields)
         /\ t = c.q + Len(Part(sec, c.o, done).text)
    BY <2>6, <2>11 DEF a, b, x, y, p, q
  <2>13. Between(sec, fields, tokens, n, t, f, Tail(fs), h)
    BY <2>2, <2>12 DEF Between, done
  <2> QED BY <1>2, <2>2, <2>13 DEF f
<1> QED BY <1>1, <1>2

-----------------------------------------------------------------------------
(* The steps of MMDB_dump_entry_data_list(), of a sound value.             *)

\* The list of the value at the path is dumped.
Prints ==
  /\ LookupInv /\ Given /\ Sound /\ pc = "dump" /\ Wanted.error = "SUCCESS" /\ Listed
  /\ Begun(section, Tokens, printed, Len(printed))

\* What holds while it is.
LEMMA PrintFacts ==
  ASSUME Prints, Dumping
  PROVE  /\ IsSection(section)
         /\ Len(Fields) \in Nat /\ DOMAIN Fields = 1 .. Len(Fields)
         /\ Tokens \in Seq(Nat) /\ Len(Tokens) \in Nat /\ Len(printed) \in Nat
         /\ Len(nodes) = Len(Fields) /\ frames \in Seq(Loop)
         /\ \A j \in 1 .. Len(Fields) :
              /\ nodes[j].entry.type = section[Fields[j]].type
              /\ nodes[j].entry.value = section[Fields[j]].value
              /\ nodes[j].entry.size = section[Fields[j]].size
<1>1. LookupInv /\ Given /\ Sound /\ Wanted.error = "SUCCESS" /\ Listed
      /\ Begun(section, Tokens, printed, Len(printed))
  BY DEF Prints
<1>2. IsSection(section)
  BY <1>1, Section
<1>3. Valid(section, Wanted.offset)
  BY <1>1, WantedValid
<1>4. Fields \in Seq(Nat) /\ Tokens \in Seq(Nat)
  BY <1>3, FieldsBegin DEF Fields, Tokens
<1>5. Len(Fields) \in Nat /\ DOMAIN Fields = 1 .. Len(Fields) /\ Len(Tokens) \in Nat
  BY <1>4, LenProperties
<1>6. frames \in Seq(Loop)
  BY <1>1, DumpingFacts
<1>7. Len(nodes) = Len(Fields) /\ Filled(section, Fields, nodes, Len(nodes))
  BY <1>1 DEF Listed
<1>8. Len(printed) \in Nat
  BY <1>1, <1>5 DEF Begun
<1>9. \A j \in 1 .. Len(Fields) :
        /\ nodes[j].entry.type = section[Fields[j]].type
        /\ nodes[j].entry.value = section[Fields[j]].value
        /\ nodes[j].entry.size = section[Fields[j]].size
  BY <1>7 DEF Filled
<1> QED BY <1>2, <1>4, <1>5, <1>6, <1>7, <1>8, <1>9

\* What a step of the dump has come to.
PrintsOn ==
  /\ at' \in {"dump", "member", "idle", "crashed"}
  /\ Begun(section, Tokens, printed', Len(printed'))
  /\ at' = "dump" => \E h \in Seq(Spot) :
       Reaching(section, Fields, Tokens, cursor', Len(printed'), frames', h)
  /\ (at' = "member" /\ frames' # <<>>) => \E h \in Seq(Spot) :
       Between(section, Fields, Tokens, Place', Len(printed'), Head(frames'),
               Tail(frames'), h)
  /\ (at' = "member" /\ frames' = <<>>) => Len(printed') = Len(Tokens)
  /\ at' = "idle" => starved' \/ Len(printed') = Len(Tokens)

\* The next node of a complete list is the next place.
LEMMA PlaceMoves ==
  ASSUME Prints, Dumping, cursor # 0, cursor' = NextNode(cursor), nodes' = nodes
  PROVE  /\ cursor \in 1 .. Len(Fields) /\ Place' = cursor + 1
         /\ cursor < Len(Fields) => cursor' = cursor + 1
<1>1. Len(nodes) = Len(Fields) /\ Len(Fields) \in Nat
  BY PrintFacts
<1>2. /\ cursor \in 0 .. Len(nodes)
      /\ NextNode(cursor) = (IF cursor < Len(nodes) THEN cursor + 1 ELSE 0)
  BY DumpingFacts DEF Prints
<1>3. Place' = IF cursor' = 0 THEN Len(nodes) + 1 ELSE cursor'
  BY DEF Place
<1>4. CASE cursor < Len(nodes)
  BY <1>1, <1>2, <1>3, <1>4
<1>5. CASE ~ cursor < Len(nodes)
  <2>1. cursor = Len(nodes) /\ cursor' = 0
    BY <1>1, <1>2, <1>5
  <2> QED BY <1>1, <1>2, <1>3, <2>1
<1> QED BY <1>4, <1>5

\* A step that fails to allocate, or crashes, has printed a part of the text.
LEMMA PrintFails ==
  ASSUME Prints, printed' = printed,
         at' = "crashed" \/ (at' = "idle" /\ (starved' \/ Len(printed) = Len(Tokens)))
  PROVE  PrintsOn
BY DEF Prints, PrintsOn

\* dump_entry_data_list() up to its loop.
LEMMA PrintField ==
  ASSUME Prints, DumpField, NEW g \in Seq(Spot),
         Reaching(section, Fields, Tokens, cursor, Len(printed), frames, g)
  PROVE  PrintsOn
<1> DEFINE e == nodes[cursor].entry
           s == g[1]
           o == s.o
           f == section[o]
           t == Len(printed)
<1>0. at = "dump" /\ Dumping
  BY DEF DumpField, Dumping
<1>1. /\ IsSection(section) /\ Len(Fields) \in Nat /\ Len(Tokens) \in Nat /\ t \in Nat
      /\ frames \in Seq(Loop)
      /\ \A j \in 1 .. Len(Fields) :
           /\ nodes[j].entry.type = section[Fields[j]].type
           /\ nodes[j].entry.value = section[Fields[j]].value
           /\ nodes[j].entry.size = section[Fields[j]].size
  BY <1>0, PrintFacts
<1>2. Loops(section, Fields, Tokens, g, frames) /\ s.p = cursor /\ s.q = t + 1
  BY DEF Reaching
<1>3. Laid(section, Fields, Tokens, s)
  BY <1>2 DEF Loops
<1>4. /\ cursor \in 1 .. Len(Fields) /\ Fields[cursor] = o
      /\ t + 1 \in 1 .. Len(Tokens) /\ Tokens[t + 1] = o
      /\ o \in DOMAIN section /\ o # Bracket
  <2> HIDE DEF s
  <2>1. /\ s.p \in 1 .. Len(Fields) /\ Fields[s.p] = s.o
        /\ s.q \in 1 .. Len(Tokens) /\ Tokens[s.q] = s.o
        /\ s.o \in DOMAIN section /\ s.o # Bracket
    BY <1>1, <1>3, LaidFirst, ZenonT(40)
  <2> QED BY <1>2, <2>1
<1>5. e.type = f.type /\ e.value = f.value /\ e.size = f.size
  BY <1>1, <1>4
<1>6. Valid(section, o) /\ f.type # "pointer"
  BY <1>3 DEF Laid
<1>7. IsContainer(f) \/ IsSimple(f)
  BY <1>6, LegalField
<1>8. cursor # 0 /\ cursor \in Nat
  BY <1>1, <1>4
<1>9. f.size \in Nat /\ Members(f) \in Nat
  <2>1. Members(f) \in Nat
    BY <1>1, <1>4, MembersNat
  <2> QED BY <1>1, <1>4, <2>1 DEF IsSection
<1>10. ASSUME NEW x, x = TokenOf(section, o), printed' = Append(printed, x)
       PROVE  Begun(section, Tokens, printed', Len(printed')) /\ Len(printed') = t + 1
  <2>1. t = Len(printed) /\ printed' = Append(printed, TokenOf(section, Tokens[t + 1]))
    BY <1>4, <1>10
  <2>2. Begun(section, Tokens, printed, t)
    BY DEF Prints
  <2> HIDE DEF t, e, s, o, f
  <2>3. Len(Tokens) \in Nat
    BY <1>1
  <2>4. t + 1 \in 1 .. Len(Tokens)
    BY <1>4
  <2>5. Len(printed') = t + 1
    BY <2>1, <2>2, <2>3, <2>4, BegunNext
  <2>6. Begun(section, Tokens, printed', t + 1)
    BY <2>1, <2>2, <2>3, <2>4, BegunNext
  <2> QED BY <2>5, <2>6
<1>11. CASE /\ IsCompound(e)
            /\ printed' = Append(printed, e.type)
            /\ frames' = <<[type |-> e.type, left |-> e.size]>> \o frames
            /\ cursor' = NextNode(cursor) /\ at' = "member" /\ nodes' = nodes
  <2> DEFINE l == [type |-> e.type, left |-> e.size]
  <2>1. IsContainer(f)
    BY <1>5, <1>11 DEF IsCompound, IsContainer
  <2>2. e.type = TokenOf(section, o)
    BY <1>4, <1>5, <2>1 DEF TokenOf, IsContainer
  <2>3. Begun(section, Tokens, printed', Len(printed')) /\ Len(printed') = t + 1
    BY <1>10, <1>11, <2>2
  <2>4. l \in Loop /\ l.type = f.type /\ l.left = f.size
    BY <1>5, <1>9, <2>1 DEF Loop, IsContainer
  <2> HIDE DEF l
  <2>5. /\ frames' # <<>> /\ Head(frames') = l /\ Tail(frames') = frames
    <3>1. frames' = <<l>> \o frames
      BY <1>11 DEF l
    <3> QED BY <3>1, <1>1, <2>4, Pushed
  <2>6. Place' = cursor + 1
    BY <1>0, <1>8, <1>11, PlaceMoves
  <2>7. Dumps(section, l, s) = 0
    <3>1. Weight(l) = Members(f)
      BY <2>1, <2>4 DEF Weight, Members, IsContainer
    <3>2. Dumps(section, l, s) = Members(f) - Members(f)
      BY <3>1 DEF Dumps
    <3> QED BY <3>2, <1>9
  <2>8. LoopsOver(section, l, s)
    <3>1. f.size \in 0 .. f.size
      BY <1>9
    <3> QED BY <3>1, <2>1, <2>4 DEF LoopsOver
  <2>9. Len(Part(section, o, 0).fields) = 0 /\ Len(Part(section, o, 0).text) = 0
    <3> HIDE DEF o
    <3> QED BY <1>6, <2>1, ContainerEnds DEF o
  <2>10. Place' = s.p + 1 + 0 /\ Len(printed') = s.q + 0
    BY <1>1, <1>2, <1>8, <2>3, <2>6
  <2>11. Between(section, Fields, Tokens, Place', Len(printed'), l, frames, g)
    BY <1>2, <2>7, <2>8, <2>9, <2>10 DEF Between
  <2> QED BY <1>11, <2>3, <2>5, <2>11 DEF PrintsOn
<1>12. CASE /\ e.type \in {"string", "bytes", "number"}
            /\ printed' = Append(printed, e.value) /\ frames' = frames
            /\ cursor' = NextNode(cursor) /\ at' = "member" /\ nodes' = nodes
  <2>1. IsSimple(f) /\ ~ IsContainer(f)
    BY <1>5, <1>12 DEF IsSimple, IsContainer
  <2>2. e.value = TokenOf(section, o)
    BY <1>4, <1>5, <2>1 DEF TokenOf, IsContainer
  <2>3. Begun(section, Tokens, printed', Len(printed')) /\ Len(printed') = t + 1
    BY <1>10, <1>12, <2>2
  <2>4. Place' = cursor + 1
    BY <1>0, <1>8, <1>12, PlaceMoves
  <2>5. Reading(section)[o].fields = <<o>> /\ Reading(section)[o].text = <<o>>
    <3> HIDE DEF o
    <3> QED BY <1>6, <2>1, LegalSimple DEF o
  <2>6. Place' = g[1].p + Len(Reading(section)[g[1].o].fields)
    BY <1>2, <2>4, <2>5
  <2>7. (t + 1) + 1 = g[1].q + Len(Reading(section)[g[1].o].text)
    BY <1>2, <2>5
  <2>8. t + 1 \in Nat
    BY <1>1
  <2> DEFINE u == t + 1
  <2>9. u \in Nat /\ u + 1 = g[1].q + Len(Reading(section)[g[1].o].text)
        /\ Len(printed') = u
    BY <2>3, <2>7, <2>8
  <2> HIDE DEF u, s, o, f, e
  <2>10. /\ frames = <<>> => u = Len(Tokens)
         /\ frames # <<>> => \E h \in Seq(Spot) :
              Between(section, Fields, Tokens, Place', u, Head(frames), Tail(frames), h)
    BY <1>1, <1>2, <2>6, <2>9, ValueDumped
  <2>11. (at' = "member" /\ frames' # <<>>) => \E h \in Seq(Spot) :
           Between(section, Fields, Tokens, Place', Len(printed'), Head(frames'),
                   Tail(frames'), h)
    BY <1>12, <2>9, <2>10
  <2>12. (at' = "member" /\ frames' = <<>>) => Len(printed') = Len(Tokens)
    BY <1>12, <2>9, <2>10
  <2> QED BY <1>12, <2>3, <2>11, <2>12 DEF PrintsOn
<1>13. CASE at' = "idle" /\ starved' = TRUE /\ printed' = printed
  BY <1>13, PrintFails
<1>14. CASE at' = "crashed" /\ printed' = printed
  BY <1>14, PrintFails
<1>15. e.type # "other"
  BY <1>5, <1>7 DEF IsContainer, IsSimple
<1> QED BY <1>11, <1>12, <1>13, <1>14, <1>15
        DEF DumpField, Emit, Push, Starve, Return, listVars

\* What holds in the loop over a container: as long as it has members left, there is a
\* node of the next one.
LEMMA LoopFacts ==
  ASSUME Prints, at = "member", frames # <<>>, NEW g \in Seq(Spot),
         Between(section, Fields, Tokens, Place, Len(printed), Head(frames), Tail(frames),
                 g)
  PROVE  /\ Head(frames) = frames[1] /\ Head(frames) \in Loop
         /\ Tail(frames) \in Seq(Loop)
         /\ Loops(section, Fields, Tokens, g, Tail(frames))
         /\ Laid(section, Fields, Tokens, g[1]) /\ Valid(section, g[1].o)
         /\ IsContainer(section[g[1].o]) /\ Head(frames).type = section[g[1].o].type
         /\ g[1].p \in Nat /\ g[1].q \in Nat
         /\ section[g[1].o].size \in Nat
         /\ Head(frames).left \in 0 .. section[g[1].o].size
         /\ Members(section[g[1].o]) =
              (IF Head(frames).type = "map" THEN 2 * section[g[1].o].size
               ELSE section[g[1].o].size)
         /\ Place = g[1].p + 1 + Len(Part(section, g[1].o,
                                          Dumps(section, Head(frames), g[1])).fields)
         /\ Len(printed) = g[1].q + Len(Part(section, g[1].o,
                                             Dumps(section, Head(frames), g[1])).text)
<1> DEFINE c == g[1]
           o == c.o
           f == Head(frames)
<1>1. frames \in Seq(Loop) /\ IsSection(section)
  BY PrintFacts DEF Dumping
<1>2. f = frames[1] /\ f \in Loop /\ Tail(frames) \in Seq(Loop)
  BY <1>1, Popped
<1>3. /\ Loops(section, Fields, Tokens, g, Tail(frames)) /\ LoopsOver(section, f, c)
      /\ Place = c.p + 1 + Len(Part(section, o, Dumps(section, f, c)).fields)
      /\ Len(printed) = c.q + Len(Part(section, o, Dumps(section, f, c)).text)
  BY DEF Between
<1>4. Laid(section, Fields, Tokens, c)
  BY <1>3 DEF Loops
<1>5. Valid(section, o) /\ c.p \in Nat /\ c.q \in Nat
  BY <1>4 DEF Laid, Holds
<1>6. /\ IsContainer(section[o]) /\ f.type = section[o].type
      /\ f.left \in 0 .. section[o].size
  BY <1>3 DEF LoopsOver
<1>7. section[o].size \in Nat
  <2>1. o \in DOMAIN section
    <3> HIDE DEF o
    <3> QED BY <1>5, LegalField
  <2> QED BY <1>1, <2>1 DEF IsSection
<1>8. Members(section[o]) =
        IF f.type = "map" THEN 2 * section[o].size ELSE section[o].size
  BY <1>6 DEF Members, IsContainer
<1> QED BY <1>2, <1>3, <1>4, <1>5, <1>6, <1>7, <1>8

\* The next member of a loop that has some left is laid where the cursor is.
LEMMA NextMember ==
  ASSUME Prints, at = "member", frames # <<>>, NEW g \in Seq(Spot),
         Between(section, Fields, Tokens, Place, Len(printed), Head(frames), Tail(frames),
                 g),
         Head(frames).left > 0,
         NEW i, i = Dumps(section, Head(frames), g[1]) + 1
  PROVE  /\ i \in 1 .. Members(section[g[1].o]) /\ i - 1 = Dumps(section, Head(frames), g[1])
         /\ Member(section, g[1], i) \in Spot
         /\ Laid(section, Fields, Tokens, Member(section, g[1], i))
         /\ Member(section, g[1], i).p = cursor
         /\ Member(section, g[1], i).q = Len(printed) + 1
         /\ cursor # 0 /\ cursor \in 1 .. Len(Fields)
<1> DEFINE c == g[1]
           o == c.o
           f == Head(frames)
           l == f.left
           n == section[o].size
           done == Dumps(section, f, c)
           s == Member(section, c, i)
<1>1. /\ Loops(section, Fields, Tokens, g, Tail(frames))
      /\ Laid(section, Fields, Tokens, c) /\ Valid(section, o)
      /\ IsContainer(section[o]) /\ f.type = section[o].type
      /\ c.p \in Nat /\ c.q \in Nat /\ n \in Nat /\ l \in 0 .. n
      /\ Members(section[o]) = (IF f.type = "map" THEN 2 * n ELSE n)
  BY LoopFacts
<1>2. /\ Place = c.p + 1 + Len(Part(section, o, done).fields)
      /\ Len(printed) = c.q + Len(Part(section, o, done).text)
  BY LoopFacts
<1>3. /\ Len(Fields) \in Nat /\ Len(Tokens) \in Nat /\ Len(nodes) = Len(Fields)
      /\ IsSection(section) /\ Len(printed) \in Nat
  BY PrintFacts DEF Dumping
<1>4. done = Members(section[o]) - (IF f.type = "map" THEN 2 * l ELSE l)
  BY DEF Dumps, Weight
<1>5. l > 0 /\ i = done + 1
  OBVIOUS
<1> HIDE DEF done, l, n, s
<1>6. i \in 1 .. Members(section[o]) /\ i - 1 = done /\ done \in Nat
  <2> DEFINE m == Members(section[o])
  <2>1. CASE f.type = "map"
    <3>1. m = 2 * n /\ done = m - 2 * l
      BY <1>1, <1>4, <2>1
    <3>2. n \in Nat /\ l \in 1 .. n
      BY <1>1, <1>5
    <3> HIDE DEF m
    <3>3. i \in 1 .. m /\ i - 1 = done /\ done \in Nat
      BY <1>5, <3>1, <3>2
    <3> QED BY <3>3 DEF m
  <2>2. CASE f.type # "map"
    <3>1. m = n /\ done = m - l
      BY <1>1, <1>4, <2>2
    <3>2. n \in Nat /\ l \in 1 .. n
      BY <1>1, <1>5
    <3> HIDE DEF m
    <3>3. i \in 1 .. m /\ i - 1 = done /\ done \in Nat
      BY <1>5, <3>1, <3>2
    <3> QED BY <3>3 DEF m
  <2> QED BY <2>1, <2>2
<1>7. s \in Spot /\ Laid(section, Fields, Tokens, s)
  <2> HIDE DEF c
  <2> QED BY <1>1, <1>3, <1>6, MemberLaid DEF s, o
<1>8. /\ s.p = c.p + 1 + Len(Part(section, o, i - 1).fields)
      /\ s.q = c.q + 1 + Len(Part(section, o, i - 1).text)
  BY DEF s, Member
<1>9. s.p = Place
  BY <1>2, <1>6, <1>8
<1>10. s.q = Len(printed) + 1
  <2> DEFINE a == Len(Part(section, o, i - 1).text)
             b == Len(printed)
             q == c.q
  <2>1. a \in Nat
    <3>1. i - 1 \in 0 .. Members(section[o])
      BY <1>1, <1>6
    <3> HIDE DEF o
    <3> QED BY <1>1, <3>1, ContainerEnds
  <2>2. q \in Nat /\ b = q + a /\ s.q = q + 1 + a
    BY <1>1, <1>2, <1>6, <1>8
  <2> HIDE DEF a, b, q
  <2>3. s.q = b + 1
    BY <2>1, <2>2
  <2> QED BY <2>3 DEF b
<1>11. s.p \in 1 .. Len(Fields)
  BY <1>3, <1>7, LaidFirst
<1>12. cursor # 0
  <2> SUFFICES ASSUME cursor = 0 PROVE FALSE
    OBVIOUS
  <2>1. Place = Len(Fields) + 1
    BY <1>3 DEF Place
  <2> QED BY <1>3, <1>9, <1>11, <2>1
<1>13. s.p = cursor
  BY <1>9, <1>12 DEF Place
<1> QED BY <1>6, <1>7, <1>10, <1>11, <1>12, <1>13 DEF s, done

\* The next token of the text is printed.
LEMMA TokenPrinted ==
  ASSUME Prints, Dumping, NEW x, printed' = Append(printed, x),
         Len(printed) + 1 \in 1 .. Len(Tokens),
         x = TokenOf(section, Tokens[Len(printed) + 1])
  PROVE  Begun(section, Tokens, printed', Len(printed')) /\ Len(printed') = Len(printed) + 1
<1> DEFINE t == Len(printed)
<1>1. t = Len(printed) /\ printed' = Append(printed, TokenOf(section, Tokens[t + 1]))
  OBVIOUS
<1>2. Begun(section, Tokens, printed, t)
  BY DEF Prints
<1>3. Len(Tokens) \in Nat
  BY PrintFacts
<1>4. t + 1 \in 1 .. Len(Tokens)
  OBVIOUS
<1> HIDE DEF t
<1>5. Len(printed') = t + 1
  BY <1>1, <1>2, <1>3, <1>4, BegunNext
<1>6. Begun(section, Tokens, printed', t + 1)
  BY <1>1, <1>2, <1>3, <1>4, BegunNext
<1> QED BY <1>1, <1>5, <1>6

\* The loop over a container ends with its bracket.
LEMMA PrintEnd ==
  ASSUME Prints, at = "member", frames # <<>>, NEW g \in Seq(Spot),
         Between(section, Fields, Tokens, Place, Len(printed), Head(frames), Tail(frames),
                 g),
         ~ MemberDue, printed' = Append(printed, "end"), frames' = Tail(frames),
         at' = at, cursor' = cursor, nodes' = nodes
  PROVE  PrintsOn
<1> DEFINE c == g[1]
           o == c.o
           f == Head(frames)
           n == Members(section[o])
           r == Reading(section)[o]
           t == Len(printed)
           a == Len(Part(section, o, n).fields)
           b == Len(Part(section, o, n).text)
           q == c.q
<1>0. Dumping
  BY DEF Dumping
<1>1. /\ Tail(frames) \in Seq(Loop)
      /\ Loops(section, Fields, Tokens, g, Tail(frames))
      /\ Laid(section, Fields, Tokens, c) /\ Valid(section, o)
      /\ IsContainer(section[o]) /\ c.p \in Nat /\ q \in Nat
      /\ section[o].size \in Nat /\ f.left \in 0 .. section[o].size
  BY LoopFacts
<1>2. /\ Place = c.p + 1 + Len(Part(section, o, Dumps(section, f, c)).fields)
      /\ t = q + Len(Part(section, o, Dumps(section, f, c)).text)
  BY LoopFacts
<1>3. Len(Fields) \in Nat /\ Len(Tokens) \in Nat /\ t \in Nat
  BY <1>0, PrintFacts
<1>4. f.left = 0
  <2> SUFFICES ASSUME f.left > 0 PROVE FALSE
    BY <1>1
  <2>1. cursor # 0
    BY NextMember
  <2> QED BY <2>1 DEF MemberDue
<1>5. n \in Nat
  <2> HIDE DEF o
  <2> QED BY <1>1, LegalContainer
<1>6. Dumps(section, f, c) = n
  <2>1. Weight(f) = 0
    BY <1>4 DEF Weight
  <2>2. Dumps(section, f, c) = n - 0
    BY <2>1 DEF Dumps
  <2> QED BY <1>5, <2>2
<1>7. /\ a \in Nat /\ b \in Nat /\ Len(r.fields) = 1 + a /\ Len(r.text) = 2 + b
      /\ r.text[Len(r.text)] = Bracket
  <2>1. n \in 0 .. n
    BY <1>5
  <2> HIDE DEF o
  <2>2. /\ Len(Part(section, o, n).fields) \in Nat /\ Len(Part(section, o, n).text) \in Nat
    BY <1>1, <2>1, ContainerEnds
  <2>3. /\ Len(Reading(section)[o].fields) = 1 + Len(Part(section, o, n).fields)
        /\ Len(Reading(section)[o].text) = 2 + Len(Part(section, o, n).text)
        /\ Reading(section)[o].text[Len(Reading(section)[o].text)] = Bracket
    BY <1>1, ContainerEnds
  <2> QED BY <2>2, <2>3
<1>8. Holds(Tokens, q, r.text)
  BY <1>1 DEF Laid
<1>9. Place = c.p + 1 + a /\ t = q + b
  BY <1>2, <1>6
<1>10. /\ q + Len(r.text) <= Len(Tokens) + 1
       /\ \A k \in 1 .. Len(r.text) : Tokens[q + k - 1] = r.text[k]
  BY <1>8 DEF Holds
<1>11. /\ t + 1 \in 1 .. Len(Tokens) /\ 2 + b \in 1 .. Len(r.text)
       /\ q + (2 + b) - 1 = t + 1
  <2> HIDE DEF t, q, b, r
  <2> QED BY <1>1, <1>3, <1>7, <1>9, <1>10
<1>12. Tokens[t + 1] = Bracket
  <2>1. Tokens[q + (2 + b) - 1] = r.text[2 + b]
    BY <1>10, <1>11
  <2> QED BY <1>7, <1>11, <2>1
<1>13. "end" = TokenOf(section, Tokens[t + 1])
  BY <1>12 DEF TokenOf
<1>14. Begun(section, Tokens, printed', Len(printed')) /\ Len(printed') = t + 1
  BY <1>0, <1>11, <1>13, TokenPrinted
<1>15. Place' = Place
  BY DEF Place
<1> DEFINE u == t + 1
           p == c.p
<1>16. u \in Nat /\ Len(printed') = u
  BY <1>3, <1>14
<1>17. Place' = c.p + Len(r.fields)
  <2>1. p \in Nat /\ a \in Nat /\ Place' = p + 1 + a /\ Len(r.fields) = 1 + a
    BY <1>1, <1>7, <1>9, <1>15
  <2> HIDE DEF p, a
  <2>2. Place' = p + Len(r.fields)
    BY <2>1
  <2> QED BY <2>2 DEF p
<1>18. u + 1 = c.q + Len(r.text)
  <2>1. q \in Nat /\ b \in Nat /\ u = q + b + 1 /\ Len(r.text) = 2 + b
    BY <1>1, <1>7, <1>9
  <2> HIDE DEF q, b, u
  <2>2. u + 1 = q + Len(r.text)
    BY <2>1
  <2> QED BY <2>2 DEF q
<1>19. /\ Tail(frames) = <<>> => u = Len(Tokens)
       /\ Tail(frames) # <<>> => \E h \in Seq(Spot) :
            Between(section, Fields, Tokens, Place', u, Head(Tail(frames)),
                    Tail(Tail(frames)), h)
  <2>1. /\ Place' = g[1].p + Len(Reading(section)[g[1].o].fields)
        /\ u + 1 = g[1].q + Len(Reading(section)[g[1].o].text)
    BY <1>17, <1>18
  <2> HIDE DEF u
  <2> DEFINE fs == Tail(frames)
  <2>2. fs \in Seq(Loop) /\ Loops(section, Fields, Tokens, g, fs)
    BY <1>1
  <2> HIDE DEF fs
  <2>3. /\ fs = <<>> => u = Len(Tokens)
        /\ fs # <<>> => \E h \in Seq(Spot) :
             Between(section, Fields, Tokens, Place', u, Head(fs), Tail(fs), h)
    BY <1>3, <1>16, <2>1, <2>2, ValueDumped
  <2> QED BY <2>3 DEF fs
<1> HIDE DEF u
<1>20. (at' = "member" /\ frames' # <<>>) => \E h \in Seq(Spot) :
         Between(section, Fields, Tokens, Place', Len(printed'), Head(frames'),
                 Tail(frames'), h)
  BY <1>16, <1>19
<1>21. (at' = "member" /\ frames' = <<>>) => Len(printed') = Len(Tokens)
  BY <1>16, <1>19
<1> QED BY <1>14, <1>20, <1>21 DEF PrintsOn

\* The loop over a container goes on with the member at s.
LEMMA PrintGoesOn ==
  ASSUME Prints, at = "member", frames # <<>>, NEW g \in Seq(Spot),
         Between(section, Fields, Tokens, Place, Len(printed), Head(frames), Tail(frames),
                 g),
         Head(frames).left > 0,
         frames' = [frames EXCEPT ![1].left = @ - 1], at' = "dump",
         NEW i, i = Members(section[g[1].o]) -
                      (IF Head(frames).type = "map" THEN 2 * (Head(frames).left - 1)
                       ELSE Head(frames).left - 1),
         Member(section, g[1], i).p = cursor',
         Member(section, g[1], i).q = Len(printed') + 1,
         Begun(section, Tokens, printed', Len(printed'))
  PROVE  PrintsOn
<1> DEFINE c == g[1]
           o == c.o
           f == Head(frames)
           fs == Tail(frames)
           n == section[o].size
           l == f.left
           s == Member(section, c, i)
           p == [f EXCEPT !.left = @ - 1]
<1>1. /\ f = frames[1] /\ f \in Loop /\ fs \in Seq(Loop)
      /\ Loops(section, Fields, Tokens, g, fs)
      /\ Laid(section, Fields, Tokens, c) /\ Valid(section, o)
      /\ IsContainer(section[o]) /\ f.type = section[o].type
      /\ n \in Nat /\ l \in 0 .. n
      /\ Members(section[o]) = (IF f.type = "map" THEN 2 * n ELSE n)
  BY LoopFacts
<1>2. Len(Fields) \in Nat /\ Len(Tokens) \in Nat /\ frames \in Seq(Loop)
  BY PrintFacts DEF Dumping
<1>3. l > 0 /\ i = Members(section[o]) - (IF f.type = "map" THEN 2 * (l - 1) ELSE l - 1)
  OBVIOUS
<1>4. /\ i \in 1 .. Members(section[o]) /\ l - 1 \in 0 .. n
  <2> DEFINE m == Members(section[o])
  <2> HIDE DEF l, n
  <2>1. CASE f.type = "map"
    <3>1. m = 2 * n /\ i = m - 2 * (l - 1)
      BY <1>1, <1>3, <2>1
    <3>2. n \in Nat /\ l \in 1 .. n
      BY <1>1, <1>3
    <3> HIDE DEF m
    <3>3. i \in 1 .. m /\ l - 1 \in 0 .. n
      BY <3>1, <3>2, SMTT(30)
    <3> QED BY <3>3 DEF m
  <2>2. CASE f.type # "map"
    <3>1. m = n /\ i = m - (l - 1)
      BY <1>1, <1>3, <2>2
    <3>2. n \in Nat /\ l \in 1 .. n
      BY <1>1, <1>3
    <3> HIDE DEF m
    <3>3. i \in 1 .. m /\ l - 1 \in 0 .. n
      BY <3>1, <3>2
    <3> QED BY <3>3 DEF m
  <2> QED BY <2>1, <2>2
<1>5. p \in Loop /\ p.type = f.type /\ p.left = l - 1
  <2>1. l - 1 \in Nat
    BY <1>1, <1>4
  <2>2. f \in Loop
    BY <1>1
  <2> HIDE DEF f
  <2> QED BY <2>1, <2>2 DEF Loop
<1>6. frames' = [frames EXCEPT ![1] = p]
  BY <1>1, <1>2
<1> HIDE DEF p
<1>7. frames' \in Seq(Loop) /\ frames' # <<>> /\ frames'[1] = p /\ Tail(frames') = fs
  <2>1. \A gs : gs = [frames EXCEPT ![1] = p] => gs \in Seq(Loop) /\ gs # <<>>
    BY <1>2, <1>5, TopChanged
  <2>2. \A gs : gs = [frames EXCEPT ![1] = p] => gs[1] = p
    BY <1>2, <1>5, TopChanged
  <2>3. \A gs : gs = [frames EXCEPT ![1] = p] => Tail(gs) = Tail(frames)
    BY <1>2, <1>5, TopChanged
  <2> QED BY <1>6, <2>1, <2>2, <2>3
<1>8. s \in Spot /\ Laid(section, Fields, Tokens, s)
  <2> HIDE DEF c
  <2> QED BY <1>1, <1>2, <1>4, MemberLaid DEF o
<1>9. LoopsOver(section, p, c)
  BY <1>1, <1>4, <1>5 DEF LoopsOver
<1>10. Dumps(section, p, c) = i
  BY <1>3, <1>5 DEF Dumps, Weight
<1>11. Within(section, p, c, s)
  <2> HIDE DEF c
  <2> QED BY <1>4, <1>10 DEF Within, Member, o
<1> HIDE DEF s
<1>12. \E h \in Seq(Spot) : h[1] = s /\ Loops(section, Fields, Tokens, h, frames')
  <2>1. LoopsOver(section, frames'[1], g[1]) /\ Within(section, frames'[1], g[1], s)
    BY <1>7, <1>9, <1>11
  <2>2. fs \in Seq(Loop) /\ Loops(section, Fields, Tokens, g, fs)
    BY <1>1
  <2>3. frames' \in Seq(Loop) /\ frames' # <<>> /\ Tail(frames') = fs
    BY <1>7
  <2>4. s \in Spot /\ Laid(section, Fields, Tokens, s)
    BY <1>8
  <2> HIDE DEF fs, f, o, c, l, n
  <2>5. ASSUME NEW hs \in Seq(Loop), hs # <<>>, Tail(hs) = fs,
               LoopsOver(section, hs[1], g[1]), Within(section, hs[1], g[1], s)
        PROVE  \E h \in Seq(Spot) : h[1] = s /\ Loops(section, Fields, Tokens, h, hs)
    <3>1. fs \in Seq(Loop)
      BY <2>2
    <3>2. Loops(section, Fields, Tokens, g, fs)
      BY <2>2
    <3>3. hs # <<>>
      BY <2>5
    <3>4. Tail(hs) = fs
      BY <2>5
    <3>5. LoopsOver(section, hs[1], g[1])
      BY <2>5
    <3>6. Within(section, hs[1], g[1], s)
      BY <2>5
    <3>7. s \in Spot
      BY <2>4
    <3>8. Laid(section, Fields, Tokens, s)
      BY <2>4
    <3> HIDE DEF fs
    <3> QED BY <3>1, <3>2, <3>3, <3>4, <3>5, <3>6, <3>7, <3>8, LoopsPush, SMTT(30)
  <2> QED BY <2>1, <2>3, <2>5
<1>13. PICK h \in Seq(Spot) : h[1] = s /\ Loops(section, Fields, Tokens, h, frames')
  BY <1>12
<1>14. Reaching(section, Fields, Tokens, cursor', Len(printed'), frames', h)
  <2>1. s.p = cursor' /\ s.q = Len(printed') + 1
    BY DEF s
  <2> QED BY <1>13, <2>1 DEF Reaching
<1> QED BY <1>14 DEF PrintsOn

\* The next member of a map that has pairs left is a key, a string of one token, and its
\* value lies right behind it.
LEMMA NextKey ==
  ASSUME Prints, at = "member", frames # <<>>, NEW g \in Seq(Spot),
         Between(section, Fields, Tokens, Place, Len(printed), Head(frames), Tail(frames),
                 g),
         Head(frames).left > 0, Head(frames).type = "map",
         NEW i, i = Dumps(section, Head(frames), g[1]) + 1
  PROVE  /\ nodes[cursor].entry.type = "string"
         /\ Len(printed) + 1 \in 1 .. Len(Tokens)
         /\ nodes[cursor].entry.value = TokenOf(section, Tokens[Len(printed) + 1])
         /\ i + 1 = Members(section[g[1].o]) - 2 * (Head(frames).left - 1)
         /\ Member(section, g[1], i + 1).p = cursor + 1
         /\ Member(section, g[1], i + 1).q = Len(printed) + 2
         /\ cursor < Len(Fields)
<1> DEFINE c == g[1]
           o == c.o
           f == Head(frames)
           l == f.left
           n == section[o].size
           m == Members(section[o])
           s == Member(section, c, i)
           r == Member(section, c, i + 1)
           k == Kid(section, o, i)
           t == Len(printed)
<1>0. Dumping
  BY DEF Dumping
<1>1. /\ Laid(section, Fields, Tokens, c) /\ Valid(section, o)
      /\ IsContainer(section[o]) /\ section[o].type = "map"
      /\ n \in Nat /\ l \in 0 .. n /\ m = 2 * n
      /\ c.p \in Nat /\ c.q \in Nat
  BY LoopFacts
<1>2. /\ Len(Fields) \in Nat /\ Len(Tokens) \in Nat /\ t \in Nat
      /\ \A j \in 1 .. Len(Fields) :
           /\ nodes[j].entry.type = section[Fields[j]].type
           /\ nodes[j].entry.value = section[Fields[j]].value
  BY <1>0, PrintFacts
<1>3. /\ i \in 1 .. m /\ i - 1 = Dumps(section, f, c)
      /\ s \in Spot /\ Laid(section, Fields, Tokens, s)
      /\ s.p = cursor /\ s.q = t + 1 /\ cursor \in 1 .. Len(Fields)
  BY NextMember
<1>4. i = (m - 2 * l) + 1 /\ l > 0
  BY DEF Dumps, Weight
<1>5. i \in 1 .. m /\ i % 2 = 1 /\ i + 1 \in 1 .. m /\ i + 1 = m - 2 * (l - 1) /\ i \in Nat
  <2> HIDE DEF m, l, n
  <2>1. n \in Nat /\ l \in 1 .. n /\ m = 2 * n /\ i = (m - 2 * l) + 1
    BY <1>1, <1>4
  <2>2. i \in 1 .. m /\ i + 1 \in 1 .. m /\ i + 1 = m - 2 * (l - 1) /\ i \in Nat
    BY <2>1
  <2>3. i = 2 * (n - l) + 1 /\ n - l \in Nat
    BY <2>1
  <2>4. i % 2 = 1
    BY <2>3
  <2> QED BY <2>2, <2>4
<1>6. /\ s.o = Target(section, k)
      /\ s.p = c.p + 1 + Len(Part(section, o, i - 1).fields)
      /\ s.q = c.q + 1 + Len(Part(section, o, i - 1).text)
  BY DEF Member
<1>7. /\ r.p = c.p + 1 + Len(Part(section, o, i).fields)
      /\ r.q = c.q + 1 + Len(Part(section, o, i).text)
  <2>1. (i + 1) - 1 = i
    BY <1>5
  <2> QED BY <2>1 DEF Member
<1>8. Valid(section, k) /\ section[Target(section, k)].type = "string"
  <2> HIDE DEF o, m
  <2>1. i \in 1 .. Members(section[o])
    BY <1>5 DEF m
  <2> QED BY <1>1, <1>5, <2>1, LegalMember, ZenonT(40)
<1>9. /\ Len(Part(section, o, i).fields) =
           Len(Part(section, o, i - 1).fields) + Len(Reading(section)[k].fields)
      /\ Len(Part(section, o, i).text) =
           Len(Part(section, o, i - 1).text) + Len(Reading(section)[k].text)
      /\ Len(Part(section, o, i - 1).fields) \in Nat
      /\ Len(Part(section, o, i - 1).text) \in Nat
  <2>1. m \in Nat /\ i \in 1 .. m
    BY <1>1, <1>5, SMTT(30)
  <2> HIDE DEF m
  <2>2. i \in 1 .. m /\ i - 1 \in 0 .. m
    BY <2>1
  <2>3. i \in 1 .. Members(section[o]) /\ i - 1 \in 0 .. Members(section[o])
    BY <2>2 DEF m
  <2> HIDE DEF o
  <2>4. /\ Len(Part(section, o, i).fields) =
             Len(Part(section, o, i - 1).fields) + Len(Reading(section)[Kid(section, o, i)].fields)
        /\ Len(Part(section, o, i).text) =
             Len(Part(section, o, i - 1).text) + Len(Reading(section)[Kid(section, o, i)].text)
    BY <1>1, <2>3, KidPlaced
  <2>5. Len(Part(section, o, i - 1).fields) \in Nat /\ Len(Part(section, o, i - 1).text) \in Nat
    BY <1>1, <2>3, ContainerEnds
  <2> QED BY <2>4, <2>5
<1>10. Len(Reading(section)[k].fields) = 1 /\ Len(Reading(section)[k].text) = 1
  <2> DEFINE v == Target(section, k)
  <2> HIDE DEF k
  <2>1. /\ Valid(section, v)
        /\ Reading(section)[k].fields = Reading(section)[v].fields
        /\ Reading(section)[k].text = Reading(section)[v].text
    BY <1>8, TargetRead
  <2>2. IsSimple(section[v])
    BY <1>8 DEF IsSimple
  <2> HIDE DEF v
  <2>3. Reading(section)[v].fields = <<v>> /\ Reading(section)[v].text = <<v>>
    BY <2>1, <2>2, LegalSimple
  <2> QED BY <2>1, <2>3
<1>11. r.p = cursor + 1 /\ r.q = t + 2
  <2> DEFINE a == Len(Part(section, o, i - 1).fields)
             b == Len(Part(section, o, i - 1).text)
             p == c.p
             q == c.q
  <2>1. /\ a \in Nat /\ b \in Nat /\ p \in Nat /\ q \in Nat
        /\ r.p = p + 1 + (a + 1) /\ r.q = q + 1 + (b + 1)
        /\ cursor = p + 1 + a /\ t + 1 = q + 1 + b
    BY <1>1, <1>3, <1>6, <1>7, <1>9, <1>10
  <2>2. t \in Nat
    BY <1>2
  <2> HIDE DEF a, b, p, q, t, r
  <2> QED BY <2>1, <2>2
<1>12. r \in Spot /\ Laid(section, Fields, Tokens, r)
  <2>1. i + 1 \in 1 .. Members(section[c.o]) /\ IsContainer(section[c.o])
    BY <1>1, <1>5
  <2> HIDE DEF c
  <2> QED BY <1>1, <1>2, <2>1, MemberLaid DEF r
<1>13. cursor < Len(Fields)
  <2>1. r.p \in 1 .. Len(Fields)
    <3> HIDE DEF r
    <3> QED BY <1>2, <1>12, LaidFirst
  <2> HIDE DEF r
  <2> QED BY <1>2, <1>3, <1>11, <2>1
<1>14. /\ Fields[cursor] = s.o /\ t + 1 \in 1 .. Len(Tokens) /\ Tokens[t + 1] = s.o
       /\ s.o # Bracket
  <2> HIDE DEF s
  <2>1. Len(Fields) \in Nat /\ Len(Tokens) \in Nat
    BY <1>2
  <2>2. Laid(section, Fields, Tokens, s)
    BY <1>3
  <2>3. /\ Fields[s.p] = s.o /\ s.q \in 1 .. Len(Tokens) /\ Tokens[s.q] = s.o
        /\ s.o # Bracket
    BY <2>1, <2>2, LaidFirst
  <2> QED BY <1>3, <2>3
<1>15. section[s.o].type = "string"
  BY <1>6, <1>8
<1>16. /\ nodes[cursor].entry.type = "string"
       /\ nodes[cursor].entry.value = section[s.o].value
  BY <1>2, <1>3, <1>14, <1>15
<1>17. TokenOf(section, Tokens[t + 1]) = section[s.o].value
  BY <1>14, <1>15 DEF TokenOf
<1> QED BY <1>5, <1>11, <1>13, <1>14, <1>16, <1>17

\* The loops of dump_entry_data_list().
LEMMA PrintMember ==
  ASSUME Prints, DumpMember, NEW g \in Seq(Spot), DumpedTo(g)
  PROVE  PrintsOn
<1> DEFINE f == Head(frames)
           e == nodes[cursor].entry
           t == Len(printed)
<1>0. at = "member" /\ Dumping /\ nodes' = nodes
  BY DEF DumpMember, Dumping, listVars
<1>1. CASE frames = <<>>
  <2>1. Len(printed) = Len(Tokens)
    BY <1>0, <1>1 DEF DumpedTo
  <2>2. at' = "idle" /\ printed' = printed
    BY <1>1 DEF DumpMember, Return, MemberDue
  <2> QED BY <2>1, <2>2, PrintFails
<1>2. SUFFICES ASSUME frames # <<>>
               PROVE  PrintsOn
  BY <1>1
<1>3. Between(section, Fields, Tokens, Place, t, f, Tail(frames), g)
  BY <1>0, <1>2 DEF DumpedTo
<1>4. CASE ~ MemberDue
  <2>1. /\ printed' = Append(printed, "end") /\ frames' = Tail(frames)
        /\ at' = at /\ cursor' = cursor
    BY <1>2, <1>4 DEF DumpMember, Emit, Pop
  <2> QED BY <1>0, <1>2, <1>3, <1>4, <2>1, PrintEnd
<1> DEFINE i == Dumps(section, f, g[1]) + 1
<1>5. CASE MemberDue /\ f.type = "array" /\ frames' = [frames EXCEPT ![1].left = @ - 1]
           /\ at' = "dump" /\ cursor' = cursor /\ printed' = printed
  <2> DEFINE j == Members(section[g[1].o]) - (f.left - 1)
  <2>1. f.left > 0
    BY <1>5 DEF MemberDue
  <2>2. Member(section, g[1], i).p = cursor /\ Member(section, g[1], i).q = t + 1
    BY <1>0, <1>2, <1>3, <2>1, NextMember
  <2>3. i = j
    <3>1. /\ section[g[1].o].size \in Nat /\ f.left \in 0 .. section[g[1].o].size
          /\ Members(section[g[1].o]) = section[g[1].o].size
      BY <1>0, <1>2, <1>3, <1>5, LoopFacts
    <3>2. i = Members(section[g[1].o]) - f.left + 1
      BY <1>5 DEF Dumps, Weight
    <3> QED BY <3>1, <3>2
  <2>4. Begun(section, Tokens, printed', Len(printed'))
    BY <1>5 DEF Prints
  <2>5. Member(section, g[1], j).p = cursor' /\ Member(section, g[1], j).q = Len(printed') + 1
    BY <1>5, <2>2, <2>3
  <2>6. j = Members(section[g[1].o]) - (IF f.type = "map" THEN 2 * (f.left - 1) ELSE f.left - 1)
    BY <1>5
  <2> HIDE DEF j
  <2> QED BY <1>0, <1>2, <1>3, <1>5, <2>1, <2>4, <2>5, <2>6, PrintGoesOn
<1>6. CASE MemberDue /\ f.type = "map" /\ frames' = [frames EXCEPT ![1].left = @ - 1]
           /\ printed' = Append(printed, IF e.type = "string" THEN e.value ELSE "?")
           /\ cursor' = NextNode(cursor) /\ at' = "dump"
  <2> DEFINE j == i + 1
  <2>1. f.left > 0 /\ cursor # 0
    BY <1>6 DEF MemberDue
  <2>2. /\ e.type = "string" /\ t + 1 \in 1 .. Len(Tokens)
        /\ e.value = TokenOf(section, Tokens[t + 1])
        /\ j = Members(section[g[1].o]) - 2 * (f.left - 1)
        /\ Member(section, g[1], j).p = cursor + 1 /\ Member(section, g[1], j).q = t + 2
        /\ cursor < Len(Fields)
    BY <1>0, <1>2, <1>3, <1>6, <2>1, NextKey
  <2> HIDE DEF i, j
  <2>3. cursor' = cursor + 1
    BY <1>0, <1>6, <2>1, <2>2, PlaceMoves
  <2>4. Begun(section, Tokens, printed', Len(printed')) /\ Len(printed') = t + 1
    <3>1. printed' = Append(printed, e.value)
      BY <1>6, <2>2
    <3> QED BY <1>0, <2>2, <3>1, TokenPrinted
  <2>5. Member(section, g[1], j).p = cursor' /\ Member(section, g[1], j).q = Len(printed') + 1
    <3>1. t \in Nat
      BY <1>0, PrintFacts
    <3>2. (t + 1) + 1 = t + 2
      BY <3>1
    <3> QED BY <2>2, <2>3, <2>4, <3>2
  <2>6. j = Members(section[g[1].o]) - (IF f.type = "map" THEN 2 * (f.left - 1) ELSE f.left - 1)
    BY <1>6, <2>2
  <2> QED BY <1>0, <1>2, <1>3, <1>6, <2>1, <2>4, <2>5, <2>6, PrintGoesOn
<1>7. CASE at' = "idle" /\ starved' = TRUE /\ printed' = printed
  BY <1>7, PrintFails
<1>8. CASE at' = "crashed" /\ printed' = printed
  BY <1>8, PrintFails
<1> QED BY <1>2, <1>4, <1>5, <1>6, <1>7, <1>8 DEF DumpMember, Emit, Starve, Return

\* A dump begins with the first node and the first token.
LEMMA DumpBegins ==
  ASSUME LookupInv, Given, Sound, Wanted.error = "SUCCESS", Listed, printed = <<>>,
         CallDump
  PROVE  PrintsOn
<1> DEFINE w == Wanted.offset
           h == <<[o |-> w, p |-> 1, q |-> 1]>>
<1>1. Valid(section, w) /\ section[w].type # "pointer" /\ w \in Nat
  BY WantedValid
<1>2. /\ cursor' = 1 /\ frames' = <<>> /\ at' = "dump" /\ printed' = printed
  BY DEF CallDump
<1>3. /\ Fields \in Seq(Nat) /\ Tokens \in Seq(Nat)
      /\ Len(Fields) \in Nat /\ Len(Tokens) \in Nat
  BY <1>1, FieldsBegin DEF Fields, Tokens
<1>4. ASSUME NEW xs, Len(xs) \in Nat
      PROVE  Holds(xs, 1, xs)
  <2>1. \A k \in 1 .. Len(xs) : 1 + k - 1 = k
    BY <1>4
  <2>2. 1 \in Nat \ {0} /\ 1 + Len(xs) <= Len(xs) + 1
    BY <1>4
  <2> QED BY <2>1, <2>2 DEF Holds
<1>5. /\ h \in Seq(Spot) /\ Len(h) = 1
      /\ h[1].o = w /\ h[1].p = 1 /\ h[1].q = 1
  BY <1>1 DEF Spot
<1>6. Fields = Reading(section)[w].fields /\ Tokens = Reading(section)[w].text
  BY DEF Fields, Tokens
<1>7. Len(frames') = 0 /\ 1 .. Len(frames') = {}
  BY <1>2
<1>8. Begun(section, Tokens, printed', Len(printed'))
  <2>1. Len(printed') = 0 /\ printed' = <<>> /\ 0 \in 0 .. Len(Tokens) /\ 1 .. 0 = {}
    BY <1>2, <1>3
  <2> QED BY <2>1 DEF Begun
<1> HIDE DEF h, w
<1>9. Laid(section, Fields, Tokens, h[1])
  <2>1. Holds(Fields, 1, Fields) /\ Holds(Tokens, 1, Tokens)
    BY <1>3, <1>4
  <2> QED BY <1>1, <1>5, <1>6, <2>1 DEF Laid
<1>10. Loops(section, Fields, Tokens, h, frames')
  BY <1>5, <1>6, <1>7, <1>9 DEF Loops
<1>11. Reaching(section, Fields, Tokens, cursor', Len(printed'), frames', h)
  <2>1. Len(printed') + 1 = 1
    BY <1>2
  <2> QED BY <1>2, <1>5, <1>10, <2>1 DEF Reaching
<1> QED BY <1>2, <1>5, <1>8, <1>11 DEF PrintsOn

\* A step of the dump keeps what is said of it.
LEMMA PrintsStay ==
  ASSUME PrintsOn, Listed, nodes' = nodes, section' = section, args' = args,
         Wanted.error = "SUCCESS"
  PROVE  Dumped'
<1>1. Wanted' = Wanted /\ Fields' = Fields /\ Tokens' = Tokens
  BY WantedStays
<1>2. ASSUME Dumping'
      PROVE  \E h \in Seq(Spot) : DumpedTo(h)'
  <2>1. CASE at' = "dump"
    <3>1. PICK h \in Seq(Spot) :
            Reaching(section, Fields, Tokens, cursor', Len(printed'), frames', h)
      BY <2>1 DEF PrintsOn
    <3>2. DumpedTo(h)'
      BY <1>1, <2>1, <3>1 DEF DumpedTo
    <3> QED BY <3>2
  <2>2. CASE at' = "member" /\ frames' # <<>>
    <3>1. PICK h \in Seq(Spot) :
            Between(section, Fields, Tokens, Place', Len(printed'), Head(frames'),
                    Tail(frames'), h)
      BY <2>2 DEF PrintsOn
    <3>2. DumpedTo(h)'
      BY <1>1, <2>2, <3>1 DEF DumpedTo
    <3> QED BY <3>2
  <2>3. CASE at' = "member" /\ frames' = <<>>
    <3>1. DumpedTo(<<>>)'
      BY <1>1, <2>3 DEF PrintsOn, DumpedTo
    <3>2. <<>> \in Seq(Spot)
      OBVIOUS
    <3> QED BY <3>1, <3>2
  <2> QED BY <1>2, <2>1, <2>2, <2>3 DEF Dumping
<1>3. Listed'
  BY <1>1 DEF Listed
<1>4. Begun(section, Tokens, printed, Len(printed))'
  BY <1>1 DEF PrintsOn
<1>5. at' = "idle" => starved' \/ Len(printed') = Len(Tokens')
  BY <1>1 DEF PrintsOn
<1> QED BY <1>1, <1>2, <1>3, <1>4, <1>5 DEF Dumped

\* The value at the path is printed token by token.
LEMMA DumpedKept ==
  ASSUME LookupInv, Given, Listing, Dumped, Step
  PROVE  Dumped'
<1>1. section' = section /\ args' = args
  BY InputFixed
<1>2. Sound' = Sound
  BY <1>1, WantedStays
<1>3. SUFFICES ASSUME pc' = "dump", Sound PROVE Dumped'
  BY <1>2 DEF Dumped
<1>4. Controlled
  BY DEF LookupInv
<1>5. CASE ListDone
  <2>1. pc = "list" /\ at = "idle" /\ status = "SUCCESS" /\ CallDump
    BY <1>3, <1>5 DEF ListDone
  <2>2. Wanted.error = "SUCCESS" /\ Listed
    BY <1>3, <2>1 DEF Listing
  <2>3. printed = <<>>
    BY <2>1 DEF Given
  <2>4. PrintsOn
    BY <1>3, <2>1, <2>2, <2>3, DumpBegins
  <2>5. nodes' = nodes
    BY <2>1 DEF CallDump, listVars
  <2> QED BY <1>1, <2>2, <2>4, <2>5, PrintsStay
<1>6. CASE LibraryStep /\ UNCHANGED programVars
  <2>1. pc = "dump"
    BY <1>3, <1>6 DEF programVars
  <2>2. DumpStep /\ Dumping
    BY <1>4, <1>6, <2>1 DEF LibraryStep, GetValueStep, GetListStep, LookupInArray,
                            LookupInMap, LookupInSimple, EndOfPath, Enter, Overflow,
                            Chase, Element, Returned, Controlled, Building, DumpStep, DumpField,
                            DumpMember, Dumping
  <2>3. Wanted.error = "SUCCESS" /\ Listed /\ Begun(section, Tokens, printed, Len(printed))
    BY <1>3, <2>1 DEF Dumped
  <2>4. PICK g \in Seq(Spot) : DumpedTo(g)
    BY <1>3, <2>1, <2>2 DEF Dumped
  <2>5. Prints
    BY <1>3, <2>1, <2>3 DEF Prints
  <2>6. nodes' = nodes
    BY <2>2 DEF DumpStep, DumpField, DumpMember, listVars
  <2>7. CASE DumpField
    <3>1. Reaching(section, Fields, Tokens, cursor, Len(printed), frames, g)
      BY <2>4, <2>7 DEF DumpedTo, DumpField
    <3>2. PrintsOn
      BY <2>5, <2>7, <3>1, PrintField
    <3> QED BY <1>1, <2>3, <2>6, <3>2, PrintsStay
  <2>8. CASE DumpMember
    <3>1. PrintsOn
      BY <2>4, <2>5, <2>8, PrintMember
    <3> QED BY <1>1, <2>3, <2>6, <3>1, PrintsStay
  <2> QED BY <2>2, <2>7, <2>8 DEF DumpStep
<1>7. CASE GetOptions \/ OpenOrDie \/ Lookup \/ ValueFound
  BY <1>3, <1>7 DEF GetOptions, OpenOrDie, Lookup, LookupOrDie, ValueFound, Exit
<1>8. CASE DumpDone \/ End
  BY <1>3, <1>8 DEF DumpDone, End, FreeOverflow
<1>9. CASE Benchmark \/ BenchmarkListDone
  BY <1>3, <1>9 DEF Benchmark, BenchmarkListDone, FreeOverflow, LookupOrDie, Exit
<1> QED BY <1>5, <1>6, <1>7, <1>8, <1>9 DEF Step

-----------------------------------------------------------------------------
(* How the program ends.                                                   *)

\* What became of the address decides what the program returns.
LEMMA ClosingKept ==
  ASSUME LookupInv, Given, ValueAtPath, Listing, Dumped, Closing, Step
  PROVE  Closing'
<1>1. section' = section /\ args' = args
  BY InputFixed
<1>2. /\ Start' = Start /\ Sound' = Sound /\ Wanted' = Wanted /\ Tokens' = Tokens
      /\ EarlyExit' = EarlyExit
  BY <1>1, WantedStays DEF EarlyExit
<1> DEFINE Told(c, out, s) ==
             /\ c = "6" <=> Start = NoEntry
             /\ c = "0" /\ Sound =>
                  /\ Wanted.error = "SUCCESS"
                  /\ Begun(section, Tokens, out, Len(out))
                  /\ s \/ Len(out) = Len(Tokens)
             /\ c = "5" /\ Sound => Wanted.error # "SUCCESS" \/ s
<1>3. SUFFICES /\ pc' = "end" => code' \in {"0", "5", "6"}
               /\ (pc' \in {"end", "exit"} /\ args.benchmark = 0
                     /\ code' \in {"0", "5", "6"} /\ EarlyExit = "none") =>
                    Told(code', printed', starved')
  BY <1>1, <1>2 DEF Closing
<1>4. SUFFICES ASSUME pc' \in {"end", "exit"}
               PROVE  /\ pc' = "end" => code' \in {"0", "5", "6"}
                      /\ (args.benchmark = 0 /\ code' \in {"0", "5", "6"}
                            /\ EarlyExit = "none") => Told(code', printed', starved')
  OBVIOUS
<1>5. Controlled
  BY DEF LookupInv
<1>6. CASE GetOptions
  <2>1. EarlyExit # "none" /\ pc' = "exit"
    BY <1>4, <1>6 DEF GetOptions, Exit
  <2> QED BY <2>1
<1>7. CASE OpenOrDie
  <2>1. pc' = "exit" /\ code' = "2"
    BY <1>4, <1>7 DEF OpenOrDie, Exit
  <2> QED BY <2>1
<1>8. CASE Lookup
  <2>1. \/ pc' = "exit" /\ code' \in {"3", "4"}
        \/ pc' = "end" /\ code' = "6" /\ Start = NoEntry
    BY <1>4, <1>8 DEF Lookup, LookupOrDie, Exit, Start
  <2> QED BY <2>1
<1>9. CASE ValueFound
  <2>1. /\ pc = "value" /\ at = "idle" /\ status # "SUCCESS"
        /\ pc' = "end" /\ code' = "5"
    BY <1>4, <1>9 DEF ValueFound
  <2>2. Start # NoEntry /\ (Sound => Wanted.error # "SUCCESS")
    BY <2>1 DEF Given, ValueAtPath
  <2> QED BY <2>1, <2>2
<1>10. CASE ListDone
  <2>1. /\ pc = "list" /\ at = "idle" /\ status # "SUCCESS"
        /\ pc' = "end" /\ code' = "5" /\ starved' = starved
    BY <1>4, <1>10 DEF ListDone, entryVars
  <2>2. Start # NoEntry /\ (Sound => starved)
    BY <2>1 DEF Given, Listing
  <2> QED BY <2>1, <2>2
<1>11. CASE DumpDone
  <2>1. /\ pc = "dump" /\ at = "idle" /\ pc' = "end" /\ code' = "0"
        /\ starved' = starved /\ printed' = printed
    BY <1>11 DEF DumpDone, entryVars, dumpVars
  <2>2. Start # NoEntry
    BY <2>1 DEF Given
  <2>3. Sound => /\ Wanted.error = "SUCCESS"
                 /\ Begun(section, Tokens, printed, Len(printed))
                 /\ starved \/ Len(printed) = Len(Tokens)
    BY <2>1 DEF Dumped
  <2> QED BY <2>1, <2>2, <2>3
<1>12. CASE End
  <2>1. /\ pc = "end" /\ code' = code
        /\ starved' = starved /\ printed' = printed
    BY <1>12 DEF End, FreeOverflow, dumpVars
  <2> QED BY <2>1 DEF Closing
<1>13. CASE Benchmark
  <2>1. args.benchmark # 0 /\ pc' # "end"
    BY <1>4, <1>13 DEF Benchmark, Given, LookupOrDie, Exit
  <2> QED BY <2>1
<1>14. CASE BenchmarkListDone
  <2>1. args.benchmark # 0 /\ pc' # "end"
    BY <1>4, <1>14 DEF BenchmarkListDone, FreeOverflow, Given, Exit
  <2> QED BY <2>1
<1>15. CASE LibraryStep /\ UNCHANGED programVars
  <2>1. pc \in {"value", "list", "dump", "benchmark_list"} /\ pc' = pc
    BY <1>5, <1>15 DEF programVars, LibraryStep, GetValueStep, GetListStep, LookupInArray,
                       LookupInMap, LookupInSimple, EndOfPath, Enter, Overflow, Chase,
                       Element, Returned, Controlled, Building, DumpStep, DumpField, DumpMember,
                       Dumping
  <2> QED BY <1>4, <2>1
<1> QED BY <1>6, <1>7, <1>8, <1>9, <1>10, <1>11, <1>12, <1>13, <1>14, <1>15 DEF Step

-----------------------------------------------------------------------------
(* The theorems.                                                           *)

LEMMA ValuesInvInit == Init => ValuesInv
<1> SUFFICES ASSUME Init PROVE ValuesInv
  OBVIOUS
<1>1. /\ pc = "options" /\ at = "idle" /\ code = "none" /\ printed = <<>>
      /\ args \in {input.args : input \in Inputs}
  BY DEF Init
<1>2. Given
  BY <1>1 DEF Given
<1>3. Finding /\ ValueAtPath /\ Listing /\ Dumped /\ Closing
  BY <1>1 DEF Finding, ValueAtPath, Listing, Dumped, Closing
<1> QED BY <1>2, <1>3 DEF ValuesInv

LEMMA ValuesInvNext == LookupInv /\ ValuesInv /\ [Next]_vars => ValuesInv'
<1> SUFFICES ASSUME LookupInv, ValuesInv, [Next]_vars PROVE ValuesInv'
  OBVIOUS
<1>1. Given /\ Finding /\ ValueAtPath /\ Listing /\ Dumped /\ Closing
  BY DEF ValuesInv
<1>2. CASE Step
  <2>1. Given'
    BY <1>1, <1>2, GivenKept
  <2>2. Finding' /\ ValueAtPath'
    BY <1>1, <1>2, FindingKept
  <2>3. Listing'
    BY <1>1, <1>2, ListingKept
  <2>4. Dumped'
    BY <1>1, <1>2, DumpedKept
  <2>5. Closing'
    BY <1>1, <1>2, ClosingKept
  <2> QED BY <2>1, <2>2, <2>3, <2>4, <2>5 DEF ValuesInv
<1>3. CASE UNCHANGED vars
  <2>1. /\ UNCHANGED <<section, at, status, path, entry, call, nodes, frames>>
        /\ UNCHANGED <<cursor, printed, starved, args, pc, code>>
    BY <1>3 DEF vars, entryVars, getVars, listVars, dumpVars, programVars
  <2>2. /\ Start' = Start /\ Sound' = Sound /\ Wanted' = Wanted /\ Fields' = Fields
        /\ Tokens' = Tokens /\ EarlyExit' = EarlyExit /\ \A i : Stop(i)' = Stop(i)
    BY <2>1, WantedStays DEF EarlyExit, Stop
  <2>3. Given'
    BY <1>1, <2>1, <2>2 DEF Given
  <2>4. Finding' /\ ValueAtPath'
    BY <1>1, <2>1, <2>2 DEF Finding, ValueAtPath, IsCompound
  <2>5. Listing'
    <3>1. Listed' = Listed /\ Building' = Building
      BY <2>1, <2>2 DEF Listed, Building
    <3>2. \A g : BuiltTo(g)' = BuiltTo(g)
      BY <2>1, <2>2 DEF BuiltTo
    <3> QED BY <1>1, <2>1, <2>2, <3>1, <3>2 DEF Listing
  <2>6. Dumped'
    <3>1. Listed' = Listed /\ Dumping' = Dumping
      BY <2>1, <2>2 DEF Listed, Dumping
    <3>2. \A g : DumpedTo(g)' = DumpedTo(g)
      BY <2>1, <2>2 DEF DumpedTo, Place
    <3> QED BY <1>1, <2>1, <2>2, <3>1, <3>2 DEF Dumped
  <2>7. Closing'
    BY <1>1, <2>1, <2>2 DEF Closing
  <2> QED BY <2>3, <2>4, <2>5, <2>6, <2>7 DEF ValuesInv
<1> QED BY <1>2, <1>3 DEF Next

\* At every step of the program what has been decoded, listed and printed is a part of
\* what the section stands for, for every section.
THEOREM ValuesInvariant == Spec => []ValuesInv
BY ValuesInvInit, ValuesInvNext, LookupInvariant, PTL DEF Spec

\* The value mmdblookup finds at a path is the one the section has there, and an error
\* has the name of what is wrong with the path.
THEOREM PathLeadsToValue == Spec => []ValueAtPath
<1>1. ValuesInv => ValueAtPath
  BY DEF ValuesInv
<1> QED BY <1>1, ValuesInvariant, PTL

\* A list that is complete has the fields of the value, in their order.
LEMMA ListedIsPreorder ==
  ASSUME LookupInv, Listed, DOMAIN Fields = 1 .. Len(Fields), Len(Fields) \in Nat
  PROVE  [i \in DOMAIN List |->
            LET e == nodes[List[i]].entry
            IN  [type |-> e.type, value |-> e.value, size |-> e.size, offset |-> e.offset]]
         = Preorder(section, Wanted.offset)
<1> DEFINE Item(e) == [type |-> e.type, value |-> e.value, size |-> e.size,
                       offset |-> e.offset]
           Kind(p) == [type |-> section[p].type, value |-> section[p].value,
                       size |-> section[p].size, offset |-> p]
           n == Len(Fields)
<1>1. Len(nodes) \in Nat /\ (nodes = <<>> <=> Len(nodes) = 0)
  BY NodesCountable DEF LookupInv, Typed
<1>2. List = [k \in 1 .. Len(nodes) |-> k] /\ Len(nodes) = n
  BY <1>1, ListIsAll DEF LookupInv, Listed
<1>3. DOMAIN List = 1 .. n /\ \A i \in 1 .. n : List[i] = i
  BY <1>2
<1>4. \A i \in 1 .. n : Item(nodes[i].entry) = Kind(Fields[i])
  BY <1>2 DEF Listed, Filled
<1>5. \A i \in 1 .. n : Item(nodes[List[i]].entry) = Kind(Fields[i])
  BY <1>3, <1>4
<1>6. Preorder(section, Wanted.offset) = [i \in 1 .. n |-> Kind(Fields[i])]
  BY DEF Preorder, Fields
<1> HIDE DEF n, Item, Kind
<1>7. [i \in DOMAIN List |-> Item(nodes[List[i]].entry)] = [i \in 1 .. n |-> Kind(Fields[i])]
  BY <1>3, <1>5
<1> QED BY <1>6, <1>7 DEF Item

\* The list that is built of a value holds each of its fields once, in the order of the
\* section, with what a pointer leads to in its place.
THEOREM ListHoldsValue == Spec => []ListIsPreorder
<1>1. LookupInv /\ ValuesInv => ListIsPreorder
  <2> SUFFICES ASSUME LookupInv, ValuesInv,
                      pc = "list" /\ at = "idle" /\ status = "SUCCESS" /\ Sound
               PROVE  [i \in DOMAIN List |->
                         LET e == nodes[List[i]].entry
                         IN  [type |-> e.type, value |-> e.value, size |-> e.size,
                              offset |-> e.offset]]
                      = Preorder(section, Wanted.offset)
    BY DEF ListIsPreorder
  <2>1. Given /\ Listing
    BY DEF ValuesInv
  <2>2. Listed /\ Wanted.error = "SUCCESS"
    BY <2>1 DEF Listing
  <2>3. Valid(section, Wanted.offset)
    BY <2>1, <2>2, WantedValid
  <2>4. Fields \in Seq(Nat)
    BY <2>3, FieldsBegin DEF Fields
  <2>5. DOMAIN Fields = 1 .. Len(Fields) /\ Len(Fields) \in Nat
    BY <2>4, LenProperties
  <2> QED BY <2>2, <2>5, ListedIsPreorder
<1> QED BY <1>1, LookupInvariant, ValuesInvariant, PTL

\* What has been printed is a beginning of the text, and all of it when it is as long.
LEMMA BegunText ==
  ASSUME LookupInv, Given, Sound, Wanted.error = "SUCCESS",
         Begun(section, Tokens, printed, Len(printed))
  PROVE  /\ Len(printed) <= Len(WantedText)
         /\ printed = SubSeq(WantedText, 1, Len(printed))
         /\ Len(printed) = Len(Tokens) => printed = WantedText
<1> DEFINE n == Len(Tokens)
           t == Len(printed)
           w == WantedText
<1>1. Valid(section, Wanted.offset)
  BY WantedValid
<1>2. n \in Nat
  BY <1>1, FieldsBegin DEF Tokens
<1>3. w = [i \in 1 .. n |-> TokenOf(section, Tokens[i])]
  BY DEF WantedText, Text, Tokens, TokenOf
<1>4. t \in 0 .. n /\ printed = [i \in 1 .. t |-> TokenOf(section, Tokens[i])]
  BY DEF Begun
<1> HIDE DEF n, t, w
<1>5. Len(w) = n
  BY <1>2, <1>3
<1>6. SubSeq(w, 1, t) = [i \in 1 .. t |-> w[i]]
  <2>1. t \in Nat
    BY <1>2, <1>4
  <2>2. SubSeq(w, 1, t) = [i \in 1 .. (1 + t - 1) |-> w[i]]
    BY <2>1
  <2> QED BY <2>1, <2>2
<1>7. \A i \in 1 .. t : w[i] = TokenOf(section, Tokens[i])
  BY <1>2, <1>3, <1>4
<1>8. printed = SubSeq(w, 1, t)
  BY <1>4, <1>6, <1>7
<1>9. t <= Len(w)
  BY <1>2, <1>4, <1>5
<1>10. t = n => printed = w
  BY <1>3, <1>4
<1> QED BY <1>8, <1>9, <1>10 DEF n, t, w

\* The text that is printed is that of the value, up to its end unless memory ran out.
THEOREM PrintsValue == Spec => []PrintedIsValue
<1>1. LookupInv /\ ValuesInv => PrintedIsValue
  <2> SUFFICES ASSUME LookupInv, ValuesInv, pc \in {"dump", "end"}, code # "5", Sound
               PROVE  /\ Len(printed) <= Len(WantedText)
                      /\ printed = SubSeq(WantedText, 1, Len(printed))
                      /\ at = "idle" /\ ~ starved => printed = WantedText
    BY DEF PrintedIsValue
  <2>1. Given /\ Dumped /\ Closing
    BY DEF ValuesInv
  <2>2. SUFFICES /\ Wanted.error = "SUCCESS"
                 /\ Begun(section, Tokens, printed, Len(printed))
                 /\ at = "idle" /\ ~ starved => Len(printed) = Len(Tokens)
    BY <2>1, BegunText
  <2>3. CASE pc = "dump"
    BY <2>1, <2>3 DEF Dumped
  <2>4. CASE pc = "end"
    <3>1. EarlyExit = "none" /\ args.benchmark = 0 /\ code \in {"0", "6"}
      BY <2>1, <2>4 DEF Given, Closing, Sound
    <3>2. Start # NoEntry
      <4>1. Start \in DOMAIN section
        BY DEF Sound, IsLegal
      <4>2. IsSection(section)
        BY <2>1, Section
      <4> QED BY <4>1, <4>2, ProgramAssumption DEF IsSection
    <3>3. code = "0"
      BY <2>1, <2>4, <3>1, <3>2 DEF Closing
    <3> QED BY <2>1, <2>4, <3>1, <3>3 DEF Closing
  <2> QED BY <2>3, <2>4
<1> QED BY <1>1, LookupInvariant, ValuesInvariant, PTL

\* The exit code tells what became of the address: nothing but the value at the path
\* ends with 0, and a value that is there ends with 5 only for lack of memory.
THEOREM ExitCodeIsRight == Spec => []ExitCodeTells
<1>1. LookupInv /\ ValuesInv => ExitCodeTells
  <2> SUFFICES ASSUME LookupInv, ValuesInv,
                      pc = "exit" /\ args.benchmark = 0 /\ code \in {"0", "5", "6"}
                        /\ EarlyExit = "none"
               PROVE  /\ (code = "6") <=> (Start = NoEntry)
                      /\ (code = "0" /\ Sound) =>
                           Wanted.error = "SUCCESS" /\ (starved \/ printed = WantedText)
                      /\ (code = "5" /\ Sound) => Wanted.error # "SUCCESS" \/ starved
    BY DEF ExitCodeTells
  <2>1. Given /\ Closing
    BY DEF ValuesInv
  <2>2. /\ code = "6" <=> Start = NoEntry
        /\ code = "0" /\ Sound =>
             /\ Wanted.error = "SUCCESS"
             /\ Begun(section, Tokens, printed, Len(printed))
             /\ starved \/ Len(printed) = Len(Tokens)
        /\ code = "5" /\ Sound => Wanted.error # "SUCCESS" \/ starved
    BY <2>1 DEF Closing
  <2>3. ASSUME code = "0", Sound
        PROVE  Wanted.error = "SUCCESS" /\ (starved \/ printed = WantedText)
    BY <2>1, <2>2, <2>3, BegunText
  <2> QED BY <2>2, <2>3
<1> QED BY <1>1, LookupInvariant, ValuesInvariant, PTL
=============================================================================
