------------------------- MODULE DataSection_proofs -------------------------
(***************************************************************************)
(* What the readings of DataSection are, for every section: each legal     *)
(* value is read from the readings of its members, and the value at a path *)
(* is legal when the one the path begins at is.                            *)
(***************************************************************************)
EXTENDS DataSection, Facts_proofs

\* A section has a first field, and its numbers are natural.
IsSection(sec) ==
  /\ Len(sec) \in Nat /\ DOMAIN sec = 1 .. Len(sec)
  /\ \A o \in 1 .. Len(sec) :
       sec[o].size \in Nat /\ sec[o].cells \in Nat /\ sec[o].pointer \in Nat

Outcome == [legal : BOOLEAN, end : Nat, fields : Seq(Nat), text : Seq(Nat)]

Outcomes(sec) == [DOMAIN sec -> Outcome]

-----------------------------------------------------------------------------
(* Recursive functions of DataSection exist.                               *)

\* An illegal reading, and a legal one.
LEMMA IllegalIn == Illegal \in Outcome /\ ~ Illegal.legal
<1>1. <<>> \in Seq(Nat)
  OBVIOUS
<1> QED BY <1>1 DEF Illegal, Outcome

LEMMA LegalIn ==
  ASSUME NEW e \in Nat, NEW fields \in Seq(Nat)
  PROVE  /\ Legal(e, fields) \in Outcome
         /\ Legal(e, fields).legal
         /\ Legal(e, fields).end = e
         /\ Legal(e, fields).fields = fields /\ Legal(e, fields).text = fields
BY DEF Legal, Outcome

\* What is read behind a member.
LEMMA JoinedIn ==
  ASSUME NEW sec, NEW R \in Outcomes(sec), NEW o, NEW i, NEW before \in Outcome
  PROVE  Joined(sec, o, R, i, before) \in Outcome
<1> DEFINE member == IF before.end \in DOMAIN sec THEN R[before.end] ELSE Illegal
<1>1. member \in Outcome
  BY IllegalIn DEF Outcomes, Outcome
<1> HIDE DEF member
<1>2. /\ before.fields \in Seq(Nat) /\ before.text \in Seq(Nat)
      /\ member.fields \in Seq(Nat) /\ member.text \in Seq(Nat) /\ member.end \in Nat
  BY <1>1 DEF Outcome
<1>3. before.fields \o member.fields \in Seq(Nat) /\ before.text \o member.text \in Seq(Nat)
  BY <1>2, ConcatProperties
<1> QED BY <1>2, <1>3 DEF Joined, Outcome, member

\* The members of a field are counted.
LEMMA MembersNat ==
  ASSUME NEW sec, IsSection(sec), NEW o \in DOMAIN sec
  PROVE  Members(sec[o]) \in Nat
BY DEF Members, IsSection

\* The members of a container are read one after the other.
LEMMA PartsRead ==
  ASSUME NEW sec, IsSection(sec), NEW R \in Outcomes(sec), NEW o \in DOMAIN sec
  PROVE  /\ Parts(sec, o, R) \in [0 .. Members(sec[o]) -> Outcome]
         /\ Parts(sec, o, R)[0] = Legal(o + sec[o].cells, <<>>)
         /\ \A i \in 1 .. Members(sec[o]) :
              Parts(sec, o, R)[i] = Joined(sec, o, R, i, Parts(sec, o, R)[i - 1])
<1> DEFINE n == Members(sec[o])
           c == Legal(o + sec[o].cells, <<>>)
           step == [p \in Nat \X Outcome |-> Joined(sec, o, R, p[1], p[2])]
           It(f) == f = [i \in 0 .. n |->
                          IF i = 0 THEN c ELSE Joined(sec, o, R, i, f[i - 1])]
           P == CHOOSE f : It(f)
<1>1. n \in Nat
  BY MembersNat
<1>2. c \in Outcome
  <2>1. o + sec[o].cells \in Nat /\ <<>> \in Seq(Nat)
    BY DEF IsSection
  <2> QED BY <2>1, LegalIn
<1> HIDE DEF n, c
<1>3. step \in [Nat \X Outcome -> Outcome]
  BY JoinedIn
<1>4. \A i \in Nat : \A x \in Outcome : step[<<i, x>>] = Joined(sec, o, R, i, x)
  OBVIOUS
<1> HIDE DEF step
<1>5. PICK g \in [0 .. n -> Outcome] : Iterated(g, n, c, step)
  BY <1>1, <1>2, <1>3, IteratedTo
<1>6. ASSUME NEW i \in 0 .. n
      PROVE  g[i] = IF i = 0 THEN c ELSE Joined(sec, o, R, i, g[i - 1])
  <2>1. CASE i = 0
    BY <2>1, <1>5 DEF Iterated
  <2>2. CASE i # 0
    <3>1. i \in 1 .. n /\ i - 1 \in 0 .. n /\ i \in Nat
      BY <2>2, <1>1
    <3>2. g[i] = step[<<i, g[i - 1]>>]
      BY <3>1, <1>5 DEF Iterated
    <3>3. g[i - 1] \in Outcome
      BY <3>1, <1>5
    <3> QED BY <3>1, <3>2, <3>3, <2>2, <1>4
  <2> QED BY <2>1, <2>2
<1>7. It(g)
  <2>1. g = [i \in 0 .. n |-> g[i]]
    BY <1>5
  <2> QED BY <2>1, <1>6
<1>8. It(P)
  BY <1>7
<1>9. Parts(sec, o, R) = P
  BY DEF Parts, P, n, c
<1> HIDE DEF P
<1>10. \A i \in 0 .. n : P[i] = IF i = 0 THEN c ELSE Joined(sec, o, R, i, P[i - 1])
  BY <1>8
<1>11. P[0] = c /\ \A i \in 1 .. n : P[i] = Joined(sec, o, R, i, P[i - 1])
  BY <1>10, <1>1
<1>12. \A i \in 0 .. n : P[i] \in Outcome
  <2> DEFINE T == {i \in 0 .. n : P[i] \notin Outcome}
  <2>1. T = {}
    <3> SUFFICES ASSUME T # {} PROVE FALSE
      OBVIOUS
    <3>1. PICK i \in T : \A j \in T : i <= j
      <4>1. T \subseteq Nat
        OBVIOUS
      <4> QED BY <4>1, LeastNat
    <3>2. i # 0 /\ i \in 1 .. n /\ i - 1 \in 0 .. n /\ i - 1 \notin T
      BY <3>1, <1>11, <1>2, <1>1
    <3>3. P[i - 1] \in Outcome
      BY <3>2
    <3>4. P[i] \in Outcome
      BY <3>2, <3>3, <1>11, JoinedIn
    <3> QED BY <3>1, <3>4
  <2> QED BY <2>1
<1>13. P \in [0 .. n -> Outcome]
  <2>1. P = [i \in 0 .. n |-> P[i]]
    BY <1>8
  <2> QED BY <2>1, <1>12
<1> QED BY <1>9, <1>11, <1>13 DEF n, c

\* What is read of a field.
LEMMA ReadIn ==
  ASSUME NEW sec, IsSection(sec), NEW R \in Outcomes(sec), NEW o \in DOMAIN sec
  PROVE  Read(sec, o, R) \in Outcome
<1> DEFINE f == sec[o]
           all == Parts(sec, o, R)[Members(f)]
<1>1. Members(f) \in Nat /\ all \in Outcome
  <2>1. Members(f) \in 0 .. Members(f) /\ Members(f) \in Nat
    BY MembersNat
  <2> QED BY <2>1, PartsRead
<1>2. o \in Nat /\ o + f.cells \in Nat /\ f.pointer \in Nat
  BY DEF IsSection
<1> HIDE DEF all
<1>3. /\ <<o>> \in Seq(Nat) /\ <<Bracket>> \in Seq(Nat) /\ all.fields \in Seq(Nat)
      /\ all.text \in Seq(Nat)
  BY <1>1, <1>2 DEF Outcome, Bracket
<1>4. <<o>> \o all.fields \in Seq(Nat)
  BY <1>3, ConcatProperties
<1>5. <<o>> \o all.text \o <<Bracket>> \in Seq(Nat)
  BY <1>3, ConcatProperties
<1>6. [all EXCEPT !.fields = <<o>> \o @, !.text = <<o>> \o @ \o <<Bracket>>] \in Outcome
  BY <1>1, <1>4, <1>5 DEF Outcome
<1>7. ASSUME Whole(sec, f.pointer)
      PROVE  [R[f.pointer] EXCEPT !.end = o + f.cells] \in Outcome
  BY <1>7, <1>2 DEF Whole, Outcomes, Outcome
<1>8. Illegal \in Outcome /\ Legal(o + f.cells, <<o>>) \in Outcome
  BY <1>2, <1>3, IllegalIn, LegalIn
<1> DEFINE cut == ~ Whole(sec, o) \/ f.type \in {"bad", "other"}
           jump == Whole(sec, o) /\ f.type = "pointer"
           nest == Whole(sec, o) /\ f.type \in {"map", "array"}
<1>9. CASE cut
  BY <1>9, <1>8 DEF Read
<1>10. CASE jump
  <2>1. Read(sec, o, R) =
          IF Whole(sec, f.pointer) /\ sec[f.pointer].type # "pointer"
          THEN [R[f.pointer] EXCEPT !.end = o + f.cells] ELSE Illegal
    BY <1>10 DEF Read
  <2> QED BY <2>1, <1>7, <1>8
<1>11. CASE nest
  <2>1. Read(sec, o, R) =
          IF all.legal
          THEN [all EXCEPT !.fields = <<o>> \o @, !.text = <<o>> \o @ \o <<Bracket>>]
          ELSE Illegal
    BY <1>11 DEF Read, all
  <2> QED BY <2>1, <1>6, <1>8
<1>12. CASE ~ cut /\ ~ jump /\ ~ nest
  BY <1>12, <1>8 DEF Read
<1> QED BY <1>9, <1>10, <1>11, <1>12

\* The readings of values that are nested deeper and deeper.
LEMMA ReadingsRead ==
  ASSUME NEW sec, IsSection(sec)
  PROVE  /\ \A d \in Nat : Readings(sec)[d] \in Outcomes(sec)
         /\ \A o \in DOMAIN sec : Readings(sec)[0][o] = Illegal
         /\ \A d \in Nat : \A o \in DOMAIN sec :
              Readings(sec)[d + 1][o] = Read(sec, o, Readings(sec)[d])
<1> DEFINE S == Outcomes(sec)
           c == [o \in DOMAIN sec |-> Illegal]
           step == [p \in Nat \X S |-> [o \in DOMAIN sec |-> Read(sec, o, p[2])]]
           It(f) == f = [d \in Nat |-> [o \in DOMAIN sec |->
                          IF d = 0 THEN Illegal ELSE Read(sec, o, f[d - 1])]]
           To == CHOOSE f : It(f)
<1>1. c \in S
  BY IllegalIn DEF Outcomes
<1>2. step \in [Nat \X S -> S]
  <2> SUFFICES ASSUME NEW p \in Nat \X S
               PROVE  [o \in DOMAIN sec |-> Read(sec, o, p[2])] \in S
    OBVIOUS
  <2>1. p[2] \in Outcomes(sec)
    OBVIOUS
  <2> QED BY <2>1, ReadIn DEF Outcomes
<1>3. \A d \in Nat : \A x \in S :
        step[<<d, x>>] = [o \in DOMAIN sec |-> Read(sec, o, x)]
  OBVIOUS
<1> HIDE DEF step, c, S
<1>4. PICK g \in [Nat -> S] : Continued(g, c, step)
  BY <1>1, <1>2, IteratedForever
<1>5. \A d \in Nat : g[d + 1] = [o \in DOMAIN sec |-> Read(sec, o, g[d])]
  <2> SUFFICES ASSUME NEW d \in Nat
               PROVE  g[d + 1] = [o \in DOMAIN sec |-> Read(sec, o, g[d])]
    OBVIOUS
  <2>1. g[d] \in S /\ d + 1 \in Nat
    BY <1>4
  <2> QED BY <2>1, <1>3, <1>4 DEF Continued
<1>6. It(g)
  <2>1. ASSUME NEW d \in Nat
        PROVE  g[d] = [o \in DOMAIN sec |->
                        IF d = 0 THEN Illegal ELSE Read(sec, o, g[d - 1])]
    <3>1. CASE d = 0
      BY <3>1, <1>4 DEF c, Continued
    <3>2. CASE d # 0
      <4>1. d - 1 \in Nat /\ (d - 1) + 1 = d
        BY <3>2
      <4>2. g[(d - 1) + 1] = [o \in DOMAIN sec |-> Read(sec, o, g[d - 1])]
        BY <4>1, <1>5
      <4> QED BY <4>1, <4>2, <3>2
    <3> QED BY <3>1, <3>2
  <2>2. g = [d \in Nat |-> g[d]]
    BY <1>4
  <2> QED BY <2>1, <2>2
<1>7. It(To)
  BY <1>6
<1>8. Readings(sec) = To
  BY DEF Readings
<1> HIDE DEF To
<1>9. \A d \in Nat : To[d] = [o \in DOMAIN sec |->
                                IF d = 0 THEN Illegal ELSE Read(sec, o, To[d - 1])]
  BY <1>7
<1>10. To[0] = c
  BY <1>9 DEF c
<1>11. \A d \in Nat : To[d + 1] = [o \in DOMAIN sec |-> Read(sec, o, To[d])]
  <2> SUFFICES ASSUME NEW d \in Nat
               PROVE  To[d + 1] = [o \in DOMAIN sec |-> Read(sec, o, To[d])]
    OBVIOUS
  <2>1. d + 1 \in Nat /\ d + 1 # 0 /\ (d + 1) - 1 = d
    OBVIOUS
  <2> QED BY <2>1, <1>9
<1>12. \A d \in Nat : To[d] \in Outcomes(sec)
  <2> DEFINE T == {d \in Nat : To[d] \notin Outcomes(sec)}
  <2>1. T = {}
    <3> SUFFICES ASSUME T # {} PROVE FALSE
      OBVIOUS
    <3>1. PICK d \in T : \A y \in T : d <= y
      BY LeastNat
    <3>2. CASE d = 0
      BY <3>1, <3>2, <1>10, <1>1 DEF S
    <3>3. CASE d # 0
      <4>1. d - 1 \in Nat /\ (d - 1) + 1 = d /\ To[d - 1] \in Outcomes(sec)
        BY <3>1, <3>3
      <4>2. To[d] = [o \in DOMAIN sec |-> Read(sec, o, To[d - 1])]
        BY <4>1, <1>11
      <4>3. To[d] \in Outcomes(sec)
        BY <4>1, <4>2, ReadIn DEF Outcomes
      <4> QED BY <4>3, <3>1
    <3> QED BY <3>2, <3>3
  <2> QED BY <2>1
<1> QED BY <1>8, <1>10, <1>11, <1>12 DEF c

-----------------------------------------------------------------------------
(* A legal value is read in the same way however deep it is read.          *)

\* Q reads what R reads, and maybe more.
Extends(sec, Q, R) == \A o \in DOMAIN sec : R[o].legal => Q[o] = R[o]

\* What is needed to read a member.
LEMMA JoinedLegal ==
  ASSUME NEW sec, NEW R \in Outcomes(sec), NEW o, NEW i, NEW before,
         Joined(sec, o, R, i, before).legal
  PROVE  /\ before.legal
         /\ before.end \in DOMAIN sec
         /\ R[before.end].legal
         /\ sec[o].type = "map" /\ i % 2 = 1 =>
              sec[Target(sec, before.end)].type = "string"
         /\ Joined(sec, o, R, i, before).end = R[before.end].end
         /\ Joined(sec, o, R, i, before).fields = before.fields \o R[before.end].fields
         /\ Joined(sec, o, R, i, before).text = before.text \o R[before.end].text
<1>1. before.end \in DOMAIN sec
  BY DEF Joined, Illegal
<1> QED BY <1>1 DEF Joined

\* Members that are legal are read alike.
LEMMA PartsExtend ==
  ASSUME NEW sec, IsSection(sec), NEW R \in Outcomes(sec), NEW Q \in Outcomes(sec),
         Extends(sec, Q, R), NEW o \in DOMAIN sec,
         NEW n \in 0 .. Members(sec[o]), Parts(sec, o, R)[n].legal
  PROVE  /\ \A i \in 0 .. n : Parts(sec, o, R)[i].legal
         /\ Parts(sec, o, Q)[n] = Parts(sec, o, R)[n]
<1> DEFINE m == Members(sec[o])
           P == Parts(sec, o, R)
           V == Parts(sec, o, Q)
<1>1. m \in Nat
  BY MembersNat
<1>2. P[0] = V[0] /\ \A i \in 1 .. m : /\ P[i] = Joined(sec, o, R, i, P[i - 1])
                                      /\ V[i] = Joined(sec, o, Q, i, V[i - 1])
  BY PartsRead
<1> HIDE DEF P, V, m
<1>3. n \in 0 .. m /\ P[n].legal
  BY DEF m, P
<1>4. \A i \in 0 .. n : P[i].legal
  <2> DEFINE T == {k \in 0 .. n : ~ P[n - k].legal}
  <2>1. T = {}
    <3> SUFFICES ASSUME T # {} PROVE FALSE
      OBVIOUS
    <3>1. PICK k \in T : \A j \in T : k <= j
      <4>1. T \subseteq Nat
        OBVIOUS
      <4> QED BY <4>1, LeastNat
    <3>2. k # 0
      BY <3>1, <1>3, <1>1
    <3>3. k - 1 \in 0 .. n /\ k - 1 \notin T /\ n - (k - 1) \in 1 .. m
          /\ (n - (k - 1)) - 1 = n - k
      BY <3>1, <3>2, <1>3, <1>1
    <3>4. P[n - (k - 1)].legal
      BY <3>3
    <3>5. P[n - (k - 1)] = Joined(sec, o, R, n - (k - 1), P[n - k])
      BY <3>3, <1>2
    <3>6. Joined(sec, o, R, n - (k - 1), P[n - k]).legal
      BY <3>4, <3>5
    <3>7. P[n - k].legal
      BY <3>6, JoinedLegal
    <3> QED BY <3>1, <3>7
  <2> SUFFICES ASSUME NEW i \in 0 .. n PROVE P[i].legal
    OBVIOUS
  <2>2. n - i \in 0 .. n /\ n - (n - i) = i
    BY <1>3, <1>1
  <2> QED BY <2>1, <2>2
<1>5. \A i \in 0 .. n : V[i] = P[i]
  <2> DEFINE T == {i \in 0 .. n : V[i] # P[i]}
  <2>1. T = {}
    <3> SUFFICES ASSUME T # {} PROVE FALSE
      OBVIOUS
    <3>1. PICK i \in T : \A j \in T : i <= j
      <4>1. T \subseteq Nat
        OBVIOUS
      <4> QED BY <4>1, LeastNat
    <3>2. i # 0 /\ i \in 1 .. m /\ i \in 0 .. n /\ i - 1 \in 0 .. n /\ i - 1 \notin T
      BY <3>1, <1>2, <1>3, <1>1
    <3>3. V[i - 1] = P[i - 1] /\ P[i].legal
      BY <3>2, <1>4
    <3>4. P[i] = Joined(sec, o, R, i, P[i - 1]) /\ V[i] = Joined(sec, o, Q, i, P[i - 1])
      BY <3>2, <3>3, <1>2
    <3>8. Joined(sec, o, R, i, P[i - 1]).legal
      BY <3>3, <3>4
    <3>5. P[i - 1].end \in DOMAIN sec /\ R[P[i - 1].end].legal
      BY <3>8, JoinedLegal
    <3>6. Q[P[i - 1].end] = R[P[i - 1].end]
      BY <3>5 DEF Extends
    <3>7. V[i] = P[i]
      BY <3>4, <3>6 DEF Joined
    <3> QED BY <3>1, <3>7
  <2> QED BY <2>1
<1>6. n \in 0 .. n
  BY <1>3, <1>1
<1> QED BY <1>4, <1>5, <1>6 DEF P, V


IsContainer(f) == f.type \in {"map", "array"}
IsSimple(f) == f.type \notin {"map", "array", "pointer", "bad", "other"}

\* A container around what it holds.
Around(o, all) == [all EXCEPT !.fields = <<o>> \o @, !.text = <<o>> \o @ \o <<Bracket>>]

\* A reading that ends elsewhere.
Ending(reading, e) == [reading EXCEPT !.end = e]

\* What is needed to read a field, and how it is read.
LEMMA ReadLegal ==
  ASSUME NEW sec, NEW R, NEW o \in DOMAIN sec, Read(sec, o, R).legal
  PROVE  /\ Whole(sec, o) /\ sec[o].type \notin {"bad", "other"}
         /\ sec[o].type = "pointer" =>
              /\ Whole(sec, sec[o].pointer) /\ sec[sec[o].pointer].type # "pointer"
              /\ Read(sec, o, R) = Ending(R[sec[o].pointer], o + sec[o].cells)
         /\ IsContainer(sec[o]) =>
              /\ Parts(sec, o, R)[Members(sec[o])].legal
              /\ Read(sec, o, R) = Around(o, Parts(sec, o, R)[Members(sec[o])])
         /\ IsSimple(sec[o]) => Read(sec, o, R) = Legal(o + sec[o].cells, <<o>>)
<1> DEFINE f == sec[o]
           all == Parts(sec, o, R)[Members(f)]
           cut == ~ Whole(sec, o) \/ f.type \in {"bad", "other"}
           jump == Whole(sec, o) /\ f.type = "pointer"
           nest == Whole(sec, o) /\ f.type \in {"map", "array"}
<1>1. ~ cut
  <2> SUFFICES ASSUME cut PROVE FALSE
    OBVIOUS
  <2>1. Read(sec, o, R) = Illegal
    BY DEF Read
  <2> QED BY <2>1, IllegalIn
<1>2. CASE jump
  <2>1. Read(sec, o, R) =
          IF Whole(sec, f.pointer) /\ sec[f.pointer].type # "pointer"
          THEN Ending(R[f.pointer], o + f.cells) ELSE Illegal
    BY <1>2 DEF Read, Ending
  <2> QED BY <2>1, <1>2, IllegalIn DEF IsContainer, IsSimple
<1>3. CASE nest
  <2>1. Read(sec, o, R) = IF all.legal THEN Around(o, all) ELSE Illegal
    BY <1>3 DEF Read, Around
  <2> HIDE DEF all
  <2>2. all.legal /\ Read(sec, o, R) = Around(o, all)
    BY <2>1, IllegalIn
  <2> QED BY <2>2, <1>3 DEF IsContainer, IsSimple, all
<1>4. CASE ~ jump /\ ~ nest
  <2>1. Read(sec, o, R) = Legal(o + f.cells, <<o>>)
    BY <1>1, <1>4 DEF Read
  <2> QED BY <2>1, <1>1, <1>4 DEF IsContainer, IsSimple
<1> QED BY <1>2, <1>3, <1>4

\* A field of any type but those that cannot be read is one of these.
LEMMA Kinds ==
  ASSUME NEW f
  PROVE  f.type = "pointer" \/ f.type \in {"bad", "other"} \/ IsContainer(f) \/ IsSimple(f)
BY DEF IsContainer, IsSimple

\* What can be read can be read when more can be.
LEMMA ReadExtends ==
  ASSUME NEW sec, IsSection(sec), NEW R \in Outcomes(sec), NEW Q \in Outcomes(sec),
         Extends(sec, Q, R), NEW o \in DOMAIN sec, Read(sec, o, R).legal
  PROVE  Read(sec, o, Q) = Read(sec, o, R)
<1> DEFINE f == sec[o]
<1>1. Whole(sec, o) /\ f.type \notin {"bad", "other"}
  BY ReadLegal
<1>2. CASE f.type = "pointer"
  <2>1. /\ Whole(sec, f.pointer) /\ sec[f.pointer].type # "pointer"
        /\ Read(sec, o, R) = [R[f.pointer] EXCEPT !.end = o + f.cells]
    <3>1. Whole(sec, sec[o].pointer)
      BY <1>2, ReadLegal
    <3>2. sec[sec[o].pointer].type # "pointer"
      BY <1>2, ReadLegal
    <3>3. Read(sec, o, R) = Ending(R[sec[o].pointer], o + sec[o].cells)
      BY <1>2, ReadLegal
    <3> QED BY <3>1, <3>2, <3>3 DEF Ending
  <2>2. f.pointer \in DOMAIN sec /\ R[f.pointer] \in Outcome
    BY <2>1 DEF Whole, Outcomes
  <2>3. R[f.pointer].legal
    BY <2>1, <2>2 DEF Outcome
  <2>4. Q[f.pointer] = R[f.pointer]
    BY <2>2, <2>3 DEF Extends
  <2>5. Read(sec, o, Q) = [Q[f.pointer] EXCEPT !.end = o + f.cells]
    BY <1>1, <1>2, <2>1 DEF Read
  <2> QED BY <2>1, <2>4, <2>5
<1>3. CASE IsContainer(f)
  <2>1. Parts(sec, o, R)[Members(f)].legal
    BY <1>3, ReadLegal
  <2>2. Members(f) \in 0 .. Members(f)
    BY MembersNat
  <2>3. Parts(sec, o, Q)[Members(f)] = Parts(sec, o, R)[Members(f)]
    BY <2>1, <2>2, PartsExtend
  <2> QED BY <1>1, <1>3, <2>3 DEF Read, IsContainer
<1>4. CASE IsSimple(f)
  BY <1>1, <1>4 DEF Read, IsSimple
<1> QED BY <1>1, <1>2, <1>3, <1>4, Kinds

\* What is read at one depth is read deeper.
LEMMA ReadingsExtend ==
  ASSUME NEW sec, IsSection(sec), NEW d \in Nat
  PROVE  Extends(sec, Readings(sec)[d + 1], Readings(sec)[d])
<1> DEFINE To == Readings(sec)
           T == {n \in Nat : ~ Extends(sec, To[n + 1], To[n])}
<1>1. /\ \A n \in Nat : To[n] \in Outcomes(sec)
      /\ \A o \in DOMAIN sec : To[0][o] = Illegal
      /\ \A n \in Nat : \A o \in DOMAIN sec : To[n + 1][o] = Read(sec, o, To[n])
  BY ReadingsRead
<1> HIDE DEF To
<1>2. T = {}
  <2> SUFFICES ASSUME T # {} PROVE FALSE
    OBVIOUS
  <2>1. PICK n \in T : \A y \in T : n <= y
    BY LeastNat
  <2>2. CASE n = 0
    <3>1. Extends(sec, To[n + 1], To[n])
      BY <1>1, <2>2, IllegalIn DEF Extends
    <3> QED BY <3>1, <2>1
  <2>3. CASE n # 0
    <3> DEFINE k == n - 1
    <3>1. k \in Nat /\ k + 1 = n /\ k \notin T
      BY <2>1, <2>3
    <3> HIDE DEF k
    <3>2. Extends(sec, To[n], To[k])
      BY <3>1
    <3>3. ASSUME NEW o \in DOMAIN sec, To[n][o].legal
          PROVE  To[n + 1][o] = To[n][o]
      <4>1. To[n][o] = Read(sec, o, To[k]) /\ To[n + 1][o] = Read(sec, o, To[n])
        BY <1>1, <3>1, <2>1
      <4>2. To[k] \in Outcomes(sec) /\ To[n] \in Outcomes(sec)
        BY <1>1, <3>1, <2>1
      <4>3. Read(sec, o, To[k]).legal
        BY <4>1, <3>3
      <4>4. Read(sec, o, To[n]) = Read(sec, o, To[k])
        BY <4>2, <4>3, <3>2, ReadExtends
      <4> QED BY <4>1, <4>4
    <3>4. Extends(sec, To[n + 1], To[n])
      BY <3>3 DEF Extends
    <3> QED BY <3>4, <2>1
  <2> QED BY <2>2, <2>3
<1> QED BY <1>2 DEF To

-----------------------------------------------------------------------------
(* The reading of a legal value.                                           *)

\* Values are read at a depth that is deep enough for what is legal there.
LEMMA ReadingIn ==
  ASSUME NEW sec, IsSection(sec)
  PROVE  Reading(sec) \in Outcomes(sec)
<1>1. 2 * Len(sec) \in Nat
  BY DEF IsSection
<1> QED BY <1>1, ReadingsRead DEF Reading

\* A legal value is read from the readings of what is in it.
LEMMA ReadingFixed ==
  ASSUME NEW sec, IsSection(sec), NEW o \in DOMAIN sec, Reading(sec)[o].legal
  PROVE  Reading(sec)[o] = Read(sec, o, Reading(sec))
<1> DEFINE d == 2 * Len(sec)
           To == Readings(sec)
           k == d - 1
<1>1. d \in Nat /\ Reading(sec) = To[d]
  BY DEF IsSection, Reading
<1>2. d # 0
  <2> HIDE DEF d
  <2> SUFFICES ASSUME d = 0 PROVE FALSE
    OBVIOUS
  <2>1. To[0][o] = Illegal
    BY ReadingsRead
  <2> QED BY <2>1, <1>1, IllegalIn
<1> HIDE DEF d
<1>3. k \in Nat /\ k + 1 = d
  BY <1>1, <1>2
<1> HIDE DEF k
<1>4. To[k] \in Outcomes(sec) /\ To[d] \in Outcomes(sec) /\ Extends(sec, To[d], To[k])
  BY <1>1, <1>3, ReadingsRead, ReadingsExtend
<1>5. To[d][o] = Read(sec, o, To[k])
  BY <1>3, ReadingsRead
<1> HIDE DEF To
<1>6. Read(sec, o, To[k]).legal
  BY <1>1, <1>5
<1>7. Read(sec, o, To[d]) = Read(sec, o, To[k])
  BY <1>4, <1>6, ReadExtends
<1> QED BY <1>1, <1>5, <1>7

\* What is read behind the first i members of a container, and where the i-th begins.
Part(sec, o, i) == Parts(sec, o, Reading(sec))[i]
Kid(sec, o, i) == Part(sec, o, i - 1).end

\* A value of a section that can be read.
Valid(sec, o) == IsSection(sec) /\ IsLegal(sec, o)

\* A legal value is of a type there is.
LEMMA LegalField ==
  ASSUME NEW sec, NEW o, Valid(sec, o)
  PROVE  /\ o \in DOMAIN sec /\ o \in Nat \ {0} /\ Reading(sec)[o] \in Outcome
         /\ Whole(sec, o) /\ sec[o].type \notin {"bad", "other"}
         /\ sec[o].type = "pointer" \/ IsContainer(sec[o]) \/ IsSimple(sec[o])
<1>1. o \in DOMAIN sec /\ IsSection(sec) /\ Reading(sec)[o].legal
  BY DEF Valid, IsLegal
<1>2. Read(sec, o, Reading(sec)).legal
  BY <1>1, ReadingFixed
<1>3. Whole(sec, o) /\ sec[o].type \notin {"bad", "other"}
  BY <1>1, <1>2, ReadLegal
<1>4. Reading(sec)[o] \in Outcome
  BY <1>1, ReadingIn DEF Outcomes
<1>5. o \in Nat \ {0}
  BY <1>1 DEF IsSection
<1> QED BY <1>1, <1>3, <1>4, <1>5, Kinds

\* A pointer is read as what it leads to, which is no pointer, and ends behind itself.
LEMMA LegalPointer ==
  ASSUME NEW sec, NEW o, Valid(sec, o), sec[o].type = "pointer"
  PROVE  /\ Valid(sec, sec[o].pointer) /\ sec[sec[o].pointer].type # "pointer"
         /\ Reading(sec)[o].end = o + sec[o].cells
         /\ Reading(sec)[o].fields = Reading(sec)[sec[o].pointer].fields
         /\ Reading(sec)[o].text = Reading(sec)[sec[o].pointer].text
<1> DEFINE p == sec[o].pointer
<1>1. o \in DOMAIN sec /\ IsSection(sec) /\ Reading(sec)[o].legal
  BY DEF Valid, IsLegal
<1>2. Read(sec, o, Reading(sec)).legal
  BY <1>1, ReadingFixed
<1>3. /\ Whole(sec, p) /\ sec[p].type # "pointer"
      /\ Read(sec, o, Reading(sec)) = Ending(Reading(sec)[p], o + sec[o].cells)
  BY <1>1, <1>2, ReadLegal
<1>4. Reading(sec)[o] = Ending(Reading(sec)[p], o + sec[o].cells)
  BY <1>1, <1>3, ReadingFixed
<1>5. p \in DOMAIN sec /\ Reading(sec)[p] \in Outcome
  BY <1>1, <1>3, ReadingIn DEF Whole, Outcomes
<1>6. /\ Reading(sec)[o].legal = Reading(sec)[p].legal
      /\ Reading(sec)[o].end = o + sec[o].cells
      /\ Reading(sec)[o].fields = Reading(sec)[p].fields
      /\ Reading(sec)[o].text = Reading(sec)[p].text
  BY <1>4, <1>5 DEF Ending, Outcome
<1> QED BY <1>1, <1>3, <1>5, <1>6 DEF Valid, IsLegal

\* A simple value is read as itself.
LEMMA LegalSimple ==
  ASSUME NEW sec, NEW o, Valid(sec, o), IsSimple(sec[o])
  PROVE  /\ Reading(sec)[o].end = o + sec[o].cells
         /\ Reading(sec)[o].fields = <<o>> /\ Reading(sec)[o].text = <<o>>
<1>1. o \in DOMAIN sec /\ IsSection(sec) /\ Reading(sec)[o].legal
  BY DEF Valid, IsLegal
<1>2. Read(sec, o, Reading(sec)).legal
  BY <1>1, ReadingFixed
<1>3. Read(sec, o, Reading(sec)) = Legal(o + sec[o].cells, <<o>>)
  BY <1>1, <1>2, ReadLegal
<1>4. Reading(sec)[o] = Legal(o + sec[o].cells, <<o>>)
  BY <1>1, <1>3, ReadingFixed
<1> QED BY <1>4 DEF Legal

\* A container is read member by member.
LEMMA LegalContainer ==
  ASSUME NEW sec, NEW o, Valid(sec, o), IsContainer(sec[o])
  PROVE  /\ Members(sec[o]) \in Nat
         /\ \A i \in 0 .. Members(sec[o]) : Part(sec, o, i) \in Outcome
         /\ Part(sec, o, 0).end = o + sec[o].cells
         /\ Part(sec, o, 0).fields = <<>> /\ Part(sec, o, 0).text = <<>>
         /\ Reading(sec)[o].end = Part(sec, o, Members(sec[o])).end
         /\ Reading(sec)[o].fields = <<o>> \o Part(sec, o, Members(sec[o])).fields
         /\ Reading(sec)[o].text =
              <<o>> \o Part(sec, o, Members(sec[o])).text \o <<Bracket>>
<1> DEFINE n == Members(sec[o])
           R == Reading(sec)
<1>1. o \in DOMAIN sec /\ IsSection(sec) /\ R[o].legal
  BY DEF Valid, IsLegal
<1>2. R \in Outcomes(sec)
  BY <1>1, ReadingIn
<1>3. n \in Nat /\ n \in 0 .. n
  BY <1>1, MembersNat
<1>4. /\ Parts(sec, o, R) \in [0 .. n -> Outcome]
      /\ Parts(sec, o, R)[0] = Legal(o + sec[o].cells, <<>>)
  BY <1>1, <1>2, PartsRead
<1>5. \A i \in 0 .. n : Part(sec, o, i) \in Outcome
  BY <1>4 DEF Part
<1>6. /\ Part(sec, o, 0).end = o + sec[o].cells
      /\ Part(sec, o, 0).fields = <<>> /\ Part(sec, o, 0).text = <<>>
  BY <1>4 DEF Part, Legal
<1>7. Read(sec, o, R).legal
  BY <1>1, ReadingFixed
<1>8. Read(sec, o, R) = Around(o, Parts(sec, o, R)[n])
  BY <1>1, <1>7, ReadLegal
<1>9. R[o] = Around(o, Part(sec, o, n))
  BY <1>1, <1>8, ReadingFixed DEF Part
<1>10. Part(sec, o, n) \in Outcome
  BY <1>3, <1>5
<1>11. /\ R[o].end = Part(sec, o, n).end
       /\ R[o].fields = <<o>> \o Part(sec, o, n).fields
       /\ R[o].text = <<o>> \o Part(sec, o, n).text \o <<Bracket>>
  BY <1>9, <1>10 DEF Around, Outcome
<1> QED BY <1>3, <1>5, <1>6, <1>11

\* Each member of a legal container is legal, and a key is a string.
LEMMA LegalMember ==
  ASSUME NEW sec, NEW o, Valid(sec, o), IsContainer(sec[o]),
         NEW i \in 1 .. Members(sec[o])
  PROVE  /\ Valid(sec, Kid(sec, o, i))
         /\ sec[o].type = "map" /\ i % 2 = 1 =>
              sec[Target(sec, Kid(sec, o, i))].type = "string"
         /\ Part(sec, o, i).end = Reading(sec)[Kid(sec, o, i)].end
         /\ Part(sec, o, i).fields =
              Part(sec, o, i - 1).fields \o Reading(sec)[Kid(sec, o, i)].fields
         /\ Part(sec, o, i).text =
              Part(sec, o, i - 1).text \o Reading(sec)[Kid(sec, o, i)].text
<1> DEFINE n == Members(sec[o])
           R == Reading(sec)
<1>1. o \in DOMAIN sec /\ IsSection(sec) /\ R[o].legal
  BY DEF Valid, IsLegal
<1>2. R \in Outcomes(sec)
  BY <1>1, ReadingIn
<1>3. n \in Nat /\ n \in 0 .. n /\ i \in 0 .. n
  BY <1>1, MembersNat
<1>4. Read(sec, o, R).legal
  BY <1>1, ReadingFixed
<1>5. Parts(sec, o, R)[n].legal
  BY <1>1, <1>4, ReadLegal
<1>6. Extends(sec, R, R)
  BY DEF Extends
<1>7. Parts(sec, o, R)[i].legal
  BY <1>1, <1>2, <1>3, <1>5, <1>6, PartsExtend
<1>8. Part(sec, o, i) = Joined(sec, o, R, i, Part(sec, o, i - 1))
  BY <1>1, <1>2, PartsRead DEF Part
<1>9. Joined(sec, o, R, i, Part(sec, o, i - 1)).legal
  BY <1>7, <1>8 DEF Part
<1> DEFINE b == Part(sec, o, i - 1)
<1>11. Joined(sec, o, R, i, b).legal
  BY <1>9
<1> HIDE DEF b, R
<1>12. b.end \in DOMAIN sec /\ R[b.end].legal
  BY <1>2, <1>11, JoinedLegal
<1>13. sec[o].type = "map" /\ i % 2 = 1 => sec[Target(sec, b.end)].type = "string"
  BY <1>11, <1>12 DEF Joined
<1>14. Joined(sec, o, R, i, b).end = R[b.end].end
  BY <1>11, <1>12 DEF Joined
<1>15. Joined(sec, o, R, i, b).fields = b.fields \o R[b.end].fields
  BY <1>11, <1>12 DEF Joined
<1>16. Joined(sec, o, R, i, b).text = b.text \o R[b.end].text
  BY <1>11, <1>12 DEF Joined
<1>17. Part(sec, o, i) = Joined(sec, o, R, i, b) /\ Kid(sec, o, i) = b.end
  BY <1>8 DEF Kid, b
<1>18. IsSection(sec)
  BY <1>1
<1> HIDE DEF b
<1>19. Valid(sec, b.end)
  BY <1>12, <1>18 DEF Valid, IsLegal, R
<1> QED BY <1>13, <1>14, <1>15, <1>16, <1>17, <1>19 DEF b, R

-----------------------------------------------------------------------------
(* Where a value lies in the reading of the value it is in.                *)

\* The value that a field stands for is read like the field.
LEMMA TargetRead ==
  ASSUME NEW sec, NEW o, Valid(sec, o)
  PROVE  /\ Valid(sec, Target(sec, o)) /\ sec[Target(sec, o)].type # "pointer"
         /\ Reading(sec)[o].fields = Reading(sec)[Target(sec, o)].fields
         /\ Reading(sec)[o].text = Reading(sec)[Target(sec, o)].text
<1>1. CASE sec[o].type = "pointer"
  BY <1>1, LegalPointer DEF Target
<1>2. CASE sec[o].type # "pointer"
  BY <1>2 DEF Target
<1> QED BY <1>1, <1>2

\* The members of a container are put together one after the other.
LEMMA PartsStaged ==
  ASSUME NEW sec, NEW o, Valid(sec, o), IsContainer(sec[o])
  PROVE  /\ Stages([i \in 0 .. Members(sec[o]) |-> Part(sec, o, i).fields],
                   [i \in 1 .. Members(sec[o]) |-> Reading(sec)[Kid(sec, o, i)].fields],
                   Members(sec[o]))
         /\ Stages([i \in 0 .. Members(sec[o]) |-> Part(sec, o, i).text],
                   [i \in 1 .. Members(sec[o]) |-> Reading(sec)[Kid(sec, o, i)].text],
                   Members(sec[o]))
<1> DEFINE n == Members(sec[o])
           F == [i \in 0 .. n |-> Part(sec, o, i).fields]
           G == [i \in 1 .. n |-> Reading(sec)[Kid(sec, o, i)].fields]
           U == [i \in 0 .. n |-> Part(sec, o, i).text]
           V == [i \in 1 .. n |-> Reading(sec)[Kid(sec, o, i)].text]
<1>1. n \in Nat /\ \A i \in 0 .. n : Part(sec, o, i) \in Outcome
  BY LegalContainer
<1>2. \A i \in 0 .. n : F[i] \in Seq(Nat) /\ U[i] \in Seq(Nat)
  BY <1>1 DEF Outcome
<1>3. ASSUME NEW i \in 1 .. n
      PROVE  /\ G[i] \in Seq(Nat) /\ V[i] \in Seq(Nat)
             /\ F[i] = F[i - 1] \o G[i] /\ U[i] = U[i - 1] \o V[i]
  <2>1. i \in 0 .. n /\ i - 1 \in 0 .. n
    BY <1>1
  <2>2. Valid(sec, Kid(sec, o, i))
    BY LegalMember
  <2>3. Reading(sec)[Kid(sec, o, i)] \in Outcome
    BY <2>2, LegalField
  <2>4. /\ Part(sec, o, i).fields =
             Part(sec, o, i - 1).fields \o Reading(sec)[Kid(sec, o, i)].fields
        /\ Part(sec, o, i).text =
             Part(sec, o, i - 1).text \o Reading(sec)[Kid(sec, o, i)].text
    BY LegalMember
  <2> QED BY <2>1, <2>3, <2>4 DEF Outcome
<1> HIDE DEF F, G, U, V
<1>4. Stages(F, G, n)
  BY <1>2, <1>3 DEF Stages
<1>5. Stages(U, V, n)
  BY <1>2, <1>3 DEF Stages
<1> QED BY <1>4, <1>5 DEF F, G, U, V

\* The reading of a value begins with the value itself, and that of a container
\* is as long as it and its members are.
LEMMA FieldsBegin ==
  ASSUME NEW sec, NEW o, Valid(sec, o)
  PROVE  /\ Reading(sec)[o].fields \in Seq(Nat) /\ Reading(sec)[o].text \in Seq(Nat)
         /\ Len(Reading(sec)[o].fields) \in Nat \ {0}
         /\ Len(Reading(sec)[o].text) \in Nat \ {0}
         /\ Reading(sec)[o].fields[1] = Target(sec, o)
         /\ Reading(sec)[o].text[1] = Target(sec, o)
<1>1. /\ Reading(sec)[o].fields \in Seq(Nat) /\ Reading(sec)[o].text \in Seq(Nat)
  BY LegalField DEF Outcome
<1> DEFINE t == Target(sec, o)
           r == Reading(sec)[t]
<1>2. Valid(sec, t) /\ sec[t].type # "pointer" /\ t \in Nat
      /\ Reading(sec)[o].fields = r.fields /\ Reading(sec)[o].text = r.text
  BY TargetRead, LegalField
<1> HIDE DEF t
<1>3. CASE IsContainer(sec[t])
  <2> DEFINE p == Part(sec, t, Members(sec[t]))
  <2>1. Members(sec[t]) \in 0 .. Members(sec[t])
    <3>1. Members(sec[t]) \in Nat
      BY <1>2, <1>3, LegalContainer
    <3> QED BY <3>1
  <2>2. p.fields \in Seq(Nat) /\ p.text \in Seq(Nat)
    BY <1>2, <1>3, <2>1, LegalContainer DEF Outcome
  <2>3. r.fields = <<t>> \o p.fields /\ r.text = <<t>> \o p.text \o <<Bracket>>
    BY <1>2, <1>3, LegalContainer
  <2> HIDE DEF r, p
  <2>4. r.fields[1] = t /\ Len(r.fields) \in Nat \ {0}
    BY <2>2, <2>3, <1>2
  <2>5. r.text[1] = t /\ Len(r.text) \in Nat \ {0}
    BY <2>2, <2>3, <1>2 DEF Bracket
  <2> QED BY <1>1, <1>2, <2>4, <2>5 DEF t
<1>4. CASE IsSimple(sec[t])
  <2>1. r.fields = <<t>> /\ r.text = <<t>>
    BY <1>2, <1>4, LegalSimple
  <2> QED BY <1>1, <1>2, <2>1 DEF t
<1> QED BY <1>2, <1>3, <1>4, LegalField

\* A container is read up to its end behind its members.
LEMMA ContainerEnds ==
  ASSUME NEW sec, NEW o, Valid(sec, o), IsContainer(sec[o])
  PROVE  /\ \A i \in 0 .. Members(sec[o]) :
              /\ Part(sec, o, i).fields \in Seq(Nat) /\ Part(sec, o, i).text \in Seq(Nat)
              /\ Len(Part(sec, o, i).fields) \in Nat /\ Len(Part(sec, o, i).text) \in Nat
         /\ Len(Part(sec, o, 0).fields) = 0 /\ Len(Part(sec, o, 0).text) = 0
         /\ Len(Reading(sec)[o].fields) = 1 + Len(Part(sec, o, Members(sec[o])).fields)
         /\ Len(Reading(sec)[o].text) = 2 + Len(Part(sec, o, Members(sec[o])).text)
         /\ Reading(sec)[o].text[Len(Reading(sec)[o].text)] = Bracket
<1> DEFINE n == Members(sec[o])
           p == Part(sec, o, n)
           r == Reading(sec)[o]
<1>1. n \in 0 .. n /\ o \in Nat
  <2>1. n \in Nat
    BY LegalContainer
  <2>2. o \in Nat
    BY LegalField
  <2> QED BY <2>1, <2>2
<1>2. \A i \in 0 .. n :
        /\ Part(sec, o, i).fields \in Seq(Nat) /\ Part(sec, o, i).text \in Seq(Nat)
  BY LegalContainer DEF Outcome
<1>3. \A i \in 0 .. n :
        /\ Len(Part(sec, o, i).fields) \in Nat /\ Len(Part(sec, o, i).text) \in Nat
  BY <1>2, LenProperties
<1>4. Len(Part(sec, o, 0).fields) = 0 /\ Len(Part(sec, o, 0).text) = 0
  <2>1. Part(sec, o, 0).fields = <<>> /\ Part(sec, o, 0).text = <<>>
    BY LegalContainer
  <2> QED BY <2>1
<1>5. r.fields = <<o>> \o p.fields /\ r.text = <<o>> \o p.text \o <<Bracket>>
  BY LegalContainer
<1>6. p.fields \in Seq(Nat) /\ p.text \in Seq(Nat)
  BY <1>1, <1>2
<1> HIDE DEF n, p, r
<1>7. Len(r.fields) = 1 + Len(p.fields)
  BY <1>1, <1>5, <1>6
<1>8. Len(r.text) = 2 + Len(p.text) /\ r.text[Len(r.text)] = Bracket
  BY <1>1, <1>5, <1>6 DEF Bracket
<1> QED BY <1>2, <1>3, <1>4, <1>7, <1>8 DEF n, p, r

\* A member lies behind those before it.
LEMMA KidPlaced ==
  ASSUME NEW sec, NEW o, Valid(sec, o), IsContainer(sec[o]),
         NEW i \in 1 .. Members(sec[o])
  PROVE  /\ Len(Part(sec, o, i).fields) =
              Len(Part(sec, o, i - 1).fields) + Len(Reading(sec)[Kid(sec, o, i)].fields)
         /\ Len(Part(sec, o, i).text) =
              Len(Part(sec, o, i - 1).text) + Len(Reading(sec)[Kid(sec, o, i)].text)
         /\ Holds(Reading(sec)[o].fields, 2 + Len(Part(sec, o, i - 1).fields),
                  Reading(sec)[Kid(sec, o, i)].fields)
         /\ Holds(Reading(sec)[o].text, 2 + Len(Part(sec, o, i - 1).text),
                  Reading(sec)[Kid(sec, o, i)].text)
<1> DEFINE n == Members(sec[o])
           F == [j \in 0 .. n |-> Part(sec, o, j).fields]
           G == [j \in 1 .. n |-> Reading(sec)[Kid(sec, o, j)].fields]
           U == [j \in 0 .. n |-> Part(sec, o, j).text]
           V == [j \in 1 .. n |-> Reading(sec)[Kid(sec, o, j)].text]
           r == Reading(sec)[o]
<1>1. n \in Nat /\ o \in Nat
  BY LegalContainer, LegalField
<1>2. Stages(F, G, n) /\ Stages(U, V, n)
  BY PartsStaged
<1>3. /\ i \in 1 .. n /\ i \in 0 .. n /\ i - 1 \in 0 .. n /\ n \in 0 .. n
  BY <1>1
<1>4. /\ F[i] = Part(sec, o, i).fields /\ F[i - 1] = Part(sec, o, i - 1).fields
      /\ U[i] = Part(sec, o, i).text /\ U[i - 1] = Part(sec, o, i - 1).text
      /\ G[i] = Reading(sec)[Kid(sec, o, i)].fields
      /\ V[i] = Reading(sec)[Kid(sec, o, i)].text
      /\ F[n] = Part(sec, o, n).fields /\ U[n] = Part(sec, o, n).text
  BY <1>3
<1>5. r.fields = <<o>> \o F[n] /\ r.text = <<o>> \o U[n] \o <<Bracket>>
  <2>1. /\ r.fields = <<o>> \o Part(sec, o, n).fields
        /\ r.text = <<o>> \o Part(sec, o, n).text \o <<Bracket>>
    BY LegalContainer
  <2> QED BY <1>4, <2>1
<1>6. /\ F[n] \in Seq(Nat) /\ F[i - 1] \in Seq(Nat) /\ G[i] \in Seq(Nat)
      /\ U[n] \in Seq(Nat) /\ U[i - 1] \in Seq(Nat) /\ V[i] \in Seq(Nat)
      /\ r.fields \in Seq(Nat) /\ r.text \in Seq(Nat)
  BY <1>2, <1>3, FieldsBegin DEF Stages
<1> HIDE DEF n, F, G, U, V, r
<1>7. /\ Len(F[i]) = Len(F[i - 1]) + Len(G[i]) /\ Holds(F[n], Len(F[i - 1]) + 1, G[i])
  BY <1>1, <1>2, <1>3, StageHeld
<1>8. /\ Len(U[i]) = Len(U[i - 1]) + Len(V[i]) /\ Holds(U[n], Len(U[i - 1]) + 1, V[i])
  BY <1>1, <1>2, <1>3, StageHeld
<1>9. <<o>> \in Seq(Nat) /\ <<Bracket>> \in Seq(Nat) /\ Len(<<o>>) = 1
  BY <1>1 DEF Bracket
<1>10. /\ Len(F[n]) \in Nat /\ Len(F[i - 1]) \in Nat /\ Len(G[i]) \in Nat
       /\ Len(U[n]) \in Nat /\ Len(U[i - 1]) \in Nat /\ Len(V[i]) \in Nat
       /\ Len(r.fields) \in Nat /\ Len(r.text) \in Nat
  BY <1>6, LenProperties
<1>11. Holds(r.fields, 2 + Len(F[i - 1]), G[i])
  <2>1. Holds(r.fields, 2, F[n])
    <3>1. Holds(<<o>> \o F[n], Len(<<o>>) + 1, F[n])
      BY <1>6, <1>9, HoldsParts
    <3> QED BY <3>1, <1>5, <1>9
  <2> DEFINE q == Len(F[i - 1]) + 1
  <2>2. 2 + q - 1 = 2 + Len(F[i - 1])
    BY <1>10
  <2> HIDE DEF q
  <2>3. Holds(F[n], q, G[i])
    BY <1>7 DEF q
  <2>4. Holds(r.fields, 2 + q - 1, G[i])
    BY <2>1, <2>3, <1>10, HoldsInside
  <2> QED BY <2>2, <2>4
<1>12. Holds(r.text, 2 + Len(U[i - 1]), V[i])
  <2>1. Holds(r.text, 2, U[n])
    <3> DEFINE a == <<o>> \o U[n]
    <3>1. Holds(<<o>> \o U[n], Len(<<o>>) + 1, U[n])
      BY <1>6, <1>9, HoldsParts
    <3>2. Holds(a, 2, U[n])
      BY <3>1, <1>9
    <3>3. a \in Seq(Nat)
      BY <1>6, <1>9, ConcatProperties
    <3>4. r.text = a \o <<Bracket>>
      BY <1>5
    <3> HIDE DEF a
    <3>5. Holds(r.text, 1, a)
      BY <3>3, <3>4, <1>9, HoldsParts
    <3>6. Len(a) \in Nat
      BY <3>3, LenProperties
    <3>7. Holds(r.text, 1 + 2 - 1, U[n])
      BY <3>2, <3>5, <3>6, <1>10, HoldsInside
    <3> QED BY <3>7
  <2> DEFINE q == Len(U[i - 1]) + 1
  <2>2. 2 + q - 1 = 2 + Len(U[i - 1])
    BY <1>10
  <2> HIDE DEF q
  <2>3. Holds(U[n], q, V[i])
    BY <1>8 DEF q
  <2>4. Holds(r.text, 2 + q - 1, V[i])
    BY <2>1, <2>3, <1>10, HoldsInside
  <2> QED BY <2>2, <2>4
<1> QED BY <1>4, <1>7, <1>8, <1>11, <1>12 DEF r

-----------------------------------------------------------------------------
(* The way along a path.                                                   *)

\* The key of a pair of the map at o, counted from 0.
KeyOf(sec, o, j) == sec[Target(sec, Part(sec, o, 2 * j).end)].value

\* What a path element can lead to: an error, or a value that is no pointer.
Arrived(sec, x) ==
  x.error = "SUCCESS" => Valid(sec, x.offset) /\ sec[x.offset].type # "pointer"

Results ==
  [error : {"SUCCESS", "INVALID_LOOKUP_PATH", "LOOKUP_PATH_DOES_NOT_MATCH"}, offset : Nat]

Stops(sec) == {x \in Results : Arrived(sec, x)}

Numbers == [value : Int, junk : BOOLEAN, overflow : BOOLEAN]

LEMMA FoundIn ==
  ASSUME NEW sec, NEW o, Valid(sec, o)
  PROVE  Found(sec, o) \in Stops(sec)
<1>1. Valid(sec, Target(sec, o)) /\ sec[Target(sec, o)].type # "pointer"
  BY TargetRead
<1>2. Target(sec, o) \in Nat
  BY <1>1, LegalField
<1> QED BY <1>1, <1>2 DEF Found, Stops, Results, Arrived

\* An index that no element can have.
LEMMA SelectOutside ==
  ASSUME NEW sec, NEW o, NEW text, NEW number, sec[o].type = "array",
         number.value < 0 \/ number.overflow
  PROVE  Select(sec, o, text, number) = Fails("INVALID_LOOKUP_PATH")
BY DEF Select

\* An index of an element.
LEMMA SelectElement ==
  ASSUME NEW sec, NEW o, NEW text, NEW number, sec[o].type = "array",
         number.value \in Nat, ~ number.overflow, ~ number.junk,
         number.value < sec[o].size
  PROVE  Select(sec, o, text, number) = Found(sec, Part(sec, o, number.value).end)
<1>1. ~ (number.value < 0 \/ number.overflow)
  OBVIOUS
<1> QED BY <1>1 DEF Select, Part

\* The first pair with the key.
LEMMA SelectPair ==
  ASSUME NEW sec, NEW o, NEW text, NEW number, sec[o].type = "map", sec[o].size \in Nat,
         NEW k \in Nat, k < sec[o].size, KeyOf(sec, o, k) = text,
         \A j \in 0 .. k - 1 : KeyOf(sec, o, j) # text
  PROVE  Select(sec, o, text, number) = Found(sec, Part(sec, o, 2 * k + 1).end)
<1> DEFINE parts == Parts(sec, o, Reading(sec))
           pairs == {i \in 0 .. sec[o].size - 1 :
                       sec[Target(sec, parts[2 * i].end)].value = text}
           first == CHOOSE i \in pairs : \A j \in pairs : i <= j
<1>1. pairs = {i \in 0 .. sec[o].size - 1 : KeyOf(sec, o, i) = text}
  BY DEF KeyOf, Part
<1>2. k \in pairs /\ \A j \in pairs : k <= j
  BY <1>1
<1>3. first \in pairs /\ \A j \in pairs : first <= j
  BY <1>2
<1>4. first = k
  <2>1. first \in Nat /\ first <= k /\ k <= first
    <3>1. first \in 0 .. sec[o].size - 1
      BY <1>1, <1>3
    <3> HIDE DEF first, pairs
    <3> QED BY <1>2, <1>3, <3>1
  <2> HIDE DEF first
  <2> QED BY <2>1
<1>5. Select(sec, o, text, number) = Found(sec, parts[2 * first + 1].end)
  <2>1. pairs # {}
    BY <1>2
  <2> QED BY <2>1 DEF Select
<1> QED BY <1>4, <1>5 DEF Part

\* Nothing in the value fits.
LEMMA SelectNone ==
  ASSUME NEW sec, NEW o, NEW text, NEW number, sec[o].size \in Nat,
         sec[o].type = "array" =>
           /\ ~ (number.value < 0 \/ number.overflow)
           /\ number.junk \/ ~ number.value < sec[o].size,
         sec[o].type = "map" =>
           \A j \in 0 .. sec[o].size - 1 : KeyOf(sec, o, j) # text
  PROVE  Select(sec, o, text, number) = Fails("LOOKUP_PATH_DOES_NOT_MATCH")
<1>1. CASE sec[o].type = "map"
  <2>1. {i \in 0 .. sec[o].size - 1 :
           sec[Target(sec, Parts(sec, o, Reading(sec))[2 * i].end)].value = text} = {}
    BY <1>1 DEF KeyOf, Part
  <2> QED BY <1>1, <2>1 DEF Select
<1>2. CASE sec[o].type # "map"
  BY <1>2 DEF Select
<1> QED BY <1>1, <1>2

\* A member of a container is a value.
LEMMA MemberFound ==
  ASSUME NEW sec, NEW o, Valid(sec, o), IsContainer(sec[o]),
         NEW i \in 0 .. Members(sec[o]) - 1
  PROVE  Valid(sec, Part(sec, o, i).end) /\ Found(sec, Part(sec, o, i).end) \in Stops(sec)
<1>1. Members(sec[o]) \in Nat
  BY LegalContainer
<1>2. i + 1 \in 1 .. Members(sec[o]) /\ (i + 1) - 1 = i
  BY <1>1
<1>3. Valid(sec, Kid(sec, o, i + 1))
  BY <1>2, LegalMember
<1>4. Kid(sec, o, i + 1) = Part(sec, o, i).end
  BY <1>2 DEF Kid
<1> QED BY <1>3, <1>4, FoundIn

\* A path element leads to a value or to an error.
LEMMA SelectIn ==
  ASSUME NEW sec, NEW o, Valid(sec, o), NEW text, NEW number \in Numbers
  PROVE  Select(sec, o, text, number) \in Stops(sec)
<1> DEFINE out == number.value < 0 \/ number.overflow
           n == sec[o].size
<1>1. n \in Nat /\ o \in DOMAIN sec
  <2>1. o \in DOMAIN sec /\ IsSection(sec)
    BY DEF Valid, IsLegal
  <2> QED BY <2>1 DEF IsSection
<1>2. number.value \in Int
  BY DEF Numbers
<1>3. /\ Fails("INVALID_LOOKUP_PATH") \in Stops(sec)
      /\ Fails("LOOKUP_PATH_DOES_NOT_MATCH") \in Stops(sec)
  BY DEF Fails, Stops, Results, Arrived
<1>4. CASE sec[o].type = "array" /\ out
  BY <1>3, <1>4, SelectOutside
<1>5. CASE sec[o].type = "array" /\ ~ out /\ ~ number.junk /\ number.value < n
  <2>1. Select(sec, o, text, number) = Found(sec, Part(sec, o, number.value).end)
    BY <1>2, <1>5, SelectElement
  <2>2. number.value \in 0 .. Members(sec[o]) - 1 /\ IsContainer(sec[o])
    BY <1>1, <1>2, <1>5 DEF Members, IsContainer
  <2> QED BY <2>1, <2>2, MemberFound
<1>6. CASE sec[o].type = "map" /\ \E j \in 0 .. n - 1 : KeyOf(sec, o, j) = text
  <2> DEFINE T == {j \in 0 .. n - 1 : KeyOf(sec, o, j) = text}
  <2>1. T # {} /\ T \subseteq Nat
    BY <1>1, <1>6
  <2>2. PICK k \in T : \A j \in T : k <= j
    BY <2>1, LeastNat
  <2>3. /\ k \in Nat /\ k < n /\ KeyOf(sec, o, k) = text
        /\ \A j \in 0 .. k - 1 : KeyOf(sec, o, j) # text
    BY <1>1, <2>2
  <2>4. Select(sec, o, text, number) = Found(sec, Part(sec, o, 2 * k + 1).end)
    BY <1>1, <1>6, <2>3, SelectPair
  <2>5. 2 * k + 1 \in 0 .. Members(sec[o]) - 1 /\ IsContainer(sec[o])
    BY <1>1, <1>6, <2>3 DEF Members, IsContainer
  <2> QED BY <2>4, <2>5, MemberFound
<1>7. CASE /\ ~ (sec[o].type = "array" /\ out)
           /\ ~ (sec[o].type = "array" /\ ~ out /\ ~ number.junk /\ number.value < n)
           /\ ~ (sec[o].type = "map" /\ \E j \in 0 .. n - 1 : KeyOf(sec, o, j) = text)
  BY <1>1, <1>3, <1>7, SelectNone
<1> QED BY <1>4, <1>5, <1>6, <1>7

\* Where a path leads to from the value at s, as far as element i.
Onto(sec, s, path, numbers, i) == Along(sec, s, path, numbers)[i]

\* A path is followed element by element, and not behind an error.
LEMMA AlongRead ==
  ASSUME NEW sec, NEW s, Valid(sec, s), NEW numbers,
         \A text \in DOMAIN numbers : numbers[text] \in Numbers,
         NEW path \in Seq(DOMAIN numbers)
  PROVE  /\ Along(sec, s, path, numbers) \in [0 .. Len(path) -> Stops(sec)]
         /\ Onto(sec, s, path, numbers, 0) = Found(sec, s)
         /\ \A i \in 1 .. Len(path) :
              Onto(sec, s, path, numbers, i) =
                IF Onto(sec, s, path, numbers, i - 1).error = "SUCCESS"
                THEN Select(sec, Onto(sec, s, path, numbers, i - 1).offset, path[i],
                            numbers[path[i]])
                ELSE Onto(sec, s, path, numbers, i - 1)
<1> DEFINE S == Stops(sec)
           c == Found(sec, s)
           n == Len(path)
           Go(i, x) == IF x.error = "SUCCESS"
                       THEN Select(sec, x.offset, path[i], numbers[path[i]]) ELSE x
           step == [p \in Nat \X S |-> IF p[1] \in 1 .. n THEN Go(p[1], p[2]) ELSE p[2]]
           It(f) == f = [i \in 0 .. Len(path) |->
                          IF i = 0 THEN Found(sec, s)
                          ELSE IF f[i - 1].error = "SUCCESS"
                               THEN Select(sec, f[i - 1].offset, path[i], numbers[path[i]])
                               ELSE f[i - 1]]
           P == CHOOSE f : It(f)
<1>1. c \in S /\ n \in Nat
  BY FoundIn
<1>2. ASSUME NEW i \in 1 .. n, NEW x \in S
      PROVE  Go(i, x) \in S
  <2>1. CASE x.error = "SUCCESS"
    <3>1. Valid(sec, x.offset)
      BY <2>1 DEF Stops, Arrived
    <3>2. path[i] \in DOMAIN numbers
      BY <1>1
    <3>3. Select(sec, x.offset, path[i], numbers[path[i]]) \in S
      BY <3>1, <3>2, SelectIn
    <3> QED BY <2>1, <3>3
  <2>2. CASE x.error # "SUCCESS"
    BY <2>2
  <2> QED BY <2>1, <2>2
<1> HIDE DEF S, c, Go
<1>3. step \in [Nat \X S -> S]
  BY <1>2
<1>4. \A i \in 1 .. n : \A x \in S : step[<<i, x>>] = Go(i, x)
  BY <1>1
<1> HIDE DEF step
<1>5. PICK g \in [0 .. n -> S] : Iterated(g, n, c, step)
  BY <1>1, <1>3, IteratedTo
<1> HIDE DEF n
<1>6. ASSUME NEW i \in 0 .. n
      PROVE  g[i] = IF i = 0 THEN c ELSE Go(i, g[i - 1])
  <2>1. CASE i = 0
    BY <2>1, <1>5 DEF Iterated
  <2>2. CASE i # 0
    <3>1. i \in 1 .. n /\ i - 1 \in 0 .. n
      BY <2>2, <1>1
    <3>2. g[i] = step[<<i, g[i - 1]>>] /\ g[i - 1] \in S
      BY <3>1, <1>5 DEF Iterated
    <3> QED BY <3>1, <3>2, <2>2, <1>4
  <2> QED BY <2>1, <2>2
<1>7. It(g)
  <2>1. g = [i \in 0 .. n |-> g[i]]
    BY <1>5
  <2>2. g = [i \in 0 .. n |-> IF i = 0 THEN c ELSE Go(i, g[i - 1])]
    BY <2>1, <1>6
  <2> QED BY <2>2 DEF n, c, Go
<1>8. It(P)
  BY <1>7
<1>9. Along(sec, s, path, numbers) = P
  BY DEF Along, P
<1> HIDE DEF P
<1>10. P = [i \in 0 .. n |-> IF i = 0 THEN c ELSE Go(i, P[i - 1])]
  BY <1>8 DEF n, c, Go
<1>11. P[0] = c /\ \A i \in 1 .. n : P[i] = Go(i, P[i - 1])
  BY <1>10, <1>1
<1>12. \A i \in 0 .. n : P[i] \in S
  <2> DEFINE T == {i \in 0 .. n : P[i] \notin S}
  <2>1. T = {}
    <3> SUFFICES ASSUME T # {} PROVE FALSE
      OBVIOUS
    <3>1. PICK i \in T : \A j \in T : i <= j
      <4>1. T \subseteq Nat
        OBVIOUS
      <4> QED BY <4>1, LeastNat
    <3>2. i # 0 /\ i \in 1 .. n /\ i - 1 \in 0 .. n /\ i - 1 \notin T
      BY <3>1, <1>11, <1>1
    <3>3. P[i - 1] \in S
      BY <3>2
    <3>4. P[i] \in S
      BY <3>2, <3>3, <1>11, <1>2
    <3> QED BY <3>1, <3>4
  <2> QED BY <2>1
<1>13. P \in [0 .. n -> S]
  <2>1. P = [i \in 0 .. n |-> P[i]]
    BY <1>10
  <2> QED BY <2>1, <1>12
<1> QED BY <1>9, <1>11, <1>13 DEF n, c, S, Go, Onto

\* An error is what the whole path leads to.
LEMMA AlongFails ==
  ASSUME NEW sec, NEW s, Valid(sec, s), NEW numbers,
         \A text \in DOMAIN numbers : numbers[text] \in Numbers,
         NEW path \in Seq(DOMAIN numbers), NEW i \in 0 .. Len(path),
         Onto(sec, s, path, numbers, i).error # "SUCCESS"
  PROVE  AtPath(sec, s, path, numbers) = Onto(sec, s, path, numbers, i)
<1> DEFINE n == Len(path)
           P == [j \in 0 .. n |-> Onto(sec, s, path, numbers, j)]
           T == {j \in 0 .. n : i <= j /\ P[j] # P[i]}
<1>1. n \in Nat
  OBVIOUS
<1>2. \A j \in 1 .. n : P[j - 1].error # "SUCCESS" => P[j] = P[j - 1]
  BY <1>1, AlongRead
<1>3. P[i].error # "SUCCESS"
  OBVIOUS
<1>4. AtPath(sec, s, path, numbers) = P[n]
  BY <1>1 DEF AtPath, Onto
<1> HIDE DEF P, n
<1>5. i \in 0 .. n
  BY DEF n
<1>6. T = {}
  <2> SUFFICES ASSUME T # {} PROVE FALSE
    OBVIOUS
  <2>1. PICK j \in T : \A k \in T : j <= k
    <3>1. T \subseteq Nat
      OBVIOUS
    <3> QED BY <3>1, LeastNat
  <2>2. j # i /\ j \in 1 .. n /\ j - 1 \in 0 .. n /\ i <= j - 1 /\ j - 1 \notin T
    BY <1>1, <1>5, <2>1
  <2>3. P[j - 1] = P[i]
    BY <2>2
  <2> QED BY <1>2, <1>3, <2>1, <2>2, <2>3
<1>7. n \in 0 .. n /\ i <= n
  BY <1>1, <1>5
<1>8. P[n] = P[i]
  BY <1>6, <1>7
<1>9. P[i] = Onto(sec, s, path, numbers, i)
  BY <1>5 DEF P
<1> QED BY <1>4, <1>8, <1>9
=============================================================================
