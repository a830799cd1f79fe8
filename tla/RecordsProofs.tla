--------------------------- MODULE RecordsProofs ----------------------------
(****************************************************************************)
(* Proofs about Records, the first part: the handlers of Accounts and       *)
(* Collaboration keep to the shapes of RecordsInvariants, every step of a   *)
(* goroutine keeps their types and their keys, and indexes point to records.*)
(****************************************************************************)
EXTENDS RecordsInvariants, FiniteSetTheorems, SequenceTheorems, WellFoundedInduction, TLAPS

-----------------------------------------------------------------------------
\* Sequences: one after another, the steps from the nth on

LEMMA LeastOf ==
  ASSUME NEW T \in SUBSET Nat, T # {}
  PROVE  \E x \in T : \A y \in T : ~(y < x)
<1>1. \E x \in T : \A y \in T : ~(<<y, x>> \in OpToRel(<, Nat))
  BY NatLessThanWellFounded, WFMin
<1> QED
  BY <1>1 DEF OpToRel

LEMMA CountingUp ==
  ASSUME NEW S, 0 \in S, \A n \in Nat : n \in S => n + 1 \in S
  PROVE  Nat \subseteq S
<1> DEFINE T == Nat \ S
<1>1. SUFFICES ASSUME T # {} PROVE FALSE
  OBVIOUS
<1>2. PICK x \in T : \A y \in T : ~(y < x)
  BY <1>1, LeastOf
<1>3. x # 0
  OBVIOUS
<1>4. x - 1 \in Nat /\ x - 1 < x
  BY <1>3
<1>5. x - 1 \in S
  BY <1>2, <1>4
<1> QED
  BY <1>4, <1>5

\* The steps from the nth on
From(s, n) == SubSeq(s, n, Len(s))

LEMMA FromFacts ==
  ASSUME NEW A, NEW s \in Seq(A), NEW n \in 1..Len(s) + 1
  PROVE  /\ From(s, n) \in Seq(A) /\ Len(From(s, n)) = Len(s) - n + 1
         /\ \A i \in 1..Len(s) - n + 1 : From(s, n)[i] = s[i + n - 1]
  BY DEF From

LEMMA TailIsFrom ==
  ASSUME NEW A, NEW s \in Seq(A), s # <<>>
  PROVE  Tail(s) = From(s, 2)
  BY DEF From

LEMMA LeaveFacts ==
  ASSUME NEW A, NEW s \in Seq(A), s # <<>>, NEW keys
  PROVE  \E n \in 2..Len(s) + 1 : /\ Leave(s, keys) = From(s, n)
                                  /\ \A i \in 2..n - 1 : s[i].key \in keys
                                  /\ n \in DOMAIN s => s[n].key \notin keys
<1> DEFINE T == {m \in 2..Len(s) + 1 : m \in DOMAIN s => s[m].key \notin keys}
           P(m) == /\ \A i \in 2..m - 1 : s[i].key \in keys
                   /\ m \in DOMAIN s => s[m].key \notin keys
<1>1. Len(s) \in Nat /\ Len(s) >= 1 /\ DOMAIN s = 1..Len(s)
  OBVIOUS
<1>2. Len(s) + 1 \in T /\ T \subseteq Nat
  BY <1>1
<1>3. PICK m \in T : \A y \in T : ~(y < m)
  BY <1>2, LeastOf
<1>4. P(m)
  BY <1>1, <1>3
<1>5. m \in 2..Len(s) + 1
  BY <1>3
<1> DEFINE n == CHOOSE x \in 2..Len(s) + 1 : P(x)
<1>6. n \in 2..Len(s) + 1 /\ P(n)
  BY <1>4, <1>5
<1>7. Leave(s, keys) = From(s, n)
  BY DEF Leave, From
<1> QED
  BY <1>6, <1>7

LEMMA ConcatFacts ==
  ASSUME NEW A, NEW x \in Seq(A), NEW y \in Seq(A)
  PROVE  /\ x \o y \in Seq(A) /\ Len(x \o y) = Len(x) + Len(y)
         /\ \A i \in 1..Len(x) : (x \o y)[i] = x[i]
         /\ \A j \in 1..Len(y) : (x \o y)[Len(x) + j] = y[j]
<1>1. Len(x) \in Nat /\ Len(y) \in Nat
  OBVIOUS
<1>2. ASSUME NEW j \in 1..Len(y) PROVE (x \o y)[Len(x) + j] = y[j]
  <2>1. Len(x) + j \in 1..Len(x) + Len(y) /\ ~(Len(x) + j <= Len(x)) /\ (Len(x) + j) - Len(x) = j
    BY <1>1
  <2> QED
    BY <2>1
<1> QED
  BY <1>2

LEMMA InSeq ==
  ASSUME NEW A, NEW n \in Nat, NEW x, x = [i \in 1..n |-> x[i]], \A i \in 1..n : x[i] \in A
  PROVE  x \in Seq(A) /\ Len(x) = n
<1>1. x \in [1..n -> A]
  OBVIOUS
<1> QED
  BY <1>1

LEMMA BindFacts ==
  ASSUME NEW A, NEW body \in Seq(A), NEW k
  PROVE  /\ Len(Bind(k, body)) = Len(body) /\ DOMAIN Bind(k, body) = 1..Len(body)
         /\ \A i \in 1..Len(body) :
              Bind(k, body)[i] = [body[i] EXCEPT !.key = IF body[i].key = 0 THEN k ELSE body[i].key]
  BY DEF Bind

\* The sequences of laps, one for each record in some order
LEMMA LapsOf ==
  ASSUME NEW S, IsFiniteSet(S), NEW body
  PROVE  \E order, laps :
           /\ Cardinality(S) \in Nat
           /\ order \in [1..Cardinality(S) -> S]
           /\ \A i, j \in 1..Cardinality(S) : order[i] = order[j] => i = j
           /\ \A k \in S : \E i \in 1..Cardinality(S) : order[i] = k
           /\ laps[0] = <<>>
           /\ \A n \in 1..Cardinality(S) : laps[n] = laps[n - 1] \o Bind(order[n], body)
           /\ Laps(S, body) = laps[Cardinality(S)]
<1> DEFINE c == Cardinality(S)
           order == SetToSeq(S)
           App(x, i) == x \o Bind(order[i], body)
           Rec(f, n) == f = [i \in 0..n |-> IF i = 0 THEN <<>> ELSE App(f[i - 1], i)]
           T == {n \in Nat : \E f : Rec(f, n)}
<1>1. c \in Nat /\ ExistsBijection(1..c, S)
  BY FS_CardinalityType
<1>2. PICK g : g \in Bijection(1..c, S)
  BY <1>1 DEF ExistsBijection
<1>3. g \in [1..c -> S] /\ IsInjective(g)
  BY <1>2 DEF Bijection, Injection, IsInjective
<1>4. order \in [1..c -> S] /\ IsInjective(order)
  BY <1>3 DEF SetToSeq
<1>5. /\ \A i, j \in 1..c : order[i] = order[j] => i = j
      /\ \A k \in S : \E i \in 1..c : order[i] = k
  <2>1. order \in Injection(1..c, S)
    BY <1>4 DEF IsInjective, Injection
  <2>2. IsFiniteSet(1..c) /\ Cardinality(1..c) = c
    BY <1>1, FS_Interval
  <2>3. order \in Surjection(1..c, S)
    BY <2>1, <2>2, FS_Injection
  <2> QED
    BY <1>4, <2>3 DEF IsInjective, Surjection
<1> HIDE DEF order, c, App
<1>6. 0 \in T
  <2>1. Rec([i \in 0..0 |-> <<>>], 0)
    OBVIOUS
  <2> QED
    BY <2>1
<1>7. ASSUME NEW n \in Nat, n \in T PROVE n + 1 \in T
  <2>1. PICK f : Rec(f, n)
    BY <1>7
  <2> DEFINE h == [i \in 0..n + 1 |-> IF i = n + 1 THEN App(f[n], i) ELSE f[i]]
  <2>2. Rec(h, n + 1)
    <3>1. \A i \in 0..n : h[i] = f[i]
      OBVIOUS
    <3>2. h[n + 1] = App(f[n], n + 1)
      OBVIOUS
    <3>3. \A i \in 0..n : f[i] = IF i = 0 THEN <<>> ELSE App(f[i - 1], i)
      BY <2>1
    <3>4. h = [i \in 0..n + 1 |-> h[i]]
      OBVIOUS
    <3> HIDE DEF h
    <3>5. \A i \in 0..n + 1 : h[i] = IF i = 0 THEN <<>> ELSE App(h[i - 1], i)
      <4> SUFFICES ASSUME NEW i \in 0..n + 1
                   PROVE  h[i] = IF i = 0 THEN <<>> ELSE App(h[i - 1], i)
        OBVIOUS
      <4>1. CASE i = n + 1
        <5>1. i # 0 /\ i - 1 = n
          BY <4>1
        <5> QED
          BY <3>1, <3>2, <4>1, <5>1
      <4>2. CASE i \in 1..n
        BY <3>1, <3>3, <4>2
      <4>3. CASE i = 0
        BY <3>1, <3>3, <4>3
      <4> QED
        BY <4>1, <4>2, <4>3
    <3> QED
      BY <3>4, <3>5
  <2> HIDE DEF h, Rec
  <2> QED
    BY <2>2
<1>8. c \in T
  <2> HIDE DEF T
  <2>1. Nat \subseteq T
    BY <1>6, <1>7, CountingUp
  <2> QED
    BY <1>1, <2>1
<1> DEFINE laps == CHOOSE f : Rec(f, c)
<1>9. Rec(laps, c)
  BY <1>8
<1>10. Laps(S, body) = laps[c]
  BY DEF Laps, c, order, App
<1> HIDE DEF laps
<1>11. laps[0] = <<>> /\ \A n \in 1..c : laps[n] = App(laps[n - 1], n)
  BY <1>1, <1>9
<1> DEFINE Good(o, l) ==
             /\ Cardinality(S) \in Nat
             /\ o \in [1..Cardinality(S) -> S]
             /\ \A i, j \in 1..Cardinality(S) : o[i] = o[j] => i = j
             /\ \A k \in S : \E i \in 1..Cardinality(S) : o[i] = k
             /\ l[0] = <<>>
             /\ \A n \in 1..Cardinality(S) : l[n] = l[n - 1] \o Bind(o[n], body)
             /\ Laps(S, body) = l[Cardinality(S)]
<1>12. Good(order, laps)
  BY <1>1, <1>4, <1>5, <1>10, <1>11 DEF c, App
<1> HIDE DEF Good
<1>13. \E o, l : Good(o, l)
  BY <1>12
<1> QED
  BY <1>13 DEF Good

-----------------------------------------------------------------------------
\* Programs: the steps of handlers, and of their loops

LEMMA StepsGrow ==
  ASSUME NEW d, NEW B, NEW C, B \subseteq C
  PROVE  StepsOf(d, B) \subseteq StepsOf(d, C)
BY DEF StepsOf, Raw

LEMMA ProgramsGrow ==
  ASSUME NEW d, NEW B, NEW C, B \subseteq C
  PROVE  Programs(d, B) \subseteq Programs(d, C)
<1>1. StepsOf(d, B) \subseteq StepsOf(d, C)
  BY StepsGrow
<1>2. Seq(StepsOf(d, B)) \subseteq Seq(StepsOf(d, C))
  BY <1>1
<1> QED
  BY <1>2 DEF Programs

LEMMA NothingProgram ==
  ASSUME NEW d, NEW B
  PROVE  <<>> \in Programs(d, B)
BY DEF Programs, Chain

LEMMA BodiesNested ==
  ASSUME NEW d
  PROVE  StepsOf(d, Bodies1(d)) \subseteq AnyStep(d) /\ StepsOf(d, {<<>>}) \subseteq StepsOf(d, Bodies1(d))
<1>1. <<>> \in Bodies1(d)
  BY NothingProgram DEF Bodies1
<1>2. Bodies1(d) \subseteq Bodies2(d)
  BY <1>1, ProgramsGrow DEF Bodies1, Bodies2
<1>3. StepsOf(d, Bodies1(d)) \subseteq AnyStep(d)
  BY <1>2, StepsGrow DEF AnyStep
<1>4. StepsOf(d, {<<>>}) \subseteq StepsOf(d, Bodies1(d))
  BY <1>1, StepsGrow
<1> QED
  BY <1>3, <1>4

\* A step of a body, given its key
LEMMA BoundStep ==
  ASSUME NEW d, NEW e \in AnyStep(d), NEW k \in Keys0, NEW m \in 1..Len(e.body)
  PROVE  LET b == Bind(k, e.body)[m]   s == e.body[m] IN
         /\ b \in AnyStep(d) /\ Inner(d, e, s) /\ s \in AnyStep(d)
         /\ b.op = s.op /\ b.t = s.t /\ b.via = s.via /\ b.failed = s.failed /\ b.body = s.body /\ b.key = k
<1> DEFINE s == e.body[m]
           b == Bind(k, e.body)[m]
<1>1. e.body \in Seq(StepsOf(d, Bodies1(d))) /\ Shape(d, e)
  BY DEF AnyStep, StepsOf, Raw, Bodies2, Programs
<1>2. s \in StepsOf(d, Bodies1(d)) /\ m \in DOMAIN e.body
  BY <1>1
<1>3. s \in AnyStep(d)
  BY <1>2, BodiesNested
<1>4. Inner(d, e, s)
  BY <1>1, <1>2 DEF Shape
<1>5. s.key = 0
  BY <1>4 DEF Inner
<1>6. b = [s EXCEPT !.key = k]
  BY <1>1, <1>2, <1>5 DEF Bind
<1>7. s \in Raw(Bodies2(d)) /\ Shape(d, s)
  BY <1>3 DEF AnyStep, StepsOf
<1> HIDE DEF b, s
<1>8. b \in Raw(Bodies2(d)) /\ b.op = s.op /\ b.t = s.t /\ b.via = s.via /\ b.failed = s.failed /\ b.body = s.body /\ b.key = k
  BY <1>6, <1>7 DEF Raw
<1>9. Shape(d, b)
  <2>1. PlainShape(b) /\ IndexShape(d, b) /\ OtherShape(b)
    <3>1. PlainShape(b)
      BY <1>7, <1>8 DEF Shape, PlainShape
    <3>2. IndexShape(d, b)
      BY <1>7, <1>8 DEF Shape, IndexShape
    <3>3. OtherShape(b)
      BY <1>7, <1>8 DEF Shape, OtherShape
    <3> QED
      BY <3>1, <3>2, <3>3
  <2>2. ASSUME NEW x \in DOMAIN b.body PROVE Inner(d, b, b.body[x])
    <3>1. Inner(d, s, b.body[x])
      BY <1>7, <1>8, <2>2 DEF Shape
    <3> QED
      BY <1>8, <3>1 DEF Inner
  <2> QED
    BY <2>1, <2>2 DEF Shape
<1>10. b \in AnyStep(d)
  BY <1>8, <1>9 DEF AnyStep, StepsOf
<1> QED
  BY <1>3, <1>4, <1>8, <1>10 DEF b, s

\* What a link asks is about everything but the keys.
LEMMA LinkKeyless ==
  ASSUME NEW d, NEW p, NEW s, NEW p1, NEW s1, p1.key = s1.key, Link(d, p, s),
         p1.op = p.op /\ p1.t = p.t /\ p1.via = p.via /\ p1.failed = p.failed /\ p1.body = p.body,
         s1.op = s.op /\ s1.t = s.t /\ s1.via = s.via /\ s1.failed = s.failed /\ s1.body = s.body
  PROVE  Link(d, p1, s1)
<1>1. NeedsBefore(d, s1) <=> NeedsBefore(d, s)
  BY DEF NeedsBefore, SessionDel, PrefsRead, DigestLoop
<1>2. NeedsAfter(p1) <=> NeedsAfter(p)
  BY DEF NeedsAfter, TokenRead, SpaceWrite, NewMember
<1>3. Gives(d, p, s) => Gives(d, p1, s1)
  BY DEF Gives, SessionDel, PrefsRead, DigestList, DigestLoop
<1>4. Takes(p, s) => Takes(p1, s1)
  BY DEF Takes, TokenRead, TokenDel, SpaceWrite, NewMember, Forgets
<1> QED
  BY <1>1, <1>2, <1>3, <1>4 DEF Link

LEMMA BindProgram ==
  ASSUME NEW d, NEW e \in AnyStep(d), NEW k \in Keys0
  PROVE  Bind(k, e.body) \in Programs(d, Bodies2(d))
<1> DEFINE X == Bind(k, e.body)
           n == Len(e.body)
<1>1. e.body \in Programs(d, Bodies1(d))
  BY DEF AnyStep, StepsOf, Raw, Bodies2
<1>2. e.body \in Seq(StepsOf(d, Bodies1(d))) /\ Chain(d, e.body) /\ (e.body # <<>> => ~NeedsBefore(d, e.body[1]))
  BY <1>1 DEF Programs
<1>3. n \in Nat /\ Len(X) = n /\ X = [i \in 1..n |-> X[i]]
  BY <1>2, BindFacts DEF Bind
<1>4. \A m \in 1..n : LET b == X[m]   s == e.body[m] IN
         /\ b \in AnyStep(d)
         /\ b.op = s.op /\ b.t = s.t /\ b.via = s.via /\ b.failed = s.failed /\ b.body = s.body /\ b.key = k
  BY BoundStep
<1> HIDE DEF X
<1>5. X \in Seq(AnyStep(d))
  BY <1>3, <1>4, InSeq
<1>6. ASSUME NEW i \in 2..n PROVE Link(d, X[i - 1], X[i])
  <2>1. Link(d, e.body[i - 1], e.body[i])
    BY <1>2, <1>6 DEF Chain
  <2>2. i \in 1..n /\ i - 1 \in 1..n
    BY <1>3, <1>6
  <2> QED
    BY <1>4, <2>1, <2>2, LinkKeyless
<1>7. n > 0 => ~NeedsAfter(X[n]) /\ ~NeedsBefore(d, X[1])
  <2> SUFFICES ASSUME n > 0 PROVE ~NeedsAfter(X[n]) /\ ~NeedsBefore(d, X[1])
    OBVIOUS
  <2>1. n \in 1..n /\ 1 \in 1..n /\ e.body # <<>>
    BY <1>2, <1>3
  <2>2. ~NeedsAfter(e.body[n]) /\ ~NeedsBefore(d, e.body[1])
    BY <1>2, <2>1 DEF Chain
  <2>3. ~NeedsAfter(X[n])
    BY <1>4, <2>1, <2>2 DEF NeedsAfter, TokenRead, SpaceWrite, NewMember
  <2>4. ~NeedsBefore(d, X[1])
    BY <1>4, <2>1, <2>2 DEF NeedsBefore, SessionDel, PrefsRead, DigestLoop
  <2> QED
    BY <2>3, <2>4
<1>8. Chain(d, X)
  <2>1. X # <<>> => n > 0
    BY <1>3
  <2> QED
    BY <1>3, <1>6, <1>7, <2>1 DEF Chain
<1>9. X # <<>> => ~NeedsBefore(d, X[1])
  BY <1>3, <1>7
<1> QED
  BY <1>5, <1>8, <1>9 DEF Programs, AnyStep, X

\* One chain after another
LEMMA ChainsJoin ==
  ASSUME NEW A, NEW d, NEW x \in Seq(A), NEW y \in Seq(A), Chain(d, x), Chain(d, y),
         x # <<>> /\ y # <<>> => ~NeedsBefore(d, y[1])
  PROVE  Chain(d, x \o y)
<1> DEFINE z == x \o y
<1>1. /\ z \in Seq(A) /\ Len(z) = Len(x) + Len(y)
      /\ \A i \in 1..Len(x) : z[i] = x[i]
      /\ \A j \in 1..Len(y) : z[Len(x) + j] = y[j]
  BY ConcatFacts
<1>2. Len(x) \in Nat /\ Len(y) \in Nat
  OBVIOUS
<1> HIDE DEF z
<1>3. ASSUME NEW i \in 2..Len(z) PROVE Link(d, z[i - 1], z[i])
  <2>1. CASE i <= Len(x)
    <3>1. i \in 1..Len(x) /\ i - 1 \in 1..Len(x) /\ i \in 2..Len(x)
      BY <1>2, <1>3, <2>1
    <3>2. z[i] = x[i]
      BY <1>1, <3>1
    <3>3. z[i - 1] = x[i - 1]
      BY <1>1, <3>1
    <3>4. Link(d, x[i - 1], x[i])
      BY <3>1 DEF Chain
    <3> QED
      BY <3>2, <3>3, <3>4
  <2>2. CASE i > Len(x) + 1
    <3> DEFINE j == i - Len(x)
    <3>1. j \in 2..Len(y) /\ j \in 1..Len(y) /\ j - 1 \in 1..Len(y) /\ i = Len(x) + j /\ i - 1 = Len(x) + (j - 1)
      BY <1>1, <1>2, <1>3, <2>2
    <3> HIDE DEF j
    <3>2. z[i] = y[j] /\ z[i - 1] = y[j - 1]
      BY <1>1, <3>1
    <3> QED
      BY <3>1, <3>2 DEF Chain
  <2>3. CASE i = Len(x) + 1
    <3>1. x # <<>> /\ y # <<>> /\ z[i] = y[1] /\ z[i - 1] = x[Len(x)]
      <4>1. 1 \in 1..Len(y) /\ Len(x) \in 1..Len(x)
        BY <1>1, <1>2, <1>3, <2>3
      <4> QED
        BY <1>1, <1>2, <2>3, <4>1
    <3>2. ~NeedsBefore(d, y[1]) /\ ~NeedsAfter(x[Len(x)])
      BY <3>1 DEF Chain
    <3> QED
      BY <3>1, <3>2 DEF Link
  <2> QED
    BY <1>2, <1>3, <2>1, <2>2, <2>3
<1>4. ASSUME z # <<>> PROVE ~NeedsAfter(z[Len(z)])
  <2>1. CASE y = <<>>
    <3>1. x # <<>> /\ Len(z) = Len(x) /\ z[Len(z)] = x[Len(x)]
      BY <1>1, <1>2, <1>4, <2>1
    <3> QED
      BY <3>1 DEF Chain
  <2>2. CASE y # <<>>
    <3>1. z[Len(z)] = y[Len(y)]
      <4>1. Len(y) \in 1..Len(y)
        BY <1>2, <2>2
      <4> QED
        BY <1>1, <4>1
    <3> QED
      BY <2>2, <3>1 DEF Chain
  <2> QED
    BY <2>1, <2>2
<1>5. Chain(d, z)
  BY <1>3, <1>4 DEF Chain
<1> QED
  BY <1>5 DEF z

LEMMA ProgramsJoin ==
  ASSUME NEW d, NEW B, NEW x \in Programs(d, B), NEW y \in Programs(d, B)
  PROVE  x \o y \in Programs(d, B)
<1>1. /\ x \in Seq(StepsOf(d, B)) /\ Chain(d, x) /\ (x # <<>> => ~NeedsBefore(d, x[1]))
      /\ y \in Seq(StepsOf(d, B)) /\ Chain(d, y) /\ (y # <<>> => ~NeedsBefore(d, y[1]))
  BY DEF Programs
<1>2. Chain(d, x \o y)
  BY <1>1, ChainsJoin
<1>3. x \o y \in Seq(StepsOf(d, B))
  BY <1>1
<1>4. x \o y # <<>> => ~NeedsBefore(d, (x \o y)[1])
  <2>1. CASE x = <<>>
    BY <1>1, <2>1
  <2>2. CASE x # <<>>
    <3>1. (x \o y)[1] = x[1]
      BY <1>1, <2>2
    <3> QED
      BY <1>1, <2>2, <3>1
  <2> QED
    BY <2>1, <2>2
<1> QED
  BY <1>2, <1>3, <1>4 DEF Programs

\* What all laps are, and whatever joins keep of them, the whole loop is.
LEMMA LapsIn ==
  ASSUME NEW Q, NEW S, IsFiniteSet(S), NEW body, <<>> \in Q,
         \A x, y \in Q : x \o y \in Q, \A k \in S : Bind(k, body) \in Q
  PROVE  Laps(S, body) \in Q
<1>1. PICK order, laps :
           /\ Cardinality(S) \in Nat
           /\ order \in [1..Cardinality(S) -> S]
           /\ \A i, j \in 1..Cardinality(S) : order[i] = order[j] => i = j
           /\ \A k \in S : \E i \in 1..Cardinality(S) : order[i] = k
           /\ laps[0] = <<>>
           /\ \A n \in 1..Cardinality(S) : laps[n] = laps[n - 1] \o Bind(order[n], body)
           /\ Laps(S, body) = laps[Cardinality(S)]
  BY LapsOf
<1> DEFINE c == Cardinality(S)
           T == {n \in Nat : n <= c => laps[n] \in Q}
<1>2. 0 \in T
  BY <1>1
<1>3. ASSUME NEW n \in Nat, n \in T PROVE n + 1 \in T
  <2>1. CASE n + 1 <= c
    <3>1. n + 1 \in 1..c /\ n <= c /\ (n + 1) - 1 = n
      BY <1>1, <2>1
    <3>2. laps[n + 1] = laps[n] \o Bind(order[n + 1], body)
      BY <1>1, <3>1
    <3>3. order[n + 1] \in S
      BY <1>1, <3>1
    <3>4. laps[n] \in Q /\ Bind(order[n + 1], body) \in Q
      BY <1>3, <3>1, <3>3
    <3>5. laps[n] \o Bind(order[n + 1], body) \in Q
      BY <3>4
    <3>6. laps[n + 1] \in Q
      BY <3>2, <3>5
    <3> QED
      BY <3>6
  <2> QED
    BY <2>1
<1>4. c \in T
  <2> HIDE DEF T
  <2>1. Nat \subseteq T
    BY <1>2, <1>3, CountingUp
  <2> QED
    BY <1>1, <2>1
<1> QED
  BY <1>1, <1>4

-----------------------------------------------------------------------------
\* Laps

LEMMA LapsProgram ==
  ASSUME NEW d, NEW e \in AnyStep(d), NEW S, IsFiniteSet(S), S \subseteq Keys0
  PROVE  Laps(S, e.body) \in Programs(d, Bodies2(d))
<1> DEFINE Q == Programs(d, Bodies2(d))
<1>1. <<>> \in Q
  BY NothingProgram
<1>2. \A x, y \in Q : x \o y \in Q
  BY ProgramsJoin
<1>3. \A k \in S : Bind(k, e.body) \in Q
  BY BindProgram
<1> HIDE DEF Q
<1>4. Laps(S, e.body) \in Q
  BY <1>1, <1>2, <1>3, LapsIn
<1> QED
  BY <1>4 DEF Q

LEMMA LapsEmpty ==
  ASSUME NEW S, IsFiniteSet(S), NEW body, S = {} \/ body = <<>>
  PROVE  Laps(S, body) = <<>>
<1> DEFINE Q == {<<>>}
<1>1. <<>> \in Q /\ \A x, y \in Q : x \o y \in Q
  OBVIOUS
<1>2. \A k \in S : Bind(k, body) \in Q
  BY DEF Bind
<1> HIDE DEF Q
<1>3. Laps(S, body) \in Q
  BY <1>1, <1>2, LapsIn
<1> QED
  BY <1>3 DEF Q

\* x is a step of some lap
InLap(S, body, x) == \E k \in S : \E m \in 1..Len(body) : x = Bind(k, body)[m]

LEMMA LapsSteps ==
  ASSUME NEW A, NEW S, IsFiniteSet(S), NEW body \in Seq(A), NEW i \in DOMAIN Laps(S, body)
  PROVE  InLap(S, body, Laps(S, body)[i])
<1> DEFINE B == UNION {{Bind(k, body)[m] : m \in 1..Len(body)} : k \in S}
           Q == Seq(B)
<1>1. <<>> \in Q /\ \A x, y \in Q : x \o y \in Q
  <2> HIDE DEF B
  <2> QED
    OBVIOUS
<1>2. ASSUME NEW k \in S PROVE Bind(k, body) \in Q
  <2>1. Len(body) \in Nat /\ DOMAIN body = 1..Len(body)
    OBVIOUS
  <2>2. \A m \in 1..Len(body) : Bind(k, body)[m] \in B
    OBVIOUS
  <2>3. Bind(k, body) = [m \in 1..Len(body) |-> Bind(k, body)[m]]
    BY <2>1 DEF Bind
  <2> HIDE DEF B
  <2> QED
    BY <2>1, <2>2, <2>3, InSeq
<1> HIDE DEF Q
<1>3. Laps(S, body) \in Q
  BY <1>1, <1>2, LapsIn
<1>4. Laps(S, body)[i] \in B
  <2> HIDE DEF B
  <2> QED
    BY <1>3 DEF Q
<1> QED
  BY <1>4 DEF InLap

\* Every record has its lap.
LEMMA LapsAll ==
  ASSUME NEW A, NEW S, IsFiniteSet(S), NEW body \in Seq(A), NEW k \in S, NEW m \in 1..Len(body),
         Laps(S, body) \in Seq(A), \A x \in S : Bind(x, body) \in Seq(A)
  PROVE  \E i \in DOMAIN Laps(S, body) : Laps(S, body)[i] = Bind(k, body)[m]
<1>1. PICK order, laps :
           /\ Cardinality(S) \in Nat
           /\ order \in [1..Cardinality(S) -> S]
           /\ \A i, j \in 1..Cardinality(S) : order[i] = order[j] => i = j
           /\ \A x \in S : \E i \in 1..Cardinality(S) : order[i] = x
           /\ laps[0] = <<>>
           /\ \A n \in 1..Cardinality(S) : laps[n] = laps[n - 1] \o Bind(order[n], body)
           /\ Laps(S, body) = laps[Cardinality(S)]
  BY LapsOf
<1> DEFINE c == Cardinality(S)
           b == Bind(k, body)[m]
           Has2(s) == \E i \in DOMAIN s : s[i] = b
<1>2. PICK p \in 1..c : order[p] = k
  BY <1>1
<1> DEFINE T == {n \in Nat : n <= c => laps[n] \in Seq(A) /\ (n >= p => Has2(laps[n]))}
<1>3. 0 \in T
  <2>1. ~(0 >= p) /\ laps[0] \in Seq(A)
    BY <1>1, <1>2
  <2> QED
    BY <2>1
<1>4. ASSUME NEW n \in Nat, n \in T PROVE n + 1 \in T
  <2>1. SUFFICES ASSUME n + 1 <= c
                 PROVE  laps[n + 1] \in Seq(A) /\ (n + 1 >= p => Has2(laps[n + 1]))
    OBVIOUS
  <2>2. n + 1 \in 1..c /\ n <= c /\ (n + 1) - 1 = n
    BY <1>1, <2>1
  <2> DEFINE x == laps[n]
             y == Bind(order[n + 1], body)
             z == laps[n + 1]
  <2>3. z = x \o y
    BY <1>1, <2>2
  <2>4. x \in Seq(A) /\ (n >= p => Has2(x))
    BY <1>4, <2>2
  <2>5. order[n + 1] \in S /\ y \in Seq(A)
    BY <1>1, <2>2
  <2> HIDE DEF x, y, z, b
  <2>6. /\ z \in Seq(A) /\ Len(z) = Len(x) + Len(y)
        /\ \A i \in 1..Len(x) : z[i] = x[i]
        /\ \A j \in 1..Len(y) : z[Len(x) + j] = y[j]
    BY <2>3, <2>4, <2>5, ConcatFacts
  <2>7. Len(x) \in Nat /\ Len(y) \in Nat /\ DOMAIN x = 1..Len(x) /\ DOMAIN y = 1..Len(y) /\ DOMAIN z = 1..Len(z)
    BY <2>4, <2>5, <2>6
  <2>8. CASE n >= p
    <3>1. PICK i \in 1..Len(x) : x[i] = b
      BY <2>4, <2>7, <2>8
    <3>2. i \in DOMAIN z /\ z[i] = b
      BY <2>6, <2>7, <3>1
    <3> QED
      BY <2>6, <3>2 DEF z
  <2>9. CASE n + 1 = p
    <3>1. y = Bind(k, body) /\ m \in 1..Len(y)
      BY <1>2, <2>9, BindFacts DEF y
    <3>2. Len(x) + m \in DOMAIN z /\ z[Len(x) + m] = b
      BY <2>6, <2>7, <3>1 DEF b
    <3> QED
      BY <2>6, <3>2 DEF z
  <2>10. CASE n + 1 < p
    BY <1>2, <2>6, <2>10 DEF z
  <2> QED
    BY <1>2, <2>8, <2>9, <2>10
<1>5. c \in T
  <2> HIDE DEF T
  <2>1. Nat \subseteq T
    BY <1>3, <1>4, CountingUp
  <2> QED
    BY <1>1, <2>1
<1>6. Has2(laps[c])
  BY <1>1, <1>2, <1>5
<1> QED
  BY <1>1, <1>6

\* Steps with the same key are of the same lap, in the order of the body.
InOrder(S, body, x, y) ==
  \E k \in S : \E m, n \in 1..Len(body) : m < n /\ x = Bind(k, body)[m] /\ y = Bind(k, body)[n]

LEMMA LapsOrder ==
  ASSUME NEW A, NEW S, IsFiniteSet(S), NEW body \in Seq(A), \A x \in S : Bind(x, body) \in Seq(A),
         \A x \in S : \A m \in 1..Len(body) : Bind(x, body)[m].key = x,
         NEW i \in DOMAIN Laps(S, body), NEW j \in DOMAIN Laps(S, body), i < j,
         Laps(S, body)[i].key = Laps(S, body)[j].key, Laps(S, body) \in Seq(A)
  PROVE  InOrder(S, body, Laps(S, body)[i], Laps(S, body)[j])
<1>1. PICK order, laps :
           /\ Cardinality(S) \in Nat
           /\ order \in [1..Cardinality(S) -> S]
           /\ \A p, q \in 1..Cardinality(S) : order[p] = order[q] => p = q
           /\ \A x \in S : \E p \in 1..Cardinality(S) : order[p] = x
           /\ laps[0] = <<>>
           /\ \A n \in 1..Cardinality(S) : laps[n] = laps[n - 1] \o Bind(order[n], body)
           /\ Laps(S, body) = laps[Cardinality(S)]
  BY LapsOf
<1> DEFINE c == Cardinality(S)
           Early(s, n) == \A p \in DOMAIN s : \E q \in 1..n : s[p].key = order[q]
           Ord(s) == \A p, q \in DOMAIN s : p < q /\ s[p].key = s[q].key => InOrder(S, body, s[p], s[q])
           Good(n) == laps[n] \in Seq(A) /\ Early(laps[n], n) /\ Ord(laps[n])
           T == {n \in Nat : n <= c => Good(n)}
<1>2. Good(0)
  BY <1>1
<1>3. ASSUME NEW n \in Nat, n + 1 <= c, Good(n) PROVE Good(n + 1)
  <2>1. n + 1 \in 1..c /\ (n + 1) - 1 = n
    BY <1>1, <1>3
  <2> DEFINE k == order[n + 1]
             x == laps[n]
             y == Bind(k, body)
             z == laps[n + 1]
  <2>2. z = x \o y
    BY <1>1, <2>1
  <2>3. x \in Seq(A) /\ Early(x, n) /\ Ord(x)
    BY <1>3
  <2>4. k \in S /\ y \in Seq(A)
    BY <1>1, <2>1
  <2>5. Len(y) = Len(body) /\ \A m \in 1..Len(y) : y[m].key = k
    BY <2>4, BindFacts
  <2> HIDE DEF x, z
  <2>6. /\ z \in Seq(A) /\ Len(z) = Len(x) + Len(y)
        /\ \A p \in 1..Len(x) : z[p] = x[p]
        /\ \A q \in 1..Len(y) : z[Len(x) + q] = y[q]
    <3> HIDE DEF y
    <3> QED
      BY <2>2, <2>3, <2>4, ConcatFacts
  <2>7. Len(x) \in Nat /\ Len(y) \in Nat /\ DOMAIN x = 1..Len(x) /\ DOMAIN y = 1..Len(y) /\ DOMAIN z = 1..Len(z)
    BY <2>3, <2>4, <2>6
  <2>8. \A p \in 1..Len(x) : x[p].key # k
    <3> SUFFICES ASSUME NEW p \in 1..Len(x), x[p].key = k PROVE FALSE
      OBVIOUS
    <3>1. PICK q \in 1..n : x[p].key = order[q]
      BY <2>3, <2>7
    <3>2. q \in 1..c /\ q # n + 1
      BY <2>1, <1>1
    <3> QED
      BY <1>1, <2>1, <3>1, <3>2
  <2>9. \A p \in DOMAIN z : p \in 1..Len(x) \/ \E m \in 1..Len(y) : p = Len(x) + m
    <3> SUFFICES ASSUME NEW p \in DOMAIN z, p \notin 1..Len(x) PROVE \E m \in 1..Len(y) : p = Len(x) + m
      OBVIOUS
    <3>1. p - Len(x) \in 1..Len(y) /\ p = Len(x) + (p - Len(x))
      BY <2>6, <2>7
    <3> QED
      BY <3>1
  <2>10. Early(z, n + 1)
    <3> SUFFICES ASSUME NEW p \in DOMAIN z PROVE \E q \in 1..n + 1 : z[p].key = order[q]
      OBVIOUS
    <3>1. CASE p \in 1..Len(x)
      <4>1. PICK q \in 1..n : x[p].key = order[q]
        BY <2>3, <2>7, <3>1
      <4> QED
        BY <2>6, <3>1, <4>1
    <3>2. CASE p \notin 1..Len(x)
      <4>1. PICK m \in 1..Len(y) : p = Len(x) + m
        BY <2>9, <3>2
      <4>2. z[p].key = k
        BY <2>5, <2>6, <4>1
      <4>3. n + 1 \in 1..n + 1
        OBVIOUS
      <4> QED
        BY <4>2, <4>3
    <3> QED
      BY <3>1, <3>2
  <2>11. Ord(z)
    <3> SUFFICES ASSUME NEW p \in DOMAIN z, NEW q \in DOMAIN z, p < q, z[p].key = z[q].key
                 PROVE  InOrder(S, body, z[p], z[q])
      OBVIOUS
    <3>1. CASE q \in 1..Len(x)
      <4>1. p \in 1..Len(x)
        BY <2>7, <3>1
      <4> QED
        BY <2>3, <2>6, <2>7, <3>1, <4>1
    <3>2. CASE q \notin 1..Len(x)
      <4>1. PICK m \in 1..Len(y) : q = Len(x) + m
        BY <2>9, <3>2
      <4>2. z[q].key = k
        BY <2>5, <2>6, <4>1
      <4>3. p \notin 1..Len(x)
        BY <2>6, <2>8, <4>2
      <4>4. PICK l \in 1..Len(y) : p = Len(x) + l
        BY <2>9, <4>3
      <4>5. l < m
        BY <2>7, <4>1, <4>4
      <4>6. z[p] = y[l] /\ z[q] = y[m]
        BY <2>6, <4>1, <4>4
      <4> QED
        BY <2>4, <2>5, <4>5, <4>6 DEF InOrder
    <3> QED
      BY <3>1, <3>2
  <2> QED
    BY <2>6, <2>10, <2>11 DEF z
<1> HIDE DEF Good
<1>4. 0 \in T
  BY <1>2
<1>5. ASSUME NEW n \in Nat, n \in T PROVE n + 1 \in T
  BY <1>1, <1>3, <1>5
<1>6. c \in T
  <2> HIDE DEF T
  <2>1. Nat \subseteq T
    BY <1>4, <1>5, CountingUp
  <2> QED
    BY <1>1, <2>1
<1>7. Ord(laps[c])
  BY <1>1, <1>6 DEF Good
<1> QED
  BY <1>1, <1>7

-----------------------------------------------------------------------------
\* What is left of a handler

LEMMA TodosFrom ==
  ASSUME NEW d, NEW s \in Todos(d), NEW n \in 1..Len(s) + 1
  PROVE  From(s, n) \in Todos(d)
<1>1. s \in Seq(AnyStep(d)) /\ Chain(d, s) /\ Len(s) \in Nat
  BY DEF Todos
<1> DEFINE z == From(s, n)
<1>2. /\ z \in Seq(AnyStep(d)) /\ Len(z) = Len(s) - n + 1
      /\ \A i \in 1..Len(s) - n + 1 : z[i] = s[i + n - 1]
  BY <1>1, FromFacts
<1> HIDE DEF z
<1>3. ASSUME NEW i \in 2..Len(z) PROVE Link(d, z[i - 1], z[i])
  <2>1. i + n - 1 \in 2..Len(s) /\ i - 1 \in 1..Len(s) - n + 1 /\ i \in 1..Len(s) - n + 1
        /\ (i - 1) + n - 1 = (i + n - 1) - 1
    BY <1>1, <1>2, <1>3
  <2>2. z[i - 1] = s[(i + n - 1) - 1] /\ z[i] = s[i + n - 1]
    BY <1>2, <2>1
  <2> QED
    BY <1>1, <2>1, <2>2 DEF Chain
<1>4. z # <<>> => ~NeedsAfter(z[Len(z)])
  <2> SUFFICES ASSUME z # <<>> PROVE ~NeedsAfter(z[Len(z)])
    OBVIOUS
  <2>1. Len(z) \in 1..Len(s) - n + 1 /\ Len(z) + n - 1 = Len(s) /\ s # <<>>
    BY <1>1, <1>2
  <2> QED
    BY <1>1, <1>2, <2>1 DEF Chain
<1>5. Chain(d, z)
  BY <1>3, <1>4 DEF Chain
<1> QED
  BY <1>2, <1>5 DEF Todos, z

LEMMA LoopsGiveNothing ==
  ASSUME NEW d, NEW e \in AnyStep(d), e.body # <<>>, NEW s, Link(d, e, s)
  PROVE  ~NeedsBefore(d, s)
<1>1. PlainShape(e)
  BY DEF AnyStep, StepsOf, Shape
<1>2. e.op \in Branches
  BY <1>1 DEF PlainShape
<1>3. ~Gives(d, e, s) \/ ~NeedsBefore(d, s)
  BY <1>2 DEF Gives, NeedsBefore, Loops, Branches, PrefsRead, DigestList, DigestLoop, SessionDel
<1> QED
  BY <1>3 DEF Link

LEMMA TodosJoin ==
  ASSUME NEW d, NEW s \in Todos(d), s # <<>>, NEW x \in Programs(d, Bodies2(d)),
         s[1].body = <<>> => x = <<>>
  PROVE  x \o From(s, 2) \in Todos(d)
<1> DEFINE y == From(s, 2)
<1>1. s \in Seq(AnyStep(d)) /\ Chain(d, s) /\ Len(s) \in Nat /\ Len(s) >= 1
  BY DEF Todos
<1>2. y \in Todos(d) /\ Len(y) = Len(s) - 1 /\ \A i \in 1..Len(y) : y[i] = s[i + 1]
  <2>1. 2 \in 1..Len(s) + 1
    BY <1>1
  <2>2. y \in Todos(d)
    BY <2>1, TodosFrom
  <2>3. Len(y) = Len(s) - 2 + 1 /\ \A i \in 1..Len(s) - 2 + 1 : y[i] = s[i + 2 - 1]
    BY <1>1, <2>1, FromFacts
  <2> HIDE DEF y
  <2>4. \A i \in 1..Len(s) - 2 + 1 : i + 2 - 1 = i + 1
    BY <1>1
  <2> QED
    BY <1>1, <2>2, <2>3, <2>4
<1>3. x \in Seq(AnyStep(d)) /\ Chain(d, x)
  BY DEF Programs, AnyStep
<1>4. y \in Seq(AnyStep(d)) /\ Chain(d, y)
  BY <1>2 DEF Todos
<1>5. x # <<>> /\ y # <<>> => ~NeedsBefore(d, y[1])
  <2> SUFFICES ASSUME x # <<>>, y # <<>> PROVE ~NeedsBefore(d, y[1])
    OBVIOUS
  <2> HIDE DEF y
  <2>1. Len(y) >= 1 /\ 1 \in 1..Len(y) /\ 2 \in 2..Len(s)
    BY <1>1, <1>2, <1>4
  <2>2. y[1] = s[2] /\ Link(d, s[1], s[2])
    BY <1>1, <1>2, <2>1 DEF Chain
  <2>3. s[1] \in AnyStep(d) /\ s[1].body # <<>>
    BY <1>1
  <2> QED
    BY <2>2, <2>3, LoopsGiveNothing
<1> HIDE DEF y
<1>6. Chain(d, x \o y)
  BY <1>3, <1>4, <1>5, ChainsJoin
<1>7. x \o y \in Seq(AnyStep(d))
  BY <1>3, <1>4
<1> QED
  BY <1>6, <1>7 DEF Todos, y

-----------------------------------------------------------------------------
\* Handlers step by step

\* A step that is none of those a handler has for a purpose
Light(s) == TopShape(s) /\ ~TokenRead(s) /\ ~Forgets(s) /\ ~UserDel(s)
Easy(d) == {s \in Programs(d, Bodies2(d)) : Covered(s) /\ \A i \in DOMAIN s : Light(s[i])}
Calm(d, s) == s \in StepsOf(d, {<<>>}) /\ Light(s) /\ ~NeedsBefore(d, s) /\ ~NeedsAfter(s)

LEMMA FlatAny ==
  ASSUME NEW d
  PROVE  StepsOf(d, {<<>>}) \subseteq AnyStep(d) /\ StepsOf(d, {<<>>}) \subseteq StepsOf(d, Bodies1(d))
BY BodiesNested

LEMMA FlatStep ==
  ASSUME NEW d, NEW op \in OpNames, NEW t \in Tables \cup {"none"}, NEW via \in Tables \cup {"none"}, NEW f \in Modes,
         NEW s, s = Step(op, t, via, f, <<>>), PlainShape(s), IndexShape(d, s), OtherShape(s)
  PROVE  s \in StepsOf(d, {<<>>})
<1>1. s \in Raw({<<>>})
  BY DEF Raw, Step, Keys0
<1>2. s.body = <<>>
  BY DEF Step
<1> QED
  BY <1>1, <1>2 DEF StepsOf, Shape

LEMMA TableNames ==
  /\ {"users", "sessions", "byuser", "keys", "tokens", "passkeys", "ceremonies", "oidclinks", "states", "prints"}
       \subseteq Tables
  /\ {"spaces", "members", "spacecache", "cross", "stacks", "prs", "prindex", "deps", "dependents"} \subseteq Tables
  /\ {"links", "linksbypr", "templates", "deployments", "load", "prefs", "digests", "logs", "logindex"}
       \subseteq Tables
BY DEF Tables, AccountTables, TeamTables, RecordTables

\* Steps that need no other: reads
LEMMA Gets ==
  ASSUME NEW d
  PROVE  \A t \in {"users", "sessions", "keys", "oidclinks", "ceremonies", "passkeys", "prints", "prs", "prindex",
                   "spaces", "cross", "stacks", "load"} :
           \A f \in Modes : (t \in {"oidclinks", "spaces"} => f = "end") => Calm(d, Get(t, f)) /\ ~Rewrites(Get(t, f))
<1> SUFFICES ASSUME NEW t \in {"users", "sessions", "keys", "oidclinks", "ceremonies", "passkeys", "prints", "prs", "prindex",
                   "spaces", "cross", "stacks", "load"}, NEW f \in Modes, t \in {"oidclinks", "spaces"} => f = "end"
             PROVE  Calm(d, Get(t, f)) /\ ~Rewrites(Get(t, f))
  OBVIOUS
<1> DEFINE s == Get(t, f)
<1>1. s = Step("get", t, t, f, <<>>) /\ "get" \in OpNames
  BY DEF Get, OpNames
<1>2. s = [op |-> "get", t |-> t, via |-> t, failed |-> f, body |-> <<>>, key |-> 0]
  BY <1>1 DEF Step
<1> HIDE DEF s
<1>3. t \in Tables
  BY TableNames
<1>4. PlainShape(s) /\ IndexShape(d, s) /\ OtherShape(s)
  <2>1. PlainShape(s)
    BY <1>2, <1>3 DEF PlainShape, Made, Loops, Branches
  <2>2. IndexShape(d, s)
    BY <1>2 DEF IndexShape
  <2>3. OtherShape(s)
    BY <1>2 DEF OtherShape
  <2> QED
    BY <2>1, <2>2, <2>3
<1>5. s \in StepsOf(d, {<<>>})
  BY <1>1, <1>3, <1>4, FlatStep
<1>6. Light(s) /\ ~NeedsBefore(d, s) /\ ~NeedsAfter(s)
  BY <1>2 DEF Light, TopShape, DigestDel, TokenRead, Forgets, UserDel, NeedsBefore, SessionDel, PrefsRead,
              DigestLoop, NeedsAfter, SpaceWrite, NewMember, Rewrites
<1>7. ~Rewrites(s)
  BY <1>2 DEF Rewrites, Memory, Index
<1> QED
  BY <1>5, <1>6, <1>7 DEF Calm, s

\* Steps that need no other: records written over what was read of them
LEMMA Puts ==
  ASSUME NEW d
  PROVE  \A t \in {"users", "sessions", "keys", "passkeys", "cross", "stacks", "load", "oidclinks"} :
           \A f \in Modes : (TRUE) => Calm(d, Put(t, f)) /\ Rewrites(Put(t, f))
<1> SUFFICES ASSUME NEW t \in {"users", "sessions", "keys", "passkeys", "cross", "stacks", "load", "oidclinks"}, NEW f \in Modes, TRUE
             PROVE  Calm(d, Put(t, f)) /\ Rewrites(Put(t, f))
  OBVIOUS
<1> DEFINE s == Put(t, f)
<1>1. s = Step("put", t, t, f, <<>>) /\ "put" \in OpNames
  BY DEF Put, OpNames
<1>2. s = [op |-> "put", t |-> t, via |-> t, failed |-> f, body |-> <<>>, key |-> 0]
  BY <1>1 DEF Step
<1> HIDE DEF s
<1>3. t \in Tables
  BY TableNames
<1>4. PlainShape(s) /\ IndexShape(d, s) /\ OtherShape(s)
  <2>1. PlainShape(s)
    BY <1>2, <1>3 DEF PlainShape, Made, Loops, Branches
  <2>2. IndexShape(d, s)
    BY <1>2 DEF IndexShape
  <2>3. OtherShape(s)
    BY <1>2 DEF OtherShape
  <2> QED
    BY <2>1, <2>2, <2>3
<1>5. s \in StepsOf(d, {<<>>})
  BY <1>1, <1>3, <1>4, FlatStep
<1>6. Light(s) /\ ~NeedsBefore(d, s) /\ ~NeedsAfter(s)
  BY <1>2 DEF Light, TopShape, DigestDel, TokenRead, Forgets, UserDel, NeedsBefore, SessionDel, PrefsRead,
              DigestLoop, NeedsAfter, SpaceWrite, NewMember, Rewrites
<1>7. Rewrites(s)
  BY <1>2 DEF Rewrites, Memory, Index
<1> QED
  BY <1>5, <1>6, <1>7 DEF Calm, s

\* Steps that need no other: records written whole
LEMMA Blanks ==
  ASSUME NEW d
  PROVE  \A t \in {"users", "links", "deps", "cross", "templates", "prefs", "members", "oidclinks"} :
           \A f \in Modes : (t = "members" => f = "end") => Calm(d, Blank(t, f)) /\ ~Rewrites(Blank(t, f))
<1> SUFFICES ASSUME NEW t \in {"users", "links", "deps", "cross", "templates", "prefs", "members", "oidclinks"}, NEW f \in Modes, t = "members" => f = "end"
             PROVE  Calm(d, Blank(t, f)) /\ ~Rewrites(Blank(t, f))
  OBVIOUS
<1> DEFINE s == Blank(t, f)
<1>1. s = Step("blank", t, t, f, <<>>) /\ "blank" \in OpNames
  BY DEF Blank, OpNames
<1>2. s = [op |-> "blank", t |-> t, via |-> t, failed |-> f, body |-> <<>>, key |-> 0]
  BY <1>1 DEF Step
<1> HIDE DEF s
<1>3. t \in Tables
  BY TableNames
<1>4. PlainShape(s) /\ IndexShape(d, s) /\ OtherShape(s)
  <2>1. PlainShape(s)
    BY <1>2, <1>3 DEF PlainShape, Made, Loops, Branches
  <2>2. IndexShape(d, s)
    BY <1>2 DEF IndexShape
  <2>3. OtherShape(s)
    BY <1>2 DEF OtherShape
  <2> QED
    BY <2>1, <2>2, <2>3
<1>5. s \in StepsOf(d, {<<>>})
  BY <1>1, <1>3, <1>4, FlatStep
<1>6. Light(s) /\ ~NeedsBefore(d, s) /\ ~NeedsAfter(s)
  BY <1>2 DEF Light, TopShape, DigestDel, TokenRead, Forgets, UserDel, NeedsBefore, SessionDel, PrefsRead,
              DigestLoop, NeedsAfter, SpaceWrite, NewMember, Rewrites
<1>7. ~Rewrites(s)
  BY <1>2 DEF Rewrites, Memory, Index
<1> QED
  BY <1>5, <1>6, <1>7 DEF Calm, s

\* Steps that need no other: records deleted
LEMMA Dels ==
  ASSUME NEW d
  PROVE  \A t \in {"keys", "oidclinks", "tokens", "ceremonies", "passkeys", "prints", "stacks", "members"} :
           \A f \in Modes : (t = "tokens" => f = "end") => Calm(d, Del(t, f)) /\ ~Rewrites(Del(t, f))
<1> SUFFICES ASSUME NEW t \in {"keys", "oidclinks", "tokens", "ceremonies", "passkeys", "prints", "stacks", "members"}, NEW f \in Modes, t = "tokens" => f = "end"
             PROVE  Calm(d, Del(t, f)) /\ ~Rewrites(Del(t, f))
  OBVIOUS
<1> DEFINE s == Del(t, f)
<1>1. s = Step("del", t, t, f, <<>>) /\ "del" \in OpNames
  BY DEF Del, OpNames
<1>2. s = [op |-> "del", t |-> t, via |-> t, failed |-> f, body |-> <<>>, key |-> 0]
  BY <1>1 DEF Step
<1> HIDE DEF s
<1>3. t \in Tables
  BY TableNames
<1>4. PlainShape(s) /\ IndexShape(d, s) /\ OtherShape(s)
  <2>1. PlainShape(s)
    BY <1>2, <1>3 DEF PlainShape, Made, Loops, Branches
  <2>2. IndexShape(d, s)
    BY <1>2 DEF IndexShape
  <2>3. OtherShape(s)
    BY <1>2 DEF OtherShape
  <2> QED
    BY <2>1, <2>2, <2>3
<1>5. s \in StepsOf(d, {<<>>})
  BY <1>1, <1>3, <1>4, FlatStep
<1>6. Light(s) /\ ~NeedsBefore(d, s) /\ ~NeedsAfter(s)
  BY <1>2 DEF Light, TopShape, DigestDel, TokenRead, Forgets, UserDel, NeedsBefore, SessionDel, PrefsRead,
              DigestLoop, NeedsAfter, SpaceWrite, NewMember, Rewrites
<1>7. ~Rewrites(s)
  BY <1>2 DEF Rewrites, Memory, Index
<1> QED
  BY <1>5, <1>6, <1>7 DEF Calm, s

\* The steps of which there are few
LEMMA Singles ==
  ASSUME NEW d
  PROVE
    /\ FreshKey \in StepsOf(d, {<<>>})
    /\ Light(FreshKey) /\ ~NeedsBefore(d, FreshKey) /\ ~NeedsAfter(FreshKey) /\ ~Rewrites(FreshKey)
    /\ Vacant("users") \in StepsOf(d, {<<>>})
    /\ Light(Vacant("users")) /\ ~NeedsBefore(d, Vacant("users")) /\ ~NeedsAfter(Vacant("users")) /\ ~Rewrites(Vacant("users"))
    /\ Vacant("oidclinks") \in StepsOf(d, {<<>>})
    /\ Light(Vacant("oidclinks")) /\ ~NeedsBefore(d, Vacant("oidclinks")) /\ ~NeedsAfter(Vacant("oidclinks")) /\ ~Rewrites(Vacant("oidclinks"))
    /\ Take("states") \in StepsOf(d, {<<>>})
    /\ Light(Take("states")) /\ NeedsBefore(d, Take("states")) /\ ~NeedsAfter(Take("states")) /\ ~Rewrites(Take("states"))
    /\ Touch("sessions", "on") \in StepsOf(d, {<<>>})
    /\ Light(Touch("sessions", "on")) /\ ~NeedsBefore(d, Touch("sessions", "on")) /\ ~NeedsAfter(Touch("sessions", "on")) /\ ~Rewrites(Touch("sessions", "on"))
    /\ PutBoth("prs", "prindex") \in StepsOf(d, {<<>>})
    /\ Light(PutBoth("prs", "prindex")) /\ ~NeedsBefore(d, PutBoth("prs", "prindex")) /\ ~NeedsAfter(PutBoth("prs", "prindex")) /\ Rewrites(PutBoth("prs", "prindex"))
    /\ (d = "mongo" => Put("prs", "end") \in StepsOf(d, {<<>>}))
    /\ Light(Put("prs", "end")) /\ ~NeedsBefore(d, Put("prs", "end")) /\ ~NeedsAfter(Put("prs", "end")) /\ Rewrites(Put("prs", "end"))
    /\ Put("prindex", "end") \in StepsOf(d, {<<>>})
    /\ Light(Put("prindex", "end")) /\ NeedsBefore(d, Put("prindex", "end")) /\ ~NeedsAfter(Put("prindex", "end")) /\ ~Rewrites(Put("prindex", "end"))
    /\ Put("prindex", "on") \in StepsOf(d, {<<>>})
    /\ Light(Put("prindex", "on")) /\ NeedsBefore(d, Put("prindex", "on")) /\ ~NeedsAfter(Put("prindex", "on")) /\ ~Rewrites(Put("prindex", "on"))
    /\ SomeOf("deps") \in StepsOf(d, {<<>>})
    /\ Light(SomeOf("deps")) /\ ~NeedsBefore(d, SomeOf("deps")) /\ ~NeedsAfter(SomeOf("deps")) /\ ~Rewrites(SomeOf("deps"))
    /\ Put("spaces", "end") \in StepsOf(d, {<<>>})
    /\ Light(Put("spaces", "end")) /\ ~NeedsBefore(d, Put("spaces", "end")) /\ NeedsAfter(Put("spaces", "end")) /\ Rewrites(Put("spaces", "end"))
    /\ Blank("spaces", "end") \in StepsOf(d, {<<>>})
    /\ Light(Blank("spaces", "end")) /\ ~NeedsBefore(d, Blank("spaces", "end")) /\ NeedsAfter(Blank("spaces", "end")) /\ ~Rewrites(Blank("spaces", "end"))
    /\ Blank("members", "on") \in StepsOf(d, {<<>>})
    /\ Light(Blank("members", "on")) /\ ~NeedsBefore(d, Blank("members", "on")) /\ NeedsAfter(Blank("members", "on")) /\ ~Rewrites(Blank("members", "on"))
    /\ Blank("linksbypr", "end") \in StepsOf(d, {<<>>})
    /\ Light(Blank("linksbypr", "end")) /\ NeedsBefore(d, Blank("linksbypr", "end")) /\ ~NeedsAfter(Blank("linksbypr", "end")) /\ ~Rewrites(Blank("linksbypr", "end"))
    /\ Blank("linksbypr", "on") \in StepsOf(d, {<<>>})
    /\ Light(Blank("linksbypr", "on")) /\ NeedsBefore(d, Blank("linksbypr", "on")) /\ ~NeedsAfter(Blank("linksbypr", "on")) /\ ~Rewrites(Blank("linksbypr", "on"))
    /\ Blank("dependents", "end") \in StepsOf(d, {<<>>})
    /\ Light(Blank("dependents", "end")) /\ NeedsBefore(d, Blank("dependents", "end")) /\ ~NeedsAfter(Blank("dependents", "end")) /\ ~Rewrites(Blank("dependents", "end"))
    /\ Get("tokens", "end") \in StepsOf(d, {<<>>})
    /\ ~Light(Get("tokens", "end")) /\ ~NeedsBefore(d, Get("tokens", "end")) /\ NeedsAfter(Get("tokens", "end")) /\ ~Rewrites(Get("tokens", "end"))
    /\ Get("prefs", "end") \in StepsOf(d, {<<>>})
    /\ Light(Get("prefs", "end")) /\ NeedsBefore(d, Get("prefs", "end")) /\ ~NeedsAfter(Get("prefs", "end")) /\ ~Rewrites(Get("prefs", "end"))
    /\ (d = "bbolt" => Del("byuser", "on") \in StepsOf(d, {<<>>}))
    /\ Light(Del("byuser", "on")) /\ ~NeedsBefore(d, Del("byuser", "on")) /\ ~NeedsAfter(Del("byuser", "on")) /\ ~Rewrites(Del("byuser", "on"))
    /\ Del("sessions", "on") \in StepsOf(d, {<<>>})
    /\ Light(Del("sessions", "on")) /\ (d = "mongo" => ~NeedsBefore(d, Del("sessions", "on"))) /\ ~NeedsAfter(Del("sessions", "on")) /\ ~Rewrites(Del("sessions", "on"))
    /\ Del("sessions", "end") \in StepsOf(d, {<<>>})
    /\ Light(Del("sessions", "end")) /\ (d = "mongo" => ~NeedsBefore(d, Del("sessions", "end"))) /\ ~NeedsAfter(Del("sessions", "end")) /\ ~Rewrites(Del("sessions", "end"))
    /\ Del("sessions", "next") \in StepsOf(d, {<<>>})
    /\ Light(Del("sessions", "next")) /\ (d = "mongo" => ~NeedsBefore(d, Del("sessions", "next"))) /\ ~NeedsAfter(Del("sessions", "next")) /\ ~Rewrites(Del("sessions", "next"))
    /\ Del("sessions", "out") \in StepsOf(d, {<<>>})
    /\ Light(Del("sessions", "out")) /\ (d = "mongo" => ~NeedsBefore(d, Del("sessions", "out"))) /\ ~NeedsAfter(Del("sessions", "out")) /\ ~Rewrites(Del("sessions", "out"))
    /\ Del("spaces", "end") \in StepsOf(d, {<<>>})
    /\ Light(Del("spaces", "end")) /\ ~NeedsBefore(d, Del("spaces", "end")) /\ NeedsAfter(Del("spaces", "end")) /\ ~Rewrites(Del("spaces", "end"))
    /\ Del("users", "end") \in StepsOf(d, {<<>>})
    /\ ~Light(Del("users", "end")) /\ ~NeedsBefore(d, Del("users", "end")) /\ ~NeedsAfter(Del("users", "end")) /\ ~Rewrites(Del("users", "end"))
    /\ Del("digests", "out") \in StepsOf(d, {<<>>})
    /\ ~Light(Del("digests", "out")) /\ ~NeedsBefore(d, Del("digests", "out")) /\ ~NeedsAfter(Del("digests", "out")) /\ ~Rewrites(Del("digests", "out"))
    /\ (d = "mongo" => Purge("sessions", "on") \in StepsOf(d, {<<>>}))
    /\ Light(Purge("sessions", "on")) /\ ~NeedsBefore(d, Purge("sessions", "on")) /\ ~NeedsAfter(Purge("sessions", "on")) /\ ~Rewrites(Purge("sessions", "on"))
    /\ (d = "mongo" => PurgeIdle("sessions", "on") \in StepsOf(d, {<<>>}))
    /\ Light(PurgeIdle("sessions", "on")) /\ ~NeedsBefore(d, PurgeIdle("sessions", "on")) /\ ~NeedsAfter(PurgeIdle("sessions", "on")) /\ ~Rewrites(PurgeIdle("sessions", "on"))
    /\ Purge("digests", "on") \in StepsOf(d, {<<>>})
    /\ Light(Purge("digests", "on")) /\ NeedsBefore(d, Purge("digests", "on")) /\ ~NeedsAfter(Purge("digests", "on")) /\ ~Rewrites(Purge("digests", "on"))
    /\ Forget("prints") \in StepsOf(d, {<<>>})
    /\ Light(Forget("prints")) /\ ~NeedsBefore(d, Forget("prints")) /\ ~NeedsAfter(Forget("prints")) /\ ~Rewrites(Forget("prints"))
    /\ Forget("spacecache") \in StepsOf(d, {<<>>})
    /\ ~Light(Forget("spacecache")) /\ ~NeedsBefore(d, Forget("spacecache")) /\ ~NeedsAfter(Forget("spacecache")) /\ ~Rewrites(Forget("spacecache"))
    /\ Fill("spacecache", "spaces") \in StepsOf(d, {<<>>})
    /\ Light(Fill("spacecache", "spaces")) /\ ~NeedsBefore(d, Fill("spacecache", "spaces")) /\ ~NeedsAfter(Fill("spacecache", "spaces")) /\ ~Rewrites(Fill("spacecache", "spaces"))
    /\ Send("digests") \in StepsOf(d, {<<>>})
    /\ Light(Send("digests")) /\ NeedsBefore(d, Send("digests")) /\ ~NeedsAfter(Send("digests")) /\ ~Rewrites(Send("digests"))
    /\ New("sessions", "end") \in StepsOf(d, {<<>>})
    /\ Light(New("sessions", "end")) /\ NeedsBefore(d, New("sessions", "end")) /\ ~NeedsAfter(New("sessions", "end")) /\ ~Rewrites(New("sessions", "end"))
    /\ (d = "bbolt" => New("byuser", "end") \in StepsOf(d, {<<>>}))
    /\ Light(New("byuser", "end")) /\ NeedsBefore(d, New("byuser", "end")) /\ ~NeedsAfter(New("byuser", "end")) /\ ~Rewrites(New("byuser", "end"))
    /\ New("tokens", "end") \in StepsOf(d, {<<>>})
    /\ Light(New("tokens", "end")) /\ NeedsBefore(d, New("tokens", "end")) /\ ~NeedsAfter(New("tokens", "end")) /\ ~Rewrites(New("tokens", "end"))
    /\ New("keys", "end") \in StepsOf(d, {<<>>})
    /\ Light(New("keys", "end")) /\ NeedsBefore(d, New("keys", "end")) /\ ~NeedsAfter(New("keys", "end")) /\ ~Rewrites(New("keys", "end"))
    /\ New("ceremonies", "end") \in StepsOf(d, {<<>>})
    /\ Light(New("ceremonies", "end")) /\ NeedsBefore(d, New("ceremonies", "end")) /\ ~NeedsAfter(New("ceremonies", "end")) /\ ~Rewrites(New("ceremonies", "end"))
    /\ New("passkeys", "end") \in StepsOf(d, {<<>>})
    /\ Light(New("passkeys", "end")) /\ NeedsBefore(d, New("passkeys", "end")) /\ ~NeedsAfter(New("passkeys", "end")) /\ ~Rewrites(New("passkeys", "end"))
    /\ New("states", "on") \in StepsOf(d, {<<>>})
    /\ Light(New("states", "on")) /\ NeedsBefore(d, New("states", "on")) /\ ~NeedsAfter(New("states", "on")) /\ ~Rewrites(New("states", "on"))
    /\ New("prints", "on") \in StepsOf(d, {<<>>})
    /\ Light(New("prints", "on")) /\ NeedsBefore(d, New("prints", "on")) /\ ~NeedsAfter(New("prints", "on")) /\ ~Rewrites(New("prints", "on"))
    /\ New("stacks", "end") \in StepsOf(d, {<<>>})
    /\ Light(New("stacks", "end")) /\ NeedsBefore(d, New("stacks", "end")) /\ ~NeedsAfter(New("stacks", "end")) /\ ~Rewrites(New("stacks", "end"))
    /\ New("deployments", "on") \in StepsOf(d, {<<>>})
    /\ Light(New("deployments", "on")) /\ NeedsBefore(d, New("deployments", "on")) /\ ~NeedsAfter(New("deployments", "on")) /\ ~Rewrites(New("deployments", "on"))
    /\ New("digests", "on") \in StepsOf(d, {<<>>})
    /\ Light(New("digests", "on")) /\ NeedsBefore(d, New("digests", "on")) /\ ~NeedsAfter(New("digests", "on")) /\ ~Rewrites(New("digests", "on"))
    /\ New("logs", "end") \in StepsOf(d, {<<>>})
    /\ Light(New("logs", "end")) /\ NeedsBefore(d, New("logs", "end")) /\ ~NeedsAfter(New("logs", "end")) /\ ~Rewrites(New("logs", "end"))
    /\ New("logindex", "end") \in StepsOf(d, {<<>>})
    /\ Light(New("logindex", "end")) /\ NeedsBefore(d, New("logindex", "end")) /\ ~NeedsAfter(New("logindex", "end")) /\ ~Rewrites(New("logindex", "end"))
<1>1. (FreshKey \in StepsOf(d, {<<>>})) /\ Light(FreshKey) /\ ~NeedsBefore(d, FreshKey) /\ ~NeedsAfter(FreshKey) /\ ~Rewrites(FreshKey)
  <2>1. {} \subseteq Tables
    BY TableNames
  <2>2. FreshKey \in StepsOf(d, {<<>>})
    BY <2>1 DEF FreshKey, Step, OpNames, Modes, PlainShape, IndexShape, OtherShape, Made, Loops, Branches, StepsOf, Raw, Shape, Keys0
  <2>3. Light(FreshKey) /\ ~NeedsBefore(d, FreshKey) /\ ~NeedsAfter(FreshKey) /\ ~Rewrites(FreshKey)
    BY DEF FreshKey, Step, Light, TopShape, DigestDel, TokenRead, Forgets, UserDel, NeedsBefore, SessionDel, PrefsRead,
                 DigestLoop, NeedsAfter, SpaceWrite, NewMember, Rewrites, Memory, Index
  <2> QED
    BY <2>2, <2>3
<1>2. (Vacant("users") \in StepsOf(d, {<<>>})) /\ Light(Vacant("users")) /\ ~NeedsBefore(d, Vacant("users")) /\ ~NeedsAfter(Vacant("users")) /\ ~Rewrites(Vacant("users"))
  <2>1. {"users"} \subseteq Tables
    BY TableNames
  <2>2. Vacant("users") \in StepsOf(d, {<<>>})
    BY <2>1 DEF Vacant, Step, OpNames, Modes, PlainShape, IndexShape, OtherShape, Made, Loops, Branches, StepsOf, Raw, Shape, Keys0
  <2>3. Light(Vacant("users")) /\ ~NeedsBefore(d, Vacant("users")) /\ ~NeedsAfter(Vacant("users")) /\ ~Rewrites(Vacant("users"))
    BY DEF Vacant, Step, Light, TopShape, DigestDel, TokenRead, Forgets, UserDel, NeedsBefore, SessionDel, PrefsRead,
                 DigestLoop, NeedsAfter, SpaceWrite, NewMember, Rewrites, Memory, Index
  <2> QED
    BY <2>2, <2>3
<1>3. (Vacant("oidclinks") \in StepsOf(d, {<<>>})) /\ Light(Vacant("oidclinks")) /\ ~NeedsBefore(d, Vacant("oidclinks")) /\ ~NeedsAfter(Vacant("oidclinks")) /\ ~Rewrites(Vacant("oidclinks"))
  <2>1. {"oidclinks"} \subseteq Tables
    BY TableNames
  <2>2. Vacant("oidclinks") \in StepsOf(d, {<<>>})
    BY <2>1 DEF Vacant, Step, OpNames, Modes, PlainShape, IndexShape, OtherShape, Made, Loops, Branches, StepsOf, Raw, Shape, Keys0
  <2>3. Light(Vacant("oidclinks")) /\ ~NeedsBefore(d, Vacant("oidclinks")) /\ ~NeedsAfter(Vacant("oidclinks")) /\ ~Rewrites(Vacant("oidclinks"))
    BY DEF Vacant, Step, Light, TopShape, DigestDel, TokenRead, Forgets, UserDel, NeedsBefore, SessionDel, PrefsRead,
                 DigestLoop, NeedsAfter, SpaceWrite, NewMember, Rewrites, Memory, Index
  <2> QED
    BY <2>2, <2>3
<1>4. (Take("states") \in StepsOf(d, {<<>>})) /\ Light(Take("states")) /\ NeedsBefore(d, Take("states")) /\ ~NeedsAfter(Take("states")) /\ ~Rewrites(Take("states"))
  <2>1. {"states"} \subseteq Tables
    BY TableNames
  <2>2. Take("states") \in StepsOf(d, {<<>>})
    BY <2>1 DEF Take, Step, OpNames, Modes, PlainShape, IndexShape, OtherShape, Made, Loops, Branches, StepsOf, Raw, Shape, Keys0
  <2>3. Light(Take("states")) /\ NeedsBefore(d, Take("states")) /\ ~NeedsAfter(Take("states")) /\ ~Rewrites(Take("states"))
    BY DEF Take, Step, Light, TopShape, DigestDel, TokenRead, Forgets, UserDel, NeedsBefore, SessionDel, PrefsRead,
                 DigestLoop, NeedsAfter, SpaceWrite, NewMember, Rewrites, Memory, Index
  <2> QED
    BY <2>2, <2>3
<1>5. (Touch("sessions", "on") \in StepsOf(d, {<<>>})) /\ Light(Touch("sessions", "on")) /\ ~NeedsBefore(d, Touch("sessions", "on")) /\ ~NeedsAfter(Touch("sessions", "on")) /\ ~Rewrites(Touch("sessions", "on"))
  <2>1. {"sessions"} \subseteq Tables
    BY TableNames
  <2>2. Touch("sessions", "on") \in StepsOf(d, {<<>>})
    BY <2>1 DEF Touch, Step, OpNames, Modes, PlainShape, IndexShape, OtherShape, Made, Loops, Branches, StepsOf, Raw, Shape, Keys0
  <2>3. Light(Touch("sessions", "on")) /\ ~NeedsBefore(d, Touch("sessions", "on")) /\ ~NeedsAfter(Touch("sessions", "on")) /\ ~Rewrites(Touch("sessions", "on"))
    BY DEF Touch, Step, Light, TopShape, DigestDel, TokenRead, Forgets, UserDel, NeedsBefore, SessionDel, PrefsRead,
                 DigestLoop, NeedsAfter, SpaceWrite, NewMember, Rewrites, Memory, Index
  <2> QED
    BY <2>2, <2>3
<1>6. (PutBoth("prs", "prindex") \in StepsOf(d, {<<>>})) /\ Light(PutBoth("prs", "prindex")) /\ ~NeedsBefore(d, PutBoth("prs", "prindex")) /\ ~NeedsAfter(PutBoth("prs", "prindex")) /\ Rewrites(PutBoth("prs", "prindex"))
  <2>1. {"prs", "prindex"} \subseteq Tables
    BY TableNames
  <2>2. PutBoth("prs", "prindex") \in StepsOf(d, {<<>>})
    BY <2>1 DEF PutBoth, Step, OpNames, Modes, PlainShape, IndexShape, OtherShape, Made, Loops, Branches, StepsOf, Raw, Shape, Keys0
  <2>3. Light(PutBoth("prs", "prindex")) /\ ~NeedsBefore(d, PutBoth("prs", "prindex")) /\ ~NeedsAfter(PutBoth("prs", "prindex")) /\ Rewrites(PutBoth("prs", "prindex"))
    BY DEF PutBoth, Step, Light, TopShape, DigestDel, TokenRead, Forgets, UserDel, NeedsBefore, SessionDel, PrefsRead,
                 DigestLoop, NeedsAfter, SpaceWrite, NewMember, Rewrites, Memory, Index
  <2> QED
    BY <2>2, <2>3
<1>7. (d = "mongo" => Put("prs", "end") \in StepsOf(d, {<<>>})) /\ Light(Put("prs", "end")) /\ ~NeedsBefore(d, Put("prs", "end")) /\ ~NeedsAfter(Put("prs", "end")) /\ Rewrites(Put("prs", "end"))
  <2>1. {"prs"} \subseteq Tables
    BY TableNames
  <2>2. d = "mongo" => Put("prs", "end") \in StepsOf(d, {<<>>})
    BY <2>1 DEF Put, Step, OpNames, Modes, PlainShape, IndexShape, OtherShape, Made, Loops, Branches, StepsOf, Raw, Shape, Keys0
  <2>3. Light(Put("prs", "end")) /\ ~NeedsBefore(d, Put("prs", "end")) /\ ~NeedsAfter(Put("prs", "end")) /\ Rewrites(Put("prs", "end"))
    BY DEF Put, Step, Light, TopShape, DigestDel, TokenRead, Forgets, UserDel, NeedsBefore, SessionDel, PrefsRead,
                 DigestLoop, NeedsAfter, SpaceWrite, NewMember, Rewrites, Memory, Index
  <2> QED
    BY <2>2, <2>3
<1>8. (Put("prindex", "end") \in StepsOf(d, {<<>>})) /\ Light(Put("prindex", "end")) /\ NeedsBefore(d, Put("prindex", "end")) /\ ~NeedsAfter(Put("prindex", "end")) /\ ~Rewrites(Put("prindex", "end"))
  <2>1. {"prindex"} \subseteq Tables
    BY TableNames
  <2>2. Put("prindex", "end") \in StepsOf(d, {<<>>})
    BY <2>1 DEF Put, Step, OpNames, Modes, PlainShape, IndexShape, OtherShape, Made, Loops, Branches, StepsOf, Raw, Shape, Keys0
  <2>3. Light(Put("prindex", "end")) /\ NeedsBefore(d, Put("prindex", "end")) /\ ~NeedsAfter(Put("prindex", "end")) /\ ~Rewrites(Put("prindex", "end"))
    BY DEF Put, Step, Light, TopShape, DigestDel, TokenRead, Forgets, UserDel, NeedsBefore, SessionDel, PrefsRead,
                 DigestLoop, NeedsAfter, SpaceWrite, NewMember, Rewrites, Memory, Index
  <2> QED
    BY <2>2, <2>3
<1>9. (Put("prindex", "on") \in StepsOf(d, {<<>>})) /\ Light(Put("prindex", "on")) /\ NeedsBefore(d, Put("prindex", "on")) /\ ~NeedsAfter(Put("prindex", "on")) /\ ~Rewrites(Put("prindex", "on"))
  <2>1. {"prindex"} \subseteq Tables
    BY TableNames
  <2>2. Put("prindex", "on") \in StepsOf(d, {<<>>})
    BY <2>1 DEF Put, Step, OpNames, Modes, PlainShape, IndexShape, OtherShape, Made, Loops, Branches, StepsOf, Raw, Shape, Keys0
  <2>3. Light(Put("prindex", "on")) /\ NeedsBefore(d, Put("prindex", "on")) /\ ~NeedsAfter(Put("prindex", "on")) /\ ~Rewrites(Put("prindex", "on"))
    BY DEF Put, Step, Light, TopShape, DigestDel, TokenRead, Forgets, UserDel, NeedsBefore, SessionDel, PrefsRead,
                 DigestLoop, NeedsAfter, SpaceWrite, NewMember, Rewrites, Memory, Index
  <2> QED
    BY <2>2, <2>3
<1>10. (SomeOf("deps") \in StepsOf(d, {<<>>})) /\ Light(SomeOf("deps")) /\ ~NeedsBefore(d, SomeOf("deps")) /\ ~NeedsAfter(SomeOf("deps")) /\ ~Rewrites(SomeOf("deps"))
  <2>1. {"deps"} \subseteq Tables
    BY TableNames
  <2>2. SomeOf("deps") \in StepsOf(d, {<<>>})
    BY <2>1 DEF SomeOf, Step, OpNames, Modes, PlainShape, IndexShape, OtherShape, Made, Loops, Branches, StepsOf, Raw, Shape, Keys0
  <2>3. Light(SomeOf("deps")) /\ ~NeedsBefore(d, SomeOf("deps")) /\ ~NeedsAfter(SomeOf("deps")) /\ ~Rewrites(SomeOf("deps"))
    BY DEF SomeOf, Step, Light, TopShape, DigestDel, TokenRead, Forgets, UserDel, NeedsBefore, SessionDel, PrefsRead,
                 DigestLoop, NeedsAfter, SpaceWrite, NewMember, Rewrites, Memory, Index
  <2> QED
    BY <2>2, <2>3
<1>11. (Put("spaces", "end") \in StepsOf(d, {<<>>})) /\ Light(Put("spaces", "end")) /\ ~NeedsBefore(d, Put("spaces", "end")) /\ NeedsAfter(Put("spaces", "end")) /\ Rewrites(Put("spaces", "end"))
  <2>1. {"spaces"} \subseteq Tables
    BY TableNames
  <2>2. Put("spaces", "end") \in StepsOf(d, {<<>>})
    BY <2>1 DEF Put, Step, OpNames, Modes, PlainShape, IndexShape, OtherShape, Made, Loops, Branches, StepsOf, Raw, Shape, Keys0
  <2>3. Light(Put("spaces", "end")) /\ ~NeedsBefore(d, Put("spaces", "end")) /\ NeedsAfter(Put("spaces", "end")) /\ Rewrites(Put("spaces", "end"))
    BY DEF Put, Step, Light, TopShape, DigestDel, TokenRead, Forgets, UserDel, NeedsBefore, SessionDel, PrefsRead,
                 DigestLoop, NeedsAfter, SpaceWrite, NewMember, Rewrites, Memory, Index
  <2> QED
    BY <2>2, <2>3
<1>12. (Blank("spaces", "end") \in StepsOf(d, {<<>>})) /\ Light(Blank("spaces", "end")) /\ ~NeedsBefore(d, Blank("spaces", "end")) /\ NeedsAfter(Blank("spaces", "end")) /\ ~Rewrites(Blank("spaces", "end"))
  <2>1. {"spaces"} \subseteq Tables
    BY TableNames
  <2>2. Blank("spaces", "end") \in StepsOf(d, {<<>>})
    BY <2>1 DEF Blank, Step, OpNames, Modes, PlainShape, IndexShape, OtherShape, Made, Loops, Branches, StepsOf, Raw, Shape, Keys0
  <2>3. Light(Blank("spaces", "end")) /\ ~NeedsBefore(d, Blank("spaces", "end")) /\ NeedsAfter(Blank("spaces", "end")) /\ ~Rewrites(Blank("spaces", "end"))
    BY DEF Blank, Step, Light, TopShape, DigestDel, TokenRead, Forgets, UserDel, NeedsBefore, SessionDel, PrefsRead,
                 DigestLoop, NeedsAfter, SpaceWrite, NewMember, Rewrites, Memory, Index
  <2> QED
    BY <2>2, <2>3
<1>13. (Blank("members", "on") \in StepsOf(d, {<<>>})) /\ Light(Blank("members", "on")) /\ ~NeedsBefore(d, Blank("members", "on")) /\ NeedsAfter(Blank("members", "on")) /\ ~Rewrites(Blank("members", "on"))
  <2>1. {"members"} \subseteq Tables
    BY TableNames
  <2>2. Blank("members", "on") \in StepsOf(d, {<<>>})
    BY <2>1 DEF Blank, Step, OpNames, Modes, PlainShape, IndexShape, OtherShape, Made, Loops, Branches, StepsOf, Raw, Shape, Keys0
  <2>3. Light(Blank("members", "on")) /\ ~NeedsBefore(d, Blank("members", "on")) /\ NeedsAfter(Blank("members", "on")) /\ ~Rewrites(Blank("members", "on"))
    BY DEF Blank, Step, Light, TopShape, DigestDel, TokenRead, Forgets, UserDel, NeedsBefore, SessionDel, PrefsRead,
                 DigestLoop, NeedsAfter, SpaceWrite, NewMember, Rewrites, Memory, Index
  <2> QED
    BY <2>2, <2>3
<1>14. (Blank("linksbypr", "end") \in StepsOf(d, {<<>>})) /\ Light(Blank("linksbypr", "end")) /\ NeedsBefore(d, Blank("linksbypr", "end")) /\ ~NeedsAfter(Blank("linksbypr", "end")) /\ ~Rewrites(Blank("linksbypr", "end"))
  <2>1. {"linksbypr"} \subseteq Tables
    BY TableNames
  <2>2. Blank("linksbypr", "end") \in StepsOf(d, {<<>>})
    BY <2>1 DEF Blank, Step, OpNames, Modes, PlainShape, IndexShape, OtherShape, Made, Loops, Branches, StepsOf, Raw, Shape, Keys0
  <2>3. Light(Blank("linksbypr", "end")) /\ NeedsBefore(d, Blank("linksbypr", "end")) /\ ~NeedsAfter(Blank("linksbypr", "end")) /\ ~Rewrites(Blank("linksbypr", "end"))
    BY DEF Blank, Step, Light, TopShape, DigestDel, TokenRead, Forgets, UserDel, NeedsBefore, SessionDel, PrefsRead,
                 DigestLoop, NeedsAfter, SpaceWrite, NewMember, Rewrites, Memory, Index
  <2> QED
    BY <2>2, <2>3
<1>15. (Blank("linksbypr", "on") \in StepsOf(d, {<<>>})) /\ Light(Blank("linksbypr", "on")) /\ NeedsBefore(d, Blank("linksbypr", "on")) /\ ~NeedsAfter(Blank("linksbypr", "on")) /\ ~Rewrites(Blank("linksbypr", "on"))
  <2>1. {"linksbypr"} \subseteq Tables
    BY TableNames
  <2>2. Blank("linksbypr", "on") \in StepsOf(d, {<<>>})
    BY <2>1 DEF Blank, Step, OpNames, Modes, PlainShape, IndexShape, OtherShape, Made, Loops, Branches, StepsOf, Raw, Shape, Keys0
  <2>3. Light(Blank("linksbypr", "on")) /\ NeedsBefore(d, Blank("linksbypr", "on")) /\ ~NeedsAfter(Blank("linksbypr", "on")) /\ ~Rewrites(Blank("linksbypr", "on"))
    BY DEF Blank, Step, Light, TopShape, DigestDel, TokenRead, Forgets, UserDel, NeedsBefore, SessionDel, PrefsRead,
                 DigestLoop, NeedsAfter, SpaceWrite, NewMember, Rewrites, Memory, Index
  <2> QED
    BY <2>2, <2>3
<1>16. (Blank("dependents", "end") \in StepsOf(d, {<<>>})) /\ Light(Blank("dependents", "end")) /\ NeedsBefore(d, Blank("dependents", "end")) /\ ~NeedsAfter(Blank("dependents", "end")) /\ ~Rewrites(Blank("dependents", "end"))
  <2>1. {"dependents"} \subseteq Tables
    BY TableNames
  <2>2. Blank("dependents", "end") \in StepsOf(d, {<<>>})
    BY <2>1 DEF Blank, Step, OpNames, Modes, PlainShape, IndexShape, OtherShape, Made, Loops, Branches, StepsOf, Raw, Shape, Keys0
  <2>3. Light(Blank("dependents", "end")) /\ NeedsBefore(d, Blank("dependents", "end")) /\ ~NeedsAfter(Blank("dependents", "end")) /\ ~Rewrites(Blank("dependents", "end"))
    BY DEF Blank, Step, Light, TopShape, DigestDel, TokenRead, Forgets, UserDel, NeedsBefore, SessionDel, PrefsRead,
                 DigestLoop, NeedsAfter, SpaceWrite, NewMember, Rewrites, Memory, Index
  <2> QED
    BY <2>2, <2>3
<1>17. (Get("tokens", "end") \in StepsOf(d, {<<>>})) /\ ~Light(Get("tokens", "end")) /\ ~NeedsBefore(d, Get("tokens", "end")) /\ NeedsAfter(Get("tokens", "end")) /\ ~Rewrites(Get("tokens", "end"))
  <2>1. {"tokens"} \subseteq Tables
    BY TableNames
  <2>2. Get("tokens", "end") \in StepsOf(d, {<<>>})
    BY <2>1 DEF Get, Step, OpNames, Modes, PlainShape, IndexShape, OtherShape, Made, Loops, Branches, StepsOf, Raw, Shape, Keys0
  <2>3. ~Light(Get("tokens", "end")) /\ ~NeedsBefore(d, Get("tokens", "end")) /\ NeedsAfter(Get("tokens", "end")) /\ ~Rewrites(Get("tokens", "end"))
    BY DEF Get, Step, Light, TopShape, DigestDel, TokenRead, Forgets, UserDel, NeedsBefore, SessionDel, PrefsRead,
                 DigestLoop, NeedsAfter, SpaceWrite, NewMember, Rewrites, Memory, Index
  <2> QED
    BY <2>2, <2>3
<1>18. (Get("prefs", "end") \in StepsOf(d, {<<>>})) /\ Light(Get("prefs", "end")) /\ NeedsBefore(d, Get("prefs", "end")) /\ ~NeedsAfter(Get("prefs", "end")) /\ ~Rewrites(Get("prefs", "end"))
  <2>1. {"prefs"} \subseteq Tables
    BY TableNames
  <2>2. Get("prefs", "end") \in StepsOf(d, {<<>>})
    BY <2>1 DEF Get, Step, OpNames, Modes, PlainShape, IndexShape, OtherShape, Made, Loops, Branches, StepsOf, Raw, Shape, Keys0
  <2>3. Light(Get("prefs", "end")) /\ NeedsBefore(d, Get("prefs", "end")) /\ ~NeedsAfter(Get("prefs", "end")) /\ ~Rewrites(Get("prefs", "end"))
    BY DEF Get, Step, Light, TopShape, DigestDel, TokenRead, Forgets, UserDel, NeedsBefore, SessionDel, PrefsRead,
                 DigestLoop, NeedsAfter, SpaceWrite, NewMember, Rewrites, Memory, Index
  <2> QED
    BY <2>2, <2>3
<1>19. (d = "bbolt" => Del("byuser", "on") \in StepsOf(d, {<<>>})) /\ Light(Del("byuser", "on")) /\ ~NeedsBefore(d, Del("byuser", "on")) /\ ~NeedsAfter(Del("byuser", "on")) /\ ~Rewrites(Del("byuser", "on"))
  <2>1. {"byuser"} \subseteq Tables
    BY TableNames
  <2>2. d = "bbolt" => Del("byuser", "on") \in StepsOf(d, {<<>>})
    BY <2>1 DEF Del, Step, OpNames, Modes, PlainShape, IndexShape, OtherShape, Made, Loops, Branches, StepsOf, Raw, Shape, Keys0
  <2>3. Light(Del("byuser", "on")) /\ ~NeedsBefore(d, Del("byuser", "on")) /\ ~NeedsAfter(Del("byuser", "on")) /\ ~Rewrites(Del("byuser", "on"))
    BY DEF Del, Step, Light, TopShape, DigestDel, TokenRead, Forgets, UserDel, NeedsBefore, SessionDel, PrefsRead,
                 DigestLoop, NeedsAfter, SpaceWrite, NewMember, Rewrites, Memory, Index
  <2> QED
    BY <2>2, <2>3
<1>20. (Del("sessions", "on") \in StepsOf(d, {<<>>})) /\ Light(Del("sessions", "on")) /\ (d = "mongo" => ~NeedsBefore(d, Del("sessions", "on"))) /\ ~NeedsAfter(Del("sessions", "on")) /\ ~Rewrites(Del("sessions", "on"))
  <2>1. {"sessions"} \subseteq Tables
    BY TableNames
  <2>2. Del("sessions", "on") \in StepsOf(d, {<<>>})
    BY <2>1 DEF Del, Step, OpNames, Modes, PlainShape, IndexShape, OtherShape, Made, Loops, Branches, StepsOf, Raw, Shape, Keys0
  <2>3. Light(Del("sessions", "on")) /\ (d = "mongo" => ~NeedsBefore(d, Del("sessions", "on"))) /\ ~NeedsAfter(Del("sessions", "on")) /\ ~Rewrites(Del("sessions", "on"))
    BY DEF Del, Step, Light, TopShape, DigestDel, TokenRead, Forgets, UserDel, NeedsBefore, SessionDel, PrefsRead,
                 DigestLoop, NeedsAfter, SpaceWrite, NewMember, Rewrites, Memory, Index
  <2> QED
    BY <2>2, <2>3
<1>21. (Del("sessions", "end") \in StepsOf(d, {<<>>})) /\ Light(Del("sessions", "end")) /\ (d = "mongo" => ~NeedsBefore(d, Del("sessions", "end"))) /\ ~NeedsAfter(Del("sessions", "end")) /\ ~Rewrites(Del("sessions", "end"))
  <2>1. {"sessions"} \subseteq Tables
    BY TableNames
  <2>2. Del("sessions", "end") \in StepsOf(d, {<<>>})
    BY <2>1 DEF Del, Step, OpNames, Modes, PlainShape, IndexShape, OtherShape, Made, Loops, Branches, StepsOf, Raw, Shape, Keys0
  <2>3. Light(Del("sessions", "end")) /\ (d = "mongo" => ~NeedsBefore(d, Del("sessions", "end"))) /\ ~NeedsAfter(Del("sessions", "end")) /\ ~Rewrites(Del("sessions", "end"))
    BY DEF Del, Step, Light, TopShape, DigestDel, TokenRead, Forgets, UserDel, NeedsBefore, SessionDel, PrefsRead,
                 DigestLoop, NeedsAfter, SpaceWrite, NewMember, Rewrites, Memory, Index
  <2> QED
    BY <2>2, <2>3
<1>22. (Del("sessions", "next") \in StepsOf(d, {<<>>})) /\ Light(Del("sessions", "next")) /\ (d = "mongo" => ~NeedsBefore(d, Del("sessions", "next"))) /\ ~NeedsAfter(Del("sessions", "next")) /\ ~Rewrites(Del("sessions", "next"))
  <2>1. {"sessions"} \subseteq Tables
    BY TableNames
  <2>2. Del("sessions", "next") \in StepsOf(d, {<<>>})
    BY <2>1 DEF Del, Step, OpNames, Modes, PlainShape, IndexShape, OtherShape, Made, Loops, Branches, StepsOf, Raw, Shape, Keys0
  <2>3. Light(Del("sessions", "next")) /\ (d = "mongo" => ~NeedsBefore(d, Del("sessions", "next"))) /\ ~NeedsAfter(Del("sessions", "next")) /\ ~Rewrites(Del("sessions", "next"))
    BY DEF Del, Step, Light, TopShape, DigestDel, TokenRead, Forgets, UserDel, NeedsBefore, SessionDel, PrefsRead,
                 DigestLoop, NeedsAfter, SpaceWrite, NewMember, Rewrites, Memory, Index
  <2> QED
    BY <2>2, <2>3
<1>23. (Del("sessions", "out") \in StepsOf(d, {<<>>})) /\ Light(Del("sessions", "out")) /\ (d = "mongo" => ~NeedsBefore(d, Del("sessions", "out"))) /\ ~NeedsAfter(Del("sessions", "out")) /\ ~Rewrites(Del("sessions", "out"))
  <2>1. {"sessions"} \subseteq Tables
    BY TableNames
  <2>2. Del("sessions", "out") \in StepsOf(d, {<<>>})
    BY <2>1 DEF Del, Step, OpNames, Modes, PlainShape, IndexShape, OtherShape, Made, Loops, Branches, StepsOf, Raw, Shape, Keys0
  <2>3. Light(Del("sessions", "out")) /\ (d = "mongo" => ~NeedsBefore(d, Del("sessions", "out"))) /\ ~NeedsAfter(Del("sessions", "out")) /\ ~Rewrites(Del("sessions", "out"))
    BY DEF Del, Step, Light, TopShape, DigestDel, TokenRead, Forgets, UserDel, NeedsBefore, SessionDel, PrefsRead,
                 DigestLoop, NeedsAfter, SpaceWrite, NewMember, Rewrites, Memory, Index
  <2> QED
    BY <2>2, <2>3
<1>24. (Del("spaces", "end") \in StepsOf(d, {<<>>})) /\ Light(Del("spaces", "end")) /\ ~NeedsBefore(d, Del("spaces", "end")) /\ NeedsAfter(Del("spaces", "end")) /\ ~Rewrites(Del("spaces", "end"))
  <2>1. {"spaces"} \subseteq Tables
    BY TableNames
  <2>2. Del("spaces", "end") \in StepsOf(d, {<<>>})
    BY <2>1 DEF Del, Step, OpNames, Modes, PlainShape, IndexShape, OtherShape, Made, Loops, Branches, StepsOf, Raw, Shape, Keys0
  <2>3. Light(Del("spaces", "end")) /\ ~NeedsBefore(d, Del("spaces", "end")) /\ NeedsAfter(Del("spaces", "end")) /\ ~Rewrites(Del("spaces", "end"))
    BY DEF Del, Step, Light, TopShape, DigestDel, TokenRead, Forgets, UserDel, NeedsBefore, SessionDel, PrefsRead,
                 DigestLoop, NeedsAfter, SpaceWrite, NewMember, Rewrites, Memory, Index
  <2> QED
    BY <2>2, <2>3
<1>25. (Del("users", "end") \in StepsOf(d, {<<>>})) /\ ~Light(Del("users", "end")) /\ ~NeedsBefore(d, Del("users", "end")) /\ ~NeedsAfter(Del("users", "end")) /\ ~Rewrites(Del("users", "end"))
  <2>1. {"users"} \subseteq Tables
    BY TableNames
  <2>2. Del("users", "end") \in StepsOf(d, {<<>>})
    BY <2>1 DEF Del, Step, OpNames, Modes, PlainShape, IndexShape, OtherShape, Made, Loops, Branches, StepsOf, Raw, Shape, Keys0
  <2>3. ~Light(Del("users", "end")) /\ ~NeedsBefore(d, Del("users", "end")) /\ ~NeedsAfter(Del("users", "end")) /\ ~Rewrites(Del("users", "end"))
    BY DEF Del, Step, Light, TopShape, DigestDel, TokenRead, Forgets, UserDel, NeedsBefore, SessionDel, PrefsRead,
                 DigestLoop, NeedsAfter, SpaceWrite, NewMember, Rewrites, Memory, Index
  <2> QED
    BY <2>2, <2>3
<1>26. (Del("digests", "out") \in StepsOf(d, {<<>>})) /\ ~Light(Del("digests", "out")) /\ ~NeedsBefore(d, Del("digests", "out")) /\ ~NeedsAfter(Del("digests", "out")) /\ ~Rewrites(Del("digests", "out"))
  <2>1. {"digests"} \subseteq Tables
    BY TableNames
  <2>2. Del("digests", "out") \in StepsOf(d, {<<>>})
    BY <2>1 DEF Del, Step, OpNames, Modes, PlainShape, IndexShape, OtherShape, Made, Loops, Branches, StepsOf, Raw, Shape, Keys0
  <2>3. ~Light(Del("digests", "out")) /\ ~NeedsBefore(d, Del("digests", "out")) /\ ~NeedsAfter(Del("digests", "out")) /\ ~Rewrites(Del("digests", "out"))
    BY DEF Del, Step, Light, TopShape, DigestDel, TokenRead, Forgets, UserDel, NeedsBefore, SessionDel, PrefsRead,
                 DigestLoop, NeedsAfter, SpaceWrite, NewMember, Rewrites, Memory, Index
  <2> QED
    BY <2>2, <2>3
<1>27. (d = "mongo" => Purge("sessions", "on") \in StepsOf(d, {<<>>})) /\ Light(Purge("sessions", "on")) /\ ~NeedsBefore(d, Purge("sessions", "on")) /\ ~NeedsAfter(Purge("sessions", "on")) /\ ~Rewrites(Purge("sessions", "on"))
  <2>1. {"sessions"} \subseteq Tables
    BY TableNames
  <2>2. d = "mongo" => Purge("sessions", "on") \in StepsOf(d, {<<>>})
    BY <2>1 DEF Purge, Step, OpNames, Modes, PlainShape, IndexShape, OtherShape, Made, Loops, Branches, StepsOf, Raw, Shape, Keys0
  <2>3. Light(Purge("sessions", "on")) /\ ~NeedsBefore(d, Purge("sessions", "on")) /\ ~NeedsAfter(Purge("sessions", "on")) /\ ~Rewrites(Purge("sessions", "on"))
    BY DEF Purge, Step, Light, TopShape, DigestDel, TokenRead, Forgets, UserDel, NeedsBefore, SessionDel, PrefsRead,
                 DigestLoop, NeedsAfter, SpaceWrite, NewMember, Rewrites, Memory, Index
  <2> QED
    BY <2>2, <2>3
<1>28. (d = "mongo" => PurgeIdle("sessions", "on") \in StepsOf(d, {<<>>})) /\ Light(PurgeIdle("sessions", "on")) /\ ~NeedsBefore(d, PurgeIdle("sessions", "on")) /\ ~NeedsAfter(PurgeIdle("sessions", "on")) /\ ~Rewrites(PurgeIdle("sessions", "on"))
  <2>1. {"sessions"} \subseteq Tables
    BY TableNames
  <2>2. d = "mongo" => PurgeIdle("sessions", "on") \in StepsOf(d, {<<>>})
    BY <2>1 DEF PurgeIdle, Step, OpNames, Modes, PlainShape, IndexShape, OtherShape, Made, Loops, Branches, StepsOf, Raw, Shape, Keys0
  <2>3. Light(PurgeIdle("sessions", "on")) /\ ~NeedsBefore(d, PurgeIdle("sessions", "on")) /\ ~NeedsAfter(PurgeIdle("sessions", "on")) /\ ~Rewrites(PurgeIdle("sessions", "on"))
    BY DEF PurgeIdle, Step, Light, TopShape, DigestDel, TokenRead, Forgets, UserDel, NeedsBefore, SessionDel, PrefsRead,
                 DigestLoop, NeedsAfter, SpaceWrite, NewMember, Rewrites, Memory, Index
  <2> QED
    BY <2>2, <2>3
<1>29. (Purge("digests", "on") \in StepsOf(d, {<<>>})) /\ Light(Purge("digests", "on")) /\ NeedsBefore(d, Purge("digests", "on")) /\ ~NeedsAfter(Purge("digests", "on")) /\ ~Rewrites(Purge("digests", "on"))
  <2>1. {"digests"} \subseteq Tables
    BY TableNames
  <2>2. Purge("digests", "on") \in StepsOf(d, {<<>>})
    BY <2>1 DEF Purge, Step, OpNames, Modes, PlainShape, IndexShape, OtherShape, Made, Loops, Branches, StepsOf, Raw, Shape, Keys0
  <2>3. Light(Purge("digests", "on")) /\ NeedsBefore(d, Purge("digests", "on")) /\ ~NeedsAfter(Purge("digests", "on")) /\ ~Rewrites(Purge("digests", "on"))
    BY DEF Purge, Step, Light, TopShape, DigestDel, TokenRead, Forgets, UserDel, NeedsBefore, SessionDel, PrefsRead,
                 DigestLoop, NeedsAfter, SpaceWrite, NewMember, Rewrites, Memory, Index
  <2> QED
    BY <2>2, <2>3
<1>30. (Forget("prints") \in StepsOf(d, {<<>>})) /\ Light(Forget("prints")) /\ ~NeedsBefore(d, Forget("prints")) /\ ~NeedsAfter(Forget("prints")) /\ ~Rewrites(Forget("prints"))
  <2>1. {"prints"} \subseteq Tables
    BY TableNames
  <2>2. Forget("prints") \in StepsOf(d, {<<>>})
    BY <2>1 DEF Forget, Step, OpNames, Modes, PlainShape, IndexShape, OtherShape, Made, Loops, Branches, StepsOf, Raw, Shape, Keys0
  <2>3. Light(Forget("prints")) /\ ~NeedsBefore(d, Forget("prints")) /\ ~NeedsAfter(Forget("prints")) /\ ~Rewrites(Forget("prints"))
    BY DEF Forget, Step, Light, TopShape, DigestDel, TokenRead, Forgets, UserDel, NeedsBefore, SessionDel, PrefsRead,
                 DigestLoop, NeedsAfter, SpaceWrite, NewMember, Rewrites, Memory, Index
  <2> QED
    BY <2>2, <2>3
<1>31. (Forget("spacecache") \in StepsOf(d, {<<>>})) /\ ~Light(Forget("spacecache")) /\ ~NeedsBefore(d, Forget("spacecache")) /\ ~NeedsAfter(Forget("spacecache")) /\ ~Rewrites(Forget("spacecache"))
  <2>1. {"spacecache"} \subseteq Tables
    BY TableNames
  <2>2. Forget("spacecache") \in StepsOf(d, {<<>>})
    BY <2>1 DEF Forget, Step, OpNames, Modes, PlainShape, IndexShape, OtherShape, Made, Loops, Branches, StepsOf, Raw, Shape, Keys0
  <2>3. ~Light(Forget("spacecache")) /\ ~NeedsBefore(d, Forget("spacecache")) /\ ~NeedsAfter(Forget("spacecache")) /\ ~Rewrites(Forget("spacecache"))
    BY DEF Forget, Step, Light, TopShape, DigestDel, TokenRead, Forgets, UserDel, NeedsBefore, SessionDel, PrefsRead,
                 DigestLoop, NeedsAfter, SpaceWrite, NewMember, Rewrites, Memory, Index
  <2> QED
    BY <2>2, <2>3
<1>32. (Fill("spacecache", "spaces") \in StepsOf(d, {<<>>})) /\ Light(Fill("spacecache", "spaces")) /\ ~NeedsBefore(d, Fill("spacecache", "spaces")) /\ ~NeedsAfter(Fill("spacecache", "spaces")) /\ ~Rewrites(Fill("spacecache", "spaces"))
  <2>1. {"spacecache", "spaces"} \subseteq Tables
    BY TableNames
  <2>2. Fill("spacecache", "spaces") \in StepsOf(d, {<<>>})
    BY <2>1 DEF Fill, Step, OpNames, Modes, PlainShape, IndexShape, OtherShape, Made, Loops, Branches, StepsOf, Raw, Shape, Keys0
  <2>3. Light(Fill("spacecache", "spaces")) /\ ~NeedsBefore(d, Fill("spacecache", "spaces")) /\ ~NeedsAfter(Fill("spacecache", "spaces")) /\ ~Rewrites(Fill("spacecache", "spaces"))
    BY DEF Fill, Step, Light, TopShape, DigestDel, TokenRead, Forgets, UserDel, NeedsBefore, SessionDel, PrefsRead,
                 DigestLoop, NeedsAfter, SpaceWrite, NewMember, Rewrites, Memory, Index
  <2> QED
    BY <2>2, <2>3
<1>33. (Send("digests") \in StepsOf(d, {<<>>})) /\ Light(Send("digests")) /\ NeedsBefore(d, Send("digests")) /\ ~NeedsAfter(Send("digests")) /\ ~Rewrites(Send("digests"))
  <2>1. {"digests"} \subseteq Tables
    BY TableNames
  <2>2. Send("digests") \in StepsOf(d, {<<>>})
    BY <2>1 DEF Send, Step, OpNames, Modes, PlainShape, IndexShape, OtherShape, Made, Loops, Branches, StepsOf, Raw, Shape, Keys0
  <2>3. Light(Send("digests")) /\ NeedsBefore(d, Send("digests")) /\ ~NeedsAfter(Send("digests")) /\ ~Rewrites(Send("digests"))
    BY DEF Send, Step, Light, TopShape, DigestDel, TokenRead, Forgets, UserDel, NeedsBefore, SessionDel, PrefsRead,
                 DigestLoop, NeedsAfter, SpaceWrite, NewMember, Rewrites, Memory, Index
  <2> QED
    BY <2>2, <2>3
<1>34. (New("sessions", "end") \in StepsOf(d, {<<>>})) /\ Light(New("sessions", "end")) /\ NeedsBefore(d, New("sessions", "end")) /\ ~NeedsAfter(New("sessions", "end")) /\ ~Rewrites(New("sessions", "end"))
  <2>1. {"sessions"} \subseteq Tables
    BY TableNames
  <2>2. New("sessions", "end") \in StepsOf(d, {<<>>})
    BY <2>1 DEF New, Step, OpNames, Modes, PlainShape, IndexShape, OtherShape, Made, Loops, Branches, StepsOf, Raw, Shape, Keys0
  <2>3. Light(New("sessions", "end")) /\ NeedsBefore(d, New("sessions", "end")) /\ ~NeedsAfter(New("sessions", "end")) /\ ~Rewrites(New("sessions", "end"))
    BY DEF New, Step, Light, TopShape, DigestDel, TokenRead, Forgets, UserDel, NeedsBefore, SessionDel, PrefsRead,
                 DigestLoop, NeedsAfter, SpaceWrite, NewMember, Rewrites, Memory, Index
  <2> QED
    BY <2>2, <2>3
<1>35. (d = "bbolt" => New("byuser", "end") \in StepsOf(d, {<<>>})) /\ Light(New("byuser", "end")) /\ NeedsBefore(d, New("byuser", "end")) /\ ~NeedsAfter(New("byuser", "end")) /\ ~Rewrites(New("byuser", "end"))
  <2>1. {"byuser"} \subseteq Tables
    BY TableNames
  <2>2. d = "bbolt" => New("byuser", "end") \in StepsOf(d, {<<>>})
    BY <2>1 DEF New, Step, OpNames, Modes, PlainShape, IndexShape, OtherShape, Made, Loops, Branches, StepsOf, Raw, Shape, Keys0
  <2>3. Light(New("byuser", "end")) /\ NeedsBefore(d, New("byuser", "end")) /\ ~NeedsAfter(New("byuser", "end")) /\ ~Rewrites(New("byuser", "end"))
    BY DEF New, Step, Light, TopShape, DigestDel, TokenRead, Forgets, UserDel, NeedsBefore, SessionDel, PrefsRead,
                 DigestLoop, NeedsAfter, SpaceWrite, NewMember, Rewrites, Memory, Index
  <2> QED
    BY <2>2, <2>3
<1>36. (New("tokens", "end") \in StepsOf(d, {<<>>})) /\ Light(New("tokens", "end")) /\ NeedsBefore(d, New("tokens", "end")) /\ ~NeedsAfter(New("tokens", "end")) /\ ~Rewrites(New("tokens", "end"))
  <2>1. {"tokens"} \subseteq Tables
    BY TableNames
  <2>2. New("tokens", "end") \in StepsOf(d, {<<>>})
    BY <2>1 DEF New, Step, OpNames, Modes, PlainShape, IndexShape, OtherShape, Made, Loops, Branches, StepsOf, Raw, Shape, Keys0
  <2>3. Light(New("tokens", "end")) /\ NeedsBefore(d, New("tokens", "end")) /\ ~NeedsAfter(New("tokens", "end")) /\ ~Rewrites(New("tokens", "end"))
    BY DEF New, Step, Light, TopShape, DigestDel, TokenRead, Forgets, UserDel, NeedsBefore, SessionDel, PrefsRead,
                 DigestLoop, NeedsAfter, SpaceWrite, NewMember, Rewrites, Memory, Index
  <2> QED
    BY <2>2, <2>3
<1>37. (New("keys", "end") \in StepsOf(d, {<<>>})) /\ Light(New("keys", "end")) /\ NeedsBefore(d, New("keys", "end")) /\ ~NeedsAfter(New("keys", "end")) /\ ~Rewrites(New("keys", "end"))
  <2>1. {"keys"} \subseteq Tables
    BY TableNames
  <2>2. New("keys", "end") \in StepsOf(d, {<<>>})
    BY <2>1 DEF New, Step, OpNames, Modes, PlainShape, IndexShape, OtherShape, Made, Loops, Branches, StepsOf, Raw, Shape, Keys0
  <2>3. Light(New("keys", "end")) /\ NeedsBefore(d, New("keys", "end")) /\ ~NeedsAfter(New("keys", "end")) /\ ~Rewrites(New("keys", "end"))
    BY DEF New, Step, Light, TopShape, DigestDel, TokenRead, Forgets, UserDel, NeedsBefore, SessionDel, PrefsRead,
                 DigestLoop, NeedsAfter, SpaceWrite, NewMember, Rewrites, Memory, Index
  <2> QED
    BY <2>2, <2>3
<1>38. (New("ceremonies", "end") \in StepsOf(d, {<<>>})) /\ Light(New("ceremonies", "end")) /\ NeedsBefore(d, New("ceremonies", "end")) /\ ~NeedsAfter(New("ceremonies", "end")) /\ ~Rewrites(New("ceremonies", "end"))
  <2>1. {"ceremonies"} \subseteq Tables
    BY TableNames
  <2>2. New("ceremonies", "end") \in StepsOf(d, {<<>>})
    BY <2>1 DEF New, Step, OpNames, Modes, PlainShape, IndexShape, OtherShape, Made, Loops, Branches, StepsOf, Raw, Shape, Keys0
  <2>3. Light(New("ceremonies", "end")) /\ NeedsBefore(d, New("ceremonies", "end")) /\ ~NeedsAfter(New("ceremonies", "end")) /\ ~Rewrites(New("ceremonies", "end"))
    BY DEF New, Step, Light, TopShape, DigestDel, TokenRead, Forgets, UserDel, NeedsBefore, SessionDel, PrefsRead,
                 DigestLoop, NeedsAfter, SpaceWrite, NewMember, Rewrites, Memory, Index
  <2> QED
    BY <2>2, <2>3
<1>39. (New("passkeys", "end") \in StepsOf(d, {<<>>})) /\ Light(New("passkeys", "end")) /\ NeedsBefore(d, New("passkeys", "end")) /\ ~NeedsAfter(New("passkeys", "end")) /\ ~Rewrites(New("passkeys", "end"))
  <2>1. {"passkeys"} \subseteq Tables
    BY TableNames
  <2>2. New("passkeys", "end") \in StepsOf(d, {<<>>})
    BY <2>1 DEF New, Step, OpNames, Modes, PlainShape, IndexShape, OtherShape, Made, Loops, Branches, StepsOf, Raw, Shape, Keys0
  <2>3. Light(New("passkeys", "end")) /\ NeedsBefore(d, New("passkeys", "end")) /\ ~NeedsAfter(New("passkeys", "end")) /\ ~Rewrites(New("passkeys", "end"))
    BY DEF New, Step, Light, TopShape, DigestDel, TokenRead, Forgets, UserDel, NeedsBefore, SessionDel, PrefsRead,
                 DigestLoop, NeedsAfter, SpaceWrite, NewMember, Rewrites, Memory, Index
  <2> QED
    BY <2>2, <2>3
<1>40. (New("states", "on") \in StepsOf(d, {<<>>})) /\ Light(New("states", "on")) /\ NeedsBefore(d, New("states", "on")) /\ ~NeedsAfter(New("states", "on")) /\ ~Rewrites(New("states", "on"))
  <2>1. {"states"} \subseteq Tables
    BY TableNames
  <2>2. New("states", "on") \in StepsOf(d, {<<>>})
    BY <2>1 DEF New, Step, OpNames, Modes, PlainShape, IndexShape, OtherShape, Made, Loops, Branches, StepsOf, Raw, Shape, Keys0
  <2>3. Light(New("states", "on")) /\ NeedsBefore(d, New("states", "on")) /\ ~NeedsAfter(New("states", "on")) /\ ~Rewrites(New("states", "on"))
    BY DEF New, Step, Light, TopShape, DigestDel, TokenRead, Forgets, UserDel, NeedsBefore, SessionDel, PrefsRead,
                 DigestLoop, NeedsAfter, SpaceWrite, NewMember, Rewrites, Memory, Index
  <2> QED
    BY <2>2, <2>3
<1>41. (New("prints", "on") \in StepsOf(d, {<<>>})) /\ Light(New("prints", "on")) /\ NeedsBefore(d, New("prints", "on")) /\ ~NeedsAfter(New("prints", "on")) /\ ~Rewrites(New("prints", "on"))
  <2>1. {"prints"} \subseteq Tables
    BY TableNames
  <2>2. New("prints", "on") \in StepsOf(d, {<<>>})
    BY <2>1 DEF New, Step, OpNames, Modes, PlainShape, IndexShape, OtherShape, Made, Loops, Branches, StepsOf, Raw, Shape, Keys0
  <2>3. Light(New("prints", "on")) /\ NeedsBefore(d, New("prints", "on")) /\ ~NeedsAfter(New("prints", "on")) /\ ~Rewrites(New("prints", "on"))
    BY DEF New, Step, Light, TopShape, DigestDel, TokenRead, Forgets, UserDel, NeedsBefore, SessionDel, PrefsRead,
                 DigestLoop, NeedsAfter, SpaceWrite, NewMember, Rewrites, Memory, Index
  <2> QED
    BY <2>2, <2>3
<1>42. (New("stacks", "end") \in StepsOf(d, {<<>>})) /\ Light(New("stacks", "end")) /\ NeedsBefore(d, New("stacks", "end")) /\ ~NeedsAfter(New("stacks", "end")) /\ ~Rewrites(New("stacks", "end"))
  <2>1. {"stacks"} \subseteq Tables
    BY TableNames
  <2>2. New("stacks", "end") \in StepsOf(d, {<<>>})
    BY <2>1 DEF New, Step, OpNames, Modes, PlainShape, IndexShape, OtherShape, Made, Loops, Branches, StepsOf, Raw, Shape, Keys0
  <2>3. Light(New("stacks", "end")) /\ NeedsBefore(d, New("stacks", "end")) /\ ~NeedsAfter(New("stacks", "end")) /\ ~Rewrites(New("stacks", "end"))
    BY DEF New, Step, Light, TopShape, DigestDel, TokenRead, Forgets, UserDel, NeedsBefore, SessionDel, PrefsRead,
                 DigestLoop, NeedsAfter, SpaceWrite, NewMember, Rewrites, Memory, Index
  <2> QED
    BY <2>2, <2>3
<1>43. (New("deployments", "on") \in StepsOf(d, {<<>>})) /\ Light(New("deployments", "on")) /\ NeedsBefore(d, New("deployments", "on")) /\ ~NeedsAfter(New("deployments", "on")) /\ ~Rewrites(New("deployments", "on"))
  <2>1. {"deployments"} \subseteq Tables
    BY TableNames
  <2>2. New("deployments", "on") \in StepsOf(d, {<<>>})
    BY <2>1 DEF New, Step, OpNames, Modes, PlainShape, IndexShape, OtherShape, Made, Loops, Branches, StepsOf, Raw, Shape, Keys0
  <2>3. Light(New("deployments", "on")) /\ NeedsBefore(d, New("deployments", "on")) /\ ~NeedsAfter(New("deployments", "on")) /\ ~Rewrites(New("deployments", "on"))
    BY DEF New, Step, Light, TopShape, DigestDel, TokenRead, Forgets, UserDel, NeedsBefore, SessionDel, PrefsRead,
                 DigestLoop, NeedsAfter, SpaceWrite, NewMember, Rewrites, Memory, Index
  <2> QED
    BY <2>2, <2>3
<1>44. (New("digests", "on") \in StepsOf(d, {<<>>})) /\ Light(New("digests", "on")) /\ NeedsBefore(d, New("digests", "on")) /\ ~NeedsAfter(New("digests", "on")) /\ ~Rewrites(New("digests", "on"))
  <2>1. {"digests"} \subseteq Tables
    BY TableNames
  <2>2. New("digests", "on") \in StepsOf(d, {<<>>})
    BY <2>1 DEF New, Step, OpNames, Modes, PlainShape, IndexShape, OtherShape, Made, Loops, Branches, StepsOf, Raw, Shape, Keys0
  <2>3. Light(New("digests", "on")) /\ NeedsBefore(d, New("digests", "on")) /\ ~NeedsAfter(New("digests", "on")) /\ ~Rewrites(New("digests", "on"))
    BY DEF New, Step, Light, TopShape, DigestDel, TokenRead, Forgets, UserDel, NeedsBefore, SessionDel, PrefsRead,
                 DigestLoop, NeedsAfter, SpaceWrite, NewMember, Rewrites, Memory, Index
  <2> QED
    BY <2>2, <2>3
<1>45. (New("logs", "end") \in StepsOf(d, {<<>>})) /\ Light(New("logs", "end")) /\ NeedsBefore(d, New("logs", "end")) /\ ~NeedsAfter(New("logs", "end")) /\ ~Rewrites(New("logs", "end"))
  <2>1. {"logs"} \subseteq Tables
    BY TableNames
  <2>2. New("logs", "end") \in StepsOf(d, {<<>>})
    BY <2>1 DEF New, Step, OpNames, Modes, PlainShape, IndexShape, OtherShape, Made, Loops, Branches, StepsOf, Raw, Shape, Keys0
  <2>3. Light(New("logs", "end")) /\ NeedsBefore(d, New("logs", "end")) /\ ~NeedsAfter(New("logs", "end")) /\ ~Rewrites(New("logs", "end"))
    BY DEF New, Step, Light, TopShape, DigestDel, TokenRead, Forgets, UserDel, NeedsBefore, SessionDel, PrefsRead,
                 DigestLoop, NeedsAfter, SpaceWrite, NewMember, Rewrites, Memory, Index
  <2> QED
    BY <2>2, <2>3
<1>46. (New("logindex", "end") \in StepsOf(d, {<<>>})) /\ Light(New("logindex", "end")) /\ NeedsBefore(d, New("logindex", "end")) /\ ~NeedsAfter(New("logindex", "end")) /\ ~Rewrites(New("logindex", "end"))
  <2>1. {"logindex"} \subseteq Tables
    BY TableNames
  <2>2. New("logindex", "end") \in StepsOf(d, {<<>>})
    BY <2>1 DEF New, Step, OpNames, Modes, PlainShape, IndexShape, OtherShape, Made, Loops, Branches, StepsOf, Raw, Shape, Keys0
  <2>3. Light(New("logindex", "end")) /\ NeedsBefore(d, New("logindex", "end")) /\ ~NeedsAfter(New("logindex", "end")) /\ ~Rewrites(New("logindex", "end"))
    BY DEF New, Step, Light, TopShape, DigestDel, TokenRead, Forgets, UserDel, NeedsBefore, SessionDel, PrefsRead,
                 DigestLoop, NeedsAfter, SpaceWrite, NewMember, Rewrites, Memory, Index
  <2> QED
    BY <2>2, <2>3
<1> QED
  BY <1>1, <1>2, <1>3, <1>4, <1>5, <1>6, <1>7, <1>8, <1>9, <1>10, <1>11, <1>12, <1>13, <1>14, <1>15, <1>16, <1>17, <1>18, <1>19, <1>20, <1>21, <1>22, <1>23, <1>24, <1>25, <1>26, <1>27, <1>28, <1>29, <1>30, <1>31, <1>32, <1>33, <1>34, <1>35, <1>36, <1>37, <1>38, <1>39, <1>40, <1>41, <1>42, <1>43, <1>44, <1>45, <1>46

LEMMA OneProgram ==
  ASSUME NEW d, NEW B, NEW s \in StepsOf(d, B), ~NeedsBefore(d, s), ~NeedsAfter(s)
  PROVE  <<s>> \in Programs(d, B)
<1> DEFINE x == <<s>>
<1>1. x \in Seq(StepsOf(d, B)) /\ Len(x) = 1 /\ x[1] = s
  OBVIOUS
<1> HIDE DEF x
<1>2. Chain(d, x)
  BY <1>1 DEF Chain
<1>3. x \in Programs(d, B)
  BY <1>1, <1>2 DEF Programs
<1> QED
  BY <1>3 DEF x

LEMMA TwoProgram ==
  ASSUME NEW d, NEW B, NEW p \in StepsOf(d, B), NEW s \in StepsOf(d, B), ~NeedsBefore(d, p), Link(d, p, s), ~NeedsAfter(s)
  PROVE  <<p, s>> \in Programs(d, B)
<1> DEFINE x == <<p, s>>
<1>1. x \in Seq(StepsOf(d, B)) /\ Len(x) = 2 /\ x[1] = p /\ x[2] = s
  OBVIOUS
<1> HIDE DEF x
<1>2. \A i \in 2..Len(x) : i = 2 /\ i - 1 = 1
  BY <1>1
<1>3. Chain(d, x)
  BY <1>1, <1>2 DEF Chain
<1>4. x \in Programs(d, B)
  BY <1>1, <1>3 DEF Programs
<1> QED
  BY <1>4 DEF x

LEMMA ThreeProgram ==
  ASSUME NEW d, NEW B, NEW p \in StepsOf(d, B), NEW q \in StepsOf(d, B), NEW s \in StepsOf(d, B), ~NeedsBefore(d, p),
         Link(d, p, q), Link(d, q, s), ~NeedsAfter(s)
  PROVE  <<p, q, s>> \in Programs(d, B)
<1> DEFINE x == <<p, q, s>>
<1>1. x \in Seq(StepsOf(d, B)) /\ Len(x) = 3 /\ x[1] = p /\ x[2] = q /\ x[3] = s
  OBVIOUS
<1> HIDE DEF x
<1>2. \A i \in 2..Len(x) : (i = 2 /\ i - 1 = 1) \/ (i = 3 /\ i - 1 = 2)
  BY <1>1
<1>3. Chain(d, x)
  BY <1>1, <1>2 DEF Chain
<1>4. x \in Programs(d, B)
  BY <1>1, <1>3 DEF Programs
<1> QED
  BY <1>4 DEF x

LEMMA OneEasy ==
  ASSUME NEW d, NEW s \in AnyStep(d), Light(s), ~NeedsBefore(d, s), ~NeedsAfter(s), ~Rewrites(s)
  PROVE  <<s>> \in Easy(d)
<1>1. <<s>> \in Programs(d, Bodies2(d))
  BY OneProgram DEF AnyStep
<1> DEFINE x == <<s>>
<1>2. DOMAIN x = {1} /\ x[1] = s
  OBVIOUS
<1> HIDE DEF x
<1>3. Covered(x) /\ \A i \in DOMAIN x : Light(x[i])
  BY <1>2 DEF Covered
<1> QED
  BY <1>1, <1>3 DEF Easy, x

LEMMA TwoEasy ==
  ASSUME NEW d, NEW p \in AnyStep(d), NEW s \in AnyStep(d), Light(p), Light(s), ~NeedsBefore(d, p), ~NeedsAfter(p),
         ~Rewrites(p), ~NeedsAfter(s), NeedsBefore(d, s) => Gives(d, p, s), Rewrites(s) => p.op = "get" /\ p.t = s.t
  PROVE  <<p, s>> \in Easy(d)
<1>1. p.key = s.key
  BY DEF Light, TopShape
<1>2. Link(d, p, s)
  BY <1>1 DEF Link
<1>3. <<p, s>> \in Programs(d, Bodies2(d))
  BY <1>2, TwoProgram DEF AnyStep
<1> DEFINE x == <<p, s>>
<1>4. DOMAIN x = {1, 2} /\ x[1] = p /\ x[2] = s
  OBVIOUS
<1> HIDE DEF x
<1>5. 1 \in 1..(2 - 1)
  OBVIOUS
<1>6. Covered(x) /\ \A i \in DOMAIN x : Light(x[i])
  BY <1>4, <1>5 DEF Covered
<1> QED
  BY <1>3, <1>6 DEF Easy, x

LEMMA ThreeEasy ==
  ASSUME NEW d, NEW p \in AnyStep(d), NEW q \in AnyStep(d), NEW s \in AnyStep(d), Light(p), Light(q), Light(s),
         ~NeedsBefore(d, p), ~NeedsAfter(p), ~Rewrites(p), ~NeedsAfter(q), ~NeedsAfter(s),
         NeedsBefore(d, q) => Gives(d, p, q), NeedsBefore(d, s) => Gives(d, q, s),
         Rewrites(q) => p.op = "get" /\ p.t = q.t,
         Rewrites(s) => (p.op = "get" /\ p.t = s.t) \/ (q.op = "get" /\ q.t = s.t)
  PROVE  <<p, q, s>> \in Easy(d)
<1>1. p.key = 0 /\ q.key = 0 /\ s.key = 0
  BY DEF Light, TopShape
<1>2. Link(d, p, q) /\ Link(d, q, s)
  BY <1>1 DEF Link
<1>3. <<p, q, s>> \in Programs(d, Bodies2(d))
  BY <1>2, ThreeProgram DEF AnyStep
<1> DEFINE x == <<p, q, s>>
<1>4. DOMAIN x = {1, 2, 3} /\ x[1] = p /\ x[2] = q /\ x[3] = s
  OBVIOUS
<1> HIDE DEF x
<1>5. 1 \in 1..(2 - 1) /\ 1 \in 1..(3 - 1) /\ 2 \in 1..(3 - 1)
  OBVIOUS
<1>6. Covered(x)
  BY <1>4, <1>5 DEF Covered
<1>7. \A i \in DOMAIN x : Light(x[i])
  BY <1>4
<1> QED
  BY <1>3, <1>6, <1>7 DEF Easy, x

LEMMA EasyJoin ==
  ASSUME NEW d, NEW x \in Easy(d), NEW y \in Easy(d)
  PROVE  x \o y \in Easy(d)
<1>1. /\ x \in Programs(d, Bodies2(d)) /\ Covered(x) /\ \A i \in DOMAIN x : Light(x[i])
      /\ y \in Programs(d, Bodies2(d)) /\ Covered(y) /\ \A i \in DOMAIN y : Light(y[i])
  BY DEF Easy
<1>2. x \o y \in Programs(d, Bodies2(d))
  BY <1>1, ProgramsJoin
<1> DEFINE z == x \o y
<1>3. x \in Seq(AnyStep(d)) /\ y \in Seq(AnyStep(d))
  BY <1>1 DEF Programs, AnyStep
<1>4. /\ z \in Seq(AnyStep(d)) /\ Len(z) = Len(x) + Len(y)
      /\ \A i \in 1..Len(x) : z[i] = x[i]
      /\ \A j \in 1..Len(y) : z[Len(x) + j] = y[j]
  BY <1>3, ConcatFacts
<1>5. Len(x) \in Nat /\ Len(y) \in Nat /\ DOMAIN x = 1..Len(x) /\ DOMAIN y = 1..Len(y) /\ DOMAIN z = 1..Len(z)
  BY <1>3, <1>4
<1> HIDE DEF z
<1>6. \A i \in DOMAIN z : i \in 1..Len(x) \/ \E j \in 1..Len(y) : i = Len(x) + j
  <2> SUFFICES ASSUME NEW i \in DOMAIN z, i \notin 1..Len(x) PROVE \E j \in 1..Len(y) : i = Len(x) + j
    OBVIOUS
  <2>1. i - Len(x) \in 1..Len(y) /\ i = Len(x) + (i - Len(x))
    BY <1>4, <1>5
  <2> QED
    BY <2>1
<1>7. \A i \in DOMAIN z : Light(z[i])
  BY <1>1, <1>4, <1>5, <1>6
<1>8. Covered(z)
  <2> SUFFICES ASSUME NEW i \in DOMAIN z, Rewrites(z[i])
               PROVE  \E j \in 1..i - 1 : z[j].op = "get" /\ z[j].t = z[i].t
    BY DEF Covered
  <2>1. CASE i \in 1..Len(x)
    <3>1. PICK j \in 1..i - 1 : x[j].op = "get" /\ x[j].t = x[i].t
      BY <1>1, <1>4, <1>5, <2>1 DEF Covered
    <3>2. j \in 1..Len(x)
      BY <1>5, <2>1
    <3> QED
      BY <1>4, <2>1, <3>1, <3>2
  <2>2. ASSUME NEW m \in 1..Len(y), i = Len(x) + m
        PROVE  \E j \in 1..i - 1 : z[j].op = "get" /\ z[j].t = z[i].t
    <3>1. z[i] = y[m]
      BY <1>4, <2>2
    <3>2. PICK j \in 1..m - 1 : y[j].op = "get" /\ y[j].t = y[m].t
      BY <1>1, <1>5, <3>1 DEF Covered
    <3>3. j \in 1..Len(y) /\ Len(x) + j \in 1..i - 1
      BY <1>5, <2>2
    <3>4. z[Len(x) + j] = y[j]
      BY <1>4, <3>3
    <3> QED
      BY <3>1, <3>2, <3>3, <3>4
  <2> QED
    BY <1>6, <2>1, <2>2
<1> QED
  BY <1>2, <1>7, <1>8 DEF Easy, z

LEMMA EasyStarted ==
  ASSUME NEW d, NEW s \in Easy(d)
  PROVE  Startable(d, s)
<1>1. s \in Programs(d, Bodies2(d)) /\ Covered(s) /\ \A i \in DOMAIN s : Light(s[i])
  BY DEF Easy
<1>2. s \in Todos(d) /\ (s # <<>> => ~NeedsBefore(d, s[1]))
  BY <1>1 DEF Programs, Todos, AnyStep
<1>3. TokenOnce(s) /\ ForgetLast(s) /\ Cascades(d, s)
  BY <1>1 DEF TokenOnce, ForgetLast, Cascades, Light
<1> QED
  BY <1>1, <1>2, <1>3 DEF Startable, Light

\* Small sequences in one
LEMMA Join11 ==
  ASSUME NEW a, NEW b
  PROVE  <<a>> \o <<b>> = <<a, b>>
<1> DEFINE A == {a, b}
           z == <<a>> \o <<b>>
<1>1. <<a>> \in Seq(A) /\ <<b>> \in Seq(A) /\ Len(<<a>>) = 1 /\ Len(<<b>>) = 1
  OBVIOUS
<1>2. z \in Seq(A) /\ Len(z) = 2 /\ z[1] = a /\ z[2] = b
  <2>1. z \in Seq(A) /\ Len(z) = 2
    BY <1>1
  <2>2. z[1] = a
    BY <1>1
  <2>3. z[2] = b
    BY <1>1
  <2> QED
    BY <2>1, <2>2, <2>3
<1> HIDE DEF z
<1>3. z = <<a, b>>
  BY <1>2
<1> QED
  BY <1>3 DEF z

LEMMA Join12 ==
  ASSUME NEW a, NEW b, NEW c
  PROVE  <<a>> \o <<b, c>> = <<a, b, c>>
<1> DEFINE A == {a, b, c}
           z == <<a>> \o <<b, c>>
<1>1. <<a>> \in Seq(A) /\ <<b, c>> \in Seq(A) /\ Len(<<a>>) = 1 /\ Len(<<b, c>>) = 2
  OBVIOUS
<1>2. z \in Seq(A) /\ Len(z) = 3 /\ z[1] = a /\ z[2] = b /\ z[3] = c
  <2>1. z \in Seq(A) /\ Len(z) = 3
    BY <1>1
  <2>2. z[1] = a
    BY <1>1
  <2>3. z[2] = b
    BY <1>1
  <2>4. z[3] = c
    BY <1>1
  <2> QED
    BY <2>1, <2>2, <2>3, <2>4
<1> HIDE DEF z
<1>3. z = <<a, b, c>>
  BY <1>2
<1> QED
  BY <1>3 DEF z

LEMMA Join21 ==
  ASSUME NEW a, NEW b, NEW c
  PROVE  <<a, b>> \o <<c>> = <<a, b, c>>
<1> DEFINE A == {a, b, c}
           z == <<a, b>> \o <<c>>
<1>1. <<a, b>> \in Seq(A) /\ <<c>> \in Seq(A) /\ Len(<<a, b>>) = 2 /\ Len(<<c>>) = 1
  OBVIOUS
<1>2. z \in Seq(A) /\ Len(z) = 3 /\ z[1] = a /\ z[2] = b /\ z[3] = c
  <2>1. z \in Seq(A) /\ Len(z) = 3
    BY <1>1
  <2>2. z[1] = a
    BY <1>1
  <2>3. z[2] = b
    BY <1>1
  <2>4. z[3] = c
    BY <1>1
  <2> QED
    BY <2>1, <2>2, <2>3, <2>4
<1> HIDE DEF z
<1>3. z = <<a, b, c>>
  BY <1>2
<1> QED
  BY <1>3 DEF z

LEMMA Join31 ==
  ASSUME NEW a, NEW b, NEW c, NEW e
  PROVE  <<a, b, c>> \o <<e>> = <<a, b, c, e>>
<1> DEFINE A == {a, b, c, e}
           z == <<a, b, c>> \o <<e>>
<1>1. <<a, b, c>> \in Seq(A) /\ <<e>> \in Seq(A) /\ Len(<<a, b, c>>) = 3 /\ Len(<<e>>) = 1
  OBVIOUS
<1>2. z \in Seq(A) /\ Len(z) = 4 /\ z[1] = a /\ z[2] = b /\ z[3] = c /\ z[4] = e
  <2>1. z \in Seq(A) /\ Len(z) = 4
    BY <1>1
  <2>2. z[1] = a
    BY <1>1
  <2>3. z[2] = b
    BY <1>1
  <2>4. z[3] = c
    BY <1>1
  <2>5. z[4] = e
    BY <1>1
  <2> QED
    BY <2>1, <2>2, <2>3, <2>4, <2>5
<1> HIDE DEF z
<1>3. z = <<a, b, c, e>>
  BY <1>2
<1> QED
  BY <1>3 DEF z

LEMMA Join41 ==
  ASSUME NEW a, NEW b, NEW c, NEW e, NEW f
  PROVE  <<a, b, c, e>> \o <<f>> = <<a, b, c, e, f>>
<1> DEFINE A == {a, b, c, e, f}
           z == <<a, b, c, e>> \o <<f>>
<1>1. <<a, b, c, e>> \in Seq(A) /\ <<f>> \in Seq(A) /\ Len(<<a, b, c, e>>) = 4 /\ Len(<<f>>) = 1
  OBVIOUS
<1>2. z \in Seq(A) /\ Len(z) = 5 /\ z[1] = a /\ z[2] = b /\ z[3] = c /\ z[4] = e /\ z[5] = f
  <2>1. z \in Seq(A) /\ Len(z) = 5
    BY <1>1
  <2>2. z[1] = a
    BY <1>1
  <2>3. z[2] = b
    BY <1>1
  <2>4. z[3] = c
    BY <1>1
  <2>5. z[4] = e
    BY <1>1
  <2>6. z[5] = f
    BY <1>1
  <2> QED
    BY <2>1, <2>2, <2>3, <2>4, <2>5, <2>6
<1> HIDE DEF z
<1>3. z = <<a, b, c, e, f>>
  BY <1>2
<1> QED
  BY <1>3 DEF z

LEMMA BodiesGrow ==
  ASSUME NEW d
  PROVE  Bodies1(d) \subseteq Bodies2(d) /\ Programs(d, {<<>>}) \subseteq Programs(d, Bodies1(d))
<1>1. <<>> \in Bodies1(d)
  BY NothingProgram DEF Bodies1
<1>2. Programs(d, {<<>>}) \subseteq Programs(d, Bodies1(d))
  BY <1>1, ProgramsGrow
<1> QED
  BY <1>2 DEF Bodies1, Bodies2

LEMMA LoopStep ==
  ASSUME NEW d, NEW op \in Branches, NEW t \in Tables, NEW via \in Tables, NEW f \in Modes,
         NEW body \in Bodies2(d), NEW s, s = Step(op, t, via, f, body),
         IndexShape(d, s), OtherShape(s), op = "idlers" => t = "sessions", op = "again" => t = "deps",
         \A m \in DOMAIN body : Inner(d, s, body[m])
  PROVE  s \in AnyStep(d)
<1>1. s \in Raw(Bodies2(d))
  BY DEF Raw, Step, Keys0, OpNames, Loops, Branches
<1>2. PlainShape(s)
  BY DEF PlainShape, Step, Loops, Branches
<1>3. s.body = body
  BY DEF Step
<1> QED
  BY <1>1, <1>2, <1>3 DEF StepsOf, Shape, AnyStep

LEMMA CalmEasy ==
  ASSUME NEW d, NEW s, Calm(d, s), ~Rewrites(s)
  PROVE  <<s>> \in Easy(d)
BY FlatAny, OneEasy DEF Calm

LEMMA SessionBody ==
  ASSUME NEW d, NEW f \in Modes
  PROVE  /\ d = "bbolt" => BboltDeleteSession(f) \in Programs(d, {<<>>})
         /\ d = "mongo" => MongoDeleteSession(f) \in Programs(d, {<<>>})
<1> DEFINE p == Get("sessions", f)
           q == Del("byuser", "on")
           s == Del("sessions", f)
<1>0. f \in {"end", "on", "next", "out"}
  BY DEF Modes
<1>1. Calm(d, p)
  BY Gets
<1>2. (d = "bbolt" => q \in StepsOf(d, {<<>>})) /\ ~NeedsBefore(d, q) /\ ~NeedsAfter(q)
  BY Singles
<1>3. s \in StepsOf(d, {<<>>}) /\ ~NeedsAfter(s) /\ (d = "mongo" => ~NeedsBefore(d, s))
  BY <1>0, Singles
<1>4. q.key = 0 /\ s.key = 0 /\ Gives(d, q, s)
  BY DEF Del, Step, Gives, SessionDel, PrefsRead, DigestLoop
<1>5. ASSUME d = "bbolt" PROVE <<p, q, s>> \in Programs(d, {<<>>})
  <2> HIDE DEF p, q, s
  <2>1. Link(d, p, q) /\ Link(d, q, s)
    BY <1>1, <1>2, <1>3, <1>4 DEF Link, Calm
  <2> QED
    BY <1>1, <1>2, <1>3, <1>5, <2>1, ThreeProgram DEF Calm
<1>6. ASSUME d = "mongo" PROVE <<s>> \in Programs(d, {<<>>})
  <2> HIDE DEF s
  <2> QED
    BY <1>3, <1>6, OneProgram
<1> QED
  BY <1>5, <1>6 DEF BboltDeleteSession, MongoDeleteSession

LEMMA EachKey ==
  ASSUME NEW d
  PROVE  /\ Each("keys", "keys", "on", <<Del("keys", "on")>>) \in AnyStep(d)
         /\ LET s == Each("keys", "keys", "on", <<Del("keys", "on")>>) IN Light(s) /\ ~NeedsBefore(d, s) /\ ~NeedsAfter(s) /\ ~Rewrites(s)
<1> DEFINE body == <<Del("keys", "on")>>
           s == Each("keys", "keys", "on", body)
<1>1. body \in Bodies2(d)
  <2>1. Calm(d, Del("keys", "on"))
    BY Gets, Puts, Blanks, Dels DEF Modes
  <2>2. Del("keys", "on") \in StepsOf(d, {<<>>}) /\ ~NeedsBefore(d, Del("keys", "on")) /\ ~NeedsAfter(Del("keys", "on"))
    BY <2>1 DEF Calm
  <2>3. <<Del("keys", "on")>> \in Programs(d, {<<>>})
    BY <2>2, OneProgram
  <2> QED
    BY <2>3, BodiesGrow DEF Bodies1
<1>2. s = Step("each", "keys", "keys", "on", body)
  BY DEF Each
<1>3. body # <<>>
  OBVIOUS
<1>4. Inner(d, s, Del("keys", "on"))
  <2> HIDE DEF body
  <2>1. Inner(d, s, Del("keys", "on"))
    BY <1>2 DEF Del, Step, Inner, Loops, Branches, NewMember, Rewrites, SessionDel, Memory, Index
  <2> QED
    BY <2>1
<1>5. \A m \in DOMAIN body : Inner(d, s, body[m])
  <2> HIDE DEF s
  <2> QED
    BY <1>4
<1> HIDE DEF body, s
<1>6. "keys" \in Tables /\ "keys" \in Tables /\ "on" \in Modes /\ "each" \in Branches
  BY TableNames DEF Modes, Loops, Branches
<1>7. IndexShape(d, s) /\ OtherShape(s)
  BY <1>2 DEF Step, IndexShape, OtherShape
<1>8. s \in AnyStep(d)
  BY <1>1, <1>2, <1>5, <1>6, <1>7, LoopStep
<1>9. Light(s) /\ ~NeedsBefore(d, s) /\ ~NeedsAfter(s) /\ ~Rewrites(s)
  BY <1>2, <1>3 DEF Step, Light, TopShape, DigestDel, TokenRead, Forgets, UserDel, NeedsBefore, SessionDel,
                 PrefsRead, DigestLoop, NeedsAfter, SpaceWrite, NewMember, Rewrites
<1> QED
  BY <1>8, <1>9 DEF s, body

LEMMA EachLink ==
  ASSUME NEW d
  PROVE  /\ Each("oidclinks", "oidclinks", "on", <<Del("oidclinks", "on")>>) \in AnyStep(d)
         /\ LET s == Each("oidclinks", "oidclinks", "on", <<Del("oidclinks", "on")>>) IN Light(s) /\ ~NeedsBefore(d, s) /\ ~NeedsAfter(s) /\ ~Rewrites(s)
<1> DEFINE body == <<Del("oidclinks", "on")>>
           s == Each("oidclinks", "oidclinks", "on", body)
<1>1. body \in Bodies2(d)
  <2>1. Calm(d, Del("oidclinks", "on"))
    BY Gets, Puts, Blanks, Dels DEF Modes
  <2>2. Del("oidclinks", "on") \in StepsOf(d, {<<>>}) /\ ~NeedsBefore(d, Del("oidclinks", "on")) /\ ~NeedsAfter(Del("oidclinks", "on"))
    BY <2>1 DEF Calm
  <2>3. <<Del("oidclinks", "on")>> \in Programs(d, {<<>>})
    BY <2>2, OneProgram
  <2> QED
    BY <2>3, BodiesGrow DEF Bodies1
<1>2. s = Step("each", "oidclinks", "oidclinks", "on", body)
  BY DEF Each
<1>3. body # <<>>
  OBVIOUS
<1>4. Inner(d, s, Del("oidclinks", "on"))
  <2> HIDE DEF body
  <2>1. Inner(d, s, Del("oidclinks", "on"))
    BY <1>2 DEF Del, Step, Inner, Loops, Branches, NewMember, Rewrites, SessionDel, Memory, Index
  <2> QED
    BY <2>1
<1>5. \A m \in DOMAIN body : Inner(d, s, body[m])
  <2> HIDE DEF s
  <2> QED
    BY <1>4
<1> HIDE DEF body, s
<1>6. "oidclinks" \in Tables /\ "oidclinks" \in Tables /\ "on" \in Modes /\ "each" \in Branches
  BY TableNames DEF Modes, Loops, Branches
<1>7. IndexShape(d, s) /\ OtherShape(s)
  BY <1>2 DEF Step, IndexShape, OtherShape
<1>8. s \in AnyStep(d)
  BY <1>1, <1>2, <1>5, <1>6, <1>7, LoopStep
<1>9. Light(s) /\ ~NeedsBefore(d, s) /\ ~NeedsAfter(s) /\ ~Rewrites(s)
  BY <1>2, <1>3 DEF Step, Light, TopShape, DigestDel, TokenRead, Forgets, UserDel, NeedsBefore, SessionDel,
                 PrefsRead, DigestLoop, NeedsAfter, SpaceWrite, NewMember, Rewrites
<1> QED
  BY <1>8, <1>9 DEF s, body

LEMMA EachPasskey ==
  ASSUME NEW d
  PROVE  /\ Each("passkeys", "passkeys", "end", <<>>) \in AnyStep(d)
         /\ LET s == Each("passkeys", "passkeys", "end", <<>>) IN Light(s) /\ ~NeedsBefore(d, s) /\ ~NeedsAfter(s) /\ ~Rewrites(s)
<1> DEFINE body == <<>>
           s == Each("passkeys", "passkeys", "end", body)
<1>1. body \in Bodies2(d)
  <2>1. <<>> \in Programs(d, {<<>>})
    BY NothingProgram
  <2> QED
    BY <2>1, BodiesGrow DEF Bodies1
<1>2. s = Step("each", "passkeys", "passkeys", "end", body)
  BY DEF Each
<1>3. body = <<>>
  OBVIOUS
<1>5. \A m \in DOMAIN body : Inner(d, s, body[m])
  OBVIOUS
<1> HIDE DEF body, s
<1>6. "passkeys" \in Tables /\ "passkeys" \in Tables /\ "end" \in Modes /\ "each" \in Branches
  BY TableNames DEF Modes, Loops, Branches
<1>7. IndexShape(d, s) /\ OtherShape(s)
  BY <1>2 DEF Step, IndexShape, OtherShape
<1>8. s \in AnyStep(d)
  BY <1>1, <1>2, <1>5, <1>6, <1>7, LoopStep
<1>9. Light(s) /\ ~NeedsBefore(d, s) /\ ~NeedsAfter(s) /\ ~Rewrites(s)
  BY <1>2, <1>3 DEF Step, Light, TopShape, DigestDel, TokenRead, Forgets, UserDel, NeedsBefore, SessionDel,
                 PrefsRead, DigestLoop, NeedsAfter, SpaceWrite, NewMember, Rewrites
<1> QED
  BY <1>8, <1>9 DEF s, body

LEMMA EachPasskeyBegins ==
  ASSUME NEW d
  PROVE  /\ Each("passkeys", "passkeys", "end", <<FreshKey, New("ceremonies", "end")>>) \in AnyStep(d)
         /\ LET s == Each("passkeys", "passkeys", "end", <<FreshKey, New("ceremonies", "end")>>) IN Light(s) /\ ~NeedsBefore(d, s) /\ ~NeedsAfter(s) /\ ~Rewrites(s)
<1> DEFINE body == <<FreshKey, New("ceremonies", "end")>>
           s == Each("passkeys", "passkeys", "end", body)
<1>1. body \in Bodies2(d)
  <2>1. FreshKey \in StepsOf(d, {<<>>}) /\ ~NeedsBefore(d, FreshKey) /\ ~NeedsAfter(FreshKey)
    BY Singles, Gets DEF Calm, Modes
  <2>2. New("ceremonies", "end") \in StepsOf(d, {<<>>}) /\ ~NeedsAfter(New("ceremonies", "end"))
    BY Singles
  <2>3. FreshKey.key = New("ceremonies", "end").key /\ Gives(d, FreshKey, New("ceremonies", "end"))
    BY DEF FreshKey, New, Step, Gives, SessionDel, PrefsRead, DigestLoop
  <2>4. Link(d, FreshKey, New("ceremonies", "end"))
    BY <2>1, <2>3 DEF Link
  <2>5. <<FreshKey, New("ceremonies", "end")>> \in Programs(d, {<<>>})
    BY <2>1, <2>2, <2>4, TwoProgram
  <2> QED
    BY <2>5, BodiesGrow DEF Bodies1
<1>2. s = Step("each", "passkeys", "passkeys", "end", body)
  BY DEF Each
<1>3. body # <<>>
  OBVIOUS
<1>4. Inner(d, s, FreshKey) /\ Inner(d, s, New("ceremonies", "end"))
  <2> HIDE DEF body
  <2>1. Inner(d, s, FreshKey)
    BY <1>2 DEF FreshKey, Step, Inner, Loops, Branches, NewMember, Rewrites, SessionDel, Memory, Index
  <2>2. Inner(d, s, New("ceremonies", "end"))
    BY <1>2 DEF New, Step, Inner, Loops, Branches, NewMember, Rewrites, SessionDel, Memory, Index
  <2> QED
    BY <2>1, <2>2
<1>5. \A m \in DOMAIN body : Inner(d, s, body[m])
  <2> HIDE DEF s
  <2> QED
    BY <1>4
<1> HIDE DEF body, s
<1>6. "passkeys" \in Tables /\ "passkeys" \in Tables /\ "end" \in Modes /\ "each" \in Branches
  BY TableNames DEF Modes, Loops, Branches
<1>7. IndexShape(d, s) /\ OtherShape(s)
  BY <1>2 DEF Step, IndexShape, OtherShape
<1>8. s \in AnyStep(d)
  BY <1>1, <1>2, <1>5, <1>6, <1>7, LoopStep
<1>9. Light(s) /\ ~NeedsBefore(d, s) /\ ~NeedsAfter(s) /\ ~Rewrites(s)
  BY <1>2, <1>3 DEF Step, Light, TopShape, DigestDel, TokenRead, Forgets, UserDel, NeedsBefore, SessionDel,
                 PrefsRead, DigestLoop, NeedsAfter, SpaceWrite, NewMember, Rewrites
<1> QED
  BY <1>8, <1>9 DEF s, body

LEMMA OwnPasskey ==
  ASSUME NEW d
  PROVE  /\ EachOwn("passkeys", "on", <<Put("passkeys", "on")>>) \in AnyStep(d)
         /\ LET s == EachOwn("passkeys", "on", <<Put("passkeys", "on")>>) IN Light(s) /\ ~NeedsBefore(d, s) /\ ~NeedsAfter(s) /\ ~Rewrites(s)
<1> DEFINE body == <<Put("passkeys", "on")>>
           s == EachOwn("passkeys", "on", body)
<1>1. body \in Bodies2(d)
  <2>1. Calm(d, Put("passkeys", "on"))
    BY Gets, Puts, Blanks, Dels DEF Modes
  <2>2. Put("passkeys", "on") \in StepsOf(d, {<<>>}) /\ ~NeedsBefore(d, Put("passkeys", "on")) /\ ~NeedsAfter(Put("passkeys", "on"))
    BY <2>1 DEF Calm
  <2>3. <<Put("passkeys", "on")>> \in Programs(d, {<<>>})
    BY <2>2, OneProgram
  <2> QED
    BY <2>3, BodiesGrow DEF Bodies1
<1>2. s = Step("own", "passkeys", "passkeys", "on", body)
  BY DEF EachOwn
<1>3. body # <<>>
  OBVIOUS
<1>4. Inner(d, s, Put("passkeys", "on"))
  <2> HIDE DEF body
  <2>1. Inner(d, s, Put("passkeys", "on"))
    BY <1>2 DEF Put, Step, Inner, Loops, Branches, NewMember, Rewrites, SessionDel, Memory, Index
  <2> QED
    BY <2>1
<1>5. \A m \in DOMAIN body : Inner(d, s, body[m])
  <2> HIDE DEF s
  <2> QED
    BY <1>4
<1> HIDE DEF body, s
<1>6. "passkeys" \in Tables /\ "passkeys" \in Tables /\ "on" \in Modes /\ "own" \in Branches
  BY TableNames DEF Modes, Loops, Branches
<1>7. IndexShape(d, s) /\ OtherShape(s)
  BY <1>2 DEF Step, IndexShape, OtherShape
<1>8. s \in AnyStep(d)
  BY <1>1, <1>2, <1>5, <1>6, <1>7, LoopStep
<1>9. Light(s) /\ ~NeedsBefore(d, s) /\ ~NeedsAfter(s) /\ ~Rewrites(s)
  BY <1>2, <1>3 DEF Step, Light, TopShape, DigestDel, TokenRead, Forgets, UserDel, NeedsBefore, SessionDel,
                 PrefsRead, DigestLoop, NeedsAfter, SpaceWrite, NewMember, Rewrites
<1> QED
  BY <1>8, <1>9 DEF s, body

LEMMA EachDigest ==
  ASSUME NEW d
  PROVE  /\ Each("digests", "digests", "end", <<>>) \in AnyStep(d)
         /\ LET s == Each("digests", "digests", "end", <<>>) IN Light(s) /\ ~NeedsBefore(d, s) /\ ~NeedsAfter(s) /\ ~Rewrites(s)
<1> DEFINE body == <<>>
           s == Each("digests", "digests", "end", body)
<1>1. body \in Bodies2(d)
  <2>1. <<>> \in Programs(d, {<<>>})
    BY NothingProgram
  <2> QED
    BY <2>1, BodiesGrow DEF Bodies1
<1>2. s = Step("each", "digests", "digests", "end", body)
  BY DEF Each
<1>3. body = <<>>
  OBVIOUS
<1>5. \A m \in DOMAIN body : Inner(d, s, body[m])
  OBVIOUS
<1> HIDE DEF body, s
<1>6. "digests" \in Tables /\ "digests" \in Tables /\ "end" \in Modes /\ "each" \in Branches
  BY TableNames DEF Modes, Loops, Branches
<1>7. IndexShape(d, s) /\ OtherShape(s)
  BY <1>2 DEF Step, IndexShape, OtherShape
<1>8. s \in AnyStep(d)
  BY <1>1, <1>2, <1>5, <1>6, <1>7, LoopStep
<1>9. Light(s) /\ ~NeedsBefore(d, s) /\ ~NeedsAfter(s) /\ ~Rewrites(s)
  BY <1>2, <1>3 DEF Step, Light, TopShape, DigestDel, TokenRead, Forgets, UserDel, NeedsBefore, SessionDel,
                 PrefsRead, DigestLoop, NeedsAfter, SpaceWrite, NewMember, Rewrites
<1> QED
  BY <1>8, <1>9 DEF s, body

LEMMA EachDigestDeleted ==
  ASSUME NEW d
  PROVE  /\ Each("digests", "digests", "on", <<Del("digests", "out")>>) \in AnyStep(d)
         /\ LET s == Each("digests", "digests", "on", <<Del("digests", "out")>>) IN Light(s) /\ NeedsBefore(d, s) /\ ~NeedsAfter(s) /\ ~Rewrites(s)
<1> DEFINE body == <<Del("digests", "out")>>
           s == Each("digests", "digests", "on", body)
<1>1. body \in Bodies2(d)
  <2>1. Del("digests", "out") \in StepsOf(d, {<<>>}) /\ ~NeedsBefore(d, Del("digests", "out")) /\ ~NeedsAfter(Del("digests", "out"))
    BY Singles
  <2>2. <<Del("digests", "out")>> \in Programs(d, {<<>>})
    BY <2>1, OneProgram
  <2> QED
    BY <2>2, BodiesGrow DEF Bodies1
<1>2. s = Step("each", "digests", "digests", "on", body)
  BY DEF Each
<1>3. body # <<>>
  OBVIOUS
<1>4. Inner(d, s, Del("digests", "out"))
  <2> HIDE DEF body
  <2>1. Inner(d, s, Del("digests", "out"))
    BY <1>2 DEF Del, Step, Inner, Loops, Branches, NewMember, Rewrites, SessionDel, Memory, Index
  <2> QED
    BY <2>1
<1>5. \A m \in DOMAIN body : Inner(d, s, body[m])
  <2> HIDE DEF s
  <2> QED
    BY <1>4
<1> HIDE DEF body, s
<1>6. "digests" \in Tables /\ "digests" \in Tables /\ "on" \in Modes /\ "each" \in Branches
  BY TableNames DEF Modes, Loops, Branches
<1>7. IndexShape(d, s) /\ OtherShape(s)
  BY <1>2 DEF Step, IndexShape, OtherShape
<1>8. s \in AnyStep(d)
  BY <1>1, <1>2, <1>5, <1>6, <1>7, LoopStep
<1>9. Light(s) /\ NeedsBefore(d, s) /\ ~NeedsAfter(s) /\ ~Rewrites(s)
  BY <1>2, <1>3 DEF Step, Light, TopShape, DigestDel, TokenRead, Forgets, UserDel, NeedsBefore, SessionDel,
                 PrefsRead, DigestLoop, NeedsAfter, SpaceWrite, NewMember, Rewrites
<1> QED
  BY <1>8, <1>9 DEF s, body

LEMMA EachPRBoth ==
  ASSUME NEW d, d = "bbolt"
  PROVE  /\ Each("prs", "prs", "end", <<PutBoth("prs", "prindex")>>) \in AnyStep(d)
         /\ LET s == Each("prs", "prs", "end", <<PutBoth("prs", "prindex")>>) IN Light(s) /\ ~NeedsBefore(d, s) /\ ~NeedsAfter(s) /\ ~Rewrites(s)
<1> DEFINE body == <<PutBoth("prs", "prindex")>>
           s == Each("prs", "prs", "end", body)
<1>1. body \in Bodies2(d)
  <2>1. PutBoth("prs", "prindex") \in StepsOf(d, {<<>>}) /\ ~NeedsBefore(d, PutBoth("prs", "prindex")) /\ ~NeedsAfter(PutBoth("prs", "prindex"))
    BY Singles
  <2>2. <<PutBoth("prs", "prindex")>> \in Programs(d, {<<>>})
    BY <2>1, OneProgram
  <2> QED
    BY <2>2, BodiesGrow DEF Bodies1
<1>2. s = Step("each", "prs", "prs", "end", body)
  BY DEF Each
<1>3. body # <<>>
  OBVIOUS
<1>4. Inner(d, s, PutBoth("prs", "prindex"))
  <2> HIDE DEF body
  <2>1. Inner(d, s, PutBoth("prs", "prindex"))
    BY <1>2 DEF PutBoth, Step, Inner, Loops, Branches, NewMember, Rewrites, SessionDel, Memory, Index
  <2> QED
    BY <2>1
<1>5. \A m \in DOMAIN body : Inner(d, s, body[m])
  <2> HIDE DEF s
  <2> QED
    BY <1>4
<1> HIDE DEF body, s
<1>6. "prs" \in Tables /\ "prs" \in Tables /\ "end" \in Modes /\ "each" \in Branches
  BY TableNames DEF Modes, Loops, Branches
<1>7. IndexShape(d, s) /\ OtherShape(s)
  BY <1>2 DEF Step, IndexShape, OtherShape
<1>8. s \in AnyStep(d)
  BY <1>1, <1>2, <1>5, <1>6, <1>7, LoopStep
<1>9. Light(s) /\ ~NeedsBefore(d, s) /\ ~NeedsAfter(s) /\ ~Rewrites(s)
  BY <1>2, <1>3 DEF Step, Light, TopShape, DigestDel, TokenRead, Forgets, UserDel, NeedsBefore, SessionDel,
                 PrefsRead, DigestLoop, NeedsAfter, SpaceWrite, NewMember, Rewrites
<1> QED
  BY <1>8, <1>9 DEF s, body

LEMMA EachPRTwice ==
  ASSUME NEW d, d = "mongo"
  PROVE  /\ Each("prs", "prs", "end", <<Put("prs", "end"), Put("prindex", "end")>>) \in AnyStep(d)
         /\ LET s == Each("prs", "prs", "end", <<Put("prs", "end"), Put("prindex", "end")>>) IN Light(s) /\ ~NeedsBefore(d, s) /\ ~NeedsAfter(s) /\ ~Rewrites(s)
<1> DEFINE body == <<Put("prs", "end"), Put("prindex", "end")>>
           s == Each("prs", "prs", "end", body)
<1>1. body \in Bodies2(d)
  <2>1. Put("prs", "end") \in StepsOf(d, {<<>>}) /\ ~NeedsBefore(d, Put("prs", "end")) /\ ~NeedsAfter(Put("prs", "end"))
    BY Singles, Gets DEF Calm, Modes
  <2>2. Put("prindex", "end") \in StepsOf(d, {<<>>}) /\ ~NeedsAfter(Put("prindex", "end"))
    BY Singles
  <2>3. Put("prs", "end").key = Put("prindex", "end").key /\ Gives(d, Put("prs", "end"), Put("prindex", "end"))
    BY DEF Put, Step, Gives, SessionDel, PrefsRead, DigestLoop
  <2>4. Link(d, Put("prs", "end"), Put("prindex", "end"))
    BY <2>1, <2>3 DEF Link
  <2>5. <<Put("prs", "end"), Put("prindex", "end")>> \in Programs(d, {<<>>})
    BY <2>1, <2>2, <2>4, TwoProgram
  <2> QED
    BY <2>5, BodiesGrow DEF Bodies1
<1>2. s = Step("each", "prs", "prs", "end", body)
  BY DEF Each
<1>3. body # <<>>
  OBVIOUS
<1>4. Inner(d, s, Put("prs", "end")) /\ Inner(d, s, Put("prindex", "end"))
  <2> HIDE DEF body
  <2>1. Inner(d, s, Put("prs", "end"))
    BY <1>2 DEF Put, Step, Inner, Loops, Branches, NewMember, Rewrites, SessionDel, Memory, Index
  <2>2. Inner(d, s, Put("prindex", "end"))
    BY <1>2 DEF Put, Step, Inner, Loops, Branches, NewMember, Rewrites, SessionDel, Memory, Index
  <2> QED
    BY <2>1, <2>2
<1>5. \A m \in DOMAIN body : Inner(d, s, body[m])
  <2> HIDE DEF s
  <2> QED
    BY <1>4
<1> HIDE DEF body, s
<1>6. "prs" \in Tables /\ "prs" \in Tables /\ "end" \in Modes /\ "each" \in Branches
  BY TableNames DEF Modes, Loops, Branches
<1>7. IndexShape(d, s) /\ OtherShape(s)
  BY <1>2 DEF Step, IndexShape, OtherShape
<1>8. s \in AnyStep(d)
  BY <1>1, <1>2, <1>5, <1>6, <1>7, LoopStep
<1>9. Light(s) /\ ~NeedsBefore(d, s) /\ ~NeedsAfter(s) /\ ~Rewrites(s)
  BY <1>2, <1>3 DEF Step, Light, TopShape, DigestDel, TokenRead, Forgets, UserDel, NeedsBefore, SessionDel,
                 PrefsRead, DigestLoop, NeedsAfter, SpaceWrite, NewMember, Rewrites
<1> QED
  BY <1>8, <1>9 DEF s, body

LEMMA EachSpace ==
  ASSUME NEW d, NEW f \in Modes
  PROVE  /\ Each("spaces", "spaces", f, <<>>) \in AnyStep(d)
         /\ LET s == Each("spaces", "spaces", f, <<>>) IN Light(s) /\ ~NeedsBefore(d, s) /\ ~NeedsAfter(s) /\ ~Rewrites(s)
<1> DEFINE body == <<>>
           s == Each("spaces", "spaces", f, body)
<1>1. body \in Bodies2(d)
  <2>1. <<>> \in Programs(d, {<<>>})
    BY NothingProgram
  <2> QED
    BY <2>1, BodiesGrow DEF Bodies1
<1>2. s = Step("each", "spaces", "spaces", f, body)
  BY DEF Each
<1>3. body = <<>>
  OBVIOUS
<1>5. \A m \in DOMAIN body : Inner(d, s, body[m])
  OBVIOUS
<1> HIDE DEF body, s
<1>6. "spaces" \in Tables /\ "spaces" \in Tables /\ "each" \in Branches
  BY TableNames DEF Loops, Branches
<1>7. IndexShape(d, s) /\ OtherShape(s)
  BY <1>2 DEF Step, IndexShape, OtherShape
<1>8. s \in AnyStep(d)
  BY <1>1, <1>2, <1>5, <1>6, <1>7, LoopStep
<1>9. Light(s) /\ ~NeedsBefore(d, s) /\ ~NeedsAfter(s) /\ ~Rewrites(s)
  BY <1>2, <1>3 DEF Step, Light, TopShape, DigestDel, TokenRead, Forgets, UserDel, NeedsBefore, SessionDel,
                 PrefsRead, DigestLoop, NeedsAfter, SpaceWrite, NewMember, Rewrites
<1> QED
  BY <1>8, <1>9 DEF s, body

LEMMA OwnStack ==
  ASSUME NEW d, NEW f \in Modes
  PROVE  /\ EachOwn("stacks", "on", <<Put("stacks", f)>>) \in AnyStep(d)
         /\ LET s == EachOwn("stacks", "on", <<Put("stacks", f)>>) IN Light(s) /\ ~NeedsBefore(d, s) /\ ~NeedsAfter(s) /\ ~Rewrites(s)
<1> DEFINE body == <<Put("stacks", f)>>
           s == EachOwn("stacks", "on", body)
<1>1. body \in Bodies2(d)
  <2>1. Calm(d, Put("stacks", f))
    BY Puts
  <2>2. Put("stacks", f) \in StepsOf(d, {<<>>}) /\ ~NeedsBefore(d, Put("stacks", f)) /\ ~NeedsAfter(Put("stacks", f))
    BY <2>1 DEF Calm
  <2>3. <<Put("stacks", f)>> \in Programs(d, {<<>>})
    BY <2>2, OneProgram
  <2> QED
    BY <2>3, BodiesGrow DEF Bodies1
<1>2. s = Step("own", "stacks", "stacks", "on", body)
  BY DEF EachOwn
<1>3. body # <<>>
  OBVIOUS
<1>4. Inner(d, s, Put("stacks", f))
  <2> HIDE DEF body
  <2>1. Inner(d, s, Put("stacks", f))
    BY <1>2 DEF Put, Step, Inner, Loops, Branches, NewMember, Rewrites, SessionDel, Memory, Index
  <2> QED
    BY <2>1
<1>5. \A m \in DOMAIN body : Inner(d, s, body[m])
  <2> HIDE DEF s
  <2> QED
    BY <1>4
<1> HIDE DEF body, s
<1>6. "stacks" \in Tables /\ "stacks" \in Tables /\ "on" \in Modes /\ "own" \in Branches
  BY TableNames DEF Modes, Loops, Branches
<1>7. IndexShape(d, s) /\ OtherShape(s)
  BY <1>2 DEF Step, IndexShape, OtherShape
<1>8. s \in AnyStep(d)
  BY <1>1, <1>2, <1>5, <1>6, <1>7, LoopStep
<1>9. Light(s) /\ ~NeedsBefore(d, s) /\ ~NeedsAfter(s) /\ ~Rewrites(s)
  BY <1>2, <1>3 DEF Step, Light, TopShape, DigestDel, TokenRead, Forgets, UserDel, NeedsBefore, SessionDel,
                 PrefsRead, DigestLoop, NeedsAfter, SpaceWrite, NewMember, Rewrites
<1> QED
  BY <1>8, <1>9 DEF s, body

LEMMA OwnStackOnly ==
  ASSUME NEW d
  PROVE  /\ EachOwn("stacks", "on", <<>>) \in AnyStep(d)
         /\ LET s == EachOwn("stacks", "on", <<>>) IN Light(s) /\ ~NeedsBefore(d, s) /\ ~NeedsAfter(s) /\ ~Rewrites(s)
<1> DEFINE body == <<>>
           s == EachOwn("stacks", "on", body)
<1>1. body \in Bodies2(d)
  <2>1. <<>> \in Programs(d, {<<>>})
    BY NothingProgram
  <2> QED
    BY <2>1, BodiesGrow DEF Bodies1
<1>2. s = Step("own", "stacks", "stacks", "on", body)
  BY DEF EachOwn
<1>3. body = <<>>
  OBVIOUS
<1>5. \A m \in DOMAIN body : Inner(d, s, body[m])
  OBVIOUS
<1> HIDE DEF body, s
<1>6. "stacks" \in Tables /\ "stacks" \in Tables /\ "on" \in Modes /\ "own" \in Branches
  BY TableNames DEF Modes, Loops, Branches
<1>7. IndexShape(d, s) /\ OtherShape(s)
  BY <1>2 DEF Step, IndexShape, OtherShape
<1>8. s \in AnyStep(d)
  BY <1>1, <1>2, <1>5, <1>6, <1>7, LoopStep
<1>9. Light(s) /\ ~NeedsBefore(d, s) /\ ~NeedsAfter(s) /\ ~Rewrites(s)
  BY <1>2, <1>3 DEF Step, Light, TopShape, DigestDel, TokenRead, Forgets, UserDel, NeedsBefore, SessionDel,
                 PrefsRead, DigestLoop, NeedsAfter, SpaceWrite, NewMember, Rewrites
<1> QED
  BY <1>8, <1>9 DEF s, body

LEMMA UnlessIndexed ==
  ASSUME NEW d
  PROVE  /\ Unless("prindex", <<Get("prs", "end"), Put("prindex", "on")>>) \in AnyStep(d)
         /\ LET s == Unless("prindex", <<Get("prs", "end"), Put("prindex", "on")>>) IN Light(s) /\ ~NeedsBefore(d, s) /\ ~NeedsAfter(s) /\ ~Rewrites(s)
<1> DEFINE body == <<Get("prs", "end"), Put("prindex", "on")>>
           s == Unless("prindex", body)
<1>1. body \in Bodies2(d)
  <2>1. Get("prs", "end") \in StepsOf(d, {<<>>}) /\ ~NeedsBefore(d, Get("prs", "end")) /\ ~NeedsAfter(Get("prs", "end"))
    BY Singles, Gets DEF Calm, Modes
  <2>2. Put("prindex", "on") \in StepsOf(d, {<<>>}) /\ ~NeedsAfter(Put("prindex", "on"))
    BY Singles
  <2>3. Get("prs", "end").key = Put("prindex", "on").key /\ Gives(d, Get("prs", "end"), Put("prindex", "on"))
    BY DEF Get, Put, Step, Gives, SessionDel, PrefsRead, DigestLoop
  <2>4. Link(d, Get("prs", "end"), Put("prindex", "on"))
    BY <2>1, <2>3 DEF Link
  <2>5. <<Get("prs", "end"), Put("prindex", "on")>> \in Programs(d, {<<>>})
    BY <2>1, <2>2, <2>4, TwoProgram
  <2> QED
    BY <2>5, BodiesGrow DEF Bodies1
<1>2. s = Step("unless", "prindex", "prindex", "on", body)
  BY DEF Unless
<1>3. body # <<>>
  OBVIOUS
<1>4. Inner(d, s, Get("prs", "end")) /\ Inner(d, s, Put("prindex", "on"))
  <2> HIDE DEF body
  <2>1. Inner(d, s, Get("prs", "end"))
    BY <1>2 DEF Get, Step, Inner, Loops, Branches, NewMember, Rewrites, SessionDel, Memory, Index
  <2>2. Inner(d, s, Put("prindex", "on"))
    BY <1>2 DEF Put, Step, Inner, Loops, Branches, NewMember, Rewrites, SessionDel, Memory, Index
  <2> QED
    BY <2>1, <2>2
<1>5. \A m \in DOMAIN body : Inner(d, s, body[m])
  <2> HIDE DEF s
  <2> QED
    BY <1>4
<1> HIDE DEF body, s
<1>6. "prindex" \in Tables /\ "prindex" \in Tables /\ "on" \in Modes /\ "unless" \in Branches
  BY TableNames DEF Modes, Loops, Branches
<1>7. IndexShape(d, s) /\ OtherShape(s)
  BY <1>2 DEF Step, IndexShape, OtherShape
<1>8. s \in AnyStep(d)
  BY <1>1, <1>2, <1>5, <1>6, <1>7, LoopStep
<1>9. Light(s) /\ ~NeedsBefore(d, s) /\ ~NeedsAfter(s) /\ ~Rewrites(s)
  BY <1>2, <1>3 DEF Step, Light, TopShape, DigestDel, TokenRead, Forgets, UserDel, NeedsBefore, SessionDel,
                 PrefsRead, DigestLoop, NeedsAfter, SpaceWrite, NewMember, Rewrites
<1> QED
  BY <1>8, <1>9 DEF s, body

LEMMA SessionLoop ==
  ASSUME NEW d \in Drivers, NEW op \in {"each", "idlers"}, NEW f \in Modes, NEW g \in Modes,
         NEW via, via = UserIndex(d) \/ (op = "idlers" /\ via = "sessions"),
         NEW body, body = DeleteSession(d, g), NEW s, s = Step(op, "sessions", via, f, body)
  PROVE  s \in AnyStep(d) /\ Light(s) /\ ~NeedsBefore(d, s) /\ ~NeedsAfter(s) /\ ~Rewrites(s)
<1> DEFINE p == Get("sessions", g)
           q == Del("byuser", "on")
           r == Del("sessions", g)
<1>0. d \in {"bbolt", "mongo"}
  BY DEF Drivers
<1>1. body = IF d = "mongo" THEN <<r>> ELSE <<p, q, r>>
  BY DEF DeleteSession, By, BboltDeleteSession, MongoDeleteSession
<1>2. body \in Bodies2(d)
  <2>1. body \in Programs(d, {<<>>})
    BY <1>0, SessionBody DEF DeleteSession, By
  <2> QED
    BY <2>1, BodiesGrow DEF Bodies1
<1>3. via \in {"sessions", "byuser"} /\ (d = "bbolt" => via = "byuser" \/ op = "idlers")
  BY <1>0 DEF UserIndex, By
<1>4. Inner(d, s, p)
  BY DEF Get, Step, Inner, Loops, Branches, NewMember, Rewrites, SessionDel, Memory, Index
<1>5. Inner(d, s, q)
  BY DEF Del, Step, Inner, Loops, Branches, NewMember, Rewrites, SessionDel, Memory, Index
<1>6. Inner(d, s, r)
  BY <1>3 DEF Del, Step, Inner, Loops, Branches, NewMember, Rewrites, SessionDel, Memory, Index
<1> HIDE DEF p, q, r
<1>7. \A m \in DOMAIN body : Inner(d, s, body[m])
  <2>1. CASE d = "mongo"
    BY <1>1, <1>6, <2>1
  <2>2. CASE d # "mongo"
    BY <1>1, <1>4, <1>5, <1>6, <2>2
  <2> QED
    BY <2>1, <2>2
<1>8. "sessions" \in Tables /\ via \in Tables
  BY <1>3, TableNames
<1>9. IndexShape(d, s) /\ OtherShape(s)
  BY DEF Step, IndexShape, OtherShape
<1>10. op \in Branches
  BY DEF Loops, Branches
<1>11. s \in AnyStep(d)
  BY <1>2, <1>7, <1>8, <1>9, <1>10, LoopStep
<1>12. Light(s) /\ ~NeedsBefore(d, s) /\ ~NeedsAfter(s) /\ ~Rewrites(s)
  BY DEF Step, Light, TopShape, DigestDel, TokenRead, Forgets, UserDel, NeedsBefore, SessionDel,
                 PrefsRead, DigestLoop, NeedsAfter, SpaceWrite, NewMember, Rewrites
<1> QED
  BY <1>11, <1>12

LEMMA SpaceProgram ==
  ASSUME NEW d, NEW f \in Modes
  PROVE  LET x == <<Each("spaces", "spaces", f, <<>>), Fill("spacecache", "spaces")>> IN
         x \in Programs(d, {<<>>}) /\ ListTeamSpaces(f, <<>>) \o <<Fill("spacecache", "spaces")>> = x
<1> DEFINE p == Each("spaces", "spaces", f, <<>>)
           s == Fill("spacecache", "spaces")
<1>1. s \in StepsOf(d, {<<>>}) /\ ~NeedsBefore(d, s) /\ ~NeedsAfter(s)
  BY Singles
<1>2. ~NeedsBefore(d, p) /\ ~NeedsAfter(p)
  BY EachSpace
<1>3. p \in StepsOf(d, {<<>>})
  <2>1. p \in AnyStep(d) /\ p.body = <<>>
    BY EachSpace DEF Each, Step
  <2> QED
    BY <2>1 DEF AnyStep, StepsOf, Raw
<1>4. p.key = s.key
  BY DEF Each, Fill, Step
<1>5. ListTeamSpaces(f, <<>>) = <<p>>
  BY DEF ListTeamSpaces
<1> HIDE DEF p, s
<1>6. Link(d, p, s)
  BY <1>1, <1>2, <1>4 DEF Link
<1>7. <<p, s>> \in Programs(d, {<<>>})
  BY <1>1, <1>2, <1>3, <1>6, TwoProgram
<1>8. <<p>> \o <<s>> = <<p, s>>
  BY Join11
<1> QED
  BY <1>5, <1>7, <1>8 DEF p, s

LEMMA UnlessCached ==
  ASSUME NEW d, NEW f \in Modes
  PROVE  \E s \in StepsOf(d, Bodies1(d)) :
           /\ getSpaceForPR(f) = <<s>> /\ Light(s) /\ ~NeedsBefore(d, s) /\ ~NeedsAfter(s) /\ ~Rewrites(s)
           /\ s.op = "unless" /\ s.t = "spacecache"
<1> DEFINE p == Each("spaces", "spaces", f, <<>>)
           q == Fill("spacecache", "spaces")
           body == <<p, q>>
           s == Unless("spacecache", body)
<1>1. getSpaceForPR(f) = <<s>>
  BY SpaceProgram DEF getSpaceForPR
<1>2. body \in Programs(d, {<<>>})
  BY SpaceProgram
<1>3. body \in Bodies1(d) /\ body \in Bodies2(d)
  BY <1>2, BodiesGrow DEF Bodies1
<1> HIDE DEF body
<1>4. s = Step("unless", "spacecache", "spacecache", "on", body)
  BY DEF Unless
<1> HIDE DEF s
<1>5. Inner(d, s, p)
  BY <1>4 DEF Each, Step, Inner, Loops, Branches, NewMember, Rewrites, SessionDel, Memory, Index
<1>6. Inner(d, s, q)
  BY <1>4 DEF Fill, Step, Inner, Loops, Branches, NewMember, Rewrites, SessionDel, Memory, Index
<1> HIDE DEF p, q
<1>7. \A m \in DOMAIN body : Inner(d, s, body[m])
  BY <1>5, <1>6 DEF body
<1>8. "spacecache" \in Tables /\ "on" \in Modes /\ "unless" \in Branches
  BY TableNames DEF Modes, Branches
<1>9. IndexShape(d, s) /\ OtherShape(s)
  BY <1>4 DEF Step, IndexShape, OtherShape
<1>10. s \in AnyStep(d)
  BY <1>3, <1>4, <1>7, <1>8, <1>9, LoopStep
<1>11. s.body = body
  BY <1>4 DEF Step
<1>12. s \in StepsOf(d, Bodies1(d))
  BY <1>3, <1>10, <1>11 DEF AnyStep, StepsOf, Raw
<1>13. Light(s) /\ ~NeedsBefore(d, s) /\ ~NeedsAfter(s) /\ ~Rewrites(s) /\ s.op = "unless" /\ s.t = "spacecache"
  BY <1>4 DEF Step, Light, TopShape, DigestDel, TokenRead, Forgets, UserDel, NeedsBefore, SessionDel,
                 PrefsRead, DigestLoop, NeedsAfter, SpaceWrite, NewMember, Rewrites
<1> QED
  BY <1>1, <1>12, <1>13

LEMMA ListedLoops ==
  ASSUME NEW d \in Drivers
  PROVE  /\ GetPRDependentsByPR(d, <<>>) \in Easy(d)
         /\ d = "mongo" => <<Each("sessions", "sessions", "end", <<>>)>> \in Easy(d)
<1> DEFINE via == IF d = "mongo" THEN "deps" ELSE "dependents"
           e(t, v) == Each(t, v, "end", <<>>)
<1>1. \A t, v : e(t, v) = Step("each", t, v, "end", <<>>)
  BY DEF Each
<1>2. <<>> \in Bodies2(d)
  <2>1. <<>> \in Programs(d, {<<>>})
    BY NothingProgram
  <2> QED
    BY <2>1, BodiesGrow DEF Bodies1
<1>3. "end" \in Modes /\ "each" \in Branches
  BY DEF Modes, Loops, Branches
<1> HIDE DEF e
<1>4. e("deps", via) \in AnyStep(d)
  <2>1. IndexShape(d, e("deps", via)) /\ OtherShape(e("deps", via))
    BY <1>1 DEF Step, IndexShape, OtherShape
  <2>2. "deps" \in Tables /\ via \in Tables
    BY TableNames
  <2> HIDE DEF via
  <2> QED
    BY <1>1, <1>2, <1>3, <2>1, <2>2, LoopStep
<1>5. ASSUME d = "mongo" PROVE e("sessions", "sessions") \in AnyStep(d)
  <2>1. IndexShape(d, e("sessions", "sessions")) /\ OtherShape(e("sessions", "sessions"))
    BY <1>1 DEF Step, IndexShape, OtherShape
  <2>2. "sessions" \in Tables
    BY TableNames
  <2> QED
    BY <1>1, <1>2, <1>3, <2>1, <2>2, LoopStep
<1>6. \A t \in {"deps", "sessions"}, v \in {"deps", "dependents", "sessions"} :
        Light(e(t, v)) /\ ~NeedsBefore(d, e(t, v)) /\ ~NeedsAfter(e(t, v)) /\ ~Rewrites(e(t, v))
  BY <1>1 DEF Step, Light, TopShape, DigestDel, TokenRead, Forgets, UserDel, NeedsBefore, SessionDel,
                 PrefsRead, DigestLoop, NeedsAfter, SpaceWrite, NewMember, Rewrites
<1>7. <<e("deps", via)>> \in Easy(d)
  BY <1>4, <1>6, OneEasy
<1>8. d = "mongo" => <<e("sessions", "sessions")>> \in Easy(d)
  BY <1>5, <1>6, OneEasy
<1> QED
  BY <1>7, <1>8 DEF GetPRDependentsByPR, By, e, via

LEMMA EachDependent ==
  ASSUME NEW d \in Drivers
  PROVE  <<EachAgain("deps", findPRByGlobalID \o getSpaceForPR("next") \o <<Blank("cross", "on")>>)>> \in Easy(d)
<1> DEFINE p == Get("prs", "next")
           r == Blank("cross", "on")
<1>1. PICK q \in StepsOf(d, Bodies1(d)) :
           /\ getSpaceForPR("next") = <<q>> /\ Light(q) /\ ~NeedsBefore(d, q) /\ ~NeedsAfter(q) /\ ~Rewrites(q)
           /\ q.op = "unless" /\ q.t = "spacecache"
  BY UnlessCached DEF Modes
<1>2. Calm(d, p) /\ Calm(d, r)
  BY Gets, Blanks DEF Modes
<1>3. p \in StepsOf(d, Bodies1(d)) /\ r \in StepsOf(d, Bodies1(d))
  BY <1>2, FlatAny DEF Calm
<1> DEFINE body == <<p, q, r>>
           e == EachAgain("deps", body)
<1>4. findPRByGlobalID \o getSpaceForPR("next") \o <<r>> = body
  <2>1. <<p>> \o <<q>> = <<p, q>> /\ <<p, q>> \o <<r>> = <<p, q, r>>
    BY Join11, Join21
  <2>2. findPRByGlobalID \o getSpaceForPR("next") \o <<r>> = (<<p>> \o <<q>>) \o <<r>>
    BY <1>1 DEF findPRByGlobalID
  <2> QED
    BY <2>1, <2>2
<1>5. <<p, q, r>> \in Programs(d, Bodies1(d))
  <2> HIDE DEF p, r
  <2>1. p.key = 0 /\ q.key = 0 /\ r.key = 0
    BY <1>1, <1>2 DEF Calm, Light, TopShape
  <2>2. Link(d, p, q) /\ Link(d, q, r)
    BY <1>1, <1>2, <2>1 DEF Calm, Link
  <2> QED
    BY <1>1, <1>2, <1>3, <2>2, ThreeProgram DEF Calm
<1>6. body \in Bodies2(d)
  BY <1>5 DEF Bodies2
<1> HIDE DEF body
<1>7. e = Step("again", "deps", "deps", "on", body)
  BY DEF EachAgain
<1> HIDE DEF e
<1>8. Inner(d, e, p)
  BY <1>7 DEF Get, Step, Inner, Loops, Branches, NewMember, Rewrites, SessionDel, Memory, Index
<1>9. Inner(d, e, r)
  BY <1>7 DEF Blank, Step, Inner, Loops, Branches, NewMember, Rewrites, SessionDel, Memory, Index
<1>10. Inner(d, e, q)
  <2>1. e.op = "again"
    BY <1>7 DEF Step
  <2> QED
    BY <1>1, <2>1 DEF Inner, Loops, NewMember, Rewrites, SessionDel, Light, TopShape
<1> HIDE DEF p, r
<1>11. \A m \in DOMAIN body : Inner(d, e, body[m])
  BY <1>8, <1>9, <1>10 DEF body
<1>12. "deps" \in Tables /\ "on" \in Modes /\ "again" \in Branches
  BY TableNames DEF Modes, Loops, Branches
<1>13. IndexShape(d, e) /\ OtherShape(e)
  BY <1>7 DEF Step, IndexShape, OtherShape
<1>14. e \in AnyStep(d)
  BY <1>6, <1>7, <1>11, <1>12, <1>13, LoopStep
<1>15. Light(e) /\ ~NeedsBefore(d, e) /\ ~NeedsAfter(e) /\ ~Rewrites(e)
  BY <1>7 DEF Step, Light, TopShape, DigestDel, TokenRead, Forgets, UserDel, NeedsBefore, SessionDel,
                 PrefsRead, DigestLoop, NeedsAfter, SpaceWrite, NewMember, Rewrites
<1>16. <<e>> \in Easy(d)
  BY <1>14, <1>15, OneEasy
<1> QED
  BY <1>4, <1>16 DEF e, r

-----------------------------------------------------------------------------
\* Handlers

\* Parts of handlers
LEMMA ReadPart ==
  ASSUME NEW d
  PROVE  /\ GetUser \in Easy(d) /\ GetSession \in Easy(d) /\ GetAPIKey \in Easy(d) /\ GetOIDCLink \in Easy(d)
         /\ <<Get("ceremonies", "end")>> \in Easy(d) /\ <<Get("passkeys", "end")>> \in Easy(d)
         /\ <<Get("prints", "end")>> \in Easy(d)
<1>1. \A t \in {"users", "sessions", "keys", "oidclinks", "ceremonies", "passkeys", "prints"} : <<Get(t, "end")>> \in Easy(d)
  <2>1. \A t \in {"users", "sessions", "keys", "oidclinks", "ceremonies", "passkeys", "prints"} :
          Calm(d, Get(t, "end")) /\ ~Rewrites(Get(t, "end"))
    BY Gets DEF Modes
  <2> QED
    BY <2>1, CalmEasy
<1> QED
  BY <1>1 DEF GetUser, GetSession, GetAPIKey, GetOIDCLink

LEMMA ReadWritePart ==
  ASSUME NEW d, NEW t \in {"users", "sessions", "keys", "cross", "stacks", "load"}, NEW f \in Modes, NEW g \in Modes
  PROVE  <<Get(t, f), Put(t, g)>> \in Easy(d)
<1>1. Calm(d, Get(t, f)) /\ ~Rewrites(Get(t, f))
  BY Gets
<1>2. Calm(d, Put(t, g))
  BY Puts
<1>3. Get(t, f).op = "get" /\ Get(t, f).t = Put(t, g).t
  BY DEF Get, Put, Step
<1> QED
  BY <1>1, <1>2, <1>3, FlatAny, TwoEasy DEF Calm

LEMMA NewPart ==
  ASSUME NEW d, NEW t, NEW f, <<t, f>> \in {<<"sessions", "end">>, <<"tokens", "end">>, <<"keys", "end">>,
           <<"ceremonies", "end">>, <<"passkeys", "end">>, <<"states", "on">>, <<"prints", "on">>, <<"stacks", "end">>,
           <<"deployments", "on">>, <<"digests", "on">>, <<"logs", "end">>}
  PROVE  <<FreshKey, New(t, f)>> \in Easy(d)
<1>1. /\ FreshKey \in StepsOf(d, {<<>>}) /\ Light(FreshKey) /\ ~NeedsBefore(d, FreshKey) /\ ~NeedsAfter(FreshKey)
      /\ ~Rewrites(FreshKey)
  BY Singles
<1>2. New(t, f) \in StepsOf(d, {<<>>}) /\ Light(New(t, f)) /\ ~NeedsAfter(New(t, f)) /\ ~Rewrites(New(t, f))
  BY Singles
<1>3. Gives(d, FreshKey, New(t, f))
  BY DEF FreshKey, New, Step, Gives, SessionDel, PrefsRead, DigestLoop
<1> QED
  BY <1>1, <1>2, <1>3, FlatAny, TwoEasy

LEMMA StartSessionPart ==
  ASSUME NEW d \in Drivers
  PROVE  StartSession(d) \in Easy(d)
<1> DEFINE p == FreshKey
           q == New("sessions", "end")
           s == New("byuser", "end")
<1>1. CASE d = "mongo"
  <2>1. StartSession(d) = <<p>> \o <<q>>
    BY <1>1 DEF StartSession, GenerateSessionID, PutSession, By, MongoPutSession
  <2>2. <<p>> \o <<q>> = <<p, q>>
    BY Join11
  <2>3. <<p, q>> \in Easy(d)
    BY NewPart
  <2> QED
    BY <2>1, <2>2, <2>3
<1>2. CASE d = "bbolt"
  <2>1. StartSession(d) = <<p>> \o <<q, s>>
    BY <1>2 DEF StartSession, GenerateSessionID, PutSession, By, BboltPutSession
  <2>2. <<p>> \o <<q, s>> = <<p, q, s>>
    BY Join12
  <2>3. p \in StepsOf(d, {<<>>}) /\ Light(p) /\ ~NeedsBefore(d, p) /\ ~NeedsAfter(p) /\ ~Rewrites(p)
    BY Singles
  <2>4. q \in StepsOf(d, {<<>>}) /\ Light(q) /\ ~NeedsAfter(q) /\ ~Rewrites(q)
    BY Singles
  <2>5. s \in StepsOf(d, {<<>>}) /\ Light(s) /\ ~NeedsAfter(s) /\ ~Rewrites(s)
    BY <1>2, Singles
  <2>6. Gives(d, p, q) /\ Gives(d, q, s)
    BY DEF FreshKey, New, Step, Gives, SessionDel, PrefsRead, DigestLoop
  <2> HIDE DEF p, q, s
  <2>7. <<p, q, s>> \in Easy(d)
    BY <2>3, <2>4, <2>5, <2>6, FlatAny, ThreeEasy
  <2> QED
    BY <2>1, <2>2, <2>7
<1> QED
  BY <1>1, <1>2 DEF Drivers

LEMMA DeleteSessionPart ==
  ASSUME NEW d \in Drivers, NEW f \in Modes
  PROVE  DeleteSession(d, f) \in Easy(d)
<1> DEFINE p == Get("sessions", f)
           q == Del("byuser", "on")
           s == Del("sessions", f)
<1>0. f \in {"end", "on", "next", "out"}
  BY DEF Modes
<1>1. Calm(d, p) /\ ~Rewrites(p)
  BY Gets
<1>2. s \in StepsOf(d, {<<>>}) /\ Light(s) /\ ~NeedsAfter(s) /\ ~Rewrites(s) /\ (d = "mongo" => ~NeedsBefore(d, s))
  BY <1>0, Singles
<1>3. CASE d = "mongo"
  <2>1. <<s>> \in Easy(d)
    BY <1>2, <1>3, FlatAny, OneEasy
  <2> QED
    BY <1>3, <2>1 DEF DeleteSession, By, MongoDeleteSession
<1>4. CASE d = "bbolt"
  <2>1. q \in StepsOf(d, {<<>>}) /\ Light(q) /\ ~NeedsBefore(d, q) /\ ~NeedsAfter(q) /\ ~Rewrites(q)
    BY <1>4, Singles
  <2>2. Gives(d, q, s)
    BY DEF Del, Step, Gives, SessionDel, PrefsRead, DigestLoop
  <2> HIDE DEF p, q, s
  <2>3. <<p, q, s>> \in Easy(d)
    BY <1>1, <1>2, <2>1, <2>2, FlatAny, ThreeEasy DEF Calm
  <2> QED
    BY <1>4, <2>3 DEF DeleteSession, By, BboltDeleteSession, p, q, s
<1> QED
  BY <1>3, <1>4 DEF Drivers

\* Loops that delete the sessions of a user, or idle ones
LEMMA DeleteSessionsPart ==
  ASSUME NEW d \in Drivers
  PROVE  /\ \E s \in AnyStep(d) : /\ DeleteUserSessions(d) = <<s>> /\ SessionDels(d, s)
                                  /\ Light(s) /\ ~NeedsBefore(d, s) /\ ~NeedsAfter(s) /\ ~Rewrites(s)
                                  /\ Cascading(s) /\ s.op # "get"
         /\ DeleteInactiveSessions(d) \in Easy(d)
<1> DEFINE p == Purge("sessions", "on")
           q == PurgeIdle("sessions", "on")
<1>1. CASE d = "mongo"
  <2>1. p \in StepsOf(d, {<<>>}) /\ Light(p) /\ ~NeedsBefore(d, p) /\ ~NeedsAfter(p) /\ ~Rewrites(p)
    BY <1>1, Singles
  <2>2. q \in StepsOf(d, {<<>>}) /\ Light(q) /\ ~NeedsBefore(d, q) /\ ~NeedsAfter(q) /\ ~Rewrites(q)
    BY <1>1, Singles
  <2>3. SessionDels(d, p) /\ Cascading(p) /\ p.op # "get"
    BY <1>1 DEF SessionDels, Cascading, CascadeStep, Purge, Step
  <2> HIDE DEF p, q
  <2>4. <<q>> \in Easy(d)
    BY <2>2, FlatAny, OneEasy
  <2>5. DeleteUserSessions(d) = <<p>> /\ DeleteInactiveSessions(d) = <<q>>
    BY <1>1 DEF DeleteUserSessions, DeleteInactiveSessions, By, MongoDeleteUserSessions, MongoDeleteInactiveSessions, p, q
  <2> QED
    BY <2>1, <2>3, <2>4, <2>5, FlatAny
<1>2. CASE d = "bbolt"
  <2> DEFINE body == BboltDeleteSession("out")
             x == Each("sessions", "byuser", "on", body)
             y == EachIdle("sessions", body)
  <2>1. body = DeleteSession(d, "out") /\ UserIndex(d) = "byuser" /\ "on" \in Modes /\ "end" \in Modes /\ "out" \in Modes
    BY <1>2 DEF DeleteSession, By, UserIndex, Modes
  <2>2. x = Step("each", "sessions", "byuser", "on", body) /\ y = Step("idlers", "sessions", "sessions", "end", body)
    BY DEF Each, EachIdle
  <2>3. \A m \in DOMAIN body : body[m].op \in {"del", "get"}
    BY DEF BboltDeleteSession, Get, Del, Step
  <2>a. \A m \in DOMAIN body : CascadeStep(body[m])
    BY DEF BboltDeleteSession, Get, Del, Step, CascadeStep
  <2>4. SessionDels(d, x) /\ Cascading(x) /\ x.op # "get"
    <3> HIDE DEF body
    <3>a. x.op = "each" /\ x.t = "sessions" /\ x.failed = "on" /\ x.body = body
      BY <2>2 DEF Step
    <3>1. Cascading(x) /\ x.op # "get"
      BY <2>3, <2>a, <3>a DEF Cascading, CascadeStep
    <3>2. x.op = "each" /\ x.t = "sessions" /\ x.via = "byuser" /\ x.body = body
      BY <2>2 DEF Step
    <3> QED
      BY <1>2, <3>1, <3>2 DEF SessionDels, body
  <2> HIDE DEF body, x, y
  <2>5. x \in AnyStep(d) /\ Light(x) /\ ~NeedsBefore(d, x) /\ ~NeedsAfter(x) /\ ~Rewrites(x)
    BY <2>1, <2>2, SessionLoop
  <2>6. y \in AnyStep(d) /\ Light(y) /\ ~NeedsBefore(d, y) /\ ~NeedsAfter(y) /\ ~Rewrites(y)
    BY <2>1, <2>2, SessionLoop
  <2>7. <<y>> \in Easy(d)
    BY <2>6, OneEasy
  <2>8. DeleteUserSessions(d) = <<x>> /\ DeleteInactiveSessions(d) = <<y>>
    BY <1>2 DEF DeleteUserSessions, DeleteInactiveSessions, By, BboltDeleteUserSessions, BboltDeleteInactiveSessions, x, y, body
  <2> QED
    BY <2>4, <2>5, <2>7, <2>8
<1> QED
  BY <1>1, <1>2 DEF Drivers

LEMMA UserWritten ==
  ASSUME NEW d
  PROVE  GetUser \o PutUser \in Easy(d) /\ consumeBackupCode \in Easy(d)
<1> DEFINE p == Get("users", "end")
           s(f) == Put("users", f)
<1>1. \A f \in {"end", "on"} : <<p, s(f)>> \in Easy(d)
  BY ReadWritePart DEF Modes
<1>2. GetUser = <<p>> /\ PutUser = <<s("end")>> /\ consumeBackupCode = GetUser \o <<s("on")>>
  BY DEF GetUser, PutUser, consumeBackupCode
<1> HIDE DEF p, s
<1>3. \A f \in {"end", "on"} : <<p>> \o <<s(f)>> = <<p, s(f)>>
  BY Join11
<1> QED
  BY <1>1, <1>2, <1>3

LEMMA SessionUsed ==
  ASSUME NEW d \in Drivers
  PROVE  UpdateSessionActivity(d) \in Easy(d)
<1>1. <<Get("sessions", "end"), Put("sessions", "on")>> \in Easy(d)
  BY ReadWritePart DEF Modes
<1>2. <<Touch("sessions", "on")>> \in Easy(d)
  <2>1. Touch("sessions", "on") \in StepsOf(d, {<<>>}) /\ Light(Touch("sessions", "on"))
        /\ ~NeedsBefore(d, Touch("sessions", "on")) /\ ~NeedsAfter(Touch("sessions", "on")) /\ ~Rewrites(Touch("sessions", "on"))
    BY Singles
  <2> QED
    BY <2>1, FlatAny, OneEasy
<1> QED
  BY <1>1, <1>2 DEF UpdateSessionActivity, By, BboltUpdateSessionActivity, MongoUpdateSessionActivity

LEMMA SessionLoops ==
  ASSUME NEW d \in Drivers
  PROVE  RevokeOtherSessions(d) \in Easy(d) /\ RevokeAllSessions(d) \in Easy(d)
<1> DEFINE body == DeleteSession(d, "next")
           y == Each("sessions", UserIndex(d), "end", body)
<1>1. "next" \in Modes /\ "end" \in Modes
  BY DEF Modes
<1>2. y = Step("each", "sessions", UserIndex(d), "end", body)
  BY DEF Each
<1> HIDE DEF body, y
<1>3. y \in AnyStep(d) /\ Light(y) /\ ~NeedsBefore(d, y) /\ ~NeedsAfter(y) /\ ~Rewrites(y)
  BY <1>1, <1>2, SessionLoop DEF body
<1>4. <<y>> \in Easy(d)
  BY <1>3, OneEasy
<1>5. ListUserSessions(d, body) = IF d = "mongo" THEN <<Each("sessions", "sessions", "end", <<>>)>> ELSE <<y>>
  BY DEF ListUserSessions, By, BboltListUserSessions, MongoListUserSessions, UserIndex, y
<1>6. ListUserSessions(d, body) \in Easy(d)
  BY <1>4, <1>5, ListedLoops
<1> QED
  BY <1>6 DEF RevokeOtherSessions, RevokeAllSessions, body

LEMMA ReadSessionPart ==
  ASSUME NEW d \in Drivers
  PROVE  DeleteReadSession(d, "on") \in Easy(d)
<1>1. <<>> \in Easy(d)
  <2>1. <<>> \in Programs(d, Bodies2(d))
    BY NothingProgram
  <2>2. DOMAIN <<>> = {}
    OBVIOUS
  <2> QED
    BY <2>1, <2>2 DEF Easy, Covered
<1>2. DeleteSession(d, "on") \in Easy(d)
  BY DeleteSessionPart DEF Modes
<1> QED
  BY <1>1, <1>2 DEF DeleteReadSession, DeleteSession, By

LEMMA UserMade ==
  ASSUME NEW d, NEW f \in {"on", "end"}
  PROVE  <<Vacant("users"), Blank("users", f)>> \in Easy(d)
<1> DEFINE p == Vacant("users")
           s == Blank("users", f)
<1>1. p \in StepsOf(d, {<<>>}) /\ Light(p) /\ ~NeedsBefore(d, p) /\ ~NeedsAfter(p) /\ ~Rewrites(p)
  BY Singles
<1>2. Calm(d, s) /\ ~Rewrites(s)
  BY Blanks DEF Modes
<1> HIDE DEF p, s
<1> QED
  BY <1>1, <1>2, FlatAny, TwoEasy DEF Calm, p, s

LEMMA SessionHandlers ==
  ASSUME NEW d \in Drivers, NEW h \in SessionOps(d), h # ResetPassword(d)
  PROVE  h \in Easy(d)
<1>1. GetUser \in Easy(d) /\ GetSession \in Easy(d)
  BY ReadPart
<1>2. StartSession(d) \in Easy(d)
  BY StartSessionPart
<1>3. DeleteSession(d, "on") \in Easy(d) /\ DeleteSession(d, "end") \in Easy(d)
  BY DeleteSessionPart DEF Modes
<1>4. GetUser \o PutUser \in Easy(d) /\ consumeBackupCode \in Easy(d)
  BY UserWritten
<1>5. UpdateSessionActivity(d) \in Easy(d)
  BY SessionUsed
<1>6. DeleteReadSession(d, "on") \in Easy(d)
  BY ReadSessionPart
<1>7. \A x, y \in Easy(d) : x \o y \in Easy(d)
  BY EasyJoin
<1>8. Login(d) \in Easy(d)
  BY <1>1, <1>2, <1>7 DEF Login
<1>10. GetUser \o GetSession \in Easy(d)
  BY <1>1, <1>7
<1>11. LoginExpired(d) \in Easy(d)
  BY <1>6, <1>7, <1>10 DEF LoginExpired
<1>12. LoginSecond(d) \in Easy(d)
  BY <1>2, <1>7, <1>11 DEF LoginSecond, LoginExpired
<1>13. LoginBackup(d) \in Easy(d)
  <2>1. GetUser \o GetSession \o consumeBackupCode \in Easy(d)
    BY <1>4, <1>7, <1>10
  <2>2. GetUser \o GetSession \o consumeBackupCode \o DeleteReadSession(d, "on") \in Easy(d)
    BY <1>6, <1>7, <2>1
  <2> QED
    BY <1>2, <1>7, <2>2 DEF LoginBackup
<1>14. Logout(d) \in Easy(d) /\ RevokeSession(d) \in Easy(d) /\ ExpiredRequest(d) \in Easy(d)
  BY <1>1, <1>3, <1>7 DEF Logout, RevokeSession, ExpiredRequest
<1>15. SessionRequest(d) \in Easy(d)
  BY <1>1, <1>5, <1>7 DEF SessionRequest
<1>16. RevokeOtherSessions(d) \in Easy(d) /\ RevokeAllSessions(d) \in Easy(d)
  BY SessionLoops
<1>17. EnrollTOTP \in Easy(d) /\ VerifyTOTP \in Easy(d) /\ DisableTOTP \in Easy(d) /\ RegenerateBackupCodes \in Easy(d)
  BY <1>4 DEF EnrollTOTP, VerifyTOTP, DisableTOTP, RegenerateBackupCodes
<1> QED
  BY <1>8, <1>11, <1>12, <1>13, <1>14, <1>15, <1>16, <1>17 DEF SessionOps

LEMMA PasskeyHandlers ==
  ASSUME NEW d
  PROVE  /\ PasskeyRegisterBegin \in Easy(d) /\ PasskeyRegisterFinish \in Easy(d) /\ PasskeyLoginBegin \in Easy(d)
         /\ PasskeyLoginFinish \in Easy(d) /\ PasskeyDelete \in Easy(d)
<1> DEFINE each == Each("passkeys", "passkeys", "end", <<>>)
           begins == Each("passkeys", "passkeys", "end", <<FreshKey, New("ceremonies", "end")>>)
           own == EachOwn("passkeys", "on", <<Put("passkeys", "on")>>)
           get == Get("passkeys", "end")
           delete == Del("passkeys", "end")
           p == FreshKey
           q == New("passkeys", "end")
           s == Del("ceremonies", "on")
<1>1. <<each>> \in Easy(d)
  BY EachPasskey, OneEasy
<1>2. <<begins>> \in Easy(d)
  BY EachPasskeyBegins, OneEasy
<1>3. <<own>> \in Easy(d)
  BY OwnPasskey, OneEasy
<1>4. <<get>> \in Easy(d) /\ <<Get("ceremonies", "end")>> \in Easy(d) /\ GetUser \in Easy(d)
  BY ReadPart
<1>5. Calm(d, s) /\ ~Rewrites(s) /\ Calm(d, delete) /\ ~Rewrites(delete)
  BY Dels DEF Modes
<1>6. <<s>> \in Easy(d) /\ <<delete>> \in Easy(d)
  BY <1>5, CalmEasy
<1>7. <<p, New("ceremonies", "end")>> \in Easy(d)
  BY NewPart
<1>8. <<p, q, s>> \in Easy(d)
  <2>1. p \in StepsOf(d, {<<>>}) /\ Light(p) /\ ~NeedsBefore(d, p) /\ ~NeedsAfter(p) /\ ~Rewrites(p)
    BY Singles
  <2>2. q \in StepsOf(d, {<<>>}) /\ Light(q) /\ ~NeedsAfter(q) /\ ~Rewrites(q)
    BY Singles
  <2>3. Gives(d, p, q)
    BY DEF FreshKey, New, Step, Gives, SessionDel, PrefsRead, DigestLoop
  <2> HIDE DEF p, q, s
  <2> QED
    BY <1>5, <2>1, <2>2, <2>3, FlatAny, ThreeEasy DEF Calm
<1>9. <<get, delete>> \in Easy(d)
  <2>1. Calm(d, get) /\ ~Rewrites(get)
    BY Gets DEF Modes
  <2> HIDE DEF get, delete
  <2> QED
    BY <1>5, <2>1, FlatAny, TwoEasy DEF Calm
<1>10. \A x, y \in Easy(d) : x \o y \in Easy(d)
  BY EasyJoin
<1>11. getWebAuthnUser = <<each>> /\ updateSignCount = <<own>>
  BY DEF getWebAuthnUser, updateSignCount
<1> HIDE DEF each, begins, own, get, delete, p, q, s
<1>12. PasskeyRegisterBegin \in Easy(d)
  BY <1>1, <1>7, <1>10, <1>11 DEF PasskeyRegisterBegin, p
<1>13. <<Get("ceremonies", "end")>> \o getWebAuthnUser \in Easy(d)
  BY <1>1, <1>4, <1>10, <1>11
<1>14. PasskeyRegisterFinish \in Easy(d)
  BY <1>8, <1>10, <1>13 DEF PasskeyRegisterFinish, p, q, s
<1>15. PasskeyLoginBegin \in Easy(d)
  BY <1>2 DEF PasskeyLoginBegin, begins
<1>16. PasskeyLoginFinish \in Easy(d)
  <2>1. <<Get("ceremonies", "end")>> \o getWebAuthnUser \o updateSignCount \in Easy(d)
    BY <1>3, <1>10, <1>11, <1>13
  <2>2. <<Get("ceremonies", "end")>> \o getWebAuthnUser \o updateSignCount \o <<s>> \in Easy(d)
    BY <1>6, <1>10, <2>1
  <2> QED
    BY <1>4, <1>10, <2>2 DEF PasskeyLoginFinish, s
<1>17. PasskeyDelete \in Easy(d)
  BY <1>9 DEF PasskeyDelete, get, delete
<1> QED
  BY <1>12, <1>14, <1>15, <1>16, <1>17

LEMMA CredentialHandlers ==
  ASSUME NEW d \in Drivers, NEW h \in CredentialOps(d), h \notin {ResetExpired, OIDCCallback(d), OIDCCreates(d)}
  PROVE  h \in Easy(d)
<1> DEFINE fresh == FreshKey
           token == New("tokens", "end")
<1>1. KeyRequest \in Easy(d)
  <2>1. <<Get("keys", "end"), Put("keys", "on")>> \in Easy(d)
    BY ReadWritePart DEF Modes
  <2>2. <<Get("keys", "end")>> \o <<Put("keys", "on")>> = <<Get("keys", "end"), Put("keys", "on")>>
    BY Join11
  <2> QED
    BY <2>1, <2>2 DEF KeyRequest, ValidateAPIKey, GetAPIKey, PutAPIKey
<1>2. CreateAPIKey \in Easy(d) /\ OIDCLogin \in Easy(d) /\ GenerateFingerprint \in Easy(d) /\ <<fresh, token>> \in Easy(d)
  BY NewPart DEF CreateAPIKey, OIDCLogin, GenerateFingerprint
<1>3. ForgotPassword \in Easy(d)
  <2> DEFINE get == Get("users", "end")
  <2>1. <<get>> \o <<fresh>> = <<get, fresh>> /\ <<get, fresh>> \o <<token>> = <<get, fresh, token>>
        /\ <<get>> \o <<fresh, token>> = <<get, fresh, token>>
    BY Join11, Join21, Join12
  <2>2. ForgotPassword = (<<get>> \o <<fresh>>) \o <<token>>
    BY DEF ForgotPassword, GetUser, PutResetToken
  <2>3. <<get>> \in Easy(d)
    BY ReadPart DEF GetUser
  <2> HIDE DEF get, fresh, token
  <2>4. <<get>> \o <<fresh, token>> \in Easy(d)
    BY <1>2, <2>3, EasyJoin
  <2> QED
    BY <2>1, <2>2, <2>4
<1>4. UnlinkOIDC \in Easy(d)
  <2>1. Calm(d, Del("oidclinks", "on")) /\ ~Rewrites(Del("oidclinks", "on"))
    BY Dels DEF Modes
  <2>2. DeleteOIDCLink \in Easy(d)
    BY <2>1, CalmEasy DEF DeleteOIDCLink
  <2>3. GetOIDCLink \in Easy(d)
    BY ReadPart
  <2> QED
    BY <2>2, <2>3, EasyJoin DEF UnlinkOIDC
<1>5. InvalidateFingerprint \in Easy(d)
  <2> DEFINE p == Get("prints", "end")
             s == Del("prints", "on")
  <2>1. Calm(d, p) /\ ~Rewrites(p)
    BY Gets DEF Modes
  <2>2. Calm(d, s) /\ ~Rewrites(s)
    BY Dels DEF Modes
  <2> HIDE DEF p, s
  <2>3. <<p, s>> \in Easy(d)
    BY <2>1, <2>2, FlatAny, TwoEasy DEF Calm
  <2> QED
    BY <2>3 DEF InvalidateFingerprint, p, s
<1>6. InvalidateUserFingerprints \in Easy(d)
  <2> DEFINE p == Forget("prints")
  <2>1. p \in StepsOf(d, {<<>>}) /\ Light(p) /\ ~NeedsBefore(d, p) /\ ~NeedsAfter(p) /\ ~Rewrites(p)
    BY Singles
  <2>2. <<p>> \in Easy(d)
    BY <2>1, FlatAny, OneEasy
  <2> QED
    BY <2>2 DEF InvalidateUserFingerprints
<1>7. /\ PasskeyRegisterBegin \in Easy(d) /\ PasskeyRegisterFinish \in Easy(d) /\ PasskeyLoginBegin \in Easy(d)
      /\ PasskeyLoginFinish \in Easy(d) /\ PasskeyDelete \in Easy(d)
  BY PasskeyHandlers
<1> QED
  BY <1>1, <1>2, <1>3, <1>4, <1>5, <1>6, <1>7 DEF CredentialOps

LEMMA AdminHandlers ==
  ASSUME NEW d \in Drivers, NEW h \in AdminOps(d), h \notin {DeleteUser(d), ResetPassword(d)}
  PROVE  h \in Easy(d)
<1>1. CreateUser \in Easy(d)
  BY UserMade DEF CreateUser
<1>2. UpdateUser \in Easy(d)
  BY UserWritten DEF UpdateUser
<1>3. UpdateUserRole(d) \in Easy(d)
  <2> DEFINE p == Get("users", "end")
             s == Put("users", "end")
  <2>1. Calm(d, p) /\ ~Rewrites(p) /\ Calm(d, s)
    BY Gets, Puts DEF Modes
  <2>2. p.op = "get" /\ p.t = s.t
    BY DEF Get, Put, Step
  <2>3. PICK q \in AnyStep(d) : /\ DeleteUserSessions(d) = <<q>> /\ SessionDels(d, q)
                                /\ Light(q) /\ ~NeedsBefore(d, q) /\ ~NeedsAfter(q) /\ ~Rewrites(q)
    BY DeleteSessionsPart
  <2>4. GetUser = <<p>> /\ PutUser = <<s>>
    BY DEF GetUser, PutUser
  <2> HIDE DEF p, s
  <2>5. <<p, q, s>> \in Easy(d)
    BY <2>1, <2>2, <2>3, FlatAny, ThreeEasy DEF Calm
  <2>6. <<p>> \o <<q>> = <<p, q>> /\ <<p, q>> \o <<s>> = <<p, q, s>>
    BY Join11, Join21
  <2>7. UpdateUserRole(d) = (<<p>> \o <<q>>) \o <<s>>
    BY <2>3, <2>4 DEF UpdateUserRole
  <2> QED
    BY <2>5, <2>6, <2>7
<1>4. CreateTempToken(d) \in Easy(d)
  BY StartSessionPart DEF CreateTempToken
<1>5. RevokeAPIKey \in Easy(d)
  <2>1. Calm(d, Del("keys", "on")) /\ ~Rewrites(Del("keys", "on"))
    BY Dels DEF Modes
  <2> QED
    BY <2>1, CalmEasy DEF RevokeAPIKey, DeleteAPIKey
<1>6. SessionRequest(d) \in Easy(d)
  <2>1. GetSession \in Easy(d) /\ UpdateSessionActivity(d) \in Easy(d)
    BY ReadPart, SessionUsed
  <2> QED
    BY <2>1, EasyJoin DEF SessionRequest
<1>7. KeyRequest \in Easy(d)
  <2>1. <<Get("keys", "end"), Put("keys", "on")>> \in Easy(d)
    BY ReadWritePart DEF Modes
  <2>2. <<Get("keys", "end")>> \o <<Put("keys", "on")>> = <<Get("keys", "end"), Put("keys", "on")>>
    BY Join11
  <2> QED
    BY <2>1, <2>2 DEF KeyRequest, ValidateAPIKey, GetAPIKey, PutAPIKey
<1> QED
  BY <1>1, <1>2, <1>3, <1>4, <1>5, <1>6, <1>7 DEF AdminOps

LEMMA FindPart ==
  ASSUME NEW d \in Drivers
  PROVE  GetPRByIndex(d) \in Easy(d)
<1> DEFINE u == Unless("prindex", <<Get("prs", "end"), Put("prindex", "on")>>)
           p == Get("prindex", "end")
           s == Get("prs", "end")
<1>1. u \in AnyStep(d) /\ Light(u) /\ ~NeedsBefore(d, u) /\ ~NeedsAfter(u) /\ ~Rewrites(u)
  BY UnlessIndexed
<1>2. Calm(d, p) /\ ~Rewrites(p) /\ Calm(d, s) /\ ~Rewrites(s)
  BY Gets DEF Modes
<1>3. GetPRByIndex(d) = IF d = "mongo" THEN <<p, s>> ELSE <<u, s>>
  BY DEF GetPRByIndex, By, BboltGetPRByIndex, MongoGetPRByIndex
<1> HIDE DEF u, p, s
<1>4. <<p, s>> \in Easy(d) /\ <<u, s>> \in Easy(d)
  BY <1>1, <1>2, FlatAny, TwoEasy DEF Calm
<1> QED
  BY <1>3, <1>4

LEMMA SpaceCachePart ==
  ASSUME NEW d, NEW f \in Modes
  PROVE  getSpaceForPR(f) \in Easy(d)
<1>1. PICK s \in StepsOf(d, Bodies1(d)) :
           /\ getSpaceForPR(f) = <<s>> /\ Light(s) /\ ~NeedsBefore(d, s) /\ ~NeedsAfter(s) /\ ~Rewrites(s)
           /\ s.op = "unless" /\ s.t = "spacecache"
  BY UnlessCached
<1>2. s \in AnyStep(d)
  BY BodiesNested
<1> QED
  BY <1>1, <1>2, OneEasy

LEMMA TeamHandlers ==
  ASSUME NEW d \in Drivers, NEW h \in TeamOps(d),
         h \notin {CreateSpace, DeleteSpace, AddSpaceMember, DropSpaceMember, UpdateSpaceRepoGroups}
  PROVE  h \in Easy(d)
<1> DEFINE merged == EachOwn("stacks", "on", <<Put("stacks", "on")>>)
           own == EachOwn("stacks", "on", <<Put("stacks", "end")>>)
           only == EachOwn("stacks", "on", <<>>)
<1>1. NotifyCrossSpaceDeps(d) \in Easy(d)
  <2>1. GetPRDependentsByPR(d, <<>>) \in Easy(d) /\ getSpaceForPR("end") \in Easy(d)
    BY ListedLoops, SpaceCachePart DEF Modes
  <2>2. <<SomeOf("deps")>> \in Easy(d)
    <3>1. SomeOf("deps") \in StepsOf(d, {<<>>}) /\ Light(SomeOf("deps")) /\ ~NeedsBefore(d, SomeOf("deps"))
          /\ ~NeedsAfter(SomeOf("deps")) /\ ~Rewrites(SomeOf("deps"))
      BY Singles
    <3> QED
      BY <3>1, FlatAny, OneEasy
  <2>3. GetPRDependentsByPR(d, <<>>) \o <<SomeOf("deps")>> \in Easy(d)
    BY <2>1, <2>2, EasyJoin
  <2>4. GetPRDependentsByPR(d, <<>>) \o <<SomeOf("deps")>> \o getSpaceForPR("end") \in Easy(d)
    BY <2>1, <2>3, EasyJoin
  <2> QED
    BY <2>4, EachDependent, EasyJoin DEF NotifyCrossSpaceDeps
<1>2. ResolveCrossSpaceDep \in Easy(d)
  <2> DEFINE p == Get("prs", "end")
             q == Get("cross", "end")
             s == Put("cross", "end")
  <2>1. Calm(d, p) /\ ~Rewrites(p) /\ Calm(d, q) /\ ~Rewrites(q) /\ Calm(d, s)
    BY Gets, Puts DEF Modes
  <2>2. q.op = "get" /\ q.t = s.t
    BY DEF Get, Put, Step
  <2> HIDE DEF p, q, s
  <2>3. <<p, q, s>> \in Easy(d)
    BY <2>1, <2>2, FlatAny, ThreeEasy DEF Calm
  <2> QED
    BY <2>3 DEF ResolveCrossSpaceDep, p, q, s
<1>3. CreateStack \in Easy(d)
  BY NewPart DEF CreateStack
<1>4. DeleteStack \in Easy(d)
  <2>1. Calm(d, Del("stacks", "end")) /\ ~Rewrites(Del("stacks", "end"))
    BY Dels DEF Modes
  <2> QED
    BY <2>1, CalmEasy DEF DeleteStack, DeletePRStack
<1>5. AddStackMember \in Easy(d) /\ RemoveStackMember \in Easy(d) /\ UpdateStackMemberState \in Easy(d)
  <2>1. <<Get("stacks", "end"), Put("stacks", "end")>> \in Easy(d)
    BY ReadWritePart DEF Modes
  <2>2. <<Get("stacks", "end")>> \o <<Put("stacks", "end")>> = <<Get("stacks", "end"), Put("stacks", "end")>>
    BY Join11
  <2> QED
    BY <2>1, <2>2 DEF AddStackMember, RemoveStackMember, UpdateStackMemberState, GetPRStack, PutPRStack
<1>6. UpdateStackMemberOnMerge \in Easy(d)
  <2>1. <<merged>> \in Easy(d)
    BY OwnStack, OneEasy DEF Modes
  <2> QED
    BY <2>1 DEF UpdateStackMemberOnMerge, FindStackByPR, PutPRStack
<1>7. FindStackByPR(PutPRStack("end")) \in Easy(d) /\ FindStackByPR(<<>>) \in Easy(d)
  <2>1. <<own>> \in Easy(d) /\ <<only>> \in Easy(d)
    BY OwnStack, OwnStackOnly, OneEasy DEF Modes
  <2> QED
    BY <2>1 DEF FindStackByPR, PutPRStack
<1>8. GetPRByIndex(d) \in Easy(d)
  BY FindPart
<1> HIDE DEF merged, own, only
<1>9. SyncStackFromPR(d) \in Easy(d)
  BY <1>7, <1>8, EasyJoin DEF SyncStackFromPR
<1>10. SyncNewStack(d) \in Easy(d)
  <2>1. GetPRByIndex(d) \o FindStackByPR(<<>>) \in Easy(d)
    BY <1>7, <1>8, EasyJoin
  <2> QED
    BY <1>3, <2>1, EasyJoin DEF SyncNewStack
<1> QED
  BY <1>1, <1>2, <1>3, <1>4, <1>5, <1>6, <1>9, <1>10 DEF TeamOps

LEMMA SavePart ==
  ASSUME NEW d \in Drivers
  PROVE  SavePR(d) \in Easy(d)
<1> DEFINE g == Get("prs", "on")
           p == Put("prs", "end")
           q == Put("prindex", "end")
           b == PutBoth("prs", "prindex")
<1>1. Calm(d, g) /\ ~Rewrites(g) /\ g.op = "get" /\ g.t = "prs"
  BY Gets DEF Modes, Get, Step
<1>2. CASE d = "mongo"
  <2>1. p \in StepsOf(d, {<<>>}) /\ Light(p) /\ ~NeedsBefore(d, p) /\ ~NeedsAfter(p) /\ p.t = "prs"
    BY <1>2, Singles DEF Put, Step
  <2>2. q \in StepsOf(d, {<<>>}) /\ Light(q) /\ ~NeedsAfter(q) /\ ~Rewrites(q)
    BY Singles
  <2>3. Gives(d, p, q)
    BY DEF Put, Step, Gives, SessionDel, PrefsRead, DigestLoop
  <2>4. SavePR(d) = <<g>> \o <<p, q>>
    BY <1>2 DEF SavePR, PutPRWithIndex, By, MongoPutPRWithIndex
  <2> HIDE DEF g, p, q
  <2>5. <<g, p, q>> \in Easy(d)
    BY <1>1, <2>1, <2>2, <2>3, FlatAny, ThreeEasy DEF Calm
  <2> QED
    BY <2>4, <2>5, Join12
<1>3. CASE d = "bbolt"
  <2>1. b \in StepsOf(d, {<<>>}) /\ Light(b) /\ ~NeedsBefore(d, b) /\ ~NeedsAfter(b) /\ b.t = "prs"
    BY Singles DEF PutBoth, Step
  <2>2. SavePR(d) = <<g>> \o <<b>>
    BY <1>3 DEF SavePR, PutPRWithIndex, By, BboltPutPRWithIndex
  <2> HIDE DEF g, b
  <2>3. <<g, b>> \in Easy(d)
    BY <1>1, <2>1, FlatAny, TwoEasy DEF Calm
  <2> QED
    BY <2>2, <2>3, Join11
<1> QED
  BY <1>2, <1>3 DEF Drivers

\* Links, dependencies and audit entries
LEMMA BackPart ==
  ASSUME NEW d \in Drivers
  PROVE  PutIssuePRLink(d) \in Easy(d) /\ PutPRDependency(d) \in Easy(d) /\ AppendAuditLogEx(d) \in Easy(d)
<1>1. PutIssuePRLink(d) \in Easy(d)
  <2> DEFINE p == Blank("links", "end")
             s(f) == Blank("linksbypr", f)
  <2>1. Calm(d, p) /\ ~Rewrites(p)
    BY Blanks DEF Modes
  <2>2. \A f \in {"on", "end"} : s(f) \in StepsOf(d, {<<>>}) /\ Light(s(f)) /\ ~NeedsAfter(s(f)) /\ ~Rewrites(s(f))
    BY Singles
  <2>3. \A f \in {"on", "end"} : Gives(d, p, s(f))
    BY DEF Blank, Step, Gives, SessionDel, PrefsRead, DigestLoop
  <2> HIDE DEF p, s
  <2>4. \A f \in {"on", "end"} : <<p, s(f)>> \in Easy(d)
    BY <2>1, <2>2, <2>3, FlatAny, TwoEasy DEF Calm
  <2> QED
    BY <2>4 DEF PutIssuePRLink, By, BboltPutIssuePRLink, MongoPutIssuePRLink, p, s
<1>2. PutPRDependency(d) \in Easy(d)
  <2> DEFINE p == Blank("deps", "end")
             s == Blank("dependents", "end")
  <2>1. Calm(d, p) /\ ~Rewrites(p)
    BY Blanks DEF Modes
  <2>2. s \in StepsOf(d, {<<>>}) /\ Light(s) /\ ~NeedsAfter(s) /\ ~Rewrites(s)
    BY Singles
  <2>3. Gives(d, p, s)
    BY DEF Blank, Step, Gives, SessionDel, PrefsRead, DigestLoop
  <2> HIDE DEF p, s
  <2>4. <<p, s>> \in Easy(d) /\ <<p>> \in Easy(d)
    BY <2>1, <2>2, <2>3, FlatAny, TwoEasy, CalmEasy DEF Calm
  <2> QED
    BY <2>4 DEF PutPRDependency, By, BboltPutPRDependency, MongoPutPRDependency, p, s
<1>3. AppendAuditLogEx(d) \in Easy(d)
  <2> DEFINE p == FreshKey
             q == New("logs", "end")
             s == New("logindex", "end")
  <2>1. p \in StepsOf(d, {<<>>}) /\ Light(p) /\ ~NeedsBefore(d, p) /\ ~NeedsAfter(p) /\ ~Rewrites(p)
    BY Singles
  <2>2. q \in StepsOf(d, {<<>>}) /\ Light(q) /\ ~NeedsAfter(q) /\ ~Rewrites(q)
    BY Singles
  <2>3. s \in StepsOf(d, {<<>>}) /\ Light(s) /\ ~NeedsAfter(s) /\ ~Rewrites(s)
    BY Singles
  <2>4. Gives(d, p, q) /\ Gives(d, q, s)
    BY DEF FreshKey, New, Step, Gives, SessionDel, PrefsRead, DigestLoop
  <2>5. AppendAuditLogEx(d) = <<p, q>> \o <<s>>
    BY DEF AppendAuditLogEx, By, BboltAppendAuditLogEx, MongoAppendAuditLogEx, WriteAuditLogIndex
  <2> HIDE DEF p, q, s
  <2>6. <<p, q, s>> \in Easy(d)
    BY <2>1, <2>2, <2>3, <2>4, FlatAny, ThreeEasy
  <2> QED
    BY <2>5, <2>6, Join21
<1> QED
  BY <1>1, <1>2, <1>3

LEMMA RecordHandlers ==
  ASSUME NEW d \in Drivers, NEW h \in RecordOps(d), h # FlushDigests(d)
  PROVE  h \in Easy(d)
<1>1. SyncIssueLinks(d) \in Easy(d) /\ SyncDependencies(d) \in Easy(d) /\ AppendAuditLogEx(d) \in Easy(d)
  BY FindPart, BackPart, EasyJoin DEF SyncIssueLinks, SyncDependencies
<1>2. FetchPRTemplate \in Easy(d) /\ UpdateNotificationPrefs \in Easy(d)
  <2>1. \A t \in {"templates", "prefs"} : Calm(d, Blank(t, "end")) /\ ~Rewrites(Blank(t, "end"))
    BY Blanks DEF Modes
  <2>2. \A t \in {"templates", "prefs"} : <<Blank(t, "end")>> \in Easy(d)
    BY <2>1, CalmEasy
  <2> QED
    BY <2>2 DEF FetchPRTemplate, PutPRTemplate, UpdateNotificationPrefs, PutNotificationPrefs
<1>3. TrackDeployment \in Easy(d) /\ AppendDigest \in Easy(d)
  BY NewPart DEF TrackDeployment, AppendDigest
<1>4. UpdateReviewerLoad \in Easy(d)
  BY ReadWritePart DEF UpdateReviewerLoad, Modes
<1>5. SyncPRStates(d) \in Easy(d)
  <2>1. CASE d = "bbolt"
    <3>1. <<Each("prs", "prs", "end", <<PutBoth("prs", "prindex")>>)>> \in Easy(d)
      BY <2>1, EachPRBoth, OneEasy
    <3> QED
      BY <2>1, <3>1 DEF SyncPRStates, PutPRWithIndex, By, BboltPutPRWithIndex
  <2>2. CASE d = "mongo"
    <3>1. <<Each("prs", "prs", "end", <<Put("prs", "end"), Put("prindex", "end")>>)>> \in Easy(d)
      BY <2>2, EachPRTwice, OneEasy
    <3> QED
      BY <2>2, <3>1 DEF SyncPRStates, PutPRWithIndex, By, MongoPutPRWithIndex
  <2> QED
    BY <2>1, <2>2 DEF Drivers
<1>6. SavePR(d) \in Easy(d)
  BY SavePart
<1> QED
  BY <1>1, <1>2, <1>3, <1>4, <1>5, <1>6 DEF RecordOps

-----------------------------------------------------------------------------
\* What handlers do of the things the properties are about

\* A step at the top, with what it may need
Top(d, s) == s \in AnyStep(d) /\ TopShape(s)
Single(d, s) == Top(d, s) /\ ~NeedsBefore(d, s) /\ ~NeedsAfter(s) /\ ~Rewrites(s)

LEMMA TwoTodo ==
  ASSUME NEW d, NEW p, NEW q, Top(d, p), Top(d, q), Link(d, p, q), ~NeedsAfter(q)
  PROVE  <<p, q>> \in Todos(d)
<1> DEFINE x == <<p, q>>
<1>1. x \in Seq(AnyStep(d)) /\ Len(x) = 2 /\ x[1] = p /\ x[2] = q
  BY DEF Top
<1> HIDE DEF x
<1>2. \A i \in 2..Len(x) : i = 2 /\ i - 1 = 1
  BY <1>1
<1>3. x \in Todos(d)
  BY <1>1, <1>2 DEF Chain, Todos
<1> QED
  BY <1>3 DEF x

LEMMA ThreeTodo ==
  ASSUME NEW d, NEW p, NEW q, NEW s, Top(d, p), Top(d, q), Top(d, s), Link(d, p, q), Link(d, q, s), ~NeedsAfter(s)
  PROVE  <<p, q, s>> \in Todos(d)
<1> DEFINE x == <<p, q, s>>
<1>1. x \in Seq(AnyStep(d)) /\ Len(x) = 3 /\ x[1] = p /\ x[2] = q /\ x[3] = s
  BY DEF Top
<1> HIDE DEF x
<1>2. \A i \in 2..Len(x) : (i = 2 /\ i - 1 = 1) \/ (i = 3 /\ i - 1 = 2)
  BY <1>1
<1>3. x \in Todos(d)
  BY <1>1, <1>2 DEF Chain, Todos
<1> QED
  BY <1>3 DEF x

LEMMA FourTodo ==
  ASSUME NEW d, NEW p, NEW q, NEW s, NEW u, Top(d, p), Top(d, q), Top(d, s), Top(d, u),
         Link(d, p, q), Link(d, q, s), Link(d, s, u), ~NeedsAfter(u)
  PROVE  <<p, q, s, u>> \in Todos(d)
<1> DEFINE x == <<p, q, s, u>>
<1>1. x \in Seq(AnyStep(d)) /\ Len(x) = 4 /\ x[1] = p /\ x[2] = q /\ x[3] = s /\ x[4] = u
  BY DEF Top
<1> HIDE DEF x
<1>2. \A i \in 2..Len(x) : (i = 2 /\ i - 1 = 1) \/ (i = 3 /\ i - 1 = 2) \/ (i = 4 /\ i - 1 = 3)
  BY <1>1
<1>3. x \in Todos(d)
  BY <1>1, <1>2 DEF Chain, Todos
<1> QED
  BY <1>3 DEF x

LEMMA FiveTodo ==
  ASSUME NEW d, NEW p, NEW q, NEW s, NEW u, NEW v, Top(d, p), Top(d, q), Top(d, s), Top(d, u), Top(d, v),
         Link(d, p, q), Link(d, q, s), Link(d, s, u), Link(d, u, v), ~NeedsAfter(v)
  PROVE  <<p, q, s, u, v>> \in Todos(d)
<1> DEFINE x == <<p, q, s, u, v>>
<1>1. x \in Seq(AnyStep(d)) /\ Len(x) = 5 /\ x[1] = p /\ x[2] = q /\ x[3] = s /\ x[4] = u /\ x[5] = v
  BY DEF Top
<1> HIDE DEF x
<1>2. \A i \in 2..Len(x) : (i = 2 /\ i - 1 = 1) \/ (i = 3 /\ i - 1 = 2) \/ (i = 4 /\ i - 1 = 3) \/ (i = 5 /\ i - 1 = 4)
  BY <1>1
<1>3. x \in Todos(d)
  BY <1>1, <1>2 DEF Chain, Todos
<1> QED
  BY <1>3 DEF x

LEMMA NoNeeds ==
  ASSUME NEW d, NEW p, NEW q, ~NeedsAfter(p), ~NeedsBefore(d, q)
  PROVE  Link(d, p, q)
BY DEF Link

\* Handlers that forget the spaces in memory
LEMMA ForgetStarted ==
  ASSUME NEW d, NEW x, x \in Todos(d), x # <<>>, ~NeedsBefore(d, x[1]), \A i \in DOMAIN x : TopShape(x[i]),
         Covered(x), ForgetLast(x), \A i \in DOMAIN x : ~TokenRead(x[i]) /\ ~UserDel(x[i])
  PROVE  Startable(d, x)
BY DEF Startable, TokenOnce, Cascades

LEMMA TwoForget ==
  ASSUME NEW d, NEW p \in AnyStep(d), Light(p), ~NeedsBefore(d, p), ~Rewrites(p), NEW q, q = Forget("spacecache"),
         NeedsAfter(p) => Takes(p, q)
  PROVE  Startable(d, <<p, q>>)
<1>1. q \in AnyStep(d) /\ ~NeedsBefore(d, q) /\ ~NeedsAfter(q) /\ ~Rewrites(q)
  BY Singles, FlatAny
<1>2. TopShape(q) /\ ~TokenRead(q) /\ ~UserDel(q) /\ q.key = 0
  BY DEF Forget, Step, TopShape, DigestDel, TokenRead, UserDel
<1>3. Link(d, p, q)
  BY <1>1, <1>2 DEF Link, Light, TopShape
<1> DEFINE x == <<p, q>>
<1>4. x \in Todos(d)
  BY <1>1, <1>2, <1>3, TwoTodo DEF Top, Light
<1>5. DOMAIN x = {1, 2} /\ x[1] = p /\ x[2] = q /\ Len(x) = 2 /\ x # <<>>
  OBVIOUS
<1> HIDE DEF x
<1>6. \A i \in DOMAIN x : TopShape(x[i]) /\ ~TokenRead(x[i]) /\ ~UserDel(x[i]) /\ ~Rewrites(x[i])
  BY <1>1, <1>2, <1>5 DEF Light
<1>7. ForgetLast(x)
  BY <1>5 DEF ForgetLast, Light
<1>8. Startable(d, x)
  BY <1>4, <1>5, <1>6, <1>7, ForgetStarted DEF Covered
<1> QED
  BY <1>8 DEF x

LEMMA ThreeForget ==
  ASSUME NEW d, NEW p \in AnyStep(d), NEW q \in AnyStep(d), Light(p), Light(q), ~NeedsBefore(d, p), ~NeedsBefore(d, q),
         NEW s, s = Forget("spacecache"), NeedsAfter(p) => Takes(p, q), NeedsAfter(q) => Takes(q, s),
         ~Rewrites(p), Rewrites(q) => p.op = "get" /\ p.t = q.t
  PROVE  Startable(d, <<p, q, s>>)
<1>1. s \in AnyStep(d) /\ ~NeedsBefore(d, s) /\ ~NeedsAfter(s) /\ ~Rewrites(s)
  BY Singles, FlatAny
<1>2. TopShape(s) /\ ~TokenRead(s) /\ ~UserDel(s) /\ s.key = 0
  BY DEF Forget, Step, TopShape, DigestDel, TokenRead, UserDel
<1>3. Link(d, p, q) /\ Link(d, q, s)
  BY <1>1, <1>2 DEF Link, Light, TopShape
<1> DEFINE x == <<p, q, s>>
<1>4. x \in Todos(d)
  BY <1>1, <1>2, <1>3, ThreeTodo DEF Top, Light
<1>5. DOMAIN x = {1, 2, 3} /\ x[1] = p /\ x[2] = q /\ x[3] = s /\ Len(x) = 3 /\ x # <<>>
  OBVIOUS
<1> HIDE DEF x
<1>6. \A i \in DOMAIN x : TopShape(x[i]) /\ ~TokenRead(x[i]) /\ ~UserDel(x[i])
  BY <1>1, <1>2, <1>5 DEF Light
<1>7. ForgetLast(x)
  BY <1>5 DEF ForgetLast, Light
<1>8. Covered(x)
  <2>1. 1 \in 1..(2 - 1)
    OBVIOUS
  <2> QED
    BY <1>1, <1>5, <2>1 DEF Covered
<1>9. Startable(d, x)
  BY <1>4, <1>5, <1>6, <1>7, <1>8, ForgetStarted
<1> QED
  BY <1>9 DEF x

LEMMA SpaceHandlers ==
  ASSUME NEW d
  PROVE  /\ Startable(d, CreateSpace) /\ Startable(d, DeleteSpace) /\ Startable(d, AddSpaceMember)
         /\ Startable(d, DropSpaceMember) /\ Startable(d, UpdateSpaceRepoGroups)
<1> DEFINE b == Blank("spaces", "end")
           m == Blank("members", "on")
           n == Blank("members", "end")
           g == Get("spaces", "end")
           u == Put("spaces", "end")
           e == Del("spaces", "end")
           x == Del("members", "end")
           f == Forget("spacecache")
<1>1. /\ b \in AnyStep(d) /\ Light(b) /\ ~NeedsBefore(d, b) /\ ~Rewrites(b)
      /\ m \in AnyStep(d) /\ Light(m) /\ ~NeedsBefore(d, m) /\ ~Rewrites(m)
      /\ u \in AnyStep(d) /\ Light(u) /\ ~NeedsBefore(d, u)
      /\ e \in AnyStep(d) /\ Light(e) /\ ~NeedsBefore(d, e) /\ ~Rewrites(e)
  BY Singles, FlatAny
<1>2. Calm(d, n) /\ ~Rewrites(n)
  BY Blanks DEF Modes
<1>3. Calm(d, g) /\ ~Rewrites(g)
  BY Gets DEF Modes
<1>4. Calm(d, x) /\ ~Rewrites(x)
  BY Dels DEF Modes
<1>5. /\ n \in AnyStep(d) /\ Light(n) /\ ~NeedsBefore(d, n) /\ ~NeedsAfter(n)
      /\ g \in AnyStep(d) /\ Light(g) /\ ~NeedsBefore(d, g) /\ ~NeedsAfter(g)
      /\ x \in AnyStep(d) /\ Light(x) /\ ~NeedsBefore(d, x) /\ ~NeedsAfter(x)
  BY <1>2, <1>3, <1>4, FlatAny DEF Calm
<1>6. Takes(b, m) /\ Takes(m, f) /\ Takes(u, f) /\ Takes(e, f)
  BY DEF Takes, TokenRead, SpaceWrite, NewMember, Forgets, Blank, Put, Del, Forget, Step
<1>7. g.op = "get" /\ g.t = u.t
  BY DEF Get, Put, Step
<1>8. /\ CreateSpace = <<b>> \o <<m>> \o <<f>> /\ DeleteSpace = <<e>> \o <<f>> /\ AddSpaceMember = <<g>> \o <<n>> \o <<f>>
      /\ DropSpaceMember = <<x>> \o <<f>> /\ UpdateSpaceRepoGroups = <<g>> \o <<u>> \o <<f>>
  BY DEF CreateSpace, DeleteSpace, AddSpaceMember, DropSpaceMember, UpdateSpaceRepoGroups, PutSpaceMember, GetTeamSpace,
         PutTeamSpace, DeleteTeamSpace, RemoveSpaceMember, invalidateSpaceCache
<1> HIDE DEF b, m, n, g, u, e, x
<1>9. Startable(d, <<b, m, f>>)
  BY <1>1, <1>6, ThreeForget
<1>10. Startable(d, <<e, f>>)
  BY <1>1, <1>6, TwoForget
<1>11. Startable(d, <<g, n, f>>)
  BY <1>2, <1>3, <1>5, ThreeForget
<1>12. Startable(d, <<x, f>>)
  BY <1>4, <1>5, TwoForget
<1>13. Startable(d, <<g, u, f>>)
  BY <1>1, <1>3, <1>5, <1>6, <1>7, ThreeForget
<1> HIDE DEF f
<1>14. <<b>> \o <<m>> \o <<f>> = <<b, m, f>> /\ <<g>> \o <<n>> \o <<f>> = <<g, n, f>>
       /\ <<g>> \o <<u>> \o <<f>> = <<g, u, f>> /\ <<e>> \o <<f>> = <<e, f>> /\ <<x>> \o <<f>> = <<x, f>>
  <2>1. <<b>> \o <<m>> = <<b, m>> /\ <<g>> \o <<n>> = <<g, n>> /\ <<g>> \o <<u>> = <<g, u>>
    BY Join11
  <2>2. <<b, m>> \o <<f>> = <<b, m, f>> /\ <<g, n>> \o <<f>> = <<g, n, f>> /\ <<g, u>> \o <<f>> = <<g, u, f>>
    BY Join21
  <2>3. <<e>> \o <<f>> = <<e, f>> /\ <<x>> \o <<f>> = <<x, f>>
    BY Join11
  <2> QED
    BY <2>1, <2>2, <2>3
<1> QED
  BY <1>8, <1>9, <1>10, <1>11, <1>12, <1>13, <1>14

\* Handlers of reset tokens
LEMMA TokenSteps ==
  ASSUME NEW d
  PROVE  LET g == Get("tokens", "end")   e == Del("tokens", "end") IN
         /\ Top(d, g) /\ TokenRead(g) /\ ~NeedsBefore(d, g) /\ ~Rewrites(g) /\ g.key = 0
         /\ Top(d, e) /\ ~NeedsBefore(d, e) /\ ~NeedsAfter(e) /\ ~Rewrites(e) /\ Light(e)
         /\ Link(d, g, e)
         /\ ~UserWrite(g) /\ ~Forgets(g) /\ ~UserDel(g) /\ ~UserWrite(e)
<1> DEFINE g == Get("tokens", "end")
           e == Del("tokens", "end")
<1>1. g \in AnyStep(d) /\ ~NeedsBefore(d, g) /\ ~Rewrites(g)
  BY Singles, FlatAny
<1>2. Calm(d, e) /\ ~Rewrites(e)
  BY Dels DEF Modes
<1>3. e \in AnyStep(d) /\ ~NeedsBefore(d, e) /\ ~NeedsAfter(e) /\ Light(e)
  BY <1>2, FlatAny DEF Calm
<1>4. TopShape(g) /\ TokenRead(g) /\ g.key = 0 /\ ~UserWrite(g) /\ ~Forgets(g) /\ ~UserDel(g)
  BY DEF Get, Step, TopShape, DigestDel, TokenRead, UserWrite, Forgets, UserDel
<1>5. ~UserWrite(e) /\ e.key = 0
  BY DEF Del, Step, UserWrite
<1>6. Takes(g, e)
  BY DEF Get, Del, Step, Takes, TokenRead, TokenDel, SpaceWrite, NewMember
<1> HIDE DEF g, e
<1>7. Link(d, g, e)
  BY <1>3, <1>4, <1>5, <1>6 DEF Link
<1> QED
  BY <1>1, <1>2, <1>3, <1>4, <1>5, <1>7 DEF Top, Light, g, e

LEMMA ResetExpiredStarted ==
  ASSUME NEW d
  PROVE  Startable(d, ResetExpired)
<1> DEFINE g == Get("tokens", "end")
           e == Del("tokens", "end")
           x == <<g, e>>
<1>1. ResetExpired = <<g>> \o <<e>>
  BY DEF ResetExpired, GetResetToken, DeleteResetToken
<1>2. /\ Top(d, g) /\ TokenRead(g) /\ ~NeedsBefore(d, g) /\ ~Rewrites(g)
      /\ Top(d, e) /\ ~NeedsBefore(d, e) /\ ~NeedsAfter(e) /\ ~Rewrites(e) /\ Light(e)
      /\ Link(d, g, e)
      /\ ~UserWrite(g) /\ ~Forgets(g) /\ ~UserDel(g) /\ ~UserWrite(e)
  BY TokenSteps
<1> HIDE DEF g, e
<1>3. x \in Todos(d)
  BY <1>2, TwoTodo
<1>4. DOMAIN x = {1, 2} /\ x[1] = g /\ x[2] = e
  OBVIOUS
<1> HIDE DEF x
<1>5. \A i \in DOMAIN x : TopShape(x[i]) /\ ~Rewrites(x[i]) /\ ~UserWrite(x[i]) /\ ~Forgets(x[i]) /\ ~UserDel(x[i])
  BY <1>2, <1>4 DEF Top, Light
<1>6. Startable(d, x)
  BY <1>2, <1>3, <1>4, <1>5 DEF Startable, Covered, TokenOnce, ForgetLast, Cascades
<1>7. <<g>> \o <<e>> = <<g, e>>
  BY Join11
<1> QED
  BY <1>1, <1>6, <1>7 DEF x

LEMMA ResetPasswordStarted ==
  ASSUME NEW d \in Drivers
  PROVE  Startable(d, ResetPassword(d))
<1> DEFINE g == Get("tokens", "end")
           e == Del("tokens", "end")
           p == Get("users", "end")
           q == Put("users", "end")
<1>1. PICK v \in AnyStep(d) : /\ DeleteUserSessions(d) = <<v>> /\ SessionDels(d, v)
                              /\ Light(v) /\ ~NeedsBefore(d, v) /\ ~NeedsAfter(v) /\ ~Rewrites(v)
                              /\ Cascading(v) /\ v.op # "get"
  BY DeleteSessionsPart
<1>2. ResetPassword(d) = <<g>> \o <<e>> \o <<p>> \o <<q>> \o <<v>>
  BY <1>1 DEF ResetPassword, GetResetToken, DeleteResetToken, GetUser, PutUser
<1>3. /\ Top(d, g) /\ TokenRead(g) /\ ~NeedsBefore(d, g) /\ ~Rewrites(g)
      /\ Top(d, e) /\ ~NeedsBefore(d, e) /\ ~NeedsAfter(e) /\ ~Rewrites(e) /\ Light(e)
      /\ Link(d, g, e)
      /\ ~UserWrite(g) /\ ~Forgets(g) /\ ~UserDel(g) /\ ~UserWrite(e)
  BY TokenSteps
<1>4. Calm(d, p) /\ ~Rewrites(p)
  BY Gets DEF Modes
<1>5. Calm(d, q)
  BY Puts DEF Modes
<1>6. p.op = "get" /\ p.t = q.t /\ ~UserWrite(p)
  BY DEF Get, Put, Step, UserWrite
<1>7. ~UserWrite(v)
  BY <1>1 DEF Cascading, CascadeStep, UserWrite
<1>8. /\ Top(d, p) /\ ~NeedsBefore(d, p) /\ ~NeedsAfter(p) /\ Light(p)
      /\ Top(d, q) /\ ~NeedsBefore(d, q) /\ ~NeedsAfter(q) /\ Light(q)
      /\ Top(d, v)
  BY <1>1, <1>4, <1>5, FlatAny DEF Calm, Top, Light
<1> HIDE DEF g, e, p, q
<1>9. Link(d, e, p) /\ Link(d, p, q) /\ Link(d, q, v)
  BY <1>1, <1>3, <1>8, NoNeeds
<1> DEFINE x == <<g, e, p, q, v>>
<1>10. x \in Todos(d)
  BY <1>1, <1>3, <1>8, <1>9, FiveTodo
<1>11. DOMAIN x = {1, 2, 3, 4, 5} /\ x[1] = g /\ x[2] = e /\ x[3] = p /\ x[4] = q /\ x[5] = v
  OBVIOUS
<1> HIDE DEF x
<1>12. \A i \in DOMAIN x : TopShape(x[i]) /\ ~Forgets(x[i]) /\ ~UserDel(x[i])
  BY <1>1, <1>3, <1>8, <1>11 DEF Top, Light
<1>13. \A i \in DOMAIN x : (Rewrites(x[i]) \/ UserWrite(x[i])) => i = 4
  BY <1>1, <1>3, <1>4, <1>6, <1>7, <1>11
<1>14. Covered(x)
  <2>1. 3 \in 1..(4 - 1)
    OBVIOUS
  <2> QED
    BY <1>6, <1>11, <1>13, <2>1 DEF Covered
<1>15. Startable(d, x)
  BY <1>3, <1>10, <1>11, <1>12, <1>13, <1>14 DEF Startable, TokenOnce, ForgetLast, Cascades
<1>16. <<g>> \o <<e>> \o <<p>> \o <<q>> \o <<v>> = <<g, e, p, q, v>>
  <2>1. <<g>> \o <<e>> = <<g, e>>
    BY Join11
  <2>2. <<g, e>> \o <<p>> = <<g, e, p>>
    BY Join21
  <2>3. <<g, e, p>> \o <<q>> = <<g, e, p, q>>
    BY Join31
  <2>4. <<g, e, p, q>> \o <<v>> = <<g, e, p, q, v>>
    BY Join41
  <2> QED
    BY <2>1, <2>2, <2>3, <2>4
<1> QED
  BY <1>2, <1>15, <1>16 DEF x

\* The deletion of a user
LEMMA DeleteUserStarted ==
  ASSUME NEW d \in Drivers
  PROVE  Startable(d, DeleteUser(d))
<1> DEFINE p == Each("keys", "keys", "on", <<Del("keys", "on")>>)
           q == Each("oidclinks", "oidclinks", "on", <<Del("oidclinks", "on")>>)
           s == Del("users", "end")
<1>1. PICK v \in AnyStep(d) : /\ DeleteUserSessions(d) = <<v>> /\ SessionDels(d, v)
                              /\ Light(v) /\ ~NeedsBefore(d, v) /\ ~NeedsAfter(v) /\ ~Rewrites(v)
                              /\ Cascading(v) /\ v.op # "get"
  BY DeleteSessionsPart
<1>2. DeleteUser(d) = <<v>> \o <<p>> \o <<q>> \o <<s>>
  BY <1>1 DEF DeleteUser, ListAPIKeys, DeleteAPIKey, ListOIDCLinks, DeleteOIDCLink
<1>3. p \in AnyStep(d) /\ Light(p) /\ ~NeedsBefore(d, p) /\ ~NeedsAfter(p) /\ ~Rewrites(p)
  BY EachKey
<1>4. q \in AnyStep(d) /\ Light(q) /\ ~NeedsBefore(d, q) /\ ~NeedsAfter(q) /\ ~Rewrites(q)
  BY EachLink
<1>5. s \in AnyStep(d) /\ ~NeedsBefore(d, s) /\ ~NeedsAfter(s) /\ ~Rewrites(s)
  BY Singles, FlatAny
<1>6. TopShape(s) /\ ~TokenRead(s) /\ ~Forgets(s) /\ Cascading(s) /\ s.op # "get"
  BY DEF Del, Step, TopShape, DigestDel, TokenRead, Forgets, Cascading, CascadeStep
<1>7. EachDels(p, "keys") /\ Cascading(p) /\ p.op # "get"
  <2> DEFINE body == <<Del("keys", "on")>>
  <2>1. Len(body) = 1 /\ body[1].op = "del" /\ body[1].t = "keys" /\ body[1].failed = "on" /\ body[1].op = "del"
         /\ DOMAIN body = {1}
    BY DEF Del, Step
  <2>2. p.op = "each" /\ p.t = "keys" /\ p.via = "keys" /\ p.body = body /\ p.failed = "on"
    BY DEF Each, Step
  <2> HIDE DEF body, p
  <2> QED
    BY <2>1, <2>2 DEF EachDels, Cascading, CascadeStep
<1>8. EachDels(q, "oidclinks") /\ Cascading(q) /\ q.op # "get"
  <2> DEFINE body == <<Del("oidclinks", "on")>>
  <2>1. Len(body) = 1 /\ body[1].op = "del" /\ body[1].t = "oidclinks" /\ body[1].failed = "on" /\ body[1].op = "del"
         /\ DOMAIN body = {1}
    BY DEF Del, Step
  <2>2. q.op = "each" /\ q.t = "oidclinks" /\ q.via = "oidclinks" /\ q.body = body /\ q.failed = "on"
    BY DEF Each, Step
  <2> HIDE DEF body, q
  <2> QED
    BY <2>1, <2>2 DEF EachDels, Cascading, CascadeStep
<1> HIDE DEF p, q, s
<1>9. Link(d, v, p) /\ Link(d, p, q) /\ Link(d, q, s)
  BY <1>1, <1>3, <1>4, <1>5, NoNeeds
<1> DEFINE x == <<v, p, q, s>>
<1>10. x \in Todos(d)
  BY <1>1, <1>3, <1>4, <1>5, <1>6, <1>9, FourTodo DEF Top, Light
<1>11. DOMAIN x = {1, 2, 3, 4} /\ x[1] = v /\ x[2] = p /\ x[3] = q /\ x[4] = s
  OBVIOUS
<1> HIDE DEF x
<1>12. \A i \in DOMAIN x : TopShape(x[i]) /\ ~Rewrites(x[i]) /\ ~TokenRead(x[i]) /\ ~Forgets(x[i])
                            /\ Cascading(x[i]) /\ x[i].op # "get"
  BY <1>1, <1>3, <1>4, <1>5, <1>6, <1>7, <1>8, <1>11 DEF Light
<1>13. Cascades(d, x)
  <2>1. s.op # "each"
    BY DEF Del, Step, s
  <2>2. Clears(d, v) /\ Clears(d, p) /\ Clears(d, q) /\ Clears(d, s)
    BY <1>1, <1>7, <1>8, <2>1 DEF Clears
  <2> QED
    BY <1>1, <1>7, <1>8, <1>11, <1>12, <2>2 DEF Cascades
<1>14. Startable(d, x)
  BY <1>1, <1>10, <1>11, <1>12, <1>13 DEF Startable, Covered, TokenOnce, ForgetLast
<1>15. <<v>> \o <<p>> \o <<q>> \o <<s>> = <<v, p, q, s>>
  <2>1. <<v>> \o <<p>> = <<v, p>>
    BY Join11
  <2>2. <<v, p>> \o <<q>> = <<v, p, q>>
    BY Join21
  <2>3. <<v, p, q>> \o <<s>> = <<v, p, q, s>>
    BY Join31
  <2> QED
    BY <2>1, <2>2, <2>3
<1> QED
  BY <1>2, <1>14, <1>15 DEF x

\* The sending of digests
LEMMA FlushDigestsStarted ==
  ASSUME NEW d \in Drivers
  PROVE  Startable(d, FlushDigests(d))
<1> DEFINE p == Each("digests", "digests", "end", <<>>)
           q == Get("prefs", "end")
           s == Send("digests")
           e == Each("digests", "digests", "on", <<Del("digests", "out")>>)
           f == Purge("digests", "on")
           u == IF d = "mongo" THEN f ELSE e
<1>1. FlushDigests(d) = <<p>> \o <<q>> \o <<s>> \o <<u>>
  BY DEF FlushDigests, ListDigests, GetNotificationPrefs, DeleteDigests, By, MongoDeleteDigests, BboltDeleteDigests
<1>2. p \in AnyStep(d) /\ Light(p) /\ ~NeedsBefore(d, p) /\ ~NeedsAfter(p) /\ ~Rewrites(p)
  BY EachDigest
<1>3. e \in AnyStep(d) /\ Light(e) /\ NeedsBefore(d, e) /\ ~NeedsAfter(e) /\ ~Rewrites(e)
  BY EachDigestDeleted
<1>4. f \in AnyStep(d) /\ Light(f) /\ NeedsBefore(d, f) /\ ~NeedsAfter(f) /\ ~Rewrites(f)
  BY Singles, FlatAny
<1>5. q \in AnyStep(d) /\ Light(q) /\ ~NeedsAfter(q) /\ ~Rewrites(q)
  BY Singles, FlatAny
<1>6. s \in AnyStep(d) /\ Light(s) /\ ~NeedsAfter(s) /\ ~Rewrites(s)
  BY Singles, FlatAny
<1>7. Gives(d, p, q)
  BY DEF Each, Get, Step, Gives, SessionDel, PrefsRead, DigestList, DigestLoop
<1>8. Gives(d, q, s)
  BY DEF Send, Get, Step, Gives, SessionDel, PrefsRead, DigestList, DigestLoop
<1>9. Gives(d, s, e)
  <2> DEFINE body == <<Del("digests", "out")>>
  <2>1. s.op = "send"
    BY DEF Send, Step
  <2>2. e.op = "each" /\ e.t = "digests"
    BY DEF Each, Step
  <2> HIDE DEF s, e
  <2> QED
    BY <2>1, <2>2 DEF Gives, SessionDel, PrefsRead
<1>10. Gives(d, s, f)
  BY DEF Send, Purge, Step, Gives, SessionDel, PrefsRead, DigestList, DigestLoop
<1> HIDE DEF p, q, s, e, f
<1>11. u \in AnyStep(d) /\ Light(u) /\ ~NeedsAfter(u) /\ ~Rewrites(u) /\ Gives(d, s, u)
  BY <1>3, <1>4, <1>9, <1>10
<1> HIDE DEF u
<1>12. Link(d, p, q) /\ Link(d, q, s) /\ Link(d, s, u)
  BY <1>2, <1>5, <1>6, <1>7, <1>8, <1>11 DEF Link, Light, TopShape
<1> DEFINE x == <<p, q, s, u>>
<1>13. x \in Todos(d)
  BY <1>2, <1>5, <1>6, <1>11, <1>12, FourTodo DEF Top, Light
<1>14. DOMAIN x = {1, 2, 3, 4} /\ x[1] = p /\ x[2] = q /\ x[3] = s /\ x[4] = u
  OBVIOUS
<1> HIDE DEF x
<1>15. \A i \in DOMAIN x : Light(x[i]) /\ ~Rewrites(x[i])
  BY <1>2, <1>5, <1>6, <1>11, <1>14
<1>16. Startable(d, x)
  BY <1>2, <1>13, <1>14, <1>15 DEF Startable, Covered, TokenOnce, ForgetLast, Cascades, Light
<1>17. <<p>> \o <<q>> \o <<s>> \o <<u>> = <<p, q, s, u>>
  <2>1. <<p>> \o <<q>> = <<p, q>>
    BY Join11
  <2>2. <<p, q>> \o <<s>> = <<p, q, s>>
    BY Join21
  <2>3. <<p, q, s>> \o <<u>> = <<p, q, s, u>>
    BY Join31
  <2> QED
    BY <2>1, <2>2, <2>3
<1> QED
  BY <1>1, <1>16, <1>17 DEF x

\* Handlers of OIDC logins
LEMMA TakeStarted ==
  ASSUME NEW d, NEW x \in Todos(d), x # <<>>, x[1].op = "take", NEW y \in Easy(d), Covered(x),
         \A i \in DOMAIN x : TopShape(x[i]) /\ ~TokenRead(x[i]) /\ ~Forgets(x[i]) /\ ~UserDel(x[i])
  PROVE  Startable(d, x \o y)
<1> DEFINE z == x \o y
<1>1. /\ x \in Seq(AnyStep(d)) /\ y \in Seq(AnyStep(d)) /\ Chain(d, x) /\ Chain(d, y) /\ (y # <<>> => ~NeedsBefore(d, y[1]))
      /\ Covered(y) /\ \A i \in DOMAIN y : Light(y[i])
  BY DEF Easy, Programs, AnyStep, Todos
<1>2. /\ z \in Seq(AnyStep(d)) /\ Len(z) = Len(x) + Len(y)
      /\ \A i \in 1..Len(x) : z[i] = x[i]
      /\ \A j \in 1..Len(y) : z[Len(x) + j] = y[j]
  BY <1>1, ConcatFacts
<1>3. Chain(d, z)
  BY <1>1, ChainsJoin
<1>a. /\ Len(x) \in Nat /\ Len(y) \in Nat /\ Len(x) >= 1
      /\ DOMAIN x = 1..Len(x) /\ DOMAIN y = 1..Len(y) /\ DOMAIN z = 1..Len(x) + Len(y)
  <2>1. Len(x) \in Nat /\ Len(y) \in Nat /\ DOMAIN x = 1..Len(x) /\ DOMAIN y = 1..Len(y) /\ Len(x) >= 1
    BY <1>1
  <2> HIDE DEF z
  <2>2. DOMAIN z = 1..Len(z)
    BY <1>2
  <2> QED
    BY <1>2, <2>1, <2>2
<1> HIDE DEF z
<1>4. z \in Todos(d)
  BY <1>2, <1>3 DEF Todos
<1>5. z # <<>> /\ z[1].op = "take"
  <2>1. 1 \in 1..Len(x) /\ 1 \in DOMAIN z
    BY <1>a
  <2> QED
    BY <1>2, <2>1
<1>6. \A i \in DOMAIN z : i \in DOMAIN x \/ (i - Len(x) \in DOMAIN y /\ z[i] = y[i - Len(x)] /\ Light(z[i]))
  <2> SUFFICES ASSUME NEW i \in DOMAIN z, i \notin DOMAIN x
               PROVE  i - Len(x) \in DOMAIN y /\ z[i] = y[i - Len(x)] /\ Light(z[i])
    OBVIOUS
  <2> DEFINE j == i - Len(x)
  <2>1. j \in 1..Len(y) /\ i = Len(x) + j
    BY <1>a
  <2> HIDE DEF j
  <2>2. z[i] = y[j] /\ j \in DOMAIN y
    BY <1>2, <1>a, <2>1
  <2> QED
    BY <1>1, <2>2 DEF j
<1>7. \A i \in DOMAIN z : TopShape(z[i]) /\ ~TokenRead(z[i]) /\ ~Forgets(z[i]) /\ ~UserDel(z[i])
  <2>1. \A i \in DOMAIN x : z[i] = x[i]
    BY <1>2, <1>a
  <2> QED
    BY <1>6, <2>1 DEF Light
<1>8. Covered(z)
  <2> SUFFICES ASSUME NEW i \in DOMAIN z, Rewrites(z[i])
               PROVE  \E j \in 1..i - 1 : z[j].op = "get" /\ z[j].t = z[i].t
    BY DEF Covered
  <2>1. CASE i \in DOMAIN x
    <3>1. z[i] = x[i]
      BY <1>2, <1>a, <2>1
    <3>2. PICK l \in 1..i - 1 : x[l].op = "get" /\ x[l].t = x[i].t
      BY <2>1, <3>1 DEF Covered
    <3>3. l \in 1..Len(x)
      BY <1>a, <2>1
    <3> QED
      BY <1>2, <3>1, <3>2, <3>3
  <2>2. CASE i \notin DOMAIN x
    <3> DEFINE k == i - Len(x)
    <3>1. k \in DOMAIN y /\ z[i] = y[k] /\ i = Len(x) + k
      BY <1>a, <1>6, <2>2
    <3> HIDE DEF k
    <3>2. PICK l \in 1..k - 1 : y[l].op = "get" /\ y[l].t = y[k].t
      BY <1>1, <3>1 DEF Covered
    <3>3. l \in 1..Len(y) /\ Len(x) + l \in 1..i - 1
      BY <1>a, <3>1
    <3>4. z[Len(x) + l] = y[l]
      BY <1>2, <3>3
    <3> QED
      BY <3>1, <3>2, <3>3, <3>4
  <2> QED
    BY <2>1, <2>2
<1>9. Startable(d, z)
  BY <1>4, <1>5, <1>7, <1>8 DEF Startable, TokenOnce, ForgetLast, Cascades
<1> QED
  BY <1>9 DEF z

LEMMA OIDCCallbackStarted ==
  ASSUME NEW d \in Drivers
  PROVE  Startable(d, OIDCCallback(d))
<1> DEFINE p == Take("states")
           q == Get("oidclinks", "end")
           s == Put("oidclinks", "on")
           y == StartSession(d)
<1>1. OIDCCallback(d) = <<p>> \o <<q>> \o <<s>> \o y
  BY DEF OIDCCallback, GetOIDCLink, PutOIDCLink
<1>2. p \in AnyStep(d) /\ Light(p) /\ ~NeedsAfter(p) /\ ~Rewrites(p)
  BY Singles, FlatAny
<1>3. Calm(d, q) /\ ~Rewrites(q)
  BY Gets DEF Modes
<1>4. Calm(d, s)
  BY Puts DEF Modes
<1>5. p.op = "take" /\ q.op = "get" /\ q.t = s.t
  BY DEF Take, Get, Put, Step
<1>6. s \in AnyStep(d) /\ Light(s) /\ ~NeedsBefore(d, s) /\ ~NeedsAfter(s)
  BY <1>4, FlatAny DEF Calm
<1>7. q \in AnyStep(d) /\ Light(q) /\ ~NeedsBefore(d, q) /\ ~NeedsAfter(q)
  BY <1>3, FlatAny DEF Calm
<1> HIDE DEF p, q, s
<1>8. Link(d, p, q) /\ Link(d, q, s)
  BY <1>2, <1>6, <1>7, NoNeeds
<1> DEFINE x == <<p, q, s>>
<1>9. x \in Todos(d)
  BY <1>2, <1>6, <1>7, <1>8, ThreeTodo DEF Top, Light
<1>10. DOMAIN x = {1, 2, 3} /\ x[1] = p /\ x[2] = q /\ x[3] = s /\ x # <<>>
  OBVIOUS
<1> HIDE DEF x
<1>11. \A i \in DOMAIN x : TopShape(x[i]) /\ ~TokenRead(x[i]) /\ ~Forgets(x[i]) /\ ~UserDel(x[i])
  BY <1>2, <1>6, <1>7, <1>10 DEF Light
<1>12. Covered(x)
  <2>1. 2 \in 1..3 - 1
    OBVIOUS
  <2>2. \A i \in DOMAIN x : Rewrites(x[i]) => i = 3
    BY <1>2, <1>3, <1>10
  <2> QED
    BY <1>5, <1>10, <2>1, <2>2 DEF Covered
<1>13. y \in Easy(d)
  BY StartSessionPart
<1> HIDE DEF y
<1>14. Startable(d, x \o y)
  BY <1>5, <1>9, <1>10, <1>11, <1>12, <1>13, TakeStarted
<1>15. <<p>> \o <<q>> \o <<s>> = <<p, q, s>>
  <2>1. <<p>> \o <<q>> = <<p, q>>
    BY Join11
  <2>2. <<p, q>> \o <<s>> = <<p, q, s>>
    BY Join21
  <2> QED
    BY <2>1, <2>2
<1> QED
  BY <1>1, <1>14, <1>15 DEF x

LEMMA OIDCCreatesStarted ==
  ASSUME NEW d \in Drivers
  PROVE  Startable(d, OIDCCreates(d))
<1> DEFINE p == Take("states")
           q == Vacant("oidclinks")
           g == Get("users", "on")
           b == Blank("users", "end")
           s == Blank("oidclinks", "on")
           y == StartSession(d)
<1>1. OIDCCreates(d) = <<p, q, g, b, s>> \o y
  BY DEF OIDCCreates
<1>2. p \in AnyStep(d) /\ Light(p) /\ ~NeedsAfter(p) /\ ~Rewrites(p)
  BY Singles, FlatAny
<1>3. q \in AnyStep(d) /\ Light(q) /\ ~NeedsBefore(d, q) /\ ~NeedsAfter(q) /\ ~Rewrites(q)
  BY Singles, FlatAny
<1>4. Calm(d, g) /\ ~Rewrites(g)
  BY Gets DEF Modes
<1>5. Calm(d, b) /\ ~Rewrites(b) /\ Calm(d, s) /\ ~Rewrites(s)
  BY Blanks DEF Modes
<1>6. p.op = "take"
  BY DEF Take, Step
<1>7. g \in AnyStep(d) /\ Light(g) /\ ~NeedsBefore(d, g) /\ ~NeedsAfter(g)
  BY <1>4, FlatAny DEF Calm
<1>8. /\ b \in AnyStep(d) /\ Light(b) /\ ~NeedsBefore(d, b) /\ ~NeedsAfter(b)
      /\ s \in AnyStep(d) /\ Light(s) /\ ~NeedsBefore(d, s) /\ ~NeedsAfter(s)
  BY <1>5, FlatAny DEF Calm
<1> HIDE DEF p, q, g, b, s
<1>9. Link(d, p, q) /\ Link(d, q, g) /\ Link(d, g, b) /\ Link(d, b, s)
  BY <1>2, <1>3, <1>7, <1>8, NoNeeds
<1> DEFINE x == <<p, q, g, b, s>>
<1>10. x \in Todos(d)
  BY <1>2, <1>3, <1>7, <1>8, <1>9, FiveTodo DEF Top, Light
<1>11. DOMAIN x = {1, 2, 3, 4, 5} /\ x[1] = p /\ x[2] = q /\ x[3] = g /\ x[4] = b /\ x[5] = s /\ x # <<>>
  OBVIOUS
<1> HIDE DEF x
<1>12. \A i \in DOMAIN x : TopShape(x[i]) /\ ~TokenRead(x[i]) /\ ~Forgets(x[i]) /\ ~UserDel(x[i]) /\ ~Rewrites(x[i])
  BY <1>2, <1>3, <1>4, <1>5, <1>7, <1>8, <1>11 DEF Light
<1>13. Covered(x)
  BY <1>12 DEF Covered
<1>14. y \in Easy(d)
  BY StartSessionPart
<1> HIDE DEF y
<1>15. Startable(d, x \o y)
  BY <1>6, <1>10, <1>11, <1>12, <1>13, <1>14, TakeStarted
<1> QED
  BY <1>1, <1>15 DEF x

\* Every handler is one
LEMMA HandlersStarted ==
  ASSUME NEW d \in Drivers
  PROVE  /\ \A h \in Handlers(d) : Startable(d, h)
         /\ Startable(d, DeleteInactiveSessions(d))
<1>1. \A h \in Easy(d) : Startable(d, h)
  BY EasyStarted
<1>2. DeleteInactiveSessions(d) \in Easy(d)
  BY DeleteSessionsPart
<1>3. \A h \in SessionOps(d) : Startable(d, h)
  BY <1>1, SessionHandlers, ResetPasswordStarted
<1>4. \A h \in CredentialOps(d) : Startable(d, h)
  BY <1>1, CredentialHandlers, ResetExpiredStarted, OIDCCallbackStarted, OIDCCreatesStarted
<1>5. \A h \in AdminOps(d) : Startable(d, h)
  BY <1>1, AdminHandlers, DeleteUserStarted, ResetPasswordStarted
<1>6. \A h \in TeamOps(d) : Startable(d, h)
  BY <1>1, TeamHandlers, SpaceHandlers
<1>7. \A h \in RecordOps(d) : Startable(d, h)
  BY <1>1, RecordHandlers, FlushDigestsStarted
<1> QED
  BY <1>1, <1>2, <1>3, <1>4, <1>5, <1>6, <1>7 DEF Handlers

-----------------------------------------------------------------------------
\* What a goroutine goes on with

\* What a goroutine still has to do, q, after what it had, r: the steps X put before, and
\* the old ones from the n-th on
Onward(d, r, q, X, n) ==
  /\ n \in 2..Len(r.todo) + 1
  /\ X \in Programs(d, Bodies2(d)) /\ (X # <<>> => n = 2)
  /\ q.todo = X \o From(r.todo, n) /\ q.todo # <<>> /\ q.todo \in Todos(d)
  /\ (NeedsBefore(d, q.todo[1]) => X = <<>> /\ n = 2)
  /\ q.key = r.key /\ r.touched \subseteq q.touched

\* The step that is at place i now was at this one.
Was(X, n, i) == i - Len(X) + n - 1

LEMMA TodoLens ==
  ASSUME NEW d, NEW s \in Todos(d)
  PROVE  /\ s \in Seq(AnyStep(d)) /\ Chain(d, s) /\ Len(s) \in Nat /\ DOMAIN s = 1..Len(s)
         /\ s # <<>> => Len(s) >= 1 /\ 1 \in DOMAIN s /\ s[1] \in AnyStep(d) /\ Head(s) = s[1]
         /\ \A i \in DOMAIN s : s[i] \in AnyStep(d)
<1>1. s \in Seq(AnyStep(d)) /\ Chain(d, s)
  BY DEF Todos
<1> QED
  BY <1>1

LEMMA OnwardSteps ==
  ASSUME NEW d, NEW r, NEW q, NEW X, NEW n, r.todo \in Todos(d), Onward(d, r, q, X, n)
  PROVE  /\ Len(X) \in Nat /\ DOMAIN X = 1..Len(X) /\ Len(q.todo) = Len(X) + Len(r.todo) - n + 1
         /\ DOMAIN q.todo = 1..Len(q.todo)
         /\ \A i \in DOMAIN q.todo : \/ i \in DOMAIN X /\ q.todo[i] = X[i]
                                     \/ /\ i > Len(X) /\ Was(X, n, i) \in n..Len(r.todo)
                                        /\ q.todo[i] = r.todo[Was(X, n, i)]
         /\ \A i \in DOMAIN X : i \in DOMAIN q.todo /\ q.todo[i] = X[i]
         /\ \A j \in n..Len(r.todo) : /\ j - n + 1 + Len(X) \in DOMAIN q.todo
                                      /\ q.todo[j - n + 1 + Len(X)] = r.todo[j]
<1> DEFINE s == r.todo
           z == q.todo
           F == From(s, n)
<1>1. s \in Seq(AnyStep(d)) /\ Len(s) \in Nat /\ X \in Seq(AnyStep(d)) /\ n \in 1..Len(s) + 1 /\ n \in 2..Len(s) + 1
  BY DEF Todos, Onward, Programs, AnyStep
<1>2. Len(X) \in Nat /\ DOMAIN X = 1..Len(X)
  BY <1>1
<1>3. F \in Seq(AnyStep(d)) /\ Len(F) = Len(s) - n + 1 /\ \A i \in 1..Len(s) - n + 1 : F[i] = s[i + n - 1]
  BY <1>1, FromFacts
<1>4. z = X \o F
  BY DEF Onward
<1> HIDE DEF F, s
<1>a. /\ X \o F \in Seq(AnyStep(d)) /\ Len(X \o F) = Len(X) + Len(F)
      /\ \A i \in 1..Len(X) : (X \o F)[i] = X[i]
      /\ \A j \in 1..Len(F) : (X \o F)[Len(X) + j] = F[j]
  <2>1. X \in Seq(AnyStep(d)) /\ F \in Seq(AnyStep(d))
    BY <1>1, <1>3
  <2> QED
    BY <2>1, ConcatFacts
<1> HIDE DEF z
<1>5. /\ z \in Seq(AnyStep(d)) /\ Len(z) = Len(X) + Len(F)
      /\ \A i \in 1..Len(X) : z[i] = X[i]
      /\ \A j \in 1..Len(F) : z[Len(X) + j] = F[j]
  BY <1>4, <1>a
<1>6. DOMAIN z = 1..Len(z)
  BY <1>5
<1>7. Len(z) = Len(X) + Len(s) - n + 1
  BY <1>1, <1>2, <1>3, <1>5
<1>8. ASSUME NEW i \in DOMAIN z, i \notin DOMAIN X
      PROVE  i > Len(X) /\ Was(X, n, i) \in n..Len(s) /\ z[i] = s[Was(X, n, i)]
  <2> DEFINE j == i - Len(X)
  <2>1. i \in Nat /\ i > Len(X) /\ j \in 1..Len(F) /\ i = Len(X) + j
    BY <1>1, <1>2, <1>3, <1>5, <1>6, <1>8
  <2>2. Was(X, n, i) = j + n - 1
    BY <1>1, <1>2, <2>1 DEF Was
  <2> HIDE DEF j
  <2>3. z[i] = F[j] /\ F[j] = s[j + n - 1]
    BY <1>3, <1>5, <2>1
  <2>4. j + n - 1 \in n..Len(s)
    BY <1>1, <1>3, <2>1
  <2> QED
    BY <2>1, <2>2, <2>3, <2>4
<1>9. ASSUME NEW j \in n..Len(s)
      PROVE  j - n + 1 + Len(X) \in DOMAIN z /\ z[j - n + 1 + Len(X)] = s[j]
  <2> DEFINE k == j - n + 1
  <2>1. k \in 1..Len(F) /\ j = k + n - 1 /\ j \in Nat /\ n \in Nat
    BY <1>1, <1>3
  <2>2. j - n + 1 + Len(X) = Len(X) + k
    BY <1>1, <1>2, <2>1
  <2> HIDE DEF k
  <2>3. z[Len(X) + k] = F[k] /\ F[k] = s[k + n - 1]
    BY <1>3, <1>5, <2>1
  <2>4. Len(X) + k \in 1..Len(z)
    <3>1. Len(X) \in Nat /\ Len(F) \in Nat /\ Len(z) = Len(X) + Len(F) /\ k \in 1..Len(F)
      BY <1>2, <1>3, <1>5, <2>1
    <3> QED
      BY <3>1
  <2> QED
    BY <1>6, <2>1, <2>2, <2>3, <2>4
<1>10. \A i \in DOMAIN X : i \in DOMAIN z /\ z[i] = X[i]
  BY <1>1, <1>2, <1>5, <1>6, <1>7
<1> QED
  BY <1>2, <1>6, <1>7, <1>8, <1>9, <1>10 DEF s, z

\* The next step after one that was done, if it is not one put before
LEMMA NextStep ==
  ASSUME NEW d, NEW r, NEW q, r.todo \in Todos(d), Onward(d, r, q, <<>>, 2)
  PROVE  /\ Len(r.todo) >= 2 /\ 2 \in DOMAIN r.todo /\ q.todo[1] = r.todo[2] /\ Link(d, r.todo[1], q.todo[1])
         /\ 3 \in DOMAIN r.todo => 2 \in DOMAIN q.todo /\ q.todo[2] = r.todo[3]
         /\ 2 \in DOMAIN q.todo => 3 \in DOMAIN r.todo /\ q.todo[2] = r.todo[3]
<1> DEFINE s == r.todo
           z == q.todo
<1>1. /\ Len(z) = Len(s) - 1 /\ DOMAIN z = 1..Len(z)
      /\ \A j \in 2..Len(s) : j - 2 + 1 + 0 \in DOMAIN z /\ z[j - 2 + 1 + 0] = s[j]
  <2> DEFINE X == <<>>
  <2>1. Len(X) = 0
    OBVIOUS
  <2>a. Onward(d, r, q, X, 2)
    OBVIOUS
  <2> HIDE DEF X
  <2>2. /\ Len(z) = Len(X) + Len(s) - 2 + 1 /\ DOMAIN z = 1..Len(z)
        /\ \A j \in 2..Len(s) : j - 2 + 1 + Len(X) \in DOMAIN z /\ z[j - 2 + 1 + Len(X)] = s[j]
    BY <2>a, OnwardSteps, SMTT(20)
  <2>3. Len(s) \in Nat
    BY TodoLens
  <2> HIDE DEF s, z
  <2> QED
    BY <2>1, <2>2, <2>3
<1>2. /\ s \in Seq(AnyStep(d)) /\ Chain(d, s) /\ Len(s) \in Nat /\ DOMAIN s = 1..Len(s)
  BY TodoLens
<1>3. z \in Todos(d) /\ z # <<>>
  BY DEF Onward
<1>4. Len(z) >= 1
  BY <1>3, TodoLens
<1> HIDE DEF s, z
<1>5. Len(s) >= 2 /\ 2 \in DOMAIN s
  BY <1>1, <1>2, <1>4
<1>6. z[1] = s[2]
  <2>1. 2 - 2 + 1 + 0 = 1 /\ 2 \in 2..Len(s)
    BY <1>2, <1>5
  <2> QED
    BY <1>1, <2>1
<1>7. 3 \in DOMAIN s => 2 \in DOMAIN z /\ z[2] = s[3]
  <2>1. 3 - 2 + 1 + 0 = 2 /\ (3 \in DOMAIN s => 3 \in 2..Len(s))
    BY <1>2
  <2> QED
    BY <1>1, <2>1
<1>8. Link(d, s[2 - 1], s[2])
  BY <1>2, <1>5 DEF Chain
<1>9. 2 \in DOMAIN z => 3 \in DOMAIN s
  BY <1>1, <1>2
<1> QED
  BY <1>5, <1>6, <1>7, <1>8, <1>9 DEF s, z

\* A step done, and steps put before the others
LEMMA DoneOnward ==
  ASSUME NEW d, NEW r, NEW q, r.todo \in Todos(d), r.todo # <<>>, q.todo = Tail(r.todo), q.todo # <<>>,
         q.key = r.key, r.touched \subseteq q.touched
  PROVE  Onward(d, r, q, <<>>, 2)
<1> DEFINE s == r.todo
<1>1. s \in Seq(AnyStep(d)) /\ Len(s) >= 1 /\ Len(s) \in Nat
  BY TodoLens
<1> HIDE DEF s
<1>2. 2 \in 2..Len(s) + 1 /\ 2 \in 1..Len(s) + 1
  BY <1>1
<1>3. Tail(s) = From(s, 2)
  BY <1>1, TailIsFrom DEF s
<1>4. From(s, 2) \in Todos(d)
  BY <1>2, TodosFrom DEF s
<1>5. <<>> \o From(s, 2) = From(s, 2)
  BY <1>4, TodoLens
<1>6. <<>> \in Programs(d, Bodies2(d))
  BY NothingProgram
<1> QED
  BY <1>2, <1>3, <1>4, <1>5, <1>6 DEF Onward, s

LEMMA BeforeOnward ==
  ASSUME NEW d, NEW r, NEW q, NEW X \in Programs(d, Bodies2(d)), r.todo \in Todos(d), r.todo # <<>>,
         r.todo[1].body = <<>> => X = <<>>, q.todo = X \o Tail(r.todo), q.todo # <<>>,
         q.key = r.key, r.touched \subseteq q.touched
  PROVE  Onward(d, r, q, X, 2)
<1> DEFINE s == r.todo
<1>1. s \in Seq(AnyStep(d)) /\ Len(s) >= 1 /\ Len(s) \in Nat
  BY TodoLens
<1>2. 2 \in 2..Len(s) + 1 /\ 2 \in 1..Len(s) + 1
  BY <1>1
<1>3. Tail(s) = From(s, 2)
  BY <1>1, TailIsFrom
<1>4. X \o From(s, 2) \in Todos(d)
  BY TodosJoin
<1> HIDE DEF s
<1>5. ASSUME X # <<>> PROVE ~NeedsBefore(d, q.todo[1])
  <2>1. X \in Seq(AnyStep(d)) /\ ~NeedsBefore(d, X[1])
    BY <1>5 DEF Programs, AnyStep
  <2>2. From(s, 2) \in Seq(AnyStep(d))
    BY <1>1, <1>2, FromFacts
  <2>3. 1 \in 1..Len(X)
    BY <1>5, <2>1
  <2>4. (X \o From(s, 2))[1] = X[1]
    BY <2>1, <2>2, <2>3, ConcatFacts
  <2> QED
    BY <1>3, <2>1, <2>4 DEF s
<1> QED
  BY <1>2, <1>3, <1>4, <1>5 DEF Onward, s

\* A lap, or a loop, left
LEMMA LeaveOnward ==
  ASSUME NEW d, NEW r, NEW q, NEW keys, r.todo \in Todos(d), r.todo # <<>>, q.todo = Leave(r.todo, keys), q.todo # <<>>,
         q.key = r.key, r.touched \subseteq q.touched
  PROVE  \E n : /\ Onward(d, r, q, <<>>, n)
                /\ \A i \in 2..n - 1 : r.todo[i].key \in keys
                /\ n \in DOMAIN r.todo => r.todo[n].key \notin keys
<1> DEFINE s == r.todo
<1>1. s \in Seq(AnyStep(d)) /\ Len(s) >= 1 /\ Len(s) \in Nat /\ Chain(d, s) /\ DOMAIN s = 1..Len(s)
  BY TodoLens
<1> HIDE DEF s
<1>2. PICK n \in 2..Len(s) + 1 : /\ Leave(s, keys) = From(s, n)
                                 /\ \A i \in 2..n - 1 : s[i].key \in keys
                                 /\ n \in DOMAIN s => s[n].key \notin keys
  BY <1>1, LeaveFacts DEF s
<1>3. n \in 1..Len(s) + 1
  BY <1>1, <1>2
<1>4. From(s, n) \in Todos(d)
  BY <1>3, TodosFrom DEF s
<1>5. <<>> \o From(s, n) = From(s, n)
  BY <1>4, TodoLens
<1>6. <<>> \in Programs(d, Bodies2(d))
  BY NothingProgram
<1>7. ASSUME n # 2 PROVE ~NeedsBefore(d, q.todo[1])
  <2>1. From(s, n) # <<>>
    BY <1>2 DEF s
  <2>2. Len(From(s, n)) = Len(s) - n + 1 /\ \A i \in 1..Len(s) - n + 1 : From(s, n)[i] = s[i + n - 1]
    BY <1>1, <1>3, FromFacts
  <2>3. Len(From(s, n)) >= 1
    BY <1>4, <2>1, TodoLens
  <2>4. n \in 3..Len(s) /\ n \in Nat /\ n \in 2..Len(s)
    BY <1>1, <1>2, <1>7, <2>2, <2>3
  <2>5. From(s, n)[1] = s[n]
    <3>1. 1 \in 1..Len(s) - n + 1 /\ 1 + n - 1 = n
      BY <1>1, <2>4
    <3> QED
      BY <2>2, <3>1
  <2>6. Link(d, s[n - 1], s[n])
    BY <1>1, <2>4 DEF Chain
  <2>7. s[n - 1].key \in keys /\ s[n].key \notin keys
    <3>1. n - 1 \in 2..n - 1 /\ n \in DOMAIN s
      BY <1>1, <2>4
    <3> QED
      BY <1>2, <3>1
  <2> QED
    BY <1>2, <2>5, <2>6, <2>7 DEF Link, s
<1>8. Onward(d, r, q, <<>>, n)
  BY <1>2, <1>4, <1>5, <1>6, <1>7 DEF Onward, s
<1> QED
  BY <1>2, <1>8 DEF s

-----------------------------------------------------------------------------
\* Types: what a goroutine is doing

\* What a goroutine is doing, and what it is when nothing is left to do
Doing(todo, key, fresh, copy, touched) ==
  [todo |-> todo, key |-> key, fresh |-> fresh, copy |-> copy, touched |-> touched]

LEMMA DoingFacts ==
  ASSUME NEW x, NEW k, NEW f, NEW c, NEW g
  PROVE  LET r == Doing(x, k, f, c, g) IN
         /\ r.todo = x /\ r.key = k /\ r.fresh = f /\ r.copy = c /\ r.touched = g
         /\ \A y : [r EXCEPT !.todo = y] = Doing(y, k, f, c, g)
         /\ \A y : [r EXCEPT !.fresh = y] = Doing(x, k, y, c, g)
         /\ \A y : [r EXCEPT !.copy = y] = Doing(x, k, f, y, g)
         /\ \A y : [r EXCEPT !.touched = y] = Doing(x, k, f, c, y)
BY DEF Doing

LEMMA RestFacts ==
  /\ AtRest = Doing(<<>>, 0, 0, NoCopy, {}) /\ AtRest.todo = <<>> /\ AtRest.key = 0 /\ AtRest.fresh = 0
  /\ AtRest.copy = NoCopy /\ DOMAIN AtRest.copy = {} /\ AtRest.touched = {}
  /\ \A d : IsRun(d, AtRest)
  /\ \A x, k : Begun(x, k) = Doing(x, k, 0, NoCopy, {})
<1>1. /\ AtRest = Doing(<<>>, 0, 0, NoCopy, {}) /\ AtRest.todo = <<>> /\ AtRest.key = 0 /\ AtRest.fresh = 0
      /\ AtRest.copy = NoCopy /\ AtRest.touched = {}
  BY DEF AtRest, Doing
<1>2. DOMAIN AtRest.copy = {}
  BY <1>1 DEF NoCopy
<1>3. \A d : <<>> \in Todos(d)
  BY DEF Todos, Chain
<1>4. AtRest = [todo |-> AtRest.todo, key |-> AtRest.key, fresh |-> AtRest.fresh, copy |-> AtRest.copy, touched |-> AtRest.touched]
  BY DEF AtRest
<1>5. \A d : IsRun(d, AtRest)
  BY <1>1, <1>2, <1>3, <1>4 DEF IsRun, Keys0
<1>6. \A x, k : Begun(x, k) = Doing(x, k, 0, NoCopy, {})
  <2> SUFFICES ASSUME NEW x, NEW k
               PROVE  Begun(x, k) = Doing(x, k, 0, NoCopy, {})
    OBVIOUS
  <2> DEFINE b == [AtRest EXCEPT !.todo = x]
  <2>1. b = Doing(x, 0, 0, NoCopy, {})
    <3> DEFINE e == <<>>
               r == AtRest
    <3>1. r = Doing(e, 0, 0, NoCopy, {})
      BY <1>1
    <3> HIDE DEF e, r
    <3>2. [r EXCEPT !.todo = x] = Doing(x, 0, 0, NoCopy, {})
      BY <3>1 DEF Doing
    <3> QED
      BY <3>2 DEF r
  <2>2. Begun(x, k) = [b EXCEPT !.key = k]
    BY DEF Begun
  <2> HIDE DEF b
  <2>3. [b EXCEPT !.key = k] = Doing(x, k, 0, NoCopy, {})
    BY <2>1 DEF Doing
  <2> QED
    BY <2>2, <2>3
<1> QED
  BY <1>1, <1>2, <1>5, <1>6

LEMMA IsRunDoing ==
  ASSUME NEW d, NEW x, NEW k, NEW f, NEW c, NEW g
  PROVE  IsRun(d, Doing(x, k, f, c, g)) <=>
           x \in Todos(d) /\ k \in Keys0 /\ f \in Keys0 /\ DOMAIN c \subseteq Tables \X Keys0 /\ g \subseteq Asked
BY DEF IsRun, Doing

LEMMA RunIs ==
  ASSUME NEW d, NEW r, IsRun(d, r)
  PROVE  r = Doing(r.todo, r.key, r.fresh, r.copy, r.touched)
BY DEF IsRun, Doing

RunsTyped ==
  /\ run = [a \in Goroutines |-> run[a]] /\ \A a \in Goroutines : IsRun(driver, run[a])
  /\ \A a \in Goroutines : ~Active(a) => run[a] = AtRest

LEMMA KeysNat == Keys0 \subseteq Nat /\ 1 \in Keys0 /\ 1 \in Keys /\ 0 \notin Keys /\ IsFiniteSet(Keys0)
<1>1. Keys \subseteq Nat \ {0} /\ 1 \in Keys /\ IsFiniteSet(Keys)
  BY RecordsAssumption
<1>2. IsFiniteSet(Keys \cup {0})
  BY <1>1, FS_AddElement
<1> QED
  BY <1>1, <1>2 DEF Keys0

\* A goroutine that is doing something
LEMMA RunFacts ==
  ASSUME TypeInv, NEW a \in Goroutines, Active(a)
  PROVE  /\ run[a].todo \in Todos(driver) /\ run[a].todo # <<>> /\ Now(a) = run[a].todo[1] /\ Now(a) \in AnyStep(driver)
         /\ 1 \in DOMAIN run[a].todo
         /\ run[a].key \in Keys0 /\ run[a].fresh \in Keys0 /\ Now(a).key \in Keys0 /\ Key(a) \in Keys0
         /\ DOMAIN run[a].copy \subseteq Tables \X Keys0 /\ run[a].touched \subseteq Asked
         /\ run[a] = Doing(run[a].todo, run[a].key, run[a].fresh, run[a].copy, run[a].touched)
<1> DEFINE r == run[a]
<1>1. IsRun(driver, r)
  BY DEF TypeInv
<1>2. r.todo \in Todos(driver) /\ r.todo # <<>>
  BY <1>1 DEF IsRun, Active
<1>3. Now(a) = r.todo[1] /\ Now(a) \in AnyStep(driver) /\ 1 \in DOMAIN r.todo
  BY <1>2, TodoLens DEF Now
<1>4. Now(a).key \in Keys0
  BY <1>3 DEF AnyStep, StepsOf, Raw
<1>5. Key(a) \in Keys0
  BY <1>1, <1>4, KeysNat DEF Key, KeyOf, IsRun
<1> QED
  BY <1>1, <1>2, <1>3, <1>4, <1>5, RunIs DEF IsRun

\* What others see of a step: some tables they ask about were touched
Same(p, q, T) ==
  /\ q.todo = p.todo /\ q.key = p.key /\ q.fresh = p.fresh /\ q.copy = p.copy
  /\ p.touched \subseteq q.touched /\ (p.todo # <<>> => T \cap Asked \subseteq q.touched)
OthersSame(a, T) == \A b \in Goroutines \ {a} : Same(run[b], run'[b], T)

\* What the goroutine that takes the step does next: the next step, a later one, or a loop
Passes(a) == run'[a] = AtRest \/ Onward(driver, run[a], run'[a], <<>>, 2)
Skips(a)  == run'[a] = AtRest \/ \E n : Onward(driver, run[a], run'[a], <<>>, n)
Keeps(a, f, c) == run'[a] = AtRest \/ (run'[a].fresh = f /\ run'[a].copy = c)

LEMMA ProceedsFacts ==
  ASSUME TypeInv, driver' = driver, NEW a \in Goroutines, NEW q, Proceeds(a, q), IsRun(driver, q)
  PROVE  RunsTyped' /\ OthersSame(a, {}) /\ run'[a] = Or(q)
<1>1. run = [b \in Goroutines |-> run[b]] /\ \A b \in Goroutines : IsRun(driver, run[b]) /\ (~Active(b) => run[b] = AtRest)
  BY DEF TypeInv
<1>2. run' = [b \in Goroutines |-> IF b = a THEN Or(q) ELSE run[b]]
  BY <1>1 DEF Proceeds
<1>3. IsRun(driver, Or(q)) /\ (Or(q).todo = <<>> => Or(q) = AtRest)
  BY RestFacts DEF Or
<1>4. run'[a] = Or(q) /\ \A b \in Goroutines \ {a} : run'[b] = run[b]
  BY <1>2
<1>5. OthersSame(a, {})
  BY <1>4 DEF OthersSame, Same
<1>6. run' = [b \in Goroutines |-> run'[b]]
  BY <1>2
<1>7. \A b \in Goroutines : IsRun(driver', run'[b])
  BY <1>1, <1>3, <1>4
<1>8. \A b \in Goroutines : run'[b].todo = <<>> => run'[b] = AtRest
  BY <1>1, <1>3, <1>4 DEF Active
<1> QED
  BY <1>4, <1>5, <1>6, <1>7, <1>8 DEF RunsTyped, Active

LEMMA TouchesFacts ==
  ASSUME TypeInv, driver' = driver, NEW a \in Goroutines, NEW q, NEW T, Touches(a, q, T), IsRun(driver, q)
  PROVE  RunsTyped' /\ OthersSame(a, T) /\ run'[a] = Or(q)
<1>1. \A b \in Goroutines : IsRun(driver, run[b]) /\ (~Active(b) => run[b] = AtRest)
  BY DEF TypeInv
<1>2. run' = [b \in Goroutines |-> IF b = a THEN Or(q)
                                   ELSE IF Active(b) THEN [run[b] EXCEPT !.touched = @ \cup (T \cap Asked)]
                                   ELSE AtRest]
  BY DEF Touches
<1>3. IsRun(driver, Or(q)) /\ (Or(q).todo = <<>> => Or(q) = AtRest)
  BY RestFacts DEF Or
<1>4. run'[a] = Or(q)
  BY <1>2
<1>5. ASSUME NEW b \in Goroutines \ {a}
      PROVE  Same(run[b], run'[b], T) /\ IsRun(driver, run'[b]) /\ (run'[b].todo = <<>> => run'[b] = AtRest)
  <2>1. CASE Active(b)
    <3> DEFINE r == run[b]
               g == r.touched \cup (T \cap Asked)
    <3>1. r = Doing(r.todo, r.key, r.fresh, r.copy, r.touched)
      BY <1>1, RunIs
    <3>2. run'[b] = [r EXCEPT !.touched = g]
      BY <1>2, <2>1
    <3>3. run'[b] = Doing(r.todo, r.key, r.fresh, r.copy, g)
      <4> HIDE DEF g, r
      <4> QED
        BY <3>1, <3>2 DEF Doing
    <3>4. IsRun(driver, run'[b])
      <4>1. g \subseteq Asked
        BY <1>1 DEF IsRun
      <4>2. IsRun(driver, r)
        BY <1>1
      <4> HIDE DEF g, r
      <4> QED
        BY <3>3, <4>1, <4>2, IsRunDoing DEF IsRun
    <3>5. /\ run'[b].todo = r.todo /\ run'[b].key = r.key /\ run'[b].fresh = r.fresh /\ run'[b].copy = r.copy
          /\ run'[b].touched = g
      <4> HIDE DEF g, r
      <4> QED
        BY <3>3, DoingFacts
    <3> QED
      BY <2>1, <3>4, <3>5 DEF Same, Active
  <2>2. CASE ~Active(b)
    <3>1. run'[b] = AtRest /\ run[b] = AtRest
      BY <1>1, <1>2, <2>2
    <3> QED
      BY <3>1, RestFacts DEF Same
  <2> QED
    BY <2>1, <2>2
<1>6. run' = [b \in Goroutines |-> run'[b]]
  BY <1>2
<1>7. \A b \in Goroutines : IsRun(driver', run'[b])
  BY <1>3, <1>4, <1>5
<1>8. \A b \in Goroutines : run'[b].todo = <<>> => run'[b] = AtRest
  BY <1>3, <1>4, <1>5
<1> QED
  BY <1>4, <1>5, <1>6, <1>7, <1>8 DEF RunsTyped, Active, OthersSame

\* A goroutine that has done its step
LEMMA DonePasses ==
  ASSUME TypeInv, NEW a \in Goroutines, Active(a), NEW f, NEW c,
         run'[a] = Or(Doing(Tail(run[a].todo), run[a].key, f, c, run[a].touched))
  PROVE  Passes(a) /\ Keeps(a, f, c)
<1> DEFINE r == run[a]
           q == Doing(Tail(r.todo), r.key, f, c, r.touched)
<1>1. r.todo \in Todos(driver) /\ r.todo # <<>>
  BY RunFacts
<1>2. q.todo = Tail(r.todo) /\ q.key = r.key /\ q.fresh = f /\ q.copy = c /\ q.touched = r.touched
  BY DoingFacts
<1>3. run'[a] = IF q.todo = <<>> THEN AtRest ELSE q
  BY DEF Or
<1> HIDE DEF q, r
<1>4. CASE q.todo = <<>>
  BY <1>3, <1>4 DEF Passes, Keeps
<1>5. CASE q.todo # <<>>
  <2>1. Onward(driver, r, q, <<>>, 2)
    BY <1>1, <1>2, <1>5, DoneOnward
  <2> QED
    BY <1>2, <1>3, <1>5, <2>1 DEF Passes, Keeps, r
<1> QED
  BY <1>4, <1>5

LEMMA DoneDoing ==
  ASSUME TypeInv, NEW a \in Goroutines, Active(a)
  PROVE  LET r == run[a] IN
         /\ Done(a) = Doing(Tail(r.todo), r.key, r.fresh, r.copy, r.touched)
         /\ IsRun(driver, Done(a))
         /\ \A X : Before(a, X) = Doing(X \o Tail(r.todo), r.key, r.fresh, r.copy, r.touched)
<1> DEFINE r == run[a]
<1>1. /\ r.todo \in Todos(driver) /\ r.todo # <<>> /\ r = Doing(r.todo, r.key, r.fresh, r.copy, r.touched)
      /\ r.key \in Keys0 /\ r.fresh \in Keys0 /\ DOMAIN r.copy \subseteq Tables \X Keys0 /\ r.touched \subseteq Asked
  BY RunFacts
<1>2. Done(a) = [r EXCEPT !.todo = Tail(r.todo)]
  BY DEF Done
<1>3. \A X : Before(a, X) = [r EXCEPT !.todo = X \o Tail(r.todo)]
  BY DEF Before
<1>4. r.todo \in Seq(AnyStep(driver)) /\ Len(r.todo) \in Nat /\ Len(r.todo) >= 1
  BY <1>1, TodoLens
<1> HIDE DEF r
<1>5. \A y : [r EXCEPT !.todo = y] = Doing(y, r.key, r.fresh, r.copy, r.touched)
  BY <1>1, DoingFacts
<1>6. Tail(r.todo) \in Todos(driver)
  <2>1. Tail(r.todo) = From(r.todo, 2)
    BY <1>1, <1>4, TailIsFrom
  <2>2. 2 \in 1..Len(r.todo) + 1
    BY <1>4
  <2> QED
    BY <1>1, <2>1, <2>2, TodosFrom
<1>7. Done(a) = Doing(Tail(r.todo), r.key, r.fresh, r.copy, r.touched)
  BY <1>2, <1>5
<1>8. \A X : Before(a, X) = Doing(X \o Tail(r.todo), r.key, r.fresh, r.copy, r.touched)
  BY <1>3, <1>5
<1>9. IsRun(driver, Done(a))
  BY <1>1, <1>6, <1>7, IsRunDoing
<1> QED
  BY <1>7, <1>8, <1>9 DEF r

\* A step undone: the keys of the steps left out, and what the goroutine does next
LeftOut(s) == IF s.failed = "next" THEN {s.key} ELSE Keys
Left(d, r, q, n) ==
  /\ Onward(d, r, q, <<>>, n)
  /\ r.todo[1].failed \in {"on", "next", "out"}
  /\ r.todo[1].failed = "on" => n = 2
  /\ \A i \in 2..n - 1 : r.todo[i].key \in LeftOut(r.todo[1])
  /\ n \in DOMAIN r.todo /\ n # 2 => r.todo[n].key \notin LeftOut(r.todo[1])
Undoes(a) == run'[a] = AtRest \/ \E n : Left(driver, run[a], run'[a], n)
Loops2(a, X) == run'[a] = AtRest \/ Onward(driver, run[a], run'[a], X, 2)

LEMMA FailedModes ==
  ASSUME NEW d, NEW s \in AnyStep(d)
  PROVE  s.failed \in {"end", "on", "next", "out"} /\ s.op \in OpNames /\ Shape(d, s)
BY DEF AnyStep, StepsOf, Raw, Modes

LEMMA UndoneDoing ==
  ASSUME TypeInv, NEW a \in Goroutines, Active(a)
  PROVE  LET r == run[a]   s == Now(a) IN
         \E u \in Todos(driver) :
           /\ Undone(a) = Doing(u, r.key, r.fresh, r.copy, r.touched)
           /\ s.failed = "end" => u = <<>>
           /\ s.failed = "on" => u = Tail(r.todo)
           /\ s.failed \in {"next", "out"} => u = Leave(r.todo, LeftOut(s))
<1> DEFINE r == run[a]
           s == Now(a)
<1>1. /\ r.todo \in Todos(driver) /\ r.todo # <<>> /\ r = Doing(r.todo, r.key, r.fresh, r.copy, r.touched)
      /\ s \in AnyStep(driver)
  BY RunFacts
<1>2. s.failed \in {"end", "on", "next", "out"}
  BY <1>1, FailedModes
<1>3. r.todo \in Seq(AnyStep(driver)) /\ Len(r.todo) \in Nat /\ Len(r.todo) >= 1
  BY <1>1, TodoLens
<1>4. Undone(a) = [r EXCEPT !.todo = CASE s.failed = "end"  -> <<>>
                                       [] s.failed = "on"   -> Tail(r.todo)
                                       [] s.failed = "next" -> Leave(r.todo, {s.key})
                                       [] s.failed = "out"  -> Leave(r.todo, Keys)]
  BY DEF Undone
<1> HIDE DEF r, s
<1>5. \A y : [r EXCEPT !.todo = y] = Doing(y, r.key, r.fresh, r.copy, r.touched)
  BY <1>1, DoingFacts
<1>6. \A n \in 1..Len(r.todo) + 1 : From(r.todo, n) \in Todos(driver)
  BY <1>1, TodosFrom
<1>7. ASSUME NEW keys PROVE Leave(r.todo, keys) \in Todos(driver)
  <2>1. PICK n \in 2..Len(r.todo) + 1 : Leave(r.todo, keys) = From(r.todo, n)
    BY <1>1, <1>3, LeaveFacts
  <2>2. n \in 1..Len(r.todo) + 1
    BY <1>3, <2>1
  <2> QED
    BY <1>6, <2>1, <2>2
<1>8. CASE s.failed = "end"
  <2>1. Undone(a) = Doing(<<>>, r.key, r.fresh, r.copy, r.touched)
    BY <1>4, <1>5, <1>8
  <2>2. <<>> \in Todos(driver)
    BY DEF Todos, Chain
  <2> QED
    BY <1>8, <2>1, <2>2 DEF r, s
<1>9. CASE s.failed = "on"
  <2>1. Undone(a) = Doing(Tail(r.todo), r.key, r.fresh, r.copy, r.touched)
    BY <1>4, <1>5, <1>9
  <2>2. Tail(r.todo) = From(r.todo, 2) /\ 2 \in 1..Len(r.todo) + 1
    <3>1. Tail(r.todo) = From(r.todo, 2)
      BY <1>1, <1>3, TailIsFrom
    <3>2. 2 \in 1..Len(r.todo) + 1
      BY <1>3
    <3> QED
      BY <3>1, <3>2
  <2>3. Tail(r.todo) \in Todos(driver)
    BY <1>6, <2>2
  <2> QED
    BY <1>9, <2>1, <2>3 DEF r, s
<1>10. CASE s.failed \in {"next", "out"}
  <2> DEFINE u == Leave(r.todo, LeftOut(s))
  <2>1. Undone(a) = Doing(u, r.key, r.fresh, r.copy, r.touched)
    <3>1. CASE s.failed = "next"
      BY <1>4, <1>5, <3>1 DEF LeftOut
    <3>2. CASE s.failed = "out"
      BY <1>4, <1>5, <3>2 DEF LeftOut
    <3> QED
      BY <1>10, <3>1, <3>2
  <2>2. u \in Todos(driver)
    BY <1>7
  <2> QED
    BY <1>10, <2>1, <2>2 DEF r, s
<1> QED
  BY <1>2, <1>8, <1>9, <1>10

LEMMA UndoneUndoes ==
  ASSUME TypeInv, NEW a \in Goroutines, Active(a), NEW u, NEW f, NEW c, NEW g, run[a].touched \subseteq g,
         run'[a] = Or(Doing(u, run[a].key, f, c, g)),
         Now(a).failed = "end" => u = <<>>, Now(a).failed = "on" => u = Tail(run[a].todo),
         Now(a).failed \in {"next", "out"} => u = Leave(run[a].todo, LeftOut(Now(a)))
  PROVE  Undoes(a) /\ Keeps(a, f, c) /\ (Now(a).failed = "end" => run'[a] = AtRest)
         /\ (run'[a] # AtRest => run'[a].touched = g)
<1> DEFINE r == run[a]
           s == Now(a)
           q == Doing(u, r.key, f, c, g)
<1>1. r.todo \in Todos(driver) /\ r.todo # <<>> /\ s \in AnyStep(driver) /\ s = r.todo[1]
  BY RunFacts
<1>2. s.failed \in {"end", "on", "next", "out"}
  BY <1>1, FailedModes
<1>3. q.todo = u /\ q.key = r.key /\ q.fresh = f /\ q.copy = c /\ q.touched = g
  BY DoingFacts
<1>4. run'[a] = IF q.todo = <<>> THEN AtRest ELSE q
  BY DEF Or
<1>5. r.todo \in Seq(AnyStep(driver)) /\ Len(r.todo) \in Nat /\ Len(r.todo) >= 1
  BY <1>1, TodoLens
<1> HIDE DEF q, r, s
<1>6. CASE u = <<>>
  BY <1>3, <1>4, <1>6 DEF Undoes, Keeps
<1>7. CASE u # <<>> /\ s.failed = "on"
  <2>1. Onward(driver, r, q, <<>>, 2)
    BY <1>1, <1>3, <1>7, DoneOnward DEF r, s
  <2>2. \A i \in 2..2 - 1 : FALSE
    OBVIOUS
  <2>3. Left(driver, r, q, 2)
    BY <1>1, <1>7, <2>1, <2>2 DEF Left
  <2> QED
    BY <1>3, <1>4, <1>7, <2>3 DEF Undoes, Keeps, r, s
<1>8. CASE u # <<>> /\ s.failed \in {"next", "out"}
  <2>1. q.todo = Leave(r.todo, LeftOut(s))
    BY <1>3, <1>8 DEF r, s
  <2>2. PICK n : /\ Onward(driver, r, q, <<>>, n)
                 /\ \A i \in 2..n - 1 : r.todo[i].key \in LeftOut(s)
                 /\ n \in DOMAIN r.todo => r.todo[n].key \notin LeftOut(s)
    BY <1>1, <1>3, <1>8, <2>1, LeaveOnward DEF r
  <2>3. Left(driver, r, q, n)
    BY <1>1, <1>8, <2>2 DEF Left
  <2> QED
    BY <1>3, <1>4, <1>8, <2>3 DEF Undoes, Keeps, r, s
<1> QED
  BY <1>2, <1>6, <1>7, <1>8 DEF s

\* A loop, or a branch, put before the other steps
LEMMA BeforeLoops ==
  ASSUME TypeInv, NEW a \in Goroutines, Active(a), NEW X \in Programs(driver, Bodies2(driver)), NEW c,
         Now(a).body = <<>> => X = <<>>,
         run'[a] = Or(Doing(X \o Tail(run[a].todo), run[a].key, run[a].fresh, c, run[a].touched))
  PROVE  Loops2(a, X) /\ Keeps(a, run[a].fresh, c)
<1> DEFINE r == run[a]
           q == Doing(X \o Tail(r.todo), r.key, r.fresh, c, r.touched)
<1>1. r.todo \in Todos(driver) /\ r.todo # <<>> /\ Now(a) = r.todo[1]
  BY RunFacts
<1>2. q.todo = X \o Tail(r.todo) /\ q.key = r.key /\ q.fresh = r.fresh /\ q.copy = c /\ q.touched = r.touched
  <2> DEFINE z == X \o Tail(r.todo)
  <2> HIDE DEF z, r
  <2>1. Doing(z, r.key, r.fresh, c, r.touched).todo = z
    BY DoingFacts
  <2>2. LET p == Doing(z, r.key, r.fresh, c, r.touched) IN
          p.key = r.key /\ p.fresh = r.fresh /\ p.copy = c /\ p.touched = r.touched
    BY DoingFacts
  <2> QED
    BY <2>1, <2>2 DEF z
<1>3. run'[a] = IF q.todo = <<>> THEN AtRest ELSE q
  BY DEF Or
<1> HIDE DEF q, r
<1>4. CASE q.todo = <<>>
  BY <1>3, <1>4 DEF Loops2, Keeps
<1>5. CASE q.todo # <<>>
  <2>1. Onward(driver, r, q, X, 2)
    BY <1>1, <1>2, <1>5, BeforeOnward
  <2> QED
    BY <1>2, <1>3, <1>5, <2>1 DEF Loops2, Keeps, r
<1> QED
  BY <1>4, <1>5

LEMMA BeforeTodos ==
  ASSUME TypeInv, NEW a \in Goroutines, Active(a), NEW X \in Programs(driver, Bodies2(driver)), NEW c,
         Now(a).body = <<>> => X = <<>>, DOMAIN c \subseteq Tables \X Keys0
  PROVE  IsRun(driver, Doing(X \o Tail(run[a].todo), run[a].key, run[a].fresh, c, run[a].touched))
<1> DEFINE r == run[a]
<1>1. /\ r.todo \in Todos(driver) /\ r.todo # <<>> /\ Now(a) = r.todo[1]
      /\ r.key \in Keys0 /\ r.fresh \in Keys0 /\ r.touched \subseteq Asked
  BY RunFacts
<1>2. r.todo \in Seq(AnyStep(driver))
  BY <1>1, TodoLens
<1> HIDE DEF r
<1>3. Tail(r.todo) = From(r.todo, 2)
  BY <1>1, <1>2, TailIsFrom
<1>4. X \o Tail(r.todo) \in Todos(driver)
  BY <1>1, <1>3, TodosJoin
<1> QED
  BY <1>1, <1>4, IsRunDoing DEF r

-----------------------------------------------------------------------------
\* Types: every step

LEMMA OverFacts ==
  ASSUME NEW g, NEW f
  PROVE  /\ DOMAIN Over(g, f) = DOMAIN g \cup DOMAIN f
         /\ \A x \in DOMAIN g : Over(g, f)[x] = g[x]
         /\ \A x \in DOMAIN f \ DOMAIN g : Over(g, f)[x] = f[x]
BY DEF Over

\* What a table says after a record of it was written, or some were deleted
Put1(f, g, k, c) == DOMAIN g = DOMAIN f \cup {k} /\ g[k] = c /\ \A x \in DOMAIN f \ {k} : g[x] = f[x]
Cut(f, g, S)     == DOMAIN g = DOMAIN f \ S /\ \A x \in DOMAIN g : g[x] = f[x]
Tabled(e)        == e = [t \in Tables |-> e[t]]

LEMMA SetFacts ==
  ASSUME NEW f, NEW x, NEW v
  PROVE  Put1(f, Set(f, x, v), x, v)
<1> DEFINE g == [y \in {x} |-> v]
<1>1. DOMAIN g = {x} /\ g[x] = v
  OBVIOUS
<1>2. Set(f, x, v) = Over(g, f)
  BY DEF Set
<1> HIDE DEF g
<1>3. /\ DOMAIN Over(g, f) = DOMAIN g \cup DOMAIN f
      /\ \A y \in DOMAIN g : Over(g, f)[y] = g[y]
      /\ \A y \in DOMAIN f \ DOMAIN g : Over(g, f)[y] = f[y]
  BY OverFacts
<1> QED
  BY <1>1, <1>2, <1>3 DEF Put1

LEMMA WithFacts ==
  ASSUME Tabled(db), NEW t \in Tables, NEW k, NEW c
  PROVE  /\ Tabled(With(t, k, c)) /\ Put1(db[t], With(t, k, c)[t], k, c)
         /\ \A u \in Tables \ {t} : With(t, k, c)[u] = db[u]
<1> DEFINE f == db[t]
           e == Set(f, k, c)
<1>1. Put1(f, e, k, c)
  <2> HIDE DEF f
  <2> QED
    BY SetFacts
<1>2. With(t, k, c) = [db EXCEPT ![t] = e]
  BY DEF With
<1> HIDE DEF e
<1>3. With(t, k, c) = [u \in Tables |-> IF u = t THEN e ELSE db[u]]
  BY <1>2 DEF Tabled
<1> QED
  BY <1>1, <1>3 DEF Tabled

LEMMA WithoutFacts ==
  ASSUME Tabled(db), NEW t \in Tables, NEW S
  PROVE  /\ Tabled(Without(t, S)) /\ Cut(db[t], Without(t, S)[t], S)
         /\ \A u \in Tables \ {t} : Without(t, S)[u] = db[u]
<1> DEFINE e == [k \in DOMAIN db[t] \ S |-> db[t][k]]
<1>1. Cut(db[t], e, S)
  BY DEF Cut
<1>2. Without(t, S) = [db EXCEPT ![t] = e]
  BY DEF Without
<1> HIDE DEF e
<1>3. Without(t, S) = [u \in Tables |-> IF u = t THEN e ELSE db[u]]
  BY <1>2 DEF Tabled
<1> QED
  BY <1>1, <1>3 DEF Tabled

LEMMA StepTables ==
  ASSUME NEW d, NEW s \in AnyStep(d), s.op # "fresh"
  PROVE  s.t \in Tables /\ s.via \in Tables
BY DEF AnyStep, StepsOf, Shape, PlainShape

LEMMA StillTables ==
  ASSUME TypeInv
  PROVE  Tabled(db) /\ \A t \in Tables : DOMAIN db[t] \subseteq Keys0
BY DEF TypeInv, Tabled

-----------------------------------------------------------------------------
\* What each step does

RunOnly == UNCHANGED <<driver, data, budget, faults, erred, ghosts>>

LEMMA FreeFacts ==
  ASSUME TypeInv, NEW a \in Goroutines, ReadStep(a), Now(a).op \in {"free", "any"}
  PROVE  /\ RunsTyped' /\ OthersSame(a, {}) /\ RunOnly /\ Active(a)
         /\ Passes(a) /\ Keeps(a, run[a].fresh, run[a].copy)
<1> DEFINE ends == IF Now(a).op = "free" THEN Has(Now(a).t, Key(a)) ELSE InCopy(a, Now(a).t) = {}
           q == IF ends THEN AtRest ELSE Done(a)
<1>1. Active(a) /\ RunOnly /\ driver' = driver /\ Proceeds(a, q)
  BY DEF ReadStep, At, RunOnly
<1>2. IsRun(driver, q)
  BY <1>1, RestFacts, DoneDoing
<1>3. RunsTyped' /\ OthersSame(a, {}) /\ run'[a] = Or(q)
  <2> HIDE DEF q
  <2> QED
    BY <1>1, <1>2, ProceedsFacts
<1> HIDE DEF ends
<1>4. CASE ends
  <2>1. run'[a] = AtRest
    BY <1>3, <1>4, RestFacts DEF Or
  <2> QED
    BY <1>1, <1>3, <2>1 DEF Passes, Keeps
<1>5. CASE ~ends
  <2>1. run'[a] = Or(Doing(Tail(run[a].todo), run[a].key, run[a].fresh, run[a].copy, run[a].touched))
    BY <1>1, <1>3, <1>5, DoneDoing
  <2> QED
    BY <1>1, <1>3, <1>5, <2>1, DonePasses
<1> QED
  BY <1>4, <1>5

LEMMA GetFacts ==
  ASSUME TypeInv, NEW a \in Goroutines, ReadStep(a), Now(a).op = "get"
  PROVE  LET t == Now(a).t   k == Key(a) IN
         /\ RunsTyped' /\ OthersSame(a, {}) /\ RunOnly /\ Active(a) /\ t \in Tables
         /\ Has(t, k) => Passes(a) /\ Keeps(a, run[a].fresh, Set(run[a].copy, <<t, k>>, db[t][k]))
         /\ ~Has(t, k) => /\ Undoes(a) /\ Keeps(a, run[a].fresh, Set(run[a].copy, <<t, k>>, {}))
                          /\ Now(a).failed = "end" => run'[a] = AtRest
<1> DEFINE t == Now(a).t
           k == Key(a)
           r == run[a]
<1>1. Active(a) /\ RunOnly /\ driver' = driver
      /\ Proceeds(a, IF Has(t, k) THEN [Done(a) EXCEPT !.copy = Set(@, <<t, k>>, db[t][k])]
                     ELSE [Undone(a) EXCEPT !.copy = Set(@, <<t, k>>, {})])
  BY DEF ReadStep, At, RunOnly
<1>2. /\ t \in Tables /\ k \in Keys0 /\ r.key \in Keys0 /\ r.fresh \in Keys0 /\ DOMAIN r.copy \subseteq Tables \X Keys0
      /\ r.touched \subseteq Asked
  BY <1>1, RunFacts, StepTables
<1>3. \A v : DOMAIN Set(r.copy, <<t, k>>, v) \subseteq Tables \X Keys0
  <2>1. \A v : DOMAIN Set(r.copy, <<t, k>>, v) = DOMAIN r.copy \cup {<<t, k>>}
    BY SetFacts, ZenonT(30) DEF Put1
  <2> QED
    BY <1>2, <2>1
<1>4. CASE Has(t, k)
  <2> DEFINE c == Set(r.copy, <<t, k>>, db[t][k])
             q == Doing(Tail(r.todo), r.key, r.fresh, c, r.touched)
  <2>1. Done(a) = Doing(Tail(r.todo), r.key, r.fresh, r.copy, r.touched) /\ IsRun(driver, Done(a))
    BY <1>1, DoneDoing
  <2>2. [Done(a) EXCEPT !.copy = Set(@, <<t, k>>, db[t][k])] = q
    <3>1. Done(a).copy = r.copy
      BY <2>1, DoingFacts
    <3>2. [Done(a) EXCEPT !.copy = Set(@, <<t, k>>, db[t][k])] = [Done(a) EXCEPT !.copy = c]
      BY <3>1
    <3> HIDE DEF c, r
    <3> QED
      BY <2>1, <3>2, DoingFacts
  <2>3. Proceeds(a, q)
    BY <1>1, <1>4, <2>2
  <2>4. IsRun(driver, q)
    <3>1. Tail(r.todo) \in Todos(driver)
      BY <2>1, IsRunDoing
    <3> QED
      BY <1>2, <1>3, <3>1, IsRunDoing
  <2> HIDE DEF q
  <2>5. RunsTyped' /\ OthersSame(a, {}) /\ run'[a] = Or(q)
    BY <1>1, <2>3, <2>4, ProceedsFacts
  <2>6. Passes(a) /\ Keeps(a, r.fresh, c)
    BY <1>1, <2>5, DonePasses DEF q
  <2> QED
    BY <1>1, <1>2, <1>4, <2>5, <2>6
<1>5. CASE ~Has(t, k)
  <2> DEFINE c == Set(r.copy, <<t, k>>, {})
  <2>1. PICK u \in Todos(driver) :
           /\ Undone(a) = Doing(u, r.key, r.fresh, r.copy, r.touched)
           /\ Now(a).failed = "end" => u = <<>>
           /\ Now(a).failed = "on" => u = Tail(r.todo)
           /\ Now(a).failed \in {"next", "out"} => u = Leave(r.todo, LeftOut(Now(a)))
    BY <1>1, UndoneDoing
  <2> DEFINE q == Doing(u, r.key, r.fresh, c, r.touched)
  <2>2. [Undone(a) EXCEPT !.copy = Set(@, <<t, k>>, {})] = q
    <3>1. Undone(a).copy = r.copy
      BY <2>1, DoingFacts
    <3>2. [Undone(a) EXCEPT !.copy = Set(@, <<t, k>>, {})] = [Undone(a) EXCEPT !.copy = c]
      BY <3>1
    <3> HIDE DEF c, r
    <3> QED
      BY <2>1, <3>2, DoingFacts
  <2>3. Proceeds(a, q)
    BY <1>1, <1>5, <2>2
  <2>4. IsRun(driver, q)
    BY <1>2, <1>3, <2>1, IsRunDoing
  <2> HIDE DEF q
  <2>5. RunsTyped' /\ OthersSame(a, {}) /\ run'[a] = Or(q)
    BY <1>1, <2>3, <2>4, ProceedsFacts
  <2> HIDE DEF c
  <2>6. Undoes(a) /\ Keeps(a, r.fresh, c) /\ (Now(a).failed = "end" => run'[a] = AtRest)
    BY <1>1, <2>1, <2>5, UndoneUndoes DEF q
  <2> QED
    BY <1>1, <1>2, <1>5, <2>5, <2>6 DEF c
<1> QED
  BY <1>4, <1>5

\* A handler that goes on after its step, and touches tables others asked about
LEMMA TouchDone ==
  ASSUME TypeInv, driver' = driver, NEW a \in Goroutines, Active(a), NEW T, Touches(a, Done(a), T)
  PROVE  RunsTyped' /\ OthersSame(a, T) /\ Passes(a) /\ Keeps(a, run[a].fresh, run[a].copy)
<1>1. IsRun(driver, Done(a)) /\ Done(a) = Doing(Tail(run[a].todo), run[a].key, run[a].fresh, run[a].copy, run[a].touched)
  BY DoneDoing
<1>2. RunsTyped' /\ OthersSame(a, T) /\ run'[a] = Or(Done(a))
  BY <1>1, TouchesFacts
<1> QED
  BY <1>1, <1>2, DonePasses

LEMMA TakeFacts ==
  ASSUME TypeInv, NEW a \in Goroutines, TakeStep(a)
  PROVE  LET t == Now(a).t   k == Key(a) IN
         /\ UNCHANGED <<driver, used, idle, budget, faults, erred, ghosts>> /\ Active(a) /\ Now(a).op = "take"
         /\ t = "states" /\ RunsTyped' /\ Keeps(a, run[a].fresh, run[a].copy)
         /\ Has(t, k) => /\ OthersSame(a, {t}) /\ Passes(a) /\ Tabled(db')
                         /\ Cut(db[t], db'[t], {k}) /\ \A u \in Tables \ {t} : db'[u] = db[u]
         /\ ~Has(t, k) => OthersSame(a, {}) /\ run'[a] = AtRest /\ db' = db
<1> DEFINE t == Now(a).t
           k == Key(a)
<1>1. /\ Active(a) /\ Now(a).op = "take" /\ UNCHANGED <<driver, used, idle, budget, faults, erred, ghosts>>
      /\ driver' = driver
  BY DEF TakeStep, At
<1>2. Now(a) \in AnyStep(driver) /\ t = "states" /\ t \in Tables /\ Now(a).failed = "end"
  <2>1. Now(a) \in AnyStep(driver)
    BY <1>1, RunFacts
  <2> QED
    BY <1>1, <2>1, StepTables DEF AnyStep, StepsOf, Shape, PlainShape
<1>3. CASE Has(t, k)
  <2>1. Touches(a, Done(a), {t}) /\ db' = Without(t, {k})
    BY <1>3 DEF TakeStep
  <2>2. RunsTyped' /\ OthersSame(a, {t}) /\ Passes(a) /\ Keeps(a, run[a].fresh, run[a].copy)
    BY <1>1, <2>1, TouchDone
  <2>3. Tabled(db') /\ Cut(db[t], db'[t], {k}) /\ \A u \in Tables \ {t} : db'[u] = db[u]
    BY <1>2, <2>1, StillTables, WithoutFacts
  <2> QED
    BY <1>1, <1>2, <1>3, <2>2, <2>3
<1>4. CASE ~Has(t, k)
  <2>1. Proceeds(a, Undone(a)) /\ db' = db
    BY <1>4 DEF TakeStep
  <2>2. PICK u \in Todos(driver) : Undone(a) = Doing(u, run[a].key, run[a].fresh, run[a].copy, run[a].touched) /\ u = <<>>
    BY <1>1, <1>2, UndoneDoing
  <2>3. IsRun(driver, Undone(a))
    BY <1>1, <2>2, RunFacts, IsRunDoing
  <2>4. RunsTyped' /\ OthersSame(a, {}) /\ run'[a] = Or(Undone(a))
    BY <1>1, <2>1, <2>3, ProceedsFacts
  <2>5. run'[a] = AtRest
    BY <2>2, <2>4, DoingFacts DEF Or
  <2> QED
    BY <1>1, <1>2, <1>4, <2>1, <2>4, <2>5 DEF Keeps
<1> QED
  BY <1>3, <1>4

\* What a loop, or a branch, puts before the other steps
Lapping(a, b) ==
  \E s : /\ Inner(driver, Now(a), s)
         /\ b.op = s.op /\ b.t = s.t /\ b.via = s.via /\ b.failed = s.failed /\ b.body = s.body
         /\ \/ Now(a).op \in Loops /\ b.key \in Listed(a)
            \/ Now(a).op = "unless" /\ b.key = Now(a).key
            \/ Now(a).op = "again" /\ b.key \in InCopy(a, Now(a).t)
Lapped(a, X) == X \in Programs(driver, Bodies2(driver)) /\ \A i \in DOMAIN X : X[i] \in AnyStep(driver) /\ Lapping(a, X[i])

LEMMA ListedFacts ==
  ASSUME TypeInv, NEW a \in Goroutines, Active(a), Now(a).op \in Loops
  PROVE  /\ Now(a).t \in Tables /\ Now(a).via \in Tables
         /\ Listed(a) \subseteq DOMAIN db[Now(a).t] /\ Listed(a) \subseteq DOMAIN db[Now(a).via]
         /\ Listed(a) \subseteq Keys0 /\ IsFiniteSet(Listed(a))
         /\ Now(a).op = "each" => Listed(a) = DOMAIN db[Now(a).t] \cap DOMAIN db[Now(a).via]
         /\ Now(a).op = "idlers" => Listed(a) \subseteq idle
<1>1. Now(a) \in AnyStep(driver) /\ Now(a).op # "fresh"
  BY RunFacts DEF Loops, Branches
<1>2. Now(a).t \in Tables /\ Now(a).via \in Tables /\ \A t \in Tables : DOMAIN db[t] \subseteq Keys0
  BY <1>1, StepTables, StillTables
<1>3. /\ Listed(a) \subseteq DOMAIN db[Now(a).t] /\ Listed(a) \subseteq DOMAIN db[Now(a).via]
      /\ Now(a).op = "each" => Listed(a) = DOMAIN db[Now(a).t] \cap DOMAIN db[Now(a).via]
      /\ Now(a).op = "idlers" => Listed(a) \subseteq idle
  BY DEF Listed, Loops, Branches
<1>4. Listed(a) \subseteq Keys0
  BY <1>2, <1>3
<1>5. IsFiniteSet(Listed(a))
  BY <1>4, KeysNat, FS_Subset
<1> QED
  BY <1>2, <1>3, <1>4, <1>5

LEMMA EachFacts ==
  ASSUME TypeInv, NEW a \in Goroutines, EachStep(a)
  PROVE  LET t == Now(a).t   S == Listed(a)   X == Laps(S, Now(a).body)
             c == Over([tk \in {t} \X S |-> db[t][tk[2]]], run[a].copy) IN
         /\ RunsTyped' /\ OthersSame(a, {}) /\ RunOnly /\ Active(a) /\ Now(a).op \in Loops
         /\ Lapped(a, X) /\ Loops2(a, X) /\ Keeps(a, run[a].fresh, c)
         /\ DOMAIN c = DOMAIN run[a].copy \cup ({t} \X S)
         /\ \A k \in S : c[<<t, k>>] = db[t][k]
         /\ \A x \in DOMAIN run[a].copy \ ({t} \X S) : c[x] = run[a].copy[x]
<1> DEFINE t == Now(a).t
           S == Listed(a)
           body == Now(a).body
           X == Laps(S, body)
           g == [tk \in {t} \X S |-> db[t][tk[2]]]
           c == Over(g, run[a].copy)
           r == run[a]
           q == Doing(X \o Tail(r.todo), r.key, r.fresh, c, r.touched)
<1>1. /\ Active(a) /\ Now(a).op \in Loops /\ RunOnly /\ driver' = driver
      /\ Proceeds(a, [Before(a, X) EXCEPT !.copy = Over(g, @)])
  BY DEF EachStep, At, RunOnly, Loops, Branches
<1>2. t \in Tables /\ S \subseteq DOMAIN db[t] /\ S \subseteq Keys0 /\ IsFiniteSet(S)
  BY <1>1, ListedFacts
<1>3. /\ Now(a) \in AnyStep(driver) /\ r.touched \subseteq Asked /\ DOMAIN r.copy \subseteq Tables \X Keys0
      /\ body \in Seq(AnyStep(driver)) /\ Len(body) \in Nat
  <2>1. Now(a) \in AnyStep(driver) /\ r.touched \subseteq Asked /\ DOMAIN r.copy \subseteq Tables \X Keys0
    BY <1>1, RunFacts
  <2>2. body \in Seq(StepsOf(driver, Bodies1(driver)))
    BY <2>1 DEF AnyStep, StepsOf, Raw, Bodies2, Programs
  <2>3. Seq(StepsOf(driver, Bodies1(driver))) \subseteq Seq(AnyStep(driver))
    BY BodiesNested
  <2> QED
    BY <2>1, <2>2, <2>3
<1>4. DOMAIN c = DOMAIN r.copy \cup ({t} \X S)
  <2>1. DOMAIN g = {t} \X S
    OBVIOUS
  <2> HIDE DEF g, S
  <2> QED
    BY <2>1 DEF Over
<1>5. \A k \in S : c[<<t, k>>] = db[t][k]
  <2> SUFFICES ASSUME NEW k \in S PROVE c[<<t, k>>] = db[t][k]
    OBVIOUS
  <2>1. <<t, k>> \in DOMAIN g /\ g[<<t, k>>] = db[t][k]
    OBVIOUS
  <2> HIDE DEF g
  <2> QED
    BY <2>1 DEF Over
<1>6. \A x \in DOMAIN r.copy \ ({t} \X S) : c[x] = r.copy[x]
  <2>1. DOMAIN g = {t} \X S
    OBVIOUS
  <2> HIDE DEF g
  <2> QED
    BY <2>1 DEF Over
<1>7. Lapped(a, X)
  <2>1. X \in Programs(driver, Bodies2(driver))
    BY <1>2, <1>3, LapsProgram
  <2>2. ASSUME NEW i \in DOMAIN X PROVE X[i] \in AnyStep(driver) /\ Lapping(a, X[i])
    <3>1. InLap(S, body, X[i])
      <4> HIDE DEF S, body
      <4> QED
        BY <1>2, <1>3, LapsSteps
    <3>2. PICK k \in S : \E m \in 1..Len(body) : X[i] = Bind(k, body)[m]
      BY <3>1 DEF InLap
    <3>3. PICK m \in 1..Len(body) : X[i] = Bind(k, body)[m]
      BY <3>2
    <3>4. k \in Keys0
      BY <1>2
    <3> DEFINE b == Bind(k, body)[m]
               s == body[m]
    <3>5. /\ b \in AnyStep(driver) /\ Inner(driver, Now(a), s)
          /\ b.op = s.op /\ b.t = s.t /\ b.via = s.via /\ b.failed = s.failed /\ b.body = s.body /\ b.key = k
      BY <1>3, <3>4, BoundStep
    <3>6. X[i] = b
      BY <3>3
    <3> HIDE DEF b, s, X
    <3> QED
      BY <1>1, <3>5, <3>6 DEF Lapping
  <2> QED
    BY <2>1, <2>2 DEF Lapped
<1>8. Now(a).body = <<>> => X = <<>>
  BY <1>2, LapsEmpty
<1>9. [Before(a, X) EXCEPT !.copy = Over(g, @)] = q
  <2>1. Before(a, X) = Doing(X \o Tail(r.todo), r.key, r.fresh, r.copy, r.touched)
    BY <1>1, DoneDoing
  <2> DEFINE z == X \o Tail(r.todo)
  <2> HIDE DEF z
  <2>2. Before(a, X) = Doing(z, r.key, r.fresh, r.copy, r.touched)
    BY <2>1 DEF z
  <2>3. Before(a, X).copy = r.copy
    BY <2>2, DoingFacts
  <2>4. [Before(a, X) EXCEPT !.copy = Over(g, @)] = [Before(a, X) EXCEPT !.copy = c]
    BY <2>3
  <2> HIDE DEF c, r, X
  <2>5. [Before(a, X) EXCEPT !.copy = c] = Doing(z, r.key, r.fresh, c, r.touched)
    BY <2>2, DoingFacts
  <2> QED
    BY <2>4, <2>5 DEF z
<1>10. DOMAIN c \subseteq Tables \X Keys0
  BY <1>2, <1>3, <1>4
<1>11. X \in Programs(driver, Bodies2(driver))
  BY <1>7 DEF Lapped
<1> HIDE DEF X, c
<1>12. IsRun(driver, q)
  BY <1>1, <1>8, <1>10, <1>11, BeforeTodos
<1> HIDE DEF q
<1>13. RunsTyped' /\ OthersSame(a, {}) /\ run'[a] = Or(q)
  BY <1>1, <1>9, <1>12, ProceedsFacts
<1>14. Loops2(a, X) /\ Keeps(a, r.fresh, c)
  BY <1>1, <1>8, <1>11, <1>13, BeforeLoops DEF q
<1> QED
  BY <1>1, <1>4, <1>5, <1>6, <1>7, <1>13, <1>14 DEF X, c

LEMMA BranchFacts ==
  ASSUME TypeInv, NEW a \in Goroutines, UnlessStep(a), Now(a).op = "unless"
  PROVE  /\ RunsTyped' /\ OthersSame(a, {}) /\ RunOnly /\ Active(a)
         /\ Keeps(a, run[a].fresh, run[a].copy)
         /\ Passes(a) \/ \E X : Lapped(a, X) /\ Loops2(a, X)
<1> DEFINE k == Now(a).key
           body == Now(a).body
           X == Bind(k, body)
           r == run[a]
           q == IF Has(Now(a).t, Key(a)) THEN Done(a) ELSE Before(a, X)
<1>1. Active(a) /\ Now(a).op = "unless" /\ RunOnly /\ driver' = driver /\ Proceeds(a, q)
  BY DEF UnlessStep, At, RunOnly
<1>2. /\ Now(a) \in AnyStep(driver) /\ k \in Keys0 /\ r.touched \subseteq Asked /\ DOMAIN r.copy \subseteq Tables \X Keys0
  BY <1>1, RunFacts
<1>3. CASE Has(Now(a).t, Key(a))
  <2>1. q = Doing(Tail(r.todo), r.key, r.fresh, r.copy, r.touched) /\ IsRun(driver, q)
    BY <1>1, <1>3, DoneDoing
  <2> HIDE DEF q
  <2>2. RunsTyped' /\ OthersSame(a, {}) /\ run'[a] = Or(q)
    BY <1>1, <2>1, ProceedsFacts
  <2> QED
    BY <1>1, <2>1, <2>2, DonePasses
<1>4. CASE ~Has(Now(a).t, Key(a))
  <2>1. X \in Programs(driver, Bodies2(driver))
    BY <1>2, BindProgram
  <2>2. body \in Seq(StepsOf(driver, Bodies1(driver))) /\ Len(body) \in Nat /\ DOMAIN X = 1..Len(body)
    <3>1. body \in Seq(StepsOf(driver, Bodies1(driver)))
      BY <1>2 DEF AnyStep, StepsOf, Raw, Bodies2, Programs
    <3> HIDE DEF body, k
    <3> QED
      BY <3>1, BindFacts
  <2>3. Lapped(a, X)
    <3>1. ASSUME NEW i \in DOMAIN X PROVE X[i] \in AnyStep(driver) /\ Lapping(a, X[i])
      <4> DEFINE s == body[i]
                 b == X[i]
      <4>1. i \in 1..Len(body)
        BY <2>2
      <4>2. /\ b \in AnyStep(driver) /\ Inner(driver, Now(a), s)
            /\ b.op = s.op /\ b.t = s.t /\ b.via = s.via /\ b.failed = s.failed /\ b.body = s.body /\ b.key = k
        BY <1>2, <4>1, BoundStep
      <4> HIDE DEF b, s
      <4>3. b \in AnyStep(driver) /\ Lapping(a, b)
        BY <1>1, <4>2 DEF Lapping
      <4> QED
        BY <4>3 DEF b
    <3> HIDE DEF X
    <3> QED
      BY <2>1, <3>1 DEF Lapped
  <2>4. Now(a).body = <<>> => X = <<>>
    BY DEF Bind
  <2>5. q = Doing(X \o Tail(r.todo), r.key, r.fresh, r.copy, r.touched)
    BY <1>1, <1>4, DoneDoing
  <2> HIDE DEF q, X
  <2>6. IsRun(driver, q)
    BY <1>1, <1>2, <2>1, <2>4, <2>5, BeforeTodos
  <2>7. RunsTyped' /\ OthersSame(a, {}) /\ run'[a] = Or(q)
    BY <1>1, <2>6, ProceedsFacts
  <2>8. Loops2(a, X) /\ Keeps(a, r.fresh, r.copy)
    BY <1>1, <2>1, <2>4, <2>5, <2>7, BeforeLoops
  <2> QED
    BY <1>1, <2>3, <2>7, <2>8
<1> QED
  BY <1>3, <1>4

LEMMA AgainFacts ==
  ASSUME TypeInv, NEW a \in Goroutines, UnlessStep(a), Now(a).op = "again"
  PROVE  /\ RunsTyped' /\ OthersSame(a, {}) /\ RunOnly /\ Active(a)
         /\ Keeps(a, run[a].fresh, run[a].copy)
         /\ \E X : Lapped(a, X) /\ Loops2(a, X)
<1> DEFINE S == InCopy(a, Now(a).t)
           body == Now(a).body
           X == Laps(S, body)
           r == run[a]
           q == Doing(X \o Tail(r.todo), r.key, r.fresh, r.copy, r.touched)
<1>1. Active(a) /\ RunOnly /\ driver' = driver /\ Proceeds(a, Before(a, X))
  BY DEF UnlessStep, At, RunOnly
<1>2. S \subseteq Keys0 /\ IsFiniteSet(S)
  <2>1. S \subseteq Keys0
    BY DEF InCopy, Keys0
  <2> HIDE DEF S
  <2> QED
    BY <2>1, KeysNat, FS_Subset
<1>3. /\ Now(a) \in AnyStep(driver) /\ r.touched \subseteq Asked /\ DOMAIN r.copy \subseteq Tables \X Keys0
      /\ body \in Seq(AnyStep(driver)) /\ Len(body) \in Nat
  <2>1. Now(a) \in AnyStep(driver) /\ r.touched \subseteq Asked /\ DOMAIN r.copy \subseteq Tables \X Keys0
    BY <1>1, RunFacts
  <2>2. body \in Seq(StepsOf(driver, Bodies1(driver)))
    BY <2>1 DEF AnyStep, StepsOf, Raw, Bodies2, Programs
  <2>3. Seq(StepsOf(driver, Bodies1(driver))) \subseteq Seq(AnyStep(driver))
    BY BodiesNested
  <2> QED
    BY <2>1, <2>2, <2>3
<1>4. Lapped(a, X)
  <2>1. X \in Programs(driver, Bodies2(driver))
    BY <1>2, <1>3, LapsProgram
  <2>2. ASSUME NEW i \in DOMAIN X PROVE X[i] \in AnyStep(driver) /\ Lapping(a, X[i])
    <3>1. InLap(S, body, X[i])
      <4> HIDE DEF S, body
      <4> QED
        BY <1>2, <1>3, LapsSteps
    <3>2. PICK k \in S : \E m \in 1..Len(body) : X[i] = Bind(k, body)[m]
      BY <3>1 DEF InLap
    <3>3. PICK m \in 1..Len(body) : X[i] = Bind(k, body)[m]
      BY <3>2
    <3>4. k \in Keys0
      BY <1>2
    <3> DEFINE b == Bind(k, body)[m]
               s == body[m]
    <3>5. /\ b \in AnyStep(driver) /\ Inner(driver, Now(a), s)
          /\ b.op = s.op /\ b.t = s.t /\ b.via = s.via /\ b.failed = s.failed /\ b.body = s.body /\ b.key = k
      BY <1>3, <3>4, BoundStep
    <3>6. X[i] = b
      BY <3>3
    <3> HIDE DEF b, s, X
    <3> QED
      BY <3>5, <3>6 DEF Lapping
  <2> QED
    BY <2>1, <2>2 DEF Lapped
<1>5. Now(a).body = <<>> => X = <<>>
  BY <1>2, LapsEmpty
<1>6. Before(a, X) = q
  BY <1>1, DoneDoing
<1>7. X \in Programs(driver, Bodies2(driver))
  BY <1>4 DEF Lapped
<1> HIDE DEF X
<1>8. IsRun(driver, q)
  BY <1>1, <1>3, <1>5, <1>7, BeforeTodos
<1> HIDE DEF q
<1>9. RunsTyped' /\ OthersSame(a, {}) /\ run'[a] = Or(q)
  BY <1>1, <1>6, <1>8, ProceedsFacts
<1>10. Loops2(a, X) /\ Keeps(a, r.fresh, r.copy)
  BY <1>1, <1>5, <1>7, <1>9, BeforeLoops DEF q
<1> QED
  BY <1>1, <1>4, <1>9, <1>10

LEMMA UnlessFacts ==
  ASSUME TypeInv, NEW a \in Goroutines, UnlessStep(a)
  PROVE  /\ RunsTyped' /\ OthersSame(a, {}) /\ RunOnly /\ Active(a) /\ Now(a).op \in {"unless", "again"}
         /\ Keeps(a, run[a].fresh, run[a].copy)
         /\ Passes(a) \/ \E X : Lapped(a, X) /\ Loops2(a, X)
<1>1. Now(a).op \in {"unless", "again"}
  BY DEF UnlessStep, At
<1> QED
  BY <1>1, BranchFacts, AgainFacts

LEMMA FreshFacts ==
  ASSUME TypeInv, NEW a \in Goroutines, FreshStep(a)
  PROVE  /\ RunsTyped' /\ OthersSame(a, {}) /\ UNCHANGED <<driver, db, idle, budget, faults, erred, ghosts>>
         /\ Active(a) /\ Now(a).op = "fresh" /\ Passes(a)
         /\ \/ run'[a] = AtRest /\ used' = used
            \/ \E k \in Keys \ used : Keeps(a, k, run[a].copy) /\ used' = used \cup {k}
<1> DEFINE r == run[a]
<1>1. Active(a) /\ Now(a).op = "fresh" /\ UNCHANGED <<driver, db, idle, budget, faults, erred, ghosts>> /\ driver' = driver
  BY DEF FreshStep, At
<1>2. CASE Keys \subseteq used
  <2>1. Proceeds(a, AtRest) /\ used' = used
    BY <1>2 DEF FreshStep
  <2>2. RunsTyped' /\ OthersSame(a, {}) /\ run'[a] = Or(AtRest)
    BY <1>1, <2>1, RestFacts, ProceedsFacts
  <2> QED
    BY <1>1, <2>1, <2>2, RestFacts DEF Or, Passes
<1>3. CASE ~(Keys \subseteq used)
  <2> DEFINE k == CHOOSE x \in Keys \ used : TRUE
             q == Doing(Tail(r.todo), r.key, k, r.copy, r.touched)
  <2>1. k \in Keys \ used
    BY <1>3
  <2>2. Proceeds(a, [Done(a) EXCEPT !.fresh = k]) /\ used' = used \cup {k}
    BY <1>3 DEF FreshStep
  <2> HIDE DEF k
  <2>3. Done(a) = Doing(Tail(r.todo), r.key, r.fresh, r.copy, r.touched) /\ IsRun(driver, Done(a))
    BY <1>1, DoneDoing
  <2>4. [Done(a) EXCEPT !.fresh = k] = q
    <3> HIDE DEF r
    <3> QED
      BY <2>3, DoingFacts
  <2>5. IsRun(driver, q)
    <3>1. k \in Keys0
      BY <2>1 DEF Keys0
    <3> QED
      BY <2>3, <3>1, IsRunDoing
  <2> HIDE DEF q
  <2>6. RunsTyped' /\ OthersSame(a, {}) /\ run'[a] = Or(q)
    BY <1>1, <2>2, <2>4, <2>5, ProceedsFacts
  <2>7. Passes(a) /\ Keeps(a, k, r.copy)
    BY <1>1, <2>6, DonePasses DEF q
  <2> QED
    BY <1>1, <2>1, <2>2, <2>6, <2>7
<1> QED
  BY <1>2, <1>3

LEMMA WriteFacts ==
  ASSUME TypeInv, NEW a \in Goroutines, WriteStep(a)
  PROVE  LET t == Now(a).t   k == Key(a)   i == Now(a).via
             old == IF Now(a).op = "put" THEN Known(a, t, k) ELSE {} IN
         /\ UNCHANGED <<driver, used, budget, faults, erred, sent, stale>>
         /\ Active(a) /\ Now(a).op \in {"put", "blank", "new"} /\ t \in Tables /\ i \in Tables
         /\ i = t \/ (Now(a).op = "put" /\ t = "prs" /\ i = "prindex")
         /\ RunsTyped' /\ OthersSame(a, {t, i}) /\ Passes(a) /\ Keeps(a, run[a].fresh, run[a].copy)
         /\ Tabled(db') /\ Put1(db[t], db'[t], k, old \cup {a})
         /\ DOMAIN db'[i] = DOMAIN db[i] \cup {k}
         /\ \A u \in Tables \ {t, i} : db'[u] = db[u]
         /\ idle' = IF t = "sessions" THEN idle \ {k} ELSE idle
         /\ resets' = IF t = "users" /\ "tokens" \notin run[a].touched
                      THEN [x \in Keys |-> resets[x] + (IF <<"tokens", x>> \in DOMAIN run[a].copy THEN 1 ELSE 0)]
                      ELSE resets
<1> DEFINE t == Now(a).t
           k == Key(a)
           i == Now(a).via
           old == IF Now(a).op = "put" THEN Known(a, t, k) ELSE {}
           tokens == {x \in Keys : <<"tokens", x>> \in DOMAIN run[a].copy}
<1>1. /\ Active(a) /\ Now(a).op \in {"put", "blank", "new"} /\ driver' = driver
      /\ UNCHANGED <<driver, used, budget, faults, erred, sent, stale>>
      /\ Touches(a, Done(a), {t, i})
      /\ db' = IF i = t THEN With(t, k, old \cup {a})
               ELSE [With(t, k, old \cup {a}) EXCEPT ![i] = Set(@, k, {a})]
      /\ idle' = IF t = "sessions" THEN idle \ {k} ELSE idle
  BY DEF WriteStep, InCopy, At
<1>2. resets' = IF t = "users" /\ "tokens" \notin run[a].touched
                THEN [x \in Keys |-> resets[x] + (IF <<"tokens", x>> \in DOMAIN run[a].copy THEN 1 ELSE 0)]
                ELSE resets
  <2>1. resets' = IF t = "users" /\ "tokens" \notin run[a].touched
                  THEN [x \in Keys |-> resets[x] + (IF x \in tokens THEN 1 ELSE 0)] ELSE resets
    BY DEF WriteStep, InCopy
  <2>2. \A x \in Keys : x \in tokens <=> <<"tokens", x>> \in DOMAIN run[a].copy
    OBVIOUS
  <2> HIDE DEF tokens
  <2> QED
    BY <2>1, <2>2
<1>3. /\ t \in Tables /\ i \in Tables
      /\ i = t \/ (Now(a).op = "put" /\ t = "prs" /\ i = "prindex")
  <2>1. Now(a) \in AnyStep(driver)
    BY <1>1, RunFacts
  <2> QED
    BY <1>1, <2>1, StepTables DEF AnyStep, StepsOf, Shape, PlainShape
<1>4. RunsTyped' /\ OthersSame(a, {t, i}) /\ Passes(a) /\ Keeps(a, run[a].fresh, run[a].copy)
  BY <1>1, TouchDone
<1>5. /\ Tabled(db') /\ Put1(db[t], db'[t], k, old \cup {a}) /\ DOMAIN db'[i] = DOMAIN db[i] \cup {k}
      /\ \A u \in Tables \ {t, i} : db'[u] = db[u]
  <2> DEFINE c == old \cup {a}
             w == With(t, k, c)
  <2> HIDE DEF old, k
  <2>1. Tabled(w) /\ Put1(db[t], w[t], k, c) /\ \A u \in Tables \ {t} : w[u] = db[u]
    BY <1>3, StillTables, WithFacts
  <2> HIDE DEF w, c
  <2>2. CASE i = t
    <3>1. db' = w
      BY <1>1, <2>2 DEF w, c
    <3> QED
      BY <2>1, <2>2, <3>1 DEF c, Put1
  <2>3. CASE i # t
    <3> DEFINE e == Set(w[i], k, {a})
    <3>1. db' = [w EXCEPT ![i] = e]
      BY <1>1, <2>3 DEF w, c
    <3>2. DOMAIN e = DOMAIN db[i] \cup {k}
      <4>1. w[i] = db[i]
        BY <1>3, <2>1, <2>3
      <4>2. Put1(w[i], e, k, {a})
        <5> DEFINE f == w[i]
        <5> HIDE DEF f
        <5>1. Put1(f, Set(f, k, {a}), k, {a})
          BY SetFacts
        <5> QED
          BY <5>1 DEF f
      <4> QED
        BY <4>1, <4>2 DEF Put1
    <3> HIDE DEF e
    <3>3. db' = [u \in Tables |-> IF u = i THEN e ELSE w[u]]
      BY <2>1, <3>1 DEF Tabled
    <3>4. Tabled(db') /\ db'[t] = w[t] /\ db'[i] = e /\ \A u \in Tables \ {t, i} : db'[u] = w[u]
      BY <1>3, <2>3, <3>3 DEF Tabled
    <3> QED
      BY <2>1, <2>3, <3>2, <3>4 DEF c
  <2> QED
    BY <2>2, <2>3
<1> QED
  BY <1>1, <1>2, <1>3, <1>4, <1>5

LEMMA TouchFacts ==
  ASSUME TypeInv, NEW a \in Goroutines, TouchStep(a)
  PROVE  LET k == Key(a) IN
         /\ UNCHANGED <<driver, used, budget, faults, erred, ghosts>>
         /\ Active(a) /\ Now(a).op = "touch" /\ Now(a).t = "sessions"
         /\ RunsTyped' /\ OthersSame(a, {"sessions"}) /\ Passes(a) /\ Keeps(a, run[a].fresh, run[a].copy)
         /\ Tabled(db') /\ DOMAIN db'["sessions"] = DOMAIN db["sessions"]
         /\ \A x \in DOMAIN db["sessions"] : db["sessions"][x] \subseteq db'["sessions"][x]
         /\ \A u \in Tables \ {"sessions"} : db'[u] = db[u]
         /\ idle' = idle \ {k}
<1> DEFINE t == Now(a).t
           k == Key(a)
<1>1. /\ Active(a) /\ Now(a).op = "touch" /\ driver' = driver /\ UNCHANGED <<driver, used, budget, faults, erred, ghosts>>
      /\ Touches(a, Done(a), {t})
      /\ db' = IF Has(t, k) THEN With(t, k, db[t][k] \cup {a}) ELSE db
      /\ idle' = IF t = "sessions" THEN idle \ {k} ELSE idle
  BY DEF TouchStep, At
<1>2. t \in Tables /\ t = "sessions"
  <2>1. Now(a) \in AnyStep(driver)
    BY <1>1, RunFacts
  <2> QED
    BY <1>1, <2>1, StepTables DEF AnyStep, StepsOf, Shape, PlainShape
<1>3. RunsTyped' /\ OthersSame(a, {t}) /\ Passes(a) /\ Keeps(a, run[a].fresh, run[a].copy)
  BY <1>1, TouchDone
<1>4. /\ Tabled(db') /\ DOMAIN db'[t] = DOMAIN db[t]
      /\ \A x \in DOMAIN db[t] : db[t][x] \subseteq db'[t][x]
      /\ \A u \in Tables \ {t} : db'[u] = db[u]
  <2>1. CASE Has(t, k)
    <3> DEFINE c == db[t][k] \cup {a}
               w == With(t, k, c)
    <3> HIDE DEF k
    <3>1. db[t][k] \subseteq c
      OBVIOUS
    <3> HIDE DEF c
    <3>2. Tabled(w) /\ Put1(db[t], w[t], k, c) /\ \A u \in Tables \ {t} : w[u] = db[u]
      BY <1>2, StillTables, WithFacts
    <3>3. db' = w
      BY <1>1, <2>1 DEF c
    <3> HIDE DEF w, t
    <3>4. DOMAIN w[t] = DOMAIN db[t] \cup {k} /\ w[t][k] = c /\ \A x \in DOMAIN db[t] \ {k} : w[t][x] = db[t][x]
      BY <3>2 DEF Put1
    <3>5. k \in DOMAIN db[t]
      BY <2>1 DEF Has
    <3>6. ASSUME NEW x \in DOMAIN db[t] PROVE db[t][x] \subseteq w[t][x]
      <4>1. CASE x = k
        BY <3>1, <3>4, <4>1
      <4>2. CASE x # k
        BY <3>4, <4>2
      <4> QED
        BY <4>1, <4>2
    <3> QED
      BY <3>2, <3>3, <3>4, <3>5, <3>6
  <2>2. CASE ~Has(t, k)
    BY <1>1, <2>2, StillTables
  <2> QED
    BY <2>1, <2>2
<1> QED
  BY <1>1, <1>2, <1>3, <1>4

LEMMA DelFacts ==
  ASSUME TypeInv, NEW a \in Goroutines, DelStep(a)
  PROVE  LET t == Now(a).t
             S == CASE Now(a).op = "del" -> {Key(a)} [] Now(a).op = "purgeidle" -> idle [] OTHER -> Keys IN
         /\ UNCHANGED <<driver, used, idle, budget, faults, erred, sent, resets>>
         /\ Active(a) /\ Now(a).op \in {"del", "purge", "purgeidle", "forget"} /\ t \in Tables
         /\ RunsTyped' /\ OthersSame(a, {t}) /\ Passes(a) /\ Keeps(a, run[a].fresh, run[a].copy)
         /\ Tabled(db') /\ Cut(db[t], db'[t], S) /\ \A u \in Tables \ {t} : db'[u] = db[u]
         /\ stale' = IF t = "spacecache" THEN {} ELSE stale
<1> DEFINE t == Now(a).t
           S == CASE Now(a).op = "del" -> {Key(a)} [] Now(a).op = "purgeidle" -> idle [] OTHER -> Keys
<1>1. /\ Active(a) /\ Now(a).op \in {"del", "purge", "purgeidle", "forget"} /\ driver' = driver
      /\ UNCHANGED <<driver, used, idle, budget, faults, erred, sent, resets>>
      /\ Touches(a, Done(a), {t}) /\ db' = Without(t, S)
      /\ stale' = IF t = "spacecache" THEN {} ELSE stale
  BY DEF DelStep, At
<1>2. t \in Tables
  <2>1. Now(a) \in AnyStep(driver)
    BY <1>1, RunFacts
  <2> QED
    BY <1>1, <2>1, StepTables
<1>3. RunsTyped' /\ OthersSame(a, {t}) /\ Passes(a) /\ Keeps(a, run[a].fresh, run[a].copy)
  BY <1>1, TouchDone
<1> HIDE DEF S
<1>4. Tabled(db') /\ Cut(db[t], db'[t], S) /\ \A u \in Tables \ {t} : db'[u] = db[u]
  BY <1>1, <1>2, StillTables, WithoutFacts
<1> QED
  BY <1>1, <1>2, <1>3, <1>4 DEF S

LEMMA FillFacts ==
  ASSUME TypeInv, NEW a \in Goroutines, FillStep(a)
  PROVE  LET f == db["spacecache"]   g == db'["spacecache"]   copy == run[a].copy
             S == {k \in Keys : <<"spaces", k>> \in DOMAIN copy} IN
         /\ UNCHANGED <<driver, used, idle, budget, faults, erred, sent, resets>>
         /\ Active(a) /\ Now(a).op = "fill" /\ Now(a).t = "spacecache"
         /\ RunsTyped' /\ OthersSame(a, {"spacecache"}) /\ Passes(a) /\ Keeps(a, run[a].fresh, copy)
         /\ Tabled(db') /\ DOMAIN g = DOMAIN f \cup S
         /\ (\A k \in S : g[k] = copy[<<"spaces", k>>]) /\ (\A k \in DOMAIN f \ S : g[k] = f[k])
         /\ \A u \in Tables \ {"spacecache"} : db'[u] = db[u]
         /\ stale' = IF "spaces" \in run[a].touched THEN stale \cup S ELSE stale
<1> DEFINE t == Now(a).t
           u == Now(a).via
           f == db["spacecache"]
           S == {k \in Keys : <<u, k>> \in DOMAIN run[a].copy}
           e == [k \in S |-> run[a].copy[<<u, k>>]]
           g == Over(e, f)
<1>1. /\ Active(a) /\ Now(a).op = "fill" /\ driver' = driver /\ UNCHANGED <<driver, used, idle, budget, faults, erred, sent, resets>>
      /\ Touches(a, Done(a), {t}) /\ db' = [db EXCEPT ![t] = Over(e, @)]
      /\ stale' = IF u \in run[a].touched THEN stale \cup S ELSE stale
  BY DEF FillStep, InCopy, At
<1>2. t = "spacecache" /\ u = "spaces" /\ "spacecache" \in Tables
  <2>1. Now(a) \in AnyStep(driver)
    BY <1>1, RunFacts
  <2> QED
    BY <1>1, <2>1, TableNames DEF AnyStep, StepsOf, Shape, PlainShape
<1>3. RunsTyped' /\ OthersSame(a, {"spacecache"}) /\ Passes(a) /\ Keeps(a, run[a].fresh, run[a].copy)
  BY <1>1, <1>2, TouchDone
<1>4. /\ DOMAIN g = DOMAIN f \cup S
      /\ (\A k \in S : g[k] = run[a].copy[<<u, k>>]) /\ (\A k \in DOMAIN f \ S : g[k] = f[k])
  BY DEF Over
<1>5. Tabled(db') /\ db'["spacecache"] = g /\ \A x \in Tables \ {"spacecache"} : db'[x] = db[x]
  <2>1. Tabled(db) /\ db' = [db EXCEPT !["spacecache"] = g]
    BY <1>1, <1>2, StillTables
  <2> HIDE DEF g
  <2>2. db' = [x \in Tables |-> IF x = "spacecache" THEN g ELSE db[x]]
    BY <2>1 DEF Tabled
  <2> QED
    BY <1>2, <2>2 DEF Tabled
<1> HIDE DEF g
<1>6. u = "spaces"
  BY <1>2
<1>7. S = {k \in Keys : <<"spaces", k>> \in DOMAIN run[a].copy}
  BY <1>2
<1>8. \A k \in S : g[k] = run[a].copy[<<"spaces", k>>]
  BY <1>2, <1>4
<1>9. stale' = IF "spaces" \in run[a].touched THEN stale \cup S ELSE stale
  BY <1>1, <1>2
<1> HIDE DEF S
<1> QED
  BY <1>1, <1>2, <1>3, <1>4, <1>5, <1>7, <1>8, <1>9

LEMMA SendFacts ==
  ASSUME TypeInv, NEW a \in Goroutines, SendStep(a)
  PROVE  /\ UNCHANGED <<driver, data, budget, faults, erred, resets, stale>> /\ Active(a) /\ Now(a).op = "send"
         /\ RunsTyped' /\ OthersSame(a, {}) /\ Passes(a) /\ Keeps(a, run[a].fresh, run[a].copy)
         /\ sent' = sent \cup {k \in Keys : <<"digests", k>> \in DOMAIN run[a].copy}
<1>1. /\ Active(a) /\ Now(a).op = "send" /\ driver' = driver /\ UNCHANGED <<driver, data, budget, faults, erred, resets, stale>>
      /\ Proceeds(a, Done(a)) /\ sent' = sent \cup {k \in Keys : <<Now(a).t, k>> \in DOMAIN run[a].copy}
  BY DEF SendStep, InCopy, At
<1>2. Now(a).t = "digests"
  <2>1. Now(a) \in AnyStep(driver)
    BY <1>1, RunFacts
  <2> QED
    BY <1>1, <2>1 DEF AnyStep, StepsOf, Shape, PlainShape
<1>3. IsRun(driver, Done(a)) /\ Done(a) = Doing(Tail(run[a].todo), run[a].key, run[a].fresh, run[a].copy, run[a].touched)
  BY <1>1, DoneDoing
<1>4. RunsTyped' /\ OthersSame(a, {}) /\ run'[a] = Or(Done(a))
  BY <1>1, <1>3, ProceedsFacts
<1>5. Passes(a) /\ Keeps(a, run[a].fresh, run[a].copy)
  BY <1>1, <1>3, <1>4, DonePasses
<1> QED
  BY <1>1, <1>2, <1>4, <1>5

LEMMA FailFacts ==
  ASSUME TypeInv, NEW a \in Goroutines, Fails(a)
  PROVE  /\ UNCHANGED <<driver, data, budget, ghosts>> /\ Active(a) /\ faults' = faults - 1 /\ faults > 0
         /\ Now(a).op \notin {"fresh", "unless", "fill", "forget", "send", "take"} /\ Now(a).t \notin Memory
         /\ erred' = erred \cup {Now(a).t}
         /\ RunsTyped' /\ OthersSame(a, {}) /\ Undoes(a) /\ Keeps(a, run[a].fresh, run[a].copy)
         /\ Now(a).failed = "end" => run'[a] = AtRest
         /\ run'[a] = AtRest \/ run'[a].touched = run[a].touched \cup ({Now(a).t} \cap Asked)
<1> DEFINE r == run[a]
           g == r.touched \cup ({Now(a).t} \cap Asked)
<1>1. /\ UNCHANGED <<driver, data, budget, ghosts>> /\ Active(a) /\ faults' = faults - 1 /\ faults > 0
      /\ Now(a).op \notin {"fresh", "unless", "fill", "forget", "send", "take"} /\ Now(a).t \notin Memory
      /\ erred' = erred \cup {Now(a).t} /\ driver' = driver
      /\ Proceeds(a, [Undone(a) EXCEPT !.touched = @ \cup ({Now(a).t} \cap Asked)])
  BY DEF Fails
<1>2. PICK u \in Todos(driver) :
         /\ Undone(a) = Doing(u, r.key, r.fresh, r.copy, r.touched)
         /\ Now(a).failed = "end" => u = <<>>
         /\ Now(a).failed = "on" => u = Tail(r.todo)
         /\ Now(a).failed \in {"next", "out"} => u = Leave(r.todo, LeftOut(Now(a)))
  BY <1>1, UndoneDoing
<1> DEFINE q == Doing(u, r.key, r.fresh, r.copy, g)
<1>3. [Undone(a) EXCEPT !.touched = @ \cup ({Now(a).t} \cap Asked)] = q
  <2>1. Undone(a).touched = r.touched
    BY <1>2, DoingFacts
  <2>2. [Undone(a) EXCEPT !.touched = @ \cup ({Now(a).t} \cap Asked)] = [Undone(a) EXCEPT !.touched = g]
    BY <2>1
  <2> HIDE DEF g, r
  <2> QED
    BY <1>2, <2>2, DoingFacts
<1>4. /\ r.key \in Keys0 /\ r.fresh \in Keys0 /\ DOMAIN r.copy \subseteq Tables \X Keys0 /\ r.touched \subseteq Asked
  BY <1>1, RunFacts
<1>5. g \subseteq Asked /\ r.touched \subseteq g
  BY <1>4
<1> HIDE DEF g
<1>6. IsRun(driver, q)
  BY <1>2, <1>4, <1>5, IsRunDoing
<1> HIDE DEF q
<1>7. RunsTyped' /\ OthersSame(a, {}) /\ run'[a] = Or(q)
  BY <1>1, <1>3, <1>6, ProceedsFacts
<1>8. /\ Undoes(a) /\ Keeps(a, r.fresh, r.copy) /\ (Now(a).failed = "end" => run'[a] = AtRest)
      /\ (run'[a] # AtRest => run'[a].touched = g)
  BY <1>1, <1>2, <1>5, <1>7, UndoneUndoes, ZenonT(30) DEF q
<1> QED
  BY <1>1, <1>7, <1>8 DEF g

-----------------------------------------------------------------------------
\* A handler that starts
StartStep(a) ==
  /\ UNCHANGED <<driver, data, faults, erred, ghosts>> /\ a \in Goroutines /\ ~Active(a)
  /\ RunsTyped' /\ OthersSame(a, {})
  /\ \/ run'[a] = AtRest
     \/ \E h, k : /\ run'[a] = Doing(h, k, 0, NoCopy, {}) /\ Startable(driver, h)
                  /\ \/ k \in used \ {run[b].fresh : b \in Goroutines}
                     \/ k = 0 /\ h = DeleteInactiveSessions(driver)

LEMMA BegunFacts ==
  ASSUME TypeInv, driver' = driver, NEW a \in Goroutines, NEW h, NEW k \in Keys0, Startable(driver, h), Proceeds(a, Begun(h, k))
  PROVE  RunsTyped' /\ OthersSame(a, {}) /\ (run'[a] = AtRest \/ run'[a] = Doing(h, k, 0, NoCopy, {}))
<1>1. h \in Todos(driver)
  BY DEF Startable
<1>2. Begun(h, k) = Doing(h, k, 0, NoCopy, {})
  BY RestFacts
<1>3. IsRun(driver, Begun(h, k))
  <2>1. 0 \in Keys0 /\ DOMAIN NoCopy = {} /\ {} \subseteq Asked
    BY DEF Keys0, NoCopy
  <2> QED
    BY <1>1, <1>2, <2>1, IsRunDoing
<1>4. RunsTyped' /\ OthersSame(a, {}) /\ run'[a] = Or(Begun(h, k))
  BY <1>3, ProceedsFacts
<1> QED
  BY <1>2, <1>4 DEF Or

LEMMA CommandFacts ==
  ASSUME TypeInv, NEW a \in Users, Command(a)
  PROVE  StartStep(a)
<1>1. UNCHANGED <<driver, data, faults, erred, ghosts>> /\ a \in Goroutines /\ ~Active(a) /\ driver' = driver
  BY DEF Command, Goroutines
<1>2. PICK h \in Ops[driver][a] : \E k \in used \ {run[b].fresh : b \in Goroutines} : Proceeds(a, Begun(h, k))
  BY DEF Command
<1>3. PICK k \in used \ {run[b].fresh : b \in Goroutines} : Proceeds(a, Begun(h, k))
  BY <1>2
<1>4. driver \in Drivers /\ used \subseteq Keys
  BY DEF TypeInv
<1>5. Ops[driver][a] \subseteq Handlers(driver)
  BY <1>4, RecordsAssumption DEF Handlers
<1>6. Startable(driver, h)
  BY <1>4, <1>5, HandlersStarted
<1>7. RunsTyped' /\ OthersSame(a, {}) /\ (run'[a] = AtRest \/ run'[a] = Doing(h, k, 0, NoCopy, {}))
  <2>1. k \in Keys0
    BY <1>4 DEF Keys0
  <2> QED
    BY <1>1, <1>3, <1>6, <2>1, BegunFacts
<1> QED
  BY <1>1, <1>6, <1>7 DEF StartStep

LEMMA SweepFacts ==
  ASSUME TypeInv, Sweep
  PROVE  StartStep(Sweeper)
<1> DEFINE h == DeleteInactiveSessions(driver)
<1>1. /\ UNCHANGED <<driver, data, faults, erred, ghosts>> /\ Sweeper \in Goroutines /\ ~Active(Sweeper) /\ driver' = driver
      /\ Proceeds(Sweeper, Begun(h, 0))
  BY DEF Sweep, Goroutines
<1>2. Startable(driver, h)
  <2>1. driver \in Drivers
    BY DEF TypeInv
  <2> QED
    BY <2>1, HandlersStarted
<1>3. RunsTyped' /\ OthersSame(Sweeper, {}) /\ (run'[Sweeper] = AtRest \/ run'[Sweeper] = Doing(h, 0, 0, NoCopy, {}))
  <2>1. 0 \in Keys0
    BY DEF Keys0
  <2> HIDE DEF h
  <2> QED
    BY <1>1, <1>2, <2>1, BegunFacts
<1> QED
  BY <1>1, <1>2, <1>3 DEF StartStep

LEMMA CrashFacts ==
  ASSUME TypeInv, Crash
  PROVE  /\ UNCHANGED <<driver, used, idle, budget, erred, sent, resets>> /\ faults' = faults - 1 /\ faults > 0
         /\ stale' = {} /\ RunsTyped' /\ Tabled(db') /\ \A a \in Goroutines : run'[a] = AtRest
         /\ \A t \in Tables : IF t \in Memory THEN DOMAIN db'[t] = {} ELSE db'[t] = db[t]
<1>1. /\ UNCHANGED <<driver, used, idle, budget, erred, sent, resets>> /\ faults' = faults - 1 /\ faults > 0
      /\ stale' = {} /\ run' = [a \in Goroutines |-> AtRest]
      /\ db' = [t \in Tables |-> IF t \in Memory THEN NoCopy ELSE db[t]]
  BY DEF Crash
<1>2. DOMAIN NoCopy = {}
  BY DEF NoCopy
<1>3. RunsTyped'
  BY <1>1, RestFacts DEF RunsTyped
<1>4. Tabled(db')
  BY <1>1 DEF Tabled
<1> QED
  BY <1>1, <1>2, <1>3, <1>4

-----------------------------------------------------------------------------
\* Keys of the records that are being made

\* What every step of a goroutine has in common: where the steps it goes on to come from, the
\* keys its step adds to a table, and what it adds to its copy
Advances(a) == run'[a] = AtRest \/ \E X, n : Onward(driver, run[a], run'[a], X, n) /\ Lapped(a, X)
Grown(a, t) ==
  IF Now(a).op \in {"put", "blank", "new"} /\ t \in {Now(a).t, Now(a).via} THEN {Key(a)}
  ELSE IF Now(a).op = "fill" /\ t = "spacecache" THEN {k \in Keys : <<"spaces", k>> \in DOMAIN run[a].copy}
  ELSE {}
Reads(a) ==
  IF Now(a).op = "get" THEN {<<Now(a).t, Key(a)>>}
  ELSE IF Now(a).op \in Loops THEN {Now(a).t} \X Listed(a) ELSE {}
Refreshed(a) ==
  \/ used' = used /\ (run'[a] = AtRest \/ run'[a].fresh = run[a].fresh)
  \/ \E k \in Keys \ used : /\ Now(a).op = "fresh" /\ used' = used \cup {k} /\ idle' = idle
                            /\ (run'[a] = AtRest \/ run'[a].fresh = k)
Worked(a) ==
  /\ Active(a) /\ driver' = driver /\ RunsTyped' /\ OthersSame(a, {}) /\ Advances(a)
  /\ Tabled(db') /\ \A t \in Tables : DOMAIN db'[t] \subseteq DOMAIN db[t] \cup Grown(a, t)
  /\ DOMAIN run'[a].copy \subseteq DOMAIN run[a].copy \cup Reads(a)
  /\ Refreshed(a) /\ idle' \subseteq idle /\ faults' \in Nat

LEMMA GoesBy ==
  ASSUME NEW a \in Goroutines
  PROVE  /\ Passes(a) => Advances(a)
         /\ Undoes(a) => Advances(a)
         /\ \A X : Lapped(a, X) /\ Loops2(a, X) => Advances(a)
<1>1. Lapped(a, <<>>)
  BY NothingProgram DEF Lapped
<1>2. Passes(a) => Advances(a)
  BY <1>1 DEF Passes, Advances
<1>3. Undoes(a) => Advances(a)
  BY <1>1 DEF Undoes, Left, Advances
<1>4. \A X : Lapped(a, X) /\ Loops2(a, X) => Advances(a)
  BY DEF Loops2, Advances
<1> QED
  BY <1>2, <1>3, <1>4

LEMMA OthersLess ==
  ASSUME NEW a, NEW T, OthersSame(a, T)
  PROVE  OthersSame(a, {})
BY DEF OthersSame, Same

LEMMA KeepsCopy ==
  ASSUME NEW a, NEW f, NEW c, Keeps(a, f, c)
  PROVE  (run'[a] = AtRest \/ run'[a].fresh = f) /\ DOMAIN run'[a].copy \subseteq DOMAIN c
BY RestFacts DEF Keeps

LEMMA CutLess ==
  ASSUME TypeInv, NEW t \in Tables, NEW S, Cut(db[t], db'[t], S), \A u \in Tables \ {t} : db'[u] = db[u]
  PROVE  \A u \in Tables : DOMAIN db'[u] \subseteq DOMAIN db[u]
BY DEF Cut

LEMMA WorkedFacts ==
  ASSUME TypeInv, NEW a \in Goroutines, Works(a) \/ Fails(a)
  PROVE  Worked(a)
<1>0. Tabled(db) /\ faults \in Nat
  BY StillTables DEF TypeInv
<1>1. CASE FreshStep(a)
  <2>1. /\ RunsTyped' /\ OthersSame(a, {}) /\ UNCHANGED <<driver, db, idle, budget, faults, erred, ghosts>>
        /\ Active(a) /\ Now(a).op = "fresh" /\ Passes(a)
        /\ \/ run'[a] = AtRest /\ used' = used
           \/ \E k \in Keys \ used : Keeps(a, k, run[a].copy) /\ used' = used \cup {k}
    BY <1>1, FreshFacts
  <2>2. Refreshed(a)
    BY <2>1 DEF Refreshed, Keeps
  <2>3. DOMAIN run'[a].copy \subseteq DOMAIN run[a].copy
    BY <2>1, RestFacts DEF Keeps
  <2> QED
    BY <1>0, <2>1, <2>2, <2>3, GoesBy DEF Worked
<1>2. CASE ReadStep(a) /\ Now(a).op \in {"free", "any"}
  <2>1. RunsTyped' /\ OthersSame(a, {}) /\ RunOnly /\ Active(a) /\ Passes(a) /\ Keeps(a, run[a].fresh, run[a].copy)
    BY <1>2, FreeFacts
  <2> QED
    BY <1>0, <2>1, GoesBy, KeepsCopy DEF Worked, RunOnly, data, Refreshed
<1>3. CASE ReadStep(a) /\ Now(a).op = "get"
  <2> DEFINE x == <<Now(a).t, Key(a)>>
  <2>1. /\ RunsTyped' /\ OthersSame(a, {}) /\ RunOnly /\ Active(a) /\ Advances(a)
        /\ \E v : Keeps(a, run[a].fresh, Set(run[a].copy, x, v))
    BY <1>3, GetFacts, GoesBy
  <2>2. PICK v : Keeps(a, run[a].fresh, Set(run[a].copy, x, v))
    BY <2>1
  <2>3. DOMAIN Set(run[a].copy, x, v) = DOMAIN run[a].copy \cup {x}
    <3> DEFINE f == run[a].copy
    <3> HIDE DEF f
    <3>1. Put1(f, Set(f, x, v), x, v)
      BY SetFacts
    <3> QED
      BY <3>1 DEF Put1, f
  <2>4. DOMAIN run'[a].copy \subseteq DOMAIN run[a].copy \cup {x}
    BY <2>2, <2>3, KeepsCopy
  <2>5. Reads(a) = {x}
    BY <1>3 DEF Reads
  <2>6. run'[a] = AtRest \/ run'[a].fresh = run[a].fresh
    BY <2>2, KeepsCopy
  <2> HIDE DEF x
  <2> QED
    BY <1>0, <2>1, <2>4, <2>5, <2>6 DEF Worked, RunOnly, data, Refreshed
<1>4. CASE TakeStep(a)
  <2> DEFINE t == Now(a).t
             k == Key(a)
  <2>1. /\ UNCHANGED <<driver, used, idle, budget, faults, erred, ghosts>> /\ Active(a)
        /\ t = "states" /\ RunsTyped' /\ Keeps(a, run[a].fresh, run[a].copy)
        /\ Has(t, k) => /\ OthersSame(a, {t}) /\ Passes(a) /\ Tabled(db')
                        /\ Cut(db[t], db'[t], {k}) /\ \A u \in Tables \ {t} : db'[u] = db[u]
        /\ ~Has(t, k) => OthersSame(a, {}) /\ run'[a] = AtRest /\ db' = db
    BY <1>4, TakeFacts
  <2>2. t \in Tables
    BY <2>1, TableNames
  <2> HIDE DEF t, k
  <2>3. /\ OthersSame(a, {}) /\ Advances(a) /\ Tabled(db') /\ \A u \in Tables : DOMAIN db'[u] \subseteq DOMAIN db[u]
    <3>1. CASE Has(t, k)
      BY <2>1, <2>2, <3>1, GoesBy, OthersLess, CutLess
    <3>2. CASE ~Has(t, k)
      BY <1>0, <2>1, <3>2 DEF Advances
    <3> QED
      BY <3>1, <3>2
  <2> QED
    BY <1>0, <2>1, <2>3, KeepsCopy DEF Worked, Refreshed
<1>5. CASE EachStep(a)
  <2> DEFINE t == Now(a).t
             S == Listed(a)
             X == Laps(S, Now(a).body)
             c == Over([tk \in {t} \X S |-> db[t][tk[2]]], run[a].copy)
  <2>1. /\ RunsTyped' /\ OthersSame(a, {}) /\ RunOnly /\ Active(a) /\ Now(a).op \in Loops
        /\ Lapped(a, X) /\ Loops2(a, X) /\ Keeps(a, run[a].fresh, c)
        /\ DOMAIN c = DOMAIN run[a].copy \cup ({t} \X S)
    BY <1>5, EachFacts
  <2>2. Reads(a) = {t} \X S
    BY <2>1 DEF Reads, Loops, Branches
  <2> HIDE DEF c, X, t, S
  <2>3. DOMAIN run'[a].copy \subseteq DOMAIN run[a].copy \cup Reads(a)
    BY <2>1, <2>2, KeepsCopy
  <2>4. run'[a] = AtRest \/ run'[a].fresh = run[a].fresh
    BY <2>1, KeepsCopy
  <2>5. Advances(a)
    BY <2>1, GoesBy
  <2> QED
    BY <1>0, <2>1, <2>3, <2>4, <2>5 DEF Worked, RunOnly, data, Refreshed
<1>6. CASE UnlessStep(a)
  <2>1. /\ RunsTyped' /\ OthersSame(a, {}) /\ RunOnly /\ Active(a) /\ Keeps(a, run[a].fresh, run[a].copy)
        /\ Passes(a) \/ \E X : Lapped(a, X) /\ Loops2(a, X)
    BY <1>6, UnlessFacts
  <2> QED
    BY <1>0, <2>1, GoesBy, KeepsCopy DEF Worked, RunOnly, data, Refreshed
<1>7. CASE WriteStep(a)
  <2> DEFINE t == Now(a).t
             i == Now(a).via
             k == Key(a)
             c == (IF Now(a).op = "put" THEN Known(a, t, k) ELSE {}) \cup {a}
  <2>1. /\ UNCHANGED <<driver, used, budget, faults, erred, sent, stale>>
        /\ Active(a) /\ Now(a).op \in {"put", "blank", "new"} /\ t \in Tables /\ i \in Tables
        /\ RunsTyped' /\ OthersSame(a, {t, i}) /\ Passes(a) /\ Keeps(a, run[a].fresh, run[a].copy)
        /\ Tabled(db') /\ Put1(db[t], db'[t], k, c) /\ DOMAIN db'[i] = DOMAIN db[i] \cup {k}
        /\ \A u \in Tables \ {t, i} : db'[u] = db[u]
        /\ idle' = IF t = "sessions" THEN idle \ {k} ELSE idle
    BY <1>7, WriteFacts
  <2>2. \A u \in Tables : Grown(a, u) = IF u \in {t, i} THEN {k} ELSE {}
    BY <2>1 DEF Grown
  <2> HIDE DEF t, i, k, c
  <2>3. \A u \in Tables : DOMAIN db'[u] \subseteq DOMAIN db[u] \cup Grown(a, u)
    BY <2>1, <2>2 DEF Put1
  <2> QED
    BY <1>0, <2>1, <2>3, GoesBy, OthersLess, KeepsCopy DEF Worked, Refreshed
<1>8. CASE TouchStep(a)
  <2>1. /\ UNCHANGED <<driver, used, budget, faults, erred, ghosts>> /\ Active(a)
        /\ RunsTyped' /\ OthersSame(a, {"sessions"}) /\ Passes(a) /\ Keeps(a, run[a].fresh, run[a].copy)
        /\ Tabled(db') /\ DOMAIN db'["sessions"] = DOMAIN db["sessions"]
        /\ \A u \in Tables \ {"sessions"} : db'[u] = db[u]
        /\ idle' \subseteq idle
    BY <1>8, TouchFacts
  <2> QED
    BY <1>0, <2>1, GoesBy, OthersLess, KeepsCopy DEF Worked, Refreshed
<1>9. CASE DelStep(a)
  <2> DEFINE t == Now(a).t
             S == CASE Now(a).op = "del" -> {Key(a)} [] Now(a).op = "purgeidle" -> idle [] OTHER -> Keys
  <2>1. /\ UNCHANGED <<driver, used, idle, budget, faults, erred, sent, resets>> /\ Active(a) /\ t \in Tables
        /\ RunsTyped' /\ OthersSame(a, {t}) /\ Passes(a) /\ Keeps(a, run[a].fresh, run[a].copy)
        /\ Tabled(db') /\ Cut(db[t], db'[t], S) /\ \A u \in Tables \ {t} : db'[u] = db[u]
    BY <1>9, DelFacts
  <2> HIDE DEF S, t
  <2>2. \A u \in Tables : DOMAIN db'[u] \subseteq DOMAIN db[u]
    BY <2>1, CutLess
  <2> QED
    BY <1>0, <2>1, <2>2, GoesBy, OthersLess, KeepsCopy DEF Worked, Refreshed
<1>10. CASE FillStep(a)
  <2> DEFINE S == {k \in Keys : <<"spaces", k>> \in DOMAIN run[a].copy}
  <2>1. /\ UNCHANGED <<driver, used, idle, budget, faults, erred, sent, resets>> /\ Active(a) /\ Now(a).op = "fill"
        /\ RunsTyped' /\ OthersSame(a, {"spacecache"}) /\ Passes(a) /\ Keeps(a, run[a].fresh, run[a].copy)
        /\ Tabled(db') /\ DOMAIN db'["spacecache"] = DOMAIN db["spacecache"] \cup S
        /\ \A u \in Tables \ {"spacecache"} : db'[u] = db[u]
    BY <1>10, FillFacts
  <2>2. Grown(a, "spacecache") = S
    BY <2>1 DEF Grown
  <2> HIDE DEF S
  <2>3. \A u \in Tables : DOMAIN db'[u] \subseteq DOMAIN db[u] \cup Grown(a, u)
    BY <2>1, <2>2
  <2> QED
    BY <1>0, <2>1, <2>3, GoesBy, OthersLess, KeepsCopy DEF Worked, Refreshed
<1>11. CASE SendStep(a)
  <2>1. /\ UNCHANGED <<driver, data, budget, faults, erred, resets, stale>> /\ Active(a)
        /\ RunsTyped' /\ OthersSame(a, {}) /\ Passes(a) /\ Keeps(a, run[a].fresh, run[a].copy)
    BY <1>11, SendFacts
  <2> QED
    BY <1>0, <2>1, GoesBy, KeepsCopy DEF Worked, data, Refreshed
<1>12. CASE Fails(a)
  <2>1. /\ UNCHANGED <<driver, data, budget, ghosts>> /\ Active(a) /\ faults' = faults - 1 /\ faults > 0
        /\ RunsTyped' /\ OthersSame(a, {}) /\ Undoes(a) /\ Keeps(a, run[a].fresh, run[a].copy)
    BY <1>12, FailFacts
  <2> QED
    BY <1>0, <2>1, GoesBy, KeepsCopy DEF Worked, data, Refreshed
<1>13. ReadStep(a) => Now(a).op \in {"free", "any"} \/ Now(a).op = "get"
  BY DEF ReadStep, At
<1> QED
  BY <1>1, <1>2, <1>3, <1>4, <1>5, <1>6, <1>7, <1>8, <1>9, <1>10, <1>11, <1>12, <1>13 DEF Works

\* The steps a goroutine has after its step were there before, or come from the loop.
LEMMA GoesSteps ==
  ASSUME TypeInv, NEW a \in Goroutines, Active(a), Advances(a)
  PROVE  /\ run'[a] = AtRest \/ (run'[a].key = run[a].key /\ run[a].touched \subseteq run'[a].touched)
         /\ \A i \in DOMAIN run'[a].todo :
              \/ Lapping(a, run'[a].todo[i])
              \/ \E j \in DOMAIN run[a].todo : j >= 2 /\ run'[a].todo[i] = run[a].todo[j]
<1>1. CASE run'[a] = AtRest
  BY <1>1, RestFacts
<1>2. ASSUME NEW X, NEW n, Onward(driver, run[a], run'[a], X, n), Lapped(a, X)
      PROVE  /\ run'[a].key = run[a].key /\ run[a].touched \subseteq run'[a].touched
             /\ \A i \in DOMAIN run'[a].todo :
                  \/ Lapping(a, run'[a].todo[i])
                  \/ \E j \in DOMAIN run[a].todo : j >= 2 /\ run'[a].todo[i] = run[a].todo[j]
  <2> DEFINE r == run[a]
             q == run'[a]
  <2>1. r.todo \in Todos(driver)
    BY RunFacts
  <2>2. DOMAIN r.todo = 1..Len(r.todo) /\ Len(r.todo) \in Nat /\ n \in 2..Len(r.todo) + 1
    BY <1>2, <2>1, TodoLens DEF Onward
  <2>3. \A i \in DOMAIN q.todo : \/ i \in DOMAIN X /\ q.todo[i] = X[i]
                                 \/ /\ i > Len(X) /\ Was(X, n, i) \in n..Len(r.todo)
                                    /\ q.todo[i] = r.todo[Was(X, n, i)]
    BY <1>2, <2>1, OnwardSteps
  <2>4. \A j \in n..Len(r.todo) : j \in DOMAIN r.todo /\ j >= 2
    BY <2>2
  <2> QED
    BY <1>2, <2>3, <2>4 DEF Onward, Lapped
<1> QED
  BY <1>1, <1>2 DEF Advances

\* What a loop or a branch may put before the other steps
LEMMA LapFacts ==
  ASSUME NEW a, NEW b, Lapping(a, b)
  PROVE  LET e == Now(a) IN
         /\ b.op \in {"get", "put", "blank", "fresh", "new", "del", "each", "unless", "fill"}
         /\ b.t \notin {"users", "tokens", "states", "prefs"}
         /\ b.t = "spaces" => b.op = "each"
         /\ ~NewMember(b)
         /\ b.t = "oidclinks" => b.op = "del"
         /\ b.t = "digests" => b.op = "del"
         /\ Rewrites(b) => b.t = e.t /\ e.op \in Loops
         /\ b.op = "del" => (b.t = e.t \/ (e.t = "sessions" /\ b.t = "byuser")) /\ e.op \in Loops
         /\ SessionDel(b) /\ driver = "bbolt" => e.op \in Loops /\ (e.via = "byuser" \/ e.op = "idlers")
         /\ \/ e.op \in Loops /\ b.key \in Listed(a)
            \/ e.op = "unless" /\ b.key = e.key
            \/ e.op = "again" /\ b.key \in InCopy(a, e.t)
<1>1. PICK s : /\ Inner(driver, Now(a), s)
               /\ b.op = s.op /\ b.t = s.t /\ b.via = s.via /\ b.failed = s.failed /\ b.body = s.body
               /\ \/ Now(a).op \in Loops /\ b.key \in Listed(a)
                  \/ Now(a).op = "unless" /\ b.key = Now(a).key
                  \/ Now(a).op = "again" /\ b.key \in InCopy(a, Now(a).t)
  BY DEF Lapping
<1> QED
  BY <1>1 DEF Inner, NewMember, Rewrites, SessionDel

LEMMA ShapeOf ==
  ASSUME NEW d, NEW s \in AnyStep(d)
  PROVE  PlainShape(s) /\ IndexShape(d, s) /\ OtherShape(s) /\ s.op \in OpNames /\ s.key \in Keys0
BY DEF AnyStep, StepsOf, Raw, Shape

LEMMA ListedKeys ==
  ASSUME TypeInv, KeyInv, NEW a \in Goroutines, Active(a), Now(a).op \in Loops
  PROVE  Listed(a) \subseteq used \cup {0}
<1>1. Listed(a) \subseteq DOMAIN db[Now(a).t] /\ Now(a).t \in Tables
  BY ListedFacts
<1>2. Now(a) \in AnyStep(driver)
  BY RunFacts
<1>3. Now(a).t # "users"
  BY <1>2, ShapeOf DEF OtherShape, Loops, Branches
<1> QED
  BY <1>1, <1>3 DEF KeyInv

\* What a handler does again for each record it has listed
LEMMA CopyKeys ==
  ASSUME TypeInv, KeyInv, NEW a \in Goroutines, Active(a), Now(a).op = "again"
  PROVE  Now(a).t = "deps" /\ InCopy(a, Now(a).t) \subseteq used
<1>1. Now(a) \in AnyStep(driver)
  BY RunFacts
<1>2. Now(a).t = "deps"
  BY <1>1, ShapeOf DEF PlainShape
<1>3. \A k \in Keys : <<"deps", k>> \in DOMAIN run[a].copy => k \in used \cup {0}
  BY DEF KeyInv
<1>4. 0 \notin Keys
  BY KeysNat
<1> QED
  BY <1>2, <1>3, <1>4 DEF InCopy

LEMMA KeyOfKeys ==
  ASSUME TypeInv, KeyInv, NEW a \in Goroutines, Active(a)
  PROVE  Now(a).t = "users" \/ Key(a) \in used \cup {0}
<1>1. 1 \in DOMAIN run[a].todo /\ Now(a) = run[a].todo[1]
  BY RunFacts
<1>2. run[a].key \in used \cup {0} /\ run[a].fresh \in used \cup {0} /\ run[a].todo[1].key \in used \cup {0}
  BY <1>1 DEF KeyInv
<1> QED
  BY <1>1, <1>2 DEF Key, KeyOf

-----------------------------------------------------------------------------
LEMMA TypeWorks ==
  ASSUME TypeInv, NEW a \in Goroutines, Worked(a)
  PROVE  TypeInv'
<1>1. \A t \in Tables : DOMAIN db'[t] \subseteq Keys0
  <2>1. Key(a) \in Keys0
    BY RunFacts DEF Worked
  <2>2. \A t \in Tables : Grown(a, t) \subseteq Keys0
    BY <2>1 DEF Grown, Keys0
  <2> QED
    BY <2>2, StillTables DEF Worked
<1>2. used' \subseteq Keys /\ idle' \subseteq used'
  BY DEF Worked, Refreshed, TypeInv
<1>3. driver' \in Drivers /\ faults' \in Nat
  BY DEF Worked, TypeInv
<1> QED
  BY <1>1, <1>2, <1>3 DEF Worked, TypeInv, RunsTyped, Tabled

LEMMA TypeStarts ==
  ASSUME TypeInv, NEW a, StartStep(a)
  PROVE  TypeInv'
BY DEF TypeInv, StartStep, RunsTyped, data

LEMMA TypeCrash ==
  ASSUME TypeInv, Crash
  PROVE  TypeInv'
<1>1. /\ UNCHANGED <<driver, used, idle, budget, erred, sent, resets>> /\ faults' = faults - 1 /\ faults > 0
      /\ RunsTyped' /\ Tabled(db')
      /\ \A t \in Tables : IF t \in Memory THEN DOMAIN db'[t] = {} ELSE db'[t] = db[t]
  BY CrashFacts
<1>2. \A t \in Tables : DOMAIN db'[t] \subseteq Keys0
  BY <1>1, StillTables
<1>3. faults' \in Nat
  BY <1>1 DEF TypeInv
<1> QED
  BY <1>1, <1>2, <1>3 DEF TypeInv, RunsTyped, Tabled

-----------------------------------------------------------------------------
LEMMA KeyWorks ==
  ASSUME TypeInv, KeyInv, NEW a \in Goroutines, Worked(a)
  PROVE  KeyInv'
<1>1. /\ Active(a) /\ Now(a) \in AnyStep(driver) /\ used \subseteq used' /\ used \subseteq Keys /\ 0 \notin Keys
  <2>1. Active(a) /\ used \subseteq used'
    BY DEF Worked, Refreshed
  <2> QED
    BY <2>1, RunFacts, KeysNat DEF TypeInv
<1>2. ASSUME NEW t \in Tables \ {"users"} PROVE DOMAIN db'[t] \subseteq used' \cup {0}
  <2>1. Grown(a, t) \subseteq used \cup {0}
    <3>1. CASE Now(a).op \in {"put", "blank", "new"} /\ t \in {Now(a).t, Now(a).via}
      <4>1. Now(a).t # "users"
        BY <1>1, <1>2, <3>1, ShapeOf DEF PlainShape
      <4> QED
        BY <1>1, <3>1, <4>1, KeyOfKeys DEF Grown
    <3>2. CASE ~(Now(a).op \in {"put", "blank", "new"} /\ t \in {Now(a).t, Now(a).via})
      <4>1. \A k : <<"spaces", k>> \in DOMAIN run[a].copy => k \in used \cup {0}
        BY DEF KeyInv
      <4> QED
        BY <3>2, <4>1 DEF Grown
    <3> QED
      BY <3>1, <3>2
  <2>2. DOMAIN db[t] \subseteq used \cup {0}
    BY DEF KeyInv
  <2> QED
    BY <1>1, <2>1, <2>2 DEF Worked
<1>3. ASSUME NEW b \in Goroutines \ {a}
      PROVE  run'[b].todo = run[b].todo /\ run'[b].key = run[b].key /\ run'[b].fresh = run[b].fresh /\ run'[b].copy = run[b].copy
  BY DEF Worked, OthersSame, Same
<1>4. /\ run'[a].key \in used' \cup {0} /\ run'[a].fresh \in used' \cup {0}
      /\ run'[a].key \in {0, run[a].key}
      /\ run'[a].fresh \in {0, run[a].fresh} \/ (run'[a].fresh \notin used /\ run'[a].fresh \in Keys)
  <2>1. run[a].key \in used \cup {0} /\ run[a].fresh \in used \cup {0}
    BY DEF KeyInv
  <2>2. run'[a].key \in {0, run[a].key}
    BY <1>1, GoesSteps, RestFacts DEF Worked
  <2>3. run'[a].fresh \in {0, run[a].fresh} \/ (run'[a].fresh \notin used /\ run'[a].fresh \in Keys /\ run'[a].fresh \in used')
    BY RestFacts DEF Worked, Refreshed
  <2> QED
    BY <1>1, <2>1, <2>2, <2>3
<1>5. \A i \in DOMAIN run'[a].todo : run'[a].todo[i].key \in used' \cup {0}
  <2> SUFFICES ASSUME NEW i \in DOMAIN run'[a].todo PROVE run'[a].todo[i].key \in used \cup {0}
    BY <1>1
  <2> DEFINE b == run'[a].todo[i]
  <2>1. Lapping(a, b) \/ \E j \in DOMAIN run[a].todo : b = run[a].todo[j]
    BY <1>1, GoesSteps DEF Worked
  <2>2. Lapping(a, b) => b.key \in used \cup {0}
    <3>1. Now(a).key \in used \cup {0}
      BY <1>1, RunFacts DEF KeyInv
    <3> HIDE DEF b
    <3>2. Lapping(a, b) => \/ Now(a).op \in Loops /\ b.key \in Listed(a)
                           \/ b.key = Now(a).key
                           \/ Now(a).op = "again" /\ b.key \in InCopy(a, Now(a).t)
      BY LapFacts
    <3>3. Now(a).op = "again" => InCopy(a, Now(a).t) \subseteq used
      BY <1>1, CopyKeys
    <3> QED
      BY <1>1, <3>1, <3>2, <3>3, ListedKeys
  <2> QED
    BY <2>1, <2>2 DEF KeyInv
<1>6. \A x \in DOMAIN run'[a].copy : x[1] # "users" => x[2] \in used' \cup {0}
  <2> SUFFICES ASSUME NEW x \in DOMAIN run'[a].copy, x[1] # "users" PROVE x[2] \in used \cup {0}
    BY <1>1
  <2>1. CASE x \in DOMAIN run[a].copy
    BY <2>1 DEF KeyInv
  <2>2. CASE x \in Reads(a)
    <3>1. CASE Now(a).op = "get"
      <4>1. x = <<Now(a).t, Key(a)>>
        BY <2>2, <3>1 DEF Reads
      <4> QED
        BY <1>1, <4>1, KeyOfKeys
    <3>2. CASE Now(a).op \in Loops
      <4>1. x \in {Now(a).t} \X Listed(a)
        BY <2>2, <3>2 DEF Reads, Loops, Branches
      <4>2. x[2] \in Listed(a)
        BY <4>1
      <4> QED
        BY <1>1, <3>2, <4>2, ListedKeys
    <3> QED
      BY <2>2, <3>1, <3>2 DEF Reads
  <2> QED
    BY <2>1, <2>2 DEF Worked
<1>7. \A b \in Goroutines \ {a} :
         /\ run'[b].key \in used' \cup {0} /\ run'[b].fresh \in used' \cup {0}
         /\ \A i \in DOMAIN run'[b].todo : run'[b].todo[i].key \in used' \cup {0}
         /\ \A x \in DOMAIN run'[b].copy : x[1] # "users" => x[2] \in used' \cup {0}
  <2> SUFFICES ASSUME NEW b \in Goroutines \ {a}
               PROVE  /\ run'[b].key \in used' \cup {0} /\ run'[b].fresh \in used' \cup {0}
                      /\ \A i \in DOMAIN run'[b].todo : run'[b].todo[i].key \in used' \cup {0}
                      /\ \A x \in DOMAIN run'[b].copy : x[1] # "users" => x[2] \in used' \cup {0}
    OBVIOUS
  <2>1. /\ run[b].key \in used \cup {0} /\ run[b].fresh \in used \cup {0}
        /\ \A i \in DOMAIN run[b].todo : run[b].todo[i].key \in used \cup {0}
        /\ \A x \in DOMAIN run[b].copy : x[1] # "users" => x[2] \in used \cup {0}
    BY DEF KeyInv
  <2> QED
    BY <1>1, <1>3, <2>1
<1>8. ASSUME NEW c \in Goroutines, run'[c].fresh # 0
      PROVE  /\ run'[c].fresh \notin idle'
             /\ \A b \in Goroutines : run'[b].key # run'[c].fresh /\ (b # c => run'[b].fresh # run'[c].fresh)
  <2>1. \A b \in Goroutines : run[b].key \in used \cup {0} /\ run[b].fresh \in used \cup {0}
    BY DEF KeyInv
  <2>2. idle' \subseteq idle /\ idle \subseteq used
    BY DEF Worked, TypeInv
  <2>3. \A x \in Goroutines : run[x].fresh # 0 =>
          run[x].fresh \notin idle /\ \A b \in Goroutines : run[b].key # run[x].fresh /\ (b # x => run[b].fresh # run[x].fresh)
    BY DEF KeyInv
  <2>4. CASE c = a /\ run'[a].fresh \notin {0, run[a].fresh}
    <3>1. run'[c].fresh \notin used \cup {0}
      BY <1>4, <1>8, <2>4
    <3>2. ASSUME NEW b \in Goroutines PROVE run'[b].key \in used \cup {0} /\ (b # c => run'[b].fresh \in used \cup {0})
      <4>1. CASE b = a
        BY <1>4, <2>1, <2>4, <4>1
      <4>2. CASE b # a
        BY <1>3, <2>1, <4>2
      <4> QED
        BY <4>1, <4>2
    <3> QED
      BY <2>2, <3>1, <3>2
  <2>5. CASE ~(c = a /\ run'[a].fresh \notin {0, run[a].fresh})
    <3>1. run'[c].fresh = run[c].fresh
      BY <1>3, <1>8, <2>5
    <3>2. run[c].fresh \in used
      BY <1>8, <2>1, <3>1
    <3>3. ASSUME NEW b \in Goroutines PROVE run'[b].key # run'[c].fresh /\ (b # c => run'[b].fresh # run'[c].fresh)
      <4>1. CASE b = a
        <5>1. run'[a].key # run[c].fresh
          BY <1>4, <1>8, <2>3, <3>1
        <5>2. a # c => run'[a].fresh # run[c].fresh
          BY <1>4, <1>8, <2>3, <3>1, <3>2
        <5> QED
          BY <3>1, <4>1, <5>1, <5>2
      <4>2. CASE b # a
        BY <1>3, <1>8, <2>3, <3>1, <4>2
      <4> QED
        BY <4>1, <4>2
    <3> QED
      BY <1>8, <2>2, <2>3, <3>1, <3>3
  <2> QED
    BY <2>4, <2>5
<1> QED
  BY <1>2, <1>4, <1>5, <1>6, <1>7, <1>8 DEF KeyInv

LEMMA KeyCrash ==
  ASSUME TypeInv, KeyInv, Crash
  PROVE  KeyInv'
<1>1. /\ used' = used /\ idle' = idle /\ \A a \in Goroutines : run'[a] = AtRest
      /\ \A t \in Tables : IF t \in Memory THEN DOMAIN db'[t] = {} ELSE db'[t] = db[t]
  BY CrashFacts
<1>2. \A a \in Goroutines : run'[a].todo = <<>> /\ run'[a].key = 0 /\ run'[a].fresh = 0 /\ DOMAIN run'[a].copy = {}
  BY <1>1, RestFacts
<1>3. \A a \in Goroutines : DOMAIN run'[a].todo = {}
  BY <1>2
<1>4. \A t \in Tables \ {"users"} : DOMAIN db'[t] \subseteq used' \cup {0}
  BY <1>1 DEF KeyInv
<1> QED
  BY <1>2, <1>3, <1>4 DEF KeyInv

LEMMA KeyStarts ==
  ASSUME TypeInv, KeyInv, NEW a, StartStep(a)
  PROVE  KeyInv'
<1>1. /\ db' = db /\ used' = used /\ idle' = idle /\ a \in Goroutines /\ ~Active(a)
      /\ \A b \in Goroutines \ {a} : run'[b].todo = run[b].todo /\ run'[b].key = run[b].key
                                     /\ run'[b].fresh = run[b].fresh /\ run'[b].copy = run[b].copy
  BY DEF StartStep, data, OthersSame, Same
<1>2. /\ run'[a].fresh = 0 /\ DOMAIN run'[a].copy = {}
      /\ run'[a].key \in (used \cup {0}) \ ({run[b].fresh : b \in Goroutines} \ {0})
      /\ \A i \in DOMAIN run'[a].todo : run'[a].todo[i].key = 0
  <2>1. CASE run'[a] = AtRest
    <3>1. run'[a].todo = <<>> /\ run'[a].key = 0 /\ run'[a].fresh = 0 /\ DOMAIN run'[a].copy = {}
      BY <2>1, RestFacts
    <3>2. DOMAIN run'[a].todo = {}
      BY <3>1
    <3> QED
      BY <3>1, <3>2
  <2>2. CASE run'[a] # AtRest
    <3>1. PICK h, k : /\ run'[a] = Doing(h, k, 0, NoCopy, {}) /\ Startable(driver, h)
                      /\ k \in used \ {run[b].fresh : b \in Goroutines} \/ k = 0
      BY <2>2 DEF StartStep
    <3>2. \A i \in DOMAIN h : h[i].key = 0
      BY <3>1 DEF Startable, TopShape
    <3>3. run'[a].todo = h /\ run'[a].key = k /\ run'[a].fresh = 0 /\ run'[a].copy = NoCopy
      BY <3>1, DoingFacts
    <3>4. DOMAIN NoCopy = {}
      BY DEF NoCopy
    <3> QED
      BY <3>1, <3>2, <3>3, <3>4
  <2> QED
    BY <2>1, <2>2
<1>3. \A x \in Goroutines : run[x].key \in used \cup {0} /\ run[x].fresh \in used \cup {0}
  BY DEF KeyInv
<1>4. ASSUME NEW c \in Goroutines, run'[c].fresh # 0
      PROVE  /\ run'[c].fresh \notin idle'
             /\ \A b \in Goroutines : run'[b].key # run'[c].fresh /\ (b # c => run'[b].fresh # run'[c].fresh)
  <2>1. c # a /\ run'[c].fresh = run[c].fresh
    BY <1>1, <1>2, <1>4
  <2>2. /\ run[c].fresh \notin idle
        /\ \A b \in Goroutines : run[b].key # run[c].fresh /\ (b # c => run[b].fresh # run[c].fresh)
    BY <1>4, <2>1 DEF KeyInv
  <2> QED
    BY <1>1, <1>2, <1>4, <2>1, <2>2
<1>5. ASSUME NEW b \in Goroutines
      PROVE  /\ run'[b].key \in used' \cup {0} /\ run'[b].fresh \in used' \cup {0}
             /\ \A i \in DOMAIN run'[b].todo : run'[b].todo[i].key \in used' \cup {0}
             /\ \A x \in DOMAIN run'[b].copy : x[1] # "users" => x[2] \in used' \cup {0}
  <2>1. CASE b = a
    BY <1>1, <1>2, <2>1
  <2>2. CASE b # a
    BY <1>1, <2>2 DEF KeyInv
  <2> QED
    BY <2>1, <2>2
<1> QED
  BY <1>1, <1>4, <1>5 DEF KeyInv

\* The next step is not one put before, if it needs one before it.
LEMMA GoesNext ==
  ASSUME TypeInv, NEW a \in Goroutines, Active(a), Advances(a), run'[a] # AtRest, NeedsBefore(driver, run'[a].todo[1])
  PROVE  /\ Onward(driver, run[a], run'[a], <<>>, 2)
         /\ 2 \in DOMAIN run[a].todo /\ run'[a].todo[1] = run[a].todo[2] /\ Link(driver, Now(a), run'[a].todo[1])
         /\ 2 \in DOMAIN run'[a].todo => 3 \in DOMAIN run[a].todo /\ run'[a].todo[2] = run[a].todo[3]
<1>1. PICK X, n : Onward(driver, run[a], run'[a], X, n)
  BY DEF Advances
<1>2. X = <<>> /\ n = 2
  BY <1>1 DEF Onward
<1>3. Onward(driver, run[a], run'[a], <<>>, 2)
  BY <1>1, <1>2
<1>4. run[a].todo \in Todos(driver) /\ Now(a) = run[a].todo[1]
  BY RunFacts
<1> QED
  BY <1>3, <1>4, NextStep

LEMMA MadeFacts == Made \subseteq Tables \ {"users"} /\ "spacecache" \notin Made /\ "prs" \notin Made /\ "prindex" \notin Made
BY TableNames DEF Made

\* Steps put before others clash with no record that is being made.
LEMMA LapClash ==
  ASSUME TypeInv, KeyInv, ZeroInv, NEW a \in Goroutines, Active(a), NEW b \in AnyStep(driver), Lapping(a, b),
         NEW t \in Made, Clashes(b, t), t = "byuser" => driver = "bbolt", NEW k, k \notin DOMAIN db[t], k \notin idle
  PROVE  b.key # k /\ b.key # 0 /\ b.t # "users"
<1> DEFINE e == Now(a)
<1>1. /\ Rewrites(b) => b.t = e.t /\ e.op \in Loops
      /\ SessionDel(b) /\ driver = "bbolt" => e.op \in Loops /\ (e.via = "byuser" \/ e.op = "idlers")
      /\ \/ e.op \in Loops /\ b.key \in Listed(a)
         \/ e.op = "unless" /\ b.key = e.key
         \/ e.op = "again" /\ b.key \in InCopy(a, e.t)
      /\ b.t # "users"
  BY LapFacts
<1>2. CASE b.op = "put" /\ b.t = t
  <2>1. Rewrites(b)
    <3>1. t \notin {"byuser", "logindex", "states", "prints"} /\ t \in Made
      BY <1>2, ShapeOf DEF IndexShape, OtherShape, Made
    <3>2. DOMAIN Index = {"byuser", "prindex", "linksbypr", "dependents", "logindex"}
      BY DEF Index
    <3>3. t \notin Memory \cup DOMAIN Index
      BY <3>1, <3>2 DEF Memory, Made
    <3> QED
      BY <1>2, <3>3 DEF Rewrites
  <2>2. e.op \in Loops /\ e.t = t /\ b.key \in Listed(a)
    BY <1>1, <1>2, <2>1 DEF Loops, Branches
  <2>3. b.key \in DOMAIN db[t]
    BY <2>2, ListedFacts
  <2>4. t \in Tables
    BY MadeFacts
  <2> QED
    BY <1>1, <2>3, <2>4 DEF ZeroInv
<1>3. CASE t = "byuser" /\ SessionDel(b)
  <2>1. e.op \in Loops /\ (e.via = "byuser" \/ e.op = "idlers") /\ b.key \in Listed(a)
    BY <1>1, <1>3 DEF Loops, Branches
  <2>2. /\ Listed(a) \subseteq DOMAIN db[e.via] /\ Listed(a) \subseteq DOMAIN db[e.t] /\ e.t \in Tables
        /\ e.op = "idlers" => Listed(a) \subseteq idle
    BY <2>1, ListedFacts
  <2> HIDE DEF e
  <2>3. b.key # 0
    BY <2>1, <2>2 DEF ZeroInv
  <2>4. b.key # k
    BY <1>3, <2>1, <2>2
  <2> QED
    BY <1>1, <2>3, <2>4
<1> QED
  BY <1>2, <1>3 DEF Clashes

LEMMA PendingShape ==
  ASSUME NEW d, NEW r, r.todo \in Todos(d), NEW t, Pending(r, t)
  PROVE  /\ r.todo # <<>> /\ r.todo[1].op = "new" /\ NeedsBefore(d, r.todo[1])
         /\ t = "byuser" => d = "bbolt"
         /\ r.todo[1].t = t \/ (2 \in DOMAIN r.todo /\ r.todo[2].op = "new" /\ r.todo[2].t = t)
<1>1. /\ DOMAIN r.todo = 1..Len(r.todo) /\ Len(r.todo) \in Nat /\ \A i \in DOMAIN r.todo : r.todo[i] \in AnyStep(d)
  BY TodoLens
<1>2. r.todo # <<>> /\ r.todo[1].op = "new" /\ 1 \in DOMAIN r.todo
  BY <1>1 DEF Pending
<1>3. r.todo[1].t = t \/ (2 \in DOMAIN r.todo /\ r.todo[2].op = "new" /\ r.todo[2].t = t)
  BY <1>1 DEF Pending
<1>4. t = "byuser" => d = "bbolt"
  BY <1>1, <1>2, <1>3, ShapeOf DEF IndexShape
<1> QED
  BY <1>2, <1>3, <1>4 DEF NeedsBefore

\* What a step may clash with stays clear of the keys others are making.
LEMMA PendOthers ==
  ASSUME TypeInv, KeyInv, ZeroInv, PendInv, NEW a \in Goroutines, Worked(a), NEW c \in Goroutines \ {a},
         NEW t \in Made, Pending(run'[c], t)
  PROVE  /\ run'[c].fresh # 0 /\ run'[c].fresh \notin DOMAIN db'[t]
         /\ \A b \in Goroutines : \A i \in DOMAIN run'[b].todo :
              Clashes(run'[b].todo[i], t) => KeyOf(run'[b], run'[b].todo[i]) # run'[c].fresh
<1> DEFINE k == run[c].fresh
<1>1. \A b \in Goroutines \ {a} :
        run'[b].todo = run[b].todo /\ run'[b].key = run[b].key /\ run'[b].fresh = run[b].fresh
  BY DEF Worked, OthersSame, Same
<1>2. Pending(run[c], t) /\ run'[c].fresh = k
  BY <1>1 DEF Pending
<1>3. /\ k # 0 /\ k \notin DOMAIN db[t]
      /\ \A b \in Goroutines : \A i \in DOMAIN run[b].todo :
           Clashes(run[b].todo[i], t) => KeyOf(run[b], run[b].todo[i]) # k
  BY <1>2 DEF PendInv
<1>4. k \notin idle /\ run[a].key # k /\ run[a].fresh # k
  BY <1>3 DEF KeyInv
<1>5. /\ Active(a) /\ Now(a) \in AnyStep(driver) /\ 1 \in DOMAIN run[a].todo /\ Now(a) = run[a].todo[1]
      /\ \A i \in DOMAIN run'[a].todo : run'[a].todo[i] \in AnyStep(driver)
      /\ t = "byuser" => driver = "bbolt"
  <2>1. Active(a) /\ Now(a) \in AnyStep(driver) /\ 1 \in DOMAIN run[a].todo /\ Now(a) = run[a].todo[1]
    BY RunFacts DEF Worked
  <2>2. run'[a].todo \in Todos(driver) /\ run[c].todo \in Todos(driver)
    BY DEF Worked, RunsTyped, IsRun, TypeInv
  <2> QED
    BY <1>2, <2>1, <2>2, TodoLens, PendingShape
<1>6. k \notin Grown(a, t)
  <2>1. CASE Now(a).op \in {"put", "blank", "new"} /\ t \in {Now(a).t, Now(a).via}
    <3>1. Now(a).t = t /\ Now(a).op # "blank"
      BY <1>5, <2>1, ShapeOf, MadeFacts DEF PlainShape
    <3>2. Key(a) # k
      <4>1. CASE Now(a).op = "put"
        BY <1>3, <1>5, <3>1, <4>1 DEF Clashes, Key
      <4>2. CASE Now(a).op = "new"
        BY <1>4, <3>1, <4>2, MadeFacts DEF Key, KeyOf
      <4> QED
        BY <2>1, <3>1, <4>1, <4>2
    <3> QED
      BY <2>1, <3>2 DEF Grown
  <2>2. CASE ~(Now(a).op \in {"put", "blank", "new"} /\ t \in {Now(a).t, Now(a).via})
    BY <2>2, MadeFacts DEF Grown
  <2> QED
    BY <2>1, <2>2
<1>7. k \notin DOMAIN db'[t]
  BY <1>3, <1>6, MadeFacts DEF Worked
<1>8. ASSUME NEW i \in DOMAIN run'[a].todo, Clashes(run'[a].todo[i], t)
      PROVE  KeyOf(run'[a], run'[a].todo[i]) # k
  <2> DEFINE b == run'[a].todo[i]
  <2>1. /\ run'[a] = AtRest \/ run'[a].key = run[a].key
        /\ Lapping(a, b) \/ \E j \in DOMAIN run[a].todo : b = run[a].todo[j]
    BY <1>5, GoesSteps DEF Worked
  <2>2. run'[a] = AtRest => DOMAIN run'[a].todo = {}
    BY RestFacts
  <2>3. run'[a].key = run[a].key
    BY <2>1, <2>2
  <2>4. b.op # "new" /\ b.t # "users"
    BY <1>8, MadeFacts DEF Clashes, SessionDel
  <2>5. KeyOf(run'[a], b) = KeyOf(run[a], b)
    BY <2>3, <2>4 DEF KeyOf
  <2> HIDE DEF b
  <2>6. CASE Lapping(a, b)
    <3>1. b \in AnyStep(driver)
      BY <1>5 DEF b
    <3>2. Clashes(b, t)
      BY <1>8 DEF b
    <3> HIDE DEF k
    <3>3. b.key # k /\ b.key # 0
      BY <1>3, <1>4, <1>5, <2>6, <3>1, <3>2, LapClash
    <3> QED
      BY <2>4, <2>5, <3>3 DEF KeyOf, b
  <2>7. CASE \E j \in DOMAIN run[a].todo : b = run[a].todo[j]
    BY <1>3, <1>8, <2>5, <2>7 DEF b
  <2> QED
    BY <2>1, <2>6, <2>7
<1>9. ASSUME NEW b \in Goroutines \ {a}, NEW i \in DOMAIN run'[b].todo, Clashes(run'[b].todo[i], t)
      PROVE  KeyOf(run'[b], run'[b].todo[i]) # k
  BY <1>1, <1>3, <1>9 DEF KeyOf
<1> QED
  BY <1>2, <1>3, <1>7, <1>8, <1>9

\* A goroutine makes a record only with a key it has just made, or next to one it has just written.
LEMMA PendSelf ==
  ASSUME TypeInv, KeyInv, PendInv, KeyInv', NEW a \in Goroutines, Works(a) \/ Fails(a), Worked(a),
         NEW t \in Made, Pending(run'[a], t)
  PROVE  /\ run'[a].fresh # 0 /\ run'[a].fresh \notin DOMAIN db'[t]
         /\ \A b \in Goroutines : \A i \in DOMAIN run'[b].todo :
              Clashes(run'[b].todo[i], t) => KeyOf(run'[b], run'[b].todo[i]) # run'[a].fresh
<1> DEFINE r == run[a]
           q == run'[a]
<1>1. /\ Active(a) /\ r.todo \in Todos(driver) /\ q.todo \in Todos(driver) /\ driver' = driver /\ Now(a) = r.todo[1]
      /\ Advances(a) /\ Now(a) \in AnyStep(driver)
  <2>1. Active(a) /\ q.todo \in Todos(driver) /\ Advances(a) /\ driver' = driver
    BY DEF Worked, RunsTyped, IsRun
  <2> QED
    BY <2>1, RunFacts
<1>2. q.todo # <<>> /\ q.todo[1].op = "new" /\ NeedsBefore(driver, q.todo[1]) /\ q # AtRest
  <2>1. q.todo # <<>> /\ q.todo[1].op = "new" /\ NeedsBefore(driver, q.todo[1])
    BY <1>1, PendingShape
  <2> QED
    BY <2>1, RestFacts
<1>3. /\ Onward(driver, r, q, <<>>, 2)
      /\ 2 \in DOMAIN r.todo /\ q.todo[1] = r.todo[2] /\ Link(driver, Now(a), q.todo[1])
      /\ 2 \in DOMAIN q.todo => 3 \in DOMAIN r.todo /\ q.todo[2] = r.todo[3]
  BY <1>1, <1>2, GoesNext
<1>4. \/ Now(a).op = "fresh" /\ q.todo[1].t \notin {"byuser", "logindex"}
      \/ /\ Now(a).op = "new" /\ Now(a).failed = "end"
         /\ <<Now(a).t, q.todo[1].t>> \in {<<"sessions", "byuser">>, <<"logs", "logindex">>}
  BY <1>2, <1>3 DEF Link, Gives
<1>5. CASE Now(a).op = "fresh"
  <2>1. FreshStep(a)
    BY <1>5 DEF Works, Fails, ReadStep, TakeStep, EachStep, UnlessStep, WriteStep, TouchStep, DelStep, FillStep, SendStep, InCopy, At
  <2>2. PICK k \in Keys \ used : q.fresh = k /\ db' = db
    BY <1>2, <2>1, FreshFacts DEF Keeps
  <2>3. k # 0 /\ used \subseteq Keys
    BY KeysNat DEF TypeInv
  <2>4. k \notin DOMAIN db'[t]
    BY <2>2, <2>3, MadeFacts DEF KeyInv
  <2>5. ASSUME NEW b \in Goroutines, NEW i \in DOMAIN run'[b].todo, Clashes(run'[b].todo[i], t)
        PROVE  KeyOf(run'[b], run'[b].todo[i]) # k
    <3> DEFINE p == run'[b]
               s == p.todo[i]
    <3>1. s.op # "new" /\ s.t # "users"
      BY <2>5, MadeFacts DEF Clashes, SessionDel
    <3>2. KeyOf(p, s) = IF s.key # 0 THEN s.key ELSE p.key
      BY <3>1 DEF KeyOf
    <3>3. p.key # k
      BY <2>2, <2>3 DEF KeyInv
    <3>4. s.key # k
      <4>1. CASE b = a
        <5>1. \/ Lapping(a, s)
              \/ \E j \in DOMAIN r.todo : j >= 2 /\ s = r.todo[j]
          BY <1>1, <4>1, GoesSteps
        <5>2. ~Lapping(a, s)
          BY <1>5, LapFacts DEF Loops, Branches
        <5>3. PICK j \in DOMAIN r.todo : s = r.todo[j]
          BY <5>1, <5>2
        <5>4. s.key \in used \cup {0}
          BY <5>3 DEF KeyInv
        <5> QED
          BY <2>3, <5>4
      <4>2. CASE b # a
        <5>1. s = run[b].todo[i] /\ i \in DOMAIN run[b].todo
          BY <4>2 DEF Worked, OthersSame, Same
        <5>2. s.key \in used \cup {0}
          BY <5>1 DEF KeyInv
        <5> QED
          BY <2>3, <5>2
      <4> QED
        BY <4>1, <4>2
    <3> QED
      BY <3>2, <3>3, <3>4
  <2> QED
    BY <2>2, <2>3, <2>4, <2>5
<1>6. CASE Now(a).op = "new"
  <2>1. /\ Now(a).failed = "end" /\ <<Now(a).t, q.todo[1].t>> \in {<<"sessions", "byuser">>, <<"logs", "logindex">>}
    BY <1>4, <1>6
  <2>2. ~Fails(a)
    BY <1>2, <2>1, FailFacts
  <2>3. WriteStep(a)
    BY <1>6, <2>2 DEF Works, FreshStep, ReadStep, TakeStep, EachStep, UnlessStep, TouchStep, DelStep, FillStep, SendStep, InCopy, At
  <2>4. /\ Keeps(a, r.fresh, r.copy) /\ (Now(a).via = Now(a).t \/ Now(a).op = "put")
        /\ \A u \in Tables \ {Now(a).t, Now(a).via} : db'[u] = db[u]
    BY <2>3, WriteFacts
  <2>5. q.todo[1].t = t
    <3>1. ASSUME 2 \in DOMAIN q.todo, q.todo[2].op = "new" PROVE FALSE
      <4>1. Link(driver, q.todo[2 - 1], q.todo[2]) /\ NeedsBefore(driver, q.todo[2])
        BY <1>1, <3>1, TodoLens DEF Chain, NeedsBefore
      <4> DEFINE p == q.todo[1]
                 s == q.todo[2]
      <4>2. p.op = "new" /\ p.t \in {"byuser", "logindex"}
        BY <1>2, <2>1
      <4>3. Gives(driver, p, s) /\ s.op = "new"
        BY <3>1, <4>1 DEF Link
      <4> HIDE DEF p, s
      <4> QED
        BY <4>2, <4>3 DEF Gives
    <3> QED
      BY <1>1, <3>1, PendingShape
  <2>6. Pending(r, t)
    <3>1. Len(r.todo) >= 2
      BY <1>1, <1>3, TodoLens
    <3> QED
      BY <1>1, <1>2, <1>3, <1>6, <2>5, <3>1 DEF Pending
  <2>7. /\ r.fresh # 0 /\ r.fresh \notin DOMAIN db[t]
        /\ \A b \in Goroutines : \A i \in DOMAIN run[b].todo :
             Clashes(run[b].todo[i], t) => KeyOf(run[b], run[b].todo[i]) # r.fresh
    BY <2>6 DEF PendInv
  <2>8. q.fresh = r.fresh /\ q.key = r.key
    BY <1>2, <1>3, <2>4 DEF Keeps, Onward
  <2>9. db'[t] = db[t]
    BY <1>6, <2>1, <2>4, <2>5, MadeFacts
  <2>10. ASSUME NEW b \in Goroutines, NEW i \in DOMAIN run'[b].todo, Clashes(run'[b].todo[i], t)
         PROVE  KeyOf(run'[b], run'[b].todo[i]) # r.fresh
    <3> DEFINE p == run'[b]
               s == p.todo[i]
    <3>1. s.op # "new"
      BY <2>10 DEF Clashes, SessionDel
    <3>2. p.key = run[b].key
      BY <2>8 DEF Worked, OthersSame, Same
    <3>3. \E j \in DOMAIN run[b].todo : s = run[b].todo[j]
      <4>1. CASE b = a
        <5>1. \/ Lapping(a, s)
              \/ \E j \in DOMAIN r.todo : j >= 2 /\ s = r.todo[j]
          BY <1>1, <4>1, GoesSteps
        <5>2. ~Lapping(a, s)
          BY <1>6, LapFacts DEF Loops, Branches
        <5> QED
          BY <4>1, <5>1, <5>2
      <4>2. CASE b # a
        BY <4>2 DEF Worked, OthersSame, Same
      <4> QED
        BY <4>1, <4>2
    <3>4. KeyOf(p, s) = KeyOf(run[b], s)
      BY <3>1, <3>2 DEF KeyOf
    <3> HIDE DEF p
    <3> QED
      BY <2>7, <2>10, <3>3, <3>4 DEF p
  <2> QED
    BY <2>7, <2>8, <2>9, <2>10
<1> QED
  BY <1>4, <1>5, <1>6

LEMMA PendWorks ==
  ASSUME TypeInv, KeyInv, ZeroInv, PendInv, KeyInv', NEW a \in Goroutines, Works(a) \/ Fails(a), Worked(a)
  PROVE  PendInv'
<1> SUFFICES ASSUME NEW c \in Goroutines, NEW t \in Made, Pending(run'[c], t)
             PROVE  /\ run'[c].fresh # 0 /\ run'[c].fresh \notin DOMAIN db'[t]
                    /\ \A b \in Goroutines : \A i \in DOMAIN run'[b].todo :
                         Clashes(run'[b].todo[i], t) => KeyOf(run'[b], run'[b].todo[i]) # run'[c].fresh
  BY DEF PendInv
<1>1. CASE c = a
  BY <1>1, PendSelf
<1>2. CASE c # a
  <2>1. c \in Goroutines \ {a}
    BY <1>2
  <2> QED
    BY <2>1, PendOthers
<1> QED
  BY <1>1, <1>2

LEMMA PendStarts ==
  ASSUME TypeInv, KeyInv, PendInv, NEW a, StartStep(a)
  PROVE  PendInv'
<1>1. /\ db' = db /\ a \in Goroutines
      /\ \A b \in Goroutines \ {a} : run'[b].todo = run[b].todo /\ run'[b].key = run[b].key /\ run'[b].fresh = run[b].fresh
  BY DEF StartStep, data, OthersSame, Same
<1>2. ASSUME NEW t \in Made
      PROVE /\ ~Pending(run'[a], t)
            /\ \A k \in {run[b].fresh : b \in Goroutines} \ {0} : \A i \in DOMAIN run'[a].todo :
                 Clashes(run'[a].todo[i], t) => KeyOf(run'[a], run'[a].todo[i]) # k
  <2>1. CASE run'[a] = AtRest
    <3>1. run'[a].todo = <<>> /\ Len(<<>>) = 0
      BY <2>1, RestFacts
    <3>2. DOMAIN run'[a].todo = {}
      BY <3>1
    <3> QED
      BY <3>1, <3>2 DEF Pending
  <2>2. CASE run'[a] # AtRest
    <3>1. PICK h, k : /\ run'[a] = Doing(h, k, 0, NoCopy, {}) /\ Startable(driver, h)
                      /\ k \in used \ {run[b].fresh : b \in Goroutines} \/ k = 0
      BY <2>2 DEF StartStep
    <3>2. run'[a].todo = h /\ run'[a].key = k
      BY <3>1, DoingFacts
    <3>3. ~Pending(run'[a], t)
      <4>1. SUFFICES ASSUME Pending(run'[a], t) PROVE FALSE
        OBVIOUS
      <4>2. h # <<>> /\ h[1].op = "new" /\ NeedsBefore(driver, h[1])
        BY <3>1, <3>2, <4>1, PendingShape DEF Startable
      <4> QED
        BY <3>1, <4>2 DEF Startable
    <3>4. ASSUME NEW x \in {run[b].fresh : b \in Goroutines} \ {0}, NEW i \in DOMAIN h, Clashes(h[i], t)
          PROVE  KeyOf(run'[a], h[i]) # x
      <4>1. h[i].op # "new" /\ h[i].t # "users"
        BY <3>4, MadeFacts DEF Clashes, SessionDel
      <4>2. h[i].key = 0
        BY <3>1 DEF Startable, TopShape
      <4>3. KeyOf(run'[a], h[i]) = k
        BY <3>2, <4>1, <4>2 DEF KeyOf
      <4> QED
        BY <3>1, <4>3
    <3> QED
      BY <3>2, <3>3, <3>4
  <2> QED
    BY <2>1, <2>2
<1> SUFFICES ASSUME NEW c \in Goroutines, NEW t \in Made, Pending(run'[c], t)
             PROVE  /\ run'[c].fresh # 0 /\ run'[c].fresh \notin DOMAIN db'[t]
                    /\ \A b \in Goroutines : \A i \in DOMAIN run'[b].todo :
                         Clashes(run'[b].todo[i], t) => KeyOf(run'[b], run'[b].todo[i]) # run'[c].fresh
  BY DEF PendInv
<1>3. c # a
  BY <1>2
<1>4. Pending(run[c], t) /\ run'[c].fresh = run[c].fresh
  BY <1>1, <1>3 DEF Pending
<1>5. /\ run[c].fresh # 0 /\ run[c].fresh \notin DOMAIN db[t]
      /\ \A b \in Goroutines : \A i \in DOMAIN run[b].todo :
           Clashes(run[b].todo[i], t) => KeyOf(run[b], run[b].todo[i]) # run[c].fresh
  BY <1>4 DEF PendInv
<1>6. ASSUME NEW b \in Goroutines, NEW i \in DOMAIN run'[b].todo, Clashes(run'[b].todo[i], t)
      PROVE  KeyOf(run'[b], run'[b].todo[i]) # run[c].fresh
  <2>1. CASE b = a
    BY <1>2, <1>5, <1>6, <2>1
  <2>2. CASE b # a
    BY <1>1, <1>5, <1>6, <2>2 DEF KeyOf
  <2> QED
    BY <2>1, <2>2
<1> QED
  BY <1>1, <1>4, <1>5, <1>6

LEMMA PendCrash ==
  ASSUME TypeInv, PendInv, Crash
  PROVE  PendInv'
<1>1. \A a \in Goroutines : run'[a].todo = <<>> /\ Len(<<>>) = 0
  BY CrashFacts, RestFacts
<1> QED
  BY <1>1 DEF PendInv, Pending

-----------------------------------------------------------------------------
LEMMA KeyNotZero ==
  ASSUME TypeInv, PendInv, ZeroInv, NEW a \in Goroutines, Active(a), Now(a).op \notin {"idlers", "purgeidle"}
  PROVE  Now(a).op = "new" \/ Key(a) # 0
<1>1. 1 \in DOMAIN run[a].todo /\ Now(a) = run[a].todo[1]
  BY RunFacts
<1>2. run[a].key = 0 => run[a].todo[1].key # 0
  BY <1>1 DEF ZeroInv
<1> QED
  BY <1>1, <1>2 DEF Key, KeyOf

LEMMA ZeroWorks ==
  ASSUME TypeInv, PendInv, ZeroInv, NEW a \in Goroutines, Worked(a)
  PROVE  ZeroInv'
<1>1. Active(a) /\ Now(a) \in AnyStep(driver) /\ run[a].todo \in Todos(driver) /\ Now(a) = run[a].todo[1] /\ 1 \in DOMAIN run[a].todo
  BY RunFacts DEF Worked
<1>2. Now(a).op = "new" => run[a].fresh # 0 /\ Now(a).t \in Made
  <2>1. Now(a).op = "new" => Now(a).t \in Made
    BY <1>1, ShapeOf DEF PlainShape
  <2>2. Now(a).op = "new" => Pending(run[a], Now(a).t)
    <3>1. Len(run[a].todo) >= 1
      BY <1>1, TodoLens
    <3> QED
      BY <1>1, <3>1 DEF Pending
  <2> QED
    BY <2>1, <2>2 DEF PendInv
<1>3. ASSUME NEW t \in Tables PROVE 0 \notin DOMAIN db'[t]
  <2>1. 0 \notin Grown(a, t)
    <3>1. Now(a).op \in {"put", "blank", "new"} => Key(a) # 0
      <4>1. Now(a).op \in {"put", "blank"} => Key(a) # 0
        BY <1>1, KeyNotZero
      <4>2. Now(a).op = "new" => Key(a) # 0
        BY <1>2, MadeFacts DEF Key, KeyOf
      <4> QED
        BY <4>1, <4>2
    <3> QED
      BY <3>1, KeysNat DEF Grown
  <2> QED
    BY <2>1 DEF ZeroInv, Worked
<1>4. ASSUME NEW b \in Goroutines, run'[b].key = 0, NEW i \in DOMAIN run'[b].todo, run'[b].todo[i].key = 0
      PROVE  run'[b].todo[i].op \in {"idlers", "purgeidle"}
  <2>1. CASE b # a
    BY <1>4, <2>1 DEF Worked, OthersSame, Same, ZeroInv
  <2>2. CASE b = a
    <3> DEFINE s == run'[a].todo[i]
    <3>1. /\ run'[a] = AtRest \/ run'[a].key = run[a].key
          /\ Lapping(a, s) \/ \E j \in DOMAIN run[a].todo : s = run[a].todo[j]
      BY <1>1, <1>4, <2>2, GoesSteps DEF Worked
    <3>2. run'[a] = AtRest => DOMAIN run'[a].todo = {}
      BY RestFacts
    <3>3. run[a].key = 0
      BY <1>4, <2>2, <3>1, <3>2
    <3>4. ~Lapping(a, s)
      <4>1. SUFFICES ASSUME Lapping(a, s) PROVE FALSE
        OBVIOUS
      <4>2. \/ Now(a).op \in Loops /\ s.key \in Listed(a)
            \/ Now(a).op = "unless" /\ s.key = Now(a).key
            \/ s.key \in InCopy(a, Now(a).t)
        BY <4>1, LapFacts
      <4>3. CASE Now(a).op \in Loops /\ s.key \in Listed(a)
        <5>1. s.key \in DOMAIN db[Now(a).t] /\ Now(a).t \in Tables
          BY <1>1, <4>3, ListedFacts
        <5> QED
          BY <1>4, <2>2, <5>1 DEF ZeroInv
      <4>4. CASE Now(a).op = "unless" /\ s.key = Now(a).key
        BY <1>1, <1>4, <2>2, <3>3, <4>4 DEF ZeroInv
      <4>5. s.key \notin InCopy(a, Now(a).t)
        BY <1>4, <2>2, KeysNat DEF InCopy
      <4> QED
        BY <4>2, <4>3, <4>4, <4>5
    <3> QED
      BY <1>4, <2>2, <3>1, <3>3, <3>4 DEF ZeroInv
  <2> QED
    BY <2>1, <2>2
<1> QED
  BY <1>3, <1>4 DEF ZeroInv

LEMMA ZeroStarts ==
  ASSUME TypeInv, ZeroInv, NEW a, StartStep(a)
  PROVE  ZeroInv'
<1>1. /\ db' = db /\ a \in Goroutines /\ used \subseteq Keys /\ driver \in Drivers
      /\ \A b \in Goroutines \ {a} : run'[b].todo = run[b].todo /\ run'[b].key = run[b].key
  BY DEF StartStep, data, OthersSame, Same, TypeInv
<1>2. ASSUME run'[a].key = 0, NEW i \in DOMAIN run'[a].todo, run'[a].todo[i].key = 0
      PROVE  run'[a].todo[i].op \in {"idlers", "purgeidle"}
  <2>1. run'[a] # AtRest
    BY <1>2, RestFacts
  <2>2. PICK h, k : /\ run'[a] = Doing(h, k, 0, NoCopy, {})
                    /\ \/ k \in used \ {run[b].fresh : b \in Goroutines}
                       \/ k = 0 /\ h = DeleteInactiveSessions(driver)
    BY <2>1 DEF StartStep
  <2>3. run'[a].todo = h /\ k = 0
    BY <1>2, <2>2, DoingFacts
  <2>4. h = DeleteInactiveSessions(driver)
    BY <1>1, <2>2, <2>3, KeysNat
  <2>5. \A j \in DOMAIN h : h[j].op \in {"idlers", "purgeidle"}
    BY <2>4 DEF DeleteInactiveSessions, By, BboltDeleteInactiveSessions, MongoDeleteInactiveSessions, EachIdle, PurgeIdle, Step
  <2> QED
    BY <1>2, <2>3, <2>5
<1> QED
  BY <1>1, <1>2 DEF ZeroInv

LEMMA ZeroCrash ==
  ASSUME TypeInv, ZeroInv, Crash
  PROVE  ZeroInv'
<1>1. /\ \A a \in Goroutines : run'[a] = AtRest
      /\ \A t \in Tables : IF t \in Memory THEN DOMAIN db'[t] = {} ELSE db'[t] = db[t]
  BY CrashFacts
<1>2. \A a \in Goroutines : DOMAIN run'[a].todo = {}
  BY <1>1, RestFacts
<1> QED
  BY <1>1, <1>2 DEF ZeroInv

-----------------------------------------------------------------------------
\* Every behaviour keeps the types and the keys

BaseInv == TypeInv /\ KeyInv /\ PendInv /\ ZeroInv

LEMMA InitRuns ==
  ASSUME Init
  PROVE  /\ \A a \in Goroutines : run[a] = AtRest /\ run[a].todo = <<>> /\ DOMAIN run[a].todo = {} /\ ~Active(a)
                                  /\ run[a].key = 0 /\ run[a].fresh = 0 /\ DOMAIN run[a].copy = {} /\ run[a].touched = {}
         /\ erred = {} /\ sent = {} /\ resets = [k \in Keys |-> 0] /\ stale = {} /\ driver \in Drivers
         /\ \E s \in Origins :
              /\ used = s.keys /\ idle = s.idle /\ faults = s.faults /\ Tabled(db)
              /\ \A t \in Tables : DOMAIN db[t] = IF t = "users" THEN {1}
                     ELSE IF t \in s.empty \/ (t = "byuser" /\ driver = "mongo") THEN {} ELSE s.keys
<1>1. \A a \in Goroutines : run[a] = AtRest
  BY DEF Init
<1>2. \A a \in Goroutines : /\ run[a].todo = <<>> /\ DOMAIN run[a].todo = {}
                            /\ run[a].key = 0 /\ run[a].fresh = 0 /\ DOMAIN run[a].copy = {} /\ run[a].touched = {}
  BY <1>1, RestFacts
<1>3. PICK s \in Origins :
        /\ db = [t \in Tables |->
                   [k \in IF t = "users" THEN {1}
                          ELSE IF t \in s.empty \/ (t = "byuser" /\ driver = "mongo") THEN {} ELSE s.keys |-> {}]]
        /\ used = s.keys /\ idle = s.idle /\ faults = s.faults
  BY DEF Init
<1>4. Tabled(db)
  BY <1>3 DEF Tabled
<1>5. \A t \in Tables : DOMAIN db[t] = IF t = "users" THEN {1}
                     ELSE IF t \in s.empty \/ (t = "byuser" /\ driver = "mongo") THEN {} ELSE s.keys
  BY <1>3
<1> QED
  BY <1>1, <1>2, <1>3, <1>4, <1>5 DEF Init, Active

LEMMA BaseInit ==
  ASSUME Init
  PROVE  BaseInv
<1>1. /\ \A a \in Goroutines : run[a] = AtRest /\ run[a].todo = <<>> /\ DOMAIN run[a].todo = {} /\ ~Active(a)
                               /\ run[a].key = 0 /\ run[a].fresh = 0 /\ DOMAIN run[a].copy = {}
      /\ driver \in Drivers
  BY InitRuns
<1>2. PICK s \in Origins :
              /\ used = s.keys /\ idle = s.idle /\ faults = s.faults /\ Tabled(db)
              /\ \A t \in Tables : DOMAIN db[t] = IF t = "users" THEN {1}
                     ELSE IF t \in s.empty \/ (t = "byuser" /\ driver = "mongo") THEN {} ELSE s.keys
  BY InitRuns
<1>3. s.keys \subseteq Keys /\ s.idle \subseteq s.keys /\ s.faults \in Nat
  BY RecordsAssumption
<1>4. run = [a \in Goroutines |-> run[a]]
  BY DEF Init
<1>5. TypeInv
  <2>1. \A t \in Tables : DOMAIN db[t] \subseteq Keys0
    BY <1>2, <1>3, KeysNat DEF Keys0
  <2>2. \A a \in Goroutines : IsRun(driver, run[a])
    BY <1>1, RestFacts
  <2> QED
    BY <1>1, <1>2, <1>3, <1>4, <2>1, <2>2 DEF TypeInv, Tabled
<1>6. KeyInv
  BY <1>1, <1>2 DEF KeyInv
<1>7. PendInv
  <2>1. Len(<<>>) = 0
    OBVIOUS
  <2> QED
    BY <1>1, <2>1 DEF PendInv, Pending
<1>8. ZeroInv
  BY <1>1, <1>2, <1>3, KeysNat DEF ZeroInv
<1> QED
  BY <1>5, <1>6, <1>7, <1>8 DEF BaseInv

\* Every step is a handler that starts, a crash, or a step of a goroutine.
Ways ==
  \/ \E a \in Goroutines : StartStep(a)
  \/ Crash
  \/ \E a \in Goroutines : (Works(a) \/ Fails(a)) /\ Worked(a)
  \/ UNCHANGED vars

LEMMA NextWays ==
  ASSUME TypeInv, [Next]_vars
  PROVE  Ways
<1>1. CASE \E a \in Users : Command(a)
  <2>1. PICK a \in Users : Command(a)
    BY <1>1
  <2>2. StartStep(a)
    BY <2>1, CommandFacts
  <2> QED
    BY <2>2 DEF Ways, Goroutines
<1>2. CASE Sweep
  <2>1. StartStep(Sweeper)
    BY <1>2, SweepFacts
  <2> QED
    BY <2>1 DEF Ways, Goroutines
<1>3. CASE Crash
  BY <1>3 DEF Ways
<1>4. CASE \E a \in Goroutines : Works(a) \/ Fails(a)
  BY <1>4, WorkedFacts DEF Ways
<1>5. CASE UNCHANGED vars
  BY <1>5 DEF Ways
<1> QED
  BY <1>1, <1>2, <1>3, <1>4, <1>5 DEF Next

LEMMA BaseNext ==
  ASSUME BaseInv, [Next]_vars
  PROVE  BaseInv' /\ Ways
<1>0. TypeInv /\ KeyInv /\ PendInv /\ ZeroInv /\ Ways
  BY NextWays DEF BaseInv
<1>1. ASSUME NEW a \in Goroutines, StartStep(a) PROVE BaseInv'
  BY <1>0, <1>1, TypeStarts, KeyStarts, PendStarts, ZeroStarts DEF BaseInv
<1>2. CASE Crash
  BY <1>0, <1>2, TypeCrash, KeyCrash, PendCrash, ZeroCrash DEF BaseInv
<1>3. ASSUME NEW a \in Goroutines, Works(a) \/ Fails(a), Worked(a) PROVE BaseInv'
  <2>1. KeyInv'
    BY <1>0, <1>3, KeyWorks
  <2> QED
    BY <1>0, <1>3, <2>1, TypeWorks, PendWorks, ZeroWorks DEF BaseInv
<1>4. CASE UNCHANGED vars
  <2>1. /\ driver' = driver /\ db' = db /\ used' = used /\ idle' = idle /\ run' = run /\ faults' = faults
    BY <1>4 DEF vars, data
  <2>2. TypeInv'
    BY <1>0, <2>1 DEF TypeInv, Active
  <2>3. KeyInv'
    BY <1>0, <2>1 DEF KeyInv
  <2>4. PendInv'
    BY <1>0, <2>1 DEF PendInv
  <2>5. ZeroInv'
    BY <1>0, <2>1 DEF ZeroInv
  <2> QED
    BY <1>0, <2>2, <2>3, <2>4, <2>5 DEF BaseInv
<1> QED
  BY <1>0, <1>1, <1>2, <1>3, <1>4 DEF Ways

\* Goroutines do what they say only of records that are typed and keyed as the types say.
THEOREM RecordsTyped == RecordsSpec => []BaseInv
<1>1. Init => BaseInv
  BY BaseInit
<1>2. BaseInv /\ [Next]_vars => BaseInv'
  BY BaseNext
<1> QED
  BY <1>1, <1>2, PTL DEF RecordsSpec

-----------------------------------------------------------------------------
\* The records of a table, after a step
Grows(t, k)   == DOMAIN db'[t] = DOMAIN db[t] \cup {k}
Shrinks(t)    == DOMAIN db'[t] \subseteq DOMAIN db[t]
Moved(a) ==
  /\ Now(a).op \in {"put", "blank", "new"} => Key(a) \in DOMAIN db'[Now(a).t] /\ Key(a) \in DOMAIN db'[Now(a).via]
  /\ Now(a).op = "del" => Key(a) \notin DOMAIN db'[Now(a).t]
  /\ \A t \in Tables :
       \/ db'[t] = db[t]
       \/ Now(a).op \in {"put", "blank", "new"} /\ t \in {Now(a).t, Now(a).via} /\ Grows(t, Key(a))
       \/ Now(a).op = "touch" /\ t = "sessions" /\ DOMAIN db'[t] = DOMAIN db[t]
       \/ /\ Now(a).op \in {"del", "take"} /\ t = Now(a).t /\ Cut(db[t], db'[t], {Key(a)})
       \/ /\ Now(a).op \in {"purge", "purgeidle", "forget"} /\ t = Now(a).t /\ Cut(db[t], db'[t], DOMAIN db[t] \ DOMAIN db'[t])
       \/ Now(a).op = "fill" /\ t = "spacecache"

LEMMA MovedFacts ==
  ASSUME TypeInv, NEW a \in Goroutines, Works(a)
  PROVE  Moved(a)
<1>1. CASE WriteStep(a)
  <2> DEFINE t == Now(a).t
             i == Now(a).via
             k == Key(a)
             c == (IF Now(a).op = "put" THEN Known(a, t, k) ELSE {}) \cup {a}
  <2>1. /\ Now(a).op \in {"put", "blank", "new"} /\ t \in Tables /\ i \in Tables
        /\ Put1(db[t], db'[t], k, c) /\ DOMAIN db'[i] = DOMAIN db[i] \cup {k}
        /\ \A u \in Tables \ {t, i} : db'[u] = db[u]
    BY <1>1, WriteFacts
  <2> HIDE DEF c, k, t, i
  <2>2. \A u \in Tables : db'[u] = db[u] \/ (u \in {t, i} /\ Grows(u, k))
    BY <2>1 DEF Put1, Grows
  <2>3. k \in DOMAIN db'[t] /\ k \in DOMAIN db'[i]
    BY <2>1 DEF Put1
  <2> QED
    BY <2>1, <2>2, <2>3 DEF Moved, t, i, k
<1>2. CASE DelStep(a)
  <2> DEFINE t == Now(a).t
             S == CASE Now(a).op = "del" -> {Key(a)} [] Now(a).op = "purgeidle" -> idle [] OTHER -> Keys
  <2>1. /\ Now(a).op \in {"del", "purge", "purgeidle", "forget"} /\ t \in Tables
        /\ Cut(db[t], db'[t], S) /\ \A u \in Tables \ {t} : db'[u] = db[u]
    BY <1>2, DelFacts
  <2>2. Now(a).op = "del" => S = {Key(a)}
    OBVIOUS
  <2> HIDE DEF S
  <2>3. Cut(db[t], db'[t], DOMAIN db[t] \ DOMAIN db'[t])
    BY <2>1 DEF Cut
  <2>4. Now(a).op = "del" => Key(a) \notin DOMAIN db'[t]
    BY <2>1, <2>2 DEF Cut
  <2> QED
    BY <2>1, <2>2, <2>3, <2>4 DEF Moved
<1>3. CASE TakeStep(a)
  <2> DEFINE t == Now(a).t
  <2>1. /\ Now(a).op = "take" /\ t = "states"
        /\ \A u \in Tables : db'[u] = db[u] \/ (u = t /\ Cut(db[t], db'[t], {Key(a)}))
    BY <1>3, TakeFacts
  <2> QED
    BY <2>1 DEF Moved
<1>4. CASE TouchStep(a)
  <2>1. /\ Now(a).op = "touch" /\ DOMAIN db'["sessions"] = DOMAIN db["sessions"]
        /\ \A u \in Tables \ {"sessions"} : db'[u] = db[u]
    BY <1>4, TouchFacts
  <2> QED
    BY <2>1 DEF Moved
<1>5. CASE FillStep(a)
  <2>1. Now(a).op = "fill" /\ \A u \in Tables \ {"spacecache"} : db'[u] = db[u]
    BY <1>5, FillFacts
  <2> QED
    BY <2>1 DEF Moved
<1>6. CASE FreshStep(a) \/ ReadStep(a) \/ EachStep(a) \/ UnlessStep(a) \/ SendStep(a)
  <2>1. db' = db /\ Now(a).op \notin {"put", "blank", "new", "del"}
    BY <1>6 DEF FreshStep, ReadStep, EachStep, UnlessStep, SendStep, InCopy, data, At
  <2> QED
    BY <2>1 DEF Moved
<1> QED
  BY <1>1, <1>2, <1>3, <1>4, <1>5, <1>6 DEF Works

-----------------------------------------------------------------------------
\* Indexes point to records

IndexedStep(r, s) ==
  /\ s.op = "new" /\ s.t = "byuser" => r.fresh \in DOMAIN db["sessions"]
  /\ s.op = "new" /\ s.t = "logindex" => r.fresh \in DOMAIN db["logs"]
  /\ s.op = "put" /\ s.t = "prindex" => KeyOf(r, s) \in DOMAIN db["prs"]
  /\ s.t = "linksbypr" => KeyOf(r, s) \in DOMAIN db["links"]
  /\ s.t = "dependents" => KeyOf(r, s) \in DOMAIN db["deps"]
  /\ driver = "bbolt" /\ SessionDel(s) => KeyOf(r, s) \notin DOMAIN db["byuser"] \/ "byuser" \in erred
IndexTables ==
  /\ \A i \in DOMAIN Index \ erred : DOMAIN db[i] \subseteq DOMAIN db[Index[i]]
  /\ driver = "bbolt" => DOMAIN db["prs"] = DOMAIN db["prindex"]
  /\ driver = "mongo" => DOMAIN db["byuser"] = {}

LEMMA IndexParts ==
  IndexInv <=> IndexTables /\ \A a \in Goroutines : Active(a) => IndexedStep(run[a], Now(a))
BY DEF IndexInv, IndexTables, IndexedStep, Key

LEMMA IndexNames ==
  /\ DOMAIN Index = {"byuser", "prindex", "linksbypr", "dependents", "logindex"}
  /\ Index["byuser"] = "sessions" /\ Index["prindex"] = "prs" /\ Index["linksbypr"] = "links"
  /\ Index["dependents"] = "deps" /\ Index["logindex"] = "logs"
  /\ \A i \in DOMAIN Index : i \in Tables /\ Index[i] \in Tables
<1>1. /\ DOMAIN Index = {"byuser", "prindex", "linksbypr", "dependents", "logindex"}
      /\ Index["byuser"] = "sessions" /\ Index["prindex"] = "prs" /\ Index["linksbypr"] = "links"
      /\ Index["dependents"] = "deps" /\ Index["logindex"] = "logs"
  BY DEF Index
<1> QED
  BY <1>1, TableNames

\* How the tables with an index, and the indexes, may change
LEMMA IndexMoves ==
  ASSUME TypeInv, NEW a \in Goroutines, Active(a), Moved(a)
  PROVE  LET s == Now(a)   k == Key(a) IN
         /\ \A t \in {"links", "deps", "logs", "linksbypr", "dependents", "logindex", "prs", "prindex"} :
              db'[t] = db[t] \/ (s.op \in {"put", "blank", "new"} /\ t \in {s.t, s.via} /\ Grows(t, k))
         /\ \/ db'["byuser"] = db["byuser"]
            \/ driver = "bbolt" /\ s.t = "byuser" /\ s.op = "new" /\ Grows("byuser", k)
            \/ driver = "bbolt" /\ s.t = "byuser" /\ s.op = "del" /\ Cut(db["byuser"], db'["byuser"], {k})
         /\ \/ DOMAIN db["sessions"] \subseteq DOMAIN db'["sessions"]
            \/ SessionDel(s) /\ Cut(db["sessions"], db'["sessions"], {k})
            \/ driver = "mongo"
<1> DEFINE s == Now(a)
           k == Key(a)
<1>1. s \in AnyStep(driver)
  BY RunFacts
<1>2. PlainShape(s) /\ IndexShape(driver, s) /\ OtherShape(s)
  BY <1>1, ShapeOf
<1>3. \A t \in Tables :
       \/ db'[t] = db[t]
       \/ s.op \in {"put", "blank", "new"} /\ t \in {s.t, s.via} /\ Grows(t, k)
       \/ s.op = "touch" /\ t = "sessions" /\ DOMAIN db'[t] = DOMAIN db[t]
       \/ /\ s.op \in {"del", "take"} /\ t = s.t /\ Cut(db[t], db'[t], {k})
       \/ s.op \in {"purge", "purgeidle", "forget"} /\ t = s.t
       \/ s.op = "fill" /\ t = "spacecache"
  BY DEF Moved
<1> HIDE DEF s, k
<1>4. ASSUME NEW t \in {"links", "deps", "logs", "linksbypr", "dependents", "logindex", "prs", "prindex"}
      PROVE  db'[t] = db[t] \/ (s.op \in {"put", "blank", "new"} /\ t \in {s.t, s.via} /\ Grows(t, k))
  <2>1. t \in Tables
    BY TableNames
  <2>2. t = s.t => s.op \notin {"touch", "del", "take", "purge", "purgeidle", "forget", "fill"}
    BY <1>2 DEF IndexShape
  <2> QED
    BY <1>3, <2>1, <2>2
<1>5. \/ db'["byuser"] = db["byuser"]
      \/ driver = "bbolt" /\ s.t = "byuser" /\ s.op = "new" /\ Grows("byuser", k)
      \/ driver = "bbolt" /\ s.t = "byuser" /\ s.op = "del" /\ Cut(db["byuser"], db'["byuser"], {k})
  <2>1. "byuser" \in Tables
    BY TableNames
  <2>2. s.op \in {"put", "blank", "new"} /\ "byuser" \in {s.t, s.via} => s.t = "byuser"
    BY <1>2 DEF PlainShape
  <2>3. s.t = "byuser" => driver = "bbolt" /\ s.op \in {"new", "del"}
    BY <1>2 DEF IndexShape
  <2> QED
    BY <1>3, <2>1, <2>2, <2>3
<1>6. \/ DOMAIN db["sessions"] \subseteq DOMAIN db'["sessions"]
      \/ SessionDel(s) /\ Cut(db["sessions"], db'["sessions"], {k})
      \/ driver = "mongo"
  <2>1. "sessions" \in Tables
    BY TableNames
  <2>2. s.t = "sessions" => \/ s.op \in {"get", "new", "del", "put", "touch", "each", "idlers"}
                            \/ driver = "mongo"
    BY <1>2 DEF IndexShape
  <2> QED
    BY <1>3, <2>1, <2>2 DEF SessionDel, Grows
<1> QED
  BY <1>4, <1>5, <1>6 DEF s, k

LEMMA NewPending ==
  ASSUME TypeInv, NEW a \in Goroutines, Active(a), Now(a).op = "new"
  PROVE  Pending(run[a], Now(a).t) /\ Now(a).t \in Made /\ Key(a) = run[a].fresh
<1>1. Now(a) \in AnyStep(driver) /\ run[a].todo \in Todos(driver) /\ run[a].todo # <<>> /\ Now(a) = run[a].todo[1]
  BY RunFacts
<1>2. Len(run[a].todo) >= 1
  BY <1>1, TodoLens
<1>3. Now(a).t \in Made
  BY <1>1, ShapeOf DEF PlainShape
<1> QED
  BY <1>1, <1>2, <1>3, MadeFacts DEF Pending, Key, KeyOf

LEMMA ClashApart ==
  ASSUME TypeInv, PendInv, NEW a \in Goroutines, NEW b \in Goroutines, Active(a), Active(b), NEW t, Now(a).op = "new", Now(a).t = t,
         Clashes(Now(b), t)
  PROVE  Key(b) # run[a].fresh
<1>1. Pending(run[a], t) /\ t \in Made
  BY NewPending
<1>2. 1 \in DOMAIN run[b].todo /\ Now(b) = run[b].todo[1]
  BY RunFacts
<1> QED
  BY <1>1, <1>2 DEF PendInv, Key

LEMMA TablesWorks ==
  ASSUME TypeInv, PendInv, IndexInv, driver' = driver, erred \subseteq erred', NEW a \in Goroutines, Active(a), Moved(a)
  PROVE  IndexTables'
<1> DEFINE s == Now(a)
           k == Key(a)
<1>1. /\ \A t \in {"links", "deps", "logs", "linksbypr", "dependents", "logindex", "prs", "prindex"} :
           db'[t] = db[t] \/ (s.op \in {"put", "blank", "new"} /\ t \in {s.t, s.via} /\ Grows(t, k))
      /\ \/ db'["byuser"] = db["byuser"]
         \/ driver = "bbolt" /\ s.t = "byuser" /\ s.op = "new" /\ Grows("byuser", k)
         \/ driver = "bbolt" /\ s.t = "byuser" /\ s.op = "del" /\ Cut(db["byuser"], db'["byuser"], {k})
      /\ \/ DOMAIN db["sessions"] \subseteq DOMAIN db'["sessions"]
         \/ SessionDel(s) /\ Cut(db["sessions"], db'["sessions"], {k})
         \/ driver = "mongo"
  BY IndexMoves
<1>2. s \in AnyStep(driver)
  BY RunFacts
<1>3. PlainShape(s) /\ IndexShape(driver, s)
  BY <1>2, ShapeOf
<1>4. IndexTables /\ IndexedStep(run[a], s)
  BY IndexParts
<1>5. k = KeyOf(run[a], s) /\ (s.op = "new" => k = run[a].fresh)
  BY NewPending DEF Key
<1>6. driver = "mongo" => DOMAIN db'["byuser"] = {}
  BY <1>1, <1>4 DEF IndexTables
<1>7. driver \in Drivers /\ "bbolt" # "mongo"
  BY DEF TypeInv
<1> HIDE DEF s, k
<1>8. "byuser" \notin erred' => DOMAIN db'["byuser"] \subseteq DOMAIN db'["sessions"]
  <2> SUFFICES ASSUME "byuser" \notin erred' PROVE DOMAIN db'["byuser"] \subseteq DOMAIN db'["sessions"]
    OBVIOUS
  <2>1. DOMAIN db["byuser"] \subseteq DOMAIN db["sessions"]
    BY <1>4, IndexNames DEF IndexTables
  <2>2. CASE db'["byuser"] = db["byuser"]
    <3>1. CASE SessionDel(s) /\ Cut(db["sessions"], db'["sessions"], {k}) /\ driver = "bbolt"
      <4>1. k \notin DOMAIN db["byuser"]
        BY <1>4, <1>5, <3>1 DEF IndexedStep
      <4> QED
        BY <2>1, <2>2, <3>1, <4>1 DEF Cut
    <3> QED
      BY <1>1, <1>6, <1>7, <2>1, <2>2, <3>1 DEF Drivers
  <2>3. CASE driver = "bbolt" /\ s.t = "byuser" /\ s.op = "new" /\ Grows("byuser", k)
    <3>1. k \in DOMAIN db["sessions"]
      BY <1>4, <1>5, <2>3 DEF IndexedStep
    <3> QED
      BY <1>1, <2>1, <2>3, <3>1 DEF Grows, SessionDel
  <2>4. CASE driver = "bbolt" /\ s.t = "byuser" /\ s.op = "del" /\ Cut(db["byuser"], db'["byuser"], {k})
    BY <1>1, <2>1, <2>4 DEF Cut, SessionDel
  <2> QED
    BY <1>1, <2>2, <2>3, <2>4
<1>9. "prindex" \notin erred' => DOMAIN db'["prindex"] \subseteq DOMAIN db'["prs"]
  <2> SUFFICES ASSUME "prindex" \notin erred' PROVE DOMAIN db'["prindex"] \subseteq DOMAIN db'["prs"]
    OBVIOUS
  <2>1. DOMAIN db["prindex"] \subseteq DOMAIN db["prs"]
    BY <1>4, IndexNames DEF IndexTables
  <2>2. DOMAIN db["prs"] \subseteq DOMAIN db'["prs"]
    BY <1>1 DEF Grows
  <2>3. CASE db'["prindex"] = db["prindex"]
    BY <2>1, <2>2, <2>3
  <2>4. CASE s.op \in {"put", "blank", "new"} /\ "prindex" \in {s.t, s.via} /\ Grows("prindex", k)
    <3>1. CASE s.t = "prindex"
      <4>1. k \in DOMAIN db["prs"]
        BY <1>3, <1>4, <1>5, <2>4, <3>1 DEF IndexedStep, IndexShape
      <4> QED
        BY <2>1, <2>2, <2>4, <4>1 DEF Grows
    <3>2. CASE s.t # "prindex"
      <4>1. s.op = "put" /\ s.t = "prs"
        BY <1>3, <2>4, <3>2 DEF PlainShape
      <4>2. k \in DOMAIN db'["prs"]
        BY <4>1 DEF Moved, s, k
      <4> QED
        BY <2>1, <2>2, <2>4, <4>2 DEF Grows
    <3> QED
      BY <3>1, <3>2
  <2> QED
    BY <1>1, <2>3, <2>4
<1>10. ASSUME NEW i \in {"linksbypr", "dependents", "logindex"}, i \notin erred'
       PROVE  DOMAIN db'[i] \subseteq DOMAIN db'[Index[i]]
  <2>1. DOMAIN db[i] \subseteq DOMAIN db[Index[i]]
    BY <1>4, <1>10, IndexNames DEF IndexTables
  <2>2. DOMAIN db[Index[i]] \subseteq DOMAIN db'[Index[i]]
    BY <1>1, IndexNames DEF Grows
  <2>3. CASE db'[i] = db[i]
    BY <2>1, <2>2, <2>3
  <2>4. CASE s.op \in {"put", "blank", "new"} /\ i \in {s.t, s.via} /\ Grows(i, k)
    <3>1. s.t = i
      BY <1>3, <2>4 DEF PlainShape
    <3>2. k \in DOMAIN db[Index[i]]
      BY <1>3, <1>4, <1>5, <2>4, <3>1, IndexNames DEF IndexedStep, IndexShape
    <3> QED
      BY <2>1, <2>2, <2>4, <3>2 DEF Grows
  <2> QED
    BY <1>1, <2>3, <2>4
<1>11. driver = "bbolt" => DOMAIN db'["prs"] = DOMAIN db'["prindex"]
  <2> SUFFICES ASSUME driver = "bbolt" PROVE DOMAIN db'["prs"] = DOMAIN db'["prindex"]
    OBVIOUS
  <2>1. DOMAIN db["prs"] = DOMAIN db["prindex"]
    BY <1>4 DEF IndexTables
  <2>2. CASE s.op \in {"put", "blank", "new"} /\ s.t = "prs"
    <3>1. s.op = "put" /\ s.via = "prindex"
      BY <1>3, <2>2 DEF IndexShape
    <3>2. k \in DOMAIN db'["prs"]
      BY <2>2 DEF Moved, s, k
    <3>3. DOMAIN db'["prs"] = DOMAIN db["prs"] \cup {k}
      BY <1>1, <3>2 DEF Grows
    <3>4. DOMAIN db'["prindex"] = DOMAIN db["prindex"] \cup {k}
      <4>1. k \in DOMAIN db'["prindex"]
        BY <2>2, <3>1 DEF Moved, s, k
      <4>2. db'["prindex"] = db["prindex"] \/ Grows("prindex", k)
        BY <1>1
      <4>3. CASE db'["prindex"] = db["prindex"]
        BY <4>1, <4>3
      <4> QED
        BY <4>2, <4>3 DEF Grows
    <3> QED
      BY <2>1, <3>3, <3>4
  <2>3. CASE s.op \in {"put", "blank", "new"} /\ s.t = "prindex"
    <3>1. s.op = "put" /\ s.via = "prindex"
      BY <1>3, <2>3 DEF IndexShape, PlainShape
    <3>2. k \in DOMAIN db["prs"]
      BY <1>4, <1>5, <2>3, <3>1 DEF IndexedStep
    <3> QED
      BY <1>1, <2>1, <2>3, <3>1, <3>2 DEF Grows
  <2>4. CASE ~(s.op \in {"put", "blank", "new"} /\ s.t \in {"prs", "prindex"})
    <3>1. db'["prs"] = db["prs"] /\ db'["prindex"] = db["prindex"]
      BY <1>1, <1>3, <2>4 DEF PlainShape
    <3> QED
      BY <2>1, <3>1
  <2> QED
    BY <2>2, <2>3, <2>4
<1> QED
  BY <1>6, <1>8, <1>9, <1>10, <1>11, IndexNames DEF IndexTables

\* A record that was asked for, and the handler goes on
LEMMA FoundFacts ==
  ASSUME TypeInv, NEW a \in Goroutines, Works(a), Now(a).op = "get", Now(a).failed = "end", run'[a] # AtRest
  PROVE  Has(Now(a).t, Key(a)) /\ RunOnly /\ Passes(a) /\ Keeps(a, run[a].fresh, Set(run[a].copy, <<Now(a).t, Key(a)>>, db[Now(a).t][Key(a)]))
<1>1. ReadStep(a)
  BY DEF Works, FreshStep, TakeStep, EachStep, UnlessStep, WriteStep, TouchStep, DelStep, FillStep, SendStep, InCopy, At
<1> QED
  BY <1>1, GetFacts

\* What others do next stays as it was.
LEMMA OthersNext ==
  ASSUME TypeInv, NEW a, NEW T, OthersSame(a, T), NEW c \in Goroutines \ {a}
  PROVE  /\ run'[c].todo = run[c].todo /\ run'[c].key = run[c].key /\ run'[c].fresh = run[c].fresh /\ run'[c].copy = run[c].copy
         /\ run[c].touched \subseteq run'[c].touched
         /\ Active(c)' = Active(c) /\ Now(c)' = Now(c) /\ Key(c)' = Key(c)
         /\ \A s : KeyOf(run'[c], s) = KeyOf(run[c], s)
         /\ Active(c) => T \cap Asked \subseteq run'[c].touched
<1>1. Same(run[c], run'[c], T)
  BY DEF OthersSame
<1> QED
  BY <1>1 DEF Same, Active, Now, Key, KeyOf

\* The step a goroutine has done, and its next one that needs it
LEMMA NextNeeds ==
  ASSUME TypeInv, NEW a \in Goroutines, Worked(a), run'[a] # AtRest, NeedsBefore(driver, run'[a].todo[1])
  PROVE  LET s == run'[a].todo[1] IN
         /\ s \in AnyStep(driver) /\ Now(a).key = s.key /\ Gives(driver, Now(a), s) /\ run'[a].key = run[a].key
         /\ Now(a)' = s /\ Active(a)'
         /\ Now(a).op # "fresh" => run'[a].fresh = run[a].fresh
<1> DEFINE s == run'[a].todo[1]
           q == run'[a]
<1>1. Active(a) /\ Advances(a) /\ Refreshed(a) /\ RunsTyped' /\ driver' = driver
  BY DEF Worked
<1>2. Onward(driver, run[a], q, <<>>, 2) /\ Link(driver, Now(a), s)
  BY <1>1, GoesNext
<1> HIDE DEF q
<1>3. q.todo # <<>> /\ q.todo \in Todos(driver) /\ q.key = run[a].key
  BY <1>2 DEF Onward
<1>4. s \in AnyStep(driver) /\ Head(q.todo) = s
  BY <1>3, TodoLens DEF q
<1>5. Now(a).key = s.key /\ Gives(driver, Now(a), s)
  BY <1>2 DEF Link
<1>6. Now(a).op # "fresh" => q.fresh = run[a].fresh
  BY <1>1 DEF Refreshed, q
<1> QED
  BY <1>3, <1>4, <1>5, <1>6 DEF q, Now, Active

LEMMA IndexOthers ==
  ASSUME TypeInv, PendInv, IndexInv, driver' = driver, erred \subseteq erred', NEW a \in Goroutines, Active(a), Moved(a),
         NEW T, OthersSame(a, T), NEW c \in Goroutines \ {a}, Active(c)'
  PROVE  IndexedStep(run[c], Now(c))'
<1> DEFINE s == Now(c)
           k == Key(c)
           r == run[c]
<1>1. /\ run'[c].fresh = r.fresh /\ Active(c) /\ Now(c)' = s /\ KeyOf(run'[c], s) = k
  BY OthersNext DEF Key
<1>2. IndexedStep(r, s) /\ KeyOf(r, s) = k
  BY <1>1, IndexParts DEF Key
<1>3. /\ \A t \in {"links", "deps", "logs", "linksbypr", "dependents", "logindex", "prs", "prindex"} :
           db'[t] = db[t] \/ Grows(t, Key(a))
      /\ \/ db'["byuser"] = db["byuser"]
         \/ Now(a).t = "byuser" /\ Now(a).op = "new" /\ Grows("byuser", Key(a))
         \/ Cut(db["byuser"], db'["byuser"], {Key(a)})
      /\ \/ DOMAIN db["sessions"] \subseteq DOMAIN db'["sessions"]
         \/ SessionDel(Now(a)) /\ Cut(db["sessions"], db'["sessions"], {Key(a)})
         \/ driver = "mongo"
  BY IndexMoves
<1>4. \A t \in {"links", "deps", "logs", "prs"} : DOMAIN db[t] \subseteq DOMAIN db'[t]
  BY <1>3 DEF Grows
<1>5. s \in AnyStep(driver)
  BY <1>1, RunFacts
<1>6. IndexShape(driver, s)
  BY <1>5, ShapeOf
<1>7. s.op = "new" /\ s.t = "byuser" => r.fresh \in DOMAIN db'["sessions"]
  <2> SUFFICES ASSUME s.op = "new", s.t = "byuser" PROVE r.fresh \in DOMAIN db'["sessions"]
    OBVIOUS
  <2>1. r.fresh \in DOMAIN db["sessions"] /\ driver = "bbolt"
    BY <1>2, <1>6 DEF IndexedStep, IndexShape
  <2>2. SessionDel(Now(a)) => Key(a) # r.fresh
    <3>1. SessionDel(Now(a)) => Clashes(Now(a), "byuser")
      BY DEF Clashes
    <3> QED
      BY <1>1, <3>1, ClashApart
  <2> QED
    BY <1>3, <2>1, <2>2 DEF Cut
<1>8. driver = "bbolt" /\ SessionDel(s) => k \notin DOMAIN db'["byuser"] \/ "byuser" \in erred'
  <2> SUFFICES ASSUME driver = "bbolt", SessionDel(s), "byuser" \notin erred' PROVE k \notin DOMAIN db'["byuser"]
    OBVIOUS
  <2>1. k \notin DOMAIN db["byuser"]
    BY <1>2 DEF IndexedStep
  <2>2. Now(a).t = "byuser" /\ Now(a).op = "new" => Key(a) # k
    <3>1. Clashes(Now(c), "byuser")
      BY DEF Clashes
    <3>2. Now(a).op = "new" => Key(a) = run[a].fresh
      BY NewPending
    <3> QED
      BY <1>1, <3>1, <3>2, ClashApart
  <2> QED
    BY <1>3, <2>1, <2>2 DEF Cut, Grows
<1> HIDE DEF r
<1>9. IndexedStep(run[c], s)'  <=> 
        /\ s.op = "new" /\ s.t = "byuser" => r.fresh \in DOMAIN db'["sessions"]
        /\ s.op = "new" /\ s.t = "logindex" => r.fresh \in DOMAIN db'["logs"]
        /\ s.op = "put" /\ s.t = "prindex" => k \in DOMAIN db'["prs"]
        /\ s.t = "linksbypr" => k \in DOMAIN db'["links"]
        /\ s.t = "dependents" => k \in DOMAIN db'["deps"]
        /\ driver = "bbolt" /\ SessionDel(s) => k \notin DOMAIN db'["byuser"] \/ "byuser" \in erred'
  BY <1>1 DEF IndexedStep
<1>10. /\ s.op = "new" /\ s.t = "logindex" => r.fresh \in DOMAIN db'["logs"]
       /\ s.op = "put" /\ s.t = "prindex" => k \in DOMAIN db'["prs"]
       /\ s.t = "linksbypr" => k \in DOMAIN db'["links"]
       /\ s.t = "dependents" => k \in DOMAIN db'["deps"]
  BY <1>2, <1>4 DEF IndexedStep
<1> QED
  BY <1>7, <1>8, <1>9, <1>10

LEMMA IndexSelf ==
  ASSUME TypeInv, IndexInv, NEW a \in Goroutines, Worked(a), run'[a] # AtRest,
         \/ Works(a) /\ Moved(a)
         \/ Fails(a)
  PROVE  IndexedStep(run[a], run[a].todo[1])'
<1> DEFINE s == run'[a].todo[1]
           p == Now(a)
           k == Key(a)
<1>1. CASE ~NeedsBefore(driver, s)
  <2>1. s \in AnyStep(driver)
    <3>1. RunsTyped' /\ driver' = driver /\ Advances(a)
      BY DEF Worked
    <3>2. PICK X, n : Onward(driver, run[a], run'[a], X, n)
      BY <3>1 DEF Advances
    <3>3. run'[a].todo \in Todos(driver) /\ run'[a].todo # <<>>
      BY <3>2 DEF Onward
    <3> QED
      BY <3>3, TodoLens
  <2>2. IndexShape(driver, s)
    BY <2>1, ShapeOf
  <2>3. driver' = driver
    BY DEF Worked
  <2>4. /\ s.op # "new" /\ ~(s.op = "put" /\ s.t = "prindex") /\ s.t # "linksbypr" /\ s.t # "dependents"
        /\ ~(driver = "bbolt" /\ SessionDel(s))
    BY <1>1, <2>2 DEF NeedsBefore, IndexShape
  <2> QED
    BY <2>3, <2>4 DEF IndexedStep
<1>2. CASE NeedsBefore(driver, s)
  <2>1. /\ s \in AnyStep(driver) /\ p.key = s.key /\ Gives(driver, p, s) /\ run'[a].key = run[a].key
        /\ p.op # "fresh" => run'[a].fresh = run[a].fresh
    BY <1>2, NextNeeds
  <2>2. driver' = driver /\ Active(a)
    BY DEF Worked
  <2>3. p \in AnyStep(driver)
    BY <2>2, RunFacts
  <2>4. IndexShape(driver, s) /\ IndexShape(driver, p)
    BY <2>1, <2>3, ShapeOf
  <2>5. /\ p.op = "new" => k = run[a].fresh
        /\ k = KeyOf(run[a], p)
    BY <2>2, NewPending DEF Key
  <2>6. p.failed = "end" => Works(a) /\ Moved(a)
    BY FailFacts
  <2>7. p.op = "get" /\ p.failed = "end" => k \in DOMAIN db'[p.t]
    <3> SUFFICES ASSUME p.op = "get", p.failed = "end" PROVE k \in DOMAIN db'[p.t]
      OBVIOUS
    <3>1. Has(p.t, k) /\ RunOnly
      BY <2>6, FoundFacts
    <3> QED
      BY <3>1 DEF Has, RunOnly, data
  <2>8. p.op \in {"put", "blank", "new"} /\ p.failed = "end" => k \in DOMAIN db'[p.t]
    BY <2>6 DEF Moved
  <2>9. p.op = "del" /\ p.t = "byuser" => k \notin DOMAIN db'["byuser"] \/ "byuser" \in erred'
    <3>1. CASE Moved(a)
      BY <3>1 DEF Moved
    <3>2. CASE Fails(a)
      <4>1. erred' = erred \cup {p.t}
        BY <3>2, FailFacts
      <4> QED
        BY <4>1
    <3> QED
      BY <3>1, <3>2
  <2> DEFINE key1 == run'[a].key
             fresh1 == run'[a].fresh
             ks == KeyOf(run'[a], s)
  <2>10. s.op # "new" /\ s.t # "users" /\ p.op # "new" /\ p.t # "users" => ks = k
    BY <2>1, <2>5 DEF KeyOf
  <2> HIDE DEF s, p, k, ks
  <2>11. /\ s.op = "new" /\ s.t = "byuser" => run'[a].fresh \in DOMAIN db'["sessions"]
         /\ s.op = "new" /\ s.t = "logindex" => run'[a].fresh \in DOMAIN db'["logs"]
    BY <2>1, <2>5, <2>8 DEF Gives
  <2>12. s.op = "put" /\ s.t = "prindex" => ks \in DOMAIN db'["prs"]
    BY <2>1, <2>7, <2>8, <2>10 DEF Gives
  <2>13. s.t = "linksbypr" => ks \in DOMAIN db'["links"]
    BY <2>1, <2>4, <2>8, <2>10 DEF Gives, IndexShape
  <2>14. s.t = "dependents" => ks \in DOMAIN db'["deps"]
    BY <2>1, <2>4, <2>8, <2>10 DEF Gives, IndexShape
  <2>15. driver = "bbolt" /\ SessionDel(s) => ks \notin DOMAIN db'["byuser"] \/ "byuser" \in erred'
    BY <2>1, <2>9, <2>10 DEF Gives, SessionDel
  <2> QED
    BY <2>2, <2>11, <2>12, <2>13, <2>14, <2>15 DEF IndexedStep, s, ks
<1> QED
  BY <1>1, <1>2

LEMMA IndexStill ==
  ASSUME TypeInv, IndexInv, driver' = driver, db' = db, erred \subseteq erred', NEW a, NEW T, OthersSame(a, T),
         NEW c \in Goroutines \ {a}, Active(c)'
  PROVE  IndexedStep(run[c], Now(c))'
<1> DEFINE s == Now(c)
           k == Key(c)
           r == run[c]
<1>1. /\ run'[c].fresh = r.fresh /\ Active(c) /\ Now(c)' = s /\ KeyOf(run'[c], s) = k
  BY OthersNext DEF Key
<1>2. IndexedStep(r, s) /\ KeyOf(r, s) = k
  BY <1>1, IndexParts DEF Key
<1> HIDE DEF r
<1>9. IndexedStep(run[c], s)'  <=> 
        /\ s.op = "new" /\ s.t = "byuser" => r.fresh \in DOMAIN db'["sessions"]
        /\ s.op = "new" /\ s.t = "logindex" => r.fresh \in DOMAIN db'["logs"]
        /\ s.op = "put" /\ s.t = "prindex" => k \in DOMAIN db'["prs"]
        /\ s.t = "linksbypr" => k \in DOMAIN db'["links"]
        /\ s.t = "dependents" => k \in DOMAIN db'["deps"]
        /\ driver = "bbolt" /\ SessionDel(s) => k \notin DOMAIN db'["byuser"] \/ "byuser" \in erred'
  BY <1>1 DEF IndexedStep
<1> QED
  BY <1>2, <1>9 DEF IndexedStep

LEMMA TablesStill ==
  ASSUME IndexInv, driver' = driver, \A t \in Tables \ Memory : db'[t] = db[t], erred \subseteq erred'
  PROVE  IndexTables'
<1>1. IndexTables
  BY IndexParts
<1>2. \A i \in DOMAIN Index : db'[i] = db[i] /\ db'[Index[i]] = db[Index[i]]
  BY IndexNames DEF Memory
<1>3. db'["prs"] = db["prs"] /\ db'["prindex"] = db["prindex"] /\ db'["byuser"] = db["byuser"]
  BY <1>2, IndexNames
<1> QED
  BY <1>1, <1>2, <1>3 DEF IndexTables

LEMMA IndexWorks ==
  ASSUME TypeInv, PendInv, IndexInv, NEW a \in Goroutines, Works(a) \/ Fails(a), Worked(a)
  PROVE  IndexInv'
<1>1. Active(a) /\ driver' = driver /\ OthersSame(a, {}) /\ RunsTyped'
  BY DEF Worked
<1>2. erred \subseteq erred' /\ (Works(a) => Moved(a)) /\ (Fails(a) => db' = db)
  <2>1. Works(a) => erred' = erred
    BY DEF Works, FreshStep, ReadStep, TakeStep, EachStep, UnlessStep, WriteStep, TouchStep, DelStep, FillStep, SendStep, InCopy
  <2>2. Fails(a) => db' = db /\ erred' = erred \cup {Now(a).t}
    BY FailFacts DEF data
  <2> QED
    BY <2>1, <2>2, MovedFacts
<1>3. IndexTables'
  <2>1. CASE Works(a)
    BY <1>1, <1>2, <2>1, TablesWorks
  <2>2. CASE Fails(a)
    BY <1>1, <1>2, <2>2, TablesStill
  <2> QED
    BY <2>1, <2>2
<1>4. ASSUME NEW c \in Goroutines, Active(c)' PROVE IndexedStep(run[c], Now(c))'
  <2>1. CASE c = a
    <3>1. run'[a] # AtRest /\ run'[a].todo # <<>>
      BY <1>4, <2>1, RestFacts DEF Active
    <3>2. IsRun(driver, run'[a])
      BY <1>1 DEF RunsTyped
    <3>3. Head(run'[a].todo) = run'[a].todo[1]
      BY <3>1, <3>2, TodoLens DEF IsRun
    <3>4. IndexedStep(run[a], run[a].todo[1])'
      BY <1>2, <3>1, IndexSelf
    <3> QED
      BY <2>1, <3>3, <3>4 DEF Now
  <2>2. CASE c # a /\ Works(a)
    BY <1>1, <1>2, <1>4, <2>2, IndexOthers
  <2>3. CASE c # a /\ Fails(a)
    BY <1>1, <1>2, <1>4, <2>3, IndexStill
  <2> QED
    BY <2>1, <2>2, <2>3
<1>5. IndexInv' <=> IndexTables' /\ \A c \in Goroutines : Active(c)' => IndexedStep(run[c], Now(c))'
  BY DEF IndexInv, IndexTables, IndexedStep, Key
<1> QED
  BY <1>3, <1>4, <1>5

\* A handler that starts
LEMMA StartFacts ==
  ASSUME TypeInv, NEW a, StartStep(a), Active(a)'
  PROVE  LET r == run'[a] IN
         /\ Startable(driver, r.todo) /\ r.todo # <<>> /\ r.todo \in Todos(driver) /\ Now(a)' = r.todo[1] /\ r.todo[1] \in AnyStep(driver)
         /\ r.copy = NoCopy /\ DOMAIN r.copy = {} /\ r.touched = {} /\ r.fresh = 0
         /\ \A b \in Goroutines : run[b].fresh # 0 => r.key # run[b].fresh
         /\ r.todo[1].op = "take" \/ ~NeedsBefore(driver, r.todo[1])
<1>1. run'[a].todo # <<>> /\ run'[a] # AtRest
  BY RestFacts DEF Active
<1>2. PICK h, k : /\ run'[a] = Doing(h, k, 0, NoCopy, {}) /\ Startable(driver, h)
                  /\ \/ k \in used \ {run[b].fresh : b \in Goroutines}
                     \/ k = 0 /\ h = DeleteInactiveSessions(driver)
  BY <1>1 DEF StartStep
<1> DEFINE r == run'[a]
<1>3. r.todo = h /\ r.key = k /\ r.fresh = 0 /\ r.copy = NoCopy /\ r.touched = {}
  BY <1>2, DoingFacts
<1>4. h \in Todos(driver) /\ (h # <<>> /\ h[1].op # "take" => ~NeedsBefore(driver, h[1]))
  BY <1>2 DEF Startable
<1>5. h # <<>> /\ Head(h) = h[1] /\ h[1] \in AnyStep(driver)
  BY <1>1, <1>3, <1>4, TodoLens
<1>6. DOMAIN NoCopy = {}
  BY RestFacts
<1>7. \A b \in Goroutines : run[b].fresh # 0 => k # run[b].fresh
  BY <1>2
<1> HIDE DEF r
<1> QED
  BY <1>2, <1>3, <1>4, <1>5, <1>6, <1>7 DEF Now, r

LEMMA IndexStarts ==
  ASSUME TypeInv, IndexInv, NEW a, StartStep(a)
  PROVE  IndexInv'
<1>1. a \in Goroutines /\ driver' = driver /\ OthersSame(a, {}) /\ db' = db /\ erred' = erred
  BY DEF StartStep, data
<1>2. IndexTables'
  BY <1>1, TablesStill
<1>3. ASSUME NEW c \in Goroutines, Active(c)' PROVE IndexedStep(run[c], Now(c))'
  <2>1. CASE c = a
    <3> DEFINE s == Now(c)'
    <3>1. s \in AnyStep(driver) /\ (s.op = "take" \/ ~NeedsBefore(driver, s))
      BY <1>3, <2>1, StartFacts
    <3>2. IndexShape(driver, s) /\ PlainShape(s)
      BY <3>1, ShapeOf
    <3>3. /\ s.op # "new" /\ ~(s.op = "put" /\ s.t = "prindex") /\ s.t # "linksbypr" /\ s.t # "dependents"
          /\ ~(driver = "bbolt" /\ SessionDel(s))
      BY <3>1, <3>2 DEF NeedsBefore, IndexShape, PlainShape, SessionDel
    <3> QED
      BY <1>1, <3>3 DEF IndexedStep
  <2>2. CASE c # a
    BY <1>1, <1>3, <2>2, IndexStill
  <2> QED
    BY <2>1, <2>2
<1>5. IndexInv' <=> IndexTables' /\ \A c \in Goroutines : Active(c)' => IndexedStep(run[c], Now(c))'
  BY DEF IndexInv, IndexTables, IndexedStep, Key
<1> QED
  BY <1>2, <1>3, <1>5

LEMMA IndexCrash ==
  ASSUME TypeInv, IndexInv, Crash
  PROVE  IndexInv'
<1>1. driver' = driver /\ erred' = erred /\ (\A a \in Goroutines : run'[a] = AtRest)
      /\ \A t \in Tables : IF t \in Memory THEN DOMAIN db'[t] = {} ELSE db'[t] = db[t]
  BY CrashFacts
<1>2. IndexTables'
  BY <1>1, TablesStill
<1>3. \A a \in Goroutines : ~Active(a)'
  BY <1>1, RestFacts DEF Active
<1>5. IndexInv' <=> IndexTables' /\ \A c \in Goroutines : Active(c)' => IndexedStep(run[c], Now(c))'
  BY DEF IndexInv, IndexTables, IndexedStep, Key
<1> QED
  BY <1>2, <1>3, <1>5

LEMMA IndexInit ==
  ASSUME Init
  PROVE  IndexInv
<1>1. driver \in Drivers /\ \A a \in Goroutines : ~Active(a)
  BY InitRuns
<1>2. PICK s \in Origins :
              /\ used = s.keys /\ idle = s.idle /\ faults = s.faults /\ Tabled(db)
              /\ \A t \in Tables : DOMAIN db[t] = IF t = "users" THEN {1}
                     ELSE IF t \in s.empty \/ (t = "byuser" /\ driver = "mongo") THEN {} ELSE s.keys
  BY InitRuns
<1>3. \A i \in DOMAIN Index : i \in s.empty <=> Index[i] \in s.empty
  BY RecordsAssumption
<1>4. \A i \in DOMAIN Index : i \in Tables /\ Index[i] \in Tables /\ i # "users" /\ Index[i] # "users"
  BY IndexNames
<1>5. \A i \in DOMAIN Index : DOMAIN db[i] \subseteq DOMAIN db[Index[i]]
  <2> SUFFICES ASSUME NEW i \in DOMAIN Index PROVE DOMAIN db[i] \subseteq DOMAIN db[Index[i]]
    OBVIOUS
  <2>1. CASE i \in s.empty
    BY <1>2, <1>4, <2>1
  <2>2. CASE i \notin s.empty
    <3>1. DOMAIN db[Index[i]] = s.keys
      BY <1>2, <1>3, <1>4, <2>2, IndexNames
    <3>2. DOMAIN db[i] \subseteq s.keys
      BY <1>2, <1>4, <2>2
    <3> QED
      BY <3>1, <3>2
  <2> QED
    BY <2>1, <2>2
<1>6. DOMAIN db["prs"] = DOMAIN db["prindex"]
  BY <1>2, <1>3, <1>4, IndexNames
<1>7. driver = "mongo" => DOMAIN db["byuser"] = {}
  BY <1>2, TableNames
<1> QED
  BY <1>1, <1>5, <1>6, <1>7 DEF IndexInv

\* Each driver writes a record before its index entry, and deletes the entry first, so that an
\* index lists no record that is not there, wherever a handler stops; and bbolt puts a pull
\* request and its index in one transaction.
THEOREM IndexesHold == RecordsSpec => []IndexesPoint
<1>1. Init => BaseInv /\ IndexInv
  BY BaseInit, IndexInit
<1>2. BaseInv /\ IndexInv /\ [Next]_vars => BaseInv' /\ IndexInv'
  <2> SUFFICES ASSUME BaseInv, IndexInv, [Next]_vars PROVE BaseInv' /\ IndexInv'
    OBVIOUS
  <2>1. TypeInv /\ PendInv /\ BaseInv' /\ Ways
    BY BaseNext DEF BaseInv
  <2>2. CASE UNCHANGED vars
    <3>1. IndexInv'
      BY <2>2 DEF IndexInv, vars, data, Active, Now, Key
    <3> QED
      BY <2>1, <3>1
  <2> QED
    BY <2>1, <2>2, IndexWorks, IndexStarts, IndexCrash DEF Ways
<1>3. IndexInv => IndexesPoint
  BY DEF IndexInv, IndexesPoint
<1> QED
  BY <1>1, <1>2, <1>3, PTL DEF RecordsSpec
=============================================================================
