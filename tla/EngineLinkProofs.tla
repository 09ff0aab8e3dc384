----------------------- MODULE EngineLinkProofs -----------------------
(***************************************************************************)
(* What is proved of EngineLink, for any torrents, library, depth of calls *)
(* and number of frames on their way: that a call gets the answer to what  *)
(* it asked; that the piece maps are true of the pieces, as long as every  *)
(* map is of the torrent it is named after; and that the rows that were    *)
(* selected are the ones that go.                                          *)
(***************************************************************************)
EXTENDS EngineLink, TLAPS, FiniteSetTheorems, WellFoundedInduction, SequenceTheorems

Asking ==
  [id : Nat, what : Whats, i : Nat, meant : Torrents \cup {None}, fresh : BOOLEAN]
Frame ==
  [kind : {"reply"}, id : Nat, what : Whats, body : Map \cup {None}]
    \cup [kind : {"snapshot"}, list : Seq(Torrents)]
    \cup [kind : {"piece"}, t : Torrents, p : Pieces]
    \cup [kind : {"removed"}]
Answer == [id : Nat, what : Whats, body : Map \cup {None}]
Slot ==
  [at : {"start"}] \cup [at : {"drain"}, inHandler : BOOLEAN]
    \cup [at : {"call"}, id : Nat, what : Whats, t : Torrents \cup {None}]
Chore == [by : {"row", "hash"}, i : Nat, meant : Torrents, fresh : BOOLEAN]

\* The types of all that is on its way
Typed ==
  /\ list \in Seq(Torrents) /\ have \in [Torrents -> SUBSET Pieces] /\ streamed \subseteq Torrents
  /\ toEngine \in Seq(Asking) /\ toUi \in Seq(Frame) /\ buf \in Seq(Frame)
  /\ cut \in BOOLEAN /\ torn \in BOOLEAN /\ gotSnap \in BOOLEAN
  /\ link \in {"on", "broken", "off", "lost"}
  /\ snap \in Seq(Torrents) /\ geo \in [Torrents -> Map \cup {None}]
  /\ replies \subseteq Answer /\ IsFiniteSet(replies)
  /\ stack \in Seq(Slot) /\ todo \in Seq(Chore)

\* What answers a call answers what it asked.
Meets(st, x) ==
  \A j \in 1..Len(st) : st[j].at = "call" /\ st[j].id = x.id => st[j].what = x.what

Matched ==
  /\ \A k \in 1..Len(toEngine) : Meets(stack, toEngine[k])
  /\ \A k \in 1..Len(toUi) : toUi[k].kind = "reply" => Meets(stack, toUi[k])
  /\ \A k \in 1..Len(buf) : buf[k].kind = "reply" => Meets(stack, buf[k])
  /\ \A r \in replies : Meets(stack, r)

Known == Typed /\ Matched

-----------------------------------------------------------------------------
(* The piece maps *)

Frames == buf \o toUi

\* A map that is true of the pieces, of a torrent whose pieces the app is told of
True(m, pieces, told) == m.have \subseteq pieces[m.of] /\ m.of \in told

\* No removal is asked for, or comes, after position k.
NoneAsked(asked, k) == \A m \in (k + 1)..Len(asked) : asked[m].what # "remove"
NoneComes(frames, k) == \A m \in (k + 1)..Len(frames) : frames[m].kind # "removed"

\* A call for a map has no removal behind it: the map that it brings is true.
Awaited(n, asked, frames, answers, pieces, told) ==
  /\ \A k \in 1..Len(asked) : asked[k].id = n => NoneAsked(asked, k)
  /\ \A k \in 1..Len(frames) : frames[k].kind = "reply" /\ frames[k].id = n =>
       /\ NoneAsked(asked, 0) /\ NoneComes(frames, k)
       /\ frames[k].body # None => True(frames[k].body, pieces, told)
  /\ \A r \in answers : r.id = n =>
       /\ NoneAsked(asked, 0) /\ NoneComes(frames, 0)
       /\ r.body # None => True(r.body, pieces, told)

Asks(slot) == slot.at = "call" /\ slot.what = "geometry"

\* A piece that is announced is there, or its torrent's removal is announced after it.
Announced(frames, pieces, told) ==
  \A k \in 1..Len(frames) : frames[k].kind = "piece" /\ NoneComes(frames, k) =>
    frames[k].p \in pieces[frames[k].t] /\ frames[k].t \in told

Listed == \A t \in streamed : \E k \in 1..Len(list) : list[k] = t
AllAwaited ==
  \A j \in 1..Len(stack) :
    Asks(stack[j]) => Awaited(stack[j].id, toEngine, Frames, replies, have, streamed)
AllTrue ==
  NoneComes(Frames, 0) =>
    \A t \in Torrents : geo[t] # None => True(geo[t], have, streamed)

Maps ==
  /\ link = "on" /\ ~cut /\ ~torn
  /\ Listed /\ AllAwaited /\ Announced(Frames, have, streamed) /\ AllTrue

-----------------------------------------------------------------------------
(* The rows that were selected *)

\* A removal of a row of the list on the screen, which was the engine's
Aimed(r, rows) == r.i \in 1..Len(rows) /\ rows[r.i] = r.meant

\* What is asked before it shifts no row at or above it.
Before(asked, n, i) ==
  \A m \in 1..n : /\ asked[m].what # "move"
                  /\ asked[m].what = "remove" => asked[m].fresh /\ asked[m].i > i

InLine(asked, rows) ==
  \A k \in 1..Len(asked) : asked[k].fresh =>
    asked[k].what = "remove" /\ Aimed(asked[k], rows) /\ Before(asked, k - 1, asked[k].i)

ToCome(chores, asked, rows) ==
  /\ \A a \in 1..Len(chores) : chores[a].by = "row"
  /\ \A a, b \in 1..Len(chores) : /\ chores[a].fresh = chores[b].fresh
                                  /\ a < b => chores[a].i > chores[b].i
  /\ \A a \in 1..Len(chores) : chores[a].fresh =>
       Aimed(chores[a], rows) /\ Before(asked, Len(asked), chores[a].i)

Rows ==
  /\ IsInjective(list)
  /\ link = "off" => toEngine = <<>>
  /\ InLine(toEngine, list) /\ ToCome(todo, toEngine, list)

-----------------------------------------------------------------------------
(* Numbers, sets and sequences *)

\* A set of numbers has a least one.
LEMMA Least ==
  ASSUME NEW S \in SUBSET Nat, S # {}
  PROVE  Min(S) \in S /\ \A y \in S : Min(S) <= y
<1>1. PICK x \in S : \A y \in S : ~ (<<y, x>> \in OpToRel(<, Nat))
  BY WFMin, NatLessThanWellFounded
<1>2. \A y \in S : ~(y < x)
  BY <1>1 DEF OpToRel
<1>3. \E z \in S : \A y \in S : z <= y
  BY <1>2
<1> QED BY <1>3 DEF Min

\* A function on a finite set has finitely many values.
LEMMA FiniteRange ==
  ASSUME NEW f, IsFiniteSet(DOMAIN f), f = [x \in DOMAIN f |-> f[x]]
  PROVE  IsFiniteSet({f[x] : x \in DOMAIN f})
<1> DEFINE S == DOMAIN f
           T == {f[x] : x \in S}
<1>1. f \in [S -> T] /\ \A y \in T : \E x \in S : f[x] = y
  OBVIOUS
<1>2. f \in Surjection(S, T)
  BY <1>1 DEF Surjection
<1> HIDE DEF T
<1>3. IsFiniteSet(T)
  BY <1>2, FS_Surjection
<1> QED BY <1>3 DEF T

\* A number that a finite set of numbers lacks, among as many as it has and one more
LEMMA FreeNumber ==
  ASSUME NEW S \in SUBSET Nat, IsFiniteSet(S)
  PROVE  /\ Min(1..Cardinality(S) + 1 \ S) \in Nat
         /\ Min(1..Cardinality(S) + 1 \ S) \notin S
<1> DEFINE n == Cardinality(S) + 1
           A == 1..n
           F == A \ S
<1>1. Cardinality(S) \in Nat /\ n \in Nat
  BY FS_CardinalityType
<1>2. IsFiniteSet(A) /\ Cardinality(A) = n
  BY <1>1, FS_Interval
<1>3. F # {}
  <2>1. SUFFICES ASSUME A \in SUBSET S PROVE FALSE
    OBVIOUS
  <2> HIDE DEF A, n
  <2>2. Cardinality(A) <= Cardinality(S)
    BY <2>1, FS_Subset
  <2> QED BY <1>1, <1>2, <2>2 DEF n
<1>4. F \in SUBSET Nat
  BY <1>1
<1> HIDE DEF F
<1>5. Min(F) \in F
  BY <1>3, <1>4, Least
<1> QED BY <1>4, <1>5 DEF F

\* The order in which QSet iterates over the hashes has each of them once.
LEMMA Ordering ==
  ASSUME NEW S, IsFiniteSet(S)
  PROVE  /\ SetToSeq(S) \in [1..Cardinality(S) -> S] /\ IsInjective(SetToSeq(S))
         /\ Range(SetToSeq(S)) = S
<1>1. PICK f \in Bijection(1..Cardinality(S), S) : TRUE
  BY FS_CardinalityType DEF ExistsBijection
<1>2. f \in [1..Cardinality(S) -> S] /\ IsInjective(f)
  BY <1>1 DEF Bijection, Injection, IsInjective
<1> DEFINE q == SetToSeq(S)
           n == Cardinality(S)
<1>3. q \in [1..n -> S] /\ IsInjective(q)
  BY <1>2 DEF SetToSeq
<1> HIDE DEF q
<1>4. q \in Injection(1..n, S)
  BY <1>3 DEF Injection
<1>5. n \in Nat
  BY FS_CardinalityType
<1>6. Cardinality(1..n) = n
  <2> HIDE DEF n
  <2>1. Cardinality(1..n) = IF 1 > n THEN 0 ELSE n - 1 + 1
    BY <1>5, FS_Interval
  <2> QED BY <1>5, <2>1
<1>7. q \in Surjection(1..n, S)
  BY <1>4, <1>6, FS_Injection
<1>8. Range(q) = S
  BY <1>3, <1>7 DEF Range, Surjection
<1> QED BY <1>3, <1>8 DEF q

\* Erasing row i leaves the others in order.
LEMMA Without ==
  ASSUME NEW T, NEW s \in Seq(T), NEW i \in 1..Len(s)
  PROVE  /\ RemoveAt(s, i) \in Seq(T)
         /\ Len(RemoveAt(s, i)) = Len(s) - 1
         /\ \A k \in 1..Len(s) - 1 : RemoveAt(s, i)[k] = IF k < i THEN s[k] ELSE s[k + 1]
<1> DEFINE a == SubSeq(s, 1, i - 1)
           b == SubSeq(s, i + 1, Len(s))
<1>1. a \in Seq(T) /\ Len(a) = i - 1 /\ \A k \in 1..i - 1 : a[k] = s[k]
  OBVIOUS
<1>2. b \in Seq(T) /\ Len(b) = Len(s) - i /\ \A k \in 1..Len(s) - i : b[k] = s[k + i]
  OBVIOUS
<1> HIDE DEF a, b
<1>3. a \o b \in Seq(T) /\ Len(a \o b) = Len(s) - 1
  <2>1. a \o b \in Seq(T) /\ Len(a \o b) = Len(a) + Len(b)
    BY <1>1, <1>2, ConcatProperties
  <2>2. Len(s) \in Nat
    OBVIOUS
  <2> QED BY <1>1, <1>2, <2>1, <2>2
<1>4. ASSUME NEW k \in 1..Len(s) - 1
      PROVE  (a \o b)[k] = IF k < i THEN s[k] ELSE s[k + 1]
  <2>1. CASE k < i
    BY <1>1, <1>2, <2>1
  <2>2. CASE ~(k < i)
    <3>1. (a \o b)[k] = b[k - (i - 1)]
      BY <1>1, <1>2, <2>2
    <3>2. k - (i - 1) \in 1..Len(s) - i /\ (k - (i - 1)) + i = k + 1
      BY <2>2
    <3> QED BY <1>2, <2>2, <3>1, <3>2
  <2> QED BY <2>1, <2>2
<1>5. RemoveAt(s, i) = a \o b
  BY DEF RemoveAt, a, b
<1> QED BY <1>3, <1>4, <1>5

\* A torrent that is moved to the head of the list
LEMMA FirstPut ==
  ASSUME NEW T, NEW s \in Seq(T), NEW e \in T
  PROVE  /\ InsertAt(s, 1, e) \in Seq(T)
         /\ Len(InsertAt(s, 1, e)) = Len(s) + 1
         /\ InsertAt(s, 1, e)[1] = e
         /\ \A k \in 1..Len(s) : InsertAt(s, 1, e)[k + 1] = s[k]
BY DEF InsertAt

\* What is left of the stack when the call on top returns
LEMMA Fronts ==
  ASSUME NEW T, NEW s \in Seq(T)
  PROVE  /\ Front(s) \in Seq(T)
         /\ s # <<>> => Len(Front(s)) = Len(s) - 1
         /\ s = <<>> => Front(s) = <<>>
         /\ Len(Front(s)) <= Len(s)
         /\ \A k \in 1..Len(Front(s)) : Front(s)[k] = s[k]
         /\ s # <<>> => Last(s) = s[Len(s)] /\ Last(s) \in T /\ Len(s) \in 1..Len(s)
<1>1. CASE s = <<>>
  BY <1>1 DEF Front, Last
<1>2. CASE s # <<>>
  <2>1. Len(s) \in Nat /\ Len(s) >= 1 /\ s[Len(s)] \in T
    BY <1>2
  <2>2. Front(s) \in Seq(T) /\ Len(Front(s)) = Len(s) - 1
    <3>0. \A k \in 1..Len(s) - 1 : s[k] \in T
      BY <2>1
    <3>1. SubSeq(s, 1, Len(s) - 1) \in Seq(T)
      BY <2>1, <3>0, SubSeqProperties
    <3>2. Len(SubSeq(s, 1, Len(s) - 1)) =
            IF 1 <= Len(s) - 1 THEN Len(s) - 1 - 1 + 1 ELSE 0
      BY <2>1, <3>0, SubSeqProperties
    <3> DEFINE q == SubSeq(s, 1, Len(s) - 1)
               n == Len(s)
    <3>3. Len(q) = IF 1 <= n - 1 THEN n - 1 - 1 + 1 ELSE 0
      BY <3>2
    <3>4. n \in Nat /\ n >= 1
      BY <2>1
    <3> HIDE DEF q, n
    <3>5. Len(q) = n - 1
      BY <3>3, <3>4
    <3> QED BY <3>1, <3>5 DEF q, n, Front
  <2>3. \A k \in 1..Len(s) - 1 : Front(s)[k] = s[k]
    BY <2>1 DEF Front
  <2> QED BY <1>2, <2>1, <2>2, <2>3 DEF Last
<1> QED BY <1>1, <1>2

-----------------------------------------------------------------------------
(* The highest first *)

\* A finite set of rows has an order from the highest down, the one of std::sort.
LEMMA Descends ==
  ASSUME NEW S \in SUBSET Nat, IsFiniteSet(S)
  PROVE  /\ Downward(S) \in [1..Cardinality(S) -> S]
         /\ \A j, k \in 1..Cardinality(S) : j < k => Downward(S)[j] > Downward(S)[k]
<1> DEFINE n == Cardinality(S)
           above(i) == {j \in S : j > i}
           g == [i \in S |-> Cardinality(above(i))]
           R == 0..n - 1
<1>0. n \in Nat
  BY FS_CardinalityType
<1>1. n \in Nat /\ IsFiniteSet(R) /\ Cardinality(R) = n
  <2> HIDE DEF n
  <2> QED BY <1>0, FS_Interval
<1>2. ASSUME NEW i \in S PROVE IsFiniteSet(above(i)) /\ g[i] \in R
  <2>1. above(i) \in SUBSET S /\ above(i) # S
    OBVIOUS
  <2> HIDE DEF above
  <2>2. IsFiniteSet(above(i)) /\ Cardinality(above(i)) <= n /\ Cardinality(above(i)) # n
    BY <2>1, FS_Subset
  <2>3. Cardinality(above(i)) \in Nat
    BY <2>2, FS_CardinalityType
  <2> QED BY <1>1, <2>2, <2>3
<1>3. ASSUME NEW i \in S, NEW j \in S, i < j PROVE g[j] < g[i]
  <2>0. j \in above(i) /\ j \notin above(j)
    BY <1>3
  <2>1. above(j) \subseteq above(i)
    <3>1. \A x \in S : x \in Nat
      OBVIOUS
    <3>2. ASSUME NEW x \in S, x > j PROVE x > i
      BY <1>3, <3>1, <3>2
    <3> QED BY <3>2
  <2>2. IsFiniteSet(above(i)) /\ IsFiniteSet(above(j))
    BY <1>2
  <2> HIDE DEF above
  <2>3. Cardinality(above(j)) <= Cardinality(above(i))
        /\ Cardinality(above(j)) # Cardinality(above(i))
    BY <2>0, <2>1, <2>2, FS_Subset
  <2>4. Cardinality(above(j)) \in Nat /\ Cardinality(above(i)) \in Nat
    BY <2>2, FS_CardinalityType
  <2> QED BY <2>3, <2>4
<1> HIDE DEF g
<1>4. g \in [S -> R]
  BY <1>2 DEF g
<1>5. g \in Injection(S, R)
  <2>1. ASSUME NEW i \in S, NEW j \in S, i # j PROVE g[i] # g[j]
    <3>1. i < j \/ j < i
      BY <2>1
    <3>2. g[i] \in Int /\ g[j] \in Int
      BY <1>1, <1>4
    <3> QED BY <1>3, <3>1, <3>2
  <2> QED BY <1>4, <2>1 DEF Injection, IsInjective
<1> HIDE DEF R, n
<1>6. g \in Surjection(S, R)
  BY <1>1, <1>5, FS_Injection DEF n
<1> DEFINE q == [k \in 1..n |-> CHOOSE i \in S : g[i] = k - 1]
<1>7. \A k \in 1..n : q[k] \in S /\ g[q[k]] = k - 1
  <2>1. ASSUME NEW k \in 1..n PROVE \E i \in S : g[i] = k - 1
    <3>1. k - 1 \in R
      BY <1>1 DEF R
    <3> QED BY <1>6, <3>1 DEF Surjection
  <2> QED BY <2>1
<1> HIDE DEF q
<1>8. q \in [1..n -> S]
  BY <1>7 DEF q
<1>9. ASSUME NEW j \in 1..n, NEW k \in 1..n, j < k PROVE q[j] > q[k]
  <2>1. g[q[j]] < g[q[k]]
    BY <1>1, <1>7, <1>9
  <2>2. ~(g[q[k]] < g[q[j]]) /\ q[j] # q[k]
    BY <1>1, <1>7, <1>9
  <2>3. q[j] \in S /\ q[k] \in S
    BY <1>7
  <2>4. ~(q[j] < q[k])
    BY <1>3, <2>2, <2>3
  <2>5. q[j] \in Nat /\ q[k] \in Nat
    BY <2>3
  <2> HIDE DEF n
  <2> QED BY <2>5, <2>2, <2>3, <2>4
<1>10. \E p \in [1..n -> S] : \A j, k \in 1..n : j < k => p[j] > p[k]
  BY <1>8, <1>9
<1> QED BY <1>10 DEF Downward, n

-----------------------------------------------------------------------------
(* The number of a request is new *)

FreshId == Min(1..Cardinality(IdsInUse) + 1 \ IdsInUse)

\* Only finitely many numbers are in use, so that a request finds a new one.
LEMMA IdsAreFinite ==
  ASSUME Typed
  PROVE  IdsInUse \in SUBSET Nat /\ IsFiniteSet(IdsInUse)
<1> DEFINE F == buf \o toUi
           a == [k \in 1..Len(toEngine) |-> toEngine[k].id]
           b == [r \in replies |-> r.id]
           c == [k \in {j \in 1..Len(stack) : stack[j].at = "call"} |-> stack[k].id]
           d == [k \in {j \in 1..Len(F) : F[j].kind = "reply"} |-> F[k].id]
           A == {a[x] : x \in DOMAIN a}
           B == {b[x] : x \in DOMAIN b}
           C == {c[x] : x \in DOMAIN c}
           D == {d[x] : x \in DOMAIN d}
<1>1. /\ toEngine \in Seq(Asking) /\ replies \subseteq Answer /\ IsFiniteSet(replies)
      /\ stack \in Seq(Slot)
  BY DEF Typed
<1>2. F \in Seq(Frame)
  BY ConcatProperties DEF Typed
<1>3. /\ \A k \in 1..Len(toEngine) : toEngine[k] \in Asking
      /\ \A k \in 1..Len(stack) : stack[k] \in Slot
      /\ \A k \in 1..Len(F) : F[k] \in Frame
      /\ Len(toEngine) \in Nat /\ Len(stack) \in Nat /\ Len(F) \in Nat
  <2> HIDE DEF F
  <2> QED BY <1>1, <1>2, ElementOfSeq, LenProperties
<1>4. DOMAIN F = 1..Len(F)
  <2> HIDE DEF F
  <2> QED BY <1>2, LenProperties
<1>5. IdsInUse = ((A \cup B) \cup C) \cup D
  <2>1. A = {toEngine[k].id : k \in 1..Len(toEngine)}
    OBVIOUS
  <2>2. B = {r.id : r \in replies}
    OBVIOUS
  <2>3. C = {stack[k].id : k \in {j \in 1..Len(stack) : stack[j].at = "call"}}
    OBVIOUS
  <2>4. D = {f.id : f \in {g \in Range(F) : g.kind = "reply"}}
    <3> HIDE DEF F
    <3>1. D = {F[k].id : k \in {j \in 1..Len(F) : F[j].kind = "reply"}}
      OBVIOUS
    <3>2. Range(F) = {F[k] : k \in 1..Len(F)}
      BY <1>4 DEF Range
    <3>3. \A x : x \in D <=> \E k \in 1..Len(F) : F[k].kind = "reply" /\ x = F[k].id
      BY <3>1
    <3>4. \A x : x \in {f.id : f \in {g \in Range(F) : g.kind = "reply"}}
                <=> \E k \in 1..Len(F) : F[k].kind = "reply" /\ x = F[k].id
      BY <3>2
    <3> HIDE DEF D
    <3> QED BY <3>3, <3>4
  <2> HIDE DEF A, B, C, D
  <2> QED BY <2>1, <2>2, <2>3, <2>4 DEF IdsInUse
<1>6. A \in SUBSET Nat /\ B \in SUBSET Nat /\ C \in SUBSET Nat /\ D \in SUBSET Nat
  <2>1. A \in SUBSET Nat
    BY <1>3 DEF Asking
  <2>2. B \in SUBSET Nat
    BY <1>1 DEF Answer
  <2>3. C \in SUBSET Nat
    BY <1>3 DEF Slot
  <2>4. D \in SUBSET Nat
    <3> HIDE DEF F
    <3> QED BY <1>3 DEF Frame
  <2> QED BY <2>1, <2>2, <2>3, <2>4
<1>7. IsFiniteSet(A) /\ IsFiniteSet(B) /\ IsFiniteSet(C) /\ IsFiniteSet(D)
  <2>1. IsFiniteSet(1..Len(toEngine)) /\ IsFiniteSet(1..Len(stack)) /\ IsFiniteSet(1..Len(F))
    BY <1>3, FS_Interval
  <2>2. /\ DOMAIN a = 1..Len(toEngine) /\ DOMAIN b = replies
        /\ DOMAIN c \in SUBSET (1..Len(stack)) /\ DOMAIN d \in SUBSET (1..Len(F))
    OBVIOUS
  <2>3. /\ a = [x \in DOMAIN a |-> a[x]] /\ b = [x \in DOMAIN b |-> b[x]]
        /\ c = [x \in DOMAIN c |-> c[x]] /\ d = [x \in DOMAIN d |-> d[x]]
    OBVIOUS
  <2> HIDE DEF a, b, c, d, F
  <2>4. /\ IsFiniteSet(DOMAIN a) /\ IsFiniteSet(DOMAIN b)
        /\ IsFiniteSet(DOMAIN c) /\ IsFiniteSet(DOMAIN d)
    BY <1>1, <2>1, <2>2, FS_Subset
  <2>5. IsFiniteSet(A)
    BY <2>3, <2>4, FiniteRange
  <2>6. IsFiniteSet(B)
    BY <2>3, <2>4, FiniteRange
  <2>7. IsFiniteSet(C)
    BY <2>3, <2>4, FiniteRange
  <2>8. IsFiniteSet(D)
    BY <2>3, <2>4, FiniteRange
  <2> QED BY <2>5, <2>6, <2>7, <2>8
<1> HIDE DEF A, B, C, D
<1>8. IsFiniteSet(((A \cup B) \cup C) \cup D)
  BY <1>7, FS_Union
<1> QED BY <1>5, <1>6, <1>8

\* request() numbers a call differently from all that is on its way.
LEMMA FreshIsNew ==
  ASSUME Typed
  PROVE  FreshId \in Nat /\ FreshId \notin IdsInUse
BY IdsAreFinite, FreeNumber DEF FreshId

\* What a request that is sent does
LEMMA Requested ==
  ASSUME Typed, link = "on", NEW what, NEW i, NEW t, NEW meant, NEW fresh,
         Request(what, i, t, meant, fresh)
  PROVE  /\ replies' \in {{}, replies}
         /\ toEngine' = Append(toEngine, [id |-> FreshId, what |-> what, i |-> i,
                                          meant |-> meant, fresh |-> fresh])
         /\ stack' = Append(stack, Call(FreshId, what, t))
BY DEF Request, FreshId

\* Every number that is in use
LEMMA Used ==
  ASSUME Typed
  PROVE  /\ \A k \in 1..Len(toEngine) : toEngine[k].id \in IdsInUse
         /\ \A r \in replies : r.id \in IdsInUse
         /\ \A k \in 1..Len(stack) : stack[k].at = "call" => stack[k].id \in IdsInUse
         /\ \A k \in 1..Len(toUi) : toUi[k].kind = "reply" => toUi[k].id \in IdsInUse
         /\ \A k \in 1..Len(buf) : buf[k].kind = "reply" => buf[k].id \in IdsInUse
<1> DEFINE F == buf \o toUi
           R == {f.id : f \in {g \in Range(F) : g.kind = "reply"}}
<1>1. /\ F \in Seq(Frame) /\ Len(F) = Len(buf) + Len(toUi)
      /\ \A i \in 1 .. Len(buf) + Len(toUi) : F[i] =
           IF i <= Len(buf) THEN buf[i] ELSE toUi[i - Len(buf)]
  BY ConcatProperties DEF Typed
<1>2. Len(buf) \in Nat /\ Len(toUi) \in Nat
  BY LenProperties DEF Typed
<1>3. DOMAIN F = 1..Len(F)
  <2> HIDE DEF F
  <2> QED BY <1>1, LenProperties
<1> HIDE DEF F
<1>4. \A k \in 1..Len(F) : F[k].kind = "reply" => F[k].id \in R
  BY <1>3 DEF Range
<1>5. ASSUME NEW k \in 1..Len(buf), buf[k].kind = "reply" PROVE buf[k].id \in R
  <2>1. k \in 1..Len(F) /\ F[k] = buf[k]
    BY <1>1, <1>2
  <2> QED BY <1>4, <1>5, <2>1
<1>6. ASSUME NEW k \in 1..Len(toUi), toUi[k].kind = "reply" PROVE toUi[k].id \in R
  <2>1. k + Len(buf) \in 1..Len(F) /\ F[k + Len(buf)] = toUi[k]
    BY <1>1, <1>2
  <2> QED BY <1>4, <1>6, <2>1
<1>7. R \in SUBSET IdsInUse
  BY DEF IdsInUse, F
<1> QED BY <1>5, <1>6, <1>7 DEF IdsInUse

-----------------------------------------------------------------------------
(* Types *)

\* The first engine has just been started.
LEMMA InitTyped == Init => Typed
<1> SUFFICES ASSUME Init PROVE Typed
  OBVIOUS
<1>1. Library \in Seq(Torrents)
  BY LibraryAssumption
<1>2. [kind |-> "snapshot", list |-> Library] \in Frame
  BY <1>1 DEF Frame
<1>3. toUi \in Seq(Frame)
  BY <1>2 DEF Init
<1>4. stack \in Seq(Slot)
  BY DEF Init, Slot, Start
<1>5. replies = {} /\ IsFiniteSet(replies)
  BY FS_EmptySet DEF Init
<1>6. /\ list \in Seq(Torrents) /\ have \in [Torrents -> SUBSET Pieces]
      /\ streamed \subseteq Torrents /\ geo \in [Torrents -> Map \cup {None}]
  BY <1>1 DEF Init
<1>7. /\ toEngine \in Seq(Asking) /\ buf \in Seq(Frame) /\ snap \in Seq(Torrents)
      /\ todo \in Seq(Chore)
  BY DEF Init
<1>8. /\ cut \in BOOLEAN /\ torn \in BOOLEAN /\ gotSnap \in BOOLEAN
      /\ link \in {"on", "broken", "off", "lost"} /\ replies \subseteq Answer
  BY DEF Init
<1> QED BY <1>3, <1>4, <1>5, <1>6, <1>7, <1>8 DEF Typed

\* A request goes on the wire and its wait on the stack.
LEMMA RequestTyped ==
  ASSUME Typed, link = "on", NEW what \in Whats, NEW i \in Nat, NEW t \in Torrents \cup {None},
         NEW meant \in Torrents \cup {None}, NEW fresh \in BOOLEAN,
         Request(what, i, t, meant, fresh), todo' \in Seq(Chore),
         UNCHANGED <<engine, toUi, cut, link, respawns, view, buf, torn>>
  PROVE  Typed'
<1> DEFINE r == [id |-> FreshId, what |-> what, i |-> i, meant |-> meant, fresh |-> fresh]
           c == Call(FreshId, what, t)
<1>1. r \in Asking /\ c \in Slot
  BY FreshIsNew DEF Asking, Slot, Call
<1> HIDE DEF r, c
<1>2. toEngine' = Append(toEngine, r) /\ stack' = Append(stack, c)
  BY Requested DEF r, c
<1>3. toEngine' \in Seq(Asking)
  BY <1>1, <1>2 DEF Typed
<1>4. stack' \in Seq(Slot)
  BY <1>1, <1>2 DEF Typed
<1>5. replies' \subseteq Answer /\ IsFiniteSet(replies')
  BY Requested, FS_EmptySet DEF Typed
<1> QED BY <1>3, <1>4, <1>5 DEF Typed, engine, view

\* What the handlers of the list leave
LEMMA ListTyped ==
  ASSUME Typed, NEW i \in 1..Len(list)
  PROVE  /\ list[i] \in Torrents
         /\ RemoveAt(list, i) \in Seq(Torrents)
         /\ InsertAt(RemoveAt(list, i), 1, list[i]) \in Seq(Torrents)
<1>1. list \in Seq(Torrents) /\ list[i] \in Torrents
  BY ElementOfSeq DEF Typed
<1>2. RemoveAt(list, i) \in Seq(Torrents)
  BY <1>1, Without
<1> QED BY <1>1, <1>2, FirstPut

\* What the engine writes is a frame.
LEMMA RepliesTyped ==
  ASSUME Typed, NEW r \in Asking, NEW body \in Map \cup {None}
  PROVE  /\ Reply(r, body) \in Frame
         /\ Append(toUi, Reply(r, body)) \in Seq(Frame)
         /\ toUi \o <<[kind |-> "removed"], Reply(r, body)>> \in Seq(Frame)
<1>1. Reply(r, body) \in Frame
  BY DEF Reply, Frame, Asking
<1>2. [kind |-> "removed"] \in Frame
  BY DEF Frame
<1> HIDE DEF Frame
<1>3. <<[kind |-> "removed"], Reply(r, body)>> \in Seq(Frame)
  BY <1>1, <1>2
<1>4. toUi \in Seq(Frame)
  BY DEF Typed
<1> QED BY <1>1, <1>3, <1>4, ConcatProperties

\* An engine that starts finds the torrents of the last one.
LEMMA LoadedTyped ==
  ASSUME Typed
  PROVE  /\ Loaded(Range(list)) \in Seq(Torrents)
         /\ IsInjective(Loaded(Range(list)))
         /\ Range(Loaded(Range(list))) = Range(list)
<1>1. list \in Seq(Torrents) /\ DOMAIN list = 1..Len(list) /\ Len(list) \in Nat
  BY LenProperties DEF Typed
<1>2. Range(list) \in SUBSET Torrents
  BY <1>1 DEF Range
<1>3. IsFiniteSet(Range(list))
  <2>1. IsFiniteSet(DOMAIN list)
    BY <1>1, FS_Interval
  <2>2. list = [x \in DOMAIN list |-> list[x]]
    BY <1>1
  <2> QED BY <2>1, <2>2, FiniteRange DEF Range
<1>4. Cardinality(Range(list)) \in Nat
  BY <1>3, FS_CardinalityType
<1> DEFINE R == Range(list)
           q == SetToSeq(R)
<1>5. q \in [1..Cardinality(R) -> R] /\ IsInjective(q) /\ Range(q) = R
  BY <1>3, Ordering
<1> HIDE DEF R, q
<1>6. q \in Seq(R)
  BY <1>4, <1>5 DEF R
<1>7. q \in Seq(Torrents)
  BY <1>2, <1>6, SeqMonotonic DEF R
<1> QED BY <1>5, <1>7 DEF q, R, Loaded

\* The loops of removeTorrents and removeTorrentsByHash, unrolled
LEMMA ChoresTyped ==
  ASSUME Typed, NEW S, NEW fresh \in BOOLEAN
  PROVE  /\ S \subseteq 1..Len(snap) =>
              [k \in 1..Cardinality(S) |->
                 [by |-> "row", i |-> Downward(S)[k], meant |-> snap[Downward(S)[k]],
                  fresh |-> fresh]] \in Seq(Chore)
         /\ S \subseteq Range(snap) =>
              [k \in 1..Cardinality(S) |->
                 [by |-> "hash", i |-> 0, meant |-> SetToSeq(S)[k],
                  fresh |-> fresh]] \in Seq(Chore)
<1>1. snap \in Seq(Torrents) /\ Len(snap) \in Nat /\ DOMAIN snap = 1..Len(snap)
  BY LenProperties DEF Typed
<1>2. IsFiniteSet(1..Len(snap))
  BY <1>1, FS_Interval
<1>3. ASSUME S \subseteq 1..Len(snap)
      PROVE  [k \in 1..Cardinality(S) |->
                [by |-> "row", i |-> Downward(S)[k], meant |-> snap[Downward(S)[k]],
                 fresh |-> fresh]] \in Seq(Chore)
  <2>1. IsFiniteSet(S) /\ Cardinality(S) \in Nat /\ S \in SUBSET Nat
    <3>1. IsFiniteSet(S)
      BY <1>2, <1>3, FS_Subset
    <3> QED BY <1>1, <1>3, <3>1, FS_CardinalityType
  <2>2. \A k \in 1..Cardinality(S) : Downward(S)[k] \in S
    BY <2>1, Descends
  <2>3. \A k \in 1..Cardinality(S) :
          Downward(S)[k] \in Nat /\ snap[Downward(S)[k]] \in Torrents
    BY <1>1, <1>3, <2>1, <2>2, ElementOfSeq
  <2>4. \A k \in 1..Cardinality(S) :
          [by |-> "row", i |-> Downward(S)[k], meant |-> snap[Downward(S)[k]],
           fresh |-> fresh] \in Chore
    BY <2>3 DEF Chore
  <2> DEFINE e(k) == [by |-> "row", i |-> Downward(S)[k], meant |-> snap[Downward(S)[k]],
                      fresh |-> fresh]
             n == Cardinality(S)
  <2>5. n \in Nat /\ \A k \in 1..n : e(k) \in Chore
    BY <2>1, <2>4
  <2> HIDE DEF e, n
  <2>6. [k \in 1..n |-> e(k)] \in Seq(Chore)
    BY <2>5
  <2> QED BY <2>6 DEF e, n
<1>4. ASSUME S \subseteq Range(snap)
      PROVE  [k \in 1..Cardinality(S) |->
                [by |-> "hash", i |-> 0, meant |-> SetToSeq(S)[k],
                 fresh |-> fresh]] \in Seq(Chore)
  <2>0. IsFiniteSet(Range(snap)) /\ Range(snap) \in SUBSET Torrents
    <3>1. IsFiniteSet(DOMAIN snap)
      BY <1>1, <1>2
    <3>2. snap = [x \in DOMAIN snap |-> snap[x]]
      BY <1>1
    <3>3. \A k \in DOMAIN snap : snap[k] \in Torrents
      BY <1>1, ElementOfSeq
    <3> QED BY <3>1, <3>2, <3>3, FiniteRange DEF Range
  <2>1. IsFiniteSet(S) /\ Cardinality(S) \in Nat /\ S \in SUBSET Torrents
    BY <1>4, <2>0, FS_Subset, FS_CardinalityType
  <2>2. \A k \in 1..Cardinality(S) : SetToSeq(S)[k] \in S
    BY <2>1, Ordering
  <2>3. \A k \in 1..Cardinality(S) :
          [by |-> "hash", i |-> 0, meant |-> SetToSeq(S)[k], fresh |-> fresh] \in Chore
    BY <2>1, <2>2 DEF Chore
  <2> QED BY <2>1, <2>3
<1> QED BY <1>3, <1>4

\* The stack of waits stays one, whatever is put on it or taken off.
LEMMA SlotsTyped ==
  ASSUME Typed
  PROVE  /\ Popped \in Seq(Slot)
         /\ Append(stack, Drain(FALSE)) \in Seq(Slot)
         /\ \A b \in BOOLEAN : Append(Popped, Drain(b)) \in Seq(Slot)
         /\ <<Start>> \in Seq(Slot)
         /\ Top.at = "call" => Top \in Slot /\ stack # <<>> /\ Top = stack[Len(stack)]
<1>1. stack \in Seq(Slot)
  BY DEF Typed
<1>2. Popped \in Seq(Slot)
  BY <1>1, Fronts DEF Popped
<1>3. \A b \in BOOLEAN : Drain(b) \in Slot
  BY DEF Drain, Slot
<1>4. Start \in Slot
  BY DEF Start, Slot
<1>5. Top.at = "call" => Top \in Slot /\ stack # <<>> /\ Top = stack[Len(stack)]
  BY <1>1, Fronts DEF Top
<1> HIDE DEF Slot, Top
<1>6. /\ Append(stack, Drain(FALSE)) \in Seq(Slot)
      /\ \A b \in BOOLEAN : Append(Popped, Drain(b)) \in Seq(Slot)
      /\ <<Start>> \in Seq(Slot)
  <2> HIDE DEF Drain, Start, Popped
  <2>1. Append(stack, Drain(FALSE)) \in Seq(Slot)
    <3> DEFINE d == Drain(FALSE)
    <3>1. d \in Slot
      BY <1>3
    <3> HIDE DEF d
    <3>2. Append(stack, d) \in Seq(Slot)
      BY <1>1, <3>1
    <3> QED BY <3>2 DEF d
  <2>2. \A b \in BOOLEAN : Append(Popped, Drain(b)) \in Seq(Slot)
    BY <1>2, <1>3
  <2>3. <<Start>> \in Seq(Slot)
    BY <1>4
  <2> QED BY <2>1, <2>2, <2>3
<1> QED BY <1>2, <1>5, <1>6

\* A frame that the engine sends
LEMMA SentTyped ==
  ASSUME Typed, NEW f \in Frame
  PROVE  Append(toUi, f) \in Seq(Frame)
BY DEF Typed

\* n of the frames
LEMMA ReadTyped ==
  ASSUME Typed, NEW n \in 0..Len(toUi)
  PROVE  /\ SubSeq(toUi, 1, n) \in Seq(Frame) /\ SubSeq(toUi, n + 1, Len(toUi)) \in Seq(Frame)
         /\ Len(SubSeq(toUi, 1, n)) = n
         /\ Len(SubSeq(toUi, n + 1, Len(toUi))) = Len(toUi) - n
         /\ \A k \in 1..n : SubSeq(toUi, 1, n)[k] = toUi[k]
         /\ \A k \in 1..Len(toUi) - n : SubSeq(toUi, n + 1, Len(toUi))[k] = toUi[n + k]
         /\ buf \o SubSeq(toUi, 1, n) \in Seq(Frame)
<1> DEFINE m == Len(toUi)
           p == SubSeq(toUi, 1, n)
           q == SubSeq(toUi, n + 1, m)
<1>1. toUi \in Seq(Frame) /\ m \in Nat /\ n \in Nat /\ n <= m /\ buf \in Seq(Frame)
  BY LenProperties DEF Typed
<1>2. \A k \in 1..m : toUi[k] \in Frame
  BY <1>1, ElementOfSeq
<1> HIDE DEF m
<1>3. /\ p \in Seq(Frame) /\ Len(p) = (IF 1 <= n THEN n - 1 + 1 ELSE 0)
      /\ \A k \in 1..n - 1 + 1 : p[k] = toUi[1 + k - 1]
  BY <1>1, <1>2, SubSeqProperties
<1>4. /\ q \in Seq(Frame) /\ Len(q) = (IF n + 1 <= m THEN m - (n + 1) + 1 ELSE 0)
      /\ \A k \in 1..m - (n + 1) + 1 : q[k] = toUi[n + 1 + k - 1]
  BY <1>1, <1>2, SubSeqProperties
<1> HIDE DEF p, q
<1>5. Len(p) = n /\ \A k \in 1..n : p[k] = toUi[k]
  BY <1>1, <1>3
<1>6. Len(q) = m - n /\ \A k \in 1..m - n : q[k] = toUi[n + k]
  BY <1>1, <1>4
<1>7. buf \o p \in Seq(Frame)
  BY <1>1, <1>3, ConcatProperties
<1> QED BY <1>3, <1>4, <1>5, <1>6, <1>7 DEF p, q, m

\* The engine's handlers, one case for each request
LEMMA DispatchTyped ==
  ASSUME Typed, Dispatch
  PROVE  Typed'
<1> DEFINE r == Head(toEngine)
<1>1. r \in Asking /\ Tail(toEngine) \in Seq(Asking)
  BY HeadTailProperties DEF Dispatch, Typed
<1> HIDE DEF r
<1>2. list' \in Seq(Torrents) /\ streamed' \subseteq Torrents /\ toUi' \in Seq(Frame)
  <2>0. streamed \subseteq Torrents /\ list \in Seq(Torrents)
    BY DEF Typed
  <2>1. CASE r.what = "remove" /\ r.i \in 1..Len(list)
    <3>1. /\ list' = RemoveAt(list, r.i) /\ streamed' = streamed \ {list[r.i]}
          /\ toUi' = toUi \o <<[kind |-> "removed"], Reply(r, None)>>
      BY <2>1 DEF Dispatch, r
    <3> QED BY <1>1, <2>0, <2>1, <3>1, ListTyped, RepliesTyped
  <2>2. CASE r.what = "move" /\ r.i \in 1..Len(list)
    <3>1. /\ list' = InsertAt(RemoveAt(list, r.i), 1, list[r.i]) /\ streamed' = streamed
          /\ toUi' = Append(toUi, Reply(r, None))
      BY <2>2 DEF Dispatch, r
    <3> QED BY <1>1, <2>0, <2>2, <3>1, ListTyped, RepliesTyped
  <2>3. CASE r.what = "geometry" /\ r.i \in 1..Len(list)
    <3>1. /\ list' = list /\ streamed' = streamed \cup {list[r.i]}
          /\ toUi' = Append(toUi, Reply(r, [of |-> list[r.i], have |-> have[list[r.i]]]))
      BY <2>3 DEF Dispatch, Registered, r
    <3>2. list[r.i] \in Torrents
      BY <2>3, ListTyped
    <3>3. [of |-> list[r.i], have |-> have[list[r.i]]] \in Map
      BY <3>2 DEF Typed, Map
    <3> QED BY <1>1, <2>0, <3>1, <3>2, <3>3, RepliesTyped
  <2>4. CASE ~(r.what \in {"remove", "move", "geometry"} /\ r.i \in 1..Len(list))
    <3>1. list' = list /\ streamed' = streamed /\ toUi' = Append(toUi, Reply(r, None))
      BY <2>4 DEF Dispatch, r
    <3> QED BY <1>1, <2>0, <3>1, RepliesTyped
  <2> QED BY <2>1, <2>2, <2>3, <2>4
<1>3. toEngine' = Tail(toEngine)
  BY DEF Dispatch
<1> QED BY <1>1, <1>2, <1>3 DEF Dispatch, Typed, view, input

\* The app's handlers, one case for each frame
LEMMA HandleFrameTyped ==
  ASSUME Typed, HandleFrame
  PROVE  Typed'
<1> DEFINE f == Head(buf)
<1>1. f \in Frame /\ Tail(buf) \in Seq(Frame)
  BY HeadTailProperties DEF HandleFrame, Typed
<1> HIDE DEF f
<1>2. stack' \in Seq(Slot)
  <2>1. stack' = Append(Popped, Drain(f.kind # "reply"))
    BY DEF HandleFrame, f
  <2>2. (f.kind # "reply") \in BOOLEAN
    OBVIOUS
  <2> QED BY <2>1, <2>2, SlotsTyped
<1>3. snap' \in Seq(Torrents) /\ gotSnap' \in BOOLEAN /\ geo' \in [Torrents -> Map \cup {None}]
      /\ replies' \subseteq Answer /\ IsFiniteSet(replies')
  <2>0. snap \in Seq(Torrents) /\ gotSnap \in BOOLEAN /\ geo \in [Torrents -> Map \cup {None}]
        /\ replies \subseteq Answer /\ IsFiniteSet(replies)
    BY DEF Typed
  <2>1. CASE f.kind = "reply"
    <3>1. /\ replies' = replies \cup {[id |-> f.id, what |-> f.what, body |-> f.body]}
          /\ snap' = snap /\ gotSnap' = gotSnap /\ geo' = geo
      BY <2>1 DEF HandleFrame, f, view
    <3>2. [id |-> f.id, what |-> f.what, body |-> f.body] \in Answer
      BY <1>1, <2>1 DEF Frame, Answer
    <3> QED BY <2>0, <3>1, <3>2, FS_AddElement
  <2>2. CASE f.kind = "snapshot"
    <3>1. snap' = f.list /\ gotSnap' = TRUE /\ geo' = geo /\ replies' = replies
      BY <2>2 DEF HandleFrame, f
    <3>2. f.list \in Seq(Torrents)
      BY <1>1, <2>2 DEF Frame
    <3> QED BY <2>0, <3>1, <3>2
  <2>3. CASE f.kind = "piece"
    <3>1. /\ snap' = snap /\ gotSnap' = gotSnap /\ replies' = replies
          /\ geo' = IF geo[f.t] = None THEN geo
                    ELSE [geo EXCEPT ![f.t].have = @ \cup {f.p}]
      BY <2>3 DEF HandleFrame, f
    <3>2. f.t \in Torrents /\ f.p \in Pieces
      BY <1>1, <2>3 DEF Frame
    <3>3. CASE geo[f.t] # None
      <4>1. geo[f.t] \in Map
        BY <2>0, <3>2, <3>3
      <4> DEFINE m == [geo[f.t] EXCEPT !.have = @ \cup {f.p}]
      <4>2. m \in Map
        BY <3>2, <4>1 DEF Map
      <4>3. geo' = [geo EXCEPT ![f.t] = m]
        BY <3>1, <3>3
      <4> HIDE DEF m
      <4> QED BY <2>0, <3>1, <4>2, <4>3
    <3> QED BY <2>0, <3>1, <3>3
  <2>4. CASE f.kind = "removed"
    <3>1. /\ snap' = snap /\ gotSnap' = gotSnap /\ replies' = replies
          /\ geo' = [t \in Torrents |-> None]
      BY <2>4 DEF HandleFrame, f, Removed
    <3> QED BY <2>0, <3>1
  <2> QED BY <1>1, <2>1, <2>2, <2>3, <2>4 DEF Frame
<1>4. buf' = Tail(buf)
  BY DEF HandleFrame
<1> QED BY <1>1, <1>2, <1>3, <1>4 DEF HandleFrame, Typed, engine, socket

\* The types hold in every reachable state.
LEMMA TypedHolds == Spec => []Typed
<1>1. ASSUME Typed, [Next]_vars PROVE Typed'
  <2>1. CASE Query
    BY <1>1, <2>1, RequestTyped DEF Query, Whats, Typed
  <2>2. ASSUME NEW i \in 1..Len(snap), StreamGeo(i) PROVE Typed'
    <3>1. snap[i] \in Torrents /\ i \in Nat
      BY <1>1, ElementOfSeq DEF Typed
    <3> QED BY <1>1, <2>2, <3>1, RequestTyped DEF StreamGeo, Whats, Typed
  <2>3. ASSUME NEW i \in 1..Len(snap), Move(i) PROVE Typed'
    <3>1. snap[i] \in Torrents /\ i \in Nat
      BY <1>1, ElementOfSeq DEF Typed
    <3> QED BY <1>1, <2>3, <3>1, RequestTyped DEF Move, Whats, Typed
  <2>4. ASSUME NEW S \in SUBSET (1..Len(snap)), RemoveRows(S) PROVE Typed'
    <3>1. todo' \in Seq(Chore)
      BY <1>1, <2>4, ChoresTyped DEF RemoveRows, Accurate
    <3> QED BY <1>1, <2>4, <3>1 DEF RemoveRows, Typed, engine, socket, view, input
  <2>5. ASSUME NEW S \in SUBSET Torrents, RemoveByHash(S) PROVE Typed'
    <3>1. todo' \in Seq(Chore)
      BY <1>1, <2>5, ChoresTyped DEF RemoveByHash, Accurate
    <3> QED BY <1>1, <2>5, <3>1 DEF RemoveByHash, Typed, engine, socket, view, input
  <2>6. CASE RemoveNext
    <3> DEFINE r == Head(todo)
               at == {i \in 1..Len(snap) : snap[i] = r.meant}
    <3>1. r \in Chore /\ todo' \in Seq(Chore)
      BY <1>1, <2>6, HeadTailProperties DEF RemoveNext, Typed
    <3>2. CASE UNCHANGED <<toEngine, replies, stack>>
      BY <1>1, <2>6, <3>1, <3>2 DEF RemoveNext, Typed, engine, view
    <3>3. CASE /\ ~(r.by = "hash" /\ at = {}) /\ link = "on"
               /\ Request("remove", IF r.by = "row" THEN r.i ELSE Min(at), None, r.meant, r.fresh)
      <4>1. at \in SUBSET Nat
        BY <1>1, LenProperties DEF Typed
      <4>2. r.by # "row" => Min(at) \in at
        BY <3>1, <3>3, <4>1, Least DEF Chore
      <4>3. (IF r.by = "row" THEN r.i ELSE Min(at)) \in Nat
        BY <3>1, <4>1, <4>2 DEF Chore
      <4>4. r.meant \in Torrents /\ r.fresh \in BOOLEAN /\ "remove" \in Whats
        BY <3>1 DEF Chore, Whats
      <4> HIDE DEF at, r
      <4> QED BY <1>1, <2>6, <3>1, <3>3, <4>3, <4>4, RequestTyped DEF RemoveNext
    <3>4. \/ UNCHANGED <<toEngine, replies, stack>>
          \/ /\ ~(r.by = "hash" /\ at = {}) /\ link = "on"
             /\ Request("remove", IF r.by = "row" THEN r.i ELSE Min(at), None, r.meant, r.fresh)
      BY <2>6 DEF RemoveNext, Request
    <3> QED BY <3>2, <3>3, <3>4
  <2>7. ASSUME NEW r \in replies, Return(r) PROVE Typed'
    <3>1. stack' \in Seq(Slot) /\ Top \in Slot
      BY <1>1, <2>7, SlotsTyped DEF Return
    <3>2. geo' \in [Torrents -> Map \cup {None}]
      <4>1. Top.what = "geometry" /\ r.body # None => Top.t \in Torrents \cup {None} /\ r.body \in Map
        BY <1>1, <2>7, <3>1 DEF Return, Slot, Typed, Answer
      <4> QED BY <1>1, <2>7, <4>1 DEF Return, Typed
    <3>3. replies' \subseteq Answer /\ IsFiniteSet(replies')
      BY <1>1, <2>7, FS_RemoveElement DEF Return, Typed
    <3> QED BY <1>1, <2>7, <3>1, <3>2, <3>3 DEF Return, Typed, engine, socket
  <2>8. CASE ReturnEmpty
    BY <1>1, <2>8, SlotsTyped DEF ReturnEmpty, Typed, engine, socket, view, input
  <2>9. ASSUME NEW n \in 0..Len(toUi), NEW part \in BOOLEAN, Read(n, part) PROVE Typed'
    <3>1. toUi' \in Seq(Frame) /\ buf' \in Seq(Frame)
      BY <1>1, <2>9, ReadTyped DEF Read, Typed
    <3>2. stack' \in Seq(Slot)
      BY <1>1, <2>9, SlotsTyped DEF Read
    <3>3. cut' \in BOOLEAN /\ torn' \in BOOLEAN
      BY <2>9 DEF Read
    <3> QED BY <1>1, <2>9, <3>1, <3>2, <3>3 DEF Read, Typed, engine, view
  <2>10. CASE HandleFrame
    BY <1>1, <2>10, HandleFrameTyped
  <2>11. CASE DrainEnds
    BY <1>1, <2>11, SlotsTyped DEF DrainEnds, Typed, engine, socket, view, input
  <2>12. ASSUME NEW late \in BOOLEAN, OnProcFinished(late) PROVE Typed'
    <3>1. toEngine' \in Seq(Asking) /\ toUi' \in Seq(Frame)
      BY <2>12 DEF OnProcFinished
    <3>2. link' \in {"on", "broken", "off", "lost"} /\ cut' \in BOOLEAN /\ gotSnap' \in BOOLEAN
      BY <2>12 DEF OnProcFinished
    <3> QED BY <1>1, <2>12, <3>1, <3>2 DEF OnProcFinished, Typed, engine, input
  <2>13. ASSUME NEW inTime \in BOOLEAN, StartEngine(inTime) PROVE Typed'
    <3>1. list' \in Seq(Torrents)
      BY <1>1, <2>13, LoadedTyped DEF StartEngine
    <3>2. toUi' \in Seq(Frame)
      <4>1. [kind |-> "snapshot", list |-> list'] \in Frame
        BY <3>1 DEF Frame
      <4> DEFINE f == [kind |-> "snapshot", list |-> list']
      <4>2. toUi' = IF inTime THEN <<f>> ELSE toUi
        BY <2>13 DEF StartEngine
      <4> HIDE DEF Frame, f
      <4>3. <<f>> \in Seq(Frame)
        BY <4>1 DEF f
      <4> QED BY <1>1, <4>2, <4>3 DEF Typed
    <3>3. stack' \in Seq(Slot)
      BY <1>1, <2>13, SlotsTyped DEF StartEngine, Typed
    <3>4. link' \in {"on", "broken", "off", "lost"} /\ streamed' \subseteq Torrents
      BY <2>13 DEF StartEngine
    <3> QED BY <1>1, <2>13, <3>1, <3>2, <3>3, <3>4 DEF StartEngine, Typed, view, input
  <2>14. CASE StartEnds
    BY <1>1, <2>14, SlotsTyped DEF StartEnds, Typed, engine, socket, view, input
  <2>15. CASE StaysUp
    BY <1>1, <2>15 DEF StaysUp, Typed, vars, engine, socket, view, input
  <2>16. CASE Dispatch
    BY <1>1, <2>16, DispatchTyped
  <2>17. CASE Tick
    <3>1. [kind |-> "snapshot", list |-> list] \in Frame
      BY <1>1 DEF Frame, Typed
    <3>2. toUi' \in Seq(Frame)
      BY <1>1, <2>17, <3>1, SentTyped DEF Tick
    <3> QED BY <1>1, <2>17, <3>2 DEF Tick, Typed, engine, view, input
  <2>18. ASSUME NEW t \in Torrents, AddTorrent(t) PROVE Typed'
    <3>1. list' \in Seq(Torrents) /\ have' \in [Torrents -> SUBSET Pieces]
      BY <1>1, <2>18 DEF AddTorrent, Typed
    <3> QED BY <1>1, <2>18, <3>1 DEF AddTorrent, Typed, socket, view, input
  <2>19. ASSUME NEW t \in Torrents, NEW p \in Pieces, PieceFinished(t, p) PROVE Typed'
    <3>1. have' \in [Torrents -> SUBSET Pieces]
      BY <1>1, <2>19 DEF PieceFinished, Typed
    <3>2. [kind |-> "piece", t |-> t, p |-> p] \in Frame
      BY DEF Frame
    <3>3. toUi' \in Seq(Frame)
      BY <1>1, <2>19, <3>2, SentTyped DEF PieceFinished, Typed
    <3> QED BY <1>1, <2>19, <3>1, <3>3 DEF PieceFinished, Typed, view, input
  <2>20. ASSUME NEW n \in 0..Len(toUi), NEW part \in BOOLEAN, EngineDies(n, part) PROVE Typed'
    <3>1. toUi' \in Seq(Frame)
      BY <1>1, <2>20, ReadTyped DEF EngineDies
    <3> QED BY <1>1, <2>20, <3>1 DEF EngineDies, Typed, engine, view, input
  <2>21. CASE UNCHANGED vars
    BY <1>1, <2>21 DEF Typed, vars, engine, socket, view, input
  <2> QED BY <1>1, <2>1, <2>2, <2>3, <2>4, <2>5, <2>6, <2>7, <2>8, <2>9, <2>10, <2>11, <2>12,
             <2>13, <2>14, <2>15, <2>16, <2>17, <2>18, <2>19, <2>20, <2>21
          DEF Next, App, AppGoesOn, Engine
<1> QED BY <1>1, InitTyped, PTL DEF Spec

-----------------------------------------------------------------------------
(* What answers a call answers what it asked *)

\* The calls and what may answer them are those that were there.
LEMMA MatchedFewer ==
  ASSUME Matched,
         \A j \in 1..Len(stack') : stack'[j].at = "call" =>
           \E m \in 1..Len(stack) : stack[m] = stack'[j],
         \A k \in 1..Len(toEngine') : \E m \in 1..Len(toEngine) : toEngine[m] = toEngine'[k],
         \A k \in 1..Len(toUi') : toUi'[k].kind = "reply" =>
           \/ \E m \in 1..Len(toUi) : toUi[m] = toUi'[k]
           \/ \E m \in 1..Len(toEngine) : toEngine[m].id = toUi'[k].id
                                          /\ toEngine[m].what = toUi'[k].what,
         \A k \in 1..Len(buf') : buf'[k].kind = "reply" =>
           \/ \E m \in 1..Len(buf) : buf[m] = buf'[k]
           \/ \E m \in 1..Len(toUi) : toUi[m] = buf'[k],
         \A r \in replies' :
           \/ r \in replies
           \/ \E m \in 1..Len(buf) : /\ buf[m].kind = "reply"
                                     /\ buf[m].id = r.id /\ buf[m].what = r.what
  PROVE  Matched'
<1>1. ASSUME NEW x, Meets(stack, x) PROVE Meets(stack', x)
  BY <1>1 DEF Meets
<1>2. ASSUME NEW x, NEW y, Meets(stack, x), x.id = y.id, x.what = y.what PROVE Meets(stack, y)
  BY <1>2 DEF Meets
<1>3. \A k \in 1..Len(toEngine') : Meets(stack', toEngine'[k])
  BY <1>1 DEF Matched
<1>4. \A k \in 1..Len(toUi') : toUi'[k].kind = "reply" => Meets(stack', toUi'[k])
  BY <1>1, <1>2 DEF Matched
<1>5. \A k \in 1..Len(buf') : buf'[k].kind = "reply" => Meets(stack', buf'[k])
  BY <1>1, <1>2 DEF Matched
<1>6. \A r \in replies' : Meets(stack', r)
  BY <1>1, <1>2 DEF Matched
<1> QED BY <1>3, <1>4, <1>5, <1>6 DEF Matched

\* The new request has a number of its own and cannot be confused.
LEMMA RequestMatched ==
  ASSUME Known, link = "on", NEW what, NEW i, NEW t, NEW meant, NEW fresh,
         Request(what, i, t, meant, fresh), UNCHANGED <<toUi, buf>>
  PROVE  Matched'
<1> DEFINE r == [id |-> FreshId, what |-> what, i |-> i, meant |-> meant, fresh |-> fresh]
           c == Call(FreshId, what, t)
<1>1. /\ r.id = FreshId /\ r.what = what
      /\ c.at = "call" /\ c.id = FreshId /\ c.what = what
  BY DEF Call
<1>2. toEngine' = Append(toEngine, r) /\ stack' = Append(stack, c) /\ replies' \subseteq replies
  BY Requested DEF Known
<1>3. FreshId \notin IdsInUse
  BY FreshIsNew DEF Known
<1> HIDE DEF r, c
<1>4. /\ Len(stack') = Len(stack) + 1 /\ stack'[Len(stack) + 1] = c /\ Len(stack) \in Nat
      /\ \A j \in 1..Len(stack) : stack'[j] = stack[j]
  <2>1. stack \in Seq(Slot)
    BY DEF Known, Typed
  <2> HIDE DEF Slot
  <2> QED BY <1>2, <2>1
<1>5. /\ Len(toEngine') = Len(toEngine) + 1 /\ toEngine'[Len(toEngine) + 1] = r /\ Len(toEngine) \in Nat
      /\ \A j \in 1..Len(toEngine) : toEngine'[j] = toEngine[j]
  <2>1. toEngine \in Seq(Asking)
    BY DEF Known, Typed
  <2> HIDE DEF Asking
  <2> QED BY <1>2, <2>1
<1>6. ASSUME NEW x, x.id \in IdsInUse, Meets(stack, x) PROVE Meets(stack', x)
  <2>1. x.id # FreshId
    BY <1>3, <1>6
  <2>2. ASSUME NEW j \in 1..Len(stack'), stack'[j].at = "call", stack'[j].id = x.id
        PROVE  stack'[j].what = x.what
    <3>1. CASE j \in 1..Len(stack)
      BY <1>4, <1>6, <2>2, <3>1 DEF Meets
    <3>2. CASE j = Len(stack) + 1
      BY <1>1, <1>4, <2>1, <2>2, <3>2
    <3> QED BY <1>4, <3>1, <3>2
  <2> QED BY <2>2 DEF Meets
<1>7. Meets(stack', r)
  <2>1. ASSUME NEW j \in 1..Len(stack'), stack'[j].at = "call", stack'[j].id = r.id
        PROVE  stack'[j].what = r.what
    <3>1. CASE j \in 1..Len(stack)
      <4>1. stack[j].at = "call" /\ stack[j].id = FreshId
        BY <1>1, <1>4, <2>1, <3>1
      <4> QED BY <1>3, <3>1, <4>1, Used DEF Known
    <3>2. CASE j = Len(stack) + 1
      BY <1>1, <1>4, <3>2
    <3> QED BY <1>4, <3>1, <3>2
  <2> QED BY <2>1 DEF Meets
<1>8. \A k \in 1..Len(toEngine') : Meets(stack', toEngine'[k])
  <2>1. ASSUME NEW k \in 1..Len(toEngine') PROVE Meets(stack', toEngine'[k])
    <3>1. CASE k \in 1..Len(toEngine)
      BY <1>5, <1>6, <3>1, Used DEF Known, Matched
    <3>2. CASE k = Len(toEngine) + 1
      BY <1>5, <1>7, <3>2
    <3> QED BY <1>5, <3>1, <3>2
  <2> QED BY <2>1
<1>9. \A k \in 1..Len(toUi) : toUi[k].kind = "reply" => Meets(stack', toUi[k])
  BY <1>6, Used DEF Known, Matched
<1>10. \A k \in 1..Len(buf) : buf[k].kind = "reply" => Meets(stack', buf[k])
  BY <1>6, Used DEF Known, Matched
<1>11. \A q \in replies' : Meets(stack', q)
  BY <1>2, <1>6, Used DEF Known, Matched
<1> QED BY <1>8, <1>9, <1>10, <1>11 DEF Matched

\* What stays of the calls
LEMMA SlotsKept ==
  ASSUME Typed
  PROVE  /\ \A j \in 1..Len(Popped) : \E m \in 1..Len(stack) : stack[m] = Popped[j]
         /\ \A b : \A j \in 1..Len(Append(Popped, Drain(b))) :
              Append(Popped, Drain(b))[j].at = "call" =>
                \E m \in 1..Len(stack) : stack[m] = Append(Popped, Drain(b))[j]
         /\ \A j \in 1..Len(Append(stack, Drain(FALSE))) :
              Append(stack, Drain(FALSE))[j].at = "call" =>
                \E m \in 1..Len(stack) : stack[m] = Append(stack, Drain(FALSE))[j]
<1>1. stack \in Seq(Slot) /\ Len(stack) \in Nat
  BY LenProperties DEF Typed
<1>2. /\ Popped \in Seq(Slot) /\ Len(Popped) <= Len(stack)
      /\ \A j \in 1..Len(Popped) : Popped[j] = stack[j]
  BY <1>1, Fronts DEF Popped
<1>3. Len(Popped) \in Nat
  BY <1>2, LenProperties
<1>4. \A j \in 1..Len(Popped) : j \in 1..Len(stack)
  BY <1>1, <1>2, <1>3
<1> HIDE DEF Slot, Popped
<1>5. ASSUME NEW b, NEW s \in Seq(Slot), NEW j \in 1..Len(Append(s, Drain(b))),
             Append(s, Drain(b))[j].at = "call"
      PROVE  j \in 1..Len(s) /\ Append(s, Drain(b))[j] = s[j]
  <2>1. Drain(b).at = "drain"
    BY DEF Drain
  <2> DEFINE d == Drain(b)
  <2> HIDE DEF d
  <2>2. /\ Len(Append(s, d)) = Len(s) + 1 /\ Append(s, d)[Len(s) + 1] = d /\ Len(s) \in Nat
        /\ \A k \in 1..Len(s) : Append(s, d)[k] = s[k]
    OBVIOUS
  <2>3. j # Len(s) + 1
    BY <1>5, <2>1, <2>2 DEF d
  <2> QED BY <1>5, <2>2, <2>3 DEF d
<1> HIDE DEF Drain
<1>6. \A b : \A j \in 1..Len(Append(Popped, Drain(b))) :
        Append(Popped, Drain(b))[j].at = "call" =>
          \E m \in 1..Len(stack) : stack[m] = Append(Popped, Drain(b))[j]
  BY <1>2, <1>4, <1>5
<1>7. \A j \in 1..Len(Append(stack, Drain(FALSE))) :
        Append(stack, Drain(FALSE))[j].at = "call" =>
          \E m \in 1..Len(stack) : stack[m] = Append(stack, Drain(FALSE))[j]
  BY <1>1, <1>5
<1> QED BY <1>2, <1>4, <1>6, <1>7

\* The frames that a dispatch sends
LEMMA DispatchSends ==
  ASSUME Typed, Dispatch
  PROVE  /\ Head(toEngine) = toEngine[1] /\ 1 \in 1..Len(toEngine)
         /\ \E body \in Map \cup {None} :
              LET answer == Reply(toEngine[1], body) IN
              \/ toUi' = Append(toUi, answer)
              \/ toUi' = toUi \o <<[kind |-> "removed"], answer>>
<1> DEFINE r == Head(toEngine)
<1>1. r = toEngine[1] /\ 1 \in 1..Len(toEngine)
  BY DEF Dispatch, Typed
<1> HIDE DEF r
<1>2. CASE r.what = "remove" /\ r.i \in 1..Len(list)
  <2>1. toUi' = toUi \o <<[kind |-> "removed"], Reply(r, None)>>
    BY <1>2 DEF Dispatch, r
  <2> QED BY <1>1, <2>1 DEF r
<1>3. CASE r.what = "geometry" /\ r.i \in 1..Len(list)
  <2>1. toUi' = Append(toUi, Reply(r, [of |-> list[r.i], have |-> have[list[r.i]]]))
    BY <1>3 DEF Dispatch, r
  <2>2. [of |-> list[r.i], have |-> have[list[r.i]]] \in Map
    BY <1>3, ListTyped DEF Typed, Map
  <2> QED BY <1>1, <2>1, <2>2 DEF r
<1>4. CASE ~(r.what \in {"remove", "geometry"} /\ r.i \in 1..Len(list))
  <2>1. toUi' = Append(toUi, Reply(r, None))
    BY <1>4 DEF Dispatch, r
  <2> QED BY <1>1, <2>1 DEF r
<1> QED BY <1>2, <1>3, <1>4

\* The last elements of what is sent
LEMMA TwoMore ==
  ASSUME NEW T, NEW s \in Seq(T), NEW x \in T, NEW y \in T
  PROVE  /\ Len(s) \in Nat /\ Len(s \o <<x, y>>) = Len(s) + 2
         /\ \A k \in 1..Len(s) : (s \o <<x, y>>)[k] = s[k]
         /\ (s \o <<x, y>>)[Len(s) + 1] = x /\ (s \o <<x, y>>)[Len(s) + 2] = y
<1> DEFINE q == <<x, y>>
<1>1. q \in Seq(T) /\ Len(q) = 2 /\ q[1] = x /\ q[2] = y /\ Len(s) \in Nat
  BY LenProperties
<1> HIDE DEF q
<1>2. /\ Len(s \o q) = Len(s) + Len(q)
      /\ \A i \in 1 .. Len(s) + Len(q) : (s \o q)[i] =
           IF i <= Len(s) THEN s[i] ELSE q[i - Len(s)]
  BY <1>1, ConcatProperties
<1> QED BY <1>1, <1>2 DEF q

\* What Append adds comes last.
LEMMA OneMore ==
  ASSUME NEW T, NEW s \in Seq(T), NEW x \in T
  PROVE  /\ Len(s) \in Nat /\ Len(Append(s, x)) = Len(s) + 1
         /\ \A k \in 1..Len(s) : Append(s, x)[k] = s[k]
         /\ Append(s, x)[Len(s) + 1] = x
OBVIOUS

\* A reply has the number and the question of its request.
LEMMA DispatchMatched ==
  ASSUME Known, Dispatch
  PROVE  Matched'
<1>1. PICK body \in Map \cup {None} :
        \/ toUi' = Append(toUi, Reply(toEngine[1], body))
        \/ toUi' = toUi \o <<[kind |-> "removed"], Reply(toEngine[1], body)>>
  BY DispatchSends DEF Known
<1> DEFINE a == Reply(toEngine[1], body)
           b == [kind |-> "removed"]
<1>2. 1 \in 1..Len(toEngine) /\ toEngine[1] \in Asking
  BY DispatchSends, ElementOfSeq DEF Known, Typed
<1>3. a.id = toEngine[1].id /\ a.what = toEngine[1].what /\ b.kind # "reply"
  BY DEF Reply
<1>4. a \in Frame /\ b \in Frame /\ toUi \in Seq(Frame)
  BY <1>2, RepliesTyped DEF Known, Typed, Frame
<1> HIDE DEF a, b, Frame
<1>5. \A k \in 1..Len(toUi') : toUi'[k].kind = "reply" =>
        \/ \E m \in 1..Len(toUi) : toUi[m] = toUi'[k]
        \/ toUi'[k] = a
  <2>1. CASE toUi' = Append(toUi, a)
    BY <1>4, <2>1, OneMore
  <2>2. CASE toUi' = toUi \o <<b, a>>
    BY <1>3, <1>4, <2>2, TwoMore
  <2> QED BY <1>1, <2>1, <2>2 DEF a, b
<1>6. \A k \in 1..Len(toUi') : toUi'[k].kind = "reply" =>
        \/ \E m \in 1..Len(toUi) : toUi[m] = toUi'[k]
        \/ \E m \in 1..Len(toEngine) : toEngine[m].id = toUi'[k].id
                                       /\ toEngine[m].what = toUi'[k].what
  BY <1>2, <1>3, <1>5
<1>7. \A k \in 1..Len(toEngine') : \E m \in 1..Len(toEngine) : toEngine[m] = toEngine'[k]
  <2>1. toEngine \in Seq(Asking) /\ toEngine # <<>> /\ toEngine' = Tail(toEngine)
    BY DEF Dispatch, Known, Typed
  <2>2. /\ Len(toEngine') = Len(toEngine) - 1 /\ Len(toEngine) \in Nat
        /\ \A i \in 1 .. Len(toEngine') : toEngine'[i] = toEngine[i + 1]
    BY <2>1, HeadTailProperties, LenProperties
  <2>3. \A i \in 1..Len(toEngine') : i + 1 \in 1..Len(toEngine)
    BY <2>2
  <2> QED BY <2>2, <2>3
<1>8. UNCHANGED <<stack, buf, replies>>
  BY DEF Dispatch, input
<1> QED BY <1>6, <1>7, <1>8, MatchedFewer DEF Known

\* A reply that is kept for its call is the reply that came.
LEMMA HandleFrameMatched ==
  ASSUME Known, HandleFrame
  PROVE  Matched'
<1> DEFINE f == Head(buf)
<1>1. buf \in Seq(Frame) /\ buf # <<>> /\ buf' = Tail(buf)
  BY DEF HandleFrame, Known, Typed
<1>2. /\ f = buf[1] /\ 1 \in 1..Len(buf) /\ f \in Frame
      /\ \A k \in 1..Len(buf') : \E m \in 1..Len(buf) : buf[m] = buf'[k]
  <2>1. /\ Len(buf') = Len(buf) - 1 /\ Len(buf) \in Nat
        /\ \A i \in 1 .. Len(buf') : buf'[i] = buf[i + 1]
    BY <1>1, HeadTailProperties, LenProperties
  <2>2. \A i \in 1..Len(buf') : i + 1 \in 1..Len(buf)
    BY <2>1
  <2> QED BY <1>1, <2>1, <2>2, HeadTailProperties
<1> HIDE DEF f
<1>3. \A r \in replies' :
        \/ r \in replies
        \/ \E m \in 1..Len(buf) : /\ buf[m].kind = "reply"
                                  /\ buf[m].id = r.id /\ buf[m].what = r.what
  <2>1. CASE f.kind = "reply"
    <3>1. replies' = replies \cup {[id |-> f.id, what |-> f.what, body |-> f.body]}
      BY <2>1 DEF HandleFrame, f
    <3> QED BY <1>2, <2>1, <3>1
  <2>2. CASE f.kind # "reply"
    <3>1. replies' = replies
      BY <1>2, <2>2 DEF HandleFrame, f, Frame
    <3> QED BY <3>1
  <2> QED BY <2>1, <2>2
<1>4. stack' = Append(Popped, Drain(f.kind # "reply")) /\ toEngine' = toEngine /\ toUi' = toUi
  BY DEF HandleFrame, f, socket
<1>5. \A j \in 1..Len(stack') : stack'[j].at = "call" =>
        \E m \in 1..Len(stack) : stack[m] = stack'[j]
  BY <1>4, SlotsKept DEF Known
<1> QED BY <1>2, <1>3, <1>4, <1>5, MatchedFewer DEF Known

\* Reading moves frames from the socket to m_buf and makes up none.
LEMMA ReadMatched ==
  ASSUME Known, NEW n \in 0..Len(toUi), NEW part, Read(n, part)
  PROVE  Matched'
<1>1. /\ toUi' = SubSeq(toUi, n + 1, Len(toUi))
      /\ buf' = (IF torn THEN buf ELSE buf \o SubSeq(toUi, 1, n))
      /\ stack' = Append(stack, Drain(FALSE)) /\ toEngine' = toEngine /\ replies' = replies
  BY DEF Read
<1>2. \A k \in 1..Len(toUi') : \E m \in 1..Len(toUi) : toUi[m] = toUi'[k]
  <2>1. Len(toUi) \in Nat /\ Len(toUi') = Len(toUi) - n
        /\ \A k \in 1..Len(toUi) - n : toUi'[k] = toUi[n + k]
    BY <1>1, ReadTyped, LenProperties DEF Known, Typed
  <2>2. \A k \in 1..Len(toUi) - n : n + k \in 1..Len(toUi)
    BY <2>1
  <2> QED BY <2>1, <2>2
<1>3. \A k \in 1..Len(buf') : buf'[k].kind = "reply" =>
        \/ \E m \in 1..Len(buf) : buf[m] = buf'[k]
        \/ \E m \in 1..Len(toUi) : toUi[m] = buf'[k]
  <2>1. CASE torn
    BY <1>1, <2>1
  <2>2. CASE ~torn
    <3> DEFINE q == SubSeq(toUi, 1, n)
    <3>1. buf \in Seq(Frame) /\ q \in Seq(Frame) /\ Len(q) = n /\ buf' = buf \o q
          /\ Len(buf) \in Nat /\ \A k \in 1..n : q[k] = toUi[k]
      BY <1>1, <2>2, ReadTyped, LenProperties DEF Known, Typed
    <3> HIDE DEF q
    <3>2. /\ Len(buf \o q) = Len(buf) + Len(q)
          /\ \A i \in 1 .. Len(buf) + Len(q) : (buf \o q)[i] =
               IF i <= Len(buf) THEN buf[i] ELSE q[i - Len(buf)]
      BY <3>1, ConcatProperties
    <3> DEFINE l == Len(buf)
               m == Len(toUi)
    <3>3. l \in Nat /\ m \in Nat /\ n \in 0..m
      BY LenProperties DEF Known, Typed
    <3>4. /\ Len(buf') = l + n
          /\ \A i \in 1 .. l + n : buf'[i] = IF i <= l THEN buf[i] ELSE q[i - l]
      BY <3>1, <3>2
    <3>6. \A i \in 1..n : q[i] = toUi[i] /\ i \in 1..m
      BY <3>1, <3>3
    <3> HIDE DEF l, m
    <3>7. ASSUME NEW k \in 1..l + n
          PROVE  \/ k \in 1..l /\ buf'[k] = buf[k]
                 \/ k - l \in 1..m /\ buf'[k] = toUi[k - l]
      <4>1. CASE k <= l
        BY <3>3, <3>4, <4>1
      <4>2. CASE ~(k <= l)
        <5>1. k - l \in 1..n
          BY <3>3, <4>2
        <5> QED BY <3>4, <3>6, <4>2, <5>1
      <4> QED BY <4>1, <4>2
    <3> QED BY <3>4, <3>7 DEF l, m
  <2> QED BY <2>1, <2>2
<1>4. \A j \in 1..Len(stack') : stack'[j].at = "call" =>
        \E m \in 1..Len(stack) : stack[m] = stack'[j]
  BY <1>1, SlotsKept DEF Known
<1> QED BY <1>1, <1>2, <1>3, <1>4, MatchedFewer DEF Known

\* Every answer on its way, kept or to be made is to what its call asked.
LEMMA KnownHolds == Spec => []Known
<1>1. Init => Matched
  BY DEF Init, Matched, Meets, Start
<1>2. ASSUME Known, [Next]_vars PROVE Matched'
  <2>0. Typed /\ Matched /\ Len(stack) \in Nat
    BY <1>2, LenProperties DEF Known, Typed
  <2>1. CASE Query
    BY <1>2, <2>1, RequestMatched DEF Query
  <2>2. ASSUME NEW i \in 1..Len(snap), StreamGeo(i) PROVE Matched'
    BY <1>2, <2>2, RequestMatched DEF StreamGeo
  <2>3. ASSUME NEW i \in 1..Len(snap), Move(i) PROVE Matched'
    BY <1>2, <2>3, RequestMatched DEF Move
  <2>4. ASSUME NEW S \in SUBSET (1..Len(snap)), RemoveRows(S) PROVE Matched'
    BY <2>0, <2>4, MatchedFewer DEF RemoveRows, engine, socket, view, input
  <2>5. ASSUME NEW S \in SUBSET Torrents, RemoveByHash(S) PROVE Matched'
    BY <2>0, <2>5, MatchedFewer DEF RemoveByHash, engine, socket, view, input
  <2>6. CASE RemoveNext
    <3> DEFINE r == Head(todo)
               at == {i \in 1..Len(snap) : snap[i] = r.meant}
    <3>1. \/ UNCHANGED <<toEngine, replies, stack>>
          \/ /\ link = "on"
             /\ Request("remove", IF r.by = "row" THEN r.i ELSE Min(at), None, r.meant, r.fresh)
      BY <2>6 DEF RemoveNext, Request
    <3>2. UNCHANGED <<toUi, buf>>
      BY <2>6 DEF RemoveNext
    <3> HIDE DEF r, at
    <3>3. CASE UNCHANGED <<toEngine, replies, stack>>
      BY <2>0, <3>2, <3>3, MatchedFewer
    <3>4. CASE /\ link = "on"
               /\ Request("remove", IF r.by = "row" THEN r.i ELSE Min(at), None, r.meant, r.fresh)
      BY <1>2, <3>2, <3>4, RequestMatched
    <3> QED BY <3>1, <3>3, <3>4
  <2>7. ASSUME NEW r \in replies, Return(r) PROVE Matched'
    <3>1. stack' = Popped /\ UNCHANGED <<toEngine, toUi, buf>> /\ replies' \subseteq replies
      BY <2>7 DEF Return, socket
    <3> QED BY <2>0, <3>1, SlotsKept, MatchedFewer
  <2>8. CASE ReturnEmpty
    <3>1. stack' = Popped /\ UNCHANGED <<toEngine, toUi, buf, replies>>
      BY <2>8 DEF ReturnEmpty, socket, input
    <3> QED BY <2>0, <3>1, SlotsKept, MatchedFewer
  <2>9. ASSUME NEW n \in 0..Len(toUi), NEW part \in BOOLEAN, Read(n, part) PROVE Matched'
    BY <1>2, <2>9, ReadMatched
  <2>10. CASE HandleFrame
    BY <1>2, <2>10, HandleFrameMatched
  <2>11. CASE DrainEnds
    <3>1. stack' = Popped /\ UNCHANGED <<toEngine, toUi, buf, replies>>
      BY <2>11 DEF DrainEnds, socket, input
    <3> QED BY <2>0, <3>1, SlotsKept, MatchedFewer
  <2>12. ASSUME NEW late \in BOOLEAN, OnProcFinished(late) PROVE Matched'
    <3>1. toEngine' = <<>> /\ toUi' = <<>> /\ UNCHANGED <<stack, buf, replies>>
      BY <2>12 DEF OnProcFinished, input
    <3> QED BY <2>0, <3>1, MatchedFewer
  <2>13. ASSUME NEW inTime \in BOOLEAN, StartEngine(inTime) PROVE Matched'
    <3>1. UNCHANGED <<toEngine, buf, replies>>
      BY <2>13 DEF StartEngine, input
    <3>2. \A k \in 1..Len(toUi') : toUi'[k].kind = "reply" =>
            \E m \in 1..Len(toUi) : toUi[m] = toUi'[k]
      <4>1. CASE inTime
        <5> DEFINE f == [kind |-> "snapshot", list |-> list']
        <5>1. toUi' = <<f>> /\ f.kind # "reply"
          BY <2>13, <4>1 DEF StartEngine
        <5> HIDE DEF f
        <5> QED BY <5>1
      <4>2. CASE ~inTime
        BY <2>13, <4>2 DEF StartEngine
      <4> QED BY <4>1, <4>2
    <3>3. \A j \in 1..Len(stack') : stack'[j].at = "call" =>
            \E m \in 1..Len(stack) : stack[m] = stack'[j]
      <4>1. CASE inTime
        <5>1. stack' = <<Start>> /\ Start.at # "call"
          BY <2>13, <4>1 DEF StartEngine, Start
        <5> HIDE DEF Start
        <5> QED BY <5>1
      <4>2. CASE ~inTime
        BY <2>13, <4>2 DEF StartEngine
      <4> QED BY <4>1, <4>2
    <3> QED BY <2>0, <3>1, <3>2, <3>3, MatchedFewer
  <2>14. CASE StartEnds
    <3>1. stack' = Popped /\ UNCHANGED <<toEngine, toUi, buf, replies>>
      BY <2>14 DEF StartEnds, socket, input
    <3> QED BY <2>0, <3>1, SlotsKept, MatchedFewer
  <2>15. CASE StaysUp
    BY <2>0, <2>15, MatchedFewer DEF StaysUp, vars, engine, socket, view, input
  <2>16. CASE Dispatch
    BY <1>2, <2>16, DispatchMatched
  <2>17. CASE Tick
    <3> DEFINE f == [kind |-> "snapshot", list |-> list]
    <3>1. f \in Frame /\ f.kind # "reply" /\ toUi \in Seq(Frame)
      BY <2>0 DEF Frame, Typed
    <3>2. toUi' = Append(toUi, f) /\ UNCHANGED <<toEngine, stack, buf, replies>>
      BY <2>17 DEF Tick, input
    <3> HIDE DEF f, Frame
    <3>3. \A k \in 1..Len(toUi') : toUi'[k].kind = "reply" =>
            \E m \in 1..Len(toUi) : toUi[m] = toUi'[k]
      BY <3>1, <3>2, OneMore
    <3> QED BY <2>0, <3>2, <3>3, MatchedFewer
  <2>18. ASSUME NEW t \in Torrents, AddTorrent(t) PROVE Matched'
    BY <2>0, <2>18, MatchedFewer DEF AddTorrent, socket, view, input
  <2>19. ASSUME NEW t \in Torrents, NEW p \in Pieces, PieceFinished(t, p) PROVE Matched'
    <3> DEFINE f == [kind |-> "piece", t |-> t, p |-> p]
    <3>1. f \in Frame /\ f.kind # "reply" /\ toUi \in Seq(Frame)
      BY <2>0 DEF Frame, Typed
    <3>2. toUi' \in {toUi, Append(toUi, f)} /\ UNCHANGED <<toEngine, stack, buf, replies>>
      BY <2>19 DEF PieceFinished, input
    <3> HIDE DEF f, Frame
    <3>3. \A k \in 1..Len(toUi') : toUi'[k].kind = "reply" =>
            \E m \in 1..Len(toUi) : toUi[m] = toUi'[k]
      BY <3>1, <3>2, OneMore
    <3> QED BY <2>0, <3>2, <3>3, MatchedFewer
  <2>20. ASSUME NEW n \in 0..Len(toUi), NEW part \in BOOLEAN, EngineDies(n, part) PROVE Matched'
    <3>1. toUi' = SubSeq(toUi, 1, n) /\ UNCHANGED <<toEngine, stack, buf, replies>>
      BY <2>20 DEF EngineDies, input
    <3>2. Len(toUi') = n /\ \A k \in 1..n : toUi'[k] = toUi[k] /\ k \in 1..Len(toUi)
      BY <2>0, <3>1, ReadTyped, LenProperties DEF Typed
    <3> QED BY <2>0, <3>1, <3>2, MatchedFewer
  <2>21. CASE UNCHANGED vars
    BY <2>0, <2>21, MatchedFewer DEF vars, engine, socket, view, input
  <2> QED BY <1>2, <2>1, <2>2, <2>3, <2>4, <2>5, <2>6, <2>7, <2>8, <2>9, <2>10, <2>11, <2>12,
             <2>13, <2>14, <2>15, <2>16, <2>17, <2>18, <2>19, <2>20, <2>21
          DEF Next, App, AppGoesOn, Engine
<1>3. Typed /\ Matched => Known
  BY DEF Known
<1> QED BY <1>1, <1>2, <1>3, TypedHolds, PTL DEF Spec

-----------------------------------------------------------------------------
(* Calls and answers *)

\* A request never leaves the stack as a return does.
LEMMA RequestDeepens ==
  ASSUME Typed, link = "on", NEW what, NEW i, NEW t, NEW meant, NEW fresh,
         Request(what, i, t, meant, fresh)
  PROVE  stack' # Popped
<1> DEFINE c == Call(FreshId, what, t)
<1>1. stack' = Append(stack, c) /\ stack \in Seq(Slot) /\ Len(stack) \in Nat
  BY Requested, LenProperties DEF Typed
<1> HIDE DEF c, Slot
<1>2. Len(stack') = Len(stack) + 1
  BY <1>1
<1>3. Len(Popped) <= Len(stack) /\ Len(Popped) \in Nat
  BY <1>1, Fronts, LenProperties DEF Popped
<1> QED BY <1>1, <1>2, <1>3

\* A call returns with the answer to what it asked, whatever times out, dies, is
\* started again or comes late, and however the calls nest: the number of a
\* request is new, and an answer is taken by its number.
THEOREM CallsGetTheirAnswers == Spec => AnswersItsCall
<1>1. Known /\ [Next]_vars
        => [\A r \in replies \ replies' :
              stack' = Popped => Top.at = "call" /\ r.what = Top.what]_vars
  <2> SUFFICES ASSUME Known, [Next]_vars, NEW r \in replies, r \notin replies', stack' = Popped
               PROVE  Top.at = "call" /\ r.what = Top.what
    OBVIOUS
  <2>1. ASSUME NEW q \in replies, Return(q) PROVE Top.at = "call" /\ r.what = Top.what
    <3>1. q = r /\ Top.at = "call" /\ r.id = Top.id
      BY <2>1 DEF Return
    <3>2. Meets(stack, r)
      BY DEF Known, Matched
    <3>3. stack # <<>> /\ Top = stack[Len(stack)] /\ Len(stack) \in Nat
      BY <3>1, SlotsTyped, LenProperties DEF Known, Typed
    <3>4. Len(stack) \in 1..Len(stack)
      BY <3>3 DEF Known, Typed
    <3> QED BY <3>1, <3>2, <3>3, <3>4 DEF Meets
  <2>2. CASE UNCHANGED replies
    BY <2>2
  <2>3. CASE HandleFrame
    <3>1. replies \subseteq replies'
      BY <2>3, HeadTailProperties DEF HandleFrame, Known, Typed, Frame
    <3> QED BY <3>1
  <2>4. ASSUME link = "on", NEW what, NEW i, NEW t, NEW meant, NEW fresh,
               Request(what, i, t, meant, fresh)
        PROVE  FALSE
    BY <2>4, RequestDeepens DEF Known
  <2>5. CASE Query
    BY <2>4, <2>5 DEF Query
  <2>6. ASSUME NEW i \in 1..Len(snap), StreamGeo(i) PROVE FALSE
    BY <2>4, <2>6 DEF StreamGeo
  <2>7. ASSUME NEW i \in 1..Len(snap), Move(i) PROVE FALSE
    BY <2>4, <2>7 DEF Move
  <2>8. CASE RemoveNext
    <3> DEFINE h == Head(todo)
               at == {i \in 1..Len(snap) : snap[i] = h.meant}
    <3>1. \/ UNCHANGED replies
          \/ /\ link = "on"
             /\ Request("remove", IF h.by = "row" THEN h.i ELSE Min(at), None, h.meant, h.fresh)
      BY <2>8 DEF RemoveNext, Request
    <3> HIDE DEF h, at
    <3> QED BY <2>2, <2>4, <3>1
  <2> QED
    BY <2>1, <2>2, <2>3, <2>5, <2>6, <2>7, <2>8
    DEF Next, App, AppGoesOn, Engine, RemoveRows, RemoveByHash, ReturnEmpty, Read, DrainEnds,
        OnProcFinished, StartEngine, StartEnds, StaysUp, Dispatch, Tick, AddTorrent,
        PieceFinished, EngineDies, vars, input
<1> QED BY <1>1, KnownHolds, PTL DEF Spec, AnswersItsCall

-----------------------------------------------------------------------------
(* The piece maps *)

\* What the app will handle, in order, is a sequence of frames.
LEMMA FramesTyped ==
  ASSUME Typed
  PROVE  /\ Frames \in Seq(Frame) /\ Len(Frames) \in Nat
         /\ \A k \in 1..Len(Frames) : Frames[k] \in Frame
         /\ buf \in Seq(Frame) /\ toUi \in Seq(Frame)
<1>1. Frames \in Seq(Frame) /\ buf \in Seq(Frame) /\ toUi \in Seq(Frame)
  BY ConcatProperties DEF Typed, Frames
<1> QED BY <1>1, LenProperties, ElementOfSeq

\* What is sent is behind the rest.
LEMMA FramesSent ==
  ASSUME Typed, buf' = buf, NEW x \in Frame
  PROVE  /\ toUi' = Append(toUi, x) => Frames' = Append(Frames, x)
         /\ \A y \in Frame : toUi' = toUi \o <<x, y>> => Frames' = Frames \o <<x, y>>
<1>1. buf \in Seq(Frame) /\ toUi \in Seq(Frame)
  BY DEF Typed
<1> HIDE DEF Frame
<1>2. ASSUME NEW y \in Frame PROVE (buf \o toUi) \o <<x, y>> = buf \o (toUi \o <<x, y>>)
  <2>1. <<x, y>> \in Seq(Frame)
    OBVIOUS
  <2> QED BY <1>1, <2>1, ConcatAssociative
<1>3. Append(buf \o toUi, x) = buf \o Append(toUi, x)
  <2>1. <<x>> \in Seq(Frame) /\ buf \o toUi \in Seq(Frame)
    BY <1>1, ConcatProperties
  <2>2. (buf \o toUi) \o <<x>> = buf \o (toUi \o <<x>>)
    BY <1>1, <2>1, ConcatAssociative
  <2>3. \A q \in Seq(Frame) : Append(q, x) = q \o <<x>>
    BY AppendIsConcat
  <2> QED BY <1>1, <2>1, <2>2, <2>3
<1> QED BY <1>2, <1>3 DEF Frames

\* Reading changes nothing of what the app will handle.
LEMMA FramesRead ==
  ASSUME Typed, ~torn, NEW n \in 0..Len(toUi), NEW part, Read(n, part)
  PROVE  Frames' = Frames
<1> DEFINE p == SubSeq(toUi, 1, n)
           q == SubSeq(toUi, n + 1, Len(toUi))
<1>1. p \in Seq(Frame) /\ q \in Seq(Frame) /\ buf \in Seq(Frame) /\ toUi \in Seq(Frame)
  BY ReadTyped DEF Typed
<1>2. p \o q = toUi
  <2>1. Len(toUi) \in Nat
    BY <1>1, LenProperties
  <2>2. 1 \in 1..Len(toUi) + 1 /\ n \in 1 - 1..Len(toUi) /\ Len(toUi) \in n..Len(toUi)
    BY <2>1
  <2>3. p \o q = SubSeq(toUi, 1, Len(toUi))
    BY <1>1, <2>2, ConcatAdjacentSubSeq
  <2> QED BY <1>1, <2>3, SubSeqFull
<1>3. buf' = buf \o p /\ toUi' = q
  BY DEF Read
<1> HIDE DEF p, q
<1>4. (buf \o p) \o q = buf \o (p \o q)
  BY <1>1, ConcatAssociative, SMTT(40)
<1> QED BY <1>2, <1>3, <1>4 DEF Frames

\* Handling a frame leaves the ones behind it.
LEMMA FramesHandled ==
  ASSUME Typed, buf # <<>>, buf' = Tail(buf), toUi' = toUi
  PROVE  /\ Frames # <<>> /\ Frames' = Tail(Frames) /\ Head(buf) = Frames[1]
         /\ Len(Frames') = Len(Frames) - 1
         /\ \A k \in 1..Len(Frames') : Frames'[k] = Frames[k + 1]
<1>1. buf \in Seq(Frame) /\ toUi \in Seq(Frame) /\ Len(buf) \in Nat /\ Len(buf) >= 1
      /\ Len(toUi) \in Nat /\ Head(buf) = buf[1]
  BY LenProperties, EmptySeq DEF Typed
<1>2. /\ Frames \in Seq(Frame) /\ Len(Frames) = Len(buf) + Len(toUi)
      /\ \A i \in 1 .. Len(buf) + Len(toUi) :
           Frames[i] = IF i <= Len(buf) THEN buf[i] ELSE toUi[i - Len(buf)]
  BY <1>1, ConcatProperties DEF Frames
<1>3. /\ Tail(buf) \in Seq(Frame) /\ Len(Tail(buf)) = Len(buf) - 1
      /\ \A i \in 1 .. Len(Tail(buf)) : Tail(buf)[i] = buf[i + 1]
  BY <1>1, HeadTailProperties
<1> DEFINE t == Tail(buf)
           G == t \o toUi
<1> HIDE DEF t, Frame
<1>4. /\ G \in Seq(Frame) /\ Len(G) = Len(t) + Len(toUi)
      /\ \A i \in 1 .. Len(t) + Len(toUi) :
           G[i] = IF i <= Len(t) THEN t[i] ELSE toUi[i - Len(t)]
  BY <1>1, <1>3, ConcatProperties DEF t
<1> DEFINE l == Len(buf)
           m == Len(toUi)
<1> HIDE DEF l, m, G
<1>5. l \in Nat /\ l >= 1 /\ m \in Nat /\ Len(t) = l - 1 /\ Len(G) = l - 1 + m /\ Len(Frames) = l + m
  BY <1>1, <1>2, <1>3, <1>4 DEF l, m, t
<1>6. ASSUME NEW k \in 1..l - 1 + m PROVE G[k] = Frames[k + 1]
  <2>1. CASE k <= l - 1
    <3>1. k \in 1..l - 1 /\ k \in 1..l - 1 + m /\ k + 1 <= l /\ k + 1 \in 1..l + m
      BY <1>5, <1>6, <2>1
    <3>2. G[k] = t[k]
      BY <1>4, <1>5, <3>1 DEF m
    <3>3. t[k] = buf[k + 1]
      BY <1>3, <1>5, <3>1 DEF t
    <3>4. Frames[k + 1] = buf[k + 1]
      BY <1>2, <3>1 DEF l, m
    <3> QED BY <3>2, <3>3, <3>4
  <2>2. CASE ~(k <= l - 1)
    <3>1. k - (l - 1) = (k + 1) - l /\ ~(k + 1 <= l) /\ k + 1 \in 1..l + m
      BY <1>5, <1>6, <2>2
    <3> QED BY <1>1, <1>2, <1>4, <1>5, <1>6, <2>2, <3>1 DEF l, m
  <2> QED BY <2>1, <2>2
<1>7. Frames # <<>> /\ Frames[1] = Head(buf)
  BY <1>1, <1>2, <1>5 DEF l, m
<1>8. Frames' = G
  BY DEF Frames, G, t
<1>9. Len(Frames') = Len(Frames) - 1 /\ \A k \in 1..Len(Frames') : Frames'[k] = Frames[k + 1]
  BY <1>5, <1>6, <1>8
<1>10. Frames' = Tail(Frames)
  <2>1. /\ Tail(Frames) \in Seq(Frame) /\ Len(Tail(Frames)) = Len(Frames) - 1
        /\ \A i \in 1 .. Len(Tail(Frames)) : Tail(Frames)[i] = Frames[i + 1]
    BY <1>2, <1>7, HeadTailProperties
  <2> QED BY <1>4, <1>8, <1>9, <2>1, SeqEqual
<1> QED BY <1>7, <1>9, <1>10

\* A true map stays true while pieces and registrations only grow.
LEMMA MapsQuiet ==
  ASSUME Typed, Maps,
         link' = "on", ~cut', ~torn', toEngine' = toEngine, replies' \subseteq replies,
         \A m : True(m, have, streamed) => True(m, have', streamed'),
         \/ Frames' = Frames
         \/ \E x \in Frame : /\ Frames' = Append(Frames, x) /\ x.kind \notin {"reply", "removed"}
                             /\ x.kind = "piece" => x.p \in have'[x.t] /\ x.t \in streamed',
         \A k \in 1..Len(Frames) : Frames[k].kind = "piece" =>
           (Frames[k].p \in have[Frames[k].t] /\ Frames[k].t \in streamed
             => Frames[k].p \in have'[Frames[k].t] /\ Frames[k].t \in streamed'),
         \A j \in 1..Len(stack') : Asks(stack'[j]) =>
           \E m \in 1..Len(stack) : stack[m] = stack'[j]
  PROVE  /\ AllAwaited' /\ Announced(Frames', have', streamed')
         /\ NoneComes(Frames', 0) => NoneComes(Frames, 0)
<1>1. /\ Frames \in Seq(Frame) /\ Len(Frames) \in Nat
      /\ \A k \in 1..Len(Frames) : Frames[k] \in Frame
  BY FramesTyped
<1>2. PICK l \in Nat :
        /\ l = Len(Frames') /\ Len(Frames) <= l /\ l <= Len(Frames) + 1
        /\ \A k \in 1..Len(Frames) : Frames'[k] = Frames[k]
        /\ \A k \in Len(Frames) + 1..l :
             /\ Frames'[k].kind \notin {"reply", "removed"}
             /\ Frames'[k].kind = "piece" =>
                  Frames'[k].p \in have'[Frames'[k].t] /\ Frames'[k].t \in streamed'
  <2>1. CASE Frames' = Frames
    BY <1>1, <2>1
  <2>2. ASSUME NEW x \in Frame, Frames' = Append(Frames, x), x.kind \notin {"reply", "removed"},
               x.kind = "piece" => x.p \in have'[x.t] /\ x.t \in streamed'
        PROVE  \E l \in Nat :
                 /\ l = Len(Frames') /\ Len(Frames) <= l /\ l <= Len(Frames) + 1
                 /\ \A k \in 1..Len(Frames) : Frames'[k] = Frames[k]
                 /\ \A k \in Len(Frames) + 1..l :
                      /\ Frames'[k].kind \notin {"reply", "removed"}
                      /\ Frames'[k].kind = "piece" =>
                           Frames'[k].p \in have'[Frames'[k].t] /\ Frames'[k].t \in streamed'
    <3>1. /\ Len(Frames') = Len(Frames) + 1 /\ Frames'[Len(Frames) + 1] = x
          /\ \A k \in 1..Len(Frames) : Frames'[k] = Frames[k]
      BY <1>1, <2>2, OneMore
    <3> WITNESS Len(Frames) + 1 \in Nat
    <3> QED BY <1>1, <2>2, <3>1
  <2> QED BY <2>1, <2>2
<1> DEFINE F == Frames
           G == Frames'
           n == Len(F)
<1>3. n \in Nat /\ Len(G) = l /\ n <= l /\ \A k \in 1..n : G[k] = F[k]
  BY <1>1, <1>2
<1>4. \A k \in n + 1..l :
        /\ G[k].kind \notin {"reply", "removed"}
        /\ G[k].kind = "piece" => G[k].p \in have'[G[k].t] /\ G[k].t \in streamed'
  BY <1>2
<1>5. Announced(F, have, streamed) /\ AllAwaited
  BY DEF Maps
<1>6. \A k \in 1..n : F[k].kind = "piece" =>
        (F[k].p \in have[F[k].t] /\ F[k].t \in streamed
          => F[k].p \in have'[F[k].t] /\ F[k].t \in streamed')
  OBVIOUS
<1>7. \A j \in 1..Len(stack) :
        Asks(stack[j]) => Awaited(stack[j].id, toEngine, F, replies, have, streamed)
  BY <1>5 DEF AllAwaited
<1>8. AllAwaited' <=>
        \A j \in 1..Len(stack') :
          Asks(stack'[j]) => Awaited(stack'[j].id, toEngine', G, replies', have', streamed')
  BY DEF AllAwaited
<1> HIDE DEF F, G, n
<1>9. ASSUME NEW k \in 0..n PROVE NoneComes(F, k) <=> NoneComes(G, k)
  <2>1. ASSUME NoneComes(F, k), NEW m \in (k + 1)..l PROVE G[m].kind # "removed"
    <3>1. CASE m <= n
      <4>1. m \in (k + 1)..n /\ m \in 1..n
        BY <1>3, <2>1, <3>1
      <4> QED BY <1>3, <2>1, <4>1 DEF NoneComes, n
    <3>2. CASE ~(m <= n)
      <4>1. m \in n + 1..l
        BY <1>3, <3>2
      <4> QED BY <1>4, <4>1
    <3> QED BY <3>1, <3>2
  <2>2. ASSUME NoneComes(G, k), NEW m \in (k + 1)..n PROVE F[m].kind # "removed"
    <3>1. m \in 1..n /\ m \in (k + 1)..l
      BY <1>3
    <3> QED BY <1>3, <2>2, <3>1 DEF NoneComes
  <2> QED BY <1>3, <2>1, <2>2 DEF NoneComes, n
<1>10. ASSUME NEW i, Awaited(i, toEngine, F, replies, have, streamed)
       PROVE  Awaited(i, toEngine, G, replies', have', streamed')
  <2>1. ASSUME NEW k \in 1..Len(G), G[k].kind = "reply", G[k].id = i
        PROVE  /\ NoneAsked(toEngine, 0) /\ NoneComes(G, k)
               /\ G[k].body # None => True(G[k].body, have', streamed')
    <3>1. k \in 1..n /\ k \in 0..n
      BY <1>3, <1>4, <2>1
    <3>2. /\ NoneAsked(toEngine, 0) /\ NoneComes(F, k)
          /\ F[k].body # None => True(F[k].body, have, streamed)
      BY <1>3, <1>10, <2>1, <3>1 DEF Awaited, n
    <3> QED BY <1>3, <1>9, <3>1, <3>2
  <2>2. ASSUME NEW r \in replies', r.id = i
        PROVE  /\ NoneAsked(toEngine, 0) /\ NoneComes(G, 0)
               /\ r.body # None => True(r.body, have', streamed')
    <3>1. /\ NoneAsked(toEngine, 0) /\ NoneComes(F, 0)
          /\ r.body # None => True(r.body, have, streamed)
      BY <1>10, <2>2 DEF Awaited
    <3> QED BY <1>3, <1>9, <3>1
  <2> QED BY <1>10, <2>1, <2>2 DEF Awaited
<1>11. \A j \in 1..Len(stack') :
         Asks(stack'[j]) => Awaited(stack'[j].id, toEngine', G, replies', have', streamed')
  BY <1>7, <1>10
<1>12. Announced(G, have', streamed')
  <2>1. ASSUME NEW k \in 1..l, G[k].kind = "piece", NoneComes(G, k)
        PROVE  G[k].p \in have'[G[k].t] /\ G[k].t \in streamed'
    <3>1. CASE k <= n
      <4>1. k \in 1..n /\ k \in 0..n
        BY <1>3, <3>1
      <4>2. F[k].p \in have[F[k].t] /\ F[k].t \in streamed
        BY <1>3, <1>5, <1>9, <2>1, <4>1 DEF Announced, n
      <4> QED BY <1>3, <1>6, <2>1, <4>1, <4>2
    <3>2. CASE ~(k <= n)
      <4>1. k \in n + 1..l
        BY <1>3, <3>2
      <4> QED BY <1>4, <2>1, <4>1
    <3> QED BY <3>1, <3>2
  <2> QED BY <1>3, <2>1 DEF Announced
<1>13. NoneComes(G, 0) => NoneComes(F, 0)
  BY <1>3, <1>9
<1> QED BY <1>8, <1>11, <1>12, <1>13 DEF F, G

\* A request changes no map, and a removal is asked for outside of calls only.
LEMMA MapsRequest ==
  ASSUME Known, Maps, NEW what, NEW i, NEW t, NEW meant, NEW fresh,
         Request(what, i, t, meant, fresh),
         what = "remove" => stack = <<>>,
         UNCHANGED <<engine, toUi, cut, link, geo, buf, torn>>
  PROVE  Maps'
<1> DEFINE r == [id |-> FreshId, what |-> what, i |-> i, meant |-> meant, fresh |-> fresh]
           c == Call(FreshId, what, t)
<1>0. link = "on" /\ Typed
  BY DEF Maps, Known
<1>1. /\ r.id = FreshId /\ r.what = what
      /\ c.at = "call" /\ c.id = FreshId /\ c.what = what
  BY DEF Call
<1>2. toEngine' = Append(toEngine, r) /\ stack' = Append(stack, c) /\ replies' \subseteq replies
  BY <1>0, Requested
<1>3. FreshId \notin IdsInUse
  BY <1>0, FreshIsNew
<1> HIDE DEF r, c
<1>4. /\ Len(stack') = Len(stack) + 1 /\ stack'[Len(stack) + 1] = c /\ Len(stack) \in Nat
      /\ \A j \in 1..Len(stack) : stack'[j] = stack[j]
  <2>1. stack \in Seq(Slot)
    BY DEF Known, Typed
  <2> HIDE DEF Slot
  <2> QED BY <1>2, <2>1
<1>5. /\ Len(toEngine') = Len(toEngine) + 1 /\ toEngine'[Len(toEngine) + 1] = r /\ Len(toEngine) \in Nat
      /\ \A j \in 1..Len(toEngine) : toEngine'[j] = toEngine[j]
  <2>1. toEngine \in Seq(Asking)
    BY DEF Known, Typed
  <2> HIDE DEF Asking
  <2> QED BY <1>2, <2>1
<1>6. Frames' = Frames /\ UNCHANGED <<have, streamed, list>>
  BY DEF Frames, engine
<1>7. /\ \A k \in 1..Len(toEngine) : toEngine[k].id # FreshId
      /\ \A q \in replies : q.id # FreshId
      /\ \A k \in 1..Len(Frames) : Frames[k].kind = "reply" => Frames[k].id # FreshId
  <2>1. \A k \in 1..Len(Frames) : Frames[k].kind = "reply" => Frames[k].id \in IdsInUse
    <3>1. DOMAIN Frames = 1..Len(Frames)
      BY <1>0, FramesTyped, LenProperties
    <3> QED BY <3>1 DEF IdsInUse, Frames, Range
  <2> QED BY <1>0, <1>3, <2>1, Used
<1>8. ASSUME what # "remove", NEW n, Awaited(n, toEngine, Frames, replies, have, streamed), n # FreshId
      PROVE  Awaited(n, toEngine', Frames, replies', have, streamed)
  <2>1. \A k \in 0..Len(toEngine) : NoneAsked(toEngine, k) => NoneAsked(toEngine', k)
    <3>1. ASSUME NEW k \in 0..Len(toEngine), NoneAsked(toEngine, k),
                 NEW m \in (k + 1)..Len(toEngine')
          PROVE  toEngine'[m].what # "remove"
      <4>1. CASE m <= Len(toEngine)
        <5>1. m \in (k + 1)..Len(toEngine) /\ m \in 1..Len(toEngine)
          BY <1>5, <4>1
        <5> QED BY <1>5, <3>1, <5>1 DEF NoneAsked
      <4>2. CASE ~(m <= Len(toEngine))
        <5>1. m = Len(toEngine) + 1
          BY <1>5, <4>2
        <5> QED BY <1>1, <1>5, <1>8, <5>1
      <4> QED BY <4>1, <4>2
    <3> QED BY <3>1 DEF NoneAsked
  <2>2. ASSUME NEW k \in 1..Len(toEngine'), toEngine'[k].id = n PROVE NoneAsked(toEngine', k)
    <3>1. k \in 1..Len(toEngine)
      <4>1. k # Len(toEngine) + 1
        BY <1>1, <1>5, <1>8, <2>2
      <4> QED BY <1>5, <4>1
    <3>2. NoneAsked(toEngine, k)
      BY <1>5, <1>8, <2>2, <3>1 DEF Awaited
    <3>3. k \in 0..Len(toEngine)
      BY <1>5, <3>1
    <3> QED BY <2>1, <3>2, <3>3
  <2>3. NoneAsked(toEngine, 0) => NoneAsked(toEngine', 0)
    BY <1>5, <2>1
  <2> QED BY <1>2, <1>8, <2>2, <2>3 DEF Awaited
<1>9. Awaited(FreshId, toEngine', Frames, replies', have, streamed)
  <2>1. ASSUME NEW k \in 1..Len(toEngine'), toEngine'[k].id = FreshId PROVE NoneAsked(toEngine', k)
    <3>1. k = Len(toEngine) + 1
      BY <1>5, <1>7, <2>1
    <3> QED BY <1>5, <3>1 DEF NoneAsked
  <2> QED BY <1>2, <1>7, <2>1 DEF Awaited
<1>10. AllAwaited'
  <2>1. ASSUME NEW j \in 1..Len(stack'), Asks(stack'[j])
        PROVE  Awaited(stack'[j].id, toEngine', Frames, replies', have, streamed)
    <3>1. CASE j \in 1..Len(stack)
      <4>1. what # "remove"
        BY <1>4, <3>1
      <4>2. stack[j].id # FreshId
        BY <1>0, <1>3, <1>4, <2>1, <3>1, Used DEF Asks
      <4>3. Awaited(stack[j].id, toEngine, Frames, replies, have, streamed)
        BY <1>4, <2>1, <3>1 DEF Maps, AllAwaited
      <4> QED BY <1>4, <1>8, <3>1, <4>1, <4>2, <4>3
    <3>2. CASE j = Len(stack) + 1
      BY <1>1, <1>4, <1>9, <3>2
    <3> QED BY <1>4, <3>1, <3>2
  <2> QED BY <1>6, <2>1 DEF AllAwaited
<1>11. AllTrue' /\ Listed' /\ Announced(Frames', have', streamed')
  BY <1>6 DEF Maps, AllTrue, Listed
<1> QED BY <1>10, <1>11 DEF Maps

\* The app's handlers: a removal clears the maps, a piece is put into the map of
\* its torrent, an answer is true when it is kept.
LEMMA MapsHandled ==
  ASSUME Known, Maps, GeometryIsOurs, HandleFrame
  PROVE  Maps'
<1> DEFINE f == Frames[1]
           n == Len(Frames)
<1>1. /\ UNCHANGED <<list, have, streamed, toEngine, cut, torn, link>>
      /\ buf # <<>> /\ buf' = Tail(buf) /\ toUi' = toUi
  BY DEF HandleFrame, engine, socket
<1>2. /\ Frames # <<>> /\ Head(buf) = f /\ Len(Frames') = n - 1
      /\ \A k \in 1..Len(Frames') : Frames'[k] = Frames[k + 1]
  BY <1>1, FramesHandled DEF Known
<1>3. /\ Frames \in Seq(Frame) /\ n \in Nat /\ n >= 1 /\ f \in Frame /\ 1 \in 1..n
  BY <1>2, FramesTyped, EmptySeq DEF Known
<1>4. \A j \in 1..Len(stack') : stack'[j].at = "call" =>
        \E m \in 1..Len(stack) : stack[m] = stack'[j]
  <2>1. stack' = Append(Popped, Drain(f.kind # "reply"))
    BY <1>2 DEF HandleFrame
  <2> QED BY <2>1, SlotsKept DEF Known
<1>5. /\ f.kind = "reply" => /\ replies' = replies \cup {[id |-> f.id, what |-> f.what, body |-> f.body]}
                             /\ geo' = geo
      /\ f.kind = "snapshot" => replies' = replies /\ geo' = geo
      /\ f.kind = "piece" => /\ replies' = replies
                             /\ geo' = IF geo[f.t] = None THEN geo
                                       ELSE [geo EXCEPT ![f.t].have = @ \cup {f.p}]
      /\ f.kind = "removed" => replies' = replies /\ geo' = [t \in Torrents |-> None]
  BY <1>2 DEF HandleFrame, view, Removed
<1>6. f.kind \in {"reply", "snapshot", "piece", "removed"}
  BY <1>3 DEF Frame
<1>7. geo \in [Torrents -> Map \cup {None}]
  BY DEF Known, Typed
<1>8. f.kind = "piece" => f.t \in Torrents
  BY <1>3 DEF Frame
<1> DEFINE G == Frames'
           F == Frames
<1>9. Len(G) = n - 1 /\ \A k \in 1..n - 1 : G[k] = F[k + 1]
  BY <1>2
<1>10. AllAwaited' <=>
         \A j \in 1..Len(stack') :
           Asks(stack'[j]) => Awaited(stack'[j].id, toEngine', G, replies', have', streamed')
  BY DEF AllAwaited
<1>11. AllTrue' <=>
         (NoneComes(G, 0) => \A t \in Torrents : geo'[t] # None => True(geo'[t], have', streamed'))
  BY DEF AllTrue
<1>12. /\ \A j \in 1..Len(stack) :
            Asks(stack[j]) => Awaited(stack[j].id, toEngine, F, replies, have, streamed)
       /\ Announced(F, have, streamed)
       /\ NoneComes(F, 0) => \A t \in Torrents : geo[t] # None => True(geo[t], have, streamed)
  BY DEF Maps, AllAwaited, AllTrue
<1>13. f = F[1] /\ n = Len(F)
  OBVIOUS
<1> HIDE DEF F, G, f, n
<1>14. ASSUME NEW k \in 0..n - 1 PROVE NoneComes(F, k + 1) <=> NoneComes(G, k)
  <2>1. ASSUME NoneComes(F, k + 1), NEW m \in (k + 1)..n - 1 PROVE G[m].kind # "removed"
    <3>1. m + 1 \in (k + 1 + 1)..n /\ m \in 1..n - 1
      BY <1>3
    <3> QED BY <1>9, <1>13, <2>1, <3>1 DEF NoneComes
  <2>2. ASSUME NoneComes(G, k), NEW m \in (k + 1 + 1)..n PROVE F[m].kind # "removed"
    <3>1. m - 1 \in (k + 1)..n - 1 /\ m - 1 \in 1..n - 1 /\ m - 1 + 1 = m
      BY <1>3
    <3> QED BY <1>9, <1>13, <2>2, <3>1 DEF NoneComes
  <2> QED BY <1>9, <1>13, <2>1, <2>2 DEF NoneComes
<1>15. NoneComes(F, 0) <=> f.kind # "removed" /\ NoneComes(G, 0)
  <2>1. NoneComes(F, 0) <=> f.kind # "removed" /\ NoneComes(F, 1)
    <3>1. \A m \in 1..n : m = 1 \/ m \in 2..n
      BY <1>3
    <3>2. \A m \in 2..n : m \in 1..n
      BY <1>3
    <3> QED BY <1>3, <1>13, <3>1, <3>2 DEF NoneComes
  <2>2. NoneComes(F, 1) <=> NoneComes(G, 0)
    BY <1>3, <1>14
  <2> QED BY <2>1, <2>2
<1>16. ASSUME NEW q, Awaited(q, toEngine, F, replies, have, streamed)
       PROVE  Awaited(q, toEngine, G, replies', have, streamed)
  <2>1. ASSUME NEW k \in 1..n - 1, G[k].kind = "reply", G[k].id = q
        PROVE  /\ NoneAsked(toEngine, 0) /\ NoneComes(G, k)
               /\ G[k].body # None => True(G[k].body, have, streamed)
    <3>1. k + 1 \in 1..n /\ k \in 0..n - 1
      BY <1>3
    <3>2. /\ NoneAsked(toEngine, 0) /\ NoneComes(F, k + 1)
          /\ F[k + 1].body # None => True(F[k + 1].body, have, streamed)
      BY <1>9, <1>13, <1>16, <2>1, <3>1 DEF Awaited
    <3> QED BY <1>9, <1>14, <3>1, <3>2
  <2>2. ASSUME NEW r \in replies', r.id = q
        PROVE  /\ NoneAsked(toEngine, 0) /\ NoneComes(G, 0)
               /\ r.body # None => True(r.body, have, streamed)
    <3>1. CASE r \in replies
      BY <1>15, <1>16, <2>2, <3>1 DEF Awaited
    <3>2. CASE r \notin replies
      <4>1. f.kind = "reply" /\ r.id = f.id /\ r.body = f.body
        BY <1>5, <1>6, <2>2, <3>2
      <4>2. /\ NoneAsked(toEngine, 0) /\ NoneComes(F, 1)
            /\ f.body # None => True(f.body, have, streamed)
        BY <1>3, <1>13, <1>16, <2>2, <4>1 DEF Awaited
      <4>3. NoneComes(G, 0)
        BY <1>3, <1>14, <4>2
      <4> QED BY <4>1, <4>2, <4>3
    <3> QED BY <3>1, <3>2
  <2> QED BY <1>9, <1>16, <2>1, <2>2 DEF Awaited
<1>17. AllAwaited'
  BY <1>1, <1>4, <1>10, <1>12, <1>16 DEF Asks
<1>18. Announced(G, have, streamed)
  <2>1. ASSUME NEW k \in 1..n - 1, G[k].kind = "piece", NoneComes(G, k)
        PROVE  G[k].p \in have[G[k].t] /\ G[k].t \in streamed
    <3>1. k + 1 \in 1..n /\ k \in 0..n - 1
      BY <1>3
    <3>2. F[k + 1] = G[k] /\ NoneComes(F, k + 1)
      BY <1>9, <1>14, <2>1, <3>1
    <3> QED BY <1>12, <1>13, <2>1, <3>1, <3>2 DEF Announced
  <2> QED BY <1>9, <2>1 DEF Announced
<1>19. ASSUME NoneComes(G, 0), NEW t \in Torrents, geo'[t] # None
       PROVE  True(geo'[t], have, streamed)
  <2>1. CASE f.kind = "removed"
    BY <1>5, <1>19, <2>1
  <2>2. CASE f.kind # "removed" /\ geo' = geo
    BY <1>12, <1>15, <1>19, <2>2
  <2>3. CASE f.kind = "piece" /\ geo[f.t] # None
    <3>1. geo[f.t] \in Map /\ geo[f.t].of = f.t /\ True(geo[f.t], have, streamed)
      BY <1>7, <1>8, <1>12, <1>15, <1>19, <2>3 DEF GeometryIsOurs
    <3>2. f.p \in have[f.t] /\ f.t \in streamed
      <4>1. NoneComes(F, 1)
        BY <1>3, <1>14, <1>19
      <4> QED BY <1>3, <1>12, <1>13, <2>3, <4>1 DEF Announced
    <3> DEFINE m == [geo[f.t] EXCEPT !.have = @ \cup {f.p}]
    <3>3. m.of = geo[f.t].of /\ m.have = geo[f.t].have \cup {f.p}
      BY <3>1 DEF Map
    <3>4. geo' = [geo EXCEPT ![f.t] = m]
      BY <1>5, <2>3
    <3> HIDE DEF m
    <3>5. True(m, have, streamed)
      BY <3>1, <3>2, <3>3 DEF True
    <3>6. CASE t = f.t
      BY <1>7, <1>8, <2>3, <3>4, <3>5, <3>6
    <3>7. CASE t # f.t
      <4>1. geo'[t] = geo[t]
        BY <1>7, <3>4, <3>7
      <4> QED BY <1>12, <1>15, <1>19, <2>3, <4>1
    <3> QED BY <3>6, <3>7
  <2> QED BY <1>5, <1>6, <2>1, <2>2, <2>3
<1>20. AllTrue'
  BY <1>1, <1>11, <1>19
<1>21. Listed' /\ link' = "on" /\ ~cut' /\ ~torn'
  BY <1>1 DEF Maps, Listed
<1> QED BY <1>1, <1>17, <1>18, <1>20, <1>21 DEF Maps, G

\* A dispatch: the first request is answered behind the other frames, and behind
\* the news of the removal if it is one.
LEMMA Dispatched ==
  ASSUME Typed, Dispatch
  PROVE  LET r == toEngine[1]
             there == r.i \in 1..Len(list)
             gone == r.what = "remove" /\ there
             n == Len(Frames) IN
         /\ Len(toEngine) \in Nat /\ 1 \in 1..Len(toEngine)
         /\ Len(toEngine') = Len(toEngine) - 1
         /\ \A k \in 1..Len(toEngine) - 1 : toEngine'[k] = toEngine[k + 1]
         /\ have' = have
         /\ streamed' = IF gone THEN streamed \ {list[r.i]}
                        ELSE IF r.what = "geometry" /\ there THEN streamed \cup {list[r.i]}
                        ELSE streamed
         /\ n \in Nat /\ \A k \in 1..n : Frames'[k] = Frames[k]
         /\ gone => /\ Len(Frames') = n + 2 /\ Frames'[n + 1].kind = "removed"
                    /\ Frames'[n + 2].kind = "reply" /\ Frames'[n + 2].body = None
                    /\ Frames'[n + 2].id = r.id
         /\ ~gone => /\ Len(Frames') = n + 1
                     /\ Frames'[n + 1].kind = "reply" /\ Frames'[n + 1].id = r.id
                     /\ Frames'[n + 1].body # None =>
                          /\ r.what = "geometry" /\ there
                          /\ Frames'[n + 1].body.of = list[r.i]
                          /\ Frames'[n + 1].body.have = have[list[r.i]]
<1> DEFINE r == toEngine[1]
           there == r.i \in 1..Len(list)
           n == Len(Frames)
<1>1. /\ toEngine \in Seq(Asking) /\ toEngine # <<>> /\ toEngine' = Tail(toEngine)
      /\ Head(toEngine) = r /\ have' = have /\ buf' = buf
  BY DispatchSends DEF Dispatch, Typed, input
<1>2. /\ Len(toEngine) \in Nat /\ 1 \in 1..Len(toEngine) /\ Len(toEngine') = Len(toEngine) - 1
      /\ \A k \in 1..Len(toEngine) - 1 : toEngine'[k] = toEngine[k + 1]
  BY <1>1, HeadTailProperties, LenProperties, DispatchSends
<1>3. r \in Asking
  BY <1>1, <1>2, ElementOfSeq
<1>4. Frames \in Seq(Frame) /\ n \in Nat
  BY FramesTyped
<1>5. CASE r.what = "remove" /\ there
  <2> DEFINE x == [kind |-> "removed"]
             y == Reply(r, None)
  <2>1. toUi' = toUi \o <<x, y>> /\ streamed' = streamed \ {list[r.i]}
    BY <1>1, <1>5 DEF Dispatch
  <2>2. x \in Frame /\ y \in Frame
    BY <1>3, RepliesTyped DEF Frame
  <2>3. x.kind = "removed" /\ y.kind = "reply" /\ y.body = None /\ y.id = r.id
    BY DEF Reply
  <2> HIDE DEF x, y
  <2>4. Frames' = Frames \o <<x, y>>
    BY <1>1, <2>1, <2>2, FramesSent
  <2>5. /\ Len(Frames') = n + 2 /\ Frames'[n + 1] = x /\ Frames'[n + 2] = y
        /\ \A k \in 1..n : Frames'[k] = Frames[k]
    BY <1>4, <2>2, <2>4, TwoMore
  <2> QED BY <1>1, <1>2, <1>4, <1>5, <2>1, <2>3, <2>5
<1>6. CASE ~(r.what = "remove" /\ there)
  <2>1. PICK body \in Map \cup {None} :
          /\ toUi' = Append(toUi, Reply(r, body))
          /\ streamed' = IF r.what = "geometry" /\ there THEN streamed \cup {list[r.i]} ELSE streamed
          /\ body # None => /\ r.what = "geometry" /\ there
                            /\ body.of = list[r.i] /\ body.have = have[list[r.i]]
    <3>1. CASE r.what = "geometry" /\ there
      <4> DEFINE b == [of |-> list[r.i], have |-> have[list[r.i]]]
      <4>1. toUi' = Append(toUi, Reply(r, b)) /\ streamed' = streamed \cup {list[r.i]}
        BY <1>1, <3>1 DEF Dispatch, Registered
      <4>2. b \in Map /\ b.of = list[r.i] /\ b.have = have[list[r.i]]
        BY <3>1, ListTyped DEF Typed, Map
      <4> HIDE DEF b
      <4> QED BY <3>1, <4>1, <4>2
    <3>2. CASE ~(r.what = "geometry" /\ there)
      <4>1. toUi' = Append(toUi, Reply(r, None)) /\ streamed' = streamed
        BY <1>1, <1>6, <3>2 DEF Dispatch
      <4> QED BY <3>2, <4>1
    <3> QED BY <3>1, <3>2
  <2> DEFINE y == Reply(r, body)
  <2>2. y \in Frame
    BY <1>3, RepliesTyped
  <2>3. y.kind = "reply" /\ y.body = body /\ y.id = r.id
    BY DEF Reply
  <2> HIDE DEF y
  <2>4. Frames' = Append(Frames, y)
    BY <1>1, <2>1, <2>2, FramesSent DEF y
  <2>5. /\ Len(Frames') = n + 1 /\ Frames'[n + 1] = y
        /\ \A k \in 1..n : Frames'[k] = Frames[k]
    BY <1>4, <2>2, <2>4, OneMore
  <2> QED BY <1>1, <1>2, <1>4, <1>6, <2>1, <2>3, <2>5
<1> QED BY <1>5, <1>6

\* The engine's handlers: a map that is answered is of the pieces there are.
LEMMA MapsDispatched ==
  ASSUME Known, Maps, Dispatch
  PROVE  AllAwaited' /\ Announced(Frames', have', streamed') /\ AllTrue'
<1> DEFINE r == toEngine[1]
           there == r.i \in 1..Len(list)
           gone == r.what = "remove" /\ there
           n == Len(Frames)
           a == Len(toEngine)
           F == Frames
           G == Frames'
<1>1. /\ a \in Nat /\ 1 \in 1..a /\ Len(toEngine') = a - 1
      /\ \A k \in 1..a - 1 : toEngine'[k] = toEngine[k + 1]
      /\ have' = have /\ n \in Nat /\ \A k \in 1..n : G[k] = F[k]
  BY Dispatched DEF Known
<1>2. streamed' = IF gone THEN streamed \ {list[r.i]}
                  ELSE IF r.what = "geometry" /\ there THEN streamed \cup {list[r.i]}
                  ELSE streamed
  BY Dispatched DEF Known
<1>3. gone => /\ Len(G) = n + 2 /\ G[n + 1].kind = "removed"
              /\ G[n + 2].kind = "reply" /\ G[n + 2].body = None /\ G[n + 2].id = r.id
  BY Dispatched DEF Known
<1>4. ~gone => /\ Len(G) = n + 1 /\ G[n + 1].kind = "reply" /\ G[n + 1].id = r.id
               /\ G[n + 1].body # None =>
                    /\ r.what = "geometry" /\ there
                    /\ G[n + 1].body.of = list[r.i] /\ G[n + 1].body.have = have[list[r.i]]
  BY Dispatched DEF Known
<1>5. UNCHANGED <<stack, replies, geo>>
  BY DEF Dispatch, view, input
<1>6. /\ \A j \in 1..Len(stack) :
           Asks(stack[j]) => Awaited(stack[j].id, toEngine, F, replies, have, streamed)
      /\ Announced(F, have, streamed)
      /\ NoneComes(F, 0) => \A t \in Torrents : geo[t] # None => True(geo[t], have, streamed)
  BY DEF Maps, AllAwaited, AllTrue
<1>7. AllAwaited' <=>
         \A j \in 1..Len(stack') :
           Asks(stack'[j]) => Awaited(stack'[j].id, toEngine', G, replies', have', streamed')
  BY DEF AllAwaited
<1>8. AllTrue' <=>
         (NoneComes(G, 0) => \A t \in Torrents : geo'[t] # None => True(geo'[t], have', streamed'))
  BY DEF AllTrue
<1>9. n = Len(F) /\ a = Len(toEngine) /\ r = toEngine[1]
  OBVIOUS
<1>10. gone => r.what = "remove"
  OBVIOUS
<1> HIDE DEF r, there, gone, n, a, F, G
<1>11. ~gone => \A m : True(m, have, streamed) => True(m, have', streamed')
  BY <1>1, <1>2 DEF True
<1>12. ASSUME NEW k \in 0..n PROVE NoneComes(G, k) => ~gone /\ NoneComes(F, k)
  <2>1. CASE gone
    <3>1. n + 1 \in (k + 1)..Len(G) /\ G[n + 1].kind = "removed"
      BY <1>1, <1>3, <2>1
    <3> QED BY <3>1 DEF NoneComes
  <2>2. CASE ~gone
    <3>1. ASSUME NoneComes(G, k), NEW m \in (k + 1)..n PROVE F[m].kind # "removed"
      <4>1. m \in 1..n /\ m \in (k + 1)..Len(G)
        BY <1>1, <1>4, <2>2
      <4> QED BY <1>1, <3>1, <4>1 DEF NoneComes
    <3> QED BY <1>9, <2>2, <3>1 DEF NoneComes
  <2> QED BY <2>1, <2>2
<1>13. ASSUME NEW k \in 0..n, ~gone, NoneComes(F, k) PROVE NoneComes(G, k)
  <2>1. ASSUME NEW m \in (k + 1)..n + 1 PROVE G[m].kind # "removed"
    <3>1. CASE m = n + 1
      BY <1>4, <1>13, <3>1
    <3>2. CASE m # n + 1
      <4>1. m \in (k + 1)..n /\ m \in 1..n
        BY <1>1, <3>2
      <4> QED BY <1>1, <1>9, <1>13, <4>1 DEF NoneComes
    <3> QED BY <3>1, <3>2
  <2> QED BY <1>4, <1>13, <2>1 DEF NoneComes
<1>14. ASSUME NEW k \in 1..a, NoneAsked(toEngine, k) PROVE NoneAsked(toEngine', k - 1)
  <2>1. ASSUME NEW m \in (k - 1 + 1)..a - 1 PROVE toEngine'[m].what # "remove"
    <3>1. m \in 1..a - 1 /\ m + 1 \in (k + 1)..a
      BY <1>1
    <3> QED BY <1>1, <1>9, <1>14, <3>1 DEF NoneAsked
  <2> QED BY <1>1, <2>1 DEF NoneAsked
<1>15. NoneAsked(toEngine, 0) => ~gone /\ NoneAsked(toEngine', 0)
  <2>1. ASSUME NoneAsked(toEngine, 0) PROVE r.what # "remove" /\ NoneAsked(toEngine, 1)
    <3>1. 1 \in 0 + 1..a /\ \A m \in 1 + 1..a : m \in 0 + 1..a
      BY <1>1
    <3> QED BY <1>9, <2>1, <3>1 DEF NoneAsked
  <2>2. NoneAsked(toEngine, 1) => NoneAsked(toEngine', 0)
    BY <1>1, <1>14
  <2> QED BY <1>10, <2>1, <2>2
<1>16. ASSUME NEW q, Awaited(q, toEngine, F, replies, have, streamed)
       PROVE  Awaited(q, toEngine', G, replies, have', streamed')
  <2>1. ASSUME NEW k \in 1..a - 1, toEngine'[k].id = q PROVE NoneAsked(toEngine', k)
    <3>1. k + 1 \in 1..a /\ k + 1 - 1 = k
      BY <1>1
    <3>2. NoneAsked(toEngine, k + 1)
      BY <1>1, <1>9, <1>16, <2>1, <3>1 DEF Awaited
    <3> QED BY <1>14, <3>1, <3>2
  <2>2. ASSUME NEW k \in 1..n, F[k].kind = "reply", F[k].id = q
        PROVE  /\ NoneAsked(toEngine', 0) /\ NoneComes(G, k)
               /\ F[k].body # None => True(F[k].body, have', streamed')
    <3>1. /\ NoneAsked(toEngine, 0) /\ NoneComes(F, k)
          /\ F[k].body # None => True(F[k].body, have, streamed)
      BY <1>9, <1>16, <2>2 DEF Awaited
    <3>2. k \in 0..n
      BY <1>1
    <3> QED BY <1>11, <1>13, <1>15, <3>1, <3>2
  <2>3. ASSUME NEW k \in n + 1..Len(G), G[k].kind = "reply", G[k].id = q
        PROVE  /\ NoneAsked(toEngine', 0) /\ NoneComes(G, k)
               /\ G[k].body # None => True(G[k].body, have', streamed')
    <3>1. k = Len(G) /\ r.id = q
      <4>1. CASE gone
        BY <1>1, <1>3, <2>3, <4>1
      <4>2. CASE ~gone
        BY <1>1, <1>4, <2>3, <4>2
      <4> QED BY <4>1, <4>2
    <3>2. NoneAsked(toEngine', 0)
      <4>1. NoneAsked(toEngine, 1)
        BY <1>1, <1>9, <1>16, <3>1 DEF Awaited
      <4> QED BY <1>1, <1>14, <4>1
    <3>3. NoneComes(G, k)
      BY <1>1, <1>3, <1>4, <3>1 DEF NoneComes
    <3>4. G[k].body # None => True(G[k].body, have', streamed')
      <4>1. CASE gone
        BY <1>3, <3>1, <4>1
      <4>2. CASE ~gone
        BY <1>1, <1>2, <1>4, <3>1, <4>2 DEF True
      <4> QED BY <4>1, <4>2
    <3> QED BY <3>2, <3>3, <3>4
  <2>4. ASSUME NEW x \in replies, x.id = q
        PROVE  /\ NoneAsked(toEngine', 0) /\ NoneComes(G, 0)
               /\ x.body # None => True(x.body, have', streamed')
    <3>1. /\ NoneAsked(toEngine, 0) /\ NoneComes(F, 0)
          /\ x.body # None => True(x.body, have, streamed)
      BY <1>16, <2>4 DEF Awaited
    <3>2. 0 \in 0..n
      BY <1>1
    <3> QED BY <1>11, <1>13, <1>15, <3>1, <3>2
  <2>5. ASSUME NEW k \in 1..Len(G) PROVE (k \in 1..n /\ G[k] = F[k]) \/ k \in n + 1..Len(G)
    <3>1. Len(G) \in Nat
      BY <1>1, <1>3, <1>4
    <3> QED BY <1>1, <3>1
  <2>6. \A k \in 1..Len(G) : G[k].kind = "reply" /\ G[k].id = q =>
          /\ NoneAsked(toEngine', 0) /\ NoneComes(G, k)
          /\ G[k].body # None => True(G[k].body, have', streamed')
    BY <2>2, <2>3, <2>5
  <2> QED BY <1>1, <2>1, <2>4, <2>6 DEF Awaited
<1>17. AllAwaited'
  BY <1>5, <1>6, <1>7, <1>16
<1>18. Announced(G, have', streamed')
  <2>1. ASSUME NEW k \in 1..Len(G), G[k].kind = "piece", NoneComes(G, k)
        PROVE  G[k].p \in have'[G[k].t] /\ G[k].t \in streamed'
    <3>1. k \in 1..n
      <4>1. CASE gone
        BY <1>1, <1>3, <2>1, <4>1
      <4>2. CASE ~gone
        BY <1>1, <1>4, <2>1, <4>2
      <4> QED BY <4>1, <4>2
    <3>2. ~gone /\ NoneComes(F, k)
      BY <1>1, <1>12, <2>1, <3>1
    <3>3. F[k].p \in have[F[k].t] /\ F[k].t \in streamed
      BY <1>1, <1>6, <1>9, <2>1, <3>1, <3>2 DEF Announced
    <3> QED BY <1>1, <1>2, <3>1, <3>2, <3>3
  <2> QED BY <2>1 DEF Announced
<1>19. AllTrue'
  <2>1. NoneComes(G, 0) => ~gone /\ NoneComes(F, 0)
    BY <1>1, <1>12
  <2> QED BY <1>5, <1>6, <1>8, <1>11, <2>1
<1> QED BY <1>17, <1>18, <1>19 DEF G

\* What is streamed is in the list.
LEMMA ListedDispatched ==
  ASSUME Typed, Listed, Dispatch
  PROVE  Listed'
<1> DEFINE r == toEngine[1]
           there == r.i \in 1..Len(list)
<1>1. list \in Seq(Torrents) /\ Len(list) \in Nat /\ Head(toEngine) = r
  BY LenProperties, DispatchSends DEF Typed
<1>2. streamed' = IF r.what = "remove" /\ there THEN streamed \ {list[r.i]}
                  ELSE IF r.what = "geometry" /\ there THEN streamed \cup {list[r.i]}
                  ELSE streamed
  BY Dispatched
<1>3. CASE r.what = "remove" /\ there
  <2>1. list' = RemoveAt(list, r.i)
    BY <1>1, <1>3 DEF Dispatch
  <2>2. /\ Len(list') = Len(list) - 1
        /\ \A k \in 1..Len(list) - 1 : list'[k] = IF k < r.i THEN list[k] ELSE list[k + 1]
    BY <1>1, <1>3, <2>1, Without
  <2>3. ASSUME NEW t \in streamed' PROVE \E k \in 1..Len(list') : list'[k] = t
    <3>1. PICK k \in 1..Len(list) : list[k] = t
      BY <1>2, <1>3, <2>3 DEF Listed
    <3>2. k # r.i
      BY <1>2, <1>3, <2>3, <3>1
    <3>3. CASE k < r.i
      <4>1. k \in 1..Len(list) - 1
        BY <1>1, <1>3, <3>3
      <4> QED BY <2>2, <3>1, <3>3, <4>1
    <3>4. CASE k > r.i
      <4>1. k - 1 \in 1..Len(list) - 1 /\ ~(k - 1 < r.i) /\ k - 1 + 1 = k
        BY <1>1, <1>3, <3>4
      <4> QED BY <2>2, <3>1, <4>1
    <3> QED BY <1>1, <1>3, <3>2, <3>3, <3>4
  <2> QED BY <2>3 DEF Listed
<1>4. CASE r.what = "move" /\ there
  <2> DEFINE w == RemoveAt(list, r.i)
             e == list[r.i]
  <2>1. list' = InsertAt(w, 1, e) /\ streamed' = streamed
    BY <1>1, <1>2, <1>4 DEF Dispatch
  <2>2. /\ w \in Seq(Torrents) /\ Len(w) = Len(list) - 1 /\ e \in Torrents
        /\ \A k \in 1..Len(list) - 1 : w[k] = IF k < r.i THEN list[k] ELSE list[k + 1]
    BY <1>1, <1>4, Without, ListTyped
  <2> HIDE DEF w, e
  <2>3. /\ Len(list') = Len(list) /\ list'[1] = e
        /\ \A k \in 1..Len(list) - 1 : list'[k + 1] = w[k]
    <3>1. /\ Len(InsertAt(w, 1, e)) = Len(w) + 1 /\ InsertAt(w, 1, e)[1] = e
          /\ \A k \in 1..Len(w) : InsertAt(w, 1, e)[k + 1] = w[k]
      BY <2>2, FirstPut
    <3> QED BY <1>1, <2>1, <2>2, <3>1
  <2>4. ASSUME NEW t \in streamed' PROVE \E k \in 1..Len(list') : list'[k] = t
    <3>1. PICK k \in 1..Len(list) : list[k] = t
      BY <2>1, <2>4 DEF Listed
    <3>2. CASE k < r.i
      <4>1. k \in 1..Len(list) - 1 /\ k + 1 \in 1..Len(list)
        BY <1>1, <1>4, <3>2
      <4> QED BY <2>2, <2>3, <3>1, <3>2, <4>1
    <3>3. CASE k > r.i
      <4>1. k - 1 \in 1..Len(list) - 1 /\ ~(k - 1 < r.i) /\ k - 1 + 1 = k
        BY <1>1, <1>4, <3>3
      <4>2. w[k - 1] = t /\ list'[k - 1 + 1] = w[k - 1]
        BY <2>2, <2>3, <3>1, <4>1
      <4> QED BY <2>3, <4>1, <4>2
    <3>4. CASE k = r.i
      BY <1>1, <1>4, <2>3, <3>1, <3>4 DEF e
    <3> QED BY <1>1, <1>4, <3>2, <3>3, <3>4
  <2> QED BY <2>4 DEF Listed
<1>5. CASE ~(r.what \in {"remove", "move"} /\ there)
  <2>1. list' = list
    <3>1. CASE r.what = "geometry" /\ there
      BY <1>1, <3>1 DEF Dispatch
    <3>2. CASE ~(r.what = "geometry" /\ there)
      BY <1>1, <1>5, <3>2 DEF Dispatch
    <3> QED BY <3>1, <3>2
  <2> QED BY <1>2, <1>5, <2>1 DEF Listed
<1> QED BY <1>3, <1>4, <1>5

\* A call in the stack leaves it as others do.
LEMMA AsksKept ==
  ASSUME Typed, stack' \in {stack, Popped, Append(stack, Drain(FALSE))}
  PROVE  \A j \in 1..Len(stack') : Asks(stack'[j]) =>
           \E m \in 1..Len(stack) : stack[m] = stack'[j]
BY SlotsKept DEF Asks

\* Pieces, registrations, frames and answers are as before, or fewer.
LEMMA MapsStill ==
  ASSUME Typed, Maps, UNCHANGED <<list, have, streamed, toEngine, link, cut, torn, geo>>,
         Frames' = Frames, replies' \subseteq replies,
         stack' \in {stack, Popped, Append(stack, Drain(FALSE))}
  PROVE  Maps'
<1>1. link' = "on" /\ ~cut' /\ ~torn' /\ Listed'
  BY DEF Maps, Listed
<1>2. AllAwaited' /\ Announced(Frames', have', streamed')
  BY <1>1, AsksKept, MapsQuiet
<1>3. AllTrue'
  BY DEF AllTrue, Maps
<1> QED BY <1>1, <1>2, <1>3 DEF Maps

\* The step that keeps the maps: where the engine does not die
LEMMA MapsStep ==
  ASSUME "die" \notin Ops, Known, Maps, GeometryIsOurs, [Next]_vars
  PROVE  Maps'
<1>0. Typed /\ link = "on" /\ ~cut /\ ~torn /\ Listed /\ AllAwaited /\ AllTrue
      /\ Announced(Frames, have, streamed)
  BY DEF Known, Maps
<1>1. CASE Query
  BY <1>1, MapsRequest DEF Query, view
<1>2. ASSUME NEW i \in 1..Len(snap), StreamGeo(i) PROVE Maps'
  BY <1>2, MapsRequest DEF StreamGeo, view
<1>3. ASSUME NEW i \in 1..Len(snap), Move(i) PROVE Maps'
  BY <1>3, MapsRequest DEF Move, view
<1>4. ASSUME NEW S \in SUBSET (1..Len(snap)), RemoveRows(S) PROVE Maps'
  BY <1>0, <1>4, MapsStill DEF RemoveRows, engine, socket, view, input, Frames
<1>5. ASSUME NEW S \in SUBSET Torrents, RemoveByHash(S) PROVE Maps'
  BY <1>0, <1>5, MapsStill DEF RemoveByHash, engine, socket, view, input, Frames
<1>6. CASE RemoveNext
  <2> DEFINE h == Head(todo)
             at == {i \in 1..Len(snap) : snap[i] = h.meant}
  <2>1. \/ UNCHANGED <<toEngine, replies, stack>>
        \/ Request("remove", IF h.by = "row" THEN h.i ELSE Min(at), None, h.meant, h.fresh)
    BY <1>6 DEF RemoveNext
  <2>2. stack = <<>> /\ UNCHANGED <<engine, toUi, cut, link, geo, buf, torn>>
    BY <1>6 DEF RemoveNext, view
  <2> HIDE DEF h, at
  <2>3. CASE UNCHANGED <<toEngine, replies, stack>>
    BY <1>0, <2>2, <2>3, MapsStill DEF engine, Frames
  <2>4. CASE Request("remove", IF h.by = "row" THEN h.i ELSE Min(at), None, h.meant, h.fresh)
    BY <2>2, <2>4, MapsRequest
  <2> QED BY <2>1, <2>3, <2>4
<1>7. ASSUME NEW r \in replies, Return(r) PROVE Maps'
  <2>1. /\ stack' = Popped /\ replies' = replies \ {r} /\ Top.at = "call" /\ r.id = Top.id
        /\ UNCHANGED <<list, have, streamed, toEngine, link, cut, torn>> /\ Frames' = Frames
        /\ geo' = IF Top.what = "geometry" /\ r.body # None THEN [geo EXCEPT ![Top.t] = r.body] ELSE geo
    BY <1>7 DEF Return, engine, socket, Frames
  <2>2. link' = "on" /\ ~cut' /\ ~torn' /\ Listed'
    BY <1>0, <2>1 DEF Listed
  <2>3. AllAwaited' /\ Announced(Frames', have', streamed')
    BY <1>0, <2>1, <2>2, AsksKept, MapsQuiet
  <2>4. Top.what = "geometry" /\ r.body # None => True(r.body, have, streamed)
    <3>1. stack # <<>> /\ Top = stack[Len(stack)] /\ Len(stack) \in Nat
      BY <1>0, <2>1, SlotsTyped, LenProperties DEF Typed
    <3>2. Len(stack) \in 1..Len(stack)
      BY <1>0, <3>1 DEF Typed
    <3> QED BY <1>0, <2>1, <3>1, <3>2 DEF AllAwaited, Asks, Awaited
  <2>5. ASSUME NEW t \in Torrents, geo'[t] # None PROVE geo'[t] = geo[t] \/ geo'[t] = r.body
    <3>1. geo \in [Torrents -> Map \cup {None}]
      BY <1>0 DEF Typed
    <3> QED BY <2>1, <3>1
  <2>6. NoneComes(Frames, 0) =>
          \A t \in Torrents : geo'[t] # None => True(geo'[t], have, streamed)
    <3>1. geo \in [Torrents -> Map \cup {None}]
      BY <1>0 DEF Typed
    <3>2. CASE Top.what = "geometry" /\ r.body # None
      BY <1>0, <2>4, <2>5, <3>1, <3>2 DEF AllTrue
    <3>3. CASE ~(Top.what = "geometry" /\ r.body # None)
      BY <1>0, <2>1, <3>3 DEF AllTrue
    <3> QED BY <3>2, <3>3
  <2>7. AllTrue'
    BY <2>1, <2>6 DEF AllTrue
  <2> QED BY <2>2, <2>3, <2>7 DEF Maps
<1>8. CASE ReturnEmpty
  BY <1>0, <1>8, MapsStill DEF ReturnEmpty, engine, socket, view, input, Frames
<1>9. ASSUME NEW n \in 0..Len(toUi), NEW part \in BOOLEAN, Read(n, part) PROVE Maps'
  <2>1. Frames' = Frames
    BY <1>0, <1>9, FramesRead
  <2>2. UNCHANGED <<list, have, streamed, toEngine, link, cut, torn, geo, replies>>
        /\ stack' = Append(stack, Drain(FALSE))
    <3>1. cut \in BOOLEAN /\ torn \in BOOLEAN /\ part = FALSE
      BY <1>0, <1>9 DEF Read, Typed
    <3> QED BY <1>0, <1>9, <3>1 DEF Read, engine, view
  <2> QED BY <1>0, <2>1, <2>2, MapsStill
<1>10. CASE HandleFrame
  BY <1>10, MapsHandled
<1>11. CASE DrainEnds
  BY <1>0, <1>11, MapsStill DEF DrainEnds, engine, socket, view, input, Frames
<1>12. CASE StartEnds
  BY <1>0, <1>12, MapsStill DEF StartEnds, engine, socket, view, input, Frames
<1>13. CASE Dispatch
  <2>1. AllAwaited' /\ Announced(Frames', have', streamed') /\ AllTrue' /\ Listed'
    BY <1>0, <1>13, MapsDispatched, ListedDispatched
  <2> QED BY <1>0, <1>13, <2>1 DEF Maps, Dispatch, input
<1>14. CASE Tick
  <2> DEFINE f == [kind |-> "snapshot", list |-> list]
  <2>1. f \in Frame /\ f.kind \notin {"reply", "removed", "piece"}
    BY <1>0 DEF Frame, Typed
  <2>2. /\ toUi' = Append(toUi, f) /\ buf' = buf
        /\ UNCHANGED <<list, have, streamed, toEngine, link, cut, torn, geo, replies, stack>>
    BY <1>14 DEF Tick, engine, view, input
  <2> HIDE DEF f
  <2>3. Frames' = Append(Frames, f)
    BY <1>0, <2>1, <2>2, FramesSent
  <2>4. link' = "on" /\ ~cut' /\ ~torn' /\ Listed'
    BY <1>0, <2>2 DEF Listed
  <2>5. /\ AllAwaited' /\ Announced(Frames', have', streamed')
        /\ NoneComes(Frames', 0) => NoneComes(Frames, 0)
    BY <1>0, <2>1, <2>2, <2>3, <2>4, AsksKept, MapsQuiet
  <2> QED BY <1>0, <2>2, <2>4, <2>5 DEF Maps, AllTrue
<1>15. ASSUME NEW t \in Torrents, AddTorrent(t) PROVE Maps'
  <2>1. /\ list' = Append(list, t) /\ have' = [have EXCEPT ![t] = {}] /\ t \notin Range(list)
        /\ UNCHANGED <<streamed, toEngine, link, cut, torn, geo, replies, stack>> /\ Frames' = Frames
    BY <1>15 DEF AddTorrent, socket, view, input, Frames
  <2>2. list \in Seq(Torrents) /\ have \in [Torrents -> SUBSET Pieces] /\ streamed \subseteq Torrents
        /\ DOMAIN list = 1..Len(list)
    BY <1>0, LenProperties DEF Typed
  <2>3. t \notin streamed
    BY <1>0, <2>1, <2>2 DEF Listed, Range
  <2>4. Listed'
    <3>1. Len(list') = Len(list) + 1 /\ \A k \in 1..Len(list) : list'[k] = list[k] /\ Len(list) \in Nat
      BY <2>1, <2>2, OneMore
    <3>2. \A k \in 1..Len(list) : k \in 1..Len(list')
      BY <2>2, <3>1, LenProperties
    <3> QED BY <1>0, <2>1, <3>1, <3>2 DEF Listed
  <2>5. \A u \in streamed : have'[u] = have[u]
    BY <2>1, <2>2, <2>3
  <2>6. \A m : True(m, have, streamed) => True(m, have', streamed')
    BY <2>1, <2>5 DEF True
  <2>7. AllAwaited' /\ Announced(Frames', have', streamed')
    BY <1>0, <2>1, <2>5, <2>6, AsksKept, MapsQuiet
  <2> QED BY <1>0, <2>1, <2>4, <2>6, <2>7 DEF Maps, AllTrue
<1>16. ASSUME NEW t \in Torrents, NEW p \in Pieces, PieceFinished(t, p) PROVE Maps'
  <2> DEFINE f == [kind |-> "piece", t |-> t, p |-> p]
  <2>1. f \in Frame /\ f.kind = "piece" /\ f.t = t /\ f.p = p
    BY DEF Frame
  <2>2. /\ have' = [have EXCEPT ![t] = @ \cup {p}] /\ buf' = buf
        /\ toUi' = IF t \in streamed THEN Append(toUi, f) ELSE toUi
        /\ UNCHANGED <<list, streamed, toEngine, link, cut, torn, geo, replies, stack>>
    BY <1>16 DEF PieceFinished, view, input
  <2>3. have \in [Torrents -> SUBSET Pieces]
    BY <1>0 DEF Typed
  <2>4. p \in have'[t] /\ \A u : have[u] \subseteq have'[u]
    <3>1. \A u \in Torrents : have[u] \subseteq have'[u]
      BY <2>2, <2>3
    <3>2. \A u : u \notin Torrents => have'[u] = have[u]
      BY <2>2, <2>3
    <3> QED BY <2>2, <2>3, <3>1, <3>2
  <2>5. \A m : True(m, have, streamed) => True(m, have', streamed')
    BY <2>2, <2>4 DEF True
  <2> HIDE DEF f
  <2>6. \/ Frames' = Frames
        \/ t \in streamed /\ Frames' = Append(Frames, f)
    <3>1. CASE t \in streamed
      BY <1>0, <2>1, <2>2, <3>1, FramesSent
    <3>2. CASE t \notin streamed
      BY <2>2, <3>2 DEF Frames
    <3> QED BY <3>1, <3>2
  <2>7. link' = "on" /\ ~cut' /\ ~torn' /\ Listed'
    BY <1>0, <2>2 DEF Listed
  <2>8. /\ AllAwaited' /\ Announced(Frames', have', streamed')
        /\ NoneComes(Frames', 0) => NoneComes(Frames, 0)
    <3>1. \/ Frames' = Frames
          \/ \E x \in Frame : /\ Frames' = Append(Frames, x) /\ x.kind \notin {"reply", "removed"}
                              /\ x.kind = "piece" => x.p \in have'[x.t] /\ x.t \in streamed'
      BY <2>1, <2>2, <2>4, <2>6
    <3>2. \A k \in 1..Len(Frames) : Frames[k].kind = "piece" =>
            (Frames[k].p \in have[Frames[k].t] /\ Frames[k].t \in streamed
              => Frames[k].p \in have'[Frames[k].t] /\ Frames[k].t \in streamed')
      BY <2>2, <2>4
    <3>3. \A j \in 1..Len(stack') : Asks(stack'[j]) =>
            \E m \in 1..Len(stack) : stack[m] = stack'[j]
      BY <2>2
    <3> QED BY <1>0, <2>2, <2>5, <2>7, <3>1, <3>2, <3>3, MapsQuiet
  <2> QED BY <1>0, <2>2, <2>5, <2>7, <2>8 DEF Maps, AllTrue
<1>17. CASE UNCHANGED vars
  BY <1>0, <1>17, MapsStill DEF vars, engine, socket, view, input, Frames
<1> QED
  BY <1>0, <1>1, <1>2, <1>3, <1>4, <1>5, <1>6, <1>7, <1>8, <1>9, <1>10, <1>11, <1>12, <1>13, <1>14,
     <1>15, <1>16, <1>17
  DEF Next, App, AppGoesOn, Engine, OnProcFinished, StartEngine, StaysUp, EngineDies

\* At first there is no map.
LEMMA InitMaps == Init => Maps
<1> SUFFICES ASSUME Init PROVE Maps
  OBVIOUS
<1> DEFINE f == [kind |-> "snapshot", list |-> Library]
<1>1. Frames = <<f>>
  <2>1. f \in {f} /\ <<f>> \in Seq({f})
    OBVIOUS
  <2>2. toUi = <<f>> /\ buf = <<>>
    BY DEF Init
  <2> HIDE DEF f
  <2> QED BY <2>1, <2>2, ConcatEmptySeq DEF Frames
<1>2. f.kind = "snapshot"
  OBVIOUS
<1> HIDE DEF f
<1>3. Announced(Frames, have, streamed)
  BY <1>1, <1>2 DEF Announced
<1>4. AllAwaited
  <2>1. stack = <<Start>> /\ Start.at = "start"
    BY DEF Init, Start
  <2> HIDE DEF Start
  <2> QED BY <2>1 DEF AllAwaited, Asks
<1> QED BY <1>3, <1>4 DEF Init, Maps, Listed, AllTrue

\* The piece maps are true of the pieces and the engine keeps them so, while the
\* engine lives and each map is of the torrent that it is named after; both are
\* needed.  A map that a call brings is true because no removal is behind the
\* call, and a removal that is announced clears the maps.
THEOREM MapsAreTrue ==
  ASSUME "die" \notin Ops
  PROVE  Spec /\ []GeometryIsOurs => []MapIsKept
<1>1. Known /\ Maps /\ GeometryIsOurs /\ [Next]_vars => Maps'
  BY MapsStep
<1>2. Known /\ Maps => MapIsKept
  <2> SUFFICES ASSUME Known, Maps PROVE MapIsKept
    OBVIOUS
  <2>1. ~RemovalComes => NoneComes(Frames, 0)
    <3>1. Frames \in Seq(Frame) /\ DOMAIN Frames = 1..Len(Frames)
      BY FramesTyped, LenProperties DEF Known
    <3>2. \A k \in 1..Len(Frames) : Frames[k].kind = "removed" => RemovalComes
      BY <3>1 DEF RemovalComes, Frames, Range
    <3>3. \A k \in (0 + 1)..Len(Frames) : k \in 1..Len(Frames)
      OBVIOUS
    <3> QED BY <3>2, <3>3 DEF NoneComes
  <2>2. ~RemovalComes => \A t \in Torrents : geo[t] # None => True(geo[t], have, streamed)
    BY <2>1 DEF Maps, AllTrue
  <2> QED BY <2>2 DEF MapIsKept, MapIsSound, MapIsRegistered, True
<1> QED BY <1>1, <1>2, InitMaps, KnownHolds, PTL DEF Spec

\* The same without a condition on the run: where there is one torrent, whose
\* maps cannot be mistaken
COROLLARY OneMapIsTrue ==
  ASSUME "die" \notin Ops, \A t, u \in Torrents : t = u
  PROVE  Spec => []MapIsKept
<1>1. Typed => GeometryIsOurs
  <2>1. \A m \in Map : m.of \in Torrents /\ m # None
    BY NoneAssumption DEF Map
  <2> QED BY <2>1 DEF Typed, GeometryIsOurs
<1> QED BY <1>1, MapsAreTrue, TypedHolds, PTL

-----------------------------------------------------------------------------
(* The rows that were selected *)

\* What is asked is behind the rest; so much of the list as matters is as before.
LEMMA LineKept ==
  ASSUME NEW asked \in Seq(Asking), NEW asked2 \in Seq(Asking), NEW rows, NEW rows2,
         InLine(asked, rows),
         Len(asked) <= Len(asked2), Len(asked2) <= Len(asked) + 1,
         \A k \in 1..Len(asked) : asked2[k] = asked[k],
         \A i \in 1..Len(rows) : i \in 1..Len(rows2) /\ rows2[i] = rows[i],
         \A k \in Len(asked) + 1..Len(asked2) : asked2[k].fresh =>
           /\ asked2[k].what = "remove" /\ Aimed(asked2[k], rows)
           /\ Before(asked, Len(asked), asked2[k].i)
  PROVE  InLine(asked2, rows2)
<1>1. Len(asked) \in Nat /\ Len(asked2) \in Nat
  BY LenProperties
<1>2. ASSUME NEW k \in 1..Len(asked2), asked2[k].fresh
      PROVE  asked2[k].what = "remove" /\ Aimed(asked2[k], rows2) /\ Before(asked2, k - 1, asked2[k].i)
  <2>1. /\ asked2[k].what = "remove" /\ Aimed(asked2[k], rows)
        /\ Before(asked, k - 1, asked2[k].i)
    <3>1. CASE k <= Len(asked)
      <4>1. k \in 1..Len(asked) /\ asked2[k] = asked[k]
        BY <1>1, <3>1
      <4> QED BY <1>2, <4>1 DEF InLine
    <3>2. CASE ~(k <= Len(asked))
      <4>1. k \in Len(asked) + 1..Len(asked2) /\ k - 1 = Len(asked)
        BY <1>1, <3>2
      <4> QED BY <1>2, <4>1
    <3> QED BY <3>1, <3>2
  <2>2. Aimed(asked2[k], rows2)
    BY <2>1 DEF Aimed
  <2>3. \A m \in 1..k - 1 : m \in 1..Len(asked)
    BY <1>1
  <2>4. Before(asked2, k - 1, asked2[k].i)
    BY <2>1, <2>3 DEF Before
  <2> QED BY <2>1, <2>2, <2>4
<1> QED BY <1>2 DEF InLine

\* Removals that were to come are still to come, of the rows they were to be of.
LEMMA ComingKept ==
  ASSUME NEW chores \in Seq(Chore), NEW chores2, NEW asked \in Seq(Asking), NEW asked2 \in Seq(Asking), NEW rows, NEW rows2,
         ToCome(chores, asked, rows),
         Len(chores2) \in Nat,
         \/ chores2 = chores
         \/ /\ Len(chores2) = Len(chores) - 1
            /\ \A a \in 1..Len(chores2) : chores2[a] = chores[a + 1],
         Len(asked) <= Len(asked2), Len(asked2) <= Len(asked) + 1,
         \A k \in 1..Len(asked) : asked2[k] = asked[k],
         \A i \in 1..Len(rows) : i \in 1..Len(rows2) /\ rows2[i] = rows[i],
         \A a \in 1..Len(chores2) : chores2[a].fresh =>
           \A k \in Len(asked) + 1..Len(asked2) :
             /\ asked2[k].what # "move"
             /\ asked2[k].what = "remove" => asked2[k].fresh /\ asked2[k].i > chores2[a].i
  PROVE  ToCome(chores2, asked2, rows2)
<1>1. Len(asked) \in Nat /\ Len(asked2) \in Nat
  BY LenProperties
<1>2. /\ \A a \in 1..Len(chores2) : chores2[a].by = "row"
      /\ \A a, b \in 1..Len(chores2) : /\ chores2[a].fresh = chores2[b].fresh
                                       /\ a < b => chores2[a].i > chores2[b].i
      /\ \A a \in 1..Len(chores2) : chores2[a].fresh =>
           Aimed(chores2[a], rows) /\ Before(asked, Len(asked), chores2[a].i)
  <2>1. CASE chores2 = chores
    BY <2>1 DEF ToCome
  <2>2. CASE /\ Len(chores2) = Len(chores) - 1
             /\ \A a \in 1..Len(chores2) : chores2[a] = chores[a + 1]
    <3>1. Len(chores) \in Nat
      BY LenProperties
    <3>2. \A a \in 1..Len(chores2) : a + 1 \in 1..Len(chores) /\ chores2[a] = chores[a + 1]
      BY <2>2, <3>1
    <3>3. ASSUME NEW a \in 1..Len(chores2), NEW b \in 1..Len(chores2)
          PROVE  /\ chores2[a].fresh = chores2[b].fresh
                 /\ a < b => chores2[a].i > chores2[b].i
      <4>1. a < b => a + 1 < b + 1
        OBVIOUS
      <4>2. chores2[a] = chores[a + 1] /\ chores2[b] = chores[b + 1]
        BY <3>2
      <4>3. /\ chores[a + 1].fresh = chores[b + 1].fresh
            /\ a + 1 < b + 1 => chores[a + 1].i > chores[b + 1].i
        BY <3>2 DEF ToCome
      <4> QED BY <4>1, <4>2, <4>3
    <3>4. ASSUME NEW a \in 1..Len(chores2)
          PROVE  /\ chores2[a].by = "row"
                 /\ chores2[a].fresh =>
                      Aimed(chores2[a], rows) /\ Before(asked, Len(asked), chores2[a].i)
      BY <3>2, SMTT(40) DEF ToCome
    <3> QED BY <3>3, <3>4
  <2> QED BY <2>1, <2>2
<1>3. ASSUME NEW a \in 1..Len(chores2), chores2[a].fresh
      PROVE  Aimed(chores2[a], rows2) /\ Before(asked2, Len(asked2), chores2[a].i)
  <2>1. Aimed(chores2[a], rows) /\ Before(asked, Len(asked), chores2[a].i)
    BY <1>2, <1>3
  <2>2. Aimed(chores2[a], rows2)
    BY <2>1 DEF Aimed
  <2>3. ASSUME NEW m \in 1..Len(asked2)
        PROVE  /\ asked2[m].what # "move"
               /\ asked2[m].what = "remove" => asked2[m].fresh /\ asked2[m].i > chores2[a].i
    <3>1. CASE m <= Len(asked)
      <4>1. m \in 1..Len(asked) /\ asked2[m] = asked[m]
        BY <1>1, <3>1
      <4> QED BY <2>1, <4>1 DEF Before
    <3>2. CASE ~(m <= Len(asked))
      <4>1. m \in Len(asked) + 1..Len(asked2)
        BY <1>1, <3>2
      <4> QED BY <1>3, <4>1
    <3> QED BY <3>1, <3>2
  <2> QED BY <2>2, <2>3 DEF Before
<1> QED BY <1>2, <1>3 DEF ToCome

\* A request goes behind the others.
LEMMA RowsRequest ==
  ASSUME Typed, Rows, link = "on", NEW what, NEW i, NEW t, NEW meant, NEW fresh,
         Request(what, i, t, meant, fresh), Typed',
         UNCHANGED <<list, link, todo>>, todo = <<>>, ~fresh
  PROVE  Rows'
<1> DEFINE r == [id |-> FreshId, what |-> what, i |-> i, meant |-> meant, fresh |-> fresh]
<1>1. toEngine' = Append(toEngine, r) /\ r.fresh = fresh
  BY Requested
<1>2. toEngine \in Seq(Asking) /\ toEngine' \in Seq(Asking) /\ Len(toEngine) \in Nat
  BY LenProperties DEF Typed
<1> HIDE DEF r, Asking
<1>3. /\ Len(toEngine') = Len(toEngine) + 1 /\ toEngine'[Len(toEngine) + 1] = r
      /\ \A j \in 1..Len(toEngine) : toEngine'[j] = toEngine[j]
  BY <1>1, <1>2
<1>4. \A k \in Len(toEngine) + 1..Len(toEngine') : ~toEngine'[k].fresh
  BY <1>1, <1>2, <1>3
<1>5. InLine(toEngine', list)
  <2> DEFINE q == toEngine'
  <2>1. /\ q \in Seq(Asking) /\ InLine(toEngine, list)
        /\ Len(toEngine) <= Len(q) /\ Len(q) <= Len(toEngine) + 1
        /\ \A k \in 1..Len(toEngine) : q[k] = toEngine[k]
        /\ \A j \in 1..Len(list) : j \in 1..Len(list) /\ list[j] = list[j]
        /\ \A k \in Len(toEngine) + 1..Len(q) : q[k].fresh =>
             /\ q[k].what = "remove" /\ Aimed(q[k], list)
             /\ Before(toEngine, Len(toEngine), q[k].i)
    BY <1>2, <1>3, <1>4 DEF Rows
  <2> HIDE DEF q
  <2>2. InLine(q, list)
    BY <1>2, <2>1, LineKept
  <2> QED BY <2>2 DEF q
<1>6. ToCome(todo, toEngine', list)
  BY DEF ToCome
<1> QED BY <1>5, <1>6 DEF Rows

\* The next removal of the loop is asked for.
LEMMA RowsNext ==
  ASSUME Typed, Typed', Rows, RemoveNext
  PROVE  Rows'
<1> DEFINE h == Head(todo)
<1>1. /\ todo \in Seq(Chore) /\ todo # <<>> /\ todo' = Tail(todo) /\ todo' \in Seq(Chore)
      /\ UNCHANGED <<list, link>>
  BY DEF RemoveNext, Typed, engine
<1>2. /\ h = todo[1] /\ Len(todo) \in Nat /\ 1 \in 1..Len(todo)
      /\ Len(todo') = Len(todo) - 1 /\ Len(todo') \in Nat
      /\ \A a \in 1..Len(todo') : todo'[a] = todo[a + 1]
  BY <1>1, HeadTailProperties, LenProperties, EmptySeq
<1>3. /\ h.by = "row" /\ \A a \in 1..Len(todo') : /\ todo'[a].fresh = h.fresh /\ h.i > todo'[a].i
      /\ h.fresh => Aimed(h, list) /\ Before(toEngine, Len(toEngine), h.i)
  <2>1. \A a \in 1..Len(todo') : a + 1 \in 1..Len(todo) /\ 1 < a + 1
    BY <1>2
  <2> QED BY <1>2, <2>1 DEF Rows, ToCome
<1>4. toEngine \in Seq(Asking) /\ Len(toEngine) \in Nat /\ toEngine' \in Seq(Asking)
  BY LenProperties DEF Typed
<1>5. CASE toEngine' = toEngine
  <2>1. ToCome(todo', toEngine', list)
    <3> DEFINE c == todo'
               q == toEngine'
    <3>1. /\ ToCome(todo, toEngine, list) /\ Len(c) \in Nat /\ q \in Seq(Asking)
          /\ Len(c) = Len(todo) - 1 /\ \A a \in 1..Len(c) : c[a] = todo[a + 1]
          /\ Len(toEngine) <= Len(q) /\ Len(q) <= Len(toEngine) + 1
          /\ \A k \in 1..Len(toEngine) : q[k] = toEngine[k]
          /\ \A j \in 1..Len(list) : j \in 1..Len(list) /\ list[j] = list[j]
          /\ \A k \in Len(toEngine) + 1..Len(q) : FALSE
      BY <1>2, <1>4, <1>5 DEF Rows
    <3> HIDE DEF c, q
    <3>2. ToCome(c, q, list)
      BY <1>1, <1>4, <3>1, ComingKept
    <3> QED BY <3>2 DEF c, q
  <2> QED BY <1>1, <1>5, <2>1 DEF Rows
<1>6. CASE link = "on" /\ Request("remove", h.i, None, h.meant, h.fresh)
  <2> DEFINE r == [id |-> FreshId, what |-> "remove", i |-> h.i, meant |-> h.meant, fresh |-> h.fresh]
  <2>1. toEngine' = Append(toEngine, r)
    BY <1>6, Requested
  <2>2. r.what = "remove" /\ r.i = h.i /\ r.meant = h.meant /\ r.fresh = h.fresh
    OBVIOUS
  <2> HIDE DEF r, h, Asking
  <2>3. /\ Len(toEngine') = Len(toEngine) + 1 /\ toEngine'[Len(toEngine) + 1] = r
        /\ \A j \in 1..Len(toEngine) : toEngine'[j] = toEngine[j]
    BY <1>4, <2>1
  <2>4. \A k \in Len(toEngine) + 1..Len(toEngine') : toEngine'[k] = r
    BY <1>4, <2>3
  <2>5. InLine(toEngine', list)
    <3>1. r.fresh => /\ r.what = "remove" /\ Aimed(r, list)
                     /\ Before(toEngine, Len(toEngine), r.i)
      BY <1>3, <2>2 DEF Aimed
    <3> DEFINE q == toEngine'
    <3>2. /\ q \in Seq(Asking) /\ InLine(toEngine, list)
          /\ Len(toEngine) <= Len(q) /\ Len(q) <= Len(toEngine) + 1
          /\ \A k \in 1..Len(toEngine) : q[k] = toEngine[k]
          /\ \A j \in 1..Len(list) : j \in 1..Len(list) /\ list[j] = list[j]
          /\ \A k \in Len(toEngine) + 1..Len(q) : q[k].fresh =>
               /\ q[k].what = "remove" /\ Aimed(q[k], list)
               /\ Before(toEngine, Len(toEngine), q[k].i)
      BY <1>4, <2>3, <2>4, <3>1 DEF Rows
    <3> HIDE DEF q
    <3>3. InLine(q, list)
      BY <1>4, <3>2, LineKept
    <3> QED BY <3>3 DEF q
  <2>6. ToCome(todo', toEngine', list)
    <3>1. \A a \in 1..Len(todo') : todo'[a].fresh =>
            r.what # "move" /\ r.fresh /\ r.i > todo'[a].i
      <4>1. r.what # "move"
        BY <2>2
      <4> QED BY <1>3, <2>2, <4>1
    <3> DEFINE c == todo'
               q == toEngine'
    <3>2. /\ ToCome(todo, toEngine, list) /\ Len(c) \in Nat /\ q \in Seq(Asking)
          /\ Len(c) = Len(todo) - 1 /\ \A a \in 1..Len(c) : c[a] = todo[a + 1]
          /\ Len(toEngine) <= Len(q) /\ Len(q) <= Len(toEngine) + 1
          /\ \A k \in 1..Len(toEngine) : q[k] = toEngine[k]
          /\ \A j \in 1..Len(list) : j \in 1..Len(list) /\ list[j] = list[j]
      BY <1>2, <1>4, <2>3 DEF Rows
    <3>3. \A a \in 1..Len(c) : c[a].fresh =>
            \A k \in Len(toEngine) + 1..Len(q) :
              /\ q[k].what # "move"
              /\ q[k].what = "remove" => q[k].fresh /\ q[k].i > c[a].i
      BY <2>4, <3>1
    <3> HIDE DEF c, q
    <3>4. ToCome(c, q, list)
      BY <1>1, <1>4, <3>2, <3>3, ComingKept
    <3> QED BY <3>4 DEF c, q
  <2> QED BY <1>1, <1>6, <2>5, <2>6 DEF Rows
<1>7. toEngine' = toEngine \/ (link = "on" /\ Request("remove", h.i, None, h.meant, h.fresh))
  BY <1>3 DEF RemoveNext, Request
<1> QED BY <1>5, <1>6, <1>7

\* The rows are selected.
LEMMA RowsSelected ==
  ASSUME Typed, Typed', Rows, NEW S \in SUBSET (1..Len(snap)), RemoveRows(S)
  PROVE  Rows'
<1> DEFINE n == Cardinality(S)
           d == Downward(S)
<1>1. /\ todo' = [k \in 1..n |-> [by |-> "row", i |-> d[k], meant |-> snap[d[k]], fresh |-> Accurate]]
      /\ UNCHANGED <<list, link, toEngine>>
  BY DEF RemoveRows, engine, socket
<1>2. Len(snap) \in Nat /\ IsFiniteSet(S) /\ n \in Nat /\ S \in SUBSET Nat
  <2>1. Len(snap) \in Nat
    BY LenProperties DEF Typed
  <2>2. IsFiniteSet(1..Len(snap))
    BY <2>1, FS_Interval
  <2>3. IsFiniteSet(S)
    BY <2>2, FS_Subset
  <2> QED BY <2>1, <2>3, FS_CardinalityType
<1>3. d \in [1..n -> S] /\ \A j, k \in 1..n : j < k => d[j] > d[k]
  BY <1>2, Descends
<1> HIDE DEF n, d
<1>4. Len(todo') = n
  BY <1>1, <1>2
<1>5. \A k \in 1..n : /\ todo'[k].by = "row" /\ todo'[k].i = d[k] /\ todo'[k].meant = snap[d[k]]
                      /\ todo'[k].fresh = Accurate
  BY <1>1
<1>6. \A k \in 1..n : todo'[k].fresh => Aimed(todo'[k], list) /\ Before(toEngine, Len(toEngine), todo'[k].i)
  <2>1. \A k \in 1..n : d[k] \in 1..Len(snap)
    BY <1>3
  <2>2. Accurate => snap = list /\ Len(toEngine) = 0
    BY DEF Accurate
  <2> QED BY <1>5, <2>1, <2>2 DEF Aimed, Before
<1>7. ToCome(todo', toEngine, list)
  BY <1>3, <1>4, <1>5, <1>6 DEF ToCome
<1> QED BY <1>1, <1>7 DEF Rows

\* The list without one of its torrents, and with one moved to the front
LEMMA InjectiveWithout ==
  ASSUME NEW T, NEW s \in Seq(T), IsInjective(s), NEW i \in 1..Len(s)
  PROVE  /\ IsInjective(RemoveAt(s, i))
         /\ Range(s) \ Range(RemoveAt(s, i)) = {s[i]}
         /\ IsInjective(InsertAt(RemoveAt(s, i), 1, s[i]))
         /\ Range(InsertAt(RemoveAt(s, i), 1, s[i])) = Range(s)
<1> DEFINE n == Len(s)
           w == RemoveAt(s, i)
           v == InsertAt(w, 1, s[i])
<1>1. n \in Nat /\ DOMAIN s = 1..n /\ s[i] \in T
  BY LenProperties, ElementOfSeq
<1>2. /\ w \in Seq(T) /\ Len(w) = n - 1
      /\ \A k \in 1..n - 1 : w[k] = IF k < i THEN s[k] ELSE s[k + 1]
  BY Without
<1>3. DOMAIN w = 1..n - 1
  <2> HIDE DEF w
  <2> QED BY <1>1, <1>2, LenProperties
<1> HIDE DEF w
<1>4. v \in Seq(T) /\ Len(v) = n /\ v[1] = s[i] /\ \A k \in 1..n - 1 : v[k + 1] = w[k]
  <2>1. /\ v \in Seq(T) /\ Len(v) = Len(w) + 1 /\ v[1] = s[i]
        /\ \A k \in 1..Len(w) : v[k + 1] = w[k]
    BY <1>1, <1>2, FirstPut
  <2> QED BY <1>1, <1>2, <2>1
<1> HIDE DEF v
<1>5. DOMAIN v = 1..n
  BY <1>1, <1>4, LenProperties
<1>6. \A j, k \in 1..n : s[j] = s[k] => j = k
  BY <1>1 DEF IsInjective
<1> HIDE DEF n
<1>7. i \in 1..n
  BY DEF n
<1>8. ASSUME NEW k \in 1..n - 1
      PROVE  \E j \in 1..n : j # i /\ w[k] = s[j] /\ j = IF k < i THEN k ELSE k + 1
  BY <1>1, <1>2
<1>9. IsInjective(w)
  <2>1. ASSUME NEW j \in 1..n - 1, NEW k \in 1..n - 1, w[j] = w[k] PROVE j = k
    <3>1. PICK a \in 1..n : a # i /\ w[j] = s[a] /\ a = IF j < i THEN j ELSE j + 1
      BY <1>8
    <3>2. PICK b \in 1..n : b # i /\ w[k] = s[b] /\ b = IF k < i THEN k ELSE k + 1
      BY <1>8
    <3>3. a = b
      BY <1>6, <2>1, <3>1, <3>2
    <3> QED BY <1>1, <1>7, <3>1, <3>2, <3>3
  <2> QED BY <1>3, <2>1 DEF IsInjective
<1>10. ASSUME NEW j \in 1..n, j # i PROVE \E k \in 1..n - 1 : w[k] = s[j]
  <2>1. CASE j < i
    <3>1. j \in 1..n - 1
      BY <1>1, <1>7, <2>1
    <3> QED BY <1>2, <2>1, <3>1
  <2>2. CASE ~(j < i)
    <3>1. j - 1 \in 1..n - 1 /\ ~(j - 1 < i) /\ j - 1 + 1 = j
      BY <1>1, <1>7, <1>10, <2>2
    <3>2. w[j - 1] = s[j]
      BY <1>2, <3>1
    <3> QED BY <3>1, <3>2
  <2> QED BY <2>1, <2>2
<1>11. \A k \in 1..n - 1 : w[k] # s[i]
  BY <1>6, <1>7, <1>8
<1>12. Range(s) \ Range(w) = {s[i]}
  BY <1>1, <1>3, <1>7, <1>10, <1>11 DEF Range
<1>13. ASSUME NEW k \in 1..n PROVE (k = 1 /\ v[k] = s[i]) \/ (k - 1 \in 1..n - 1 /\ v[k] = w[k - 1])
  <2>1. CASE k = 1
    BY <1>4, <2>1
  <2>2. CASE k # 1
    <3>1. k - 1 \in 1..n - 1 /\ k - 1 + 1 = k
      BY <1>1, <2>2
    <3>2. v[k] = w[k - 1]
      BY <1>4, <3>1
    <3> QED BY <3>1, <3>2
  <2> QED BY <2>1, <2>2
<1>14. IsInjective(v)
  <2>1. ASSUME NEW j \in 1..n, NEW k \in 1..n, v[j] = v[k] PROVE j = k
    <3>1. CASE j = 1
      BY <1>11, <1>13, <2>1, <3>1
    <3>2. CASE k = 1
      BY <1>11, <1>13, <2>1, <3>2
    <3>3. CASE j # 1 /\ k # 1
      <4>1. j - 1 \in 1..n - 1 /\ k - 1 \in 1..n - 1 /\ w[j - 1] = w[k - 1]
        BY <1>13, <2>1, <3>3
      <4>2. j - 1 = k - 1
        BY <1>3, <1>9, <4>1 DEF IsInjective
      <4> QED BY <1>1, <4>2
    <3> QED BY <3>1, <3>2, <3>3
  <2> QED BY <1>5, <2>1 DEF IsInjective
<1>15. Range(v) = Range(s)
  <2>1. ASSUME NEW k \in 1..n PROVE \E j \in 1..n : s[j] = v[k]
    <3>1. CASE k = 1
      BY <1>4, <1>7, <3>1
    <3>2. CASE k # 1
      <4>1. k - 1 \in 1..n - 1 /\ v[k] = w[k - 1]
        BY <1>13, <3>2
      <4> QED BY <1>8, <4>1
    <3> QED BY <3>1, <3>2
  <2>2. ASSUME NEW j \in 1..n PROVE \E k \in 1..n : v[k] = s[j]
    <3>1. CASE j = i
      <4>1. 1 \in 1..n
        BY <1>1, <1>7
      <4> QED BY <1>4, <3>1, <4>1
    <3>2. CASE j # i
      <4>1. PICK k \in 1..n - 1 : w[k] = s[j]
        BY <1>10, <3>2
      <4>2. k + 1 \in 1..n
        BY <1>1
      <4> QED BY <1>4, <4>1, <4>2
    <3> QED BY <3>1, <3>2
  <2>3. Range(v) = {v[k] : k \in 1..n} /\ Range(s) = {s[k] : k \in 1..n}
    BY <1>1, <1>5 DEF Range, n
  <2>4. Range(v) \subseteq Range(s)
    BY <2>1, <2>3
  <2>5. Range(s) \subseteq Range(v)
    BY <2>2, <2>3
  <2> QED BY <2>4, <2>5
<1> QED BY <1>9, <1>12, <1>14, <1>15 DEF w, v

\* The first request is dispatched.
LEMMA RowsDispatched ==
  ASSUME Typed, Typed', Rows, Dispatch
  PROVE  /\ Rows'
         /\ Victims # {} /\ Head(toEngine).fresh => Victims = {Head(toEngine).meant}
<1> DEFINE r == toEngine[1]
           there == r.i \in 1..Len(list)
           a == Len(toEngine)
<1>1. /\ Head(toEngine) = r /\ 1 \in 1..a /\ a \in Nat
      /\ Len(toEngine') = a - 1
      /\ \A k \in 1..a - 1 : toEngine'[k] = toEngine[k + 1]
  BY Dispatched, DispatchSends
<1>2. list \in Seq(Torrents) /\ Len(list) \in Nat /\ IsInjective(list)
      /\ InLine(toEngine, list) /\ ToCome(todo, toEngine, list)
  BY LenProperties DEF Typed, Rows
<1>3. UNCHANGED <<link, todo>> /\ link = "on"
  BY DEF Dispatch, Running
<1>4. r \in Asking
  BY <1>1, ElementOfSeq DEF Typed
<1>5. \/ /\ r.what = "remove" /\ there /\ list' = RemoveAt(list, r.i)
      \/ /\ r.what = "move" /\ there
         /\ list' = InsertAt(RemoveAt(list, r.i), 1, list[r.i])
      \/ ~(r.what \in {"remove", "move"} /\ there) /\ list' = list
  <2>1. CASE r.what = "remove" /\ there
    BY <1>1, <2>1 DEF Dispatch
  <2>2. CASE r.what = "move" /\ there
    BY <1>1, <2>2 DEF Dispatch
  <2>3. CASE r.what = "geometry" /\ there
    BY <1>1, <2>3 DEF Dispatch
  <2>4. CASE ~(r.what \in {"remove", "move", "geometry"} /\ there)
    BY <1>1, <2>4 DEF Dispatch
  <2> QED BY <2>1, <2>2, <2>3, <2>4
<1>6. ASSUME NEW n \in 0..a, NEW i, Before(toEngine, n, i), n >= 1
      PROVE  Before(toEngine', n - 1, i)
  <2>1. \A m \in 1..n - 1 : m + 1 \in 1..n /\ m \in 1..a - 1
    BY <1>1
  <2> QED BY <1>1, <1>6, <2>1 DEF Before
<1> HIDE DEF r, there, a
<1>7. IsInjective(list')
  BY <1>2, <1>5, InjectiveWithout DEF there
\* A row that the first request is before stays where it is.
<1>8. ASSUME NEW x, x.i \in Nat, Aimed(x, list),
             r.what # "move", r.what = "remove" => r.i > x.i
      PROVE  Aimed(x, list')
  <2>1. CASE list' = list
    BY <1>8, <2>1
  <2>2. CASE r.what = "remove" /\ there /\ list' = RemoveAt(list, r.i)
    <3>1. /\ Len(list') = Len(list) - 1 /\ r.i \in 1..Len(list)
          /\ \A k \in 1..Len(list) - 1 : list'[k] = IF k < r.i THEN list[k] ELSE list[k + 1]
      BY <1>2, <2>2, Without DEF there
    <3>2. x.i < r.i /\ x.i \in 1..Len(list) - 1
      BY <1>2, <1>8, <2>2, <3>1 DEF Aimed
    <3> QED BY <1>8, <3>1, <3>2 DEF Aimed
  <2> QED BY <1>5, <1>8, <2>1, <2>2
<1>9. InLine(toEngine', list')
  <2>1. ASSUME NEW k \in 1..a - 1, toEngine'[k].fresh
        PROVE  /\ toEngine'[k].what = "remove" /\ Aimed(toEngine'[k], list')
               /\ Before(toEngine', k - 1, toEngine'[k].i)
    <3> DEFINE x == toEngine[k + 1]
    <3>1. k + 1 \in 1..a /\ toEngine'[k] = x /\ a = Len(toEngine) /\ k \in 0..a /\ k >= 1
      BY <1>1 DEF a
    <3>2. x.what = "remove" /\ Aimed(x, list) /\ Before(toEngine, k, x.i) /\ x.i \in Nat
      <4>1. x.what = "remove" /\ Aimed(x, list) /\ Before(toEngine, k + 1 - 1, x.i)
        BY <1>2, <2>1, <3>1 DEF InLine
      <4>2. x \in Asking
        BY <3>1, ElementOfSeq DEF Typed
      <4> QED BY <4>1, <4>2 DEF Asking
    <3> HIDE DEF x
    <3>3. r.what # "move" /\ (r.what = "remove" => r.i > x.i)
      BY <3>1, <3>2 DEF Before, r
    <3>4. Aimed(x, list') /\ Before(toEngine', k - 1, x.i)
      BY <1>6, <1>8, <3>1, <3>2, <3>3
    <3> QED BY <3>1, <3>2, <3>4
  <2> QED BY <1>1, <2>1 DEF InLine
<1>10. ToCome(todo, toEngine', list')
  <2>1. ASSUME NEW k \in 1..Len(todo), todo[k].fresh
        PROVE  Aimed(todo[k], list') /\ Before(toEngine', a - 1, todo[k].i)
    <3>1. Aimed(todo[k], list) /\ Before(toEngine, a, todo[k].i) /\ todo[k].i \in Nat
      <4>1. todo[k] \in Chore
        BY ElementOfSeq DEF Typed
      <4> QED BY <1>2, <2>1, <4>1 DEF ToCome, a, Chore
    <3>2. r.what # "move" /\ (r.what = "remove" => r.i > todo[k].i)
      BY <1>1, <3>1 DEF Before, r
    <3>3. a \in 0..a /\ a >= 1
      BY <1>1
    <3> QED BY <1>6, <1>8, <3>1, <3>2, <3>3
  <2> QED BY <1>1, <1>2, <2>1 DEF ToCome
<1>11. Rows'
  BY <1>3, <1>7, <1>9, <1>10 DEF Rows
<1>12. Victims # {} /\ r.fresh => Victims = {r.meant}
  <2> SUFFICES ASSUME Victims # {}, r.fresh PROVE Victims = {r.meant}
    OBVIOUS
  <2>1. r.what = "remove" /\ Aimed(r, list)
    BY <1>1, <1>2 DEF InLine, r, a
  <2>2. there /\ list' = RemoveAt(list, r.i)
    BY <1>5, <2>1 DEF Victims
  <2>3. Victims = {list[r.i]}
    BY <1>2, <2>2, InjectiveWithout DEF Victims, there
  <2> QED BY <2>1, <2>3 DEF Aimed
<1> QED BY <1>1, <1>11, <1>12

\* The list at its end, and requests and removals to come, are as they were.
LEMMA RowsLonger ==
  ASSUME Typed, Rows, NEW t \in Torrents, t \notin Range(list), list' = Append(list, t),
         UNCHANGED <<link, toEngine, todo>>, link # "off"
  PROVE  Rows'
<1>1. list \in Seq(Torrents) /\ Len(list) \in Nat /\ DOMAIN list = 1..Len(list)
      /\ toEngine \in Seq(Asking)
  BY LenProperties DEF Typed
<1> DEFINE q == Append(list, t)
<1>2. /\ q \in Seq(Torrents) /\ Len(q) = Len(list) + 1 /\ q[Len(list) + 1] = t
      /\ \A k \in 1..Len(list) : q[k] = list[k]
  BY <1>1, OneMore
<1> HIDE DEF q
<1>3. DOMAIN q = 1..Len(list) + 1
  BY <1>2, LenProperties
<1>4. \A k \in 1..Len(list) : list[k] # t
  BY <1>1 DEF Range
<1>5. IsInjective(q)
  <2>1. ASSUME NEW j \in 1..Len(list) + 1, NEW k \in 1..Len(list) + 1, q[j] = q[k] PROVE j = k
    <3>1. \A m \in 1..Len(list) + 1 : m \in 1..Len(list) \/ m = Len(list) + 1
      BY <1>1
    <3>2. \A m, n \in 1..Len(list) : list[m] = list[n] => m = n
      BY <1>1 DEF Rows, IsInjective
    <3> QED BY <1>2, <1>4, <2>1, <3>1, <3>2
  <2> QED BY <1>3, <2>1 DEF IsInjective
<1>6. \A x : Aimed(x, list) => Aimed(x, q)
  <2>1. \A k \in 1..Len(list) : k \in 1..Len(q)
    BY <1>1, <1>2
  <2> QED BY <1>2, <2>1 DEF Aimed
<1>7. InLine(toEngine, q) /\ ToCome(todo, toEngine, q)
  BY <1>6 DEF Rows, InLine, ToCome
<1> QED BY <1>5, <1>7 DEF Rows, q

\* Every step keeps the rows in line, and a removal with an accurate list is right.
LEMMA RowsStep ==
  ASSUME "hashes" \notin Ops, Typed, Typed', Rows, [Next]_vars
  PROVE  Rows' /\ (Victims # {} /\ Head(toEngine).fresh => Victims = {Head(toEngine).meant})
<1>0. list' = list => Victims = {}
  BY DEF Victims
<1>1. ASSUME UNCHANGED <<list, toEngine, todo>>, link' # "off" \/ link' = link
      PROVE  Rows'
  BY <1>1 DEF Rows
<1>2. CASE Query
  BY <1>0, <1>2, RowsRequest DEF Query, engine
<1>3. ASSUME NEW i \in 1..Len(snap), StreamGeo(i)
      PROVE  Rows' /\ Victims = {}
  BY <1>0, <1>3, RowsRequest DEF StreamGeo, engine
<1>4. ASSUME NEW i \in 1..Len(snap), Move(i)
      PROVE  Rows' /\ Victims = {}
  BY <1>0, <1>4, RowsRequest DEF Move, engine
<1>5. ASSUME NEW S \in SUBSET (1..Len(snap)), RemoveRows(S)
      PROVE  Rows' /\ Victims = {}
  BY <1>0, <1>5, RowsSelected DEF RemoveRows, engine
<1>6. CASE RemoveNext
  BY <1>0, <1>6, RowsNext DEF RemoveNext, engine
<1>7. CASE Dispatch
  BY <1>7, RowsDispatched
<1>8. ASSUME NEW t \in Torrents, AddTorrent(t)
      PROVE  Rows' /\ Victims = {}
  <2>1. /\ list' = Append(list, t) /\ t \notin Range(list) /\ link # "off"
        /\ UNCHANGED <<link, toEngine, todo>>
    BY <1>8 DEF AddTorrent, Running, socket
  <2>2. Victims = {}
    <3>1. list \in Seq(Torrents) /\ Len(list) \in Nat /\ DOMAIN list = 1..Len(list)
      BY LenProperties DEF Typed
    <3> DEFINE q == Append(list, t)
    <3>2. /\ q \in Seq(Torrents) /\ Len(q) = Len(list) + 1
          /\ \A k \in 1..Len(list) : q[k] = list[k]
      BY <3>1, OneMore
    <3> HIDE DEF q
    <3>3. \A k \in 1..Len(list) : k \in DOMAIN q
      BY <3>1, <3>2, LenProperties
    <3>4. Range(list) \subseteq Range(q)
      BY <3>1, <3>2, <3>3 DEF Range
    <3> QED BY <2>1, <3>4 DEF Victims, q
  <2> QED BY <2>1, <2>2, RowsLonger
<1>9. ASSUME NEW late \in BOOLEAN, OnProcFinished(late)
      PROVE  Rows' /\ Victims = {}
  <2>1. list' = list /\ toEngine' = <<>> /\ todo = <<>> /\ todo' = <<>>
    BY <1>9 DEF OnProcFinished, engine
  <2>2. InLine(<<>>, list) /\ ToCome(<<>>, <<>>, list)
    BY DEF InLine, ToCome
  <2> QED BY <1>0, <2>1, <2>2 DEF Rows
<1>10. ASSUME NEW inTime \in BOOLEAN, StartEngine(inTime)
       PROVE  Rows' /\ Victims = {}
  <2>1. list' = Loaded(Range(list)) /\ toEngine' = toEngine /\ toEngine = <<>> /\ todo = <<>> /\ todo' = <<>>
    BY <1>10 DEF StartEngine, Rows
  <2> HIDE DEF Loaded
  <2>2. \A rows : InLine(<<>>, rows) /\ ToCome(<<>>, <<>>, rows)
    BY DEF InLine, ToCome
  <2>3. IsInjective(list') /\ Range(list') = Range(list)
    BY <2>1, LoadedTyped
  <2> QED BY <2>1, <2>2, <2>3 DEF Rows, Victims
<1>11. ASSUME NEW S \in SUBSET Torrents, RemoveByHash(S) PROVE FALSE
  BY <1>11 DEF RemoveByHash
<1>12. \/ \E r \in replies : Return(r)
       \/ ReturnEmpty \/ HandleFrame \/ DrainEnds \/ StartEnds \/ StaysUp \/ Tick
       \/ \E n \in 0..Len(toUi), part \in BOOLEAN : Read(n, part) \/ EngineDies(n, part)
       \/ \E t \in Torrents, p \in Pieces : PieceFinished(t, p)
       \/ UNCHANGED vars
       => Rows' /\ Victims = {}
  <2>1. ASSUME \/ \E r \in replies : Return(r)
               \/ ReturnEmpty \/ HandleFrame \/ DrainEnds \/ StartEnds \/ StaysUp \/ Tick
               \/ \E n \in 0..Len(toUi), part \in BOOLEAN : Read(n, part) \/ EngineDies(n, part)
               \/ \E t \in Torrents, p \in Pieces : PieceFinished(t, p)
               \/ UNCHANGED vars
        PROVE  UNCHANGED <<list, toEngine, todo>> /\ (link' # "off" \/ link' = link)
    BY <2>1
    DEF Return, ReturnEmpty, HandleFrame, DrainEnds, StartEnds, StaysUp, Tick, Read, EngineDies,
        PieceFinished, vars, engine, socket
  <2> QED BY <1>0, <1>1, <2>1
<1> QED
  BY <1>2, <1>3, <1>4, <1>5, <1>6, <1>7, <1>8, <1>9, <1>10, <1>11, <1>12, <1>0
  DEF Next, App, AppGoesOn, Engine, Query, RemoveNext, engine

\* The rows that are removed while the list on the screen is the engine's are the
\* ones that were selected, for any selection and whatever dies, is added or is
\* asked meanwhile: the loop removes the highest row first, and each that goes
\* leaves those still to go where they were.
THEOREM SelectedRowsAreRemoved ==
  ASSUME "hashes" \notin Ops
  PROVE  Spec => SelectedRowsGo
<1>1. Init => Rows
  <2>1. InLine(<<>>, Library) /\ ToCome(<<>>, <<>>, Library)
    BY DEF InLine, ToCome
  <2> QED BY <2>1, LibraryAssumption DEF Init, Rows
<1>2. Typed /\ Typed' /\ Rows /\ [Next]_vars => Rows'
  BY RowsStep
<1>3. Typed /\ Typed' /\ Rows /\ [Next]_vars
        => [Victims # {} /\ Head(toEngine).fresh => Victims = {Head(toEngine).meant}]_vars
  BY RowsStep
<1> QED BY <1>1, <1>2, <1>3, TypedHolds, PTL DEF Spec, SelectedRowsGo
=======================================================================
