-------------------------- MODULE ResumeStoreProofs --------------------------
(***************************************************************************)
(* What ResumeStore guarantees for every library and every number of        *)
(* alerts in flight.                                                        *)
(***************************************************************************)
EXTENDS ResumeStore, TLAPS, FiniteSetTheorems

-----------------------------------------------------------------------------
(* The operators that the model is built from *)

\* Handling the first alert leaves the others, one place further on.
LEMMA TailElements ==
  ASSUME NEW S, NEW s \in Seq(S), s # <<>>
  PROVE  /\ Len(s) \in Nat \ {0} /\ Head(s) = s[1] /\ Head(s) \in S
         /\ Tail(s) \in Seq(S) /\ Len(Tail(s)) = Len(s) - 1
         /\ \A i \in 1..Len(s)-1 : Tail(s)[i] = s[i+1]
OBVIOUS

\* What is posted comes after what is there.
LEMMA CatElements ==
  ASSUME NEW S, NEW s \in Seq(S), NEW r \in Seq(S)
  PROVE  /\ s \o r \in Seq(S) /\ Len(s \o r) = Len(s) + Len(r)
         /\ \A i \in 1..Len(s) : (s \o r)[i] = s[i]
         /\ \A i \in 1..Len(r) : (s \o r)[Len(s) + i] = r[i]
OBVIOUS

\* A single alert that is posted comes last.
LEMMA AppendElements ==
  ASSUME NEW S, NEW s \in Seq(S), NEW x \in S
  PROVE  /\ Append(s, x) \in Seq(S) /\ Len(Append(s, x)) = Len(s) + 1
         /\ \A i \in 1..Len(s) : Append(s, x)[i] = s[i]
         /\ Append(s, x)[Len(s) + 1] = x
OBVIOUS

\* removeTorrent's erase
LEMMA RemoveAtElements ==
  ASSUME NEW S, NEW s \in Seq(S), NEW i \in 1..Len(s)
  PROVE  /\ RemoveAt(s, i) \in Seq(S) /\ Len(RemoveAt(s, i)) = Len(s) - 1
         /\ \A j \in 1..Len(s)-1 : RemoveAt(s, i)[j] = IF j < i THEN s[j] ELSE s[j+1]
<1>. DEFINE a == SubSeq(s, 1, i-1)
            b == SubSeq(s, i+1, Len(s))
<1>1. a \in Seq(S) /\ Len(a) = i - 1 /\ \A j \in 1..i-1 : a[j] = s[j]
  OBVIOUS
<1>2. b \in Seq(S) /\ Len(b) = Len(s) - i /\ \A j \in 1..Len(s)-i : b[j] = s[i+j]
  OBVIOUS
<1>3. RemoveAt(s, i) = a \o b
  BY DEF RemoveAt
<1>. HIDE DEF a, b
<1>4. /\ a \o b \in Seq(S) /\ Len(a \o b) = Len(a) + Len(b)
      /\ \A j \in 1..Len(a) : (a \o b)[j] = a[j]
      /\ \A j \in 1..Len(b) : (a \o b)[Len(a) + j] = b[j]
  <2>1. a \in Seq(S)
    BY <1>1
  <2>2. b \in Seq(S)
    BY <1>2
  <2>. QED BY <2>1, <2>2, CatElements, SMTT(30)
<1>5. ASSUME NEW j \in 1..Len(s)-1, j >= i
      PROVE  (a \o b)[j] = s[j+1]
  <2>. DEFINE k == j - (i-1)
  <2>1. k \in 1..Len(s)-i /\ (i-1) + k = j /\ i + k = j + 1
    BY <1>5
  <2>. HIDE DEF k
  <2>2. b[k] = s[i+k]
    BY <2>1, <1>2
  <2>3. (a \o b)[Len(a) + k] = b[k]
    BY <2>1, <1>2, <1>4
  <2>. QED BY <2>1, <2>2, <2>3, <1>1
<1>. QED BY <1>1, <1>2, <1>3, <1>4, <1>5

\* The answers to saves among the alerts s
IsAnswer(a) == a.kind \in {"saved", "failed"}
Due(s) == {i \in 1..Len(s) : IsAnswer(s[i])}
Count(s) == Cardinality(Due(s))

\* Only finitely many answers are in flight.
LEMMA DueFinite ==
  ASSUME NEW s \in Seq(Alert)
  PROVE  IsFiniteSet(Due(s)) /\ Count(s) \in Nat
<1>1. IsFiniteSet(1..Len(s))
  BY FS_Interval
<1>2. Due(s) \in SUBSET (1..Len(s))
  BY DEF Due
<1>3. IsFiniteSet(Due(s))
  BY <1>1, <1>2, FS_Subset
<1>. QED BY <1>3, FS_CardinalityType DEF Count

\* A request adds as many answers as it asks for.
LEMMA CountCat ==
  ASSUME NEW s \in Seq(Alert), NEW r \in Seq(Alert), \A i \in 1..Len(r) : IsAnswer(r[i])
  PROVE  Count(s \o r) = Count(s) + Len(r)
<1>. DEFINE B == Len(s)+1..Len(s)+Len(r)
<1>0. Len(s) \in Nat /\ Len(r) \in Nat
  OBVIOUS
<1>1. Due(s \o r) = Due(s) \cup B
  <2>1. /\ Len(s \o r) = Len(s) + Len(r)
        /\ \A i \in 1..Len(s) : (s \o r)[i] = s[i]
        /\ \A i \in 1..Len(r) : (s \o r)[Len(s) + i] = r[i]
    BY CatElements, SMTT(30)
  <2>2. ASSUME NEW i \in B
        PROVE  i \in Due(s \o r)
    <3>1. i - Len(s) \in 1..Len(r) /\ Len(s) + (i - Len(s)) = i /\ i \in 1..Len(s) + Len(r)
      BY <1>0
    <3>2. (s \o r)[i] = r[i - Len(s)]
      BY <3>1, <2>1
    <3>. QED BY <3>1, <3>2, <2>1 DEF Due
  <2>3. ASSUME NEW i \in 1..Len(s)
        PROVE  i \in Due(s \o r) <=> i \in Due(s)
    BY <1>0, <2>1 DEF Due
  <2>4. 1..Len(s) + Len(r) = (1..Len(s)) \cup B
    BY <1>0
  <2>. QED BY <2>1, <2>2, <2>3, <2>4 DEF Due
<1>2. IsFiniteSet(B) /\ Cardinality(B) = Len(r)
  <2>. DEFINE a == Len(s) + 1
              b == Len(s) + Len(r)
  <2>1. a \in Int /\ b \in Int /\ (IF a > b THEN 0 ELSE b - a + 1) = Len(r)
    BY <1>0
  <2>. HIDE DEF a, b
  <2>2. IsFiniteSet(a..b) /\ Cardinality(a..b) = IF a > b THEN 0 ELSE b - a + 1
    BY <2>1, FS_Interval
  <2>. QED BY <2>1, <2>2 DEF a, b
<1>3. Due(s) \cap B = {}
  BY <1>0 DEF Due
<1>. HIDE DEF B
<1>4. Cardinality(Due(s) \cup B) = Cardinality(Due(s)) + Cardinality(B) - Cardinality(Due(s) \cap B)
  BY <1>2, DueFinite, FS_Union
<1>5. Cardinality(Due(s)) \in Nat /\ Cardinality(Due(s) \cap B) = 0
  BY <1>3, DueFinite, FS_EmptySet DEF Count
<1>. QED BY <1>0, <1>1, <1>2, <1>4, <1>5 DEF Count

\* The first alert counts or not, the others keep their count.
LEMMA CountTail ==
  ASSUME NEW s \in Seq(Alert), s # <<>>
  PROVE  Count(s) = Count(Tail(s)) + (IF IsAnswer(Head(s)) THEN 1 ELSE 0)
<1>. DEFINE T == Due(Tail(s))
            D == Due(s) \ {1}
            f == [i \in T |-> i + 1]
<1>1. /\ Len(s) \in Nat \ {0} /\ Head(s) = s[1]
      /\ Tail(s) \in Seq(Alert) /\ Len(Tail(s)) = Len(s) - 1
      /\ \A i \in 1..Len(s)-1 : Tail(s)[i] = s[i+1]
  BY TailElements
<1>2. \A i \in T : i \in 1..Len(s)-1 /\ i + 1 \in D
  BY <1>1 DEF Due
<1>3. \A k \in D : k - 1 \in T /\ k \in Nat /\ (k - 1) + 1 = k
  BY <1>1 DEF Due
<1>. HIDE DEF T, D
<1>4. f \in Bijection(T, D)
  <2>1. f \in [T -> D]
    BY <1>2
  <2>2. \A i, j \in T : f[i] = f[j] => i = j
    BY <1>2
  <2>3. \A k \in D : \E i \in T : f[i] = k
    BY <1>3
  <2>. QED BY <2>1, <2>2, <2>3 DEF Bijection, Injection, Surjection, IsInjective
<1>5. IsFiniteSet(T) /\ Cardinality(T) = Count(Tail(s)) /\ Count(Tail(s)) \in Nat
  BY <1>1, DueFinite DEF T, Count
<1>6. Cardinality(D) = Cardinality(T)
  BY <1>4, <1>5, FS_Bijection DEF ExistsBijection
<1>7. Cardinality(D) = IF 1 \in Due(s) THEN Count(s) - 1 ELSE Count(s)
  BY DueFinite, FS_RemoveElement DEF D, Count
<1>8. 1 \in Due(s) <=> IsAnswer(Head(s))
  BY <1>1 DEF Due
<1>. QED BY <1>5, <1>6, <1>7, <1>8, DueFinite

\* An alert that answers no save leaves the count as it is.
LEMMA CountAppend ==
  ASSUME NEW s \in Seq(Alert), NEW a \in Alert, ~IsAnswer(a)
  PROVE  Count(Append(s, a)) = Count(s)
<1>1. Due(Append(s, a)) = Due(s)
  BY AppendElements DEF Due
<1>. QED BY <1>1 DEF Count

\* What libtorrent answers: one alert for each entry, with its contents.
LEMMA AnswersElements ==
  ASSUME NEW q \in Seq(Torrents), NEW c \in [Torrents -> Content], NEW fails \in BOOLEAN
  PROVE  /\ Answers(q, c, fails) \in Seq(Alert) /\ Len(Answers(q, c, fails)) = Len(q)
         /\ \A i \in 1..Len(q) : LET a == Answers(q, c, fails)[i] IN
              /\ IsAnswer(a) /\ a.t = q[i] /\ a.data = c[q[i]]
              /\ a.kind = IF fails /\ ~c[q[i]].meta THEN "failed" ELSE "saved"
<1>1. \A i \in 1..Len(q) : q[i] \in Torrents /\ c[q[i]] \in Content
  OBVIOUS
<1>2. \A i \in 1..Len(q) :
        [kind |-> IF fails /\ ~c[q[i]].meta THEN "failed" ELSE "saved",
         t |-> q[i], data |-> c[q[i]]] \in Alert
  BY <1>1 DEF Alert, Kinds
<1>. QED BY <1>1, <1>2 DEF Answers, IsAnswer

\* The entries of a batch are exactly the listed torrents that it is for.
LEMMA EntriesExact ==
  ASSUME TypeOK, NEW S
  PROVE  /\ Entries(S) \in Seq(S)
         /\ \A i \in 1..Len(torrents) : torrents[i] \in S =>
              \E n \in 1..Len(Entries(S)) : Entries(S)[n] = torrents[i]
<1>. DEFINE I == {i \in 1..Len(torrents) : torrents[i] \in S}
            upto(i) == {j \in I : j <= i}
            rank == [i \in I |-> Cardinality(upto(i))]
            nth(n) == CHOOSE i \in I : Cardinality(upto(i)) = n
            N == Cardinality(I)
<1>1. Len(torrents) \in Nat
  BY DEF TypeOK
<1>2. IsFiniteSet(I) /\ N \in Nat
  <2>1. IsFiniteSet(1..Len(torrents))
    BY <1>1, FS_Interval
  <2>2. I \in SUBSET (1..Len(torrents))
    OBVIOUS
  <2>3. IsFiniteSet(I)
    BY <2>1, <2>2, FS_Subset
  <2>. QED BY <2>3, FS_CardinalityType
<1>3. \A i \in I : i \in Nat /\ torrents[i] \in S
  BY <1>1
<1>4. Entries(S) = [n \in 1..N |-> torrents[nth(n)]]
  BY DEF Entries
<1>11. ASSUME NEW i \in 1..Len(torrents), torrents[i] \in S
      PROVE  i \in I
  BY <1>11
<1>. HIDE DEF I
<1>5. \A i \in I : IsFiniteSet(upto(i)) /\ Cardinality(upto(i)) \in 1..N
  <2>. TAKE i \in I
  <2>1. upto(i) \in SUBSET I /\ i \in upto(i)
    BY <1>3
  <2>2. IsFiniteSet(upto(i)) /\ Cardinality(upto(i)) <= N
    BY <1>2, <2>1, FS_Subset
  <2>3. Cardinality(upto(i)) \in Nat /\ Cardinality(upto(i)) # 0
    BY <2>1, <2>2, FS_CardinalityType, FS_EmptySet
  <2>. QED BY <1>2, <2>2, <2>3
<1>6. \A i, k \in I : i < k => Cardinality(upto(i)) # Cardinality(upto(k))
  <2>. TAKE i, k \in I
  <2>. HAVE i < k
  <2>1. upto(i) \in SUBSET upto(k) /\ k \in upto(k) /\ k \notin upto(i)
    BY <1>3
  <2>2. IsFiniteSet(upto(k))
    BY <1>5
  <2>3. Cardinality(upto(k)) = Cardinality(upto(i)) => upto(k) = upto(i)
    BY <2>1, <2>2, FS_Subset
  <2>. QED BY <2>1, <2>3
<1>7. rank \in Injection(I, 1..N)
  <2>1. rank \in [I -> 1..N]
    BY <1>5
  <2>2. \A i, k \in I : rank[i] = rank[k] => i = k
    <3>. TAKE i, k \in I
    <3>. HAVE rank[i] = rank[k]
    <3>1. Cardinality(upto(i)) = Cardinality(upto(k))
      OBVIOUS
    <3>2. ~(i < k) /\ ~(k < i) /\ i \in Nat /\ k \in Nat
      BY <1>3, <1>6, <3>1
    <3>. QED BY <3>2
  <2>. QED BY <2>1, <2>2 DEF Injection, IsInjective
<1>8. IsFiniteSet(1..N) /\ Cardinality(1..N) = N
  <2>1. Cardinality(1..N) = IF 1 > N THEN 0 ELSE N - 1 + 1
    BY <1>2, FS_Interval
  <2>. QED BY <1>2, <2>1, FS_Interval
<1>9. rank \in Surjection(I, 1..N)
  BY <1>7, <1>8, FS_Injection
<1>10. \A n \in 1..N : nth(n) \in I /\ Cardinality(upto(nth(n))) = n
  <2>. TAKE n \in 1..N
  <2>1. \E i \in I : rank[i] = n
    BY <1>9 DEF Surjection
  <2>2. \E i \in I : Cardinality(upto(i)) = n
    BY <2>1
  <2>. HIDE DEF upto
  <2>. QED BY <2>2
<1>12. \A i \in I : nth(Cardinality(upto(i))) = i
  <2>. TAKE i \in I
  <2>. DEFINE n == Cardinality(upto(i))
  <2>1. n \in 1..N
    BY <1>5
  <2>2. nth(n) \in I /\ Cardinality(upto(nth(n))) = n
    BY <1>10, <2>1
  <2>. HIDE DEF nth, upto
  <2>3. ~(nth(n) < i) /\ ~(i < nth(n))
    <3>1. nth(n) \in I /\ Cardinality(upto(nth(n))) = Cardinality(upto(i))
      BY <2>2
    <3>. QED BY <1>6, <3>1
  <2>. QED BY <1>3, <2>2, <2>3
<1>. HIDE DEF nth, upto, N
<1>13. Entries(S) \in Seq(S) /\ Len(Entries(S)) = N
  BY <1>2, <1>3, <1>4, <1>10 DEF N
<1>14. ASSUME NEW i \in 1..Len(torrents), torrents[i] \in S
       PROVE  \E n \in 1..Len(Entries(S)) : Entries(S)[n] = torrents[i]
  <2>1. i \in I
    BY <1>11, <1>14
  <2>2. Cardinality(upto(i)) \in 1..N /\ nth(Cardinality(upto(i))) = i
    BY <1>5, <1>12, <2>1
  <2>. QED BY <1>4, <1>13, <2>2
<1>. QED BY <1>13, <1>14

-----------------------------------------------------------------------------
(* Type correctness *)

\* What a torrent has, and what a save of it would write
LEMMA LiveType ==
  ASSUME TypeOK
  PROVE  Contents \in [Torrents -> Content] /\ \A t \in Torrents : Live(t) \in Content
BY DEF TypeOK, Contents, Live, Content

\* A torrent's file is named by one of its hashes.
LEMMA KeyType ==
  \A t \in Torrents, m \in BOOLEAN : Key(t, m) \in Keys /\ Key(t, m) \in KeysOf(t)
BY DEF Key, Keys, KeysOf

\* The torrents in the list, as a set
LEMMA ValidType ==
  ASSUME TypeOK
  PROVE  /\ Valid \subseteq Torrents
         /\ \A t : t \in Valid <=> t # None /\ \E i \in 1..Len(torrents) : torrents[i] = t
BY DEF TypeOK, Valid, Range

\* The alert that is handled, and the queue behind it
LEMMA HeadType ==
  ASSUME TypeOK, NEW kind, Processing(kind)
  PROVE  /\ Head(alerts) \in Alert /\ Head(alerts) = alerts[1] /\ Len(alerts) \in Nat \ {0}
         /\ Tail(alerts) \in Seq(Alert) /\ Head(alerts).kind = kind
         /\ Len(Tail(alerts)) = Len(alerts) - 1
         /\ \A i \in 1..Len(alerts)-1 : Tail(alerts)[i] = alerts[i+1]
BY TailElements DEF TypeOK, Processing

\* The single answer to a save of one torrent
LEMMA AnswersOfOne ==
  ASSUME NEW t \in Torrents, NEW c \in [Torrents -> Content], NEW fails \in BOOLEAN
  PROVE  /\ Answers(<<t>>, c, fails) \in Seq(Alert) /\ Len(Answers(<<t>>, c, fails)) = 1
         /\ LET a == Answers(<<t>>, c, fails)[1] IN
              /\ IsAnswer(a) /\ a.t = t /\ a.data = c[t]
              /\ a.kind = IF fails /\ ~c[t].meta THEN "failed" ELSE "saved"
<1>. DEFINE q == <<t>>
<1>1. q \in Seq(Torrents) /\ Len(q) = 1 /\ q[1] = t
  OBVIOUS
<1>. HIDE DEF q
<1>2. /\ Answers(q, c, fails) \in Seq(Alert) /\ Len(Answers(q, c, fails)) = 1
      /\ LET a == Answers(q, c, fails)[1] IN
           /\ IsAnswer(a) /\ a.t = t /\ a.data = c[t]
           /\ a.kind = IF fails /\ ~c[t].meta THEN "failed" ELSE "saved"
  BY <1>1, AnswersElements
<1>. QED BY <1>2 DEF q

\* What addTorrent and restore set is of its type.
LEMMA AddedType ==
  ASSUME TypeOK, NEW t \in Torrents, NEW c \in Content, Added(t, c)
  PROVE  /\ meta' \subseteq Torrents /\ cachedMeta' \subseteq meta'
         /\ run' \in [Torrents -> Reason] /\ pieces' \in [Torrents -> 0..MaxPieces]
BY DEF TypeOK, Added, Content

\* loadResumeData: the list is what the files hold, and each torrent is as its
\* file says.
LEMMA LoadType ==
  ASSUME TypeOK, NEW best \in BOOLEAN, NEW old \in Old, NEW fate \in Fates,
         LoadResumeData(best, old, fate)
  PROVE  LET loaded == {t \in Torrents : \E k \in KeysOf(t) :
                          file[k] # None /\ fate[k] \notin {"setAside", "refused"}} IN
         /\ torrents' \in Seq(Torrents) /\ Range(torrents') = loaded
         /\ meta' \subseteq Torrents /\ cachedMeta' = meta'
         /\ run' \in [Torrents -> Reason] /\ pieces' \in [Torrents -> 0..MaxPieces]
         /\ uriKnown' \subseteq Torrents
         /\ \A t \in loaded : \E k \in KeysOf(t) :
              /\ file[k] # None
              /\ t \in meta' <=> file[k].meta
              /\ ~file[k].meta => t \in uriKnown'
<1>. DEFINE keys == {k \in Keys : file[k] # None /\ fate[k] \notin {"setAside", "refused"}}
            order == SetToSeq(keys)
            N == Cardinality(keys)
            loaded == {k[1] : k \in keys}
            first(t) == IF Cardinality(keys \cap KeysOf(t)) = 1
                        THEN Read(fate, CHOOSE k \in keys \cap KeysOf(t) : TRUE)
                        ELSE Read(fate, <<t, IF best THEN "best" ELSE "uri">>)
<1>0. loaded = {t \in Torrents : \E k \in KeysOf(t) :
                  file[k] # None /\ fate[k] \notin {"setAside", "refused"}}
  BY DEF Keys, KeysOf
<1>1. IsFiniteSet(keys) /\ N \in Nat
  <2>1. IsFiniteSet({"uri", "best"})
    <3>1. {"uri", "best"} = {"uri"} \cup {"best"}
      OBVIOUS
    <3>2. IsFiniteSet({"uri"})
      BY FS_Singleton, Zenon
    <3>3. IsFiniteSet({"uri"} \cup {"best"})
      BY <3>2, FS_AddElement
    <3>. QED BY <3>1, <3>3, Zenon
  <2>2. IsFiniteSet(Keys)
    BY <2>1, LibraryAssumption, FS_Product DEF Keys
  <2>3. keys \in SUBSET Keys
    OBVIOUS
  <2>4. IsFiniteSet(keys)
    BY <2>2, <2>3, FS_Subset
  <2>. QED BY <2>4, FS_CardinalityType
<1>2. order \in Bijection(1..N, keys)
  <2>. HIDE DEF keys
  <2>1. \E f \in [1..N -> keys] : IsInjective(f)
    BY <1>1, FS_CardinalityType DEF ExistsBijection, Bijection, Injection
  <2>2. order \in [1..N -> keys] /\ IsInjective(order)
    BY <2>1 DEF SetToSeq
  <2>3. IsFiniteSet(1..N) /\ Cardinality(1..N) = N
    <3>1. Cardinality(1..N) = IF 1 > N THEN 0 ELSE N - 1 + 1
      BY <1>1, FS_Interval
    <3>. QED BY <1>1, <3>1, FS_Interval
  <2>. HIDE DEF order
  <2>4. order \in Injection(1..N, keys)
    BY <2>2 DEF Injection
  <2>5. order \in Surjection(1..N, keys)
    BY <1>1, <2>3, <2>4, FS_Injection
  <2>. QED BY <2>4, <2>5 DEF Bijection
<1>3. /\ torrents' = [i \in 1..Len(order) |-> order[i][1]]
      /\ meta' = {t \in loaded : first(t).meta}
      /\ cachedMeta' = meta'
      /\ run' = [t \in Torrents |-> IF t \in loaded THEN first(t).run ELSE "runs"]
      /\ pieces' = [t \in Torrents |-> IF t \in loaded THEN first(t).pieces ELSE 0]
      /\ uriKnown' = {k[1] : k \in {x \in keys : ~file[x].meta}}
  BY DEF LoadResumeData
<1>4. \A t \in loaded : \E k \in keys \cap KeysOf(t) :
        first(t) \in Content /\ first(t).meta = file[k].meta
  <2>. TAKE t \in loaded
  <2>. DEFINE mine == keys \cap KeysOf(t)
  <2>0. t \in Torrents
    BY DEF Keys
  <2>1. /\ mine # {}
        /\ \A k \in mine : Read(fate, k) \in Content /\ Read(fate, k).meta = file[k].meta
    <3>1. mine # {}
      BY DEF KeysOf
    <3>2. ASSUME NEW k \in mine
          PROVE  Read(fate, k) \in Content /\ Read(fate, k).meta = file[k].meta
      <4>1. file[k] \in Content
        BY DEF TypeOK
      <4>2. [file[k] EXCEPT !.run = "missing"] \in Content /\ [file[k] EXCEPT !.run = "runs"] \in Content
        BY <4>1 DEF Content, Reason
      <4>3. Read(fate, k) \in {file[k], [file[k] EXCEPT !.run = "missing"], [file[k] EXCEPT !.run = "runs"]}
        BY DEF Read
      <4>. QED BY <4>1, <4>2, <4>3 DEF Content
    <3>. QED BY <3>1, <3>2
  <2>2. CASE Cardinality(mine) = 1
    <3>1. (CHOOSE k \in mine : TRUE) \in mine
      BY <2>1
    <3>. QED BY <2>1, <2>2, <3>1
  <2>3. CASE Cardinality(mine) # 1
    <3>. DEFINE a == <<t, "uri">>
                b == <<t, "best">>
    <3>1. KeysOf(t) = {a, b}
      BY <2>0 DEF KeysOf, Keys
    <3>2. mine # {a} /\ mine # {b}
      BY <2>3, FS_Singleton
    <3>3. a \in mine /\ b \in mine
      BY <2>1, <3>1, <3>2
    <3>. QED BY <2>1, <2>3, <3>3
  <2>. QED BY <2>2, <2>3
<1>. HIDE DEF first
<1>5. Len(order) = N /\ DOMAIN order = 1..N
  BY <1>1, <1>2 DEF Bijection, Injection
<1>6. /\ \A i \in 1..N : order[i] \in keys
      /\ \A k \in keys : \E i \in 1..N : order[i] = k
  BY <1>2 DEF Bijection, Injection, Surjection
<1>. HIDE DEF order
<1>7. torrents' \in Seq(Torrents) /\ Range(torrents') = loaded
  <2>1. \A k \in keys : k[1] \in loaded
    OBVIOUS
  <2>2. \A t \in loaded : \E k \in keys : k[1] = t
    OBVIOUS
  <2>3. loaded \subseteq Torrents
    BY <1>0
  <2>. HIDE DEF keys, loaded
  <2>4. torrents' = [i \in 1..N |-> order[i][1]]
    BY <1>3, <1>5
  <2>5. \A i \in 1..N : order[i][1] \in loaded
    BY <2>1, <1>6
  <2>6. \A t \in loaded : \E i \in 1..N : order[i][1] = t
    BY <2>2, <1>6
  <2>7. torrents' \in Seq(Torrents) /\ DOMAIN torrents' = 1..N
    BY <1>1, <2>3, <2>4, <2>5
  <2>. QED BY <2>4, <2>5, <2>6, <2>7 DEF Range
<1>8. meta' \subseteq Torrents /\ cachedMeta' = meta'
  BY <1>0, <1>3
<1>9. run' \in [Torrents -> Reason] /\ pieces' \in [Torrents -> 0..MaxPieces]
  BY <1>3, <1>4, BoundAssumption DEF Content, Reason
<1>10. uriKnown' \subseteq Torrents
  BY <1>3 DEF Keys
<1>11. ASSUME NEW t \in loaded
       PROVE  \E k \in KeysOf(t) : /\ file[k] # None
                                   /\ t \in meta' <=> file[k].meta
                                   /\ ~file[k].meta => t \in uriKnown'
  <2>1. PICK k \in keys \cap KeysOf(t) : first(t).meta = file[k].meta
    BY <1>4
  <2>2. k[1] = t /\ file[k] # None
    BY <2>1 DEF KeysOf
  <2>3. t \in meta' <=> first(t).meta
    BY <1>3
  <2>4. ~file[k].meta => t \in uriKnown'
    BY <1>3, <2>1, <2>2
  <2>. QED BY <2>1, <2>2, <2>3, <2>4
<1>. HIDE DEF loaded
<1>. QED BY <1>0, <1>7, <1>8, <1>9, <1>10, <1>11

\* Undamaged, every file is taken as it is.
LEMMA LoadPlain ==
  ASSUME TypeOK, "damage" \notin Ops, NEW best \in BOOLEAN, NEW old \in Old,
         NEW fate \in Fates, LoadResumeData(best, old, fate)
  PROVE  /\ file' = file
         /\ Range(torrents') = Stored
         /\ \A t \in Stored : \E k \in KeysOf(t) :
              /\ file[k] # None
              /\ t \in meta' <=> file[k].meta
              /\ ~file[k].meta => t \in uriKnown'
<1>1. fate = [k \in Keys |-> "taken"]
  BY DEF Fates
<1>2. file' = file
  BY <1>1 DEF LoadResumeData, TypeOK
<1>. DEFINE loaded == {t \in Torrents : \E k \in KeysOf(t) :
                         file[k] # None /\ fate[k] \notin {"setAside", "refused"}}
<1>3. loaded = Stored
  BY <1>1 DEF Stored, HasFile, KeysOf
<1>4. /\ Range(torrents') = loaded
      /\ \A t \in loaded : \E k \in KeysOf(t) :
           /\ file[k] # None
           /\ t \in meta' <=> file[k].meta
           /\ ~file[k].meta => t \in uriKnown'
  BY LoadType
<1>. HIDE DEF loaded
<1>. QED BY <1>2, <1>3, <1>4

\* Every step leaves a state of the right type.
LEMMA TypeStep ==
  ASSUME TypeOK, Next
  PROVE  TypeOK'
<1>. USE DEF disk, ghosts, memory
<1>1. ASSUME StatusUpdate PROVE TypeOK'
  BY <1>1 DEF TypeOK, StatusUpdate
<1>2. ASSUME NEW t \in Torrents, MetadataArrives(t) PROVE TypeOK'
  <2>1. [kind |-> "metadata", t |-> t, data |-> Live(t)] \in Alert
    BY LiveType DEF Alert, Kinds
  <2>2. alerts' \in Seq(Alert)
    BY <1>2, <2>1, AppendElements DEF TypeOK, MetadataArrives
  <2>. QED BY <1>2, <2>2 DEF TypeOK, MetadataArrives
<1>3. ASSUME NEW t \in Torrents, PieceArrives(t) PROVE TypeOK'
  <2>1. [kind |-> "piece", t |-> t, data |-> Live(t)] \in Alert
    BY LiveType DEF Alert, Kinds
  <2>2. alerts' \in Seq(Alert)
    BY <1>3, <2>1, AppendElements DEF TypeOK, PieceArrives
  <2>3. pieces' \in [Torrents -> 0..MaxPieces]
    BY <1>3, BoundAssumption DEF TypeOK, PieceArrives
  <2>. QED BY <1>3, <2>2, <2>3 DEF TypeOK, PieceArrives
<1>4. ASSUME NEW ok \in Writes, OnResumeDataReady(ok) PROVE TypeOK'
  <2>1. Head(alerts) \in Alert /\ Tail(alerts) \in Seq(Alert)
    BY <1>4, HeadType DEF OnResumeDataReady
  <2>2. file' \in [Keys -> Content \cup {None}]
    BY <1>4, <2>1, KeyType DEF TypeOK, OnResumeDataReady, Written, Alert
  <2>3. outstanding' \in Nat
    BY <1>4 DEF TypeOK, OnResumeDataReady, OneLess
  <2>. QED BY <1>4, <2>1, <2>2, <2>3 DEF TypeOK, OnResumeDataReady
<1>5. ASSUME OnResumeDataFailed PROVE TypeOK'
  <2>1. Tail(alerts) \in Seq(Alert)
    BY <1>5, HeadType DEF OnResumeDataFailed
  <2>2. outstanding' \in Nat
    BY <1>5 DEF TypeOK, OnResumeDataFailed, OneLess
  <2>. QED BY <1>5, <2>1, <2>2 DEF TypeOK, OnResumeDataFailed
<1>6. ASSUME OnMetadataReceived PROVE TypeOK'
  <2>. DEFINE t == Head(alerts).t
  <2>1. Head(alerts) \in Alert /\ Tail(alerts) \in Seq(Alert) /\ t \in Torrents
    BY <1>6, HeadType DEF OnMetadataReceived, Alert
  <2>. HIDE DEF t
  <2>2. Answers(<<t>>, Contents, FALSE) \in Seq(Alert)
    BY <2>1, LiveType, AnswersOfOne
  <2>3. alerts' = Tail(alerts) \o Answers(<<t>>, Contents, FALSE)
    BY <1>6 DEF OnMetadataReceived, t
  <2>4. alerts' \in Seq(Alert)
    BY <2>1, <2>2, <2>3, CatElements
  <2>5. file' \in [Keys -> Content \cup {None}] /\ outstanding' \in Nat
    BY <1>6 DEF TypeOK, OnMetadataReceived
  <2>. QED BY <1>6, <2>4, <2>5 DEF TypeOK, OnMetadataReceived
<1>7. ASSUME NEW due \in BOOLEAN, OnPieceFinished(due) PROVE TypeOK'
  <2>. DEFINE q == IF due THEN <<Head(alerts).t>> ELSE <<>>
  <2>1. Tail(alerts) \in Seq(Alert) /\ q \in Seq(Torrents)
    <3>1. Tail(alerts) \in Seq(Alert) /\ Head(alerts) \in Alert
      BY <1>7, HeadType DEF OnPieceFinished
    <3>2. Head(alerts).t \in Torrents
      BY <3>1 DEF Alert
    <3>. QED BY <3>1, <3>2
  <2>2. alerts' = Tail(alerts) \o Answers(q, Contents, FALSE) /\ outstanding' = outstanding + Len(q)
    BY <1>7 DEF OnPieceFinished
  <2>. HIDE DEF q
  <2>3. Answers(q, Contents, FALSE) \in Seq(Alert)
    BY <2>1, LiveType, AnswersElements
  <2>4. alerts' \in Seq(Alert)
    BY <2>1, <2>2, <2>3, CatElements
  <2>5. outstanding' \in Nat
    BY <2>1, <2>2 DEF TypeOK
  <2>. QED BY <1>7, <2>4, <2>5 DEF TypeOK, OnPieceFinished
<1>8. ASSUME OnDeadHandle PROVE TypeOK'
  BY <1>8, HeadType DEF TypeOK, OnDeadHandle
<1>9. ASSUME NEW t \in Torrents, NEW ok \in Writes, AddMagnet(t, ok) PROVE TypeOK'
  <2>. DEFINE c == [meta |-> FALSE, run |-> "runs", pieces |-> 0]
  <2>1. c \in Content
    BY BoundAssumption DEF Content, Reason
  <2>2. Added(t, c) /\ torrents' = Append(torrents, t) /\ PersistMagnetParams(t, c, ok)
    BY <1>9 DEF AddMagnet
  <2>. HIDE DEF c
  <2>3. /\ meta' \subseteq Torrents /\ cachedMeta' \subseteq meta'
        /\ run' \in [Torrents -> Reason] /\ pieces' \in [Torrents -> 0..MaxPieces]
    BY <2>1, <2>2, AddedType
  <2>4. torrents' \in Seq(Torrents \cup {None})
    BY <2>2, AppendElements DEF TypeOK
  <2>5. file' \in [Keys -> Content \cup {None}]
    BY <2>1, <2>2, KeyType DEF TypeOK, PersistMagnetParams
  <2>. QED BY <1>9, <2>3, <2>4, <2>5 DEF TypeOK, AddMagnet
<1>10. ASSUME NEW t \in Torrents, NEW why \in {"runs", "user"}, AddTorrent(t, why) PROVE TypeOK'
  <2>. DEFINE c == IF t \in Valid THEN Live(t) ELSE [meta |-> TRUE, run |-> why, pieces |-> 0]
              d == [Contents EXCEPT ![t] = c]
  <2>1. c \in Content
    BY LiveType, BoundAssumption DEF Content, Reason
  <2>2. Added(t, c) /\ torrents' = Append(torrents, t) /\ alerts' = alerts \o Answers(<<t>>, d, FALSE)
    BY <1>10 DEF AddTorrent
  <2>. HIDE DEF c
  <2>3. d \in [Torrents -> Content]
    BY <2>1, LiveType
  <2>. HIDE DEF d
  <2>4. /\ meta' \subseteq Torrents /\ cachedMeta' \subseteq meta'
        /\ run' \in [Torrents -> Reason] /\ pieces' \in [Torrents -> 0..MaxPieces]
    BY <2>1, <2>2, AddedType
  <2>5. torrents' \in Seq(Torrents \cup {None})
    BY <2>2, AppendElements DEF TypeOK
  <2>6. Answers(<<t>>, d, FALSE) \in Seq(Alert)
    BY <2>3, AnswersOfOne
  <2>7. alerts' \in Seq(Alert)
    BY <2>2, <2>6, CatElements DEF TypeOK
  <2>8. /\ outstanding' = outstanding + 1 /\ gone' = gone \ {t}
        /\ UNCHANGED <<phase, uriKnown, removed, file, history, starting, promised>>
    BY <1>10 DEF AddTorrent
  <2>. QED BY <2>4, <2>5, <2>7, <2>8 DEF TypeOK
<1>11. ASSUME NEW k \in Keys, NEW fails \in BOOLEAN, Restore(k, fails) PROVE TypeOK'
  <2>. DEFINE t == k[1]
              c == IF t \in Valid THEN Live(t) ELSE history[k]
              d == [Contents EXCEPT ![t] = c]
  <2>1. t \in Torrents /\ history[k] \in Content
    BY <1>11 DEF Keys, TypeOK, Restore
  <2>2. c \in Content
    BY <2>1, LiveType
  <2>3. /\ Added(t, c) /\ torrents' = Append(torrents, t)
        /\ alerts' = alerts \o Answers(<<t>>, d, fails)
        /\ removed' = LiftGuard(t, c.meta)
        /\ gone' = gone \ {t}
    BY <1>11 DEF Restore
  <2>. HIDE DEF c
  <2>4. d \in [Torrents -> Content]
    BY <2>2, LiveType
  <2>. HIDE DEF d, t
  <2>5. /\ meta' \subseteq Torrents /\ cachedMeta' \subseteq meta'
        /\ run' \in [Torrents -> Reason] /\ pieces' \in [Torrents -> 0..MaxPieces]
    BY <2>1, <2>2, <2>3, AddedType
  <2>6. torrents' \in Seq(Torrents \cup {None})
    BY <2>1, <2>3, AppendElements DEF TypeOK
  <2>7. Answers(<<t>>, d, fails) \in Seq(Alert)
    BY <2>1, <2>4, AnswersOfOne
  <2>8. alerts' \in Seq(Alert)
    BY <2>3, <2>7, CatElements DEF TypeOK
  <2>9. removed' \subseteq Keys /\ gone' \subseteq Torrents
    BY <2>3 DEF TypeOK, LiftGuard
  <2>10. history' \in [Keys -> Content \cup {None}] /\ outstanding' \in Nat
    BY <1>11 DEF TypeOK, Restore
  <2>. QED BY <1>11, <2>5, <2>6, <2>8, <2>9, <2>10 DEF TypeOK, Restore
<1>12. ASSUME NEW i \in 1..Len(torrents), NEW old \in Old, RemoveTorrent(i, old) PROVE TypeOK'
  <2>1. CASE torrents[i] = None
    <3>1. torrents' \in Seq(Torrents \cup {None})
      BY <1>12, <2>1, RemoveAtElements DEF TypeOK, RemoveTorrent
    <3>2. UNCHANGED <<phase, meta, cachedMeta, run, pieces, uriKnown, removed, outstanding,
                      alerts, file, history, starting, gone, promised>>
      BY <1>12, <2>1 DEF RemoveTorrent
    <3>. QED BY <3>1, <3>2 DEF TypeOK
  <2>2. CASE torrents[i] # None
    <3>. DEFINE t == torrents[i]
                k == Key(t, t \in meta)
    <3>1. t \in Torrents /\ k \in Keys
      <4>1. t \in Torrents
        BY <2>2 DEF TypeOK
      <4>. QED BY <4>1 DEF Key, Keys
    <3>2. torrents' \in Seq(Torrents \cup {None})
      <4>1. /\ RemoveAt(torrents, i) \in Seq(Torrents \cup {None})
            /\ Len(RemoveAt(torrents, i)) = Len(torrents) - 1 /\ Len(torrents) \in Nat \ {0}
        BY RemoveAtElements DEF TypeOK
      <4>2. torrents' = [j \in 1..Len(torrents) - 1 |->
                          IF RemoveAt(torrents, i)[j] = t THEN None ELSE RemoveAt(torrents, i)[j]]
        BY <1>12, <2>2 DEF RemoveTorrent
      <4>. QED BY <4>1, <4>2
    <3>. HIDE DEF k
    <3>3. file' \in [Keys -> Content \cup {None}]
      <4>1. file' = file \/ file' = [file EXCEPT ![k] = None]
        BY <1>12, <2>2 DEF RemoveTorrent, k
      <4>. QED BY <4>1, <3>1 DEF TypeOK
    <3>4. history' \in [Keys -> Content \cup {None}]
      <4>1. \/ history' = Pruned([history EXCEPT ![k] = file[k]], old \ {k})
            \/ history' = Pruned(history, old)
        BY <1>12, <2>2 DEF RemoveTorrent, k
      <4>. QED BY <4>1, <3>1 DEF TypeOK, Pruned
    <3>5. removed' \subseteq Keys
      <4>1. removed' = removed \/ removed' = Noted(k)
        BY <1>12, <2>2 DEF RemoveTorrent, k
      <4>. QED BY <4>1, <3>1 DEF TypeOK, Noted
    <3>6. alerts' \in Seq(Alert)
      <4>1. alerts' = Orphaned(t)
        BY <1>12, <2>2 DEF RemoveTorrent
      <4>2. \A n \in 1..Len(alerts) :
              /\ alerts[n] \in Alert
              /\ [alerts[n] EXCEPT !.kind = "dead"] \in Alert
        <5>. TAKE n \in 1..Len(alerts)
        <5>1. alerts[n] \in Alert
          BY DEF TypeOK
        <5>. QED BY <5>1 DEF Alert, Kinds
      <4>. QED BY <4>1, <4>2, SMTT(40) DEF TypeOK, Orphaned
    <3>. QED BY <1>12, <2>2, <3>1, <3>2, <3>3, <3>4, <3>5, <3>6 DEF TypeOK, RemoveTorrent
  <2>. QED BY <2>1, <2>2
<1>13. ASSUME ClearRemovedHistory PROVE TypeOK'
  BY <1>13 DEF TypeOK, ClearRemovedHistory
<1>14. ASSUME NEW S \in SUBSET Valid, NEW why \in {"runs", "user"}, NEW fails \in BOOLEAN, SetRun(S, why, fails)
       PROVE TypeOK'
  <2>. DEFINE d == [t \in Torrents |-> [Live(t) EXCEPT !.run = why]]
  <2>1. d \in [Torrents -> Content]
    BY LiveType DEF Content, Reason
  <2>2. Entries(S) \in Seq(Torrents)
    BY EntriesExact, ValidType
  <2>3. alerts' = alerts \o Answers(Entries(S), d, fails)
    BY <1>14 DEF SetRun
  <2>. HIDE DEF d
  <2>4. Answers(Entries(S), d, fails) \in Seq(Alert)
    BY <2>1, <2>2, AnswersElements
  <2>5. alerts' \in Seq(Alert)
    BY <2>3, <2>4, CatElements DEF TypeOK
  <2>6. run' \in [Torrents -> Reason]
    BY <1>14 DEF TypeOK, SetRun, Reason
  <2>. QED BY <1>14, <2>5, <2>6 DEF TypeOK, SetRun
<1>15. ASSUME PauseForDisk PROVE TypeOK'
  BY <1>15 DEF TypeOK, PauseForDisk, Reason
<1>16. ASSUME Saving PROVE alerts' \in Seq(Alert) /\ outstanding' \in Nat
  <2>. DEFINE q == Entries(Valid \cap cachedMeta)
  <2>1. q \in Seq(Torrents)
    BY EntriesExact, ValidType
  <2>2. alerts' = alerts \o Answers(q, Contents, FALSE)
    BY <1>16 DEF Saving
  <2>6. outstanding' = outstanding + Len(q)
    BY <1>16 DEF Saving
  <2>. HIDE DEF q
  <2>3. Answers(q, Contents, FALSE) \in Seq(Alert)
    BY <2>1, LiveType, AnswersElements
  <2>4. alerts' \in Seq(Alert)
    BY <2>2, <2>3, CatElements DEF TypeOK
  <2>5. outstanding \in Nat /\ Len(q) \in Nat
    BY <2>1 DEF TypeOK
  <2>. QED BY <2>4, <2>5, <2>6
<1>17. ASSUME SaveResumeData PROVE TypeOK'
  BY <1>16, <1>17 DEF TypeOK, SaveResumeData
<1>18. ASSUME Quit PROVE TypeOK'
  BY <1>16, <1>18, LiveType DEF TypeOK, Quit
<1>19. ASSUME Forget PROVE
         /\ torrents' \in Seq(Torrents \cup {None}) /\ meta' = {} /\ cachedMeta' = {} /\ uriKnown' = {}
         /\ run' \in [Torrents -> Reason] /\ pieces' \in [Torrents -> 0..MaxPieces]
         /\ removed' = {} /\ outstanding' = 0 /\ alerts' \in Seq(Alert)
         /\ promised' \in [Torrents -> Content \cup {None}]
  BY <1>19, BoundAssumption DEF Forget, Reason
<1>20. ASSUME NEW late \in BOOLEAN, FlushEnds(late) PROVE TypeOK'
  BY <1>19, <1>20 DEF TypeOK, FlushEnds
<1>21. ASSUME Crash PROVE TypeOK'
  BY <1>19, <1>21 DEF TypeOK, Crash
<1>22. ASSUME Start PROVE TypeOK'
  BY <1>22 DEF TypeOK, Start
<1>23. ASSUME NEW best \in BOOLEAN, NEW old \in Old, NEW fate \in Fates, LoadResumeData(best, old, fate) PROVE TypeOK'
  <2>1. /\ torrents' \in Seq(Torrents) /\ meta' \subseteq Torrents /\ cachedMeta' = meta'
        /\ run' \in [Torrents -> Reason] /\ pieces' \in [Torrents -> 0..MaxPieces]
        /\ uriKnown' \subseteq Torrents
    BY <1>23, LoadType
  <2>2. torrents' \in Seq(Torrents \cup {None})
    BY <2>1
  <2>3. /\ phase' = "running" /\ starting' = FALSE /\ history' = Pruned(history, old)
        /\ UNCHANGED <<removed, outstanding, alerts, gone, promised>>
        /\ file' = [k \in Keys |-> IF fate[k] = "setAside" THEN None ELSE file[k]]
    BY <1>23 DEF LoadResumeData
  <2>. QED BY <2>1, <2>2, <2>3 DEF TypeOK, Pruned
<1>24. Libtorrent => TypeOK'
  BY <1>1, <1>2, <1>3 DEF Libtorrent
<1>25. ProcessAlerts => TypeOK'
  BY <1>4, <1>5, <1>6, <1>7, <1>8 DEF ProcessAlerts
<1>26. User => TypeOK'
  BY <1>9, <1>10, <1>11, <1>12, <1>13, <1>14 DEF User
<1>27. Session => TypeOK'
  BY <1>15, <1>17, <1>18, <1>20, <1>21, <1>22, <1>23 DEF Session
<1>. QED BY <1>24, <1>25, <1>26, <1>27 DEF Next

-----------------------------------------------------------------------------
(* What each operation posts.  An answer carries the state that its torrent *)
(* has after the operation.                                                 *)

After(t) == [meta |-> t \in meta', run |-> run'[t], pieces |-> pieces'[t]]
NewAnswer(a) ==
  /\ a \in Alert /\ IsAnswer(a) /\ a.data = After(a.t)
  /\ a.kind = "failed" => ~a.data.meta
Posted(s, r) ==
  /\ r \in Seq(Alert) /\ alerts' = s \o r
  /\ \A i \in 1..Len(r) : NewAnswer(r[i])

\* The answers to a round of saves report what the torrents have now.
LEMMA AnswersAreNew ==
  ASSUME NEW q \in Seq(Torrents), NEW c \in [Torrents -> Content], NEW fails \in BOOLEAN,
         \A i \in 1..Len(q) : c[q[i]] = After(q[i])
  PROVE  LET r == Answers(q, c, fails) IN
         /\ r \in Seq(Alert) /\ Len(r) = Len(q)
         /\ \A i \in 1..Len(r) : NewAnswer(r[i]) /\ r[i].t = q[i]
<1>. DEFINE r == Answers(q, c, fails)
<1>1. /\ r \in Seq(Alert) /\ Len(r) = Len(q)
      /\ \A i \in 1..Len(q) :
           /\ IsAnswer(r[i]) /\ r[i].t = q[i] /\ r[i].data = c[q[i]]
           /\ r[i].kind = IF fails /\ ~c[q[i]].meta THEN "failed" ELSE "saved"
  BY AnswersElements
<1>. HIDE DEF r
<1>2. ASSUME NEW i \in 1..Len(q)
      PROVE  NewAnswer(r[i])
  <2>1. r[i] \in Alert
    BY <1>1
  <2>. QED BY <1>1, <2>1 DEF NewAnswer
<1>3. QED BY <1>1, <1>2 DEF r

\* Where every torrent has its metadata, no save fails.
LEMMA AnswersAreSaved ==
  ASSUME NEW q \in Seq(Torrents), NEW c
  PROVE  \A i \in 1..Len(q) : Answers(q, c, FALSE)[i].kind = "saved"
BY DEF Answers

\* The metadata alert saves the torrent it is of.
LEMMA PostsMetadata ==
  ASSUME TypeOK, OnMetadataReceived
  PROVE  \E r : /\ Posted(Tail(alerts), r) /\ Len(r) = 1
                /\ r[1].t = Head(alerts).t /\ r[1].kind = "saved"
<1>. DEFINE t == Head(alerts).t
            q == <<t>>
            r == Answers(q, Contents, FALSE)
<1>1. t \in Torrents
  BY HeadType DEF OnMetadataReceived, Alert
<1>2. alerts' = Tail(alerts) \o r
  BY DEF OnMetadataReceived
<1>3. \A x \in Torrents : Contents[x] = After(x)
  BY DEF OnMetadataReceived, Contents, Live, After
<1>. HIDE DEF t
<1>4. q \in Seq(Torrents) /\ Len(q) = 1 /\ q[1] = t
  BY <1>1
<1>. HIDE DEF q
<1>5. Contents \in [Torrents -> Content]
  BY LiveType
<1>6. /\ r \in Seq(Alert) /\ Len(r) = Len(q)
      /\ \A i \in 1..Len(r) : NewAnswer(r[i]) /\ r[i].t = q[i]
  <2>1. \A i \in 1..Len(q) : Contents[q[i]] = After(q[i])
    BY <1>3, <1>4
  <2>2. q \in Seq(Torrents)
    BY <1>4
  <2>. QED BY <1>5, <2>1, <2>2, AnswersAreNew
<1>9. \A i \in 1..Len(q) : r[i].kind = "saved"
  BY <1>4, AnswersAreSaved
<1>. HIDE DEF r
<1>7. Posted(Tail(alerts), r) /\ Len(r) = 1
  BY <1>2, <1>4, <1>6 DEF Posted
<1>8. r[1].t = t /\ r[1].kind = "saved"
  BY <1>4, <1>6, <1>7, <1>9
<1>. QED BY <1>7, <1>8 DEF t

\* A finished piece saves at most its torrent, and counts the save.
LEMMA PostsPiece ==
  ASSUME TypeOK, NEW due \in BOOLEAN, OnPieceFinished(due)
  PROVE  \E r : /\ Posted(Tail(alerts), r)
                /\ \A i \in 1..Len(r) : r[i].t = Head(alerts).t
                /\ outstanding' = outstanding + Len(r)
<1>. DEFINE t == Head(alerts).t
            q == IF due THEN <<t>> ELSE <<>>
            r == Answers(q, Contents, FALSE)
<1>1. t \in Torrents
  BY HeadType DEF OnPieceFinished, Alert
<1>2. alerts' = Tail(alerts) \o r /\ outstanding' = outstanding + Len(q)
  BY DEF OnPieceFinished
<1>3. \A x \in Torrents : Contents[x] = After(x)
  BY DEF OnPieceFinished, Contents, Live, After
<1>. HIDE DEF t
<1>4. q \in Seq(Torrents) /\ \A i \in 1..Len(q) : q[i] = t
  BY <1>1
<1>. HIDE DEF q
<1>5. Contents \in [Torrents -> Content]
  BY LiveType
<1>6. /\ r \in Seq(Alert) /\ Len(r) = Len(q)
      /\ \A i \in 1..Len(r) : NewAnswer(r[i]) /\ r[i].t = q[i]
  <2>1. \A i \in 1..Len(q) : Contents[q[i]] = After(q[i])
    BY <1>3, <1>4
  <2>2. q \in Seq(Torrents)
    BY <1>4
  <2>. QED BY <1>5, <2>1, <2>2, AnswersAreNew
<1>. HIDE DEF r
<1>. QED BY <1>2, <1>4, <1>6 DEF Posted, t

\* add_torrent leaves the torrent with the contents it was given, or as it was.
LEMMA AddedLive ==
  ASSUME TypeOK, NEW t \in Torrents, NEW c \in Content, Added(t, c), t \in Valid => c = Live(t)
  PROVE  After(t) = c /\ \A x \in Torrents \ {t} : After(x) = Live(x)
<1>1. CASE t \in Valid
  BY <1>1 DEF Added, Live, After
<1>2. CASE t \notin Valid
  <2>1. /\ meta' = IF c.meta THEN meta \cup {t} ELSE meta \ {t}
        /\ run' = [run EXCEPT ![t] = c.run] /\ pieces' = [pieces EXCEPT ![t] = c.pieces]
    BY <1>2 DEF Added
  <2>2. (t \in meta') <=> c.meta
    BY <2>1
  <2>3. \A x \in Torrents \ {t} : (x \in meta') <=> (x \in meta)
    BY <2>1
  <2>4. c = [meta |-> c.meta, run |-> c.run, pieces |-> c.pieces] /\ c.meta \in BOOLEAN
    BY DEF Content
  <2>5. run'[t] = c.run /\ pieces'[t] = c.pieces
    BY <2>1 DEF TypeOK
  <2>6. \A x \in Torrents \ {t} : run'[x] = run[x] /\ pieces'[x] = pieces[x]
    BY <2>1 DEF TypeOK
  <2>. QED BY <2>2, <2>3, <2>4, <2>5, <2>6 DEF Live, After
<1>. QED BY <1>1, <1>2

\* An addition saves the torrent that is added.
LEMMA PostsAdd ==
  ASSUME TypeOK, NEW t \in Torrents, NEW c \in Content, NEW fails \in BOOLEAN,
         Added(t, c), t \in Valid => c = Live(t),
         alerts' = alerts \o Answers(<<t>>, [Contents EXCEPT ![t] = c], fails)
  PROVE  LET r == Answers(<<t>>, [Contents EXCEPT ![t] = c], fails) IN
         Posted(alerts, r) /\ Len(r) = 1 /\ r[1].t = t /\ (c.meta => r[1].kind = "saved")
<1>. DEFINE q == <<t>>
            d == [Contents EXCEPT ![t] = c]
            r == Answers(q, d, fails)
<1>1. alerts' = alerts \o r
  OBVIOUS
<1>2. d \in [Torrents -> Content] /\ d[t] = c
  BY LiveType
<1>. HIDE DEF d
<1>3. q \in Seq(Torrents) /\ Len(q) = 1 /\ q[1] = t
  OBVIOUS
<1>. HIDE DEF q
<1>4. d[t] = After(t)
  BY <1>2, AddedLive
<1>5. /\ r \in Seq(Alert) /\ Len(r) = 1
      /\ NewAnswer(r[1]) /\ r[1].t = t
  BY <1>2, <1>3, <1>4, AnswersAreNew
<1>6. c.meta => r[1].kind = "saved"
  BY <1>2, <1>3, AnswersElements
<1>. HIDE DEF r
<1>7. Posted(alerts, r)
  <2>1. \A i \in 1..Len(r) : i = 1
    BY <1>5
  <2>. QED BY <1>1, <1>5, <2>1 DEF Posted
<1>. QED BY <1>5, <1>6, <1>7 DEF r, q, d

\* addTorrent saves what it adds, with the metadata it has.
LEMMA AddTorrentPosts ==
  ASSUME TypeOK, NEW t \in Torrents, NEW why \in {"runs", "user"}, AddTorrent(t, why)
  PROVE  \E r : Posted(alerts, r) /\ Len(r) = 1 /\ r[1].t = t /\ r[1].kind = "saved"
<1>. DEFINE c == IF t \in Valid THEN Live(t) ELSE [meta |-> TRUE, run |-> why, pieces |-> 0]
            d == [Contents EXCEPT ![t] = c]
            r == Answers(<<t>>, d, FALSE)
<1>1. c \in Content
  BY LiveType, BoundAssumption DEF Content, Reason
<1>2. Added(t, c) /\ alerts' = alerts \o r
  BY DEF AddTorrent
<1>3. t \in Valid => c = Live(t)
  OBVIOUS
<1>. HIDE DEF c
<1>4. Posted(alerts, r) /\ Len(r) = 1 /\ r[1].t = t
  BY <1>1, <1>2, <1>3, PostsAdd
<1>. HIDE DEF d
<1>5. r[1].kind = "saved"
  BY DEF Answers
<1>. HIDE DEF r
<1>. QED BY <1>4, <1>5

\* restoreRemoved saves what it restores; a magnet's save may fail.
LEMMA RestorePosts ==
  ASSUME TypeOK, NEW k \in Keys, NEW fails \in BOOLEAN, Restore(k, fails)
  PROVE  LET c == IF k[1] \in Valid THEN Live(k[1]) ELSE history[k] IN
         /\ c \in Content /\ Added(k[1], c) /\ k[1] \in Torrents
         /\ \E r : /\ Posted(alerts, r) /\ Len(r) = 1 /\ r[1].t = k[1]
                   /\ c.meta => r[1].kind = "saved"
<1>. DEFINE t == k[1]
            c == IF t \in Valid THEN Live(t) ELSE history[k]
<1>1. t \in Torrents /\ history[k] \in Content
  BY DEF Keys, TypeOK, Restore
<1>2. c \in Content
  BY <1>1, LiveType
<1>3. Added(t, c) /\ alerts' = alerts \o Answers(<<t>>, [Contents EXCEPT ![t] = c], fails)
  BY DEF Restore
<1>4. t \in Valid => c = Live(t)
  OBVIOUS
<1>. HIDE DEF c, t
<1>5. \E r : /\ Posted(alerts, r) /\ Len(r) = 1 /\ r[1].t = t
             /\ c.meta => r[1].kind = "saved"
  BY <1>1, <1>2, <1>3, <1>4, PostsAdd
<1>. QED BY <1>1, <1>2, <1>3, <1>5 DEF c, t

\* A removal leaves the answers of its torrent in the queue.
LEMMA OrphanedCount ==
  ASSUME TypeOK, NEW t
  PROVE  Count(Orphaned(t)) = Count(alerts)
<1>1. \A i \in 1..Len(alerts) : IsAnswer(Orphaned(t)[i]) <=> IsAnswer(alerts[i])
  <2>. TAKE i \in 1..Len(alerts)
  <2>1. alerts[i] \in Alert
    BY DEF TypeOK
  <2>. QED BY <2>1 DEF Orphaned, IsAnswer, Alert
<1>2. Len(Orphaned(t)) = Len(alerts)
  BY DEF TypeOK, Orphaned
<1>3. Due(Orphaned(t)) = Due(alerts)
  BY <1>1, <1>2 DEF Due
<1>. QED BY <1>3 DEF Count

\* Pause and resume save the torrents they are of.
LEMMA PostsRun ==
  ASSUME TypeOK, NEW S \in SUBSET Valid, NEW why \in {"runs", "user"}, NEW fails \in BOOLEAN,
         SetRun(S, why, fails)
  PROVE  \E r : Posted(alerts, r) /\ \A i \in 1..Len(r) : r[i].t \in S
<1>. DEFINE d == [t \in Torrents |-> [Live(t) EXCEPT !.run = why]]
            q == Entries(S)
            r == Answers(q, d, fails)
<1>1. d \in [Torrents -> Content]
  BY LiveType DEF Content, Reason
<1>2. q \in Seq(S) /\ S \subseteq Torrents
  BY EntriesExact, ValidType
<1>3. alerts' = alerts \o r
  BY DEF SetRun
<1>4. \A t \in S : d[t] = After(t)
  BY <1>2 DEF SetRun, Live, After
<1>. HIDE DEF d, q
<1>5. q \in Seq(Torrents) /\ \A i \in 1..Len(q) : q[i] \in S
  BY <1>2
<1>6. /\ r \in Seq(Alert) /\ Len(r) = Len(q)
      /\ \A i \in 1..Len(r) : NewAnswer(r[i]) /\ r[i].t = q[i]
  BY <1>1, <1>4, <1>5, AnswersAreNew
<1>. HIDE DEF r
<1>. QED BY <1>3, <1>5, <1>6 DEF Posted

\* saveResumeData asks for every torrent with metadata, and counts them.
LEMMA PostsSaving ==
  ASSUME TypeOK, Saving, UNCHANGED <<meta, run, pieces>>
  PROVE  \E r : /\ Posted(alerts, r) /\ outstanding' = outstanding + Len(r)
                /\ \A i \in 1..Len(r) : r[i].t \in Valid \cap cachedMeta /\ r[i].kind = "saved"
                /\ \A t \in Valid \cap cachedMeta : \E i \in 1..Len(r) : r[i].t = t
<1>. DEFINE S == Valid \cap cachedMeta
            q == Entries(S)
            r == Answers(q, Contents, FALSE)
<1>1. Contents \in [Torrents -> Content]
  BY LiveType
<1>2. q \in Seq(S) /\ S \subseteq Torrents
  BY EntriesExact, ValidType
<1>3. alerts' = alerts \o r /\ outstanding' = outstanding + Len(q)
  BY DEF Saving
<1>4. \A t \in Torrents : Contents[t] = After(t)
  BY DEF Contents, Live, After
<1>5. \A t \in S : \E i \in 1..Len(q) : q[i] = t
  <2>. TAKE t \in S
  <2>1. PICK j \in 1..Len(torrents) : torrents[j] = t
    BY ValidType
  <2>. QED BY <2>1, EntriesExact
<1>. HIDE DEF q
<1>6. q \in Seq(Torrents) /\ \A i \in 1..Len(q) : q[i] \in S
  BY <1>2
<1>7. /\ r \in Seq(Alert) /\ Len(r) = Len(q)
      /\ \A i \in 1..Len(r) : NewAnswer(r[i]) /\ r[i].t = q[i]
  <2>1. \A i \in 1..Len(q) : Contents[q[i]] = After(q[i])
    BY <1>4, <1>6
  <2>2. q \in Seq(Torrents)
    BY <1>6
  <2>. QED BY <1>1, <2>1, <2>2, AnswersAreNew
<1>13. \A i \in 1..Len(q) : r[i].kind = "saved"
  BY <1>6, AnswersAreSaved
<1>. HIDE DEF r
<1>8. Posted(alerts, r)
  BY <1>3, <1>7 DEF Posted
<1>9. \A i \in 1..Len(r) : r[i].t \in S /\ r[i].kind = "saved"
  BY <1>6, <1>7, <1>13
<1>10. \A t \in S : \E i \in 1..Len(r) : r[i].t = t
  BY <1>5, <1>7
<1>11. outstanding' = outstanding + Len(r)
  BY <1>3, <1>7
<1>. QED BY <1>8, <1>9, <1>10, <1>11, Zenon

\* Each answer that is posted counts one.
LEMMA PostedCount ==
  ASSUME NEW s \in Seq(Alert), NEW r, Posted(s, r)
  PROVE  Count(alerts') = Count(s) + Len(r) /\ Len(r) \in Nat /\ Count(s) \in Nat
<1>1. r \in Seq(Alert) /\ alerts' = s \o r /\ \A i \in 1..Len(r) : IsAnswer(r[i])
  BY DEF Posted, NewAnswer
<1>. QED BY <1>1, CountCat, DueFinite

-----------------------------------------------------------------------------
(* The count of outstanding answers *)

\* Outside a run nothing is listed, in flight or guarded.
Idle ==
  phase \in {"down", "loading"} =>
    torrents = <<>> /\ alerts = <<>> /\ removed = {} /\ outstanding = 0

\* Where the program does not run, nothing is in flight and nothing outstanding.
LEMMA IdleStep ==
  ASSUME TypeOK, Idle, Next
  PROVE  Idle'
<1>. USE DEF Idle, memory
<1>1. Libtorrent => Idle'
  BY DEF Libtorrent, StatusUpdate, MetadataArrives, PieceArrives
<1>2. ProcessAlerts => Idle'
  BY DEF ProcessAlerts, Processing, OnResumeDataReady, OnResumeDataFailed, OnMetadataReceived,
         OnPieceFinished, OnDeadHandle
<1>3. User => Idle'
  BY DEF User, UserMay, AddMagnet, AddTorrent, Restore, RemoveTorrent, ClearRemovedHistory, SetRun
<1>4. Session => Idle'
  BY DEF Session, UserMay, PauseForDisk, SaveResumeData, Quit, Crash, Start, FlushEnds, Forget,
         LoadResumeData
<1>. QED BY <1>1, <1>2, <1>3, <1>4 DEF Next

\* m_resumeOutstanding counts answers that are on their way; without the saves
\* of pauses and resumes, which are not counted, it counts them all.
Counted ==
  /\ outstanding <= Count(alerts)
  /\ "pause" \notin Ops => outstanding = Count(alerts)

\* m_resumeOutstanding grows with the answers and never faster.
LEMMA CountedStep ==
  ASSUME TypeOK, Idle, Counted, Next
  PROVE  Counted'
<1>. DEFINE pausing == "pause" \in Ops
            Ok(n, s) == n <= Count(s) /\ (~pausing => n = Count(s))
<1>0. /\ Ok(outstanding, alerts) /\ outstanding \in Nat /\ alerts \in Seq(Alert)
      /\ Count(alerts) \in Nat
  BY DueFinite DEF Counted, TypeOK
<1>. SUFFICES Ok(outstanding', alerts')
  BY DEF Counted
<1>. HIDE DEF pausing
<1>1. ASSUME UNCHANGED <<outstanding, alerts>> PROVE Ok(outstanding', alerts')
  BY <1>0, <1>1
<1>2. ASSUME NEW r, Posted(alerts, r), outstanding' = outstanding + Len(r)
      PROVE  Ok(outstanding', alerts')
  BY <1>0, <1>2, PostedCount
<1>3. ASSUME NEW kind, Processing(kind), IsAnswer(Head(alerts)), alerts' = Tail(alerts), OneLess
      PROVE  Ok(outstanding', alerts')
  <2>1. Tail(alerts) \in Seq(Alert) /\ alerts # <<>>
    BY <1>3, HeadType DEF Processing
  <2>2. Count(alerts) = Count(Tail(alerts)) + 1 /\ Count(Tail(alerts)) \in Nat
    BY <1>0, <1>3, <2>1, CountTail, DueFinite
  <2>. QED BY <1>0, <1>3, <2>2 DEF OneLess
<1>4. ASSUME NEW kind, Processing(kind), kind \notin {"saved", "failed"}
      PROVE  Count(Tail(alerts)) = Count(alerts) /\ Tail(alerts) \in Seq(Alert)
  <2>1. Tail(alerts) \in Seq(Alert) /\ alerts # <<>> /\ ~IsAnswer(Head(alerts))
    BY <1>4, HeadType DEF Processing, IsAnswer
  <2>2. Count(alerts) = Count(Tail(alerts)) + 0 /\ Count(Tail(alerts)) \in Nat
    BY <1>0, <2>1, CountTail, DueFinite
  <2>. QED BY <2>1, <2>2
<1>5. ASSUME NEW t \in Torrents, MetadataArrives(t) PROVE Ok(outstanding', alerts')
  <2>. DEFINE a == [kind |-> "metadata", t |-> t, data |-> Live(t)]
  <2>1. a \in Alert /\ ~IsAnswer(a)
    BY LiveType DEF Alert, Kinds, IsAnswer
  <2>2. alerts' = Append(alerts, a) /\ outstanding' = outstanding
    BY <1>5 DEF MetadataArrives
  <2>. HIDE DEF a
  <2>. QED BY <1>0, <2>1, <2>2, CountAppend
<1>6. ASSUME NEW t \in Torrents, PieceArrives(t) PROVE Ok(outstanding', alerts')
  <2>. DEFINE a == [kind |-> "piece", t |-> t, data |-> Live(t)]
  <2>1. a \in Alert /\ ~IsAnswer(a)
    BY LiveType DEF Alert, Kinds, IsAnswer
  <2>2. alerts' = Append(alerts, a) /\ outstanding' = outstanding
    BY <1>6 DEF PieceArrives
  <2>. HIDE DEF a
  <2>. QED BY <1>0, <2>1, <2>2, CountAppend
<1>7. ASSUME NEW ok \in Writes, OnResumeDataReady(ok) PROVE Ok(outstanding', alerts')
  BY <1>3, <1>7, HeadType DEF OnResumeDataReady, IsAnswer
<1>8. ASSUME OnResumeDataFailed PROVE Ok(outstanding', alerts')
  BY <1>3, <1>8, HeadType DEF OnResumeDataFailed, IsAnswer
<1>9. ASSUME OnMetadataReceived PROVE Ok(outstanding', alerts')
  <2>1. PICK r : Posted(Tail(alerts), r) /\ Len(r) = 1
    BY <1>9, PostsMetadata
  <2>2. Count(Tail(alerts)) = Count(alerts) /\ Tail(alerts) \in Seq(Alert)
    BY <1>4, <1>9 DEF OnMetadataReceived
  <2>3. outstanding' = outstanding + 1
    BY <1>9 DEF OnMetadataReceived
  <2>4. Count(alerts') = Count(Tail(alerts)) + Len(r)
    BY <2>1, <2>2, PostedCount
  <2>. QED BY <1>0, <2>1, <2>2, <2>3, <2>4
<1>10. ASSUME NEW due \in BOOLEAN, OnPieceFinished(due) PROVE Ok(outstanding', alerts')
  <2>1. PICK r : Posted(Tail(alerts), r) /\ outstanding' = outstanding + Len(r)
    BY <1>10, PostsPiece
  <2>2. Count(Tail(alerts)) = Count(alerts) /\ Tail(alerts) \in Seq(Alert)
    BY <1>4, <1>10 DEF OnPieceFinished
  <2>3. Count(alerts') = Count(Tail(alerts)) + Len(r) /\ Len(r) \in Nat
    BY <2>1, <2>2, PostedCount
  <2>. QED BY <1>0, <2>1, <2>2, <2>3
<1>11. ASSUME OnDeadHandle PROVE Ok(outstanding', alerts')
  BY <1>0, <1>4, <1>11 DEF OnDeadHandle
<1>12. ASSUME NEW t \in Torrents, NEW ok \in Writes, AddMagnet(t, ok) PROVE Ok(outstanding', alerts')
  BY <1>1, <1>12 DEF AddMagnet
<1>13. ASSUME NEW t \in Torrents, NEW why \in {"runs", "user"}, AddTorrent(t, why)
       PROVE  Ok(outstanding', alerts')
  <2>1. PICK r : Posted(alerts, r) /\ Len(r) = 1
    BY <1>13, AddTorrentPosts
  <2>2. outstanding' = outstanding + 1
    BY <1>13 DEF AddTorrent
  <2>. QED BY <1>2, <2>1, <2>2
<1>14. ASSUME NEW k \in Keys, NEW fails \in BOOLEAN, Restore(k, fails) PROVE Ok(outstanding', alerts')
  <2>1. PICK r : Posted(alerts, r) /\ Len(r) = 1
    BY <1>14, RestorePosts
  <2>2. outstanding' = outstanding + 1
    BY <1>14 DEF Restore
  <2>. QED BY <1>2, <2>1, <2>2
<1>15. ASSUME NEW i \in 1..Len(torrents), NEW old \in Old, RemoveTorrent(i, old)
       PROVE  Ok(outstanding', alerts')
  <2>1. CASE torrents[i] = None
    BY <1>1, <1>15, <2>1 DEF RemoveTorrent
  <2>2. CASE torrents[i] # None
    <3>1. alerts' = Orphaned(torrents[i]) /\ outstanding' = outstanding
      BY <1>15, <2>2 DEF RemoveTorrent
    <3>. QED BY <1>0, <3>1, OrphanedCount
  <2>. QED BY <2>1, <2>2
<1>16. ASSUME ClearRemovedHistory PROVE Ok(outstanding', alerts')
  BY <1>1, <1>16 DEF ClearRemovedHistory, memory
<1>17. ASSUME NEW S \in SUBSET Valid, NEW why \in {"runs", "user"}, NEW fails \in BOOLEAN,
              SetRun(S, why, fails)
       PROVE  Ok(outstanding', alerts')
  <2>1. pausing /\ outstanding' = outstanding
    BY <1>17 DEF SetRun, UserMay, pausing
  <2>2. PICK r : Posted(alerts, r)
    BY <1>17, PostsRun
  <2>. QED BY <1>0, <2>1, <2>2, PostedCount
<1>18. ASSUME Saving, UNCHANGED <<meta, run, pieces>> PROVE Ok(outstanding', alerts')
  BY <1>2, <1>18, PostsSaving
<1>19. ASSUME Forget PROVE Ok(outstanding', alerts')
  <2>1. outstanding' = 0 /\ alerts' = <<>>
    BY <1>19 DEF Forget
  <2>2. Count(<<>>) = 0
    <3>1. Due(<<>>) = {}
      BY DEF Due
    <3>. QED BY <3>1, FS_EmptySet DEF Count
  <2>. QED BY <2>1, <2>2
<1>20. Libtorrent => Ok(outstanding', alerts')
  <2>1. StatusUpdate => Ok(outstanding', alerts')
    BY <1>1 DEF StatusUpdate
  <2>. QED BY <1>5, <1>6, <2>1 DEF Libtorrent
<1>21. ProcessAlerts => Ok(outstanding', alerts')
  BY <1>7, <1>8, <1>9, <1>10, <1>11 DEF ProcessAlerts
<1>22. User => Ok(outstanding', alerts')
  BY <1>12, <1>13, <1>14, <1>15, <1>16, <1>17 DEF User
<1>23. Session => Ok(outstanding', alerts')
  <2>1. PauseForDisk \/ Start \/ (\E best \in BOOLEAN, old \in Old, fate \in Fates : LoadResumeData(best, old, fate))
          => UNCHANGED <<outstanding, alerts>>
    BY DEF PauseForDisk, Start, LoadResumeData, memory
  <2>2. SaveResumeData \/ Quit => Saving /\ UNCHANGED <<meta, run, pieces>>
    BY DEF SaveResumeData, Quit
  <2>3. Crash \/ (\E late \in BOOLEAN : FlushEnds(late)) => Forget
    BY DEF Crash, FlushEnds
  <2>. QED BY <1>1, <1>18, <1>19, <2>1, <2>2, <2>3 DEF Session
<1>. QED BY <1>20, <1>21, <1>22, <1>23 DEF Next

\* Every reachable state is of its type: the files, the list, the alerts and
\* the counters (SessionManager's members and the .resume files).
THEOREM TypeCorrect == Spec => []TypeOK
<1>1. Init => TypeOK
  <2>. SUFFICES ASSUME Init PROVE TypeOK
    OBVIOUS
  <2>1. torrents \in Seq(Torrents \cup {None}) /\ alerts \in Seq(Alert)
    BY DEF Init
  <2>2. run \in [Torrents -> Reason] /\ pieces \in [Torrents -> 0..MaxPieces] /\ outstanding \in Nat
    BY BoundAssumption DEF Init, Reason
  <2>. QED BY <2>1, <2>2 DEF Init, TypeOK
<1>2. TypeOK /\ [Next]_vars => TypeOK'
  <2>1. TypeOK /\ UNCHANGED vars => TypeOK'
    BY DEF TypeOK, vars, memory, disk, ghosts
  <2>. QED BY <2>1, TypeStep
<1>. QED BY <1>1, <1>2, PTL DEF Spec

\* The flush at exit never waits for an answer that nobody sends: whatever the
\* order of saves, removals, crashes and restarts, m_resumeOutstanding is at
\* most the number of answers in flight.
THEOREM FlushWaitsForAnswers == Spec => []FlushAwaitsAnAnswer
<1>1. Init => Idle /\ Counted
  <2>1. Due(<<>>) = {}
    BY DEF Due
  <2>2. Count(<<>>) = 0
    BY <2>1, FS_EmptySet DEF Count
  <2>. QED BY <2>2 DEF Init, Idle, Counted
<1>2. TypeOK /\ Idle /\ Counted /\ [Next]_vars => (Idle /\ Counted)'
  <2>1. Idle /\ Counted /\ UNCHANGED vars => (Idle /\ Counted)'
    BY DEF Idle, Counted, vars, memory, disk, ghosts
  <2>. QED BY <2>1, IdleStep, CountedStep
<1>3. Counted => FlushAwaitsAnAnswer
  BY DEF Counted, FlushAwaitsAnAnswer, Count, Due, IsAnswer
<1>. QED BY <1>1, <1>2, <1>3, TypeCorrect, PTL DEF Spec

-----------------------------------------------------------------------------
(* The queue of alerts as a set, and the list of torrents *)

\* An alert is in the queue if it has a place there.
LEMMA RangeElements ==
  ASSUME NEW S, NEW s \in Seq(S)
  PROVE  \A x : x \in Range(s) <=> \E i \in 1..Len(s) : s[i] = x
BY DEF Range

\* Handling takes the first alert and no other.
LEMMA RangeHandled ==
  ASSUME TypeOK, NEW kind, Processing(kind)
  PROVE  Range(alerts) = {Head(alerts)} \cup Range(Tail(alerts))
<1>1. /\ Head(alerts) = alerts[1] /\ Len(alerts) \in Nat \ {0}
      /\ Tail(alerts) \in Seq(Alert) /\ Len(Tail(alerts)) = Len(alerts) - 1
      /\ \A i \in 1..Len(alerts)-1 : Tail(alerts)[i] = alerts[i+1]
  BY HeadType
<1>2. /\ DOMAIN alerts = 1..Len(alerts) /\ DOMAIN Tail(alerts) = 1..Len(alerts)-1
  BY <1>1 DEF TypeOK
<1>3. ASSUME NEW x \in Range(alerts), x # Head(alerts) PROVE x \in Range(Tail(alerts))
  <2>1. PICK i \in 1..Len(alerts) : alerts[i] = x
    BY <1>2 DEF Range
  <2>2. i - 1 \in 1..Len(alerts)-1 /\ (i - 1) + 1 = i
    BY <1>1, <1>3, <2>1
  <2>3. Tail(alerts)[i - 1] = x
    BY <1>1, <2>1, <2>2
  <2>. QED BY <1>2, <2>2, <2>3 DEF Range
<1>4. ASSUME NEW x \in Range(Tail(alerts)) PROVE x \in Range(alerts)
  <2>1. PICK i \in 1..Len(alerts)-1 : Tail(alerts)[i] = x
    BY <1>2 DEF Range
  <2>2. i + 1 \in 1..Len(alerts) /\ alerts[i + 1] = x
    BY <1>1, <2>1
  <2>. QED BY <1>2, <2>2 DEF Range
<1>5. Head(alerts) \in Range(alerts)
  BY <1>1, <1>2 DEF Range
<1>. QED BY <1>3, <1>4, <1>5

\* What is posted joins what is there.
LEMMA RangePosted ==
  ASSUME NEW s \in Seq(Alert), NEW r, Posted(s, r)
  PROVE  /\ Range(alerts') = Range(s) \cup Range(r)
         /\ \A a \in Range(r) : NewAnswer(a) /\ \E i \in 1..Len(r) : r[i] = a
         /\ \A i \in 1..Len(r) : r[i] \in Range(r)
<1>1. r \in Seq(Alert) /\ alerts' = s \o r /\ \A i \in 1..Len(r) : NewAnswer(r[i])
  BY DEF Posted
<1>2. /\ Len(s) \in Nat /\ Len(r) \in Nat /\ s \o r \in Seq(Alert) /\ Len(s \o r) = Len(s) + Len(r)
      /\ \A i \in 1..Len(s) : (s \o r)[i] = s[i]
      /\ \A i \in 1..Len(r) : (s \o r)[Len(s) + i] = r[i]
  BY <1>1, CatElements
<1>3. \A x : x \in Range(r) <=> \E i \in 1..Len(r) : r[i] = x
  BY <1>1, RangeElements
<1>4. \A x : x \in Range(s) <=> \E i \in 1..Len(s) : s[i] = x
  BY RangeElements
<1>5. \A x : x \in Range(s \o r) <=> \E i \in 1..Len(s \o r) : (s \o r)[i] = x
  BY <1>2, RangeElements
<1>6. ASSUME NEW x \in Range(s \o r) PROVE x \in Range(s) \cup Range(r)
  <2>1. PICK i \in 1..Len(s) + Len(r) : (s \o r)[i] = x
    BY <1>2, <1>5
  <2>2. CASE i <= Len(s)
    BY <1>2, <1>4, <2>1, <2>2
  <2>3. CASE i > Len(s)
    <3>1. i - Len(s) \in 1..Len(r) /\ Len(s) + (i - Len(s)) = i
      BY <1>2, <2>3
    <3>2. r[i - Len(s)] = x
      BY <1>2, <2>1, <3>1
    <3>. QED BY <1>3, <3>1, <3>2
  <2>. QED BY <1>2, <2>2, <2>3
<1>7. ASSUME NEW x \in Range(s) PROVE x \in Range(s \o r)
  BY <1>2, <1>4, <1>5
<1>8. ASSUME NEW x \in Range(r) PROVE x \in Range(s \o r)
  <2>1. PICK i \in 1..Len(r) : r[i] = x
    BY <1>3
  <2>2. Len(s) + i \in 1..Len(s) + Len(r) /\ (s \o r)[Len(s) + i] = x
    BY <1>2, <2>1
  <2>. QED BY <1>2, <1>5, <2>2
<1>. QED BY <1>1, <1>3, <1>6, <1>7, <1>8

\* A single alert joins what is there.
LEMMA RangeAppend ==
  ASSUME NEW S, NEW s \in Seq(S), NEW x \in S
  PROVE  Range(Append(s, x)) = Range(s) \cup {x}
<1>1. /\ Append(s, x) \in Seq(S) /\ Len(Append(s, x)) = Len(s) + 1
      /\ \A i \in 1..Len(s) : Append(s, x)[i] = s[i]
      /\ Append(s, x)[Len(s) + 1] = x /\ Len(s) \in Nat
  BY AppendElements
<1>2. \A y : y \in Range(s) <=> \E i \in 1..Len(s) : s[i] = y
  BY RangeElements
<1>. DEFINE r == Append(s, x)
<1>3. r \in Seq(S) /\ Len(r) = Len(s) + 1
  BY <1>1
<1>4. \A i \in 1..Len(s) : r[i] = s[i]
  BY <1>1
<1>5. r[Len(s) + 1] = x
  BY <1>1
<1>. HIDE DEF r
<1>6. \A y : y \in Range(r) <=> \E i \in 1..Len(r) : r[i] = y
  BY <1>3, RangeElements
<1>7. Range(r) = Range(s) \cup {x}
  BY <1>1, <1>2, <1>3, <1>4, <1>5, <1>6
<1>. QED BY <1>7 DEF r

\* A removal turns the torrent's news into alerts of a dead handle.
LEMMA RangeOrphaned ==
  ASSUME TypeOK, NEW t
  PROVE  /\ \A b \in Range(Orphaned(t)) : \E a \in Range(alerts) :
              /\ b.t = a.t /\ b.data = a.data
              /\ b.kind = IF a.t = t /\ a.kind \in {"metadata", "piece"} THEN "dead" ELSE a.kind
         /\ \A a \in Range(alerts) : a.t # t => a \in Range(Orphaned(t))
<1>1. /\ Orphaned(t) = [i \in 1..Len(alerts) |->
           IF alerts[i].t = t /\ alerts[i].kind \in {"metadata", "piece"}
           THEN [alerts[i] EXCEPT !.kind = "dead"] ELSE alerts[i]]
      /\ DOMAIN alerts = 1..Len(alerts) /\ \A i \in 1..Len(alerts) : alerts[i] \in Alert
  BY DEF TypeOK, Orphaned
<1>2. \A i \in 1..Len(alerts) : LET a == alerts[i]  b == Orphaned(t)[i] IN
        /\ b.t = a.t /\ b.data = a.data
        /\ b.kind = IF a.t = t /\ a.kind \in {"metadata", "piece"} THEN "dead" ELSE a.kind
        /\ a.t # t => b = a
  BY <1>1 DEF Alert
<1>3. DOMAIN Orphaned(t) = 1..Len(alerts)
  BY <1>1
<1>4. ASSUME NEW b \in Range(Orphaned(t))
      PROVE  \E a \in Range(alerts) :
               /\ b.t = a.t /\ b.data = a.data
               /\ b.kind = IF a.t = t /\ a.kind \in {"metadata", "piece"} THEN "dead" ELSE a.kind
  <2>1. PICK i \in 1..Len(alerts) : b = Orphaned(t)[i]
    BY <1>3 DEF Range
  <2>2. alerts[i] \in Range(alerts)
    BY <1>1 DEF Range
  <2>. QED BY <1>2, <2>1, <2>2
<1>5. ASSUME NEW a \in Range(alerts), a.t # t
      PROVE  a \in Range(Orphaned(t))
  <2>1. PICK i \in 1..Len(alerts) : a = alerts[i]
    BY <1>1 DEF Range
  <2>2. Orphaned(t)[i] = a
    BY <1>2, <1>5, <2>1
  <2>. QED BY <1>3, <2>2 DEF Range
<1>. QED BY <1>4, <1>5

\* An addition adds its torrent to the list and no other.
LEMMA ValidAppended ==
  ASSUME TypeOK, NEW t \in Torrents, torrents' = Append(torrents, t)
  PROVE  Valid' = Valid \cup {t}
<1>1. Range(torrents') = Range(torrents) \cup {t}
  <2>1. torrents \in Seq(Torrents \cup {None}) /\ t \in Torrents \cup {None}
    BY DEF TypeOK
  <2>. QED BY <2>1, RangeAppend
<1>. QED BY <1>1, NoneAssumption DEF Valid

\* A removal takes its torrent out of the list and no other.
LEMMA ValidRemoved ==
  ASSUME TypeOK, NEW i \in 1..Len(torrents), NEW old, RemoveTorrent(i, old)
  PROVE  Valid' = Valid \ {torrents[i]}
<1>. DEFINE q == RemoveAt(torrents, i)
            N == Len(torrents) - 1
<1>1. /\ q \in Seq(Torrents \cup {None}) /\ Len(q) = N /\ Len(torrents) \in Nat \ {0}
      /\ \A j \in 1..N : q[j] = IF j < i THEN torrents[j] ELSE torrents[j+1]
  <2>1. torrents \in Seq(Torrents \cup {None})
    BY DEF TypeOK
  <2>2. Len(torrents) \in Nat \ {0}
    BY <2>1
  <2>. QED BY <2>1, <2>2, RemoveAtElements
<1>2. \A x : x \in Range(torrents) <=> \E j \in 1..Len(torrents) : torrents[j] = x
  BY RangeElements DEF TypeOK
<1>. HIDE DEF q
<1>3. \A x : x \in Range(q) <=> \E j \in 1..N : q[j] = x
  BY <1>1, RangeElements
<1>4. \A x \in Range(q) : x \in Range(torrents)
  <2>. TAKE x \in Range(q)
  <2>1. PICK j \in 1..N : q[j] = x
    BY <1>3
  <2>2. j \in 1..Len(torrents) /\ j + 1 \in 1..Len(torrents)
    BY <1>1
  <2>. QED BY <1>1, <1>2, <2>1, <2>2
<1>5. \A x \in Range(torrents) : x # torrents[i] => x \in Range(q)
  <2>. TAKE x \in Range(torrents)
  <2>. HAVE x # torrents[i]
  <2>1. PICK j \in 1..Len(torrents) : torrents[j] = x
    BY <1>2
  <2>2. CASE j < i
    BY <1>1, <1>3, <2>1, <2>2
  <2>3. CASE j > i
    <3>1. j - 1 \in 1..N /\ ~(j - 1 < i) /\ (j - 1) + 1 = j
      BY <1>1, <2>3
    <3>2. q[j - 1] = x
      BY <1>1, <2>1, <3>1
    <3>. QED BY <1>3, <3>1, <3>2
  <2>. QED BY <2>1, <2>2, <2>3
<1>6. CASE torrents[i] = None
  <2>1. torrents' = q
    BY <1>6 DEF RemoveTorrent, q
  <2>. QED BY <1>4, <1>5, <1>6, <2>1 DEF Valid
<1>7. CASE torrents[i] # None
  <2>1. torrents' = [j \in 1..N |-> IF q[j] = torrents[i] THEN None ELSE q[j]]
    BY <1>7 DEF RemoveTorrent, q
  <2>2. \A x : x \in Range(torrents') <=> \E j \in 1..N : x = IF q[j] = torrents[i] THEN None ELSE q[j]
    BY <1>1, <2>1 DEF Range
  <2>3. \A x : x # None => (x \in Range(torrents') <=> x # torrents[i] /\ x \in Range(q))
    BY <1>3, <1>7, <2>2
  <2>. QED BY <1>4, <1>5, <2>3 DEF Valid
<1>. QED BY <1>6, <1>7

-----------------------------------------------------------------------------
(* Torrents with one hash *)

\* The alerts of a torrent that are not answers die with its handle.
Alive == \A a \in Range(alerts) : a.kind \in {"metadata", "piece"} => a.t \in Valid

\* News in flight are of torrents that are in the list.
LEMMA AliveStep ==
  ASSUME TypeOK, Idle, Alive, Next
  PROVE  Alive'
<1>. USE DEF Alive
<1>0. alerts \in Seq(Alert) /\ \A a : IsAnswer(a) => a.kind \notin {"metadata", "piece"}
  BY DEF TypeOK, IsAnswer
<1>1. ASSUME Valid \subseteq Valid', Range(alerts') \subseteq Range(alerts) PROVE Alive'
  BY <1>1
<1>2. ASSUME NEW s \in Seq(Alert), NEW r, Posted(s, r), Range(s) \subseteq Range(alerts),
             Valid \subseteq Valid'
      PROVE  Alive'
  BY <1>0, <1>2, RangePosted DEF NewAnswer
<1>3. ASSUME NEW kind, Processing(kind)
      PROVE  Range(Tail(alerts)) \subseteq Range(alerts) /\ Tail(alerts) \in Seq(Alert)
  BY <1>3, RangeHandled, HeadType
<1>4. UNCHANGED torrents => Valid' = Valid
  BY DEF Valid
<1>5. ASSUME NEW t \in Valid, NEW a \in Alert, a.t = t, alerts' = Append(alerts, a), UNCHANGED torrents
      PROVE  Alive'
  <2>1. Range(alerts') = Range(alerts) \cup {a}
    BY <1>0, <1>5, RangeAppend
  <2>. QED BY <1>4, <1>5, <2>1
<1>6. Libtorrent => Alive'
  <2>1. StatusUpdate => Alive'
    BY <1>1, <1>4 DEF StatusUpdate
  <2>2. ASSUME NEW t \in Torrents, MetadataArrives(t) PROVE Alive'
    <3>. DEFINE a == [kind |-> "metadata", t |-> t, data |-> Live(t)]
    <3>1. a \in Alert /\ a.t = t
      BY LiveType DEF Alert, Kinds
    <3>. HIDE DEF a
    <3>. QED BY <1>5, <2>2, <3>1 DEF MetadataArrives, a
  <2>3. ASSUME NEW t \in Torrents, PieceArrives(t) PROVE Alive'
    <3>. DEFINE a == [kind |-> "piece", t |-> t, data |-> Live(t)]
    <3>1. a \in Alert /\ a.t = t
      BY LiveType DEF Alert, Kinds
    <3>. HIDE DEF a
    <3>. QED BY <1>5, <2>3, <3>1 DEF PieceArrives, a
  <2>. QED BY <2>1, <2>2, <2>3 DEF Libtorrent
<1>7. ProcessAlerts => Alive'
  <2>1. (\E ok \in Writes : OnResumeDataReady(ok)) \/ OnResumeDataFailed \/ OnDeadHandle => Alive'
    BY <1>1, <1>3, <1>4 DEF OnResumeDataReady, OnResumeDataFailed, OnDeadHandle
  <2>2. ASSUME OnMetadataReceived PROVE Alive'
    <3>1. Valid' = Valid /\ Range(Tail(alerts)) \subseteq Range(alerts) /\ Tail(alerts) \in Seq(Alert)
      BY <1>3, <1>4, <2>2 DEF OnMetadataReceived
    <3>2. PICK r : Posted(Tail(alerts), r)
      BY <2>2, PostsMetadata
    <3>. QED BY <1>2, <3>1, <3>2
  <2>3. ASSUME NEW due \in BOOLEAN, OnPieceFinished(due) PROVE Alive'
    <3>1. Valid' = Valid /\ Range(Tail(alerts)) \subseteq Range(alerts) /\ Tail(alerts) \in Seq(Alert)
      BY <1>3, <1>4, <2>3 DEF OnPieceFinished
    <3>2. PICK r : Posted(Tail(alerts), r)
      BY <2>3, PostsPiece
    <3>. QED BY <1>2, <3>1, <3>2
  <2>. QED BY <2>1, <2>2, <2>3 DEF ProcessAlerts
<1>8. User => Alive'
  <2>1. ASSUME NEW t \in Torrents, NEW ok \in Writes, AddMagnet(t, ok) PROVE Alive'
    BY <1>1, <2>1, ValidAppended DEF AddMagnet
  <2>2. ASSUME NEW t \in Torrents, NEW why \in {"runs", "user"}, AddTorrent(t, why) PROVE Alive'
    <3>1. PICK r : Posted(alerts, r)
      BY <2>2, AddTorrentPosts
    <3>2. Valid' = Valid \cup {t}
      BY <2>2, ValidAppended DEF AddTorrent
    <3>. QED BY <1>0, <1>2, <3>1, <3>2
  <2>3. ASSUME NEW k \in Keys, NEW fails \in BOOLEAN, Restore(k, fails) PROVE Alive'
    <3>1. PICK r : Posted(alerts, r)
      BY <2>3, RestorePosts
    <3>2. Valid' = Valid \cup {k[1]}
      BY <2>3, RestorePosts, ValidAppended DEF Restore
    <3>. QED BY <1>0, <1>2, <3>1, <3>2
  <2>4. ASSUME NEW i \in 1..Len(torrents), NEW old \in Old, RemoveTorrent(i, old) PROVE Alive'
    <3>1. Valid' = Valid \ {torrents[i]}
      BY <2>4, ValidRemoved
    <3>2. CASE torrents[i] = None
      <4>1. alerts' = alerts /\ None \notin Valid
        BY <2>4, <3>2 DEF RemoveTorrent, Valid
      <4>. QED BY <1>1, <3>1, <3>2, <4>1
    <3>3. CASE torrents[i] # None
      <4>1. alerts' = Orphaned(torrents[i])
        BY <2>4, <3>3 DEF RemoveTorrent
      <4>2. \A b \in Range(alerts') : \E a \in Range(alerts) :
              /\ b.t = a.t
              /\ b.kind = IF a.t = torrents[i] /\ a.kind \in {"metadata", "piece"} THEN "dead" ELSE a.kind
        BY <4>1, RangeOrphaned
      <4>. QED BY <3>1, <4>2
    <3>. QED BY <3>2, <3>3
  <2>5. ASSUME NEW S \in SUBSET Valid, NEW why \in {"runs", "user"}, NEW fails \in BOOLEAN,
               SetRun(S, why, fails)
        PROVE  Alive'
    <3>1. PICK r : Posted(alerts, r)
      BY <2>5, PostsRun
    <3>2. Valid' = Valid
      BY <1>4, <2>5 DEF SetRun
    <3>. QED BY <1>0, <1>2, <3>1, <3>2
  <2>6. ClearRemovedHistory => Alive'
    BY <1>1, <1>4 DEF ClearRemovedHistory, memory
  <2>. QED BY <2>1, <2>2, <2>3, <2>4, <2>5, <2>6 DEF User
<1>9. Session => Alive'
  <2>1. ASSUME Saving, UNCHANGED <<torrents, meta, run, pieces>> PROVE Alive'
    <3>1. PICK r : Posted(alerts, r)
      BY <2>1, PostsSaving
    <3>. QED BY <1>0, <1>2, <1>4, <2>1, <3>1
  <2>2. PauseForDisk \/ Start => Alive'
    BY <1>1, <1>4 DEF PauseForDisk, Start, memory
  <2>3. Forget => Alive'
    BY DEF Forget, Range
  <2>4. ASSUME NEW best \in BOOLEAN, NEW old \in Old, NEW fate \in Fates, LoadResumeData(best, old, fate), Idle PROVE Alive'
    BY <2>4 DEF LoadResumeData, Idle, Range
  <2>. QED BY <2>1, <2>2, <2>3, <2>4 DEF Session, SaveResumeData, Quit, Crash, FlushEnds
<1>. QED BY <1>6, <1>7, <1>8, <1>9 DEF Next

\* No hybrid torrents, no files that something else damages, and no magnets
\* together with the removed-history.
Plain == Hybrid = {} /\ "damage" \notin Ops /\ ~({"magnet", "restore"} \subseteq Ops)

\* Without hybrid torrents a torrent has one file name.
LEMMA PlainKey ==
  ASSUME Plain
  PROVE  /\ \A t, m : Key(t, m) = <<t, "best">>
         /\ \A t : Stale(t) = {}
         /\ \A k \in Keys : k = <<k[1], "uri">> \/ k = <<k[1], "best">>
         /\ \A t \in Torrents : <<t, "best">> \in Keys /\ <<t, "uri">> \in Keys
BY DEF Plain, Key, Stale, Keys

\* The other hash of a torrent names nothing.
Hashes == \A t \in Torrents : file[<<t, "uri">>] = None /\ <<t, "uri">> \notin removed

\* So it has a file if it has the file of that name.
LEMMA HasPlainFile ==
  ASSUME Plain, Hashes, NEW t \in Torrents
  PROVE  HasFile(t) <=> file[<<t, "best">>] # None
<1>1. KeysOf(t) = {<<t, "uri">>, <<t, "best">>}
  BY DEF KeysOf, Keys
<1>. QED BY <1>1 DEF HasFile, Hashes

\* What removeTorrent does to files and guards
LEMMA RemoveEffects ==
  ASSUME TypeOK, Plain, NEW i \in 1..Len(torrents), NEW old, RemoveTorrent(i, old),
         torrents[i] # None, torrents[i] \in meta \cup uriKnown
  PROVE  LET t == torrents[i] IN
         /\ t \in Valid
         /\ file' = [file EXCEPT ![<<t, "best">>] = None]
         /\ removed' = Noted(<<t, "best">>)
         /\ gone' = gone \cup {t} /\ meta' = meta \ {t} /\ uriKnown' = uriKnown \ {t}
         /\ alerts' = Orphaned(t)
         /\ \A k \in Keys : history'[k] = None \/ history'[k] = history[k] \/ history'[k] = file[<<t, "best">>]
<1>. DEFINE t == torrents[i]
            k == Key(t, t \in meta)
<1>1. k = <<t, "best">>
  BY PlainKey
<1>2. /\ file' = [file EXCEPT ![k] = None] /\ removed' = Noted(k)
      /\ history' = Pruned([history EXCEPT ![k] = file[k]], old \ {k})
      /\ gone' = gone \cup {t} /\ meta' = meta \ {t} /\ uriKnown' = uriKnown \ {t}
      /\ alerts' = Orphaned(t)
  BY DEF RemoveTorrent
<1>3. t \in Valid
  BY DEF TypeOK, Valid, Range
<1>. HIDE DEF k, t
<1>4. \A x \in Keys : history'[x] = None \/ history'[x] = history[x] \/ history'[x] = file[k]
  BY <1>2 DEF Pruned, TypeOK
<1>. QED BY <1>1, <1>2, <1>3, <1>4 DEF t

\* What addMagnet does: the torrent is new, and has its file at once.
LEMMA MagnetEffects ==
  ASSUME TypeOK, Plain, NEW t \in Torrents, NEW ok \in Writes, AddMagnet(t, ok)
  PROVE  /\ "magnet" \in Ops /\ t \notin Valid /\ Valid' = Valid \cup {t}
         /\ <<t, "best">> \in removed => "readd" \in Ops
         /\ meta' = meta \ {t} /\ uriKnown' = uriKnown \cup {t}
         /\ file' = IF ok THEN [file EXCEPT ![<<t, "best">>] = [meta |-> FALSE, run |-> "runs", pieces |-> 0]]
                     ELSE file
         /\ UNCHANGED <<phase, removed, outstanding, alerts, history>> /\ gone' = gone \ {t}
<1>. DEFINE c == [meta |-> FALSE, run |-> "runs", pieces |-> 0]
<1>1. /\ "magnet" \in Ops /\ ~IsDuplicate(t, FALSE)
      /\ Key(t, FALSE) \in removed => "readd" \in Ops
      /\ Added(t, c) /\ torrents' = Append(torrents, t)
      /\ uriKnown' = uriKnown \cup {t} /\ PersistMagnetParams(t, c, ok)
      /\ UNCHANGED <<phase, removed, outstanding, alerts, history>> /\ gone' = gone \ {t}
  BY DEF AddMagnet, UserMay
<1>2. c.meta = FALSE
  OBVIOUS
<1>. HIDE DEF c
<1>3. t \notin Valid
  BY <1>1 DEF IsDuplicate, Plain
<1>4. meta' = meta \ {t}
  BY <1>1, <1>2, <1>3 DEF Added
<1>5. file' = IF ok THEN [file EXCEPT ![<<t, "best">>] = c] ELSE file
  BY <1>1, PlainKey DEF PersistMagnetParams
<1>6. Valid' = Valid \cup {t}
  BY <1>1, ValidAppended
<1>7. <<t, "best">> \in removed => "readd" \in Ops
  BY <1>1, PlainKey
<1>. QED BY <1>1, <1>3, <1>4, <1>5, <1>6, <1>7 DEF c

\* What addTorrent does
LEMMA AddEffects ==
  ASSUME TypeOK, Plain, NEW t \in Torrents, NEW why \in {"runs", "user"}, AddTorrent(t, why)
  PROVE  /\ t \notin Valid /\ Valid' = Valid \cup {t} /\ meta' = meta \cup {t}
         /\ <<t, "best">> \in removed => "readd" \in Ops
         /\ UNCHANGED <<phase, uriKnown, removed, file, history>> /\ gone' = gone \ {t}
<1>. DEFINE c == IF t \in Valid THEN Live(t) ELSE [meta |-> TRUE, run |-> why, pieces |-> 0]
<1>1. /\ ~IsDuplicate(t, TRUE) /\ Added(t, c) /\ torrents' = Append(torrents, t)
      /\ Key(t, TRUE) \in removed => "readd" \in Ops
      /\ UNCHANGED <<phase, uriKnown, removed, file, history>> /\ gone' = gone \ {t}
  BY DEF AddTorrent, disk
<1>2. t \notin Valid
  BY <1>1 DEF IsDuplicate, Plain
<1>3. c.meta = TRUE
  BY <1>2
<1>. HIDE DEF c
<1>4. meta' = meta \cup {t}
  BY <1>1, <1>2, <1>3 DEF Added
<1>. QED BY <1>1, <1>2, <1>4, ValidAppended, PlainKey

\* A torrent that is listed can be removed under its hash; without magnets
\* everything has its metadata.
Known ==
  /\ Valid \subseteq meta \cup uriKnown
  /\ "magnet" \notin Ops =>
       /\ Valid \subseteq meta
       /\ \A k \in Keys : (file[k] # None => file[k].meta) /\ (history[k] # None => history[k].meta)
       /\ \A a \in Range(alerts) : a.data.meta /\ a.kind # "metadata"

\* No file is named by another hash.
LEMMA HashesStep ==
  ASSUME TypeOK, Plain, Known, Hashes, Next
  PROVE  Hashes'
<1>. USE DEF Hashes
<1>0. file \in [Keys -> Content \cup {None}] /\ removed \subseteq Keys
  BY DEF TypeOK
<1>1. ASSUME UNCHANGED <<file, removed>> PROVE Hashes'
  BY <1>1
<1>6. ASSUME NEW t, NEW c, file' = [file EXCEPT ![<<t, "best">>] = c],
             removed' \subseteq removed \cup {<<t, "best">>}
      PROVE  Hashes'
  <2>. SUFFICES ASSUME NEW x \in Torrents
                PROVE  file'[<<x, "uri">>] = None /\ <<x, "uri">> \notin removed'
    OBVIOUS
  <2>1. <<x, "uri">> # <<t, "best">> /\ <<x, "uri">> \in Keys
    BY PlainKey
  <2>2. file'[<<x, "uri">>] = file[<<x, "uri">>]
    BY <1>0, <1>6, <2>1
  <2>. QED BY <1>6, <2>1, <2>2
<1>2. Libtorrent => UNCHANGED <<file, removed>>
  BY DEF Libtorrent, StatusUpdate, MetadataArrives, PieceArrives, disk
<1>3. ProcessAlerts => Hashes'
  <2>1. ASSUME NEW ok \in Writes, OnResumeDataReady(ok) PROVE Hashes'
    <3>. DEFINE t == Head(alerts).t
                c == Head(alerts).data
    <3>1. file' = Written(<<t, "best">>, c, ok) /\ removed' = removed
      BY <2>1, PlainKey DEF OnResumeDataReady
    <3>. HIDE DEF t, c
    <3>2. file' = file \/ file' = [file EXCEPT ![<<t, "best">>] = c]
      BY <3>1 DEF Written
    <3>. QED BY <1>1, <1>6, <3>1, <3>2
  <2>2. ASSUME OnMetadataReceived PROVE Hashes'
    BY <1>0, <2>2, PlainKey DEF OnMetadataReceived
  <2>3. ASSUME NEW due \in BOOLEAN, OnPieceFinished(due) PROVE Hashes'
    BY <2>3 DEF OnPieceFinished, disk
  <2>. QED BY <2>1, <2>2, <2>3 DEF ProcessAlerts, OnResumeDataFailed, OnDeadHandle, disk
<1>4. User => Hashes'
  <2>1. ASSUME NEW t \in Torrents, NEW ok \in Writes, AddMagnet(t, ok) PROVE Hashes'
    BY <1>1, <1>6, <2>1, MagnetEffects
  <2>2. ASSUME NEW t \in Torrents, NEW why \in {"runs", "user"}, AddTorrent(t, why) PROVE Hashes'
    BY <2>2 DEF AddTorrent, disk
  <2>3. ASSUME NEW k \in Keys, NEW fails \in BOOLEAN, Restore(k, fails) PROVE Hashes'
    BY <2>3 DEF Restore, LiftGuard
  <2>4. ASSUME NEW i \in 1..Len(torrents), NEW old \in Old, RemoveTorrent(i, old) PROVE Hashes'
    <3>1. CASE torrents[i] = None
      <4>1. UNCHANGED <<file, removed>>
        BY <2>4, <3>1 DEF RemoveTorrent
      <4>. QED BY <1>1, <4>1
    <3>2. CASE torrents[i] # None
      <4>1. torrents[i] \in meta \cup uriKnown
        BY <3>2 DEF Known, Valid, Range, TypeOK
      <4>2. /\ file' = [file EXCEPT ![<<torrents[i], "best">>] = None]
            /\ removed' = Noted(<<torrents[i], "best">>)
        BY <2>4, <3>2, <4>1, RemoveEffects
      <4>. QED BY <1>6, <4>2 DEF Noted
    <3>. QED BY <3>1, <3>2
  <2>. QED BY <2>1, <2>2, <2>3, <2>4 DEF User, ClearRemovedHistory, SetRun, memory, disk
<1>5. Session => Hashes'
  <2>1. ASSUME NEW best \in BOOLEAN, NEW old \in Old, NEW fate \in Fates,
               LoadResumeData(best, old, fate)
        PROVE  UNCHANGED <<file, removed>>
    BY <2>1, LoadPlain DEF LoadResumeData, Plain
  <2>2. PauseForDisk \/ SaveResumeData \/ Quit \/ Crash \/ Start \/ (\E late \in BOOLEAN : FlushEnds(late))
          => UNCHANGED file /\ (removed' = removed \/ removed' = {})
    BY DEF PauseForDisk, SaveResumeData, Quit, Crash, FlushEnds, Forget, Start, memory, disk
  <2>. QED BY <1>1, <2>1, <2>2 DEF Session
<1>. QED BY <1>1, <1>2, <1>3, <1>4, <1>5 DEF Next

\* What restoreRemoved does: without magnets, every entry has its metadata.
LEMMA RestoreEffects ==
  ASSUME TypeOK, Plain, Known, NEW k \in Keys, NEW fails \in BOOLEAN, Restore(k, fails)
  PROVE  LET t == k[1] IN
         /\ "magnet" \notin Ops /\ t \in Torrents /\ Valid' = Valid \cup {t} /\ meta' = meta \cup {t}
         /\ removed' = removed \ {<<t, "best">>} /\ gone' = gone \ {t}
         /\ history' = [history EXCEPT ![k] = None]
         /\ UNCHANGED <<phase, uriKnown, file>>
         /\ \E r : Posted(alerts, r) /\ Len(r) = 1 /\ r[1].t = t /\ r[1].kind = "saved"
<1>. DEFINE t == k[1]
            c == IF t \in Valid THEN Live(t) ELSE history[k]
<1>1. "magnet" \notin Ops /\ history[k] # None
  BY DEF Restore, UserMay, Plain
<1>2. c.meta /\ (t \in Valid => t \in meta)
  BY <1>1 DEF Known, Live
<1>3. /\ removed' = LiftGuard(t, c.meta) /\ gone' = gone \ {t} /\ torrents' = Append(torrents, t)
      /\ history' = [history EXCEPT ![k] = None] /\ UNCHANGED <<phase, uriKnown, file>>
  BY DEF Restore
<1>4. /\ c \in Content /\ Added(t, c) /\ t \in Torrents
      /\ \E r : Posted(alerts, r) /\ Len(r) = 1 /\ r[1].t = t /\ (c.meta => r[1].kind = "saved")
  BY RestorePosts
<1>. HIDE DEF c
<1>5. meta' = meta \cup {t}
  BY <1>2, <1>4 DEF Added
<1>6. removed' = removed \ {<<t, "best">>}
  BY <1>2, <1>3, PlainKey DEF LiftGuard
<1>7. Valid' = Valid \cup {t}
  BY <1>3, <1>4, ValidAppended
<1>. HIDE DEF t
<1>8. \E r : Posted(alerts, r) /\ Len(r) = 1 /\ r[1].t = t /\ r[1].kind = "saved"
  BY <1>2, <1>4
<1>. QED BY <1>1, <1>3, <1>4, <1>5, <1>6, <1>7, <1>8 DEF t

\* No step lists a torrent whose hash is not known.
LEMMA KnownStep ==
  ASSUME TypeOK, Idle, Alive, Plain, Hashes, Known, Next
  PROVE  Known'
<1>. DEFINE A(v, m, u) == v \subseteq m \cup u
            magnets == "magnet" \in Ops
            F(f) == \A k \in Keys : f[k] # None => f[k].meta
            B(v, m, q) == v \subseteq m /\ \A a \in Range(q) : a.data.meta /\ a.kind # "metadata"
            Good == A(Valid', meta', uriKnown') /\ (~magnets => F(file') /\ F(history') /\ B(Valid', meta', alerts'))
<1>0. /\ A(Valid, meta, uriKnown) /\ (~magnets => F(file) /\ F(history) /\ B(Valid, meta, alerts))
      /\ alerts \in Seq(Alert) /\ file \in [Keys -> Content \cup {None}]
      /\ history \in [Keys -> Content \cup {None}] /\ Valid \subseteq Torrents
  BY ValidType DEF Known, TypeOK
<1>. SUFFICES Good
  BY DEF Known
<1>1. UNCHANGED torrents => Valid' = Valid
  BY DEF Valid
<1>2. ASSUME NEW s \in Seq(Alert), NEW r, Posted(s, r), Range(s) \subseteq Range(alerts),
             \A i \in 1..Len(r) : r[i].t \in Valid', meta \subseteq meta', ~magnets, Valid' \subseteq meta'
      PROVE  B(Valid', meta', alerts')
  <2>1. \A a \in Range(r) : a.t \in meta' /\ NewAnswer(a)
    <3>. TAKE a \in Range(r)
    <3>1. NewAnswer(a) /\ \E i \in 1..Len(r) : r[i] = a
      BY <1>2, RangePosted
    <3>. QED BY <1>2, <3>1
  <2>2. \A a \in Range(r) : a.data.meta /\ a.kind # "metadata"
    <3>. TAKE a \in Range(r)
    <3>1. a.t \in meta' /\ a.data = After(a.t) /\ IsAnswer(a)
      BY <2>1 DEF NewAnswer
    <3>2. After(a.t).meta = TRUE
      BY <3>1 DEF After
    <3>. QED BY <3>1, <3>2 DEF IsAnswer
  <2>3. Range(alerts') = Range(s) \cup Range(r)
    BY <1>2, RangePosted
  <2>. QED BY <1>0, <1>2, <2>2, <2>3
<1>3. ASSUME NEW kind, Processing(kind)
      PROVE  /\ Range(Tail(alerts)) \subseteq Range(alerts) /\ Tail(alerts) \in Seq(Alert)
             /\ Head(alerts) \in Range(alerts) /\ Head(alerts) \in Alert /\ Head(alerts).kind = kind
  BY <1>3, RangeHandled, HeadType
<1>4. ASSUME UNCHANGED <<file, history, meta, uriKnown, torrents>>, NEW s \in Seq(Alert), NEW r,
             Posted(s, r), Range(s) \subseteq Range(alerts), \A i \in 1..Len(r) : r[i].t \in Valid
      PROVE  Good
  BY <1>0, <1>1, <1>2, <1>4
<1>5. ASSUME UNCHANGED <<file, history, torrents, meta, uriKnown, alerts>> PROVE Good
  BY <1>0, <1>1, <1>5
<1>6. Libtorrent => Good
  <2>1. StatusUpdate => Good
    BY <1>5 DEF StatusUpdate, disk
  <2>2. ASSUME NEW t \in Torrents, MetadataArrives(t) PROVE Good
    <3>1. t \in Valid /\ t \notin meta
      BY <2>2 DEF MetadataArrives
    <3>2. magnets
      BY <1>0, <3>1
    <3>3. Valid' = Valid /\ meta' = meta \cup {t} /\ uriKnown' = uriKnown
      BY <1>1, <2>2 DEF MetadataArrives
    <3>. QED BY <1>0, <3>2, <3>3
  <2>3. ASSUME NEW t \in Torrents, PieceArrives(t) PROVE Good
    <3>. DEFINE a == [kind |-> "piece", t |-> t, data |-> Live(t)]
    <3>1. a \in Alert /\ a.data.meta /\ a.kind # "metadata"
      BY <2>3, LiveType DEF Alert, Kinds, Live, PieceArrives
    <3>2. alerts' = Append(alerts, a) /\ UNCHANGED <<file, history, torrents, meta, uriKnown>>
      BY <2>3 DEF PieceArrives, disk
    <3>. HIDE DEF a
    <3>3. Range(alerts') = Range(alerts) \cup {a}
      BY <1>0, <3>1, <3>2, RangeAppend
    <3>. QED BY <1>0, <1>1, <3>1, <3>2, <3>3
  <2>. QED BY <2>1, <2>2, <2>3 DEF Libtorrent
<1>7. ProcessAlerts => Good
  <2>1. ASSUME NEW ok \in Writes, OnResumeDataReady(ok) PROVE Good
    <3>. DEFINE t == Head(alerts).t
                c == Head(alerts).data
    <3>1. /\ file' = Written(<<t, "best">>, c, ok) /\ alerts' = Tail(alerts)
          /\ UNCHANGED <<history, torrents, meta, uriKnown>>
      BY <2>1, PlainKey DEF OnResumeDataReady
    <3>2. ~magnets => c.meta
      BY <1>0, <1>3, <2>1 DEF OnResumeDataReady
    <3>3. Range(alerts') \subseteq Range(alerts)
      BY <1>3, <2>1, <3>1 DEF OnResumeDataReady
    <3>. HIDE DEF t, c
    <3>4. file' = file \/ file' = [file EXCEPT ![<<t, "best">>] = c]
      BY <3>1 DEF Written
    <3>5. ~magnets => F(file')
      BY <1>0, <3>2, <3>4
    <3>. QED BY <1>0, <1>1, <3>1, <3>3, <3>5
  <2>2. ASSUME OnResumeDataFailed \/ OnDeadHandle PROVE Good
    <3>1. UNCHANGED <<file, history, torrents, meta, uriKnown>> /\ alerts' = Tail(alerts)
      BY <2>2 DEF OnResumeDataFailed, OnDeadHandle, disk
    <3>2. Range(alerts') \subseteq Range(alerts)
      BY <1>3, <2>2, <3>1 DEF OnResumeDataFailed, OnDeadHandle
    <3>. QED BY <1>0, <1>1, <3>1, <3>2
  <2>3. ASSUME OnMetadataReceived PROVE Good
    <3>1. PICK r : Posted(Tail(alerts), r) /\ Len(r) = 1 /\ r[1].t = Head(alerts).t
      BY <2>3, PostsMetadata
    <3>2. Head(alerts).t \in Valid
      BY <1>3, <2>3 DEF OnMetadataReceived, Alive
    <3>3. file' = file
      BY <1>0, <2>3, PlainKey DEF OnMetadataReceived
    <3>4. UNCHANGED <<history, torrents, meta, uriKnown>>
      BY <2>3 DEF OnMetadataReceived
    <3>5. \A i \in 1..Len(r) : r[i].t \in Valid
      BY <3>1, <3>2
    <3>6. Tail(alerts) \in Seq(Alert) /\ Range(Tail(alerts)) \subseteq Range(alerts)
      BY <1>3, <2>3 DEF OnMetadataReceived
    <3>. QED BY <1>4, <3>1, <3>3, <3>4, <3>5, <3>6
  <2>4. ASSUME NEW due \in BOOLEAN, OnPieceFinished(due) PROVE Good
    <3>1. PICK r : Posted(Tail(alerts), r) /\ \A i \in 1..Len(r) : r[i].t = Head(alerts).t
      BY <2>4, PostsPiece
    <3>2. Head(alerts).t \in Valid
      BY <1>3, <2>4 DEF OnPieceFinished, Alive
    <3>3. UNCHANGED <<file, history, torrents, meta, uriKnown>>
      BY <2>4 DEF OnPieceFinished, disk
    <3>4. Tail(alerts) \in Seq(Alert) /\ Range(Tail(alerts)) \subseteq Range(alerts)
      BY <1>3, <2>4 DEF OnPieceFinished
    <3>. QED BY <1>4, <3>1, <3>2, <3>3, <3>4
  <2>. QED BY <2>1, <2>2, <2>3, <2>4 DEF ProcessAlerts
<1>8. User => Good
  <2>1. ASSUME NEW t \in Torrents, NEW ok \in Writes, AddMagnet(t, ok) PROVE Good
    <3>1. /\ magnets /\ Valid' = Valid \cup {t} /\ t \notin Valid
          /\ meta' = meta \ {t} /\ uriKnown' = uriKnown \cup {t}
      BY <2>1, MagnetEffects
    <3>. QED BY <1>0, <3>1
  <2>2. ASSUME NEW t \in Torrents, NEW why \in {"runs", "user"}, AddTorrent(t, why) PROVE Good
    <3>1. /\ Valid' = Valid \cup {t} /\ meta' = meta \cup {t}
          /\ UNCHANGED <<uriKnown, file, history>>
      BY <2>2, AddEffects, ZenonT(60)
    <3>2. PICK r : Posted(alerts, r) /\ Len(r) = 1 /\ r[1].t = t
      BY <2>2, AddTorrentPosts
    <3>3. \A i \in 1..Len(r) : r[i].t \in Valid'
      BY <3>1, <3>2
    <3>. QED BY <1>0, <1>2, <3>1, <3>2, <3>3
  <2>3. ASSUME NEW k \in Keys, NEW fails \in BOOLEAN, Restore(k, fails) PROVE Good
    <3>. DEFINE t == k[1]
    <3>1. /\ Valid' = Valid \cup {t} /\ meta' = meta \cup {t}
          /\ history' = [history EXCEPT ![k] = None] /\ UNCHANGED <<uriKnown, file>>
          /\ \E r : Posted(alerts, r) /\ Len(r) = 1 /\ r[1].t = t
      BY <2>3, RestoreEffects
    <3>. HIDE DEF t
    <3>2. PICK r : Posted(alerts, r) /\ Len(r) = 1 /\ r[1].t = t
      BY <3>1
    <3>3. \A i \in 1..Len(r) : r[i].t \in Valid'
      BY <3>1, <3>2
    <3>4. ~magnets => F(history')
      BY <1>0, <3>1
    <3>5. ~magnets => B(Valid', meta', alerts')
      BY <1>0, <1>2, <3>1, <3>2, <3>3
    <3>. QED BY <1>0, <3>1, <3>4, <3>5
  <2>4. ASSUME NEW i \in 1..Len(torrents), NEW old \in Old, RemoveTorrent(i, old) PROVE Good
    <3>1. CASE torrents[i] = None
      <4>1. UNCHANGED <<file, history, meta, uriKnown, alerts>>
        BY <2>4, <3>1 DEF RemoveTorrent
      <4>2. Valid' = Valid \ {None}
        BY <2>4, <3>1, ValidRemoved
      <4>. QED BY <1>0, <4>1, <4>2
    <3>2. CASE torrents[i] # None
      <4>. DEFINE t == torrents[i]
      <4>1. t \in meta \cup uriKnown
        BY <3>2 DEF Known, Valid, Range, TypeOK
      <4>2. /\ file' = [file EXCEPT ![<<t, "best">>] = None]
            /\ meta' = meta \ {t} /\ uriKnown' = uriKnown \ {t} /\ alerts' = Orphaned(t)
            /\ t \in Valid
            /\ \A k \in Keys : history'[k] = None \/ history'[k] = history[k] \/ history'[k] = file[<<t, "best">>]
        BY <2>4, <3>2, <4>1, RemoveEffects
      <4>3. Valid' = Valid \ {t}
        BY <2>4, ValidRemoved
      <4>4. \A b \in Range(alerts') : \E a \in Range(alerts) :
              b.data = a.data /\ (b.kind = "dead" \/ b.kind = a.kind)
        BY <4>2, RangeOrphaned
      <4>. HIDE DEF t
      <4>5. <<t, "best">> \in Keys
        BY <1>0, <4>2, PlainKey
      <4>6. ~magnets => F(file') /\ F(history')
        BY <1>0, <4>2, <4>5
      <4>7. ~magnets => B(Valid', meta', alerts')
        BY <1>0, <4>2, <4>3, <4>4
      <4>. QED BY <1>0, <4>2, <4>3, <4>6, <4>7
    <3>. QED BY <3>1, <3>2
  <2>5. ASSUME ClearRemovedHistory PROVE Good
    <3>1. UNCHANGED <<file, torrents, meta, uriKnown, alerts>> /\ \A k \in Keys : history'[k] = None
      BY <2>5 DEF ClearRemovedHistory, memory
    <3>. QED BY <1>0, <1>1, <3>1
  <2>6. ASSUME NEW S \in SUBSET Valid, NEW why \in {"runs", "user"}, NEW fails \in BOOLEAN,
               SetRun(S, why, fails)
        PROVE  Good
    <3>1. PICK r : Posted(alerts, r) /\ \A i \in 1..Len(r) : r[i].t \in S
      BY <2>6, PostsRun
    <3>2. UNCHANGED <<file, history, torrents, meta, uriKnown>>
      BY <2>6 DEF SetRun, disk
    <3>. QED BY <1>0, <1>4, <3>1, <3>2
  <2>. QED BY <2>1, <2>2, <2>3, <2>4, <2>5, <2>6 DEF User
<1>9. Session => Good
  <2>1. ASSUME Saving, UNCHANGED <<file, history, torrents, meta, uriKnown, run, pieces>> PROVE Good
    <3>1. PICK r : Posted(alerts, r) /\ \A i \in 1..Len(r) : r[i].t \in Valid
      BY <2>1, PostsSaving
    <3>. QED BY <1>0, <1>4, <2>1, <3>1
  <2>2. PauseForDisk \/ Start => Good
    BY <1>5 DEF PauseForDisk, Start, memory, disk
  <2>3. ASSUME Forget, UNCHANGED <<file, history>> PROVE Good
    <3>1. Valid' = {} /\ Range(alerts') = {}
      BY <2>3 DEF Forget, Valid, Range
    <3>. QED BY <1>0, <2>3, <3>1
  <2>4. ASSUME NEW best \in BOOLEAN, NEW old \in Old, NEW fate \in Fates, LoadResumeData(best, old, fate) PROVE Good
    <3>1. Range(torrents') = Stored /\ None \notin Stored
      BY <2>4, LoadPlain, NoneAssumption DEF Stored, Plain
    <3>2. Valid' = Stored
      BY <3>1 DEF Valid
    <3>3. ASSUME NEW t \in Stored PROVE t \in meta' \cup uriKnown' /\ (~magnets => t \in meta')
      <4>1. PICK k \in KeysOf(t) : /\ file[k] # None /\ (t \in meta' <=> file[k].meta)
                                   /\ ~file[k].meta => t \in uriKnown'
        BY <2>4, LoadPlain DEF Plain
      <4>2. k \in Keys
        BY DEF KeysOf
      <4>. QED BY <1>0, <4>1, <4>2
    <3>4. file' = file /\ history' = Pruned(history, old)
      BY <2>4, LoadPlain DEF LoadResumeData, Plain
    <3>5. ~magnets => F(history')
      BY <1>0, <3>4 DEF Pruned
    <3>6. Range(alerts') = {}
      BY <2>4 DEF LoadResumeData, Idle, Range
    <3>. QED BY <1>0, <3>2, <3>3, <3>4, <3>5, <3>6
  <2>. QED BY <2>1, <2>2, <2>3, <2>4 DEF Session, SaveResumeData, Quit, Crash, FlushEnds, disk
<1>. QED BY <1>6, <1>7, <1>8, <1>9 DEF Next

-----------------------------------------------------------------------------
(* Removed torrents *)

\* m_removedHashes has room for all of them.
Roomy == Cardinality(Torrents) <= GuardMax

\* While m_removedHashes has room, it forgets nobody.
LEMMA NotedKeeps ==
  ASSUME TypeOK, Plain, Hashes, Roomy, NEW t \in Torrents
  PROVE  Noted(<<t, "best">>) = removed \cup {<<t, "best">>}
<1>. DEFINE best == Torrents \X {"best"}
            r == removed \cup {<<t, "best">>}
<1>1. IsFiniteSet(best) /\ Cardinality(best) = Cardinality(Torrents)
  <2>1. IsFiniteSet({"best"}) /\ Cardinality({"best"}) = 1
    BY FS_Singleton
  <2>2. Cardinality(Torrents) \in Nat
    BY LibraryAssumption, FS_CardinalityType
  <2>. QED BY <2>1, <2>2, LibraryAssumption, FS_Product
<1>2. r \subseteq best
  <2>1. \A k \in removed : k \in Keys
    BY DEF TypeOK
  <2>2. \A k \in removed : k \in best
    BY <2>1 DEF Hashes, Keys
  <2>. QED BY <2>2
<1>. HIDE DEF best
<1>3. Cardinality(r) <= Cardinality(Torrents) /\ Cardinality(r) \in Nat
  BY <1>1, <1>2, FS_Subset, FS_CardinalityType
<1>4. ~(Cardinality(r) > GuardMax)
  BY <1>3, LibraryAssumption, FS_CardinalityType, BoundAssumption DEF Roomy
<1>. HIDE DEF r
<1>. QED BY <1>4 DEF Noted, r

\* An alert is of a listed torrent, or of one whose answers the guard drops.
Guarded ==
  /\ \A a \in Range(alerts) :
       \/ a.t \in Valid
       \/ a.t \in gone /\ (a.kind = "saved" => <<a.t, "best">> \in removed)
  /\ \A t \in gone : t \notin Valid /\ file[<<t, "best">>] = None

\* An alert of a torrent that was removed brings no file back.
LEMMA GuardedStep ==
  ASSUME TypeOK, Idle, Alive, Plain, Hashes, Known, Roomy, Guarded, Next
  PROVE  Guarded'
<1>. DEFINE A(v, g, rm, q) ==
              \A a \in Range(q) :
                \/ a.t \in v
                \/ a.t \in g /\ (a.kind = "saved" => <<a.t, "best">> \in rm)
            D(v, g, f) == \A t \in g : t \notin v /\ f[<<t, "best">>] = None
            Good == A(Valid', gone', removed', alerts') /\ D(Valid', gone', file')
            Kept(x) == /\ x \notin Valid /\ (x \in gone => x \in gone')
                       /\ <<x, "best">> \in removed => <<x, "best">> \in removed'
<1>0. /\ A(Valid, gone, removed, alerts) /\ D(Valid, gone, file)
      /\ alerts \in Seq(Alert) /\ file \in [Keys -> Content \cup {None}]
      /\ Valid \subseteq Torrents /\ gone \subseteq Torrents
      /\ \A t \in Torrents : <<t, "best">> \in Keys
  BY ValidType, PlainKey DEF Guarded, TypeOK
<1>. SUFFICES Good
  BY DEF Guarded
<1>1. UNCHANGED torrents => Valid' = Valid
  BY DEF Valid
<1>2. ASSUME NEW s \in Seq(Alert), NEW r, Posted(s, r), Range(s) \subseteq Range(alerts),
             \A i \in 1..Len(r) : r[i].t \in Valid', \A x : x \in Valid' \/ Kept(x)
      PROVE  A(Valid', gone', removed', alerts')
  <2>1. \A a \in Range(r) : a.t \in Valid'
    <3>. TAKE a \in Range(r)
    <3>1. \E i \in 1..Len(r) : r[i] = a
      BY <1>2, RangePosted
    <3>. QED BY <1>2, <3>1
  <2>2. Range(alerts') = Range(s) \cup Range(r)
    BY <1>2, RangePosted
  <2>. QED BY <1>0, <1>2, <2>1, <2>2
<1>3. ASSUME NEW kind, Processing(kind)
      PROVE  /\ Range(Tail(alerts)) \subseteq Range(alerts) /\ Tail(alerts) \in Seq(Alert)
             /\ Head(alerts) \in Range(alerts) /\ Head(alerts) \in Alert /\ Head(alerts).kind = kind
  BY <1>3, RangeHandled, HeadType
<1>4. ASSUME UNCHANGED <<file, removed, gone, torrents>>, NEW s \in Seq(Alert), NEW r,
             Posted(s, r), Range(s) \subseteq Range(alerts), \A i \in 1..Len(r) : r[i].t \in Valid
      PROVE  Good
  BY <1>0, <1>1, <1>2, <1>4
<1>5. ASSUME UNCHANGED <<file, removed, gone, torrents>>, Range(alerts') \subseteq Range(alerts) PROVE Good
  BY <1>0, <1>1, <1>5
<1>6. Libtorrent => Good
  <2>1. ASSUME NEW t \in Valid, NEW a \in Alert, a.t = t, alerts' = Append(alerts, a),
               UNCHANGED <<file, removed, gone, torrents>>
        PROVE  Good
    <3>1. Range(alerts') = Range(alerts) \cup {a}
      BY <1>0, <2>1, RangeAppend
    <3>. QED BY <1>0, <1>1, <2>1, <3>1
  <2>2. StatusUpdate => Good
    BY <1>5 DEF StatusUpdate, disk, ghosts
  <2>3. ASSUME NEW t \in Torrents, MetadataArrives(t) PROVE Good
    <3>. DEFINE a == [kind |-> "metadata", t |-> t, data |-> Live(t)]
    <3>1. a \in Alert /\ a.t = t
      BY LiveType DEF Alert, Kinds
    <3>. HIDE DEF a
    <3>. QED BY <2>1, <2>3, <3>1 DEF MetadataArrives, a, disk, ghosts
  <2>4. ASSUME NEW t \in Torrents, PieceArrives(t) PROVE Good
    <3>. DEFINE a == [kind |-> "piece", t |-> t, data |-> Live(t)]
    <3>1. a \in Alert /\ a.t = t
      BY LiveType DEF Alert, Kinds
    <3>. HIDE DEF a
    <3>. QED BY <2>1, <2>4, <3>1 DEF PieceArrives, a, disk, ghosts
  <2>. QED BY <2>2, <2>3, <2>4 DEF Libtorrent
<1>7. ProcessAlerts => Good
  <2>1. ASSUME NEW ok \in Writes, OnResumeDataReady(ok) PROVE Good
    <3>. DEFINE t == Head(alerts).t
                c == Head(alerts).data
    <3>1. /\ file' = Written(<<t, "best">>, c, ok) /\ alerts' = Tail(alerts)
          /\ UNCHANGED <<removed, torrents, gone>>
      BY <2>1, PlainKey DEF OnResumeDataReady, ghosts
    <3>2. <<t, "best">> \in removed \/ t \in Valid
      BY <1>0, <1>3, <2>1 DEF OnResumeDataReady
    <3>3. Range(alerts') \subseteq Range(alerts)
      BY <1>3, <2>1, <3>1 DEF OnResumeDataReady
    <3>. HIDE DEF t, c
    <3>4. file' = file \/ (t \in Valid /\ file' = [file EXCEPT ![<<t, "best">>] = c])
      BY <3>1, <3>2 DEF Written
    <3>5. D(Valid, gone, file')
      BY <1>0, <3>4
    <3>. QED BY <1>0, <1>1, <3>1, <3>3, <3>5
  <2>2. ASSUME OnResumeDataFailed \/ OnDeadHandle PROVE Good
    <3>1. UNCHANGED <<file, removed, gone, torrents>> /\ alerts' = Tail(alerts)
      BY <2>2 DEF OnResumeDataFailed, OnDeadHandle, disk, ghosts
    <3>2. Range(alerts') \subseteq Range(alerts)
      BY <1>3, <2>2, <3>1 DEF OnResumeDataFailed, OnDeadHandle
    <3>. QED BY <1>5, <3>1, <3>2
  <2>3. ASSUME OnMetadataReceived PROVE Good
    <3>1. PICK r : Posted(Tail(alerts), r) /\ Len(r) = 1 /\ r[1].t = Head(alerts).t
      BY <2>3, PostsMetadata
    <3>2. Head(alerts).t \in Valid
      BY <1>3, <2>3 DEF OnMetadataReceived, Alive
    <3>3. file' = file
      BY <1>0, <2>3, PlainKey DEF OnMetadataReceived
    <3>4. UNCHANGED <<removed, gone, torrents>>
      BY <2>3 DEF OnMetadataReceived, ghosts
    <3>5. \A i \in 1..Len(r) : r[i].t \in Valid
      BY <3>1, <3>2
    <3>6. Tail(alerts) \in Seq(Alert) /\ Range(Tail(alerts)) \subseteq Range(alerts)
      BY <1>3, <2>3 DEF OnMetadataReceived
    <3>. QED BY <1>4, <3>1, <3>3, <3>4, <3>5, <3>6
  <2>4. ASSUME NEW due \in BOOLEAN, OnPieceFinished(due) PROVE Good
    <3>1. PICK r : Posted(Tail(alerts), r) /\ \A i \in 1..Len(r) : r[i].t = Head(alerts).t
      BY <2>4, PostsPiece
    <3>2. Head(alerts).t \in Valid
      BY <1>3, <2>4 DEF OnPieceFinished, Alive
    <3>3. UNCHANGED <<file, removed, gone, torrents>>
      BY <2>4 DEF OnPieceFinished, disk, ghosts
    <3>4. Tail(alerts) \in Seq(Alert) /\ Range(Tail(alerts)) \subseteq Range(alerts)
      BY <1>3, <2>4 DEF OnPieceFinished
    <3>. QED BY <1>4, <3>1, <3>2, <3>3, <3>4
  <2>. QED BY <2>1, <2>2, <2>3, <2>4 DEF ProcessAlerts
<1>8. User => Good
  <2>1. ASSUME NEW t \in Torrents, NEW ok \in Writes, AddMagnet(t, ok) PROVE Good
    <3>1. /\ Valid' = Valid \cup {t} /\ gone' = gone \ {t} /\ UNCHANGED <<removed, alerts>>
          /\ \/ file' = [file EXCEPT ![<<t, "best">>] = [meta |-> FALSE, run |-> "runs", pieces |-> 0]]
             \/ file' = file
      BY <2>1, MagnetEffects
    <3>2. D(Valid', gone', file')
      BY <1>0, <3>1
    <3>. QED BY <1>0, <3>1, <3>2
  <2>2. ASSUME NEW t \in Torrents, NEW why \in {"runs", "user"}, AddTorrent(t, why) PROVE Good
    <3>1. /\ Valid' = Valid \cup {t} /\ gone' = gone \ {t} /\ UNCHANGED <<removed, file>>
      BY <2>2, AddEffects
    <3>2. PICK r : Posted(alerts, r) /\ Len(r) = 1 /\ r[1].t = t
      BY <2>2, AddTorrentPosts
    <3>3. \A i \in 1..Len(r) : r[i].t \in Valid'
      BY <3>1, <3>2
    <3>4. \A x : x \in Valid' \/ Kept(x)
      BY <3>1
    <3>5. A(Valid', gone', removed', alerts')
      BY <1>0, <1>2, <3>2, <3>3, <3>4
    <3>. QED BY <1>0, <3>1, <3>5
  <2>3. ASSUME NEW k \in Keys, NEW fails \in BOOLEAN, Restore(k, fails) PROVE Good
    <3>. DEFINE t == k[1]
    <3>1. /\ Valid' = Valid \cup {t} /\ gone' = gone \ {t} /\ UNCHANGED file
          /\ removed' = removed \ {<<t, "best">>}
          /\ \E r : Posted(alerts, r) /\ Len(r) = 1 /\ r[1].t = t
      BY <2>3, RestoreEffects
    <3>. HIDE DEF t
    <3>2. PICK r : Posted(alerts, r) /\ Len(r) = 1 /\ r[1].t = t
      BY <3>1
    <3>3. \A i \in 1..Len(r) : r[i].t \in Valid'
      BY <3>1, <3>2
    <3>4. \A x : x \in Valid' \/ Kept(x)
      BY <3>1
    <3>5. A(Valid', gone', removed', alerts')
      BY <1>0, <1>2, <3>2, <3>3, <3>4
    <3>. QED BY <1>0, <3>1, <3>5
  <2>4. ASSUME NEW i \in 1..Len(torrents), NEW old \in Old, RemoveTorrent(i, old) PROVE Good
    <3>1. CASE torrents[i] = None
      <4>1. UNCHANGED <<file, removed, gone, alerts>>
        BY <2>4, <3>1 DEF RemoveTorrent
      <4>2. Valid' = Valid \ {None} /\ None \notin Valid
        BY <2>4, <3>1, ValidRemoved DEF Valid
      <4>. QED BY <1>0, <4>1, <4>2
    <3>2. CASE torrents[i] # None
      <4>. DEFINE t == torrents[i]
      <4>1. t \in meta \cup uriKnown
        BY <3>2 DEF Known, Valid, Range, TypeOK
      <4>2. /\ file' = [file EXCEPT ![<<t, "best">>] = None]
            /\ gone' = gone \cup {t} /\ alerts' = Orphaned(t)
            /\ t \in Valid /\ removed' = Noted(<<t, "best">>)
        BY <2>4, <3>2, <4>1, RemoveEffects
      <4>3. Valid' = Valid \ {t}
        BY <2>4, ValidRemoved
      <4>4. \A b \in Range(alerts') : \E a \in Range(alerts) :
              b.t = a.t /\ (b.kind = "saved" => a.kind = "saved")
        BY <4>2, RangeOrphaned
      <4>. HIDE DEF t
      <4>5. removed' = removed \cup {<<t, "best">>}
        BY <1>0, <4>2, NotedKeeps
      <4>6. A(Valid', gone', removed', alerts')
        BY <1>0, <4>2, <4>3, <4>4, <4>5
      <4>7. D(Valid', gone', file')
        BY <1>0, <4>2, <4>3
      <4>. QED BY <4>6, <4>7
    <3>. QED BY <3>1, <3>2
  <2>5. ASSUME ClearRemovedHistory PROVE Good
    BY <1>5, <2>5 DEF ClearRemovedHistory, memory, ghosts
  <2>6. ASSUME NEW S \in SUBSET Valid, NEW why \in {"runs", "user"}, NEW fails \in BOOLEAN,
               SetRun(S, why, fails)
        PROVE  Good
    <3>1. PICK r : Posted(alerts, r) /\ \A i \in 1..Len(r) : r[i].t \in S
      BY <2>6, PostsRun
    <3>2. UNCHANGED <<file, removed, gone, torrents>>
      BY <2>6 DEF SetRun, disk, ghosts
    <3>. QED BY <1>0, <1>4, <3>1, <3>2
  <2>. QED BY <2>1, <2>2, <2>3, <2>4, <2>5, <2>6 DEF User
<1>9. Session => Good
  <2>1. ASSUME Saving, UNCHANGED <<file, removed, gone, torrents, meta, run, pieces>> PROVE Good
    <3>1. PICK r : Posted(alerts, r) /\ \A i \in 1..Len(r) : r[i].t \in Valid
      BY <2>1, PostsSaving
    <3>. QED BY <1>0, <1>4, <2>1, <3>1
  <2>2. PauseForDisk \/ Start => Good
    BY <1>5 DEF PauseForDisk, Start, memory, disk, ghosts
  <2>3. ASSUME Forget, UNCHANGED <<file, gone>> PROVE Good
    <3>1. Valid' = {} /\ Range(alerts') = {}
      BY <2>3 DEF Forget, Valid, Range
    <3>. QED BY <1>0, <2>3, <3>1
  <2>4. ASSUME NEW best \in BOOLEAN, NEW old \in Old, NEW fate \in Fates, LoadResumeData(best, old, fate) PROVE Good
    <3>1. Range(torrents') = Stored /\ None \notin Stored
      BY <2>4, LoadPlain, NoneAssumption DEF Stored, Plain
    <3>2. Valid' = Stored
      BY <3>1 DEF Valid
    <3>3. UNCHANGED <<file, gone>>
      BY <2>4, LoadPlain DEF LoadResumeData, ghosts, Plain
    <3>4. \A t \in gone : t \notin Stored
      BY <1>0, HasPlainFile DEF Stored
    <3>5. Range(alerts') = {}
      BY <2>4 DEF LoadResumeData, Idle, Range
    <3>. QED BY <1>0, <3>2, <3>3, <3>4, <3>5
  <2>. QED BY <2>1, <2>2, <2>3, <2>4 DEF Session, SaveResumeData, Quit, Crash, FlushEnds, disk, ghosts
<1>. QED BY <1>6, <1>7, <1>8, <1>9 DEF Next

\* The parts of the invariant up to here, in the order in which they depend on
\* each other
THEOREM LibraryKnown ==
  ASSUME Plain
  PROVE  Spec => [](TypeOK /\ Idle /\ Alive /\ Hashes /\ Known)
<1>1. Init => Idle /\ Alive /\ Hashes /\ Known
  <2>. SUFFICES ASSUME Init PROVE Idle /\ Alive /\ Hashes /\ Known
    OBVIOUS
  <2>1. Valid = {} /\ Range(alerts) = {}
    BY DEF Init, Valid, Range
  <2>2. \A k \in Keys : file[k] = None /\ history[k] = None
    BY DEF Init
  <2>3. \A t \in Torrents : <<t, "uri">> \in Keys
    BY PlainKey
  <2>4. Idle /\ Alive
    BY <2>1 DEF Init, Idle, Alive
  <2>5. Hashes
    BY <2>2, <2>3 DEF Init, Hashes
  <2>. QED BY <2>1, <2>2, <2>4, <2>5 DEF Known
<1>2. TypeOK /\ Idle /\ Alive /\ Hashes /\ Known /\ [Next]_vars
        => (Idle /\ Alive /\ Hashes /\ Known)'
  <2>1. Idle /\ Alive /\ Hashes /\ Known /\ UNCHANGED vars => (Idle /\ Alive /\ Hashes /\ Known)'
    BY DEF Idle, Alive, Hashes, Known, Valid, vars, memory, disk, ghosts
  <2>. QED BY <2>1, IdleStep, AliveStep, HashesStep, KnownStep
<1>. QED BY <1>1, <1>2, TypeCorrect, PTL DEF Spec

\* No alert that was in flight when the user removed a torrent brings its
\* resume file back, as long as m_removedHashes is not cleared in between.
THEOREM RemovedForGood ==
  ASSUME Plain, Roomy
  PROVE  Spec => []RemovedStaysRemoved
<1>1. Init => Guarded
  BY DEF Init, Guarded, Range
<1>2. TypeOK /\ Idle /\ Alive /\ Hashes /\ Known /\ Guarded /\ [Next]_vars => Guarded'
  <2>1. Guarded /\ UNCHANGED vars => Guarded'
    BY DEF Guarded, Valid, vars, memory, disk, ghosts
  <2>. QED BY <2>1, GuardedStep
<1>3. TypeOK /\ Hashes /\ Guarded => RemovedStaysRemoved
  BY HasPlainFile DEF Guarded, RemovedStaysRemoved, TypeOK
<1>4. Spec => [](TypeOK /\ Idle /\ Alive /\ Hashes /\ Known)
  BY LibraryKnown
<1>. QED BY <1>1, <1>2, <1>3, <1>4, PTL DEF Spec

-----------------------------------------------------------------------------
(* Listed torrents *)

\* What is listed is not guarded, and has its file or an alert that leads to one.
Kept ==
  /\ \A t \in Valid : <<t, "best">> \notin removed
  /\ \A t \in Valid :
       \/ file[<<t, "best">>] # None
       \/ \E a \in Range(alerts) : a.kind \in {"saved", "metadata"} /\ a.t = t

\* A listed torrent keeps its file, or the alert that leads to one.
LEMMA KeptStep ==
  ASSUME TypeOK, Idle, Alive, Plain, Hashes, Known, Kept, Next,
         "readd" \notin Ops, "unwritable" \notin Ops
  PROVE  Kept'
<1>. DEFINE A(v, rm) == \A t \in v : <<t, "best">> \notin rm
            P(q, t) == \E a \in Range(q) : a.kind \in {"saved", "metadata"} /\ a.t = t
            B(v, f, q) == \A t \in v : f[<<t, "best">>] # None \/ P(q, t)
            Good == A(Valid', removed') /\ B(Valid', file', alerts')
<1>0. /\ A(Valid, removed) /\ B(Valid, file, alerts)
      /\ alerts \in Seq(Alert) /\ file \in [Keys -> Content \cup {None}]
      /\ Valid \subseteq Torrents
      /\ \A t \in Torrents : <<t, "best">> \in Keys
  BY ValidType, PlainKey DEF Kept, TypeOK
<1>. SUFFICES Good
  BY DEF Kept
<1>1. UNCHANGED torrents => Valid' = Valid
  BY DEF Valid
<1>2. ASSUME NEW s \in Seq(Alert), NEW r, Posted(s, r), UNCHANGED file,
             \A t \in Valid' : \/ t \in Valid /\ (P(alerts, t) => P(s, t))
                               \/ \E i \in 1..Len(r) : r[i].t = t /\ r[i].kind = "saved"
      PROVE  B(Valid', file', alerts')
  <2>1. Range(alerts') = Range(s) \cup Range(r) /\ \A i \in 1..Len(r) : r[i] \in Range(r)
    BY <1>2, RangePosted
  <2>. SUFFICES ASSUME NEW t \in Valid' PROVE file'[<<t, "best">>] # None \/ P(alerts', t)
    OBVIOUS
  <2>2. CASE t \in Valid /\ (P(alerts, t) => P(s, t))
    BY <1>0, <1>2, <2>1, <2>2
  <2>3. CASE \E i \in 1..Len(r) : r[i].t = t /\ r[i].kind = "saved"
    BY <2>1, <2>3
  <2>. QED BY <1>2, <2>2, <2>3
<1>3. ASSUME NEW kind, Processing(kind)
      PROVE  /\ Range(alerts) = {Head(alerts)} \cup Range(Tail(alerts)) /\ Tail(alerts) \in Seq(Alert)
             /\ Head(alerts) \in Alert /\ Head(alerts).kind = kind
  BY <1>3, RangeHandled, HeadType
<1>4. ASSUME UNCHANGED <<file, removed, torrents>>, NEW s \in Seq(Alert), NEW r, Posted(s, r),
             \A t : P(alerts, t) => P(s, t)
      PROVE  Good
  BY <1>0, <1>1, <1>2, <1>4, ZenonT(60)
<1>5. ASSUME UNCHANGED <<file, removed, torrents>>, \A t : P(alerts, t) => P(alerts', t) PROVE Good
  BY <1>0, <1>1, <1>5
<1>6. Libtorrent => Good
  <2>1. ASSUME NEW a \in Alert, alerts' = Append(alerts, a), UNCHANGED <<file, removed, torrents>>
        PROVE  Good
    <3>1. Range(alerts') = Range(alerts) \cup {a}
      BY <1>0, <2>1, RangeAppend
    <3>. QED BY <1>5, <2>1, <3>1
  <2>2. StatusUpdate => Good
    BY <1>5 DEF StatusUpdate, disk
  <2>3. ASSUME NEW t \in Torrents, MetadataArrives(t) PROVE Good
    <3>. DEFINE a == [kind |-> "metadata", t |-> t, data |-> Live(t)]
    <3>1. a \in Alert
      BY LiveType DEF Alert, Kinds
    <3>. HIDE DEF a
    <3>. QED BY <2>1, <2>3, <3>1 DEF MetadataArrives, a, disk
  <2>4. ASSUME NEW t \in Torrents, PieceArrives(t) PROVE Good
    <3>. DEFINE a == [kind |-> "piece", t |-> t, data |-> Live(t)]
    <3>1. a \in Alert
      BY LiveType DEF Alert, Kinds
    <3>. HIDE DEF a
    <3>. QED BY <2>1, <2>4, <3>1 DEF PieceArrives, a, disk
  <2>. QED BY <2>2, <2>3, <2>4 DEF Libtorrent
<1>7. ProcessAlerts => Good
  <2>1. ASSUME NEW ok \in Writes, OnResumeDataReady(ok) PROVE Good
    <3>. DEFINE t == Head(alerts).t
                c == Head(alerts).data
    <3>1. /\ file' = Written(<<t, "best">>, c, ok) /\ alerts' = Tail(alerts)
          /\ UNCHANGED <<removed, torrents>>
      BY <2>1, PlainKey DEF OnResumeDataReady
    <3>2. /\ t \in Torrents /\ c # None
          /\ Range(alerts) = {Head(alerts)} \cup Range(alerts')
      BY <1>3, <2>1, <3>1, NoneAssumption DEF OnResumeDataReady, Alert
    <3>3. \A x : P(alerts, x) => x = t \/ P(alerts', x)
      BY <3>2
    <3>. HIDE DEF t, c
    <3>4. <<t, "best">> \in removed \/ file' = [file EXCEPT ![<<t, "best">>] = c]
      BY <3>1 DEF Written, Writes
    <3>5. file' = file \/ file' = [file EXCEPT ![<<t, "best">>] = c]
      BY <3>1 DEF Written
    <3>6. \A x \in Torrents : file[<<x, "best">>] # None => file'[<<x, "best">>] # None
      BY <1>0, <3>2, <3>5
    <3>7. t \in Valid => file'[<<t, "best">>] # None
      BY <1>0, <3>2, <3>4
    <3>8. ASSUME NEW x \in Valid PROVE file'[<<x, "best">>] # None \/ P(alerts', x)
      BY <1>0, <3>3, <3>6, <3>7
    <3>. QED BY <1>0, <1>1, <3>1, <3>8
  <2>2. ASSUME OnResumeDataFailed \/ OnDeadHandle PROVE Good
    <3>1. UNCHANGED <<file, removed, torrents>> /\ alerts' = Tail(alerts)
      BY <2>2 DEF OnResumeDataFailed, OnDeadHandle, disk
    <3>2. \A t : P(alerts, t) => P(alerts', t)
      BY <1>3, <2>2, <3>1 DEF OnResumeDataFailed, OnDeadHandle
    <3>. QED BY <1>5, <3>1, <3>2
  <2>3. ASSUME OnMetadataReceived PROVE Good
    <3>1. PICK r : /\ Posted(Tail(alerts), r) /\ Len(r) = 1
                   /\ r[1].t = Head(alerts).t /\ r[1].kind = "saved"
      BY <2>3, PostsMetadata
    <3>2. file' = file
      BY <1>0, <2>3, PlainKey DEF OnMetadataReceived
    <3>3. UNCHANGED <<removed, torrents>>
      BY <2>3 DEF OnMetadataReceived
    <3>4. Range(alerts) = {Head(alerts)} \cup Range(Tail(alerts)) /\ Tail(alerts) \in Seq(Alert)
      BY <1>3, <2>3 DEF OnMetadataReceived
    <3>5. \A t \in Valid' : \/ t \in Valid /\ (P(alerts, t) => P(Tail(alerts), t))
                            \/ \E i \in 1..Len(r) : r[i].t = t /\ r[i].kind = "saved"
      BY <1>1, <3>1, <3>3, <3>4
    <3>6. B(Valid', file', alerts')
      <4>. DEFINE q == Tail(alerts)
      <4>1. q \in Seq(Alert) /\ Posted(q, r)
        BY <3>1, <3>4
      <4>2. \A t \in Valid' : \/ t \in Valid /\ (P(alerts, t) => P(q, t))
                              \/ \E i \in 1..Len(r) : r[i].t = t /\ r[i].kind = "saved"
        BY <3>5
      <4>. HIDE DEF P, B, q
      <4>. QED BY <1>2, <3>2, <4>1, <4>2
    <3>. QED BY <1>0, <1>1, <3>3, <3>6
  <2>4. ASSUME NEW due \in BOOLEAN, OnPieceFinished(due) PROVE Good
    <3>1. PICK r : Posted(Tail(alerts), r)
      BY <2>4, PostsPiece
    <3>2. UNCHANGED <<file, removed, torrents>>
      BY <2>4 DEF OnPieceFinished, disk
    <3>3. (\A t : P(alerts, t) => P(Tail(alerts), t)) /\ Tail(alerts) \in Seq(Alert)
      BY <1>3, <2>4 DEF OnPieceFinished
    <3>. QED BY <1>4, <3>1, <3>2, <3>3
  <2>. QED BY <2>1, <2>2, <2>3, <2>4 DEF ProcessAlerts
<1>8. User => Good
  <2>1. ASSUME NEW t \in Torrents, NEW ok \in Writes, AddMagnet(t, ok) PROVE Good
    <3>. DEFINE c == [meta |-> FALSE, run |-> "runs", pieces |-> 0]
    <3>1. /\ Valid' = Valid \cup {t} /\ UNCHANGED <<removed, alerts>> /\ <<t, "best">> \notin removed
          /\ file' = [file EXCEPT ![<<t, "best">>] = c]
      BY <2>1, MagnetEffects DEF Writes
    <3>2. c \in Content
      BY BoundAssumption DEF Content, Reason
    <3>3. c # None
      BY <3>2, NoneAssumption
    <3>. HIDE DEF c
    <3>. QED BY <1>0, <3>1, <3>3
  <2>2. ASSUME NEW t \in Torrents, NEW why \in {"runs", "user"}, AddTorrent(t, why) PROVE Good
    <3>1. /\ Valid' = Valid \cup {t} /\ UNCHANGED <<removed, file>> /\ <<t, "best">> \notin removed
      BY <2>2, AddEffects
    <3>2. PICK r : Posted(alerts, r) /\ Len(r) = 1 /\ r[1].t = t /\ r[1].kind = "saved"
      BY <2>2, AddTorrentPosts
    <3>3. \A x \in Valid' : \/ x \in Valid /\ (P(alerts, x) => P(alerts, x))
                            \/ \E i \in 1..Len(r) : r[i].t = x /\ r[i].kind = "saved"
      BY <3>1, <3>2
    <3>4. B(Valid', file', alerts')
      <4>1. alerts \in Seq(Alert)
        BY <1>0
      <4>. HIDE DEF P, B
      <4>. QED BY <1>2, <3>1, <3>2, <3>3, <4>1
    <3>. QED BY <1>0, <3>1, <3>4
  <2>3. ASSUME NEW k \in Keys, NEW fails \in BOOLEAN, Restore(k, fails) PROVE Good
    <3>. DEFINE t == k[1]
    <3>1. /\ Valid' = Valid \cup {t} /\ UNCHANGED file /\ removed' = removed \ {<<t, "best">>}
          /\ \E r : Posted(alerts, r) /\ Len(r) = 1 /\ r[1].t = t /\ r[1].kind = "saved"
      BY <2>3, RestoreEffects
    <3>. HIDE DEF t
    <3>2. PICK r : Posted(alerts, r) /\ Len(r) = 1 /\ r[1].t = t /\ r[1].kind = "saved"
      BY <3>1
    <3>3. \A x \in Valid' : \/ x \in Valid /\ (P(alerts, x) => P(alerts, x))
                            \/ \E i \in 1..Len(r) : r[i].t = x /\ r[i].kind = "saved"
      BY <3>1, <3>2
    <3>4. B(Valid', file', alerts')
      <4>1. alerts \in Seq(Alert)
        BY <1>0
      <4>. HIDE DEF P, B
      <4>. QED BY <1>2, <3>1, <3>2, <3>3, <4>1, ZenonT(60)
    <3>. QED BY <1>0, <3>1, <3>4
  <2>4. ASSUME NEW i \in 1..Len(torrents), NEW old \in Old, RemoveTorrent(i, old) PROVE Good
    <3>1. CASE torrents[i] = None
      <4>1. UNCHANGED <<file, removed, alerts>>
        BY <2>4, <3>1 DEF RemoveTorrent
      <4>2. Valid' = Valid \ {None}
        BY <2>4, <3>1, ValidRemoved
      <4>. QED BY <1>0, <4>1, <4>2
    <3>2. CASE torrents[i] # None
      <4>. DEFINE t == torrents[i]
      <4>1. t \in meta \cup uriKnown
        BY <3>2 DEF Known, Valid, Range, TypeOK
      <4>2. /\ file' = [file EXCEPT ![<<t, "best">>] = None]
            /\ alerts' = Orphaned(t) /\ removed' = Noted(<<t, "best">>)
        BY <2>4, <3>2, <4>1, RemoveEffects
      <4>3. Valid' = Valid \ {t}
        BY <2>4, ValidRemoved
      <4>4. \A a \in Range(alerts) : a.t # t => a \in Range(alerts')
        BY <4>2, RangeOrphaned
      <4>. HIDE DEF t
      <4>5. removed' \subseteq removed \cup {<<t, "best">>}
        BY <4>2 DEF Noted
      <4>6. \A x \in Valid' : P(alerts, x) => P(alerts', x)
        BY <4>3, <4>4
      <4>. QED BY <1>0, <4>2, <4>3, <4>5, <4>6
    <3>. QED BY <3>1, <3>2
  <2>5. ASSUME ClearRemovedHistory PROVE Good
    BY <1>5, <2>5 DEF ClearRemovedHistory, memory
  <2>6. ASSUME NEW S \in SUBSET Valid, NEW why \in {"runs", "user"}, NEW fails \in BOOLEAN,
               SetRun(S, why, fails)
        PROVE  Good
    <3>1. PICK r : Posted(alerts, r)
      BY <2>6, PostsRun
    <3>2. UNCHANGED <<file, removed, torrents>>
      BY <2>6 DEF SetRun, disk
    <3>. QED BY <1>0, <1>4, <3>1, <3>2
  <2>. QED BY <2>1, <2>2, <2>3, <2>4, <2>5, <2>6 DEF User
<1>9. Session => Good
  <2>1. ASSUME Saving, UNCHANGED <<file, removed, torrents, meta, run, pieces>> PROVE Good
    <3>1. PICK r : Posted(alerts, r)
      BY <2>1, PostsSaving
    <3>. QED BY <1>0, <1>4, <2>1, <3>1
  <2>2. PauseForDisk \/ Start => Good
    BY <1>5 DEF PauseForDisk, Start, memory, disk
  <2>3. ASSUME Forget PROVE Good
    <3>1. Valid' = {}
      BY <2>3 DEF Forget, Valid, Range
    <3>. QED BY <3>1
  <2>4. ASSUME NEW best \in BOOLEAN, NEW old \in Old, NEW fate \in Fates, LoadResumeData(best, old, fate) PROVE Good
    <3>1. Range(torrents') = Stored /\ None \notin Stored
      BY <2>4, LoadPlain, NoneAssumption DEF Stored, Plain
    <3>2. Valid' = Stored
      BY <3>1 DEF Valid
    <3>3. file' = file /\ removed' = {}
      BY <2>4, LoadPlain DEF LoadResumeData, Idle, Plain
    <3>4. \A t \in Stored : file[<<t, "best">>] # None
      BY HasPlainFile DEF Stored
    <3>. QED BY <3>2, <3>3, <3>4
  <2>. QED BY <2>1, <2>2, <2>3, <2>4 DEF Session, SaveResumeData, Quit, Crash, FlushEnds, disk
<1>. QED BY <1>6, <1>7, <1>8, <1>9 DEF Next

\* What is in the list survives a restart: a torrent has its resume file, or the
\* save that writes it is on its way.
THEOREM StoreSound ==
  ASSUME Plain, "readd" \notin Ops, "unwritable" \notin Ops
  PROVE  Spec => []StoreIsSound
<1>1. Init => Kept
  BY DEF Init, Kept, Valid, Range
<1>2. TypeOK /\ Idle /\ Alive /\ Hashes /\ Known /\ Kept /\ [Next]_vars => Kept'
  <2>1. Kept /\ UNCHANGED vars => Kept'
    BY DEF Kept, Valid, vars, memory, disk, ghosts
  <2>. QED BY <2>1, KeptStep
<1>3. TypeOK /\ Hashes /\ Kept => ListedIsStored
  <2>. SUFFICES ASSUME TypeOK, Hashes, Kept, NEW t \in Valid, ~HasFile(t) PROVE Pending(t)
    BY DEF ListedIsStored
  <2>1. PICK a \in Range(alerts) : a.kind \in {"saved", "metadata"} /\ a.t = t
    BY ValidType, HasPlainFile DEF Kept
  <2>2. \E i \in 1..Len(alerts) : alerts[i] = a
    BY RangeElements DEF TypeOK
  <2>. QED BY <2>1, <2>2 DEF Pending
<1>4. Spec => [](TypeOK /\ Idle /\ Alive /\ Hashes /\ Known)
  BY LibraryKnown
<1>. QED BY <1>1, <1>2, <1>3, <1>4, FlushWaitsForAnswers, PTL DEF Spec, StoreIsSound

-----------------------------------------------------------------------------
(* The promise to the user *)

\* What TorrentLibrary calls stored is what has its file.
LEMMA StoredIs ==
  ASSUME Plain
  PROVE  /\ Hashes => Stored = {t \in Torrents : file[<<t, "best">>] # None}
         /\ Hashes' => Stored' = {t \in Torrents : file'[<<t, "best">>] # None}
<1>1. \A t \in Torrents : KeysOf(t) = {<<t, "uri">>, <<t, "best">>}
  BY DEF KeysOf, Keys
<1>2. ASSUME Hashes PROVE \A t \in Torrents : HasFile(t) <=> file[<<t, "best">>] # None
  BY <1>1, <1>2 DEF HasFile, Hashes
<1>3. ASSUME Hashes' PROVE \A t \in Torrents : HasFile(t)' <=> file'[<<t, "best">>] # None
  BY <1>1, <1>3 DEF HasFile, Hashes
<1>. QED BY <1>2, <1>3 DEF Stored

\* Every step is a step of the library, or nothing to it.
LEMMA LibraryStep ==
  ASSUME TypeOK, Idle, Alive, Plain, Hashes, Known, Guarded, Next
  PROVE  Library!Next \/ UNCHANGED Library!vars
<1>. DEFINE up(p) == p \in {"running", "flushing"}
            S(f) == {t \in Torrents : f[<<t, "best">>] # None}
            Good == Library!Next \/ UNCHANGED Library!vars
            Same == up(phase') = up(phase) /\ Valid' = Valid
<1>0. /\ Stored = S(file) /\ Stored' = S(file')
      /\ alerts \in Seq(Alert) /\ file \in [Keys -> Content \cup {None}]
      /\ Valid \subseteq Torrents
      /\ \A t \in Torrents : <<t, "best">> \in Keys
  BY ValidType, PlainKey, StoredIs, HashesStep DEF TypeOK
<1>. USE <1>0
<1>1. UNCHANGED torrents => Valid' = Valid
  BY DEF Valid
<1>2. ASSUME Same, S(file') = S(file) PROVE Good
  BY <1>2 DEF Library!vars
<1>3. ASSUME UNCHANGED <<phase, torrents, file>> PROVE Good
  BY <1>1, <1>2, <1>3
<1>4. ASSUME NEW t \in Torrents, up(phase), up(phase'), Valid' = Valid \cup {t},
             S(file') \in {S(file), S(file) \cup {t}}, t \in Valid => S(file') = S(file)
      PROVE  Good
  <2>1. CASE t \in Valid
    BY <1>2, <1>4, <2>1
  <2>2. CASE t \notin Valid
    <3>. HIDE DEF S
    <3>1. Library!Add(t)
      BY <1>4, <2>2 DEF Library!Add
    <3>. QED BY <3>1 DEF Library!Next
  <2>. QED BY <2>1, <2>2
<1>5. ASSUME up(phase), ~up(phase'), Valid' = {}, S(file') = S(file) PROVE Good
  <2>. HIDE DEF S
  <2>1. Library!Crash
    BY <1>5 DEF Library!Crash
  <2>. QED BY <2>1 DEF Library!Next
<1>6. ASSUME ~up(phase), up(phase'), Valid' \in {S(file), {}}, S(file') = S(file) PROVE Good
  <2>. HIDE DEF S
  <2>1. Library!Start
    BY <1>6 DEF Library!Start
  <2>. QED BY <2>1 DEF Library!Next
<1>7. Libtorrent => Good
  BY <1>3 DEF Libtorrent, StatusUpdate, MetadataArrives, PieceArrives, disk
<1>8. ProcessAlerts => Good
  <2>1. ASSUME NEW ok \in Writes, OnResumeDataReady(ok) PROVE Good
    <3>. DEFINE t == Head(alerts).t
                c == Head(alerts).data
    <3>1. /\ file' = Written(<<t, "best">>, c, ok) /\ UNCHANGED <<phase, torrents>>
          /\ Processing("saved")
      BY <2>1, PlainKey DEF OnResumeDataReady
    <3>2. /\ Head(alerts) \in Range(alerts) /\ Head(alerts) \in Alert /\ Head(alerts).kind = "saved"
          /\ up(phase)
      BY <3>1, RangeHandled, HeadType DEF Processing
    <3>3. t \in Torrents /\ c # None
      BY <3>2, NoneAssumption DEF Alert
    <3>4. <<t, "best">> \in removed \/ t \in Valid
      BY <3>2 DEF Guarded
    <3>. HIDE DEF t, c
    <3>5. CASE <<t, "best">> \in removed \/ ~ok
      BY <1>3, <3>1, <3>5 DEF Written
    <3>6. CASE ~(<<t, "best">> \in removed \/ ~ok)
      <4>1. file' = [file EXCEPT ![<<t, "best">>] = c]
        BY <3>1, <3>6 DEF Written
      <4>2. S(file') = S(file) \cup {t}
        BY <3>3, <4>1
      <4>. HIDE DEF S
      <4>3. Library!Store(t)
        BY <1>1, <3>1, <3>2, <3>4, <3>6, <4>2 DEF Library!Store
      <4>. QED BY <3>3, <4>3 DEF Library!Next
    <3>. QED BY <3>5, <3>6
  <2>2. OnMetadataReceived => UNCHANGED <<phase, torrents, file>>
    BY PlainKey DEF OnMetadataReceived
  <2>3. OnResumeDataFailed \/ OnDeadHandle \/ (\E due \in BOOLEAN : OnPieceFinished(due))
          => UNCHANGED <<phase, torrents, file>>
    BY DEF OnResumeDataFailed, OnDeadHandle, OnPieceFinished, disk
  <2>. QED BY <1>3, <2>1, <2>2, <2>3 DEF ProcessAlerts
<1>9. User => Good
  <2>1. ASSUME NEW t \in Torrents, NEW ok \in Writes, AddMagnet(t, ok) PROVE Good
    <3>. DEFINE c == [meta |-> FALSE, run |-> "runs", pieces |-> 0]
    <3>1. /\ Valid' = Valid \cup {t} /\ t \notin Valid /\ phase = "running" /\ phase' = phase
          /\ file' = IF ok THEN [file EXCEPT ![<<t, "best">>] = c] ELSE file
      BY <2>1, MagnetEffects DEF AddMagnet, UserMay
    <3>2. c \in Content
      BY BoundAssumption DEF Content, Reason
    <3>3. c # None
      BY <3>2, NoneAssumption
    <3>. HIDE DEF c
    <3>4. S(file') = S(file) \cup {t} \/ S(file') = S(file)
      BY <3>1, <3>3
    <3>. HIDE DEF S
    <3>. QED BY <1>4, <3>1, <3>4
  <2>2. ASSUME NEW t \in Torrents, NEW why \in {"runs", "user"}, AddTorrent(t, why) PROVE Good
    <3>1. Valid' = Valid \cup {t} /\ phase = "running" /\ UNCHANGED <<phase, file>>
      BY <2>2, AddEffects DEF AddTorrent, UserMay
    <3>. QED BY <1>4, <3>1
  <2>3. ASSUME NEW k \in Keys, NEW fails \in BOOLEAN, Restore(k, fails) PROVE Good
    <3>1. /\ k[1] \in Torrents /\ Valid' = Valid \cup {k[1]}
          /\ phase = "running" /\ UNCHANGED <<phase, file>>
      BY <2>3, RestoreEffects DEF Restore, UserMay
    <3>. QED BY <1>4, <3>1
  <2>4. ASSUME NEW i \in 1..Len(torrents), NEW old \in Old, RemoveTorrent(i, old) PROVE Good
    <3>1. CASE torrents[i] = None
      <4>1. UNCHANGED <<file, phase>>
        BY <2>4, <3>1 DEF RemoveTorrent
      <4>2. Valid' = Valid \ {None} /\ None \notin Valid
        BY <2>4, <3>1, ValidRemoved DEF Valid
      <4>. QED BY <1>2, <4>1, <4>2
    <3>2. CASE torrents[i] # None
      <4>. DEFINE t == torrents[i]
      <4>1. t \in meta \cup uriKnown
        BY <3>2 DEF Known, Valid, Range, TypeOK
      <4>2. file' = [file EXCEPT ![<<t, "best">>] = None] /\ t \in Valid
        BY <2>4, <3>2, <4>1, RemoveEffects
      <4>3. Valid' = Valid \ {t} /\ phase = "running" /\ phase' = phase
        BY <2>4, ValidRemoved DEF RemoveTorrent, UserMay
      <4>. HIDE DEF t
      <4>4. S(file') = S(file) \ {t}
        BY <4>2
      <4>. HIDE DEF S
      <4>5. Library!Remove(t)
        BY <4>2, <4>3, <4>4 DEF Library!Remove
      <4>. QED BY <4>2, <4>5 DEF Library!Next
    <3>. QED BY <3>1, <3>2
  <2>5. ClearRemovedHistory => Good
    BY <1>3 DEF ClearRemovedHistory, memory
  <2>6. ASSUME NEW V, NEW why, NEW fails, SetRun(V, why, fails) PROVE Good
    BY <1>3, <2>6 DEF SetRun, disk
  <2>. QED BY <2>1, <2>2, <2>3, <2>4, <2>5, <2>6 DEF User
<1>10. Session => Good
  <2>1. PauseForDisk \/ SaveResumeData => Good
    BY <1>3 DEF PauseForDisk, SaveResumeData, disk
  <2>2. Quit => Good
    BY <1>1, <1>2 DEF Quit, disk
  <2>3. ASSUME phase' = "down", Forget, UNCHANGED file, phase \in {"loading", "running", "flushing"}
        PROVE  Good
    <3>1. Valid' = {}
      BY <2>3 DEF Forget, Valid, Range
    <3>2. phase = "loading" => Valid = {}
      BY DEF Idle, Valid, Range
    <3>. QED BY <1>2, <1>5, <2>3, <3>1, <3>2
  <2>4. Start => Good
    <3>. SUFFICES ASSUME Start PROVE Good
      OBVIOUS
    <3>1. Valid = {} /\ Valid' = Valid /\ file' = file /\ phase = "down"
      BY <1>1 DEF Start, memory, Idle, Valid, Range
    <3>2. phase' = "running" \/ phase' = "loading"
      BY DEF Start
    <3>. QED BY <1>2, <1>6, <3>1, <3>2
  <2>5. ASSUME NEW best \in BOOLEAN, NEW old \in Old, NEW fate \in Fates, LoadResumeData(best, old, fate) PROVE Good
    <3>1. Range(torrents') = Stored /\ None \notin Stored
      BY <2>5, LoadPlain, NoneAssumption DEF Stored, Plain
    <3>2. Valid' = Stored
      BY <3>1 DEF Valid
    <3>3. file' = file /\ phase = "loading" /\ phase' = "running"
      BY <2>5, LoadPlain DEF LoadResumeData, Plain
    <3>. QED BY <1>6, <3>2, <3>3
  <2>6. Crash \/ (\E late \in BOOLEAN : FlushEnds(late)) => Good
    BY <2>3 DEF Crash, FlushEnds, disk, TypeOK
  <2>. QED BY <2>1, <2>2, <2>4, <2>5, <2>6 DEF Session
<1>. QED BY <1>7, <1>8, <1>9, <1>10 DEF Next

\* The resume store keeps what TorrentLibrary promises.
THEOREM LibraryKept ==
  ASSUME Plain, Roomy
  PROVE  Spec => ImplementsLibrary
<1>1. Init => Guarded /\ Library!Init
  <2>. SUFFICES ASSUME Init PROVE Guarded /\ Library!Init
    OBVIOUS
  <2>1. Valid = {} /\ Range(alerts) = {} /\ Stored \subseteq Torrents
    BY DEF Init, Valid, Range, Stored
  <2>. QED BY <2>1 DEF Init, Guarded, Library!Init
<1>2. TypeOK /\ Idle /\ Alive /\ Hashes /\ Known /\ Guarded /\ [Next]_vars
        => Guarded' /\ [Library!Next]_(Library!vars)
  <2>1. Guarded /\ UNCHANGED vars => Guarded'
    BY DEF Guarded, Valid, vars, memory, disk, ghosts
  <2>2. UNCHANGED vars => UNCHANGED Library!vars
    BY DEF Valid, Stored, HasFile, vars, memory, disk, ghosts, Library!vars
  <2>. QED BY <2>1, <2>2, GuardedStep, LibraryStep
<1>3. Spec => [](TypeOK /\ Idle /\ Alive /\ Hashes /\ Known)
  BY LibraryKnown
<1>. QED BY <1>1, <1>2, <1>3, PTL DEF Spec, ImplementsLibrary, Library!Spec

-----------------------------------------------------------------------------
(* Resume files stay *)

\* Only the removal of a torrent removes its file.
LEMMA FileStep ==
  ASSUME TypeOK, Plain, Hashes, Known, Next, NEW t \in Torrents, HasFile(t), t \notin gone'
  PROVE  HasFile(t)'
<1>0. /\ file \in [Keys -> Content \cup {None}] /\ <<t, "best">> \in Keys
      /\ file[<<t, "best">>] # None
      /\ HasFile(t)' <=> file'[<<t, "best">>] # None
  BY PlainKey, StoredIs, HashesStep DEF TypeOK, Stored
<1>. SUFFICES file'[<<t, "best">>] # None
  BY <1>0
<1>1. ASSUME UNCHANGED file PROVE file'[<<t, "best">>] # None
  BY <1>0, <1>1
<1>2. Libtorrent => UNCHANGED file
  BY DEF Libtorrent, StatusUpdate, MetadataArrives, PieceArrives, disk
<1>3. ProcessAlerts => file'[<<t, "best">>] # None
  <2>1. ASSUME NEW ok \in Writes, OnResumeDataReady(ok) PROVE file'[<<t, "best">>] # None
    <3>. DEFINE k == <<Head(alerts).t, "best">>
                c == Head(alerts).data
    <3>1. file' = Written(k, c, ok) /\ Processing("saved")
      BY <2>1, PlainKey DEF OnResumeDataReady
    <3>2. c # None
      BY <3>1, HeadType, NoneAssumption DEF Alert
    <3>. HIDE DEF k, c
    <3>. QED BY <1>0, <3>1, <3>2 DEF Written
  <2>2. OnMetadataReceived => UNCHANGED file
    BY <1>0, PlainKey DEF OnMetadataReceived
  <2>3. OnResumeDataFailed \/ OnDeadHandle \/ (\E due \in BOOLEAN : OnPieceFinished(due)) => UNCHANGED file
    BY DEF OnResumeDataFailed, OnDeadHandle, OnPieceFinished, disk
  <2>. QED BY <1>1, <2>1, <2>2, <2>3 DEF ProcessAlerts
<1>4. User => file'[<<t, "best">>] # None
  <2>1. ASSUME NEW x \in Torrents, NEW ok \in Writes, AddMagnet(x, ok) PROVE file'[<<t, "best">>] # None
    <3>. DEFINE c == [meta |-> FALSE, run |-> "runs", pieces |-> 0]
    <3>1. file' = [file EXCEPT ![<<x, "best">>] = c] \/ file' = file
      BY <2>1, MagnetEffects
    <3>2. c \in Content
      BY BoundAssumption DEF Content, Reason
    <3>3. c # None
      BY <3>2, NoneAssumption
    <3>. HIDE DEF c
    <3>. QED BY <1>0, <3>1, <3>3
  <2>2. ASSUME NEW i \in 1..Len(torrents), NEW old \in Old, RemoveTorrent(i, old)
        PROVE  file'[<<t, "best">>] # None
    <3>1. CASE torrents[i] = None
      BY <1>1, <2>2, <3>1 DEF RemoveTorrent
    <3>2. CASE torrents[i] # None
      <4>1. torrents[i] \in meta \cup uriKnown
        BY <3>2 DEF Known, Valid, Range, TypeOK
      <4>2. /\ file' = [file EXCEPT ![<<torrents[i], "best">>] = None]
            /\ gone' = gone \cup {torrents[i]}
        BY <2>2, <3>2, <4>1, RemoveEffects
      <4>3. <<t, "best">> # <<torrents[i], "best">>
        BY <4>2
      <4>. QED BY <1>0, <4>2, <4>3
    <3>. QED BY <3>1, <3>2
  <2>3. ((\E x \in Torrents, why \in {"runs", "user"} : AddTorrent(x, why)) \/ ClearRemovedHistory
         \/ \E k \in Keys, fails \in BOOLEAN : Restore(k, fails)) => UNCHANGED file
    BY DEF AddTorrent, ClearRemovedHistory, Restore, disk
  <2>4. ASSUME NEW S, NEW why, NEW fails, SetRun(S, why, fails) PROVE UNCHANGED file
    BY <2>4 DEF SetRun, disk
  <2>. QED BY <1>1, <2>1, <2>2, <2>3, <2>4 DEF User
<1>5. Session => UNCHANGED file
  <2>1. ASSUME NEW best \in BOOLEAN, NEW old \in Old, NEW fate \in Fates,
               LoadResumeData(best, old, fate)
        PROVE  UNCHANGED file
    BY <2>1, LoadPlain DEF Plain
  <2>. QED BY <2>1 DEF Session, PauseForDisk, SaveResumeData, Quit, Crash, FlushEnds, Start,
                       memory, disk
<1>. QED BY <1>1, <1>2, <1>3, <1>4, <1>5 DEF Next

\* Nothing but its removal takes the resume file of a torrent away: at no step
\* could a crash drop it.
THEOREM StoredForGood ==
  ASSUME Plain
  PROVE  Spec => StoredStaysStored
<1>1. TypeOK /\ Hashes /\ Known /\ [Next]_vars
        => [\A t \in Torrents : HasFile(t) /\ t \notin gone' => HasFile(t)']_vars
  BY FileStep
<1>2. Spec => [](TypeOK /\ Idle /\ Alive /\ Hashes /\ Known)
  BY LibraryKnown
<1>. QED BY <1>1, <1>2, PTL DEF Spec, StoredStaysStored

-----------------------------------------------------------------------------
(* The flush at exit *)

\* c is what the shutdown promised to save, or newer.
Fits(c, p) == c.meta /\ c.run = p.run /\ c.pieces >= p.pieces

Saves(a, t) == a.kind = "saved" /\ a.t = t

\* The file f (at place 0), or an answer in the queue q, keeps the promise p for
\* t; and no answer behind it breaks it again.
KeptAt(i, t, p, q, f) ==
  /\ i = 0 => f # None /\ Fits(f, p)
  /\ i > 0 => Saves(q[i], t) /\ Fits(q[i].data, p)
  /\ \A j \in 1..Len(q) : j > i /\ Saves(q[j], t) => Fits(q[j].data, p)
OnItsWay(t, p, q, f) == \E i \in 0..Len(q) : KeptAt(i, t, p, q, f)

\* More answers leave a save that is on its way on its way, if they are as new.
LEMMA WayPosted ==
  ASSUME NEW t, NEW p, NEW f, NEW s \in Seq(Alert), NEW r \in Seq(Alert),
         \A i \in 1..Len(r) : Saves(r[i], t) => Fits(r[i].data, p),
         OnItsWay(t, p, s, f)
  PROVE  OnItsWay(t, p, s \o r, f)
<1>. DEFINE q == s \o r
<1>1. /\ Len(q) = Len(s) + Len(r) /\ Len(s) \in Nat /\ Len(r) \in Nat
      /\ \A i \in 1..Len(s) : q[i] = s[i]
      /\ \A i \in 1..Len(r) : q[Len(s) + i] = r[i]
  BY CatElements
<1>2. PICK i \in 0..Len(s) : KeptAt(i, t, p, s, f)
  BY DEF OnItsWay
<1>. HIDE DEF q
<1>3. ASSUME NEW j \in 1..Len(q), j > i, Saves(q[j], t) PROVE Fits(q[j].data, p)
  <2>1. CASE j <= Len(s)
    BY <1>1, <1>2, <1>3, <2>1 DEF KeptAt
  <2>2. CASE j > Len(s)
    <3>1. j - Len(s) \in 1..Len(r) /\ Len(s) + (j - Len(s)) = j
      BY <1>1, <2>2
    <3>2. q[j] = r[j - Len(s)]
      BY <1>1, <3>1
    <3>. QED BY <1>3, <3>1, <3>2
  <2>. QED BY <1>1, <2>1, <2>2
<1>4. KeptAt(i, t, p, q, f)
  BY <1>1, <1>2, <1>3 DEF KeptAt
<1>5. i \in 0..Len(q)
  BY <1>1
<1>6. OnItsWay(t, p, q, f)
  BY <1>4, <1>5 DEF OnItsWay
<1>. QED BY <1>6 DEF q

\* A save that is answered is on its way.
LEMMA WayAnswered ==
  ASSUME NEW t, NEW p, NEW f, NEW s \in Seq(Alert), NEW r \in Seq(Alert),
         \A i \in 1..Len(r) : Saves(r[i], t) => Fits(r[i].data, p),
         \E i \in 1..Len(r) : Saves(r[i], t)
  PROVE  OnItsWay(t, p, s \o r, f)
<1>. DEFINE q == s \o r
<1>1. /\ Len(q) = Len(s) + Len(r) /\ Len(s) \in Nat /\ Len(r) \in Nat
      /\ \A i \in 1..Len(r) : q[Len(s) + i] = r[i]
  BY CatElements
<1>2. PICK i \in 1..Len(r) : Saves(r[i], t)
  OBVIOUS
<1>. HIDE DEF q
<1>3. ASSUME NEW j \in 1..Len(q), j > Len(s), Saves(q[j], t) PROVE Fits(q[j].data, p)
  <2>1. j - Len(s) \in 1..Len(r) /\ Len(s) + (j - Len(s)) = j
    BY <1>1, <1>3
  <2>2. q[j] = r[j - Len(s)]
    BY <1>1, <2>1
  <2>. QED BY <1>3, <2>1, <2>2
<1>4. Len(s) + i \in 1..Len(q) /\ Len(s) + i > Len(s) /\ q[Len(s) + i] = r[i]
  BY <1>1
<1>5. KeptAt(Len(s) + i, t, p, q, f)
  BY <1>1, <1>2, <1>3, <1>4 DEF KeptAt
<1>6. OnItsWay(t, p, q, f)
  BY <1>1, <1>4, <1>5 DEF OnItsWay
<1>. QED BY <1>6 DEF q

\* A save is on its way until it is handled, and then it is on disk.
LEMMA WayHandled ==
  ASSUME NEW t, NEW p, NEW f, NEW s \in Seq(Alert), s # <<>>, OnItsWay(t, p, s, f)
  PROVE  /\ ~Saves(Head(s), t) => OnItsWay(t, p, Tail(s), f)
         /\ Saves(Head(s), t) /\ Head(s).data # None => OnItsWay(t, p, Tail(s), Head(s).data)
<1>. DEFINE q == Tail(s)
            h == Head(s)
<1>1. /\ Len(s) \in Nat \ {0} /\ h = s[1] /\ Len(q) = Len(s) - 1
      /\ \A i \in 1..Len(s)-1 : q[i] = s[i+1]
  BY TailElements
<1>2. PICK i \in 0..Len(s) : KeptAt(i, t, p, s, f)
  BY DEF OnItsWay
<1>. HIDE DEF q, h
<1>3. ASSUME NEW j \in 1..Len(q), j + 1 > i, Saves(q[j], t) PROVE Fits(q[j].data, p)
  BY <1>1, <1>2, <1>3 DEF KeptAt
<1>4. CASE i > 1
  <2>1. i - 1 \in 1..Len(q) /\ q[i - 1] = s[i] /\ \A j \in 1..Len(q) : j > i - 1 => j + 1 > i
    BY <1>1, <1>4
  <2>2. \A g : KeptAt(i - 1, t, p, q, g)
    BY <1>2, <1>3, <1>4, <2>1 DEF KeptAt
  <2>3. \A g : OnItsWay(t, p, q, g)
    BY <1>1, <2>1, <2>2 DEF OnItsWay
  <2>. QED BY <2>3 DEF q, h
<1>5. CASE i <= 1
  <2>1. i \in {0, 1} /\ 1 \in 1..Len(s) /\ 0 \in 0..Len(q) /\ \A j \in 1..Len(q) : j > 0 => j + 1 > i
    BY <1>1, <1>5
  <2>2. ASSUME ~Saves(h, t) PROVE OnItsWay(t, p, q, f)
    <3>1. i = 0
      BY <1>1, <1>2, <2>1, <2>2 DEF KeptAt
    <3>2. KeptAt(0, t, p, q, f)
      BY <1>2, <1>3, <2>1, <3>1 DEF KeptAt
    <3>. QED BY <2>1, <3>2 DEF OnItsWay
  <2>3. ASSUME Saves(h, t), h.data # None PROVE OnItsWay(t, p, q, h.data)
    <3>1. Fits(h.data, p)
      BY <1>1, <1>2, <2>1, <2>3 DEF KeptAt
    <3>2. KeptAt(0, t, p, q, h.data)
      BY <1>3, <2>1, <2>3, <3>1 DEF KeptAt
    <3>. QED BY <2>1, <3>2 DEF OnItsWay
  <2>. QED BY <2>2, <2>3 DEF q, h
<1>. QED BY <1>4, <1>5

\* While the flush waits, what it set out to save is still so, and on its way.
Flushing ==
  phase = "flushing" =>
    \A t \in Torrents : promised[t] # None =>
      /\ t \in Valid /\ Fits(Live(t), promised[t])
      /\ OnItsWay(t, promised[t], alerts, file[<<t, "best">>])

\* During the flush, what it set out to save is on its way or on disk.
LEMMA FlushingStep ==
  ASSUME TypeOK, Idle, Alive, Plain, Hashes, Known, Kept, Flushing, Next,
         "unwritable" \notin Ops
  PROVE  Flushing'
<1>. DEFINE G(t, v, a, q, f) == t \in v /\ Fits(a, promised[t]) /\ OnItsWay(t, promised[t], q, f)
            Same == UNCHANGED <<torrents, meta, run, promised>>
<1>0. /\ alerts \in Seq(Alert) /\ file \in [Keys -> Content \cup {None}]
      /\ Valid \subseteq Torrents /\ promised \in [Torrents -> Content \cup {None}]
      /\ pieces \in [Torrents -> 0..MaxPieces] /\ MaxPieces \in Nat
      /\ \A t \in Torrents : <<t, "best">> \in Keys
  BY ValidType, PlainKey, BoundAssumption DEF TypeOK
<1>. SUFFICES ASSUME phase' = "flushing", NEW t \in Torrents, promised'[t] # None
              PROVE  /\ t \in Valid' /\ Fits(After(t), promised'[t])
                     /\ OnItsWay(t, promised'[t], alerts', file'[<<t, "best">>])
  <2>1. \A t \in Torrents : Live(t)' = After(t)
    BY DEF Live, After
  <2>. QED BY <2>1 DEF Flushing
<1>1. CASE phase = "flushing" /\ Same /\ (Libtorrent \/ ProcessAlerts)
  <2>1. Valid' = Valid /\ promised' = promised /\ meta' = meta /\ run' = run
    BY <1>1 DEF Valid
  <2>2. t \in Valid /\ Fits(Live(t), promised[t])
    BY <1>1, <2>1 DEF Flushing
  <2>3. OnItsWay(t, promised[t], alerts, file[<<t, "best">>])
    BY <1>1, <2>1 DEF Flushing
  <2>4. pieces'[t] \in Nat /\ pieces'[t] >= pieces[t]
    <3>1. pieces[t] \in Nat
      BY <1>0
    <3>2. ProcessAlerts => pieces' = pieces
      BY DEF ProcessAlerts, OnResumeDataReady, OnResumeDataFailed, OnMetadataReceived, OnDeadHandle,
             OnPieceFinished
    <3>3. ASSUME NEW x \in Torrents, PieceArrives(x) PROVE pieces'[t] \in Nat /\ pieces'[t] >= pieces[t]
      <4>1. pieces' = [pieces EXCEPT ![x] = @ + 1] /\ pieces[x] \in Nat
        BY <1>0, <3>3 DEF PieceArrives
      <4>. QED BY <1>0, <3>1, <4>1
    <3>4. StatusUpdate \/ (\E x \in Torrents : MetadataArrives(x)) => FALSE
      BY <1>1 DEF StatusUpdate, MetadataArrives
    <3>. QED BY <1>1, <3>1, <3>2, <3>3, <3>4 DEF Libtorrent
  <2>5. Fits(After(t), promised[t])
    <3>1. (t \in meta) = TRUE /\ run[t] = promised[t].run /\ pieces[t] >= promised[t].pieces
      BY <2>2 DEF Fits, Live
    <3>2. promised[t].pieces \in Nat /\ pieces[t] \in Nat
      BY <1>0, <2>1 DEF Content
    <3>3. pieces'[t] >= promised[t].pieces
      BY <2>4, <3>1, <3>2
    <3>. QED BY <2>1, <3>1, <3>3 DEF Fits, After
  <2>6. ASSUME NEW s \in Seq(Alert), NEW r, Posted(s, r), UNCHANGED file,
               OnItsWay(t, promised[t], s, file[<<t, "best">>])
        PROVE  OnItsWay(t, promised[t], alerts', file'[<<t, "best">>])
    <3>1. r \in Seq(Alert) /\ alerts' = s \o r
      BY <2>6 DEF Posted
    <3>2. \A i \in 1..Len(r) : Saves(r[i], t) => Fits(r[i].data, promised[t])
      BY <2>5, <2>6 DEF Posted, NewAnswer, Saves
    <3>. QED BY <2>6, <3>1, <3>2, WayPosted
  <2>7. ASSUME NEW kind, Processing(kind), kind # "saved"
        PROVE  Tail(alerts) \in Seq(Alert) /\ OnItsWay(t, promised[t], Tail(alerts), file[<<t, "best">>])
    <3>1. Tail(alerts) \in Seq(Alert) /\ alerts # <<>> /\ ~Saves(Head(alerts), t)
      BY <2>7, HeadType DEF Processing, Saves
    <3>. QED BY <1>0, <2>3, <3>1, WayHandled
  <2>8. OnItsWay(t, promised[t], alerts', file'[<<t, "best">>])
    <3>1. ASSUME NEW x \in Torrents, PieceArrives(x)
          PROVE  OnItsWay(t, promised[t], alerts', file'[<<t, "best">>])
      <4>. DEFINE a == [kind |-> "piece", t |-> x, data |-> Live(x)]
      <4>1. a \in Alert /\ ~Saves(a, t)
        BY LiveType DEF Alert, Kinds, Saves
      <4>2. alerts' = Append(alerts, a) /\ file' = file
        BY <3>1 DEF PieceArrives, disk
      <4>. HIDE DEF a
      <4>3. <<a>> \in Seq(Alert) /\ alerts' = alerts \o <<a>>
        <5>1. \A s \in Seq(Alert) : Append(s, a) = s \o <<a>>
          OBVIOUS
        <5>. QED BY <1>0, <4>1, <4>2, <5>1
      <4>4. \A i \in 1..Len(<<a>>) : Saves(<<a>>[i], t) => Fits(<<a>>[i].data, promised[t])
        BY <4>1
      <4>5. OnItsWay(t, promised[t], alerts \o <<a>>, file[<<t, "best">>])
        BY <1>0, <2>3, <4>3, <4>4, WayPosted
      <4>. QED BY <4>2, <4>3, <4>5
    <3>2. ASSUME NEW ok \in Writes, OnResumeDataReady(ok) PROVE OnItsWay(t, promised[t], alerts', file'[<<t, "best">>])
      <4>. DEFINE x == Head(alerts).t
                  c == Head(alerts).data
      <4>1. file' = Written(<<x, "best">>, c, ok) /\ alerts' = Tail(alerts) /\ Processing("saved")
        BY <3>2, PlainKey DEF OnResumeDataReady
      <4>2. /\ x \in Torrents /\ c # None /\ alerts # <<>> /\ (Saves(Head(alerts), t) <=> x = t)
        BY <4>1, HeadType, NoneAssumption DEF Alert, Saves, Processing
      <4>3. /\ x # t => OnItsWay(t, promised[t], Tail(alerts), file[<<t, "best">>])
            /\ x = t => OnItsWay(t, promised[t], Tail(alerts), c)
        BY <1>0, <2>3, <4>2, WayHandled
      <4>4. <<t, "best">> \notin removed
        BY <2>2 DEF Kept
      <4>. HIDE DEF x, c
      <4>5. file'[<<t, "best">>] = IF x = t THEN c ELSE file[<<t, "best">>]
        BY <1>0, <4>1, <4>2, <4>4 DEF Written, Writes
      <4>. QED BY <4>1, <4>3, <4>5
    <3>3. OnResumeDataFailed \/ OnDeadHandle => OnItsWay(t, promised[t], alerts', file'[<<t, "best">>])
      BY <2>7 DEF OnResumeDataFailed, OnDeadHandle, disk
    <3>4. ASSUME OnMetadataReceived PROVE OnItsWay(t, promised[t], alerts', file'[<<t, "best">>])
      <4>1. PICK r : Posted(Tail(alerts), r)
        BY <3>4, PostsMetadata
      <4>2. file' = file
        BY <1>0, <3>4, PlainKey DEF OnMetadataReceived
      <4>3. Processing("metadata")
        BY <3>4 DEF OnMetadataReceived
      <4>. QED BY <2>6, <2>7, <4>1, <4>2, <4>3
    <3>5. ASSUME NEW due \in BOOLEAN, OnPieceFinished(due)
          PROVE  OnItsWay(t, promised[t], alerts', file'[<<t, "best">>])
      <4>1. PICK r : Posted(Tail(alerts), r)
        BY <3>5, PostsPiece
      <4>2. file' = file /\ Processing("piece")
        BY <3>5 DEF OnPieceFinished, disk
      <4>. QED BY <2>6, <2>7, <4>1, <4>2
    <3>6. StatusUpdate \/ (\E x \in Torrents : MetadataArrives(x)) => FALSE
      BY <1>1 DEF StatusUpdate, MetadataArrives
    <3>. QED BY <1>1, <3>1, <3>2, <3>3, <3>4, <3>5, <3>6 DEF Libtorrent, ProcessAlerts
  <2>. QED BY <2>1, <2>2, <2>5, <2>8
<1>2. CASE Quit
  <2>1. /\ Saving /\ UNCHANGED <<torrents, meta, run, pieces, file>>
        /\ promised' = [x \in Torrents |-> IF x \in Valid \cap cachedMeta THEN Live(x) ELSE None]
    BY <1>2 DEF Quit, disk
  <2>2. Valid' = Valid /\ After(t) = Live(t)
    BY <2>1 DEF Valid, After, Live
  <2>3. t \in Valid \cap cachedMeta /\ promised'[t] = Live(t)
    BY <2>1
  <2>4. Fits(Live(t), Live(t))
    <3>1. t \in meta /\ pieces[t] \in Nat
      BY <1>0, <2>3 DEF TypeOK
    <3>2. Live(t).meta = TRUE /\ Live(t).pieces = pieces[t]
      BY <3>1 DEF Live
    <3>. QED BY <3>1, <3>2 DEF Fits
  <2>5. PICK r : /\ Posted(alerts, r)
                 /\ \A i \in 1..Len(r) : r[i].kind = "saved"
                 /\ \A x \in Valid \cap cachedMeta : \E i \in 1..Len(r) : r[i].t = x
    BY <2>1, PostsSaving
  <2>6. r \in Seq(Alert) /\ alerts' = alerts \o r
    BY <2>5 DEF Posted
  <2>7. \A i \in 1..Len(r) : Saves(r[i], t) => Fits(r[i].data, Live(t))
    BY <2>2, <2>4, <2>5 DEF Posted, NewAnswer, Saves
  <2>8. \E i \in 1..Len(r) : Saves(r[i], t)
    BY <2>3, <2>5 DEF Saves
  <2>9. OnItsWay(t, Live(t), alerts \o r, file'[<<t, "best">>])
    BY <1>0, <2>6, <2>7, <2>8, WayAnswered
  <2>. QED BY <2>2, <2>3, <2>4, <2>6, <2>9
<1>3. ProcessAlerts => Same /\ phase' = phase
  BY DEF ProcessAlerts, OnResumeDataReady, OnResumeDataFailed, OnMetadataReceived, OnDeadHandle,
         OnPieceFinished, ghosts
<1>4. Libtorrent => (Same /\ phase' = phase) \/ phase' = "running"
  BY DEF Libtorrent, StatusUpdate, MetadataArrives, PieceArrives, ghosts
<1>5. ~User
  BY DEF User, UserMay, AddMagnet, AddTorrent, Restore, RemoveTorrent, ClearRemovedHistory, SetRun
<1>6. Session => Quit
  BY DEF Session, UserMay, PauseForDisk, SaveResumeData, Crash, Start, FlushEnds, LoadResumeData
<1>. QED BY <1>1, <1>2, <1>3, <1>4, <1>5, <1>6 DEF Next

\* When the flush at exit stops because nothing is outstanding, what it set out
\* to save is on disk: every answer of an earlier save has been written before
\* those of the flush, and every answer is counted.
THEOREM FlushComplete ==
  ASSUME Plain, "readd" \notin Ops, "unwritable" \notin Ops, "pause" \notin Ops
  PROVE  Spec => []FlushIsComplete
<1>1. Init => Kept /\ Flushing /\ Counted
  <2>1. Due(<<>>) = {}
    BY DEF Due
  <2>2. Count(<<>>) = 0
    BY <2>1, FS_EmptySet DEF Count
  <2>. QED BY <2>2 DEF Init, Kept, Valid, Range, Flushing, Counted
<1>2. TypeOK /\ Idle /\ Alive /\ Hashes /\ Known /\ Kept /\ Flushing /\ Counted /\ [Next]_vars
        => (Kept /\ Flushing /\ Counted)'
  <2>1. Kept /\ Flushing /\ Counted /\ UNCHANGED vars => (Kept /\ Flushing /\ Counted)'
    BY DEF Kept, Flushing, Counted, Valid, Live, vars, memory, disk, ghosts
  <2>. QED BY <2>1, KeptStep, FlushingStep, CountedStep
<1>3. TypeOK /\ Flushing /\ Counted => FlushIsComplete
  <2>. SUFFICES ASSUME TypeOK, Flushing, Counted, phase = "flushing", outstanding = 0,
                       NEW t \in Torrents, promised[t] # None
                PROVE  LET f == file[Key(t, TRUE)] IN
                       f # None /\ f.run = promised[t].run /\ f.pieces >= promised[t].pieces
    BY DEF FlushIsComplete
  <2>1. alerts \in Seq(Alert) /\ Count(alerts) = 0
    BY DEF TypeOK, Counted
  <2>2. \A i \in 1..Len(alerts) : ~IsAnswer(alerts[i])
    <3>1. IsFiniteSet(Due(alerts))
      BY <2>1, DueFinite
    <3>2. Due(alerts) = {}
      BY <2>1, <3>1, FS_EmptySet DEF Count
    <3>. QED BY <3>2 DEF Due
  <2>3. PICK i \in 0..Len(alerts) : KeptAt(i, t, promised[t], alerts, file[<<t, "best">>])
    BY DEF Flushing, OnItsWay
  <2>4. i = 0
    BY <2>1, <2>2, <2>3 DEF KeptAt, Saves, IsAnswer
  <2>. QED BY <2>3, <2>4, PlainKey DEF KeptAt, Fits
<1>4. Spec => [](TypeOK /\ Idle /\ Alive /\ Hashes /\ Known)
  BY LibraryKnown
<1>. QED BY <1>1, <1>2, <1>3, <1>4, PTL DEF Spec
=============================================================================
